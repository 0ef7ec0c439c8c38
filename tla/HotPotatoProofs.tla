--------------------------- MODULE HotPotatoProofs ---------------------------
(***************************************************************************)
(* Theorems about HotPotato, for any processes and potatoes.               *)
(*                                                                         *)
(* Every step is first told by where its process is (Digest) and by what   *)
(* it does to the semaphores of a name (SemStep); the invariants then need *)
(* no more than that:                                                      *)
(*   Barriers  who may be past a barrier, and which names exist (OneBarrier*)
(*             and NobodyLeftPlaying follow);                              *)
(*   CInv      what is left of the names and the FIFOs (CleanEnd);         *)
(*   DInv      where every potato is, and that nobody else counts it       *)
(*             (CountsAgree, and that no count goes below zero).           *)
(***************************************************************************)
EXTENDS HotPotato, FiniteSetTheorems, SequenceTheorems, WellFoundedInduction, TLAPS

-----------------------------------------------------------------------------
(* What a step of p does, told by where p is: where it goes, which         *)
(* variables only it changes, and which action it is.                      *)
Labels == Filling \cup Opening \cup Gone \cup Behind
            \cup {"passFilled", "unlinkNamed", "unlinkFilled", "start", "findWith", "openWith",
                  "findNo", "openNo", "throw", "check", "wait", "read", "look", "count", "post", "dead"}

Moves(p) ==
  /\ pc[p] = "openNamed" => pc'[p] = "openFilled"
  /\ pc[p] = "openFilled" => pc'[p] = "lock"
  /\ pc[p] = "lock" => pc'[p] = "grow"
  /\ pc[p] = "grow" => pc'[p] = "fill"
  /\ pc[p] = "fill" => pc'[p] \in {"giveUp", "tellFull"}
  /\ pc[p] = "giveUp" => pc'[p] = "dead"
  /\ pc[p] = "tellFull" => pc'[p] = "unlock"
  /\ pc[p] = "unlock" => pc'[p] = "waitFilled"
  /\ pc[p] = "waitFilled" => pc'[p] = "passFilled"
  /\ pc[p] = "passFilled" => pc'[p] = "unlinkNamed"
  /\ pc[p] = "unlinkNamed" => pc'[p] = "unlinkFilled"
  /\ pc[p] = "unlinkFilled" => pc'[p] = "findSelf"
  /\ pc[p] = "findSelf" => pc'[p] = "open"
  /\ pc[p] = "open" => pc'[p] \in {"open", "blocked", "start"}
  /\ pc[p] = "start" => pc'[p] \in {"findWith", "findNo"}
  /\ pc[p] = "findWith" => pc'[p] = "openWith"
  /\ pc[p] = "findNo" => pc'[p] = "openNo"
  /\ pc[p] = "openWith" => pc'[p] = "throw"
  /\ pc[p] = "openNo" => pc'[p] = "check"
  /\ pc[p] = "throw" => pc'[p] \in {"check", "dead"}
  /\ pc[p] = "check" => pc'[p] \in {"openRelease", "wait"}
  /\ pc[p] = "wait" => pc'[p] = "read"
  /\ pc[p] = "read" => pc'[p] \in {"look", "post", "dead"}
  /\ pc[p] = "look" => pc'[p] = "count"
  /\ pc[p] = "count" => pc'[p] = "post"
  /\ pc[p] = "post" => pc'[p] = "check"
  /\ pc[p] = "openRelease" => pc'[p] = "openFree"
  /\ pc[p] = "openFree" => pc'[p] = "lockRelease"
  /\ pc[p] = "lockRelease" => pc'[p] = "countOut"
  /\ pc[p] = "countOut" => pc'[p] = "unlockRelease"
  /\ pc[p] = "unlockRelease" => pc'[p] = "waitFree"
  /\ pc[p] = "waitFree" => pc'[p] = "passFree"
  /\ pc[p] = "passFree" => pc'[p] = "unlinkRelease"
  /\ pc[p] = "unlinkRelease" => pc'[p] = "unlinkFree"
  /\ pc[p] = "unlinkFree" => pc'[p] = "unlink"
  /\ pc[p] = "unlink" => pc'[p] \in {"done", "dead"}
  /\ pc[p] \notin {"blocked", "dead", "done"}

Frame(p) ==
  /\ pc[p] # "grow" => UNCHANGED counter
  /\ pc[p] # "giveUp" => UNCHANGED failed
  /\ pc[p] # "countOut" => UNCHANGED counter3
  /\ pc[p] \notin {"fill", "throw"} => UNCHANGED id
  /\ pc[p] \notin {"fill", "count"} => UNCHANGED coolDown
  /\ pc[p] \notin {"fill", "unlink"} => UNCHANGED fifos
  /\ pc[p] \notin {"throw", "read"} => UNCHANGED pipe
  /\ pc[p] # "read" => UNCHANGED rec
  /\ pc[p] \notin {"look", "count"} => UNCHANGED <<pIndex, seen>>
  /\ pc[p] # "count" => UNCHANGED caught
  /\ pc[p] # "throw" => UNCHANGED overwritten
  /\ pc[p] \notin {"findSelf", "findWith", "findNo"} => UNCHANGED index
  /\ pc[p] # "open" => UNCHANGED <<pos, readEnds>>

Does(p) ==
  /\ pc[p] = "grow" => Grow(p)
  /\ pc[p] = "fill" => Fill(p)
  /\ pc[p] = "giveUp" => GiveUp(p)
  /\ pc[p] = "tellFull" => TellFull(p)
  /\ pc[p] = "findSelf" => FindSelf(p, "findSelf", "open")
  /\ pc[p] = "findWith" => FindSelf(p, "findWith", "openWith")
  /\ pc[p] = "findNo" => FindSelf(p, "findNo", "openNo")
  /\ pc[p] = "open" => Open(p)
  /\ pc[p] = "start" => StartGame(p)
  /\ pc[p] = "throw" => Throw(p)
  /\ pc[p] = "read" => Catch(p)
  /\ pc[p] = "look" => Look(p)
  /\ pc[p] = "count" => Count(p)
  /\ pc[p] = "countOut" => CountOut(p)
  /\ pc[p] = "unlink" => Unlink(p)

(* The semaphores' steps leave all but pc and the semaphores alone.        *)
SemFrame(p) ==
  /\ UNCHANGED <<id, coolDown, fifos, pipe, rec, pIndex, seen, caught, overwritten>>
  /\ UNCHANGED <<counter, index, pos, readEnds, counter3, failed>>

LEMMA OpenFrame ==
  ASSUME NEW p \in Procs, NEW n, NEW at, NEW next, OpenSem(p, n, at, next)
  PROVE  SemFrame(p) /\ pc[p] = at /\ Goes(p, next)
  BY DEF OpenSem, SemFrame, tableVars, gameVars, openVars

LEMMA WaitFrame ==
  ASSUME NEW p \in Procs, NEW n, NEW at, NEW next, WaitSem(p, n, at, next)
  PROVE  SemFrame(p) /\ pc[p] = at /\ Goes(p, next)
  BY DEF WaitSem, SemFrame, tableVars, gameVars, openVars

LEMMA PostFrame ==
  ASSUME NEW p \in Procs, NEW n, NEW at, NEW next, PostSem(p, n, at, next)
  PROVE  SemFrame(p) /\ pc[p] = at /\ Goes(p, next)
  BY DEF PostSem, SemFrame, tableVars, gameVars, openVars

LEMMA UnlinkFrame ==
  ASSUME NEW p \in Procs, NEW ns, NEW at, NEW next, UnlinkSems(p, ns, at, next)
  PROVE  SemFrame(p) /\ pc[p] = at /\ Goes(p, next)
  BY DEF UnlinkSems, SemFrame, tableVars, gameVars, openVars

(* The moves at the semaphores.                                            *)
SemMove(at, next) ==
  \/ at = "openNamed" /\ next = "openFilled"
  \/ at = "openFilled" /\ next = "lock"
  \/ at = "lock" /\ next = "grow"
  \/ at = "unlock" /\ next = "waitFilled"
  \/ at = "waitFilled" /\ next = "passFilled"
  \/ at = "passFilled" /\ next = "unlinkNamed"
  \/ at = "unlinkNamed" /\ next = "unlinkFilled"
  \/ at = "unlinkFilled" /\ next = "findSelf"
  \/ at = "openWith" /\ next = "throw"
  \/ at = "openNo" /\ next = "check"
  \/ at = "wait" /\ next = "read"
  \/ at = "post" /\ next = "check"
  \/ at = "openRelease" /\ next = "openFree"
  \/ at = "openFree" /\ next = "lockRelease"
  \/ at = "lockRelease" /\ next = "countOut"
  \/ at = "unlockRelease" /\ next = "waitFree"
  \/ at = "waitFree" /\ next = "passFree"
  \/ at = "passFree" /\ next = "unlinkRelease"
  \/ at = "unlinkRelease" /\ next = "unlinkFree"
  \/ at = "unlinkFree" /\ next = "unlink"

Opens(p) == \/ OpenSem(p, "named", "openNamed", "openFilled")
            \/ OpenSem(p, "memFilled", "openFilled", "lock")
            \/ OpenSem(p, "mySemWithPotato", "openWith", "throw")
            \/ OpenSem(p, "noPotato", "openNo", "check")
            \/ OpenSem(p, "memReleaseC", "openRelease", "openFree")
            \/ OpenSem(p, "freeMemC", "openFree", "lockRelease")
Waits(p) == \/ WaitSem(p, "named", "lock", "grow")
            \/ WaitSem(p, "memFilled", "waitFilled", "passFilled")
            \/ WaitSem(p, Sem(p), "wait", "read")
            \/ WaitSem(p, "memReleaseC", "lockRelease", "countOut")
            \/ WaitSem(p, "freeMemC", "waitFree", "passFree")
Posts(p) == \/ PostSem(p, "named", "unlock", "waitFilled")
            \/ PostSem(p, "memFilled", "passFilled", "unlinkNamed")
            \/ PostSem(p, Sem(p), "post", "check")
            \/ PostSem(p, "memReleaseC", "unlockRelease", "waitFree")
            \/ PostSem(p, "freeMemC", "passFree", "unlinkRelease")
Unlinks(p) == \/ UnlinkSems(p, {"named"}, "unlinkNamed", "unlinkFilled")
              \/ UnlinkSems(p, {"memFilled"}, "unlinkFilled", "findSelf")
              \/ UnlinkSems(p, {"memReleaseC"}, "unlinkRelease", "unlinkFree")
              \/ UnlinkSems(p, {"freeMemC"}, "unlinkFree", "unlink")
Finds(p) == \/ FindSelf(p, "findSelf", "open") \/ FindSelf(p, "findWith", "openWith")
            \/ FindSelf(p, "findNo", "openNo")
Works(p) == \/ Grow(p) \/ Fill(p) \/ GiveUp(p) \/ TellFull(p) \/ Finds(p) \/ Open(p)
            \/ StartGame(p) \/ Throw(p) \/ Check(p) \/ Catch(p) \/ Look(p) \/ Count(p)
            \/ CountOut(p) \/ Unlink(p)

LEMMA StepKinds ==
  ASSUME NEW p \in Procs, Step(p)
  PROVE  Opens(p) \/ Waits(p) \/ Posts(p) \/ Unlinks(p) \/ Works(p)
  BY DEF Step, InitSharedMem, Play, ReleaseMem, Opens, Waits, Posts, Unlinks, Works, Finds

LEMMA SemMoves ==
  ASSUME NEW p \in Procs, Opens(p) \/ Waits(p) \/ Posts(p) \/ Unlinks(p)
  PROVE  SemFrame(p) /\ \E at, next : SemMove(at, next) /\ pc[p] = at /\ Goes(p, next)
<1>1. CASE Opens(p)
  BY <1>1, OpenFrame DEF Opens, SemMove
<1>2. CASE Waits(p)
  BY <1>2, WaitFrame DEF Waits, SemMove
<1>3. CASE Posts(p)
  BY <1>3, PostFrame DEF Posts, SemMove
<1>4. CASE Unlinks(p)
  BY <1>4, UnlinkFrame DEF Unlinks, SemMove
<1> QED BY <1>1, <1>2, <1>3, <1>4

(* Whoever else moves in a step was blocked in opening a FIFO.             *)
Rest(p) == \A q \in Procs \ {p} :
             pc'[q] = pc[q] \/ (pc[p] = "open" /\ pc[q] = "blocked" /\ pc'[q] \in {"open", "start"})

LEMMA Digest ==
  ASSUME NEW p \in Procs, pc \in [Procs -> Labels], Step(p)
  PROVE  pc' \in [Procs -> Labels] /\ Moves(p) /\ Frame(p) /\ Does(p) /\ Rest(p)
<1>1. CASE Opens(p) \/ Waits(p) \/ Posts(p) \/ Unlinks(p)
  <2>1. SemFrame(p)
    BY <1>1, SemMoves
  <2>2. PICK at, next : SemMove(at, next) /\ pc[p] = at /\ Goes(p, next)
    BY <1>1, SemMoves
  <2>3. next \in Labels
    BY <2>2 DEF SemMove, Labels, Filling, Opening, Gone, Behind
  <2>4. pc' \in [Procs -> Labels] /\ pc'[p] = next /\ \A q \in Procs \ {p} : pc'[q] = pc[q]
    BY <2>2, <2>3 DEF Goes
  <2>5. Moves(p)
    BY <2>2, <2>4 DEF SemMove, Moves
  <2>6. Frame(p)
    BY <2>1 DEF SemFrame, Frame
  <2>7. Does(p)
    BY <2>2 DEF SemMove, Does
  <2> QED BY <2>4, <2>5, <2>6, <2>7 DEF Rest
<1>2. CASE Grow(p) \/ Fill(p) \/ GiveUp(p) \/ TellFull(p)
  <2>1. \E next \in {"fill", "giveUp", "tellFull", "dead", "unlock"} : pc' = [pc EXCEPT ![p] = next]
    BY <1>2 DEF Grow, Fill, GiveUp, TellFull, Goes
  <2>2. pc' \in [Procs -> Labels] /\ \A q \in Procs \ {p} : pc'[q] = pc[q]
    BY <2>1 DEF Labels, Filling
  <2>3. Moves(p)
    BY <1>2 DEF Grow, Fill, GiveUp, TellFull, Goes, Moves
  <2>4. Frame(p)
    BY <1>2 DEF Grow, Fill, GiveUp, TellFull, Frame, tableVars, gameVars, openVars
  <2>5. Does(p)
    <3>1. /\ Grow(p) => pc[p] = "grow"
          /\ Fill(p) => pc[p] = "fill"
          /\ GiveUp(p) => pc[p] = "giveUp"
          /\ TellFull(p) => pc[p] = "tellFull"
      BY DEF Grow, Fill, GiveUp, TellFull
    <3> QED BY <1>2, <3>1 DEF Does
  <2> QED BY <2>2, <2>3, <2>4, <2>5 DEF Rest
<1>3. CASE Open(p)
  <2>1. pc[p] = "open" /\ UNCHANGED <<counter, failed, counter3, id, coolDown, fifos, pipe, rec,
                                      pIndex, seen, caught, overwritten, index>>
    BY <1>3 DEF Open, tableVars, gameVars
  <2>2. PICK on \in SUBSET Procs, next \in {"open", "start"} :
          /\ pc' = [q \in Procs |-> IF q \in on THEN next ELSE IF q = p THEN "blocked" ELSE pc[q]]
          /\ \A q \in on \ {p} : pc[q] = "blocked"
    <3> DEFINE met == Blocked(pos[p], ~Reads(p, pos[p]))
               on == IF met \cup Holders(pos[p], ~Reads(p, pos[p])) = {} THEN {} ELSE {p} \cup met
               next == IF pos[p] + 1 < procNum THEN "open" ELSE "start"
    <3>1. met \subseteq Procs /\ \A q \in met : pc[q] = "blocked"
      BY DEF Blocked
    <3>2. on \in SUBSET Procs /\ \A q \in on \ {p} : pc[q] = "blocked"
      <4> HIDE DEF met
      <4> QED BY <3>1
    <3>3. pc' = [q \in Procs |-> IF q \in on THEN next ELSE IF q = p THEN "blocked" ELSE pc[q]]
      BY <1>3, Zenon DEF Open
    <3>4. next \in {"open", "start"}
      OBVIOUS
    <3> HIDE DEF on, next
    <3> QED BY <3>2, <3>3, <3>4
  <2>3. pc' \in [Procs -> Labels]
    BY <2>2 DEF Labels, Opening
  <2>4. pc'[p] \in {"open", "blocked", "start"} /\ Rest(p)
    BY <2>1, <2>2 DEF Rest
  <2>5. Moves(p) /\ Frame(p) /\ Does(p)
    BY <1>3, <2>1, <2>4 DEF Moves, Frame, Does
  <2> QED BY <2>3, <2>4, <2>5
<1>4. CASE Finds(p) \/ StartGame(p) \/ Throw(p) \/ Check(p)
  <2>1. \E next \in {"open", "findWith", "openWith", "findNo", "openNo", "check", "dead", "openRelease", "wait"} :
          pc' = [pc EXCEPT ![p] = next]
    BY <1>4 DEF Finds, FindSelf, StartGame, Throw, Check, Goes
  <2>2. pc' \in [Procs -> Labels] /\ \A q \in Procs \ {p} : pc'[q] = pc[q]
    BY <2>1 DEF Labels, Opening, Gone
  <2>3. Moves(p)
    BY <1>4 DEF Finds, FindSelf, StartGame, Throw, Check, Goes, Moves
  <2>4. Frame(p)
    BY <1>4 DEF Finds, FindSelf, StartGame, Throw, Check, Frame, tableVars, gameVars, openVars
  <2>5. Does(p)
    <3>1. /\ \A at, next : FindSelf(p, at, next) => pc[p] = at
          /\ StartGame(p) => pc[p] = "start"
          /\ Throw(p) => pc[p] = "throw"
          /\ Check(p) => pc[p] = "check"
      BY DEF Finds, FindSelf, StartGame, Throw, Check
    <3> QED BY <1>4, <3>1 DEF Finds, Does
  <2> QED BY <2>2, <2>3, <2>4, <2>5 DEF Rest
<1>5. CASE Catch(p) \/ Look(p) \/ Count(p) \/ CountOut(p) \/ Unlink(p)
  <2>1. \E next \in {"dead", "look", "post", "count", "unlockRelease", "done"} :
          pc' = [pc EXCEPT ![p] = next]
    BY <1>5 DEF Catch, Look, Count, CountOut, Unlink, Goes
  <2>2. pc' \in [Procs -> Labels] /\ \A q \in Procs \ {p} : pc'[q] = pc[q]
    BY <2>1 DEF Labels, Gone, Behind
  <2>3. Moves(p)
    BY <1>5 DEF Catch, Look, Count, CountOut, Unlink, Goes, Moves
  <2>4. Frame(p)
    BY <1>5 DEF Catch, Look, Count, CountOut, Unlink, Frame, tableVars, gameVars, openVars
  <2>5. Does(p)
    <3>1. /\ Catch(p) => pc[p] = "read"
          /\ Look(p) => pc[p] = "look"
          /\ Count(p) => pc[p] = "count"
          /\ CountOut(p) => pc[p] = "countOut"
          /\ Unlink(p) => pc[p] = "unlink"
      BY DEF Catch, Look, Count, CountOut, Unlink
    <3> QED BY <1>5, <3>1 DEF Does
  <2> QED BY <2>2, <2>3, <2>4, <2>5 DEF Rest
<1> QED BY <1>1, <1>2, <1>3, <1>4, <1>5, StepKinds DEF Works

-----------------------------------------------------------------------------
(* The semaphores.  What a step can do to those of a name: open a new one  *)
(* where the name does not exist, take and post, or remove the name.       *)
SemTypes == /\ value \in [Names -> Seq(Nat)] /\ linked \subseteq Names
            /\ handle \in [Procs -> [Names -> Nat]]
            /\ \A p \in Procs, n \in Names : handle[p][n] <= Len(value[n])
            /\ \A n \in linked : Len(value[n]) > 0

(* Nothing is there to be taken at n that was not there before.            *)
Lower(n)  == Len(value'[n]) = Len(value[n]) /\
             \A k \in 1..Len(value[n]) : value'[n][k] > 0 => value[n][k] > 0
Opening1(p, n) == \/ n = "named" /\ pc[p] = "openNamed"
                  \/ n = "memFilled" /\ pc[p] = "openFilled"
                  \/ n = "mySemWithPotato" /\ pc[p] = "openWith"
                  \/ n = "noPotato" /\ pc[p] = "openNo"
                  \/ n = "memReleaseC" /\ pc[p] = "openRelease"
                  \/ n = "freeMemC" /\ pc[p] = "openFree"
Posting(p, n) == \/ n \notin {"memFilled", "freeMemC"}
                 \/ n = "memFilled" /\ pc[p] = "passFilled"
                 \/ n = "memFilled" /\ pc[p] = "tellFull" /\ LastToFill(p)
                 \/ n = "freeMemC" /\ pc[p] = "passFree"
                 \/ n = "freeMemC" /\ pc[p] = "countOut" /\ LastToLeave(p)
Removing(p, n) == \/ n = "named" /\ pc[p] \in {"unlinkNamed", "giveUp"}
                  \/ n = "memFilled" /\ pc[p] \in {"unlinkFilled", "giveUp"}
                  \/ n = "memReleaseC" /\ pc[p] = "unlinkRelease"
                  \/ n = "freeMemC" /\ pc[p] = "unlinkFree"
Renewed(p, n) == /\ n \notin linked /\ Opening1(p, n) /\ Len(value'[n]) = Len(value[n]) + 1
                 /\ \A k \in 1..Len(value[n]) : value'[n][k] = value[n][k]
                 /\ value'[n][Len(value[n]) + 1] = InitialValue(n)

SemEffect(p) ==
  /\ \A n \in Names : \/ Lower(n) \/ Renewed(p, n)
                      \/ Posting(p, n) /\ Len(value'[n]) = Len(value[n])
  /\ \A n \in Names : n \notin linked /\ n \in linked' => Opening1(p, n)
  /\ \A n \in Names : n \in linked /\ n \notin linked' => Removing(p, n)
  /\ \A n \in Names : Removing(p, n) => n \notin linked'
  /\ \A n \in Names : Opening1(p, n) => n \in linked' /\ handle'[p][n] > 0
  /\ \A n \in Names : ~Opening1(p, n) => handle'[p][n] = handle[p][n]
  /\ \A q \in Procs \ {p} : handle'[q] = handle[q]

LEMMA Counted1 == ASSUME NEW s \in Seq(Nat), NEW h \in Nat, NEW d \in {1, -1},
                         d = -1 => s[h] > 0
                  PROVE  LET r == [s EXCEPT ![h] = @ + d]
                         IN  /\ r \in Seq(Nat) /\ Len(r) = Len(s)
                             /\ \A k \in 1..Len(s) : d = -1 => (r[k] > 0 => s[k] > 0)
<1> DEFINE r == [s EXCEPT ![h] = @ + d]
<1>1. Len(s) \in Nat /\ DOMAIN s = 1..Len(s) /\ \A k \in 1..Len(s) : s[k] \in Nat
  BY LenProperties, ElementOfSeq
<1>2. \A k \in 1..Len(s) : r[k] = IF k = h THEN s[k] + d ELSE s[k]
  BY <1>1
<1>3. \A k \in 1..Len(s) : r[k] \in Nat
  BY <1>1, <1>2
<1>4. r = [k \in 1..Len(s) |-> r[k]]
  BY <1>1
<1> HIDE DEF r
<1>5. r \in Seq(Nat) /\ Len(r) = Len(s)
  <2>1. r \in [1..Len(s) -> Nat]
    BY <1>3, <1>4
  <2> QED BY <1>1, <2>1
<1>6. \A k \in 1..Len(s) : d = -1 => (r[k] > 0 => s[k] > 0)
  BY <1>1, <1>2
<1> QED BY <1>5, <1>6 DEF r

LEMMA PostedEffect ==
  ASSUME SemTypes, NEW p \in Procs, NEW n \in Names, Posted(p, n)
  PROVE  /\ value' \in [Names -> Seq(Nat)]
         /\ Len(value'[n]) = Len(value[n])
         /\ \A m \in Names \ {n} : value'[m] = value[m]
<1>1. value[n] \in Seq(Nat) /\ handle[p][n] \in Nat
  BY DEF SemTypes
<1>2. value' = [value EXCEPT ![n] = [value[n] EXCEPT ![handle[p][n]] = @ + 1]]
  BY DEF Posted, SemTypes
<1>3. /\ [value[n] EXCEPT ![handle[p][n]] = @ + 1] \in Seq(Nat)
      /\ Len([value[n] EXCEPT ![handle[p][n]] = @ + 1]) = Len(value[n])
  BY <1>1, Counted1
<1> DEFINE r == [value[n] EXCEPT ![handle[p][n]] = @ + 1]
<1>4. value' = [value EXCEPT ![n] = r] /\ r \in Seq(Nat) /\ Len(r) = Len(value[n])
  BY <1>2, <1>3
<1> HIDE DEF r
<1> QED BY <1>4 DEF SemTypes

LEMMA TakenEffect ==
  ASSUME SemTypes, NEW p \in Procs, NEW n \in Names, Taken(p, n)
  PROVE  value' \in [Names -> Seq(Nat)] /\ \A m \in Names : Lower(m)
<1>1. value[n] \in Seq(Nat) /\ handle[p][n] \in Nat /\ value[n][handle[p][n]] > 0
  BY DEF SemTypes, Taken
<1>2. value' = [value EXCEPT ![n] = [value[n] EXCEPT ![handle[p][n]] = @ - 1]]
  BY DEF Taken, SemTypes
<1>3. [value[n] EXCEPT ![handle[p][n]] = @ - 1] = [value[n] EXCEPT ![handle[p][n]] = @ + (-1)]
  <2>1. handle[p][n] \in DOMAIN value[n] => value[n][handle[p][n]] \in Nat
    BY <1>1, LenProperties, ElementOfSeq
  <2> QED BY <2>1
<1> DEFINE r == [value[n] EXCEPT ![handle[p][n]] = @ + (-1)]
<1>4. /\ r \in Seq(Nat) /\ Len(r) = Len(value[n])
      /\ \A k \in 1..Len(value[n]) : r[k] > 0 => value[n][k] > 0
  BY <1>1, Counted1
<1>5. value' = [value EXCEPT ![n] = r]
  BY <1>2, <1>3
<1> HIDE DEF r
<1> QED BY <1>4, <1>5 DEF SemTypes, Lower

LEMMA OpenEffect ==
  ASSUME SemTypes, NEW p \in Procs, NEW n \in Names, NEW at, NEW next, OpenSem(p, n, at, next)
  PROVE  /\ value' \in [Names -> Seq(Nat)] /\ linked' = linked \cup {n}
         /\ \A m \in Names \ {n} : value'[m] = value[m]
         /\ n \in linked => value'[n] = value[n]
         /\ n \notin linked => value'[n] = Append(value[n], InitialValue(n))
         /\ Len(value'[n]) >= Len(value[n]) /\ Len(value'[n]) > 0
         /\ handle' \in [Procs -> [Names -> Nat]] /\ handle'[p][n] = Len(value'[n])
         /\ \A m \in Names \ {n} : handle'[p][m] = handle[p][m]
         /\ \A q \in Procs \ {p} : handle'[q] = handle[q]
<1>1. /\ linked' = linked \cup {n}
      /\ value' = IF n \in linked THEN value
                  ELSE [value EXCEPT ![n] = Append(value[n], InitialValue(n))]
      /\ handle' = [handle EXCEPT ![p] = [handle[p] EXCEPT ![n] = Len(value'[n])]]
  BY DEF OpenSem, SemTypes
<1>2. InitialValue(n) \in Nat
  BY DEF InitialValue
<1>3. value[n] \in Seq(Nat) /\ Len(value[n]) \in Nat
  BY LenProperties DEF SemTypes
<1>4. /\ Append(value[n], InitialValue(n)) \in Seq(Nat)
      /\ Len(Append(value[n], InitialValue(n))) = Len(value[n]) + 1
  BY <1>2, <1>3, AppendProperties
<1> DEFINE r == Append(value[n], InitialValue(n))
<1>5. /\ r \in Seq(Nat) /\ Len(r) = Len(value[n]) + 1
      /\ value' = IF n \in linked THEN value ELSE [value EXCEPT ![n] = r]
  BY <1>1, <1>4
<1> HIDE DEF r
<1>6. value' \in [Names -> Seq(Nat)] /\ \A m \in Names \ {n} : value'[m] = value[m]
  BY <1>5 DEF SemTypes
<1>7. (n \in linked => value'[n] = value[n]) /\ (n \notin linked => value'[n] = r)
  BY <1>5 DEF SemTypes
<1>8. Len(value'[n]) \in Nat /\ Len(value'[n]) >= Len(value[n]) /\ Len(value'[n]) > 0
  <2>1. CASE n \in linked
    BY <1>3, <1>7, <2>1 DEF SemTypes
  <2>2. CASE n \notin linked
    BY <1>3, <1>5, <1>7, <2>2
  <2> QED BY <2>1, <2>2
<1>9. /\ handle' \in [Procs -> [Names -> Nat]] /\ handle'[p][n] = Len(value'[n])
      /\ \A m \in Names \ {n} : handle'[p][m] = handle[p][m]
      /\ \A q \in Procs \ {p} : handle'[q] = handle[q]
  <2> DEFINE l == Len(value'[n])
  <2>1. l \in Nat /\ handle' = [handle EXCEPT ![p] = [handle[p] EXCEPT ![n] = l]]
    BY <1>1, <1>8
  <2> HIDE DEF l
  <2>2. handle'[p][n] = l
    BY <2>1 DEF SemTypes
  <2> QED BY <2>1, <2>2 DEF SemTypes, l
<1> QED BY <1>1, <1>6, <1>7, <1>8, <1>9 DEF r

(* The effects of one step, action by action.                              *)
LEMMA SemStep ==
  ASSUME SemTypes, NEW p \in Procs, Step(p), Does(p)
  PROVE  SemTypes' /\ SemEffect(p)
<1> USE DEF Names
<1>0. \A m \in Names : value[m] \in Seq(Nat) /\ Len(value[m]) \in Nat
  BY LenProperties DEF SemTypes
<1>1. ASSUME NEW n \in Names, NEW at, NEW next, OpenSem(p, n, at, next), Opening1(p, n),
             \A m \in Names \ {n} : ~Opening1(p, m), \A m \in Names : ~Removing(p, m)
      PROVE  SemTypes' /\ SemEffect(p)
  <2>1. /\ value' \in [Names -> Seq(Nat)] /\ linked' = linked \cup {n}
        /\ \A m \in Names \ {n} : value'[m] = value[m]
        /\ n \in linked => value'[n] = value[n]
        /\ n \notin linked => value'[n] = Append(value[n], InitialValue(n))
        /\ Len(value'[n]) >= Len(value[n]) /\ Len(value'[n]) > 0
        /\ handle' \in [Procs -> [Names -> Nat]] /\ handle'[p][n] = Len(value'[n])
        /\ \A m \in Names \ {n} : handle'[p][m] = handle[p][m]
        /\ \A q \in Procs \ {p} : handle'[q] = handle[q]
    BY <1>1, OpenEffect
  <2>2. \A m \in Names : Len(value'[m]) \in Nat /\ Len(value'[m]) >= Len(value[m])
    <3>1. value'[n] \in Seq(Nat)
      BY <2>1
    <3>2. Len(value'[n]) \in Nat
      BY <3>1, LenProperties
    <3> TAKE m \in Names
    <3>3. CASE m = n
      BY <2>1, <3>2, <3>3
    <3>4. CASE m # n
      <4>1. value'[m] = value[m] /\ Len(value[m]) \in Nat
        BY <1>0, <2>1, <3>4
      <4> QED BY <4>1
    <3> QED BY <3>3, <3>4
  <2>3. SemTypes'
    <3>1. \A q \in Procs, m \in Names : handle'[q][m] <= Len(value'[m])
      <4> TAKE q \in Procs, m \in Names
      <4>1. handle[q][m] \in Nat /\ handle[q][m] <= Len(value[m])
        BY DEF SemTypes
      <4>2. CASE q = p /\ m = n
        BY <2>1, <2>2, <4>2
      <4>3. CASE ~(q = p /\ m = n)
        <5>1. handle'[q][m] = handle[q][m]
          BY <2>1, <4>3
        <5>2. Len(value'[m]) \in Nat /\ Len(value'[m]) >= Len(value[m]) /\ Len(value[m]) \in Nat
          BY <1>0, <2>2
        <5> QED BY <4>1, <5>1, <5>2
      <4> QED BY <4>2, <4>3
    <3>2. \A m \in linked' : Len(value'[m]) > 0
      BY <2>1 DEF SemTypes
    <3> QED BY <2>1, <3>1, <3>2 DEF SemTypes
  <2>4. \A m \in Names \ {n} : Lower(m)
    BY <2>1 DEF Lower
  <2>5. Lower(n) \/ Renewed(p, n)
    <3>1. CASE n \in linked
      BY <2>1, <3>1 DEF Lower
    <3>2. CASE n \notin linked
      <4>1. InitialValue(n) \in Nat /\ value[n] \in Seq(Nat)
        BY <1>0 DEF InitialValue
      <4> DEFINE r == Append(value[n], InitialValue(n))
      <4>2. /\ Len(r) = Len(value[n]) + 1 /\ r[Len(value[n]) + 1] = InitialValue(n)
            /\ \A k \in 1..Len(value[n]) : r[k] = value[n][k]
        BY <4>1, AppendProperties
      <4>3. value'[n] = r
        BY <2>1, <3>2
      <4> HIDE DEF r
      <4> QED BY <1>1, <3>2, <4>2, <4>3 DEF Renewed
    <3> QED BY <3>1, <3>2
  <2> QED BY <1>1, <2>1, <2>3, <2>4, <2>5 DEF SemEffect
<1>2. ASSUME NEW n \in Names, Taken(p, n), UNCHANGED <<linked, handle>>,
             \A m \in Names : ~Opening1(p, m) /\ ~Removing(p, m)
      PROVE  SemTypes' /\ SemEffect(p)
  <2>1. value' \in [Names -> Seq(Nat)] /\ \A m \in Names : Lower(m)
    BY <1>2, TakenEffect
  <2>2. \A m \in Names : Len(value'[m]) = Len(value[m])
    BY <2>1 DEF Lower
  <2>3. SemTypes'
    BY <1>2, <2>1, <2>2 DEF SemTypes
  <2> QED BY <1>2, <2>1, <2>3 DEF SemEffect
<1>3. ASSUME NEW n \in Names, Posted(p, n) \/ UNCHANGED value, UNCHANGED handle,
             linked' \subseteq linked, Posting(p, n) \/ UNCHANGED value,
             \A m \in Names : ~Opening1(p, m) /\ (Removing(p, m) => m \notin linked'),
             \A m \in linked : m \notin linked' => Removing(p, m)
      PROVE  SemTypes' /\ SemEffect(p)
  <2>1. /\ value' \in [Names -> Seq(Nat)] /\ \A m \in Names : Len(value'[m]) = Len(value[m])
        /\ \A m \in Names \ {n} : value'[m] = value[m]
    <3>1. CASE UNCHANGED value
      BY <3>1 DEF SemTypes
    <3>2. CASE Posted(p, n)
      BY <3>2, PostedEffect
    <3> QED BY <1>3, <3>1, <3>2
  <2>2. \A m \in Names : Lower(m) \/ (Posting(p, m) /\ Len(value'[m]) = Len(value[m]))
    BY <1>3, <2>1 DEF Lower
  <2>3. SemTypes'
    <3>1. \A q \in Procs, m \in Names : handle'[q][m] <= Len(value'[m])
      BY <1>3, <2>1 DEF SemTypes
    <3>2. \A m \in linked' : Len(value'[m]) > 0
      BY <1>3, <2>1 DEF SemTypes
    <3> QED BY <1>3, <2>1, <3>1, <3>2 DEF SemTypes
  <2> QED BY <1>3, <2>1, <2>2, <2>3 DEF SemEffect
<1>4. CASE Opens(p)
  <2> USE DEF Opening1, Removing
  <2>1. CASE OpenSem(p, "named", "openNamed", "openFilled")
    BY <1>1, <2>1, OpenFrame
  <2>2. CASE OpenSem(p, "memFilled", "openFilled", "lock")
    BY <1>1, <2>2, OpenFrame
  <2>3. CASE OpenSem(p, "mySemWithPotato", "openWith", "throw")
    BY <1>1, <2>3, OpenFrame
  <2>4. CASE OpenSem(p, "noPotato", "openNo", "check")
    BY <1>1, <2>4, OpenFrame
  <2>5. CASE OpenSem(p, "memReleaseC", "openRelease", "openFree")
    BY <1>1, <2>5, OpenFrame
  <2>6. CASE OpenSem(p, "freeMemC", "openFree", "lockRelease")
    BY <1>1, <2>6, OpenFrame
  <2> QED BY <1>4, <2>1, <2>2, <2>3, <2>4, <2>5, <2>6 DEF Opens
<1>5. CASE Waits(p)
  <2>1. \E n \in Names : Taken(p, n) /\ UNCHANGED <<linked, handle>>
    BY <1>5 DEF Waits, WaitSem, Sem
  <2>2. pc[p] \in {"lock", "waitFilled", "wait", "lockRelease", "waitFree"}
    BY <1>5 DEF Waits, WaitSem
  <2>3. \A m \in Names : ~Opening1(p, m) /\ ~Removing(p, m)
    BY <2>2 DEF Opening1, Removing
  <2> QED BY <1>2, <2>1, <2>3
<1>6. CASE Posts(p)
  <2>1. \E n \in Names : Posted(p, n) /\ Posting(p, n) /\ UNCHANGED <<linked, handle>>
    BY <1>6 DEF Posts, PostSem, Sem, Posting
  <2>2. pc[p] \in {"unlock", "passFilled", "post", "unlockRelease", "passFree"}
    BY <1>6 DEF Posts, PostSem
  <2>3. \A m \in Names : ~Opening1(p, m) /\ ~Removing(p, m)
    BY <2>2 DEF Opening1, Removing
  <2> QED BY <1>3, <2>1, <2>3
<1>7. CASE Unlinks(p)
  <2>1. UNCHANGED <<value, handle>> /\ linked' \subseteq linked
    BY <1>7 DEF Unlinks, UnlinkSems, NamesLeft
  <2>2. \A m \in Names : ~Opening1(p, m) /\ (Removing(p, m) => m \notin linked')
    BY <1>7 DEF Unlinks, UnlinkSems, NamesLeft, Opening1, Removing
  <2>3. \A m \in linked : m \notin linked' => Removing(p, m)
    BY <1>7 DEF Unlinks, UnlinkSems, NamesLeft, Removing
  <2> QED BY <1>3, <2>1, <2>2, <2>3
<1>8. CASE GiveUp(p)
  <2>1. /\ Posted(p, "named") /\ UNCHANGED handle
        /\ linked' = linked \ {"named", "memFilled"} /\ pc[p] = "giveUp"
    BY <1>8 DEF GiveUp, NamesLeft
  <2>2. Posting(p, "named")
    BY DEF Posting
  <2>3. \A m \in Names : ~Opening1(p, m) /\ (Removing(p, m) => m \notin linked')
    BY <2>1 DEF Opening1, Removing
  <2>4. \A m \in linked : m \notin linked' => Removing(p, m)
    BY <2>1 DEF Removing
  <2> QED BY <1>3, <2>1, <2>2, <2>3, <2>4
<1>9. CASE TellFull(p) \/ CountOut(p)
  <2>1. \E n \in Names : (UNCHANGED value \/ (Posted(p, n) /\ Posting(p, n))) /\ UNCHANGED <<linked, handle>>
    BY <1>9 DEF TellFull, CountOut, Posting
  <2>2. pc[p] \in {"tellFull", "countOut"}
    BY <1>9 DEF TellFull, CountOut
  <2>3. \A m \in Names : ~Opening1(p, m) /\ ~Removing(p, m)
    BY <2>2 DEF Opening1, Removing
  <2> QED BY <1>3, <2>1, <2>3
<1>10. CASE Works(p) /\ ~GiveUp(p) /\ ~TellFull(p) /\ ~CountOut(p)
  <2>1. UNCHANGED <<value, linked, handle>>
    BY <1>10 DEF Works, Grow, Fill, Finds, FindSelf, Open, StartGame, Throw, Check, Catch, Look, Count,
                 Unlink, semVars
  <2>2. pc[p] \in {"grow", "fill", "findSelf", "findWith", "findNo", "open", "start", "throw", "check",
                   "read", "look", "count", "unlink"}
    BY <1>10 DEF Works, Grow, Fill, Finds, FindSelf, Open, StartGame, Throw, Check, Catch, Look, Count, Unlink
  <2>3. \A m \in Names : ~Opening1(p, m) /\ ~Removing(p, m)
    BY <2>2 DEF Opening1, Removing
  <2>4. "named" \in Names
    OBVIOUS
  <2> QED BY <1>3, <2>1, <2>3, <2>4
<1> QED BY <1>4, <1>5, <1>6, <1>7, <1>8, <1>9, <1>10, StepKinds DEF Works

(* Those who wait at a barrier go on because something is there.           *)
Takes(p) == /\ pc[p] = "waitFilled" => Taken(p, "memFilled")
            /\ pc[p] = "waitFree" => Taken(p, "freeMemC")

LEMMA TakesStep == ASSUME NEW p \in Procs, Step(p), Does(p) PROVE Takes(p)
<1>1. CASE Opens(p)
  BY <1>1 DEF Opens, OpenSem, Takes
<1>2. CASE Waits(p)
  BY <1>2 DEF Waits, WaitSem, Takes
<1>3. CASE Posts(p)
  BY <1>3 DEF Posts, PostSem, Takes
<1>4. CASE Unlinks(p)
  BY <1>4 DEF Unlinks, UnlinkSems, Takes
<1>5. CASE Works(p)
  BY <1>5 DEF Works, Takes, Grow, Fill, GiveUp, TellFull, Finds, FindSelf, Open, StartGame, Throw, Check,
              Catch, Look, Count, CountOut, Unlink
<1> QED BY <1>1, <1>2, <1>3, <1>4, <1>5, StepKinds

-----------------------------------------------------------------------------
(* The table and the first barrier.                                        *)
Early == {"openNamed", "openFilled", "lock", "grow", "fill"}
Filled == {p \in Procs : pc[p] \notin Early}
Full == Len(id) = procNum
Pid == Procs \cup {NoPid}

TableTypes == /\ id \in Seq(Pid) /\ counter \in [Procs -> Nat] /\ failed \subseteq Procs
              /\ overwritten \in BOOLEAN

(* There is no record for which nobody has filled one; processes that do   *)
(* not hold the same semaphore may fill the same one.                      *)
Sized == /\ \A p \in Procs : counter[p] <= Len(id)
         /\ \A p \in Filled : counter[p] < Len(id)
         /\ Len(id) <= Cardinality(Filled)

(* As long as there is a record for each who has filled one it is theirs.  *)
Table == Len(id) = Cardinality(Filled) =>
           /\ \A p, q \in Filled : counter[p] = counter[q] => p = q
           /\ ~overwritten => /\ \A p \in Filled : id[counter[p] + 1] = p
                              /\ \A k \in 1..Len(id) : id[k] \in Filled /\ counter[id[k]] = k - 1

Passing == /\ \A p \in Procs : pc[p] \notin Filling => p \in failed \/ Full
           /\ \A p \in failed : pc[p] = "dead"
           /\ \A p \in Procs : pc[p] \in Filling \ {"openNamed", "openFilled"}
                                 => handle[p]["memFilled"] > 0
           /\ \A k \in 1..Len(value["memFilled"]) : value["memFilled"][k] > 0 => Full
           /\ overwritten => Full

First == failed = {} => \A n \in {"named", "memFilled"} :
           Len(value[n]) <= 1 /\ (n \notin linked /\ Len(value[n]) > 0 => Full)

Base == pc \in [Procs -> Labels] /\ SemTypes

(* All that a step of p is known to do.                                    *)
Stepped(p) == /\ pc' \in [Procs -> Labels] /\ Moves(p) /\ Frame(p) /\ Does(p) /\ Rest(p)
              /\ SemTypes' /\ SemEffect(p) /\ Takes(p)

LEMMA SteppedStep == ASSUME Base, NEW p \in Procs, Step(p) PROVE Stepped(p)
  BY Digest, SemStep, TakesStep DEF Stepped, Base

LEMMA ProcsFinite == IsFiniteSet(Procs) /\ procNum \in Nat /\ procNum > 1
  BY PotatoAssumption, FS_CardinalityType DEF procNum

LEMMA SubsetOfProcs ==
  ASSUME NEW S \in SUBSET Procs
  PROVE  /\ IsFiniteSet(S) /\ Cardinality(S) \in Nat /\ Cardinality(S) <= procNum
         /\ Cardinality(S) = procNum => S = Procs
<1>1. IsFiniteSet(S) /\ Cardinality(S) <= Cardinality(Procs)
      /\ (Cardinality(S) = Cardinality(Procs) => S = Procs)
  BY ProcsFinite, FS_Subset
<1> QED BY <1>1, FS_CardinalityType DEF procNum

LEMMA AddOne ==
  ASSUME NEW S \in SUBSET Procs, NEW p \in Procs, p \notin S
  PROVE  Cardinality(S \cup {p}) = Cardinality(S) + 1
  BY SubsetOfProcs, FS_AddElement

Among(r, f, i, x) == r[i + 1] = x /\ \A k \in 1..Len(f) : k # i + 1 => r[k] = f[k]

LEMMA RecordFacts ==
  ASSUME NEW S, NEW f \in Seq(S), NEW i \in Nat, i <= Len(f), NEW x \in S
  PROVE  LET r == Record(f, i, x)
         IN  /\ r \in Seq(S) /\ Len(f) \in Nat /\ Len(r) = (IF i < Len(f) THEN Len(f) ELSE Len(f) + 1)
             /\ Among(r, f, i, x)
<1> DEFINE r == Record(f, i, x)
           m == IF i < Len(f) THEN Len(f) ELSE i + 1
<1>1. Len(f) \in Nat /\ \A k \in 1..Len(f) : f[k] \in S
  BY LenProperties, ElementOfSeq
<1>2. m \in Nat /\ m = (IF i < Len(f) THEN Len(f) ELSE Len(f) + 1) /\ i + 1 \in 1..m
  BY <1>1
<1>3. \A k \in 1..m : k # i + 1 => k \in 1..Len(f)
  BY <1>1
<1>4. r = [k \in 1..m |-> IF k = i + 1 THEN x ELSE f[k]]
  BY DEF Record
<1> HIDE DEF m, r
<1>5. \A k \in 1..m : (IF k = i + 1 THEN x ELSE f[k]) \in S
  BY <1>1, <1>3
<1>6. r \in [1..m -> S]
  BY <1>4, <1>5
<1>7. r \in Seq(S) /\ Len(r) = m
  BY <1>2, <1>6
<1>8. r[i + 1] = x
  BY <1>2, <1>4
<1>9. \A k \in 1..Len(f) : k \in 1..m
  BY <1>1, <1>2
<1>10. \A k \in 1..Len(f) : k # i + 1 => r[k] = f[k]
  BY <1>4, <1>9
<1> QED BY <1>1, <1>2, <1>7, <1>8, <1>10 DEF r, Among

LEMMA FilledStep ==
  ASSUME NEW p \in Procs, Base, Stepped(p)
  PROVE  /\ pc[p] = "fill" => Filled' = Filled \cup {p} /\ p \notin Filled
         /\ pc[p] # "fill" => Filled' = Filled
<1>1. \A q \in Procs \ {p} : pc'[q] \in Early <=> pc[q] \in Early
  BY DEF Stepped, Rest, Early
<1>2. pc[p] # "fill" => (pc'[p] \in Early <=> pc[p] \in Early)
  BY DEF Stepped, Moves, Early, Base, Labels, Filling, Opening, Gone, Behind
<1>3. pc[p] = "fill" => pc'[p] \notin Early /\ pc[p] \in Early
  BY DEF Stepped, Moves, Early
<1> QED BY <1>1, <1>2, <1>3 DEF Filled

LEMMA TypesStep ==
  ASSUME NEW p \in Procs, Base, TableTypes, Sized, Stepped(p)
  PROVE  /\ TableTypes'
         /\ pc[p] # "fill" => Len(id') = Len(id)
         /\ pc[p] = "fill" => Len(id') = (IF counter[p] < Len(id) THEN Len(id) ELSE Len(id) + 1)
         /\ pc[p] \notin {"fill", "throw"} => id' = id
         /\ pc[p] = "throw" => (id' = id /\ overwritten' = overwritten) \/ overwritten'
         /\ pc[p] = "grow" => counter'[p] = Len(id) /\ \A q \in Procs \ {p} : counter'[q] = counter[q]
         /\ pc[p] # "grow" => counter' = counter
<1>0. Len(id) \in Nat
  BY LenProperties DEF TableTypes
<1>1. CASE pc[p] = "fill"
  <2>1. id' = Record(id, counter[p], p) /\ counter' = counter /\ failed' = failed
        /\ overwritten' = overwritten
    BY <1>1 DEF Stepped, Does, Frame, Fill
  <2>2. counter[p] \in Nat /\ counter[p] <= Len(id) /\ id \in Seq(Pid) /\ p \in Pid
    BY DEF TableTypes, Sized, Pid
  <2>3. id' \in Seq(Pid) /\ Len(id') = (IF counter[p] < Len(id) THEN Len(id) ELSE Len(id) + 1)
    BY <2>1, <2>2, RecordFacts
  <2> QED BY <1>1, <2>1, <2>3 DEF TableTypes
<1>2. CASE pc[p] = "throw"
  <2> DEFINE x == PidAt(index[p])
             r == [id EXCEPT ![1] = x]
             n == Len(id)
  <2>1. /\ counter' = counter /\ failed' = failed
        /\ (id' = id /\ overwritten' = overwritten) \/ (id' = r /\ overwritten' = TRUE)
    BY <1>2 DEF Stepped, Does, Frame, Throw
  <2>2. id \in [1..n -> Pid] /\ x \in Pid
    BY LenProperties DEF TableTypes, PidAt, Pid
  <2> HIDE DEF x
  <2>3. r \in [1..n -> Pid] /\ n \in Nat
    BY <1>0, <2>2
  <2> HIDE DEF r, n
  <2>4. r \in Seq(Pid) /\ Len(r) = n
    BY <2>3
  <2> QED BY <1>2, <2>1, <2>4 DEF TableTypes, n
<1>3. CASE pc[p] \notin {"fill", "throw", "grow", "giveUp"}
  BY <1>3 DEF Stepped, Frame, TableTypes
<1>4. CASE pc[p] = "grow"
  <2>1. counter' = [counter EXCEPT ![p] = Len(id)] /\ UNCHANGED <<id, failed, overwritten>>
    BY <1>4 DEF Stepped, Does, Frame, Grow
  <2> QED BY <1>0, <1>4, <2>1 DEF TableTypes
<1>5. CASE pc[p] = "giveUp"
  <2>1. failed' = failed \cup {p} /\ UNCHANGED <<id, counter, overwritten>>
    BY <1>5 DEF Stepped, Does, Frame, GiveUp
  <2> QED BY <1>5, <2>1 DEF TableTypes
<1> QED BY <1>1, <1>2, <1>3, <1>4, <1>5

LEMMA SizedStep ==
  ASSUME NEW p \in Procs, Base, TableTypes, Sized, Stepped(p)
  PROVE  Sized' /\ Len(id') >= Len(id)
<1>0. Len(id) \in Nat /\ Len(id') \in Nat /\ Filled \in SUBSET Procs /\ Cardinality(Filled) \in Nat
  BY LenProperties, TypesStep, SubsetOfProcs DEF TableTypes, Filled
<1>1. counter \in [Procs -> Nat] /\ counter' \in [Procs -> Nat]
  BY TypesStep DEF TableTypes
<1>2. CASE pc[p] = "fill"
  <2>1. /\ counter' = counter
        /\ Len(id') = (IF counter[p] < Len(id) THEN Len(id) ELSE Len(id) + 1)
    BY <1>2, TypesStep
  <2>2. counter[p] \in Nat /\ counter[p] <= Len(id)
    BY <1>1 DEF Sized
  <2>3. Filled' = Filled \cup {p} /\ Cardinality(Filled') = Cardinality(Filled) + 1
    BY <1>0, <1>2, FilledStep, AddOne
  <2>4. Len(id') >= Len(id) /\ counter[p] < Len(id') /\ Len(id') <= Cardinality(Filled')
    BY <1>0, <2>1, <2>2, <2>3 DEF Sized
  <2>5. \A q \in Procs : counter'[q] <= Len(id')
    <3> TAKE q \in Procs
    <3>1. counter[q] \in Nat /\ counter[q] <= Len(id)
      BY <1>1 DEF Sized
    <3> QED BY <1>0, <2>1, <2>4, <3>1
  <2>6. \A q \in Filled' : counter'[q] < Len(id')
    <3> TAKE q \in Filled'
    <3>1. CASE q = p
      BY <2>1, <2>4, <3>1
    <3>2. CASE q \in Filled
      <4>1. counter[q] \in Nat /\ counter[q] < Len(id)
        BY <1>0, <1>1, <3>2 DEF Sized
      <4> QED BY <1>0, <2>1, <2>4, <4>1
    <3> QED BY <2>3, <3>1, <3>2
  <2> QED BY <2>4, <2>5, <2>6 DEF Sized
<1>3. CASE pc[p] # "fill"
  <2>1. Filled' = Filled /\ Len(id') = Len(id)
    BY <1>3, FilledStep, TypesStep
  <2>2. \A q \in Procs : counter'[q] = counter[q] \/ (q = p /\ pc[p] = "grow" /\ counter'[q] = Len(id))
    BY TypesStep
  <2>3. pc[p] = "grow" => p \notin Filled
    BY DEF Filled, Early
  <2>4. \A q \in Procs : counter'[q] <= Len(id')
    <3> TAKE q \in Procs
    <3> QED BY <1>0, <2>1, <2>2 DEF Sized
  <2>5. \A q \in Filled' : counter'[q] < Len(id')
    <3> TAKE q \in Filled'
    <3>1. q \in Filled /\ q \in Procs /\ counter'[q] = counter[q]
      BY <2>1, <2>2, <2>3, <1>0
    <3> QED BY <2>1, <3>1 DEF Sized
  <2> QED BY <1>0, <2>1, <2>4, <2>5 DEF Sized
<1> QED BY <1>2, <1>3

(* A full table has been filled by all.                                    *)
LEMMA FullFilled ==
  ASSUME TableTypes, Sized, Full PROVE Filled = Procs /\ Len(id) = Cardinality(Filled)
<1>1. Filled \in SUBSET Procs /\ Len(id) \in Nat
  BY LenProperties DEF Filled, TableTypes
<1>2. Cardinality(Filled) \in Nat /\ Cardinality(Filled) <= procNum
  BY <1>1, SubsetOfProcs
<1>3. Cardinality(Filled) = procNum
  BY <1>1, <1>2, ProcsFinite DEF Sized, Full
<1> QED BY <1>1, <1>3, SubsetOfProcs DEF Full

LEMMA FullStays ==
  ASSUME NEW p \in Procs, Base, TableTypes, Sized, Stepped(p), Full PROVE Full'
<1>1. Filled = Procs
  BY FullFilled
<1>2. pc[p] # "fill"
  BY <1>1 DEF Filled, Early
<1> QED BY <1>2, TypesStep DEF Full

LEMMA TableStep ==
  ASSUME NEW p \in Procs, Base, TableTypes, Sized, Table, Stepped(p)
  PROVE  Table'
<1>0. Len(id) \in Nat /\ Len(id') \in Nat /\ Filled \in SUBSET Procs /\ Cardinality(Filled) \in Nat
      /\ Len(id) <= Cardinality(Filled)
  BY LenProperties, TypesStep, SubsetOfProcs DEF TableTypes, Filled, Sized
<1>1. counter \in [Procs -> Nat]
  BY DEF TableTypes
<1>2. CASE pc[p] = "fill"
  <2> SUFFICES ASSUME Len(id') = Cardinality(Filled')
               PROVE  /\ \A q, r \in Filled' : counter'[q] = counter'[r] => q = r
                      /\ ~overwritten' =>
                           /\ \A q \in Filled' : id'[counter'[q] + 1] = q
                           /\ \A k \in 1..Len(id') : id'[k] \in Filled' /\ counter'[id'[k]] = k - 1
    BY Zenon DEF Table
  <2>1. /\ counter' = counter /\ overwritten' = overwritten /\ id' = Record(id, counter[p], p)
        /\ Len(id') = (IF counter[p] < Len(id) THEN Len(id) ELSE Len(id) + 1)
    BY <1>2, TypesStep DEF Stepped, Frame, Does, Fill
  <2>2. counter[p] \in Nat /\ counter[p] <= Len(id) /\ id \in Seq(Pid) /\ p \in Pid
    BY <1>1 DEF Sized, TableTypes, Pid
  <2>3. Filled' = Filled \cup {p} /\ Cardinality(Filled') = Cardinality(Filled) + 1 /\ p \notin Filled
    BY <1>0, <1>2, FilledStep, AddOne
  <2>4. counter[p] = Len(id) /\ Len(id') = Len(id) + 1 /\ Len(id) = Cardinality(Filled)
    BY <1>0, <2>1, <2>2, <2>3
  <2>5. \A q \in Filled : counter[q] \in Nat /\ counter[q] < Len(id)
    BY <1>0, <1>1 DEF Sized
  <2>6. id'[counter[p] + 1] = p /\ \A k \in 1..Len(id) : k # counter[p] + 1 => id'[k] = id[k]
    <3> DEFINE r == Record(id, counter[p], p)
    <3>1. Among(r, id, counter[p], p)
      BY <2>2, RecordFacts
    <3>2. id' = r
      BY <2>1
    <3> HIDE DEF r
    <3> QED BY <3>1, <3>2 DEF Among
  <2>7. \A q, r \in Filled' : counter'[q] = counter'[r] => q = r
    <3> TAKE q, r \in Filled'
    <3>1. CASE q \in Filled /\ r \in Filled
      BY <2>1, <2>4, <3>1 DEF Table
    <3>2. CASE q = p /\ r \in Filled
      BY <1>0, <2>1, <2>4, <2>5, <3>2
    <3>3. CASE q \in Filled /\ r = p
      BY <1>0, <2>1, <2>4, <2>5, <3>3
    <3> QED BY <2>3, <3>1, <3>2, <3>3
  <2>8. ASSUME ~overwritten'
        PROVE  /\ \A q \in Filled' : id'[counter'[q] + 1] = q
               /\ \A k \in 1..Len(id') : id'[k] \in Filled' /\ counter'[id'[k]] = k - 1
    <3>0. ~overwritten
      BY <2>1, <2>8
    <3>1. \A q \in Filled' : id'[counter'[q] + 1] = q
      <4> TAKE q \in Filled'
      <4>1. CASE q = p
        BY <2>1, <2>6, <4>1
      <4>2. CASE q \in Filled
        <5>1. counter[q] + 1 \in 1..Len(id) /\ counter[q] + 1 # counter[p] + 1
          BY <1>0, <2>4, <2>5, <4>2
        <5>2. id[counter[q] + 1] = q
          BY <2>4, <3>0, <4>2 DEF Table
        <5> QED BY <2>1, <2>6, <5>1, <5>2
      <4> QED BY <2>3, <4>1, <4>2
    <3>2. \A k \in 1..Len(id') : id'[k] \in Filled' /\ counter'[id'[k]] = k - 1
      <4> TAKE k \in 1..Len(id')
      <4>1. CASE k = Len(id) + 1
        BY <1>0, <2>1, <2>3, <2>4, <2>6, <4>1
      <4>2. CASE k \in 1..Len(id)
        <5>1. k # counter[p] + 1
          BY <1>0, <2>4, <4>2
        <5>2. id[k] \in Filled /\ counter[id[k]] = k - 1
          BY <2>4, <3>0, <4>2 DEF Table
        <5> QED BY <2>1, <2>3, <2>6, <4>2, <5>1, <5>2
      <4> QED BY <1>0, <2>4, <4>1, <4>2
    <3> QED BY <3>1, <3>2
  <2> QED BY <2>7, <2>8
<1>3. CASE pc[p] # "fill"
  <2>1. Filled' = Filled /\ Len(id') = Len(id)
    BY <1>3, FilledStep, TypesStep
  <2>2. \A q \in Filled : counter'[q] = counter[q]
    BY <1>0, TypesStep DEF Filled, Early
  <2>3. ~overwritten' => id' = id /\ ~overwritten
    BY <1>3, TypesStep DEF Stepped, Frame
  <2> SUFFICES ASSUME Len(id') = Cardinality(Filled')
               PROVE  /\ \A q, r \in Filled' : counter'[q] = counter'[r] => q = r
                      /\ ~overwritten' =>
                           /\ \A q \in Filled' : id'[counter'[q] + 1] = q
                           /\ \A k \in 1..Len(id') : id'[k] \in Filled' /\ counter'[id'[k]] = k - 1
    BY Zenon DEF Table
  <2>4. Len(id) = Cardinality(Filled)
    BY <2>1
  <2>5. \A q, r \in Filled' : counter'[q] = counter'[r] => q = r
    BY <2>1, <2>2, <2>4 DEF Table
  <2>6. ASSUME ~overwritten'
        PROVE  /\ \A q \in Filled' : id'[counter'[q] + 1] = q
               /\ \A k \in 1..Len(id') : id'[k] \in Filled' /\ counter'[id'[k]] = k - 1
    <3>1. id' = id /\ ~overwritten
      BY <2>3, <2>6
    <3>2. \A q \in Filled : id[counter[q] + 1] = q
      BY <2>4, <3>1 DEF Table
    <3>3. \A k \in 1..Len(id) : id[k] \in Filled /\ counter[id[k]] = k - 1
      BY <2>4, <3>1 DEF Table
    <3> QED BY <2>1, <2>2, <3>1, <3>2, <3>3
  <2> QED BY <2>5, <2>6
<1> QED BY <1>2, <1>3

LEMMA PassingStep ==
  ASSUME NEW p \in Procs, Base, TableTypes, Sized, Passing, Stepped(p)
  PROVE  Passing'
<1>0. Full => Full'
  BY FullStays
<1>1. pc[p] \notin Filling => Full
  <2>1. p \notin failed
    BY DEF Passing, Stepped, Moves
  <2> QED BY <2>1 DEF Passing
<1>2. \A q \in Procs \ {p} : /\ pc'[q] \in Filling <=> pc[q] \in Filling
                             /\ pc'[q] \in Filling => pc'[q] = pc[q]
                             /\ pc[q] = "dead" => pc'[q] = "dead"
  BY DEF Stepped, Rest, Filling
<1>3. failed' = failed \/ (pc[p] = "giveUp" /\ failed' = failed \cup {p})
  BY DEF Stepped, Frame, Does, GiveUp
<1>4. pc[p] = "waitFilled" => Full
  <2> SUFFICES ASSUME pc[p] = "waitFilled" PROVE Full
    OBVIOUS
  <2>1. Taken(p, "memFilled")
    BY DEF Stepped, Takes
  <2>2. handle[p]["memFilled"] > 0
    BY DEF Passing, Filling
  <2>3. /\ handle[p]["memFilled"] \in Nat /\ Len(value["memFilled"]) \in Nat
        /\ handle[p]["memFilled"] <= Len(value["memFilled"])
    BY LenProperties DEF Base, SemTypes, Names
  <2>4. handle[p]["memFilled"] \in 1..Len(value["memFilled"])
    BY <2>2, <2>3
  <2> QED BY <2>1, <2>4 DEF Taken, Passing
<1>5. \A q \in Procs : pc'[q] \notin Filling => q \in failed' \/ Full'
  <2> TAKE q \in Procs
  <2>1. CASE pc[q] \notin Filling
    BY <1>0, <1>3, <2>1 DEF Passing
  <2>2. CASE pc[q] \in Filling /\ q # p
    BY <1>2, <2>2
  <2>3. CASE pc[q] \in Filling /\ q = p
    <3>1. pc[p] \in {"giveUp", "waitFilled"} \/ pc'[p] \in Filling
      BY <2>3 DEF Stepped, Moves, Filling
    <3>2. pc[p] = "giveUp" => p \in failed'
      BY DEF Stepped, Does, GiveUp
    <3> QED BY <1>0, <1>4, <2>3, <3>1, <3>2
  <2> QED BY <2>1, <2>2, <2>3
<1>6. \A q \in failed' : pc'[q] = "dead"
  <2>1. pc[p] = "giveUp" => pc'[p] = "dead"
    BY DEF Stepped, Moves
  <2>2. p \notin failed
    BY DEF Passing, Stepped, Moves
  <2> QED BY <1>2, <1>3, <2>1, <2>2 DEF Passing, TableTypes
<1>7. \A q \in Procs : pc'[q] \in Filling \ {"openNamed", "openFilled"} => handle'[q]["memFilled"] > 0
  <2> TAKE q \in Procs
  <2>1. CASE q # p
    BY <1>2, <2>1 DEF Passing, Stepped, SemEffect
  <2>2. CASE q = p /\ pc[p] = "openFilled"
    <3>1. Opening1(p, "memFilled") /\ "memFilled" \in Names
      BY <2>2 DEF Opening1, Names
    <3> QED BY <2>2, <3>1 DEF Stepped, SemEffect
  <2>3. CASE q = p /\ pc[p] # "openFilled"
    <3>1. ~Opening1(p, "memFilled") /\ "memFilled" \in Names
      BY <2>3 DEF Opening1, Names
    <3>2. handle'[p]["memFilled"] = handle[p]["memFilled"]
      BY <3>1 DEF Stepped, SemEffect
    <3>3. pc'[p] \in Filling \ {"openNamed", "openFilled"} => pc[p] \in Filling \ {"openNamed", "openFilled"}
      BY <2>3 DEF Stepped, Moves, Filling, Base, Labels, Opening, Gone, Behind
    <3> QED BY <2>3, <3>2, <3>3 DEF Passing
  <2> QED BY <2>1, <2>2, <2>3
<1>8. \A k \in 1..Len(value'["memFilled"]) : value'["memFilled"][k] > 0 => Full'
  <2> SUFFICES ASSUME NEW k \in 1..Len(value'["memFilled"]), value'["memFilled"][k] > 0 PROVE Full'
    OBVIOUS
  <2>0. "memFilled" \in Names /\ Len(value["memFilled"]) \in Nat
    BY LenProperties DEF Base, SemTypes, Names
  <2>1. CASE Lower("memFilled")
    BY <1>0, <2>1 DEF Lower, Passing
  <2>2. CASE Renewed(p, "memFilled")
    <3>1. value'["memFilled"][Len(value["memFilled"]) + 1] = 0
      BY <2>2 DEF Renewed, InitialValue
    <3>2. k # Len(value["memFilled"]) + 1
      BY <3>1
    <3>3. k \in 1..Len(value["memFilled"])
      BY <2>0, <2>2, <3>2 DEF Renewed
    <3>4. value["memFilled"][k] > 0
      BY <2>2, <3>3 DEF Renewed
    <3> QED BY <1>0, <3>3, <3>4 DEF Passing
  <2>3. CASE Posting(p, "memFilled")
    <3>1. CASE pc[p] = "passFilled"
      BY <1>0, <1>1, <3>1 DEF Filling
    <3>2. CASE pc[p] = "tellFull" /\ LastToFill(p)
      <4>1. Filled \in SUBSET Procs /\ Cardinality(Filled) \in Nat /\ Cardinality(Filled) <= procNum
        BY SubsetOfProcs DEF Filled
      <4>2. Len(id) \in Nat /\ counter[p] = procNum - 1 /\ p \in Filled
        BY <3>2, LenProperties DEF TableTypes, LastToFill, Filled, Early
      <4>3. counter[p] < Len(id) /\ Len(id) <= Cardinality(Filled)
        BY <4>2 DEF Sized
      <4>4. Full
        BY <4>1, <4>2, <4>3, ProcsFinite DEF Full
      <4> QED BY <1>0, <4>4
    <3> QED BY <2>3, <3>1, <3>2 DEF Posting
  <2> QED BY <2>0, <2>1, <2>2, <2>3 DEF Stepped, SemEffect
<1>9. overwritten' => Full'
  <2>1. overwritten' => overwritten \/ pc[p] = "throw"
    BY DEF Stepped, Frame
  <2> QED BY <1>0, <1>1, <2>1 DEF Passing, Filling
<1> QED BY <1>5, <1>6, <1>7, <1>8, <1>9 DEF Passing

LEMMA FirstStep ==
  ASSUME NEW p \in Procs, Base, TableTypes, Sized, Passing, First, Stepped(p)
  PROVE  First'
<1> SUFFICES ASSUME failed' = {}, NEW n \in {"named", "memFilled"}
             PROVE  Len(value'[n]) <= 1 /\ (n \notin linked' /\ Len(value'[n]) > 0 => Full')
  BY DEF First
<1>0. n \in Names /\ Len(value[n]) \in Nat /\ Len(value'[n]) \in Nat
  BY LenProperties DEF Base, SemTypes, Names, Stepped
<1>1. failed = {} /\ pc[p] # "giveUp"
  BY DEF Stepped, Frame, Does, GiveUp
<1>2. Len(value[n]) <= 1 /\ (n \notin linked /\ Len(value[n]) > 0 => Full)
  BY <1>1 DEF First
<1>3. Full => Full'
  BY FullStays
<1>4. CASE n \notin linked /\ Opening1(p, n)
  <2>1. pc[p] \in Early
    BY <1>4 DEF Opening1, Early
  <2>2. ~Full
    BY <2>1, FullFilled DEF Filled
  <2>3. Len(value[n]) = 0
    BY <1>0, <1>2, <1>4, <2>2
  <2>4. Len(value'[n]) <= 1
    BY <1>0, <2>3 DEF Stepped, SemEffect, Lower, Renewed
  <2>5. n \in linked'
    BY <1>0, <1>4 DEF Stepped, SemEffect
  <2> QED BY <1>4, <2>4, <2>5
<1>5. CASE n \in linked \/ ~Opening1(p, n)
  <2>1. Len(value'[n]) = Len(value[n])
    BY <1>0, <1>5 DEF Stepped, SemEffect, Lower, Renewed
  <2>2. n \in linked /\ n \notin linked' => Full
    <3> SUFFICES ASSUME n \in linked, n \notin linked' PROVE Full
      OBVIOUS
    <3>1. Removing(p, n)
      BY <1>0 DEF Stepped, SemEffect
    <3>2. pc[p] \in {"unlinkNamed", "unlinkFilled"}
      BY <1>1, <3>1 DEF Removing
    <3> QED BY <1>1, <3>2 DEF Passing, Filling
  <2> QED BY <1>2, <1>3, <2>1, <2>2
<1> QED BY <1>4, <1>5

-----------------------------------------------------------------------------
(* The second barrier.  Those who have counted themselves out are known    *)
(* from where they are, or from what they hold when they have ended.       *)
HasFree(p) == handle[p]["freeMemC"] > 0
Inside == (Gone \cup Behind) \ {"openRelease", "openFree"}
Out == {"unlockRelease", "waitFree"} \cup Behind
Counted == {p \in Procs : pc[p] \in Out \/ (pc[p] = "dead" /\ HasFree(p))}

Leaving ==
  /\ counter3 = Cardinality(Counted)
  /\ \A p \in Procs : pc[p] # "dead" => (HasFree(p) <=> pc[p] \in Inside)
  /\ \A p \in Procs : pc[p] \in Behind => counter3 = procNum
  /\ \A k \in 1..Len(value["freeMemC"]) : value["freeMemC"][k] > 0 => counter3 = procNum

Second == \A n \in {"memReleaseC", "freeMemC"} :
            Len(value[n]) <= 1 /\ (n \notin linked /\ Len(value[n]) > 0 => counter3 = procNum)

LEMMA HasFreeStep ==
  ASSUME NEW p \in Procs, Base, Leaving, Stepped(p)
  PROVE  /\ \A q \in Procs : pc'[q] # "dead" => (HasFree(q)' <=> pc'[q] \in Inside)
         /\ pc[p] # "openFree" => \A q \in Procs : HasFree(q)' <=> HasFree(q)
<1>0. "freeMemC" \in Names
  BY DEF Names
<1>1. \A q \in Procs \ {p} : HasFree(q)' <=> HasFree(q)
  BY DEF Stepped, SemEffect, HasFree
<1>2. pc[p] # "openFree" => (HasFree(p)' <=> HasFree(p))
  <2>1. pc[p] # "openFree" => ~Opening1(p, "freeMemC")
    BY DEF Opening1
  <2> QED BY <1>0, <2>1 DEF Stepped, SemEffect, HasFree
<1>3. pc[p] = "openFree" => HasFree(p)'
  <2>1. pc[p] = "openFree" => Opening1(p, "freeMemC")
    BY DEF Opening1
  <2> QED BY <1>0, <2>1 DEF Stepped, SemEffect, HasFree
<1>4. \A q \in Procs \ {p} : /\ pc'[q] \in Inside <=> pc[q] \in Inside
                             /\ pc'[q] = "dead" <=> pc[q] = "dead"
  BY DEF Stepped, Rest, Inside, Gone, Behind
<1>5. pc[p] # "dead"
  BY DEF Stepped, Moves
<1>6. pc[p] # "openFree" => pc'[p] = "dead" \/ (pc'[p] \in Inside <=> pc[p] \in Inside)
  BY DEF Stepped, Moves, Inside, Gone, Behind, Base, Labels, Filling, Opening
<1>7. pc[p] = "openFree" => pc'[p] \in Inside
  BY DEF Stepped, Moves, Inside, Gone, Behind
<1> QED BY <1>1, <1>2, <1>3, <1>4, <1>5, <1>6, <1>7 DEF Leaving

LEMMA CountedStep ==
  ASSUME NEW p \in Procs, Base, Leaving, Stepped(p)
  PROVE  /\ pc[p] = "countOut" => Counted' = Counted \cup {p} /\ p \notin Counted
         /\ pc[p] # "countOut" => Counted' = Counted
<1>1. \A q \in Procs \ {p} : /\ pc'[q] \in Out <=> pc[q] \in Out
                             /\ pc'[q] = "dead" <=> pc[q] = "dead"
                             /\ HasFree(q)' <=> HasFree(q)
  BY DEF Stepped, SemEffect, Rest, Out, Behind, HasFree
<1>2. pc[p] = "countOut" => pc'[p] \in Out /\ pc[p] \notin Out \cup {"dead"}
  BY DEF Stepped, Moves, Out, Behind
<1>3. CASE pc[p] = "countOut"
  BY <1>1, <1>2, <1>3 DEF Counted
<1>4. CASE pc[p] # "countOut" /\ pc[p] \in Out
  <2>1. pc[p] \in Inside /\ pc[p] # "dead" /\ pc[p] # "openFree"
    BY <1>4 DEF Out, Inside, Gone, Behind
  <2>2. HasFree(p)'
    BY <2>1, HasFreeStep DEF Leaving
  <2>3. pc'[p] \in Out \cup {"dead"}
    BY <1>4 DEF Stepped, Moves, Out, Behind
  <2> QED BY <1>1, <1>4, <2>2, <2>3 DEF Counted
<1>5. CASE pc[p] # "countOut" /\ pc[p] \notin Out
  <2>1. pc[p] # "dead" /\ pc'[p] \notin Out
    BY <1>5 DEF Stepped, Moves, Out, Behind, Base, Labels, Filling, Opening, Gone
  <2>2. pc'[p] = "dead" => pc[p] \notin Inside /\ pc[p] # "openFree"
    BY <1>5 DEF Stepped, Moves, Out, Behind, Base, Labels, Filling, Opening, Gone, Inside
  <2>3. pc'[p] = "dead" => ~HasFree(p)'
    BY <2>1, <2>2, HasFreeStep DEF Leaving
  <2> QED BY <1>1, <1>5, <2>1, <2>3 DEF Counted
<1> QED BY <1>3, <1>4, <1>5

LEMMA LeavingStep ==
  ASSUME NEW p \in Procs, Base, Leaving, Stepped(p)
  PROVE  Leaving' /\ (counter3 = procNum => counter3' = procNum /\ Counted = Procs)
<1>0. /\ Counted \in SUBSET Procs /\ Cardinality(Counted) \in Nat /\ Cardinality(Counted) <= procNum
      /\ procNum \in Nat /\ "freeMemC" \in Names
  BY SubsetOfProcs, ProcsFinite DEF Counted, Names
<1>1. counter3 = procNum => Counted = Procs
  BY <1>0, SubsetOfProcs DEF Leaving
<1>2. /\ pc[p] = "countOut" => counter3' = counter3 + 1
      /\ pc[p] # "countOut" => counter3' = counter3
  BY DEF Stepped, Frame, Does, CountOut
<1>3. counter3' = Cardinality(Counted')
  <2>1. CASE pc[p] = "countOut"
    BY <1>0, <1>2, <2>1, CountedStep, AddOne DEF Leaving
  <2>2. CASE pc[p] # "countOut"
    BY <1>2, <2>2, CountedStep DEF Leaving
  <2> QED BY <2>1, <2>2
<1>4. counter3 = procNum => counter3' = procNum
  <2>1. pc[p] = "countOut" => p \notin Counted
    BY CountedStep
  <2> QED BY <1>1, <1>2, <2>1
<1>5. \A q \in Procs : pc'[q] # "dead" => (HasFree(q)' <=> pc'[q] \in Inside)
  BY HasFreeStep
<1>6. pc[p] = "waitFree" => counter3 = procNum
  <2> SUFFICES ASSUME pc[p] = "waitFree" PROVE counter3 = procNum
    OBVIOUS
  <2>1. Taken(p, "freeMemC")
    BY DEF Stepped, Takes
  <2>2. handle[p]["freeMemC"] > 0
    BY DEF Leaving, HasFree, Inside, Gone
  <2>3. /\ handle[p]["freeMemC"] \in Nat /\ Len(value["freeMemC"]) \in Nat
        /\ handle[p]["freeMemC"] <= Len(value["freeMemC"])
    BY <1>0, LenProperties DEF Base, SemTypes
  <2>4. handle[p]["freeMemC"] \in 1..Len(value["freeMemC"])
    BY <2>2, <2>3
  <2> QED BY <2>1, <2>4 DEF Taken, Leaving
<1>7. \A q \in Procs : pc'[q] \in Behind => counter3' = procNum
  <2>1. \A q \in Procs \ {p} : pc'[q] \in Behind <=> pc[q] \in Behind
    BY DEF Stepped, Rest, Behind
  <2>2. pc'[p] \in Behind => pc[p] \in Behind \cup {"waitFree"}
    BY DEF Stepped, Moves, Behind, Base, Labels, Filling, Opening, Gone
  <2> QED BY <1>4, <1>6, <2>1, <2>2 DEF Leaving
<1>8. \A k \in 1..Len(value'["freeMemC"]) : value'["freeMemC"][k] > 0 => counter3' = procNum
  <2> SUFFICES ASSUME NEW k \in 1..Len(value'["freeMemC"]), value'["freeMemC"][k] > 0
               PROVE  counter3' = procNum
    OBVIOUS
  <2>0. Len(value["freeMemC"]) \in Nat
    BY <1>0, LenProperties DEF Base, SemTypes
  <2>1. CASE Lower("freeMemC")
    BY <1>4, <2>1 DEF Lower, Leaving
  <2>2. CASE Renewed(p, "freeMemC")
    <3>1. value'["freeMemC"][Len(value["freeMemC"]) + 1] = 0
      BY <2>2 DEF Renewed, InitialValue
    <3>2. k # Len(value["freeMemC"]) + 1
      BY <3>1
    <3>3. k \in 1..Len(value["freeMemC"])
      BY <2>0, <2>2, <3>2 DEF Renewed
    <3>4. value["freeMemC"][k] > 0
      BY <2>2, <3>3 DEF Renewed
    <3> QED BY <1>4, <3>3, <3>4 DEF Leaving
  <2>3. CASE Posting(p, "freeMemC")
    <3>1. CASE pc[p] = "passFree"
      BY <1>4, <3>1 DEF Leaving, Behind
    <3>2. CASE pc[p] = "countOut" /\ LastToLeave(p)
      BY <1>0, <1>2, <3>2 DEF LastToLeave
    <3> QED BY <2>3, <3>1, <3>2 DEF Posting
  <2> QED BY <1>0, <2>1, <2>2, <2>3 DEF Stepped, SemEffect
<1> QED BY <1>1, <1>3, <1>4, <1>5, <1>7, <1>8 DEF Leaving

LEMMA SecondStep ==
  ASSUME NEW p \in Procs, Base, Leaving, Second, Stepped(p)
  PROVE  Second'
<1> SUFFICES ASSUME NEW n \in {"memReleaseC", "freeMemC"}
             PROVE  Len(value'[n]) <= 1 /\ (n \notin linked' /\ Len(value'[n]) > 0 => counter3' = procNum)
  BY DEF Second
<1>0. n \in Names /\ Len(value[n]) \in Nat /\ Len(value'[n]) \in Nat
  BY LenProperties DEF Base, SemTypes, Names, Stepped
<1>1. Len(value[n]) <= 1 /\ (n \notin linked /\ Len(value[n]) > 0 => counter3 = procNum)
  BY DEF Second
<1>2. counter3 = procNum => counter3' = procNum /\ Counted = Procs
  BY LeavingStep
<1>3. CASE n \notin linked /\ Opening1(p, n)
  <2>1. pc[p] \notin Out \cup {"dead"}
    BY <1>3 DEF Opening1, Out, Behind
  <2>2. Len(value[n]) = 0
    BY <1>0, <1>1, <1>2, <1>3, <2>1 DEF Counted
  <2>3. Len(value'[n]) <= 1
    BY <1>0, <2>2 DEF Stepped, SemEffect, Lower, Renewed
  <2>4. n \in linked'
    BY <1>0, <1>3 DEF Stepped, SemEffect
  <2> QED BY <2>3, <2>4
<1>4. CASE n \in linked \/ ~Opening1(p, n)
  <2>1. Len(value'[n]) = Len(value[n])
    BY <1>0, <1>4 DEF Stepped, SemEffect, Lower, Renewed
  <2>2. n \in linked /\ n \notin linked' => counter3 = procNum
    <3> SUFFICES ASSUME n \in linked, n \notin linked' PROVE counter3 = procNum
      OBVIOUS
    <3>1. Removing(p, n)
      BY <1>0 DEF Stepped, SemEffect
    <3>2. pc[p] \in Behind
      BY <3>1 DEF Removing, Behind
    <3> QED BY <3>2 DEF Leaving
  <2> QED BY <1>1, <1>2, <2>1, <2>2
<1> QED BY <1>3, <1>4

-----------------------------------------------------------------------------
(* The two barriers, put together.                                         *)
Barriers == Base /\ TableTypes /\ Sized /\ Table /\ Passing /\ First /\ Leaving /\ Second

LEMMA BarriersStep ==
  ASSUME NEW p \in Procs, Barriers, Step(p) PROVE Barriers' /\ Stepped(p)
<1>1. Stepped(p)
  BY SteppedStep DEF Barriers
<1>2. Base'
  BY <1>1 DEF Stepped, Base
<1>3. TableTypes' /\ Sized' /\ Table'
  BY <1>1, TypesStep, SizedStep, TableStep DEF Barriers
<1>4. Passing' /\ First'
  BY <1>1, PassingStep, FirstStep DEF Barriers
<1>5. Leaving' /\ Second'
  BY <1>1, LeavingStep, SecondStep DEF Barriers
<1> QED BY <1>1, <1>2, <1>3, <1>4, <1>5 DEF Barriers

LEMMA BarriersStutter == ASSUME Barriers, UNCHANGED vars PROVE Barriers'
<1> USE DEF vars
<1>1. Filled' = Filled /\ Counted' = Counted /\ (Full' <=> Full)
  BY DEF Filled, Counted, HasFree, Full
<1>2. Base' /\ TableTypes'
  BY DEF Barriers, Base, SemTypes, TableTypes
<1>3. Sized' /\ Table'
  BY <1>1 DEF Barriers, Sized, Table
<1>4. Passing' /\ First'
  BY <1>1 DEF Barriers, Passing, First
<1>5. Leaving' /\ Second'
  BY <1>1 DEF Barriers, Leaving, Second, HasFree
<1> QED BY <1>2, <1>3, <1>4, <1>5 DEF Barriers

LEMMA BarriersInit == Init => Barriers
<1> SUFFICES ASSUME Init PROVE Barriers
  OBVIOUS
<1>1. /\ pc = [p \in Procs |-> "openNamed"] /\ value = [n \in Names |-> <<>>] /\ linked = {}
      /\ handle = [p \in Procs |-> [n \in Names |-> 0]] /\ id = <<>>
      /\ counter = [p \in Procs |-> 0] /\ counter3 = 0 /\ failed = {} /\ overwritten = FALSE
  BY DEF Init
<1>2. <<>> \in Seq(Nat) /\ <<>> \in Seq(Pid) /\ Len(<<>>) = 0
  OBVIOUS
<1>3. Filled = {} /\ Counted = {} /\ Cardinality(Filled) = 0 /\ Cardinality(Counted) = 0
  <2>1. Filled = {} /\ Counted = {}
    BY <1>1 DEF Filled, Early, Counted, Out, Behind
  <2> QED BY <2>1, FS_EmptySet
<1>4. Base
  BY <1>1, <1>2 DEF Base, SemTypes, Labels, Filling
<1>5. TableTypes
  BY <1>1, <1>2 DEF TableTypes
<1>9. Sized
  <2>1. Len(id) = 0 /\ \A p \in Procs : counter[p] = 0
    BY <1>1, <1>2
  <2> QED BY <1>3, <2>1 DEF Sized
<1>10. Table
  <2>1. Len(id) = 0
    BY <1>1, <1>2
  <2> QED BY <1>3, <2>1 DEF Table
<1>6. Passing
  BY <1>1, <1>2 DEF Passing, Filling, Names
<1>7. First /\ Second
  BY <1>1, <1>2 DEF First, Second, Names
<1>8. Leaving
  BY <1>1, <1>2, <1>3 DEF Leaving, HasFree, Inside, Gone, Behind, Names
<1> QED BY <1>4, <1>5, <1>6, <1>7, <1>8, <1>9, <1>10 DEF Barriers

LEMMA BarriersHold == Spec => []Barriers
<1>1. Barriers /\ [Next]_vars => Barriers'
  BY BarriersStep, BarriersStutter DEF Next
<1> QED BY BarriersInit, <1>1, PTL DEF Spec

(* Nobody removes anything a process may still use before all are at the   *)
(* end of the game: whoever is behind the second barrier was let through   *)
(* by the last who counted itself out.                                     *)
THEOREM NobodyIsLeft == Spec => []NobodyLeftPlaying
<1>1. Barriers => NobodyLeftPlaying
  <2> SUFFICES ASSUME Barriers, \E p \in Procs : pc[p] \in Behind, NEW q \in Procs
               PROVE  pc[q] \in Gone \cup Behind \cup {"dead"}
    BY DEF NobodyLeftPlaying
  <2>1. Counted \in SUBSET Procs /\ Cardinality(Counted) = procNum
    BY DEF Barriers, Leaving, Counted
  <2>2. Counted = Procs
    BY <2>1, SubsetOfProcs
  <2> QED BY <2>2 DEF Counted, Out, Gone
<1> QED BY BarriersHold, <1>1, PTL

(* Those who meet at a barrier hold the same semaphores, unless one of     *)
(* them could not make its FIFO: a name is removed only behind the barrier,*)
(* and opened only before it.                                              *)
THEOREM BarriersAreOne == Spec => []OneBarrier
<1>1. Barriers => OneBarrier
  BY DEF Barriers, First, Second, OneBarrier
<1> QED BY BarriersHold, <1>1, PTL

-----------------------------------------------------------------------------
(* What is left behind.  A name that somebody has removed behind a barrier *)
(* stays removed, and a FIFO goes with each who leaves.                    *)
Removed(n, places) == \A p \in Procs : pc[p] \in places => n \notin linked
PastFirst == Labels \ (Filling \cup {"passFilled", "unlinkNamed", "dead"})
PastSecond == {"unlinkFree", "unlink", "done"}
Removes == /\ Removed("named", PastFirst)
           /\ Removed("memFilled", PastFirst \ {"unlinkFilled"})
           /\ Removed("memReleaseC", PastSecond)
           /\ Removed("freeMemC", PastSecond \ {"unlinkFree"})

Done == {p \in Procs : pc[p] = "done"}
NoneFailed == failed = {} /\ \A p \in Procs : pc[p] # "giveUp"
Fifos == NoneFailed => /\ Full => Cardinality(fifos) + Cardinality(Done) = procNum
                       /\ ~Full => 0..Len(id) - 1 \subseteq fifos
CInv == fifos \subseteq Slots /\ Removes /\ Fifos

LEMMA SlotsFinite == IsFiniteSet(Slots) /\ Cardinality(Slots) = procNum
<1>1. procNum - 1 \in Int /\ 0 \in Int /\ procNum \in Nat
  BY ProcsFinite
<1> QED BY <1>1, FS_Interval, ProcsFinite DEF Slots

LEMMA FifoSets == ASSUME NEW F \in SUBSET Slots
                  PROVE  IsFiniteSet(F) /\ Cardinality(F) \in Nat
  BY SlotsFinite, FS_Subset, FS_CardinalityType

LEMMA RemovedStep ==
  ASSUME NEW p \in Procs, Stepped(p), NEW n \in Names, NEW places, NEW at,
         Removed(n, places), Opening1(p, n) => \A q \in Procs : pc[q] \notin places,
         pc'[p] \in places => pc[p] \in places \/ Removing(p, n),
         pc[p] \in places => ~Opening1(p, n),
         {"blocked", "open", "start"} \subseteq places \/ {"blocked", "open", "start"} \cap places = {}
  PROVE  Removed(n, places)'
<1>1. \A q \in Procs \ {p} : pc'[q] \in places => pc[q] \in places
  BY DEF Stepped, Rest
<1>2. n \notin linked /\ n \in linked' => Opening1(p, n)
  BY DEF Stepped, SemEffect
<1>3. Removing(p, n) => n \notin linked'
  BY DEF Stepped, SemEffect
<1>4. Removing(p, n) => ~Opening1(p, n)
  BY DEF Removing, Opening1
<1> SUFFICES ASSUME NEW q \in Procs, pc'[q] \in places PROVE n \notin linked'
  BY DEF Removed
<1>5. CASE pc[q] \in places
  BY <1>2, <1>5 DEF Removed
<1>6. CASE pc[q] \notin places
  BY <1>1, <1>3, <1>6
<1> QED BY <1>5, <1>6

LEMMA RemovesStep ==
  ASSUME NEW p \in Procs, Barriers, Removes, Stepped(p) PROVE Removes'
<1>1. \A q \in Procs : pc[q] \in PastFirst => Full
  <2> SUFFICES ASSUME NEW q \in Procs, pc[q] \in PastFirst PROVE Full
    OBVIOUS
  <2>1. pc[q] \notin Filling /\ pc[q] # "dead"
    BY DEF PastFirst
  <2> QED BY <2>1 DEF Barriers, Passing
<1>2. Full => pc[p] \notin {"openNamed", "openFilled"}
  BY FullFilled DEF Barriers, Filled, Early
<1>3. \A q \in Procs : pc[q] \in PastSecond => counter3 = procNum
  BY DEF Barriers, Leaving, PastSecond, Behind
<1>4. counter3 = procNum => pc[p] \notin {"openRelease", "openFree"}
  <2>1. counter3 = procNum => Counted = Procs
    BY LeavingStep DEF Barriers
  <2> QED BY <2>1 DEF Counted, Out, Behind
<1>5. pc[p] \in Labels /\ pc'[p] \in Labels
  BY DEF Barriers, Base, Stepped
<1>6. Removed("named", PastFirst)'
  <2>1. Opening1(p, "named") => \A q \in Procs : pc[q] \notin PastFirst
    BY <1>1, <1>2 DEF Opening1
  <2>2. pc'[p] \in PastFirst => pc[p] \in PastFirst \/ Removing(p, "named")
    BY <1>5 DEF Stepped, Moves, PastFirst, Removing, Labels, Filling, Opening, Gone, Behind
  <2>3. {"blocked", "open", "start"} \subseteq PastFirst
    BY DEF PastFirst, Labels, Opening, Filling
  <2> QED BY <2>1, <2>2, <2>3, RemovedStep DEF Removes, Names
<1>7. Removed("memFilled", PastFirst \ {"unlinkFilled"})'
  <2> DEFINE P == PastFirst \ {"unlinkFilled"}
  <2>1. Opening1(p, "memFilled") => \A q \in Procs : pc[q] \notin P
    BY <1>1, <1>2 DEF Opening1
  <2>2. pc'[p] \in P => pc[p] \in P \/ Removing(p, "memFilled")
    BY <1>5 DEF Stepped, Moves, PastFirst, Removing, Labels, Filling, Opening, Gone, Behind
  <2>3. {"blocked", "open", "start"} \subseteq P
    BY DEF PastFirst, Labels, Opening, Filling
  <2>4. Removed("memFilled", P)
    BY DEF Removes
  <2> HIDE DEF P
  <2>5. Removed("memFilled", P)'
    BY <2>1, <2>2, <2>3, <2>4, RemovedStep DEF Names
  <2> QED BY <2>5 DEF P
<1>8. Removed("memReleaseC", PastSecond)'
  <2>1. Opening1(p, "memReleaseC") => \A q \in Procs : pc[q] \notin PastSecond
    BY <1>3, <1>4 DEF Opening1
  <2>2. pc'[p] \in PastSecond => pc[p] \in PastSecond \/ Removing(p, "memReleaseC")
    BY <1>5 DEF Stepped, Moves, PastSecond, Removing, Labels, Filling, Opening, Gone, Behind
  <2>3. {"blocked", "open", "start"} \cap PastSecond = {}
    BY DEF PastSecond
  <2> QED BY <2>1, <2>2, <2>3, RemovedStep DEF Removes, Names
<1>9. Removed("freeMemC", PastSecond \ {"unlinkFree"})'
  <2> DEFINE P == PastSecond \ {"unlinkFree"}
  <2>1. Opening1(p, "freeMemC") => \A q \in Procs : pc[q] \notin P
    BY <1>3, <1>4 DEF Opening1
  <2>2. pc'[p] \in P => pc[p] \in P \/ Removing(p, "freeMemC")
    BY <1>5 DEF Stepped, Moves, PastSecond, Removing, Labels, Filling, Opening, Gone, Behind
  <2>3. {"blocked", "open", "start"} \cap P = {}
    BY DEF PastSecond
  <2>4. Removed("freeMemC", P)
    BY DEF Removes
  <2> HIDE DEF P
  <2>5. Removed("freeMemC", P)'
    BY <2>1, <2>2, <2>3, <2>4, RemovedStep DEF Names
  <2> QED BY <2>5 DEF P
<1> QED BY <1>6, <1>7, <1>8, <1>9 DEF Removes

LEMMA FifosStep ==
  ASSUME NEW p \in Procs, Barriers, CInv, Stepped(p)
  PROVE  fifos' \subseteq Slots /\ Fifos'
<1>0. /\ Len(id) \in Nat /\ Len(id') \in Nat /\ procNum \in Nat /\ procNum > 1
      /\ Filled \in SUBSET Procs /\ Cardinality(Filled) \in Nat /\ counter[p] \in Nat
      /\ Len(id) <= Cardinality(Filled) /\ counter[p] <= Len(id)
  BY LenProperties, TypesStep, SubsetOfProcs, ProcsFinite DEF Barriers, TableTypes, Filled, Sized
<1>1. pc[p] = "fill" => counter[p] \in Slots /\ Len(id) < procNum
  <2> SUFFICES ASSUME pc[p] = "fill" PROVE counter[p] \in Slots /\ Len(id) < procNum
    OBVIOUS
  <2>1. p \notin Filled
    BY DEF Filled, Early
  <2>2. Cardinality(Filled) < procNum
    BY <1>0, <2>1, SubsetOfProcs
  <2> QED BY <1>0, <2>2 DEF Slots
<1>2. fifos' \subseteq Slots
  <2>1. CASE pc[p] = "fill"
    BY <1>1, <2>1 DEF Stepped, Does, Fill, CInv
  <2>2. CASE pc[p] = "unlink"
    BY <2>2 DEF Stepped, Does, Unlink, CInv
  <2>3. CASE pc[p] \notin {"fill", "unlink"}
    BY <2>3 DEF Stepped, Frame, CInv
  <2> QED BY <2>1, <2>2, <2>3
<1> SUFFICES ASSUME NoneFailed'
             PROVE  /\ Full' => Cardinality(fifos') + Cardinality(Done') = procNum
                    /\ ~Full' => 0..Len(id') - 1 \subseteq fifos'
  BY <1>2 DEF Fifos
<1>3. NoneFailed
  <2>1. failed = {} /\ pc[p] # "giveUp"
    BY DEF NoneFailed, Stepped, Frame, Does, GiveUp
  <2>2. \A q \in Procs \ {p} : pc'[q] # "giveUp" => pc[q] # "giveUp"
    BY DEF Stepped, Rest
  <2> QED BY <2>1, <2>2 DEF NoneFailed
<1>4. CASE pc[p] = "fill"
  <2>1. counter[p] \notin fifos /\ fifos' = fifos \cup {counter[p]}
    <3>1. pc'[p] # "giveUp"
      BY DEF NoneFailed
    <3>2. pc[p] = "fill" /\ Fill(p)
      BY <1>4 DEF Stepped, Does
    <3>3. counter[p] \in fifos => pc'[p] = "giveUp"
      BY <3>2 DEF Fill, Goes, Barriers, Base
    <3> QED BY <3>1, <3>2, <3>3 DEF Fill
  <2>2. ~Full /\ 0..Len(id) - 1 \subseteq fifos
    BY <1>0, <1>1, <1>3, <1>4 DEF Full, CInv, Fifos
  <2>3. counter[p] = Len(id)
    BY <1>0, <2>1, <2>2
  <2>4. Len(id') = Len(id) + 1
    BY <1>0, <1>4, <2>3, TypesStep DEF Barriers
  <2>5. 0..Len(id') - 1 \subseteq fifos'
    <3> SUFFICES ASSUME NEW i \in 0..Len(id') - 1 PROVE i \in fifos'
      OBVIOUS
    <3>1. i \in 0..Len(id) - 1 \/ i = Len(id)
      BY <1>0, <2>4
    <3> QED BY <2>1, <2>2, <2>3, <3>1
  <2>6. Full' => fifos' = Slots
    BY <1>2, <2>5 DEF Full, Slots
  <2>7. Done' = {}
    <3>1. \A q \in Procs : pc[q] \in Filling
      BY <1>3, <2>2 DEF NoneFailed, Barriers, Passing
    <3>2. \A q \in Procs \ {p} : pc'[q] # "done"
      BY <3>1 DEF Stepped, Rest, Filling
    <3>3. pc'[p] # "done"
      BY <1>4 DEF Stepped, Moves
    <3> QED BY <3>2, <3>3 DEF Done
  <2>8. Cardinality(Done') = 0
    BY <2>7, FS_EmptySet
  <2> QED BY <1>0, <2>5, <2>6, <2>8, SlotsFinite
<1>5. CASE pc[p] # "fill"
  <2>1. Len(id') = Len(id) /\ (Full' <=> Full)
    BY <1>5, TypesStep DEF Full, Barriers
  <2>2. Done \in SUBSET Procs /\ Done' \in SUBSET Procs /\ fifos \in SUBSET Slots
    BY DEF Done, CInv
  <2>3. Cardinality(Done) \in Nat /\ IsFiniteSet(fifos) /\ Cardinality(fifos) \in Nat
    BY <2>2, SubsetOfProcs, FifoSets
  <2>4. \A q \in Procs \ {p} : pc'[q] = "done" <=> pc[q] = "done"
    BY DEF Stepped, Rest
  <2>5. CASE pc[p] = "unlink" /\ pc'[p] = "done"
    <3>1. Full
      <4>1. p \notin failed
        BY <1>3 DEF NoneFailed
      <4>2. pc[p] \notin Filling
        BY <2>5 DEF Filling
      <4> QED BY <4>1, <4>2 DEF Barriers, Passing
    <3>2. Unlink(p) /\ pc \in [Procs -> Labels]
      BY <2>5 DEF Stepped, Does, Barriers, Base
    <3>3. IndexOf(p) \in fifos /\ fifos' = fifos \ {IndexOf(p)}
      <4>1. IndexOf(p) \notin fifos => pc'[p] = "dead"
        BY <3>2 DEF Unlink, Goes
      <4> QED BY <2>5, <3>2, <4>1 DEF Unlink
    <3>4. Cardinality(fifos') = Cardinality(fifos) - 1
      BY <2>3, <3>3, FS_RemoveElement
    <3>5. Done' = Done \cup {p} /\ p \notin Done
      BY <2>4, <2>5 DEF Done
    <3>6. Cardinality(Done') = Cardinality(Done) + 1
      BY <2>2, <3>5, AddOne
    <3> QED BY <1>0, <1>3, <2>1, <2>3, <3>1, <3>4, <3>6 DEF CInv, Fifos
  <2>6. CASE ~(pc[p] = "unlink" /\ pc'[p] = "done")
    <3>1. pc'[p] # "done" /\ pc[p] # "done"
      BY <2>6 DEF Stepped, Moves, Barriers, Base, Labels, Filling, Opening, Gone, Behind
    <3>2. Done' = Done
      BY <2>4, <3>1 DEF Done
    <3>3. fifos' = fifos
      <4>1. CASE pc[p] = "unlink"
        BY <2>6, <4>1 DEF Stepped, Does, Unlink, Goes, Barriers, Base
      <4>2. CASE pc[p] # "unlink"
        BY <1>5, <4>2 DEF Stepped, Frame
      <4> QED BY <4>1, <4>2
    <3> QED BY <1>3, <2>1, <3>2, <3>3 DEF CInv, Fifos
  <2> QED BY <2>5, <2>6
<1> QED BY <1>4, <1>5

LEMMA CleanAtEnd == ASSUME Barriers, CInv PROVE CleanEnd
<1> SUFFICES ASSUME \A p \in Procs : pc[p] = "done"
             PROVE  fifos = {} /\ linked \subseteq {"noPotato", "mySemWithPotato"}
  BY DEF CleanEnd
<1>1. PICK p \in Procs : TRUE
  BY ProcsFinite, FS_EmptySet DEF procNum
<1>2. failed = {} /\ NoneFailed
  BY DEF Barriers, Passing, TableTypes, NoneFailed
<1>3. Full
  BY <1>1, <1>2 DEF Barriers, Passing, Filling
<1>4. Done = Procs /\ Cardinality(Done) = procNum
  BY DEF Done, procNum
<1>5. IsFiniteSet(fifos) /\ Cardinality(fifos) \in Nat /\ procNum \in Nat
  BY FifoSets, ProcsFinite DEF CInv
<1>6. Cardinality(fifos) = 0
  BY <1>2, <1>3, <1>4, <1>5 DEF CInv, Fifos
<1>7. "done" \in PastFirst \ {"unlinkFilled"} /\ "done" \in PastSecond \ {"unlinkFree"}
  BY DEF PastFirst, PastSecond, Labels, Behind, Filling
<1>8. linked \cap {"named", "memFilled", "memReleaseC", "freeMemC"} = {}
  BY <1>1, <1>7 DEF CInv, Removes, Removed
<1> QED BY <1>5, <1>6, <1>8, FS_EmptySet DEF Barriers, Base, SemTypes, Names

-----------------------------------------------------------------------------
(* Sums over a finite set, by induction over its size.                     *)
Smaller == {p \in Nat \X Nat : p[1] < p[2]}

LEMMA Least == ASSUME NEW T \in SUBSET Nat, T # {}
               PROVE  \E x \in T : \A y \in T : x <= y
<1>1. IsWellFoundedOn(OpToRel(<, Nat), Nat)
  BY NatLessThanWellFounded, Zenon
<1>2. OpToRel(<, Nat) = Smaller
  BY DEF OpToRel, Smaller
<1>3. PICK x \in T : \A y \in T : ~ (<<y, x>> \in Smaller)
  BY <1>1, <1>2, WFMin, T \subseteq Nat, Zenon
<1>4. ASSUME NEW y \in T PROVE x <= y
  <2>1. x \in Nat /\ y \in Nat
    OBVIOUS
  <2>2. <<y, x>> \in Nat \X Nat /\ ~ (<<y, x>> \in Smaller)
    BY <1>3, <2>1
  <2> QED BY <2>1, <2>2 DEF Smaller
<1> QED BY <1>4

(* Induction: T is the set of those for which a formula holds.             *)
LEMMA AllNat == ASSUME NEW T \in SUBSET Nat, 0 \in T, \A k \in T : k + 1 \in T
                PROVE  T = Nat
<1> SUFFICES ASSUME Nat \ T # {} PROVE FALSE
  OBVIOUS
<1>1. (Nat \ T) \in SUBSET Nat
  OBVIOUS
<1>2. PICK x \in Nat \ T : \A y \in Nat \ T : x <= y
  BY <1>1, Least, Zenon
<1>3. x # 0 /\ x - 1 \in Nat
  BY <1>2
<1>4. x - 1 \in T
  BY <1>2, <1>3
<1> QED BY <1>2, <1>3, <1>4

(* How a sum over a set is built up.                                       *)
One(s) == CHOOSE x \in s : TRUE
Up(f, g, s) == IF s = {} THEN 0 ELSE f[One(s)] + g[s \ {One(s)}]
Iter(f, S) == CHOOSE g : g = [s \in SUBSET S |-> Up(f, g, s)]

LEMMA SumIs == ASSUME NEW f, NEW S
               PROVE  SumFunctionOnSet(f, S) = Iter(f, S)[S]
  BY DEF SumFunctionOnSet, FoldFunctionOnSet, MapThenFoldSet, Iter, Up, One

LEMMA OneIn == ASSUME NEW s, s # {}
               PROVE  One(s) \in s
  BY DEF One

LEMMA LessOne == ASSUME NEW S, IsFiniteSet(S), NEW s \in SUBSET S, NEW x \in s, NEW n \in Nat,
                        Cardinality(s) <= n + 1
                 PROVE  /\ IsFiniteSet(s) /\ s \ {x} \in SUBSET S
                        /\ Cardinality(s \ {x}) \in Nat /\ Cardinality(s) \in Nat
                        /\ Cardinality(s \ {x}) = Cardinality(s) - 1 /\ Cardinality(s \ {x}) <= n
<1>1. IsFiniteSet(s)
  BY FS_Subset
<1>2. Cardinality(s) \in Nat
  BY <1>1, FS_CardinalityType
<1>3. IsFiniteSet(s \ {x}) /\ Cardinality(s \ {x}) = Cardinality(s) - 1
  BY <1>1, FS_RemoveElement
<1>4. Cardinality(s \ {x}) \in Nat
  BY <1>3, FS_CardinalityType
<1> QED BY <1>1, <1>2, <1>3, <1>4

LEMMA IterIs == ASSUME NEW f, NEW S, IsFiniteSet(S)
                PROVE  \A s \in SUBSET S : Iter(f, S)[s] = Up(f, Iter(f, S), s)
<1> DEFINE Small(n) == {s \in SUBSET S : Cardinality(s) <= n}
           T == {n \in Nat : \E g : g = [s \in Small(n) |-> Up(f, g, s)]}
<1>1. 0 \in T
  <2>1. \A s \in Small(0) : s = {}
    <3>1. \A s \in SUBSET S : IsFiniteSet(s) /\ Cardinality(s) \in Nat /\ (Cardinality(s) = 0 <=> s = {})
      BY FS_Subset, FS_CardinalityType, FS_EmptySet
    <3> QED BY <3>1
  <2> DEFINE g == [s \in Small(0) |-> 0]
  <2>2. \A s \in Small(0) : Up(f, g, s) = 0
    BY <2>1 DEF Up
  <2>3. g = [s \in Small(0) |-> Up(f, g, s)]
    BY <2>2
  <2> HIDE DEF g, Small
  <2> QED BY <2>3
<1>2. ASSUME NEW n \in T PROVE n + 1 \in T
  <2>0. n \in Nat
    OBVIOUS
  <2>1. PICK g : g = [s \in Small(n) |-> Up(f, g, s)]
    OBVIOUS
  <2> DEFINE h == [s \in Small(n + 1) |-> IF s \in Small(n) THEN g[s] ELSE Up(f, g, s)]
  <2>2. ASSUME NEW s \in Small(n + 1), s # {}
        PROVE  s \ {One(s)} \in Small(n) /\ s \ {One(s)} \in Small(n + 1)
    <3>1. One(s) \in s /\ s \in SUBSET S /\ Cardinality(s) <= n + 1
      BY <2>2, OneIn
    <3>2. /\ s \ {One(s)} \in SUBSET S /\ Cardinality(s \ {One(s)}) <= n
          /\ Cardinality(s \ {One(s)}) \in Nat
      BY <2>0, <3>1, LessOne
    <3> QED BY <2>0, <3>2
  <2>3. ASSUME NEW s \in Small(n + 1)
        PROVE  h[s] = Up(f, h, s)
    <3>1. s # {} => h[s \ {One(s)}] = g[s \ {One(s)}]
      <4> HIDE DEF Small
      <4> QED BY <2>2
    <3>2. Up(f, h, s) = Up(f, g, s)
      <4> HIDE DEF h
      <4> QED BY <3>1 DEF Up
    <3>3. s \in Small(n) => g[s] = Up(f, g, s)
      <4> HIDE DEF Small
      <4> QED BY <2>1
    <3> HIDE DEF Small
    <3> QED BY <3>2, <3>3
  <2>4. h = [s \in Small(n + 1) |-> Up(f, h, s)]
    <3>1. h = [s \in Small(n + 1) |-> h[s]]
      OBVIOUS
    <3> HIDE DEF h, Small
    <3> QED BY <2>3, <3>1
  <2>5. \E k : k = [s \in Small(n + 1) |-> Up(f, k, s)]
    <3> HIDE DEF h, Small
    <3> QED BY <2>4
  <2>6. n + 1 \in Nat
    BY <2>0
  <2> HIDE DEF Small
  <2> QED BY <2>5, <2>6
<1>3. T = Nat
  <2>1. T \in SUBSET Nat
    OBVIOUS
  <2> HIDE DEF T
  <2> QED BY <1>1, <1>2, <2>1, AllNat
<1>4. Cardinality(S) \in Nat /\ Small(Cardinality(S)) = SUBSET S
  <2>1. Cardinality(S) \in Nat
    BY FS_CardinalityType
  <2>2. \A s \in SUBSET S : Cardinality(s) <= Cardinality(S)
    BY FS_Subset
  <2> QED BY <2>1, <2>2
<1>5. \E g : g = [s \in SUBSET S |-> Up(f, g, s)]
  <2>1. Cardinality(S) \in T
    <3> HIDE DEF T
    <3> QED BY <1>3, <1>4
  <2>2. \E g : g = [s \in Small(Cardinality(S)) |-> Up(f, g, s)]
    <3> HIDE DEF Small
    <3> QED BY <2>1
  <2> HIDE DEF Small
  <2> QED BY <1>4, <2>2
<1>6. Iter(f, S) = [s \in SUBSET S |-> Up(f, Iter(f, S), s)]
  BY <1>5 DEF Iter
<1> HIDE DEF Small, T
<1> QED BY <1>6

(* The sum over a set is one of its values and the sum over the others,    *)
(* whichever value that is.                                                *)
Adds(g, f, S) == /\ g[{}] = 0
                 /\ \A s \in SUBSET S : g[s] \in Int /\ \A x \in s : g[s] = f[x] + g[s \ {x}]

LEMMA IterStep == ASSUME NEW f, NEW S, IsFiniteSet(S), \A x \in S : f[x] \in Int
                  PROVE  Adds(Iter(f, S), f, S)
<1> DEFINE I == Iter(f, S)
           Good(s) == I[s] \in Int /\ \A x \in s : I[s] = f[x] + I[s \ {x}]
           T == {n \in Nat : \A s \in SUBSET S : Cardinality(s) <= n => Good(s)}
<1>1. \A s \in SUBSET S : I[s] = Up(f, I, s)
  BY IterIs
<1> HIDE DEF I
<1>2. I[{}] = 0
  BY <1>1 DEF Up
<1>3. 0 \in T
  <2>1. \A s \in SUBSET S : IsFiniteSet(s) /\ Cardinality(s) \in Nat /\ (Cardinality(s) = 0 <=> s = {})
    BY FS_Subset, FS_CardinalityType, FS_EmptySet
  <2> QED BY <1>2, <2>1
<1>4. ASSUME NEW n \in T PROVE n + 1 \in T
  <2>0. n \in Nat /\ \A s \in SUBSET S : Cardinality(s) <= n => Good(s)
    OBVIOUS
  <2>1. ASSUME NEW s \in SUBSET S, Cardinality(s) <= n + 1
        PROVE  Good(s)
    <3>1. CASE s = {}
      BY <1>2, <3>1
    <3>2. CASE s # {}
      <4> DEFINE y == One(s)
      <4>1. y \in s
        BY <3>2, OneIn
      <4>2. I[s] = f[y] + I[s \ {y}]
        BY <1>1, <3>2 DEF Up
      <4> HIDE DEF y
      <4>3. s \ {y} \in SUBSET S /\ Cardinality(s \ {y}) <= n
        BY <2>0, <2>1, <4>1, LessOne
      <4>4. Good(s \ {y})
        <5> HIDE DEF Good
        <5> QED BY <2>0, <4>3
      <4>5. f[y] \in Int /\ I[s] \in Int
        BY <4>1, <4>2, <4>4
      <4>6. ASSUME NEW x \in s PROVE I[s] = f[x] + I[s \ {x}]
        <5>1. CASE x = y
          BY <4>2, <5>1
        <5>2. CASE x # y
          <6>1. s \ {x} \in SUBSET S /\ Cardinality(s \ {x}) <= n
            BY <2>0, <2>1, LessOne
          <6>2. Good(s \ {x})
            <7> HIDE DEF Good
            <7> QED BY <2>0, <6>1
          <6>3. y \in s \ {x} /\ x \in s \ {y} /\ (s \ {x}) \ {y} = (s \ {y}) \ {x}
            BY <4>1, <5>2
          <6>4. I[s \ {x}] = f[y] + I[(s \ {y}) \ {x}]
            BY <6>2, <6>3
          <6>5. I[s \ {y}] = f[x] + I[(s \ {y}) \ {x}]
            BY <4>4, <6>3
          <6>6. (s \ {y}) \ {x} \in SUBSET S /\ Cardinality((s \ {y}) \ {x}) <= n
            <7> DEFINE q == s \ {x}
            <7>1. q \in SUBSET S /\ y \in q /\ Cardinality(q) \in Nat /\ Cardinality(q) <= n
              BY <2>0, <2>1, <6>1, <6>3, LessOne
            <7>2. q \ {y} = (s \ {y}) \ {x}
              BY <6>3
            <7> HIDE DEF q
            <7>3. Cardinality(q) <= n + 1
              BY <2>0, <7>1
            <7>4. q \ {y} \in SUBSET S /\ Cardinality(q \ {y}) <= n
              BY <2>0, <7>1, <7>3, LessOne
            <7> QED BY <7>2, <7>4
          <6>7. I[(s \ {y}) \ {x}] \in Int
            <7>1. Good((s \ {y}) \ {x})
              <8> HIDE DEF Good
              <8> QED BY <2>0, <6>6
            <7> QED BY <7>1
          <6>8. f[x] \in Int
            OBVIOUS
          <6> QED BY <4>2, <4>5, <6>4, <6>5, <6>7, <6>8
        <5> QED BY <5>1, <5>2
      <4> QED BY <4>5, <4>6
    <3> QED BY <3>1, <3>2
  <2> HIDE DEF Good
  <2> QED BY <2>0, <2>1
<1>5. T = Nat
  <2>1. T \in SUBSET Nat
    OBVIOUS
  <2> HIDE DEF T
  <2> QED BY <1>3, <1>4, <2>1, AllNat
<1>6. \A s \in SUBSET S : Good(s)
  <2> TAKE s \in SUBSET S
  <2>1. Cardinality(s) \in Nat
    BY FS_Subset, FS_CardinalityType
  <2>2. Cardinality(s) \in T
    <3> HIDE DEF T
    <3> QED BY <1>5, <2>1
  <2> HIDE DEF Good
  <2> QED BY <2>1, <2>2
<1>7. Adds(I, f, S)
  BY <1>2, <1>6 DEF Adds
<1> QED BY <1>7 DEF I

(* There is one such sum only.                                             *)
LEMMA AddsUnique == ASSUME NEW S, IsFiniteSet(S), NEW f, NEW g, \A x \in S : g[x] = f[x],
                           NEW I, Adds(I, f, S), NEW J, Adds(J, g, S)
                    PROVE  J[S] = I[S]
<1> DEFINE T == {n \in Nat : \A s \in SUBSET S : Cardinality(s) <= n => J[s] = I[s]}
<1>1. I[{}] = 0 /\ \A s \in SUBSET S : \A x \in s : I[s] = f[x] + I[s \ {x}]
  BY DEF Adds
<1>2. J[{}] = 0 /\ \A s \in SUBSET S : \A x \in s : J[s] = g[x] + J[s \ {x}]
  BY DEF Adds
<1>3. 0 \in T
  <2>1. \A s \in SUBSET S : IsFiniteSet(s) /\ Cardinality(s) \in Nat /\ (Cardinality(s) = 0 <=> s = {})
    BY FS_Subset, FS_CardinalityType, FS_EmptySet
  <2>2. \A s \in SUBSET S : Cardinality(s) <= 0 => s = {}
    BY <2>1
  <2> QED BY <1>1, <1>2, <2>2
<1>4. ASSUME NEW n \in T PROVE n + 1 \in T
  <2>1. ASSUME NEW s \in SUBSET S, Cardinality(s) <= n + 1
        PROVE  J[s] = I[s]
    <3>1. CASE s = {}
      BY <1>1, <1>2, <3>1
    <3>2. CASE s # {}
      <4>1. PICK x \in s : TRUE
        BY <3>2
      <4>2. s \ {x} \in SUBSET S /\ Cardinality(s \ {x}) <= n
        BY <2>1, LessOne
      <4>3. J[s \ {x}] = I[s \ {x}] /\ g[x] = f[x]
        BY <4>2
      <4> QED BY <1>1, <1>2, <4>3
    <3> QED BY <3>1, <3>2
  <2> QED BY <2>1
<1>5. T = Nat
  <2>1. T \in SUBSET Nat
    OBVIOUS
  <2> HIDE DEF T
  <2> QED BY <1>3, <1>4, <2>1, AllNat
<1>6. Cardinality(S) \in Nat /\ Cardinality(S) \in T
  <2>1. Cardinality(S) \in Nat
    BY FS_CardinalityType
  <2> HIDE DEF T
  <2> QED BY <1>5, <2>1
<1> QED BY <1>6

(* What is needed of sums: the empty one, one more value, one value that   *)
(* changes.                                                                *)
LEMMA SumEmpty == ASSUME NEW f
                  PROVE  SumFunctionOnSet(f, {}) = 0
<1>1. Adds(Iter(f, {}), f, {})
  BY FS_EmptySet, IterStep
<1> QED BY <1>1, SumIs DEF Adds

LEMMA SumAdd == ASSUME NEW S, IsFiniteSet(S), NEW x, x \notin S, NEW f,
                       \A y \in S \cup {x} : f[y] \in Int
                PROVE  /\ SumFunctionOnSet(f, S) \in Int
                       /\ SumFunctionOnSet(f, S \cup {x}) = SumFunctionOnSet(f, S) + f[x]
<1> DEFINE U == S \cup {x}
           I == Iter(f, U)
           J == Iter(f, S)
<1>1. IsFiniteSet(U) /\ S \in SUBSET U /\ U \in SUBSET U /\ x \in U /\ U \ {x} = S
  BY FS_AddElement
<1>2. (\A y \in U : f[y] \in Int) /\ (\A y \in S : f[y] \in Int)
  OBVIOUS
<1>3. SumFunctionOnSet(f, S) = J[S] /\ SumFunctionOnSet(f, S \cup {x}) = I[U]
  BY SumIs
<1> HIDE DEF U
<1>4. Adds(I, f, U) /\ Adds(J, f, S)
  BY <1>1, <1>2, IterStep
<1> HIDE DEF I, J
<1>5. I[U] = f[x] + I[S] /\ I[S] \in Int
  BY <1>1, <1>4 DEF Adds
<1>6. Adds(I, f, S)
  BY <1>1, <1>4 DEF Adds
<1>7. J[S] = I[S]
  BY <1>4, <1>6, AddsUnique
<1>8. f[x] \in Int
  OBVIOUS
<1> QED BY <1>3, <1>5, <1>7, <1>8

LEMMA SumSame == ASSUME NEW S, IsFiniteSet(S), NEW f, NEW g, \A y \in S : f[y] \in Int,
                        \A y \in S : g[y] = f[y]
                 PROVE  SumFunctionOnSet(g, S) = SumFunctionOnSet(f, S)
<1>1. \A y \in S : g[y] \in Int
  OBVIOUS
<1>2. Adds(Iter(f, S), f, S) /\ Adds(Iter(g, S), g, S)
  BY <1>1, IterStep
<1>3. Iter(g, S)[S] = Iter(f, S)[S]
  BY <1>2, AddsUnique
<1> QED BY <1>3, SumIs

LEMMA SumInt == ASSUME NEW S, IsFiniteSet(S), NEW f, \A y \in S : f[y] \in Int
                PROVE  SumFunctionOnSet(f, S) \in Int
<1>1. Adds(Iter(f, S), f, S) /\ S \in SUBSET S
  BY IterStep
<1> QED BY <1>1, SumIs DEF Adds

LEMMA SumLess == ASSUME NEW S, IsFiniteSet(S), NEW f, NEW g, NEW x \in S, g[x] = f[x] - 1,
                        \A y \in S : f[y] \in Int /\ g[y] \in Int,
                        \A y \in S \ {x} : g[y] = f[y]
                 PROVE  SumFunctionOnSet(g, S) = SumFunctionOnSet(f, S) - 1
<1> DEFINE R == S \ {x}
<1>1. IsFiniteSet(R) /\ x \notin R /\ R \cup {x} = S
  BY FS_RemoveElement
<1> HIDE DEF R
<1>2. /\ SumFunctionOnSet(f, R) \in Int
      /\ SumFunctionOnSet(f, R \cup {x}) = SumFunctionOnSet(f, R) + f[x]
  BY <1>1, SumAdd
<1>3. /\ SumFunctionOnSet(g, R) \in Int
      /\ SumFunctionOnSet(g, R \cup {x}) = SumFunctionOnSet(g, R) + g[x]
  BY <1>1, SumAdd
<1>4. SumFunctionOnSet(g, R) = SumFunctionOnSet(f, R)
  BY <1>1, SumSame
<1>5. f[x] \in Int
  OBVIOUS
<1>6. /\ SumFunctionOnSet(f, S) = SumFunctionOnSet(f, R) + f[x]
      /\ SumFunctionOnSet(g, S) = SumFunctionOnSet(g, R) + g[x]
  BY <1>1, <1>2, <1>3, Zenon
<1> QED BY <1>2, <1>4, <1>5, <1>6

-----------------------------------------------------------------------------
(* The game, until a potato is thrown at the table.  A potato is known by  *)
(* who throws it: it has yet to be thrown, or is in one FIFO at one place, *)
(* or is held by one who is counting it, or has been counted.              *)
ToOpen == Filling \cup {"passFilled", "unlinkNamed", "unlinkFilled"} \cup Opening
ToThrow == {"findWith", "openWith", "throw"}
Yet(r) == pc[r] \in ToOpen \cup ToThrow \cup {"start"}
Holds(p) == pc[p] \in {"look", "count"}
InPipe(r) == \E i \in Slots : \E k \in 1..Len(pipe[i]) : pipe[i][k] = r
Thrown(r) == InPipe(r) \/ \E p \in Procs : Holds(p) /\ rec[p] = r

(* What is known after that too.                                           *)
LooseTypes == /\ rec \in [Procs -> Pid] /\ pipe \in [Slots -> Seq(Pid)]
              /\ readEnds \in [Procs -> SUBSET Slots]
              /\ index \in [Procs -> 0..procNum] /\ pos \in [Procs -> 0..procNum]
              /\ \A p \in Procs : pc[p] \in ToOpen => pos[p] < procNum
              /\ coolDown \in Seq(Int) /\ Len(coolDown) = Len(id)
              /\ pIndex \in [Procs -> 0..procNum] /\ seen \in [Procs -> Int] /\ caught \in Nat

PipeTypes == rec \in [Procs -> Procs] /\ pipe \in [Slots -> Seq(Procs)]
Own1 == \A p \in Procs : pc[p] \in {"openWith", "throw"} => PidAt(index[p]) = p

Apart == \A i, j \in Slots : \A k \in 1..Len(pipe[i]), l \in 1..Len(pipe[j]) :
            pipe[i][k] = pipe[j][l] => i = j /\ k = l
Once == /\ Apart
        /\ \A p \in Procs : Holds(p) => ~InPipe(rec[p])
        /\ \A p, q \in Procs : Holds(p) /\ Holds(q) /\ rec[p] = rec[q] => p = q
        /\ \A r \in Procs : Yet(r) => ~Thrown(r)

LEMMA IndexFacts ==
  ASSUME NEW q
  PROVE  /\ IndexOf(q) \in 0..procNum
         /\ IndexOf(q) < procNum => IndexOf(q) \in Slots /\ id[IndexOf(q) + 1] = q
         /\ (\E i \in Slots : id[i + 1] = q) => IndexOf(q) < procNum
<1>1. CASE ~\E i \in Slots : id[i + 1] = q
  <2>1. IndexOf(q) = procNum
    BY <1>1 DEF IndexOf
  <2> QED BY <1>1, <2>1, ProcsFinite
<1>2. CASE \E i \in Slots : id[i + 1] = q
  <2> DEFINE T == {i \in Slots : id[i + 1] = q}
             P(i) == id[i + 1] = q /\ \A j \in 0..i - 1 : id[j + 1] # q
  <2>1. T \in SUBSET Nat /\ T # {}
    BY <1>2, ProcsFinite DEF Slots
  <2>2. PICK x \in T : \A y \in T : x <= y
    <3> HIDE DEF T
    <3> QED BY <2>1, Least
  <2>3. x \in Slots /\ x \in Nat /\ id[x + 1] = q
    BY <2>1, <2>2
  <2>4. \A j \in 0..x - 1 : id[j + 1] # q
    <3> SUFFICES ASSUME NEW j \in 0..x - 1, id[j + 1] = q PROVE FALSE
      OBVIOUS
    <3>1. j \in T
      BY <2>3, ProcsFinite DEF Slots
    <3> QED BY <2>2, <2>3, <3>1
  <2>5. \E i \in Slots : P(i)
    BY <2>3, <2>4
  <2>6. IndexOf(q) = CHOOSE i \in Slots : P(i)
    BY <1>2 DEF IndexOf
  <2>7. IndexOf(q) \in Slots /\ P(IndexOf(q))
    <3> HIDE DEF P
    <3> QED BY <2>5, <2>6
  <2> QED BY <2>7, ProcsFinite DEF Slots
<1> QED BY <1>1, <1>2

(* How the FIFOs change: a pid is put behind the others, or the first is   *)
(* taken.                                                                  *)
Puts(p, i) == /\ pc[p] = "throw" /\ pc'[p] = "check" /\ rec' = rec
              /\ \A j \in Slots \ {i} : pipe'[j] = pipe[j]
              /\ Len(pipe'[i]) = Len(pipe[i]) + 1
               /\ pipe'[i][Len(pipe[i]) + 1] = PidAt(index[p])
              /\ \A k \in 1..Len(pipe[i]) : pipe'[i][k] = pipe[i][k]
Picks(p, i) == /\ pc[p] = "read" /\ pc'[p] = "look"
               /\ \A j \in Slots \ {i} : pipe'[j] = pipe[j]
               /\ Len(pipe[i]) > 0 /\ Len(pipe'[i]) = Len(pipe[i]) - 1
               /\ \A k \in 1..Len(pipe'[i]) : pipe'[i][k] = pipe[i][k + 1]
               /\ rec'[p] = pipe[i][1] /\ \A q \in Procs \ {p} : rec'[q] = rec[q]
Leaves(p) == pipe' = pipe /\ rec' = rec /\ (pc[p] = "read" => pc'[p] # "look")

LEMMA PutBehind ==
  ASSUME NEW T, NEW s \in Seq(T), NEW p \in Procs, PidAt(index[p]) \in T
  PROVE  LET r == s \o Pids(p)
         IN  /\ r \in Seq(T) /\ Len(r) = Len(s) + 1 /\ r[Len(s) + 1] = PidAt(index[p])
             /\ \A k \in 1..Len(s) : r[k] = s[k]
<1> DEFINE x == PidAt(index[p])
<1>1. Pids(p) = <<x>> /\ x \in T
  BY DEF Pids, Throws
<1> HIDE DEF x
<1>2. <<x>> \in Seq(T) /\ Len(<<x>>) = 1 /\ <<x>>[1] = x
  BY <1>1
<1>3. Len(s) \in Nat
  BY LenProperties
<1>4. s \o <<x>> \in Seq(T) /\ Len(s \o <<x>>) = Len(s) + 1
      /\ \A k \in 1..Len(s) + 1 : (s \o <<x>>)[k] = IF k <= Len(s) THEN s[k] ELSE <<x>>[k - Len(s)]
  BY <1>2, ConcatProperties
<1> DEFINE r == s \o <<x>>
<1>5. r[Len(s) + 1] = x /\ \A k \in 1..Len(s) : r[k] = s[k]
  <2> HIDE DEF r
  <2>1. \A k \in 1..Len(s) + 1 : r[k] = IF k <= Len(s) THEN s[k] ELSE <<x>>[k - Len(s)]
    BY <1>4 DEF r
  <2> QED BY <1>2, <1>3, <2>1
<1> QED BY <1>1, <1>4, <1>5 DEF x

LEMMA PipeStep ==
  ASSUME NEW p \in Procs, Barriers, NEW T, rec \in [Procs -> T], pipe \in [Slots -> Seq(T)],
         index \in [Procs -> 0..procNum], pc[p] = "throw" => PidAt(index[p]) \in T, Stepped(p)
  PROVE  /\ rec' \in [Procs -> T] /\ pipe' \in [Slots -> Seq(T)]
         /\ Leaves(p) \/ \E i \in Slots : Puts(p, i) \/ Picks(p, i)
<1>0. pc \in [Procs -> Labels]
  BY DEF Barriers, Base
<1>1. CASE pc[p] \notin {"throw", "read"}
  BY <1>1 DEF Stepped, Frame, Leaves
<1>2. CASE pc[p] = "throw"
  <2>1. Throw(p) /\ rec' = rec
    BY <1>2 DEF Stepped, Does, Frame
  <2>2. CASE pipe' = pipe
    BY <1>2, <2>1, <2>2 DEF Leaves
  <2>3. CASE pipe' # pipe
    <3>1. PICK f \in 0..9 : /\ Fifo(f) \in Slots /\ Goes(p, "check")
                            /\ pipe' = [pipe EXCEPT ![Fifo(f)] = pipe[Fifo(f)] \o Pids(p)]
      BY <2>1, <2>3 DEF Throw, WriteEnd
    <3> DEFINE i == Fifo(f)
               s == pipe[i]
               r == s \o Pids(p)
    <3>2. i \in Slots /\ s \in Seq(T) /\ pipe' = [pipe EXCEPT ![i] = r]
      BY <3>1
    <3>3. /\ r \in Seq(T) /\ Len(r) = Len(s) + 1 /\ r[Len(s) + 1] = PidAt(index[p])
          /\ \A k \in 1..Len(s) : r[k] = s[k]
      BY <1>2, <3>2, PutBehind
    <3> HIDE DEF r, i
    <3>4. pipe' \in [Slots -> Seq(T)] /\ pipe'[i] = r /\ \A j \in Slots \ {i} : pipe'[j] = pipe[j]
      BY <3>2, <3>3
    <3>5. pc'[p] = "check"
      BY <1>0, <3>1 DEF Goes
    <3>6. Puts(p, i)
      BY <1>2, <2>1, <3>2, <3>3, <3>4, <3>5 DEF Puts
    <3> QED BY <2>1, <3>2, <3>4, <3>6
  <2> QED BY <2>2, <2>3
<1>3. CASE pc[p] = "read"
  <2>1. Catch(p)
    BY <1>3 DEF Stepped, Does
  <2>2. CASE pc'[p] # "look"
    <3>1. pipe' = pipe /\ rec' = rec
      BY <1>0, <2>1, <2>2 DEF Catch, Goes
    <3> QED BY <2>2, <3>1 DEF Leaves
  <2>3. CASE pc'[p] = "look"
    <3> DEFINE i == index[p]
               s == pipe[i]
               r == Tail(s)
    <3>1. i \in Slots /\ s # <<>> /\ rec' = [rec EXCEPT ![p] = Head(s)]
          /\ pipe' = [pipe EXCEPT ![i] = r]
      BY <1>0, <2>1, <2>3, ProcsFinite DEF Catch, Goes, Slots
    <3>2. s \in Seq(T)
      BY <3>1
    <3>3. /\ r \in Seq(T) /\ Len(r) = Len(s) - 1 /\ Len(s) \in Nat /\ Len(s) > 0
          /\ Head(s) \in T /\ Head(s) = s[1]
          /\ \A k \in 1..Len(r) : r[k] = s[k + 1]
      BY <3>1, <3>2, HeadTailProperties, LenProperties, EmptySeq
    <3> HIDE DEF r, i
    <3>4. /\ pipe' \in [Slots -> Seq(T)] /\ pipe'[i] = r
          /\ \A j \in Slots \ {i} : pipe'[j] = pipe[j]
      BY <3>1, <3>3
    <3>5. rec' \in [Procs -> T] /\ rec'[p] = s[1] /\ \A q \in Procs \ {p} : rec'[q] = rec[q]
      BY <3>1, <3>3
    <3>6. Picks(p, i)
      BY <1>3, <2>3, <3>1, <3>3, <3>4, <3>5 DEF Picks
    <3> QED BY <3>1, <3>4, <3>5, <3>6
  <2> QED BY <2>2, <2>3
<1> QED BY <1>1, <1>2, <1>3

LEMMA YetStep ==
  ASSUME NEW p \in Procs, Barriers, Stepped(p)
  PROVE  /\ \A r \in Procs : Yet(r)' => Yet(r)
         /\ pc'[p] = "check" => ~Yet(p)'
         /\ \A q \in Procs \ {p} : Holds(q)' <=> Holds(q)
         /\ Holds(p)' => Holds(p) \/ (pc[p] = "read" /\ pc'[p] = "look")
         /\ Holds(p) => pc'[p] \in {"count", "post"}
<1>1. pc \in [Procs -> Labels]
  BY DEF Barriers, Base
<1>2. \A q \in Procs \ {p} : (Yet(q)' <=> Yet(q)) /\ (Holds(q)' <=> Holds(q))
  BY DEF Stepped, Rest, Yet, Holds, ToOpen, ToThrow, Opening
<1>3. Yet(p)' => Yet(p)
  BY <1>1 DEF Stepped, Moves, Yet, Labels, ToOpen, ToThrow, Filling, Opening, Gone, Behind
<1>4. pc'[p] = "check" => ~Yet(p)'
  BY DEF Yet, ToOpen, ToThrow, Filling, Opening
<1>5. Holds(p)' => Holds(p) \/ (pc[p] = "read" /\ pc'[p] = "look")
  BY <1>1 DEF Stepped, Moves, Holds, Labels, Filling, Opening, Gone, Behind
<1>6. Holds(p) => pc'[p] \in {"count", "post"}
  BY DEF Stepped, Moves, Holds
<1> QED BY <1>2, <1>3, <1>4, <1>5, <1>6

LEMMA OpenTypes ==
  ASSUME NEW p \in Procs, Barriers, LooseTypes, Stepped(p)
  PROVE  /\ readEnds' \in [Procs -> SUBSET Slots] /\ index' \in [Procs -> 0..procNum]
         /\ pos' \in [Procs -> 0..procNum]
         /\ \A q \in Procs : pc'[q] \in ToOpen => pos'[q] < procNum
<1>0. pc \in [Procs -> Labels] /\ pc' \in [Procs -> Labels] /\ procNum \in Nat
  BY ProcsFinite DEF Barriers, Base, Stepped
<1>1. index' \in [Procs -> 0..procNum]
  <2>1. CASE pc[p] \in {"findSelf", "findWith", "findNo"}
    <3>1. index' = [index EXCEPT ![p] = IndexOf(p)]
      BY <2>1 DEF Stepped, Does, FindSelf
    <3> QED BY <3>1, IndexFacts DEF LooseTypes
  <2>2. CASE pc[p] \notin {"findSelf", "findWith", "findNo"}
    BY <2>2 DEF Stepped, Frame, LooseTypes
  <2> QED BY <2>1, <2>2
<1>2. CASE pc[p] # "open"
  <2>1. pos' = pos /\ readEnds' = readEnds
    BY <1>2 DEF Stepped, Frame
  <2>2. \A q \in Procs \ {p} : pc'[q] = pc[q]
    BY <1>2 DEF Stepped, Rest
  <2>3. pc'[p] \in ToOpen => pc[p] \in ToOpen
    BY <1>0, <1>2 DEF Stepped, Moves, ToOpen, Labels, Filling, Opening, Gone, Behind
  <2>4. \A q \in Procs : pc'[q] \in ToOpen => pos'[q] < procNum
    BY <2>1, <2>2, <2>3 DEF LooseTypes
  <2> QED BY <1>1, <2>1, <2>4 DEF LooseTypes
<1>3. CASE pc[p] = "open"
  <2> DEFINE i == pos[p]
             met == Blocked(i, ~Reads(p, i))
             on == IF met \cup Holders(i, ~Reads(p, i)) = {} THEN {} ELSE {p} \cup met
             next == IF i + 1 < procNum THEN "open" ELSE "start"
             mine == IF Reads(p, i) THEN readEnds[p] \cup {i} ELSE readEnds[p] \ {i}
  <2>1. /\ readEnds' = [readEnds EXCEPT ![p] = mine]
        /\ pos' = [q \in Procs |-> IF q \in on THEN pos[q] + 1 ELSE pos[q]]
        /\ pc' = [q \in Procs |-> IF q \in on THEN next ELSE IF q = p THEN "blocked" ELSE pc[q]]
    <3>1. Open(p)
      BY <1>3 DEF Stepped, Does
    <3>2. readEnds' = [readEnds EXCEPT ![p] = mine]
      BY <3>1 DEF Open
    <3> QED BY <3>1, <3>2, Zenon DEF Open
  <2>2. i \in 0..procNum /\ i < procNum /\ i \in Slots
    BY <1>0, <1>3 DEF LooseTypes, Slots, ToOpen, Opening
  <2>3. \A q \in on : q \in Procs /\ pos[q] = i
    <3>1. \A q \in met : q \in Procs /\ pos[q] = i
      BY DEF Blocked
    <3> HIDE DEF met
    <3> QED BY <3>1
  <2>4. mine \in SUBSET Slots
    <3>1. readEnds[p] \in SUBSET Slots
      BY DEF LooseTypes
    <3> HIDE DEF i
    <3> QED BY <2>2, <3>1
  <2> HIDE DEF on, mine, met
  <2>5. readEnds' \in [Procs -> SUBSET Slots]
    BY <2>1, <2>4 DEF LooseTypes
  <2>6. \A q \in Procs : pos[q] \in 0..procNum
    BY DEF LooseTypes
  <2>7. \A q \in on : pos[q] + 1 \in 0..procNum
    BY <1>0, <2>2, <2>3
  <2>8. pos' \in [Procs -> 0..procNum]
    BY <2>1, <2>6, <2>7
  <2>9. \A q \in Procs : pc'[q] \in ToOpen => pos'[q] < procNum
    <3> TAKE q \in Procs
    <3> HAVE pc'[q] \in ToOpen
    <3>1. CASE q \in on
      <4>1. pos'[q] = i + 1 /\ pc'[q] = next
        BY <2>1, <2>3, <3>1
      <4>2. next = "open"
        BY <4>1 DEF ToOpen, Filling, Opening
      <4> QED BY <4>1, <4>2
    <3>2. CASE q \notin on
      <4>1. pos'[q] = pos[q]
        BY <2>1, <3>2
      <4>2. q = p \/ pc'[q] = pc[q]
        BY <2>1, <3>2
      <4> QED BY <2>2, <4>1, <4>2 DEF LooseTypes
    <3> QED BY <3>1, <3>2
  <2> QED BY <1>1, <2>5, <2>8, <2>9
<1> QED BY <1>2, <1>3

LEMMA PipePids ==
  ASSUME NEW p \in Procs, Barriers, LooseTypes, PipeTypes, Own1, Stepped(p)
  PROVE  /\ PipeTypes'
         /\ Leaves(p) \/ \E i \in Slots : (Puts(p, i) /\ PidAt(index[p]) = p) \/ Picks(p, i)
<1>1. pc[p] = "throw" => PidAt(index[p]) = p
  BY DEF Own1
<1>2. PipeTypes' /\ (Leaves(p) \/ \E i \in Slots : Puts(p, i) \/ Picks(p, i))
  BY <1>1, PipeStep DEF LooseTypes, PipeTypes
<1> QED BY <1>1, <1>2 DEF Puts

LEMMA OnceStep ==
  ASSUME NEW p \in Procs, Barriers, LooseTypes, PipeTypes, Own1, Once, Stepped(p)
  PROVE  Once' /\ \A r \in Procs : Thrown(r)' => Thrown(r) \/ (r = p /\ pc[p] = "throw")
<1>0. \A i \in Slots : Len(pipe[i]) \in Nat /\ Len(pipe'[i]) \in Nat /\ rec'[p] \in Procs
  BY PipePids, LenProperties DEF PipeTypes
<1>y. /\ \A r \in Procs : Yet(r)' => Yet(r)
      /\ pc'[p] = "check" => ~Yet(p)'
      /\ \A q \in Procs \ {p} : Holds(q)' <=> Holds(q)
      /\ Holds(p)' => Holds(p) \/ (pc[p] = "read" /\ pc'[p] = "look")
  BY YetStep
<1>1. CASE Leaves(p)
  <2>1. \A q \in Procs : Holds(q)' => Holds(q) /\ rec'[q] = rec[q]
    BY <1>1, <1>y DEF Leaves
  <2>2. \A r \in Procs : InPipe(r)' <=> InPipe(r)
    BY <1>1 DEF Leaves, InPipe
  <2>3. \A r \in Procs : Thrown(r)' => Thrown(r)
    BY <2>1, <2>2 DEF Thrown
  <2>4. \A i, j \in Slots : \A k \in 1..Len(pipe'[i]), l \in 1..Len(pipe'[j]) :
             pipe'[i][k] = pipe'[j][l] => i = j /\ k = l
    BY <1>1 DEF Leaves, Once, Apart
  <2>5. \A q \in Procs : (Holds(q) => ~InPipe(rec[q]))'
    BY <1>1, <2>1, <2>2 DEF Leaves, Once, InPipe
  <2>6. \A q, r \in Procs : Holds(q)' /\ Holds(r)' /\ rec'[q] = rec'[r] => q = r
    BY <2>1 DEF Once
  <2>7. \A r \in Procs : Yet(r)' => ~Thrown(r)'
    BY <1>y, <2>3 DEF Once
  <2> QED BY <2>3, <2>4, <2>5, <2>6, <2>7 DEF Once, Apart
<1>2. ASSUME NEW i \in Slots, Puts(p, i), PidAt(index[p]) = p
      PROVE  Once' /\ \A r \in Procs : Thrown(r)' => Thrown(r) \/ (r = p /\ pc[p] = "throw")
  <2> DEFINE n == Len(pipe[i])
  <2>0. n \in Nat /\ Len(pipe'[i]) = n + 1
    BY <1>0, <1>2 DEF Puts
  <2>1. ~Thrown(p)
    <3>1. Yet(p)
      BY <1>2 DEF Puts, Yet, ToThrow
    <3> QED BY <3>1 DEF Once
  <2>2. \A q \in Procs : Holds(q)' => Holds(q) /\ rec'[q] = rec[q]
    BY <1>2, <1>y DEF Puts
  <2>3. \A j \in Slots : \A k \in 1..Len(pipe'[j]) :
          \/ j = i /\ k = n + 1 /\ pipe'[j][k] = p
          \/ k \in 1..Len(pipe[j]) /\ pipe'[j][k] = pipe[j][k]
    <3> TAKE j \in Slots
    <3> TAKE k \in 1..Len(pipe'[j])
    <3>1. CASE j # i
      BY <1>2, <3>1 DEF Puts
    <3>2. CASE j = i /\ k = n + 1
      BY <1>2, <3>2 DEF Puts
    <3>3. CASE j = i /\ k # n + 1
      <4>1. k \in 1..n
        BY <2>0, <3>3
      <4> QED BY <1>2, <3>3, <4>1 DEF Puts
    <3> QED BY <3>1, <3>2, <3>3
  <2>4. \A r : InPipe(r)' => InPipe(r) \/ r = p
    BY <2>3 DEF InPipe
  <2>5. \A r \in Procs : Thrown(r)' => Thrown(r) \/ r = p
    BY <2>2, <2>4 DEF Thrown
  <2>6. \A j, m \in Slots : \A k \in 1..Len(pipe'[j]), l \in 1..Len(pipe'[m]) :
             pipe'[j][k] = pipe'[m][l] => j = m /\ k = l
    <3> TAKE j, m \in Slots
    <3> TAKE k \in 1..Len(pipe'[j]), l \in 1..Len(pipe'[m])
    <3> HAVE pipe'[j][k] = pipe'[m][l]
    <3>1. ~InPipe(p)
      BY <2>1 DEF Thrown
    <3>2. CASE k \in 1..Len(pipe[j]) /\ pipe'[j][k] = pipe[j][k]
      <4>1. pipe'[m][l] # p
        BY <3>1, <3>2 DEF InPipe
      <4>2. l \in 1..Len(pipe[m]) /\ pipe'[m][l] = pipe[m][l]
        BY <2>3, <4>1
      <4>3. pipe[j][k] = pipe[m][l]
        BY <3>2, <4>2
      <4>4. Apart
        BY DEF Once
      <4> QED BY <3>2, <4>2, <4>3, <4>4 DEF Apart
    <3>3. CASE j = i /\ k = n + 1 /\ pipe'[j][k] = p
      <4>1. ~(l \in 1..Len(pipe[m]) /\ pipe'[m][l] = pipe[m][l])
        BY <3>1, <3>3 DEF InPipe
      <4> QED BY <2>3, <3>3, <4>1
    <3> QED BY <2>3, <3>2, <3>3
  <2>7. \A q \in Procs : (Holds(q) => ~InPipe(rec[q]))'
    <3> SUFFICES ASSUME NEW q \in Procs, Holds(q)', InPipe(rec[q])' PROVE FALSE
      OBVIOUS
    <3>1. Holds(q) /\ rec'[q] = rec[q]
      BY <2>2
    <3>2. InPipe(rec'[q]) \/ rec'[q] = p
      BY <2>4 DEF InPipe
    <3> QED BY <2>1, <3>1, <3>2 DEF Once, Thrown
  <2>8. \A q, r \in Procs : Holds(q)' /\ Holds(r)' /\ rec'[q] = rec'[r] => q = r
    BY <2>2 DEF Once
  <2>9. \A r \in Procs : Yet(r)' => ~Thrown(r)'
    BY <1>2, <1>y, <2>5 DEF Once, Puts
  <2> QED BY <1>2, <2>5, <2>6, <2>7, <2>8, <2>9 DEF Once, Puts, Apart
<1>3. ASSUME NEW i \in Slots, Picks(p, i)
      PROVE  Once' /\ \A r \in Procs : Thrown(r)' => Thrown(r) \/ (r = p /\ pc[p] = "throw")
  <2>0. /\ Len(pipe[i]) \in Nat /\ Len(pipe[i]) > 0 /\ Len(pipe'[i]) = Len(pipe[i]) - 1
        /\ rec'[p] = pipe[i][1] /\ 1 \in 1..Len(pipe[i])
    BY <1>0, <1>3 DEF Picks
  <2>1. InPipe(rec'[p])
    BY <2>0 DEF InPipe
  <2>2. ~Holds(p) /\ \A q \in Procs \ {p} : (Holds(q)' <=> Holds(q)) /\ rec'[q] = rec[q]
    BY <1>3, <1>y DEF Picks, Holds
  <2>3. \A j \in Slots : \A k \in 1..Len(pipe'[j]) :
          \/ j # i /\ k \in 1..Len(pipe[j]) /\ pipe'[j][k] = pipe[j][k]
          \/ j = i /\ k + 1 \in 1..Len(pipe[j]) /\ pipe'[j][k] = pipe[j][k + 1]
    <3> TAKE j \in Slots
    <3> TAKE k \in 1..Len(pipe'[j])
    <3>1. CASE j # i
      BY <1>3, <3>1 DEF Picks
    <3>2. CASE j = i
      <4>1. k + 1 \in 1..Len(pipe[i])
        BY <2>0, <3>2
      <4> QED BY <1>3, <3>2, <4>1 DEF Picks
    <3> QED BY <3>1, <3>2
  <2>4. \A r : InPipe(r)' => InPipe(r) /\ r # rec'[p]
    <3> SUFFICES ASSUME NEW r, NEW j \in Slots, NEW k \in 1..Len(pipe'[j]), pipe'[j][k] = r
                 PROVE  InPipe(r) /\ r # rec'[p]
      BY DEF InPipe
    <3>1. CASE j # i
      <4>1. k \in 1..Len(pipe[j]) /\ pipe[j][k] = r
        BY <2>3, <3>1
      <4> QED BY <2>0, <3>1, <4>1 DEF InPipe, Once, Apart
    <3>2. CASE j = i
      <4>1. k + 1 \in 1..Len(pipe[i]) /\ pipe[i][k + 1] = r /\ k \in Nat /\ k > 0
        BY <1>0, <2>3, <3>2
      <4>2. k + 1 # 1
        BY <4>1
      <4>3. pipe[i][k + 1] # pipe[i][1]
        BY <2>0, <4>1, <4>2 DEF Once, Apart
      <4> QED BY <2>0, <4>1, <4>3 DEF InPipe
    <3> QED BY <3>1, <3>2
  <2>5. \A r \in Procs : Thrown(r)' => Thrown(r)
    BY <2>1, <2>2, <2>4 DEF Thrown
  <2>6. \A j, m \in Slots : \A k \in 1..Len(pipe'[j]), l \in 1..Len(pipe'[m]) :
             pipe'[j][k] = pipe'[m][l] => j = m /\ k = l
    <3> TAKE j, m \in Slots
    <3> TAKE k \in 1..Len(pipe'[j]), l \in 1..Len(pipe'[m])
    <3> HAVE pipe'[j][k] = pipe'[m][l]
    <3>0. k \in Nat /\ l \in Nat
      BY <1>0
    <3>1. PICK a \in {k, k + 1} : /\ a \in 1..Len(pipe[j]) /\ pipe'[j][k] = pipe[j][a]
                                  /\ j = i => a = k + 1
      BY <2>3
    <3>2. PICK b \in {l, l + 1} : /\ b \in 1..Len(pipe[m]) /\ pipe'[m][l] = pipe[m][b]
                                  /\ m = i => b = l + 1
      BY <2>3
    <3>3. j = m /\ a = b
      <4>1. Apart
        BY DEF Once
      <4>2. pipe[j][a] = pipe[m][b]
        BY <3>1, <3>2
      <4> QED BY <3>1, <3>2, <4>1, <4>2 DEF Apart
    <3>4. CASE j = i
      BY <3>0, <3>1, <3>2, <3>3, <3>4
    <3>5. CASE j # i
      <4>1. /\ k \in 1..Len(pipe[j]) /\ pipe'[j][k] = pipe[j][k]
            /\ l \in 1..Len(pipe[j]) /\ pipe'[j][l] = pipe[j][l]
        BY <2>3, <3>3, <3>5
      <4>2. Apart
        BY DEF Once
      <4> QED BY <3>3, <4>1, <4>2 DEF Apart
    <3> QED BY <3>4, <3>5
  <2>7. \A q \in Procs : (Holds(q) => ~InPipe(rec[q]))'
    <3> SUFFICES ASSUME NEW q \in Procs, Holds(q)', InPipe(rec[q])' PROVE FALSE
      OBVIOUS
    <3>1. InPipe(rec'[q]) /\ rec'[q] # rec'[p]
      BY <2>4 DEF InPipe
    <3> QED BY <2>2, <3>1 DEF Once
  <2>8. \A q, r \in Procs : Holds(q)' /\ Holds(r)' /\ rec'[q] = rec'[r] => q = r
    <3> TAKE q, r \in Procs
    <3> HAVE Holds(q)' /\ Holds(r)' /\ rec'[q] = rec'[r]
    <3>1. CASE q # p /\ r # p
      BY <2>2, <3>1 DEF Once
    <3>2. CASE q = p /\ r # p
      BY <2>1, <2>2, <3>2 DEF Once
    <3>3. CASE q # p /\ r = p
      BY <2>1, <2>2, <3>3 DEF Once
    <3> QED BY <3>1, <3>2, <3>3
  <2>9. \A r \in Procs : Yet(r)' => ~Thrown(r)'
    BY <1>y, <2>5 DEF Once
  <2> QED BY <2>5, <2>6, <2>7, <2>8, <2>9 DEF Once, Apart
<1> QED BY <1>1, <1>2, <1>3, PipePids

-----------------------------------------------------------------------------
(* The counts.  A potato that is under way is still in its own record of   *)
(* the table, which is found by its pid if the pid has not been written    *)
(* over, and nobody else counts it.                                        *)
CountTypes == coolDown \in Seq(Nat) /\ seen \in [Procs -> Nat]
Owed(r) == Thrown(r) \/ pc[r] \in ToThrow
Due == \A r \in Procs : Owed(r) => Full /\ coolDown[counter[r] + 1] > 0
Read == \A p \in Procs : pc[p] = "count" => /\ pIndex[p] = counter[rec[p]]
                                            /\ seen[p] = coolDown[counter[rec[p]] + 1]
Sums == Len(id) = Cardinality(Filled) =>
          SumFunctionOnSet(coolDown, 1..Len(id)) + caught = SumFunctionOnSet(haspotato, Filled)
Clean == PipeTypes /\ Own1 /\ Once /\ CountTypes /\ Due /\ Read /\ Sums
DInv == LooseTypes /\ (~overwritten => Clean)

LEMMA FullFacts ==
  ASSUME Barriers, Full
  PROVE  /\ \A p \in Procs : pc[p] \notin Early
         /\ \A r \in Procs : counter[r] \in Nat /\ counter[r] + 1 \in 1..Len(id)
         /\ \A q, r \in Procs : counter[q] = counter[r] => q = r
         /\ ~overwritten => \A r \in Procs : id[counter[r] + 1] = r
         /\ Len(id) = procNum
<1>1. Filled = Procs /\ Len(id) = Cardinality(Filled)
  BY FullFilled DEF Barriers
<1>2. counter \in [Procs -> Nat] /\ Len(id) \in Nat
  BY LenProperties DEF Barriers, TableTypes
<1>3. \A r \in Procs : counter[r] \in Nat /\ counter[r] + 1 \in 1..Len(id)
  BY <1>1, <1>2 DEF Barriers, Sized
<1> QED BY <1>1, <1>3 DEF Barriers, Table, Filled, Full

LEMMA Found ==
  ASSUME Barriers, Full, ~overwritten, NEW r \in Procs
  PROVE  IndexOf(r) = counter[r] /\ counter[r] < procNum
<1>1. counter[r] \in Nat /\ counter[r] + 1 \in 1..procNum /\ id[counter[r] + 1] = r
  BY FullFacts
<1>2. counter[r] \in Slots /\ counter[r] < procNum
  BY <1>1, ProcsFinite DEF Slots
<1>3. IndexOf(r) \in Slots /\ id[IndexOf(r) + 1] = r
  BY <1>1, <1>2, IndexFacts
<1>4. IndexOf(r) \in Nat /\ IndexOf(r) + 1 \in 1..Len(id)
  BY <1>3, FullFacts, ProcsFinite DEF Slots
<1>5. Len(id) = Cardinality(Filled)
  BY FullFilled DEF Barriers
<1>6. counter[id[IndexOf(r) + 1]] = IndexOf(r) + 1 - 1
  BY <1>4, <1>5 DEF Barriers, Table
<1> QED BY <1>2, <1>3, <1>4, <1>6

LEMMA OwedStep ==
  ASSUME NEW p \in Procs, Barriers, LooseTypes, PipeTypes, Own1, Once, Stepped(p)
  PROVE  /\ \A r \in Procs : Owed(r)' => Owed(r) \/ (r = p /\ pc[p] = "start" /\ pc'[p] = "findWith")
         /\ pc[p] = "count" => ~Owed(rec[p])'
<1>1. \A r \in Procs : Thrown(r)' => Thrown(r) \/ (r = p /\ pc[p] = "throw")
  BY OnceStep
<1>2. \A r \in Procs \ {p} : pc'[r] \in ToThrow => pc[r] \in ToThrow
  BY DEF Stepped, Rest, ToThrow
<1>3. pc'[p] \in ToThrow => pc[p] \in ToThrow \/ (pc[p] = "start" /\ pc'[p] = "findWith")
  BY DEF Stepped, Moves, ToThrow, Barriers, Base, Labels, Filling, Opening, Gone, Behind
<1>4. ASSUME pc[p] = "count" PROVE ~Owed(rec[p])'
  <2>1. pipe' = pipe /\ rec' = rec /\ rec[p] \in Procs
    BY <1>4 DEF Stepped, Frame, PipeTypes
  <2>2. Holds(p) /\ ~Holds(p)'
    BY <1>4 DEF Holds, Stepped, Moves
  <2>3. \A q \in Procs \ {p} : Holds(q)' <=> Holds(q)
    BY YetStep
  <2>4. ~InPipe(rec[p])
    BY <2>2 DEF Once
  <2>5. \A q \in Procs : Holds(q)' => rec[q] # rec[p]
    BY <2>2, <2>3 DEF Once
  <2>6. ~Thrown(rec[p])'
    BY <2>1, <2>4, <2>5 DEF Thrown, InPipe
  <2>7. pc'[rec[p]] \notin ToThrow
    <3>1. Thrown(rec[p])
      BY <2>1, <2>2 DEF Thrown
    <3>2. ~Yet(rec[p])
      BY <2>1, <3>1 DEF Once
    <3>3. pc[rec[p]] \notin ToThrow
      BY <3>2 DEF Yet
    <3>4. pc'[p] \notin ToThrow
      BY <1>4 DEF Stepped, Moves, ToThrow
    <3> QED BY <1>2, <2>1, <3>3, <3>4
  <2> QED BY <2>1, <2>6, <2>7 DEF Owed
<1> QED BY <1>1, <1>2, <1>3, <1>4 DEF Owed, ToThrow

(* Once the table is full it stays as it is until it is overwritten.       *)
LEMMA IdStep ==
  ASSUME NEW p \in Procs, Barriers, Stepped(p), Full, ~overwritten'
  PROVE  id' = id /\ counter' = counter /\ ~overwritten /\ pc[p] \notin Early
<1>1. pc[p] \notin Early
  BY FullFacts
<1>2. CASE pc[p] = "throw"
  BY <1>1, <1>2, TypesStep DEF Barriers, Stepped, Frame, Early, Does, Throw
<1>3. CASE pc[p] # "throw"
  BY <1>1, <1>3 DEF Stepped, Frame, Early
<1> QED BY <1>1, <1>2, <1>3

LEMMA Own1Step ==
  ASSUME NEW p \in Procs, Barriers, Barriers', LooseTypes, Own1, Stepped(p), ~overwritten' PROVE Own1'
<1> SUFFICES ASSUME NEW q \in Procs, pc'[q] \in {"openWith", "throw"} PROVE (PidAt(index[q]) = q)'
  BY DEF Own1
<1>0. pc \in [Procs -> Labels]
  BY DEF Barriers, Base
<1>1. \/ pc[q] \in {"openWith", "throw"}
      \/ q = p /\ pc[p] = "findWith"
  BY <1>0 DEF Stepped, Rest, Moves, Labels, Filling, Opening, Gone, Behind
<1>2. Full
  <2>1. pc[q] \notin Filling /\ pc[q] # "dead"
    BY <1>1 DEF Filling
  <2> QED BY <2>1 DEF Barriers, Passing
<1>3. id' = id /\ counter' = counter /\ ~overwritten
  BY <1>2, IdStep
<1>4. CASE pc[q] \in {"openWith", "throw"}
  <2>1. index'[q] = index[q]
    <3>1. CASE q = p
      BY <1>4, <3>1 DEF Stepped, Frame
    <3>2. CASE q # p
      BY <3>2 DEF Stepped, Frame, Does, FindSelf, LooseTypes
    <3> QED BY <3>1, <3>2
  <2> QED BY <1>3, <1>4, <2>1 DEF Own1, PidAt
<1>5. CASE q = p /\ pc[p] = "findWith"
  <2>1. index' = [index EXCEPT ![p] = IndexOf(p)]
    BY <1>5 DEF Stepped, Does, FindSelf
  <2>2. index'[p] = counter[p]
    BY <1>2, <1>3, <2>1, Found DEF LooseTypes
  <2>3. counter[p] + 1 \in DOMAIN id /\ id[counter[p] + 1] = p
    BY <1>2, <1>3, FullFacts, LenProperties DEF Barriers, TableTypes
  <2> QED BY <1>3, <1>5, <2>2, <2>3 DEF PidAt
<1> QED BY <1>1, <1>4, <1>5

LEMMA CountStep ==
  ASSUME NEW p \in Procs, Barriers, LooseTypes, Clean, Stepped(p), pc[p] = "count", ~overwritten
  PROVE  LET c == counter[rec[p]] + 1
         IN  /\ Full /\ rec[p] \in Procs /\ c \in 1..Len(id) /\ coolDown[c] > 0 /\ caught' = caught + 1
             /\ seen' = [seen EXCEPT ![p] = 0]
             /\ coolDown' = [coolDown EXCEPT ![c] = @ - 1]
<1> DEFINE r == rec[p]
           c == counter[r] + 1
<1>1. r \in Procs
  BY DEF Clean, PipeTypes
<1>2. Thrown(r)
  BY DEF Thrown, Holds
<1>3. Full /\ coolDown[c] > 0
  BY <1>1, <1>2 DEF Clean, Due, Owed
<1>4. c \in 1..Len(id) /\ counter[r] < procNum
  BY <1>1, <1>3, FullFacts, Found
<1>5. /\ coolDown' = IF pIndex[p] < procNum THEN [coolDown EXCEPT ![pIndex[p] + 1] = seen[p] - 1]
                     ELSE coolDown
      /\ caught' = caught + 1 /\ seen' = [seen EXCEPT ![p] = 0]
  BY DEF Stepped, Does, Count
<1>6. pIndex[p] = counter[r] /\ seen[p] = coolDown[c]
  BY DEF Clean, Read
<1> QED BY <1>1, <1>3, <1>4, <1>5, <1>6

LEMMA LooseTypesStep ==
  ASSUME NEW p \in Procs, Barriers, LooseTypes, Stepped(p) PROVE LooseTypes'
<1>0. /\ Len(coolDown) = Len(id) /\ Len(id) \in Nat /\ procNum \in Nat /\ pc \in [Procs -> Labels]
      /\ coolDown \in [1..Len(id) -> Int]
  BY LenProperties, ProcsFinite DEF LooseTypes, Barriers, Base
<1>1. rec' \in [Procs -> Pid] /\ pipe' \in [Slots -> Seq(Pid)]
  <2>1. PidAt(index[p]) \in Pid
    <3>1. id \in [1..Len(id) -> Pid]
      BY LenProperties DEF Barriers, TableTypes
    <3> QED BY <3>1 DEF PidAt, Pid
  <2> QED BY <2>1, PipeStep DEF LooseTypes
<1>2. /\ readEnds' \in [Procs -> SUBSET Slots] /\ index' \in [Procs -> 0..procNum]
      /\ pos' \in [Procs -> 0..procNum] /\ \A q \in Procs : pc'[q] \in ToOpen => pos'[q] < procNum
  BY OpenTypes
<1>3. coolDown' \in Seq(Int) /\ Len(coolDown') = Len(id')
  <2>1. CASE pc[p] = "fill"
    <3>1. coolDown' = Record(coolDown, counter[p], haspotato[p])
      BY <2>1 DEF Stepped, Does, Fill
    <3>2. counter[p] \in Nat /\ counter[p] <= Len(coolDown) /\ haspotato[p] \in Int
           /\ coolDown \in Seq(Int)
      BY <1>0, PotatoAssumption DEF Barriers, TableTypes, Sized, LooseTypes
    <3>3. /\ coolDown' \in Seq(Int)
          /\ Len(coolDown') = (IF counter[p] < Len(coolDown) THEN Len(coolDown) ELSE Len(coolDown) + 1)
      BY <3>1, <3>2, RecordFacts
    <3>4. Len(id') = (IF counter[p] < Len(id) THEN Len(id) ELSE Len(id) + 1)
      BY <2>1, TypesStep DEF Barriers
    <3> QED BY <1>0, <3>3, <3>4
  <2>2. CASE pc[p] = "count"
    <3> DEFINE n == Len(id)
               i == pIndex[p] + 1
               x == seen[p] - 1
               r == [coolDown EXCEPT ![i] = x]
    <3>1. coolDown' = r \/ coolDown' = coolDown
      BY <2>2 DEF Stepped, Does, Count
    <3>2. x \in Int
      BY DEF LooseTypes
    <3> HIDE DEF x, i
    <3>3. r \in [1..n -> Int] /\ n \in Nat
      BY <1>0, <3>2
    <3> HIDE DEF r, n
    <3>4. r \in Seq(Int) /\ Len(r) = n
      BY <3>3
    <3>5. Len(id') = Len(id)
      BY <2>2, TypesStep DEF Barriers
    <3> QED BY <1>0, <3>1, <3>4, <3>5 DEF n, LooseTypes
  <2>3. CASE pc[p] \notin {"fill", "count"}
    <3>1. Len(id') = Len(id) /\ coolDown' = coolDown
      BY <2>3, TypesStep DEF Barriers, Stepped, Frame
    <3> QED BY <3>1 DEF LooseTypes
  <2> QED BY <2>1, <2>2, <2>3
<1>4. pIndex' \in [Procs -> 0..procNum] /\ seen' \in [Procs -> Int] /\ caught' \in Nat
  <2>1. CASE pc[p] = "look"
    <3> DEFINE i == IndexOf(rec[p])
    <3>1. /\ pIndex' = [pIndex EXCEPT ![p] = i]
          /\ seen' = [seen EXCEPT ![p] = IF i < procNum THEN coolDown[i + 1] ELSE 0]
          /\ caught' = caught
      BY <2>1 DEF Stepped, Does, Frame, Look
    <3>2. i \in 0..procNum
      BY IndexFacts
    <3> HIDE DEF i
    <3>3. Full
      BY <2>1 DEF Barriers, Passing, Filling
    <3>4. i < procNum => coolDown[i + 1] \in Int
      <4>1. i < procNum => i + 1 \in 1..Len(id)
        BY <1>0, <3>2, <3>3 DEF Full
      <4> QED BY <1>0, <4>1
    <3> QED BY <3>1, <3>2, <3>4 DEF LooseTypes
  <2>2. CASE pc[p] = "count"
    <3>1. pIndex' = [pIndex EXCEPT ![p] = 0] /\ seen' = [seen EXCEPT ![p] = 0] /\ caught' = caught + 1
      BY <2>2 DEF Stepped, Does, Count
    <3> QED BY <1>0, <3>1 DEF LooseTypes
  <2>3. CASE pc[p] \notin {"look", "count"}
    BY <2>3 DEF Stepped, Frame, LooseTypes
  <2> QED BY <2>1, <2>2, <2>3
<1> QED BY <1>1, <1>2, <1>3, <1>4 DEF LooseTypes, procNum, Slots

LEMMA CountTypesStep ==
  ASSUME NEW p \in Procs, Barriers, LooseTypes, Clean, Stepped(p), ~overwritten PROVE CountTypes'
<1>0. /\ coolDown \in Seq(Nat) /\ Len(coolDown) = Len(id) /\ seen \in [Procs -> Nat]
      /\ Len(id) \in Nat /\ coolDown \in [1..Len(id) -> Nat]
  BY LenProperties DEF LooseTypes, Clean, CountTypes
<1>1. CASE pc[p] = "fill"
  <2>1. coolDown' = Record(coolDown, counter[p], haspotato[p]) /\ seen' = seen
    BY <1>1 DEF Stepped, Does, Frame, Fill
  <2>2. counter[p] \in Nat /\ counter[p] <= Len(coolDown) /\ haspotato[p] \in Nat
    BY <1>0, PotatoAssumption DEF Barriers, TableTypes, Sized
  <2>3. coolDown' \in Seq(Nat)
    BY <1>0, <2>1, <2>2, RecordFacts
  <2> QED BY <1>0, <2>1, <2>3 DEF CountTypes
<1>2. CASE pc[p] = "count"
  <2> DEFINE c == counter[rec[p]] + 1
             m == coolDown[c] - 1
             s == [coolDown EXCEPT ![c] = m]
  <2>1. c \in 1..Len(id) /\ coolDown[c] > 0 /\ seen' = [seen EXCEPT ![p] = 0] /\ coolDown' = s
    BY <1>2, CountStep
  <2> HIDE DEF c
  <2>2. m \in Nat
    BY <1>0, <2>1
  <2> HIDE DEF m
  <2>3. s \in Seq(Nat)
    <3>1. c \in 1..Len(coolDown)
      BY <1>0, <2>1
    <3> QED BY <1>0, <2>2, <3>1, ExceptSeq
  <2> HIDE DEF s
  <2> QED BY <1>0, <2>1, <2>3 DEF CountTypes
<1>3. CASE pc[p] = "look"
  <2> DEFINE i == IndexOf(rec[p])
  <2>1. /\ seen' = [seen EXCEPT ![p] = IF i < procNum THEN coolDown[i + 1] ELSE 0]
        /\ coolDown' = coolDown
    BY <1>3 DEF Stepped, Does, Frame, Look
  <2>2. i \in 0..procNum /\ procNum \in Nat
    BY IndexFacts, ProcsFinite
  <2> HIDE DEF i
  <2>3. Full
    BY <1>3 DEF Barriers, Passing, Filling
  <2>4. i < procNum => i + 1 \in 1..Len(id)
    BY <2>2, <2>3 DEF Full
  <2> QED BY <1>0, <2>1, <2>4 DEF CountTypes
<1>4. CASE pc[p] \notin {"fill", "count", "look"}
  BY <1>0, <1>4 DEF Stepped, Frame, CountTypes
<1> QED BY <1>1, <1>2, <1>3, <1>4

LEMMA StillClean == ASSUME NEW p \in Procs, Stepped(p), ~overwritten' PROVE ~overwritten
<1>1. CASE pc[p] = "throw"
  BY <1>1 DEF Stepped, Does, Throw
<1>2. CASE pc[p] # "throw"
  BY <1>2 DEF Stepped, Frame
<1> QED BY <1>1, <1>2

(* A record is changed by who fills it and for who has thrown its potato.  *)
LEMMA CoolStep ==
  ASSUME NEW p \in Procs, Barriers, LooseTypes, Clean, Stepped(p), ~overwritten', Full, NEW r \in Procs,
         pc[p] = "count" => rec[p] # r
  PROVE  coolDown'[counter'[r] + 1] = coolDown[counter[r] + 1]
<1>1. counter' = counter /\ pc[p] # "fill" /\ ~overwritten
  BY IdStep DEF Early
<1>2. CASE pc[p] # "count"
  BY <1>1, <1>2 DEF Stepped, Frame
<1>3. CASE pc[p] = "count"
  <2> DEFINE c == counter[rec[p]] + 1
  <2>1. rec[p] \in Procs /\ coolDown' = [coolDown EXCEPT ![c] = @ - 1]
    BY <1>1, <1>3, CountStep
  <2>2. counter[r] + 1 # c
    <3>1. counter[r] # counter[rec[p]] /\ counter[r] \in Nat /\ counter[rec[p]] \in Nat
      BY <1>3, <2>1, FullFacts
    <3> QED BY <3>1
  <2>3. counter[r] + 1 \in DOMAIN coolDown
    BY FullFacts, LenProperties DEF LooseTypes
  <2> HIDE DEF c
  <2> QED BY <1>1, <2>1, <2>2, <2>3
<1> QED BY <1>2, <1>3

LEMMA DueStep ==
  ASSUME NEW p \in Procs, Barriers, LooseTypes, Clean, Stepped(p), ~overwritten' PROVE Due'
<1> SUFFICES ASSUME NEW r \in Procs, Owed(r)' PROVE Full' /\ coolDown'[counter'[r] + 1] > 0
  BY DEF Due
<1>0. ~overwritten
  BY StillClean
<1>1. Owed(r) \/ (r = p /\ pc[p] = "start" /\ pc'[p] = "findWith")
  BY OwedStep DEF Clean
<1>2. Full /\ coolDown[counter[r] + 1] > 0
  <2>1. CASE Owed(r)
    BY <2>1 DEF Clean, Due
  <2>2. CASE r = p /\ pc[p] = "start" /\ pc'[p] = "findWith"
    <3>1. Full
      BY <2>2 DEF Barriers, Passing, Filling
    <3>2. coolDown[IndexOf(p) + 1] > 0
      <4>1. StartGame(p) /\ pc \in [Procs -> Labels]
        BY <2>2 DEF Stepped, Does, Barriers, Base
      <4>2. WithPotato(p) \/ pc'[p] = "findNo"
        BY <4>1 DEF StartGame, Goes
      <4> QED BY <2>2, <4>2 DEF WithPotato
    <3>3. IndexOf(p) = counter[p]
      BY <1>0, <3>1, Found
    <3> QED BY <2>2, <3>1, <3>2, <3>3
  <2> QED BY <1>1, <2>1, <2>2
<1>3. pc[p] = "count" => rec[p] # r
  <2> SUFFICES ASSUME pc[p] = "count", rec[p] = r PROVE FALSE
    OBVIOUS
  <2>1. ~Owed(rec[p])'
    BY OwedStep DEF Clean
  <2>2. rec' = rec
    BY DEF Stepped, Frame
  <2> QED BY <2>1, <2>2 DEF Owed, Thrown, InPipe
<1> QED BY <1>2, <1>3, CoolStep, FullStays DEF Barriers

LEMMA ReadStep ==
  ASSUME NEW p \in Procs, Barriers, LooseTypes, Clean, Stepped(p), ~overwritten' PROVE Read'
<1> SUFFICES ASSUME NEW q \in Procs, pc'[q] = "count"
             PROVE  /\ pIndex'[q] = counter'[rec'[q]]
                    /\ seen'[q] = coolDown'[counter'[rec'[q]] + 1]
  BY DEF Read
<1>0. ~overwritten
  BY StillClean
<1>1. Holds(q) /\ rec'[q] = rec[q] /\ (q = p => pc[p] = "look") /\ (q # p => pc[q] = "count")
  <2>1. CASE q = p
    <3>1. pc[p] = "look"
      BY <2>1 DEF Stepped, Moves, Barriers, Base, Labels, Filling, Opening, Gone, Behind
    <3> QED BY <2>1, <3>1 DEF Stepped, Frame, Holds
  <2>2. CASE q # p
    <3>1. pc[q] = "count"
      BY <2>2 DEF Stepped, Rest
    <3>2. rec'[q] = rec[q]
      <4>1. Leaves(p) \/ \E i \in Slots : Puts(p, i) \/ Picks(p, i)
        BY PipePids DEF Clean
      <4> QED BY <2>2, <4>1 DEF Leaves, Puts, Picks
    <3> QED BY <2>2, <3>1, <3>2 DEF Holds
  <2> QED BY <2>1, <2>2
<1> DEFINE r == rec[q]
<1>2. r \in Procs /\ Thrown(r)
  BY <1>1 DEF Clean, PipeTypes, Thrown
<1>3. Full
  BY <1>2 DEF Clean, Due, Owed
<1>4. pc[p] = "count" => rec[p] # r
  <2> SUFFICES ASSUME pc[p] = "count", rec[p] = r PROVE FALSE
    OBVIOUS
  <2>1. Holds(p) /\ q # p
    BY <1>1 DEF Holds
  <2> QED BY <1>1, <2>1 DEF Clean, Once
<1>5. coolDown'[counter'[r] + 1] = coolDown[counter[r] + 1]
  BY <1>2, <1>3, <1>4, CoolStep
<1>6. counter' = counter
  BY <1>3, IdStep
<1>7. IndexOf(r) = counter[r] /\ counter[r] < procNum
  BY <1>0, <1>2, <1>3, Found
<1>8. CASE q = p
  <2>1. /\ pIndex' = [pIndex EXCEPT ![p] = IndexOf(r)]
        /\ seen' = [seen EXCEPT ![p] = IF IndexOf(r) < procNum THEN coolDown[IndexOf(r) + 1] ELSE 0]
    BY <1>1, <1>8 DEF Stepped, Does, Look
  <2>2. pIndex'[p] = counter[r] /\ seen'[p] = coolDown[counter[r] + 1]
    BY <1>7, <2>1 DEF LooseTypes
  <2> QED BY <1>1, <1>5, <1>6, <1>8, <2>2
<1>9. CASE q # p
  <2>1. seen'[q] = seen[q] /\ pIndex'[q] = pIndex[q]
    <3>1. CASE pc[p] \in {"look", "count"}
      BY <1>9, <3>1 DEF Stepped, Does, Look, Count, LooseTypes
    <3>2. CASE pc[p] \notin {"look", "count"}
      BY <3>2 DEF Stepped, Frame
    <3> QED BY <3>1, <3>2
  <2>2. pIndex[q] = counter[r] /\ seen[q] = coolDown[counter[r] + 1]
    BY <1>1, <1>9 DEF Clean, Read
  <2> QED BY <1>1, <1>5, <1>6, <2>1, <2>2
<1> QED BY <1>8, <1>9

LEMMA SumsStep ==
  ASSUME NEW p \in Procs, Barriers, LooseTypes, Clean, CountTypes', LooseTypes', Stepped(p), ~overwritten
  PROVE  Sums'
<1> SUFFICES ASSUME Len(id') = Cardinality(Filled')
             PROVE  SumFunctionOnSet(coolDown', 1..Len(id')) + caught'
                      = SumFunctionOnSet(haspotato, Filled')
  BY DEF Sums
<1>0. /\ Len(id) \in Nat /\ Filled \in SUBSET Procs /\ Cardinality(Filled) \in Nat
      /\ IsFiniteSet(Filled) /\ Len(id) <= Cardinality(Filled) /\ caught \in Nat
  BY LenProperties, SubsetOfProcs DEF Barriers, TableTypes, Filled, Sized, LooseTypes
<1>d. \A k \in 1..Len(id) : coolDown[k] \in Int
  <2>1. coolDown \in Seq(Nat) /\ Len(coolDown) = Len(id)
    BY DEF LooseTypes, Clean, CountTypes
  <2> QED BY <2>1, ElementOfSeq
<1>e. \A k \in 1..Len(id') : coolDown'[k] \in Int
  <2> DEFINE s == coolDown'
  <2>1. s \in Seq(Nat) /\ Len(s) = Len(id')
    BY DEF CountTypes, LooseTypes
  <2> HIDE DEF s
  <2>2. \A k \in 1..Len(s) : s[k] \in Nat
    BY <2>1, ElementOfSeq
  <2> QED BY <2>1, <2>2 DEF s
<1>h. \A q \in Procs : haspotato[q] \in Int
  BY PotatoAssumption
<1>f. \A n \in Nat : IsFiniteSet(1..n) /\ n + 1 \notin 1..n /\ 1..n + 1 = (1..n) \cup {n + 1}
  <2> TAKE n \in Nat
  <2>1. 1 \in Int /\ n \in Int
    OBVIOUS
  <2>2. IsFiniteSet(1..n)
    BY <2>1, FS_Interval
  <2> QED BY <2>2
<1>1. CASE pc[p] = "fill"
  <2> DEFINE n == Len(id)
  <2>1. /\ coolDown' = Record(coolDown, counter[p], haspotato[p]) /\ caught' = caught
        /\ Len(id') = (IF counter[p] < n THEN n ELSE n + 1)
    BY <1>1, TypesStep DEF Stepped, Does, Frame, Fill, Barriers
  <2>2. Filled' = Filled \cup {p} /\ p \notin Filled /\ Cardinality(Filled') = Cardinality(Filled) + 1
    BY <1>0, <1>1, FilledStep, AddOne DEF Barriers
  <2>3. counter[p] \in Nat /\ counter[p] <= n /\ Len(coolDown) = n /\ coolDown \in Seq(Nat)
    BY DEF Barriers, TableTypes, Sized, LooseTypes, Clean, CountTypes
  <2>4. counter[p] = n /\ Len(id') = n + 1 /\ n = Cardinality(Filled)
    <3>1. n \in Nat /\ n <= Cardinality(Filled)
      BY <1>0
    <3>2. Len(id') = Cardinality(Filled) + 1
      BY <2>2
    <3> HIDE DEF n
    <3> QED BY <1>0, <2>1, <2>3, <3>1, <3>2
  <2>5. SumFunctionOnSet(coolDown, 1..n) + caught = SumFunctionOnSet(haspotato, Filled)
    BY <2>4 DEF Clean, Sums
  <2>6. coolDown'[n + 1] = haspotato[p] /\ \A k \in 1..n : coolDown'[k] = coolDown[k]
    <3>1. haspotato[p] \in Nat
      BY PotatoAssumption
    <3>2. Among(Record(coolDown, counter[p], haspotato[p]), coolDown, counter[p], haspotato[p])
      BY <2>3, <3>1, RecordFacts
    <3>3. Among(coolDown', coolDown, n, haspotato[p])
      BY <2>1, <2>4, <3>2
    <3>4. \A k \in 1..n : k # n + 1
      BY <1>0
    <3> QED BY <2>3, <3>3, <3>4 DEF Among
  <2> DEFINE S == 1..n
             g == coolDown'
  <2>7. IsFiniteSet(S) /\ n + 1 \notin S /\ 1..n + 1 = S \cup {n + 1}
    BY <1>0, <1>f
  <2>8. \A k \in S \cup {n + 1} : g[k] \in Int
    BY <1>e, <2>4, <2>7
  <2>9. \A k \in S : coolDown[k] \in Int /\ g[k] = coolDown[k]
    BY <1>d, <2>6
  <2> DEFINE x == n + 1
  <2>x. IsFiniteSet(S) /\ x \notin S /\ \A k \in S \cup {x} : g[k] \in Int
    BY <2>7, <2>8
  <2> HIDE DEF S, n, g, x
  <2>10. /\ SumFunctionOnSet(g, S) \in Int
         /\ SumFunctionOnSet(g, S \cup {x}) = SumFunctionOnSet(g, S) + g[x]
    BY <2>x, SumAdd
  <2>11. SumFunctionOnSet(g, S) = SumFunctionOnSet(coolDown, S)
    BY <2>7, <2>9, SumSame
  <2>12. /\ SumFunctionOnSet(haspotato, Filled) \in Int
         /\ SumFunctionOnSet(haspotato, Filled \cup {p})
              = SumFunctionOnSet(haspotato, Filled) + haspotato[p]
    <3>1. \A q \in Filled \cup {p} : haspotato[q] \in Int
      BY <1>0, <1>h
    <3> QED BY <1>0, <2>2, <3>1, SumAdd
  <2>13. g[x] = haspotato[p] /\ SumFunctionOnSet(coolDown, S) + caught
                                      = SumFunctionOnSet(haspotato, Filled)
    BY <2>5, <2>6 DEF g, n, S, x
  <2>14. SumFunctionOnSet(coolDown', 1..Len(id')) = SumFunctionOnSet(g, S \cup {x})
    BY <2>4, <2>7 DEF g, x
  <2>15. caught' = caught /\ Filled' = Filled \cup {p} /\ haspotato[p] \in Int
    BY <1>h, <2>1, <2>2
  <2> QED BY <1>0, <2>10, <2>11, <2>12, <2>13, <2>14, <2>15
<1>2. CASE pc[p] # "fill"
  <2>1. Filled' = Filled /\ Len(id') = Len(id)
    BY <1>2, FilledStep, TypesStep DEF Barriers
  <2>3. SumFunctionOnSet(coolDown, 1..Len(id)) + caught = SumFunctionOnSet(haspotato, Filled)
    BY <2>1 DEF Clean, Sums
  <2>4. CASE pc[p] # "count"
    <3>1. coolDown' = coolDown /\ caught' = caught
      BY <1>2, <2>4 DEF Stepped, Frame
    <3> QED BY <2>1, <2>3, <3>1
  <2>5. CASE pc[p] = "count"
    <3> DEFINE c == counter[rec[p]] + 1
               S == 1..Len(id)
               g == coolDown'
    <3>1. c \in 1..Len(id) /\ caught' = caught + 1 /\ coolDown' = [coolDown EXCEPT ![c] = @ - 1]
      BY <2>5, CountStep
    <3>2. IsFiniteSet(S) /\ c \in S /\ \A k \in S : coolDown[k] \in Int /\ g[k] \in Int
      BY <1>0, <1>d, <1>e, <1>f, <2>1, <3>1
    <3>3. DOMAIN coolDown = 1..Len(id)
      BY LenProperties DEF LooseTypes
    <3> HIDE DEF c
    <3>4. g[c] = coolDown[c] - 1 /\ \A k \in S \ {c} : g[k] = coolDown[k]
      BY <3>1, <3>3
    <3> HIDE DEF S, g
    <3>5. SumFunctionOnSet(g, S) = SumFunctionOnSet(coolDown, S) - 1
      BY <3>2, <3>4, SumLess
    <3>6. SumFunctionOnSet(coolDown, S) \in Int
      BY <3>2, SumInt
    <3>7. /\ SumFunctionOnSet(coolDown', 1..Len(id')) = SumFunctionOnSet(g, S)
          /\ SumFunctionOnSet(coolDown, S) + caught = SumFunctionOnSet(haspotato, Filled)
      BY <2>1, <2>3 DEF S, g
    <3> QED BY <1>0, <2>1, <3>1, <3>5, <3>6, <3>7
  <2> QED BY <2>4, <2>5
<1> QED BY <1>1, <1>2

-----------------------------------------------------------------------------
(* The invariant.                                                          *)
IInv == Barriers /\ CInv /\ DInv

LEMMA InvInit == Init => IInv
<1> SUFFICES ASSUME Init PROVE IInv
  OBVIOUS
<1>1. Barriers
  BY BarriersInit
<1>2. /\ pc = [p \in Procs |-> "openNamed"] /\ linked = {} /\ id = <<>> /\ coolDown = <<>>
      /\ fifos \in {{i} : i \in Slots} \cup {{}}
      /\ counter = [p \in Procs |-> 0] /\ index = [p \in Procs |-> 0]
      /\ pos = [p \in Procs |-> 0] /\ readEnds = [p \in Procs |-> {}]
      /\ pipe = [i \in Slots |-> <<>>]
      /\ rec = [p \in Procs |-> p] /\ pIndex = [p \in Procs |-> 0] /\ seen = [p \in Procs |-> 0]
      /\ counter3 = 0 /\ failed = {} /\ caught = 0 /\ overwritten = FALSE
  BY DEF Init
<1>3. Len(id) = 0 /\ Len(coolDown) = 0 /\ procNum \in Nat /\ procNum > 1
      /\ coolDown \in Seq(Nat) /\ coolDown \in Seq(Int)
  BY <1>2, ProcsFinite
<1>4. Filled = {} /\ Cardinality(Filled) = 0
  <2>1. Filled = {}
    BY <1>2 DEF Filled, Early
  <2> QED BY <2>1, FS_EmptySet
<1>5. CInv
  <2>1. fifos \subseteq Slots
    BY <1>2
  <2>2. Removes
    BY <1>2 DEF Removes, Removed
  <2>3. ~Full /\ 0..Len(id) - 1 = {}
    BY <1>3 DEF Full
  <2> QED BY <2>1, <2>2, <2>3 DEF CInv, Fifos
<1>6. PipeTypes /\ Own1 /\ LooseTypes
  <2>1. <<>> \in Seq(Procs) /\ <<>> \in Seq(Pid) /\ Procs \subseteq Pid
    BY DEF Pid
  <2>2. 0 \in 0..procNum
    BY <1>3
  <2>3. PipeTypes /\ Own1
    BY <1>2, <2>1 DEF PipeTypes, Own1
  <2> QED BY <1>2, <1>3, <2>1, <2>2, <2>3 DEF LooseTypes
<1>7. \A r \in Procs : ~Holds(r) /\ ~InPipe(r) /\ ~Thrown(r) /\ ~Owed(r)
  <2>1. \A i \in Slots : 1..Len(pipe[i]) = {}
    BY <1>2
  <2>2. \A r \in Procs : ~Holds(r) /\ ~InPipe(r)
    BY <1>2, <2>1 DEF Holds, InPipe
  <2> QED BY <1>2, <2>2 DEF Thrown, Owed, ToThrow
<1>8. Once
  <2>1. \A i \in Slots : 1..Len(pipe[i]) = {}
    BY <1>2
  <2>2. Apart
    BY <2>1 DEF Apart
  <2> QED BY <1>7, <2>2 DEF Once
<1>9. CountTypes
  BY <1>2, <1>3 DEF CountTypes
<1>10. Due /\ Read
  BY <1>2, <1>7 DEF Due, Read
<1>11. Sums
  <2>1. 1..Len(id) = {}
    BY <1>3
  <2>2. SumFunctionOnSet(coolDown, {}) = 0 /\ SumFunctionOnSet(haspotato, {}) = 0
    BY SumEmpty
  <2> QED BY <1>2, <1>4, <2>1, <2>2 DEF Sums
<1> QED BY <1>1, <1>5, <1>6, <1>8, <1>9, <1>10, <1>11 DEF IInv, DInv, Clean

LEMMA InvStep == ASSUME NEW p \in Procs, IInv, Step(p) PROVE IInv'
<1>1. Barriers /\ CInv /\ DInv /\ Stepped(p) /\ Barriers'
  BY BarriersStep DEF IInv
<1>2. CInv'
  BY <1>1, RemovesStep, FifosStep DEF CInv
<1>3. LooseTypes'
  BY <1>1, LooseTypesStep DEF DInv
<1>4. ASSUME ~overwritten' PROVE Clean'
  <2>1. ~overwritten /\ LooseTypes /\ Clean
    BY <1>1, <1>4, StillClean DEF DInv
  <2>2. PipeTypes' /\ Once'
    BY <1>1, <2>1, PipePids, OnceStep DEF Clean
  <2>3. Own1'
    BY <1>1, <1>4, <2>1, Own1Step DEF Clean
  <2>4. CountTypes'
    BY <1>1, <2>1, CountTypesStep
  <2>5. Due' /\ Read' /\ Sums'
    BY <1>1, <1>3, <1>4, <2>1, <2>4, DueStep, ReadStep, SumsStep
  <2> QED BY <2>2, <2>3, <2>4, <2>5 DEF Clean
<1> QED BY <1>1, <1>2, <1>3, <1>4 DEF IInv, DInv

LEMMA InvStutter == ASSUME IInv, UNCHANGED vars PROVE IInv'
<1>1. Barriers'
  BY BarriersStutter DEF IInv
<1> USE DEF vars
<1>2. (Full' <=> Full) /\ Filled' = Filled /\ Done' = Done /\ (NoneFailed' <=> NoneFailed)
  BY DEF Full, Filled, Done, NoneFailed
<1>3. CInv'
  BY <1>2 DEF IInv, CInv, Removes, Removed, Fifos
<1>4. \A r : /\ Holds(r)' <=> Holds(r)
             /\ InPipe(r)' <=> InPipe(r)
             /\ Yet(r)' <=> Yet(r)
  BY DEF Holds, InPipe, Yet
<1>5. \A r : (Thrown(r)' <=> Thrown(r)) /\ (Owed(r)' <=> Owed(r))
  BY DEF Thrown, Owed, Holds, InPipe
<1>6. LooseTypes'
  BY DEF IInv, DInv, LooseTypes
<1>7. ASSUME ~overwritten' PROVE Clean'
  <2>1. Clean
    BY <1>7 DEF IInv, DInv
  <2>2. PipeTypes' /\ Own1'
    BY <2>1 DEF Clean, PipeTypes, Own1, PidAt
  <2>3. Once'
    BY <2>1 DEF Clean, Once, Apart, Holds, InPipe, Yet, Thrown
  <2>4. CountTypes' /\ Sums'
    BY <1>2, <2>1 DEF Clean, CountTypes, Sums
  <2>5. Due' /\ Read'
    BY <1>2, <1>4, <1>5, <2>1 DEF Clean, Due, Read
  <2> QED BY <2>2, <2>3, <2>4, <2>5 DEF Clean
<1> QED BY <1>1, <1>3, <1>6, <1>7 DEF IInv, DInv

LEMMA Typed == IInv => TypeOK
<1> SUFFICES ASSUME IInv PROVE TypeOK
  OBVIOUS
<1>0. /\ Filled \in SUBSET Procs /\ Counted \in SUBSET Procs /\ procNum \in Nat /\ Len(id) \in Nat
      /\ Cardinality(Filled) \in Nat /\ Cardinality(Filled) <= procNum
      /\ Cardinality(Counted) \in Nat /\ Cardinality(Counted) <= procNum
  BY SubsetOfProcs, ProcsFinite, LenProperties DEF Filled, Counted, IInv, Barriers, TableTypes
<1>1. (\A n \in Names : value[n] \in Seq(Nat)) /\ linked \subseteq Names
  BY DEF IInv, Barriers, Base, SemTypes
<1>2. \A p \in Procs, n \in Names : handle[p][n] \in 0..Len(value[n])
  <2> TAKE p \in Procs, n \in Names
  <2>1. handle[p][n] \in Nat /\ handle[p][n] <= Len(value[n]) /\ value[n] \in Seq(Nat)
    BY DEF IInv, Barriers, Base, SemTypes
  <2>2. Len(value[n]) \in Nat
    BY <2>1, LenProperties
  <2> QED BY <2>1, <2>2
<1>3. /\ id \in Seq(Procs \cup {NoPid}) /\ Len(id) = Len(coolDown) /\ coolDown \in Seq(Int)
      /\ ~overwritten => coolDown \in Seq(Nat)
  BY DEF IInv, Barriers, TableTypes, Pid, DInv, LooseTypes, Clean, CountTypes
<1>4. Len(id) <= procNum
  BY <1>0 DEF IInv, Barriers, Sized
<1>5. /\ fifos \subseteq Slots /\ index \in [Procs -> 0..procNum] /\ pos \in [Procs -> 0..procNum]
      /\ \A p \in Procs : readEnds[p] \subseteq Slots
      /\ rec \in [Procs -> Procs \cup {NoPid}]
  BY DEF IInv, CInv, DInv, LooseTypes, Pid
<1>6. pIndex \in [Procs -> 0..procNum] /\ seen \in [Procs -> Int] /\ caught \in Nat
  BY DEF IInv, DInv, LooseTypes
<1>7. counter3 \in 0..procNum /\ failed \subseteq Procs
  BY <1>0 DEF IInv, Barriers, Leaving, TableTypes
<1> QED BY <1>1, <1>2, <1>3, <1>4, <1>5, <1>6, <1>7 DEF TypeOK

LEMMA Agrees == IInv => TableFilled /\ CountsAgree
<1> SUFFICES ASSUME IInv PROVE TableFilled /\ CountsAgree
  OBVIOUS
<1>1. ASSUME failed = {}, NEW p \in Procs, pc[p] \notin Filling PROVE Full
  BY <1>1 DEF IInv, Barriers, Passing
<1>2. TableFilled
  <2>1. failed = {} => \A p \in Procs : pc[p] \notin Filling => Len(id) = procNum
    BY <1>1 DEF Full
  <2>2. ASSUME failed = {}, NEW p \in Procs, NEW q \in Procs, p # q, pc[p] \notin Filling
        PROVE  counter[p] # counter[q]
    <3>1. Full
      BY <1>1, <2>2
    <3> QED BY <2>2, <3>1, FullFacts DEF IInv
  <2> QED BY <2>1, <2>2 DEF TableFilled
<1>3. CountsAgree
  <2> SUFFICES ASSUME ~overwritten, failed = {}, \A p \in Procs : pc[p] \notin Filling
               PROVE  SumFunction(coolDown) + caught = SumFunction(haspotato)
    BY DEF CountsAgree
  <2>1. PICK p \in Procs : TRUE
    BY ProcsFinite, FS_EmptySet DEF procNum
  <2>2. Full
    BY <1>1, <2>1
  <2>3. Filled = Procs /\ Len(id) = Cardinality(Filled)
    BY <2>2, FullFilled DEF IInv, Barriers
  <2>4. SumFunctionOnSet(coolDown, 1..Len(id)) + caught = SumFunctionOnSet(haspotato, Procs)
    BY <2>3 DEF IInv, DInv, Clean, Sums
  <2>5. DOMAIN coolDown = 1..Len(id) /\ DOMAIN haspotato = Procs
    BY LenProperties, PotatoAssumption DEF IInv, DInv, LooseTypes
  <2> QED BY <2>4, <2>5 DEF SumFunction
<1> QED BY <1>2, <1>3

(* The shared table agrees with the processes that meet at it, for any     *)
(* number of them and any potatoes: all records are filled when somebody   *)
(* goes on, no count goes below zero and the counts are those given less   *)
(* the potatoes caught, both unless a potato was thrown at the table, and  *)
(* those who end by exit leave nothing behind.                             *)
THEOREM TableCorrect == Spec => []PotatoInv
<1>1. IInv /\ [Next]_vars => IInv'
  BY InvStep, InvStutter DEF Next
<1>2. IInv => PotatoInv
  BY Typed, Agrees, CleanAtEnd DEF IInv, PotatoInv
<1> QED BY InvInit, <1>1, <1>2, PTL DEF Spec
=============================================================================
