------------------------- MODULE SignalRoundsProofs -------------------------
(***************************************************************************)
(* Proofs about SignalRounds for any number of children and any number of  *)
(* SIGINTs: what the rounds keep, that the parent prints the errors of     *)
(* whole rounds, and that no signal is merged with an earlier one.         *)
(***************************************************************************)
EXTENDS SignalRounds, SequenceTheorems, TLAPS

-----------------------------------------------------------------------------
(* The inductive invariant: how far the children have come is known from   *)
(* where the parent is.                                                    *)

FirstPlaces  == {"lock", "read", "write", "unlock", "suspend"}
SecondPlaces == {"lock", "read", "write", "unlock", "ended"}
AtFilePlaces == {"read", "write", "unlock"}

(* The stages of a child, one after the other.                             *)
Unborn(c)      == round[c] = 1 /\ at[c] = "none" /\ ~usr1[c]
AtFirst(c)     == round[c] = 1 /\ at[c] \in FirstPlaces /\ ~usr1[c]
Called(c)      == round[c] = 1 /\ at[c] \in FirstPlaces /\ usr1[c]
Replying(c)    == round[c] = 1 /\ at[c] = "reply" /\ ~usr1[c]
Replied(c)     == round[c] = 1 /\ at[c] = "suspendAgain" /\ ~usr1[c]
CalledAgain(c) == round[c] = 1 /\ at[c] = "suspendAgain" /\ usr1[c]
AtSecond(c)    == round[c] = 2 /\ at[c] \in SecondPlaces /\ ~usr1[c]

(* The stages in which the parent may find the child c.                    *)
Agree(c) ==
  /\ at[Parent] = "fork"       => (c < i => AtFirst(c)) /\ (c >= i => Unborn(c))
  /\ at[Parent] = "leave"      => AtFirst(c)
  /\ at[Parent] = "call"       => (c < i => Replied(c)) /\ (c >= i => AtFirst(c))
  /\ at[Parent] = "suspend"    => /\ c < i => Replied(c)
                                  /\ c > i => AtFirst(c)
                                  /\ c = i => \/ ~usr2 /\ (Called(c) \/ Replying(c))
                                              \/ usr2 /\ Replied(c)
  /\ at[Parent] = "print"      => Replied(c)
  /\ at[Parent] = "leaveAgain" => Replied(c)
  /\ at[Parent] = "callAll"    => /\ c < i => CalledAgain(c) \/ AtSecond(c)
                                  /\ c >= i => Replied(c)
  /\ at[Parent] = "wait"       => CalledAgain(c) \/ AtSecond(c)
  /\ at[Parent] = "printAgain" => AtSecond(c) /\ at[c] = "ended"
  /\ at[Parent] = "ended"      => AtFirst(c) \/ Replied(c) \/ CalledAgain(c) \/ AtSecond(c)

Loop ==
  /\ at[Parent] \in {"leave", "leaveAgain"} => i = 0
  /\ at[Parent] = "suspend" => i < POLY_NUMBER
  /\ usr2 => at[Parent] = "suspend"

(* The lock is with a process at the file, or with nobody; until SIGINT    *)
(* every process at the file has it.                                       *)
LockKept ==
  /\ \A c \in Children : lock = c => at[c] \in AtFilePlaces
  /\ sigints = 0 => /\ sigint = {} /\ ~garbled
                    /\ \A c \in Children : at[c] \in AtFilePlaces => lock = c

(* What a child has read is still what is in the file when it writes.      *)
CopiesAgree == ~garbled => \A c \in Children : at[c] = "write" => copy[c] = file

(* What has been printed, and how often the file has been closed, so far.  *)
Progress ==
  /\ at[Parent] \in {"fork", "leave", "call", "suspend", "print"} => printed = <<>>
  /\ at[Parent] \in {"leaveAgain", "callAll", "wait", "printAgain"} => Len(printed) = 1
  /\ at[Parent] # "ended" => closed = 0

Stages == Loop /\ \A c \in Children : Agree(c)

IInv == /\ TypeOK /\ Stages /\ LockKept /\ CopiesAgree /\ LinesAgree /\ Progress
        /\ ErrorOfWholeRound /\ ClosedOnce

-----------------------------------------------------------------------------
(* Lemmas about the processes and the places they go to.                   *)

LEMMA Processes ==
  /\ Children \subseteq Procs /\ Parent \in Procs /\ Parent \notin Children
  /\ None \notin Procs /\ None \notin Children
  /\ Children \subseteq Nat /\ POLY_NUMBER \in Nat \ {0}
  /\ \A c \in Children : c < POLY_NUMBER
  /\ \A n \in Nat : n < POLY_NUMBER => n \in Children
BY RoundsAssumption DEF Children, Procs, Parent, None

LEMMA Moves ==
  ASSUME TypeOK, NEW p \in Procs, NEW l, Goto(p, l)
  PROVE  /\ at'[p] = l /\ \A q \in Procs : q # p => at'[q] = at[q]
         /\ DOMAIN at' = Procs
BY DEF TypeOK, Goto

(* SIGUSR1 goes to one child.                                              *)
LEMMA Sends ==
  ASSUME TypeOK, NEW c \in Children, Send(c)
  PROVE  /\ usr1'[c] /\ \A d \in Children : d # c => usr1'[d] = usr1[d]
         /\ usr1' \in [Children -> BOOLEAN]
BY DEF TypeOK, Send, Kept

(* Each round appends its value to a prefix of the two rounds.             *)
LEMMA BothPrefix ==
  /\ SubSeq(Both, 1, 0) = <<>>
  /\ \A r \in {1, 2} : Append(SubSeq(Both, 1, r - 1), r) = SubSeq(Both, 1, r)
<1>1. Both \in Seq({1, 2}) /\ Len(Both) = 2 /\ \A r \in {1, 2} : Both[r] = r
  BY DEF Both
<1>2. SubSeq(Both, 1, 0) = <<>>
  BY SubSeqEmpty
<1>3. SubSeq(Both, 1, 1) = SubSeq(Both, 1, 1 - 1) \o <<Both[1]>>
  BY <1>1, SubSeqRecursiveSecond
<1>4. SubSeq(Both, 1, 2) = SubSeq(Both, 1, 2 - 1) \o <<Both[2]>>
  BY <1>1, SubSeqRecursiveSecond
<1>5. \A r \in {1, 2} : SubSeq(Both, 1, r - 1) \in Seq({1, 2})
  <2> SUFFICES ASSUME NEW r \in {1, 2} PROVE SubSeq(Both, 1, r - 1) \in Seq({1, 2})
    OBVIOUS
  <2>1. \A k \in 1..(r - 1) : Both[k] \in {1, 2}
    BY <1>1
  <2> QED
    BY <2>1, SubSeqProperties
<1>6. \A r \in {1, 2} : SubSeq(Both, 1, r - 1) \o <<r>> = Append(SubSeq(Both, 1, r - 1), r)
  BY <1>5, AppendIsConcat
<1> QED
  BY <1>1, <1>2, <1>3, <1>4, <1>6

-----------------------------------------------------------------------------
(* Where the children are, and in which order they are called.             *)

LEMMA AgreeKept ==
  ASSUME NEW d \in Children, Agree(d), UNCHANGED <<at[Parent], usr2, i>>,
         UNCHANGED <<at[d], round[d], usr1[d]>>
  PROVE  Agree(d)'
BY DEF Agree, Unborn, AtFirst, Called, Replying, Replied, CalledAgain, AtSecond

(* A child that moves within its round stays in its stage.                 *)
LEMMA StageKept ==
  ASSUME TypeOK, Stages, NEW c \in Children, NEW l,
         Goto(c, l), UNCHANGED <<round, usr1, usr2, i>>,
         at[c] \in FirstPlaces \cap SecondPlaces, at[Parent] # "printAgain",
         round[c] = 1 => l \in FirstPlaces, round[c] = 2 => l \in SecondPlaces
  PROVE  Stages'
<1>1. /\ at'[c] = l /\ at'[Parent] = at[Parent]
      /\ \A d \in Children : d # c => at'[d] = at[d]
  BY Processes, Moves
<1>2. Loop'
  BY <1>1 DEF Stages, Loop
<1>3. ASSUME NEW d \in Children PROVE Agree(d)'
  <2>1. Agree(d)
    BY DEF Stages
  <2>2. CASE d = c
    <3>1. /\ AtFirst(c) => AtFirst(c)'
          /\ Called(c) => Called(c)'
          /\ AtSecond(c) => AtSecond(c)'
      BY <1>1 DEF AtFirst, Called, AtSecond
    <3>2. ~Unborn(c) /\ ~Replying(c) /\ ~Replied(c) /\ ~CalledAgain(c)
      BY DEF Unborn, Replying, Replied, CalledAgain, FirstPlaces
    <3> QED
      BY <1>1, <2>1, <2>2, <3>1, <3>2 DEF Agree
  <2>3. CASE d # c
    <3>1. at'[d] = at[d]
      BY <1>1, <2>3
    <3> QED
      BY <1>1, <2>1, <3>1, AgreeKept
  <2> QED
    BY <2>2, <2>3
<1> QED
  BY <1>2, <1>3 DEF Stages

(* At the file and on the way to it, a child is in a stage, and the parent *)
(* does not print.                                                         *)
LEMMA StageOf ==
  ASSUME TypeOK, Stages, NEW c \in Children
  PROVE  /\ at[c] \in FirstPlaces \cap SecondPlaces =>
              at[Parent] \notin {"print", "leaveAgain", "printAgain"}
         /\ at[c] = "suspend" => round[c] = 1 /\ (usr1[c] => Called(c))
         /\ at[c] = "reply" => at[Parent] = "suspend" /\ i = c /\ ~usr2 /\ Replying(c)
         /\ at[c] = "suspendAgain" => Replied(c) \/ CalledAgain(c)
         /\ Called(c) => at[Parent] = "suspend" /\ i = c /\ ~usr2
         /\ CalledAgain(c) => at[Parent] \in {"callAll", "wait", "ended"}
<1>1. Agree(c) /\ at[Parent] \in ParentPlaces /\ c \in Nat /\ i \in Nat
  BY Processes DEF Stages, TypeOK
<1>2. \/ Unborn(c) \/ AtFirst(c) \/ Called(c) \/ Replying(c) \/ Replied(c)
      \/ CalledAgain(c) \/ AtSecond(c)
  BY <1>1 DEF Agree, ParentPlaces
<1>3. Called(c) => at[Parent] = "suspend" /\ i = c /\ ~usr2
  <2> SUFFICES ASSUME Called(c) PROVE at[Parent] = "suspend" /\ i = c /\ ~usr2
    OBVIOUS
  <2>1. /\ ~Unborn(c) /\ ~AtFirst(c) /\ ~Replied(c) /\ ~CalledAgain(c) /\ ~AtSecond(c)
    BY DEF Unborn, AtFirst, Called, Replied, CalledAgain, AtSecond, FirstPlaces
  <2> QED
    BY <1>1, <2>1 DEF Agree, ParentPlaces
<1>4. Replying(c) => at[Parent] = "suspend" /\ i = c /\ ~usr2
  <2> SUFFICES ASSUME Replying(c) PROVE at[Parent] = "suspend" /\ i = c /\ ~usr2
    OBVIOUS
  <2>1. /\ ~Unborn(c) /\ ~AtFirst(c) /\ ~Replied(c) /\ ~CalledAgain(c) /\ ~AtSecond(c)
    BY DEF Unborn, AtFirst, Replying, Replied, CalledAgain, AtSecond, FirstPlaces, SecondPlaces
  <2> QED
    BY <1>1, <2>1 DEF Agree, ParentPlaces
<1>5. CalledAgain(c) => at[Parent] \in {"callAll", "wait", "ended"}
  <2> SUFFICES ASSUME CalledAgain(c) PROVE at[Parent] \in {"callAll", "wait", "ended"}
    OBVIOUS
  <2>1. ~Unborn(c) /\ ~AtFirst(c) /\ ~Called(c) /\ ~Replying(c) /\ ~Replied(c) /\ ~AtSecond(c)
    BY DEF Unborn, AtFirst, Called, Replying, Replied, CalledAgain, AtSecond, FirstPlaces
  <2> QED
    BY <1>1, <2>1 DEF Agree, ParentPlaces
<1>6. /\ at[c] = "suspend" => round[c] = 1 /\ (usr1[c] => Called(c))
      /\ at[c] = "reply" => Replying(c)
      /\ at[c] = "suspendAgain" => Replied(c) \/ CalledAgain(c)
  BY <1>2 DEF Unborn, AtFirst, Called, Replying, Replied, CalledAgain, AtSecond,
     FirstPlaces, SecondPlaces
<1>7. at[c] \in FirstPlaces \cap SecondPlaces =>
        at[Parent] \notin {"print", "leaveAgain", "printAgain"}
  BY <1>1 DEF Agree, Replied, FirstPlaces
<1> QED
  BY <1>3, <1>4, <1>5, <1>6, <1>7

LEMMA OthersKept ==
  ASSUME Stages, NEW c \in Children, UNCHANGED <<at[Parent], usr2, i>>,
         \A d \in Children : d # c => UNCHANGED <<at[d], round[d], usr1[d]>>,
         Agree(c)'
  PROVE  Stages'
<1>1. ASSUME NEW d \in Children, d # c PROVE Agree(d)'
  <2>1. UNCHANGED <<at[d], round[d], usr1[d]>> /\ Agree(d)
    BY <1>1 DEF Stages
  <2> QED
    BY <2>1, AgreeKept
<1>2. Loop'
  BY DEF Stages, Loop
<1> QED
  BY <1>1, <1>2 DEF Stages

LEMMA OthersSame ==
  ASSUME Stages, UNCHANGED <<at, round, usr1, usr2, i>>
  PROVE  Stages'
BY AgreeKept DEF Stages, Loop

LEMMA ChildStages ==
  ASSUME TypeOK, Stages, NEW c \in Children, ChildStep(c)
  PROVE  Stages'
<1>1. c \in Procs /\ c # Parent /\ round[c] \in {1, 2}
  BY Processes DEF TypeOK
<1>2. CASE ChildLocks(c)
  BY <1>2, StageKept, StageOf DEF ChildLocks, signals, FirstPlaces, SecondPlaces
<1>3. CASE ChildReads(c)
  BY <1>3, StageKept, StageOf DEF ChildReads, signals, FirstPlaces, SecondPlaces
<1>4. CASE ChildWrites(c)
  BY <1>4, StageKept, StageOf DEF ChildWrites, signals, FirstPlaces, SecondPlaces
<1>5. CASE ChildUnlocks(c)
  <2>1. Goto(c, IF round[c] = 1 THEN "suspend" ELSE "ended")
    BY <1>5 DEF ChildUnlocks, AfterFirst
  <2> QED
    BY <1>1, <1>5, <2>1, StageKept, StageOf DEF ChildUnlocks, signals, FirstPlaces, SecondPlaces
<1>6. CASE ChildWakes(c)
  <2>1. /\ at'[Parent] = at[Parent] /\ \A d \in Children : d # c => at'[d] = at[d]
        /\ ~usr1'[c] /\ \A d \in Children : d # c => usr1'[d] = usr1[d]
        /\ \A d \in Children : d # c => round'[d] = round[d]
        /\ i' = i /\ usr2' = usr2
    BY <1>1, <1>6, Moves, Processes DEF ChildWakes, TypeOK
  <2>2. CASE at[c] = "suspend"
    <3>1. Replying(c)' /\ at[Parent] = "suspend" /\ i = c /\ ~usr2
      BY <1>1, <1>6, <2>1, <2>2, StageOf, Moves DEF ChildWakes, Replying, Called
    <3>2. Agree(c)'
      BY <2>1, <3>1, Processes DEF Agree
    <3> QED
      BY <2>1, <3>2, OthersKept
  <2>3. CASE at[c] = "suspendAgain"
    <3>1. CalledAgain(c) /\ at[Parent] \in {"callAll", "wait", "ended"} /\ Agree(c)
      BY <1>6, <2>3, StageOf DEF ChildWakes, Replied, Stages
    <3>2. AtSecond(c)'
      BY <1>1, <1>6, <2>1, <2>3, Moves DEF ChildWakes, AtSecond, SecondPlaces, TypeOK
    <3>3. Agree(c)'
      BY <2>1, <3>1, <3>2 DEF Agree, CalledAgain, Replied
    <3> QED
      BY <2>1, <3>3, OthersKept
  <2> QED
    BY <1>6, <2>2, <2>3 DEF ChildWakes
<1>7. CASE ChildReplies(c)
  <2>1. at[Parent] = "suspend" /\ i = c /\ ~usr2 /\ Replying(c)
    BY <1>7, StageOf DEF ChildReplies
  <2>2. /\ at'[Parent] = at[Parent] /\ \A d \in Children : d # c => at'[d] = at[d]
        /\ at'[c] = "suspendAgain" /\ usr2' /\ UNCHANGED <<round, usr1, i>>
    BY <1>1, <1>7, Moves, Processes DEF ChildReplies
  <2> QED
    BY <2>1, <2>2 DEF Stages, Loop, Agree, Unborn, AtFirst, Called, Replying, Replied,
       CalledAgain, AtSecond
<1> QED
  BY <1>2, <1>3, <1>4, <1>5, <1>6, <1>7 DEF ChildStep

(* The parent does not move a child, once it has forked it.                *)
LEMMA ParentStages ==
  ASSUME TypeOK, Stages, ParentStep
  PROVE  Stages'
<1>1. /\ Parent \in Procs /\ i \in 0..POLY_NUMBER /\ i \in Nat /\ POLY_NUMBER \in Nat \ {0}
      /\ \A d \in Children : d \in Procs /\ d # Parent /\ d \in Nat /\ d < POLY_NUMBER
      /\ \A n \in Nat : n < POLY_NUMBER => n \in Children
  BY Processes DEF TypeOK
<1>2. Loop /\ \A d \in Children : Agree(d)
  BY DEF Stages
<1>3. ASSUME NEW d \in Children, UNCHANGED <<at[d], round[d], usr1[d]>>
      PROVE  /\ UNCHANGED <<AtFirst(d), Called(d), Replying(d), Replied(d), CalledAgain(d)>>
             /\ UNCHANGED <<Unborn(d), AtSecond(d)>>
  BY <1>3 DEF Unborn, AtFirst, Called, Replying, Replied, CalledAgain, AtSecond
<1>4. ASSUME NEW l, Goto(Parent, l)
      PROVE  at'[Parent] = l /\ \A d \in Children : at'[d] = at[d]
  BY <1>1, <1>4, Moves
<1>5. CASE Fork
  <2>1. CASE i = POLY_NUMBER
    <3>1. /\ at[Parent] = "fork" /\ at'[Parent] = "leave" /\ i' = 0 /\ usr2' = usr2
          /\ \A d \in Children : UNCHANGED <<at[d], round[d], usr1[d]>>
      BY <1>4, <1>5, <2>1 DEF Fork, LoopOver, signals
    <3> QED
      BY <1>1, <1>2, <1>3, <2>1, <3>1 DEF Stages, Loop, Agree
  <2>2. CASE i # POLY_NUMBER
    <3>1. i \in Children
      BY <1>1, <2>2
    <3>2. PICK k \in Children : k = i
      BY <3>1
    <3>3. /\ at[Parent] = "fork" /\ at'[Parent] = "fork" /\ i' = i + 1
          /\ UNCHANGED <<round, usr1, usr2>>
          /\ at'[k] = "lock" /\ \A d \in Children : d # k => at'[d] = at[d]
      BY <1>1, <1>5, <2>2, <3>2, Moves DEF Fork, LoopOver, signals, Goto
    <3>4. AtFirst(k)'
      <4>1. Unborn(k)
        BY <1>1, <1>2, <3>2, <3>3 DEF Agree
      <4> QED
        BY <3>3, <4>1 DEF Unborn, AtFirst, FirstPlaces
    <3> QED
      BY <1>1, <1>2, <1>3, <3>2, <3>3, <3>4 DEF Stages, Loop, Agree
  <2> QED
    BY <2>1, <2>2
<1>6. CASE ParentLeaves \/ ParentGoesOn
  <2>1. PICK l \in {"ended", "call", "callAll"} :
            /\ Goto(Parent, l) /\ UNCHANGED <<round, usr1, usr2, i>>
            /\ at[Parent] \in {"leave", "leaveAgain"}
            /\ l = "call" => at[Parent] = "leave"
            /\ l = "callAll" => at[Parent] = "leaveAgain"
    BY <1>6 DEF ParentLeaves, ParentGoesOn, signals
  <2>2. at'[Parent] = l /\ \A d \in Children : UNCHANGED <<at[d], round[d], usr1[d]>>
    BY <1>4, <2>1
  <2> QED
    BY <1>1, <1>2, <1>3, <2>1, <2>2 DEF Stages, Loop, Agree
<1>7. CASE ParentCalls
  <2>1. CASE i = POLY_NUMBER
    <3>1. /\ at[Parent] = "call" /\ at'[Parent] = "print" /\ i' = i /\ usr2' = usr2
          /\ \A d \in Children : UNCHANGED <<at[d], round[d], usr1[d]>>
      BY <1>4, <1>7, <2>1 DEF ParentCalls, LoopOver
    <3> QED
      BY <1>1, <1>2, <1>3, <2>1, <3>1 DEF Stages, Loop, Agree
  <2>2. CASE i # POLY_NUMBER
    <3>1. i \in Children /\ i < POLY_NUMBER
      BY <1>1, <2>2
    <3>2. /\ at[Parent] = "call" /\ at'[Parent] = "suspend" /\ i' = i /\ usr2' = usr2
          /\ usr1'[i] /\ \A d \in Children : d # i => UNCHANGED usr1[d]
          /\ \A d \in Children : UNCHANGED <<at[d], round[d]>>
      BY <1>4, <1>7, <2>2, <3>1, Sends DEF ParentCalls, LoopOver
    <3>3. ASSUME NEW d \in Children PROVE Agree(d)'
      <4>1. Agree(d) /\ ~usr2
        BY <1>2, <3>2 DEF Loop
      <4>2. CASE d = i
        <5>1. AtFirst(d)
          BY <1>1, <3>2, <4>1, <4>2 DEF Agree
        <5>2. Called(d)'
          BY <3>2, <4>2, <5>1 DEF AtFirst, Called
        <5> QED
          BY <1>1, <3>2, <4>1, <4>2, <5>2 DEF Agree
      <4>3. CASE d # i
        BY <1>1, <1>3, <3>2, <4>1, <4>3 DEF Agree
      <4> QED
        BY <4>2, <4>3
    <3> QED
      BY <1>2, <3>1, <3>2, <3>3 DEF Stages, Loop
  <2> QED
    BY <2>1, <2>2
<1>8. CASE ParentWakes
  <2>1. /\ at[Parent] = "suspend" /\ usr2 /\ at'[Parent] = "call" /\ ~usr2' /\ i' = i + 1
        /\ \A d \in Children : UNCHANGED <<at[d], round[d], usr1[d]>>
    BY <1>4, <1>8 DEF ParentWakes, HasReply
  <2> QED
    BY <1>1, <1>2, <1>3, <2>1 DEF Stages, Loop, Agree
<1>9. CASE ParentPrints
  <2>1. /\ i' = 0 /\ usr2' = usr2 /\ \A d \in Children : UNCHANGED <<at[d], round[d], usr1[d]>>
        /\ \/ at[Parent] = "print" /\ at'[Parent] = "leaveAgain"
           \/ at[Parent] = "printAgain" /\ at'[Parent] = "ended"
    BY <1>4, <1>9 DEF ParentPrints, signals
  <2> QED
    BY <1>1, <1>2, <1>3, <2>1 DEF Stages, Loop, Agree
<1>10. CASE ParentCallsAll
  <2>1. CASE i = POLY_NUMBER
    <3>1. /\ at[Parent] = "callAll" /\ at'[Parent] = "wait" /\ i' = i /\ usr2' = usr2
          /\ \A d \in Children : UNCHANGED <<at[d], round[d], usr1[d]>>
      BY <1>4, <1>10, <2>1 DEF ParentCallsAll, LoopOver
    <3> QED
      BY <1>1, <1>2, <1>3, <2>1, <3>1 DEF Stages, Loop, Agree
  <2>2. CASE i # POLY_NUMBER
    <3>1. i \in Children
      BY <1>1, <2>2
    <3>2. /\ at[Parent] = "callAll" /\ UNCHANGED <<at, round, usr2>> /\ i' = i + 1
          /\ usr1'[i] /\ \A d \in Children : d # i => UNCHANGED usr1[d]
      BY <1>10, <2>2, <3>1, Sends DEF ParentCallsAll, LoopOver
    <3>3. ASSUME NEW d \in Children PROVE Agree(d)'
      <4>1. Agree(d)
        BY <1>2
      <4>2. CASE d = i
        <5>1. Replied(d)
          BY <1>1, <3>2, <4>1, <4>2 DEF Agree
        <5>2. CalledAgain(d)'
          BY <3>2, <4>2, <5>1 DEF Replied, CalledAgain
        <5> QED
          BY <1>1, <3>2, <4>1, <4>2, <5>2 DEF Agree
      <4>3. CASE d # i
        BY <1>1, <1>3, <3>2, <4>1, <4>3 DEF Agree
      <4> QED
        BY <4>2, <4>3
    <3> QED
      BY <1>2, <3>2, <3>3 DEF Stages, Loop
  <2> QED
    BY <2>1, <2>2
<1>11. CASE ParentHasWaited
  <2>1. /\ at[Parent] = "wait" /\ at'[Parent] \in {"ended", "printAgain"}
        /\ UNCHANGED <<i, usr2>> /\ \A d \in Children : at[d] = "ended"
        /\ \A d \in Children : UNCHANGED <<at[d], round[d], usr1[d]>>
    BY <1>4, <1>11 DEF ParentHasWaited, signals
  <2>2. \A d \in Children : AtSecond(d)
    BY <1>2, <2>1 DEF Agree, CalledAgain
  <2> QED
    BY <1>1, <1>2, <1>3, <2>1, <2>2 DEF Stages, Loop, Agree
<1> QED
  BY <1>5, <1>6, <1>7, <1>8, <1>9, <1>10, <1>11 DEF ParentStep

LEMMA SigintStages ==
  /\ \A S : TypeOK /\ Stages /\ Sigint(S) => Stages'
  /\ \A p \in Procs : TypeOK /\ Stages /\ Handle(p) => Stages'
<1>1. ASSUME NEW S, TypeOK, Stages, Sigint(S) PROVE Stages'
  <2>1. UNCHANGED <<at, round, usr1, usr2, i>>
    BY <1>1 DEF Sigint, signals
  <2> QED
    BY <1>1, <2>1, OthersSame
<1>2. ASSUME NEW p \in Procs, TypeOK, Stages, Handle(p) PROVE Stages'
  <2>1. UNCHANGED <<round, usr1, usr2, i>>
    BY <1>2 DEF Handle, signals
  <2>2. CASE UNCHANGED at
    BY <1>2, <2>1, <2>2, OthersSame
  <2>3. CASE p # Parent /\ at[p] = "lock" /\ Goto(p, "read")
    <3>1. p \in Children
      BY <2>3 DEF Procs
    <3>2. at[p] \in FirstPlaces \cap SecondPlaces /\ "read" \in FirstPlaces \cap SecondPlaces
      BY <2>3 DEF FirstPlaces, SecondPlaces
    <3>3. at[Parent] # "printAgain"
      BY <1>2, <3>1, <3>2, StageOf
    <3> QED
      BY <1>2, <2>1, <2>3, <3>1, <3>2, <3>3, StageKept
  <2>4. CASE p = Parent /\ at[p] = "wait" /\ Goto(p, "ended")
    <3>1. at'[Parent] = "ended" /\ \A d \in Children : at'[d] = at[d]
      BY <1>2, <2>4, Moves, Processes
    <3> QED
      BY <1>2, <2>1, <2>4, <3>1 DEF Stages, Loop, Agree, AtFirst, Replied, CalledAgain, AtSecond
  <2> QED
    BY <1>2, <2>2, <2>3, <2>4 DEF Handle
<1> QED
  BY <1>1, <1>2

-----------------------------------------------------------------------------
(* Types.                                                                  *)

AtTyped ==
  DOMAIN at = Procs /\ at[Parent] \in ParentPlaces /\ \A c \in Children : at[c] \in Places

LEMMA GoesTyped ==
  ASSUME TypeOK, NEW p \in Procs, NEW l, Goto(p, l),
         p = Parent => l \in ParentPlaces, p # Parent => l \in Places
  PROVE  AtTyped'
<1>1. at'[p] = l /\ DOMAIN at' = Procs /\ \A q \in Procs : q # p => at'[q] = at[q]
  BY Moves
<1> QED
  BY <1>1, Processes DEF TypeOK, AtTyped

LEMMA ChildTyped ==
  ASSUME TypeOK, NEW c \in Children, ChildStep(c)
  PROVE  TypeOK'
<1>1. c \in Procs /\ c # Parent /\ round[c] \in {1, 2}
  BY Processes DEF TypeOK
<1>2. AtTyped'
  <2>1. \E l \in Places : Goto(c, l)
    BY DEF ChildStep, ChildLocks, ChildReads, ChildWrites, ChildUnlocks, ChildWakes,
       ChildReplies, AfterFirst, Places
  <2> QED
    BY <1>1, <2>1, GoesTyped
<1>3. UNCHANGED <<i, ints, printed, closed>>
  BY DEF ChildStep, ChildLocks, ChildReads, ChildWrites, ChildUnlocks, ChildWakes, ChildReplies
<1>4. /\ usr1' \in [Children -> BOOLEAN] /\ usr2' \in BOOLEAN /\ round' \in [Children -> {1, 2}]
      /\ lock' \in Children \cup {None}
  BY DEF TypeOK, ChildStep, ChildLocks, ChildReads, ChildWrites, ChildUnlocks, ChildWakes,
     ChildReplies, signals
<1>5. file' \in Lines /\ copy' \in [Children -> Lines] /\ garbled' \in BOOLEAN
  <2>1. CASE ChildReads(c)
    BY <2>1 DEF TypeOK, ChildReads, ReadLines, Interfere
  <2>2. CASE ChildWrites(c)
    <3>1. copy[c] \in Lines /\ copy[c][c] \in Seq({1, 2})
      BY DEF TypeOK, Lines
    <3>2. Append(copy[c][c], round[c]) \in Seq({1, 2})
      BY <1>1, <3>1, AppendProperties
    <3>3. file' = [copy[c] EXCEPT ![c] = Append(copy[c][c], round[c])]
      BY <2>2 DEF ChildWrites
    <3>4. file' \in Lines
      BY <3>1, <3>2, <3>3 DEF Lines
    <3> QED
      BY <2>2, <3>4 DEF TypeOK, ChildWrites, Interfere
  <2>3. CASE UNCHANGED data
    BY <2>3 DEF TypeOK, data
  <2> QED
    BY <2>1, <2>2, <2>3 DEF ChildStep, ChildLocks, ChildUnlocks, ChildWakes, ChildReplies
<1> QED
  BY <1>2, <1>3, <1>4, <1>5 DEF TypeOK, AtTyped, ints

LEMMA ParentTyped ==
  ASSUME TypeOK, Loop, Progress, ParentStep
  PROVE  TypeOK'
<1>1. /\ Parent \in Procs /\ i \in 0..POLY_NUMBER /\ i \in Nat /\ POLY_NUMBER \in Nat \ {0}
      /\ at[Parent] \in ParentPlaces
  BY Processes DEF TypeOK
<1>2. AtTyped'
  <2>1. CASE \E l \in ParentPlaces : Goto(Parent, l)
    BY <1>1, <2>1, GoesTyped
  <2>2. CASE UNCHANGED at
    BY <2>2 DEF TypeOK, AtTyped
  <2>3. CASE Fork /\ ~LoopOver
    <3>1. i \in Procs /\ i # Parent /\ Goto(i, "lock")
      BY <1>1, <2>3, Processes DEF Fork, LoopOver, Goto
    <3> QED
      BY <3>1, GoesTyped DEF Places
  <2>4. CASE ParentLeaves \/ ParentGoesOn \/ ParentPrints \/ ParentHasWaited
    BY <2>1, <2>4 DEF ParentLeaves, ParentGoesOn, ParentPrints, ParentHasWaited, ParentPlaces
  <2>5. CASE Fork \/ ParentCalls \/ ParentWakes \/ ParentCallsAll
    BY <2>1, <2>2, <2>3, <2>5 DEF Fork, ParentCalls, ParentWakes, ParentCallsAll, ParentPlaces
  <2> QED
    BY <2>4, <2>5 DEF ParentStep
<1>3. UNCHANGED <<round, ints, lock, data>>
  BY DEF ParentStep, Fork, ParentLeaves, ParentGoesOn, ParentCalls, ParentWakes, ParentPrints,
     ParentCallsAll, ParentHasWaited
<1>4. i' \in 0..POLY_NUMBER
  <2>1. i' = i \/ i' = 0 \/ (i # POLY_NUMBER /\ i' = i + 1)
    BY <1>1 DEF ParentStep, Fork, ParentLeaves, ParentGoesOn, ParentCalls, ParentWakes,
       ParentPrints, ParentCallsAll, ParentHasWaited, LoopOver, Loop
  <2> QED
    BY <1>1, <2>1
<1>5. usr1' \in [Children -> BOOLEAN] /\ usr2' \in BOOLEAN
  BY DEF TypeOK, ParentStep, Fork, ParentLeaves, ParentGoesOn, ParentCalls, ParentWakes,
     ParentPrints, ParentCallsAll, ParentHasWaited, Send, Kept, signals
<1>6. printed' \in Seq(Lines) /\ Len(printed') <= 2
  <2>1. printed \in Seq(Lines) /\ file \in Lines /\ Len(printed) <= 2
    BY DEF TypeOK
  <2>2. CASE ParentPrints
    <3>1. printed' = Append(printed, file) /\ (printed = <<>> \/ Len(printed) = 1)
      BY <2>2 DEF ParentPrints, Progress
    <3> QED
      BY <2>1, <3>1, AppendProperties, EmptySeq
  <2>3. CASE UNCHANGED printed
    BY <2>1, <2>3
  <2> QED
    BY <2>2, <2>3 DEF ParentStep, Fork, ParentLeaves, ParentGoesOn, ParentCalls, ParentWakes,
       ParentCallsAll, ParentHasWaited
<1>7. closed' \in 0..2
  BY DEF TypeOK, ParentStep, Fork, ParentLeaves, ParentGoesOn, ParentCalls, ParentWakes,
     ParentPrints, ParentCallsAll, ParentHasWaited, Progress, ClosesAfterWait
<1> QED
  BY <1>2, <1>3, <1>4, <1>5, <1>6, <1>7 DEF TypeOK, AtTyped, ints, data

LEMMA SigintTyped ==
  /\ \A S \in SUBSET Procs : TypeOK /\ Sigint(S) => TypeOK'
  /\ \A p \in Procs : TypeOK /\ Progress /\ Handle(p) => TypeOK'
<1>1. ASSUME NEW S \in SUBSET Procs, TypeOK, Sigint(S) PROVE TypeOK'
  BY <1>1, RoundsAssumption DEF TypeOK, Sigint, signals, data
<1>2. ASSUME NEW p \in Procs, TypeOK, Progress, Handle(p) PROVE TypeOK'
  <2>1. AtTyped'
    <3>1. CASE UNCHANGED at
      BY <1>2, <3>1 DEF TypeOK, AtTyped
    <3>2. CASE p # Parent /\ Goto(p, "read")
      BY <1>2, <3>2, GoesTyped DEF Places
    <3>3. CASE p = Parent /\ Goto(p, "ended")
      BY <1>2, <3>3, GoesTyped DEF ParentPlaces
    <3> QED
      BY <1>2, <3>1, <3>2, <3>3 DEF Handle
  <2>2. closed' \in 0..2
    BY <1>2 DEF TypeOK, Handle, Progress
  <2>3. sigint' \subseteq Procs /\ vSIGINT' \in BOOLEAN
    BY <1>2 DEF TypeOK, Handle
  <2>4. UNCHANGED <<round, i, signals, sigints, lock, data, printed>>
    BY <1>2 DEF Handle
  <2> QED
    BY <1>2, <2>1, <2>2, <2>3, <2>4 DEF TypeOK, AtTyped, signals, data
<1> QED
  BY <1>1, <1>2

-----------------------------------------------------------------------------
(* The file and its lock.                                                  *)

LEMMA ChildLock ==
  ASSUME TypeOK, LockKept, NEW c \in Children, ChildStep(c)
  PROVE  LockKept'
<1>1. c \in Procs /\ None \notin Children /\ Children \subseteq Procs
      /\ lock \in Children \cup {None} /\ UNCHANGED <<sigint, sigints>>
  BY Processes DEF TypeOK, ChildStep, ChildLocks, ChildReads, ChildWrites, ChildUnlocks,
     ChildWakes, ChildReplies, ints
<1>2. ASSUME NEW l, Goto(c, l)
      PROVE  at'[c] = l /\ \A d \in Children : d # c => at'[d] = at[d]
  BY <1>1, <1>2, Moves
<1>3. CASE ChildLocks(c)
  <2>1. lock = None /\ lock' = c /\ garbled' = garbled /\ at'[c] = "read"
    BY <1>2, <1>3 DEF ChildLocks, LockFree, data
  <2> QED
    BY <1>1, <1>2, <1>3, <2>1 DEF LockKept, AtFilePlaces, ChildLocks
<1>4. CASE ChildReads(c)
  <2>1. sigints = 0 => ~Interfere(c)
    BY <1>4 DEF LockKept, Interfere, ChildReads, AtFilePlaces
  <2> QED
    BY <1>1, <1>2, <1>4, <2>1 DEF LockKept, AtFilePlaces, ChildReads
<1>5. CASE ChildWrites(c)
  <2>1. sigints = 0 => ~Interfere(c)
    BY <1>5 DEF LockKept, Interfere, ChildWrites, AtFilePlaces
  <2> QED
    BY <1>1, <1>2, <1>5, <2>1 DEF LockKept, AtFilePlaces, ChildWrites
<1>6. CASE ChildUnlocks(c)
  <2>1. /\ at'[c] \notin AtFilePlaces /\ at[c] \in AtFilePlaces /\ garbled' = garbled
        /\ lock' = (IF lock = c THEN None ELSE lock)
        /\ \A d \in Children : d # c => at'[d] = at[d]
    BY <1>2, <1>6 DEF ChildUnlocks, AtFilePlaces, AfterFirst, data
  <2> QED
    BY <1>1, <2>1 DEF LockKept
<1>7. CASE ChildWakes(c) \/ ChildReplies(c)
  <2>1. /\ at[c] \notin AtFilePlaces /\ at'[c] \notin AtFilePlaces
        /\ \A d \in Children : d # c => at'[d] = at[d]
        /\ UNCHANGED <<lock, garbled>>
    BY <1>2, <1>7 DEF ChildWakes, ChildReplies, Suspended, AtFilePlaces, data
  <2> QED
    BY <1>1, <2>1 DEF LockKept
<1> QED
  BY <1>3, <1>4, <1>5, <1>6, <1>7 DEF ChildStep

(* A step of the parent, or a signal, moves a child to the lock, where it  *)
(* starts, or by SIGINT past it, and no other.                             *)
LEMMA ElseMoves ==
  ASSUME TypeOK, Stages, ParentStep \/ (\E S : Sigint(S)) \/ (\E p \in Procs : Handle(p))
  PROVE  /\ UNCHANGED <<round, lock, data>>
         /\ \A c \in Children : \/ at'[c] = at[c]
                                \/ at[c] = "none" /\ at'[c] = "lock"
                                \/ at[c] = "lock" /\ at'[c] = "read" /\ sigint # {}
                                   /\ sigints' = sigints
<1>1. /\ i \in Nat /\ POLY_NUMBER \in Nat \ {0} /\ i \in 0..POLY_NUMBER
      /\ Parent \in Procs /\ \A c \in Children : c \in Procs /\ c # Parent /\ c \in Nat
  BY Processes DEF TypeOK
<1>2. CASE ParentStep
  <2>1. UNCHANGED <<round, lock, data>>
    BY <1>2 DEF ParentStep, Fork, ParentLeaves, ParentGoesOn, ParentCalls, ParentWakes,
       ParentPrints, ParentCallsAll, ParentHasWaited
  <2>2. CASE (\E l : Goto(Parent, l)) \/ UNCHANGED at
    BY <1>1, <2>1, <2>2, Moves
  <2>3. CASE Fork /\ ~LoopOver
    <3>1. i \in Children /\ at[Parent] = "fork" /\ Goto(i, "lock")
      BY <1>1, <2>3, Processes DEF Fork, LoopOver, Goto
    <3>2. at[i] = "none"
      BY <1>1, <3>1 DEF Stages, Agree, Unborn
    <3>3. at'[i] = "lock" /\ \A c \in Children : c # i => at'[c] = at[c]
      BY <1>1, <3>1, Moves
    <3> QED
      BY <2>1, <3>2, <3>3
  <2>4. CASE ParentLeaves \/ ParentGoesOn \/ ParentPrints \/ ParentHasWaited
    BY <2>2, <2>4 DEF ParentLeaves, ParentGoesOn, ParentPrints, ParentHasWaited
  <2>5. CASE Fork \/ ParentCalls \/ ParentWakes \/ ParentCallsAll
    BY <2>2, <2>3, <2>5 DEF Fork, ParentCalls, ParentWakes, ParentCallsAll
  <2> QED
    BY <1>2, <2>4, <2>5 DEF ParentStep
<1>3. CASE \E S : Sigint(S)
  BY <1>3 DEF Sigint
<1>4. CASE \E p \in Procs : Handle(p)
  <2>1. PICK p \in Procs : Handle(p)
    BY <1>4
  <2>2. UNCHANGED <<round, lock, data, sigints>> /\ sigint # {}
    BY <2>1 DEF Handle
  <2>3. CASE UNCHANGED at
    BY <2>2, <2>3
  <2>4. CASE at[p] = "lock" /\ Goto(p, "read")
    BY <1>1, <2>2, <2>4, Moves
  <2>5. CASE p = Parent /\ Goto(p, "ended")
    BY <1>1, <2>2, <2>5, Moves
  <2> QED
    BY <2>1, <2>3, <2>4, <2>5 DEF Handle
<1> QED
  BY <1>2, <1>3, <1>4

LEMMA ElseLock ==
  ASSUME TypeOK, Stages, LockKept,
         ParentStep \/ (\E S : Sigint(S)) \/ (\E p \in Procs : Handle(p))
  PROVE  LockKept'
<1>1. sigints \in Nat /\ UNCHANGED <<lock, garbled>>
  BY ElseMoves DEF TypeOK, data
<1>2. \A c \in Children : at[c] \in AtFilePlaces => at'[c] = at[c]
  BY ElseMoves DEF AtFilePlaces
<1>3. \A c \in Children : lock' = c => at'[c] \in AtFilePlaces
  BY <1>1, <1>2 DEF LockKept
<1>4. ASSUME sigints' = 0
      PROVE  /\ sigint' = {} /\ ~garbled'
             /\ \A c \in Children : at'[c] \in AtFilePlaces => lock' = c
  <2>1. sigints = 0 /\ sigint' \subseteq sigint
    BY <1>1, <1>4 DEF ParentStep, Fork, ParentLeaves, ParentGoesOn, ParentCalls, ParentWakes,
       ParentPrints, ParentCallsAll, ParentHasWaited, Sigint, Handle, ints
  <2>2. sigint = {} /\ ~garbled /\ \A c \in Children : at[c] \in AtFilePlaces => lock = c
    BY <2>1 DEF LockKept
  <2> QED
    BY <1>1, <2>1, <2>2, ElseMoves DEF AtFilePlaces
<1> QED
  BY <1>3, <1>4 DEF LockKept

(* Nobody writes what is no longer in the file, unless it is garbled.      *)
LEMMA ChildCopies ==
  ASSUME TypeOK, CopiesAgree, NEW c \in Children, ChildStep(c)
  PROVE  CopiesAgree'
<1>1. c \in Procs /\ Children \subseteq Procs
  BY Processes
<1>2. ASSUME NEW l, Goto(c, l)
      PROVE  at'[c] = l /\ \A d \in Children : d # c => at'[d] = at[d]
  BY <1>1, <1>2, Moves
<1>3. CASE ChildReads(c)
  BY <1>2, <1>3 DEF CopiesAgree, ChildReads, ReadLines, TypeOK
<1>4. CASE ChildWrites(c)
  <2>1. at'[c] = "unlock" /\ \A d \in Children : d # c => at'[d] = at[d]
    BY <1>2, <1>4 DEF ChildWrites
  <2>2. ~garbled' => \A d \in Children : d # c => at[d] # "write"
    BY <1>4 DEF ChildWrites, Interfere
  <2>3. ~garbled' => \A d \in Children : at'[d] # "write"
    BY <2>1, <2>2
  <2> QED
    BY <2>3 DEF CopiesAgree
<1>5. CASE UNCHANGED data /\ \E l : l # "write" /\ Goto(c, l)
  BY <1>2, <1>5 DEF CopiesAgree, data
<1> QED
  BY <1>3, <1>4, <1>5 DEF ChildStep, ChildLocks, ChildUnlocks, ChildWakes, ChildReplies, AfterFirst

LEMMA ElseCopies ==
  ASSUME TypeOK, Stages, CopiesAgree,
         ParentStep \/ (\E S : Sigint(S)) \/ (\E p \in Procs : Handle(p))
  PROVE  CopiesAgree'
BY ElseMoves DEF CopiesAgree, data

LEMMA LinesKept ==
  ASSUME LinesAgree, UNCHANGED <<file, garbled>>,
         \A c \in Children : Written(c)' = Written(c)
  PROVE  LinesAgree'
BY DEF LinesAgree

LEMMA ChildLines ==
  ASSUME TypeOK, Stages, CopiesAgree, LinesAgree, NEW c \in Children, ChildStep(c)
  PROVE  LinesAgree'
<1>1. c \in Procs /\ Children \subseteq Procs /\ round[c] \in {1, 2}
  BY Processes DEF TypeOK
<1>2. ASSUME NEW l, Goto(c, l)
      PROVE  at'[c] = l /\ \A d \in Children : d # c => at'[d] = at[d]
  BY <1>1, <1>2, Moves
<1>3. \A d \in Children : d # c => Written(d)' = Written(d)
  BY <1>1, <1>2 DEF ChildStep, ChildLocks, ChildReads, ChildWrites, ChildUnlocks, ChildWakes,
     ChildReplies, Written, TypeOK
<1>4. CASE ChildLocks(c) \/ ChildUnlocks(c) \/ ChildReplies(c)
  <2>1. Written(c)' = Written(c)
    BY <1>2, <1>4 DEF ChildLocks, ChildUnlocks, ChildReplies, Written, AfterFirst
  <2> QED
    BY <1>3, <1>4, <2>1, LinesKept DEF ChildLocks, ChildUnlocks, ChildReplies, data
<1>5. CASE ChildReads(c)
  <2>1. Written(c)' = Written(c)
    BY <1>2, <1>5 DEF ChildReads, Written
  <2> QED
    BY <1>3, <1>5, <2>1 DEF LinesAgree, ChildReads
<1>6. CASE ChildWakes(c)
  <2>1. at[c] = "suspendAgain" => round[c] = 1
    BY StageOf DEF Replied, CalledAgain
  <2>2. Written(c)' = Written(c)
    BY <1>1, <1>2, <1>6, <2>1 DEF ChildWakes, Written, TypeOK
  <2> QED
    BY <1>3, <1>6, <2>2, LinesKept DEF ChildWakes, data
<1>7. CASE ChildWrites(c)
  <2>1. SUFFICES ASSUME ~garbled', NEW d \in Children
                 PROVE  file'[d] = SubSeq(Both, 1, Written(d)')
    BY DEF LinesAgree
  <2>2. ~garbled /\ copy[c] = file /\ file \in Lines
    BY <1>7, <2>1 DEF ChildWrites, CopiesAgree, TypeOK
  <2>3. file' = [file EXCEPT ![c] = Append(file[c], round[c])]
    BY <1>7, <2>2 DEF ChildWrites
  <2>4. CASE d = c
    <3>1. file[c] = SubSeq(Both, 1, round[c] - 1)
      BY <1>7, <2>2 DEF LinesAgree, Written, ChildWrites
    <3>2. Written(c)' = round[c]
      BY <1>2, <1>7 DEF ChildWrites, Written
    <3> QED
      BY <1>1, <2>2, <2>3, <2>4, <3>1, <3>2, BothPrefix DEF Lines
  <2>5. CASE d # c
    BY <1>3, <2>2, <2>3, <2>5 DEF LinesAgree, Lines
  <2> QED
    BY <2>4, <2>5
<1> QED
  BY <1>4, <1>5, <1>6, <1>7 DEF ChildStep

LEMMA ElseLines ==
  ASSUME TypeOK, Stages, LinesAgree,
         ParentStep \/ (\E S : Sigint(S)) \/ (\E p \in Procs : Handle(p))
  PROVE  LinesAgree'
<1>1. \A c \in Children : Written(c)' = Written(c)
  BY ElseMoves DEF Written
<1> QED
  BY <1>1, ElseMoves, LinesKept DEF data

-----------------------------------------------------------------------------
(* What the parent prints and closes.                                      *)

Printed == Progress /\ ErrorOfWholeRound /\ ClosedOnce

LEMMA SamePrinted ==
  ASSUME TypeOK, Printed, UNCHANGED <<printed, closed, at[Parent]>>,
         garbled => garbled', vSIGINT => vSIGINT'
  PROVE  Printed'
BY DEF Printed, Progress, ErrorOfWholeRound, ClosedOnce

LEMMA ChildPrinted ==
  ASSUME TypeOK, Printed, NEW c \in Children, ChildStep(c)
  PROVE  Printed'
<1>1. at'[Parent] = at[Parent]
  BY Moves, Processes DEF ChildStep, ChildLocks, ChildReads, ChildWrites, ChildUnlocks,
     ChildWakes, ChildReplies
<1>2. UNCHANGED <<printed, closed, vSIGINT>>
  BY DEF ChildStep, ChildLocks, ChildReads, ChildWrites, ChildUnlocks, ChildWakes,
     ChildReplies, ints
<1>3. garbled => garbled'
  <2>1. CASE ChildReads(c) \/ ChildWrites(c)
    BY <2>1 DEF ChildReads, ChildWrites
  <2>2. CASE UNCHANGED data
    BY <2>2 DEF data
  <2> QED
    BY <2>1, <2>2 DEF ChildStep, ChildLocks, ChildUnlocks, ChildWakes, ChildReplies
<1> QED
  BY <1>1, <1>2, <1>3, SamePrinted

LEMMA ParentPrinted ==
  ASSUME TypeOK, Stages, LinesAgree, Printed, ParentStep
  PROVE  Printed'
<1>1. Parent \in Procs /\ at[Parent] # "ended" /\ closed = 0
  BY Processes DEF Printed, Progress, ParentStep, Fork, ParentLeaves, ParentGoesOn,
     ParentCalls, ParentWakes, ParentPrints, ParentCallsAll, ParentHasWaited
<1>2. UNCHANGED <<garbled, vSIGINT>>
  BY DEF ParentStep, Fork, ParentLeaves, ParentGoesOn, ParentCalls, ParentWakes, ParentPrints,
     ParentCallsAll, ParentHasWaited, ints, data
<1>3. \A l : Goto(Parent, l) => at'[Parent] = l
  BY <1>1, Moves
<1>4. CASE ParentPrints
  <2>1. /\ printed \in Seq(Lines) /\ file \in Lines /\ printed' = Append(printed, file)
        /\ IF at[Parent] = "print" THEN printed = <<>> ELSE Len(printed) = 1
        /\ Len(printed) \in Nat
    BY <1>4, EmptySeq DEF ParentPrints, Printed, Progress, TypeOK
  <2> DEFINE n == Len(printed) + 1
  <2>2. /\ n = (IF at[Parent] = "print" THEN 1 ELSE 2)
        /\ Len(printed') = n /\ printed'[n] = file
        /\ \A r \in 1..Len(printed) : printed'[r] = printed[r]
    BY <2>1, AppendProperties, EmptySeq
  <2>3. \A c \in Children : Written(c) = n
    BY <1>4, <2>2 DEF ParentPrints, Stages, Agree, Replied, AtSecond, Written
  <2>4. ErrorOfWholeRound'
    <3>1. SUFFICES ASSUME ~garbled, NEW r \in 1..n, NEW c \in Children
                   PROVE  printed'[r][c] = SubSeq(Both, 1, r)
      BY <1>2, <2>2 DEF ErrorOfWholeRound
    <3>2. CASE r = n
      BY <2>2, <2>3, <3>1, <3>2 DEF LinesAgree
    <3>3. CASE r # n
      <4>1. r \in 1..Len(printed)
        BY <2>1, <3>1, <3>3
      <4> QED
        BY <2>2, <3>1, <4>1 DEF Printed, ErrorOfWholeRound
    <3> QED
      BY <3>2, <3>3
  <2>5. at'[Parent] = (IF at[Parent] = "print" THEN "leaveAgain" ELSE "ended") /\ closed' \in {0, 1}
        /\ (at[Parent] = "print" => closed' = 0)
    BY <1>1, <1>3, <1>4 DEF ParentPrints
  <2> HIDE DEF n
  <2> QED
    BY <2>2, <2>4, <2>5 DEF Printed, Progress, ClosedOnce
<1>5. CASE ParentLeaves \/ ParentGoesOn
  BY <1>1, <1>2, <1>3, <1>5 DEF ParentLeaves, ParentGoesOn, Printed, Progress,
     ErrorOfWholeRound, ClosedOnce
<1>6. CASE ParentHasWaited
  BY <1>1, <1>2, <1>3, <1>6 DEF ParentHasWaited, ClosesAfterWait, Printed, Progress,
     ErrorOfWholeRound, ClosedOnce
<1>7. CASE Fork
  <2>1. at'[Parent] \in {"fork", "leave"} /\ at[Parent] = "fork" /\ UNCHANGED <<printed, closed>>
    <3>1. CASE LoopOver
      BY <1>3, <1>7, <3>1 DEF Fork
    <3>2. CASE ~LoopOver
      <4>1. i # Parent
        BY <3>2 DEF LoopOver, Parent
      <4> QED
        BY <1>1, <1>7, <3>2, <4>1 DEF Fork, TypeOK
    <3> QED
      BY <3>1, <3>2
  <2> QED
    BY <1>2, <2>1 DEF Printed, Progress, ErrorOfWholeRound, ClosedOnce
<1>8. CASE ParentCalls \/ ParentWakes
  <2>1. /\ at'[Parent] \in {"call", "suspend", "print"} /\ at[Parent] \in {"call", "suspend"}
        /\ UNCHANGED <<printed, closed>>
    BY <1>3, <1>8 DEF ParentCalls, ParentWakes
  <2> QED
    BY <1>2, <2>1 DEF Printed, Progress, ErrorOfWholeRound, ClosedOnce
<1>9. CASE ParentCallsAll
  <2>1. /\ at'[Parent] \in {"callAll", "wait"} /\ at[Parent] = "callAll"
        /\ UNCHANGED <<printed, closed>>
    BY <1>3, <1>9 DEF ParentCallsAll
  <2> QED
    BY <1>2, <2>1 DEF Printed, Progress, ErrorOfWholeRound, ClosedOnce
<1> QED
  BY <1>4, <1>5, <1>6, <1>7, <1>8, <1>9 DEF ParentStep

LEMMA SigintPrinted ==
  /\ \A S : TypeOK /\ Printed /\ Sigint(S) => Printed'
  /\ \A p \in Procs : TypeOK /\ Printed /\ Handle(p) => Printed'
<1>1. ASSUME NEW S, TypeOK, Printed, Sigint(S) PROVE Printed'
  BY <1>1, SamePrinted DEF Sigint, data
<1>2. ASSUME NEW p \in Procs, TypeOK, Printed, Handle(p) PROVE Printed'
  <2>1. printed' = printed /\ garbled' = garbled /\ (vSIGINT => vSIGINT') /\ Parent \in Procs
    BY <1>2, Processes DEF Handle, data
  <2>2. CASE p = Parent /\ at[p] = "wait" /\ Goto(p, "ended")
    <3>1. at'[Parent] = "ended" /\ vSIGINT' /\ Len(printed') = 1
      BY <1>2, <2>1, <2>2, Moves DEF Handle, Printed, Progress
    <3> QED
      BY <1>2, <2>1, <3>1 DEF Printed, Progress, ErrorOfWholeRound, ClosedOnce
  <2>3. CASE UNCHANGED <<at, closed>>
    BY <1>2, <2>1, <2>3, SamePrinted
  <2>4. CASE p # Parent /\ Goto(p, "read") /\ UNCHANGED closed
    <3>1. at'[Parent] = at[Parent]
      BY <1>2, <2>1, <2>4, Moves
    <3> QED
      BY <1>2, <2>1, <2>4, <3>1, SamePrinted
  <2> QED
    BY <1>2, <2>2, <2>3, <2>4 DEF Handle
<1> QED
  BY <1>1, <1>2

-----------------------------------------------------------------------------
(* The theorems.                                                           *)

LEMMA RoundsStart == Init => IInv
<1> SUFFICES ASSUME Init PROVE IInv
  OBVIOUS
<1>1. /\ Children \subseteq Procs /\ Parent \in Procs /\ Parent \notin Children
      /\ None \notin Children /\ POLY_NUMBER \in Nat \ {0} /\ SigintBound \in Nat
      /\ \A c \in Children : c \in Nat
  BY Processes, RoundsAssumption
<1>2. at[Parent] = "fork" /\ DOMAIN at = Procs /\ \A c \in Children : at[c] = "none"
  BY <1>1 DEF Init
<1>3. /\ round = [c \in Children |-> 1] /\ usr1 = [c \in Children |-> FALSE] /\ ~usr2
      /\ i = 0 /\ lock = None /\ printed = <<>> /\ closed = 0 /\ ~garbled
      /\ sigints = 0 /\ sigint = {} /\ vSIGINT = FALSE /\ usr2 = FALSE /\ garbled = FALSE
  BY DEF Init
<1>4. /\ file \in Lines /\ \A c \in Children : file[c] = <<>>
      /\ copy \in [Children -> Lines]
  BY EmptySeq DEF Init, Lines
<1>5. printed \in Seq(Lines) /\ Len(printed) = 0
  BY <1>3, EmptySeq
<1>6. TypeOK
  <2>1. round \in [Children -> {1, 2}] /\ usr1 \in [Children -> BOOLEAN]
    BY <1>3
  <2>2. /\ i \in 0..POLY_NUMBER /\ sigints \in 0..SigintBound /\ closed \in 0..2
        /\ Len(printed) <= 2 /\ lock \in Children \cup {None} /\ sigint \subseteq Procs
    BY <1>1, <1>3, <1>5
  <2>3. at[Parent] \in ParentPlaces /\ \A c \in Children : at[c] \in Places
    BY <1>2 DEF Places, ParentPlaces
  <2> QED
    BY <1>2, <1>3, <1>4, <1>5, <2>1, <2>2, <2>3 DEF TypeOK
<1>7. Stages
  BY <1>1, <1>2, <1>3 DEF Stages, Loop, Agree, Unborn
<1>8. LockKept /\ CopiesAgree
  BY <1>1, <1>2, <1>3 DEF LockKept, CopiesAgree, AtFilePlaces
<1>9. LinesAgree
  <2>1. \A c \in Children : Written(c) = 0
    BY <1>2, <1>3 DEF Written
  <2> QED
    BY <1>4, <2>1, BothPrefix DEF LinesAgree
<1>10. Progress /\ ErrorOfWholeRound /\ ClosedOnce
  BY <1>2, <1>3, <1>5 DEF Progress, ErrorOfWholeRound, ClosedOnce
<1> QED
  BY <1>6, <1>7, <1>8, <1>9, <1>10 DEF IInv

LEMMA RoundsStep == IInv /\ [Next]_vars => IInv'
<1> SUFFICES ASSUME IInv, [Next]_vars PROVE IInv'
  OBVIOUS
<1>1. TypeOK /\ Stages /\ LockKept /\ CopiesAgree /\ LinesAgree /\ Printed /\ Progress /\ Loop
  BY DEF IInv, Printed, Stages
<1>2. ASSUME NEW c \in Children, ChildStep(c) PROVE IInv'
  <2>1. TypeOK' /\ Stages' /\ LockKept'
    BY <1>1, <1>2, ChildTyped, ChildStages, ChildLock
  <2>2. CopiesAgree' /\ LinesAgree' /\ Printed'
    BY <1>1, <1>2, ChildCopies, ChildLines, ChildPrinted
  <2> QED
    BY <2>1, <2>2 DEF IInv, Printed
<1>3. CASE ParentStep
  <2>1. TypeOK' /\ Stages' /\ Printed'
    BY <1>1, <1>3, ParentTyped, ParentStages, ParentPrinted
  <2>2. LockKept' /\ CopiesAgree' /\ LinesAgree'
    BY <1>1, <1>3, ElseLock, ElseCopies, ElseLines
  <2> QED
    BY <2>1, <2>2 DEF IInv, Printed
<1>4. ASSUME NEW S \in SUBSET Procs, Sigint(S) PROVE IInv'
  <2>1. TypeOK' /\ Stages' /\ Printed'
    BY <1>1, <1>4, SigintTyped, SigintStages, SigintPrinted
  <2>2. LockKept' /\ CopiesAgree' /\ LinesAgree'
    BY <1>1, <1>4, ElseLock, ElseCopies, ElseLines
  <2> QED
    BY <2>1, <2>2 DEF IInv, Printed
<1>5. ASSUME NEW p \in Procs, Handle(p) PROVE IInv'
  <2>1. TypeOK' /\ Stages' /\ Printed'
    BY <1>1, <1>5, SigintTyped, SigintStages, SigintPrinted
  <2>2. LockKept' /\ CopiesAgree' /\ LinesAgree'
    BY <1>1, <1>5, ElseLock, ElseCopies, ElseLines
  <2> QED
    BY <2>1, <2>2 DEF IInv, Printed
<1>6. CASE UNCHANGED vars
  BY <1>6 DEF vars, signals, ints, data, IInv, TypeOK, Stages, Loop, Agree, Unborn, AtFirst,
     Called, Replying, Replied, CalledAgain, AtSecond, LockKept, CopiesAgree, LinesAgree,
     Written, Progress, ErrorOfWholeRound, ClosedOnce
<1> QED
  BY <1>2, <1>3, <1>4, <1>5, <1>6 DEF Next

LEMMA RoundsKeep == Spec => []IInv
BY RoundsStart, RoundsStep, PTL DEF Spec

(* The lines, the lock, who is there to be signalled and the open file, in *)
(* both rounds, for any number of children and of SIGINTs.                 *)
THEOREM RoundsCorrect == Spec => []RoundsInv
<1>1. IInv => RoundsInv
  <2> SUFFICES ASSUME IInv PROVE RoundsInv
    OBVIOUS
  <2>1. TypeOK /\ Stages /\ LockKept
    BY DEF IInv
  <2>2. AloneAtFile
    <3>1. garbled => sigints > 0
      BY <2>1 DEF LockKept, TypeOK
    <3>2. ASSUME at[Parent] \in {"print", "printAgain"}
          PROVE  LockFree /\ \A c \in Children : at[c] \in {"suspendAgain", "ended"}
      <4>1. \A c \in Children : at[c] \in {"suspendAgain", "ended"}
        BY <2>1, <3>2 DEF Stages, Agree, Replied
      <4> QED
        BY <2>1, <4>1 DEF LockKept, AtFilePlaces, LockFree, TypeOK
    <3> QED
      BY <3>1, <3>2 DEF AloneAtFile
  <2>3. ReplyToParent
    BY <2>1, StageOf DEF ReplyToParent
  <2> QED
    BY <2>1, <2>2, <2>3 DEF IInv, RoundsInv
<1> QED
  BY <1>1, RoundsKeep, PTL

(* The parent prints the error of a whole round, and of the round it is in. *)
THEOREM WholeRounds == Spec => []ErrorOfWholeRound
<1>1. IInv => ErrorOfWholeRound
  BY DEF IInv
<1> QED
  BY <1>1, RoundsKeep, PTL

(* No signal is sent to a process that has yet to take the one before: the *)
(* turns that pass by signals are not lost.                                *)
THEOREM NoneMerged == Spec => NoSignalMerged
<1> DEFINE NothingPending ==
      /\ \A c \in Children : usr1[c] => ~(at[Parent] \in {"call", "callAll"} /\ i = c
                                          /\ ParentStep)
      /\ usr2 => \A c \in Children : ~ChildReplies(c)
<1>1. IInv => NothingPending
  <2> SUFFICES ASSUME IInv PROVE NothingPending
    OBVIOUS
  <2>1. TypeOK /\ Stages
    BY DEF IInv
  <2>2. ASSUME NEW c \in Children, usr1[c], at[Parent] \in {"call", "callAll"}, i = c
        PROVE  FALSE
    BY <2>1, <2>2, Processes DEF Stages, Agree, AtFirst, Replied
  <2>3. ASSUME NEW c \in Children, usr2, ChildReplies(c) PROVE FALSE
    BY <2>1, <2>3, StageOf DEF ChildReplies
  <2> QED
    BY <2>2, <2>3
<1> QED
  BY <1>1, RoundsKeep, PTL DEF NoSignalMerged

=============================================================================
