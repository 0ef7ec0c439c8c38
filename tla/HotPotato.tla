------------------------------ MODULE HotPotato ------------------------------
(***************************************************************************)
(* The hot-potato program of HWs/HW3/main.c.  Processes started from a     *)
(* shell enter themselves in a table in shared memory, wait until it is    *)
(* full (init_shared_mem), open every process's FIFO (openFifos), throw    *)
(* and catch potatoes (startWithPotato, noPotatoStart) and clean up behind *)
(* a second barrier (releaseMem).                                          *)
(*                                                                         *)
(* They meet at named semaphores, which are created by whoever opens them  *)
(* first and removed by whoever is through first: a name that is opened    *)
(* after its removal is another semaphore.                                 *)
(*                                                                         *)
(* The program writes descriptors to shared memory and throws at a         *)
(* descriptor by number; every process has 0 to 2 from its shell, 3 for    *)
(* the table and 4 onwards for the FIFOs in the table's order.             *)
(***************************************************************************)
EXTENDS Integers, FiniteSets, Sequences, Functions

CONSTANTS Procs,      \* the processes that are started
          haspotato,  \* haspotato[p]: the option -b of p
          LeftOver    \* whether a FIFO may be left from an earlier run

NoPid == 0            \* behind the table there are the zeros of its last page

ASSUME PotatoAssumption ==
  /\ IsFiniteSet(Procs) /\ Cardinality(Procs) > 1 /\ NoPid \notin Procs
  /\ haspotato \in [Procs -> Nat] /\ LeftOver \in BOOLEAN

procNum == Cardinality(Procs)      \* get_fifos_number: a line for each process
Slots == 0..procNum - 1

Names == {"named", "memFilled", "noPotato", "mySemWithPotato", "memReleaseC", "freeMemC"}
InitialValue(n) == IF n \in {"memFilled", "freeMemC"} THEN 0 ELSE 1

VARIABLES
  pc,
  value,     \* value[n]: the values of the semaphores that have had name n
  linked,    \* the names that exist; each stands for the last of value[n]
  handle,    \* handle[p][n]: which of value[n] process p has opened, 0 for none
  id,        \* the pids in the table, one for each record
  coolDown,  \* the potato's count in each record
  fifos,     \* the FIFOs that exist in the file system
  counter,   \* counter[p]: the record p fills
  index,     \* index[p]: where p found its pid last
  pos,       \* pos[p]: the FIFO p opens next, or is blocked in opening
  readEnds,  \* readEnds[p]: the FIFOs p has opened, or is opening, for reading
  pipe,      \* pipe[i]: the pids in FIFO i
  rec,       \* rec[p]: the pid p has read
  pIndex,    \* pIndex[p]: the record in which p has found that pid
  seen,      \* seen[p]: the coolDown p has read and is about to decrement
  counter3,  \* the size of the shared memory /counter3
  failed,    \* processes that could not make their FIFO
  caught,    \* potatoes that have been read and counted
  overwritten \* a potato was written over the table

semVars == <<value, linked, handle>>
openVars == <<index, pos, readEnds>>
tableVars == <<id, coolDown, fifos>>
gameVars == <<pipe, rec, pIndex, seen, caught, overwritten>>
vars == <<pc, value, linked, handle, id, coolDown, fifos, counter, index, pos,
          readEnds, pipe, rec, pIndex, seen, counter3, failed, caught, overwritten>>

Init ==
  /\ pc = [p \in Procs |-> "openNamed"]
  /\ value = [n \in Names |-> <<>>] /\ linked = {}
  /\ handle = [p \in Procs |-> [n \in Names |-> 0]]
  /\ id = <<>> /\ coolDown = <<>>
  /\ fifos \in (IF LeftOver THEN {{i} : i \in Slots} ELSE {}) \cup {{}}
  /\ counter = [p \in Procs |-> 0] /\ index = [p \in Procs |-> 0]
  /\ pos = [p \in Procs |-> 0] /\ readEnds = [p \in Procs |-> {}]
  /\ pipe = [i \in Slots |-> <<>>]
  /\ rec = [p \in Procs |-> p] /\ pIndex = [p \in Procs |-> 0] /\ seen = [p \in Procs |-> 0]
  /\ counter3 = 0 /\ failed = {} /\ caught = 0 /\ overwritten = FALSE

Goes(p, at) == pc' = [pc EXCEPT ![p] = at]
Alive(p) == pc[p] \notin {"dead", "done"}

-----------------------------------------------------------------------------
(* Named semaphores.                                                       *)

(* sem_open with O_CREAT: the value counts only if the name is new.        *)
OpenSem(p, n, at, next) ==
  /\ pc[p] = at /\ Goes(p, next)
  /\ linked' = linked \cup {n}
  /\ value' = IF n \in linked THEN value
              ELSE [value EXCEPT ![n] = Append(@, InitialValue(n))]
  /\ handle' = [handle EXCEPT ![p][n] = Len(value'[n])]
  /\ UNCHANGED <<tableVars, gameVars, counter, openVars, counter3, failed>>

Posted(p, n) == value' = [value EXCEPT ![n][handle[p][n]] = @ + 1]
Taken(p, n) == /\ value[n][handle[p][n]] > 0
               /\ value' = [value EXCEPT ![n][handle[p][n]] = @ - 1]

WaitSem(p, n, at, next) ==
  /\ pc[p] = at /\ Goes(p, next) /\ Taken(p, n)
  /\ UNCHANGED <<linked, handle, tableVars, gameVars, counter, openVars, counter3, failed>>

PostSem(p, n, at, next) ==
  /\ pc[p] = at /\ Goes(p, next) /\ Posted(p, n)
  /\ UNCHANGED <<linked, handle, tableVars, gameVars, counter, openVars, counter3, failed>>

NamesLeft(ns) == linked \ ns
UnlinkSems(p, ns, at, next) ==
  /\ pc[p] = at /\ Goes(p, next) /\ linked' = NamesLeft(ns)
  /\ UNCHANGED <<value, handle, tableVars, gameVars, counter, openVars, counter3, failed>>

-----------------------------------------------------------------------------
(* init_shared_mem: the table grows by a record, which p fills.            *)

(* fstat and ftruncate, with the semaphore held.                           *)
Grow(p) ==
  /\ pc[p] = "grow" /\ Goes(p, "fill")
  /\ counter' = [counter EXCEPT ![p] = Len(id)]
  /\ UNCHANGED <<semVars, tableVars, gameVars, openVars, counter3, failed>>

Record(f, i, x) == [k \in 1..(IF i < Len(f) THEN Len(f) ELSE i + 1) |->
                      IF k = i + 1 THEN x ELSE f[k]]
Fill(p) ==
  /\ pc[p] = "fill"
  /\ id' = Record(id, counter[p], p) /\ coolDown' = Record(coolDown, counter[p], haspotato[p])
  /\ IF counter[p] \in fifos                     \* mkfifo: it is there already
       THEN Goes(p, "giveUp") /\ UNCHANGED fifos
       ELSE Goes(p, "tellFull") /\ fifos' = fifos \cup {counter[p]}
  /\ UNCHANGED <<semVars, gameVars, counter, openVars, counter3, failed>>

(* mkfifo has failed: both names are removed and p ends.                   *)
GiveUp(p) ==
  /\ pc[p] = "giveUp" /\ Goes(p, "dead")
  /\ Posted(p, "named") /\ linked' = NamesLeft({"named", "memFilled"})
  /\ failed' = failed \cup {p}
  /\ UNCHANGED <<handle, tableVars, gameVars, counter, openVars, counter3>>

LastToFill(p) == counter[p] = procNum - 1
TellFull(p) ==
  /\ pc[p] = "tellFull" /\ Goes(p, "unlock")
  /\ IF LastToFill(p) THEN Posted(p, "memFilled") ELSE UNCHANGED value
  /\ UNCHANGED <<linked, handle, tableVars, gameVars, counter, openVars, counter3, failed>>

InitSharedMem(p) ==
  \/ OpenSem(p, "named", "openNamed", "openFilled")
  \/ OpenSem(p, "memFilled", "openFilled", "lock")
  \/ WaitSem(p, "named", "lock", "grow")
  \/ Grow(p) \/ Fill(p) \/ GiveUp(p) \/ TellFull(p)
  \/ PostSem(p, "named", "unlock", "waitFilled")
  \/ WaitSem(p, "memFilled", "waitFilled", "passFilled")
  \/ PostSem(p, "memFilled", "passFilled", "unlinkNamed")
  \/ UnlinkSems(p, {"named"}, "unlinkNamed", "unlinkFilled")
  \/ UnlinkSems(p, {"memFilled"}, "unlinkFilled", "findSelf")

-----------------------------------------------------------------------------
(* openFifos.                                                              *)

(* The first record with this pid; procNum if there is none.  What stands  *)
(* at an index is read when it is used.                                    *)
IndexOf(q) == IF \E i \in Slots : id[i + 1] = q
              THEN CHOOSE i \in Slots : id[i + 1] = q /\ \A j \in 0..i - 1 : id[j + 1] # q
              ELSE procNum
PidAt(i) == IF i + 1 \in DOMAIN id THEN id[i + 1] ELSE NoPid

(* getProcessIndex.                                                        *)
FindSelf(p, at, next) ==
  /\ pc[p] = at /\ Goes(p, next)
  /\ index' = [index EXCEPT ![p] = IndexOf(p)]
  /\ UNCHANGED <<semVars, tableVars, gameVars, counter, pos, readEnds, counter3, failed>>

(* The owner of an even FIFO opens it to read and the others to write; an  *)
(* odd FIFO the other way round.                                           *)
Own(p, i) == id[i + 1] = PidAt(index[p])
BadReads(p, i) == i % 2 = 0           \* everybody the same way
Reads(p, i) == (i % 2 = 0) = Own(p, i)

(* open blocks until there is somebody at the other end, who has it open   *)
(* or is blocked in opening it, and who then goes on too.                  *)
Blocked(i, read) == {q \in Procs : pc[q] = "blocked" /\ pos[q] = i /\ (i \in readEnds[q]) = read}
Holders(i, read) == {q \in Procs : Alive(q) /\ pos[q] > i /\ (i \in readEnds[q]) = read}
Open(p) ==
  LET i == pos[p]
      met == Blocked(i, ~Reads(p, i))
      on == IF met \cup Holders(i, ~Reads(p, i)) = {} THEN {} ELSE {p} \cup met
  IN
  /\ pc[p] = "open"
  /\ readEnds' = [readEnds EXCEPT ![p] = IF Reads(p, i) THEN @ \cup {i} ELSE @ \ {i}]
  /\ pos' = [q \in Procs |-> IF q \in on THEN pos[q] + 1 ELSE pos[q]]
  /\ pc' = [q \in Procs |-> IF q \in on THEN IF i + 1 < procNum THEN "open" ELSE "start"
                            ELSE IF q = p THEN "blocked" ELSE pc[q]]
  /\ UNCHANGED <<semVars, tableVars, gameVars, counter, index, counter3, failed>>

-----------------------------------------------------------------------------
(* The game.  A process is with the potatoes if it has one itself; it      *)
(* looks itself up for that (L79), and once more at once (L100, L127).     *)

WithPotato(p) == IndexOf(p) < procNum /\ coolDown[IndexOf(p) + 1] > 0

StartGame(p) ==
  /\ pc[p] = "start"
  /\ Goes(p, IF WithPotato(p) THEN "findWith" ELSE "findNo")
  /\ UNCHANGED <<semVars, tableVars, gameVars, counter, openVars, counter3, failed>>

(* A throw goes to a descriptor from 0 to 9 other than the own index:      *)
(* the terminal, the table, the FIFO of a record, or none.                 *)
Fifo(f) == f - 4
WriteEnd(p, f) == Fifo(f) \in Slots /\ Fifo(f) \notin readEnds[p]
Readers(i) == {q \in Procs : Alive(q) /\ pos[q] > i /\ i \in readEnds[q]}
Writers(i) == {q \in Procs : Alive(q) /\ pos[q] > i /\ i \notin readEnds[q]}

BadThrows == 2                         \* thrown once more
Throws == 1
Pids(p) == [k \in 1..Throws |-> PidAt(index[p])]

Throw(p) ==
  /\ pc[p] = "throw"
  /\ \E f \in 0..9 \ {index[p]} :
       \/ f < 3 /\ Goes(p, "check") /\ UNCHANGED <<id, pipe, overwritten>>
       \/ /\ f = 3 /\ Goes(p, "check")
          /\ id' = [id EXCEPT ![1] = PidAt(index[p])] /\ overwritten' = TRUE /\ UNCHANGED pipe
       \/ /\ WriteEnd(p, f) /\ Readers(Fifo(f)) # {} /\ Goes(p, "check")
          /\ pipe' = [pipe EXCEPT ![Fifo(f)] = @ \o Pids(p)] /\ UNCHANGED <<id, overwritten>>
       \/ /\ f > 3 /\ (WriteEnd(p, f) => Readers(Fifo(f)) = {})     \* EBADF, or SIGPIPE
          /\ Goes(p, "dead") /\ UNCHANGED <<id, pipe, overwritten>>
  /\ UNCHANGED <<semVars, coolDown, fifos, counter, openVars, rec, pIndex, seen, caught,
                 counter3, failed>>

PotatoFinish == \A i \in Slots : coolDown[i + 1] = 0
Sem(p) == IF handle[p]["mySemWithPotato"] > 0 THEN "mySemWithPotato" ELSE "noPotato"

Check(p) ==
  /\ pc[p] = "check" /\ Goes(p, IF PotatoFinish THEN "openRelease" ELSE "wait")
  /\ UNCHANGED <<semVars, tableVars, gameVars, counter, openVars, counter3, failed>>

(* read of the own FIFO, with the semaphore held.  The owner of an odd one *)
(* has it open for writing: x_error.  At the end of the FIFO nothing has   *)
(* been caught.  A process that is not in the table reads its terminal,    *)
(* and stays there.                                                        *)
Catch(p) ==
  LET i == index[p] IN
  /\ pc[p] = "read" /\ i < procNum
  /\ \/ i \notin readEnds[p] /\ Goes(p, "dead") /\ UNCHANGED <<pipe, rec>>
     \/ /\ i \in readEnds[p] /\ pipe[i] # <<>> /\ Goes(p, "look")
        /\ rec' = [rec EXCEPT ![p] = Head(pipe[i])] /\ pipe' = [pipe EXCEPT ![i] = Tail(@)]
     \/ /\ i \in readEnds[p] /\ pipe[i] = <<>> /\ Writers(i) = {}
        /\ Goes(p, "post") /\ UNCHANGED <<pipe, rec>>
  /\ UNCHANGED <<semVars, tableVars, counter, openVars, pIndex, seen, caught, overwritten,
                 counter3, failed>>

(* coolDown -= 1, of whatever record has the pid when it is looked up: a   *)
(* read and a write.  A pid that is in no record is counted behind the     *)
(* table.                                                                  *)
Look(p) ==
  LET i == IndexOf(rec[p]) IN
  /\ pc[p] = "look" /\ Goes(p, "count")
  /\ pIndex' = [pIndex EXCEPT ![p] = i]
  /\ seen' = [seen EXCEPT ![p] = IF i < procNum THEN coolDown[i + 1] ELSE 0]
  /\ UNCHANGED <<semVars, tableVars, counter, openVars, pipe, rec, caught, overwritten,
                 counter3, failed>>

Count(p) ==
  /\ pc[p] = "count" /\ Goes(p, "post")
  /\ coolDown' = IF pIndex[p] < procNum THEN [coolDown EXCEPT ![pIndex[p] + 1] = seen[p] - 1]
                 ELSE coolDown
  /\ caught' = caught + 1
  /\ pIndex' = [pIndex EXCEPT ![p] = 0] /\ seen' = [seen EXCEPT ![p] = 0]
  /\ UNCHANGED <<semVars, id, fifos, counter, openVars, pipe, rec, overwritten, counter3, failed>>

Play(p) ==
  \/ StartGame(p)
  \/ FindSelf(p, "findWith", "openWith") \/ FindSelf(p, "findNo", "openNo")
  \/ OpenSem(p, "mySemWithPotato", "openWith", "throw")
  \/ OpenSem(p, "noPotato", "openNo", "check")
  \/ Throw(p) \/ Check(p)
  \/ WaitSem(p, Sem(p), "wait", "read")
  \/ Catch(p) \/ Look(p) \/ Count(p)
  \/ PostSem(p, Sem(p), "post", "check")

-----------------------------------------------------------------------------
(* releaseMem.                                                             *)

BadLastToLeave(p) == counter3 = procNum - 2         \* the last but one
BadAnyToLeave(p) == TRUE                            \* posted without a count
LastToLeave(p) == counter3 = procNum - 1
CountOut(p) ==
  /\ pc[p] = "countOut" /\ Goes(p, "unlockRelease")
  /\ counter3' = counter3 + 1
  /\ IF LastToLeave(p) THEN Posted(p, "freeMemC") ELSE UNCHANGED value
  /\ UNCHANGED <<linked, handle, tableVars, gameVars, counter, openVars, failed>>

(* The own FIFO is removed, by its name in the table.  A process that is   *)
(* not in the table, or finds its FIFO removed, ends by x_error.           *)
Unlink(p) ==
  LET i == IndexOf(p) IN
  /\ pc[p] = "unlink"
  /\ IF i \in fifos THEN fifos' = fifos \ {i} /\ Goes(p, "done")
                    ELSE UNCHANGED fifos /\ Goes(p, "dead")
  /\ UNCHANGED <<semVars, id, coolDown, gameVars, counter, openVars, counter3, failed>>

ReleaseMem(p) ==
  \/ OpenSem(p, "memReleaseC", "openRelease", "openFree")
  \/ OpenSem(p, "freeMemC", "openFree", "lockRelease")
  \/ WaitSem(p, "memReleaseC", "lockRelease", "countOut")
  \/ CountOut(p)
  \/ PostSem(p, "memReleaseC", "unlockRelease", "waitFree")
  \/ WaitSem(p, "freeMemC", "waitFree", "passFree")
  \/ PostSem(p, "freeMemC", "passFree", "unlinkRelease")
  \/ UnlinkSems(p, {"memReleaseC"}, "unlinkRelease", "unlinkFree")
  \/ UnlinkSems(p, {"freeMemC"}, "unlinkFree", "unlink")
  \/ Unlink(p)

-----------------------------------------------------------------------------
Step(p) == InitSharedMem(p) \/ FindSelf(p, "findSelf", "open") \/ Open(p) \/ Play(p) \/ ReleaseMem(p)
Next == \E p \in Procs : Step(p)
Spec == Init /\ [][Next]_vars /\ \A p \in Procs : WF_vars(Step(p))

-----------------------------------------------------------------------------
Filling == {"openNamed", "openFilled", "lock", "grow", "fill", "giveUp", "tellFull",
            "unlock", "waitFilled"}
Opening == {"findSelf", "open", "blocked"}
Gone == {"openRelease", "openFree", "lockRelease", "countOut", "unlockRelease",
         "waitFree"}
Behind == {"passFree", "unlinkRelease", "unlinkFree", "unlink", "done"}

(* In particular no count goes below zero unless a potato was written over *)
(* the table (L132).                                                       *)
TypeOK ==
  /\ \A n \in Names : value[n] \in Seq(Nat)
  /\ linked \subseteq Names
  /\ \A p \in Procs, n \in Names : handle[p][n] \in 0..Len(value[n])
  /\ id \in Seq(Procs \cup {NoPid}) /\ Len(id) = Len(coolDown) /\ Len(id) <= procNum
  /\ coolDown \in Seq(Int) /\ (~overwritten => coolDown \in Seq(Nat)) /\ fifos \subseteq Slots
  /\ index \in [Procs -> 0..procNum] /\ pos \in [Procs -> 0..procNum]
  /\ \A p \in Procs : readEnds[p] \subseteq Slots
  /\ rec \in [Procs -> Procs \cup {NoPid}] /\ pIndex \in [Procs -> 0..procNum]
  /\ seen \in [Procs -> Int]
  /\ counter3 \in 0..procNum /\ failed \subseteq Procs /\ caught \in Nat

(* No process is past the first barrier (L250-251) before every record of  *)
(* the table is filled, by a process of its own, unless one could not make *)
(* its FIFO: then names are removed that others have yet to open (L239).   *)
TableFilled ==
  /\ failed = {} => \A p \in Procs : pc[p] \notin Filling => Len(id) = procNum
  /\ failed = {} => \A p, q \in Procs : p # q /\ pc[p] \notin Filling /\ pc[q] \notin Filling
                       => counter[p] # counter[q]

(* All that meet at a barrier meet at the same semaphores: a name that     *)
(* somebody has removed is not opened again in the same run (L253-257,     *)
(* L293-296), unless mkfifo failed.                                        *)
OneBarrier ==
  failed = {} => \A n \in {"named", "memFilled", "memReleaseC", "freeMemC"} : Len(value[n]) <= 1

(* Every process gets through openFifos (L181-202), whatever the order in  *)
(* which they come to the FIFOs, as long as none has ended: they never     *)
(* wait for each other in a circle.                                        *)
OpensMeet ==
  \A p \in Procs : pc[p] \in Opening ~> pc[p] \notin Opening \/ \E q \in Procs : ~Alive(q)

(* The counts in the table are those given less the potatoes caught,       *)
(* although those who catch hold different semaphores and count in two     *)
(* steps (L110, L146) - unless a potato was thrown at the table (L132).    *)
CountsAgree ==
  (/\ ~overwritten /\ failed = {}
   /\ \A p \in Procs : pc[p] \notin Filling) => SumFunction(coolDown) + caught = SumFunction(haspotato)

(* Nothing a process may still use is removed before every process has     *)
(* come to the end of the game (L286-291).                                 *)
NobodyLeftPlaying ==
  (\E p \in Procs : pc[p] \in Behind) => \A q \in Procs : pc[q] \in Gone \cup Behind \cup {"dead"}

(* When all have ended by exit nothing of them is left behind: no FIFO,    *)
(* and none of the barriers' semaphores.                                   *)
CleanEnd ==
  (\A p \in Procs : pc[p] = "done") =>
    fifos = {} /\ linked \subseteq {"noPotato", "mySemWithPotato"}

(* The shared table agrees with the processes that meet at it: filled when *)
(* they go on, counting what is left of every potato while they play, and  *)
(* with nothing of it left behind when they have gone.                     *)
PotatoInv == TypeOK /\ TableFilled /\ CountsAgree /\ CleanEnd
=============================================================================
