----------------------------- MODULE HomeworkHire -----------------------------
(***************************************************************************)
(* HWs/HW4/main.c: G's money hires students to solve H's homeworks.  The   *)
(* thread H reads the homeworks into a queue; the main thread takes them   *)
(* one by one, waits until a student is available, picks the best, the     *)
(* fastest or the cheapest of those that are not busy and pays; a student  *)
(* solves and makes itself available again.                                *)
(*                                                                         *)
(* A thread stands before the semaphore it takes next, or before the next  *)
(* access to a variable another thread may change.  Between these it moves *)
(* in one action.  saveEof, safe (the list's own), wrtM and saveM are held *)
(* in no two places where their holder may wait for long, so that their    *)
(* critical sections are single actions; readyBusy and liveThread are held *)
(* by a student who waits, and follow from where it stands.  The list's    *)
(* append reads its size before it takes `safe', and is two actions.  A    *)
(* student's args only feed a line it prints and are left out.             *)
(***************************************************************************)
EXTENDS Integers, Sequences, FiniteSets

CONSTANTS line_count,                \* students in the students' file
          quality, speed, cost,      \* what that file says of each
          Files,                     \* contents the file of homeworks may have
          Moneys                     \* what G may have at the start

Students == 1..line_count
Kinds == {"Q", "S", "C", "other"}

(* A price may be 0: nothing in L358-365 asks for more.                    *)
ASSUME HireAssumption ==
  /\ line_count \in Nat \ {0}
  /\ quality \in [Students -> Int] /\ speed \in [Students -> Int]
  /\ cost \in [Students -> Nat]
  /\ Moneys \subseteq Nat \ {0}
  /\ \A f \in Files : f \in Seq(Kinds) /\ (f # <<>> => f[1] # "other")

VARIABLES
  mainAt, hAt, at,    \* where the main thread, H and each student are
  homeworks,          \* what is left of the file
  hw_queue, eof, finished, money,
  size, lost,         \* the list's size as H has read it; homeworks that
                      \* ArrayList_add has refused (history)
  waitFile, available, finito, startWork,     \* semaphores
  busy, liveThreadNum, balance,
  c, index,           \* the main thread's homework and student
  next, found,        \* its walk through the students: the next one to look
                      \* at, and whether one has been chosen
  saveMoney,          \* what G had at the start
  hired, solved       \* how often each student was hired (history), solvedHw

queueVars == <<homeworks, hw_queue, eof, hAt, size, lost>>
walk      == <<c, index, next, found>>
studentVars == <<at, busy, liveThreadNum, balance, solved>>
vars == <<mainAt, queueVars, finished, money, waitFile, available, finito,
          startWork, walk, saveMoney, hired, studentVars>>

Init ==
  /\ mainAt = "waitFile" /\ hAt = "read" /\ at = [s \in Students |-> "startWork"]
  /\ homeworks \in Files /\ hw_queue = <<>> /\ eof = FALSE
  /\ size = 0 /\ lost = 0
  /\ finished = FALSE
  /\ saveMoney \in Moneys /\ money = saveMoney
  /\ waitFile = 0 /\ available = line_count /\ finito = 0
  /\ startWork = [s \in Students |-> 0]
  /\ busy = [s \in Students |-> FALSE] /\ liveThreadNum = 0
  /\ balance = [s \in Students |-> 0] /\ solved = [s \in Students |-> 0]
  /\ hired = [s \in Students |-> 0]
  /\ c = "other" /\ index \in Students    \* uninitialised in the code
  /\ next = 1 /\ found = FALSE

(* Who holds the semaphore readyBusy of s, and who holds liveThread.       *)
HoldsReadyBusy(s) == at[s] \in {"live", "unlive", "eof", "empty"}
LiveThreadHeld    == \E s \in Students : at[s] \in {"eof", "empty"}

-----------------------------------------------------------------------------
(* Seeded faults, which the properties are tried against.                  *)
BadEofRead         == FALSE
BadAvailableAtWork == available + 1
BadAvailableAfter  == available
BadEofSeen         == TRUE
BadPaid            == money - cost[1]
BadPostedByH       == waitFile

(* The student s is better for c than the one chosen so far.               *)
Better(s) == CASE c = "Q" -> quality[s] > quality[index]
               [] c = "S" -> speed[s] > speed[index]
               [] OTHER   -> cost[s] < cost[index]
(* What H makes of the end of the file, and what becomes of `available'    *)
(* when a student starts to work and when it is done.                      *)
EofRead         == TRUE
AvailableAtWork == available
AvailableAfter  == available + 1
EofSeen         == eof
(* Whether ArrayList_add refuses what H brings.                            *)
Refused         == size > Len(hw_queue)
PostedByH       == waitFile + 1
Paid            == money - cost[index]
WakeUp          == [s \in Students |-> startWork[s] + 1]

-----------------------------------------------------------------------------
(* H.                                                                      *)

(* One character and the money that is left.                               *)
HReads ==
  /\ hAt = "read" /\ homeworks # <<>>
  /\ IF money = 0
       THEN hAt' = "ended" /\ waitFile' = waitFile + 1
       ELSE hAt' = "append" /\ UNCHANGED waitFile
  /\ UNCHANGED <<mainAt, homeworks, hw_queue, eof, size, lost, finished, money,
                 available, finito, startWork, walk, saveMoney, hired, studentVars>>

(* ArrayList_append: the size is read without the list's semaphore.        *)
HReadsSize ==
  /\ hAt = "append"
  /\ size' = Len(hw_queue)
  /\ hAt' = "add"
  /\ UNCHANGED <<mainAt, homeworks, hw_queue, eof, lost, finished, money, waitFile,
                 available, finito, startWork, walk, saveMoney, hired, studentVars>>

(* ArrayList_add under the list's semaphore: an index past the end, which  *)
(* the list may have lost since, is refused, and nobody looks at that.     *)
HAdds ==
  /\ hAt = "add"
  /\ IF Refused
       THEN lost' = lost + 1 /\ UNCHANGED hw_queue
       ELSE hw_queue' = Append(hw_queue, Head(homeworks)) /\ UNCHANGED lost
  /\ homeworks' = Tail(homeworks)
  /\ waitFile' = PostedByH
  /\ hAt' = "read"
  /\ UNCHANGED <<mainAt, eof, size, finished, money, available, finito, startWork,
                 walk, saveMoney, hired, studentVars>>

HEnds ==
  /\ hAt = "read" /\ homeworks = <<>>
  /\ eof' = EofRead
  /\ waitFile' = waitFile + 1
  /\ hAt' = "ended"
  /\ UNCHANGED <<mainAt, homeworks, hw_queue, size, lost, finished, money,
                 available, finito, startWork, walk, saveMoney, hired, studentVars>>

(* The process is there: exit takes all its threads with it.               *)
Alive == mainAt \notin {"failed", "ended"}

HStep == Alive /\ (HReads \/ HReadsSize \/ HAdds \/ HEnds)

-----------------------------------------------------------------------------
(* The main thread.                                                        *)

MainWaitsFile ==
  /\ mainAt = "waitFile" /\ waitFile > 0
  /\ waitFile' = waitFile - 1
  /\ mainAt' = "test"
  /\ UNCHANGED <<queueVars, finished, money, available, finito, startWork, walk,
                 saveMoney, hired, studentVars>>

MainTests ==
  /\ mainAt = "test"
  /\ mainAt' = IF eof /\ hw_queue = <<>> THEN "finito" ELSE "get"
  /\ UNCHANGED <<queueVars, finished, money, waitFile, available, finito,
                 startWork, walk, saveMoney, hired, studentVars>>

(* ArrayList_get leaves c as it is when there is nothing to get.           *)
MainGets ==
  /\ mainAt = "get"
  /\ c' = IF hw_queue = <<>> THEN c ELSE Head(hw_queue)
  /\ mainAt' = "available"
  /\ UNCHANGED <<queueVars, finished, money, waitFile, available, finito,
                 startWork, index, next, found, saveMoney, hired, studentVars>>

(* A character that is no homework leaves index as it is.                  *)
MainWaitsAvailable ==
  /\ mainAt = "available" /\ available > 0
  /\ available' = available - 1
  /\ next' = 1 /\ found' = FALSE
  /\ mainAt' = IF c = "other" THEN "hire" ELSE "walk"
  /\ UNCHANGED <<queueVars, finished, money, waitFile, finito, startWork, c,
                 index, saveMoney, hired, studentVars>>

(* One round of the loop of maximumQuality, maximumSpeed or minimumCost.   *)
MainLooksAt(s) ==
  /\ mainAt = "walk" /\ next = s /\ ~HoldsReadyBusy(s)
  /\ IF ~busy[s] /\ (~found \/ Better(s))
       THEN index' = s /\ found' = TRUE
       ELSE UNCHANGED <<index, found>>
  /\ next' = s + 1
  /\ mainAt' = IF s = line_count THEN "hire" ELSE "walk"
  /\ UNCHANGED <<queueVars, finished, money, waitFile, available, finito,
                 startWork, c, saveMoney, hired, studentVars>>

MainHires ==
  /\ mainAt = "hire" /\ money >= cost[index] /\ hw_queue # <<>>
  /\ hw_queue' = Tail(hw_queue)
  /\ startWork' = [startWork EXCEPT ![index] = @ + 1]
  /\ hired' = [hired EXCEPT ![index] = @ + 1]
  /\ mainAt' = "pay"
  /\ UNCHANGED <<homeworks, eof, hAt, size, lost, finished, money, waitFile,
                 available, finito, walk, saveMoney, studentVars>>

(* There is nothing to remove: x_error ends the program.                   *)
MainFails ==
  /\ mainAt = "hire" /\ money >= cost[index] /\ hw_queue = <<>>
  /\ mainAt' = "failed"
  /\ UNCHANGED <<queueVars, finished, money, waitFile, available, finito,
                 startWork, walk, saveMoney, hired, studentVars>>

MainPays ==
  /\ mainAt = "pay"
  /\ money' = Paid
  /\ mainAt' = "waitFile"
  /\ UNCHANGED <<queueVars, finished, waitFile, available, finito, startWork,
                 walk, saveMoney, hired, studentVars>>

(* "Money is over", or the last student has posted finito.                 *)
MainFinishes ==
  /\ \/ mainAt = "hire" /\ money < cost[index] /\ UNCHANGED finito
     \/ mainAt = "finito" /\ finito > 0 /\ finito' = finito - 1
  /\ finished' = TRUE
  /\ startWork' = WakeUp
  /\ mainAt' = "join"
  /\ UNCHANGED <<queueVars, money, waitFile, available, walk, saveMoney, hired,
                 studentVars>>

(* join_student_threads and finishedOutput.                                *)
MainEnds ==
  /\ mainAt = "join" /\ \A s \in Students : at[s] = "ended"
  /\ mainAt' = "ended"
  /\ UNCHANGED <<queueVars, finished, money, waitFile, available, finito,
                 startWork, walk, saveMoney, hired, studentVars>>

MainStep == \/ MainWaitsFile \/ MainTests \/ MainGets \/ MainWaitsAvailable
            \/ \E s \in Students : MainLooksAt(s)
            \/ MainHires \/ MainFails \/ MainPays \/ MainFinishes \/ MainEnds

-----------------------------------------------------------------------------
(* A student.                                                              *)
Goto(s, l) == at' = [at EXCEPT ![s] = l]

StudentWakes(s) ==
  /\ at[s] = "startWork" /\ startWork[s] > 0
  /\ startWork' = [startWork EXCEPT ![s] = @ - 1]
  /\ Goto(s, IF finished THEN "ended" ELSE "busy")
  /\ UNCHANGED <<mainAt, queueVars, finished, money, waitFile, available, finito,
                 walk, saveMoney, hired, busy, liveThreadNum, balance, solved>>

StudentTurnsBusy(s) ==
  /\ at[s] = "busy"
  /\ busy' = [busy EXCEPT ![s] = TRUE]
  /\ available' = AvailableAtWork
  /\ Goto(s, "live")
  /\ UNCHANGED <<mainAt, queueVars, finished, money, waitFile, finito, startWork,
                 walk, saveMoney, hired, liveThreadNum, balance, solved>>

StudentLives(s) ==
  /\ at[s] = "live" /\ ~LiveThreadHeld
  /\ liveThreadNum' = liveThreadNum + 1
  /\ Goto(s, "solve")
  /\ UNCHANGED <<mainAt, queueVars, finished, money, waitFile, available, finito,
                 startWork, walk, saveMoney, hired, busy, balance, solved>>

StudentSolves(s) ==
  /\ at[s] = "solve"
  /\ balance' = [balance EXCEPT ![s] = @ + cost[s]]
  /\ solved' = [solved EXCEPT ![s] = @ + 1]
  /\ Goto(s, "free")
  /\ UNCHANGED <<mainAt, queueVars, finished, money, waitFile, available, finito,
                 startWork, walk, saveMoney, hired, busy, liveThreadNum>>

StudentTurnsFree(s) ==
  /\ at[s] = "free"
  /\ busy' = [busy EXCEPT ![s] = FALSE]
  /\ available' = AvailableAfter
  /\ Goto(s, "unlive")
  /\ UNCHANGED <<mainAt, queueVars, finished, money, waitFile, finito, startWork,
                 walk, saveMoney, hired, liveThreadNum, balance, solved>>

StudentUnlives(s) ==
  /\ at[s] = "unlive" /\ ~LiveThreadHeld
  /\ liveThreadNum' = liveThreadNum - 1
  /\ Goto(s, "eof")
  /\ UNCHANGED <<mainAt, queueVars, finished, money, waitFile, available, finito,
                 startWork, walk, saveMoney, hired, busy, balance, solved>>

(* What was read of eof is kept while the queue is looked at.              *)
StudentReadsEof(s) ==
  /\ at[s] = "eof"
  /\ Goto(s, IF EofSeen THEN "empty" ELSE "startWork")
  /\ UNCHANGED <<mainAt, queueVars, finished, money, waitFile, available, finito,
                 startWork, walk, saveMoney, hired, busy, liveThreadNum, balance,
                 solved>>

StudentMayBeLast(s) ==
  /\ at[s] = "empty"
  /\ finito' = finito + (IF hw_queue = <<>> /\ liveThreadNum = 0 THEN 1 ELSE 0)
  /\ Goto(s, "startWork")
  /\ UNCHANGED <<mainAt, queueVars, finished, money, waitFile, available,
                 startWork, walk, saveMoney, hired, busy, liveThreadNum, balance,
                 solved>>

StudentStep(s) ==
  /\ Alive
  /\ \/ StudentWakes(s) \/ StudentTurnsBusy(s) \/ StudentLives(s)
     \/ StudentSolves(s) \/ StudentTurnsFree(s) \/ StudentUnlives(s)
     \/ StudentReadsEof(s) \/ StudentMayBeLast(s)

Next == HStep \/ MainStep \/ \E s \in Students : StudentStep(s)

Spec == Init /\ [][Next]_vars

(* Every thread keeps running; a student who waits for liveThread gets it, *)
(* as the others hold it only a bounded number of times.                   *)
FairSpec == /\ Spec /\ WF_vars(HStep) /\ WF_vars(MainStep)
            /\ \A s \in Students : WF_vars(StudentStep(s))

-----------------------------------------------------------------------------
Working(s) == at[s] \in {"busy", "live", "solve"}
Pending(s) == startWork[s] + (IF Working(s) THEN 1 ELSE 0)
Unpaid     == IF mainAt = "pay" THEN cost[index] ELSE 0
Total(f) == LET sum[s \in 0..line_count] == IF s = 0 THEN 0 ELSE f[s] + sum[s - 1]
            IN sum[line_count]

Places == {"startWork", "busy", "live", "solve", "free", "unlive", "eof", "empty",
           "ended"}

TypeOK ==
  /\ mainAt \in {"waitFile", "test", "get", "available", "walk", "hire", "pay",
                 "finito", "join", "ended", "failed"}
  /\ hAt \in {"read", "append", "add", "ended"}
  /\ size \in Nat /\ lost \in Nat
  /\ at \in [Students -> Places]
  /\ homeworks \in Seq(Kinds) /\ hw_queue \in Seq(Kinds)
  /\ eof \in BOOLEAN /\ finished \in BOOLEAN
  /\ money \in Nat /\ saveMoney \in Nat
  /\ waitFile \in Nat /\ available \in Nat /\ finito \in Nat
  /\ startWork \in [Students -> Nat]
  /\ busy \in [Students -> BOOLEAN] /\ liveThreadNum \in 0..line_count
  /\ balance \in [Students -> Nat] /\ solved \in [Students -> Nat]
  /\ hired \in [Students -> Nat]
  /\ c \in Kinds /\ index \in Students /\ next \in 1..(line_count + 1)
  /\ found \in BOOLEAN

(* G's account balances (L202-219, L288-289, finishedOutput): what is gone *)
(* of the money was paid to students that were hired, a student earned no  *)
(* more than it was hired for, and until the program closes all of it is   *)
(* earned or about to be.                                                  *)
AccountsAgree ==
  /\ money = saveMoney - Total([s \in Students |-> cost[s] * hired[s]]) + Unpaid
  /\ money >= Unpaid
  /\ \A s \in Students :
       /\ balance[s] = cost[s] * solved[s] /\ solved[s] <= hired[s]
       /\ ~finished => hired[s] = solved[s] + Pending(s)

(* `available' does what it is for (L186-201): although students turn busy *)
(* and free while the main thread walks past them, and turn busy late, the *)
(* walk always finds one that is free.                                     *)
SomeoneIsFree == mainAt = "hire" /\ c # "other" => found

(* waitFile (L169, L456, L460) counts: the main thread is let through once *)
(* for each homework that is or was in the queue, once for each that the   *)
(* list has refused, and once when H is done.                              *)
TokensAgree ==
  waitFile + (IF mainAt \in {"waitFile", "pay"} THEN 0 ELSE 1)
    = Len(hw_queue) + lost + (IF hAt = "ended" THEN 1 ELSE 0)

(* Refusals are the only thing that goes wrong with the queue (L170-185,   *)
(* L212): without one there is a homework to get, unless H has stopped for *)
(* want of money, and there is one to remove.  Only a student that costs   *)
(* nothing can still be hired then, and the program fails for it.          *)
NothingMissing ==
  lost = 0 =>
    /\ mainAt = "get" /\ hw_queue = <<>> => money = 0 /\ hAt = "ended"
    /\ mainAt = "hire" /\ money >= cost[index] /\ hw_queue = <<>>
         => money = 0 /\ cost[index] = 0
    /\ mainAt = "failed" => cost[index] = 0

(* The list refuses no more than it must (arraylist.c L130, L142): it      *)
(* takes a removal between H's reading of the size and its adding, so that *)
(* what is lost is never more than what the main thread has given away.    *)
LossNeedsRemoval == lost <= Total(hired)

(* The accounts: money, hires, solved homeworks and refused ones.          *)
HireTallies == TypeOK /\ AccountsAgree /\ LossNeedsRemoval

(* finito is posted only when no homework is left or will come (L295-301), *)
(* although eof and the queue are read at different times: the program     *)
(* that closes on it has given away every homework but those that the list *)
(* has refused (lost).                                                     *)
FinitoIsFinal == finito > 0 => eof /\ homeworks = <<>> /\ hw_queue = <<>>

(* The main thread never stops at waitFile, at `available' or among the    *)
(* students (L160-220), and once the program closes everybody ends (L137-  *)
(* 141, L206-208, L266): it ends, or waits for finito, or finds nothing to *)
(* remove and fails (L213, see NothingMissing).  That it may wait for ever *)
(* is so: the last student may look before H has set eof (L297).           *)
ClosesOrWaits == <>(mainAt \in {"ended", "failed"}) \/ <>[](mainAt = "finito")
=============================================================================
