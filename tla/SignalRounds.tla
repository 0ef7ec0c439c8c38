----------------------------- MODULE SignalRounds -----------------------------
(***************************************************************************)
(* HWs/HW2: a parent and its children work on one file in two rounds and   *)
(* take turns by signals.  Every child appends a value to its own line of  *)
(* the file; when all have, the parent prints the error of the round, and  *)
(* a second round follows.  A child rewrites the whole file from what it   *)
(* has read, under a lock on the file.                                     *)
(*                                                                         *)
(* All signals but SIGINT are blocked outside of sigsuspend, which lets    *)
(* SIGUSR1 (children) or SIGUSR2 (parent) in, and nothing else: a signal   *)
(* that comes earlier is kept, but only one of a kind.  SIGINT is handled  *)
(* anywhere but in sigsuspend: it sets vSIGINT and interrupts a wait for   *)
(* the lock, whose result nobody looks at, or for a child.  The file has   *)
(* POLY_NUMBER lines, as the program expects.                              *)
(***************************************************************************)
EXTENDS Naturals, Sequences, FiniteSets

CONSTANTS POLY_NUMBER,  \* the number of children, and of lines in the file
          SigintBound   \* how often SIGINT comes

ASSUME RoundsAssumption == POLY_NUMBER \in Nat \ {0} /\ SigintBound \in Nat

Children == 0..(POLY_NUMBER - 1)
Parent   == POLY_NUMBER
Procs    == Children \cup {Parent}
None     == POLY_NUMBER + 1

VARIABLES
  at,         \* where each process is
  round,      \* of each child
  i,          \* the parent's loop
  usr1, usr2, \* SIGUSR1 is pending at a child, SIGUSR2 at the parent
  sigint,     \* the processes at which SIGINT is pending
  vSIGINT,    \* the parent has handled SIGINT
  lock,       \* the process with the lock on the file, or None
  file,       \* what has been appended to each line
  copy,       \* the lines as a child has read them
  printed,    \* the lines the parent saw in each round (history)
  closed,     \* how often the parent has closed the file
  garbled,    \* two processes were at the file at a time: it may hold
              \* anything from then on (they share its offset as well)
  sigints     \* how often SIGINT has come

signals == <<usr1, usr2>>
ints    == <<sigint, vSIGINT, sigints>>
data    == <<file, copy, garbled>>
vars    == <<at, round, i, signals, ints, lock, data, printed, closed>>

Init ==
  /\ at = [p \in Procs |-> IF p = Parent THEN "fork" ELSE "none"]
  /\ round = [c \in Children |-> 1]
  /\ i = 0
  /\ usr1 = [c \in Children |-> FALSE] /\ usr2 = FALSE
  /\ sigint = {} /\ vSIGINT = FALSE /\ sigints = 0
  /\ lock = None
  /\ file = [c \in Children |-> <<>>]
  /\ copy = [c \in Children |-> file]
  /\ printed = <<>> /\ closed = 0 /\ garbled = FALSE

Goto(p, l)   == at' = [at EXCEPT ![p] = l]
(* Some other child is between its reading and its writing of the file.    *)
Interfere(p) == \E c \in Children \ {p} : at[c] = "write"
Suspended(p) == at[p] \in {"suspend", "suspendAgain"}
Gone(p)      == at[p] \in {"none", "ended"}

-----------------------------------------------------------------------------
(* Seeded faults, which the properties are tried against.                  *)
BadReadLines(c)     == IF round[c] = 2 THEN copy[c] ELSE file
BadKept(c)          == Suspended(c)
BadHasReply         == TRUE

(* fcntl(F_SETLKW) does not have to wait.                                  *)
LockFree      == lock = None
(* The lines as they come out of the buffer of the child c after a rewind. *)
ReadLines(c)  == file
(* SIGUSR1 for c is blocked and so kept until c comes to wait for it.      *)
Kept(c)       == TRUE
(* The parent's sigsuspend returns.                                        *)
HasReply      == usr2
(* Where a child goes from its first round.                                *)
AfterFirst    == "suspend"
(* There is a child to wait for, so that SIGINT interrupts wait (L172).    *)
WaitCut       == \E c \in Children : at[c] # "ended"
(* How often the file is closed when wait has reported that no child is    *)
(* left (L173).                                                            *)
ClosesAfterWait == 0
(* The loops over the children are done.                                   *)
LoopOver      == i = POLY_NUMBER

-----------------------------------------------------------------------------
(* A child.                                                                *)

ChildLocks(c) ==
  /\ at[c] = "lock" /\ LockFree
  /\ lock' = c
  /\ Goto(c, "read")
  /\ UNCHANGED <<round, i, signals, ints, data, printed, closed>>

ChildReads(c) ==
  /\ at[c] = "read"
  /\ copy' = [copy EXCEPT ![c] = ReadLines(c)]
  /\ garbled' = (garbled \/ Interfere(c))
  /\ Goto(c, "write")
  /\ UNCHANGED <<round, i, signals, ints, lock, file, printed, closed>>

(* All lines are written, and the value of this round behind one's own.    *)
ChildWrites(c) ==
  /\ at[c] = "write"
  /\ file' = [copy[c] EXCEPT ![c] = Append(@, round[c])]
  /\ garbled' = (garbled \/ Interfere(c))
  /\ Goto(c, "unlock")
  /\ UNCHANGED <<round, i, signals, ints, lock, copy, printed, closed>>

(* Unlocking releases what the process itself holds, if anything.          *)
ChildUnlocks(c) ==
  /\ at[c] = "unlock"
  /\ lock' = IF lock = c THEN None ELSE lock
  /\ Goto(c, IF round[c] = 1 THEN AfterFirst ELSE "ended")
  /\ UNCHANGED <<round, i, signals, ints, data, printed, closed>>

(* A child waits once before it replies and once after.                    *)
ChildWakes(c) ==
  /\ Suspended(c) /\ usr1[c]
  /\ usr1' = [usr1 EXCEPT ![c] = FALSE]
  /\ \/ at[c] = "suspend" /\ Goto(c, "reply") /\ UNCHANGED round
     \/ at[c] = "suspendAgain" /\ Goto(c, "lock")
        /\ round' = [round EXCEPT ![c] = 2]
  /\ UNCHANGED <<i, usr2, ints, lock, data, printed, closed>>

ChildReplies(c) ==
  /\ at[c] = "reply"
  /\ usr2' = TRUE
  /\ Goto(c, "suspendAgain")
  /\ UNCHANGED <<round, i, usr1, ints, lock, data, printed, closed>>

ChildStep(c) == \/ ChildLocks(c) \/ ChildReads(c) \/ ChildWrites(c)
                \/ ChildUnlocks(c) \/ ChildWakes(c) \/ ChildReplies(c)

-----------------------------------------------------------------------------
(* The parent.                                                             *)
Send(c) == usr1' = [usr1 EXCEPT ![c] = Kept(c)]

Fork ==
  /\ at[Parent] = "fork"
  /\ IF LoopOver
       THEN Goto(Parent, "leave") /\ i' = 0
       ELSE at' = [at EXCEPT ![i] = "lock"] /\ i' = i + 1
  /\ UNCHANGED <<round, signals, ints, lock, data, printed, closed>>

(* L132-137, L156-161: SIGINT has come; the children are left where they   *)
(* are.                                                                    *)
ParentLeaves ==
  /\ at[Parent] \in {"leave", "leaveAgain"} /\ vSIGINT
  /\ closed' = closed + 1
  /\ Goto(Parent, "ended")
  /\ UNCHANGED <<round, i, signals, ints, lock, data, printed>>

ParentGoesOn ==
  /\ at[Parent] \in {"leave", "leaveAgain"} /\ ~vSIGINT
  /\ Goto(Parent, IF at[Parent] = "leave" THEN "call" ELSE "callAll")
  /\ UNCHANGED <<round, i, signals, ints, lock, data, printed, closed>>

(* One child at a time (L139-152).                                         *)
ParentCalls ==
  /\ at[Parent] = "call"
  /\ IF LoopOver
       THEN Goto(Parent, "print") /\ UNCHANGED usr1
       ELSE Goto(Parent, "suspend") /\ Send(i)
  /\ UNCHANGED <<round, i, usr2, ints, lock, data, printed, closed>>

ParentWakes ==
  /\ at[Parent] = "suspend" /\ HasReply
  /\ usr2' = FALSE
  /\ i' = i + 1
  /\ Goto(Parent, "call")
  /\ UNCHANGED <<round, usr1, ints, lock, data, printed, closed>>

(* calcErrPrint, from its lock to its unlocking (L151-200).                *)
ParentPrints ==
  /\ at[Parent] \in {"print", "printAgain"} /\ LockFree
  /\ printed' = Append(printed, file)
  /\ i' = 0
  /\ IF at[Parent] = "print"
       THEN Goto(Parent, "leaveAgain") /\ UNCHANGED closed
       ELSE Goto(Parent, "ended") /\ closed' = closed + 1
  /\ UNCHANGED <<round, signals, ints, lock, data>>

(* All children at once (L163-170).                                        *)
ParentCallsAll ==
  /\ at[Parent] = "callAll"
  /\ IF LoopOver
       THEN Goto(Parent, "wait") /\ UNCHANGED <<i, usr1>>
       ELSE Send(i) /\ i' = i + 1 /\ UNCHANGED at
  /\ UNCHANGED <<round, usr2, ints, lock, data, printed, closed>>

(* No child is left (L172): SIGINT may still have come before.             *)
ParentHasWaited ==
  /\ at[Parent] = "wait" /\ \A c \in Children : at[c] = "ended"
  /\ closed' = closed + ClosesAfterWait + (IF vSIGINT THEN 1 ELSE 0)
  /\ Goto(Parent, IF vSIGINT THEN "ended" ELSE "printAgain")
  /\ UNCHANGED <<round, i, signals, ints, lock, data, printed>>

ParentStep == \/ Fork \/ ParentLeaves \/ ParentGoesOn \/ ParentCalls \/ ParentWakes
              \/ ParentPrints \/ ParentCallsAll \/ ParentHasWaited

-----------------------------------------------------------------------------
(* SIGINT, from the terminal or by kill: at one or more of the processes.  *)
Sigint(S) ==
  /\ sigints < SigintBound /\ S # {}
  /\ sigint' = sigint \cup S
  /\ sigints' = sigints + 1
  /\ UNCHANGED <<at, round, i, signals, vSIGINT, lock, data, printed, closed>>

(* It is handled outside of sigsuspend.  A wait for the lock ends without  *)
(* it; a wait for children ends with the file closed, which the exit that  *)
(* follows closes once more (L172-184).                                    *)
Handle(p) ==
  /\ p \in sigint /\ ~Suspended(p) /\ ~Gone(p)
  /\ sigint' = sigint \ {p}
  /\ vSIGINT' = (vSIGINT \/ p = Parent)
  /\ \/ UNCHANGED <<at, closed>>
     \/ p # Parent /\ at[p] = "lock" /\ ~LockFree
        /\ Goto(p, "read") /\ UNCHANGED closed
     \/ p = Parent /\ at[p] = "wait" /\ WaitCut
        /\ Goto(p, "ended") /\ closed' = closed + 2
  /\ UNCHANGED <<round, i, signals, sigints, lock, data, printed>>

Next == \/ ParentStep
        \/ \E c \in Children : ChildStep(c)
        \/ \E S \in SUBSET {p \in Procs : ~Gone(p)} : Sigint(S)
        \/ \E p \in Procs : Handle(p)

Spec == Init /\ [][Next]_vars

(* The scheduler runs every process, and the system delivers a pending     *)
(* signal; nobody has to press Ctrl-C.  A lock is held a bounded number of *)
(* times, so that whoever waits for it gets it.                            *)
FairSpec == /\ Spec /\ WF_vars(ParentStep)
            /\ \A c \in Children : WF_vars(ChildStep(c))
            /\ \A p \in Procs : WF_vars(Handle(p))

-----------------------------------------------------------------------------
(* How many rounds the child c has written.                                *)
Written(c) == IF at[c] \in {"unlock", "suspend", "reply", "suspendAgain", "ended"}
                THEN round[c] ELSE round[c] - 1
Both == <<1, 2>>

Places == {"none", "lock", "read", "write", "unlock", "suspend", "reply",
           "suspendAgain", "ended"}
ParentPlaces == {"fork", "leave", "call", "suspend", "print", "leaveAgain",
                 "callAll", "wait", "printAgain", "ended"}
Lines == [Children -> Seq({1, 2})]

TypeOK ==
  /\ DOMAIN at = Procs /\ at[Parent] \in ParentPlaces
  /\ \A c \in Children : at[c] \in Places
  /\ round \in [Children -> {1, 2}] /\ i \in 0..POLY_NUMBER
  /\ usr1 \in [Children -> BOOLEAN] /\ usr2 \in BOOLEAN
  /\ sigint \subseteq Procs /\ vSIGINT \in BOOLEAN /\ sigints \in 0..SigintBound
  /\ lock \in Children \cup {None}
  /\ file \in Lines /\ copy \in [Children -> Lines]
  /\ printed \in Seq(Lines) /\ Len(printed) <= 2
  /\ closed \in 0..2 /\ garbled \in BOOLEAN

(* The children rewrite each other's lines (L131-138): none of it is lost, *)
(* and each line holds the values of its child's rounds, in order, unless  *)
(* the file is garbled.                                                    *)
LinesAgree ==
  ~garbled => \A c \in Children : file[c] = SubSeq(Both, 1, Written(c))

(* Two processes are at the file at a time only if SIGINT has interrupted  *)
(* a wait for the lock (lib.c L101); and never while the parent prints,    *)
(* which it does when the children wait or are gone (L139-154, L172-186).  *)
AloneAtFile ==
  /\ garbled => sigints > 0
  /\ at[Parent] \in {"print", "printAgain"} =>
       LockFree /\ \A c \in Children : at[c] \in {"suspendAgain", "ended"}

(* Each error that is printed is that of a whole round: the parent has     *)
(* seen all values of this round and none of a later one, whatever the     *)
(* order in which the children ran and SIGINT came.                        *)
ErrorOfWholeRound ==
  ~garbled => \A r \in 1..Len(printed), c \in Children :
                printed[r][c] = SubSeq(Both, 1, r)

(* Signals of a kind do not queue: none is sent to a process that has yet  *)
(* to take the one before (L98, L140, L164).                               *)
NoSignalMerged ==
  [][/\ \A c \in Children : usr1[c] => ~(at[Parent] \in {"call", "callAll"} /\ i = c
                                         /\ ParentStep)
     /\ usr2 => \A c \in Children : ~ChildReplies(c)]_vars

(* A child's reply goes to getppid() (L98): its parent is there to get it, *)
(* and not process 1 in its place.                                         *)
ReplyToParent == \A c \in Children : at[c] = "reply" => at[Parent] = "suspend" /\ i = c

(* The file is closed once, unless SIGINT has ended the wait for the       *)
(* children (L172-184).                                                    *)
ClosedOnce == closed > 1 => vSIGINT /\ Len(printed) = 1

(* Turns are not lost and the locks are given back: the parent ends, and   *)
(* so do all children, unless the parent has left on SIGINT before it      *)
(* called them (L132, L156): they then wait for it for ever, with every    *)
(* signal blocked that could end them politely.                            *)
EndsOrOrphans ==
  /\ <>(at[Parent] = "ended")
  /\ \/ <>(\A c \in Children : at[c] = "ended")
     \/ <>[](vSIGINT /\ \E c \in Children : Suspended(c) /\ ~usr1[c])

(* What the two rounds keep while lines are rewritten and signals come:    *)
(* the lines, the lock, who is there to be signalled, and the open file.   *)
RoundsInv == TypeOK /\ LinesAgree /\ AloneAtFile /\ ReplyToParent /\ ClosedOnce
=============================================================================
