-------------------------- MODULE ServerPoolProofs --------------------------
(***************************************************************************)
(* Proofs about ServerPool for every number of workers and of connections: *)
(* type correctness, the accounts of the pool's slots, the absence of lost *)
(* wake-ups, and that the pool implements ConnectionService; and at the    *)
(* end about ServerStartup, the start-up of the same pool: whatever the    *)
(* clearing of a mutex in use does to it, the barrier of start-up holds,   *)
(* and only a thread that has lost its mutex that way ends the server.     *)
(***************************************************************************)
EXTENDS ServerPool, ServerStartup, FiniteSetTheorems, SequenceTheorems, TLAPS

Fds == Connections \cup {ErrFd}

-----------------------------------------------------------------------------
(* The inductive invariant of the accounts.                                *)

(* A worker holds a connection just from the queue to the end of its       *)
(* session; one that has looked and found something holds mQueue.          *)
WorkerFds ==
  \A w \in Workers :
    /\ wpc[w] \in {"top", "lockQueue", "waitQueue", "gotQueue", "tellOthers"} =>
         fd[w] = NoFd
    /\ wpc[w] \in {"gotFd", "serve", "release"} => fd[w] \in Connections
    /\ wpc[w] = "gotQueue" => mQueue = w /\ queue # <<>>

(* What the main thread hands over is what accept returned.                *)
MainFd == mainPc \in {"accepted", "waitSlot", "enqueue"} => clientfd \in Fds

(* Before SIGINT the main thread takes only slots that are free.           *)
FreeSlots == ~interrupt => available >= 0

AccountsInv == TypeOK /\ SlotAccounting /\ WorkerFds /\ MainFd /\ FreeSlots

-----------------------------------------------------------------------------
(* The inductive invariant of the order of service.                        *)

(* The connections some worker has taken off the queue.                    *)
Taken == (Held \ {ErrFd}) \cup closed

(* The main thread has a connection that is not in the queue yet.          *)
Pending == mainPc \in {"accepted", "waitSlot", "enqueue"} /\ clientfd # ErrFd

(* A connection is held by one worker at most, and closed by it only.      *)
HeldOnce ==
  \A w \in Workers : fd[w] \in Connections =>
    /\ fd[w] \notin closed
    /\ \A v \in Workers \ {w} : fd[v] # fd[w]

(* Connections go to the workers, stay in the queue and come from accept   *)
(* in the order of their arrival.                                          *)
Ordered ==
  /\ \A c \in Taken : c <= accepted
  /\ \A i \in 1..Len(queue) : queue[i] # ErrFd =>
       /\ queue[i] <= accepted
       /\ \A c \in Taken : c < queue[i]
       /\ \A j \in 1..Len(queue) : j > i /\ queue[j] # ErrFd => queue[i] < queue[j]
  /\ Pending => /\ clientfd = accepted
                /\ \A c \in Taken : c < accepted
                /\ \A i \in 1..Len(queue) : queue[i] < accepted

(* No connection is lost between accept and the workers.                   *)
NoneLost ==
  \A c \in 1..accepted : \/ c \in Taken
                         \/ \E i \in 1..Len(queue) : queue[i] = c
                         \/ Pending /\ c = clientfd

OrderInv == HeldOnce /\ Ordered /\ NoneLost

PoolInv == AccountsInv /\ OrderInv

-----------------------------------------------------------------------------
(* Lemmas about the operators.                                             *)

LEMMA AppendedFd ==
  ASSUME NEW q \in Seq(Fds), NEW f \in Fds
  PROVE  /\ Append(q, f) \in Seq(Fds)
         /\ Len(Append(q, f)) = Len(q) + 1
         /\ \A i \in 1..Len(q) : Append(q, f)[i] = q[i]
         /\ Append(q, f)[Len(q) + 1] = f
  BY AppendProperties

LEMMA HeadTailFd ==
  ASSUME NEW q \in Seq(Fds), q # <<>>
  PROVE  /\ Head(q) \in Fds /\ Head(q) = q[1]
         /\ Tail(q) \in Seq(Fds)
         /\ Len(q) \in Nat \ {0}
         /\ Len(Tail(q)) = Len(q) - 1
         /\ \A i \in 1..Len(q) - 1 : Tail(q)[i] = q[i + 1]
<1>1. /\ Head(q) \in Fds /\ Tail(q) \in Seq(Fds)
      /\ Len(Tail(q)) = Len(q) - 1
      /\ \A i \in 1..Len(Tail(q)) : Tail(q)[i] = q[i + 1]
  BY HeadTailProperties, Zenon
<1>2. Head(q) = q[1]
  OBVIOUS
<1>3. Len(q) \in Nat \ {0}
  BY EmptySeq, Zenon
<1> QED
  BY <1>1, <1>2, <1>3

(* The workers that hold a connection are finitely many, and so the pool   *)
(* has a size.                                                             *)
LEMMA BusyFinite ==
  /\ IsFiniteSet(Busy) /\ Cardinality(Busy) \in Nat
  /\ Cardinality(Busy) <= poolSize /\ poolSize \in Nat
  /\ Cardinality(Workers \ Busy) = poolSize - Cardinality(Busy)
<1>1. Busy \subseteq Workers /\ Busy = Workers \cap Busy
  BY DEF Busy
<1>2. IsFiniteSet(Busy) /\ Cardinality(Busy) <= poolSize
  BY <1>1, FS_Subset, ThreadsAssumption DEF poolSize
<1>3. Cardinality(Workers \ Busy) = poolSize - Cardinality(Busy)
  BY <1>1, FS_Difference, ThreadsAssumption DEF poolSize
<1> QED
  BY <1>2, <1>3, FS_CardinalityType, ThreadsAssumption DEF poolSize

LEMMA QueueLength ==
  ASSUME TypeOK
  PROVE  Len(queue) \in Nat /\ queue \in Seq(Fds)
<1>1. queue \in Seq(Fds)
  BY DEF TypeOK, Fds
<1> QED
  BY <1>1, LenProperties

-----------------------------------------------------------------------------
(* The accounts.                                                           *)

LEMMA AccountsInit == Init => AccountsInv
<1> SUFFICES ASSUME Init PROVE AccountsInv
  OBVIOUS
<1>1. Busy = {}
  BY DEF Init, Busy
<1>2. Cardinality(Busy) = 0 /\ poolSize \in Nat
  BY <1>1, FS_EmptySet, BusyFinite
<1>3. queue = <<>> /\ queue \in Seq(Connections \cup {ErrFd}) /\ Len(queue) = 0
  BY EmptySeq DEF Init
<1>4. TypeOK
  <2>1. available \in Int /\ available <= poolSize
    BY <1>2 DEF Init
  <2>2. offered \in 0..MaxConn /\ accepted \in 0..offered
    BY BoundsAssumption DEF Init
  <2>3. errs \in 0..MaxErr /\ broken \in 0..MaxBroken /\ sigs \in 0..MaxSig
    BY BoundsAssumption, ThreadsAssumption DEF Init
  <2>4. /\ wpc \in [Workers -> WorkerPCs]
        /\ fd \in [Workers -> Connections \cup {NoFd, ErrFd}]
    BY DEF Init, WorkerPCs
  <2> QED
    BY <1>3, <2>1, <2>2, <2>3, <2>4, Zenon DEF Init, TypeOK, MainPCs
<1>5. SlotAccounting
  BY <1>2, <1>3 DEF Init, SlotAccounting
<1> QED
  BY <1>2, <1>4, <1>5 DEF AccountsInv, WorkerFds, MainFd, FreeSlots, Init

(* The main thread and the environment, where they neither take a slot nor *)
(* touch the queue.                                                        *)
LEMMA AccountsMain ==
  ASSUME AccountsInv,
         \/ CallAccept \/ Accept \/ AcceptFails \/ Quit \/ Join
         \/ Connect \/ Sigint \/ SpuriousWake
  PROVE  AccountsInv'
<1> USE DEF AccountsInv
<1>1. /\ UNCHANGED <<available, queue, mQueue, wpc, fd, closed>>
      /\ mainPc # "enqueue" => mainPc' # "enqueue"
      /\ mainPc = "enqueue" => mainPc' = "enqueue"
      /\ interrupt => interrupt'
  BY DEF CallAccept, Accept, AcceptFails, Quit, Join, Connect, Sigint,
         SpuriousWake, mainVars, envVars
<1>2. SlotAccounting' /\ WorkerFds' /\ FreeSlots'
  BY <1>1 DEF SlotAccounting, WorkerFds, FreeSlots, Busy
<1>3. /\ mainPc' \in MainPCs
      /\ clientfd' \in Connections \cup {NoFd, ErrFd}
      /\ MainFd'
  <2>1. CASE Accept
    <3>1. clientfd' \in Connections
      BY <2>1, BoundsAssumption DEF Accept, TypeOK, Connections
    <3> QED
      BY <2>1, <3>1 DEF Accept, MainFd, Fds, MainPCs
  <2>2. CASE AcceptFails \/ Sigint
    BY <2>2 DEF AcceptFails, Sigint, MainFd, Fds, TypeOK, MainPCs
  <2>3. CASE CallAccept \/ Quit \/ Join \/ Connect \/ SpuriousWake
    BY <2>3 DEF CallAccept, Quit, Join, Connect, SpuriousWake, mainVars, MainFd, TypeOK,
                MainPCs
  <2> QED
    BY <2>1, <2>2, <2>3
<1>4. /\ offered' \in 0..MaxConn /\ accepted' \in 0..offered'
      /\ errs' \in 0..MaxErr /\ broken' \in 0..MaxBroken /\ sigs' \in 0..MaxSig
  <2>1. CASE Accept
    <3>1. accepted' = accepted + 1 /\ accepted < offered /\ UNCHANGED <<offered, envVars>>
      BY <2>1 DEF Accept
    <3> QED
      BY <3>1, BoundsAssumption DEF envVars, TypeOK
  <2>2. CASE Connect
    <3>1. offered' = offered + 1 /\ offered < MaxConn /\ UNCHANGED <<accepted, envVars>>
      BY <2>2 DEF Connect
    <3> QED
      BY <3>1, BoundsAssumption DEF envVars, TypeOK
  <2>3. CASE AcceptFails
    <3>1. errs' = errs + 1 /\ errs < MaxErr /\ UNCHANGED <<offered, accepted, broken, sigs>>
      BY <2>3 DEF AcceptFails
    <3> QED
      BY <3>1, BoundsAssumption DEF TypeOK
  <2>4. CASE Sigint
    <3>1. sigs' = sigs + 1 /\ sigs < MaxSig /\ UNCHANGED <<offered, accepted, errs, broken>>
      BY <2>4 DEF Sigint
    <3> QED
      BY <3>1, BoundsAssumption, ThreadsAssumption DEF TypeOK
  <2>5. CASE CallAccept \/ Quit \/ Join \/ SpuriousWake
    BY <2>5 DEF CallAccept, Quit, Join, SpuriousWake, envVars, TypeOK
  <2> QED
    BY <2>1, <2>2, <2>3, <2>4, <2>5
<1>5. mainBlocked' \in BOOLEAN /\ cQueue' \subseteq Workers /\ interrupt' \in BOOLEAN
  BY DEF CallAccept, Accept, AcceptFails, Quit, Join, Connect, Sigint, SpuriousWake,
         mainVars, envVars, TypeOK
<1> QED
  BY <1>1, <1>2, <1>3, <1>4, <1>5 DEF TypeOK

(* The main thread takes a slot and puts a connection in the queue.        *)
LEMMA AccountsTakeSlot ==
  ASSUME AccountsInv, TakeSlot
  PROVE  AccountsInv'
<1> USE DEF AccountsInv
<1>1. /\ UNCHANGED <<clientfd, queue, mQueue, cQueue, wpc, fd, interrupt, offered,
                      accepted, closed, errs, broken, sigs>>
      /\ mainPc \in {"accepted", "waitSlot"}
      /\ \/ mainPc' = "waitSlot" /\ available' = available /\ mainBlocked' = TRUE
         \/ /\ mainPc' = "enqueue" /\ available' = available - 1
            /\ UNCHANGED mainBlocked
            /\ available > 0 \/ interrupt
  BY DEF TakeSlot, MustWaitForSlot, envVars, TypeOK
<1>2. SlotAccounting'
  BY <1>1, BusyFinite, QueueLength DEF SlotAccounting, TypeOK, Busy
<1>3. WorkerFds' /\ MainFd' /\ FreeSlots'
  BY <1>1 DEF WorkerFds, MainFd, FreeSlots, TypeOK
<1>4. available' \in Int /\ available' <= poolSize
  BY <1>1, BusyFinite DEF TypeOK
<1> QED
  BY <1>1, <1>2, <1>3, <1>4 DEF TypeOK, MainPCs

LEMMA AccountsEnqueue ==
  ASSUME AccountsInv, Enqueue
  PROVE  AccountsInv'
<1> USE DEF AccountsInv
<1>1. /\ mainPc = "enqueue" /\ mainPc' = "loop"
      /\ mQueue = Nobody /\ cQueue' = {}
      /\ queue' = Append(queue, clientfd)
      /\ UNCHANGED <<clientfd, available, mainBlocked, mQueue, wpc, fd, interrupt,
                     offered, accepted, closed, errs, broken, sigs>>
  BY DEF Enqueue, Enqueued, BlockedAfterEnqueue, envVars
<1>2. clientfd \in Fds
  BY <1>1 DEF MainFd
<1>3. queue' \in Seq(Fds) /\ Len(queue') = Len(queue) + 1
  BY <1>1, <1>2, QueueLength, AppendedFd
<1>4. SlotAccounting'
  BY <1>1, <1>3, BusyFinite, QueueLength DEF SlotAccounting, TypeOK, Busy
<1>5. WorkerFds'
  BY <1>1, ThreadsAssumption DEF WorkerFds
<1>6. MainFd' /\ FreeSlots'
  BY <1>1 DEF MainFd, FreeSlots
<1> QED
  BY <1>1, <1>3, <1>4, <1>5, <1>6 DEF TypeOK, MainPCs, Fds

(* A worker that moves on without touching the queue or its connection.    *)
LEMMA AccountsWorker ==
  ASSUME AccountsInv, NEW w \in Workers,
         \/ TestAtTop(w) \/ LookAtQueue(w) \/ WakeInterrupted(w) \/ TellOthers(w)
         \/ LeaveInterrupted(w) \/ Greet(w) \/ GreetFails(w) \/ EndSession(w)
  PROVE  AccountsInv'
<1> USE DEF AccountsInv
<1>1. UNCHANGED <<mainPc, clientfd, available, mainBlocked, queue, fd, interrupt,
                  offered, accepted, closed, errs, sigs>>
  BY DEF TestAtTop, LookAtQueue, WakeInterrupted, TellOthers, LeaveInterrupted,
         Greet, GreetFails, EndSession, mainVars, envVars
<1>2. SlotAccounting' /\ MainFd' /\ FreeSlots'
  BY <1>1 DEF SlotAccounting, MainFd, FreeSlots, Busy
<1>3. PICK l \in WorkerPCs : wpc' = [wpc EXCEPT ![w] = l]
  BY DEF TestAtTop, LookAtQueue, WakeInterrupted, TellOthers, LeaveInterrupted,
         Greet, GreetFails, EndSession, Goto, WorkerPCs
<1>4. /\ mQueue' = mQueue \/ (mQueue = Nobody /\ mQueue' = w)
      /\ l = "gotQueue" => mQueue' = w /\ queue # <<>>
      /\ l \in {"top", "lockQueue", "waitQueue", "gotQueue", "tellOthers"} =>
           fd[w] = NoFd
      /\ l \in {"gotFd", "serve", "release"} => fd[w] \in Connections
  BY <1>3 DEF TestAtTop, LookAtQueue, WakeInterrupted, TellOthers, LeaveInterrupted,
         Greet, GreetFails, EndSession, Goto, WorkerFds, TypeOK
<1>5. wpc' \in [Workers -> WorkerPCs]
  BY <1>3 DEF TypeOK
<1>6. WorkerFds'
  BY <1>1, <1>3, <1>4, ThreadsAssumption DEF WorkerFds, TypeOK
<1>7. /\ mQueue' \in Workers \cup {Nobody} /\ cQueue' \subseteq Workers
      /\ broken' \in 0..MaxBroken
  BY BoundsAssumption
     DEF TestAtTop, LookAtQueue, WakeInterrupted, TellOthers, LeaveInterrupted,
         Greet, GreetFails, EndSession, mainVars, envVars, TypeOK
<1> QED
  BY <1>1, <1>2, <1>5, <1>6, <1>7 DEF TypeOK

LEMMA AccountsDequeue ==
  ASSUME AccountsInv, NEW w \in Workers, Dequeue(w)
  PROVE  AccountsInv'
<1> USE DEF AccountsInv
<1> DEFINE l == IF Head(queue) = ErrFd THEN "done" ELSE "gotFd"
<1>1. /\ wpc[w] = "gotQueue" /\ wpc' = [wpc EXCEPT ![w] = l]
      /\ fd' = [fd EXCEPT ![w] = Head(queue)]
      /\ queue' = Tail(queue) /\ mQueue' = Nobody
      /\ UNCHANGED <<mainPc, clientfd, available, mainBlocked, cQueue, interrupt,
                     offered, accepted, closed, errs, broken, sigs>>
  BY DEF Dequeue, Goto, mainVars, envVars
<1>2. mQueue = w /\ queue # <<>> /\ fd[w] = NoFd
  BY <1>1 DEF WorkerFds
<1>3. /\ queue \in Seq(Fds) /\ Head(queue) \in Fds /\ queue' \in Seq(Fds)
      /\ Len(queue') = Len(queue) - 1 /\ Len(queue) \in Nat \ {0}
  BY <1>1, <1>2, QueueLength, HeadTailFd
<1> DEFINE h == Head(queue)
<1>4. h \in Connections \/ h = ErrFd
  BY <1>3 DEF Fds
<1>5. h # NoFd /\ h \in Connections \cup {NoFd, ErrFd}
  BY <1>4 DEF Connections, NoFd, ErrFd
<1>6. l \in WorkerPCs /\ l \in {"done", "gotFd"} /\ (l = "gotFd" => h \in Connections)
  BY <1>4 DEF WorkerPCs
<1> HIDE DEF h, l
<1>7. /\ wpc' \in [Workers -> WorkerPCs]
      /\ fd' \in [Workers -> Connections \cup {NoFd, ErrFd}]
  BY <1>1, <1>5, <1>6 DEF TypeOK, h
<1>8. Busy' = Busy \cup {w} /\ w \notin Busy
  BY <1>1, <1>2, <1>5 DEF Busy, TypeOK, h
<1>9. Cardinality(Busy') = Cardinality(Busy) + 1
  BY <1>8, BusyFinite, FS_AddElement
<1>10. SlotAccounting'
  <2>1. available \in Int /\ Cardinality(Busy) \in Nat /\ SlotAccounting
    BY BusyFinite DEF TypeOK
  <2>2. /\ UNCHANGED <<mainPc, available>>
        /\ Len(queue') = Len(queue) - 1 /\ Len(queue) \in Nat
    BY <1>1, <1>3
  <2> QED
    BY ONLY <1>9, <2>1, <2>2 DEF SlotAccounting
<1>11. WorkerFds'
  BY <1>1, <1>2, <1>6 DEF WorkerFds, TypeOK, h
<1>12. MainFd' /\ FreeSlots'
  BY <1>1 DEF MainFd, FreeSlots
<1> QED
  BY <1>1, <1>3, <1>7, <1>10, <1>11, <1>12 DEF TypeOK, Fds

LEMMA AccountsRelease ==
  ASSUME AccountsInv, NEW w \in Workers, Release(w)
  PROVE  AccountsInv'
<1> USE DEF AccountsInv
<1>1. /\ wpc[w] = "release" /\ wpc' = [wpc EXCEPT ![w] = "top"]
      /\ fd' = [fd EXCEPT ![w] = NoFd]
      /\ available' = available + 1 /\ mainBlocked' = FALSE
      /\ closed' = closed \cup {fd[w]}
      /\ UNCHANGED <<mainPc, clientfd, queue, mQueue, cQueue, interrupt, offered,
                     accepted, errs, broken, sigs>>
  BY DEF Release, Goto, SlotsAfterRelease, BlockedAfterRelease, envVars
<1>2. fd[w] \in Connections /\ fd[w] # NoFd
  BY <1>1 DEF WorkerFds, Connections, NoFd
<1>3. Busy' = Busy \ {w} /\ w \in Busy
  BY <1>1, <1>2 DEF Busy, TypeOK
<1>4. Cardinality(Busy') = Cardinality(Busy) - 1
  BY <1>3, BusyFinite, FS_RemoveElement
<1>5. SlotAccounting'
  <2>1. available \in Int /\ Len(queue) \in Nat /\ Cardinality(Busy) \in Nat
    BY QueueLength, BusyFinite DEF TypeOK
  <2> QED
    BY <1>1, <1>4, <2>1 DEF SlotAccounting
<1>6. available' \in Int /\ available' <= poolSize
  <2>1. IsFiniteSet(Busy') /\ Cardinality(Busy') \in Nat
    BY <1>3, BusyFinite, FS_RemoveElement, FS_CardinalityType
  <2> QED
    BY <1>1, <1>5, <2>1, QueueLength, BusyFinite DEF SlotAccounting, TypeOK
<1>7. /\ wpc' \in [Workers -> WorkerPCs]
      /\ fd' \in [Workers -> Connections \cup {NoFd, ErrFd}]
      /\ closed' \subseteq Connections
  BY <1>1, <1>2 DEF TypeOK, WorkerPCs
<1>8. WorkerFds' /\ MainFd' /\ FreeSlots'
  BY <1>1 DEF WorkerFds, MainFd, FreeSlots, TypeOK
<1> QED
  BY <1>1, <1>5, <1>6, <1>7, <1>8 DEF TypeOK

LEMMA AccountsStep == AccountsInv /\ [Next]_vars => AccountsInv'
<1> SUFFICES ASSUME AccountsInv, [Next]_vars PROVE AccountsInv'
  OBVIOUS
<1>1. CASE \E w \in Workers : WorkerStep(w) \/ GreetFails(w)
  BY <1>1, AccountsWorker, AccountsDequeue, AccountsRelease DEF WorkerStep
<1>2. CASE MainStep \/ AcceptFails \/ Connect \/ Sigint \/ SpuriousWake
  BY <1>2, AccountsMain, AccountsTakeSlot, AccountsEnqueue DEF MainStep
<1>3. CASE UNCHANGED vars
  BY <1>3 DEF vars, AccountsInv, TypeOK, SlotAccounting, WorkerFds, MainFd, FreeSlots,
              Busy
<1> QED
  BY <1>1, <1>2, <1>3 DEF Next

(* The slots of the pool are free, taken for a connection on its way to a  *)
(* worker or held by a worker, whatever fails; before SIGINT every         *)
(* connection in the queue has a worker to take it (L225, L565-593, L277,  *)
(* L354).                                                                  *)
THEOREM SlotsCorrect == Spec => []SlotsTally
<1>1. AccountsInv => SlotsTally
  <2> SUFFICES ASSUME AccountsInv PROVE QueueHasWorkers
    BY DEF AccountsInv, SlotsTally
  <2> QED
    BY BusyFinite, QueueLength
       DEF AccountsInv, TypeOK, SlotAccounting, FreeSlots, QueueHasWorkers
<1> QED
  BY AccountsInit, AccountsStep, <1>1, PTL DEF Spec

-----------------------------------------------------------------------------
(* Lost wake-ups.                                                          *)

LEMMA WakeupStep == AccountsInv /\ NoMissedWakeup /\ [Next]_vars => NoMissedWakeup'
<1> SUFFICES ASSUME AccountsInv, NoMissedWakeup, [Next]_vars PROVE NoMissedWakeup'
  OBVIOUS
<1> USE DEF NoMissedWakeup
<1>1. ASSUME NEW w \in Workers, WorkerStep(w) \/ GreetFails(w)
      PROVE  NoMissedWakeup'
  <2>1. CASE Dequeue(w)
    <3>1. queue # <<>>
      BY <2>1 DEF Dequeue, AccountsInv, WorkerFds
    <3> QED
      BY <2>1, <3>1 DEF Dequeue, mainVars
  <2>2. CASE Release(w)
    BY <2>2 DEF Release, BlockedAfterRelease
  <2>3. CASE LookAtQueue(w) \/ TellOthers(w)
    BY <2>3 DEF LookAtQueue, TellOthers, mainVars
  <2>4. CASE \/ TestAtTop(w) \/ WakeInterrupted(w) \/ LeaveInterrupted(w)
             \/ Greet(w) \/ GreetFails(w) \/ EndSession(w)
    BY <2>4 DEF TestAtTop, WakeInterrupted, LeaveInterrupted, Greet, GreetFails,
                EndSession, mainVars
  <2> QED
    BY <1>1, <2>1, <2>2, <2>3, <2>4 DEF WorkerStep
<1>2. CASE TakeSlot
  BY <1>2 DEF TakeSlot, MustWaitForSlot, AccountsInv, TypeOK
<1>3. CASE Enqueue
  BY <1>3 DEF Enqueue, BlockedAfterEnqueue
<1>4. CASE \/ CallAccept \/ Accept \/ AcceptFails \/ Quit \/ Join
           \/ Connect \/ Sigint \/ SpuriousWake
  BY <1>4 DEF CallAccept, Accept, AcceptFails, Quit, Join, Connect, Sigint,
              SpuriousWake, mainVars
<1>5. CASE UNCHANGED vars
  BY <1>5 DEF vars
<1> QED
  BY <1>1, <1>2, <1>3, <1>4, <1>5 DEF Next, MainStep

(* No worker is blocked while a connection is queued, nor the main thread  *)
(* while a slot is free: every step that makes one or the other true also  *)
(* wakes whoever waits for it (L264-265, L353-356, L565-593).              *)
THEOREM WakeupsCorrect == Spec => []NoMissedWakeup
<1>1. Init => NoMissedWakeup
  BY DEF Init, NoMissedWakeup
<1> QED
  BY AccountsInit, AccountsStep, WakeupStep, <1>1, PTL DEF Spec

-----------------------------------------------------------------------------
(* The order of service.                                                   *)

LEMMA ConnectionFacts ==
  /\ NoFd \notin Connections /\ ErrFd \notin Connections /\ NoFd # ErrFd
  /\ Connections \subseteq Int
BY BoundsAssumption DEF NoFd, ErrFd, Connections

LEMMA TakenIs ==
  ASSUME TypeOK
  PROVE  /\ \A c : c \in Taken <=>
                 c \in closed \/ \E w \in Workers : fd[w] = c /\ c \in Connections
         /\ Taken \subseteq Connections
<1>1. closed \subseteq Connections
  BY DEF TypeOK
<1>2. \A w \in Workers : fd[w] \in Connections \cup {NoFd, ErrFd}
  BY DEF TypeOK
<1>3. \A c : c \in Held \ {ErrFd} <=>
            \E w \in Workers : fd[w] = c /\ c \in Connections
  BY <1>2, ConnectionFacts DEF Held, Busy
<1> QED
  BY <1>1, <1>3 DEF Taken

LEMMA TakenNext ==
  ASSUME TypeOK'
  PROVE  \A c : c \in Taken' <=>
              c \in closed' \/ \E w \in Workers : fd'[w] = c /\ c \in Connections
<1>1. closed' \subseteq Connections
  BY DEF TypeOK
<1>2. \A w \in Workers : fd'[w] \in Connections \cup {NoFd, ErrFd}
  BY DEF TypeOK
<1>3. \A c : c \in Held' \ {ErrFd} <=>
            \E w \in Workers : fd'[w] = c /\ c \in Connections
  BY <1>2, ConnectionFacts DEF Held, Busy
<1> QED
  BY <1>1, <1>3 DEF Taken

LEMMA OrderInit == Init => OrderInv
<1> SUFFICES ASSUME Init PROVE OrderInv
  OBVIOUS
<1>1. \A c : c \notin Taken
  BY DEF Init, Taken, Held, Busy
<1>2. Len(queue) = 0 /\ accepted = 0 /\ ~Pending
  BY DEF Init, Pending
<1>3. HeldOnce
  BY ConnectionFacts DEF HeldOnce, Init
<1> QED
  BY <1>1, <1>2, <1>3 DEF OrderInv, Ordered, NoneLost

(* Steps that move no connection.                                          *)
LEMMA OrderKept ==
  ASSUME OrderInv, UNCHANGED <<fd, closed, queue, accepted>>,
         Pending' <=> Pending, Pending => clientfd' = clientfd
  PROVE  OrderInv'
<1>1. Taken' = Taken /\ HeldOnce'
  BY DEF Taken, Held, Busy, OrderInv, HeldOnce
<1>2. Ordered'
  BY <1>1 DEF OrderInv, Ordered
<1>3. NoneLost'
  BY <1>1 DEF OrderInv, NoneLost
<1> QED
  BY <1>1, <1>2, <1>3 DEF OrderInv

LEMMA OrderAccept ==
  ASSUME PoolInv, Accept
  PROVE  OrderInv'
<1>1. /\ accepted' = accepted + 1 /\ clientfd' = accepted' /\ ~Pending
      /\ UNCHANGED <<fd, closed, queue>>
      /\ accepted \in Nat
  BY DEF Accept, Pending, PoolInv, AccountsInv, TypeOK
<1>2. Taken' = Taken /\ HeldOnce'
  BY <1>1 DEF Taken, Held, Busy, PoolInv, OrderInv, HeldOnce
<1>3. Taken \subseteq Int
  BY TakenIs, ConnectionFacts DEF PoolInv, AccountsInv
<1>4. \A i \in 1..Len(queue) : queue[i] \in Int /\ queue[i] <= accepted
  <2>1. \A i \in 1..Len(queue) : queue[i] \in Fds
    BY QueueLength, ElementOfSeq DEF PoolInv, AccountsInv
  <2>2. \A i \in 1..Len(queue) : queue[i] # ErrFd => queue[i] <= accepted
    BY DEF PoolInv, OrderInv, Ordered
  <2>3. ErrFd \in Int /\ ErrFd <= accepted
    BY <1>1 DEF ErrFd
  <2> QED
    BY <2>1, <2>2, <2>3, ConnectionFacts DEF Fds
<1>5. Ordered'
  BY <1>1, <1>2, <1>3, <1>4 DEF PoolInv, OrderInv, Ordered
<1>6. Pending'
  <2>1. accepted' # ErrFd
    BY <1>1 DEF ErrFd
  <2> QED
    BY <1>1, <2>1 DEF Accept, Pending
<1>7. NoneLost'
  BY <1>1, <1>2, <1>6 DEF PoolInv, OrderInv, NoneLost
<1> QED
  BY <1>2, <1>5, <1>7 DEF OrderInv

LEMMA OrderEnqueue ==
  ASSUME PoolInv, Enqueue
  PROVE  OrderInv'
<1>1. /\ mainPc = "enqueue" /\ mainPc' = "loop"
      /\ queue' = Append(queue, clientfd)
      /\ UNCHANGED <<clientfd, fd, accepted, closed>>
  BY DEF Enqueue, Enqueued
<1>2. clientfd \in Fds /\ ~Pending' /\ (Pending <=> clientfd # ErrFd)
  BY <1>1 DEF PoolInv, AccountsInv, MainFd, Pending
<1> DEFINE n == Len(queue)
<1>3. /\ n \in Nat /\ Len(queue') = n + 1 /\ queue'[n + 1] = clientfd
      /\ \A i \in 1..n : queue'[i] = queue[i]
  BY <1>1, <1>2, QueueLength, AppendedFd DEF PoolInv, AccountsInv
<1>4. Taken' = Taken /\ HeldOnce'
  BY <1>1 DEF Taken, Held, Busy, PoolInv, OrderInv, HeldOnce
<1> HIDE DEF n
<1>5. ASSUME NEW i \in 1..n + 1
      PROVE  \/ i \in 1..n /\ queue'[i] = queue[i]
             \/ i = n + 1 /\ queue'[i] = clientfd
  BY <1>3
<1>6. Ordered'
  <2>1. ASSUME NEW i \in 1..n + 1, queue'[i] # ErrFd
        PROVE  /\ queue'[i] <= accepted
               /\ \A c \in Taken : c < queue'[i]
    <3>1. accepted \in Nat
      BY DEF PoolInv, AccountsInv, TypeOK
    <3>2. CASE i \in 1..n
      BY <1>3, <2>1, <3>2 DEF PoolInv, OrderInv, Ordered, n
    <3>3. CASE i = n + 1
      BY <1>2, <1>3, <2>1, <3>1, <3>3 DEF PoolInv, OrderInv, Ordered
    <3> QED
      BY <1>5, <3>2, <3>3
  <2>2. ASSUME NEW i \in 1..n + 1, queue'[i] # ErrFd,
               NEW j \in 1..n + 1, j > i, queue'[j] # ErrFd
        PROVE  queue'[i] < queue'[j]
    <3>1. i \in 1..n /\ queue'[i] = queue[i]
      BY <1>3, <2>2
    <3>2. CASE j \in 1..n
      BY <1>3, <2>2, <3>1, <3>2 DEF PoolInv, OrderInv, Ordered, n
    <3>3. CASE j = n + 1
      BY <1>2, <1>3, <2>2, <3>1, <3>3 DEF PoolInv, OrderInv, Ordered, n
    <3> QED
      BY <1>3, <3>2, <3>3
  <2> QED
    BY <1>1, <1>2, <1>3, <1>4, <2>1, <2>2 DEF PoolInv, OrderInv, Ordered
<1>7. NoneLost'
  <2>1. ASSUME NEW c \in 1..accepted
        PROVE  c \in Taken \/ \E i \in 1..n + 1 : queue'[i] = c
    BY <1>3 DEF PoolInv, OrderInv, NoneLost, n
  <2> QED
    BY <1>1, <1>3, <1>4, <2>1 DEF NoneLost
<1> QED
  BY <1>4, <1>6, <1>7 DEF OrderInv

LEMMA OrderDequeue ==
  ASSUME PoolInv, NEW w \in Workers, Dequeue(w)
  PROVE  /\ OrderInv'
         /\ LET h == Head(queue)
            IN  /\ h # ErrFd => /\ h \in Connections \ Taken /\ h <= accepted
                                /\ \A c \in 1..accepted : c < h => c \in Taken
                /\ \A c : c \in Taken' <=> c \in Taken \/ (c = h /\ h # ErrFd)
<1> USE DEF PoolInv, AccountsInv
<1> DEFINE h == Head(queue)  n == Len(queue)
<1>1. /\ fd' = [fd EXCEPT ![w] = h]
      /\ queue' = Tail(queue)
      /\ wpc[w] = "gotQueue"
      /\ UNCHANGED <<mainPc, clientfd, accepted, closed>>
  BY DEF Dequeue, mainVars
<1>2. queue # <<>> /\ fd[w] = NoFd
  BY <1>1 DEF WorkerFds
<1>3. /\ h \in Fds /\ h = queue[1] /\ n \in Nat \ {0}
      /\ Len(queue') = n - 1
      /\ \A i \in 1..n - 1 : queue'[i] = queue[i + 1]
  BY <1>1, <1>2, QueueLength, HeadTailFd
<1>4. /\ fd \in [Workers -> Connections \cup {NoFd, ErrFd}]
      /\ closed \subseteq Connections /\ accepted \in Nat
  BY DEF TypeOK
<1>5. Pending' <=> Pending
  BY <1>1 DEF Pending
<1> HIDE DEF h, n
<1>6. TypeOK'
  BY AccountsDequeue
<1>7. \A c : c \in Taken' <=> c \in Taken \/ (c = h /\ h # ErrFd)
  <2>1. \A c : c \in Taken' <=>
              c \in closed \/ \E v \in Workers : fd'[v] = c /\ c \in Connections
    BY <1>1, <1>6, TakenIs, TakenNext
  <2> QED
    BY <1>1, <1>2, <1>3, <1>4, <2>1, TakenIs, ConnectionFacts DEF Fds
<1>8. h # ErrFd => /\ h \in Connections /\ h <= accepted
                   /\ \A c \in Taken : c < h
                   /\ \A j \in 2..n : queue[j] # ErrFd => h < queue[j]
  BY <1>3 DEF Fds, OrderInv, Ordered, n
<1>9. h # ErrFd => h \in Connections \ Taken
  <2>1. h # ErrFd => h \in Int /\ h \in Connections /\ \A c \in Taken : c < h
    BY <1>8, ConnectionFacts, Zenon
  <2> QED
    BY ONLY <2>1
<1>10. h # ErrFd => \A c \in 1..accepted : c < h => c \in Taken
  <2> SUFFICES ASSUME h # ErrFd, NEW c \in 1..accepted, c < h PROVE c \in Taken
    OBVIOUS
  <2>1. h \in Int
    BY <1>8, ConnectionFacts, Zenon
  <2>2. c # ErrFd
    BY <1>4 DEF ErrFd
  <2>3. ~\E i \in 1..n : queue[i] = c
    <3>1. SUFFICES ASSUME NEW i \in 1..n, queue[i] = c PROVE FALSE
      OBVIOUS
    <3>2. i # 1 => h < c
      BY <1>3, <1>8, <2>2, <3>1
    <3> QED
      BY <1>3, <1>4, <2>1, <3>1, <3>2
  <2>4. ~(Pending /\ c = clientfd)
    BY <1>8, <2>1, <1>4 DEF OrderInv, Ordered
  <2> QED
    BY <2>3, <2>4 DEF OrderInv, NoneLost, n
<1>11. HeldOnce'
  BY <1>1, <1>2, <1>4, <1>9, TakenIs, ConnectionFacts DEF OrderInv, HeldOnce
<1>12. Ordered'
  <2>1. \A i \in 1..n - 1 : i + 1 \in 1..n
    BY <1>3
  <2>2. \A c \in Taken' : c <= accepted
    BY <1>7, <1>8 DEF OrderInv, Ordered
  <2>3. ASSUME NEW i \in 1..n - 1, queue'[i] # ErrFd
        PROVE  /\ queue'[i] <= accepted
               /\ \A c \in Taken' : c < queue'[i]
               /\ \A j \in 1..n - 1 : j > i /\ queue'[j] # ErrFd => queue'[i] < queue'[j]
    <3>1. i + 1 \in 1..n /\ i + 1 \in 2..n /\ queue'[i] = queue[i + 1]
      BY <1>3, <2>3
    <3>2. queue'[i] <= accepted /\ \A c \in Taken : c < queue'[i]
      BY <2>3, <3>1 DEF OrderInv, Ordered, n
    <3>3. h # ErrFd => h < queue'[i]
      BY <1>8, <2>3, <3>1
    <3>4. ASSUME NEW j \in 1..n - 1, j > i, queue'[j] # ErrFd
          PROVE  queue'[i] < queue'[j]
      <4>1. j + 1 \in 1..n /\ j + 1 > i + 1 /\ queue'[j] = queue[j + 1]
        BY <1>3, <3>4
      <4> QED
        BY <2>3, <3>1, <3>4, <4>1 DEF OrderInv, Ordered, n
    <3> QED
      BY <1>7, <3>2, <3>3, <3>4
  <2>4. Pending => /\ clientfd = accepted
                   /\ \A c \in Taken' : c < accepted
                   /\ \A i \in 1..n - 1 : queue'[i] < accepted
    <3>1. Pending => /\ clientfd = accepted
                     /\ \A c \in Taken : c < accepted
                     /\ \A i \in 1..n : queue[i] < accepted
      BY DEF OrderInv, Ordered, n
    <3>2. Pending => h < accepted
      BY <1>3, <3>1
    <3> QED
      BY <1>3, <1>7, <2>1, <3>1, <3>2
  <2> QED
    BY <1>1, <1>3, <1>5, <2>2, <2>3, <2>4 DEF Ordered
<1>13. NoneLost'
  <2> SUFFICES ASSUME NEW c \in 1..accepted
               PROVE  \/ c \in Taken'
                      \/ \E i \in 1..n - 1 : queue'[i] = c
                      \/ Pending /\ c = clientfd
    BY <1>1, <1>3, <1>5 DEF NoneLost
  <2>1. CASE c \in Taken \/ (Pending /\ c = clientfd)
    BY <1>7, <2>1
  <2>2. ASSUME NEW i \in 1..n, queue[i] = c
        PROVE  c \in Taken' \/ \E k \in 1..n - 1 : queue'[k] = c
    <3>1. c # ErrFd
      BY DEF ErrFd
    <3>2. CASE i = 1
      BY <1>3, <1>7, <2>2, <3>1, <3>2
    <3>3. CASE i # 1
      <4>1. i - 1 \in 1..n - 1 /\ i = (i - 1) + 1
        BY <1>3, <3>3
      <4> QED
        BY <1>3, <2>2, <4>1
    <3> QED
      BY <3>2, <3>3
  <2> QED
    BY <2>1, <2>2 DEF OrderInv, NoneLost, n
<1> QED
  BY <1>7, <1>8, <1>9, <1>10, <1>11, <1>12, <1>13 DEF OrderInv, h

LEMMA OrderRelease ==
  ASSUME PoolInv, NEW w \in Workers, Release(w)
  PROVE  /\ OrderInv'
         /\ Taken' = Taken
         /\ Held' \ {ErrFd} = (Held \ {ErrFd}) \ {fd[w]}
<1> USE DEF PoolInv, AccountsInv
<1>1. /\ wpc[w] = "release"
      /\ fd' = [fd EXCEPT ![w] = NoFd]
      /\ closed' = closed \cup {fd[w]}
      /\ UNCHANGED <<mainPc, clientfd, queue, accepted>>
  BY DEF Release
<1>2. /\ fd \in [Workers -> Connections \cup {NoFd, ErrFd}]
      /\ fd[w] \in Connections
  BY <1>1 DEF TypeOK, WorkerFds
<1>3. Held' \ {ErrFd} = (Held \ {ErrFd}) \ {fd[w]}
  BY <1>1, <1>2, ConnectionFacts DEF Held, Busy, OrderInv, HeldOnce
<1>4. fd[w] \in Held \ {ErrFd}
  BY <1>2, ConnectionFacts DEF Held, Busy
<1>5. Taken' = Taken
  BY <1>1, <1>3, <1>4 DEF Taken
<1>6. HeldOnce'
  BY <1>1, <1>2, ConnectionFacts DEF OrderInv, HeldOnce
<1>7. Pending' <=> Pending
  BY <1>1 DEF Pending
<1>8. Ordered' /\ NoneLost'
  BY <1>1, <1>5, <1>7 DEF OrderInv, Ordered, NoneLost
<1> QED
  BY <1>3, <1>5, <1>6, <1>8 DEF OrderInv

LEMMA OrderStep == PoolInv /\ [Next]_vars => OrderInv'
<1> SUFFICES ASSUME PoolInv, [Next]_vars PROVE OrderInv'
  OBVIOUS
<1> USE DEF PoolInv
<1>1. ASSUME NEW w \in Workers, WorkerStep(w) \/ GreetFails(w)
      PROVE  OrderInv'
  <2>1. CASE Dequeue(w)
    BY <2>1, OrderDequeue
  <2>2. CASE Release(w)
    BY <2>2, OrderRelease
  <2>3. CASE \/ TestAtTop(w) \/ LookAtQueue(w) \/ WakeInterrupted(w) \/ TellOthers(w)
             \/ LeaveInterrupted(w) \/ Greet(w) \/ GreetFails(w) \/ EndSession(w)
    <3>1. UNCHANGED <<mainPc, clientfd, fd, closed, queue, accepted>>
      BY <2>3 DEF TestAtTop, LookAtQueue, WakeInterrupted, TellOthers,
                  LeaveInterrupted, Greet, GreetFails, EndSession, mainVars
    <3> QED
      BY <3>1, OrderKept DEF Pending
  <2> QED
    BY <1>1, <2>1, <2>2, <2>3 DEF WorkerStep
<1>2. CASE Accept
  BY <1>2, OrderAccept
<1>3. CASE Enqueue
  BY <1>3, OrderEnqueue
<1>4. CASE \/ CallAccept \/ AcceptFails \/ Quit \/ TakeSlot \/ Join
           \/ Connect \/ Sigint \/ SpuriousWake
  <2>1. UNCHANGED <<fd, closed, queue, accepted>>
    BY <1>4 DEF CallAccept, AcceptFails, Quit, TakeSlot, Join, Connect, Sigint,
                SpuriousWake, mainVars
  <2>2. (Pending' <=> Pending) /\ (Pending => clientfd' = clientfd)
    BY <1>4 DEF CallAccept, AcceptFails, Quit, Quitting, TakeSlot, Join, Connect, Sigint,
                SpuriousWake, mainVars, Pending
  <2> QED
    BY <2>1, <2>2, OrderKept
<1>5. CASE UNCHANGED vars
  BY <1>5, OrderKept DEF vars, Pending
<1> QED
  BY <1>1, <1>2, <1>3, <1>4, <1>5 DEF Next, MainStep

-----------------------------------------------------------------------------
(* Refinement.                                                             *)

(* Two workers never hold the same connection, so there are no more        *)
(* connections in service than workers that hold one.                      *)
LEMMA HeldBound ==
  ASSUME TypeOK
  PROVE  /\ Cardinality(Held \ {ErrFd}) \in Nat
         /\ Cardinality(Held \ {ErrFd}) <= Cardinality(Busy)
<1> DEFINE S == Held \ {ErrFd}
           f == [c \in S |-> CHOOSE v \in Busy : fd[v] = c]
<1>1. \A c \in S : \E v \in Busy : fd[v] = c
  BY DEF Held
<1>2. \A c \in S : f[c] \in Busy /\ fd[f[c]] = c
  BY <1>1
<1>3. f \in [S -> Busy] /\ \A c, d \in S : f[c] = f[d] => c = d
  BY <1>2
<1>4. f \in Injection(S, Busy)
  BY <1>3 DEF Injection, IsInjective
<1> HIDE DEF f, S
<1>5. IsFiniteSet(S) /\ Cardinality(S) <= Cardinality(Busy)
  BY <1>4, BusyFinite, FS_Injection
<1> QED
  BY <1>5, FS_CardinalityType DEF S

LEMMA SameCardinality == \A S : Service!Cardinality(S) = Cardinality(S)
BY DEF Service!Cardinality, Cardinality

LEMMA RefineInit == Init => Service!Init
<1> SUFFICES ASSUME Init PROVE Service!Init
  OBVIOUS
<1>1. Busy = {} /\ Held = {}
  BY DEF Init, Busy, Held
<1> QED
  BY <1>1 DEF Init, Service!Init

(* A worker that takes a connection off the queue starts the oldest that   *)
(* waits; an error that was queued is nothing a client sees.               *)
LEMMA RefineDequeue ==
  ASSUME PoolInv, NEW w \in Workers, Dequeue(w)
  PROVE  [Service!Next]_(Service!vars)
<1> USE DEF PoolInv, AccountsInv
<1> DEFINE h == Head(queue)
<1>1. UNCHANGED <<offered, closed>> /\ fd' = [fd EXCEPT ![w] = h] /\ fd[w] = NoFd
  BY DEF Dequeue, WorkerFds
<1>2. /\ h # ErrFd => /\ h \in Connections \ Taken /\ h <= accepted
                      /\ \A c \in 1..accepted : c < h => c \in Taken
      /\ \A c : c \in Taken' <=> c \in Taken \/ (c = h /\ h # ErrFd)
  BY OrderDequeue
<1>3. accepted \in 0..offered /\ offered \in Nat /\ fd \in [Workers -> Connections \cup {NoFd, ErrFd}]
  BY BoundsAssumption DEF TypeOK
<1>4. Service!Started = Taken
  BY DEF Service!Started, Taken
<1>5. h \in Fds
  BY QueueLength, HeadTailFd DEF Dequeue, WorkerFds
<1> HIDE DEF h
<1>6. CASE h = ErrFd
  <2>1. Held' \ {ErrFd} = Held \ {ErrFd}
    BY <1>1, <1>3, <1>6, ConnectionFacts DEF Held, Busy
  <2> QED
    BY <1>1, <2>1 DEF Service!vars
<1>7. CASE h # ErrFd
  <2>1. Held' \ {ErrFd} = (Held \ {ErrFd}) \cup {h}
    BY <1>1, <1>3, <1>5, <1>7, ConnectionFacts DEF Held, Busy, Fds
  <2>2. Cardinality(Held \ {ErrFd}) < poolSize
    <3>1. w \in Workers \ Busy
      BY <1>1 DEF Busy
    <3>2. Cardinality(Workers \ Busy) # 0 /\ Cardinality(Workers \ Busy) \in Nat
      BY <3>1, FS_Subset, FS_EmptySet, FS_CardinalityType, ThreadsAssumption
    <3> QED
      BY <3>2, BusyFinite, HeldBound
  <2>3. h \in Int /\ h >= 1 /\ h <= accepted
    BY <1>2, <1>7 DEF Connections
  <2>4. h \in (1..offered) \ Taken
    BY <1>2, <1>3, <1>7, <2>3
  <2>5. \A d \in 1..offered : d < h => d \in Taken
    BY <1>2, <1>3, <1>7, <2>3
  <2>6. Service!Start
    BY <1>1, <1>4, <2>1, <2>2, <2>4, <2>5, SameCardinality DEF Service!Start
  <2> QED
    BY <2>6 DEF Service!Next
<1> QED
  BY <1>6, <1>7

LEMMA RefineRelease ==
  ASSUME PoolInv, NEW w \in Workers, Release(w)
  PROVE  Service!Finish
<1>1. /\ closed' = closed \cup {fd[w]} /\ offered' = offered
      /\ wpc[w] = "release"
  BY DEF Release
<1>2. fd[w] \in Connections
  BY <1>1 DEF PoolInv, AccountsInv, WorkerFds
<1>3. fd[w] \in Held \ {ErrFd}
  BY <1>2, ConnectionFacts DEF Held, Busy
<1> QED
  BY <1>1, <1>3, OrderRelease DEF Service!Finish

LEMMA RefineStep ==
  PoolInv /\ [Next]_vars => [Service!Next]_(Service!vars)
<1> SUFFICES ASSUME PoolInv, [Next]_vars PROVE [Service!Next]_(Service!vars)
  OBVIOUS
<1>1. ASSUME NEW w \in Workers, WorkerStep(w) \/ GreetFails(w)
      PROVE  [Service!Next]_(Service!vars)
  <2>1. CASE Dequeue(w)
    BY <2>1, RefineDequeue
  <2>2. CASE Release(w)
    BY <2>2, RefineRelease DEF Service!Next
  <2>3. CASE \/ TestAtTop(w) \/ LookAtQueue(w) \/ WakeInterrupted(w) \/ TellOthers(w)
             \/ LeaveInterrupted(w) \/ Greet(w) \/ GreetFails(w) \/ EndSession(w)
    BY <2>3 DEF TestAtTop, LookAtQueue, WakeInterrupted, TellOthers, LeaveInterrupted,
                Greet, GreetFails, EndSession, Service!vars, Held, Busy
  <2> QED
    BY <1>1, <2>1, <2>2, <2>3 DEF WorkerStep
<1>2. CASE Connect
  BY <1>2 DEF Connect, Held, Busy, Service!Arrive, Service!Next
<1>3. CASE MainStep \/ AcceptFails \/ Sigint \/ SpuriousWake
  BY <1>3 DEF MainStep, CallAccept, Accept, AcceptFails, Quit, TakeSlot, Enqueue, Join,
              Sigint, SpuriousWake, Service!vars, Held, Busy
<1>4. CASE UNCHANGED vars
  BY <1>4 DEF vars, Service!vars, Held, Busy
<1> QED
  BY <1>1, <1>2, <1>3, <1>4 DEF Next

(* Clients are served in the order in which they connect, each by one      *)
(* worker and once, and never more than poolSize at a time, whichever      *)
(* accepts fail, clients break and signals come (L557-594, L264-281,       *)
(* L354).                                                                  *)
THEOREM ServiceInOrder == Spec => ServesInOrder
<1>1. Init => PoolInv
  BY AccountsInit, OrderInit DEF PoolInv
<1>2. PoolInv /\ [Next]_vars => PoolInv'
  BY AccountsStep, OrderStep DEF PoolInv
<1> QED
  BY <1>1, <1>2, RefineInit, RefineStep, PTL DEF Spec, ServesInOrder, Service!Spec
-----------------------------------------------------------------------------
(* The start-up of the pool.                                               *)

LEMMA StartupAssumed ==
  /\ IsFiniteSet(Workers) /\ Workers # {}
  /\ Main \notin Workers /\ Nobody \notin Workers \cup {Main}
  /\ MaxSig \in Nat
  BY ThreadsAssumption, StartupAssumption

LEMMA StartupPoolSize == poolSize = Cardinality(Workers)
  BY DEF poolSize

-----------------------------------------------------------------------------
(* The inductive invariant.                                                *)

(* Thread t is between the lock of m and its unlock.                       *)
Holds(t, m) ==
  \/ m = "mBarrier" /\ pc[t] \in {"arrive", "unlockBarrier", "test", "woken"}
  \/ m = "mQueue" /\ pc[t] = "wait"

(* The counter counts the workers that are past their increment of it.     *)
CounterAgrees == arrived = Cardinality(Arrived)

(* Unless a mutex was cleared under its holder, a thread that holds a      *)
(* mutex is its owner, so that nobody else holds it.                       *)
HoldersOwn ==
  evicted = {} =>
    \A m \in Mutexes : \A t \in Threads :
      Holds(t, m) => owner[m] = t /\ word[m] # 0

StartupIInv == StartupTypeOK /\ CounterAgrees /\ HoldersOwn /\ BarrierHolds /\ CrashOnlyIfCleared

PCs == PastBarrier \cup
       {"create", "unborn", "lockBarrier", "relock", "test", "woken", "initQueue",
        "running", "exited", "crashed", "arrive", "unlockBarrier"}

MutexTypes ==
  /\ word \in [Mutexes -> 0..2]
  /\ owner \in [Mutexes -> Threads \cup {Nobody}]
  /\ checking \in [Mutexes -> BOOLEAN]
  /\ asleep \in [Mutexes -> SUBSET Threads]
  /\ contended \in [Mutexes -> SUBSET Threads]

-----------------------------------------------------------------------------
(* Lemmas about the mutexes.                                               *)

LEMMA MutexesTyped == StartupTypeOK => MutexTypes /\ pc \in [Threads -> PCs]
BY DEF StartupTypeOK, MutexTypes, PCs

(* A thread that gets a mutex finds it free, and no other thread holds it; *)
(* one that does not get it goes to sleep where it is.                     *)
LEMMA LockKeeps ==
  ASSUME StartupTypeOK, HoldersOwn, evicted' = evicted,
         NEW t \in Threads, NEW m \in Mutexes, NEW l, NEW next \in PCs,
         Lock(t, m, l, next),
         \A k \in Mutexes : Holds(t, k)' => k = m \/ pc'[t] = pc[t]
  PROVE  /\ MutexTypes' /\ HoldersOwn'
         /\ pc' = pc \/ pc' = [pc EXCEPT ![t] = next]
<1>1. MutexTypes /\ pc \in [Threads -> PCs]
  BY MutexesTyped
<1>2. CASE word[m] = 0
  <2>1. /\ word' = [word EXCEPT ![m] = IF t \in contended[m] THEN 2 ELSE 1]
        /\ owner' = [owner EXCEPT ![m] = t]
        /\ contended' = [contended EXCEPT ![m] = @ \ {t}]
        /\ pc' = [pc EXCEPT ![t] = next]
        /\ UNCHANGED <<asleep, checking>>
    BY <1>2 DEF Lock, GoesOn
  <2>2. MutexTypes'
    BY <1>1, <2>1 DEF MutexTypes
  <2>3. HoldersOwn'
    <3> SUFFICES ASSUME evicted = {}, NEW k \in Mutexes, NEW u \in Threads, Holds(u, k)'
                 PROVE  owner'[k] = u /\ word'[k] # 0
      BY DEF HoldersOwn
    <3>1. CASE u = t /\ k = m
      BY <1>1, <2>1, <3>1 DEF MutexTypes
    <3>2. CASE u # t \/ k # m
      <4>1. Holds(u, k)
        BY <1>1, <2>1, <3>2 DEF Holds
      <4>2. k # m
        BY <1>2, <4>1 DEF HoldersOwn
      <4> QED
        BY <1>1, <2>1, <4>1, <4>2 DEF HoldersOwn, MutexTypes
    <3> QED
      BY <3>1, <3>2
  <2> QED
    BY <2>1, <2>2, <2>3
<1>3. CASE word[m] # 0
  <2>1. /\ word' = [word EXCEPT ![m] = 2]
        /\ asleep' = [asleep EXCEPT ![m] = @ \cup {t}]
        /\ contended' = [contended EXCEPT ![m] = @ \cup {t}]
        /\ UNCHANGED <<pc, owner, checking>>
    BY <1>3 DEF Lock
  <2>2. MutexTypes'
    BY <1>1, <2>1 DEF MutexTypes
  <2>3. HoldersOwn'
    BY <1>1, <2>1 DEF HoldersOwn, Holds, MutexTypes
  <2> QED
    BY <2>1, <2>2, <2>3
<1> QED
  BY <1>2, <1>3

(* An unlock by a holder is refused only if a mutex has been cleared.      *)
LEMMA UnlockKeeps ==
  ASSUME StartupTypeOK, HoldersOwn, evicted' = evicted,
         NEW t \in Threads, NEW m \in Mutexes, NEW l,
         NEW next \in {"relock", "initQueue", "exited", "top", "ready"},
         Unlock(t, m, l, next), Holds(t, m)
  PROVE  /\ MutexTypes' /\ HoldersOwn'
         /\ \/ pc' = [pc EXCEPT ![t] = next]
            \/ pc' = [pc EXCEPT ![Main] = "crashed"] /\ evicted # {}
<1>1. MutexTypes /\ pc \in [Threads -> PCs]
  BY MutexesTyped
<1>2. CASE UnlockRefused(t, m)
  <2>1. pc' = [pc EXCEPT ![Main] = "crashed"] /\ UNCHANGED mutexVars
    BY <1>2 DEF Unlock, Crash, GoesOn
  <2>2. evicted # {}
    BY <1>2 DEF UnlockRefused, HoldersOwn
  <2> QED
    BY <1>1, <2>1, <2>2 DEF HoldersOwn, MutexTypes, mutexVars
<1>3. CASE ~UnlockRefused(t, m)
  <2>1. /\ word' = [word EXCEPT ![m] = 0]
        /\ owner' = [owner EXCEPT ![m] = Nobody]
        /\ pc' = [pc EXCEPT ![t] = next]
        /\ UNCHANGED <<checking, contended>>
    BY <1>3 DEF Unlock, Unlocked, GoesOn
  <2>2. PICK woken \in Wakeable(m) : asleep' = [asleep EXCEPT ![m] = @ \ woken]
    BY <1>3 DEF Unlock, Unlocked
  <2>3. MutexTypes'
    BY <1>1, <2>1, <2>2 DEF MutexTypes
  <2>4. HoldersOwn'
    <3> SUFFICES ASSUME evicted = {}, NEW k \in Mutexes, NEW u \in Threads, Holds(u, k)'
                 PROVE  owner'[k] = u /\ word'[k] # 0
      BY DEF HoldersOwn
    <3>1. u # t /\ Holds(u, k)
      BY <1>1, <2>1 DEF Holds
    <3>2. k # m
      BY <3>1 DEF HoldersOwn
    <3> QED
      BY <1>1, <2>1, <3>1, <3>2 DEF HoldersOwn, MutexTypes
  <2> QED
    BY <2>1, <2>3, <2>4
<1> QED
  BY <1>2, <1>3

(* Clearing a mutex either evicts its holder or finds it free.             *)
LEMMA ClearKeeps ==
  ASSUME StartupTypeOK, HoldersOwn, NEW m \in Mutexes, Clear(m),
         NEW next \in {"lockBarrier", "running"}, pc' = [pc EXCEPT ![Main] = next]
  PROVE  /\ MutexTypes' /\ HoldersOwn'
         /\ evicted \subseteq evicted' /\ evicted' \subseteq Threads
         /\ stranded' \subseteq Threads
<1>1. MutexTypes /\ pc \in [Threads -> PCs]
  BY MutexesTyped
<1>2. /\ word' = [word EXCEPT ![m] = 0]
      /\ owner' = [owner EXCEPT ![m] = Nobody]
      /\ checking' = [checking EXCEPT ![m] = TRUE]
      /\ evicted' = evicted \cup ({owner[m]} \ {Nobody})
      /\ stranded' = stranded \cup asleep[m]
      /\ UNCHANGED <<asleep, contended>>
  BY DEF Clear, CheckingKind
<1>3. MutexTypes'
  BY <1>1, <1>2 DEF MutexTypes
<1>4. HoldersOwn'
  <2> SUFFICES ASSUME evicted' = {}, NEW k \in Mutexes, NEW u \in Threads, Holds(u, k)'
               PROVE  owner'[k] = u /\ word'[k] # 0
    BY DEF HoldersOwn
  <2>1. evicted = {} /\ owner[m] = Nobody
    BY <1>2
  <2>2. Holds(u, k)
    BY <1>1 DEF Holds
  <2>3. owner[k] = u /\ word[k] # 0 /\ k # m
    BY <2>1, <2>2, StartupAssumed DEF HoldersOwn, Threads
  <2> QED
    BY <1>1, <1>2, <2>3 DEF MutexTypes
<1> QED
  BY <1>1, <1>2, <1>3, <1>4 DEF StartupTypeOK, MutexTypes

-----------------------------------------------------------------------------
(* Lemmas about the barrier.                                               *)

LEMMA ArrivedFinite ==
  /\ Arrived \subseteq Workers
  /\ IsFiniteSet(Arrived) /\ Cardinality(Arrived) \in Nat
  /\ Cardinality(Arrived) <= poolSize /\ poolSize \in Nat
  /\ Cardinality(Arrived) >= poolSize => Arrived = Workers
<1>1. Arrived \subseteq Workers
  BY DEF Arrived
<1>2. IsFiniteSet(Arrived) /\ IsFiniteSet(Workers)
  BY <1>1, FS_Subset, StartupAssumed
<1>3. Cardinality(Arrived) \in Nat /\ poolSize \in Nat
  BY <1>2, FS_CardinalityType, StartupPoolSize, StartupAssumed
<1>4. /\ Cardinality(Arrived) <= Cardinality(Workers)
      /\ Cardinality(Workers) = Cardinality(Arrived) => Workers = Arrived
  BY <1>1, <1>2, FS_Subset
<1> QED
  BY <1>1, <1>2, <1>3, <1>4, StartupPoolSize

(* Steps in which nobody arrives.                                          *)
LEMMA ArrivedKept ==
  ASSUME CounterAgrees, arrived' = arrived,
         \A w \in Workers : pc'[w] \in PastBarrier \cup {"unlockBarrier"} <=>
                             pc[w] \in PastBarrier \cup {"unlockBarrier"}
  PROVE  Arrived' = Arrived /\ CounterAgrees'
<1>1. Arrived' = Arrived
  BY DEF Arrived
<1> QED
  BY <1>1 DEF CounterAgrees

LEMMA StartupStarts == StartupInit => StartupIInv
<1> SUFFICES ASSUME StartupInit PROVE StartupIInv
  OBVIOUS
<1>1. Arrived = {}
  BY DEF StartupInit, Arrived, PastBarrier, Threads
<1>2. arrived = Cardinality(Arrived) /\ arrived \in 0..poolSize
  BY <1>1, FS_EmptySet, ArrivedFinite DEF StartupInit
<1>3. HoldersOwn
  BY DEF StartupInit, HoldersOwn, Holds
<1>4. StartupTypeOK
  <2>1. pc \in [Threads -> PCs]
    BY DEF StartupInit, PCs
  <2>2. MutexTypes
    BY DEF StartupInit, MutexTypes
  <2>3. sigs \in 0..MaxSig /\ evicted \subseteq Threads /\ stranded \subseteq Threads
    BY StartupAssumed DEF StartupInit
  <2>4. cBarrier \in BOOLEAN /\ interrupt \in BOOLEAN
    BY Zenon DEF StartupInit
  <2> QED
    BY <1>2, <2>1, <2>2, <2>3, <2>4 DEF StartupTypeOK, PCs, MutexTypes
<1>5. BarrierHolds /\ CrashOnlyIfCleared
  BY DEF StartupInit, BarrierHolds, CrashOnlyIfCleared, Threads
<1> QED
  BY <1>2, <1>3, <1>4, <1>5 DEF StartupIInv, CounterAgrees

LEMMA StartupCreate ==
  ASSUME StartupIInv, NEW w \in Workers, Create(w)
  PROVE  StartupIInv'
<1> USE DEF StartupIInv
<1>1. /\ pc[w] = "unborn" /\ pc' = [pc EXCEPT ![w] = "lockBarrier"]
      /\ UNCHANGED <<arrived, cBarrier, word, owner, checking, asleep, contended,
                     interrupt, sigs, evicted, stranded>>
      /\ pc \in [Threads -> PCs] /\ w \in Threads /\ w # Main
  BY MutexesTyped, StartupAssumed DEF Create, GoesOn, mutexVars, historyVars, Threads
<1>2. Arrived' = Arrived /\ CounterAgrees'
  BY <1>1, ArrivedKept DEF Threads, PastBarrier
<1>3. HoldersOwn'
  BY <1>1 DEF HoldersOwn, Holds
<1>4. BarrierHolds' /\ CrashOnlyIfCleared'
  BY <1>1, <1>2 DEF BarrierHolds, CrashOnlyIfCleared
<1>5. pc' \in [Threads -> PCs]
  BY <1>1 DEF PCs
<1> QED
  BY <1>1, <1>2, <1>3, <1>4, <1>5 DEF StartupTypeOK, PCs

(* The main thread clears a mutex: L201 and L218.                          *)
LEMMA StartupClears ==
  ASSUME StartupIInv, InitBarrier \/ InitQueue
  PROVE  StartupIInv'
<1> USE DEF StartupIInv
<1>1. PICK m \in Mutexes, next \in {"lockBarrier", "running"} :
        /\ Clear(m) /\ pc' = [pc EXCEPT ![Main] = next]
        /\ next = "running" => pc[Main] = "initQueue"
  BY DEF InitBarrier, InitQueue, GoesOn, Mutexes
<1>2. UNCHANGED <<arrived, cBarrier, interrupt, sigs>>
  BY DEF InitBarrier, InitQueue
<1>3. /\ MutexTypes' /\ HoldersOwn'
      /\ evicted \subseteq evicted' /\ evicted' \subseteq Threads
      /\ stranded' \subseteq Threads
  BY <1>1, ClearKeeps
<1>4. pc \in [Threads -> PCs] /\ Main \in Threads
  BY MutexesTyped DEF Threads
<1>5. Arrived' = Arrived /\ CounterAgrees'
  BY <1>1, <1>2, <1>4, ArrivedKept, StartupAssumed DEF Threads
<1>6. pc' \in [Threads -> PCs] /\ pc'[Main] = next
  BY <1>1, <1>4 DEF PCs
<1>7. BarrierHolds' /\ CrashOnlyIfCleared'
  BY <1>1, <1>3, <1>5, <1>6 DEF BarrierHolds, CrashOnlyIfCleared
<1> QED
  BY <1>2, <1>3, <1>5, <1>6, <1>7 DEF StartupTypeOK, PCs, MutexTypes

(* Locks, by the main thread or by a worker.                               *)
LEMMA StartupLock ==
  ASSUME StartupIInv, NEW t \in Threads, NEW m \in Mutexes,
         NEW next \in {"woken", "test", "arrive", "wait"},
         Lock(t, m, pc[t], next),
         m = IF next = "wait" THEN "mQueue" ELSE "mBarrier",
         pc[t] \in IF next = "wait" THEN {"lockQueue"} ELSE {"lockBarrier", "relock"},
         UNCHANGED <<arrived, cBarrier, interrupt, sigs, evicted, stranded>>
  PROVE  StartupIInv'
<1> USE DEF StartupIInv
<1>1. pc \in [Threads -> PCs] /\ next \in PCs
  BY MutexesTyped DEF PCs, PastBarrier
<1>2. pc' = pc \/ pc' = [pc EXCEPT ![t] = next]
  BY DEF Lock, GoesOn
<1>3. MutexTypes' /\ HoldersOwn'
  <2>1. \A k \in Mutexes : Holds(t, k)' => k = m \/ pc'[t] = pc[t]
    BY <1>1, <1>2 DEF Holds
  <2> QED
    BY <1>1, <2>1, LockKeeps
<1>4. Arrived' = Arrived /\ CounterAgrees'
  <2>1. \A w \in Workers : pc'[w] \in PastBarrier \cup {"unlockBarrier"} <=>
                            pc[w] \in PastBarrier \cup {"unlockBarrier"}
    BY <1>1, <1>2 DEF PastBarrier, Threads
  <2> QED
    BY <2>1, ArrivedKept
<1>5. pc' \in [Threads -> PCs]
  BY <1>1, <1>2
<1>6. BarrierHolds' /\ CrashOnlyIfCleared'
  BY <1>1, <1>2, <1>4 DEF BarrierHolds, CrashOnlyIfCleared, Threads
<1> QED
  BY <1>3, <1>4, <1>5, <1>6 DEF StartupTypeOK, PCs, MutexTypes

LEMMA StartupLocks ==
  ASSUME StartupIInv, MainLock \/ \E w \in Workers : WorkerLock(w) \/ LockQueue(w)
  PROVE  StartupIInv'
<1>1. UNCHANGED <<arrived, cBarrier, interrupt, sigs, evicted, stranded>>
  BY DEF MainLock, WorkerLock, LockQueue, historyVars
<1>2. CASE MainLock
  <2>1. /\ pc[Main] \in {"lockBarrier", "relock"}
        /\ Lock(Main, "mBarrier", pc[Main],
                IF pc[Main] = "relock" THEN "woken" ELSE "test")
        /\ "mBarrier" \in Mutexes /\ Main \in Threads
    BY <1>2 DEF MainLock, Mutexes, Threads
  <2> QED
    BY <1>1, <2>1, StartupLock
<1>3. ASSUME NEW w \in Workers, WorkerLock(w) PROVE StartupIInv'
  <2>1. pc[w] = "lockBarrier" /\ Lock(w, "mBarrier", pc[w], "arrive")
    BY <1>3 DEF WorkerLock, Lock
  <2>2. w \in Threads /\ "mBarrier" \in Mutexes
    BY DEF Threads, Mutexes
  <2> QED
    BY <1>1, <2>1, <2>2, StartupLock
<1>4. ASSUME NEW w \in Workers, LockQueue(w) PROVE StartupIInv'
  <2>1. pc[w] = "lockQueue" /\ Lock(w, "mQueue", pc[w], "wait")
    BY <1>4 DEF LockQueue, Lock
  <2>2. w \in Threads /\ "mQueue" \in Mutexes
    BY DEF Threads, Mutexes
  <2> QED
    BY <1>1, <2>1, <2>2, StartupLock
<1> QED
  BY <1>2, <1>3, <1>4

(* Unlocks, and the waits on condition variables, which unlock too.        *)
LEMMA StartupUnlock ==
  ASSUME StartupIInv, NEW t \in Threads, NEW m \in Mutexes,
         NEW next \in {"relock", "initQueue", "exited", "top", "ready"},
         Unlock(t, m, pc[t], next), Holds(t, m),
         IF t = Main THEN next \in {"relock", "initQueue", "exited"}
                     ELSE pc[t] \in {"unlockBarrier", "wait"} /\ next \in {"top", "ready"},
         next = "initQueue" => BarrierOpen,
         cBarrier' \in BOOLEAN,
         UNCHANGED <<arrived, interrupt, sigs, evicted, stranded>>
  PROVE  StartupIInv'
<1> USE DEF StartupIInv
<1>1. pc \in [Threads -> PCs] /\ next \in PCs /\ "crashed" \in PCs /\ Main \in Threads
  BY MutexesTyped DEF PCs, PastBarrier, Threads
<1>2. /\ MutexTypes' /\ HoldersOwn'
      /\ \/ pc' = [pc EXCEPT ![t] = next]
         \/ pc' = [pc EXCEPT ![Main] = "crashed"] /\ evicted # {}
  BY UnlockKeeps
<1>3. Arrived' = Arrived /\ CounterAgrees'
  <2>1. \A w \in Workers : pc'[w] \in PastBarrier \cup {"unlockBarrier"} <=>
                            pc[w] \in PastBarrier \cup {"unlockBarrier"}
    BY <1>1, <1>2, StartupAssumed DEF PastBarrier, Threads
  <2> QED
    BY <2>1, ArrivedKept
<1>4. pc' \in [Threads -> PCs]
  BY <1>1, <1>2
<1>5. BarrierHolds'
  <2>1. pc'[Main] \in {"initQueue", "running"} =>
          pc[Main] \in {"initQueue", "running"} \/ BarrierOpen
    BY <1>1, <1>2
  <2>2. BarrierOpen => Arrived = Workers
    BY ArrivedFinite DEF BarrierOpen, CounterAgrees
  <2> QED
    BY <1>3, <2>1, <2>2 DEF BarrierHolds
<1>6. CrashOnlyIfCleared'
  BY <1>1, <1>2 DEF CrashOnlyIfCleared
<1> QED
  BY <1>2, <1>3, <1>4, <1>5, <1>6 DEF StartupTypeOK, PCs, MutexTypes

LEMMA StartupUnlocks ==
  ASSUME StartupIInv,
         \/ MainWait \/ MainPass \/ MainGivesUp
         \/ \E w \in Workers : WorkerUnlock(w) \/ WaitForWork(w)
  PROVE  StartupIInv'
<1>1. UNCHANGED <<arrived, interrupt, sigs, evicted, stranded>> /\ cBarrier' \in BOOLEAN
  BY DEF MainWait, MainPass, MainGivesUp, WorkerUnlock, WaitForWork, historyVars,
         StartupIInv, StartupTypeOK
<1>2. /\ Main \in Threads /\ Main \notin Workers /\ Workers \subseteq Threads
      /\ "mBarrier" \in Mutexes /\ "mQueue" \in Mutexes
  BY StartupAssumed DEF Threads, Mutexes
<1>3. CASE MainWait \/ MainPass \/ MainGivesUp
  <2>1. PICK next \in {"relock", "initQueue", "exited"} :
          /\ Unlock(Main, "mBarrier", pc[Main], next)
          /\ pc[Main] \in {"test", "woken"}
          /\ next = "initQueue" => BarrierOpen
    <3>1. CASE MainWait
      BY <3>1 DEF MainWait
    <3>2. CASE MainPass
      BY <3>2 DEF MainPass
    <3>3. CASE MainGivesUp
      BY <3>3 DEF MainGivesUp, Unlock
    <3> QED
      BY <1>3, <3>1, <3>2, <3>3
  <2>2. Holds(Main, "mBarrier")
    BY <2>1 DEF Holds
  <2> QED
    BY <1>1, <1>2, <2>1, <2>2, StartupUnlock
<1>4. ASSUME NEW w \in Workers, WorkerUnlock(w) PROVE StartupIInv'
  <2>1. pc[w] = "unlockBarrier" /\ Unlock(w, "mBarrier", pc[w], "top")
    BY <1>4 DEF WorkerUnlock, Unlock
  <2>2. Holds(w, "mBarrier") /\ w # Main
    BY <1>2, <2>1 DEF Holds
  <2> QED
    BY <1>1, <1>2, <2>1, <2>2, StartupUnlock
<1>5. ASSUME NEW w \in Workers, WaitForWork(w) PROVE StartupIInv'
  <2>1. pc[w] = "wait" /\ Unlock(w, "mQueue", pc[w], "ready")
    BY <1>5 DEF WaitForWork, Unlock
  <2>2. Holds(w, "mQueue") /\ w # Main
    BY <1>2, <2>1 DEF Holds
  <2> QED
    BY <1>1, <1>2, <2>1, <2>2, StartupUnlock
<1> QED
  BY <1>3, <1>4, <1>5

LEMMA StartupArrive ==
  ASSUME StartupIInv, NEW w \in Workers, Arrive(w)
  PROVE  StartupIInv'
<1> USE DEF StartupIInv
<1>1. /\ pc[w] = "arrive" /\ pc' = [pc EXCEPT ![w] = "unlockBarrier"]
      /\ arrived' = arrived + 1 /\ cBarrier' = FALSE
      /\ UNCHANGED <<word, owner, checking, asleep, interrupt, sigs, evicted, stranded>>
      /\ pc \in [Threads -> PCs] /\ MutexTypes
      /\ w \in Threads /\ w # Main /\ Main \in Threads
  BY MutexesTyped, StartupAssumed
     DEF Arrive, GoesOn, ArrivedAndOne, BlockedAfterArrival, historyVars, Threads
<1>2. contended' \in [Mutexes -> SUBSET Threads]
  BY <1>1 DEF Arrive, MutexTypes
<1>3. pc' \in [Threads -> PCs]
  BY <1>1 DEF PCs
<1>4. Arrived' = Arrived \cup {w} /\ w \notin Arrived
  BY <1>1 DEF Arrived, PastBarrier, Threads
<1>5. CounterAgrees' /\ arrived' \in 0..poolSize
  <2>1. Cardinality(Arrived') = Cardinality(Arrived) + 1
    BY <1>4, ArrivedFinite, FS_AddElement
  <2>2. Arrived' \subseteq Workers
    BY <1>4, ArrivedFinite
  <2>3. Cardinality(Arrived') <= poolSize
    BY <2>2, FS_Subset, StartupAssumed, StartupPoolSize
  <2> QED
    BY <1>1, <2>1, <2>3, ArrivedFinite DEF CounterAgrees
<1>6. HoldersOwn'
  BY <1>1 DEF HoldersOwn, Holds
<1>7. BarrierHolds' /\ CrashOnlyIfCleared'
  BY <1>1, <1>4, ArrivedFinite DEF BarrierHolds, CrashOnlyIfCleared
<1> QED
  BY <1>1, <1>2, <1>3, <1>5, <1>6, <1>7 DEF StartupTypeOK, PCs, MutexTypes

LEMMA StartupTestAtTop ==
  ASSUME StartupIInv, NEW w \in Workers, FirstTest(w)
  PROVE  StartupIInv'
<1> USE DEF StartupIInv
<1>1. PICK next \in {"done", "lockQueue"} : pc' = [pc EXCEPT ![w] = next]
  BY DEF FirstTest, GoesOn
<1>2. /\ pc[w] = "top"
      /\ UNCHANGED <<arrived, cBarrier, word, owner, checking, asleep, contended,
                     interrupt, sigs, evicted, stranded>>
      /\ pc \in [Threads -> PCs] /\ w \in Threads /\ w # Main
  BY MutexesTyped, StartupAssumed DEF FirstTest, mutexVars, historyVars, Threads
<1>3. Arrived' = Arrived /\ CounterAgrees'
  <2>1. \A v \in Workers : pc'[v] \in PastBarrier \cup {"unlockBarrier"} <=>
                            pc[v] \in PastBarrier \cup {"unlockBarrier"}
    BY <1>1, <1>2 DEF PastBarrier, Threads
  <2> QED
    BY <1>2, <2>1, ArrivedKept
<1>4. HoldersOwn'
  BY <1>1, <1>2 DEF HoldersOwn, Holds
<1>5. BarrierHolds' /\ CrashOnlyIfCleared'
  BY <1>1, <1>2, <1>3 DEF BarrierHolds, CrashOnlyIfCleared
<1>6. pc' \in [Threads -> PCs]
  BY <1>1, <1>2 DEF PCs, PastBarrier
<1> QED
  BY <1>2, <1>3, <1>4, <1>5, <1>6 DEF StartupTypeOK, PCs

(* Wakes without a signal, SIGINT and stuttering.                          *)
LEMMA StartupOther ==
  ASSUME StartupIInv, MainWakesUnasked \/ StartupSigint \/ UNCHANGED startupVars
  PROVE  StartupIInv'
<1> USE DEF StartupIInv
<1>1. UNCHANGED <<pc, arrived, word, owner, checking, asleep, evicted, stranded>>
  BY DEF MainWakesUnasked, StartupSigint, startupVars, mutexVars, historyVars
<1>2. cBarrier' \in BOOLEAN /\ interrupt' \in BOOLEAN
  BY DEF MainWakesUnasked, StartupSigint, startupVars, StartupTypeOK
<1>3. sigs' \in 0..MaxSig
  BY StartupAssumed DEF MainWakesUnasked, StartupSigint, startupVars, StartupTypeOK
<1>4. contended' \in [Mutexes -> SUBSET Threads]
  BY DEF MainWakesUnasked, StartupSigint, startupVars, mutexVars, StartupTypeOK, Threads
<1>5. Arrived' = Arrived
  BY <1>1 DEF Arrived
<1> QED
  BY <1>1, <1>2, <1>3, <1>4, <1>5
     DEF StartupTypeOK, CounterAgrees, HoldersOwn, Holds, BarrierHolds, CrashOnlyIfCleared

LEMMA StartupStep == StartupIInv /\ [StartupNext]_startupVars => StartupIInv'
<1> SUFFICES ASSUME StartupIInv, [StartupNext]_startupVars PROVE StartupIInv'
  OBVIOUS
<1>1. CASE MainComesUp
  BY <1>1, StartupCreate, StartupClears, StartupLocks, StartupUnlocks DEF MainComesUp
<1>2. ASSUME NEW w \in Workers, WorkerComesUp(w) PROVE StartupIInv'
  BY <1>2, StartupArrive, StartupTestAtTop, StartupLocks, StartupUnlocks DEF WorkerComesUp
<1> QED
  BY <1>1, <1>2, StartupOther DEF StartupNext

-----------------------------------------------------------------------------
(* Whatever becomes of the mutexes that are initialised while the workers  *)
(* use them, the main thread passes the barrier after all the workers      *)
(* (L200-214, L249), and the server ends by an error of an unlock only if  *)
(* a mutex was cleared under the thread that held it (L201, L218).         *)
THEOREM StartupSafe == StartupSpec => []StartupInv
<1>1. StartupIInv => StartupInv
  BY DEF StartupIInv, StartupInv
<1> QED
  BY StartupStarts, StartupStep, <1>1, PTL DEF StartupSpec
=============================================================================
