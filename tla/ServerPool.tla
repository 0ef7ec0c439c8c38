----------------------------- MODULE ServerPool -----------------------------
(***************************************************************************)
(* The server's accept loop and thread pool: server_loop, thread_pool_join *)
(* and the pool's side of thread_pool_handler in Final/Server/main.c, over *)
(* the queue of Final/Server/queue/queue.c, with SIGINT.  The main thread  *)
(* accepts connections and hands them to worker threads through the queue; *)
(* the counter `available' holds it back when every worker is busy.        *)
(*                                                                         *)
(* mAvailable is held only over code that does not block, so a critical    *)
(* section of it is one action.  mQueue is a variable because a worker can *)
(* leave the loop without giving it back.  A session (L296-351) is one     *)
(* step here: what its messages are does not matter to the pool.           *)
(***************************************************************************)
EXTENDS ServerThreads, Sequences

CONSTANTS MaxConn,     \* bound: connections clients make
          MaxErr,      \* bound: accepts that fail for another reason than SIGINT
          MaxBroken    \* bound: START notifications that cannot be written

ASSUME BoundsAssumption == MaxConn \in Nat /\ MaxErr \in Nat /\ MaxBroken \in Nat

NoFd == 0             \* a thread that holds no connection
ErrFd == -1           \* what accept returns when it fails
Connections == 1..MaxConn

VARIABLES
  mainPc,       \* where the main thread is in server_loop
  clientfd,     \* what accept returned last
  available,    \* the counter of free workers
  mainBlocked,  \* the main thread is blocked on the condition variable cAvailable
  queue,        \* connections handed over, oldest first
  mQueue,       \* owner of the mutex mQueue
  cQueue,       \* workers blocked on the condition variable cQueue
  wpc,          \* wpc[w]: where worker w is in thread_pool_handler
  fd,           \* fd[w]: the connection w took off the queue
  offered,      \* connections made so far, in the order accept returns them
  accepted,     \* connections accepted so far
  closed,       \* connections closed by their worker
  errs, broken

mainVars == <<mainPc, clientfd, available, mainBlocked>>
envVars  == <<errs, broken, sigs>>
vars == <<mainPc, clientfd, available, mainBlocked, queue, mQueue, cQueue,
          wpc, fd, interrupt, offered, accepted, closed, errs, broken, sigs>>

MainPCs == {"loop", "accept", "accepted", "takeSlot", "waitSlot", "enqueue",
            "join", "exited"}
WorkerPCs == {"top", "lockQueue", "waitQueue", "gotQueue", "tellOthers",
              "gotFd", "serve", "release", "done"}

(* The pool has just been created by init_component; every worker is past  *)
(* the start-up barrier.                                                   *)
Init ==
  /\ mainPc = "loop" /\ clientfd = NoFd
  /\ available = poolSize /\ mainBlocked = FALSE
  /\ queue = <<>> /\ mQueue = Nobody /\ cQueue = {}
  /\ wpc = [w \in Workers |-> "top"] /\ fd = [w \in Workers |-> NoFd]
  /\ interrupt = FALSE
  /\ offered = 0 /\ accepted = 0 /\ closed = {}
  /\ errs = 0 /\ broken = 0 /\ sigs = 0

-----------------------------------------------------------------------------
(* Seeded faults, which the properties are tried against: an off-by-one, a *)
(* counter not given back or given back twice, a wake-up left out, a stack *)
(* in the place of the queue.                                              *)
BadSlotsUnchanged      == available
BadNoBroadcast         == cQueue
BadNoSignal            == mainBlocked
BadEnqueued(f)         == <<f>> \o queue

MustWaitForSlot   == available <= 0
SlotsAfterRelease == available + 1
Enqueued(f)       == Append(queue, f)

(* Who is still blocked after the broadcast of L593 and the signal of L355.*)
BlockedAfterEnqueue == {}
BlockedAfterRelease == FALSE

-----------------------------------------------------------------------------
(* The main thread.                                                        *)

(* The loop comes to accept, which blocks while nobody connects.           *)
CallAccept ==
  /\ mainPc = "loop"
  /\ mainPc' = "accept"
  /\ UNCHANGED <<clientfd, available, mainBlocked, queue, mQueue, cQueue, wpc, fd,
                 interrupt, offered, accepted, closed, envVars>>

Accept ==
  /\ mainPc = "accept" /\ accepted < offered
  /\ accepted' = accepted + 1
  /\ clientfd' = accepted + 1
  /\ mainPc' = "accepted"
  /\ UNCHANGED <<available, mainBlocked, queue, mQueue, cQueue, wpc, fd,
                 interrupt, offered, closed, envVars>>

(* accept fails, as when the process is out of file descriptors.           *)
AcceptFails ==
  /\ mainPc = "accept" /\ errs < MaxErr
  /\ errs' = errs + 1
  /\ clientfd' = ErrFd
  /\ mainPc' = "accepted"
  /\ UNCHANGED <<available, mainBlocked, queue, mQueue, cQueue, wpc, fd,
                 interrupt, offered, accepted, closed, broken, sigs>>

Quitting == interrupt /\ clientfd = ErrFd

(* SIGINT interrupted accept: wake the workers, without mQueue, and leave. *)
Quit ==
  /\ mainPc = "accepted" /\ Quitting
  /\ cQueue' = {}
  /\ mainPc' = "join"
  /\ UNCHANGED <<clientfd, available, mainBlocked, queue, mQueue, wpc, fd,
                 interrupt, offered, accepted, closed, envVars>>

(* From the lock of mAvailable, or the return of the wait in it, to its    *)
(* unlock or to the next wait.  A wait that returns after SIGINT leaves    *)
(* the loop whether a slot is free or not.                                 *)
TakeSlot ==
  /\ \/ mainPc = "accepted" /\ ~Quitting
     \/ mainPc = "waitSlot" /\ ~mainBlocked
  /\ \/ /\ MustWaitForSlot /\ (mainPc = "accepted" \/ ~interrupt)
        /\ mainBlocked' = TRUE
        /\ mainPc' = "waitSlot"
        /\ UNCHANGED available
     \/ /\ ~MustWaitForSlot \/ (mainPc = "waitSlot" /\ interrupt)
        /\ available' = available - 1
        /\ mainPc' = "enqueue"
        /\ UNCHANGED mainBlocked
  /\ UNCHANGED <<clientfd, queue, mQueue, cQueue, wpc, fd,
                 interrupt, offered, accepted, closed, envVars>>

Enqueue ==
  /\ mainPc = "enqueue" /\ mQueue = Nobody
  /\ queue' = Enqueued(clientfd)
  /\ cQueue' = BlockedAfterEnqueue
  /\ mainPc' = "loop"
  /\ UNCHANGED <<clientfd, available, mainBlocked, mQueue, wpc, fd,
                 interrupt, offered, accepted, closed, envVars>>

Join ==
  /\ mainPc = "join" /\ \A w \in Workers : wpc[w] = "done"
  /\ mainPc' = "exited"
  /\ UNCHANGED <<clientfd, available, mainBlocked, queue, mQueue, cQueue, wpc, fd,
                 interrupt, offered, accepted, closed, envVars>>

MainStep == CallAccept \/ Accept \/ Quit \/ TakeSlot \/ Enqueue \/ Join

-----------------------------------------------------------------------------
(* A worker thread.                                                        *)

Goto(w, l) == wpc' = [wpc EXCEPT ![w] = l]

TestAtTop(w) ==
  /\ wpc[w] = "top"
  /\ Goto(w, IF interrupt THEN "done" ELSE "lockQueue")
  /\ UNCHANGED <<mainVars, queue, mQueue, cQueue, fd, interrupt, offered,
                 accepted, closed, envVars>>

(* From the lock, or the return of cond_wait without a SIGINT, to the next *)
(* cond_wait or to the end of the loop, where w holds mQueue.              *)
LookAtQueue(w) ==
  /\ mQueue = Nobody
  /\ \/ wpc[w] = "lockQueue"
     \/ wpc[w] = "waitQueue" /\ w \notin cQueue /\ ~interrupt
  /\ \/ /\ queue = <<>>
        /\ cQueue' = cQueue \cup {w}
        /\ Goto(w, "waitQueue")
        /\ UNCHANGED mQueue
     \/ /\ queue # <<>>
        /\ mQueue' = w
        /\ Goto(w, "gotQueue")
        /\ UNCHANGED cQueue
  /\ UNCHANGED <<mainVars, queue, fd, interrupt, offered, accepted, closed, envVars>>

(* cond_wait returns after SIGINT: mQueue is unlocked again, and then the  *)
(* other waiters are woken.                                                *)
WakeInterrupted(w) ==
  /\ mQueue = Nobody
  /\ wpc[w] = "waitQueue" /\ w \notin cQueue /\ interrupt
  /\ Goto(w, "tellOthers")
  /\ UNCHANGED <<mainVars, queue, mQueue, cQueue, fd, interrupt, offered,
                 accepted, closed, envVars>>

TellOthers(w) ==
  /\ wpc[w] = "tellOthers"
  /\ cQueue' = {}
  /\ Goto(w, "done")
  /\ UNCHANGED <<mainVars, queue, mQueue, fd, interrupt, offered, accepted,
                 closed, envVars>>

(* L273-275: the thread ends, and mQueue stays locked.                     *)
LeaveInterrupted(w) ==
  /\ wpc[w] = "gotQueue" /\ interrupt
  /\ Goto(w, "done")
  /\ UNCHANGED <<mainVars, queue, mQueue, cQueue, fd, interrupt, offered,
                 accepted, closed, envVars>>

(* An accept error that was queued looks like an empty queue: L278-281.    *)
Dequeue(w) ==
  /\ wpc[w] = "gotQueue" /\ ~interrupt
  /\ fd' = [fd EXCEPT ![w] = Head(queue)]
  /\ queue' = Tail(queue)
  /\ mQueue' = Nobody
  /\ Goto(w, IF Head(queue) = ErrFd THEN "done" ELSE "gotFd")
  /\ UNCHANGED <<mainVars, cQueue, interrupt, offered, accepted, closed, envVars>>

(* After SIGINT the thread drops its connection; otherwise it greets the   *)
(* client and serves it.                                                   *)
Greet(w) ==
  /\ wpc[w] = "gotFd"
  /\ Goto(w, IF interrupt THEN "done" ELSE "serve")
  /\ UNCHANGED <<mainVars, queue, mQueue, cQueue, fd, interrupt, offered,
                 accepted, closed, envVars>>

(* The client has gone and START cannot be written: the thread ends.       *)
GreetFails(w) ==
  /\ wpc[w] = "gotFd" /\ ~interrupt /\ broken < MaxBroken
  /\ broken' = broken + 1
  /\ Goto(w, "done")
  /\ UNCHANGED <<mainVars, queue, mQueue, cQueue, fd, interrupt, offered,
                 accepted, closed, errs, sigs>>

EndSession(w) ==
  /\ wpc[w] = "serve"
  /\ Goto(w, "release")
  /\ UNCHANGED <<mainVars, queue, mQueue, cQueue, fd, interrupt, offered,
                 accepted, closed, envVars>>

Release(w) ==
  /\ wpc[w] = "release"
  /\ available' = SlotsAfterRelease
  /\ mainBlocked' = BlockedAfterRelease
  /\ closed' = closed \cup {fd[w]}
  /\ fd' = [fd EXCEPT ![w] = NoFd]
  /\ Goto(w, "top")
  /\ UNCHANGED <<mainPc, clientfd, queue, mQueue, cQueue, interrupt, offered,
                 accepted, envVars>>

WorkerStep(w) ==
  \/ TestAtTop(w) \/ LookAtQueue(w) \/ WakeInterrupted(w) \/ TellOthers(w)
  \/ LeaveInterrupted(w) \/ Dequeue(w) \/ Greet(w) \/ EndSession(w) \/ Release(w)

-----------------------------------------------------------------------------
(* The environment.                                                        *)

Connect ==
  /\ offered < MaxConn /\ mainPc # "exited"
  /\ offered' = offered + 1
  /\ UNCHANGED <<mainVars, queue, mQueue, cQueue, wpc, fd, interrupt, accepted,
                 closed, envVars>>

(* The handler runs on the main thread and sets the flag; an accept that   *)
(* is blocked returns with EINTR, a cond_wait goes on waiting.             *)
Sigint ==
  /\ sigs < MaxSig /\ mainPc # "exited"
  /\ sigs' = sigs + 1
  /\ interrupt' = TRUE
  /\ IF mainPc = "accept"
       THEN mainPc' = "accepted" /\ clientfd' = ErrFd
       ELSE UNCHANGED <<mainPc, clientfd>>
  /\ UNCHANGED <<available, mainBlocked, queue, mQueue, cQueue, wpc, fd, offered,
                 accepted, closed, errs, broken>>

SpuriousWake ==
  /\ \/ /\ mainBlocked /\ mainBlocked' = FALSE
        /\ UNCHANGED cQueue
     \/ /\ \E w \in cQueue : cQueue' = cQueue \ {w}
        /\ UNCHANGED mainBlocked
  /\ UNCHANGED <<mainPc, clientfd, available, queue, mQueue, wpc, fd, interrupt,
                 offered, accepted, closed, envVars>>

Next == \/ MainStep \/ AcceptFails
        \/ \E w \in Workers : WorkerStep(w) \/ GreetFails(w)
        \/ Connect \/ Sigint \/ SpuriousWake

Spec == Init /\ [][Next]_vars

(* Threads that can run do run, and clients end their sessions.            *)
FairSpec == /\ Spec
            /\ WF_vars(MainStep)
            /\ \A w \in Workers : WF_vars(WorkerStep(w))

-----------------------------------------------------------------------------
Busy == {w \in Workers : fd[w] # NoFd}
Held == {fd[w] : w \in Busy}

TypeOK ==
  /\ mainPc \in MainPCs
  /\ clientfd \in Connections \cup {NoFd, ErrFd}
  /\ available \in Int /\ available <= poolSize
  /\ mainBlocked \in BOOLEAN
  /\ queue \in Seq(Connections \cup {ErrFd})
  /\ mQueue \in Workers \cup {Nobody}
  /\ cQueue \subseteq Workers
  /\ wpc \in [Workers -> WorkerPCs]
  /\ fd \in [Workers -> Connections \cup {NoFd, ErrFd}]
  /\ interrupt \in BOOLEAN
  /\ offered \in 0..MaxConn /\ accepted \in 0..offered
  /\ closed \subseteq Connections
  /\ errs \in 0..MaxErr /\ broken \in 0..MaxBroken /\ sigs \in 0..MaxSig

(* Every slot of the pool is either free, or taken for the connection the  *)
(* main thread is handing over, for one in the queue or for one a worker   *)
(* holds, whichever errors and signals happen (L225, L565-586, L277, L354).*)
SlotAccounting ==
  available + (IF mainPc = "enqueue" THEN 1 ELSE 0) + Len(queue) + Cardinality(Busy)
    = poolSize

(* The queue never holds more connections than there are workers to take   *)
(* them, until SIGINT.                                                     *)
QueueHasWorkers == ~interrupt => Len(queue) <= Cardinality(Workers \ Busy)

(* The pool's accounts: whatever errors and signals happen, slots are      *)
(* neither lost nor made, and before SIGINT no connection is queued that   *)
(* no worker can take (L565-586).                                          *)
SlotsTally == TypeOK /\ SlotAccounting /\ QueueHasWorkers

(* Nobody is left blocked with something to do: workers while a connection *)
(* is queued (L264-265 against L585-593), the main thread while a slot is  *)
(* free (L565-570 against L353-356).                                       *)
NoMissedWakeup == /\ cQueue # {} => queue = <<>>
                  /\ mainBlocked => available <= 0

(* The clients are served in order, each by one worker and once, and never *)
(* more than poolSize at a time.                                           *)
Service == INSTANCE ConnectionService
             WITH PoolSize <- poolSize, serving <- Held \ {ErrFd}
ServesInOrder == Service!Spec

(* Every client is served or its greeting failed, unless SIGINT came or    *)
(* errors have ended every worker (each error ends one).                   *)
EveryConnectionServed ==
  \A c \in Connections :
    offered >= c ~> \/ c \in closed
                    \/ \E w \in Workers : fd[w] = c /\ wpc[w] = "done"
                    \/ interrupt \/ \A w \in Workers : wpc[w] = "done"

-----------------------------------------------------------------------------
(* Final/Report/Report.tex:334: after SIGINT the main thread goes "as soon *)
(* as possible to exiting from the server" and "waits for [the threads] to *)
(* be returned".  The code does not: SIGINT may come outside of accept     *)
(* (L555-556), the broadcast before a worker waits (L560), and a worker    *)
(* may return with mQueue locked (L273-275).                               *)
SigintEndsServer == interrupt ~> mainPc = "exited"
=============================================================================
