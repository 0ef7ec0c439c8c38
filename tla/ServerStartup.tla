--------------------------- MODULE ServerStartup ---------------------------
(***************************************************************************)
(* init_component of Final/Server/main.c and the first lines of            *)
(* thread_pool_handler: the main thread creates the worker threads and     *)
(* only afterwards initialises the mutexes they use, mBarrier (L201) and   *)
(* mQueue (L218).  Until then both are static zero-filled mutexes, which   *)
(* glibc takes for unlocked mutexes of the default kind.                   *)
(*                                                                         *)
(* What pthread_mutex_init does to a mutex in use is undefined; modelled   *)
(* is what glibc makes of it.  A mutex has a lock word, 0 free, 1 locked,  *)
(* 2 locked with threads asleep on it, an owner and a kind.  The init      *)
(* clears all of it: sleepers stay asleep, uncounted, and the unlock of    *)
(* the thread that held the mutex finds an error-checking mutex that is    *)
(* not its own, fails with EPERM, and the x_ wrapper ends the process.     *)
(***************************************************************************)
EXTENDS ServerThreads

CONSTANT Main         \* the main thread

ASSUME StartupAssumption == Main \notin Workers \cup {Nobody}

Threads == Workers \cup {Main}
Mutexes == {"mBarrier", "mQueue"}

VARIABLES
  pc,         \* pc[t]: where thread t is
  arrived,    \* the counter of the barrier
  cBarrier,   \* the main thread is blocked on the condition variable cBarrier
  word,       \* word[m]: the lock word of mutex m
  owner,      \* owner[m]: the thread m says it belongs to
  checking,   \* checking[m]: m is of kind PTHREAD_MUTEX_ERRORCHECK
  asleep,     \* asleep[m]: threads asleep until an unlock of m wakes them
  contended,  \* contended[m]: threads that take m with the word 2, having slept
              \*   on it or waited on its condition variable
  evicted,    \* history: threads that held a mutex when it was cleared
  stranded    \* history: threads that slept on a mutex when it was cleared

mutexVars == <<word, owner, checking, asleep, contended>>
historyVars == <<evicted, stranded>>
startupVars == <<pc, arrived, cBarrier, word, owner, checking, asleep, contended,
                 interrupt, sigs, evicted, stranded>>

StartupInit ==
  /\ pc = [t \in Threads |-> IF t = Main THEN "create" ELSE "unborn"]
  /\ arrived = 0 /\ cBarrier = FALSE
  /\ word = [m \in Mutexes |-> 0]
  /\ owner = [m \in Mutexes |-> Nobody]
  /\ checking = [m \in Mutexes |-> FALSE]
  /\ asleep = [m \in Mutexes |-> {}]
  /\ contended = [m \in Mutexes |-> {}]
  /\ interrupt = FALSE /\ sigs = 0
  /\ evicted = {} /\ stranded = {}

Running == pc[Main] \notin {"crashed", "exited"}
GoesOn(t, l) == pc' = [pc EXCEPT ![t] = l]

-----------------------------------------------------------------------------
(* Seeded faults, which the properties are tried against: an off-by-one, a *)
(* double count, a signal left out, the default kind of mutex, a wait with *)
(* the wrong mutex (below).                                                *)
BadStillBlocked      == cBarrier

BarrierOpen          == arrived >= poolSize
ArrivedAndOne        == arrived + 1
BlockedAfterArrival  == FALSE    \* L250 signals cBarrier
CheckingKind         == TRUE     \* L173 chooses PTHREAD_MUTEX_ERRORCHECK

-----------------------------------------------------------------------------
(* glibc's mutexes.                                                        *)

(* Thread t at label l locks m, going on at label next.                    *)
Lock(t, m, l, next) ==
  /\ pc[t] = l /\ t \notin asleep[m]
  /\ \/ /\ word[m] = 0
        /\ word' = [word EXCEPT ![m] = IF t \in contended[m] THEN 2 ELSE 1]
        /\ owner' = [owner EXCEPT ![m] = t]
        /\ contended' = [contended EXCEPT ![m] = @ \ {t}]
        /\ GoesOn(t, next)
        /\ UNCHANGED asleep
     \/ /\ word[m] # 0
        /\ word' = [word EXCEPT ![m] = 2]
        /\ asleep' = [asleep EXCEPT ![m] = @ \cup {t}]
        /\ contended' = [contended EXCEPT ![m] = @ \cup {t}]
        /\ UNCHANGED <<pc, owner>>
  /\ UNCHANGED checking

UnlockRefused(t, m) == checking[m] /\ (owner[m] # t \/ word[m] = 0)

(* Who an unlock can wake: one sleeper, if the word says there are any.    *)
Wakeable(m) == IF word[m] = 2 /\ asleep[m] # {} THEN {{t} : t \in asleep[m]} ELSE {{}}

(* The effect of an unlock that is not refused.                            *)
Unlocked(m) ==
  /\ word' = [word EXCEPT ![m] = 0]
  /\ owner' = [owner EXCEPT ![m] = Nobody]
  /\ \E woken \in Wakeable(m) : asleep' = [asleep EXCEPT ![m] = @ \ woken]
  /\ UNCHANGED checking

(* The x_ wrappers report an error and call exit.                          *)
Crash == GoesOn(Main, "crashed") /\ UNCHANGED mutexVars

(* Thread t at label l unlocks m and goes on at label next.                *)
Unlock(t, m, l, next) ==
  /\ pc[t] = l
  /\ IF UnlockRefused(t, m)
       THEN Crash
       ELSE Unlocked(m) /\ GoesOn(t, next) /\ UNCHANGED contended

(* pthread_mutex_init with the error-checking attribute.                   *)
Clear(m) ==
  /\ word' = [word EXCEPT ![m] = 0]
  /\ owner' = [owner EXCEPT ![m] = Nobody]
  /\ checking' = [checking EXCEPT ![m] = CheckingKind]
  /\ evicted' = evicted \cup ({owner[m]} \ {Nobody})
  /\ stranded' = stranded \cup asleep[m]
  /\ UNCHANGED <<asleep, contended>>

-----------------------------------------------------------------------------
(* The main thread.                                                        *)

Create(w) ==
  /\ pc[Main] = "create" /\ pc[w] = "unborn"
  /\ GoesOn(w, "lockBarrier")
  /\ UNCHANGED <<arrived, cBarrier, mutexVars, interrupt, sigs, historyVars>>

InitBarrier ==
  /\ pc[Main] = "create" /\ \A w \in Workers : pc[w] # "unborn"
  /\ Clear("mBarrier")
  /\ GoesOn(Main, "lockBarrier")
  /\ UNCHANGED <<arrived, cBarrier, interrupt, sigs>>

MainLock ==
  /\ pc[Main] \in {"lockBarrier", "relock"} /\ ~cBarrier
  /\ Lock(Main, "mBarrier", pc[Main],
          IF pc[Main] = "relock" THEN "woken" ELSE "test")
  /\ UNCHANGED <<arrived, cBarrier, interrupt, sigs, historyVars>>

(* The wait on cBarrier gives mBarrier back.                               *)
MainWait ==
  /\ ~BarrierOpen
  /\ pc[Main] = "test" \/ (pc[Main] = "woken" /\ ~interrupt)
  /\ Unlock(Main, "mBarrier", pc[Main], "relock")
  /\ cBarrier' = (pc'[Main] = "relock")
  /\ UNCHANGED <<arrived, interrupt, sigs, historyVars>>

MainPass ==
  /\ BarrierOpen
  /\ pc[Main] = "test" \/ (pc[Main] = "woken" /\ ~interrupt)
  /\ Unlock(Main, "mBarrier", pc[Main], "initQueue")
  /\ UNCHANGED <<arrived, cBarrier, interrupt, sigs, historyVars>>

(* SIGINT is noticed after a wait: unlock and exit.                        *)
MainGivesUp ==
  /\ interrupt
  /\ Unlock(Main, "mBarrier", "woken", "exited")
  /\ UNCHANGED <<arrived, cBarrier, interrupt, sigs, historyVars>>

(* The mutexes mRW and mAvailable, which are initialised next, are used by *)
(* nobody before the main thread accepts a connection.                     *)
InitQueue ==
  /\ pc[Main] = "initQueue"
  /\ Clear("mQueue")
  /\ GoesOn(Main, "running")
  /\ UNCHANGED <<arrived, cBarrier, interrupt, sigs>>

MainComesUp == \/ \E w \in Workers : Create(w)
               \/ InitBarrier \/ MainLock \/ MainWait \/ MainPass \/ MainGivesUp
               \/ InitQueue

-----------------------------------------------------------------------------
(* A worker thread.                                                        *)

WorkerLock(w) ==
  /\ Running /\ Lock(w, "mBarrier", "lockBarrier", "arrive")
  /\ UNCHANGED <<arrived, cBarrier, interrupt, sigs, historyVars>>

Arrive(w) ==
  /\ Running /\ pc[w] = "arrive"
  /\ arrived' = ArrivedAndOne
  /\ cBarrier' = BlockedAfterArrival
  /\ contended' = IF cBarrier THEN [contended EXCEPT !["mBarrier"] = @ \cup {Main}]
                              ELSE contended
  /\ GoesOn(w, "unlockBarrier")
  /\ UNCHANGED <<word, owner, checking, asleep, interrupt, sigs, historyVars>>

WorkerUnlock(w) ==
  /\ Running /\ Unlock(w, "mBarrier", "unlockBarrier", "top")
  /\ UNCHANGED <<arrived, cBarrier, interrupt, sigs, historyVars>>

FirstTest(w) ==
  /\ Running /\ pc[w] = "top"
  /\ GoesOn(w, IF interrupt THEN "done" ELSE "lockQueue")
  /\ UNCHANGED <<arrived, cBarrier, mutexVars, interrupt, sigs, historyVars>>

LockQueue(w) ==
  /\ Running /\ Lock(w, "mQueue", "lockQueue", "wait")
  /\ UNCHANGED <<arrived, cBarrier, interrupt, sigs, historyVars>>

BadWaitForWork(w) ==
  /\ Running /\ Unlock(w, "mBarrier", "wait", "ready")
  /\ UNCHANGED <<arrived, cBarrier, interrupt, sigs, historyVars>>

(* The queue is empty: the wait on cQueue gives mQueue back.               *)
WaitForWork(w) ==
  /\ Running /\ Unlock(w, "mQueue", "wait", "ready")
  /\ UNCHANGED <<arrived, cBarrier, interrupt, sigs, historyVars>>

WorkerComesUp(w) == \/ WorkerLock(w) \/ Arrive(w) \/ WorkerUnlock(w) \/ FirstTest(w)
                    \/ LockQueue(w) \/ WaitForWork(w)

(* A wait on cBarrier may end without a signal.                            *)
MainWakesUnasked ==
  /\ Running /\ cBarrier
  /\ cBarrier' = FALSE
  /\ contended' = [contended EXCEPT !["mBarrier"] = @ \cup {Main}]
  /\ UNCHANGED <<pc, arrived, word, owner, checking, asleep, interrupt, sigs, historyVars>>

StartupSigint ==
  /\ Running /\ sigs < MaxSig
  /\ sigs' = sigs + 1
  /\ interrupt' = TRUE
  /\ UNCHANGED <<pc, arrived, cBarrier, mutexVars, historyVars>>

StartupNext == \/ MainComesUp \/ (\E w \in Workers : WorkerComesUp(w))
               \/ MainWakesUnasked \/ StartupSigint

StartupSpec == StartupInit /\ [][StartupNext]_startupVars

FairStartupSpec == /\ StartupSpec /\ WF_startupVars(MainComesUp)
                   /\ \A w \in Workers : WF_startupVars(WorkerComesUp(w))

-----------------------------------------------------------------------------
PastBarrier == {"top", "lockQueue", "wait", "ready", "done"}
Arrived     == {w \in Workers : pc[w] \in PastBarrier \cup {"unlockBarrier"}}

StartupTypeOK ==
  /\ pc \in [Threads -> PastBarrier \cup
               {"create", "unborn", "lockBarrier", "relock", "test", "woken",
                "initQueue", "running", "exited", "crashed", "arrive", "unlockBarrier"}]
  /\ arrived \in 0..poolSize
  /\ cBarrier \in BOOLEAN
  /\ word \in [Mutexes -> 0..2]
  /\ owner \in [Mutexes -> Threads \cup {Nobody}]
  /\ checking \in [Mutexes -> BOOLEAN]
  /\ asleep \in [Mutexes -> SUBSET Threads]
  /\ contended \in [Mutexes -> SUBSET Threads]
  /\ interrupt \in BOOLEAN /\ sigs \in 0..MaxSig
  /\ evicted \subseteq Threads /\ stranded \subseteq Threads

(* The barrier does its work whatever happens to its mutex: the main       *)
(* thread never goes on before every worker has arrived (L200-214, L249).  *)
BarrierHolds == pc[Main] \in {"initQueue", "running"} => Arrived = Workers

NeverCleared == evicted = {} /\ stranded = {}

(* Nothing else ends the server: every thread unlocks the mutexes it holds *)
(* and no other, and clearing a mutex others sleep on does not break it.   *)
CrashOnlyIfCleared == pc[Main] = "crashed" => evicted # {}

(* What start-up keeps in spite of mutexes that are cleared while in use:  *)
(* the barrier holds, and only the loss of a held mutex ends the server.   *)
StartupInv == StartupTypeOK /\ BarrierHolds /\ CrashOnlyIfCleared

(* The server comes up with every worker waiting for a connection, unless  *)
(* L201 or L218 clears a mutex that a worker uses.  (SIGINT ends it too,   *)
(* and cond_wait is assumed to return unasked only finitely often.)        *)
Up == pc[Main] = "running" /\ \A w \in Workers : pc[w] = "ready"
ComesUpUnlessCleared ==
  ([]NeverCleared /\ []~interrupt /\ <>[][~MainWakesUnasked]_startupVars) => <>Up

(* A thread that holds mBarrier when L201 clears it, or mQueue when L218   *)
(* does, ends the server.                                                  *)
ClearedHolderEndsServer == (evicted # {}) ~> ~Running

(* Start-up has one of two ends: the server is up, or it is gone because   *)
(* L201 or L218 has cleared a mutex that a thread held.                    *)
StartupEnds == ComesUpUnlessCleared /\ ClearedHolderEndsServer
=============================================================================
