----------------------------- MODULE TableLock -----------------------------
(***************************************************************************)
(* parse_query and update_req_token of Final/Server/main.c: the worker     *)
(* threads of the server read and write the shared table under a           *)
(* "writer prioritize reader-writer" lock made of the mutex mRW, the       *)
(* condition variables okToRead and okToWrite and the counters AR, AW, WR  *)
(* and WW.                                                                 *)
(*                                                                         *)
(* mRW itself is not a variable: it is held only between a lock and the    *)
(* next unlock or cond_wait, over code that blocks nowhere, so each such   *)
(* stretch is one action.  The table is accessed outside mRW, and every    *)
(* access of a cell is an action of its own; an assignment of a cell is    *)
(* two, since update_req_token frees the old string before it stores the   *)
(* new one.                                                                *)
(***************************************************************************)
EXTENDS TableData

VARIABLES
  pc,         \* pc[t]: where thread t is in parse_query
  req,        \* req[t]: the parsed request t answers, or answered last
  AR, AW,     \* active readers, active writers
  WR, WW,     \* waiting readers, waiting writers
  okToRead,   \* threads blocked on the condition variable okToRead
  okToWrite,  \* threads blocked on the condition variable okToWrite
  table,      \* the shared table
  todo,       \* todo[t]: cells t has still to read or to assign
  result      \* result[t]: the cells t's SELECT has copied so far

lockVars == <<AR, AW, WR, WW, okToRead, okToWrite>>
vars == <<pc, req, AR, AW, WR, WW, okToRead, okToWrite, table, todo, result>>

PCs == {"idle", "wantRead", "waitRead", "reading",
        "wantWrite", "waitWrite", "writing"}

At(l) == {t \in Threads : pc[t] = l}

Init ==
  /\ pc = [t \in Threads |-> "idle"]
  /\ req \in [Threads -> Requests]
  /\ AR = 0 /\ AW = 0 /\ WR = 0 /\ WW = 0
  /\ okToRead = {} /\ okToWrite = {}
  /\ table \in [Cells -> Values]
  /\ todo = [t \in Threads |-> {}]
  /\ result = [t \in Threads |-> NoCells]

-----------------------------------------------------------------------------
(* The tests of the four critical sections, and the counters of waiting    *)
(* threads once a thread that comes back from cond_wait has left them.     *)

(* Seeded faults, which the properties are tried against: a test that      *)
(* forgets a counter, and one that is made too early.                      *)
BadWaitOnActiveOnly     == AW > 0
BadWaitOnReadersOnly    == AR > 0
BadTestBeforeDecrement  == AR = 0 /\ WW > 0

MustWaitToRead  == AW + WW > 0
MustWaitToWrite == AW + AR > 0

OtherWaitingReaders(t) == IF pc[t] = "waitRead"  THEN WR - 1 ELSE WR
OtherWaitingWriters(t) == IF pc[t] = "waitWrite" THEN WW - 1 ELSE WW

LastReaderWakesWriter == AR = 1 /\ WW > 0
WriterWakesReaders    == WR > 0

(* pthread_cond_signal wakes one waiter, if there is one.                  *)
Signalled(waiters) == IF waiters = {} THEN {{}} ELSE {{t} : t \in waiters}

-----------------------------------------------------------------------------
(* A query arrives and is split into tokens.                               *)
Ask(t) ==
  /\ pc[t] = "idle"
  /\ \E r \in Requests :
       /\ req' = [req EXCEPT ![t] = r]
       /\ pc' = [pc EXCEPT ![t] = IF r.op = "SELECT" THEN "wantRead" ELSE "wantWrite"]
  /\ result' = [result EXCEPT ![t] = NoCells]
  /\ UNCHANGED <<lockVars, table, todo>>

-----------------------------------------------------------------------------
(* SELECT.                                                                 *)

(* From the lock, or from the return of cond_wait, to the unlock or to the *)
(* next cond_wait.  A thread that returns from cond_wait has left okToRead *)
(* and takes itself out of WR first.                                       *)
ReadEntry(t) ==
  /\ pc[t] = "wantRead" \/ (pc[t] = "waitRead" /\ t \notin okToRead)
  /\ \/ /\ MustWaitToRead
        /\ WR' = OtherWaitingReaders(t) + 1
        /\ okToRead' = okToRead \cup {t}
        /\ pc' = [pc EXCEPT ![t] = "waitRead"]
        /\ UNCHANGED <<AR, todo>>
     \/ /\ ~MustWaitToRead
        /\ WR' = OtherWaitingReaders(t)
        /\ AR' = AR + 1
        /\ pc' = [pc EXCEPT ![t] = "reading"]
        /\ todo' = [todo EXCEPT ![t] = Selected(req[t])]
        /\ UNCHANGED okToRead
  /\ UNCHANGED <<req, AW, WW, okToWrite, table, result>>

(* The scan goes through the rows in order and, in a row, the columns.     *)
Before(c, d) == c[1] < d[1] \/ (c[1] = d[1] /\ c[2] < d[2])

ReadCell(t) ==
  /\ pc[t] = "reading"
  /\ \E c \in todo[t] :
       /\ \A d \in todo[t] : ~Before(d, c)
       /\ result' = [result EXCEPT ![t] = [result[t] EXCEPT ![c] = table[c]]]
       /\ todo' = [todo EXCEPT ![t] = @ \ {c}]
  /\ UNCHANGED <<pc, req, lockVars, table>>

ReadExit(t) ==
  /\ pc[t] = "reading" /\ todo[t] = {}
  /\ AR' = AR - 1
  /\ IF LastReaderWakesWriter
       THEN \E woken \in Signalled(okToWrite) : okToWrite' = okToWrite \ woken
       ELSE UNCHANGED okToWrite
  /\ pc' = [pc EXCEPT ![t] = "idle"]
  /\ UNCHANGED <<req, AW, WR, WW, okToRead, table, todo, result>>

-----------------------------------------------------------------------------
(* UPDATE.                                                                 *)

(* As ReadEntry.  The scan of the WHERE clause, which finds the row to     *)
(* assign, runs while no other thread can change the table and is part of  *)
(* the entry.                                                              *)
WriteEntry(t) ==
  /\ pc[t] = "wantWrite" \/ (pc[t] = "waitWrite" /\ t \notin okToWrite)
  /\ \/ /\ MustWaitToWrite
        /\ WW' = OtherWaitingWriters(t) + 1
        /\ okToWrite' = okToWrite \cup {t}
        /\ pc' = [pc EXCEPT ![t] = "waitWrite"]
        /\ UNCHANGED <<AW, todo>>
     \/ /\ ~MustWaitToWrite
        /\ WW' = OtherWaitingWriters(t)
        /\ AW' = AW + 1
        /\ pc' = [pc EXCEPT ![t] = "writing"]
        /\ todo' = [todo EXCEPT ![t] = Assigned(table, req[t])]
        /\ UNCHANGED okToWrite
  /\ UNCHANGED <<req, AR, WR, okToRead, table, result>>

(* update_req_token: free the old string, then store the new one.  The     *)
(* assignments follow the order of the SET clause, which is any order.     *)
FreeCell(t) ==
  /\ pc[t] = "writing"
  /\ \E c \in todo[t] :
       /\ \A d \in todo[t] : table[d] # NULL
       /\ table' = [table EXCEPT ![c] = NULL]
  /\ UNCHANGED <<pc, req, lockVars, todo, result>>

StoreCell(t) ==
  /\ pc[t] = "writing"
  /\ \E c \in todo[t] :
       /\ table[c] = NULL
       /\ table' = [table EXCEPT ![c] = req[t].val[c[2]]]
       /\ todo' = [todo EXCEPT ![t] = @ \ {c}]
  /\ UNCHANGED <<pc, req, lockVars, result>>

WriteExit(t) ==
  /\ pc[t] = "writing" /\ todo[t] = {}
  /\ AW' = AW - 1
  /\ IF WW > 0
       THEN /\ \E woken \in Signalled(okToWrite) : okToWrite' = okToWrite \ woken
            /\ UNCHANGED okToRead
       ELSE /\ okToRead' = IF WriterWakesReaders THEN {} ELSE okToRead
            /\ UNCHANGED okToWrite
  /\ pc' = [pc EXCEPT ![t] = "idle"]
  /\ UNCHANGED <<req, AR, WR, WW, table, todo, result>>

-----------------------------------------------------------------------------
(* POSIX lets pthread_cond_wait return without a signal.                   *)
SpuriousWake(t) ==
  /\ t \in okToRead \cup okToWrite
  /\ okToRead' = okToRead \ {t}
  /\ okToWrite' = okToWrite \ {t}
  /\ UNCHANGED <<pc, req, AR, AW, WR, WW, table, todo, result>>

(* Everything a thread does once it has a query.                           *)
Step(t) == \/ ReadEntry(t)  \/ ReadCell(t) \/ ReadExit(t)
           \/ WriteEntry(t) \/ FreeCell(t) \/ StoreCell(t) \/ WriteExit(t)

Next == \E t \in Threads : Ask(t) \/ Step(t) \/ SpuriousWake(t)

Spec == Init /\ [][Next]_vars

(* A thread that is not blocked keeps running; nothing makes a client send *)
(* a query, nor cond_wait return early.                                    *)
FairSpec == Spec /\ \A t \in Threads : WF_vars(Step(t))

-----------------------------------------------------------------------------
TypeOK ==
  /\ pc \in [Threads -> PCs]
  /\ req \in [Threads -> Requests]
  /\ AR \in Nat /\ AW \in Nat /\ WR \in Nat /\ WW \in Nat
  /\ okToRead \subseteq At("waitRead")
  /\ okToWrite \subseteq At("waitWrite")
  /\ table \in [Cells -> Values \cup {NULL}]
  /\ todo \in [Threads -> SUBSET Cells]
  /\ result \in [Threads -> [Cells -> Values \cup {NULL}]]

(* The counters count the threads they are named for, although each is     *)
(* changed by several pieces of code, before and after a wait (L394-401,   *)
(* L450-454, L458-466, L515-521).                                          *)
CountersAgree ==
  /\ AR = Cardinality(At("reading"))
  /\ AW = Cardinality(At("writing"))
  /\ WR = Cardinality(At("waitRead"))
  /\ WW = Cardinality(At("waitWrite"))

(* A writer is alone at the table.                                         *)
Exclusion == \A t, u \in Threads :
               (pc[t] = "writing" /\ u # t) => pc[u] \notin {"reading", "writing"}

(* What a SELECT has copied is still what the table holds, and it holds    *)
(* no freed string while someone reads: a SELECT sees no half-done UPDATE  *)
(* (L419-442 against L537-540).                                            *)
SnapshotConsistent ==
  \A t \in At("reading") : \A c \in Selected(req[t]) :
    /\ table[c] # NULL
    /\ c \notin todo[t] => result[t][c] = table[c]

(* The threads that cannot be woken by anybody any more: a blocked reader  *)
(* needs a writer that will leave, and a blocked writer needs someone at   *)
(* the table or a writer that has been woken and has not yet looked.       *)
NoLostWakeup ==
  /\ okToRead # {} => AW + WW > 0
  /\ okToWrite # {} => AR + AW > 0 \/ At("waitWrite") \ okToWrite # {}

(* What the rest of the invariant rests on: a thread is where its kind of  *)
(* request takes it, a freed cell is one that its writer is about to       *)
(* store, and a SELECT's copy holds exactly the cells it is done with.     *)
RequestsMatch ==
  \A t \in Threads :
    /\ pc[t] \in {"wantRead", "waitRead", "reading"} => req[t].op = "SELECT"
    /\ pc[t] \in {"wantWrite", "waitWrite", "writing"} => req[t].op = "UPDATE"

FreedByWriter ==
  \A c \in Cells :
    table[c] = NULL => \E w \in Threads : pc[w] = "writing" /\ c \in todo[w]

CopyExact ==
  \A t \in Threads :
    /\ pc[t] \notin {"idle", "reading"} => result[t] = NoCells
    /\ pc[t] = "reading" =>
         /\ todo[t] \subseteq Selected(req[t])
         /\ \A c \in Cells : result[t][c] = IF c \in Selected(req[t]) \ todo[t]
                                              THEN table[c] ELSE NULL

(* The inductive invariant.                                                *)
IInv == /\ TypeOK
        /\ CountersAgree
        /\ Exclusion
        /\ NoLostWakeup
        /\ RequestsMatch
        /\ FreedByWriter
        /\ CopyExact

(* A waiting writer lets no further reader in, so one of them gets in.     *)
WritersGetIn == (WW > 0) ~> (AW > 0)

(* When the clients stop sending queries, every query in progress is       *)
(* answered: neither a SELECT nor an UPDATE waits for a wake-up that has   *)
(* been given to somebody else, or was given too early.                    *)
EveryQueryAnswered ==
  <>[][\A t \in Threads : ~Ask(t)]_vars => <>[](At("idle") = Threads)

-----------------------------------------------------------------------------
(* The table the clients see: an UPDATE has taken effect as soon as its    *)
(* thread is past the entry section.                                       *)
Committed ==
  [c \in Cells |->
     IF \E w \in Threads : pc[w] = "writing" /\ c \in todo[w]
       THEN req[CHOOSE w \in Threads : pc[w] = "writing" /\ c \in todo[w]].val[c[2]]
       ELSE table[c]]

Status ==
  [t \in Threads |-> CASE pc[t] = "idle"    -> "idle"
                       [] pc[t] = "writing" -> "applied"
                       [] OTHER             -> "asked"]

Reply == [t \in Threads |-> IF pc[t] = "idle" THEN result[t] ELSE NoCells]

Atomic == INSTANCE AtomicTable
            WITH table <- Committed, status <- Status, reply <- Reply

(* Every SELECT and every UPDATE takes effect at one instant.              *)
Linearizable == Atomic!Spec
=============================================================================
