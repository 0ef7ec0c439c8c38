---------------------------- MODULE TableProofs ----------------------------
(***************************************************************************)
(* Proofs about the server's table: how it is shared (TableLock) and how   *)
(* it is loaded and given back (CsvTable).                                 *)
(*                                                                         *)
(* TableLock, for every number of threads, every table size and every set  *)
(* of requests: type correctness, the agreement of the counters with the   *)
(* threads they count, exclusion, the consistency of what a SELECT copies, *)
(* the absence of lost wake-ups, and that TableLock implements AtomicTable.*)
(*                                                                         *)
(* CsvTable, for every file of any size: the table is the file, and the    *)
(* records a client gets are the rows.                                     *)
(***************************************************************************)
EXTENDS TableLock, CsvTable, FiniteSetTheorems, SequenceTheorems,
        WellFoundedInduction, TLAPS

-----------------------------------------------------------------------------
(* The set of threads at a label is finite and has a cardinality.          *)
LEMMA AtFinite ==
  ASSUME NEW l
  PROVE  /\ IsFiniteSet(At(l))
         /\ Cardinality(At(l)) \in Nat
         /\ Cardinality(At(l)) = 0 <=> At(l) = {}
<1>1. IsFiniteSet(At(l))
  BY FS_Subset, ThreadsAssumption DEF At
<1> QED
  BY <1>1, FS_CardinalityType, FS_EmptySet

LEMMA AtMember ==
  ASSUME NEW t \in Threads
  PROVE  Cardinality(At(pc[t])) \in Nat \ {0}
<1>1. At(pc[t]) # {}
  BY DEF At
<1>2. Cardinality(At(pc[t])) \in Nat /\ Cardinality(At(pc[t])) # 0
  BY <1>1, AtFinite
<1> QED
  BY <1>2

(* A thread that moves from one label to another leaves the set of the one *)
(* and joins the set of the other.                                         *)
LEMMA MoveCardinality ==
  ASSUME pc \in [Threads -> PCs], NEW t \in Threads, NEW b \in PCs,
         pc' = [pc EXCEPT ![t] = b], NEW l \in PCs
  PROVE  Cardinality(At(l)') =
           IF pc[t] = b THEN Cardinality(At(l))
           ELSE IF l = b THEN Cardinality(At(l)) + 1
           ELSE IF l = pc[t] THEN Cardinality(At(l)) - 1
           ELSE Cardinality(At(l))
<1>1. CASE l = b
  <2>1. At(l)' = At(l) \cup {t}
    BY <1>1 DEF At
  <2>2. t \in At(l) <=> pc[t] = b
    BY <1>1 DEF At
  <2> QED
    BY <2>1, <2>2, <1>1, AtFinite, FS_AddElement
<1>2. CASE l # b
  <2>1. At(l)' = At(l) \ {t}
    BY <1>2 DEF At
  <2>2. t \in At(l) <=> pc[t] = l
    BY DEF At
  <2> QED
    BY <2>1, <2>2, <1>2, AtFinite, FS_RemoveElement
<1> QED
  BY <1>1, <1>2

(* A signal takes at most one thread, a blocked one, off a wait set, and   *)
(* takes one if there is one.                                              *)
LEMMA SignalWakes ==
  ASSUME NEW W, NEW woken \in Signalled(W)
  PROVE  /\ woken \subseteq W
         /\ W # {} => W \ (W \ woken) # {}
BY DEF Signalled

-----------------------------------------------------------------------------
(* Type correctness.                                                       *)
(* The counters are naturals only because they count the threads, so the   *)
(* two facts are proved together.                                          *)
TypeInv == TypeOK /\ CountersAgree

LEMMA TypeInit == Init => TypeInv
<1> SUFFICES ASSUME Init PROVE TypeInv
  OBVIOUS
<1>1. TypeOK
  BY DEF Init, TypeOK, PCs, NoCells
<1>2. \A l \in {"reading", "writing", "waitRead", "waitWrite"} : At(l) = {}
  BY DEF Init, At
<1>3. CountersAgree
  BY <1>2, FS_EmptySet DEF Init, CountersAgree
<1> QED
  BY <1>1, <1>3 DEF TypeInv

LEMMA TypeAsk ==
  ASSUME TypeInv, NEW t \in Threads, Ask(t)
  PROVE  TypeInv'
<1> USE DEF TypeInv, TypeOK
<1>0. PICK r \in Requests : Ask(t)!2!(r)
  BY DEF Ask
<1>1. NoCells \in [Cells -> Values \cup {NULL}]
  BY DEF NoCells
<1>2. TypeOK'
  BY <1>0, <1>1 DEF Ask, lockVars, PCs, At
<1>3. CountersAgree'
  <2> DEFINE b == IF r.op = "SELECT" THEN "wantRead" ELSE "wantWrite"
  <2>1. b \in PCs /\ pc' = [pc EXCEPT ![t] = b]
    BY <1>0 DEF PCs
  <2>2. /\ pc[t] = "idle"
        /\ b \notin {"reading", "writing", "waitRead", "waitWrite", "idle"}
    BY DEF Ask
  <2> HIDE DEF b
  <2>3. \A l \in {"reading", "writing", "waitRead", "waitWrite"} :
          Cardinality(At(l)') = Cardinality(At(l))
    BY <2>1, <2>2, MoveCardinality DEF PCs
  <2> QED
    BY <2>3 DEF CountersAgree, Ask, lockVars
<1> QED
  BY <1>2, <1>3

LEMMA TypeReadEntry ==
  ASSUME TypeInv, NEW t \in Threads, ReadEntry(t)
  PROVE  TypeInv'
<1>0. pc[t] = "wantRead" \/ (pc[t] = "waitRead" /\ t \notin okToRead)
  BY DEF ReadEntry
<1> USE DEF TypeInv, TypeOK
<1>1. CASE MustWaitToRead
  <2>1. /\ pc' = [pc EXCEPT ![t] = "waitRead"]
        /\ WR' = OtherWaitingReaders(t) + 1 /\ okToRead' = okToRead \cup {t}
        /\ UNCHANGED <<AR, AW, WW, req, okToWrite, table, todo, result>>
    BY <1>1 DEF ReadEntry
  <2>2. pc[t] \in {"wantRead", "waitRead"}
    BY <1>0
  <2>3. \A l \in {"reading", "writing", "waitRead", "waitWrite"} :
          Cardinality(At(l)') =
            IF l = "waitRead" /\ pc[t] = "wantRead"
              THEN Cardinality(At(l)) + 1 ELSE Cardinality(At(l))
    BY <2>1, <2>2, MoveCardinality DEF PCs
  <2>4. CountersAgree'
    BY <2>1, <2>2, <2>3, AtFinite DEF CountersAgree, OtherWaitingReaders
  <2>5. pc' \in [Threads -> PCs]
    BY <2>1 DEF PCs
  <2>6. okToRead' \subseteq At("waitRead")' /\ okToWrite' \subseteq At("waitWrite")'
    BY <2>1, <2>2 DEF At
  <2>7. WR' \in Nat
    <3>1. IsFiniteSet(At("waitRead")')
      BY FS_Subset, ThreadsAssumption DEF At
    <3> QED
      BY <2>4, <3>1, FS_CardinalityType DEF CountersAgree
  <2> QED
    BY <2>1, <2>4, <2>5, <2>6, <2>7
<1>2. CASE ~MustWaitToRead
  <2>1. /\ pc' = [pc EXCEPT ![t] = "reading"]
        /\ WR' = OtherWaitingReaders(t) /\ AR' = AR + 1
        /\ todo' = [todo EXCEPT ![t] = Selected(req[t])]
        /\ UNCHANGED <<AW, WW, req, okToRead, okToWrite, table, result>>
    BY <1>2 DEF ReadEntry
  <2>2. pc[t] = "wantRead" \/ (pc[t] = "waitRead" /\ t \notin okToRead)
    BY <1>0
  <2>3. \A l \in {"reading", "writing", "waitRead", "waitWrite"} :
          Cardinality(At(l)') =
            IF l = "reading" THEN Cardinality(At(l)) + 1
            ELSE IF l = pc[t] THEN Cardinality(At(l)) - 1
            ELSE Cardinality(At(l))
    BY <2>1, <2>2, MoveCardinality DEF PCs
  <2>4. CountersAgree'
    BY <2>1, <2>2, <2>3, AtFinite DEF CountersAgree, OtherWaitingReaders
  <2>5. pc' \in [Threads -> PCs]
    BY <2>1 DEF PCs
  <2>6. okToRead' \subseteq At("waitRead")' /\ okToWrite' \subseteq At("waitWrite")'
    BY <2>1, <2>2 DEF At
  <2>7. WR' \in Nat
    <3>1. IsFiniteSet(At("waitRead")')
      BY FS_Subset, ThreadsAssumption DEF At
    <3> QED
      BY <2>4, <3>1, FS_CardinalityType DEF CountersAgree
  <2>8. Selected(req[t]) \in SUBSET Cells
    BY DEF Selected
  <2> QED
    BY <2>1, <2>4, <2>5, <2>6, <2>7, <2>8
<1> QED
  BY <1>1, <1>2

LEMMA TypeWriteEntry ==
  ASSUME TypeInv, NEW t \in Threads, WriteEntry(t)
  PROVE  TypeInv'
<1>0. pc[t] = "wantWrite" \/ (pc[t] = "waitWrite" /\ t \notin okToWrite)
  BY DEF WriteEntry
<1> USE DEF TypeInv, TypeOK
<1>1. CASE MustWaitToWrite
  <2>1. /\ pc' = [pc EXCEPT ![t] = "waitWrite"]
        /\ WW' = OtherWaitingWriters(t) + 1 /\ okToWrite' = okToWrite \cup {t}
        /\ UNCHANGED <<AR, AW, WR, req, okToRead, table, todo, result>>
    BY <1>1 DEF WriteEntry
  <2>2. pc[t] \in {"wantWrite", "waitWrite"}
    BY <1>0
  <2>3. \A l \in {"reading", "writing", "waitRead", "waitWrite"} :
          Cardinality(At(l)') =
            IF l = "waitWrite" /\ pc[t] = "wantWrite"
              THEN Cardinality(At(l)) + 1 ELSE Cardinality(At(l))
    BY <2>1, <2>2, MoveCardinality DEF PCs
  <2>4. CountersAgree'
    BY <2>1, <2>2, <2>3, AtFinite DEF CountersAgree, OtherWaitingWriters
  <2>5. pc' \in [Threads -> PCs]
    BY <2>1 DEF PCs
  <2>6. okToRead' \subseteq At("waitRead")' /\ okToWrite' \subseteq At("waitWrite")'
    BY <2>1, <2>2 DEF At
  <2>7. WW' \in Nat
    <3>1. IsFiniteSet(At("waitWrite")')
      BY FS_Subset, ThreadsAssumption DEF At
    <3> QED
      BY <2>4, <3>1, FS_CardinalityType DEF CountersAgree
  <2> QED
    BY <2>1, <2>4, <2>5, <2>6, <2>7
<1>2. CASE ~MustWaitToWrite
  <2>1. /\ pc' = [pc EXCEPT ![t] = "writing"]
        /\ WW' = OtherWaitingWriters(t) /\ AW' = AW + 1
        /\ todo' = [todo EXCEPT ![t] = Assigned(table, req[t])]
        /\ UNCHANGED <<AR, WR, req, okToRead, okToWrite, table, result>>
    BY <1>2 DEF WriteEntry
  <2>2. pc[t] = "wantWrite" \/ (pc[t] = "waitWrite" /\ t \notin okToWrite)
    BY <1>0
  <2>3. \A l \in {"reading", "writing", "waitRead", "waitWrite"} :
          Cardinality(At(l)') =
            IF l = "writing" THEN Cardinality(At(l)) + 1
            ELSE IF l = pc[t] THEN Cardinality(At(l)) - 1
            ELSE Cardinality(At(l))
    BY <2>1, <2>2, MoveCardinality DEF PCs
  <2>4. CountersAgree'
    BY <2>1, <2>2, <2>3, AtFinite DEF CountersAgree, OtherWaitingWriters
  <2>5. pc' \in [Threads -> PCs]
    BY <2>1 DEF PCs
  <2>6. okToRead' \subseteq At("waitRead")' /\ okToWrite' \subseteq At("waitWrite")'
    BY <2>1, <2>2 DEF At
  <2>7. WW' \in Nat
    <3>1. IsFiniteSet(At("waitWrite")')
      BY FS_Subset, ThreadsAssumption DEF At
    <3> QED
      BY <2>4, <3>1, FS_CardinalityType DEF CountersAgree
  <2>8. Assigned(table, req[t]) \in SUBSET Cells
    BY DEF Assigned
  <2> QED
    BY <2>1, <2>4, <2>5, <2>6, <2>7, <2>8
<1> QED
  BY <1>1, <1>2

(* The steps of a thread inside, which move no thread.                     *)
LEMMA TypeInside ==
  ASSUME TypeInv, NEW t \in Threads,
         ReadCell(t) \/ FreeCell(t) \/ StoreCell(t)
  PROVE  TypeInv'
<1> USE DEF TypeInv, TypeOK
<1>1. /\ UNCHANGED <<pc, req, AR, AW, WR, WW, okToRead, okToWrite>>
      /\ UNCHANGED <<At("reading"), At("writing"), At("waitRead"), At("waitWrite")>>
  BY DEF ReadCell, FreeCell, StoreCell, lockVars, At
<1>2. CountersAgree'
  BY <1>1 DEF CountersAgree
<1>3. /\ table' \in [Cells -> Values \cup {NULL}]
      /\ todo' \in [Threads -> SUBSET Cells]
      /\ result' \in [Threads -> [Cells -> Values \cup {NULL}]]
  <2>1. CASE ReadCell(t)
    BY <2>1 DEF ReadCell
  <2>2. CASE FreeCell(t)
    BY <2>2 DEF FreeCell
  <2>3. CASE StoreCell(t)
    <3>1. \A c \in Cells : req[t].val[c[2]] \in Values
      BY RequestsAssumption DEF RequestType, Cells
    <3> QED
      BY <2>3, <3>1 DEF StoreCell
  <2> QED
    BY <2>1, <2>2, <2>3
<1> QED
  BY <1>1, <1>2, <1>3

LEMMA TypeReadExit ==
  ASSUME TypeInv, NEW t \in Threads, ReadExit(t)
  PROVE  TypeInv'
<1> USE DEF TypeInv, TypeOK
<1>1. /\ pc[t] = "reading" /\ pc' = [pc EXCEPT ![t] = "idle"] /\ AR' = AR - 1
      /\ okToWrite' \subseteq okToWrite
      /\ UNCHANGED <<req, AW, WR, WW, okToRead, table, todo, result>>
  BY SignalWakes DEF ReadExit
<1>2. \A l \in {"reading", "writing", "waitRead", "waitWrite"} :
        Cardinality(At(l)') =
          IF l = "reading" THEN Cardinality(At(l)) - 1 ELSE Cardinality(At(l))
  BY <1>1, MoveCardinality DEF PCs
<1>3. CountersAgree'
  BY <1>1, <1>2 DEF CountersAgree
<1>4. okToRead' \subseteq At("waitRead")' /\ okToWrite' \subseteq At("waitWrite")'
  BY <1>1 DEF At
<1>5. AR' \in Nat
  <2>1. Cardinality(At("reading")) \in Nat \ {0}
    BY <1>1, AtMember
  <2>2. AR \in Nat \ {0}
    BY <2>1 DEF CountersAgree
  <2> QED
    BY <1>1, <2>2
<1>6. pc' \in [Threads -> PCs]
  BY <1>1 DEF PCs
<1> QED
  BY <1>1, <1>3, <1>4, <1>5, <1>6

LEMMA TypeWriteExit ==
  ASSUME TypeInv, NEW t \in Threads, WriteExit(t)
  PROVE  TypeInv'
<1> USE DEF TypeInv, TypeOK
<1>1. /\ pc[t] = "writing" /\ pc' = [pc EXCEPT ![t] = "idle"] /\ AW' = AW - 1
      /\ okToWrite' \subseteq okToWrite /\ okToRead' \subseteq okToRead
      /\ UNCHANGED <<req, AR, WR, WW, table, todo, result>>
  BY SignalWakes DEF WriteExit
<1>2. \A l \in {"reading", "writing", "waitRead", "waitWrite"} :
        Cardinality(At(l)') =
          IF l = "writing" THEN Cardinality(At(l)) - 1 ELSE Cardinality(At(l))
  BY <1>1, MoveCardinality DEF PCs
<1>3. CountersAgree'
  BY <1>1, <1>2 DEF CountersAgree
<1>4. okToRead' \subseteq At("waitRead")' /\ okToWrite' \subseteq At("waitWrite")'
  BY <1>1 DEF At
<1>5. AW' \in Nat
  <2>1. Cardinality(At("writing")) \in Nat \ {0}
    BY <1>1, AtMember
  <2>2. AW \in Nat \ {0}
    BY <2>1 DEF CountersAgree
  <2> QED
    BY <1>1, <2>2
<1>6. pc' \in [Threads -> PCs]
  BY <1>1 DEF PCs
<1> QED
  BY <1>1, <1>3, <1>4, <1>5, <1>6

LEMMA TypeStutter ==
  ASSUME TypeInv, \/ UNCHANGED vars
                  \/ \E t \in Threads : SpuriousWake(t)
  PROVE  TypeInv'
<1>1. /\ UNCHANGED <<pc, req, AR, AW, WR, WW, table, todo, result>>
      /\ okToRead' \subseteq okToRead /\ okToWrite' \subseteq okToWrite
  BY DEF vars, SpuriousWake
<1>2. UNCHANGED <<At("reading"), At("writing"), At("waitRead"), At("waitWrite")>>
  BY <1>1 DEF At
<1> QED
  BY <1>1, <1>2 DEF TypeInv, TypeOK, CountersAgree

(* Every variable keeps its type, and AR, AW, WR and WW are at every       *)
(* moment the numbers of threads that read, write, wait to read and wait   *)
(* to write (the increments and decrements of L394-401, L450-454, L458-466 *)
(* and L515-521 balance on every path, spurious wake-ups included).        *)
THEOREM TypeCorrect == Spec => [](TypeOK /\ CountersAgree)
<1>1. Init => TypeInv
  BY TypeInit
<1>2. TypeInv /\ [Next]_vars => TypeInv'
  BY TypeAsk, TypeReadEntry, TypeWriteEntry, TypeInside, TypeReadExit,
     TypeWriteExit, TypeStutter DEF Next, Step
<1> QED
  BY <1>1, <1>2, PTL DEF Spec, TypeInv

-----------------------------------------------------------------------------
(* Safety.                                                                 *)

(* A counter is positive exactly when some thread is where it counts.      *)
LEMMA CountersPositive ==
  ASSUME TypeOK, CountersAgree
  PROVE  /\ AR > 0 <=> At("reading") # {}
         /\ AW > 0 <=> At("writing") # {}
         /\ WR > 0 <=> At("waitRead") # {}
         /\ WW > 0 <=> At("waitWrite") # {}
<1>1. \A l \in PCs : Cardinality(At(l)) \in Nat /\ (Cardinality(At(l)) = 0 <=> At(l) = {})
  BY AtFinite
<1>2. {"reading", "writing", "waitRead", "waitWrite"} \subseteq PCs
  BY DEF PCs
<1> QED
  BY <1>1, <1>2 DEF CountersAgree

LEMMA PositiveSum == \A m, n \in Nat : m > 0 => m + n > 0 /\ n + m > 0
  OBVIOUS

LEMMA SafeInit == Init => IInv
<1> SUFFICES ASSUME Init PROVE IInv
  OBVIOUS
<1>1. TypeOK /\ CountersAgree
  BY TypeInit DEF TypeInv
<1>2. Exclusion /\ RequestsMatch /\ CopyExact
  BY DEF Init, Exclusion, RequestsMatch, CopyExact
<1>3. NoLostWakeup
  BY DEF Init, NoLostWakeup
<1>4. FreedByWriter
  BY NullAssumption DEF Init, FreedByWriter
<1> QED
  BY <1>1, <1>2, <1>3, <1>4 DEF IInv

LEMMA SafeAsk ==
  ASSUME IInv, NEW t \in Threads, Ask(t), TypeInv'
  PROVE  IInv'
<1> USE DEF IInv
<1>1. PICK r \in Requests :
        /\ req' = [req EXCEPT ![t] = r]
        /\ pc' = [pc EXCEPT ![t] = IF r.op = "SELECT" THEN "wantRead" ELSE "wantWrite"]
  BY DEF Ask
<1>2. /\ pc[t] = "idle"
      /\ result' = [result EXCEPT ![t] = NoCells]
      /\ UNCHANGED <<AR, AW, WR, WW, okToRead, okToWrite, table, todo>>
  BY DEF Ask, lockVars
<1>3. r.op \in {"SELECT", "UPDATE"}
  BY RequestsAssumption DEF RequestType
<1>4. Exclusion'
  BY <1>1, <1>2 DEF TypeOK, Exclusion
<1>5. NoLostWakeup'
  <2>1. At("waitWrite")' = At("waitWrite")
    BY <1>1, <1>2 DEF TypeOK, At
  <2> QED
    BY <1>2, <2>1 DEF NoLostWakeup
<1>6. RequestsMatch'
  BY <1>1, <1>2, <1>3 DEF TypeOK, RequestsMatch
<1>7. FreedByWriter'
  BY <1>1, <1>2 DEF TypeOK, FreedByWriter
<1>8. CopyExact'
  BY <1>1, <1>2 DEF TypeOK, CopyExact
<1> QED
  BY <1>4, <1>5, <1>6, <1>7, <1>8 DEF TypeInv

LEMMA SafeReadEntry ==
  ASSUME IInv, NEW t \in Threads, ReadEntry(t), TypeInv'
  PROVE  IInv'
<1> USE DEF IInv
<1>0. /\ pc[t] = "wantRead" \/ (pc[t] = "waitRead" /\ t \notin okToRead)
      /\ UNCHANGED <<req, AW, WW, okToWrite, table, result>>
  BY DEF ReadEntry
<1>1. CASE MustWaitToRead
  <2>1. /\ pc' = [pc EXCEPT ![t] = "waitRead"]
        /\ UNCHANGED <<AR, todo>>
    BY <1>1 DEF ReadEntry
  <2>2. Exclusion' /\ RequestsMatch' /\ FreedByWriter' /\ CopyExact'
    BY <1>0, <2>1 DEF TypeOK, Exclusion, RequestsMatch, FreedByWriter, CopyExact
  <2>3. NoLostWakeup'
    <3>1. At("waitWrite")' = At("waitWrite")
      BY <1>0, <2>1 DEF TypeOK, At
    <3> QED
      BY <1>0, <1>1, <2>1, <3>1 DEF NoLostWakeup, MustWaitToRead
  <2> QED
    BY <2>2, <2>3 DEF TypeInv
<1>2. CASE ~MustWaitToRead
  <2>1. /\ pc' = [pc EXCEPT ![t] = "reading"]
        /\ AR' = AR + 1
        /\ todo' = [todo EXCEPT ![t] = Selected(req[t])]
        /\ UNCHANGED okToRead
    BY <1>2 DEF ReadEntry
  <2>2. At("writing") = {}
    BY <1>2, CountersPositive DEF MustWaitToRead, TypeOK
  <2>3. Exclusion'
    BY <1>0, <2>1, <2>2 DEF TypeOK, Exclusion, At
  <2>4. NoLostWakeup'
    <3>1. AR' > 0
      BY <2>1 DEF TypeOK
    <3>2. AR' + AW' > 0
      <4>1. AR' \in Nat /\ AW' \in Nat
        BY DEF TypeInv, TypeOK
      <4> QED
        BY <3>1, <4>1, PositiveSum
    <3> QED
      BY <1>0, <2>1, <3>2 DEF NoLostWakeup
  <2>5. RequestsMatch'
    BY <1>0, <2>1 DEF TypeOK, RequestsMatch
  <2>6. FreedByWriter'
    BY <1>0, <2>1, <2>2 DEF TypeOK, FreedByWriter, At
  <2>7. CopyExact'
    BY <1>0, <2>1 DEF TypeOK, CopyExact, NoCells
  <2> QED
    BY <2>3, <2>4, <2>5, <2>6, <2>7 DEF TypeInv
<1> QED
  BY <1>1, <1>2

LEMMA SafeReadCell ==
  ASSUME IInv, NEW t \in Threads, ReadCell(t), TypeInv'
  PROVE  IInv'
<1> USE DEF IInv
<1>1. PICK c \in todo[t] :
        /\ result' = [result EXCEPT ![t] = [result[t] EXCEPT ![c] = table[c]]]
        /\ todo' = [todo EXCEPT ![t] = @ \ {c}]
  BY DEF ReadCell
<1>2. /\ pc[t] = "reading"
      /\ UNCHANGED <<pc, req, AR, AW, WR, WW, okToRead, okToWrite, table>>
  BY DEF ReadCell, lockVars
<1>3. Exclusion' /\ RequestsMatch' /\ NoLostWakeup'
  BY <1>2 DEF Exclusion, RequestsMatch, NoLostWakeup, At
<1>4. FreedByWriter'
  BY <1>1, <1>2 DEF TypeOK, FreedByWriter
<1>5. CopyExact'
  BY <1>1, <1>2 DEF TypeOK, CopyExact
<1> QED
  BY <1>3, <1>4, <1>5 DEF TypeInv

LEMMA SafeReadExit ==
  ASSUME IInv, NEW t \in Threads, ReadExit(t), TypeInv'
  PROVE  IInv'
<1> USE DEF IInv
<1>1. /\ pc[t] = "reading" /\ pc' = [pc EXCEPT ![t] = "idle"]
      /\ AR' = AR - 1
      /\ UNCHANGED <<req, AW, WR, WW, okToRead, table, todo, result>>
  BY DEF ReadExit
<1>2. Exclusion' /\ RequestsMatch' /\ FreedByWriter' /\ CopyExact'
  BY <1>1 DEF TypeOK, Exclusion, RequestsMatch, FreedByWriter, CopyExact
<1>3. At("waitWrite")' = At("waitWrite")
  BY <1>1 DEF TypeOK, At
<1>4. NoLostWakeup'
  <2>1. SUFFICES ASSUME okToWrite' # {}
                 PROVE  (AR' + AW' > 0) \/ At("waitWrite")' \ okToWrite' # {}
    BY <1>1 DEF NoLostWakeup
  <2>2. CASE LastReaderWakesWriter
    <3>1. PICK woken \in Signalled(okToWrite) : okToWrite' = okToWrite \ woken
      BY <2>2 DEF ReadExit
    <3>2. okToWrite \ okToWrite' # {}
      BY <2>1, <3>1, SignalWakes
    <3> QED
      BY <1>3, <3>2 DEF TypeOK
  <2>3. CASE ~LastReaderWakesWriter
    <3>1. okToWrite' = okToWrite
      BY <2>3 DEF ReadExit
    <3>2. At("waitWrite") # {}
      BY <2>1, <3>1 DEF TypeOK
    <3>3. WW > 0 /\ AR > 0
      <4>1. At("reading") # {}
        BY <1>1 DEF At
      <4> QED
        BY <3>2, <4>1, CountersPositive
    <3>4. AR \in Nat /\ AW \in Nat
      BY DEF TypeOK
    <3> QED
      BY <1>1, <2>3, <3>3, <3>4 DEF LastReaderWakesWriter
  <2> QED
    BY <2>2, <2>3
<1> QED
  BY <1>2, <1>4 DEF TypeInv

LEMMA SafeWriteEntry ==
  ASSUME IInv, NEW t \in Threads, WriteEntry(t), TypeInv'
  PROVE  IInv'
<1> USE DEF IInv
<1>0. /\ pc[t] = "wantWrite" \/ (pc[t] = "waitWrite" /\ t \notin okToWrite)
      /\ UNCHANGED <<req, AR, WR, okToRead, table, result>>
  BY DEF WriteEntry
<1>1. CASE MustWaitToWrite
  <2>1. /\ pc' = [pc EXCEPT ![t] = "waitWrite"]
        /\ UNCHANGED <<AW, todo>>
    BY <1>1 DEF WriteEntry
  <2>2. Exclusion' /\ RequestsMatch' /\ FreedByWriter' /\ CopyExact'
    BY <1>0, <2>1 DEF TypeOK, Exclusion, RequestsMatch, FreedByWriter, CopyExact
  <2>3. NoLostWakeup'
    <3>0. WW' = OtherWaitingWriters(t) + 1
      BY <1>1 DEF WriteEntry
    <3>1. WW \in Nat /\ (WW' = WW \/ WW' = WW + 1)
      BY <3>0 DEF OtherWaitingWriters, TypeOK
    <3>2. okToRead' # {} => AW' + WW' > 0
      <4>1. AW \in Nat /\ (okToRead # {} => AW + WW > 0)
        BY DEF NoLostWakeup, TypeOK
      <4> QED
        BY <1>0, <2>1, <3>1, <4>1
    <3>3. AR' + AW' > 0
      BY <1>0, <1>1, <2>1 DEF MustWaitToWrite, TypeOK
    <3> QED
      BY <3>2, <3>3 DEF NoLostWakeup
  <2> QED
    BY <2>2, <2>3 DEF TypeInv
<1>2. CASE ~MustWaitToWrite
  <2>1. /\ pc' = [pc EXCEPT ![t] = "writing"]
        /\ AW' = AW + 1
        /\ todo' = [todo EXCEPT ![t] = Assigned(table, req[t])]
        /\ UNCHANGED okToWrite
    BY <1>2 DEF WriteEntry
  <2>2. At("writing") = {} /\ At("reading") = {}
    BY <1>2, CountersPositive DEF MustWaitToWrite, TypeOK
  <2>3. Exclusion'
    BY <1>0, <2>1, <2>2 DEF TypeOK, Exclusion, At
  <2>4. NoLostWakeup'
    <3>0. AW \in Nat /\ AR' \in Nat /\ WW' \in Nat
      BY DEF TypeInv, TypeOK
    <3>1. AW' > 0 /\ AW' \in Nat /\ AR' \in Nat /\ WW' \in Nat
      BY <2>1, <3>0
    <3>2. AR' + AW' > 0 /\ AW' + WW' > 0
      BY <3>0, <3>1, PositiveSum
    <3> QED
      BY <3>2 DEF NoLostWakeup
  <2>5. RequestsMatch'
    BY <1>0, <2>1 DEF TypeOK, RequestsMatch
  <2>6. FreedByWriter'
    BY <1>0, <2>1, <2>2 DEF TypeOK, FreedByWriter, At
  <2>7. CopyExact'
    BY <1>0, <2>1 DEF TypeOK, CopyExact
  <2> QED
    BY <2>3, <2>4, <2>5, <2>6, <2>7 DEF TypeInv
<1> QED
  BY <1>1, <1>2

LEMMA SafeFreeCell ==
  ASSUME IInv, NEW t \in Threads, FreeCell(t), TypeInv'
  PROVE  IInv'
<1> USE DEF IInv
<1>1. PICK c \in todo[t] : table' = [table EXCEPT ![c] = NULL]
  BY DEF FreeCell
<1>2. /\ pc[t] = "writing"
      /\ UNCHANGED <<pc, req, AR, AW, WR, WW, okToRead, okToWrite, todo, result>>
  BY DEF FreeCell, lockVars
<1>3. Exclusion' /\ RequestsMatch' /\ NoLostWakeup'
  BY <1>2 DEF Exclusion, RequestsMatch, NoLostWakeup, At
<1>4. FreedByWriter'
  BY <1>1, <1>2 DEF TypeOK, FreedByWriter
<1>5. \A u \in Threads : pc[u] # "reading"
  BY <1>2 DEF Exclusion
<1>6. CopyExact'
  BY <1>2, <1>5 DEF CopyExact
<1> QED
  BY <1>3, <1>4, <1>6 DEF TypeInv

LEMMA SafeStoreCell ==
  ASSUME IInv, NEW t \in Threads, StoreCell(t), TypeInv'
  PROVE  IInv'
<1> USE DEF IInv
<1>1. PICK c \in todo[t] :
        /\ table' = [table EXCEPT ![c] = req[t].val[c[2]]]
        /\ todo' = [todo EXCEPT ![t] = @ \ {c}]
  BY DEF StoreCell
<1>2. /\ pc[t] = "writing"
      /\ UNCHANGED <<pc, req, AR, AW, WR, WW, okToRead, okToWrite, result>>
  BY DEF StoreCell, lockVars
<1>3. Exclusion' /\ RequestsMatch' /\ NoLostWakeup'
  BY <1>2 DEF Exclusion, RequestsMatch, NoLostWakeup, At
<1>4. FreedByWriter'
  <2>1. req[t].val[c[2]] \in Values
    BY RequestsAssumption DEF TypeOK, RequestType, Cells
  <2>2. table'[c] # NULL
    BY <1>1, <2>1, NullAssumption DEF TypeOK
  <2> QED
    BY <1>1, <1>2, <2>2 DEF TypeOK, FreedByWriter
<1>5. \A u \in Threads : pc[u] # "reading"
  BY <1>2 DEF Exclusion
<1>6. CopyExact'
  BY <1>2, <1>5 DEF CopyExact
<1> QED
  BY <1>3, <1>4, <1>6 DEF TypeInv

LEMMA SafeWriteExit ==
  ASSUME IInv, NEW t \in Threads, WriteExit(t), TypeInv'
  PROVE  IInv'
<1> USE DEF IInv
<1>1. /\ pc[t] = "writing" /\ todo[t] = {} /\ pc' = [pc EXCEPT ![t] = "idle"]
      /\ AW' = AW - 1
      /\ UNCHANGED <<req, AR, WR, WW, table, todo, result>>
  BY DEF WriteExit
<1>2. Exclusion' /\ RequestsMatch' /\ FreedByWriter' /\ CopyExact'
  BY <1>1 DEF TypeOK, Exclusion, RequestsMatch, FreedByWriter, CopyExact
<1>3. At("waitWrite")' = At("waitWrite")
  BY <1>1 DEF TypeOK, At
<1>4. CASE WW > 0
  <2>1. PICK woken \in Signalled(okToWrite) : okToWrite' = okToWrite \ woken
    BY <1>4 DEF WriteExit
  <2>2. okToWrite \ okToWrite' # {} \/ okToWrite' = {}
    BY <2>1, SignalWakes
  <2>3. okToWrite' # {} => At("waitWrite")' \ okToWrite' # {}
    BY <1>3, <2>2 DEF TypeOK
  <2>4. AW' + WW' > 0
    BY <1>1, <1>4 DEF TypeInv, TypeOK
  <2> QED
    BY <1>2, <2>3, <2>4 DEF TypeInv, NoLostWakeup
<1>5. CASE ~(WW > 0)
  <2>1. okToWrite' = {}
    <3>1. okToWrite' = okToWrite
      BY <1>5 DEF WriteExit
    <3>2. At("waitWrite") = {}
      BY <1>5, CountersPositive
    <3> QED
      BY <3>1, <3>2 DEF TypeOK
  <2>2. okToRead' = {}
    <3>1. okToRead' = IF WriterWakesReaders THEN {} ELSE okToRead
      BY <1>5 DEF WriteExit
    <3>2. ~WriterWakesReaders => At("waitRead") = {}
      BY CountersPositive DEF WriterWakesReaders
    <3> QED
      BY <3>1, <3>2 DEF TypeOK
  <2> QED
    BY <1>2, <2>1, <2>2 DEF TypeInv, NoLostWakeup
<1> QED
  BY <1>4, <1>5

LEMMA SafeStutter ==
  ASSUME IInv, TypeInv', \/ UNCHANGED vars
                         \/ \E t \in Threads : SpuriousWake(t)
  PROVE  IInv'
<1> USE DEF IInv
<1>1. /\ UNCHANGED <<pc, req, AR, AW, WR, WW, table, todo, result>>
      /\ okToRead' \subseteq okToRead /\ okToWrite' \subseteq okToWrite
  BY DEF vars, SpuriousWake
<1>2. Exclusion' /\ RequestsMatch' /\ FreedByWriter' /\ CopyExact'
  BY <1>1 DEF Exclusion, RequestsMatch, FreedByWriter, CopyExact
<1>3. NoLostWakeup'
  BY <1>1 DEF NoLostWakeup, At
<1> QED
  BY <1>2, <1>3 DEF TypeInv

LEMMA SafeStep == IInv /\ [Next]_vars => IInv'
<1> SUFFICES ASSUME IInv, [Next]_vars PROVE IInv'
  OBVIOUS
<1>1. TypeInv'
  BY TypeAsk, TypeReadEntry, TypeWriteEntry, TypeInside, TypeReadExit,
     TypeWriteExit, TypeStutter DEF IInv, TypeInv, Next, Step
<1> QED
  BY <1>1, SafeAsk, SafeReadEntry, SafeReadCell, SafeReadExit, SafeWriteEntry,
     SafeFreeCell, SafeStoreCell, SafeWriteExit, SafeStutter DEF Next, Step

(* The inductive invariant holds of every execution.                       *)
THEOREM Invariance == Spec => []IInv
  BY SafeInit, SafeStep, PTL DEF Spec

(* A writer is alone at the table (L394-401 against L458-466).             *)
THEOREM MutualExclusion == Spec => []Exclusion
<1>1. IInv => Exclusion
  BY DEF IInv
<1> QED
  BY <1>1, Invariance, PTL

(* Nobody blocks on okToRead or okToWrite without somebody left to wake it *)
(* (the wake-ups of L452-453 and L517-520 are enough).                     *)
THEOREM WakeupsSuffice == Spec => []NoLostWakeup
<1>1. IInv => NoLostWakeup
  BY DEF IInv
<1> QED
  BY <1>1, Invariance, PTL

(* A SELECT copies no half-done UPDATE (L419-442 against L537-540).        *)
THEOREM ConsistentReads == Spec => []SnapshotConsistent
<1>1. IInv => SnapshotConsistent
  <2> SUFFICES ASSUME IInv, NEW t \in At("reading"), NEW c \in Selected(req[t])
               PROVE  table[c] # NULL /\ (c \notin todo[t] => result[t][c] = table[c])
    BY DEF SnapshotConsistent
  <2>1. t \in Threads /\ pc[t] = "reading" /\ c \in Cells
    BY DEF At, Selected
  <2>2. table[c] # NULL
    BY <2>1 DEF IInv, FreedByWriter, Exclusion
  <2>3. c \notin todo[t] => result[t][c] = table[c]
    BY <2>1 DEF IInv, CopyExact
  <2> QED
    BY <2>2, <2>3
<1> QED
  BY <1>1, Invariance, PTL

-----------------------------------------------------------------------------
(* TableLock implements AtomicTable.                                       *)

LEMMA SameData ==
  /\ Atomic!Cells = Cells
  /\ Atomic!NoCells = NoCells
  /\ \A r : Atomic!Selected(r) = Selected(r)
  /\ \A tb, r : Atomic!Assigned(tb, r) = Assigned(tb, r)
<1>1. Atomic!Rows = Rows /\ Atomic!Columns = Columns
  BY DEF Atomic!Rows, Atomic!Columns, Rows, Columns
<1>2. Atomic!Cells = Cells
  BY <1>1 DEF Atomic!Cells, Cells
<1>3. Atomic!NoCells = NoCells
  BY <1>2 DEF Atomic!NoCells, NoCells
<1>4. \A r : Atomic!Selected(r) = Selected(r)
  BY <1>2 DEF Atomic!Selected, Selected
<1>5. \A tb, r, n : Atomic!Matches(tb, r, n) = Matches(tb, r, n)
  BY DEF Atomic!Matches, Matches
<1>6. \A tb, r : Atomic!Assigned(tb, r) = Assigned(tb, r)
  BY <1>1, <1>2, <1>5 DEF Atomic!Assigned, Assigned
<1> QED
  BY <1>2, <1>3, <1>4, <1>6

(* What clients see, before and after a step: the table itself when nobody *)
(* writes, otherwise the table with the writer's remaining cells done.     *)
LEMMA CommittedIdle ==
  ASSUME TypeOK, At("writing") = {}
  PROVE  Committed = table
BY DEF TypeOK, At, Committed

LEMMA CommittedIdleNext ==
  ASSUME TypeOK', At("writing")' = {}
  PROVE  Committed' = table'
BY DEF TypeOK, At, Committed

LEMMA CommittedWriting ==
  ASSUME Exclusion, NEW w \in Threads, pc[w] = "writing"
  PROVE  Committed =
           [c \in Cells |-> IF c \in todo[w] THEN req[w].val[c[2]] ELSE table[c]]
<1>1. \A u \in Threads : pc[u] = "writing" => u = w
  BY DEF Exclusion
<1>2. ASSUME NEW c \in todo[w]
      PROVE  (CHOOSE u \in Threads : pc[u] = "writing" /\ c \in todo[u]) = w
  BY <1>1, <1>2
<1>3. ASSUME NEW c \in Cells
      PROVE  (\E u \in Threads : pc[u] = "writing" /\ c \in todo[u]) <=> c \in todo[w]
  BY <1>1
<1> QED
  BY <1>2, <1>3 DEF Committed

LEMMA CommittedWritingNext ==
  ASSUME Exclusion', NEW w \in Threads, pc'[w] = "writing"
  PROVE  Committed' =
           [c \in Cells |-> IF c \in todo'[w] THEN req'[w].val[c[2]] ELSE table'[c]]
<1>1. \A u \in Threads : pc'[u] = "writing" => u = w
  BY DEF Exclusion
<1>2. ASSUME NEW c \in todo'[w]
      PROVE  (CHOOSE u \in Threads : pc'[u] = "writing" /\ c \in todo'[u]) = w
  BY <1>1, <1>2
<1>3. ASSUME NEW c \in Cells
      PROVE  (\E u \in Threads : pc'[u] = "writing" /\ c \in todo'[u]) <=> c \in todo'[w]
  BY <1>1
<1> QED
  BY <1>2, <1>3 DEF Committed

(* A step of a thread that is not the writer changes nothing clients see.  *)
LEMMA CommittedKept ==
  ASSUME IInv, IInv', UNCHANGED table,
         \A u \in Threads :
           /\ pc'[u] = "writing" <=> pc[u] = "writing"
           /\ pc[u] = "writing" => todo'[u] = todo[u] /\ req'[u] = req[u]
  PROVE  UNCHANGED Committed
<1>1. CASE \E w \in Threads : pc[w] = "writing"
  <2>1. PICK w \in Threads : pc[w] = "writing"
    BY <1>1
  <2>2. pc'[w] = "writing" /\ todo'[w] = todo[w] /\ req'[w] = req[w]
    BY <2>1
  <2>3. Exclusion /\ Exclusion'
    BY DEF IInv
  <2> QED
    BY <2>1, <2>2, <2>3, CommittedWriting, CommittedWritingNext
<1>2. CASE ~\E w \in Threads : pc[w] = "writing"
  <2>1. At("writing") = {} /\ At("writing")' = {}
    BY <1>2 DEF At
  <2> QED
    BY <2>1, CommittedIdle, CommittedIdleNext DEF IInv
<1> QED
  BY <1>1, <1>2

LEMMA RefineInit == Init => Atomic!Init
<1> SUFFICES ASSUME Init PROVE Atomic!Init
  OBVIOUS
<1>1. Committed = table
  <2>1. TypeOK /\ At("writing") = {}
    BY TypeInit DEF TypeInv, Init, At
  <2> QED
    BY <2>1, CommittedIdle
<1>2. Status = [t \in Threads |-> "idle"]
  BY DEF Init, Status
<1>3. Reply = [t \in Threads |-> NoCells]
  BY DEF Init, Reply
<1> QED
  BY <1>1, <1>2, <1>3, SameData DEF Init, Atomic!Init

LEMMA RefineAsk ==
  ASSUME IInv, IInv', NEW t \in Threads, Ask(t)
  PROVE  Atomic!Ask(t)
<1>1. PICK r \in Requests :
        /\ req' = [req EXCEPT ![t] = r]
        /\ pc' = [pc EXCEPT ![t] = IF r.op = "SELECT" THEN "wantRead" ELSE "wantWrite"]
  BY DEF Ask
<1>2. /\ pc[t] = "idle"
      /\ result' = [result EXCEPT ![t] = NoCells]
      /\ UNCHANGED <<table, todo>>
  BY DEF Ask
<1>3. pc \in [Threads -> PCs]
  BY DEF IInv, TypeOK
<1>4. UNCHANGED Committed
  <2>1. \A u \in Threads :
           /\ pc'[u] = "writing" <=> pc[u] = "writing"
           /\ pc[u] = "writing" => todo'[u] = todo[u] /\ req'[u] = req[u]
    BY <1>1, <1>2 DEF IInv, TypeOK
  <2> QED
    BY <1>2, <2>1, CommittedKept
<1>5. Status[t] = "idle" /\ Status' = [Status EXCEPT ![t] = "asked"]
  BY <1>1, <1>2, <1>3 DEF Status
<1>6. Reply' = [Reply EXCEPT ![t] = NoCells]
  BY <1>1, <1>2, <1>3 DEF Reply, IInv, TypeOK
<1> QED
  BY <1>1, <1>4, <1>5, <1>6, SameData DEF Atomic!Ask

(* Waiting, entering to read, and copying or assigning a cell are steps    *)
(* no client sees.                                                         *)
LEMMA RefineReadInside ==
  ASSUME IInv, IInv', NEW t \in Threads, ReadEntry(t) \/ ReadCell(t)
  PROVE  UNCHANGED Atomic!vars
<1>1. /\ pc[t] \in {"wantRead", "waitRead", "reading"}
      /\ \/ pc' = [pc EXCEPT ![t] = "waitRead"]
         \/ pc' = [pc EXCEPT ![t] = "reading"]
         \/ pc[t] = "reading" /\ UNCHANGED pc
      /\ UNCHANGED <<req, table>>
      /\ UNCHANGED result \/ pc' = pc
      /\ \A u \in Threads \ {t} : todo'[u] = todo[u] /\ result'[u] = result[u]
  BY DEF ReadEntry, ReadCell, IInv, TypeOK
<1>2. pc \in [Threads -> PCs]
  BY DEF IInv, TypeOK
<1>3. UNCHANGED Committed
  <2>1. \A u \in Threads :
           /\ pc'[u] = "writing" <=> pc[u] = "writing"
           /\ pc[u] = "writing" => todo'[u] = todo[u] /\ req'[u] = req[u]
    BY <1>1, <1>2
  <2> QED
    BY <1>1, <2>1, CommittedKept
<1>4. UNCHANGED Status
  BY <1>1, <1>2 DEF Status
<1>5. UNCHANGED Reply
  BY <1>1, <1>2 DEF Reply
<1> QED
  BY <1>1, <1>3, <1>4, <1>5 DEF Atomic!vars

LEMMA RefineReadExit ==
  ASSUME IInv, IInv', NEW t \in Threads, ReadExit(t)
  PROVE  Atomic!Select(t)
<1>1. /\ pc[t] = "reading" /\ todo[t] = {} /\ pc' = [pc EXCEPT ![t] = "idle"]
      /\ UNCHANGED <<req, table, todo, result>>
  BY DEF ReadExit
<1>2. pc \in [Threads -> PCs]
  BY DEF IInv, TypeOK
<1>3. At("writing") = {} /\ At("writing")' = {}
  BY <1>1, <1>2 DEF IInv, Exclusion, At
<1>4. Committed = table /\ Committed' = table'
  BY <1>3, CommittedIdle, CommittedIdleNext DEF IInv
<1>5. Status[t] = "asked" /\ Status' = [Status EXCEPT ![t] = "idle"]
  BY <1>1, <1>2 DEF Status
<1>6. req[t].op = "SELECT"
  BY <1>1 DEF IInv, RequestsMatch
<1>7. result[t] = Atomic!Projection(table, Selected(req[t]))
  BY <1>1, SameData DEF IInv, TypeOK, CopyExact, Atomic!Projection
<1>8. Reply' = [Reply EXCEPT ![t] = result[t]]
  BY <1>1, <1>2 DEF Reply
<1> QED
  BY <1>1, <1>4, <1>5, <1>6, <1>7, <1>8, SameData DEF Atomic!Select

LEMMA RefineWriteEntry ==
  ASSUME IInv, IInv', NEW t \in Threads, WriteEntry(t)
  PROVE  Atomic!Update(t) \/ UNCHANGED Atomic!vars
<1>0. /\ pc[t] \in {"wantWrite", "waitWrite"}
      /\ UNCHANGED <<req, table, result>>
  BY DEF WriteEntry
<1>1. pc \in [Threads -> PCs]
  BY DEF IInv, TypeOK
<1>2. CASE MustWaitToWrite
  <2>1. pc' = [pc EXCEPT ![t] = "waitWrite"] /\ UNCHANGED todo
    BY <1>2 DEF WriteEntry
  <2>2. UNCHANGED Committed
    BY <1>0, <1>1, <2>1, CommittedKept
  <2>3. UNCHANGED <<Status, Reply>>
    BY <1>0, <1>1, <2>1 DEF Status, Reply
  <2> QED
    BY <1>0, <2>2, <2>3 DEF Atomic!vars
<1>3. CASE ~MustWaitToWrite
  <2>1. /\ pc' = [pc EXCEPT ![t] = "writing"]
        /\ todo' = [todo EXCEPT ![t] = Assigned(table, req[t])]
    BY <1>3 DEF WriteEntry
  <2>2. Committed = table
    <3>1. At("writing") = {}
      BY <1>3, CountersPositive DEF MustWaitToWrite, IInv, TypeOK
    <3> QED
      BY <3>1, CommittedIdle DEF IInv
  <2>3. Committed' = [c \in Cells |-> IF c \in Assigned(table, req[t])
                                      THEN req[t].val[c[2]] ELSE table[c]]
    <3>1. pc'[t] = "writing" /\ todo'[t] = Assigned(table, req[t])
      BY <1>1, <2>1 DEF IInv, TypeOK
    <3>2. Exclusion'
      BY DEF IInv
    <3> QED
      BY <1>0, <3>1, <3>2, CommittedWritingNext
  <2>4. Status[t] = "asked" /\ Status' = [Status EXCEPT ![t] = "applied"]
    BY <1>0, <1>1, <2>1 DEF Status
  <2>5. UNCHANGED Reply
    BY <1>0, <1>1, <2>1 DEF Reply
  <2>6. req[t].op = "UPDATE"
    BY <1>0 DEF IInv, RequestsMatch
  <2> QED
    BY <1>0, <2>2, <2>3, <2>4, <2>5, <2>6, SameData DEF Atomic!Update, Atomic!Overwrite
<1> QED
  BY <1>2, <1>3

LEMMA RefineWriteInside ==
  ASSUME IInv, IInv', NEW t \in Threads, FreeCell(t) \/ StoreCell(t)
  PROVE  UNCHANGED Atomic!vars
<1>1. pc[t] = "writing" /\ UNCHANGED <<pc, req, result>>
  BY DEF FreeCell, StoreCell
<1>2. UNCHANGED <<Status, Reply>>
  BY <1>1 DEF Status, Reply
<1>3. /\ Committed  = [c \in Cells |-> IF c \in todo[t] THEN req[t].val[c[2]] ELSE table[c]]
      /\ Committed' = [c \in Cells |-> IF c \in todo'[t] THEN req[t].val[c[2]] ELSE table'[c]]
  BY <1>1, CommittedWriting, CommittedWritingNext DEF IInv
<1>4. UNCHANGED Committed
  <2>1. CASE FreeCell(t)
    <3>1. PICK c \in todo[t] : table' = [table EXCEPT ![c] = NULL]
      BY <2>1 DEF FreeCell
    <3> QED
      BY <1>3, <2>1, <3>1 DEF FreeCell, IInv, TypeOK
  <2>2. CASE StoreCell(t)
    <3>1. PICK c \in todo[t] : /\ table' = [table EXCEPT ![c] = req[t].val[c[2]]]
                               /\ todo' = [todo EXCEPT ![t] = @ \ {c}]
      BY <2>2 DEF StoreCell
    <3> QED
      BY <1>3, <3>1 DEF IInv, TypeOK
  <2> QED
    BY <2>1, <2>2
<1> QED
  BY <1>1, <1>2, <1>4 DEF Atomic!vars

LEMMA RefineWriteExit ==
  ASSUME IInv, IInv', NEW t \in Threads, WriteExit(t)
  PROVE  Atomic!Return(t)
<1>1. /\ pc[t] = "writing" /\ todo[t] = {} /\ pc' = [pc EXCEPT ![t] = "idle"]
      /\ UNCHANGED <<req, table, todo, result>>
  BY DEF WriteExit
<1>2. pc \in [Threads -> PCs] /\ table \in [Cells -> Values \cup {NULL}]
  BY DEF IInv, TypeOK
<1>3. Committed = table
  BY <1>1, <1>2, CommittedWriting DEF IInv
<1>4. Committed' = table'
  <2>1. At("writing")' = {}
    BY <1>1, <1>2 DEF IInv, Exclusion, At
  <2> QED
    BY <2>1, CommittedIdleNext DEF IInv
<1>5. Status[t] = "applied" /\ Status' = [Status EXCEPT ![t] = "idle"]
  BY <1>1, <1>2 DEF Status
<1>6. UNCHANGED Reply
  <2>1. result[t] = NoCells
    BY <1>1 DEF IInv, CopyExact
  <2> QED
    BY <1>1, <1>2, <2>1 DEF Reply
<1> QED
  BY <1>1, <1>3, <1>4, <1>5, <1>6 DEF Atomic!Return

LEMMA RefineStutter ==
  ASSUME IInv, IInv', \/ UNCHANGED vars
                      \/ \E t \in Threads : SpuriousWake(t)
  PROVE  UNCHANGED Atomic!vars
<1>1. UNCHANGED <<pc, req, table, todo, result>>
  BY DEF vars, SpuriousWake
<1>2. UNCHANGED <<Status, Reply>>
  BY <1>1 DEF Status, Reply
<1>3. UNCHANGED Committed
  BY <1>1, CommittedKept
<1> QED
  BY <1>1, <1>2, <1>3 DEF Atomic!vars

LEMMA RefineStep == IInv /\ IInv' /\ [Next]_vars => [Atomic!Next]_Atomic!vars
<1> SUFFICES ASSUME IInv, IInv', [Next]_vars PROVE [Atomic!Next]_Atomic!vars
  OBVIOUS
<1>1. ASSUME NEW t \in Threads, Ask(t) \/ Step(t)
      PROVE  [Atomic!Next]_Atomic!vars
  BY <1>1, RefineAsk, RefineReadInside, RefineReadExit, RefineWriteEntry,
     RefineWriteInside, RefineWriteExit DEF Step, Atomic!Next
<1>2. ASSUME UNCHANGED vars \/ \E t \in Threads : SpuriousWake(t)
      PROVE  [Atomic!Next]_Atomic!vars
  BY <1>2, RefineStutter
<1> QED
  BY <1>1, <1>2 DEF Next

(* Every SELECT and every UPDATE of parse_query takes effect at one        *)
(* instant between its start and its answer: an UPDATE when its thread     *)
(* passes L465, a SELECT when it passes L451.                              *)
THEOREM ImplementsAtomicTable == Spec => Linearizable
<1>1. Init => Atomic!Init
  BY RefineInit
<1>2. IInv /\ IInv' /\ [Next]_vars => [Atomic!Next]_Atomic!vars
  BY RefineStep
<1> QED
  BY <1>1, <1>2, Invariance, PTL DEF Spec, Linearizable, Atomic!Spec

-----------------------------------------------------------------------------
(* Texts put together of pieces.                                           *)

(* The order of the numbers, for the library's well-founded minimum, and   *)
(* what follows: a set of numbers has a least one, and what holds of 0 and *)
(* passes from each number to the next holds up to N.                      *)
Smaller == {p \in Nat \X Nat : p[1] < p[2]}

LEMMA Least == ASSUME NEW T \in SUBSET Nat, T # {}
               PROVE  \E x \in T : \A y \in T : x <= y
<1>1. IsWellFoundedOn(OpToRel(<, Nat), Nat)
  BY NatLessThanWellFounded, Zenon
<1>2. OpToRel(<, Nat) = Smaller
  BY DEF OpToRel, Smaller
<1>3. PICK x \in T : \A y \in T : ~ (<<y, x>> \in Smaller)
  BY <1>1, <1>2, WFMin, T \subseteq Nat, Zenon
<1>4. ASSUME NEW y \in T PROVE x <= y
  <2>1. x \in Nat /\ y \in Nat
    OBVIOUS
  <2>2. <<y, x>> \in Nat \X Nat /\ ~ (<<y, x>> \in Smaller)
    BY <1>3, <2>1
  <2> QED BY <2>1, <2>2 DEF Smaller
<1> QED BY <1>4

LEMMA Upwards == ASSUME NEW N \in Nat, NEW S, 0 \in S,
                        \A n \in 0..N - 1 : n \in S => n + 1 \in S
                 PROVE  \A n \in 0..N : n \in S
<1> DEFINE Bad == {n \in 0..N : n \notin S}
<1>1. SUFFICES ASSUME Bad # {} PROVE FALSE
  OBVIOUS
<1>0. Bad \in SUBSET Nat
  OBVIOUS
<1>2. PICK n \in Bad : \A m \in Bad : n <= m
  BY <1>0, <1>1, Least, Zenon
<1>3. n \in 1..N
  BY <1>2
<1>4. n - 1 \in S
  BY <1>2, <1>3
<1> QED BY <1>2, <1>3, <1>4

(* Ended is put together piece by piece (g holds what is there after n     *)
(* pieces).                                                                *)
GrownBy(g, p, c) == g[0] = <<>> /\ \A n \in 1..Len(p) : g[n] = g[n - 1] \o Append(p[n], c)

LEMMA EndedBy == ASSUME NEW p, NEW c, Len(p) \in Nat
                 PROVE  \E g : GrownBy(g, p, c) /\ Ended(p, c) = g[Len(p)]
<1>0. PICK N \in Nat : N = Len(p)
  OBVIOUS
<1> DEFINE Rest(g, n) == IF n = 0 THEN <<>> ELSE g[n - 1] \o Append(p[n], c)
<1> DEFINE Grown(m, g) == g = [n \in 0..m |-> Rest(g, n)]
<1> DEFINE S == {m \in 0..N : \E g : Grown(m, g)}
<1>1. 0 \in S
  <2> DEFINE g == [n \in 0..0 |-> <<>>]
  <2>1. \A n \in 0..0 : g[n] = Rest(g, n)
    OBVIOUS
  <2>2. g = [n \in 0..0 |-> g[n]]
    OBVIOUS
  <2> HIDE DEF g, Rest
  <2>3. g = [n \in 0..0 |-> Rest(g, n)]
    BY <2>1, <2>2
  <2> QED BY <2>3
<1>2. ASSUME NEW m \in 0..N - 1, m \in S PROVE m + 1 \in S
  <2>1. PICK g : Grown(m, g)
    BY <1>2
  <2> DEFINE h == [n \in 0..m + 1 |-> IF n <= m THEN g[n] ELSE g[m] \o Append(p[m + 1], c)]
  <2>2. \A n \in 0..m + 1 : h[n] = Rest(h, n)
    <3> TAKE n \in 0..m + 1
    <3>1. CASE n = 0
      BY <3>1, <2>1
    <3>2. CASE n \in 1..m
      <4>1. n \in 0..m /\ n - 1 \in 0..m /\ n # 0 /\ n <= m /\ n - 1 <= m /\ n - 1 \in 0..m + 1
        BY <3>2
      <4>2. h[n] = g[n] /\ h[n - 1] = g[n - 1]
        BY <4>1
      <4>3. g[n] = Rest(g, n)
        BY <2>1, <4>1, Zenon
      <4> QED BY <4>1, <4>2, <4>3, Zenon
    <3>3. CASE n = m + 1
      BY <3>3
    <3> QED BY <3>1, <3>2, <3>3
  <2> HIDE DEF h, Rest
  <2>3. h = [n \in 0..m + 1 |-> h[n]]
    BY DEF h
  <2>4. h = [n \in 0..m + 1 |-> Rest(h, n)]
    BY <2>2, <2>3
  <2> QED BY <2>4
<1> HIDE DEF S
<1>3. N \in S
  <2>1. \A n \in 0..N : n \in S
    BY <1>1, <1>2, Upwards
  <2> QED BY <2>1
<1>4. \E g : g = [n \in 0..N |-> IF n = 0 THEN <<>> ELSE g[n - 1] \o Append(p[n], c)]
  BY <1>3 DEF S
<1>5. \E g : /\ g = [n \in 0..Len(p) |-> IF n = 0 THEN <<>> ELSE g[n - 1] \o Append(p[n], c)]
             /\ Ended(p, c) = g[Len(p)]
  BY <1>0, <1>4, Zenon DEF Ended
<1>6. PICK g : /\ g = [n \in 0..N |-> IF n = 0 THEN <<>> ELSE g[n - 1] \o Append(p[n], c)]
               /\ Ended(p, c) = g[N]
  BY <1>0, <1>5
<1>7. \A n \in 0..N : g[n] = IF n = 0 THEN <<>> ELSE g[n - 1] \o Append(p[n], c)
  BY <1>6, Zenon
<1>8. g[0] = <<>>
  BY <1>7
<1>9. ASSUME NEW n \in 1..N PROVE g[n] = g[n - 1] \o Append(p[n], c)
  <2>1. n \in 0..N /\ n # 0
    OBVIOUS
  <2> QED BY <1>7, <2>1, Zenon
<1> QED BY <1>0, <1>6, <1>8, <1>9 DEF GrownBy

(* How pieces lie in a text: st[n] is where piece n begins; a c stands     *)
(* behind each piece, behind the last one only when the text is closed.    *)
Laid(t, p, c, closed, st) ==
  /\ st \in [1..Len(p) + 1 -> Nat] /\ st[1] = 1
  /\ \A n \in 1..Len(p) : st[n + 1] = st[n] + Len(p[n]) + 1
  /\ Len(t) = st[Len(p) + 1] - (IF closed THEN 1 ELSE 2)
  /\ \A n \in 1..Len(p) : \A k \in 1..Len(p[n]) : t[st[n] + k - 1] = p[n][k]
  /\ \A n \in 1..Len(p) : n < Len(p) \/ closed => t[st[n + 1] - 1] = c

(* The texts that Ended and Joined put together are laid out like that.    *)
LEMMA EndedLaid == ASSUME NEW T, NEW p \in Seq(Seq(T)), NEW c \in T
                   PROVE  Ended(p, c) \in Seq(T) /\ \E st : Laid(Ended(p, c), p, c, TRUE, st)
<1> DEFINE N == Len(p)
<1>1. N \in Nat /\ N = Len(p) /\ \A n \in 1..N : p[n] \in Seq(T) /\ Len(p[n]) \in Nat
  OBVIOUS
<1> HIDE DEF N
<1>2. \A n \in 1..N : /\ Append(p[n], c) \in Seq(T) /\ Len(Append(p[n], c)) = Len(p[n]) + 1
                      /\ \A k \in 1..Len(p[n]) : Append(p[n], c)[k] = p[n][k]
                      /\ Append(p[n], c)[Len(p[n]) + 1] = c
  BY <1>1
<1>3. PICK g : /\ g[0] = <<>> /\ \A n \in 1..N : g[n] = g[n - 1] \o Append(p[n], c)
               /\ Ended(p, c) = g[N]
  <2>1. Len(p) \in Nat
    OBVIOUS
  <2>2. PICK g : GrownBy(g, p, c) /\ Ended(p, c) = g[Len(p)]
    BY <2>1, EndedBy
  <2> QED BY <1>1, <2>2 DEF GrownBy
<1>4. ASSUME NEW n \in 1..N, g[n - 1] \in Seq(T)
      PROVE  /\ g[n] \in Seq(T) /\ Len(g[n - 1]) \in Nat /\ Len(g[n]) = Len(g[n - 1]) + Len(p[n]) + 1
             /\ \A k \in 1..Len(g[n - 1]) : g[n][k] = g[n - 1][k]
             /\ \A k \in 1..Len(p[n]) : g[n][Len(g[n - 1]) + k] = p[n][k]
             /\ g[n][Len(g[n - 1]) + Len(p[n]) + 1] = c
  <2>0. PICK a : a = g[n - 1]
    OBVIOUS
  <2>1. PICK b : b = Append(p[n], c)
    OBVIOUS
  <2>2. a \in Seq(T) /\ b \in Seq(T) /\ g[n] = a \o b
    BY <1>2, <1>3, <1>4, <2>0, <2>1
  <2>3. Len(b) = Len(p[n]) + 1 /\ b[Len(p[n]) + 1] = c /\ \A k \in 1..Len(p[n]) : b[k] = p[n][k]
    BY <1>2, <2>1
  <2>4. /\ Len(a \o b) = Len(a) + Len(b) /\ Len(a) \in Nat /\ a \o b \in Seq(T)
        /\ \A k \in 1..Len(a) + Len(b) : (a \o b)[k] = IF k <= Len(a) THEN a[k] ELSE b[k - Len(a)]
    BY <2>2, ConcatProperties
  <2>5. \A k \in 1..Len(a) : (a \o b)[k] = a[k]
    BY <2>2, <2>4
  <2>6. \A k \in 1..Len(b) : (a \o b)[Len(a) + k] = b[k]
    BY <2>2, <2>4
  <2>7. Len(p[n]) \in Nat
    BY <1>1
  <2>8. /\ a \o b \in Seq(T) /\ Len(a) \in Nat /\ Len(a \o b) = Len(a) + Len(p[n]) + 1
        /\ \A k \in 1..Len(a) : (a \o b)[k] = a[k]
        /\ \A k \in 1..Len(p[n]) : (a \o b)[Len(a) + k] = p[n][k]
        /\ (a \o b)[Len(a) + (Len(p[n]) + 1)] = c
        /\ Len(a) + (Len(p[n]) + 1) = Len(a) + Len(p[n]) + 1
    BY <2>3, <2>4, <2>5, <2>6, <2>7, SMTT(20)
  <2> QED BY <2>0, <2>2, <2>8, Zenon
<1>5. \A n \in 0..N : g[n] \in Seq(T) /\ Len(g[n]) \in Nat
  <2> DEFINE S == {n \in 0..N : g[n] \in Seq(T)}
  <2>1. 0 \in S
    <3>1. g[0] \in Seq(T) /\ 0 \in 0..N
      BY <1>1, <1>3
    <3> QED BY <3>1
  <2>2. ASSUME NEW n \in 0..N - 1, n \in S PROVE n + 1 \in S
    <3>1. n + 1 \in 1..N /\ (n + 1) - 1 = n /\ n + 1 \in 0..N
      BY <1>1
    <3>2. g[(n + 1) - 1] \in Seq(T)
      BY <2>2, <3>1
    <3>3. g[n + 1] \in Seq(T)
      BY <1>4, <3>1, <3>2
    <3> QED BY <3>1, <3>3
  <2> HIDE DEF S
  <2>3. \A n \in 0..N : n \in S
    BY <1>1, <2>1, <2>2, Upwards
  <2>4. \A n \in 0..N : g[n] \in Seq(T)
    BY <2>3 DEF S
  <2> QED BY <2>4, LenProperties
<1>6. \A n \in 1..N : g[n - 1] \in Seq(T) /\ Len(g[n - 1]) \in Nat /\ Len(g[n]) \in Nat
  BY <1>1, <1>5
<1>61. \A n \in 1..N : Len(g[n]) = Len(g[n - 1]) + Len(p[n]) + 1
  BY <1>4, <1>6
<1>62. \A n \in 1..N : \A k \in 1..Len(g[n - 1]) : g[n][k] = g[n - 1][k]
  BY <1>4, <1>6
<1>63. \A n \in 1..N : \A k \in 1..Len(p[n]) : g[n][Len(g[n - 1]) + k] = p[n][k]
  BY <1>4, <1>6
<1>64. \A n \in 1..N : g[n][Len(g[n - 1]) + Len(p[n]) + 1] = c
  BY <1>4, <1>6
<1> DEFINE L == [n \in 0..N |-> Len(g[n])]
           w == [n \in 1..N |-> Len(p[n])]
           st == [n \in 1..N + 1 |-> Len(g[n - 1]) + 1]
<1>7. /\ L \in [0..N -> Nat] /\ w \in [1..N -> Nat] /\ st \in [1..N + 1 -> Nat]
      /\ \A n \in 0..N : L[n] = Len(g[n])
      /\ \A n \in 1..N : w[n] = Len(p[n])
      /\ \A n \in 1..N + 1 : st[n] = Len(g[n - 1]) + 1
  <2>1. \A n \in 1..N + 1 : n - 1 \in 0..N
    BY <1>1
  <2> QED BY <1>1, <1>5, <2>1
<1> HIDE DEF L, w, st
<1>8. ASSUME NEW n \in 1..N
      PROVE  /\ n \in 1..N + 1 /\ n + 1 \in 1..N + 1 /\ n \in 0..N /\ n - 1 \in 0..N
             /\ \E a, l \in Nat : /\ L[n - 1] = a /\ w[n] = l /\ L[n] = a + l + 1
                                /\ st[n] = a + 1 /\ st[n + 1] = a + l + 2
  <2>1. n \in 1..N + 1 /\ n + 1 \in 1..N + 1 /\ n \in 0..N /\ n - 1 \in 0..N /\ (n + 1) - 1 = n
    BY <1>1
  <2>2. PICK a \in Nat : a = Len(g[n - 1])
    BY <1>6
  <2>3. PICK l \in Nat : l = Len(p[n])
    BY <1>1
  <2>4. Len(g[n]) = a + l + 1
    BY <1>61, <2>2, <2>3
  <2>5. L[n - 1] = a /\ w[n] = l /\ L[n] = a + l + 1
    BY <1>7, <2>1, <2>2, <2>3, <2>4
  <2>6. st[n] = a + 1
    BY <1>7, <2>1, <2>2
  <2>7. st[n + 1] = a + l + 2
    <3>1. st[n + 1] = Len(g[n]) + 1
      BY <1>7, <2>1
    <3> QED BY <2>4, <3>1
  <2> QED BY <2>1, <2>5, <2>6, <2>7
<1>9. ASSUME NEW m \in 0..N
      PROVE  \A n \in 0..m : L[n] <= L[m] /\ \A k \in 1..L[n] : g[m][k] = g[n][k]
  <2> DEFINE S == {q \in 0..N : \A n \in 0..q : L[n] <= L[q] /\ \A k \in 1..L[n] : g[q][k] = g[n][k]}
  <2>1. 0 \in S
    <3>1. \A n \in 0..0 : n = 0
      OBVIOUS
    <3>2. 0 \in 0..N /\ L[0] \in Nat
      BY <1>1, <1>7
    <3> QED BY <3>1, <3>2
  <2>2. ASSUME NEW q \in 0..N - 1, q \in S PROVE q + 1 \in S
    <3>1. q + 1 \in 1..N /\ (q + 1) - 1 = q /\ q \in 0..N /\ q + 1 \in 0..N
      BY <1>1
    <3>2. L[q] <= L[q + 1] /\ L[q] \in Nat /\ L[q + 1] \in Nat
      <4>1. PICK a, l \in Nat : L[(q + 1) - 1] = a /\ L[q + 1] = a + l + 1
        BY <1>8, <3>1
      <4> QED BY <3>1, <4>1
    <3>3. \A k \in 1..L[q] : g[q + 1][k] = g[q][k]
      BY <1>62, <1>7, <3>1
    <3>4. ASSUME NEW n \in 0..q + 1
          PROVE  L[n] <= L[q + 1] /\ \A k \in 1..L[n] : g[q + 1][k] = g[n][k]
      <4>1. CASE n = q + 1
        BY <4>1, <3>2
      <4>2. CASE n \in 0..q
        <5>1. n \in 0..N
          BY <4>2, <3>1, <1>1
        <5>2. L[n] \in Nat /\ L[n] <= L[q] /\ \A k \in 1..L[n] : g[q][k] = g[n][k]
          BY <1>7, <2>2, <4>2, <5>1
        <5>3. L[n] <= L[q + 1] /\ 1..L[n] \subseteq 1..L[q]
          BY <3>2, <5>2
        <5> QED BY <3>3, <5>2, <5>3
      <4>3. n = q + 1 \/ n \in 0..q
        OBVIOUS
      <4> QED BY <4>1, <4>2, <4>3
    <3> QED BY <3>1, <3>4
  <2> HIDE DEF S
  <2>3. \A n \in 0..N : n \in S
    BY <1>1, <2>1, <2>2, Upwards
  <2> QED BY <2>3 DEF S
<1>10. /\ \A n \in 1..N : st[n + 1] = st[n] + Len(p[n]) + 1
       /\ Len(g[N]) = st[N + 1] - 1 /\ st[1] = 1
  <2>1. ASSUME NEW n \in 1..N PROVE st[n + 1] = st[n] + w[n] + 1
    <3>1. PICK a, l \in Nat : w[n] = l /\ st[n] = a + 1 /\ st[n + 1] = a + l + 2
      BY <1>8
    <3> QED BY <3>1
  <2>2. N + 1 \in 1..N + 1 /\ (N + 1) - 1 = N /\ N \in 0..N /\ Len(g[N]) \in Nat
    BY <1>1, <1>5
  <2>3. Len(g[N]) = st[N + 1] - 1
    BY <1>7, <2>2
  <2>4. 1 \in 1..N + 1 /\ 1 - 1 = 0 /\ Len(g[0]) = 0
    BY <1>1, <1>3
  <2> QED BY <1>7, <2>1, <2>3, <2>4
<1>12. \A n \in 1..N : \A k \in 1..L[n] : g[N][k] = g[n][k]
  <2>1. N \in 0..N /\ \A n \in 1..N : n \in 0..N
    BY <1>1
  <2> QED BY <1>9, <2>1
<1>13. ASSUME NEW n \in 1..N, NEW k \in 1..Len(p[n]) PROVE g[N][st[n] + k - 1] = p[n][k]
  <2>1. k \in 1..w[n]
    BY <1>7
  <2>2. st[n] + k - 1 = L[n - 1] + k /\ L[n - 1] + k \in 1..L[n]
    <3>1. PICK a, l \in Nat : L[n - 1] = a /\ w[n] = l /\ L[n] = a + l + 1 /\ st[n] = a + 1
      BY <1>8
    <3>2. k \in 1..l
      BY <2>1, <3>1
    <3>3. (a + 1) + k - 1 = a + k /\ a + k \in 1..a + l + 1
      BY <3>2
    <3> QED BY <3>1, <3>3
  <2>3. L[n - 1] = Len(g[n - 1])
    BY <1>7, <1>8
  <2>4. g[N][L[n - 1] + k] = g[n][L[n - 1] + k]
    BY <1>12, <2>2
  <2>5. g[n][Len(g[n - 1]) + k] = p[n][k]
    BY <1>63
  <2> QED BY <2>2, <2>3, <2>4, <2>5
<1>14. ASSUME NEW n \in 1..N PROVE g[N][st[n + 1] - 1] = c
  <2>1. st[n + 1] - 1 = L[n - 1] + w[n] + 1 /\ L[n - 1] + w[n] + 1 \in 1..L[n]
    <3>1. PICK a, l \in Nat : /\ L[n - 1] = a /\ w[n] = l /\ L[n] = a + l + 1
                             /\ st[n + 1] = a + l + 2
      BY <1>8
    <3> QED BY <3>1
  <2>2. L[n - 1] = Len(g[n - 1]) /\ w[n] = Len(p[n])
    BY <1>7, <1>8
  <2> QED BY <1>12, <1>64, <2>1, <2>2
<1>15. g[N] \in Seq(T)
  BY <1>1, <1>5
<1>16. Laid(g[N], p, c, TRUE, st)
  BY <1>7, <1>10, <1>13, <1>14 DEF Laid, N
<1> QED BY <1>3, <1>15, <1>16

(* The pieces stand behind each other and cover the text.                  *)
LEMMA LaidOrder == ASSUME NEW T, NEW p \in Seq(Seq(T)), NEW st \in [1..Len(p) + 1 -> Nat], st[1] = 1,
                          \A n \in 1..Len(p) : st[n + 1] = st[n] + Len(p[n]) + 1
                   PROVE  /\ \A m \in 1..Len(p) + 1 : st[m] >= m /\ \A n \in 1..m - 1 : st[n + 1] <= st[m]
                          /\ \A q \in 1..st[Len(p) + 1] - 1 : \E n \in 1..Len(p) : q \in st[n]..st[n + 1] - 1
<1> DEFINE N == Len(p)
<1>1. N \in Nat /\ \A n \in 1..N : Len(p[n]) \in Nat
  OBVIOUS
<1> HIDE DEF N
<1> DEFINE S == {m \in 0..N : /\ st[m + 1] >= m + 1
                             /\ \A n \in 1..m : st[n + 1] <= st[m + 1]
                             /\ \A q \in 1..st[m + 1] - 1 : \E o \in 1..m : q \in st[o]..st[o + 1] - 1}
<1>2. \A m \in 1..N + 1 : st[m] \in Nat
  BY DEF N
<1>3. \A n \in 1..N : st[n + 1] = st[n] + Len(p[n]) + 1
  BY DEF N
<1>4. 0 \in S
  BY <1>1
<1>5. ASSUME NEW m \in 0..N - 1, m \in S PROVE m + 1 \in S
  <2>1. /\ m + 1 \in 1..N /\ m + 1 \in 0..N /\ m + 2 \in 1..N + 1 /\ (m + 1) + 1 = m + 2
        /\ st[m + 1] \in Nat /\ st[m + 2] \in Nat /\ Len(p[m + 1]) \in Nat
    BY <1>1, <1>2
  <2>2. st[m + 2] = st[m + 1] + Len(p[m + 1]) + 1
    BY <1>3, <2>1
  <2>3. st[m + 2] >= m + 2 /\ st[m + 1] <= st[m + 2]
    BY <1>5, <2>1, <2>2
  <2>4. ASSUME NEW n \in 1..m + 1 PROVE st[n + 1] <= st[m + 2]
    <3>1. CASE n \in 1..m
      <4>0. n + 1 \in 1..N + 1
        BY <3>1, <2>1, <1>1
      <4>1. st[n + 1] <= st[m + 1] /\ st[n + 1] \in Nat
        BY <1>5, <3>1, <1>2, <4>0
      <4> QED BY <4>1, <2>1, <2>3, SMTT(20)
    <3>2. CASE n = m + 1
      BY <3>2, <2>1
    <3> QED BY <3>1, <3>2
  <2>5. ASSUME NEW q \in 1..st[m + 2] - 1 PROVE \E n \in 1..m + 1 : q \in st[n]..st[n + 1] - 1
    <3>1. CASE q <= st[m + 1] - 1
      <4>1. q \in 1..st[m + 1] - 1
        BY <3>1, <2>1
      <4> QED BY <1>5, <4>1, SMTT(20)
    <3>2. CASE q >= st[m + 1]
      <4>1. m + 1 \in 1..m + 1 /\ q \in st[m + 1]..st[(m + 1) + 1] - 1
        BY <3>2, <2>1
      <4> QED BY <4>1
    <3> QED BY <3>1, <3>2, <2>1
  <2> QED BY <2>1, <2>3, <2>4, <2>5
<1> HIDE DEF S
<1>6. \A m \in 0..N : m \in S
  BY <1>1, <1>4, <1>5, Upwards
<1>7. ASSUME NEW m \in 1..N + 1 PROVE st[m] >= m /\ \A n \in 1..m - 1 : st[n + 1] <= st[m]
  <2>1. m - 1 \in S /\ (m - 1) + 1 = m
    BY <1>1, <1>6
  <2> QED BY <2>1 DEF S
<1>8. \A q \in 1..st[N + 1] - 1 : \E n \in 1..N : q \in st[n]..st[n + 1] - 1
  <2>1. N \in S
    BY <1>1, <1>6
  <2> QED BY <2>1 DEF S
<1> QED BY <1>7, <1>8 DEF N

LEMMA JoinedLaid == ASSUME NEW T, NEW p \in Seq(Seq(T)), p # <<>>, NEW c \in T
                    PROVE  Joined(p, c) \in Seq(T) /\ \E st : Laid(Joined(p, c), p, c, FALSE, st)
<1> DEFINE N == Len(p)  t == Ended(p, c)  j == Joined(p, c)
<1>1. N \in Nat \ {0} /\ \A n \in 1..N : Len(p[n]) \in Nat
  OBVIOUS
<1>2. PICK st : Laid(t, p, c, TRUE, st) /\ t \in Seq(T)
  BY EndedLaid
<1>3. /\ st \in [1..N + 1 -> Nat] /\ st[1] = 1 /\ Len(t) = st[N + 1] - 1 /\ Len(t) \in Nat
      /\ \A n \in 1..N : st[n + 1] = st[n] + Len(p[n]) + 1
      /\ \A n \in 1..N : \A k \in 1..Len(p[n]) : t[st[n] + k - 1] = p[n][k]
      /\ \A n \in 1..N : t[st[n + 1] - 1] = c
  BY <1>2 DEF Laid
<1>4. \A m \in 1..N + 1 : st[m] >= m /\ \A n \in 1..m - 1 : st[n + 1] <= st[m]
  BY <1>3, LaidOrder
<1>5. j = SubSeq(t, 1, Len(t) - 1)
  BY DEF Joined
<1> HIDE DEF N, t, j
<1>51. ASSUME NEW n \in 1..N
       PROVE  /\ n \in 1..N + 1 /\ n + 1 \in 1..N + 1 /\ N \in 1..N + 1 /\ N + 1 \in 1..N + 1
              /\ st[n] \in Nat /\ st[n + 1] \in Nat /\ st[N + 1] \in Nat /\ st[N] \in Nat /\ st[n] >= 1
              /\ st[n + 1] <= st[N + 1] /\ st[n + 1] >= 2
  <2>1. n \in 1..N + 1 /\ n + 1 \in 1..N + 1 /\ N \in 1..N + 1 /\ N + 1 \in 1..N + 1 /\ n \in 1..(N + 1) - 1
    BY <1>1
  <2>2. st[n] >= n /\ st[n + 1] >= n + 1 /\ st[n + 1] <= st[N + 1]
    BY <1>4, <2>1
  <2>3. st[n] \in Nat /\ st[n + 1] \in Nat /\ st[N + 1] \in Nat /\ st[N] \in Nat
    BY <1>3, <2>1
  <2> QED BY <2>1, <2>2, <2>3
<1>6. Len(t) >= 1
  <2>1. 1 \in 1..N
    BY <1>1
  <2>2. st[N + 1] >= 2 /\ st[N + 1] \in Nat
    BY <1>51, <2>1
  <2> QED BY <1>3, <2>2
<1>7. j \in Seq(T) /\ Len(j) = Len(t) - 1 /\ \A k \in 1..Len(t) - 1 : j[k] = t[k]
  BY <1>2, <1>3, <1>5, <1>6
<1>8. ASSUME NEW n \in 1..N, NEW k \in 1..Len(p[n]) PROVE j[st[n] + k - 1] = p[n][k]
  <2>1. PICK l \in Nat : l = Len(p[n])
    BY <1>1
  <2>2. k \in 1..l /\ st[n + 1] = st[n] + l + 1
    BY <1>3, <2>1
  <2>3. PICK e \in Nat : e = Len(t)
    BY <1>3
  <2>4. st[n] + k - 1 \in 1..Len(t) - 1
    <3>1. PICK a, b, f \in Nat : a = st[n] /\ b = st[n + 1] /\ f = st[N + 1]
      BY <1>51
    <3>2. a >= 1 /\ b <= f /\ b = a + l + 1 /\ e = f - 1
      BY <1>3, <1>51, <2>2, <2>3, <3>1
    <3>3. a + k - 1 \in 1..e - 1
      BY <2>2, <3>2
    <3> QED BY <2>3, <3>1, <3>3
  <2>5. j[st[n] + k - 1] = t[st[n] + k - 1]
    BY <1>7, <2>4
  <2> QED BY <1>3, <2>5
<1>9. ASSUME NEW n \in 1..N, n < N PROVE j[st[n + 1] - 1] = c
  <2>1. PICK l \in Nat : l = Len(p[N])
    BY <1>1
  <2>2. N \in 1..N /\ N \in 1..N + 1 /\ n \in 1..N - 1
    BY <1>1, <1>9
  <2>3. st[N + 1] = st[N] + l + 1 /\ st[n + 1] <= st[N]
    BY <1>3, <1>4, <2>1, <2>2
  <2>4. st[n + 1] - 1 \in 1..Len(t) - 1
    <3>1. PICK e \in Nat : e = Len(t)
      BY <1>3
    <3>2. PICK a, b, f \in Nat : a = st[N] /\ b = st[n + 1] /\ f = st[N + 1]
      BY <1>51
    <3>3. b >= 2 /\ f = a + l + 1 /\ b <= a /\ e = f - 1
      BY <1>3, <1>51, <2>3, <3>1, <3>2
    <3>4. b - 1 \in 1..e - 1
      BY <3>3
    <3> QED BY <3>1, <3>2, <3>4
  <2>5. j[st[n + 1] - 1] = t[st[n + 1] - 1]
    BY <1>7, <2>4
  <2> QED BY <1>3, <2>5
<1>10. Len(j) = st[N + 1] - 2
  BY <1>1, <1>3, <1>7
<1>11. Laid(j, p, c, FALSE, st)
  BY <1>3, <1>8, <1>9, <1>10 DEF Laid, N
<1> QED BY <1>7, <1>11 DEF j

-----------------------------------------------------------------------------
(* Characters and quotes.                                                  *)

(* The six characters are six.                                             *)
LEMMA FiveAtMost == ASSUME NEW a, NEW b, NEW c, NEW d, NEW e
                    PROVE  Cardinality({a, b, c, d, e}) # 6
<1>0. IsFiniteSet({}) /\ Cardinality({}) = 0
  BY FS_EmptySet
<1>1. IsFiniteSet({a}) /\ Cardinality({a}) <= 1
  BY FS_Singleton, SMTT(20)
<1>2. IsFiniteSet({a, b}) /\ Cardinality({a, b}) <= 2
  <2>1. {a, b} = {a} \cup {b}
    OBVIOUS
  <2>2. /\ IsFiniteSet({a} \cup {b})
        /\ Cardinality({a} \cup {b}) = IF b \in {a} THEN Cardinality({a}) ELSE Cardinality({a}) + 1
    BY <1>1, FS_AddElement
  <2>3. Cardinality({a}) = 1
    BY FS_Singleton
  <2> QED BY <2>1, <2>2, <2>3
<1>3. IsFiniteSet({a, b, c}) /\ Cardinality({a, b, c}) <= 3
  <2>1. {a, b, c} = {a, b} \cup {c}
    OBVIOUS
  <2> QED BY <1>2, <2>1, FS_AddElement, FS_CardinalityType
<1>4. IsFiniteSet({a, b, c, d}) /\ Cardinality({a, b, c, d}) <= 4
  <2>1. {a, b, c, d} = {a, b, c} \cup {d}
    OBVIOUS
  <2> QED BY <1>3, <2>1, FS_AddElement, FS_CardinalityType, SMTT(20)
<1>5. IsFiniteSet({a, b, c, d, e}) /\ Cardinality({a, b, c, d, e}) <= 5
  <2>1. {a, b, c, d, e} = {a, b, c, d} \cup {e}
    OBVIOUS
  <2> QED BY <1>4, <2>1, FS_AddElement, FS_CardinalityType
<1> QED BY <1>5, FS_CardinalityType

LEMMA CharactersDiffer ==
  /\ Comma # Quote
  /\ Comma # NL
  /\ Comma # NUL
  /\ Quote # NL
  /\ Quote # NUL
  /\ NL # NUL
  /\ NL # Space
  /\ NUL # Space
  /\ NUL # Other
  /\ Quote # Other
  /\ Comma # Other
  /\ NL # Other
<1>0. Cardinality({Comma, Quote, NL, NUL, Space, Other}) = 6
  BY CsvAssumption
<1>1. Comma # Quote
  <2>1. Comma = Quote => {Comma, Quote, NL, NUL, Space, Other} = {Quote, NL, NUL, Space, Other}
    OBVIOUS
  <2> QED BY <1>0, <2>1, FiveAtMost
<1>2. Comma # NL
  <2>1. Comma = NL => {Comma, Quote, NL, NUL, Space, Other} = {Quote, NL, NUL, Space, Other}
    OBVIOUS
  <2> QED BY <1>0, <2>1, FiveAtMost
<1>3. Comma # NUL
  <2>1. Comma = NUL => {Comma, Quote, NL, NUL, Space, Other} = {Quote, NL, NUL, Space, Other}
    OBVIOUS
  <2> QED BY <1>0, <2>1, FiveAtMost
<1>4. Quote # NL
  <2>1. Quote = NL => {Comma, Quote, NL, NUL, Space, Other} = {Comma, NL, NUL, Space, Other}
    OBVIOUS
  <2> QED BY <1>0, <2>1, FiveAtMost
<1>5. Quote # NUL
  <2>1. Quote = NUL => {Comma, Quote, NL, NUL, Space, Other} = {Comma, NL, NUL, Space, Other}
    OBVIOUS
  <2> QED BY <1>0, <2>1, FiveAtMost
<1>6. NL # NUL
  <2>1. NL = NUL => {Comma, Quote, NL, NUL, Space, Other} = {Comma, Quote, NUL, Space, Other}
    OBVIOUS
  <2> QED BY <1>0, <2>1, FiveAtMost
<1>7. NL # Space
  <2>1. NL = Space => {Comma, Quote, NL, NUL, Space, Other} = {Comma, Quote, NUL, Space, Other}
    OBVIOUS
  <2> QED BY <1>0, <2>1, FiveAtMost
<1>8. NUL # Space
  <2>1. NUL = Space => {Comma, Quote, NL, NUL, Space, Other} = {Comma, Quote, NL, Space, Other}
    OBVIOUS
  <2> QED BY <1>0, <2>1, FiveAtMost
<1>9. NUL # Other
  <2>1. NUL = Other => {Comma, Quote, NL, NUL, Space, Other} = {Comma, Quote, NL, Space, Other}
    OBVIOUS
  <2> QED BY <1>0, <2>1, FiveAtMost
<1>10. Quote # Other
  <2>1. Quote = Other => {Comma, Quote, NL, NUL, Space, Other} = {Comma, NL, NUL, Space, Other}
    OBVIOUS
  <2> QED BY <1>0, <2>1, FiveAtMost
<1>11. Comma # Other
  <2>1. Comma = Other => {Comma, Quote, NL, NUL, Space, Other} = {Quote, NL, NUL, Space, Other}
    OBVIOUS
  <2> QED BY <1>0, <2>1, FiveAtMost
<1>12. NL # Other
  <2>1. NL = Other => {Comma, Quote, NL, NUL, Space, Other} = {Comma, Quote, NUL, Space, Other}
    OBVIOUS
  <2> QED BY <1>0, <2>1, FiveAtMost
<1> QED BY <1>1, <1>2, <1>3, <1>4, <1>5, <1>6, <1>7, <1>8, <1>9, <1>10, <1>11, <1>12

(* Counting quotes: a step, and a stretch of a text that is like another   *)
(* text.                                                                   *)
LEMMA OddSum == ASSUME NEW a \in Nat, NEW b \in Nat
                PROVE  Odd(a + b) <=> (Odd(a) /\ ~Odd(b)) \/ (~Odd(a) /\ Odd(b))
  BY DEF Odd

LEMMA QuotesStep == ASSUME NEW d, NEW from \in Nat, NEW k \in Nat, from <= k + 1
                    PROVE  /\ Quotes(d, from, k) \in Nat
                           /\ from = k + 1 => Quotes(d, from, k) = 0
                           /\ Quotes(d, from, k + 1) = Quotes(d, from, k) + (IF CharAt(d, k + 1) = Quote THEN 1 ELSE 0)
<1> DEFINE S(n) == {q \in from..n : CharAt(d, q) = Quote}
<1>1. ASSUME NEW n \in Nat PROVE IsFiniteSet(S(n)) /\ Cardinality(S(n)) \in Nat
  <2>1. IsFiniteSet(from..n)
    BY FS_Interval
  <2>2. S(n) \in SUBSET (from..n)
    OBVIOUS
  <2> HIDE DEF S
  <2>3. IsFiniteSet(S(n))
    BY <2>1, <2>2, FS_Subset
  <2> QED BY <2>3, FS_CardinalityType
<1>2. from = k + 1 => S(k) = {}
  OBVIOUS
<1>3. S(k + 1) = IF CharAt(d, k + 1) = Quote THEN S(k) \cup {k + 1} ELSE S(k)
  OBVIOUS
<1>4. k + 1 \notin S(k)
  OBVIOUS
<1>5. Quotes(d, from, k) = Cardinality(S(k)) /\ Quotes(d, from, k + 1) = Cardinality(S(k + 1))
  BY DEF Quotes
<1> HIDE DEF S
<1>6. Cardinality(S(k) \cup {k + 1}) = Cardinality(S(k)) + 1
  BY <1>1, <1>4, FS_AddElement
<1> QED BY <1>1, <1>2, <1>3, <1>5, <1>6, FS_EmptySet

Alike(d, s, a, l) == \A k \in 1..l : CharAt(d, a + k) = CharAt(s, k)
Sums(d, s, from, a, l) == \A k \in 0..l : /\ Quotes(d, from, a + k) = Quotes(d, from, a) + Quotes(s, 1, k)
                                          /\ Quotes(d, from, a) \in Nat /\ Quotes(s, 1, k) \in Nat

LEMMA QuotesWindow == ASSUME NEW d, NEW s, NEW from \in Nat, NEW a \in Nat, from <= a + 1, NEW l \in Nat,
                             Alike(d, s, a, l)
                      PROVE  Sums(d, s, from, a, l)
<1> DEFINE S == {k \in 0..l : Quotes(d, from, a + k) = Quotes(d, from, a) + Quotes(s, 1, k)}
<1>1. Quotes(d, from, a) \in Nat /\ Quotes(s, 1, 0) = 0
  BY QuotesStep
<1>2. \A k \in 0..l : Quotes(s, 1, k) \in Nat
  BY QuotesStep
<1>3. 0 \in S
  BY <1>1
<1>4. ASSUME NEW k \in 0..l - 1, k \in S PROVE k + 1 \in S
  <2>1. k + 1 \in 1..l /\ k + 1 \in 0..l /\ a + k \in Nat /\ from <= (a + k) + 1 /\ k \in Nat
    OBVIOUS
  <2>2. Quotes(d, from, (a + k) + 1) = Quotes(d, from, a + k) + (IF CharAt(d, (a + k) + 1) = Quote THEN 1 ELSE 0)
    BY <2>1, QuotesStep
  <2>3. Quotes(s, 1, k + 1) = Quotes(s, 1, k) + (IF CharAt(s, k + 1) = Quote THEN 1 ELSE 0)
    BY <2>1, QuotesStep
  <2>4. (a + k) + 1 = a + (k + 1) /\ CharAt(d, a + (k + 1)) = CharAt(s, k + 1)
    BY <2>1 DEF Alike
  <2>5. PICK x, y \in Nat : x = Quotes(d, from, a) /\ y = Quotes(s, 1, k)
    BY <1>1, <1>2
  <2>6. Quotes(d, from, a + k) = x + y
    BY <1>4, <2>5
  <2> QED BY <2>1, <2>2, <2>3, <2>4, <2>5, <2>6
<1> HIDE DEF S
<1>5. \A k \in 0..l : k \in S
  BY <1>3, <1>4, Upwards
<1> QED BY <1>1, <1>2, <1>5 DEF S, Sums

(* All there is to say of piece n, a characters from the beginning.        *)
PieceAt(t, p, c, closed, st, n, a, l, e) ==
  /\ st[n] = a + 1 /\ Len(p[n]) = l /\ st[n + 1] = a + l + 2 /\ Len(t) = e /\ a + l <= e
  /\ n < Len(p) \/ closed => a + l + 1 <= e
  /\ ~ (n < Len(p) \/ closed) => e = a + l
  /\ n = 1 => a = 0
  /\ \A k \in 1..l : t[a + k] = p[n][k] /\ CharAt(t, a + k) = p[n][k]
  /\ CharAt(t, a + l + 1) = IF n < Len(p) \/ closed THEN c ELSE NUL
  /\ n < Len(p) \/ closed => t[a + l + 1] = c
  /\ n > 1 => t[a] = c /\ CharAt(t, a) = c

LEMMA LaidPiece == ASSUME NEW T, NEW t \in Seq(T), NEW p \in Seq(Seq(T)), NEW c, NEW closed \in BOOLEAN,
                          NEW st, Laid(t, p, c, closed, st), NEW n \in 1..Len(p)
                   PROVE  \E a, l, e \in Nat : PieceAt(t, p, c, closed, st, n, a, l, e)
<1>1. PICK N \in Nat : N = Len(p)
  OBVIOUS
<1>2. /\ st \in [1..N + 1 -> Nat] /\ st[1] = 1
      /\ \A m \in 1..N : st[m + 1] = st[m] + Len(p[m]) + 1
      /\ Len(t) = st[N + 1] - (IF closed THEN 1 ELSE 2)
      /\ \A m \in 1..N : \A k \in 1..Len(p[m]) : t[st[m] + k - 1] = p[m][k]
      /\ \A m \in 1..N : m < N \/ closed => t[st[m + 1] - 1] = c
  BY <1>1 DEF Laid
<1>3. \A m \in 1..N + 1 : st[m] >= m /\ \A q \in 1..m - 1 : st[q + 1] <= st[m]
  BY <1>1, <1>2, LaidOrder
<1>4. n \in 1..N /\ n \in 1..N + 1 /\ n + 1 \in 1..N + 1 /\ N + 1 \in 1..N + 1 /\ N \in 1..N /\ N \in 1..N + 1
  BY <1>1
<1>5. PICK a \in Nat : st[n] = a + 1
  <2>1. st[n] \in Nat /\ st[n] >= 1
    BY <1>2, <1>3, <1>4
  <2>2. st[n] - 1 \in Nat /\ st[n] = (st[n] - 1) + 1
    BY <2>1
  <2> QED BY <2>2
<1>6. PICK l \in Nat : Len(p[n]) = l
  BY <1>1
<1>7. st[n + 1] = a + l + 2
  <2>1. st[n + 1] = st[n] + Len(p[n]) + 1
    BY <1>2, <1>4
  <2>2. st[n + 1] = (a + 1) + l + 1
    BY <1>5, <1>6, <2>1, Zenon
  <2> QED BY <2>2
<1>8. PICK e \in Nat : Len(t) = e
  OBVIOUS
<1>9. /\ a + l <= e
      /\ n < N \/ closed => a + l + 1 <= e
      /\ ~ (n < N \/ closed) => e = a + l
  <2>1. CASE n = N
    BY <1>2, <1>5, <1>7, <1>8, <2>1, SMTT(20)
  <2>2. CASE n < N
    <3>1. PICK b, f, m \in Nat : b = st[N] /\ m = Len(p[N]) /\ f = st[N + 1]
      <4>1. st[N] \in Nat /\ st[N + 1] \in Nat /\ Len(p[N]) \in Nat
        BY <1>1, <1>2, <1>4, SMTT(20)
      <4> QED BY <4>1
    <3>2. f = b + m + 1
      BY <1>2, <1>4, <3>1
    <3>3. n \in 1..N - 1
      BY <2>2, <1>4
    <3>4. a + l + 2 <= b
      BY <1>3, <1>4, <1>7, <3>1, <3>3
    <3>5. e = f - (IF closed THEN 1 ELSE 2)
      BY <1>2, <1>8, <3>1
    <3> QED BY <2>2, <3>2, <3>4, <3>5
  <2>3. n = N \/ n < N
    BY <1>4
  <2> QED BY <2>1, <2>2, <2>3
<1>10. n = 1 => a = 0
  BY <1>2, <1>5
<1>11. ASSUME NEW k \in 1..l PROVE t[a + k] = p[n][k] /\ CharAt(t, a + k) = p[n][k]
  <2>1. st[n] + k - 1 = a + k /\ a + k <= e
    BY <1>5, <1>9
  <2>2. t[a + k] = p[n][k]
    BY <1>2, <1>4, <1>6, <2>1
  <2> QED BY <1>8, <2>1, <2>2 DEF CharAt
<1>12. st[n + 1] - 1 = a + l + 1
  BY <1>7
<1>13. n < N \/ closed => t[a + l + 1] = c
  BY <1>2, <1>4, <1>12
<1>14. CharAt(t, a + l + 1) = IF n < N \/ closed THEN c ELSE NUL
  <2>1. CASE n < N \/ closed
    BY <1>8, <1>9, <1>13, <2>1 DEF CharAt
  <2>2. CASE ~ (n < N \/ closed)
    BY <1>8, <1>9, <2>2 DEF CharAt
  <2> QED BY <2>1, <2>2
<1>15. ASSUME n > 1 PROVE t[a] = c /\ CharAt(t, a) = c
  <2>1. n - 1 \in 1..N /\ n - 1 < N /\ (n - 1) + 1 = n
    BY <1>4, <1>15
  <2>2. st[n] - 1 = a /\ a <= e
    BY <1>5, <1>9
  <2>3. t[a] = c
    BY <1>2, <2>1, <2>2
  <2> QED BY <1>8, <2>2, <2>3 DEF CharAt
<1> QED BY <1>1, <1>5, <1>6, <1>7, <1>8, <1>9, <1>10, <1>11, <1>13, <1>14, <1>15 DEF PieceAt

(* Pieces with an even number of quotes keep the parity of the quotes      *)
(* around them: what is between quotes in a piece is so in the whole text. *)
Balanced(s) == ~Odd(Quotes(s, 1, Len(s)))

Counted(t, s, from, b, q) ==
  /\ \A k \in 0..q : Quotes(t, from, b + k) = Quotes(t, from, b) + Quotes(s, 1, k)
  /\ \A k \in 0..q : Quotes(s, 1, k) \in Nat
  /\ Quotes(t, from, b) \in Nat
  /\ Quotes(t, from, b + q + 1) = Quotes(t, from, b) + Quotes(s, 1, q)
  /\ ~Odd(Quotes(s, 1, q))

EvenAt(t, s, a, l) ==
  /\ ~Odd(Quotes(t, 1, a))
  /\ \A k \in 0..l : /\ Odd(Quotes(t, 1, a + k)) <=> Odd(Quotes(s, 1, k))
                     /\ Quotes(t, a + 1, a + k) = Quotes(s, 1, k)
  /\ ~Odd(Quotes(t, 1, a + l + 1))
  /\ ~Odd(Quotes(t, a + 1, a + l + 1))

LEMMA LaidParity == ASSUME NEW T, NEW t \in Seq(T), NEW p \in Seq(Seq(T)), NEW c, c # Quote, NEW closed \in BOOLEAN,
                           NEW st, Laid(t, p, c, closed, st), \A n \in 1..Len(p) : Balanced(p[n]),
                           NEW n \in 1..Len(p), NEW a \in Nat, NEW l \in Nat, st[n] = a + 1, Len(p[n]) = l
                    PROVE  EvenAt(t, p[n], a, l)
<1>1. PICK N \in Nat : N = Len(p)
  OBVIOUS
<1>2. ASSUME NEW m \in 1..N, NEW b \in Nat, NEW q \in Nat, st[m] = b + 1, Len(p[m]) = q, NEW from \in Nat, from <= b + 1
      PROVE  /\ st[m + 1] = b + q + 2
             /\ Counted(t, p[m], from, b, q)
  <2>1. PICK a1, l1, e \in Nat : PieceAt(t, p, c, closed, st, m, a1, l1, e)
    <3>1. m \in 1..Len(p)
      BY <1>1
    <3> QED BY <3>1, LaidPiece
  <2>11. /\ st[m] = a1 + 1 /\ Len(p[m]) = l1 /\ st[m + 1] = a1 + l1 + 2
         /\ \A k \in 1..l1 : CharAt(t, a1 + k) = p[m][k]
         /\ CharAt(t, a1 + l1 + 1) = IF m < Len(p) \/ closed THEN c ELSE NUL
    BY <2>1 DEF PieceAt
  <2>2. b = a1 /\ q = l1
    BY <1>2, <2>11, SMTT(20)
  <2>3. \A k \in 1..q : CharAt(t, b + k) = CharAt(p[m], k)
    BY <1>2, <2>11, <2>2 DEF CharAt
  <2>4. \A k \in 0..q : /\ Quotes(t, from, b + k) = Quotes(t, from, b) + Quotes(p[m], 1, k)
                        /\ Quotes(t, from, b) \in Nat /\ Quotes(p[m], 1, k) \in Nat
    <3>1. from <= b + 1
      BY <1>2
    <3>2. Alike(t, p[m], b, q)
      BY <2>3 DEF Alike
    <3>3. Sums(t, p[m], from, b, q)
      BY <3>1, <3>2, QuotesWindow
    <3> QED BY <3>3 DEF Sums
  <2>5. CharAt(t, (b + q) + 1) # Quote
    BY <2>11, <2>2, CharactersDiffer
  <2>6. Quotes(t, from, (b + q) + 1) = Quotes(t, from, b + q)
    <3>1. from <= (b + q) + 1 /\ b + q \in Nat
      BY <1>2
    <3> QED BY <3>1, <2>5, QuotesStep
  <2>7. q \in 0..q /\ 0 \in 0..q /\ m \in 1..Len(p)
    BY <1>1
  <2>8. ~Odd(Quotes(p[m], 1, q))
    BY <1>2, <2>7 DEF Balanced
  <2> QED BY <2>11, <2>2, <2>4, <2>6, <2>7, <2>8 DEF Counted
<1> DEFINE S == {m \in 0..N : \E b \in Nat : st[m + 1] = b + 1 /\ ~Odd(Quotes(t, 1, b))}
<1>3. 0 \in S
  <2>1. st[1] = 0 + 1
    BY DEF Laid
  <2>2. Quotes(t, 1, 0) = 0
    BY QuotesStep
  <2>3. ~Odd(0)
    BY DEF Odd
  <2> QED BY <1>1, <2>1, <2>2, <2>3
<1>4. ASSUME NEW m \in 0..N - 1, m \in S PROVE m + 1 \in S
  <2>1. m + 1 \in 1..N /\ m + 1 \in 0..N
    BY <1>1
  <2>2. PICK b \in Nat : st[m + 1] = b + 1 /\ ~Odd(Quotes(t, 1, b))
    BY <1>4
  <2>3. PICK q \in Nat : Len(p[m + 1]) = q
    BY <1>1, <2>1
  <2>4. /\ st[(m + 1) + 1] = b + q + 2 /\ ~Odd(Quotes(p[m + 1], 1, q))
        /\ Quotes(t, 1, b + q + 1) = Quotes(t, 1, b) + Quotes(p[m + 1], 1, q)
        /\ Quotes(t, 1, b) \in Nat /\ Quotes(p[m + 1], 1, q) \in Nat
    <3>1. 1 <= b + 1 /\ q \in 0..q
      OBVIOUS
    <3> QED BY <1>2, <2>1, <2>2, <2>3, <3>1 DEF Counted
  <2>5. ~Odd(Quotes(t, 1, b + q + 1))
    <3>1. PICK x, y \in Nat : x = Quotes(t, 1, b) /\ y = Quotes(p[m + 1], 1, q)
      BY <2>4
    <3>2. ~Odd(x) /\ ~Odd(y)
      BY <2>2, <2>4, <3>1, Zenon
    <3>3. ~Odd(x + y)
      BY <3>2, OddSum, Zenon
    <3> QED BY <2>4, <3>1, <3>3, Zenon
  <2>6. b + q + 1 \in Nat /\ st[(m + 1) + 1] = (b + q + 1) + 1
    BY <2>4
  <2> QED BY <2>1, <2>5, <2>6
<1> HIDE DEF S
<1>5. \A m \in 0..N : m \in S
  BY <1>3, <1>4, Upwards
<1>6. ~Odd(Quotes(t, 1, a))
  <2>1. n - 1 \in 0..N /\ (n - 1) + 1 = n
    BY <1>1
  <2>2. PICK b \in Nat : st[n] = b + 1 /\ ~Odd(Quotes(t, 1, b))
    BY <1>5, <2>1 DEF S
  <2>3. b = a
    BY <2>2
  <2> QED BY <2>2, <2>3
<1>7. n \in 1..N /\ 1 <= a + 1 /\ a + 1 <= a + 1 /\ a + 1 \in Nat /\ 1 \in Nat
  BY <1>1
<1>8. /\ \A k \in 0..l : Quotes(t, 1, a + k) = Quotes(t, 1, a) + Quotes(p[n], 1, k)
      /\ \A k \in 0..l : Quotes(p[n], 1, k) \in Nat
      /\ Quotes(t, 1, a) \in Nat
      /\ Quotes(t, 1, a + l + 1) = Quotes(t, 1, a) + Quotes(p[n], 1, l)
      /\ ~Odd(Quotes(p[n], 1, l))
  <2>1. Counted(t, p[n], 1, a, l)
    BY <1>2, <1>7
  <2> QED BY <2>1, <1>7 DEF Counted
<1>9. /\ \A k \in 0..l : Quotes(t, a + 1, a + k) = Quotes(t, a + 1, a) + Quotes(p[n], 1, k)
      /\ Quotes(t, a + 1, a + l + 1) = Quotes(t, a + 1, a) + Quotes(p[n], 1, l)
  <2>1. Counted(t, p[n], a + 1, a, l)
    BY <1>2, <1>7
  <2> QED BY <2>1, <1>7 DEF Counted
<1>10. Quotes(t, a + 1, a) = 0
  BY QuotesStep, <1>7
<1>11. l \in 0..l
  OBVIOUS
<1>12. ASSUME NEW k \in 0..l
       PROVE  /\ Odd(Quotes(t, 1, a + k)) <=> Odd(Quotes(p[n], 1, k))
              /\ Quotes(t, a + 1, a + k) = Quotes(p[n], 1, k)
  <2>1. PICK x, y \in Nat : x = Quotes(t, 1, a) /\ y = Quotes(p[n], 1, k)
    BY <1>8
  <2>2. Odd(x + y) <=> Odd(y)
    <3>1. ~Odd(x)
      BY <1>6, <2>1, Zenon
    <3> QED BY <3>1, OddSum, Zenon
  <2>3. 0 + y = y
    OBVIOUS
  <2> QED BY <1>8, <1>9, <1>10, <2>1, <2>2, <2>3, Zenon
<1>13. ~Odd(Quotes(t, 1, a + l + 1)) /\ ~Odd(Quotes(t, a + 1, a + l + 1))
  <2>1. PICK x, y \in Nat : x = Quotes(t, 1, a) /\ y = Quotes(p[n], 1, l)
    BY <1>8, <1>11
  <2>2. ~Odd(x) /\ ~Odd(y)
    BY <1>6, <1>8, <2>1, Zenon
  <2>3. ~Odd(x + y)
    BY <2>2, OddSum, Zenon
  <2>4. 0 + y = y
    OBVIOUS
  <2> QED BY <1>8, <1>9, <1>10, <2>1, <2>2, <2>3, <2>4, Zenon
<1> QED BY <1>6, <1>12, <1>13 DEF EvenAt

-----------------------------------------------------------------------------
(* Cells and lines.                                                        *)

(* What a cell is made of.                                                 *)
LEMMA CellIs == ASSUME NEW x \in Cell
                PROVE  /\ x.quoted \in BOOLEAN /\ x.text \in Seq(Character)
                       /\ \A k \in 1..Len(x.text) : x.text[k] # Quote /\ (~x.quoted => x.text[k] \notin {Comma, NL})
<1>1. x \in [quoted : BOOLEAN, text : Seq(Character \ {Quote})] /\ (~x.quoted => {Comma, NL} \cap ToSet(x.text) = {})
  BY DEF Cell
<1>2. PICK s \in Seq(Character \ {Quote}) : s = x.text
  BY <1>1
<1>3. s \in Seq(Character) /\ \A k \in 1..Len(s) : s[k] \in Character \ {Quote} /\ s[k] \in ToSet(s)
  BY DEF ToSet
<1> QED BY <1>1, <1>2, <1>3

LEMMA QuoteIs == Quote \in Character /\ Comma \in Character /\ NL \in Character
  BY DEF Character

(* The text of a cell, and where it is between quotes.                     *)
TextOf(x, s) ==
  /\ s \in Seq(Character)
  /\ x.quoted => /\ Len(s) = Len(x.text) + 2 /\ s[1] = Quote /\ s[Len(x.text) + 2] = Quote
                 /\ \A k \in 1..Len(x.text) : s[k + 1] = x.text[k] /\ s[k + 1] # Quote
  /\ ~x.quoted => s = x.text /\ \A k \in 1..Len(s) : s[k] \notin {Quote, Comma, NL}

LEMMA CellTextIs == ASSUME NEW x \in Cell
                    PROVE  TextOf(x, CellText(x))
<1>1. CASE x.quoted
  <2>1. PICK m \in Seq(Character) : m = x.text /\ \A k \in 1..Len(m) : m[k] # Quote
    BY CellIs
  <2>2. PICK q \in Seq(Character) : q = <<Quote>> /\ Len(q) = 1 /\ q[1] = Quote
    <3>1. <<Quote>> \in Seq(Character) /\ Len(<<Quote>>) = 1 /\ <<Quote>>[1] = Quote
      BY QuoteIs
    <3> QED BY <3>1, Zenon
  <2>3. PICK u : u = q \o m
    OBVIOUS
  <2>4. /\ u \in Seq(Character) /\ Len(u) = 1 + Len(m) /\ u[1] = Quote
        /\ \A k \in 1..Len(m) : u[k + 1] = m[k]
    BY <2>2, <2>3, ConcatProperties
  <2>5. PICK v : v = u \o q
    OBVIOUS
  <2>6. v \in Seq(Character) /\ Len(v) = Len(u) + 1 /\ Len(u) \in Nat
        /\ \A k \in 1..Len(u) + 1 : v[k] = IF k <= Len(u) THEN u[k] ELSE q[k - Len(u)]
    BY <2>2, <2>4, <2>5, ConcatProperties
  <2>7. PICK n \in Nat : n = Len(m) /\ Len(u) = n + 1
    BY <2>1, <2>4
  <2>8. v[1] = Quote
    BY <2>4, <2>6, <2>7
  <2>9. v[n + 2] = Quote
    BY <2>2, <2>6, <2>7
  <2>10. ASSUME NEW k \in 1..n PROVE v[k + 1] = m[k] /\ v[k + 1] # Quote
    <3>1. k + 1 \in 1..(n + 1) + 1 /\ k + 1 <= n + 1
      OBVIOUS
    <3>2. v[k + 1] = u[k + 1]
      BY <2>6, <2>7, <3>1
    <3> QED BY <2>1, <2>4, <2>7, <3>2
  <2>11. v = CellText(x)
    BY <1>1, <2>1, <2>2, <2>3, <2>5 DEF CellText
  <2> QED BY <1>1, <2>1, <2>6, <2>7, <2>8, <2>9, <2>10, <2>11 DEF TextOf
<1>2. CASE ~x.quoted
  BY <1>2, CellIs DEF TextOf, CellText
<1> QED BY <1>1, <1>2, CellIs

LEMMA CellQuotes == ASSUME NEW x \in Cell, NEW s, TextOf(x, s)
                    PROVE  \A k \in 0..Len(s) : Odd(Quotes(s, 1, k)) <=> x.quoted /\ k \in 1..Len(s) - 1
<1> DEFINE V(k) == IF ~x.quoted \/ k = 0 THEN 0 ELSE IF k < Len(s) THEN 1 ELSE 2
<1> DEFINE S == {k \in 0..Len(s) : Quotes(s, 1, k) = V(k)}
<1>1. Len(s) \in Nat /\ s \in Seq(Character) /\ x.quoted \in BOOLEAN
  BY CellIs DEF TextOf
<1>2. 0 \in S
  BY QuotesStep, <1>1
<1>3. ASSUME NEW k \in 0..Len(s) - 1, k \in S PROVE k + 1 \in S
  <2>1. k + 1 \in 0..Len(s) /\ k + 1 \in 1..Len(s) /\ k \in Nat /\ 1 <= k + 1
    BY <1>1
  <2>2. CharAt(s, k + 1) = s[k + 1]
    BY <1>1, <2>1 DEF CharAt
  <2>3. Quotes(s, 1, k + 1) = Quotes(s, 1, k) + (IF s[k + 1] = Quote THEN 1 ELSE 0)
    <3>1. Quotes(s, 1, k + 1) = Quotes(s, 1, k) + (IF CharAt(s, k + 1) = Quote THEN 1 ELSE 0)
      BY <2>1, QuotesStep
    <3> QED BY <2>2, <3>1
  <2>4. Quotes(s, 1, k) = V(k)
    BY <1>3
  <2>5. CASE ~x.quoted
    <3>1. s[k + 1] # Quote
      BY <2>1, <2>5 DEF TextOf
    <3> QED BY <2>1, <2>3, <2>4, <2>5, <3>1
  <2>6. CASE x.quoted
    <3>1. PICK n \in Nat : n = Len(x.text) /\ Len(s) = n + 2 /\ s[1] = Quote /\ s[n + 2] = Quote
      BY <2>6, CellIs DEF TextOf
    <3>2. CASE k = 0
      BY <2>1, <2>3, <2>4, <2>6, <3>1, <3>2
    <3>3. CASE k = n + 1
      BY <2>1, <2>3, <2>4, <2>6, <3>1, <3>3
    <3>4. CASE k \in 1..n
      <4>1. s[k + 1] # Quote
        BY <2>6, <3>1, <3>4 DEF TextOf
      <4> QED BY <2>1, <2>3, <2>4, <2>6, <3>1, <3>4, <4>1
    <3> QED BY <2>1, <3>1, <3>2, <3>3, <3>4
  <2> QED BY <2>5, <2>6
<1> HIDE DEF S
<1>4. \A k \in 0..Len(s) : k \in S
  BY <1>1, <1>2, <1>3, Upwards
<1>5. ASSUME NEW k \in 0..Len(s)
      PROVE  Odd(Quotes(s, 1, k)) <=> x.quoted /\ k \in 1..Len(s) - 1
  <2>1. Quotes(s, 1, k) = V(k)
    BY <1>4 DEF S
  <2>2. ~Odd(0) /\ Odd(1) /\ ~Odd(2)
    BY DEF Odd
  <2>3. x.quoted => Len(s) >= 2
    BY CellIs DEF TextOf
  <2>4. CASE ~x.quoted \/ k = 0
    BY <2>1, <2>2, <2>4
  <2>5. CASE x.quoted /\ k \in 1..Len(s) - 1
    <3>1. V(k) = 1
      BY <1>1, <2>5
    <3> QED BY <2>1, <2>2, <2>5, <3>1, Zenon
  <2>6. CASE x.quoted /\ k = Len(s)
    <3>1. V(k) = 2 /\ k \notin 1..Len(s) - 1
      BY <1>1, <2>3, <2>6
    <3> QED BY <2>1, <2>2, <3>1, Zenon
  <2>7. ~x.quoted \/ k = 0 \/ k \in 1..Len(s) - 1 \/ k = Len(s)
    BY <1>1
  <2> QED BY <1>1, <2>4, <2>5, <2>6, <2>7
<1> QED BY <1>5

(* A line is its cells' texts with commas between.                         *)
CellTexts(l) == [j \in DOMAIN l |-> CellText(l[j])]

LEMMA CellTextsAre == ASSUME NEW l \in Seq(Cell)
                      PROVE  /\ CellTexts(l) \in Seq(Seq(Character)) /\ Len(CellTexts(l)) = Len(l)
                             /\ \A j \in 1..Len(l) : l[j] \in Cell /\ CellTexts(l)[j] = CellText(l[j])
                                                     /\ TextOf(l[j], CellTexts(l)[j]) /\ Balanced(CellTexts(l)[j])
<1>1. \A j \in 1..Len(l) : l[j] \in Cell /\ TextOf(l[j], CellText(l[j]))
  BY CellTextIs
<1>2. \A j \in 1..Len(l) : CellText(l[j]) \in Seq(Character)
  BY <1>1 DEF TextOf
<1>3. CellTexts(l) = [j \in 1..Len(l) |-> CellText(l[j])]
  BY DEF CellTexts
<1>4. CellTexts(l) \in Seq(Seq(Character)) /\ Len(CellTexts(l)) = Len(l)
  <2>1. PICK f \in [1..Len(l) -> Seq(Character)] : f = CellTexts(l)
    BY <1>2, <1>3
  <2>2. Len(l) \in Nat
    OBVIOUS
  <2>3. f \in Seq(Seq(Character)) /\ Len(f) = Len(l)
    BY <2>2
  <2> QED BY <2>1, <2>3
<1>5. ASSUME NEW j \in 1..Len(l) PROVE Balanced(CellText(l[j]))
  <2>1. PICK s \in Seq(Character) : s = CellText(l[j])
    BY <1>2
  <2>2. Len(s) \in 0..Len(s) /\ Len(s) \notin 1..Len(s) - 1
    OBVIOUS
  <2>3. TextOf(l[j], s) /\ l[j] \in Cell
    BY <1>1, <2>1
  <2>4. ~Odd(Quotes(s, 1, Len(s)))
    BY <2>2, <2>3, CellQuotes
  <2> QED BY <2>1, <2>4 DEF Balanced
<1> QED BY <1>1, <1>3, <1>4, <1>5

LEMMA EmptyLine == LineText(<<>>) = <<>>
<1>1. CellTexts(<<>>) \in Seq(Seq(Character)) /\ Len(CellTexts(<<>>)) = 0
  <2>1. <<>> \in Seq(Cell) /\ Len(<<>>) = 0
    OBVIOUS
  <2> QED BY <2>1, CellTextsAre
<1>2. PICK p \in Seq(Seq(Character)) : p = CellTexts(<<>>) /\ Len(p) = 0
  BY <1>1
<1>3. PICK st : Laid(Ended(p, Comma), p, Comma, TRUE, st) /\ Ended(p, Comma) \in Seq(Character)
  BY EndedLaid, QuoteIs
<1>4. Len(Ended(p, Comma)) = 0
  BY <1>2, <1>3 DEF Laid
<1>5. LineText(<<>>) = Joined(p, Comma)
  BY <1>2 DEF LineText, CellTexts
<1>6. Joined(p, Comma) = <<>>
  BY <1>3, <1>4 DEF Joined
<1> QED BY <1>5, <1>6

LEMMA LineLaid == ASSUME NEW l \in Seq(Cell), l # <<>>
                  PROVE  /\ LineText(l) \in Seq(Character)
                         /\ \E st : Laid(LineText(l), CellTexts(l), Comma, FALSE, st)
<1>1. LineText(l) = Joined(CellTexts(l), Comma)
  BY DEF LineText, CellTexts
<1>2. PICK p \in Seq(Seq(Character)) : p = CellTexts(l) /\ p # <<>>
  <2>1. Len(l) # 0
    OBVIOUS
  <2> QED BY <2>1, CellTextsAre
<1>3. Joined(p, Comma) \in Seq(Character) /\ \E st : Laid(Joined(p, Comma), p, Comma, FALSE, st)
  BY <1>2, JoinedLaid, QuoteIs
<1> QED BY <1>1, <1>2, <1>3

(* Where the j-th cell of a line stands, a characters from its beginning.  *)
CellPlace(l, s, st, j, a, q) ==
  /\ st[j] = a + 1 /\ st[j + 1] = a + q + 2 /\ a + q <= Len(s) /\ TextOf(l[j], CellText(l[j])) /\ Len(CellText(l[j])) = q
  /\ j < Len(l) => a + q + 1 <= Len(s) /\ CharAt(s, a + q + 1) = Comma /\ s[a + q + 1] = Comma
  /\ j = Len(l) => Len(s) = a + q /\ CharAt(s, a + q + 1) = NUL
  /\ j = 1 => a = 0
  /\ j > 1 => a > 0 /\ s[a] = Comma /\ CharAt(s, a) = Comma
  /\ \A k \in 1..q : s[a + k] = CellText(l[j])[k] /\ CharAt(s, a + k) = CellText(l[j])[k]
  /\ ~Odd(Quotes(s, 1, a)) /\ ~Odd(Quotes(s, 1, a + q + 1))
  /\ \A k \in 0..q : Odd(Quotes(s, 1, a + k)) <=> l[j].quoted /\ k \in 1..q - 1

LEMMA CellPlaces == ASSUME NEW l \in Seq(Cell), NEW s \in Seq(Character), NEW st,
                           Laid(s, CellTexts(l), Comma, FALSE, st), NEW j \in 1..Len(l)
                    PROVE  \E a, q \in Nat : CellPlace(l, s, st, j, a, q)
<1>1. PICK p \in Seq(Seq(Character)) : /\ p = CellTexts(l) /\ Len(p) = Len(l)
                                      /\ \A m \in 1..Len(l) : Balanced(p[m])
                                      /\ l[j] \in Cell /\ p[j] = CellText(l[j]) /\ TextOf(l[j], p[j])
  BY CellTextsAre
<1>2. Laid(s, p, Comma, FALSE, st) /\ j \in 1..Len(p) /\ FALSE \in BOOLEAN
  BY <1>1
<1>3. PICK a, q, e \in Nat : PieceAt(s, p, Comma, FALSE, st, j, a, q, e)
  BY <1>2, LaidPiece
<1>4. /\ st[j] = a + 1 /\ Len(p[j]) = q /\ st[j + 1] = a + q + 2 /\ Len(s) = e /\ a + q <= e
      /\ j < Len(p) => a + q + 1 <= e
      /\ ~ (j < Len(p)) => e = a + q
      /\ j = 1 => a = 0
      /\ \A k \in 1..q : s[a + k] = p[j][k] /\ CharAt(s, a + k) = p[j][k]
      /\ CharAt(s, a + q + 1) = IF j < Len(p) THEN Comma ELSE NUL
      /\ j < Len(p) => s[a + q + 1] = Comma
      /\ j > 1 => s[a] = Comma /\ CharAt(s, a) = Comma
  BY <1>3 DEF PieceAt
<1>5. /\ ~Odd(Quotes(s, 1, a))
      /\ \A k \in 0..q : Odd(Quotes(s, 1, a + k)) <=> Odd(Quotes(p[j], 1, k))
      /\ ~Odd(Quotes(s, 1, a + q + 1))
  <2>1. \A m \in 1..Len(p) : Balanced(p[m])
    BY <1>1
  <2>2. Comma # Quote
    BY CharactersDiffer
  <2>3. st[j] = a + 1 /\ Len(p[j]) = q
    BY <1>4
  <2>4. EvenAt(s, p[j], a, q)
    BY <1>2, <2>1, <2>2, <2>3, LaidParity, Zenon
  <2> QED BY <2>4 DEF EvenAt
<1>6. \A k \in 0..q : Odd(Quotes(p[j], 1, k)) <=> l[j].quoted /\ k \in 1..q - 1
  BY <1>1, <1>4, CellQuotes
<1>7. j > 1 => a > 0
  <2>1. \A m \in 1..Len(p) + 1 : st[m] >= m
    <3>1. /\ st \in [1..Len(p) + 1 -> Nat] /\ st[1] = 1
          /\ \A n \in 1..Len(p) : st[n + 1] = st[n] + Len(p[n]) + 1
      BY <1>2 DEF Laid
    <3> QED BY <3>1, LaidOrder
  <2>2. st[j] >= j
    BY <1>2, <2>1
  <2> QED BY <1>4, <2>2
<1>8. \A k \in 0..q : Odd(Quotes(s, 1, a + k)) <=> l[j].quoted /\ k \in 1..q - 1
  BY <1>5, <1>6
<1>9. p[j] = CellText(l[j]) /\ TextOf(l[j], CellText(l[j])) /\ Len(p) = Len(l)
  BY <1>1
<1>10. /\ j < Len(l) => a + q + 1 <= Len(s) /\ CharAt(s, a + q + 1) = Comma /\ s[a + q + 1] = Comma
       /\ j = Len(l) => Len(s) = a + q /\ CharAt(s, a + q + 1) = NUL
  BY <1>4, <1>9
<1>11. /\ st[j] = a + 1 /\ st[j + 1] = a + q + 2 /\ a + q <= Len(s) /\ Len(CellText(l[j])) = q
       /\ j = 1 => a = 0
       /\ j > 1 => a > 0 /\ s[a] = Comma /\ CharAt(s, a) = Comma
       /\ \A k \in 1..q : s[a + k] = CellText(l[j])[k] /\ CharAt(s, a + k) = CellText(l[j])[k]
  BY <1>4, <1>7, <1>9
<1>12. ~Odd(Quotes(s, 1, a)) /\ ~Odd(Quotes(s, 1, a + q + 1))
  BY <1>5
<1>13. CellPlace(l, s, st, j, a, q)
  BY <1>8, <1>9, <1>10, <1>11, <1>12, Zenon DEF CellPlace
<1> QED BY <1>13

(* Every place of a line belongs to one of its cells.                      *)
LEMMA LaidEvery == ASSUME NEW T, NEW t, NEW p \in Seq(Seq(T)), NEW c, NEW closed, NEW st, Laid(t, p, c, closed, st)
                   PROVE  /\ \A q \in 1..st[Len(p) + 1] - 1 : \E n \in 1..Len(p) : q \in st[n]..st[n + 1] - 1
                          /\ \A m \in 1..Len(p) + 1 : st[m] >= m /\ \A n \in 1..m - 1 : st[n + 1] <= st[m]
                          /\ st \in [1..Len(p) + 1 -> Nat]
<1>1. /\ st \in [1..Len(p) + 1 -> Nat] /\ st[1] = 1
      /\ \A n \in 1..Len(p) : st[n + 1] = st[n] + Len(p[n]) + 1
  BY DEF Laid
<1> QED BY <1>1, LaidOrder

LEMMA LineCover == ASSUME NEW l \in Seq(Cell), l # <<>>, NEW s \in Seq(Character), NEW st,
                          Laid(s, CellTexts(l), Comma, FALSE, st), NEW k \in 1..Len(s) + 1
                   PROVE  \E j \in 1..Len(l) : \E a, q \in Nat : CellPlace(l, s, st, j, a, q) /\ k \in a + 1..a + q + 1
<1>1. PICK p \in Seq(Seq(Character)) : p = CellTexts(l) /\ Len(p) = Len(l)
  BY CellTextsAre
<1>2. PICK N \in Nat : N = Len(l) /\ N \in 1..N
  <2>1. Len(l) \in Nat /\ Len(l) # 0
    OBVIOUS
  <2> QED BY <2>1
<1>3. PICK b, r \in Nat : CellPlace(l, s, st, N, b, r)
  BY <1>2, CellPlaces
<1>4. st[N + 1] = b + r + 2 /\ Len(s) = b + r
  BY <1>2, <1>3 DEF CellPlace
<1>5. k \in 1..st[Len(p) + 1] - 1
  BY <1>1, <1>2, <1>4
<1>6. Laid(s, p, Comma, FALSE, st)
  BY <1>1
<1>7. PICK j \in 1..Len(p) : k \in st[j]..st[j + 1] - 1
  BY <1>5, <1>6, LaidEvery
<1>8. j \in 1..Len(l)
  BY <1>1
<1>9. PICK a, q \in Nat : CellPlace(l, s, st, j, a, q)
  BY <1>8, CellPlaces
<1>10. st[j] = a + 1 /\ st[j + 1] = a + q + 2
  BY <1>9 DEF CellPlace
<1>11. k \in a + 1..a + q + 1
  BY <1>7, <1>10
<1> QED BY <1>8, <1>9, <1>11

(* What the k-th character of a cell is in its line.                       *)
CellChar(l, s, j, a, q, k) ==
  /\ s[a + k] \in {Comma, NL} => Odd(Quotes(s, 1, a + k))
  /\ s[a + k] = Quote <=> l[j].quoted /\ k \in {1, q}
  /\ s[a + k] # NUL /\ CharAt(s, a + k) = s[a + k] /\ a + k \in 1..Len(s)
  /\ Odd(Quotes(s, 1, a + k)) <=> l[j].quoted /\ k # q
  /\ l[j].quoted => q = Len(l[j].text) + 2
  /\ ~l[j].quoted => q = Len(l[j].text)
  /\ l[j] \in Cell /\ Len(l[j].text) \in Nat

LEMMA CharIs == ASSUME NEW l \in Seq(Cell), NEW s \in Seq(Character), NEW st, NEW j \in 1..Len(l), NEW a \in Nat, NEW q \in Nat,
                       CellPlace(l, s, st, j, a, q), NEW k \in 1..q
                PROVE  CellChar(l, s, j, a, q, k)
<1>1. PICK x \in Cell : x = l[j]
  OBVIOUS
<1>2. PICK c : c = CellText(l[j])
  OBVIOUS
<1>3. /\ TextOf(x, c) /\ Len(c) = q /\ a + q <= Len(s)
      /\ s[a + k] = c[k] /\ CharAt(s, a + k) = c[k]
      /\ Odd(Quotes(s, 1, a + k)) <=> x.quoted /\ k \in 1..q - 1
  <2>1. k \in 0..q
    OBVIOUS
  <2> QED BY <1>1, <1>2, <2>1 DEF CellPlace
<1>4. PICK n \in Nat : n = Len(x.text) /\ x.text \in Seq(Character) /\ x.quoted \in BOOLEAN
  BY CellIs
<1>5. x.quoted => q = n + 2 /\ c[1] = Quote /\ c[q] = Quote /\ \A m \in 1..n : c[m + 1] # Quote
  BY <1>3, <1>4 DEF TextOf
<1>6. ~x.quoted => q = n /\ c[k] \notin {Quote, Comma, NL}
  BY <1>3, <1>4 DEF TextOf
<1>7. c[k] = Quote <=> x.quoted /\ k \in {1, q}
  <2>1. CASE x.quoted
    <3>1. k = 1 \/ k = q \/ k - 1 \in 1..n
      BY <1>5, <2>1
    <3>2. k - 1 \in 1..n => c[k] # Quote /\ k # 1 /\ k # q
      <4>1. ASSUME k - 1 \in 1..n PROVE c[(k - 1) + 1] # Quote
        BY <1>5, <2>1, <4>1
      <4> QED BY <4>1, <1>5, <2>1
    <3> QED BY <1>5, <2>1, <3>1, <3>2
  <2>2. CASE ~x.quoted
    BY <1>6, <2>2
  <2> QED BY <2>1, <2>2
<1>8. c[k] \in {Comma, NL} => x.quoted /\ k \in 1..q - 1
  <2>1. ASSUME c[k] \in {Comma, NL} PROVE x.quoted /\ k # q
    <3>1. x.quoted
      BY <1>4, <1>6, <2>1
    <3>2. c[k] # Quote
      BY <2>1, CharactersDiffer
    <3> QED BY <1>5, <3>1, <3>2
  <2> QED BY <2>1
<1>9. c[k] # NUL
  <2>1. c \in Seq(Character)
    BY <1>3 DEF TextOf
  <2>2. c[k] \in Character
    BY <1>3, <2>1
  <2> QED BY <2>2, CharactersDiffer DEF Character
<1>10. k \in 1..q - 1 <=> k # q
  OBVIOUS
<1>11. a + k \in 1..Len(s)
  BY <1>3
<1> QED BY <1>1, <1>3, <1>4, <1>5, <1>6, <1>7, <1>8, <1>9, <1>10, <1>11 DEF CellChar

(* A newline in a line is between quotes, and the line ends with a comma   *)
(* only when its last cell is empty.                                       *)
LineIs(s) ==
  /\ s \in Seq(Character) /\ Balanced(s)
  /\ \A k \in 1..Len(s) : s[k] = NL => Odd(Quotes(s, 1, k))
  /\ s # <<>> => s[Len(s)] # NL

LEMMA LinesAre == ASSUME NEW l \in Seq(Cell)
                  PROVE  /\ LineIs(LineText(l))
                         /\ LineText(l) # <<>> => (LineText(l)[Len(LineText(l))] = Comma <=> CellText(Last(l)) = <<>>)
                         /\ LineText(l) # <<>> => l # <<>> /\ (Len(l) = 1 => CellText(Last(l)) # <<>>)
<1>1. CASE l = <<>>
  <2>1. LineText(l) = <<>>
    BY <1>1, EmptyLine
  <2>2. Balanced(<<>>)
    <3>1. Quotes(<<>>, 1, 0) = 0 /\ Len(<<>>) = 0
      BY QuotesStep
    <3>2. ~Odd(0)
      BY DEF Odd
    <3> QED BY <3>1, <3>2 DEF Balanced
  <2>3. LineIs(<<>>)
    BY <2>2 DEF LineIs
  <2> QED BY <2>1, <2>3
<1>2. CASE l # <<>>
  <2>1. PICK s \in Seq(Character) : s = LineText(l)
    BY <1>2, LineLaid
  <2>2. PICK st : Laid(s, CellTexts(l), Comma, FALSE, st)
    BY <1>2, <2>1, LineLaid
  <2>3. PICK N \in Nat : N = Len(l) /\ N \in 1..N /\ N \in 1..Len(l)
    <3>1. Len(l) \in Nat /\ Len(l) # 0
      BY <1>2
    <3> QED BY <3>1
  <2>4. PICK a, q \in Nat : CellPlace(l, s, st, N, a, q)
    BY <2>2, <2>3, CellPlaces
  <2>5. Len(s) = a + q /\ TextOf(l[N], CellText(l[N])) /\ Len(CellText(l[N])) = q /\ CellText(l[N]) \in Seq(Character)
    BY <2>3, <2>4 DEF CellPlace, TextOf
  <2>6. Balanced(s)
    <3>1. q \in 0..q /\ q \notin 1..q - 1
      OBVIOUS
    <3>2. ~Odd(Quotes(s, 1, a + q))
      BY <2>4, <3>1 DEF CellPlace
    <3> QED BY <2>5, <3>2 DEF Balanced
  <2>7. ASSUME NEW k \in 1..Len(s), s[k] = NL PROVE Odd(Quotes(s, 1, k))
    <3>1. k \in 1..Len(s) + 1
      OBVIOUS
    <3>2. PICK j \in 1..Len(l) : \E b, r \in Nat : CellPlace(l, s, st, j, b, r) /\ k \in b + 1..b + r + 1
      BY <1>2, <2>2, <3>1, LineCover
    <3>3. PICK b, r \in Nat : CellPlace(l, s, st, j, b, r) /\ k \in b + 1..b + r + 1
      BY <3>2
    <3>4. k # b + r + 1
      <4>1. j < Len(l) => s[b + r + 1] = Comma
        BY <3>3 DEF CellPlace
      <4>2. j = Len(l) => Len(s) = b + r
        BY <3>3 DEF CellPlace
      <4>3. j < Len(l) \/ j = Len(l)
        OBVIOUS
      <4> QED BY <2>7, <4>1, <4>2, <4>3, CharactersDiffer
    <3>5. PICK m \in 1..r : b + m = k
      <4>1. k - b \in 1..r /\ b + (k - b) = k
        BY <3>3, <3>4
      <4> QED BY <4>1
    <3>6. CellChar(l, s, j, b, r, m)
      BY <3>3, CharIs
    <3> QED BY <2>7, <3>5, <3>6 DEF CellChar
  <2>8. CellText(Last(l)) = <<>> <=> q = 0
    <3>1. Last(l) = l[N]
      BY <2>3 DEF Last
    <3> QED BY <2>5, <3>1
  <2>9. ASSUME s # <<>>
        PROVE  s[Len(s)] # NL /\ (s[Len(s)] = Comma <=> q = 0) /\ (Len(l) = 1 => q # 0)
    <3>1. CASE q = 0
      <4>1. a > 0
        BY <2>5, <2>9, <3>1
      <4>2. N > 1
        BY <2>3, <2>4, <4>1 DEF CellPlace
      <4>3. s[a] = Comma /\ Len(s) = a
        BY <2>4, <2>5, <3>1, <4>2 DEF CellPlace
      <4> QED BY <2>3, <3>1, <4>2, <4>3, CharactersDiffer
    <3>2. CASE q # 0
      <4>1. q \in 1..q
        BY <3>2
      <4>0. CellChar(l, s, N, a, q, q)
        BY <2>3, <2>4, <4>1, CharIs
      <4>2. /\ s[a + q] \in {Comma, NL} => Odd(Quotes(s, 1, a + q))
            /\ Odd(Quotes(s, 1, a + q)) <=> l[N].quoted /\ q # q
        BY <4>0 DEF CellChar
      <4>3. s[Len(s)] \notin {Comma, NL}
        BY <2>5, <4>2
      <4> QED BY <3>2, <4>3
    <3> QED BY <3>1, <3>2
  <2>10. LineIs(s)
    BY <2>6, <2>7, <2>9 DEF LineIs
  <2> QED BY <1>2, <2>1, <2>8, <2>9, <2>10
<1> QED BY <1>1, <1>2

-----------------------------------------------------------------------------
(* Files.                                                                  *)

(* A file is its lines' texts with newlines between.                       *)
LineTexts(f) == [k \in DOMAIN f.lines |-> LineText(f.lines[k])]

LEMMA LineTextsAre == ASSUME NEW f, IsFile(f)
                      PROVE  /\ f.lines \in Seq(Seq(Cell)) /\ f.lines # <<>> /\ f.newline \in BOOLEAN
                             /\ LineTexts(f) \in Seq(Seq(Character)) /\ Len(LineTexts(f)) = Len(f.lines)
                             /\ Len(f.lines) \in Nat \ {0}
                             /\ \A k \in 1..Len(f.lines) : /\ f.lines[k] \in Seq(Cell)
                                                           /\ LineTexts(f)[k] = LineText(f.lines[k])
                                                           /\ LineIs(LineTexts(f)[k]) /\ Balanced(LineTexts(f)[k])
<1>1. f.lines \in Seq(Seq(Cell)) /\ f.lines # <<>> /\ f.newline \in BOOLEAN
  BY DEF IsFile
<1>2. PICK l \in Seq(Seq(Cell)) : l = f.lines /\ l # <<>>
  BY <1>1
<1>3. \A k \in 1..Len(l) : l[k] \in Seq(Cell)
  BY <1>2
<1>4. \A k \in 1..Len(l) : LineIs(LineText(l[k]))
  BY <1>3, LinesAre
<1>5. \A k \in 1..Len(l) : LineText(l[k]) \in Seq(Character) /\ Balanced(LineText(l[k]))
  BY <1>4 DEF LineIs
<1>6. LineTexts(f) = [k \in 1..Len(l) |-> LineText(l[k])]
  BY <1>2 DEF LineTexts
<1>7. Len(l) \in Nat \ {0}
  BY <1>2
<1>8. LineTexts(f) \in Seq(Seq(Character)) /\ Len(LineTexts(f)) = Len(l)
  <2>1. PICK g \in [1..Len(l) -> Seq(Character)] : g = LineTexts(f)
    BY <1>5, <1>6
  <2>2. PICK n \in Nat : n = Len(l)
    BY <1>7
  <2>3. g \in Seq(Seq(Character)) /\ Len(g) = n
    <3>1. g \in [1..n -> Seq(Character)]
      BY <2>1, <2>2
    <3> QED BY <3>1
  <2> QED BY <2>1, <2>2, <2>3
<1>9. \A k \in 1..Len(l) : LineTexts(f)[k] = LineText(l[k])
  BY <1>6
<1> QED BY <1>1, <1>2, <1>3, <1>4, <1>5, <1>7, <1>8, <1>9

LEMMA FileLaid == ASSUME NEW f, IsFile(f)
                  PROVE  /\ Text(f) \in Seq(Character)
                         /\ \E st : Laid(Text(f), LineTexts(f), NL, f.newline, st)
<1>1. PICK p \in Seq(Seq(Character)) : p = LineTexts(f) /\ p # <<>>
  <2>1. LineTexts(f) \in Seq(Seq(Character)) /\ Len(LineTexts(f)) # 0
    BY LineTextsAre
  <2> QED BY <2>1
<1>2. Text(f) = IF f.newline THEN Ended(p, NL) ELSE Joined(p, NL)
  BY <1>1 DEF Text, LineTexts
<1>3. CASE f.newline
  <2>1. Ended(p, NL) \in Seq(Character) /\ \E st : Laid(Ended(p, NL), p, NL, TRUE, st)
    BY EndedLaid, QuoteIs
  <2>2. f.newline = TRUE
    BY <1>3, LineTextsAre
  <2> QED BY <1>1, <1>2, <2>1, <2>2
<1>4. CASE ~f.newline
  <2>1. Joined(p, NL) \in Seq(Character) /\ \E st : Laid(Joined(p, NL), p, NL, FALSE, st)
    BY <1>1, JoinedLaid, QuoteIs
  <2>2. f.newline = FALSE
    BY <1>4, LineTextsAre
  <2> QED BY <1>1, <1>2, <2>1, <2>2
<1> QED BY <1>3, <1>4

(* Where the k-th line of a file stands, a characters from the beginning.  *)
LinePlace(f, d, st, k, a, l) ==
  /\ st[k] = a + 1 /\ st[k + 1] = a + l + 2 /\ Len(LineText(f.lines[k])) = l /\ a + l <= Len(d)
  /\ k < Len(f.lines) \/ f.newline => a + l + 1 <= Len(d) /\ d[a + l + 1] = NL /\ CharAt(d, a + l + 1) = NL
  /\ ~ (k < Len(f.lines) \/ f.newline) => Len(d) = a + l /\ CharAt(d, a + l + 1) = NUL
  /\ k = 1 => a = 0
  /\ k > 1 => a > 0 /\ d[a] = NL
  /\ \A m \in 1..l : d[a + m] = LineText(f.lines[k])[m] /\ CharAt(d, a + m) = d[a + m] /\ d[a + m] # NUL
  /\ \A m \in 1..l : d[a + m] = NL => Odd(Quotes(d, 1, a + m)) /\ Odd(Quotes(d, a + 1, a + m))
  /\ \A m \in 1..l : Odd(Quotes(d, 1, a + m)) <=> Odd(Quotes(LineText(f.lines[k]), 1, m))
  /\ l > 0 => d[a + l] # NL
  /\ ~Odd(Quotes(d, 1, a + l + 1)) /\ ~Odd(Quotes(d, a + 1, a + l + 1))

LEMMA LinePlaces == ASSUME NEW f, IsFile(f), NEW st, Laid(Text(f), LineTexts(f), NL, f.newline, st),
                           NEW k \in 1..Len(f.lines)
                    PROVE  \E a, l \in Nat : LinePlace(f, Text(f), st, k, a, l)
<1>1. PICK d \in Seq(Character) : d = Text(f)
  BY FileLaid
<1>2. PICK p \in Seq(Seq(Character)) : /\ p = LineTexts(f) /\ Len(p) = Len(f.lines)
                                      /\ \A m \in 1..Len(p) : Balanced(p[m])
                                      /\ p[k] = LineText(f.lines[k]) /\ LineIs(p[k])
  BY LineTextsAre
<1>3. Laid(d, p, NL, f.newline, st) /\ k \in 1..Len(p) /\ f.newline \in BOOLEAN
  BY <1>1, <1>2, LineTextsAre
<1>4. PICK a, l, e \in Nat : PieceAt(d, p, NL, f.newline, st, k, a, l, e)
  BY <1>3, LaidPiece
<1>5. /\ st[k] = a + 1 /\ Len(p[k]) = l /\ st[k + 1] = a + l + 2 /\ Len(d) = e /\ a + l <= e
      /\ k < Len(p) \/ f.newline => a + l + 1 <= e
      /\ ~ (k < Len(p) \/ f.newline) => e = a + l
      /\ k = 1 => a = 0
      /\ \A m \in 1..l : d[a + m] = p[k][m] /\ CharAt(d, a + m) = p[k][m]
      /\ CharAt(d, a + l + 1) = IF k < Len(p) \/ f.newline THEN NL ELSE NUL
      /\ k < Len(p) \/ f.newline => d[a + l + 1] = NL
      /\ k > 1 => d[a] = NL
  BY <1>4 DEF PieceAt
<1>6. EvenAt(d, p[k], a, l)
  <2>1. NL # Quote
    BY CharactersDiffer
  <2>2. \A m \in 1..Len(p) : Balanced(p[m])
    BY <1>2
  <2>3. PICK z \in BOOLEAN : z = f.newline
    BY <1>3
  <2>4. Laid(d, p, NL, z, st)
    BY <1>3, <2>3
  <2>5. st[k] = a + 1 /\ Len(p[k]) = l /\ k \in 1..Len(p)
    BY <1>3, <1>5
  <2> QED BY <2>1, <2>2, <2>4, <2>5, LaidParity
<1>7. /\ \A m \in 1..l : /\ Odd(Quotes(d, 1, a + m)) <=> Odd(Quotes(p[k], 1, m))
                         /\ Quotes(d, a + 1, a + m) = Quotes(p[k], 1, m)
      /\ ~Odd(Quotes(d, 1, a + l + 1)) /\ ~Odd(Quotes(d, a + 1, a + l + 1))
  BY <1>6 DEF EvenAt
<1>8. /\ p[k] \in Seq(Character)
      /\ \A m \in 1..l : p[k][m] = NL => Odd(Quotes(p[k], 1, m))
      /\ l > 0 => p[k][l] # NL
  <2>1. p[k] \in Seq(Character) /\ (l > 0 => p[k] # <<>>)
    BY <1>2, <1>5 DEF LineIs
  <2> QED BY <1>2, <1>5, <2>1 DEF LineIs
<1>9. \A m \in 1..l : p[k][m] # NUL
  <2>1. ASSUME NEW m \in 1..l PROVE p[k][m] # NUL
    <3>1. PICK s \in Seq(Character) : s = p[k]
      BY <1>8
    <3>2. s[m] \in Character
      BY <1>5, <3>1, SMTT(20)
    <3> QED BY <3>1, <3>2, CharactersDiffer DEF Character
  <2> QED BY <2>1
<1>10. k > 1 => a > 0
  <2>1. \A m \in 1..Len(p) + 1 : st[m] >= m
    BY <1>3, LaidEvery
  <2>2. st[k] >= k
    BY <1>3, <2>1
  <2> QED BY <1>5, <2>2
<1>11. /\ st[k] = a + 1 /\ st[k + 1] = a + l + 2 /\ Len(LineText(f.lines[k])) = l /\ a + l <= Len(d)
       /\ k < Len(f.lines) \/ f.newline => a + l + 1 <= Len(d) /\ d[a + l + 1] = NL /\ CharAt(d, a + l + 1) = NL
       /\ ~ (k < Len(f.lines) \/ f.newline) => Len(d) = a + l /\ CharAt(d, a + l + 1) = NUL
       /\ k = 1 => a = 0
       /\ k > 1 => a > 0 /\ d[a] = NL
  BY <1>2, <1>5, <1>10
<1>12. \A m \in 1..l : d[a + m] = LineText(f.lines[k])[m] /\ CharAt(d, a + m) = d[a + m] /\ d[a + m] # NUL
  BY <1>2, <1>5, <1>9
<1>13. \A m \in 1..l : d[a + m] = NL => Odd(Quotes(d, 1, a + m)) /\ Odd(Quotes(d, a + 1, a + m))
  BY <1>5, <1>7, <1>8
<1>14. \A m \in 1..l : Odd(Quotes(d, 1, a + m)) <=> Odd(Quotes(LineText(f.lines[k]), 1, m))
  BY <1>2, <1>7
<1>15. l > 0 => d[a + l] # NL
  <2>1. l > 0 => l \in 1..l
    OBVIOUS
  <2> QED BY <1>5, <1>8, <2>1
<1>16. LinePlace(f, d, st, k, a, l)
  BY <1>7, <1>11, <1>12, <1>13, <1>14, <1>15, Zenon DEF LinePlace
<1> QED BY <1>1, <1>16

(* Every place of a file belongs to one of its lines.                      *)
LEMMA FileCover == ASSUME NEW f, IsFile(f), NEW st, Laid(Text(f), LineTexts(f), NL, f.newline, st),
                          NEW q \in 1..Len(Text(f))
                   PROVE  \E k \in 1..Len(f.lines) : \E a, l \in Nat :
                             LinePlace(f, Text(f), st, k, a, l) /\ q \in a + 1..a + l + 1
<1>1. PICK p \in Seq(Seq(Character)) : p = LineTexts(f) /\ Len(p) = Len(f.lines)
  BY LineTextsAre
<1>2. PICK N \in Nat : N = Len(f.lines) /\ N \in 1..N
  <2>1. Len(f.lines) \in Nat \ {0}
    BY LineTextsAre
  <2> QED BY <2>1
<1>3. PICK b, r \in Nat : LinePlace(f, Text(f), st, N, b, r)
  BY <1>2, LinePlaces
<1>4. st[N + 1] = b + r + 2 /\ Len(Text(f)) <= b + r + 1
  <2>1. /\ st[N + 1] = b + r + 2 /\ b + r <= Len(Text(f))
        /\ ~ (N < Len(f.lines) \/ f.newline) => Len(Text(f)) = b + r
    BY <1>3 DEF LinePlace
  <2>2. Len(Text(f)) = st[Len(p) + 1] - (IF f.newline THEN 1 ELSE 2)
    BY <1>1 DEF Laid
  <2>3. Len(Text(f)) = (b + r + 2) - (IF f.newline THEN 1 ELSE 2)
    BY <1>1, <1>2, <2>1, <2>2
  <2> QED BY <2>1, <2>3
<1>5. q \in 1..st[Len(p) + 1] - 1
  <2>1. PICK e \in Nat : e = Len(Text(f))
    BY FileLaid
  <2>2. q \in 1..b + r + 1
    BY <1>4, <2>1
  <2> QED BY <1>1, <1>2, <1>4, <2>2
<1>6. Laid(Text(f), p, NL, f.newline, st)
  BY <1>1
<1>7. PICK k \in 1..Len(p) : q \in st[k]..st[k + 1] - 1
  BY <1>5, <1>6, LaidEvery
<1>8. k \in 1..Len(f.lines)
  BY <1>1
<1>9. PICK a, l \in Nat : LinePlace(f, Text(f), st, k, a, l)
  BY <1>8, LinePlaces
<1>10. st[k] = a + 1 /\ st[k + 1] = a + l + 2
  BY <1>9 DEF LinePlace
<1>11. q \in a + 1..a + l + 1
  BY <1>7, <1>10
<1> QED BY <1>8, <1>9, <1>11

(* A row that set_table cuts out of the text is a line.                    *)
LEMMA RowEndIs == ASSUME NEW f, NEW d, NEW st, NEW k, NEW a \in Nat, NEW l \in Nat, LinePlace(f, d, st, k, a, l),
                         Len(d) \in Nat
                  PROVE  RowEnd(d, a + 1) = a + l + 1
<1> DEFINE E == a + l + 1
<1>1. E \in a + 1..Len(d) + 1
  <2>1. a + l <= Len(d)
    BY DEF LinePlace
  <2> QED BY <2>1
<1>2. EndsRow(d, a + 1, E)
  <2>1. CharAt(d, a + l + 1) \in {NL, NUL} /\ ~Odd(Quotes(d, a + 1, a + l + 1))
    BY DEF LinePlace
  <2> QED BY <2>1 DEF EndsRow
<1>3. ASSUME NEW m \in a + 1..E - 1 PROVE ~EndsRow(d, a + 1, m)
  <2>1. PICK n \in 1..l : m = a + n
    <3>1. m - a \in 1..l /\ m = a + (m - a)
      OBVIOUS
    <3> QED BY <3>1
  <2>2. CharAt(d, a + n) = d[a + n] /\ d[a + n] # NUL /\ (d[a + n] = NL => Odd(Quotes(d, a + 1, a + n)))
    BY DEF LinePlace
  <2> QED BY <2>1, <2>2 DEF EndsRow
<1> DEFINE First(m) == EndsRow(d, a + 1, m) /\ \A n \in a + 1..m - 1 : ~EndsRow(d, a + 1, n)
<1>4. First(E)
  BY <1>2, <1>3
<1>5. ASSUME NEW m \in a + 1..Len(d) + 1, First(m) PROVE m = E
  <2>1. ~(m < E)
    BY <1>3, <1>5
  <2>2. ~(E < m)
    <3>1. E < m => E \in a + 1..m - 1
      OBVIOUS
    <3> QED BY <1>2, <1>5, <3>1
  <2> QED BY <2>1, <2>2
<1>6. RowEnd(d, a + 1) = CHOOSE m \in a + 1..Len(d) + 1 : First(m)
  BY DEF RowEnd
<1> HIDE DEF First, E
<1>7. RowEnd(d, a + 1) = E
  BY <1>1, <1>4, <1>5, <1>6
<1> QED BY <1>7 DEF E

RowText(f, d, k, a) == SubSeq(d, a + 1, RowEnd(d, a + 1) - 1) = LineText(f.lines[k])

LEMMA RowIs == ASSUME NEW f, NEW d \in Seq(Character), NEW st, NEW k, NEW a \in Nat, NEW l \in Nat,
                      LinePlace(f, d, st, k, a, l), LineText(f.lines[k]) \in Seq(Character)
               PROVE  RowText(f, d, k, a)
<1>1. PICK s \in Seq(Character) : s = LineText(f.lines[k])
  OBVIOUS
<1>2. Len(s) = l /\ a + l <= Len(d) /\ \A m \in 1..l : d[a + m] = s[m]
  BY <1>1 DEF LinePlace
<1>3. RowEnd(d, a + 1) - 1 = a + l
  BY RowEndIs
<1>4. PICK u : u = SubSeq(d, a + 1, a + l)
  OBVIOUS
<1>5. u \in Seq(Character) /\ Len(u) = l /\ \A m \in 1..l : u[m] = d[a + m]
  <2>1. a + 1 \in 1..Len(d) + 1 /\ a + l \in a..Len(d)
    BY <1>2
  <2>2. \A m \in a + 1..a + l : d[m] \in Character
    BY <1>2
  <2>3. u \in Seq(Character)
    BY <1>4, <2>1, <2>2, SubSeqProperties
  <2>4. Len(u) = l
    BY <1>4, <2>1, <2>2, SubSeqProperties
  <2>5. \A m \in 1..l : u[m] = d[(a + 1) + m - 1]
    BY <1>4, <2>1, <2>2, <2>4, SubSeqProperties
  <2>6. \A m \in 1..l : (a + 1) + m - 1 = a + m
    OBVIOUS
  <2> QED BY <2>3, <2>4, <2>5, <2>6
<1>6. u = s
  <2>1. Len(u) = Len(s) /\ \A m \in 1..Len(u) : u[m] = s[m]
    BY <1>2, <1>5
  <2> QED BY <1>1, <1>5, <2>1, SeqEqual
<1> QED BY <1>1, <1>3, <1>4, <1>6 DEF RowText

-----------------------------------------------------------------------------
(* Counting rows and columns.                                              *)

(* Sets whose members go together one by one have as many.                 *)
LEMMA SameNumber == ASSUME NEW S, NEW C, IsFiniteSet(S), NEW g \in [S -> C],
                           \A x, y \in S : g[x] = g[y] => x = y, \A z \in C : \E x \in S : g[x] = z
                    PROVE  IsFiniteSet(C) /\ Cardinality(C) = Cardinality(S)
<1>1. g \in Bijection(S, C)
  BY DEF Bijection, Injection, Surjection, IsInjective
<1>2. ExistsBijection(S, C)
  BY <1>1 DEF ExistsBijection
<1> QED BY <1>2, FS_Bijection

LEMMA FewPlaces == ASSUME NEW n \in Nat, NEW S \in SUBSET (1..n)
                   PROVE  IsFiniteSet(S) /\ Cardinality(S) \in 0..n
<1>1. IsFiniteSet(1..n) /\ Cardinality(1..n) = n
  BY FS_Interval
<1>2. IsFiniteSet(S) /\ Cardinality(S) <= Cardinality(1..n)
  BY <1>1, FS_Subset
<1>3. Cardinality(S) \in Nat
  BY <1>2, FS_CardinalityType
<1> QED BY <1>1, <1>2, <1>3

(* The newlines that calculate_row_number counts.                          *)
PrevChar(d, g, k) == IF k = 1 THEN g ELSE d[k - 1]
Newlines(d, g) == {k \in 1..Len(d) : d[k] = NL /\ PrevChar(d, g, k) # NL /\ ~Odd(Quotes(d, 1, k))}
Nonblank(f) == {k \in DOMAIN f.lines : LineText(f.lines[k]) # <<>>}

LEMMA RowNumberIs == ASSUME NEW d \in Seq(Character), NEW g
                     PROVE  /\ RowNumber(d, g) = Cardinality(Newlines(d, g)) + (IF d # <<>> /\ Last(d) # NL THEN 1 ELSE 0)
                            /\ RowNumber(d, g) \in 0..Len(d) + 1
<1>1. Newlines(d, g) = {k \in DOMAIN d : CountsLine(d[k], IF k = 1 THEN g ELSE d[k - 1]) /\ ~Odd(Quotes(d, 1, k))}
  <2>1. DOMAIN d = 1..Len(d)
    OBVIOUS
  <2> QED BY <2>1 DEF Newlines, CountsLine, PrevChar
<1>2. RowNumber(d, g) = Cardinality(Newlines(d, g)) + (IF d # <<>> /\ Last(d) # NL THEN 1 ELSE 0)
  BY <1>1 DEF RowNumber
<1>3. Newlines(d, g) \in SUBSET (1..Len(d)) /\ Len(d) \in Nat
  BY DEF Newlines
<1>4. Cardinality(Newlines(d, g)) \in 0..Len(d)
  BY <1>3, FewPlaces
<1> QED BY <1>2, <1>3, <1>4

(* Every line that is not blank and has a newline is counted there, so the *)
(* rows are the lines that are not blank.                                  *)
LEMMA NewlinesAre == ASSUME NEW f, IsFile(f), LineText(f.lines[1]) # <<>>, NEW st,
                            Laid(Text(f), LineTexts(f), NL, f.newline, st), NEW g
                     PROVE  LET S == {k \in Nonblank(f) : k < Len(f.lines) \/ f.newline}
                            IN  Cardinality(Newlines(Text(f), g)) = Cardinality(S)
<1> DEFINE d == Text(f)
           N == Len(f.lines)
           S == {k \in Nonblank(f) : k < N \/ f.newline}
           h == [k \in S |-> st[k + 1] - 1]
<1>1. N \in Nat \ {0} /\ DOMAIN f.lines = 1..N /\ S \in SUBSET (1..N)
  <2>1. f.lines \in Seq(Seq(Cell)) /\ N \in Nat \ {0}
    BY LineTextsAre
  <2>2. DOMAIN f.lines = 1..N
    BY <2>1
  <2> QED BY <2>1, <2>2 DEF Nonblank
<1>2. d \in Seq(Character) /\ Len(d) \in Nat
  BY FileLaid
<1>3. IsFiniteSet(S)
  BY <1>1, FewPlaces
<1>4. ASSUME NEW k \in 1..N
      PROVE  \E a, l \in Nat : LinePlace(f, d, st, k, a, l)
  BY <1>4, LinePlaces
<1>5. \A k \in 1..N : \A a, l \in Nat :
         LinePlace(f, d, st, k, a, l) => /\ st[k] = a + 1 /\ st[k + 1] - 1 = a + l + 1
                                         /\ LineText(f.lines[k]) # <<>> <=> l > 0
  <2>1. ASSUME NEW k \in 1..N, NEW a \in Nat, NEW l \in Nat, LinePlace(f, d, st, k, a, l)
        PROVE  st[k] = a + 1 /\ st[k + 1] - 1 = a + l + 1 /\ (LineText(f.lines[k]) # <<>> <=> l > 0)
    <3>1. st[k] = a + 1 /\ st[k + 1] = a + l + 2 /\ Len(LineText(f.lines[k])) = l
      BY <2>1 DEF LinePlace
    <3>2. PICK s \in Seq(Character) : s = LineText(f.lines[k])
      <4>1. LineTexts(f)[k] = LineText(f.lines[k]) /\ LineIs(LineTexts(f)[k])
        BY LineTextsAre
      <4> QED BY <4>1 DEF LineIs
    <3>3. s # <<>> <=> l > 0
      BY <3>1, <3>2
    <3> QED BY <3>1, <3>2, <3>3
  <2> QED BY <2>1
<1> HIDE DEF d, N
<1>6. ASSUME NEW k \in S PROVE h[k] \in Newlines(d, g)
  <2>1. k \in 1..N /\ (k < N \/ f.newline) /\ LineText(f.lines[k]) # <<>>
    BY <1>1 DEF Nonblank
  <2>2. PICK a, l \in Nat : LinePlace(f, d, st, k, a, l)
    BY <1>4, <2>1
  <2>3. h[k] = a + l + 1 /\ l > 0
    BY <1>5, <2>1, <2>2
  <2>4. a + l + 1 <= Len(d) /\ d[a + l + 1] = NL /\ d[a + l] # NL /\ ~Odd(Quotes(d, 1, a + l + 1))
    BY <2>1, <2>2, <2>3 DEF LinePlace, N
  <2>5. a + l + 1 \in 1..Len(d) /\ PrevChar(d, g, a + l + 1) = d[a + l]
    BY <1>2, <2>3, <2>4 DEF PrevChar
  <2> QED BY <2>3, <2>4, <2>5 DEF Newlines
<1>7. ASSUME NEW q \in Newlines(d, g) PROVE \E k \in S : h[k] = q
  <2>1. q \in 1..Len(d) /\ d[q] = NL /\ PrevChar(d, g, q) # NL /\ ~Odd(Quotes(d, 1, q))
    BY DEF Newlines
  <2>2. PICK k \in 1..N : \E a, l \in Nat : LinePlace(f, d, st, k, a, l) /\ q \in a + 1..a + l + 1
    BY <2>1, FileCover DEF d, N
  <2>3. PICK a, l \in Nat : LinePlace(f, d, st, k, a, l) /\ q \in a + 1..a + l + 1
    BY <2>2
  <2>4. q = a + l + 1
    <3>1. ASSUME q # a + l + 1 PROVE FALSE
      <4>1. PICK m \in 1..l : q = a + m
        <5>1. q - a \in 1..l /\ q = a + (q - a)
          BY <2>3, <3>1
        <5> QED BY <5>1
      <4>2. d[a + m] = NL => Odd(Quotes(d, 1, a + m))
        BY <2>3 DEF LinePlace
      <4> QED BY <2>1, <4>1, <4>2
    <3> QED BY <3>1
  <2>5. k < N \/ f.newline
    <3>1. ~(k < N \/ f.newline) => Len(d) = a + l
      BY <2>3 DEF LinePlace, N
    <3> QED BY <2>1, <2>4, <3>1
  <2>6. l > 0
    <3>1. ASSUME l = 0 PROVE FALSE
      <4>0. ~(LineText(f.lines[k]) # <<>>)
        BY <1>5, <2>3, <3>1
      <4>1. k # 1
        BY <4>0, Zenon
      <4>2. a > 0 /\ d[a] = NL
        BY <2>3, <4>1 DEF LinePlace
      <4>3. PrevChar(d, g, q) = d[a]
        BY <2>4, <3>1, <4>2 DEF PrevChar
      <4> QED BY <2>1, <4>2, <4>3
    <3> QED BY <3>1
  <2>7. k \in S
    <3>1. LineText(f.lines[k]) # <<>>
      BY <1>5, <2>3, <2>6
    <3> QED BY <1>1, <2>5, <3>1 DEF Nonblank
  <2>8. h[k] = q
    BY <1>5, <2>3, <2>4, <2>7
  <2> QED BY <2>7, <2>8
<1>8. ASSUME NEW j \in S, NEW k \in S, h[j] = h[k] PROVE j = k
  <2>1. ASSUME NEW x \in S, NEW y \in S, x < y PROVE h[x] < h[y]
    <3>1. x \in 1..N /\ y \in 1..N
      BY <1>1
    <3>2. PICK a, l \in Nat : LinePlace(f, d, st, x, a, l)
      BY <1>4, <3>1
    <3>3. PICK b, r \in Nat : LinePlace(f, d, st, y, b, r)
      BY <1>4, <3>1
    <3>4. PICK p \in Seq(Seq(Character)) : p = LineTexts(f) /\ Len(p) = N
      BY LineTextsAre DEF N
    <3>5. \A m \in 1..N + 1 : \A n \in 1..m - 1 : st[n + 1] <= st[m]
      <4>1. Laid(d, p, NL, f.newline, st)
        BY <3>4 DEF d
      <4> QED BY <3>4, <4>1, LaidEvery
    <3>6. st[x + 1] <= st[y]
      <4>1. y \in 1..N + 1 /\ x \in 1..y - 1
        BY <1>1, <2>1, <3>1
      <4> QED BY <3>5, <4>1
    <3>7. st[x + 1] - 1 = a + l + 1 /\ st[y] = b + 1 /\ st[y + 1] - 1 = b + r + 1
      BY <1>5, <3>1, <3>2, <3>3
    <3>8. st[x + 1] = a + l + 2
      BY <3>2 DEF LinePlace
    <3>9. h[x] = a + l + 1 /\ h[y] = b + r + 1
      BY <3>7
    <3> QED BY <3>6, <3>7, <3>8, <3>9
  <2>2. h[j] \in Newlines(d, g) /\ h[k] \in Newlines(d, g)
    BY <1>6
  <2>3. h[j] \in Nat /\ h[k] \in Nat
    BY <2>2 DEF Newlines
  <2>4. j < k \/ k < j \/ j = k
    BY <1>1
  <2>5. ~(j < k)
    <3>1. j < k => h[j] < h[k]
      BY <2>1
    <3> HIDE DEF h
    <3> QED BY <1>8, <2>3, <3>1
  <2>6. ~(k < j)
    <3>1. k < j => h[k] < h[j]
      BY <2>1
    <3> HIDE DEF h
    <3> QED BY <1>8, <2>3, <3>1
  <2> QED BY <2>4, <2>5, <2>6
<1>9. h \in [S -> Newlines(d, g)]
  BY <1>6
<1> HIDE DEF h, S
<1>10. Cardinality(Newlines(d, g)) = Cardinality(S)
  BY <1>3, <1>7, <1>8, <1>9, SameNumber
<1> QED BY <1>10 DEF S, d, N

LEMMA RowsCounted == ASSUME NEW f, IsFile(f), LineText(f.lines[1]) # <<>>, NEW g
                     PROVE  RowNumber(Text(f), g) = Cardinality(Nonblank(f))
<1>1. PICK st : Laid(Text(f), LineTexts(f), NL, f.newline, st)
  BY FileLaid
<1>2. PICK d \in Seq(Character) : d = Text(f)
  BY FileLaid
<1>3. PICK N \in Nat \ {0} : N = Len(f.lines) /\ DOMAIN f.lines = 1..N /\ f.newline \in BOOLEAN
  <2>1. f.lines \in Seq(Seq(Cell)) /\ Len(f.lines) \in Nat \ {0} /\ f.newline \in BOOLEAN
    BY LineTextsAre
  <2> QED BY <2>1
<1> DEFINE S == {k \in Nonblank(f) : k < N \/ f.newline}
<1>4. Cardinality(Newlines(d, g)) = Cardinality(S)
  BY <1>1, <1>2, <1>3, NewlinesAre
<1>5. S \in SUBSET (1..N) /\ Nonblank(f) \in SUBSET (1..N)
  BY <1>3 DEF Nonblank
<1>6. IsFiniteSet(S)
  BY <1>5, FewPlaces
<1>7. PICK a, l \in Nat : LinePlace(f, d, st, N, a, l)
  BY <1>1, <1>2, <1>3, LinePlaces, SMTT(20)
<1>8. /\ Len(LineText(f.lines[N])) = l /\ a + l <= Len(d)
      /\ f.newline => a + l + 1 <= Len(d) /\ d[a + l + 1] = NL
      /\ ~f.newline => Len(d) = a + l
      /\ N = 1 => a = 0
      /\ N > 1 => a > 0 /\ d[a] = NL
      /\ l > 0 => d[a + l] # NL
  BY <1>3, <1>7 DEF LinePlace
<1>9. PICK s \in Seq(Character) : s = LineText(f.lines[N])
  <2>1. LineTexts(f)[N] = LineText(f.lines[N]) /\ LineIs(LineTexts(f)[N])
    BY <1>3, LineTextsAre
  <2> QED BY <2>1 DEF LineIs
<1>10. s # <<>> <=> l > 0
  BY <1>8, <1>9
<1>11. d # <<>> /\ Last(d) = d[Len(d)]
  <2>1. N = 1 => l > 0
    BY <1>9, <1>10
  <2>2. a + l > 0
    BY <1>8, <2>1
  <2> QED BY <1>8, <2>2 DEF Last
<1>12. RowNumber(d, g) = Cardinality(S) + (IF d[Len(d)] # NL THEN 1 ELSE 0)
  BY <1>4, <1>11, RowNumberIs
<1>13. CASE f.newline
  <2>1. S = Nonblank(f)
    BY <1>13
  <2>2. Len(d) = a + l + 1
    <3>1. Len(d) = st[Len(LineTexts(f)) + 1] - (IF f.newline THEN 1 ELSE 2)
      BY <1>1, <1>2 DEF Laid
    <3>2. Len(LineTexts(f)) = N /\ st[N + 1] = a + l + 2
      BY <1>3, <1>7, LineTextsAre DEF LinePlace
    <3> QED BY <1>13, <3>1, <3>2
  <2>3. d[Len(d)] = NL
    BY <1>8, <1>13, <2>2
  <2>4. Cardinality(S) \in Nat
    BY <1>6, FS_CardinalityType
  <2>5. RowNumber(d, g) = Cardinality(S)
    BY <1>12, <2>3, <2>4
  <2> QED BY <1>2, <2>1, <2>5
<1>14. CASE ~f.newline /\ l > 0
  <2>1. Nonblank(f) = S \cup {N} /\ N \notin S
    <3>1. N \in Nonblank(f)
      BY <1>3, <1>9, <1>10, <1>14 DEF Nonblank
    <3>2. \A k \in 1..N : k < N \/ k = N
      OBVIOUS
    <3> QED BY <1>5, <1>14, <3>1, <3>2
  <2>2. d[Len(d)] # NL
    BY <1>8, <1>14
  <2> HIDE DEF S
  <2>3. Cardinality(S \cup {N}) = Cardinality(S) + 1
    BY <1>6, <2>1, FS_AddElement
  <2> QED BY <1>2, <1>12, <2>1, <2>2, <2>3
<1>15. CASE ~f.newline /\ l = 0
  <2>1. Nonblank(f) = S
    <3>1. N \notin Nonblank(f)
      BY <1>3, <1>9, <1>10, <1>15 DEF Nonblank
    <3>2. \A k \in 1..N : k < N \/ k = N
      OBVIOUS
    <3> QED BY <1>5, <1>15, <3>1, <3>2
  <2>2. N > 1
    BY <1>3, <1>9, <1>10, <1>15
  <2>3. d[Len(d)] = NL
    BY <1>8, <1>15, <2>2
  <2>4. Cardinality(S) \in Nat
    BY <1>6, FS_CardinalityType
  <2>5. RowNumber(d, g) = Cardinality(S)
    BY <1>12, <2>3, <2>4
  <2> QED BY <1>2, <2>1, <2>5
<1> QED BY <1>13, <1>14, <1>15

(* The commas between the cells of a line, which calculate_column_number   *)
(* counts.                                                                 *)
Commas(s) == {k \in 1..Len(s) : s[k] = Comma /\ ~Odd(Quotes(s, 1, k))}

LEMMA CommasAre == ASSUME NEW l \in Seq(Cell), l # <<>>
                   PROVE  Cardinality(Commas(LineText(l))) = Len(l) - 1
<1>1. PICK s \in Seq(Character) : s = LineText(l)
  BY LineLaid
<1>2. PICK st : Laid(s, CellTexts(l), Comma, FALSE, st)
  BY <1>1, LineLaid
<1>3. PICK N \in Nat \ {0} : N = Len(l)
  <2>1. Len(l) \in Nat /\ Len(l) # 0
    OBVIOUS
  <2> QED BY <2>1
<1>4. PICK p \in Seq(Seq(Character)) : p = CellTexts(l) /\ Len(p) = N
  BY <1>3, CellTextsAre
<1>5. /\ \A m \in 1..N + 1 : st[m] >= m /\ \A n \in 1..m - 1 : st[n + 1] <= st[m]
      /\ st \in [1..N + 1 -> Nat]
  <2>1. Laid(s, p, Comma, FALSE, st)
    BY <1>2, <1>4
  <2> QED BY <1>4, <2>1, LaidEvery
<1>6. \A j \in 1..N : \E a, q \in Nat : CellPlace(l, s, st, j, a, q)
  BY <1>2, <1>3, CellPlaces
<1> DEFINE S == 1..N - 1
           h == [j \in S |-> st[j + 1] - 1]
<1>7. ASSUME NEW j \in S PROVE h[j] \in Commas(s)
  <2>1. j \in 1..N /\ j < N
    OBVIOUS
  <2>2. PICK a, q \in Nat : CellPlace(l, s, st, j, a, q)
    BY <1>6, <2>1
  <2>3. h[j] = a + q + 1 /\ a + q + 1 <= Len(s) /\ s[a + q + 1] = Comma /\ ~Odd(Quotes(s, 1, a + q + 1))
    BY <1>3, <2>1, <2>2 DEF CellPlace
  <2> QED BY <2>3 DEF Commas
<1>8. ASSUME NEW k \in Commas(s) PROVE \E j \in S : h[j] = k
  <2>1. k \in 1..Len(s) /\ k \in 1..Len(s) + 1 /\ s[k] = Comma /\ ~Odd(Quotes(s, 1, k))
    BY DEF Commas
  <2>2. PICK j \in 1..Len(l) : \E a, q \in Nat : CellPlace(l, s, st, j, a, q) /\ k \in a + 1..a + q + 1
    BY <1>2, <2>1, LineCover
  <2>3. PICK a, q \in Nat : CellPlace(l, s, st, j, a, q) /\ k \in a + 1..a + q + 1
    BY <2>2
  <2>4. k = a + q + 1
    <3>1. ASSUME k # a + q + 1 PROVE FALSE
      <4>1. PICK m \in 1..q : k = a + m
        <5>1. k - a \in 1..q /\ k = a + (k - a)
          BY <2>3, <3>1
        <5> QED BY <5>1
      <4>2. CellChar(l, s, j, a, q, m)
        BY <2>3, CharIs
      <4> QED BY <2>1, <4>1, <4>2 DEF CellChar
    <3> QED BY <3>1
  <2>5. j < N
    <3>1. j = Len(l) => Len(s) = a + q
      BY <2>3 DEF CellPlace
    <3> QED BY <1>3, <2>1, <2>4, <3>1
  <2>6. j \in S /\ h[j] = k
    <3>1. st[j + 1] = a + q + 2
      BY <2>3 DEF CellPlace
    <3> QED BY <2>4, <2>5, <3>1
  <2> QED BY <2>6
<1>9. ASSUME NEW j \in S, NEW k \in S, h[j] = h[k] PROVE j = k
  <2>1. ASSUME NEW x \in S, NEW y \in S, x < y PROVE h[x] < h[y]
    <3>1. PICK a, q \in Nat : CellPlace(l, s, st, x, a, q)
      BY <1>6
    <3>2. PICK b, r \in Nat : CellPlace(l, s, st, y, b, r)
      BY <1>6
    <3>3. st[x + 1] = a + q + 2 /\ st[y] = b + 1 /\ st[y + 1] = b + r + 2
      BY <3>1, <3>2 DEF CellPlace
    <3>4. st[x + 1] <= st[y]
      <4>1. y \in 1..N + 1 /\ x \in 1..y - 1
        BY <2>1
      <4> QED BY <1>5, <4>1
    <3>5. h[x] = a + q + 1 /\ h[y] = b + r + 1
      BY <3>3
    <3> QED BY <3>3, <3>4, <3>5
  <2>2. h[j] \in Nat /\ h[k] \in Nat
    <3>1. h[j] \in Commas(s) /\ h[k] \in Commas(s)
      BY <1>7
    <3> QED BY <3>1 DEF Commas
  <2>3. j < k \/ k < j \/ j = k
    OBVIOUS
  <2>4. (j < k => h[j] < h[k]) /\ (k < j => h[k] < h[j])
    BY <2>1
  <2> HIDE DEF h
  <2>5. ~(j < k) /\ ~(k < j)
    BY <1>9, <2>2, <2>4
  <2> QED BY <2>3, <2>5
<1>10. h \in [S -> Commas(s)]
  BY <1>7
<1>11. IsFiniteSet(S) /\ Cardinality(S) = N - 1
  BY FS_Interval
<1> HIDE DEF h, S
<1>12. Cardinality(Commas(s)) = Cardinality(S)
  BY <1>8, <1>9, <1>10, <1>11, SameNumber
<1> QED BY <1>1, <1>3, <1>11, <1>12

LEMMA ColumnsCounted ==
  ASSUME NEW f, IsFile(f), NEW g
  PROVE  /\ ColumnNumber(Text(f), g) \in 0..Len(Text(f)) + 1
         /\ LineText(f.lines[1]) # <<>> =>
              ColumnNumber(Text(f), g) =
                Len(f.lines[1]) - (IF Len(f.lines[1]) > 1 /\ CellText(Last(f.lines[1])) = <<>> THEN 1 ELSE 0)
<1>1. PICK st : Laid(Text(f), LineTexts(f), NL, f.newline, st)
  BY FileLaid
<1>2. PICK d \in Seq(Character) : d = Text(f)
  BY FileLaid
<1>3. PICK z \in Seq(Cell) : z = f.lines[1] /\ 1 \in 1..Len(f.lines)
  <2>1. Len(f.lines) \in Nat \ {0}
    BY LineTextsAre
  <2>2. 1 \in 1..Len(f.lines)
    BY <2>1
  <2> QED BY <2>2, LineTextsAre
<1>4. PICK a, l \in Nat : LinePlace(f, d, st, 1, a, l)
  BY <1>1, <1>2, <1>3, LinePlaces
<1>5. /\ a = 0 /\ Len(LineText(z)) = l /\ a + l <= Len(d)
      /\ \A m \in 1..l : d[a + m] = LineText(z)[m]
      /\ \A m \in 1..l : Odd(Quotes(d, 1, a + m)) <=> Odd(Quotes(LineText(z), 1, m))
  BY <1>3, <1>4 DEF LinePlace
<1>6. /\ l <= Len(d)
      /\ \A m \in 1..l : d[m] = LineText(z)[m]
      /\ \A m \in 1..l : Odd(Quotes(d, 1, m)) <=> Odd(Quotes(LineText(z), 1, m))
  <2>1. \A m \in 1..l : a + m = m
    BY <1>5
  <2> QED BY <1>5, <2>1
<1>7. RowEnd(d, 1) = l + 1
  <2>1. RowEnd(d, a + 1) = a + l + 1 /\ a + 1 = 1 /\ a + l + 1 = l + 1
    BY <1>4, <1>5, RowEndIs
  <2> QED BY <2>1, Zenon
<1>8. PICK s \in Seq(Character) : s = LineText(z) /\ LineIs(s)
  <2>1. LineIs(LineText(z))
    BY LinesAre
  <2> QED BY <2>1 DEF LineIs
<1>9. Len(s) = l
  BY <1>5, <1>8
<1>10. {k \in 1..RowEnd(d, 1) - 1 : d[k] = Comma /\ ~Odd(Quotes(d, 1, k))} = Commas(s)
  <2>1. RowEnd(d, 1) - 1 = l
    BY <1>7
  <2> QED BY <1>6, <1>8, <1>9, <2>1 DEF Commas
<1>11. ColumnNumber(d, g) =
         Cardinality(Commas(s)) + (IF (IF RowEnd(d, 1) = 1 THEN g ELSE d[RowEnd(d, 1) - 1]) = Comma THEN 0 ELSE 1)
  BY <1>10, Zenon DEF ColumnNumber
<1>12. ColumnNumber(d, g) \in 0..Len(d) + 1
  <2>1. Cardinality(Commas(s)) \in 0..l
    <3>1. Commas(s) \in SUBSET (1..l)
      BY <1>9 DEF Commas
    <3> QED BY <3>1, FewPlaces
  <2> QED BY <1>6, <1>11, <2>1
<1>13. ASSUME s # <<>>
       PROVE  ColumnNumber(d, g) = Len(z) - (IF Len(z) > 1 /\ CellText(Last(z)) = <<>> THEN 1 ELSE 0)
  <2>1. /\ s[l] = Comma <=> CellText(Last(z)) = <<>>
        /\ z # <<>> /\ (Len(z) = 1 => CellText(Last(z)) # <<>>)
    BY <1>8, <1>9, <1>13, LinesAre
  <2>2. Cardinality(Commas(s)) = Len(z) - 1
    BY <1>8, <2>1, CommasAre
  <2>3. l > 0
    BY <1>9, <1>13
  <2>4. RowEnd(d, 1) # 1 /\ d[RowEnd(d, 1) - 1] = s[l]
    <3>1. RowEnd(d, 1) # 1 /\ RowEnd(d, 1) - 1 = l /\ l \in 1..l
      BY <1>7, <2>3
    <3> QED BY <1>6, <1>8, <3>1
  <2>5. Len(z) \in Nat \ {0}
    BY <2>1
  <2>6. ColumnNumber(d, g) = (Len(z) - 1) + (IF s[l] = Comma THEN 0 ELSE 1)
    BY <1>11, <2>2, <2>4
  <2>7. PICK n \in Nat \ {0} : n = Len(z)
    BY <2>5
  <2>8. PICK e : e = CellText(Last(z))
    OBVIOUS
  <2>9. (s[l] = Comma <=> e = <<>>) /\ (n = 1 => e # <<>>)
    BY <2>1, <2>7, <2>8, Zenon
  <2>10. ColumnNumber(d, g) = (n - 1) + (IF s[l] = Comma THEN 0 ELSE 1)
    BY <2>6, <2>7
  <2>11. CASE e = <<>>
    <3>1. s[l] = Comma /\ n > 1
      BY <2>9, <2>11
    <3>2. ColumnNumber(d, g) = n - 1
      BY <2>10, <3>1
    <3> QED BY <2>7, <2>8, <2>11, <3>1, <3>2
  <2>12. CASE e # <<>>
    <3>1. s[l] # Comma
      BY <2>9, <2>12
    <3>2. ColumnNumber(d, g) = n
      BY <2>10, <3>1
    <3> QED BY <2>7, <2>8, <2>12, <3>2
  <2> QED BY <2>11, <2>12
<1> QED BY <1>2, <1>3, <1>8, <1>12, <1>13

-----------------------------------------------------------------------------
(* Taking a line apart.                                                    *)

(* Ordered lists a set of numbers in its order.                            *)
Rising(e, m) == \A x, y \in 1..m : x < y => e[x] < e[y]

LEMMA OrderedIs == ASSUME NEW m \in Nat, NEW e \in [1..m -> Nat], Rising(e, m),
                          NEW S, \A x \in 1..m : e[x] \in S, \A k \in S : \E x \in 1..m : e[x] = k
                   PROVE  Ordered(S) = e
<1>1. \A x, y \in 1..m : (e[x] = e[y] => x = y) /\ (e[x] <= e[y] <=> x <= y)
  <2>1. ASSUME NEW x \in 1..m, NEW y \in 1..m PROVE (e[x] = e[y] => x = y) /\ (e[x] <= e[y] <=> x <= y)
    <3>1. (x < y => e[x] < e[y]) /\ (y < x => e[y] < e[x])
      BY DEF Rising
    <3>2. e[x] \in Nat /\ e[y] \in Nat
      OBVIOUS
    <3> QED BY <3>1, <3>2
  <2> QED BY <2>1
<1>2. ASSUME NEW n \in 1..m PROVE Cardinality({l \in S : l <= e[n]}) = n
  <2> DEFINE C == {l \in S : l <= e[n]}
             g == [x \in 1..n |-> e[x]]
  <2>1. \A x \in 1..n : x \in 1..m /\ e[x] \in C
    BY <1>1
  <2>2. g \in [1..n -> C]
    BY <2>1
  <2>3. \A x, y \in 1..n : g[x] = g[y] => x = y
    BY <1>1, <2>1
  <2>4. ASSUME NEW k \in C PROVE \E x \in 1..n : g[x] = k
    <3>1. PICK x \in 1..m : e[x] = k
      OBVIOUS
    <3>2. x <= n
      BY <1>1, <3>1
    <3> QED BY <3>1, <3>2
  <2>5. IsFiniteSet(1..n) /\ Cardinality(1..n) = n
    BY FS_Interval
  <2> HIDE DEF C, g
  <2>6. Cardinality(C) = n
    BY <2>2, <2>3, <2>4, <2>5, SameNumber
  <2> QED BY <2>6 DEF C
<1>3. Cardinality(S) = m
  <2>1. e \in [1..m -> S]
    OBVIOUS
  <2>2. IsFiniteSet(1..m) /\ Cardinality(1..m) = m
    BY FS_Interval
  <2>3. (\A x, y \in 1..m : e[x] = e[y] => x = y) /\ (\A k \in S : \E x \in 1..m : e[x] = k)
    BY <1>1
  <2>4. Cardinality(S) = Cardinality(1..m)
    BY <2>1, <2>2, <2>3, SameNumber
  <2> QED BY <2>2, <2>4
<1> DEFINE Nth(n) == CHOOSE k \in S : Cardinality({l \in S : l <= k}) = n
<1>4. ASSUME NEW n \in 1..m PROVE Nth(n) = e[n]
  <2>1. \A k \in S : Cardinality({l \in S : l <= k}) = n => k = e[n]
    <3>1. ASSUME NEW k \in S, Cardinality({l \in S : l <= k}) = n PROVE k = e[n]
      <4>1. PICK x \in 1..m : e[x] = k
        OBVIOUS
      <4>2. Cardinality({l \in S : l <= e[x]}) = x
        BY <1>2
      <4>3. x = n
        BY <3>1, <4>1, <4>2
      <4> QED BY <4>1, <4>3
    <3> QED BY <3>1
  <2>2. e[n] \in S /\ Cardinality({l \in S : l <= e[n]}) = n
    BY <1>2
  <2> DEFINE Upto(k) == Cardinality({l \in S : l <= k})
  <2>3. Nth(n) = CHOOSE k \in S : Upto(k) = n
    OBVIOUS
  <2>4. e[n] \in S /\ Upto(e[n]) = n /\ \A k \in S : Upto(k) = n => k = e[n]
    BY <2>1, <2>2
  <2> HIDE DEF Upto, Nth
  <2> QED BY <2>3, <2>4
<1>5. Ordered(S) = [n \in 1..m |-> Nth(n)]
  BY <1>3 DEF Ordered
<1> HIDE DEF Nth
<1>6. Ordered(S) = [n \in 1..m |-> e[n]]
  BY <1>4, <1>5
<1>7. e = [n \in 1..m |-> e[n]]
  OBVIOUS
<1> QED BY <1>6, <1>7

(* Where a cell begins for split.                                          *)
LEMMA StartIs == ASSUME NEW s, NEW b \in Nat, NEW k \in Nat, b < k, b = 0 \/ b \in Ends(s),
                        \A y \in Ends(s) : y < k => y <= b, Len(s) \in Nat
                 PROVE  Start(s, k) = b
<1> DEFINE S == {0} \cup {y \in Ends(s) : y < k}
<1>1. Start(s, k) = Max(S)
  BY DEF Start
<1>2. Max(S) = CHOOSE x \in S : \A y \in S : x >= y
  BY DEF Max
<1>3. Ends(s) \subseteq Nat
  BY DEF Ends
<1>4. b \in S /\ \A y \in S : b >= y
  BY <1>3
<1>5. S \subseteq Nat
  BY <1>3
<1>6. \A x \in S : (\A y \in S : x >= y) => x = b
  BY <1>4, <1>5
<1> HIDE DEF S
<1> QED BY <1>1, <1>2, <1>4, <1>6

(* The ends that split finds in a cell.                                    *)
CellEnds(l, s, j, a, q) ==
  /\ \A k \in a + 1..a + q + 1 : k \in Ends(s) <=> k = a + q + 1 \/ (l[j].quoted /\ k \in {a + 1, a + q})
  /\ a = 0 \/ (a \in Ends(s) /\ s[a] = Comma /\ CharAt(s, a) = Comma)
  /\ a = 0 <=> j = 1
  /\ q = 0 => a > 0 \/ j < Len(l)

LEMMA CellEndsAre == ASSUME NEW l \in Seq(Cell), NEW s \in Seq(Character), s # <<>>, NEW st, NEW j \in 1..Len(l),
                            NEW a \in Nat, NEW q \in Nat, CellPlace(l, s, st, j, a, q)
                     PROVE  CellEnds(l, s, j, a, q)
<1>1. PICK e \in Nat : e = Len(s) /\ e > 0
  BY Len(s) \in Nat /\ Len(s) # 0
<1>2. /\ a + q <= e
      /\ j < Len(l) => a + q + 1 <= e /\ CharAt(s, a + q + 1) = Comma
      /\ j = Len(l) => e = a + q /\ CharAt(s, a + q + 1) = NUL
      /\ j = 1 => a = 0
      /\ j > 1 => a > 0 /\ s[a] = Comma /\ CharAt(s, a) = Comma
      /\ ~Odd(Quotes(s, 1, a)) /\ ~Odd(Quotes(s, 1, a + q + 1))
  BY <1>1 DEF CellPlace
<1>3. j < Len(l) \/ j = Len(l)
  OBVIOUS
<1>4. a + q + 1 \in Ends(s)
  BY <1>1, <1>2, <1>3 DEF Ends
<1>5. ASSUME NEW m \in 1..q PROVE a + m \in Ends(s) <=> l[j].quoted /\ m \in {1, q}
  <2>1. CellChar(l, s, j, a, q, m)
    BY CharIs
  <2>2. /\ s[a + m] = Comma => Odd(Quotes(s, 1, a + m))
        /\ s[a + m] = Quote <=> l[j].quoted /\ m \in {1, q}
        /\ s[a + m] # NUL /\ CharAt(s, a + m) = s[a + m] /\ a + m \in 1..e
    BY <1>1, <2>1 DEF CellChar
  <2>3. a + m \in 1..Len(s) + 1
    BY <1>1, <2>2
  <2>4. a + m \in Ends(s) <=> s[a + m] = Quote
    BY <2>2, <2>3 DEF Ends
  <2> QED BY <2>2, <2>4, Zenon
<1>6. ASSUME NEW k \in a + 1..a + q + 1
      PROVE  k \in Ends(s) <=> k = a + q + 1 \/ (l[j].quoted /\ k \in {a + 1, a + q})
  <2>1. CASE k = a + q + 1
    BY <1>4, <2>1
  <2>2. CASE k # a + q + 1
    <3>1. PICK m \in 1..q : k = a + m
      <4>1. k - a \in 1..q /\ k = a + (k - a)
        BY <2>2
      <4> QED BY <4>1
    <3>2. m \in {1, q} <=> k \in {a + 1, a + q}
      BY <3>1
    <3> QED BY <1>5, <2>2, <3>1, <3>2, Zenon
  <2> QED BY <2>1, <2>2
<1>7. a = 0 \/ (a \in Ends(s) /\ s[a] = Comma /\ CharAt(s, a) = Comma)
  <2>1. ASSUME a # 0 PROVE a \in Ends(s) /\ s[a] = Comma /\ CharAt(s, a) = Comma
    <3>1. j > 1
      BY <1>2, <2>1
    <3>2. a \in 1..Len(s) + 1
      BY <1>1, <1>2, <2>1
    <3> QED BY <1>2, <3>1, <3>2 DEF Ends
  <2> QED BY <2>1
<1>8. a = 0 <=> j = 1
  BY <1>2
<1>9. q = 0 => a > 0 \/ j < Len(l)
  BY <1>1, <1>2, <1>3
<1> QED BY <1>6, <1>7, <1>8, <1>9 DEF CellEnds

(* Which of them are cells: one per cell, and a first one that is not in   *)
(* the file when the line begins with a quote and prev held one.           *)
CellCuts(l, s, j, a, q, g) ==
  /\ l[j].quoted => /\ Start(s, a + q) = a + 1 /\ IsCell(s, a + q, g) /\ ~IsCell(s, a + q + 1, g)
                    /\ Start(s, a + 1) = a /\ (IsCell(s, a + 1, g) <=> j = 1 /\ g = Quote)
                    /\ a + 1 \in Ends(s) /\ a + q \in Ends(s) /\ a + 1 < a + q
                    /\ SubSeq(s, (a + 1) + 1, a + q - 1) = l[j].text
  /\ ~l[j].quoted => /\ Start(s, a + q + 1) = a /\ IsCell(s, a + q + 1, g) /\ a + q + 1 \in Ends(s)
                     /\ SubSeq(s, a + 1, (a + q + 1) - 1) = l[j].text

LEMMA TextCut == ASSUME NEW T, NEW s \in Seq(T), NEW x \in Seq(T), NEW b \in Nat, b + Len(x) <= Len(s),
                        \A k \in 1..Len(x) : s[b + k] = x[k]
                 PROVE  SubSeq(s, b + 1, b + Len(x)) = x
<1>1. PICK n, e \in Nat : n = Len(x) /\ e = Len(s) /\ b + n <= e
  OBVIOUS
<1>2. PICK u : u = SubSeq(s, b + 1, b + n)
  OBVIOUS
<1>3. \A k \in b + 1..b + n : s[k] \in T
  BY <1>1
<1>4. u \in Seq(T) /\ Len(u) = n /\ \A k \in 1..n : u[k] = s[b + k]
  <2>1. u \in Seq(T)
    BY <1>2, <1>3, SubSeqProperties
  <2>2. Len(u) = n
    <3>1. Len(u) = IF b + 1 <= b + n THEN (b + n) - (b + 1) + 1 ELSE 0
      BY <1>2, <1>3, SubSeqProperties
    <3> QED BY <3>1
  <2>3. \A k \in 1..(b + n) - (b + 1) + 1 : u[k] = s[(b + 1) + k - 1]
    BY <1>2, <1>3, SubSeqProperties
  <2>4. (b + n) - (b + 1) + 1 = n /\ \A k \in 1..n : (b + 1) + k - 1 = b + k
    OBVIOUS
  <2> QED BY <2>1, <2>2, <2>3, <2>4
<1>5. Len(u) = Len(x) /\ \A k \in 1..Len(u) : u[k] = x[k]
  BY <1>1, <1>4
<1>6. u = x
  BY <1>4, <1>5, SeqEqual
<1> QED BY <1>1, <1>2, <1>6

LEMMA CellCutsAre == ASSUME NEW l \in Seq(Cell), NEW s \in Seq(Character), s # <<>>, NEW st, NEW j \in 1..Len(l),
                            NEW a \in Nat, NEW q \in Nat, CellPlace(l, s, st, j, a, q), NEW g
                     PROVE  CellCuts(l, s, j, a, q, g)
<1>1. /\ \A k \in a + 1..a + q + 1 : k \in Ends(s) <=> k = a + q + 1 \/ (l[j].quoted /\ k \in {a + 1, a + q})
      /\ a = 0 \/ (a \in Ends(s) /\ s[a] = Comma /\ CharAt(s, a) = Comma)
      /\ a = 0 <=> j = 1
      /\ q = 0 => a > 0 \/ j < Len(l)
  BY CellEndsAre DEF CellEnds
<1>2. PICK x \in Cell : x = l[j]
  OBVIOUS
<1>3. PICK c : c = CellText(l[j])
  OBVIOUS
<1>4. /\ TextOf(x, c) /\ Len(c) = q /\ a + q <= Len(s)
      /\ \A k \in 1..q : s[a + k] = c[k] /\ CharAt(s, a + k) = c[k]
      /\ j < Len(l) => CharAt(s, a + q + 1) = Comma
      /\ j = Len(l) => CharAt(s, a + q + 1) = NUL
  BY <1>2, <1>3 DEF CellPlace
<1>5. PICK n \in Nat : n = Len(x.text) /\ x.text \in Seq(Character) /\ x.quoted \in BOOLEAN
  BY CellIs
<1>6. j < Len(l) \/ j = Len(l)
  OBVIOUS
<1>7. Len(s) \in Nat
  OBVIOUS
<1>8. CASE x.quoted
  <2>1. /\ q = n + 2 /\ c[1] = Quote /\ c[q] = Quote
        /\ \A k \in 1..n : c[k + 1] = x.text[k]
    BY <1>4, <1>5, <1>8 DEF TextOf
  <2>2. 1 \in 1..q /\ q \in 1..q
    BY <2>1
  <2>3. s[a + 1] = Quote /\ s[a + q] = Quote /\ CharAt(s, a + 1) = Quote /\ CharAt(s, a + q) = Quote
    BY <1>4, <2>1, <2>2
  <2>4. a + 1 \in Ends(s) /\ a + q \in Ends(s) /\ a + q + 1 \in Ends(s) /\ a + 1 < a + q
    <3>1. a + 1 \in a + 1..a + q + 1 /\ a + q \in a + 1..a + q + 1 /\ a + q + 1 \in a + 1..a + q + 1
      BY <2>1
    <3> QED BY <1>1, <1>2, <1>8, <2>1, <3>1
  <2>5. Ends(s) \subseteq Nat
    BY <1>7 DEF Ends
  <2>6. \A y \in Ends(s) : y \in a + 1..a + q + 1 => y \in {a + 1, a + q, a + q + 1}
    BY <1>1
  <2>7. Start(s, a + 1) = a
    <3>1. a < a + 1 /\ a + 1 \in Nat /\ (a = 0 \/ a \in Ends(s)) /\ \A y \in Ends(s) : y < a + 1 => y <= a
      BY <1>1, <2>5
    <3> QED BY <1>7, <3>1, StartIs
  <2>8. Start(s, a + q) = a + 1
    <3>1. \A y \in Ends(s) : y < a + q => y <= a + 1
      BY <2>1, <2>5, <2>6
    <3>2. a + 1 < a + q /\ a + 1 \in Nat /\ a + q \in Nat
      BY <2>4
    <3> QED BY <1>7, <2>4, <3>1, <3>2, StartIs
  <2>9. Start(s, a + q + 1) = a + q
    <3>1. \A y \in Ends(s) : y < a + q + 1 => y <= a + q
      BY <2>5
    <3>2. a + q < a + q + 1 /\ a + q \in Nat /\ a + q + 1 \in Nat
      OBVIOUS
    <3> QED BY <1>7, <2>4, <3>1, <3>2, StartIs
  <2>10. IsCell(s, a + q, g)
    <3>1. CASE n > 0
      <4>1. a + 1 < a + q - 1
        BY <2>1, <3>1
      <4> QED BY <2>8, <4>1 DEF IsCell
    <3>2. CASE n = 0
      <4>1. a + q # 1 /\ a + q - 1 = a + 1
        BY <2>1, <3>2
      <4> QED BY <2>3, <4>1 DEF IsCell
    <3> QED BY <3>1, <3>2
  <2>11. ~IsCell(s, a + q + 1, g)
    <3>1. a + q + 1 # 1 /\ (a + q + 1) - 1 = a + q /\ a + q # 0 /\ ~(a + q < (a + q + 1) - 1)
      BY <2>1
    <3>2. CharAt(s, a + q + 1) # Quote /\ s[a + q] # Comma
      BY <1>4, <1>6, <2>3, CharactersDiffer
    <3> QED BY <2>3, <2>9, <3>1, <3>2 DEF IsCell
  <2>12. IsCell(s, a + 1, g) <=> j = 1 /\ g = Quote
    <3>1. (a + 1) - 1 = a /\ ~(a < (a + 1) - 1) /\ (a + 1 = 1 <=> a = 0)
      OBVIOUS
    <3>2. CharAt(s, a + 1) # Comma /\ CharAt(s, a + 1) # NUL
      BY <2>3, CharactersDiffer
    <3>3. IsCell(s, a + 1, g) <=> (IF a + 1 = 1 THEN g ELSE s[a]) = Quote
      BY <2>3, <2>7, <3>1, <3>2 DEF IsCell
    <3>4. s[a] # Quote \/ a = 0
      BY <1>1, CharactersDiffer
    <3>5. CASE a = 0
      BY <1>1, <3>3, <3>5
    <3>6. CASE a # 0
      BY <1>1, <3>1, <3>3, <3>4, <3>6, Zenon
    <3> QED BY <3>5, <3>6
  <2>13. SubSeq(s, (a + 1) + 1, a + q - 1) = x.text
    <3>1. PICK t \in Seq(Character) : t = x.text /\ Len(t) = n
      BY <1>5
    <3>2. ASSUME NEW k \in 1..n PROVE s[(a + 1) + k] = t[k]
      <4>1. k + 1 \in 1..q /\ (a + 1) + k = a + (k + 1)
        BY <2>1
      <4>2. s[a + (k + 1)] = c[k + 1]
        BY <1>4, <4>1
      <4> QED BY <2>1, <3>1, <4>1, <4>2
    <3>3. (a + 1) + n <= Len(s) /\ a + 1 \in Nat
      BY <1>4, <1>7, <2>1
    <3>4. SubSeq(s, (a + 1) + 1, (a + 1) + Len(t)) = t
      BY <3>1, <3>2, <3>3, TextCut
    <3>5. (a + 1) + n = a + q - 1
      BY <2>1
    <3> QED BY <3>1, <3>4, <3>5
  <2> QED BY <1>2, <1>8, <2>4, <2>7, <2>8, <2>10, <2>11, <2>12, <2>13 DEF CellCuts
<1>9. CASE ~x.quoted
  <2>1. q = n /\ c = x.text
    BY <1>4, <1>5, <1>9 DEF TextOf
  <2>2. a + q + 1 \in Ends(s)
    <3>1. a + q + 1 \in a + 1..a + q + 1
      OBVIOUS
    <3> QED BY <1>1, <3>1
  <2>3. Start(s, a + q + 1) = a
    <3>1. Ends(s) \subseteq Nat
      BY <1>7 DEF Ends
    <3>2. \A y \in Ends(s) : y < a + q + 1 => y <= a
      BY <1>1, <1>2, <1>9, <3>1
    <3>3. a < a + q + 1 /\ a + q + 1 \in Nat /\ (a = 0 \/ a \in Ends(s))
      BY <1>1
    <3> QED BY <1>7, <3>2, <3>3, StartIs
  <2>4. IsCell(s, a + q + 1, g)
    <3>1. CASE q > 0
      <4>1. a < (a + q + 1) - 1
        BY <3>1
      <4> QED BY <2>3, <4>1 DEF IsCell
    <3>2. CASE q = 0 /\ j < Len(l)
      <4>1. CharAt(s, a + q + 1) = Comma
        BY <1>4, <3>2
      <4>2. a = 0 \/ CharAt(s, a) # Quote
        BY <1>1, CharactersDiffer
      <4> QED BY <2>3, <4>1, <4>2 DEF IsCell
    <3>3. CASE q = 0 /\ j = Len(l)
      <4>1. CharAt(s, a + q + 1) = NUL
        BY <1>4, <3>3
      <4>2. a > 0 /\ s[a] = Comma /\ a + q + 1 # 1 /\ (a + q + 1) - 1 = a
        BY <1>1, <3>3
      <4> QED BY <4>1, <4>2 DEF IsCell
    <3> QED BY <1>6, <3>1, <3>2, <3>3
  <2>5. SubSeq(s, a + 1, (a + q + 1) - 1) = x.text
    <3>1. PICK t \in Seq(Character) : t = x.text /\ Len(t) = n
      BY <1>5
    <3>2. a + n <= Len(s) /\ \A k \in 1..n : s[a + k] = t[k]
      BY <1>4, <2>1, <3>1
    <3>3. SubSeq(s, a + 1, a + Len(t)) = t
      BY <3>1, <3>2, TextCut
    <3>4. a + n = (a + q + 1) - 1
      BY <2>1
    <3> QED BY <3>1, <3>3, <3>4
  <2> QED BY <1>2, <1>9, <2>2, <2>3, <2>4, <2>5 DEF CellCuts
<1> QED BY <1>5, <1>8, <1>9

(* split, given the ends that are cells in their order.                    *)
Cuts(s, g) == {k \in Ends(s) : IsCell(s, k, g)}
CutAt(s, k) == IF SubSeq(s, Start(s, k) + 1, k - 1) = <<>> THEN Null ELSE SubSeq(s, Start(s, k) + 1, k - 1)
ValuesIn(l) == [j \in DOMAIN l |-> Value(l[j])]

Lists(e, m, S) == (\A x \in 1..m : e[x] \in S) /\ (\A k \in S : \E x \in 1..m : e[x] = k)
SplitAs(s, g, m, e) == split(s, g) = [n \in 1..m |-> CutAt(s, e[n])]

LEMMA SplitOf == ASSUME NEW s, NEW g, NEW m \in Nat, NEW e \in [1..m -> Nat], Rising(e, m), Lists(e, m, Cuts(s, g))
                 PROVE  SplitAs(s, g, m, e)
<1>1. Ordered(Cuts(s, g)) = e
  BY OrderedIs DEF Lists
<1>2. split(s, g) = [n \in DOMAIN Ordered(Cuts(s, g)) |-> CutAt(s, Ordered(Cuts(s, g))[n])]
  BY DEF split, Cuts, CutAt
<1>3. DOMAIN e = 1..m
  OBVIOUS
<1> QED BY <1>1, <1>2, <1>3 DEF SplitAs

(* The cell cut out of each place of a line.                               *)
CellCut(l, s, g, E, j, a, q) ==
  /\ E[j] \in a + 1..a + q + 1 /\ E[j] \in Cuts(s, g) /\ CutAt(s, E[j]) = Value(l[j])
  /\ \A k \in a + 1..a + q + 1 : k \in Cuts(s, g) => k = E[j] \/ (l[j].quoted /\ j = 1 /\ g = Quote /\ k = 1)
  /\ l[j].quoted /\ j = 1 /\ g = Quote => 1 \in Cuts(s, g) /\ CutAt(s, 1) = Null /\ 1 < E[j]

CellEnd(l, st) == [j \in 1..Len(l) |-> IF l[j].quoted THEN st[j + 1] - 2 ELSE st[j + 1] - 1]

LEMMA CellCutIs == ASSUME NEW l \in Seq(Cell), NEW s \in Seq(Character), s # <<>>, NEW st, NEW j \in 1..Len(l),
                          NEW a \in Nat, NEW q \in Nat, CellPlace(l, s, st, j, a, q), NEW g
                   PROVE  CellCut(l, s, g, CellEnd(l, st), j, a, q)
<1> DEFINE E == CellEnd(l, st)
<1>1. /\ \A k \in a + 1..a + q + 1 : k \in Ends(s) <=> k = a + q + 1 \/ (l[j].quoted /\ k \in {a + 1, a + q})
      /\ a = 0 <=> j = 1
  BY CellEndsAre DEF CellEnds
<1>2. CellCuts(l, s, j, a, q, g)
  BY CellCutsAre
<1>3. E[j] = IF l[j].quoted THEN a + q ELSE a + q + 1
  BY DEF CellPlace, CellEnd
<1>4. l[j].quoted \in BOOLEAN
  BY CellIs
<1> HIDE DEF E
<1>5. CASE l[j].quoted
  <2>1. /\ Start(s, a + q) = a + 1 /\ IsCell(s, a + q, g) /\ ~IsCell(s, a + q + 1, g)
        /\ Start(s, a + 1) = a /\ (IsCell(s, a + 1, g) <=> j = 1 /\ g = Quote)
        /\ a + 1 \in Ends(s) /\ a + q \in Ends(s) /\ a + 1 < a + q
        /\ SubSeq(s, (a + 1) + 1, a + q - 1) = l[j].text
    BY <1>2, <1>5 DEF CellCuts
  <2>2. E[j] = a + q
    BY <1>3, <1>5
  <2>3. a + q \in a + 1..a + q + 1
    BY <2>1
  <2>4. CutAt(s, a + q) = Value(l[j])
    <3>1. Start(s, a + q) = a + 1 /\ SubSeq(s, (a + 1) + 1, a + q - 1) = l[j].text
      BY <2>1
    <3>2. a + q - 1 = (a + q) - 1
      OBVIOUS
    <3>3. SubSeq(s, Start(s, a + q) + 1, (a + q) - 1) = l[j].text
      BY <3>1, <3>2, Zenon
    <3> QED BY <3>3, Zenon DEF CutAt, Value
  <2>5. \A k \in a + 1..a + q + 1 : k \in Cuts(s, g) => k = a + q \/ (j = 1 /\ g = Quote /\ k = 1)
    <3>1. ASSUME NEW k \in a + 1..a + q + 1, k \in Cuts(s, g) PROVE k = a + q \/ (j = 1 /\ g = Quote /\ k = 1)
      <4>1. k \in Ends(s) /\ IsCell(s, k, g)
        BY <3>1 DEF Cuts
      <4>2. k = a + q + 1 \/ k = a + 1 \/ k = a + q
        BY <1>1, <4>1
      <4>3. k # a + q + 1
        BY <2>1, <4>1
      <4>4. k = a + 1 => j = 1 /\ g = Quote /\ k = 1
        BY <1>1, <2>1, <4>1
      <4> QED BY <4>2, <4>3, <4>4
    <3> QED BY <3>1
  <2>6. j = 1 /\ g = Quote => 1 \in Cuts(s, g) /\ CutAt(s, 1) = Null /\ 1 < a + q
    <3>1. ASSUME j = 1, g = Quote PROVE 1 \in Cuts(s, g) /\ CutAt(s, 1) = Null /\ 1 < a + q
      <4>1. a = 0 /\ a + 1 = 1
        BY <1>1, <3>1
      <4>2. Start(s, 1) = 0 /\ 1 \in Cuts(s, g) /\ 1 < a + q
        BY <2>1, <3>1, <4>1 DEF Cuts
      <4>3. SubSeq(s, 0 + 1, 1 - 1) = <<>>
        BY SubSeqEmpty
      <4>4. CutAt(s, 1) = Null
        BY <4>2, <4>3 DEF CutAt
      <4> QED BY <4>2, <4>4
    <3> QED BY <3>1
  <2>7. a + q \in Cuts(s, g)
    BY <2>1 DEF Cuts
  <2> QED BY <1>5, <2>2, <2>3, <2>4, <2>5, <2>6, <2>7 DEF CellCut, E
<1>6. CASE ~l[j].quoted
  <2>1. /\ Start(s, a + q + 1) = a /\ IsCell(s, a + q + 1, g) /\ a + q + 1 \in Ends(s)
        /\ SubSeq(s, a + 1, (a + q + 1) - 1) = l[j].text
    BY <1>2, <1>6 DEF CellCuts
  <2>2. E[j] = a + q + 1
    BY <1>3, <1>6
  <2>3. a + q + 1 \in a + 1..a + q + 1 /\ a + q + 1 \in Cuts(s, g)
    BY <2>1 DEF Cuts
  <2>4. CutAt(s, a + q + 1) = Value(l[j])
    BY <2>1, Zenon DEF CutAt, Value
  <2>5. \A k \in a + 1..a + q + 1 : k \in Cuts(s, g) => k = a + q + 1
    BY <1>1, <1>6 DEF Cuts
  <2> QED BY <1>6, <2>2, <2>3, <2>4, <2>5 DEF CellCut, E
<1> QED BY <1>4, <1>5, <1>6

(* What split makes of a line: its values, or a null before them.          *)
LEMMA SplitIs == ASSUME NEW l \in Seq(Cell), LineText(l) # <<>>, NEW g
                 PROVE  split(LineText(l), g) = IF l[1].quoted /\ g = Quote THEN <<Null>> \o ValuesIn(l) ELSE ValuesIn(l)
<1>1. PICK N \in Nat \ {0} : N = Len(l) /\ DOMAIN l = 1..N /\ l # <<>>
  <2>1. l # <<>>
    BY LinesAre
  <2>2. Len(l) \in Nat /\ Len(l) # 0 /\ DOMAIN l = 1..Len(l)
    BY <2>1
  <2> QED BY <2>1, <2>2
<1>2. PICK s \in Seq(Character) : s = LineText(l) /\ s # <<>>
  BY <1>1, LineLaid
<1>3. PICK st : Laid(s, CellTexts(l), Comma, FALSE, st)
  BY <1>1, <1>2, LineLaid
<1>4. \A m \in 1..N + 1 : \A n \in 1..m - 1 : st[n + 1] <= st[m]
  <2>1. PICK p \in Seq(Seq(Character)) : p = CellTexts(l) /\ Len(p) = N
    BY <1>1, CellTextsAre
  <2>2. Laid(s, p, Comma, FALSE, st)
    BY <1>3, <2>1
  <2> QED BY <2>1, <2>2, LaidEvery
<1>5. PICK E : E = CellEnd(l, st) /\ DOMAIN E = 1..N
  <2>1. DOMAIN CellEnd(l, st) = 1..N
    BY <1>1 DEF CellEnd
  <2> QED BY <2>1
<1>6. ASSUME NEW j \in 1..N
      PROVE  \E a, q \in Nat : st[j] = a + 1 /\ st[j + 1] = a + q + 2 /\ CellCut(l, s, g, E, j, a, q)
  <2>1. PICK a, q \in Nat : CellPlace(l, s, st, j, a, q)
    BY <1>1, <1>3, CellPlaces
  <2>2. CellCut(l, s, g, E, j, a, q)
    BY <1>1, <1>2, <1>5, <2>1, CellCutIs
  <2>3. st[j] = a + 1 /\ st[j + 1] = a + q + 2
    BY <2>1 DEF CellPlace
  <2> QED BY <2>2, <2>3
<1>7. E \in [1..N -> Nat] /\ \A j \in 1..N : E[j] \in Cuts(s, g) /\ CutAt(s, E[j]) = Value(l[j])
  <2>1. \A j \in 1..N : E[j] \in Cuts(s, g) /\ CutAt(s, E[j]) = Value(l[j])
    BY <1>6 DEF CellCut
  <2>2. Cuts(s, g) \subseteq Nat
    BY DEF Cuts, Ends
  <2>3. E = [j \in 1..N |-> E[j]]
    BY <1>5 DEF CellEnd
  <2> QED BY <2>1, <2>2, <2>3
<1>8. Rising(E, N)
  <2>1. ASSUME NEW x \in 1..N, NEW y \in 1..N, x < y PROVE E[x] < E[y]
    <3>1. PICK a, q \in Nat : st[x] = a + 1 /\ st[x + 1] = a + q + 2 /\ CellCut(l, s, g, E, x, a, q)
      BY <1>6
    <3>2. PICK b, r \in Nat : st[y] = b + 1 /\ st[y + 1] = b + r + 2 /\ CellCut(l, s, g, E, y, b, r)
      BY <1>6
    <3>3. st[x + 1] <= st[y]
      <4>1. y \in 1..N + 1 /\ x \in 1..y - 1
        BY <2>1
      <4> QED BY <1>4, <4>1
    <3>4. E[x] \in a + 1..a + q + 1 /\ E[y] \in b + 1..b + r + 1
      BY <3>1, <3>2 DEF CellCut
    <3> QED BY <3>1, <3>2, <3>3, <3>4, SMTT(20)
  <2> QED BY <2>1 DEF Rising
<1>9. ASSUME NEW k \in Cuts(s, g)
      PROVE  (\E j \in 1..N : E[j] = k) \/ (l[1].quoted /\ g = Quote /\ k = 1)
  <2>1. k \in 1..Len(s) + 1
    BY DEF Cuts, Ends
  <2>2. PICK j \in 1..Len(l) : \E a, q \in Nat : CellPlace(l, s, st, j, a, q) /\ k \in a + 1..a + q + 1
    BY <1>1, <1>3, <2>1, LineCover
  <2>3. PICK a, q \in Nat : CellPlace(l, s, st, j, a, q) /\ k \in a + 1..a + q + 1
    BY <2>2
  <2>4. CellCut(l, s, g, E, j, a, q)
    BY <1>2, <1>5, <2>3, CellCutIs
  <2>5. k = E[j] \/ (l[j].quoted /\ j = 1 /\ g = Quote /\ k = 1)
    BY <2>3, <2>4 DEF CellCut
  <2> QED BY <1>1, <2>5
<1>10. CASE ~(l[1].quoted /\ g = Quote)
  <2>1. \A k \in Cuts(s, g) : \E j \in 1..N : E[j] = k
    BY <1>9, <1>10
  <2>2. split(s, g) = [n \in 1..N |-> CutAt(s, E[n])]
    <3>1. N \in Nat /\ E \in [1..N -> Nat] /\ \A x \in 1..N : E[x] \in Cuts(s, g)
      BY <1>7
    <3>2. Lists(E, N, Cuts(s, g))
      BY <2>1, <3>1 DEF Lists
    <3>3. SplitAs(s, g, N, E)
      BY <1>8, <3>1, <3>2, SplitOf
    <3> QED BY <3>3 DEF SplitAs
  <2>3. split(s, g) = [n \in 1..N |-> Value(l[n])]
    BY <1>7, <2>2
  <2> QED BY <1>1, <1>2, <1>10, <2>3 DEF ValuesIn
<1>11. CASE l[1].quoted /\ g = Quote
  <2>1. 1 \in Cuts(s, g) /\ CutAt(s, 1) = Null /\ 1 < E[1]
    <3>1. 1 \in 1..N
      BY <1>1
    <3>2. PICK a, q \in Nat : CellCut(l, s, g, E, 1, a, q)
      BY <1>6, <3>1
    <3> QED BY <1>11, <3>2 DEF CellCut
  <2> DEFINE F == [n \in 1..N + 1 |-> IF n = 1 THEN 1 ELSE E[n - 1]]
  <2>2. F[1] = 1 /\ \A n \in 1..N : n + 1 \in 1..N + 1 /\ F[n + 1] = E[n]
    <3>1. 1 \in 1..N + 1
      OBVIOUS
    <3>2. ASSUME NEW n \in 1..N PROVE n + 1 \in 1..N + 1 /\ F[n + 1] = E[n]
      <4>1. n + 1 \in 1..N + 1 /\ n + 1 # 1 /\ (n + 1) - 1 = n
        OBVIOUS
      <4> QED BY <4>1
    <3> QED BY <3>1, <3>2
  <2>3. \A n \in 1..N + 1 : n = 1 \/ (n - 1 \in 1..N /\ n = (n - 1) + 1 /\ n # 1 /\ F[n] = E[n - 1])
    <3>1. \A n \in 1..N + 1 : n = 1 \/ (n - 1 \in 1..N /\ n = (n - 1) + 1 /\ n # 1)
      OBVIOUS
    <3> QED BY <3>1
  <2>4. F \in [1..N + 1 -> Nat]
    <3>1. \A n \in 1..N + 1 : F[n] \in Nat
      BY <1>7, <2>2, <2>3
    <3> QED BY <3>1
  <2> HIDE DEF F
  <2>5. Rising(F, N + 1)
    <3>1. \A n \in 1..N : E[1] <= E[n] /\ E[n] \in Nat
      <4>1. 1 \in 1..N /\ \A n \in 1..N : n = 1 \/ 1 < n
        OBVIOUS
      <4>2. \A n \in 1..N : E[n] \in Nat
        BY <1>7
      <4> QED BY <1>8, <4>1, <4>2 DEF Rising
    <3>2. ASSUME NEW x \in 1..N + 1, NEW y \in 1..N + 1, x < y PROVE F[x] < F[y]
      <4>1. y - 1 \in 1..N /\ F[y] = E[y - 1]
        BY <2>3, <3>2
      <4>2. CASE x = 1
        <5>1. F[x] = 1 /\ E[1] <= E[y - 1] /\ E[1] \in Nat /\ E[y - 1] \in Nat
          BY <2>2, <3>1, <4>1, <4>2
        <5> QED BY <2>1, <4>1, <5>1
      <4>3. CASE x # 1
        <5>1. x - 1 \in 1..N /\ F[x] = E[x - 1] /\ x - 1 < y - 1
          BY <2>3, <3>2, <4>3
        <5> QED BY <1>8, <4>1, <5>1 DEF Rising
      <4> QED BY <4>2, <4>3
    <3> QED BY <3>2 DEF Rising
  <2>6. \A n \in 1..N + 1 : F[n] \in Cuts(s, g)
    BY <1>7, <2>1, <2>2, <2>3
  <2>7. ASSUME NEW k \in Cuts(s, g) PROVE \E n \in 1..N + 1 : F[n] = k
    <3>1. CASE \E j \in 1..N : E[j] = k
      BY <2>2, <3>1
    <3>2. CASE k = 1
      <4>1. 1 \in 1..N + 1
        OBVIOUS
      <4> QED BY <2>2, <3>2, <4>1
    <3> QED BY <1>9, <3>1, <3>2
  <2>8. split(s, g) = [n \in 1..N + 1 |-> CutAt(s, F[n])]
    <3>1. N + 1 \in Nat
      OBVIOUS
    <3>2. \A k \in Cuts(s, g) : \E n \in 1..N + 1 : F[n] = k
      BY <2>7
    <3>3. Lists(F, N + 1, Cuts(s, g))
      BY <2>6, <3>2 DEF Lists
    <3>4. SplitAs(s, g, N + 1, F)
      BY <2>4, <2>5, <3>1, <3>3, SplitOf
    <3> QED BY <3>4 DEF SplitAs
  <2>9. split(s, g) = [n \in 1..N + 1 |-> IF n = 1 THEN Null ELSE Value(l[n - 1])]
    <3>1. ASSUME NEW n \in 1..N + 1 PROVE CutAt(s, F[n]) = IF n = 1 THEN Null ELSE Value(l[n - 1])
      <4>1. CASE n = 1
        BY <2>1, <2>2, <4>1
      <4>2. CASE n # 1
        <5>1. n - 1 \in 1..N /\ F[n] = E[n - 1]
          BY <2>3, <4>2
        <5> QED BY <1>7, <4>2, <5>1
      <4> QED BY <4>1, <4>2
    <3> QED BY <2>8, <3>1
  <2>10. \A j \in 1..N : Value(l[j]) \in Seq(Character \cup {"null"})
    <3>1. ASSUME NEW j \in 1..N PROVE Value(l[j]) \in Seq(Character \cup {"null"})
      <4>1. l[j] \in Cell
        BY <1>1
      <4>2. PICK t \in Seq(Character) : t = l[j].text
        BY <4>1, CellIs
      <4>3. t \in Seq(Character \cup {"null"})
        <5>1. \A n \in 1..Len(t) : t[n] \in Character \cup {"null"}
          OBVIOUS
        <5>2. PICK n \in Nat : n = Len(t)
          OBVIOUS
        <5>3. t \in [1..n -> Character \cup {"null"}]
          BY <5>1, <5>2
        <5> QED BY <5>2, <5>3
      <4>4. Null \in Seq(Character \cup {"null"})
        BY DEF Null
      <4> QED BY <4>2, <4>3, <4>4 DEF Value
    <3> QED BY <3>1
  <2>11. PICK v : v = ValuesIn(l) /\ v \in Seq(Seq(Character \cup {"null"})) /\ Len(v) = N
                  /\ \A j \in 1..N : v[j] = Value(l[j])
    <3>1. ValuesIn(l) = [j \in 1..N |-> Value(l[j])]
      BY <1>1 DEF ValuesIn
    <3>2. PICK v \in [1..N -> Seq(Character \cup {"null"})] : v = ValuesIn(l) /\ \A j \in 1..N : v[j] = Value(l[j])
      BY <2>10, <3>1
    <3>3. v \in Seq(Seq(Character \cup {"null"})) /\ Len(v) = N
      OBVIOUS
    <3> QED BY <3>2, <3>3
  <2>12. PICK w : w = <<Null>> /\ w \in Seq(Seq(Character \cup {"null"})) /\ Len(w) = 1 /\ w[1] = Null
    <3>1. Null \in Seq(Character \cup {"null"})
      BY DEF Null
    <3>2. \E n : n = Null
      OBVIOUS
    <3>3. PICK n \in Seq(Character \cup {"null"}) : n = Null
      BY <3>1
    <3>4. <<n>> \in Seq(Seq(Character \cup {"null"})) /\ Len(<<n>>) = 1 /\ <<n>>[1] = n
      OBVIOUS
    <3> QED BY <3>3, <3>4
  <2>13. /\ w \o v \in Seq(Seq(Character \cup {"null"})) /\ Len(w \o v) = N + 1
         /\ \A n \in 1..N + 1 : (w \o v)[n] = IF n = 1 THEN Null ELSE Value(l[n - 1])
    <3>1. /\ Len(w \o v) = Len(w) + Len(v) /\ w \o v \in Seq(Seq(Character \cup {"null"}))
          /\ \A n \in 1..Len(w) + Len(v) : (w \o v)[n] = IF n <= Len(w) THEN w[n] ELSE v[n - Len(w)]
      BY <2>11, <2>12, ConcatProperties
    <3>2. \A n \in 1..N + 1 : (w \o v)[n] = IF n <= 1 THEN w[n] ELSE v[n - 1]
      BY <2>11, <2>12, <3>1
    <3>3. ASSUME NEW n \in 1..N + 1 PROVE (w \o v)[n] = IF n = 1 THEN Null ELSE Value(l[n - 1])
      <4>1. CASE n = 1
        BY <2>12, <3>2, <4>1
      <4>2. CASE n # 1
        <5>1. n - 1 \in 1..N /\ ~(n <= 1)
          BY <4>2
        <5> QED BY <2>11, <3>2, <4>2, <5>1
      <4> QED BY <4>1, <4>2
    <3> QED BY <2>11, <2>12, <3>1, <3>3
  <2>14. w \o v = [n \in 1..N + 1 |-> IF n = 1 THEN Null ELSE Value(l[n - 1])]
    <3>1. PICK x \in Seq(Seq(Character \cup {"null"})) : x = w \o v
      BY <2>13
    <3>2. x = [n \in 1..Len(x) |-> x[n]]
      OBVIOUS
    <3> QED BY <2>13, <3>1, <3>2
  <2> QED BY <1>2, <1>11, <2>9, <2>11, <2>12, <2>14
<1> QED BY <1>10, <1>11

-----------------------------------------------------------------------------
(* Reading a file.                                                         *)

FileIsLaid(f, st) == Laid(Text(f), LineTexts(f), NL, f.newline, st)

(* What set_table finds when x lines are behind it.                        *)
ReadAt(f, x, st) ==
  /\ st[x + 1] \in 1..Len(Text(f)) + 2
  /\ st[x + 1] <= Len(Text(f)) =>
       /\ x + 1 \in 1..Len(f.lines)
       /\ SubSeq(Text(f), st[x + 1], RowEnd(Text(f), st[x + 1]) - 1) = LineText(f.lines[x + 1])
       /\ RowEnd(Text(f), st[x + 1]) + 1 = st[x + 2]
       /\ LineText(f.lines[x + 1]) = <<>> => st[x + 2] = st[x + 1] + 1
  /\ ~(st[x + 1] <= Len(Text(f))) => \A k \in 1..Len(f.lines) : k > x => LineText(f.lines[k]) = <<>>

LEMMA Reading == ASSUME NEW f, IsFile(f), NEW st, FileIsLaid(f, st), NEW x \in 0..Len(f.lines)
                 PROVE  ReadAt(f, x, st)
<1>1. PICK N \in Nat \ {0} : N = Len(f.lines)
  BY LineTextsAre
<1>2. PICK d \in Seq(Character) : d = Text(f)
  BY FileLaid
<1>3. PICK e \in Nat : e = Len(d)
  OBVIOUS
<1>4. /\ x + 1 \in Nat /\ (x + 1) + 1 = x + 2
      /\ x + 1 \in 1..N + 1
  BY <1>1
<1>5. e = st[N + 1] - (IF f.newline THEN 1 ELSE 2) /\ st \in [1..N + 1 -> Nat]
  <2>1. Len(LineTexts(f)) = N
    BY <1>1, LineTextsAre
  <2> QED BY <1>2, <1>3, <2>1 DEF FileIsLaid, Laid
<1>6. \A k \in 1..N : \E a, l \in Nat : LinePlace(f, d, st, k, a, l)
  BY <1>1, <1>2, LinePlaces DEF FileIsLaid
<1>7. CASE x = N
  <2>1. st[x + 1] \in 1..e + 2 /\ ~(st[x + 1] <= e)
    <3>1. st[N + 1] \in Nat /\ (e = st[N + 1] - 1 \/ e = st[N + 1] - 2)
      BY <1>5
    <3> QED BY <1>7, <3>1
  <2>2. \A k \in 1..N : ~(k > x)
    BY <1>7
  <2> QED BY <1>1, <1>2, <1>3, <2>1, <2>2 DEF ReadAt
<1>8. CASE x < N
  <2>1. x + 1 \in 1..N
    BY <1>4, <1>8
  <2>2. PICK a, l \in Nat : LinePlace(f, d, st, x + 1, a, l)
    BY <1>6, <2>1
  <2>3. /\ st[x + 1] = a + 1 /\ st[x + 2] = a + l + 2 /\ Len(LineText(f.lines[x + 1])) = l /\ a + l <= e
        /\ x + 1 < N \/ f.newline => a + l + 1 <= e
        /\ ~ (x + 1 < N \/ f.newline) => e = a + l
    BY <1>1, <1>3, <1>4, <2>2 DEF LinePlace
  <2>4. PICK s \in Seq(Character) : s = LineText(f.lines[x + 1])
    <3>1. LineTexts(f)[x + 1] = LineText(f.lines[x + 1]) /\ LineIs(LineTexts(f)[x + 1])
      BY <1>1, <2>1, LineTextsAre
    <3> QED BY <3>1 DEF LineIs
  <2>5. s = <<>> <=> l = 0
    BY <2>3, <2>4
  <2>6. RowEnd(d, a + 1) = a + l + 1
    BY <2>2, RowEndIs
  <2>7. SubSeq(d, a + 1, RowEnd(d, a + 1) - 1) = s
    <3>1. PICK k : k = x + 1
      OBVIOUS
    <3>2. LinePlace(f, d, st, k, a, l) /\ LineText(f.lines[k]) = s
      BY <2>2, <2>4, <3>1
    <3>3. LineText(f.lines[k]) \in Seq(Character) /\ LinePlace(f, d, st, k, a, l)
      BY <3>2
    <3>4. RowText(f, d, k, a)
      BY <3>3, RowIs
    <3> QED BY <3>2, <3>4 DEF RowText
  <2>8. SubSeq(d, st[x + 1], RowEnd(d, st[x + 1]) - 1) = s /\ RowEnd(d, st[x + 1]) = a + l + 1
    BY <2>3, <2>6, <2>7, Zenon
  <2>9. RowEnd(d, st[x + 1]) + 1 = st[x + 2] /\ (s = <<>> => st[x + 2] = st[x + 1] + 1)
    BY <2>3, <2>5, <2>8
  <2>10. st[x + 1] \in 1..e + 2
    BY <2>3
  <2>11. ASSUME ~(st[x + 1] <= e), NEW k \in 1..N, k > x PROVE LineText(f.lines[k]) = <<>>
    <3>1. ~(x + 1 < N \/ f.newline) /\ l = 0
      BY <2>3, <2>11
    <3>2. k = x + 1
      BY <2>1, <2>11, <3>1
    <3> QED BY <2>4, <2>5, <3>1, <3>2
  <2> QED BY <1>1, <1>2, <1>3, <2>1, <2>4, <2>8, <2>9, <2>10, <2>11 DEF ReadAt
<1>9. x = N \/ x < N
  BY <1>1
<1> QED BY <1>7, <1>8, <1>9

(* A regular file: no line is too short, and its rows are its first lines. *)
Regular(f) ==
  /\ LineText(f.lines[1]) # <<>>
  /\ \A k \in DOMAIN f.lines : LineText(f.lines[k]) # <<>> =>
       /\ \A l \in DOMAIN f.lines : l < k => LineText(f.lines[l]) # <<>>
       /\ Len(f.lines[k]) >= Len(f.lines[1])

LEMMA RegularRows == ASSUME NEW f, IsFile(f), Regular(f)
                   PROVE  \A k \in 1..Len(f.lines) : LineText(f.lines[k]) # <<>> <=> k <= Cardinality(Nonblank(f))
<1>1. PICK N \in Nat \ {0} : N = Len(f.lines) /\ DOMAIN f.lines = 1..N
  <2>1. f.lines \in Seq(Seq(Cell)) /\ Len(f.lines) \in Nat \ {0}
    BY LineTextsAre
  <2> QED BY <2>1
<1>2. \A k \in 1..N : k \in Nonblank(f) <=> LineText(f.lines[k]) # <<>>
  BY <1>1 DEF Nonblank
<1>3. \A k \in 1..N : k \in Nonblank(f) => \A l \in 1..N : l < k => l \in Nonblank(f)
  BY <1>1, <1>2 DEF Regular
<1>4. Nonblank(f) \subseteq 1..N
  BY <1>1 DEF Nonblank
<1>5. PICK m \in 0..N : \A k \in 1..N : k \in Nonblank(f) <=> k <= m
  <2> DEFINE B == {k \in 1..N : k \notin Nonblank(f)}
  <2>1. CASE B = {}
    <3>1. N \in 0..N /\ \A k \in 1..N : k \in Nonblank(f) <=> k <= N
      BY <2>1
    <3> QED BY <3>1
  <2>2. CASE B # {}
    <3>1. B \in SUBSET Nat
      OBVIOUS
    <3>2. PICK b \in B : \A k \in B : b <= k
      BY <2>2, <3>1, Least, Zenon
    <3>3. b - 1 \in 0..N /\ b \in 1..N /\ b \notin Nonblank(f)
      OBVIOUS
    <3>4. ASSUME NEW k \in 1..N PROVE k \in Nonblank(f) <=> k <= b - 1
      <4>1. k <= b - 1 => k \in Nonblank(f)
        BY <3>2, <3>3
      <4>2. k \in Nonblank(f) => ~(b < k) /\ b # k
        BY <1>3, <3>3
      <4> QED BY <3>3, <4>1, <4>2
    <3> QED BY <3>3, <3>4
  <2> QED BY <2>1, <2>2
<1>6. Nonblank(f) = 1..m
  <2>1. \A k \in Nonblank(f) : k \in 1..m
    BY <1>4, <1>5
  <2>2. \A k \in 1..m : k \in Nonblank(f)
    <3>1. \A k \in 1..m : k \in 1..N /\ k <= m
      OBVIOUS
    <3> QED BY <1>5, <3>1
  <2> QED BY <2>1, <2>2
<1>7. Cardinality(Nonblank(f)) = m
  BY <1>6, FS_Interval
<1> QED BY <1>1, <1>2, <1>5, <1>7

(* What split gives of a line that is not blank has a place for every      *)
(* cell.                                                                   *)
SplitValues(l, g) ==
  /\ split(LineText(l), g) \in Seq(Seq(Character \cup {"null"}))
  /\ Len(split(LineText(l), g)) >= Len(l)
  /\ split(LineText(l), g) = ValuesIn(l) \/ (l # <<>> /\ Head(l).quoted /\ split(LineText(l), g) = <<Null>> \o ValuesIn(l))

LEMMA SplitValuesAre == ASSUME NEW l \in Seq(Cell), LineText(l) # <<>>, NEW g
                        PROVE  SplitValues(l, g)
<1>1. PICK N \in Nat \ {0} : N = Len(l) /\ DOMAIN l = 1..N /\ l # <<>> /\ Head(l) = l[1]
  <2>1. l # <<>>
    BY LinesAre
  <2>2. Len(l) \in Nat /\ Len(l) # 0 /\ DOMAIN l = 1..Len(l) /\ Head(l) = l[1]
    BY <2>1
  <2> QED BY <2>1, <2>2
<1> DEFINE T == Seq(Character \cup {"null"})
<1>2. Null \in T
  BY DEF Null
<1>3. ASSUME NEW j \in 1..N PROVE Value(l[j]) \in T
  <2>1. l[j] \in Cell
    BY <1>1
  <2>2. PICK t \in Seq(Character) : t = l[j].text
    BY <2>1, CellIs
  <2>3. t \in T
    <3>1. PICK n \in Nat : n = Len(t)
      OBVIOUS
    <3>2. t \in [1..n -> Character \cup {"null"}]
      BY <3>1
    <3> QED BY <3>1, <3>2
  <2> QED BY <1>2, <2>2, <2>3 DEF Value
<1> HIDE DEF T
<1>4. PICK v \in Seq(T) : v = ValuesIn(l) /\ Len(v) = N
  <2>1. PICK v \in [1..N -> T] : v = ValuesIn(l)
    BY <1>1, <1>3 DEF ValuesIn
  <2>2. v \in Seq(T) /\ Len(v) = N
    OBVIOUS
  <2> QED BY <2>1, <2>2
<1>5. PICK w \in Seq(T) : w = <<Null>> /\ Len(w) = 1
  <2>1. PICK n \in T : n = Null
    BY <1>2
  <2>2. <<n>> \in Seq(T) /\ Len(<<n>>) = 1
    OBVIOUS
  <2> QED BY <2>1, <2>2
<1>6. w \o v \in Seq(T) /\ Len(w \o v) = 1 + N
  BY <1>4, <1>5, ConcatProperties
<1>7. split(LineText(l), g) = IF l[1].quoted /\ g = Quote THEN w \o v ELSE v
  BY <1>4, <1>5, SplitIs
<1>8. CASE l[1].quoted /\ g = Quote
  BY <1>1, <1>4, <1>5, <1>6, <1>7, <1>8 DEF SplitValues, T
<1>9. CASE ~(l[1].quoted /\ g = Quote)
  BY <1>1, <1>4, <1>7, <1>9 DEF SplitValues, T
<1> QED BY <1>8, <1>9

-----------------------------------------------------------------------------
(* The invariant of the loading.                                           *)

LEMMA FilesAre == ASSUME NEW f \in Files PROVE IsFile(f)
  BY CsvAssumption

(* A line that is not too short has a cell for every column.               *)
LEMMA HeaderFits == ASSUME NEW f, IsFile(f), LineText(f.lines[1]) # <<>>, NEW k \in 1..Len(f.lines), LineText(f.lines[k]) # <<>>,
                           Len(f.lines[k]) >= Len(f.lines[1]), NEW g, NEW h
                    PROVE  ColumnNumber(Text(f), g) <= Len(split(LineText(f.lines[k]), h))
<1>1. PICK z \in Seq(Cell) : z = f.lines[1]
  <2>1. Len(f.lines) \in Nat \ {0}
    BY LineTextsAre
  <2>2. 1 \in 1..Len(f.lines)
    BY <2>1
  <2> QED BY <2>2, LineTextsAre
<1>2. PICK l \in Seq(Cell) : l = f.lines[k]
  BY LineTextsAre
<1>3. z # <<>> /\ l # <<>>
  <2>1. LineText(z) # <<>> /\ LineText(l) # <<>>
    BY <1>1, <1>2
  <2> QED BY <2>1, LinesAre
<1>4. Len(l) >= Len(z) /\ Len(l) \in Nat
  BY <1>1, <1>2
<1>5. PICK n \in Nat : n = Len(z)
  OBVIOUS
<1>6. ColumnNumber(Text(f), g) \in {n, n - 1}
  <2>1. ColumnNumber(Text(f), g) = Len(z) - (IF Len(z) > 1 /\ CellText(Last(z)) = <<>> THEN 1 ELSE 0)
    BY <1>1, ColumnsCounted
  <2> QED BY <1>5, <2>1
<1>7. PICK s : s = split(LineText(l), h)
  OBVIOUS
<1>8. Len(s) >= n /\ Len(s) \in Nat
  <2>1. LineText(l) # <<>>
    BY <1>2
  <2>2. SplitValues(l, h)
    BY <2>1, SplitValuesAre
  <2>3. s \in Seq(Seq(Character \cup {"null"})) /\ Len(s) >= Len(l)
    BY <1>7, <2>2 DEF SplitValues
  <2> QED BY <1>4, <1>5, <2>3
<1>9. ColumnNumber(Text(f), g) <= Len(s)
  BY <1>5, <1>6, <1>8
<1> QED BY <1>2, <1>7, <1>9

LEMMA RegularPlaces == ASSUME NEW f, IsFile(f), Regular(f), NEW g
                     PROVE  /\ RowNumber(Text(f), g) \in 0..Len(f.lines)
                            /\ \A k \in 1..Len(f.lines) : LineText(f.lines[k]) # <<>> <=> k <= RowNumber(Text(f), g)
<1>1. LineText(f.lines[1]) # <<>>
  BY DEF Regular
<1>2. RowNumber(Text(f), g) = Cardinality(Nonblank(f))
  BY <1>1, RowsCounted
<1>3. PICK N \in Nat : N = Len(f.lines) /\ DOMAIN f.lines = 1..N
  <2>1. f.lines \in Seq(Seq(Cell)) /\ Len(f.lines) \in Nat \ {0}
    BY LineTextsAre
  <2> QED BY <2>1, SMTT(20)
<1>4. Cardinality(Nonblank(f)) \in 0..N
  <2>1. Nonblank(f) \in SUBSET (1..N)
    BY <1>3 DEF Nonblank
  <2> QED BY <2>1, FewPlaces
<1> QED BY <1>2, <1>3, <1>4, RegularRows

(* The inductive invariant: the text is the file's, the counts come from   *)
(* it, curIndex stands at the beginning of the line after i others, the    *)
(* rows behind it are set to what split gave and no other is, and nothing  *)
(* goes wrong in a regular file.                                           *)
FileInv == file \in Files /\ data = Text(file) /\ stage \in {"count", "rows", "loaded", "answered", "freed", "corrupt"}
FreshInv == stage = "count" => rSize = 0 /\ cSize = 0 /\ csvTable = <<>> /\ i = 0 /\ curIndex = 1
CountsInv == stage # "count" => /\ \E g \in Character : rSize = RowNumber(data, g)
                                /\ \E g \in Character : cSize = ColumnNumber(data, g)
PlaceInv == i \in 0..Len(file.lines) /\ \E st : FileIsLaid(file, st) /\ curIndex = st[i + 1]
RowIsSet(k) == \E g \in Character : /\ cSize <= Len(split(LineText(file.lines[k + 1]), g))
                                    /\ csvTable[k] = Copied(split(LineText(file.lines[k + 1]), g))
RowsInv == stage \notin {"count", "freed"} =>
             /\ DOMAIN csvTable = 0..rSize - 1
             /\ \A k \in 0..rSize - 1 : /\ k < i /\ ~Blank(k + 1) => RowIsSet(k)
                                        /\ ~(k < i /\ ~Blank(k + 1)) => csvTable[k] = Unset
             /\ \A k \in 1..i : ~Blank(k) => k <= rSize
EndInv == /\ stage \in {"loaded", "answered", "freed"} => ~More
          /\ stage = "freed" => csvTable = <<>>
          /\ stage = "answered" => AllSet /\ records = split2(Answer, NL)
HurtInv == stage = "corrupt" => ~Regular(file)
LoadInv == FileInv /\ FreshInv /\ CountsInv /\ PlaceInv /\ RowsInv /\ EndInv /\ HurtInv

LEMMA LoadInitInv == LoadInit => LoadInv
<1> SUFFICES ASSUME LoadInit PROVE LoadInv
  OBVIOUS
<1> USE DEF LoadInit
<1>1. FileInv /\ FreshInv /\ CountsInv /\ EndInv /\ HurtInv /\ RowsInv
  BY DEF FileInv, FreshInv, CountsInv, EndInv, HurtInv, RowsInv
<1>2. PlaceInv
  <2>1. IsFile(file)
    BY FilesAre
  <2>2. PICK st : FileIsLaid(file, st)
    BY <2>1, FileLaid DEF FileIsLaid
  <2>3. st[1] = 1
    BY <2>2 DEF FileIsLaid, Laid
  <2>4. Len(file.lines) \in Nat
    BY <2>1, LineTextsAre
  <2>5. curIndex = st[i + 1] /\ i \in 0..Len(file.lines)
    BY <2>3, <2>4
  <2> QED BY <2>2, <2>5 DEF PlaceInv
<1> QED BY <1>1, <1>2 DEF LoadInv

LEMMA CountInv == LoadInv /\ Count => LoadInv'
<1> SUFFICES ASSUME LoadInv, Count PROVE LoadInv'
  OBVIOUS
<1>1. /\ stage = "count" /\ stage' = "rows" /\ i = 0 /\ csvTable' = [k \in 0..rSize' - 1 |-> Unset]
      /\ UNCHANGED <<file, data, i, curIndex, records>>
  BY DEF LoadInv, FreshInv, Count
<1>2. FileInv' /\ FreshInv' /\ EndInv' /\ HurtInv'
  BY <1>1 DEF LoadInv, FileInv, FreshInv, EndInv, HurtInv
<1>3. CountsInv'
  BY <1>1 DEF Count, CountsInv
<1>4. PlaceInv'
  BY <1>1 DEF LoadInv, PlaceInv
<1>5. RowsInv'
  <2>1. \A k \in 0..rSize' - 1 : ~(k < i')
    BY <1>1
  <2>2. \A k \in 1..i' : FALSE
    BY <1>1
  <2> QED BY <1>1, <2>1, <2>2 DEF RowsInv
<1> QED BY <1>2, <1>3, <1>4, <1>5 DEF LoadInv

(* The row that set_table reads is the next line.                          *)
LEMMA RowRead == ASSUME LoadInv, More
                 PROVE  /\ i + 1 \in 1..Len(file.lines) /\ i \in Nat /\ Row = LineText(file.lines[i + 1])
                        /\ \E st : FileIsLaid(file, st) /\ RowEnd(data, curIndex) + 1 = st[(i + 1) + 1]
                        /\ Row = <<>> => RowEnd(data, curIndex) + 1 = curIndex + 1
                        /\ IsFile(file)
<1>1. file \in Files /\ data = Text(file) /\ IsFile(file)
  BY FilesAre DEF LoadInv, FileInv
<1>2. PICK st : FileIsLaid(file, st) /\ curIndex = st[i + 1] /\ i \in 0..Len(file.lines)
  BY DEF LoadInv, PlaceInv
<1>3. ReadAt(file, i, st)
  BY <1>1, <1>2, Reading
<1>4. /\ i + 1 \in 1..Len(file.lines)
      /\ SubSeq(data, curIndex, RowEnd(data, curIndex) - 1) = LineText(file.lines[i + 1])
      /\ RowEnd(data, curIndex) + 1 = st[i + 2]
      /\ LineText(file.lines[i + 1]) = <<>> => st[i + 2] = curIndex + 1
  BY <1>1, <1>2, <1>3 DEF ReadAt, More
<1>5. (i + 1) + 1 = i + 2 /\ i \in Nat
  BY <1>2
<1> QED BY <1>1, <1>2, <1>4, <1>5 DEF Row

LEMMA SkipRowInv == LoadInv /\ SkipRow => LoadInv'
<1> SUFFICES ASSUME LoadInv, SkipRow PROVE LoadInv'
  OBVIOUS
<1>1. /\ stage = "rows" /\ More /\ Row = <<>> /\ i' = i + 1 /\ curIndex' = curIndex + 1
      /\ UNCHANGED <<file, data, stage, rSize, cSize, csvTable, records>>
  BY DEF SkipRow
<1>2. /\ i + 1 \in 1..Len(file.lines) /\ i \in Nat /\ LineText(file.lines[i + 1]) = <<>>
      /\ \E st : FileIsLaid(file, st) /\ curIndex + 1 = st[(i + 1) + 1]
      /\ IsFile(file)
  BY <1>1, RowRead
<1>3. FileInv' /\ FreshInv' /\ EndInv' /\ HurtInv' /\ CountsInv'
  BY <1>1 DEF LoadInv, FileInv, FreshInv, EndInv, HurtInv, CountsInv
<1>4. PlaceInv'
  <2>1. i + 1 \in 0..Len(file.lines)
    BY <1>2
  <2> QED BY <1>1, <1>2, <2>1 DEF PlaceInv
<1>5. RowsInv'
  <2>1. RowsInv
    BY DEF LoadInv
  <2>2. \A k : Blank(k)' <=> Blank(k)
    BY <1>1 DEF Blank
  <2>3. \A k : RowIsSet(k)' <=> RowIsSet(k)
    BY <1>1 DEF RowIsSet, Copied
  <2>4. Blank(i + 1)
    BY <1>2 DEF Blank
  <2>5. \A k \in 0..rSize - 1 : k < i + 1 /\ ~Blank(k + 1) <=> k < i /\ ~Blank(k + 1)
    <3>1. ASSUME NEW k \in 0..rSize - 1, k = i PROVE Blank(k + 1)
      BY <2>4, <3>1
    <3>2. ASSUME NEW k \in 0..rSize - 1 PROVE k < i + 1 <=> k < i \/ k = i
      BY <1>2
    <3> QED BY <3>1, <3>2
  <2>6. ASSUME NEW k \in 1..i + 1, ~Blank(k) PROVE k <= rSize
    <3>1. k \in 1..i
      BY <1>2, <2>4, <2>6
    <3> QED BY <1>1, <2>1, <2>6, <3>1 DEF RowsInv
  <2> QED BY <1>1, <2>1, <2>2, <2>3, <2>5, <2>6 DEF RowsInv
<1> QED BY <1>3, <1>4, <1>5 DEF LoadInv

LEMMA SetRowInv == LoadInv /\ SetRow => LoadInv'
<1> SUFFICES ASSUME LoadInv, SetRow PROVE LoadInv'
  OBVIOUS
<1>1. /\ stage = "rows" /\ More /\ Row # <<>> /\ UNCHANGED <<file, data, rSize, cSize, records>>
  BY DEF SetRow
<1>2. PICK g \in Character :
        \/ /\ i < rSize /\ cSize <= Len(split(Row, g))
           /\ csvTable' = [csvTable EXCEPT ![i] = Copied(split(Row, g))]
           /\ i' = i + 1 /\ curIndex' = RowEnd(data, curIndex) + 1 /\ stage' = stage
        \/ /\ ~(i < rSize /\ cSize <= Len(split(Row, g)))
           /\ stage' = "corrupt" /\ UNCHANGED <<csvTable, i, curIndex>>
  BY DEF SetRow
<1>3. /\ i + 1 \in 1..Len(file.lines) /\ i \in Nat /\ Row = LineText(file.lines[i + 1])
      /\ \E st : FileIsLaid(file, st) /\ RowEnd(data, curIndex) + 1 = st[(i + 1) + 1]
      /\ IsFile(file)
  BY <1>1, RowRead
<1>4. RowsInv /\ CountsInv /\ FileInv /\ PlaceInv
  BY DEF LoadInv
<1>5. ~Blank(i + 1)
  BY <1>1, <1>3 DEF Blank
<1>6. \A k : Blank(k)' <=> Blank(k)
  BY <1>1 DEF Blank
<1>7. CASE i < rSize /\ cSize <= Len(split(Row, g))
  <2>1. /\ csvTable' = [csvTable EXCEPT ![i] = Copied(split(Row, g))]
        /\ i' = i + 1 /\ curIndex' = RowEnd(data, curIndex) + 1 /\ stage' = stage
    BY <1>2, <1>7
  <2>2. FileInv' /\ FreshInv' /\ EndInv' /\ HurtInv' /\ CountsInv'
    BY <1>1, <1>4, <2>1 DEF FileInv, FreshInv, EndInv, HurtInv, CountsInv
  <2>3. PlaceInv'
    <3>1. i + 1 \in 0..Len(file.lines)
      BY <1>3
    <3> QED BY <1>1, <1>3, <2>1, <3>1 DEF PlaceInv
  <2>4. RowsInv'
    <3>1. /\ DOMAIN csvTable = 0..rSize - 1
          /\ \A k \in 0..rSize - 1 : /\ k < i /\ ~Blank(k + 1) => RowIsSet(k)
                                     /\ ~(k < i /\ ~Blank(k + 1)) => csvTable[k] = Unset
          /\ \A k \in 1..i : ~Blank(k) => k <= rSize
      BY <1>1, <1>4 DEF RowsInv
    <3>2. rSize \in Nat
      <4>1. \E h \in Character : rSize = RowNumber(data, h)
        BY <1>1, <1>4 DEF CountsInv
      <4>2. data \in Seq(Character)
        BY <1>3, <1>4, FileLaid DEF FileInv
      <4> QED BY <4>1, <4>2, RowNumberIs
    <3>3. i \in 0..rSize - 1
      BY <1>3, <1>7, <3>2
    <3>4. DOMAIN csvTable' = 0..rSize - 1 /\ csvTable'[i] = Copied(split(Row, g))
          /\ \A k \in 0..rSize - 1 : k # i => csvTable'[k] = csvTable[k]
      BY <2>1, <3>1, <3>3
    <3>5. ASSUME NEW x, x = i PROVE RowIsSet(x)'
      <4>1. csvTable'[x] = Copied(split(LineText(file.lines[x + 1]), g)) /\ cSize <= Len(split(LineText(file.lines[x + 1]), g))
        BY <1>3, <1>7, <3>4, <3>5
      <4> QED BY <1>1, <4>1 DEF RowIsSet, Copied
    <3>6. ASSUME NEW k \in 0..rSize - 1, k # i PROVE RowIsSet(k) => RowIsSet(k)'
      BY <1>1, <3>4, <3>6 DEF RowIsSet, Copied
    <3>7. ASSUME NEW k \in 0..rSize - 1
          PROVE  /\ k < i + 1 /\ ~Blank(k + 1) => RowIsSet(k)'
                 /\ ~(k < i + 1 /\ ~Blank(k + 1)) => csvTable'[k] = Unset
      <4>1. CASE k = i
        BY <1>3, <1>5, <3>5, <4>1
      <4>2. CASE k # i
        <5>1. k < i + 1 <=> k < i
          BY <1>3, <4>2
        <5> QED BY <3>1, <3>4, <3>6, <4>2, <5>1
      <4> QED BY <4>1, <4>2
    <3>8. ASSUME NEW k \in 1..i + 1, ~Blank(k) PROVE k <= rSize
      <4>1. k \in 1..i \/ k = i + 1
        BY <1>3
      <4> QED BY <3>1, <3>2, <3>3, <3>8, <4>1
    <3> QED BY <1>1, <1>6, <2>1, <3>4, <3>7, <3>8 DEF RowsInv
  <2> QED BY <2>2, <2>3, <2>4 DEF LoadInv
<1>8. CASE ~(i < rSize /\ cSize <= Len(split(Row, g)))
  <2>1. stage' = "corrupt" /\ UNCHANGED <<csvTable, i, curIndex>>
    BY <1>2, <1>8
  <2>2. FileInv' /\ FreshInv' /\ EndInv' /\ CountsInv' /\ PlaceInv'
    BY <1>1, <1>4, <2>1 DEF FileInv, FreshInv, EndInv, CountsInv, PlaceInv
  <2>3. RowsInv'
    <3>1. \A k : RowIsSet(k)' <=> RowIsSet(k)
      BY <1>1, <2>1 DEF RowIsSet, Copied
    <3> QED BY <1>1, <1>4, <1>6, <2>1, <3>1 DEF RowsInv
  <2>4. ~Regular(file)
    <3>1. ASSUME Regular(file) PROVE FALSE
      <4>1. PICK h \in Character : rSize = RowNumber(Text(file), h)
        BY <1>1, <1>4 DEF CountsInv, FileInv
      <4>2. PICK e \in Character : cSize = ColumnNumber(Text(file), e)
        BY <1>1, <1>4 DEF CountsInv, FileInv
      <4>3. i + 1 <= rSize /\ rSize \in Nat
        <5>1. LineText(file.lines[i + 1]) # <<>>
          BY <1>1, <1>3
        <5>2. /\ RowNumber(Text(file), h) \in 0..Len(file.lines)
              /\ \A k \in 1..Len(file.lines) : LineText(file.lines[k]) # <<>> <=> k <= RowNumber(Text(file), h)
          BY <1>3, <3>1, RegularPlaces
        <5> QED BY <1>3, <4>1, <5>1, <5>2
      <4>4. cSize <= Len(split(Row, g))
        <5>1. PICK k \in 1..Len(file.lines) : k = i + 1 /\ LineText(file.lines[k]) = Row
          BY <1>3
        <5>2. /\ LineText(file.lines[k]) # <<>> /\ LineText(file.lines[1]) # <<>>
              /\ Len(file.lines[k]) >= Len(file.lines[1])
          <6>1. k \in DOMAIN file.lines
            <7>1. file.lines \in Seq(Seq(Cell))
              BY <1>3, LineTextsAre
            <7> QED BY <7>1
          <6> QED BY <1>1, <3>1, <5>1, <6>1 DEF Regular
        <5>3. ColumnNumber(Text(file), e) <= Len(split(LineText(file.lines[k]), g))
          BY <1>3, <5>2, HeaderFits
        <5> QED BY <4>2, <5>1, <5>3
      <4> QED BY <1>3, <1>8, <4>3, <4>4
    <3> QED BY <3>1
  <2>5. HurtInv'
    BY <1>1, <2>4 DEF HurtInv
  <2> QED BY <2>2, <2>3, <2>5 DEF LoadInv
<1> QED BY <1>7, <1>8

(* What the invariant says of the sizes and of a row that is set.          *)
LEMMA SizesAre == ASSUME LoadInv
                  PROVE  rSize \in 0..Len(data) + 1 /\ cSize \in 0..Len(data) + 1
<1>1. IsFile(file) /\ data = Text(file) /\ data \in Seq(Character) /\ Len(data) \in Nat
  <2>1. IsFile(file) /\ data = Text(file)
    BY FilesAre DEF LoadInv, FileInv
  <2>2. data \in Seq(Character)
    BY <2>1, FileLaid
  <2> QED BY <2>1, <2>2
<1>2. CASE stage = "count"
  BY <1>1, <1>2 DEF LoadInv, FreshInv
<1>3. CASE stage # "count"
  <2>1. PICK g \in Character, h \in Character : rSize = RowNumber(data, g) /\ cSize = ColumnNumber(data, h)
    BY <1>3 DEF LoadInv, CountsInv
  <2>2. RowNumber(data, g) \in 0..Len(data) + 1
    BY <1>1, RowNumberIs
  <2>3. ColumnNumber(Text(file), h) \in 0..Len(Text(file)) + 1
    BY <1>1, ColumnsCounted
  <2> QED BY <1>1, <2>1, <2>2, <2>3
<1> QED BY <1>2, <1>3

RowHolds(k) ==
  /\ csvTable[k] # Unset /\ csvTable[k] \in Seq(Seq(Character \cup {"null"})) /\ Len(csvTable[k]) = cSize
  /\ \/ IsPrefix(csvTable[k], ValuesOf(k + 1))
     \/ StartsWithQuote(k + 1) /\ IsPrefix(csvTable[k], <<Null>> \o ValuesOf(k + 1))

LEMMA RowHoldsIt == ASSUME LoadInv, NEW k \in Nat, k + 1 \in 1..Len(file.lines), ~Blank(k + 1), RowIsSet(k)
                    PROVE  RowHolds(k)
<1>1. IsFile(file) /\ cSize \in Nat
  <2>1. IsFile(file) /\ data = Text(file)
    BY FilesAre DEF LoadInv, FileInv
  <2>2. data \in Seq(Character)
    BY <2>1, FileLaid
  <2> QED BY <2>1, <2>2, SizesAre
<1>2. PICK l \in Seq(Cell) : l = file.lines[k + 1] /\ LineText(l) # <<>>
  <2>1. file.lines[k + 1] \in Seq(Cell)
    BY <1>1, LineTextsAre
  <2> QED BY <2>1 DEF Blank
<1>3. PICK g \in Character : cSize <= Len(split(LineText(l), g)) /\ csvTable[k] = Copied(split(LineText(l), g))
  BY <1>2 DEF RowIsSet
<1>4. PICK s : s = split(LineText(l), g)
  OBVIOUS
<1>5. /\ s \in Seq(Seq(Character \cup {"null"}))
      /\ s = ValuesIn(l) \/ (l # <<>> /\ Head(l).quoted /\ s = <<Null>> \o ValuesIn(l))
  <2>1. SplitValues(l, g)
    BY <1>2, SplitValuesAre
  <2> QED BY <1>4, <2>1 DEF SplitValues
<1>6. PICK c, t : c \in Nat /\ c = cSize /\ t = csvTable[k] /\ t = SubSeq(s, 1, c) /\ c <= Len(s)
  BY <1>1, <1>3, <1>4 DEF Copied
<1>7. t \in Seq(Seq(Character \cup {"null"})) /\ Len(t) = c
  <2>1. \A n \in 1..c : s[n] \in Seq(Character \cup {"null"})
    BY <1>5, <1>6
  <2>2. t \in Seq(Seq(Character \cup {"null"}))
    BY <1>6, <2>1, SubSeqProperties
  <2>3. Len(t) = IF 1 <= c THEN c - 1 + 1 ELSE 0
    BY <1>6, <2>1, SubSeqProperties
  <2>4. c \in Nat
    BY <1>6
  <2> QED BY <2>2, <2>3, <2>4
<1>8. t # Unset
  BY <1>7, CsvAssumption
<1>9. ValuesIn(l) = ValuesOf(k + 1)
  BY <1>2 DEF ValuesIn, ValuesOf
<1>10. \/ IsPrefix(csvTable[k], ValuesOf(k + 1))
       \/ StartsWithQuote(k + 1) /\ IsPrefix(csvTable[k], <<Null>> \o ValuesOf(k + 1))
  <2>1. SubSeq(t, 0 + 1, 0 + Len(t)) = t
    BY <1>7, TextCut
  <2>2. SubSeq(t, 1, Len(t)) = SubSeq(s, 1, Len(t)) /\ Len(t) <= Len(s)
    BY <1>6, <1>7, <2>1
  <2>3. IsPrefix(csvTable[k], s)
    BY <1>6, <2>2 DEF IsPrefix
  <2> QED BY <1>2, <1>5, <1>9, <2>3 DEF StartsWithQuote
<1> QED BY <1>6, <1>7, <1>8, <1>10 DEF RowHolds

(* Behind the end of the text there are only blank lines.                  *)
LEMMA AllRead == ASSUME LoadInv, ~More
                 PROVE  \A k \in 1..Len(file.lines) : ~Blank(k) => k <= i
<1>1. IsFile(file) /\ data = Text(file)
  BY FilesAre DEF LoadInv, FileInv
<1>2. PICK st : FileIsLaid(file, st) /\ curIndex = st[i + 1] /\ i \in 0..Len(file.lines)
  BY DEF LoadInv, PlaceInv
<1>3. ReadAt(file, i, st)
  BY <1>1, <1>2, Reading
<1>4. \A k \in 1..Len(file.lines) : k > i => LineText(file.lines[k]) = <<>>
  BY <1>1, <1>2, <1>3 DEF ReadAt, More
<1> QED BY <1>2, <1>4 DEF Blank

LEMMA RegularSet == ASSUME LoadInv, stage \in {"loaded", "answered"}, Regular(file)
                  PROVE  AllSet
<1>1. /\ IsFile(file) /\ data = Text(file) /\ ~More /\ DOMAIN csvTable = 0..rSize - 1
      /\ \A k \in 0..rSize - 1 : k < i /\ ~Blank(k + 1) => RowIsSet(k)
  BY FilesAre DEF LoadInv, FileInv, EndInv, RowsInv
<1>2. PICK g \in Character : rSize = RowNumber(Text(file), g)
  BY <1>1 DEF LoadInv, CountsInv
<1>3. /\ rSize \in 0..Len(file.lines)
      /\ \A k \in 1..Len(file.lines) : LineText(file.lines[k]) # <<>> <=> k <= rSize
  BY <1>1, <1>2, RegularPlaces
<1>4. PICK N \in Nat : N = Len(file.lines)
  BY <1>1, LineTextsAre
<1>5. ASSUME NEW k \in DOMAIN csvTable PROVE csvTable[k] # Unset
  <2>1. k \in 0..rSize - 1 /\ k + 1 \in 1..Len(file.lines) /\ k + 1 <= rSize /\ k \in Nat
    BY <1>1, <1>3, <1>4
  <2>2. ~Blank(k + 1)
    BY <1>3, <2>1 DEF Blank
  <2>3. k + 1 <= i /\ i \in Nat
    <3>1. i \in 0..Len(file.lines)
      BY DEF LoadInv, PlaceInv
    <3> QED BY <1>1, <1>4, <2>1, <2>2, <3>1, AllRead
  <2>4. RowIsSet(k)
    BY <1>1, <2>1, <2>2, <2>3
  <2>5. RowHolds(k)
    BY <2>1, <2>2, <2>4, RowHoldsIt
  <2> QED BY <2>5 DEF RowHolds
<1> QED BY <1>5 DEF AllSet

LEMMA EndsInv == LoadInv /\ (Loaded \/ Select \/ Release) => LoadInv'
<1> SUFFICES ASSUME LoadInv, Loaded \/ Select \/ Release PROVE LoadInv'
  OBVIOUS
<1>1. /\ stage \in {"rows", "loaded", "answered"} /\ UNCHANGED <<file, data, rSize, cSize, i, curIndex>>
      /\ stage' \in {"loaded", "answered", "freed", "corrupt"}
  BY DEF Loaded, Select, Release
<1>2. FileInv' /\ FreshInv' /\ CountsInv' /\ PlaceInv'
  BY <1>1 DEF LoadInv, FileInv, FreshInv, CountsInv, PlaceInv
<1>3. RowsInv'
  <2>1. CASE csvTable' = csvTable
    <3>1. \A k : RowIsSet(k)' <=> RowIsSet(k)
      BY <1>1, <2>1 DEF RowIsSet, Copied
    <3>2. \A k : Blank(k)' <=> Blank(k)
      BY <1>1 DEF Blank
    <3>3. RowsInv
      BY DEF LoadInv
    <3>4. stage \notin {"count", "freed"}
      BY <1>1
    <3> QED BY <1>1, <2>1, <3>1, <3>2, <3>3, <3>4 DEF RowsInv
  <2>2. CASE stage' = "freed"
    BY <2>2 DEF RowsInv
  <2>3. csvTable' = csvTable \/ stage' = "freed"
    BY DEF Loaded, Select, Release
  <2> QED BY <2>1, <2>2, <2>3
<1>4. EndInv'
  <2>1. More' <=> More
    BY <1>1 DEF More
  <2>2. ~More
    BY <1>1 DEF Loaded, Select, Release, LoadInv, EndInv
  <2>3. stage' = "freed" => csvTable' = <<>>
    BY DEF Loaded, Select, Release
  <2>4. stage' = "answered" => AllSet' /\ records' = split2(Answer, NL)'
    <3>1. ASSUME stage' = "answered" PROVE AllSet' /\ records' = split2(Answer, NL)'
      <4>1. AllSet /\ records' = split2(Answer, NL) /\ UNCHANGED <<csvTable, rSize>>
        BY <3>1 DEF Loaded, Select, Release
      <4> QED BY <4>1 DEF AllSet, Answer
    <3> QED BY <3>1
  <2> QED BY <2>1, <2>2, <2>3, <2>4 DEF EndInv
<1>5. HurtInv'
  <2>1. ASSUME stage' = "corrupt" PROVE ~Regular(file)
    <3>1. stage \in {"loaded", "answered"} /\ ~AllSet
      BY <2>1 DEF Loaded, Select, Release
    <3> QED BY <3>1, RegularSet
  <2> QED BY <1>1, <2>1 DEF HurtInv
<1> QED BY <1>2, <1>3, <1>4, <1>5 DEF LoadInv

LEMMA LoadNextInv == LoadInv /\ [LoadNext]_loadVars => LoadInv'
<1> SUFFICES ASSUME LoadInv, [LoadNext]_loadVars PROVE LoadInv'
  OBVIOUS
<1>1. CASE LoadNext
  BY <1>1, CountInv, SkipRowInv, SetRowInv, EndsInv DEF LoadNext
<1>2. CASE UNCHANGED loadVars
  <2>1. UNCHANGED <<file, data, stage, rSize, cSize, csvTable, i, curIndex, records>>
    BY <1>2 DEF loadVars
  <2>2. FileInv' /\ FreshInv' /\ CountsInv' /\ PlaceInv' /\ HurtInv'
    BY <2>1 DEF LoadInv, FileInv, FreshInv, CountsInv, PlaceInv, HurtInv
  <2>3. RowsInv'
    <3>1. \A k : (RowIsSet(k)' <=> RowIsSet(k)) /\ (Blank(k)' <=> Blank(k))
      BY <2>1 DEF RowIsSet, Copied, Blank
    <3>2. RowsInv
      BY DEF LoadInv
    <3> QED BY <2>1, <3>1, <3>2 DEF RowsInv
  <2>4. EndInv'
    BY <2>1 DEF LoadInv, EndInv, More, AllSet, Answer
  <2> QED BY <2>2, <2>3, <2>4 DEF LoadInv
<1> QED BY <1>1, <1>2

LEMMA LoadAlways == LoadSpec => []LoadInv
<1>1. LoadInit => LoadInv
  BY LoadInitInv
<1>2. LoadInv /\ [LoadNext]_loadVars => LoadInv'
  BY LoadNextInv
<1> QED BY <1>1, <1>2, PTL DEF LoadSpec

-----------------------------------------------------------------------------
(* The table is the file.                                                  *)

LEMMA InvTableIsFile == LoadInv => TableIsFile
<1> SUFFICES ASSUME LoadInv PROVE TableIsFile
  OBVIOUS
<1>1. file \in Files /\ IsFile(file) /\ data = Text(file) /\ data \in Seq(Character)
  <2>1. file \in Files /\ IsFile(file) /\ data = Text(file)
    BY FilesAre DEF LoadInv, FileInv
  <2> QED BY <2>1, FileLaid
<1>2. PICK N \in Nat \ {0} : N = Len(file.lines) /\ Lines = 1..N
  <2>1. file.lines \in Seq(Seq(Cell)) /\ Len(file.lines) \in Nat \ {0}
    BY <1>1, LineTextsAre
  <2> QED BY <2>1 DEF Lines
<1>3. rSize \in 0..Len(data) + 1 /\ cSize \in 0..Len(data) + 1 /\ Len(data) \in Nat
  BY <1>1, SizesAre
<1>4. i \in 0..N
  BY <1>2 DEF LoadInv, PlaceInv
<1>5. ASSUME NEW k \in Lines, Stored(k)
      PROVE  stage # "count" /\ stage # "freed" /\ k - 1 \in Nat /\ (k - 1) + 1 = k /\ ~Blank(k) /\ RowHolds(k - 1)
  <2>1. k \in 1..N /\ k - 1 \in DOMAIN csvTable /\ csvTable[k - 1] # Unset
    BY <1>2, <1>5 DEF Stored
  <2>2. stage # "count" /\ stage # "freed"
    <3>1. DOMAIN <<>> = {}
      OBVIOUS
    <3>2. csvTable # <<>>
      BY <2>1, <3>1
    <3> QED BY <3>2 DEF LoadInv, FreshInv, EndInv
  <2>3. /\ k - 1 \in 0..rSize - 1
        /\ k - 1 < i /\ ~Blank((k - 1) + 1) => RowIsSet(k - 1)
        /\ ~(k - 1 < i /\ ~Blank((k - 1) + 1)) => csvTable[k - 1] = Unset
    BY <2>1, <2>2 DEF LoadInv, RowsInv
  <2>4. (k - 1) + 1 = k /\ k - 1 \in Nat
    BY <2>1
  <2>5. ~Blank((k - 1) + 1) /\ RowIsSet(k - 1)
    BY <2>1, <2>3
  <2>6. RowHolds(k - 1)
    <3>1. PICK m \in Nat : m = k - 1 /\ m + 1 = k
      BY <2>4
    <3>2. m + 1 \in 1..Len(file.lines) /\ ~Blank(m + 1) /\ RowIsSet(m)
      BY <1>2, <2>1, <2>4, <2>5, <3>1
    <3>3. RowHolds(m)
      BY <3>2, RowHoldsIt
    <3> QED BY <3>1, <3>3
  <2>7. ~Blank(k)
    BY <2>4, <2>5
  <2> QED BY <2>2, <2>4, <2>6, <2>7
<1>6. LoadTypeOK
  <2>1. file \in Files /\ stage \in {"count", "rows", "loaded", "answered", "freed", "corrupt"}
    BY DEF LoadInv, FileInv
  <2>2. \A k \in DOMAIN csvTable : csvTable[k] = Unset \/ Len(csvTable[k]) = cSize
    <3>1. CASE stage = "count" \/ stage = "freed"
      <4>1. csvTable = <<>>
        BY <3>1 DEF LoadInv, FreshInv, EndInv
      <4>2. DOMAIN csvTable = {}
        BY <4>1
      <4> QED BY <4>2
    <3>2. CASE stage # "count" /\ stage # "freed"
      <4>1. DOMAIN csvTable = 0..rSize - 1
        BY <3>2 DEF LoadInv, RowsInv
      <4>2. ASSUME NEW k \in DOMAIN csvTable, csvTable[k] # Unset PROVE Len(csvTable[k]) = cSize
        <5>1. k \in 0..rSize - 1 /\ k \in Nat
          BY <4>1
        <5>2. k < i /\ ~Blank(k + 1) /\ RowIsSet(k)
          BY <3>2, <4>2, <5>1 DEF LoadInv, RowsInv
        <5>3. k + 1 \in 1..Len(file.lines)
          BY <1>2, <1>4, <5>1, <5>2
        <5>4. RowHolds(k)
          BY <5>1, <5>2, <5>3, RowHoldsIt
        <5> QED BY <5>4 DEF RowHolds
      <4> QED BY <4>2
    <3> QED BY <3>1, <3>2
  <2>3. curIndex \in 1..Len(data) + 2
    <3>1. PICK st : FileIsLaid(file, st) /\ curIndex = st[i + 1] /\ i \in 0..Len(file.lines)
      BY DEF LoadInv, PlaceInv
    <3>2. ReadAt(file, i, st)
      BY <1>1, <3>1, Reading
    <3> QED BY <1>1, <3>1, <3>2 DEF ReadAt
  <2>4. i \in 0..Len(file.lines) + 1
    BY <1>2, <1>4
  <2> QED BY <1>3, <2>1, <2>2, <2>3, <2>4 DEF LoadTypeOK
<1>7. SizesAgree
  <2>1. ASSUME stage # "count", ~Blank(1)
        PROVE  /\ rSize = Cardinality({k \in Lines : ~Blank(k)})
               /\ cSize = Len(file.lines[1]) -
                    (IF Len(file.lines[1]) > 1 /\ CellText(Last(file.lines[1])) = <<>> THEN 1 ELSE 0)
    <3>1. PICK g \in Character, h \in Character : rSize = RowNumber(Text(file), g) /\ cSize = ColumnNumber(Text(file), h)
      BY <1>1, <2>1 DEF LoadInv, CountsInv
    <3>2. LineText(file.lines[1]) # <<>>
      BY <2>1 DEF Blank
    <3>3. {k \in Lines : ~Blank(k)} = Nonblank(file)
      BY DEF Lines, Blank, Nonblank
    <3>4. rSize = Cardinality(Nonblank(file))
      BY <1>1, <3>1, <3>2, RowsCounted
    <3>5. ColumnNumber(Text(file), h) = Len(file.lines[1]) -
            (IF Len(file.lines[1]) > 1 /\ CellText(Last(file.lines[1])) = <<>> THEN 1 ELSE 0)
      BY <1>1, <3>2, ColumnsCounted
    <3> QED BY <3>1, <3>3, <3>4, <3>5
  <2> QED BY <2>1 DEF SizesAgree
<1>8. CellsAgree
  <2>1. ASSUME NEW k \in Lines, Stored(k)
        PROVE  /\ ~Blank(k)
               /\ \/ IsPrefix(csvTable[k - 1], ValuesOf(k))
                  \/ StartsWithQuote(k) /\ IsPrefix(csvTable[k - 1], <<Null>> \o ValuesOf(k))
    <3>1. ~Blank(k) /\ RowHolds(k - 1) /\ (k - 1) + 1 = k
      BY <1>5, <2>1
    <3>2. \/ IsPrefix(csvTable[k - 1], ValuesOf((k - 1) + 1))
          \/ StartsWithQuote((k - 1) + 1) /\ IsPrefix(csvTable[k - 1], <<Null>> \o ValuesOf((k - 1) + 1))
      BY <3>1 DEF RowHolds
    <3> QED BY <3>1, <3>2, Zenon
  <2> QED BY <2>1 DEF CellsAgree
<1>9. OnlyIrregularHurts
  <2>1. ASSUME stage = "corrupt" PROVE Blank(1) \/ \E k \in Lines : ~Blank(k) /\ (GapBefore(k) \/ Short(k))
    <3>1. ~Regular(file)
      BY <2>1 DEF LoadInv, HurtInv
    <3>2. ASSUME NEW k \in Lines, ~(Len(file.lines[k]) >= Len(file.lines[1])) PROVE Short(k)
      <4>1. /\ file.lines \in Seq(Seq(Cell)) /\ Len(file.lines) \in Nat \ {0}
            /\ \A m \in 1..Len(file.lines) : file.lines[m] \in Seq(Cell)
        BY <1>1, LineTextsAre
      <4>2. k \in 1..Len(file.lines) /\ 1 \in 1..Len(file.lines)
        BY <4>1 DEF Lines
      <4>3. PICK p, q \in Seq(Cell) : p = file.lines[k] /\ q = file.lines[1]
        BY <4>1, <4>2
      <4> QED BY <3>2, <4>3 DEF Short
    <3> QED BY <3>1, <3>2 DEF Regular, Blank, GapBefore, Lines
  <2>2. ASSUME stage \in {"loaded", "answered"} PROVE \A k \in Lines : Blank(k) \/ Stored(k)
    <3>1. /\ ~More /\ DOMAIN csvTable = 0..rSize - 1
          /\ \A k \in 0..rSize - 1 : k < i /\ ~Blank(k + 1) => RowIsSet(k)
          /\ \A k \in 1..i : ~Blank(k) => k <= rSize
      BY <2>2 DEF LoadInv, EndInv, RowsInv
    <3>2. ASSUME NEW k \in 1..N, ~Blank(k) PROVE Stored(k)
      <4>1. k <= i
        BY <1>2, <3>1, <3>2, AllRead
      <4>2. k \in 1..i /\ k <= rSize
        BY <1>4, <3>1, <3>2, <4>1
      <4>3. PICK m \in Nat : m = k - 1 /\ m + 1 = k
        <5>1. k - 1 \in Nat /\ (k - 1) + 1 = k
          OBVIOUS
        <5> QED BY <5>1
      <4>4. m \in 0..rSize - 1 /\ m < i /\ m + 1 \in 1..Len(file.lines) /\ ~Blank(m + 1)
        BY <1>2, <1>3, <1>4, <3>2, <4>1, <4>2, <4>3
      <4>5. RowHolds(m)
        BY <3>1, <4>4, RowHoldsIt
      <4>6. m \in DOMAIN csvTable /\ csvTable[m] # Unset
        BY <3>1, <4>4, <4>5 DEF RowHolds
      <4> QED BY <4>3, <4>6 DEF Stored
    <3> QED BY <1>2, <3>2
  <2> QED BY <2>1, <2>2 DEF OnlyIrregularHurts
<1> QED BY <1>6, <1>7, <1>8, <1>9 DEF TableIsFile

(* The table that read_csv (L617-633) builds is the file it was read from: *)
(* calculate_row_number and calculate_column_number find its lines that    *)
(* are not blank and its columns, set_table (L635-662) and split put every *)
(* cell in its place, between quotes or not, and only a blank line with    *)
(* more lines after it or a line that is too short takes them out of their *)
(* arrays - but for the two faults TableIsFile names. This holds for every *)
(* file of any size and whatever the uninitialised prev holds.             *)
THEOREM TableAlwaysIsFile == LoadSpec => []TableIsFile
<1>1. LoadInv => TableIsFile
  BY InvTableIsFile
<1> QED BY <1>1, LoadAlways, PTL

-----------------------------------------------------------------------------
(* The answer to SELECT * and its records.                                 *)

(* A record: not empty, without newlines.                                  *)
Symbol == Character \cup {"null", Space}

RecordIs(r) == r \in Seq(Symbol) /\ r # <<>> /\ \A k \in 1..Len(r) : r[k] # NL /\ r[k] # NUL

LEMMA RecordsHaveNone == ASSUME NEW row \in Seq(Seq(Character \cup {"null"})), row # <<>>,
                                \A n \in 1..Len(row) : \A k \in 1..Len(row[n]) : row[n][k] # NL
                         PROVE  RecordIs(Record(row))
<1>1. PICK N \in Nat \ {0} : N = Len(row)
  <2>1. Len(row) \in Nat /\ Len(row) # 0
    OBVIOUS
  <2> QED BY <2>1
<1>2. \A n \in 1..N : row[n] \in Seq(Symbol)
  <2>1. ASSUME NEW n \in 1..N PROVE row[n] \in Seq(Symbol)
    <3>1. PICK t \in Seq(Character \cup {"null"}) : t = row[n]
      BY <1>1
    <3>2. PICK m \in Nat : m = Len(t)
      OBVIOUS
    <3>3. t \in [1..m -> Character \cup {"null"}]
      BY <3>2
    <3>4. t \in [1..m -> Symbol]
      BY <3>3 DEF Symbol
    <3>5. t \in Seq(Symbol)
      BY <3>2, <3>4
    <3> QED BY <3>1, <3>5
  <2> QED BY <2>1
<1>3. PICK p \in Seq(Seq(Symbol)) : p = row
  <2>1. row \in [1..N -> Seq(Symbol)]
    <3>1. row = [n \in 1..N |-> row[n]]
      BY <1>1
    <3> QED BY <1>2, <3>1
  <2>2. row \in Seq(Seq(Symbol))
    BY <1>1, <2>1
  <2> QED BY <2>2
<1>4. Space \in Symbol
  BY DEF Symbol
<1>5. PICK r, st : r = Record(row) /\ r \in Seq(Symbol) /\ Laid(r, p, Space, TRUE, st)
  <2>1. Ended(p, Space) \in Seq(Symbol) /\ \E st : Laid(Ended(p, Space), p, Space, TRUE, st)
    BY <1>4, EndedLaid
  <2> QED BY <1>3, <2>1 DEF Record
<1>6. PICK e \in Nat : e = Len(r)
  BY <1>5
<1>7. st[N + 1] = e + 1 /\ Len(p) = N
  <2>1. Len(r) = st[Len(p) + 1] - 1 /\ st \in [1..Len(p) + 1 -> Nat]
    BY <1>5 DEF Laid
  <2>2. st[N + 1] \in Nat
    BY <1>1, <1>3, <2>1
  <2> QED BY <1>1, <1>3, <1>6, <2>1, <2>2
<1>8. /\ \A q \in 1..st[Len(p) + 1] - 1 : \E n \in 1..Len(p) : q \in st[n]..st[n + 1] - 1
      /\ \A m \in 1..Len(p) + 1 : st[m] >= m
  BY <1>5, LaidEvery
<1>9. r # <<>>
  <2>1. N + 1 \in 1..Len(p) + 1 /\ N + 1 >= 2
    BY <1>7
  <2>2. e + 1 >= N + 1
    BY <1>7, <1>8, <2>1
  <2> QED BY <1>5, <1>6, <2>2
<1>10. ASSUME NEW k \in 1..Len(r) PROVE r[k] # NL /\ r[k] # NUL
  <2>1. k \in 1..st[Len(p) + 1] - 1
    BY <1>6, <1>7
  <2>2. PICK n \in 1..Len(p) : k \in st[n]..st[n + 1] - 1
    BY <1>8, <2>1
  <2>3. PICK a, l, d \in Nat : PieceAt(r, p, Space, TRUE, st, n, a, l, d)
    <3>1. TRUE \in BOOLEAN
      OBVIOUS
    <3> QED BY <1>5, <3>1, LaidPiece
  <2>4. /\ st[n] = a + 1 /\ Len(p[n]) = l /\ st[n + 1] = a + l + 2
        /\ \A m \in 1..l : r[a + m] = p[n][m]
        /\ r[a + l + 1] = Space
    BY <2>3 DEF PieceAt
  <2>5. CASE k = a + l + 1
    BY <2>4, <2>5, CharactersDiffer
  <2>6. CASE k # a + l + 1
    <3>1. PICK m \in 1..l : k = a + m
      <4>1. k - a \in 1..l /\ k = a + (k - a)
        BY <2>2, <2>4, <2>6
      <4> QED BY <4>1
    <3>2. r[k] = row[n][m] /\ n \in 1..N /\ m \in 1..Len(row[n])
      BY <1>3, <1>7, <2>4, <3>1
    <3>3. r[k] # NL
      BY <1>1, <3>2
    <3>4. r[k] \in Character \cup {"null"}
      <4>1. PICK t \in Seq(Character \cup {"null"}) : t = row[n]
        BY <1>1, <3>2
      <4> QED BY <3>2, <4>1
    <3>5. NUL \notin Character \cup {"null"}
      BY CharactersDiffer, CsvAssumption DEF Character
    <3> QED BY <3>3, <3>4, <3>5
  <2> QED BY <2>5, <2>6
<1> QED BY <1>5, <1>9, <1>10 DEF RecordIs

(* split2: a record ends before a newline and begins after one.            *)
RecordEnds(s) == {k \in DOMAIN s : s[k] # NL /\ CharAt(s, k + 1) \in {NL, NUL}}
RecordStart(s, k) == Max({0} \cup {l \in 1..k : CharAt(s, l) = NL})

LEMMA RecordStartIs == ASSUME NEW s, NEW b \in Nat, NEW k \in Nat, b <= k, b = 0 \/ CharAt(s, b) = NL,
                              \A y \in b + 1..k : CharAt(s, y) # NL
                       PROVE  RecordStart(s, k) = b
<1> DEFINE S == {0} \cup {l \in 1..k : CharAt(s, l) = NL}
<1>1. RecordStart(s, k) = CHOOSE x \in S : \A y \in S : x >= y
  BY DEF RecordStart, Max
<1>2. b \in S /\ \A y \in S : b >= y
  OBVIOUS
<1>3. S \subseteq Nat
  OBVIOUS
<1>4. \A x \in S : (\A y \in S : x >= y) => x = b
  BY <1>2, <1>3
<1> HIDE DEF S
<1> QED BY <1>1, <1>2, <1>4

(* So it gives back the records the answer was made of.                    *)
RecordsCut(p) ==
  /\ Len(split2(Ended(p, NL), NL)) = Len(p)
  /\ DOMAIN split2(Ended(p, NL), NL) = 1..Len(p)
  /\ \A n \in 1..Len(p) : split2(Ended(p, NL), NL)[n] = p[n]

LEMMA RecordsCutIs == ASSUME NEW p \in Seq(Seq(Symbol)), \A n \in 1..Len(p) : RecordIs(p[n])
                      PROVE  RecordsCut(p)
<1>1. PICK N \in Nat : N = Len(p)
  OBVIOUS
<1>2. NL \in Symbol
  BY DEF Symbol, Character
<1>3. PICK s, st : s = Ended(p, NL) /\ s \in Seq(Symbol) /\ Laid(s, p, NL, TRUE, st)
  BY <1>2, EndedLaid
<1>4. PICK e \in Nat : e = Len(s) /\ DOMAIN s = 1..e
  BY <1>3
<1>5. /\ \A q \in 1..st[N + 1] - 1 : \E n \in 1..N : q \in st[n]..st[n + 1] - 1
      /\ \A m \in 1..N + 1 : \A n \in 1..m - 1 : st[n + 1] <= st[m]
  BY <1>1, <1>3, LaidEvery
<1>6. e = st[N + 1] - 1
  BY <1>1, <1>3, <1>4 DEF Laid
<1> DEFINE Piece(n, a, l) ==
             /\ st[n] = a + 1 /\ Len(p[n]) = l /\ st[n + 1] = a + l + 2 /\ a + l + 1 <= e /\ l > 0
             /\ \A k \in 1..l : s[a + k] = p[n][k] /\ CharAt(s, a + k) = p[n][k] /\ p[n][k] # NL /\ p[n][k] # NUL
             /\ s[a + l + 1] = NL /\ CharAt(s, a + l + 1) = NL
             /\ a = 0 \/ CharAt(s, a) = NL
<1>7. ASSUME NEW n \in 1..N PROVE \E a, l \in Nat : Piece(n, a, l)
  <2>1. PICK a, l, d \in Nat : PieceAt(s, p, NL, TRUE, st, n, a, l, d)
    <3>1. TRUE \in BOOLEAN /\ n \in 1..Len(p)
      BY <1>1
    <3> QED BY <1>3, <3>1, LaidPiece
  <2>2. /\ st[n] = a + 1 /\ Len(p[n]) = l /\ st[n + 1] = a + l + 2 /\ a + l + 1 <= e
        /\ \A k \in 1..l : s[a + k] = p[n][k] /\ CharAt(s, a + k) = p[n][k]
        /\ s[a + l + 1] = NL /\ CharAt(s, a + l + 1) = NL
        /\ n = 1 => a = 0
        /\ n > 1 => CharAt(s, a) = NL
    BY <1>4, <2>1 DEF PieceAt
  <2>3. p[n] \in Seq(Symbol) /\ p[n] # <<>> /\ \A k \in 1..l : p[n][k] # NL /\ p[n][k] # NUL
    BY <1>1, <2>2 DEF RecordIs
  <2>4. l > 0
    BY <2>2, <2>3
  <2>5. a = 0 \/ CharAt(s, a) = NL
    <3>1. n = 1 \/ n > 1
      OBVIOUS
    <3> QED BY <2>2, <3>1
  <2>6. Piece(n, a, l)
    BY <2>2, <2>3, <2>4, <2>5
  <2> QED BY <2>6
<1> DEFINE E == [n \in 1..N |-> st[n + 1] - 2]
<1>8. ASSUME NEW n \in 1..N, NEW a \in Nat, NEW l \in Nat, Piece(n, a, l)
      PROVE  /\ E[n] = a + l /\ E[n] \in RecordEnds(s) /\ E[n] \in Nat
             /\ SubSeq(s, RecordStart(s, E[n]) + 1, E[n]) = p[n]
             /\ \A k \in a + 1..a + l + 1 : k \in RecordEnds(s) => k = E[n]
  <2>1. /\ st[n] = a + 1 /\ Len(p[n]) = l /\ st[n + 1] = a + l + 2 /\ a + l + 1 <= e /\ l > 0
        /\ \A k \in 1..l : s[a + k] = p[n][k] /\ CharAt(s, a + k) = p[n][k] /\ p[n][k] # NL /\ p[n][k] # NUL
        /\ s[a + l + 1] = NL /\ CharAt(s, a + l + 1) = NL
        /\ a = 0 \/ CharAt(s, a) = NL
    BY <1>8
  <2> HIDE DEF Piece
  <2>2. E[n] = a + l
    BY <2>1
  <2> HIDE DEF E
  <2>3. a + l \in RecordEnds(s)
    <3>1. l \in 1..l /\ a + l \in 1..e /\ (a + l) + 1 = a + l + 1
      BY <2>1
    <3>2. s[a + l] # NL /\ CharAt(s, (a + l) + 1) = NL
      BY <2>1, <3>1
    <3> QED BY <1>4, <3>1, <3>2 DEF RecordEnds
  <2>4. RecordStart(s, a + l) = a
    <3>1. ASSUME NEW y \in a + 1..a + l PROVE CharAt(s, y) # NL
      <4>1. y - a \in 1..l /\ a + (y - a) = y
        OBVIOUS
      <4> QED BY <2>1, <4>1
    <3>2. a <= a + l /\ a + l \in Nat
      OBVIOUS
    <3> QED BY <2>1, <3>1, <3>2, RecordStartIs
  <2>5. SubSeq(s, a + 1, a + l) = p[n]
    <3>1. PICK x \in Seq(Symbol) : x = p[n] /\ Len(x) = l
      BY <1>1, <2>1
    <3>2. a + Len(x) <= Len(s) /\ \A k \in 1..Len(x) : s[a + k] = x[k]
      BY <1>4, <2>1, <3>1
    <3>3. SubSeq(s, a + 1, a + Len(x)) = x
      BY <1>3, <3>2, TextCut
    <3> QED BY <3>1, <3>3
  <2>6. ASSUME NEW k \in a + 1..a + l + 1, k \in RecordEnds(s) PROVE k = a + l
    <3>1. s[k] # NL /\ CharAt(s, k + 1) \in {NL, NUL}
      BY <2>6 DEF RecordEnds
    <3>2. k # a + l + 1
      BY <2>1, <3>1
    <3>3. ASSUME k # a + l PROVE FALSE
      <4>1. PICK m \in 1..l : k + 1 = a + m
        <5>1. (k + 1) - a \in 1..l /\ k + 1 = a + ((k + 1) - a)
          BY <3>2, <3>3
        <5> QED BY <5>1
      <4>2. CharAt(s, k + 1) = p[n][m] /\ p[n][m] # NL /\ p[n][m] # NUL
        BY <2>1, <4>1
      <4> QED BY <3>1, <4>2
    <3> QED BY <3>3
  <2>7. a + l \in Nat
    OBVIOUS
  <2>8. SubSeq(s, RecordStart(s, a + l) + 1, a + l) = p[n]
    BY <2>4, <2>5, Zenon
  <2>9. \A k \in a + 1..a + l + 1 : k \in RecordEnds(s) => k = a + l
    BY <2>6
  <2> QED BY <2>2, <2>3, <2>7, <2>8, <2>9, Zenon
<1> HIDE DEF Piece
<1>9. E \in [1..N -> Nat] /\ \A n \in 1..N : E[n] \in RecordEnds(s) /\ SubSeq(s, RecordStart(s, E[n]) + 1, E[n]) = p[n]
  <2>1. \A n \in 1..N : E[n] \in Nat /\ E[n] \in RecordEnds(s) /\ SubSeq(s, RecordStart(s, E[n]) + 1, E[n]) = p[n]
    BY <1>7, <1>8
  <2> QED BY <2>1
<1>10. \A k \in RecordEnds(s) : \E n \in 1..N : E[n] = k
  <2>1. ASSUME NEW k \in RecordEnds(s) PROVE \E n \in 1..N : E[n] = k
    <3>1. k \in 1..st[N + 1] - 1
      BY <1>4, <1>6 DEF RecordEnds
    <3>2. PICK n \in 1..N : k \in st[n]..st[n + 1] - 1
      BY <1>5, <3>1
    <3>3. PICK a, l \in Nat : Piece(n, a, l)
      BY <1>7
    <3>4. k \in a + 1..a + l + 1
      BY <3>2, <3>3 DEF Piece
    <3>5. k = E[n]
      BY <1>8, <3>3, <3>4
    <3> QED BY <3>5
  <2> QED BY <2>1
<1>11. Rising(E, N)
  <2>1. ASSUME NEW x \in 1..N, NEW y \in 1..N, x < y PROVE E[x] < E[y]
    <3>1. PICK a, l \in Nat : Piece(x, a, l)
      BY <1>7
    <3>2. PICK b, r \in Nat : Piece(y, b, r)
      BY <1>7
    <3>3. st[x + 1] <= st[y]
      <4>1. y \in 1..N + 1 /\ x \in 1..y - 1
        BY <2>1
      <4> QED BY <1>5, <4>1
    <3>4. E[x] = a + l /\ E[y] = b + r
      BY <1>8, <3>1, <3>2
    <3>5. st[x + 1] = a + l + 2 /\ st[y] = b + 1
      BY <3>1, <3>2 DEF Piece
    <3> HIDE DEF E
    <3> QED BY <3>3, <3>4, <3>5
  <2> QED BY <2>1 DEF Rising
<1> HIDE DEF E
<1>12. Ordered(RecordEnds(s)) = E /\ DOMAIN E = 1..N
  <2>1. Ordered(RecordEnds(s)) = E
    BY <1>9, <1>10, <1>11, OrderedIs
  <2> QED BY <1>9, <2>1
<1>13. split2(s, NL) = [n \in DOMAIN Ordered(RecordEnds(s)) |->
                          SubSeq(s, RecordStart(s, Ordered(RecordEnds(s))[n]) + 1, Ordered(RecordEnds(s))[n])]
  BY DEF split2, RecordEnds, RecordStart
<1>14. split2(s, NL) = [n \in 1..N |-> SubSeq(s, RecordStart(s, E[n]) + 1, E[n])]
  BY <1>12, <1>13
<1>15. split2(s, NL) = [n \in 1..N |-> p[n]]
  BY <1>9, <1>14
<1>16. PICK v : v = split2(s, NL)
  OBVIOUS
<1>17. v = [n \in 1..N |-> p[n]]
  BY <1>15, <1>16
<1>18. DOMAIN v = 1..N /\ Len(v) = N /\ \A n \in 1..N : v[n] = p[n]
  BY <1>17
<1> QED BY <1>1, <1>3, <1>16, <1>18 DEF RecordsCut

LEMMA InvRecordsAreRows == LoadInv => RecordsAreRows
<1> SUFFICES ASSUME LoadInv, stage = "answered", NoNewlines, cSize > 0
             PROVE  /\ Len(records) = rSize
                    /\ \A k \in DOMAIN records : records[k] = Record(csvTable[k - 1])
  BY DEF RecordsAreRows
<1>1. /\ AllSet /\ records = split2(Answer, NL) /\ DOMAIN csvTable = 0..rSize - 1
      /\ \A k \in 0..rSize - 1 : /\ k < i /\ ~Blank(k + 1) => RowIsSet(k)
                                 /\ ~(k < i /\ ~Blank(k + 1)) => csvTable[k] = Unset
  BY DEF LoadInv, EndInv, RowsInv
<1>2. rSize \in Nat /\ cSize \in Nat \ {0} /\ i \in 0..Len(file.lines) /\ Len(file.lines) \in Nat
  <2>1. IsFile(file) /\ data = Text(file)
    BY FilesAre DEF LoadInv, FileInv
  <2>2. data \in Seq(Character) /\ Len(file.lines) \in Nat
    BY <2>1, FileLaid, LineTextsAre
  <2>3. rSize \in Nat /\ cSize \in Nat
    BY <2>2, SizesAre
  <2> QED BY <2>2, <2>3 DEF LoadInv, PlaceInv
<1>3. ASSUME NEW k \in 0..rSize - 1 PROVE RecordIs(Record(csvTable[k]))
  <2>1. csvTable[k] # Unset
    BY <1>1 DEF AllSet
  <2>2. k < i /\ ~Blank(k + 1) /\ RowIsSet(k) /\ k \in Nat
    BY <1>1, <2>1
  <2>3. k + 1 \in 1..Len(file.lines)
    BY <1>2, <2>2
  <2>4. RowHolds(k)
    BY <2>2, <2>3, RowHoldsIt
  <2>5. PICK row \in Seq(Seq(Character \cup {"null"})) : row = csvTable[k] /\ Len(row) = cSize
    BY <2>4 DEF RowHolds
  <2>6. row # <<>>
    BY <1>2, <2>5
  <2>7. ASSUME NEW n \in 1..Len(row), NEW m \in 1..Len(row[n]) PROVE row[n][m] # NL
    <3>1. n \in DOMAIN row /\ row[n] \in Seq(Character \cup {"null"})
      BY <2>7
    <3>2. NL \notin ToSet(row[n])
      BY <1>1, <2>5, <3>1 DEF NoNewlines
    <3>3. PICK t \in Seq(Character \cup {"null"}) : t = row[n]
      BY <3>1
    <3>4. t[m] \in ToSet(t)
      BY <3>3 DEF ToSet
    <3> QED BY <3>2, <3>3, <3>4
  <2>8. RecordIs(Record(row))
    BY <2>6, <2>7, RecordsHaveNone
  <2> QED BY <2>5, <2>8
<1>4. PICK p : p = [k \in 1..rSize |-> Record(csvTable[k - 1])]
  OBVIOUS
<1>5. \A n \in 1..rSize : RecordIs(p[n])
  <2>1. \A n \in 1..rSize : n - 1 \in 0..rSize - 1
    BY <1>2
  <2> QED BY <1>3, <1>4, <2>1
<1>6. p \in Seq(Seq(Symbol)) /\ Len(p) = rSize
  <2>1. p \in [1..rSize -> Seq(Symbol)]
    BY <1>4, <1>5 DEF RecordIs
  <2> QED BY <1>2, <2>1
<1>7. RecordsCut(p)
  BY <1>5, <1>6, RecordsCutIs
<1>8. records = split2(Ended(p, NL), NL)
  BY <1>1, <1>4 DEF Answer
<1>9. Len(records) = rSize /\ DOMAIN records = 1..rSize /\ \A n \in 1..rSize : records[n] = p[n]
  BY <1>6, <1>7, <1>8 DEF RecordsCut
<1> QED BY <1>4, <1>9

(* The records that split2 (L884-948) cuts out of the answer to SELECT *   *)
(* (L419-442) are the rows of the table in their order, unless a cell      *)
(* holds a newline, for every file.                                        *)
THEOREM RecordsAlwaysRows == LoadSpec => []RecordsAreRows
<1>1. LoadInv => RecordsAreRows
  BY InvRecordsAreRows
<1> QED BY <1>1, LoadAlways, PTL
=============================================================================
