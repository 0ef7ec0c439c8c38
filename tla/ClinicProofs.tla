---------------------------- MODULE ClinicProofs ----------------------------
(***************************************************************************)
(* Proofs about Clinic for any number of nurses, vaccinators, citizens and *)
(* turns, any buffer and any file: the tallies of places and doses, mutual *)
(* exclusion in spite of interrupted waits, and that there is a citizen to *)
(* call whenever a vaccinator calls one.                                   *)
(***************************************************************************)
EXTENDS Clinic, FiniteSetTheorems, SequenceTheorems, WellFoundedInduction, TLAPS

-----------------------------------------------------------------------------
(* The inductive invariant.                                                *)

InsideLabels == {"inside", "mCitizen", "invite"}
TwoLabels    == {"m", "inside", "mCitizen", "invite"}

(* A wait is interrupted only by SIGINT; the counters of those who have    *)
(* left count processes; a citizen in mSafe has a turn to take.            *)
TypeInv ==
  /\ TypeOK
  /\ ~sigint => eintr = {}
  /\ nurseTermination <= AtLabels(Nurses, {"gone"})
  /\ deadCitizen <= AtLabels(Citizens, {"gone", "aborted"})
  /\ \A c \in Citizens : pc[c] = "naming" => turns[c] > 0

(* The counters are used by one process at a time.                         *)
Alone ==
  \A p, q \in Children : pc[p] \in InsideLabels /\ pc[q] \in InsideLabels => p = q

(* What fills the places that are full.                                    *)
Filled == firstDose + secDose + nurseTermination

Came == Cardinality(TurnsTaken)

(* The tallies of semaphores and processes, until SIGINT, which alone makes *)
(* a vaccinator wait for m a second time.                                  *)
Equations ==
  ~sigint =>
    /\ \A p \in Vaccinators : pc[p] # "mAgain"
    /\ sem["m"] + AtLabels(Children, InsideLabels) = 1
    /\ sem["empty"] + sem["full"] + AtLabels(Nurses, {"m", "inside"})
         + AtLabels(Vaccinators, {"full2"}) + 2 * AtLabels(Vaccinators, TwoLabels)
         = sizeOftheBuffer
    /\ sem["full"] + AtLabels(Vaccinators, {"full2"}) + 2 * AtLabels(Vaccinators, TwoLabels)
         = Filled
    /\ sem["mSafe"] + AtLabels(Citizens, {"naming"}) = 1
    /\ sem["mCitizen"] + totalAppliedDose + AtLabels(Vaccinators, {"invite"})
         = Came + AtLabels(Citizens, {"naming"})

(* The shelf is never overdrawn.                                           *)
Shelf == firstDose >= 0 /\ secDose >= 0 /\ totalAppliedDose <= doses

(* What a vaccinator has found when it looked is there until it has used   *)
(* it, since it is alone.                                                  *)
EnoughDoses ==
  \A p \in Vaccinators : pc[p] \in {"mCitizen", "invite"} =>
    firstDose > 0 /\ secDose > 0 /\ totalAppliedDose < doses

(* Citizens name themselves when they come, and who is called has come.    *)
SomebodyCame ==
  /\ currCitizen = NoCitizen => \A c \in Citizens : turns[c] = numOfDose
  /\ \A c \in Citizens : currCitizen = c \/ invited[c] > 0 => turns[c] < numOfDose

ClinicInv ==
  TypeInv /\ Equations /\ Alone /\ Shelf /\ EnoughDoses /\ SomebodyCame

-----------------------------------------------------------------------------
(* Lemmas about the processes.                                             *)

LEMMA Sets ==
  /\ IsFiniteSet(Processes) /\ Children \subseteq Processes
  /\ Nurses \subseteq Children /\ Vaccinators \subseteq Children
  /\ Citizens \subseteq Children /\ Parent \in Processes
  /\ \A p \in Nurses : p \notin Vaccinators /\ p \notin Citizens
  /\ \A p \in Vaccinators : p \notin Nurses /\ p \notin Citizens
  /\ Parent \notin Nurses /\ Parent \notin Vaccinators /\ Parent \notin Citizens
BY ClinicAssumption DEF Processes, Children

LEMMA FirstWaits ==
  /\ \A p \in Nurses : FirstWait(p) = "empty"
  /\ \A p \in Vaccinators : FirstWait(p) = "mConsumer"
  /\ \A p \in Citizens : FirstWait(p) = "mSafe"
BY Sets DEF FirstWait

LEMMA AtFinite ==
  ASSUME NEW S \in SUBSET Processes, NEW ls
  PROVE  /\ IsFiniteSet({p \in S : pc[p] \in ls})
         /\ AtLabels(S, ls) \in Nat
         /\ AtLabels(S, ls) <= Cardinality(S)
         /\ AtLabels(S, ls) = 0 <=> \A p \in S : pc[p] \notin ls
<1> DEFINE A == {p \in S : pc[p] \in ls}
<1>1. IsFiniteSet(S) /\ IsFiniteSet(A) /\ Cardinality(A) <= Cardinality(S)
  BY Sets, FS_Subset
<1>2. Cardinality(A) \in Nat /\ (Cardinality(A) = 0 <=> A = {})
  BY <1>1, FS_CardinalityType, FS_EmptySet
<1> QED
  BY <1>1, <1>2 DEF AtLabels

(* A process that moves leaves the labels it was at and comes to others.   *)
Delta(p, l, S, ls) == (IF p \in S /\ l \in ls THEN 1 ELSE 0)
                      - (IF p \in S /\ pc[p] \in ls THEN 1 ELSE 0)

LEMMA Moves ==
  ASSUME pc \in [Processes -> Places], NEW p \in Processes, NEW l,
         pc' = [pc EXCEPT ![p] = l], NEW S \in SUBSET Processes, NEW ls
  PROVE  AtLabels(S, ls)' = AtLabels(S, ls) + Delta(p, l, S, ls)
<1> DEFINE A == {q \in S : pc[q] \in ls}
           B == {q \in S : pc'[q] \in ls}
<1>1. /\ IsFiniteSet(A) /\ Cardinality(A) \in Nat
      /\ AtLabels(S, ls) = Cardinality(A) /\ AtLabels(S, ls)' = Cardinality(B)
  BY AtFinite DEF AtLabels
<1> HIDE DEF A, B
<1>2. CASE p \in S /\ pc[p] \in ls /\ l \notin ls
  <2>1. B = A \ {p} /\ p \in A
    BY <1>2 DEF A, B
  <2>2. Cardinality(B) = Cardinality(A) - 1
    BY <1>1, <2>1, FS_RemoveElement
  <2> QED
    BY <1>1, <1>2, <2>2 DEF Delta
<1>3. CASE p \in S /\ pc[p] \notin ls /\ l \in ls
  <2>1. B = A \cup {p} /\ p \notin A
    BY <1>3 DEF A, B
  <2>2. Cardinality(B) = Cardinality(A) + 1
    BY <1>1, <2>1, FS_AddElement
  <2> QED
    BY <1>1, <1>3, <2>2 DEF Delta
<1>4. CASE ~(p \in S /\ pc[p] \in ls /\ l \notin ls) /\ ~(p \in S /\ pc[p] \notin ls /\ l \in ls)
  <2>1. B = A
    BY <1>4 DEF A, B
  <2> QED
    BY <1>1, <1>4, <2>1 DEF Delta
<1> QED
  BY <1>2, <1>3, <1>4

(* The tallies the invariants speak of, after a move.                      *)
LEMMA TalliesMove ==
  ASSUME TypeOK, NEW p \in Processes, NEW l, pc' = [pc EXCEPT ![p] = l]
  PROVE  /\ AtLabels(Nurses, {"m", "inside"})'
              = AtLabels(Nurses, {"m", "inside"}) + Delta(p, l, Nurses, {"m", "inside"})
         /\ AtLabels(Nurses, {"gone"})'
              = AtLabels(Nurses, {"gone"}) + Delta(p, l, Nurses, {"gone"})
         /\ AtLabels(Citizens, {"gone", "aborted"})'
              = AtLabels(Citizens, {"gone", "aborted"})
                + Delta(p, l, Citizens, {"gone", "aborted"})
         /\ AtLabels(Citizens, {"naming"})'
              = AtLabels(Citizens, {"naming"}) + Delta(p, l, Citizens, {"naming"})
         /\ AtLabels(Vaccinators, {"full2"})'
              = AtLabels(Vaccinators, {"full2"}) + Delta(p, l, Vaccinators, {"full2"})
         /\ AtLabels(Vaccinators, TwoLabels)'
              = AtLabels(Vaccinators, TwoLabels) + Delta(p, l, Vaccinators, TwoLabels)
         /\ AtLabels(Vaccinators, {"invite"})'
              = AtLabels(Vaccinators, {"invite"}) + Delta(p, l, Vaccinators, {"invite"})
         /\ AtLabels(Children, InsideLabels)'
              = AtLabels(Children, InsideLabels) + Delta(p, l, Children, InsideLabels)
<1>1. pc \in [Processes -> Places]
  BY DEF TypeOK
<1>2. /\ Nurses \in SUBSET Processes /\ Vaccinators \in SUBSET Processes
      /\ Citizens \in SUBSET Processes /\ Children \in SUBSET Processes
  BY Sets
<1>3. ASSUME NEW S \in SUBSET Processes, NEW ls
      PROVE  AtLabels(S, ls)' = AtLabels(S, ls) + Delta(p, l, S, ls)
  BY <1>1, Moves
<1> QED
  BY <1>2, <1>3

LEMMA TalliesAreNat ==
  /\ AtLabels(Nurses, {"m", "inside"}) \in Nat
  /\ AtLabels(Nurses, {"gone"}) \in Nat
  /\ AtLabels(Citizens, {"gone", "aborted"}) \in Nat
  /\ AtLabels(Citizens, {"naming"}) \in Nat
  /\ AtLabels(Vaccinators, {"full2"}) \in Nat
  /\ AtLabels(Vaccinators, TwoLabels) \in Nat
  /\ AtLabels(Vaccinators, {"invite"}) \in Nat
  /\ AtLabels(Children, InsideLabels) \in Nat
<1>1. /\ Nurses \in SUBSET Processes /\ Vaccinators \in SUBSET Processes
      /\ Citizens \in SUBSET Processes /\ Children \in SUBSET Processes
  BY Sets
<1> QED
  BY <1>1, AtFinite

-----------------------------------------------------------------------------
(* Lemmas about the semaphores.                                            *)

PostsOf(ss, s) == {i \in 1..Len(ss) : ss[i] = s}

LEMMA PostedAt ==
  ASSUME NEW f \in [Semaphores -> Nat], NEW ss, NEW s \in Semaphores
  PROVE  Posted(f, ss)[s] = f[s] + Cardinality(PostsOf(ss, s))
BY DEF Posted, PostsOf

LEMMA PostedTyped ==
  ASSUME NEW f \in [Semaphores -> Nat], NEW ss, Len(ss) \in Nat
  PROVE  Posted(f, ss) \in [Semaphores -> Nat]
<1>1. ASSUME NEW s PROVE Cardinality(PostsOf(ss, s)) \in Nat
  <2>1. IsFiniteSet(1..Len(ss)) /\ PostsOf(ss, s) \subseteq 1..Len(ss)
    BY FS_Interval DEF PostsOf
  <2> QED
    BY <2>1, FS_Subset, FS_CardinalityType
<1>2. Posted(f, ss) = [s \in Semaphores |-> f[s] + Cardinality(PostsOf(ss, s))]
  BY DEF Posted, PostsOf
<1> QED
  BY <1>1, <1>2

(* The posts of the clinic, counted.                                       *)
LEMMA OnePost ==
  ASSUME NEW f \in [Semaphores -> Nat], NEW a \in Semaphores, NEW s \in Semaphores
  PROVE  Posted(f, <<a>>)[s] = IF s = a THEN f[s] + 1 ELSE f[s]
<1>1. PostsOf(<<a>>, s) = IF s = a THEN {1} ELSE {}
  BY DEF PostsOf
<1>2. Cardinality(PostsOf(<<a>>, s)) = IF s = a THEN 1 ELSE 0
  BY <1>1, FS_Singleton, FS_EmptySet
<1> QED
  BY <1>2, PostedAt

LEMMA TwoPosts ==
  ASSUME NEW f \in [Semaphores -> Nat], NEW a, NEW b, a # b, NEW s \in Semaphores
  PROVE  Posted(f, <<a, b>>)[s] = IF s \in {a, b} THEN f[s] + 1 ELSE f[s]
<1>1. PostsOf(<<a, b>>, s) = IF s = a THEN {1} ELSE IF s = b THEN {2} ELSE {}
  BY DEF PostsOf
<1>2. Cardinality(PostsOf(<<a, b>>, s)) = IF s \in {a, b} THEN 1 ELSE 0
  BY <1>1, FS_Singleton, FS_EmptySet
<1> QED
  BY <1>2, PostedAt

LEMMA TwoElements == Cardinality({2, 3}) = 2 /\ Cardinality({3, 4}) = 2
<1>1. {2, 3} = {2} \cup {3} /\ 3 \notin {2} /\ {3, 4} = {3} \cup {4} /\ 4 \notin {3}
  OBVIOUS
<1>2. \A i : IsFiniteSet({i}) /\ Cardinality({i}) = 1
  BY FS_Singleton
<1>3. Cardinality({2} \cup {3}) = Cardinality({2}) + 1
  BY <1>1, <1>2, FS_AddElement
<1>4. Cardinality({3} \cup {4}) = Cardinality({3}) + 1
  BY <1>1, <1>2, FS_AddElement
<1> QED
  BY <1>1, <1>2, <1>3, <1>4, SMTT(30)

(* A vaccinator posts m, one semaphore twice, and mConsumer.               *)
LEMMA FourPosts ==
  ASSUME NEW f \in [Semaphores -> Nat], NEW s \in Semaphores
  PROVE  Posted(f, <<"m", "full", "full", "mConsumer">>)[s]
           = IF s = "full" THEN f[s] + 2
             ELSE IF s \in {"m", "mConsumer"} THEN f[s] + 1 ELSE f[s]
<1> DEFINE ss == <<"m", "full", "full", "mConsumer">>
<1>1. PostsOf(ss, s) = IF s = "m" THEN {1} ELSE IF s = "full" THEN {2, 3}
                       ELSE IF s = "mConsumer" THEN {4} ELSE {}
  BY DEF PostsOf
<1>2. Cardinality(PostsOf(ss, s)) = IF s = "full" THEN 2
                                    ELSE IF s \in {"m", "mConsumer"} THEN 1 ELSE 0
  BY <1>1, TwoElements, FS_Singleton, FS_EmptySet
<1>3. Posted(f, ss)[s] = f[s] + Cardinality(PostsOf(ss, s))
  BY PostedAt
<1> HIDE DEF ss
<1> QED
  BY <1>2, <1>3 DEF ss

LEMMA FivePosts ==
  ASSUME NEW f \in [Semaphores -> Nat], NEW s \in Semaphores
  PROVE  Posted(f, <<"mSafe", "m", "empty", "empty", "mConsumer">>)[s]
           = IF s = "empty" THEN f[s] + 2
             ELSE IF s \in {"mSafe", "m", "mConsumer"} THEN f[s] + 1 ELSE f[s]
<1> DEFINE ss == <<"mSafe", "m", "empty", "empty", "mConsumer">>
<1>1. PostsOf(ss, s) = IF s = "mSafe" THEN {1} ELSE IF s = "m" THEN {2}
                       ELSE IF s = "empty" THEN {3, 4}
                       ELSE IF s = "mConsumer" THEN {5} ELSE {}
  BY DEF PostsOf
<1>2. Cardinality(PostsOf(ss, s)) = IF s = "empty" THEN 2
                                    ELSE IF s \in {"mSafe", "m", "mConsumer"} THEN 1 ELSE 0
  BY <1>1, TwoElements, FS_Singleton, FS_EmptySet
<1>3. Posted(f, ss)[s] = f[s] + Cardinality(PostsOf(ss, s))
  BY PostedAt
<1> HIDE DEF ss
<1> QED
  BY <1>2, <1>3 DEF ss

(* A wait that returns leaves the semaphores well-formed, and takes one    *)
(* unless SIGINT has interrupted it.                                       *)
LEMMA AfterTyped ==
  ASSUME TypeOK, NEW p, NEW s \in Semaphores, CanPass(p, s)
  PROVE  /\ After(p, s) \in [Semaphores -> Nat]
         /\ eintr = {} => /\ sem[s] > 0
                          /\ After(p, s) = [sem EXCEPT ![s] = @ - 1]
BY DEF TypeOK, CanPass, After

LEMMA BuffersTyped ==
  ASSUME NEW f \in [Semaphores -> Nat]
  PROVE  /\ \A ss \in {<<"empty">>, <<"m", "empty">>, <<"m", "full">>, <<"mConsumer">>,
                       <<"full", "mConsumer">>, <<"full", "full", "mConsumer">>,
                       <<"mSafe", "m", "empty", "empty", "mConsumer">>, <<"mSafe">>,
                       <<"m", "full", "full", "mConsumer">>, <<"mCitizen">>,
                       <<"mCitizen">> \o <<"m", "full", "full", "mConsumer">>} :
              Posted(f, ss) \in [Semaphores -> Nat]
<1> DEFINE long == <<"mCitizen">> \o <<"m", "full", "full", "mConsumer">>
<1>1. Len(long) = 5
  OBVIOUS
<1> HIDE DEF long
<1>2. ASSUME NEW ss \in {<<"empty">>, <<"m", "empty">>, <<"m", "full">>, <<"mConsumer">>,
                         <<"full", "mConsumer">>, <<"full", "full", "mConsumer">>,
                         <<"mSafe", "m", "empty", "empty", "mConsumer">>, <<"mSafe">>,
                         <<"m", "full", "full", "mConsumer">>, <<"mCitizen">>, long}
      PROVE  Posted(f, ss) \in [Semaphores -> Nat]
  <2>1. Len(ss) \in Nat
    BY <1>1, <1>2
  <2> QED
    BY <2>1, PostedTyped
<1> QED
  BY <1>2 DEF long

-----------------------------------------------------------------------------
(* Type correctness.                                                       *)

(* A process that has not left moves; the counters of those who have left  *)
(* grow with the process they count.                                       *)
LEMMA LeaversCounted ==
  ASSUME TypeInv, NEW p \in Processes, NEW l \in Places, pc' = [pc EXCEPT ![p] = l],
         pc[p] \notin {"gone", "aborted"},
         nurseTermination' = nurseTermination
           \/ (p \in Nurses /\ l = "gone" /\ nurseTermination' = nurseTermination + 1),
         deadCitizen' = deadCitizen
           \/ (p \in Citizens /\ l \in {"gone", "aborted"} /\ deadCitizen' = deadCitizen + 1)
  PROVE  /\ pc' \in [Processes -> Places]
         /\ nurseTermination' \in 0..Cardinality(Nurses)
         /\ nurseTermination' <= AtLabels(Nurses, {"gone"})'
         /\ deadCitizen' \in 0..Cardinality(Citizens)
         /\ deadCitizen' <= AtLabels(Citizens, {"gone", "aborted"})'
         /\ \A q \in Processes : pc'[q] = IF q = p THEN l ELSE pc[q]
<1> USE DEF TypeInv
<1>1. /\ pc' \in [Processes -> Places]
      /\ \A q \in Processes : pc'[q] = IF q = p THEN l ELSE pc[q]
  BY DEF TypeOK
<1> DEFINE n == AtLabels(Nurses, {"gone"})
           c == AtLabels(Citizens, {"gone", "aborted"})
<1>7. /\ n' = n + Delta(p, l, Nurses, {"gone"}) /\ n \in Nat
      /\ c' = c + Delta(p, l, Citizens, {"gone", "aborted"}) /\ c \in Nat
  BY TalliesMove, TalliesAreNat
<1>8. nurseTermination <= n /\ deadCitizen <= c
  OBVIOUS
<1>9. nurseTermination \in Nat /\ deadCitizen \in Nat
  BY DEF TypeOK
<1>3. n' <= Cardinality(Nurses) /\ c' <= Cardinality(Citizens)
  <2>1. Nurses \in SUBSET Processes /\ Citizens \in SUBSET Processes
    BY Sets
  <2>2. /\ n' = Cardinality({q \in Nurses : pc'[q] \in {"gone"}})
        /\ c' = Cardinality({q \in Citizens : pc'[q] \in {"gone", "aborted"}})
    BY DEF AtLabels
  <2>3. IsFiniteSet(Nurses) /\ IsFiniteSet(Citizens)
    BY <2>1, Sets, FS_Subset
  <2>4. /\ {q \in Nurses : pc'[q] \in {"gone"}} \in SUBSET Nurses
        /\ {q \in Citizens : pc'[q] \in {"gone", "aborted"}} \in SUBSET Citizens
    OBVIOUS
  <2>5. Cardinality({q \in Nurses : pc'[q] \in {"gone"}}) <= Cardinality(Nurses)
    BY <2>3, <2>4, FS_Subset
  <2>6. Cardinality({q \in Citizens : pc'[q] \in {"gone", "aborted"}})
          <= Cardinality(Citizens)
    BY <2>3, <2>4, FS_Subset
  <2> QED
    BY <2>2, <2>5, <2>6
<1> HIDE DEF n, c
<1>2. nurseTermination' <= n' /\ deadCitizen' <= c'
  BY <1>7, <1>8, <1>9 DEF Delta
<1>4. nurseTermination' \in Nat /\ deadCitizen' \in Nat
  BY DEF TypeOK
<1>5. Cardinality(Nurses) \in Nat /\ Cardinality(Citizens) \in Nat
  BY Sets, FS_Subset, FS_CardinalityType
<1>6. n' \in Int /\ c' \in Int
  BY <1>7 DEF Delta
<1> QED
  BY <1>1, <1>2, <1>3, <1>4, <1>5, <1>6 DEF n, c

LEMMA TypeNurse ==
  ASSUME TypeInv, NEW p \in Nurses, NurseStep(p)
  PROVE  TypeInv'
<1> USE DEF TypeInv
<1>1. p \in Processes /\ p \notin Citizens /\ sem \in [Semaphores -> Nat]
  BY Sets DEF TypeOK
<1>2. /\ \E l \in Places :
           /\ pc' = [pc EXCEPT ![p] = l]
           /\ \/ nurseTermination' = nurseTermination
              \/ l = "gone" /\ nurseTermination' = nurseTermination + 1
      /\ pc[p] \notin {"gone", "aborted"}
  BY FirstWaits DEF NurseStep, Again, NurseTakesPlace, NurseLocks, NurseBrings, Returns,
         Goto, Places, Waits, Semaphores
<1>3. UNCHANGED <<totalAppliedDose, deadCitizen, currCitizen, turns, invited, sigint, reached>>
  BY DEF NurseStep, Again, NurseTakesPlace, NurseLocks, NurseBrings, Returns, signals
<1>4. /\ pc' \in [Processes -> Places]
      /\ nurseTermination' \in 0..Cardinality(Nurses)
      /\ nurseTermination' <= AtLabels(Nurses, {"gone"})'
      /\ deadCitizen' \in 0..Cardinality(Citizens)
      /\ deadCitizen' <= AtLabels(Citizens, {"gone", "aborted"})'
      /\ \A c \in Citizens : pc'[c] = "naming" => turns'[c] > 0
  <2>1. PICK l \in Places :
          /\ pc' = [pc EXCEPT ![p] = l]
          /\ \/ nurseTermination' = nurseTermination
             \/ p \in Nurses /\ l = "gone" /\ nurseTermination' = nurseTermination + 1
    BY <1>2
  <2>2. \A c \in Citizens : c # p /\ c \in Processes
    BY <1>1, Sets
  <2> QED
    BY <1>1, <1>2, <1>3, <2>1, <2>2, LeaversCounted
<1>5. sem' \in [Semaphores -> Nat]
  <2>2. CASE NurseTakesPlace(p)
    <3>1. CanPass(p, "empty") /\ sem' \in {After(p, "empty"), Posted(After(p, "empty"), <<"empty">>)}
      BY <2>2 DEF NurseTakesPlace, Returns
    <3> QED
      BY <3>1, AfterTyped, BuffersTyped DEF Semaphores
  <2>3. CASE NurseLocks(p)
    <3>1. CanPass(p, "m") /\ sem' \in {After(p, "m"), Posted(After(p, "m"), <<"m", "empty">>)}
      BY <2>3 DEF NurseLocks, Returns
    <3> QED
      BY <3>1, AfterTyped, BuffersTyped DEF Semaphores
  <2>4. CASE NurseBrings(p)
    <3>1. sem' \in {Posted(sem, <<"m", "empty">>), Posted(sem, <<"m", "full">>)}
      BY <2>4 DEF NurseBrings, EofPosts, OtherPosts
    <3> QED
      BY <1>1, <3>1, BuffersTyped
  <2> QED
    BY <2>2, <2>3, <2>4 DEF NurseStep
<1>6. file' \in Seq({"1", "2", "other"}) /\ isEof' \in BOOLEAN
  <2>1. CASE NurseBrings(p)
    <3>1. file' = file \/ (file # <<>> /\ file' = Tail(file))
      BY <2>1 DEF NurseBrings
    <3>2. isEof' \in BOOLEAN
      BY <2>1, Zenon DEF NurseBrings
    <3>3. file \in Seq({"1", "2", "other"})
      BY DEF TypeOK
    <3> QED
      BY ONLY <3>1, <3>2, <3>3, HeadTailProperties, Zenon
  <2>2. CASE NurseTakesPlace(p) \/ NurseLocks(p)
    BY <2>2 DEF NurseTakesPlace, NurseLocks, TypeOK
  <2> QED
    BY <2>1, <2>2 DEF NurseStep
<1>7. firstDose' \in Int /\ secDose' \in Int
  BY DEF NurseStep, Again, NurseTakesPlace, NurseLocks, NurseBrings, shelf, TypeOK
<1>8. eintr' \subseteq eintr
  BY DEF NurseStep, Again, NurseTakesPlace, NurseLocks, NurseBrings, Returns, signals
<1> QED
  BY <1>3, <1>4, <1>5, <1>6, <1>7, <1>8 DEF TypeOK

LEMMA TypeVaccinator ==
  ASSUME TypeInv, NEW p \in Vaccinators, VaccinatorStep(p)
  PROVE  TypeInv'
<1> USE DEF TypeInv
<1>1. p \in Processes /\ p \notin Citizens /\ p \notin Nurses /\ sem \in [Semaphores -> Nat]
  BY Sets DEF TypeOK
<1>2. /\ \E l \in Places : pc' = [pc EXCEPT ![p] = l]
      /\ pc[p] \notin {"gone", "aborted"}
  BY FirstWaits DEF VaccinatorStep, Again, VaccinatorTakes, VaccinatorLocks, IfLocked,
         VaccinatorAborts, VaccinatorLooks, VaccinatorMeetsCitizen, Vaccinate, Returns, Goto,
         Places, Waits, Semaphores
<1>3. UNCHANGED <<nurseTermination, deadCitizen, currCitizen, isEof, file, turns, sigint,
                  reached>>
  BY DEF VaccinatorStep, Again, VaccinatorTakes, VaccinatorLocks,
         VaccinatorAborts, VaccinatorLooks, VaccinatorMeetsCitizen, Vaccinate, Returns, signals
<1>4. /\ pc' \in [Processes -> Places]
      /\ nurseTermination' \in 0..Cardinality(Nurses)
      /\ nurseTermination' <= AtLabels(Nurses, {"gone"})'
      /\ deadCitizen' \in 0..Cardinality(Citizens)
      /\ deadCitizen' <= AtLabels(Citizens, {"gone", "aborted"})'
      /\ \A c \in Citizens : pc'[c] = "naming" => turns'[c] > 0
  <2>1. \A c \in Citizens : c # p /\ c \in Processes
    BY <1>1, Sets
  <2> QED
    BY <1>1, <1>2, <1>3, <2>1, LeaversCounted
<1>5. sem' \in [Semaphores -> Nat]
  <2>1. CASE Vaccinate(p)
    <3>1. /\ CanPass(p, "mSafe")
          /\ sem' = Posted(After(p, "mSafe"), <<"mSafe", "m", "empty", "empty", "mConsumer">>)
      BY <2>1 DEF Vaccinate, UsedPosts
    <3> QED
      BY <3>1, AfterTyped, BuffersTyped DEF Semaphores
  <2>2. CASE VaccinatorTakes(p)
    <3>1. \/ /\ CanPass(p, "mConsumer")
             /\ sem' \in {After(p, "mConsumer"), Posted(After(p, "mConsumer"), <<"mConsumer">>)}
          \/ /\ CanPass(p, "full")
             /\ sem' \in {After(p, "full"), Posted(After(p, "full"), <<"full", "mConsumer">>),
                          Posted(After(p, "full"), <<"full", "full", "mConsumer">>)}
      BY <2>2 DEF VaccinatorTakes, Returns
    <3> QED
      BY <3>1, AfterTyped, BuffersTyped DEF Semaphores
  <2>3. CASE VaccinatorLocks(p) \/ VaccinatorAborts(p)
    <3>1. CanPass(p, "m") /\ sem' \in {After(p, "m"), Posted(After(p, "m"), <<"full", "full", "mConsumer">>)}
      BY <2>3 DEF VaccinatorLocks, VaccinatorAborts, Returns
    <3> QED
      BY <3>1, AfterTyped, BuffersTyped DEF Semaphores
  <2>4. CASE VaccinatorLooks(p)
    <3>1. sem' \in {sem, Posted(sem, <<"m", "full", "full", "mConsumer">>)}
      BY <2>4 DEF VaccinatorLooks, PutBack
    <3> QED
      BY <1>1, <3>1, BuffersTyped
  <2>5. CASE VaccinatorMeetsCitizen(p)
    <3>1. /\ CanPass(p, "mCitizen")
          /\ sem' \in {After(p, "mCitizen"),
                       Posted(After(p, "mCitizen"),
                              <<"mCitizen">> \o <<"m", "full", "full", "mConsumer">>)}
      BY <2>5 DEF VaccinatorMeetsCitizen, Returns, PutBack
    <3> QED
      BY <3>1, AfterTyped, BuffersTyped DEF Semaphores
  <2> QED
    BY <2>1, <2>2, <2>3, <2>4, <2>5 DEF VaccinatorStep
<1>6. firstDose' \in Int /\ secDose' \in Int /\ totalAppliedDose' \in Nat
  BY DEF VaccinatorStep, Again, VaccinatorTakes, VaccinatorLocks,
         VaccinatorAborts, VaccinatorLooks, VaccinatorMeetsCitizen, Vaccinate, shelf, TypeOK
<1>7. invited' \in [Citizens -> Nat]
  <2>1. invited \in [Citizens -> Nat] /\ currCitizen \in Citizens \cup {NoCitizen}
    BY DEF TypeOK
  <2>2. \/ invited' = invited
        \/ /\ currCitizen # NoCitizen
           /\ invited' = [invited EXCEPT ![currCitizen] = @ + 1]
    BY DEF VaccinatorStep, Again, VaccinatorTakes, VaccinatorLocks,
           VaccinatorAborts, VaccinatorLooks, VaccinatorMeetsCitizen, Vaccinate
  <2> QED
    BY <2>1, <2>2
<1>8. eintr' \subseteq eintr
  BY DEF VaccinatorStep, Again, VaccinatorTakes, VaccinatorLocks,
         VaccinatorAborts, VaccinatorLooks, VaccinatorMeetsCitizen, Vaccinate, Returns, signals
<1> QED
  BY <1>3, <1>4, <1>5, <1>6, <1>7, <1>8 DEF TypeOK

LEMMA TypeCitizen ==
  ASSUME TypeInv, NEW c \in Citizens, CitizenStep(c)
  PROVE  TypeInv'
<1> USE DEF TypeInv
<1>1. /\ c \in Processes /\ c \notin Nurses /\ sem \in [Semaphores -> Nat]
      /\ pc \in [Processes -> Places] /\ Citizens \subseteq Processes
      /\ turns \in [Citizens -> 0..numOfDose]
  BY Sets DEF TypeOK
<1>2. /\ UNCHANGED <<firstDose, secDose, totalAppliedDose, nurseTermination, isEof, file,
                     invited, sigint, reached>>
      /\ eintr' \subseteq eintr
  BY DEF CitizenStep, CitizenPosts, CitizenComes, CitizenLeaves, Returns, shelf, signals
<1>3. PICK l \in {"naming", "mSafe", "gone", "aborted"} :
        /\ pc' = [pc EXCEPT ![c] = l]
        /\ deadCitizen' = deadCitizen
           \/ (l \in {"gone", "aborted"} /\ deadCitizen' = deadCitizen + 1)
        /\ l = "naming" => turns' = turns /\ turns[c] > 0
  BY FirstWaits DEF CitizenStep, CitizenPosts, CitizenComes, CitizenLeaves, Again, Goto
<1>4. pc[c] \notin {"gone", "aborted"}
  BY DEF CitizenStep, CitizenPosts, CitizenComes, CitizenLeaves, Returns
<1>5. /\ pc' \in [Processes -> Places]
      /\ nurseTermination' \in 0..Cardinality(Nurses)
      /\ nurseTermination' <= AtLabels(Nurses, {"gone"})'
      /\ deadCitizen' \in 0..Cardinality(Citizens)
      /\ deadCitizen' <= AtLabels(Citizens, {"gone", "aborted"})'
      /\ \A q \in Processes : pc'[q] = IF q = c THEN l ELSE pc[q]
  BY <1>1, <1>2, <1>3, <1>4, LeaversCounted DEF Places, Waits, Semaphores
<1>6. sem' \in [Semaphores -> Nat]
  <2>1. \/ /\ CanPass(c, "mSafe")
           /\ sem' \in {Posted(After(c, "mSafe"), <<"mCitizen">>),
                        Posted(After(c, "mSafe"), <<"mSafe">>)}
        \/ sem' = Posted(sem, <<"mSafe">>)
    BY DEF CitizenStep, CitizenPosts, CitizenComes, CitizenLeaves, Returns
  <2> QED
    BY <1>1, <2>1, AfterTyped, BuffersTyped DEF Semaphores
<1>7. \/ UNCHANGED <<turns, currCitizen>>
      \/ /\ pc[c] = "naming" /\ currCitizen' = c
         /\ turns' = [turns EXCEPT ![c] = turns[c] - 1]
  BY DEF CitizenStep, CitizenPosts, CitizenComes, CitizenLeaves, TurnsLeft, ComingCitizen
<1>8. turns' \in [Citizens -> 0..numOfDose] /\ currCitizen' \in Citizens \cup {NoCitizen}
  <2>1. pc[c] = "naming" => turns[c] - 1 \in 0..numOfDose
    BY <1>1, ClinicAssumption
  <2>2. currCitizen \in Citizens \cup {NoCitizen}
    BY DEF TypeOK
  <2> QED
    BY <1>1, <1>7, <2>1, <2>2
<1>9. \A d \in Citizens : pc'[d] = "naming" => turns'[d] > 0
  <2> TAKE d \in Citizens
  <2>1. CASE d = c
    BY <1>1, <1>3, <1>5, <2>1
  <2>2. CASE d # c
    BY <1>1, <1>5, <1>7, <2>2
  <2> QED
    BY <2>1, <2>2
<1> QED
  BY <1>2, <1>5, <1>6, <1>8, <1>9 DEF TypeOK

(* A process that finds the flag set only leaves.                          *)
LEMMA TypeTurnsAway ==
  ASSUME TypeInv, NEW p \in Children, TurnsAway(p)
  PROVE  TypeInv'
<1> USE DEF TypeInv
<1>1. p \in Processes /\ Citizens \subseteq Processes
  BY Sets
<1>2. /\ pc[p] = FirstWait(p) /\ pc' = [pc EXCEPT ![p] = "aborted"]
      /\ UNCHANGED <<sem, firstDose, secDose, totalAppliedDose, deadCitizen, nurseTermination,
                     currCitizen, isEof, file, turns, invited, sigint, eintr, reached>>
  BY DEF TurnsAway, Goto, shelf, signals
<1>3. pc[p] \notin {"gone", "aborted"}
  BY <1>2 DEF FirstWait
<1>4. /\ pc' \in [Processes -> Places]
      /\ nurseTermination' \in 0..Cardinality(Nurses)
      /\ nurseTermination' <= AtLabels(Nurses, {"gone"})'
      /\ deadCitizen' \in 0..Cardinality(Citizens)
      /\ deadCitizen' <= AtLabels(Citizens, {"gone", "aborted"})'
      /\ \A q \in Processes : pc'[q] = IF q = p THEN "aborted" ELSE pc[q]
  BY <1>1, <1>2, <1>3, LeaversCounted DEF Places
<1> QED
  BY <1>1, <1>2, <1>4 DEF TypeOK

(* The parent, SIGINT and stuttering: no counter changes.                  *)
LEMMA TypeOther ==
  ASSUME TypeInv, ParentCloses \/ (\E p \in Processes : Sigint(p)) \/ UNCHANGED vars
  PROVE  TypeInv'
<1> USE DEF TypeInv
<1>1. UNCHANGED <<sem, firstDose, secDose, totalAppliedDose, deadCitizen, nurseTermination,
                  currCitizen, isEof, file, turns, invited>>
  BY DEF ParentCloses, Sigint, vars, shelf
<1>2. /\ pc' \in [Processes -> Places]
      /\ \A p \in Children : pc'[p] = pc[p]
  <2>1. pc' = pc \/ \E l \in {"gone", "aborted"} : pc' = [pc EXCEPT ![Parent] = l]
    BY DEF ParentCloses, Sigint, vars, Goto
  <2> QED
    BY <2>1, ClinicAssumption DEF TypeOK, Places, Processes
<1>3. /\ AtLabels(Nurses, {"gone"})' = AtLabels(Nurses, {"gone"})
      /\ AtLabels(Citizens, {"gone", "aborted"})' = AtLabels(Citizens, {"gone", "aborted"})
  BY <1>2, Sets DEF AtLabels
<1>4. sigint' \in BOOLEAN /\ reached' \subseteq Processes
  BY DEF ParentCloses, Sigint, vars, signals, TypeOK
<1>5. eintr' \subseteq Processes /\ (~sigint' => eintr' = {})
  BY DEF ParentCloses, Sigint, vars, signals, TypeOK
<1> QED
  BY <1>1, <1>2, <1>3, <1>4, <1>5, Sets DEF TypeOK

-----------------------------------------------------------------------------
(* The tallies.                                                            *)

LEMMA CameIsNat == IsFiniteSet(TurnsTaken) /\ Came \in Nat
<1>1. IsFiniteSet(Citizens) /\ IsFiniteSet(1..numOfDose)
  <2>1. Citizens \in SUBSET Processes /\ numOfDose \in Nat
    BY Sets, ClinicAssumption
  <2> QED
    BY <2>1, Sets, FS_Subset, FS_Interval
<1>2. IsFiniteSet(Citizens \X (1..numOfDose))
  BY <1>1, FS_Product
<1>3. TurnsTaken \in SUBSET (Citizens \X (1..numOfDose))
  BY DEF TurnsTaken
<1> QED
  BY <1>2, <1>3, FS_Subset, FS_CardinalityType DEF Came

LEMMA Numbers ==
  ASSUME TypeOK, TypeOK'
  PROVE  /\ sem["m"] \in Nat /\ sem["empty"] \in Nat /\ sem["full"] \in Nat
         /\ sem["mCitizen"] \in Nat /\ sem["mSafe"] \in Nat
         /\ sem'["m"] \in Nat /\ sem'["empty"] \in Nat /\ sem'["full"] \in Nat
         /\ sem'["mCitizen"] \in Nat /\ sem'["mSafe"] \in Nat
         /\ Filled \in Int /\ Filled' \in Int
         /\ totalAppliedDose \in Nat /\ totalAppliedDose' \in Nat
<1>1. nurseTermination \in Nat /\ nurseTermination' \in Nat
  BY DEF TypeOK
<1>2. Filled \in Int /\ Filled' \in Int
  BY <1>1 DEF TypeOK, Filled
<1> QED
  BY <1>2 DEF TypeOK, Semaphores

(* The equations hold after a move that changes the semaphores, the shelf  *)
(* and the counters as it changes where the processes are.                 *)
LEMMA Balanced ==
  ASSUME TypeInv, TypeInv', Equations, ~sigint, Came' \in Int,
         NEW p \in Processes, NEW l, pc' = [pc EXCEPT ![p] = l],
         l = "mAgain" => p \notin Vaccinators,
         sem'["m"] + Delta(p, l, Children, InsideLabels) = sem["m"],
         sem'["mSafe"] + Delta(p, l, Citizens, {"naming"}) = sem["mSafe"],
         sem'["empty"] + sem'["full"] + Delta(p, l, Nurses, {"m", "inside"})
           + Delta(p, l, Vaccinators, {"full2"}) + 2 * Delta(p, l, Vaccinators, TwoLabels)
           = sem["empty"] + sem["full"],
         sem'["full"] + Delta(p, l, Vaccinators, {"full2"})
           + 2 * Delta(p, l, Vaccinators, TwoLabels) + Filled = sem["full"] + Filled',
         sem'["mCitizen"] + totalAppliedDose' + Delta(p, l, Vaccinators, {"invite"}) + Came
           = sem["mCitizen"] + totalAppliedDose + Delta(p, l, Citizens, {"naming"}) + Came'
  PROVE  Equations'
<1> DEFINE n == AtLabels(Nurses, {"m", "inside"})
           v == AtLabels(Vaccinators, {"full2"})
           w == AtLabels(Vaccinators, TwoLabels)
           i == AtLabels(Vaccinators, {"invite"})
           c == AtLabels(Citizens, {"naming"})
           a == AtLabels(Children, InsideLabels)
           dn == Delta(p, l, Nurses, {"m", "inside"})
           dv == Delta(p, l, Vaccinators, {"full2"})
           dw == Delta(p, l, Vaccinators, TwoLabels)
           di == Delta(p, l, Vaccinators, {"invite"})
           dc == Delta(p, l, Citizens, {"naming"})
           da == Delta(p, l, Children, InsideLabels)
<1>1. n' = n + dn /\ v' = v + dv /\ w' = w + dw /\ i' = i + di /\ c' = c + dc /\ a' = a + da
  BY TalliesMove DEF TypeInv
<1>2. /\ n \in Nat /\ v \in Nat /\ w \in Nat /\ i \in Nat /\ c \in Nat /\ a \in Nat
      /\ Came \in Nat /\ Came' \in Int
  BY TalliesAreNat, CameIsNat
<1>3. /\ dn \in Int /\ dv \in Int /\ dw \in Int /\ di \in Int /\ dc \in Int /\ da \in Int
  BY DEF Delta
<1>4. /\ sem["m"] \in Nat /\ sem["empty"] \in Nat /\ sem["full"] \in Nat
      /\ sem["mCitizen"] \in Nat /\ sem["mSafe"] \in Nat
      /\ sem'["m"] \in Nat /\ sem'["empty"] \in Nat /\ sem'["full"] \in Nat
      /\ sem'["mCitizen"] \in Nat /\ sem'["mSafe"] \in Nat
      /\ Filled \in Int /\ Filled' \in Int
      /\ totalAppliedDose \in Int /\ totalAppliedDose' \in Int
  BY Numbers DEF TypeInv
<1>5. /\ sem["m"] + a = 1
      /\ sem["mSafe"] + c = 1
      /\ sem["empty"] + sem["full"] + n + v + 2 * w = sizeOftheBuffer
      /\ sem["full"] + v + 2 * w = Filled
      /\ sem["mCitizen"] + totalAppliedDose + i = Came + c
  BY DEF Equations
<1>6. /\ sem'["m"] + da = sem["m"]
      /\ sem'["mSafe"] + dc = sem["mSafe"]
      /\ sem'["empty"] + sem'["full"] + dn + dv + 2 * dw = sem["empty"] + sem["full"]
      /\ sem'["full"] + dv + 2 * dw + Filled = sem["full"] + Filled'
      /\ sem'["mCitizen"] + totalAppliedDose' + di + Came
           = sem["mCitizen"] + totalAppliedDose + dc + Came'
  OBVIOUS
<1>7. \A q \in Vaccinators : pc'[q] # "mAgain"
  BY Sets DEF Equations, TypeInv, TypeOK
<1> HIDE DEF n, v, w, i, c, a, dn, dv, dw, di, dc, da
<1>8. sem'["m"] + a' = 1 /\ sem'["mSafe"] + c' = 1
  BY ONLY <1>1, <1>2, <1>3, <1>4, <1>5, <1>6
<1>9. sem'["empty"] + sem'["full"] + n' + v' + 2 * w' = sizeOftheBuffer
  BY ONLY <1>1, <1>2, <1>3, <1>4, <1>5, <1>6
<1>10. sem'["full"] + v' + 2 * w' = Filled'
  <2> DEFINE x == sem["full"]
             y == v + 2 * w
             z == dv + 2 * dw
  <2>1. /\ x \in Int /\ x' \in Int /\ y \in Int /\ z \in Int
        /\ Filled \in Int /\ Filled' \in Int
    BY <1>2, <1>3, <1>4
  <2>2. Filled = x + y /\ Filled' = (x' + z + Filled) - x
    BY ONLY <1>2, <1>3, <1>4, <1>5, <1>6
  <2>3. v' + 2 * w' = y + z
    BY ONLY <1>1, <1>2, <1>3
  <2> HIDE DEF x, y, z
  <2>4. x' + (y + z) = Filled'
    BY ONLY <2>1, <2>2
  <2>5. sem'["full"] + (v' + 2 * w') = Filled'
    BY <2>3, <2>4 DEF x
  <2> QED
    BY <1>1, <1>2, <1>3, <1>4, <2>5
<1>11. sem'["mCitizen"] + totalAppliedDose' + i' = Came' + c'
  <2> DEFINE x == sem["mCitizen"] + totalAppliedDose
  <2>1. /\ x \in Int /\ x' \in Int
        /\ x + i = Came + c /\ x' + di + Came = x + dc + Came'
    BY <1>4, <1>5, <1>6
  <2> HIDE DEF x
  <2>2. x' + (i + di) = Came' + (c + dc)
    BY ONLY <1>2, <1>3, <2>1
  <2> QED
    BY <1>1, <2>2 DEF x
<1> QED
  BY <1>7, <1>8, <1>9, <1>10, <1>11 DEF Equations, n, v, w, i, c, a

(* A wait that returns when no SIGINT has come takes one.                  *)
LEMMA Taken ==
  ASSUME TypeInv, ~sigint, NEW p, NEW s \in Semaphores, CanPass(p, s)
  PROVE  /\ sem[s] \in Nat /\ sem[s] > 0
         /\ \A r \in Semaphores :
              After(p, s)[r] = IF r = s THEN sem[r] - 1 ELSE sem[r]
BY DEF TypeInv, TypeOK, CanPass, After

(* How many places of the buffer and how many locks a nurse or a           *)
(* vaccinator carries at a label.                                          *)
Lock(l)   == IF l \in InsideLabels THEN 1 ELSE 0
Place(l)  == IF l \in {"m", "inside"} THEN 1 ELSE 0
Places2(l) == IF l = "full2" THEN 1 ELSE IF l \in TwoLabels THEN 2 ELSE 0
Guest(l)  == IF l = "invite" THEN 1 ELSE 0

LEMMA LabelsAreInt ==
  ASSUME NEW l
  PROVE  Lock(l) \in Int /\ Place(l) \in Int /\ Places2(l) \in Int /\ Guest(l) \in Int
BY DEF Lock, Place, Places2, Guest

LEMMA NurseBalanced ==
  ASSUME TypeInv, TypeInv', Equations, ~sigint, turns' = turns,
         NEW p \in Nurses, NEW l, pc' = [pc EXCEPT ![p] = l],
         sem'["m"] + Lock(l) = sem["m"] + Lock(pc[p]),
         sem'["empty"] + sem'["full"] + Place(l) = sem["empty"] + sem["full"] + Place(pc[p]),
         sem'["full"] + Filled = sem["full"] + Filled',
         sem'["mCitizen"] = sem["mCitizen"], sem'["mSafe"] = sem["mSafe"],
         totalAppliedDose' = totalAppliedDose
  PROVE  Equations'
<1>1. /\ Delta(p, l, Vaccinators, {"full2"}) = 0
      /\ Delta(p, l, Vaccinators, TwoLabels) = 0
      /\ Delta(p, l, Vaccinators, {"invite"}) = 0
      /\ Delta(p, l, Citizens, {"naming"}) = 0
      /\ Delta(p, l, Nurses, {"m", "inside"}) = Place(l) - Place(pc[p])
      /\ Delta(p, l, Children, InsideLabels) = Lock(l) - Lock(pc[p])
  BY Sets DEF Delta, Place, Lock
<1>2. p \in Processes /\ p \notin Vaccinators
  BY Sets
<1>3. /\ sem["m"] \in Int /\ sem["empty"] \in Int /\ sem["full"] \in Int
      /\ sem["mCitizen"] \in Int /\ sem["mSafe"] \in Int
      /\ sem'["m"] \in Int /\ sem'["empty"] \in Int /\ sem'["full"] \in Int
      /\ sem'["mCitizen"] \in Int
      /\ Filled \in Int /\ Filled' \in Int /\ totalAppliedDose \in Int
  BY Numbers DEF TypeInv
<1>4. sem'["m"] + (Lock(l) - Lock(pc[p])) = sem["m"]
  <2>1. Lock(l) \in Int /\ Lock(pc[p]) \in Int
    BY LabelsAreInt
  <2>2. sem'["m"] + Lock(l) = sem["m"] + Lock(pc[p])
    OBVIOUS
  <2> QED
    BY ONLY <1>3, <2>1, <2>2
<1>5. sem'["empty"] + sem'["full"] + (Place(l) - Place(pc[p])) + 0 + 2 * 0
        = sem["empty"] + sem["full"]
  BY <1>3, LabelsAreInt
<1>6. sem'["full"] + 0 + 2 * 0 + Filled = sem["full"] + Filled'
  BY <1>3
<1>7. Came' = Came /\ Came \in Int
  BY CameIsNat DEF Came, TurnsTaken
<1>8. sem'["mCitizen"] + totalAppliedDose' + 0 + Came
        = sem["mCitizen"] + totalAppliedDose + 0 + Came'
  BY <1>3, <1>7
<1>9. sem'["mSafe"] + 0 = sem["mSafe"]
  BY <1>3
<1> QED
  BY <1>1, <1>2, <1>4, <1>5, <1>6, <1>7, <1>8, <1>9, Balanced

LEMMA NurseBalances ==
  ASSUME TypeInv, TypeInv', Equations, NEW p \in Nurses, NurseStep(p), ~sigint
  PROVE  Equations'
<1>1. /\ sem \in [Semaphores -> Nat] /\ pc \in [Processes -> Places]
      /\ firstDose \in Int /\ secDose \in Int /\ nurseTermination \in Int
  BY Sets, SMTT(30) DEF TypeInv, TypeOK
<1>2. turns' = turns /\ totalAppliedDose' = totalAppliedDose
  BY DEF NurseStep, Again, NurseTakesPlace, NurseLocks, NurseBrings
<1>3. /\ sem["m"] \in Int /\ sem["empty"] \in Int /\ sem["full"] \in Int
      /\ sem["mCitizen"] \in Int
  BY <1>1 DEF Semaphores
<1>4. CASE NurseTakesPlace(p)
  <2>1. /\ pc[p] = "empty" /\ pc' = [pc EXCEPT ![p] = "m"]
        /\ CanPass(p, "empty") /\ sem' = After(p, "empty")
        /\ Filled' = Filled
    BY <1>4 DEF NurseTakesPlace, Returns, Goto, shelf, Filled
  <2>2. /\ Lock("m") = 0 /\ Lock("empty") = 0
        /\ Place("m") = 1 /\ Place("empty") = 0
    BY DEF Lock, Place, InsideLabels
  <2>3. /\ sem'["m"] = sem["m"] /\ sem'["empty"] = sem["empty"] - 1
        /\ sem'["full"] = sem["full"] /\ sem'["mCitizen"] = sem["mCitizen"]
        /\ sem'["mSafe"] = sem["mSafe"]
    BY <2>1, Taken DEF Semaphores
  <2>4. /\ sem'["m"] + Lock("m") = sem["m"] + Lock(pc[p])
        /\ sem'["empty"] + sem'["full"] + Place("m") = sem["empty"] + sem["full"] + Place(pc[p])
    BY <1>3, <2>1, <2>2, <2>3
  <2> QED
    BY <1>2, <2>1, <2>3, <2>4, NurseBalanced
<1>5. CASE NurseLocks(p)
  <2>1. /\ pc[p] = "m" /\ pc' = [pc EXCEPT ![p] = "inside"]
        /\ CanPass(p, "m") /\ sem' = After(p, "m")
        /\ Filled' = Filled
    BY <1>5 DEF NurseLocks, Returns, Goto, shelf, Filled
  <2>2. /\ Lock("m") = 0 /\ Lock("inside") = 1
        /\ Place("m") = Place("inside")
    BY DEF Lock, Place, InsideLabels
  <2>3. /\ sem'["m"] = sem["m"] - 1 /\ sem'["empty"] = sem["empty"]
        /\ sem'["full"] = sem["full"] /\ sem'["mCitizen"] = sem["mCitizen"]
        /\ sem'["mSafe"] = sem["mSafe"]
    BY <2>1, Taken DEF Semaphores
  <2>4. sem'["m"] + Lock("inside") = sem["m"] + Lock(pc[p])
    BY <1>3, <2>1, <2>2, <2>3
  <2> QED
    BY <1>2, <2>1, <2>2, <2>3, <2>4, NurseBalanced
<1>6. CASE NurseBrings(p)
  <2> DEFINE Left(l, b, k) ==
        /\ pc' = [pc EXCEPT ![p] = l] /\ l \in {"gone", "empty"}
        /\ sem' = Posted(sem, <<"m", b>>)
        /\ Filled' = Filled + k
        /\ (b = "full" /\ k = 1) \/ (b = "empty" /\ k = 0)
  <2>1. pc[p] = "inside" /\ \E l, b, k : Left(l, b, k)
    <3>1. pc[p] = "inside"
      BY <1>6 DEF NurseBrings
    <3>2. CASE /\ nurseTermination' = nurseTermination + 1
               /\ sem' = Posted(sem, EofPosts) /\ Goto(p, "gone")
               /\ UNCHANGED shelf
      <4>1. Filled' = Filled + 1
        BY <1>1, <3>2 DEF shelf, Filled
      <4>2. Left("gone", "full", 1)
        BY <3>2, <4>1 DEF EofPosts, Goto
      <4> QED
        BY <3>1, <4>2
    <3>3. CASE /\ sem' = Posted(sem, OtherPosts) /\ Again(p)
               /\ UNCHANGED <<shelf, nurseTermination>>
      <4>1. Filled' = Filled + 0
        BY <1>1, <3>3 DEF shelf, Filled
      <4>2. Left("empty", "empty", 0)
        BY <3>3, <4>1, FirstWaits DEF OtherPosts, Again, Goto
      <4> QED
        BY <3>1, <4>2
    <3>4. CASE /\ Head(file) # "other" /\ ~isEof'
               /\ firstDose' = firstDose + (IF Head(file) = "1" THEN 1 ELSE 0)
               /\ secDose' = secDose + (IF Head(file) = "2" THEN 1 ELSE 0)
               /\ sem' = Posted(sem, <<"m", "full">>) /\ Again(p)
               /\ UNCHANGED nurseTermination
      <4>1. Head(file) \in {"1", "2"}
        <5>1. file \in Seq({"1", "2", "other"}) /\ file # <<>>
          BY <1>6, <3>4 DEF NurseBrings, TypeInv, TypeOK
        <5>2. Head(file) \in {"1", "2", "other"}
          BY ONLY <5>1, HeadTailProperties
        <5> QED
          BY <3>4, <5>2
      <4>2. Filled' = Filled + 1
        BY <1>1, <3>4, <4>1 DEF Filled
      <4>3. Left("empty", "full", 1)
        BY <3>4, <4>2, FirstWaits DEF Again, Goto
      <4> QED
        BY <3>1, <4>3
    <3> QED
      BY <1>6, <3>2, <3>3, <3>4 DEF NurseBrings
  <2>2. PICK l, b, k : Left(l, b, k)
    BY <2>1
  <2>3. /\ Lock("inside") = 1 /\ Lock(l) = 0 /\ Place("inside") = 1 /\ Place(l) = 0
    BY <2>2 DEF Lock, Place, InsideLabels
  <2>4. \A r \in Semaphores : sem'[r] = IF r \in {"m", b} THEN sem[r] + 1 ELSE sem[r]
    BY <1>1, <2>2, TwoPosts
  <2>5. /\ sem'["m"] = sem["m"] + 1 /\ sem'["mCitizen"] = sem["mCitizen"]
        /\ sem'["mSafe"] = sem["mSafe"]
        /\ sem'["full"] = sem["full"] + k /\ sem'["empty"] = sem["empty"] + (1 - k)
    BY <1>3, <2>2, <2>4 DEF Semaphores
  <2>6. /\ sem'["m"] + Lock(l) = sem["m"] + Lock(pc[p])
        /\ sem'["empty"] + sem'["full"] + Place(l) = sem["empty"] + sem["full"] + Place(pc[p])
    BY <1>3, <2>1, <2>2, <2>3, <2>5
  <2>7. sem'["full"] + Filled = sem["full"] + Filled'
    BY <1>1, <1>3, <2>2, <2>5 DEF Filled
  <2> QED
    BY <1>2, <2>2, <2>5, <2>6, <2>7, NurseBalanced
<1> QED
  BY <1>4, <1>5, <1>6 DEF NurseStep

LEMMA VaccinatorBalanced ==
  ASSUME TypeInv, TypeInv', Equations, ~sigint, turns' = turns,
         NEW p \in Vaccinators, NEW l, pc' = [pc EXCEPT ![p] = l], l # "mAgain",
         sem'["m"] + Lock(l) = sem["m"] + Lock(pc[p]),
         sem'["empty"] + sem'["full"] + Places2(l)
           = sem["empty"] + sem["full"] + Places2(pc[p]),
         sem'["full"] + Places2(l) + Filled = sem["full"] + Places2(pc[p]) + Filled',
         sem'["mCitizen"] + totalAppliedDose' + Guest(l)
           = sem["mCitizen"] + totalAppliedDose + Guest(pc[p]),
         sem'["mSafe"] = sem["mSafe"]
  PROVE  Equations'
<1> DEFINE dv == Delta(p, l, Vaccinators, {"full2"})
           dw == Delta(p, l, Vaccinators, TwoLabels)
<1>1. /\ Delta(p, l, Nurses, {"m", "inside"}) = 0
      /\ Delta(p, l, Children, InsideLabels) = Lock(l) - Lock(pc[p])
      /\ Delta(p, l, Citizens, {"naming"}) = 0
      /\ Delta(p, l, Vaccinators, {"invite"}) = Guest(l) - Guest(pc[p])
  BY Sets DEF Delta, Lock, Guest
<1>2. /\ dv \in Int /\ dw \in Int
      /\ dv + 2 * dw = Places2(l) - Places2(pc[p])
  BY DEF Delta, Places2, TwoLabels
<1>3. p \in Processes
  BY Sets
<1>4. /\ sem["m"] \in Int /\ sem["empty"] \in Int /\ sem["full"] \in Int
      /\ sem["mCitizen"] \in Int /\ sem["mSafe"] \in Int
      /\ sem'["m"] \in Int /\ sem'["empty"] \in Int /\ sem'["full"] \in Int
      /\ sem'["mCitizen"] \in Int
      /\ Filled \in Int /\ Filled' \in Int
      /\ totalAppliedDose \in Int /\ totalAppliedDose' \in Int
  BY Numbers DEF TypeInv
<1>5. /\ Lock(l) \in Int /\ Lock(pc[p]) \in Int /\ Places2(l) \in Int
      /\ Places2(pc[p]) \in Int /\ Guest(l) \in Int /\ Guest(pc[p]) \in Int
  BY LabelsAreInt
<1> HIDE DEF dv, dw
<1>6. sem'["m"] + (Lock(l) - Lock(pc[p])) = sem["m"]
  <2>1. sem'["m"] + Lock(l) = sem["m"] + Lock(pc[p])
    OBVIOUS
  <2> QED
    BY ONLY <1>4, <1>5, <2>1
<1>7. sem'["empty"] + sem'["full"] + 0 + dv + 2 * dw = sem["empty"] + sem["full"]
  <2>1. sem'["empty"] + sem'["full"] + Places2(l) = sem["empty"] + sem["full"] + Places2(pc[p])
    OBVIOUS
  <2> QED
    BY ONLY <1>2, <1>4, <1>5, <2>1
<1>8. sem'["full"] + dv + 2 * dw + Filled = sem["full"] + Filled'
  <2>1. sem'["full"] + Places2(l) + Filled = sem["full"] + Places2(pc[p]) + Filled'
    OBVIOUS
  <2>2. (Places2(l) - Places2(pc[p])) + sem'["full"] + Filled = sem["full"] + Filled'
    BY ONLY <1>4, <1>5, <2>1
  <2> QED
    BY ONLY <1>2, <1>4, <1>5, <2>2
<1>9. Came' = Came /\ Came \in Int
  BY CameIsNat DEF Came, TurnsTaken
<1>10. sem'["mCitizen"] + totalAppliedDose' + (Guest(l) - Guest(pc[p])) + Came
         = sem["mCitizen"] + totalAppliedDose + 0 + Came'
  <2>1. sem'["mCitizen"] + totalAppliedDose' + Guest(l)
          = sem["mCitizen"] + totalAppliedDose + Guest(pc[p])
    OBVIOUS
  <2> DEFINE t == sem["mCitizen"] + totalAppliedDose
  <2>2. t \in Int /\ t' \in Int /\ t' + Guest(l) = t + Guest(pc[p])
    BY <1>4, <2>1
  <2> HIDE DEF t
  <2>3. t' + (Guest(l) - Guest(pc[p])) = t
    BY ONLY <1>5, <2>2
  <2>4. t' + (Guest(l) - Guest(pc[p])) + Came = t + 0 + Came'
    BY ONLY <1>9, <2>2, <2>3
  <2> QED
    BY <2>4 DEF t
<1>11. sem'["mSafe"] + 0 = sem["mSafe"]
  BY <1>4
<1> QED
  BY <1>1, <1>3, <1>6, <1>7, <1>8, <1>9, <1>10, <1>11, Balanced DEF dv, dw

LEMMA VaccinatorBalances ==
  ASSUME TypeInv, TypeInv', Equations, NEW p \in Vaccinators, VaccinatorStep(p), ~sigint
  PROVE  Equations'
<1>1. /\ sem \in [Semaphores -> Nat] /\ pc \in [Processes -> Places]
      /\ firstDose \in Int /\ secDose \in Int /\ nurseTermination \in Int
  BY Sets, SMTT(30) DEF TypeInv, TypeOK
<1>2. turns' = turns /\ nurseTermination' = nurseTermination
  BY DEF VaccinatorStep, Again, VaccinatorTakes, VaccinatorLocks,
         VaccinatorAborts, VaccinatorLooks, VaccinatorMeetsCitizen, Vaccinate
<1>3. /\ sem["m"] \in Int /\ sem["empty"] \in Int /\ sem["full"] \in Int
      /\ sem["mCitizen"] \in Int /\ totalAppliedDose \in Int /\ Filled \in Int
  BY Numbers DEF TypeInv
<1>4. CASE VaccinatorTakes(p)
  <2>1. UNCHANGED <<Filled, totalAppliedDose>>
    BY <1>4 DEF VaccinatorTakes, shelf, Filled
  <2>2. CASE /\ pc[p] = "mConsumer" /\ pc' = [pc EXCEPT ![p] = "full"]
             /\ CanPass(p, "mConsumer") /\ sem' = After(p, "mConsumer")
    <3>1. /\ Lock("mConsumer") = Lock("full") /\ Places2("mConsumer") = Places2("full")
          /\ Guest("mConsumer") = Guest("full")
      BY DEF Lock, Places2, Guest, InsideLabels, TwoLabels
    <3>2. /\ sem'["m"] = sem["m"] /\ sem'["empty"] = sem["empty"]
          /\ sem'["full"] = sem["full"] /\ sem'["mCitizen"] = sem["mCitizen"]
          /\ sem'["mSafe"] = sem["mSafe"]
      BY <2>2, Taken DEF Semaphores
    <3> QED
      BY <1>2, <2>1, <2>2, <3>1, <3>2, VaccinatorBalanced
  <2>3. ASSUME NEW l \in {"full2", "m"}, pc[p] = IF l = "m" THEN "full2" ELSE "full",
               pc' = [pc EXCEPT ![p] = l], CanPass(p, "full"), sem' = After(p, "full")
        PROVE  Equations'
    <3>1. /\ Lock(l) = Lock(pc[p]) /\ Places2(l) = Places2(pc[p]) + 1
          /\ Guest(l) = Guest(pc[p]) /\ Places2(pc[p]) \in Int
      BY <2>3 DEF Lock, Places2, Guest, InsideLabels, TwoLabels
    <3>2. /\ sem'["m"] = sem["m"] /\ sem'["empty"] = sem["empty"]
          /\ sem'["full"] = sem["full"] - 1 /\ sem'["mCitizen"] = sem["mCitizen"]
          /\ sem'["mSafe"] = sem["mSafe"]
      BY <2>3, Taken DEF Semaphores
    <3>3. /\ sem'["empty"] + sem'["full"] + Places2(l)
               = sem["empty"] + sem["full"] + Places2(pc[p])
          /\ sem'["full"] + Places2(l) + Filled = sem["full"] + Places2(pc[p]) + Filled
      BY ONLY <1>3, <3>1, <3>2
    <3> QED
      BY <1>2, <2>1, <2>3, <3>1, <3>2, <3>3, VaccinatorBalanced
  <2>4. \/ /\ pc[p] = "mConsumer" /\ pc' = [pc EXCEPT ![p] = "full"]
           /\ CanPass(p, "mConsumer") /\ sem' = After(p, "mConsumer")
        \/ /\ CanPass(p, "full") /\ sem' = After(p, "full")
           /\ \/ pc[p] = "full" /\ pc' = [pc EXCEPT ![p] = "full2"]
              \/ pc[p] = "full2" /\ pc' = [pc EXCEPT ![p] = "m"]
    BY <1>4 DEF VaccinatorTakes, Returns, Goto
  <2> QED
    BY <2>2, <2>3, <2>4
<1>5. CASE VaccinatorLocks(p)
  <2>1. /\ pc[p] = "m" /\ pc' = [pc EXCEPT ![p] = "inside"]
        /\ CanPass(p, "m") /\ sem' = After(p, "m")
        /\ UNCHANGED <<Filled, totalAppliedDose>>
    BY <1>5 DEF VaccinatorLocks, Returns, Goto, IfLocked, shelf, Filled
  <2>2. /\ Lock("m") = 0 /\ Lock("inside") = 1
        /\ Places2("m") = Places2("inside") /\ Guest("m") = Guest("inside")
    BY DEF Lock, Places2, Guest, InsideLabels, TwoLabels
  <2>3. /\ sem'["m"] = sem["m"] - 1 /\ sem'["empty"] = sem["empty"]
        /\ sem'["full"] = sem["full"] /\ sem'["mCitizen"] = sem["mCitizen"]
        /\ sem'["mSafe"] = sem["mSafe"]
    BY <2>1, Taken DEF Semaphores
  <2>4. sem'["m"] + Lock("inside") = sem["m"] + Lock(pc[p])
    BY <1>3, <2>1, <2>2, <2>3
  <2> QED
    BY <1>2, <2>1, <2>2, <2>3, <2>4, VaccinatorBalanced
<1>6. CASE VaccinatorAborts(p)
  <2>1. pc[p] = "mAgain"
    BY <1>6 DEF VaccinatorAborts
  <2> QED
    BY <2>1 DEF Equations
<1>7. CASE VaccinatorLooks(p)
  <2>1. /\ pc[p] = "inside"
        /\ UNCHANGED <<Filled, totalAppliedDose>>
        /\ \/ sem' = sem /\ pc' = [pc EXCEPT ![p] = "mCitizen"]
           \/ \E l \in {"gone", "mConsumer"} :
                /\ sem' = Posted(sem, <<"m", "full", "full", "mConsumer">>)
                /\ pc' = [pc EXCEPT ![p] = l]
    BY <1>7, FirstWaits DEF VaccinatorLooks, Again, Goto, PutBack, shelf, Filled
  <2>2. CASE sem' = sem /\ pc' = [pc EXCEPT ![p] = "mCitizen"]
    <3>1. /\ Lock("mCitizen") = Lock("inside") /\ Places2("mCitizen") = Places2("inside")
          /\ Guest("mCitizen") = Guest("inside")
      BY DEF Lock, Places2, Guest, InsideLabels, TwoLabels
    <3> QED
      BY <1>2, <2>1, <2>2, <3>1, VaccinatorBalanced
  <2>3. ASSUME NEW l \in {"gone", "mConsumer"}, pc' = [pc EXCEPT ![p] = l],
               sem' = Posted(sem, <<"m", "full", "full", "mConsumer">>)
        PROVE  Equations'
    <3>1. /\ Lock("inside") = 1 /\ Lock(l) = 0 /\ Places2("inside") = 2 /\ Places2(l) = 0
          /\ Guest("inside") = Guest(l)
      BY <2>3 DEF Lock, Places2, Guest, InsideLabels, TwoLabels
    <3>2. /\ sem'["m"] = sem["m"] + 1 /\ sem'["empty"] = sem["empty"]
          /\ sem'["full"] = sem["full"] + 2 /\ sem'["mCitizen"] = sem["mCitizen"]
          /\ sem'["mSafe"] = sem["mSafe"]
      BY <1>1, <2>3, FourPosts DEF Semaphores
    <3>3. /\ sem'["m"] + Lock(l) = sem["m"] + Lock(pc[p])
          /\ sem'["empty"] + sem'["full"] + Places2(l)
               = sem["empty"] + sem["full"] + Places2(pc[p])
          /\ sem'["full"] + Places2(l) + Filled = sem["full"] + Places2(pc[p]) + Filled
      BY ONLY <1>3, <2>1, <3>1, <3>2
    <3> QED
      BY <1>2, <2>1, <2>3, <3>1, <3>2, <3>3, VaccinatorBalanced
  <2> QED
    BY <2>1, <2>2, <2>3
<1>8. CASE VaccinatorMeetsCitizen(p)
  <2>1. /\ pc[p] = "mCitizen" /\ pc' = [pc EXCEPT ![p] = "invite"]
        /\ CanPass(p, "mCitizen") /\ sem' = After(p, "mCitizen")
        /\ UNCHANGED <<Filled, totalAppliedDose>>
    BY <1>8 DEF VaccinatorMeetsCitizen, Returns, Goto, shelf, Filled
  <2>2. /\ Lock("mCitizen") = Lock("invite") /\ Places2("mCitizen") = Places2("invite")
        /\ Guest("mCitizen") = 0 /\ Guest("invite") = 1
    BY DEF Lock, Places2, Guest, InsideLabels, TwoLabels
  <2>3. /\ sem'["m"] = sem["m"] /\ sem'["empty"] = sem["empty"]
        /\ sem'["full"] = sem["full"] /\ sem'["mCitizen"] = sem["mCitizen"] - 1
        /\ sem'["mSafe"] = sem["mSafe"]
    BY <2>1, Taken DEF Semaphores
  <2>4. sem'["mCitizen"] + totalAppliedDose + Guest("invite")
          = sem["mCitizen"] + totalAppliedDose + Guest(pc[p])
    BY ONLY <1>3, <2>1, <2>2, <2>3
  <2> QED
    BY <1>2, <2>1, <2>2, <2>3, <2>4, VaccinatorBalanced
<1>9. CASE Vaccinate(p)
  <2>1. /\ pc[p] = "invite" /\ pc' = [pc EXCEPT ![p] = "mConsumer"]
        /\ CanPass(p, "mSafe")
        /\ sem' = Posted(After(p, "mSafe"), <<"mSafe", "m", "empty", "empty", "mConsumer">>)
        /\ totalAppliedDose' = totalAppliedDose + 1
    BY <1>9, FirstWaits DEF Vaccinate, Again, Goto, UsedPosts
  <2>2. Filled' = Filled - 2
    BY <1>1, <1>2, <1>9 DEF Vaccinate, Filled
  <2>3. /\ Lock("invite") = 1 /\ Lock("mConsumer") = 0 /\ Places2("invite") = 2
        /\ Places2("mConsumer") = 0 /\ Guest("invite") = 1 /\ Guest("mConsumer") = 0
    BY DEF Lock, Places2, Guest, InsideLabels, TwoLabels
  <2>4. /\ sem'["m"] = sem["m"] + 1 /\ sem'["empty"] = sem["empty"] + 2
        /\ sem'["full"] = sem["full"] /\ sem'["mCitizen"] = sem["mCitizen"]
        /\ sem'["mSafe"] = sem["mSafe"]
    <3> DEFINE g == After(p, "mSafe")
    <3>1. /\ g \in [Semaphores -> Nat] /\ sem["mSafe"] \in Nat /\ sem["mSafe"] > 0
          /\ \A s \in Semaphores : g[s] = IF s = "mSafe" THEN sem[s] - 1 ELSE sem[s]
      BY <2>1, AfterTyped, Taken DEF TypeInv, Semaphores
    <3>2. \A s \in Semaphores :
            sem'[s] = IF s = "empty" THEN g[s] + 2
                      ELSE IF s \in {"mSafe", "m", "mConsumer"} THEN g[s] + 1 ELSE g[s]
      BY <2>1, <3>1, FivePosts
    <3> HIDE DEF g
    <3> QED
      BY <3>1, <3>2 DEF Semaphores
  <2>5. /\ sem'["m"] + Lock("mConsumer") = sem["m"] + Lock(pc[p])
        /\ sem'["empty"] + sem'["full"] + Places2("mConsumer")
             = sem["empty"] + sem["full"] + Places2(pc[p])
        /\ sem'["full"] + Places2("mConsumer") + Filled = sem["full"] + Places2(pc[p]) + Filled'
        /\ sem'["mCitizen"] + totalAppliedDose' + Guest("mConsumer")
             = sem["mCitizen"] + totalAppliedDose + Guest(pc[p])
    BY ONLY <1>3, <2>1, <2>2, <2>3, <2>4
  <2> QED
    BY <1>2, <2>1, <2>4, <2>5, VaccinatorBalanced
<1> QED
  BY <1>4, <1>5, <1>6, <1>7, <1>8, <1>9 DEF VaccinatorStep

(* A citizen that comes takes one turn more.                               *)
LEMMA OneTurnMore ==
  ASSUME TypeOK, NEW c \in Citizens, turns[c] > 0,
         turns' = [turns EXCEPT ![c] = turns[c] - 1]
  PROVE  Came' = Came + 1
<1> DEFINE t == <<c, turns[c]>>
<1>1. turns \in [Citizens -> 0..numOfDose] /\ numOfDose \in Nat
  BY ClinicAssumption DEF TypeOK
<1>2. t \in Citizens \X (1..numOfDose) /\ t \notin TurnsTaken
  BY <1>1 DEF TurnsTaken
<1>3. ASSUME NEW u \in Citizens \X (1..numOfDose)
      PROVE  turns'[u[1]] < u[2] <=> turns[u[1]] < u[2] \/ u = t
  <2>1. u[1] \in Citizens /\ u[2] \in 1..numOfDose /\ u = <<u[1], u[2]>>
    BY <1>3
  <2>2. CASE u[1] = c
    BY <1>1, <2>1, <2>2
  <2>3. CASE u[1] # c
    BY <1>1, <2>1, <2>3
  <2> QED
    BY <2>2, <2>3
<1>4. TurnsTaken' = TurnsTaken \cup {t}
  BY <1>2, <1>3 DEF TurnsTaken
<1>5. Cardinality(TurnsTaken \cup {t}) = Cardinality(TurnsTaken) + 1
  BY <1>2, CameIsNat, FS_AddElement
<1> QED
  BY <1>4, <1>5 DEF Came

LEMMA CitizenBalances ==
  ASSUME TypeInv, TypeInv', Equations, NEW c \in Citizens, CitizenStep(c), ~sigint
  PROVE  Equations'
<1>1. /\ sem \in [Semaphores -> Nat] /\ pc \in [Processes -> Places]
      /\ c \in Processes /\ c \notin Nurses /\ c \notin Vaccinators
  BY Sets DEF TypeInv, TypeOK
<1>2. /\ sem["m"] \in Int /\ sem["empty"] \in Int /\ sem["full"] \in Int
      /\ sem["mCitizen"] \in Int /\ sem["mSafe"] \in Int
      /\ totalAppliedDose \in Int /\ Filled \in Int
  BY Numbers DEF TypeInv
<1>3. UNCHANGED <<Filled, totalAppliedDose>>
  BY DEF CitizenStep, CitizenPosts, CitizenComes, CitizenLeaves, shelf, Filled
<1>4. Came \in Int /\ (turns' = turns => Came' = Came)
  BY CameIsNat DEF Came, TurnsTaken
<1>5. ASSUME NEW l \in {"naming", "mSafe", "gone"}, pc' = [pc EXCEPT ![c] = l],
             pc[c] \in {"mSafe", "naming"}, NEW k \in Int, NEW h \in Int,
             k = (IF l = "naming" THEN 1 ELSE 0) - (IF pc[c] = "naming" THEN 1 ELSE 0),
             h \in {0, 1}, Came' = Came + h,
             sem'["m"] = sem["m"], sem'["empty"] = sem["empty"], sem'["full"] = sem["full"],
             sem'["mSafe"] = sem["mSafe"] - k, sem'["mCitizen"] = sem["mCitizen"] + k + h
      PROVE  Equations'
  <2>1. /\ Delta(c, l, Nurses, {"m", "inside"}) = 0
        /\ Delta(c, l, Vaccinators, {"full2"}) = 0
        /\ Delta(c, l, Vaccinators, TwoLabels) = 0
        /\ Delta(c, l, Vaccinators, {"invite"}) = 0
        /\ Delta(c, l, Children, InsideLabels) = 0
        /\ Delta(c, l, Citizens, {"naming"}) = k
    BY <1>1, <1>5 DEF Delta, InsideLabels
  <2>2. /\ sem'["m"] + 0 = sem["m"]
        /\ sem'["mSafe"] + k = sem["mSafe"]
        /\ sem'["empty"] + sem'["full"] + 0 + 0 + 2 * 0 = sem["empty"] + sem["full"]
        /\ sem'["full"] + 0 + 2 * 0 + Filled = sem["full"] + Filled'
    BY <1>2, <1>3, <1>5
  <2>3. sem'["mCitizen"] + totalAppliedDose' + 0 + Came
          = sem["mCitizen"] + totalAppliedDose + k + Came'
    BY <1>2, <1>3, <1>4, <1>5
  <2>4. Came' \in Int /\ l # "mAgain"
    BY <1>4, <1>5
  <2> QED
    BY <1>1, <1>5, <2>1, <2>2, <2>3, <2>4, Balanced
<1>6. CASE CitizenPosts(c)
  <2>1. /\ pc[c] = "mSafe" /\ pc' = [pc EXCEPT ![c] = "naming"] /\ turns' = turns
        /\ CanPass(c, "mSafe") /\ sem' = Posted(After(c, "mSafe"), <<"mCitizen">>)
    BY <1>6 DEF CitizenPosts, Returns, Goto
  <2> DEFINE g == After(c, "mSafe")
  <2>2. /\ g \in [Semaphores -> Nat]
        /\ \A s \in Semaphores : g[s] = IF s = "mSafe" THEN sem[s] - 1 ELSE sem[s]
    BY <2>1, AfterTyped, Taken DEF TypeInv, Semaphores
  <2>3. \A s \in Semaphores : sem'[s] = IF s = "mCitizen" THEN g[s] + 1 ELSE g[s]
    BY <2>1, <2>2, OnePost DEF Semaphores
  <2> HIDE DEF g
  <2>4. /\ sem'["m"] = sem["m"] /\ sem'["empty"] = sem["empty"] /\ sem'["full"] = sem["full"]
        /\ sem'["mSafe"] = sem["mSafe"] - 1 /\ sem'["mCitizen"] = sem["mCitizen"] + 1 + 0
    BY <1>2, <2>2, <2>3 DEF Semaphores
  <2>5. Came' = Came + 0
    BY <1>4, <2>1
  <2> QED
    BY <1>5, <2>1, <2>4, <2>5
<1>7. CASE CitizenComes(c)
  <2>1. /\ pc[c] = "naming" /\ pc' = [pc EXCEPT ![c] = "mSafe"]
        /\ sem' = Posted(sem, <<"mSafe">>)
        /\ turns' = [turns EXCEPT ![c] = turns[c] - 1]
    BY <1>7, FirstWaits DEF CitizenComes, Again, Goto, TurnsLeft
  <2>2. turns[c] > 0
    BY <2>1 DEF TypeInv
  <2>3. Came' = Came + 1
    BY <2>1, <2>2, OneTurnMore DEF TypeInv
  <2>4. \A s \in Semaphores : sem'[s] = IF s = "mSafe" THEN sem[s] + 1 ELSE sem[s]
    BY <1>1, <2>1, OnePost DEF Semaphores
  <2>5. /\ sem'["m"] = sem["m"] /\ sem'["empty"] = sem["empty"] /\ sem'["full"] = sem["full"]
        /\ sem'["mSafe"] = sem["mSafe"] - (0 - 1)
        /\ sem'["mCitizen"] = sem["mCitizen"] + (0 - 1) + 1
    BY <1>2, <2>4 DEF Semaphores
  <2> QED
    BY <1>5, <2>1, <2>3, <2>5
<1>8. CASE CitizenLeaves(c)
  <2>1. /\ pc[c] = "mSafe" /\ pc' = [pc EXCEPT ![c] = "gone"] /\ turns' = turns
        /\ CanPass(c, "mSafe") /\ sem' = Posted(After(c, "mSafe"), <<"mSafe">>)
    BY <1>8 DEF CitizenLeaves, Returns, Goto
  <2> DEFINE g == After(c, "mSafe")
  <2>2. /\ g \in [Semaphores -> Nat]
        /\ \A s \in Semaphores : g[s] = IF s = "mSafe" THEN sem[s] - 1 ELSE sem[s]
    BY <2>1, AfterTyped, Taken DEF TypeInv, Semaphores
  <2>3. \A s \in Semaphores : sem'[s] = IF s = "mSafe" THEN g[s] + 1 ELSE g[s]
    BY <2>1, <2>2, OnePost DEF Semaphores
  <2> HIDE DEF g
  <2>4. /\ sem'["m"] = sem["m"] /\ sem'["empty"] = sem["empty"] /\ sem'["full"] = sem["full"]
        /\ sem'["mSafe"] = sem["mSafe"] - 0 /\ sem'["mCitizen"] = sem["mCitizen"] + 0 + 0
    BY <1>2, <2>2, <2>3 DEF Semaphores
  <2>5. Came' = Came + 0
    BY <1>4, <2>1
  <2> QED
    BY <1>5, <2>1, <2>4, <2>5
<1> QED
  BY <1>6, <1>7, <1>8 DEF CitizenStep

(* Neither the parent nor SIGINT moves a child or touches what the tallies *)
(* count.                                                                  *)
LEMMA OtherKeepChildren ==
  ASSUME TypeInv, ParentCloses \/ (\E p \in Processes : Sigint(p)) \/ UNCHANGED vars
  PROVE  \A p \in Children : pc'[p] = pc[p]
<1>1. pc' = pc \/ \E l \in {"gone", "aborted"} : pc' = [pc EXCEPT ![Parent] = l]
  BY DEF ParentCloses, Sigint, vars, Goto
<1> QED
  BY <1>1, ClinicAssumption DEF TypeInv, TypeOK, Processes

LEMMA OtherBalances ==
  ASSUME TypeInv, Equations, ParentCloses \/ (\E p \in Processes : Sigint(p)) \/ UNCHANGED vars
  PROVE  Equations'
<1>1. UNCHANGED <<sem, firstDose, secDose, totalAppliedDose, nurseTermination, turns>>
  BY DEF ParentCloses, Sigint, vars, shelf
<1>2. \A p \in Children : pc'[p] = pc[p]
  BY OtherKeepChildren
<1>3. ASSUME NEW S \in SUBSET Children, NEW ls PROVE AtLabels(S, ls)' = AtLabels(S, ls)
  BY <1>2 DEF AtLabels
<1>4. /\ Nurses \in SUBSET Children /\ Citizens \in SUBSET Children /\ Vaccinators \in SUBSET Children
      /\ Children \in SUBSET Children
  BY Sets
<1>5. Came' = Came /\ Filled' = Filled
  BY <1>1 DEF Came, TurnsTaken, Filled
<1>6. CASE sigint'
  BY <1>6 DEF Equations
<1>7. CASE ~sigint' /\ ~sigint
  BY <1>1, <1>2, <1>3, <1>4, <1>5, <1>7, Sets DEF Equations
<1>8. sigint => sigint'
  BY DEF ParentCloses, Sigint, vars, signals
<1> QED
  BY <1>6, <1>7, <1>8

-----------------------------------------------------------------------------
(* Mutual exclusion, and what it protects.                                 *)

(* m lets a process in only while no SIGINT has come and nobody is inside. *)
LEMMA EntersAlone ==
  ASSUME ClinicInv, NEW p \in Children, NEW l, pc' = [pc EXCEPT ![p] = l],
         l \in InsideLabels => pc[p] \in InsideLabels \/ (~sigint /\ sem["m"] > 0)
  PROVE  Alone'
<1>1. /\ pc \in [Processes -> Places] /\ Children \subseteq Processes
      /\ sem["m"] \in Nat
  BY Sets DEF ClinicInv, TypeInv, TypeOK, Semaphores
<1>2. ASSUME NEW q \in Children PROVE pc'[q] = IF q = p THEN l ELSE pc[q]
  BY <1>1
<1>3. CASE l \notin InsideLabels \/ pc[p] \in InsideLabels
  BY <1>2, <1>3 DEF ClinicInv, Alone
<1>4. CASE ~sigint /\ sem["m"] > 0
  <2> DEFINE a == AtLabels(Children, InsideLabels)
  <2>1. a \in Nat /\ (a = 0 <=> \A q \in Children : pc[q] \notin InsideLabels)
    BY Sets, AtFinite
  <2>2. sem["m"] + a = 1
    BY <1>4 DEF ClinicInv, Equations
  <2> HIDE DEF a
  <2>3. a = 0
    BY <1>1, <1>4, <2>1, <2>2
  <2>4. \A q \in Children : pc[q] \notin InsideLabels
    BY <2>1, <2>3
  <2> QED
    BY <1>2, <2>4 DEF Alone
<1> QED
  BY <1>3, <1>4

LEMMA NurseAlone ==
  ASSUME ClinicInv, NEW p \in Nurses, NurseStep(p)
  PROVE  Alone'
<1>1. pc \in [Processes -> Places] /\ p \in Processes /\ p \in Children
  BY Sets DEF ClinicInv, TypeInv, TypeOK
<1>2. \E l : /\ pc' = [pc EXCEPT ![p] = l]
             /\ l \in InsideLabels => ~sigint /\ sem["m"] > 0
  <2>1. CASE NurseTakesPlace(p) \/ NurseBrings(p)
    <3>1. \E l \in {"empty", "m", "gone", "aborted"} : pc' = [pc EXCEPT ![p] = l]
      BY <2>1, FirstWaits DEF Again, NurseTakesPlace, NurseBrings, Goto
    <3> QED
      BY <3>1 DEF InsideLabels
  <2>2. CASE NurseLocks(p)
    <3>1. /\ CanPass(p, "m")
          /\ \/ pc' = [pc EXCEPT ![p] = "aborted"]
             \/ ~sigint /\ pc' = [pc EXCEPT ![p] = "inside"]
      BY <2>2 DEF NurseLocks, Returns, Goto
    <3>2. ~sigint => sem["m"] > 0
      BY <3>1, Taken DEF ClinicInv, Semaphores
    <3> QED
      BY <3>1, <3>2 DEF InsideLabels
  <2> QED
    BY <2>1, <2>2 DEF NurseStep
<1> QED
  BY <1>1, <1>2, EntersAlone

LEMMA VaccinatorAlone ==
  ASSUME ClinicInv, NEW p \in Vaccinators, VaccinatorStep(p)
  PROVE  Alone'
<1>1. pc \in [Processes -> Places] /\ p \in Processes /\ p \in Children
  BY Sets DEF ClinicInv, TypeInv, TypeOK
<1>2. \E l : /\ pc' = [pc EXCEPT ![p] = l]
             /\ l \in InsideLabels => pc[p] \in InsideLabels \/ (~sigint /\ sem["m"] > 0)
  <2>1. CASE VaccinatorTakes(p) \/ VaccinatorAborts(p) \/ Vaccinate(p)
    BY <2>1, FirstWaits DEF Again, VaccinatorTakes, VaccinatorAborts, Vaccinate, Goto, InsideLabels
  <2>2. CASE VaccinatorLooks(p) \/ VaccinatorMeetsCitizen(p)
    BY <2>2, FirstWaits DEF VaccinatorLooks, VaccinatorMeetsCitizen, Returns, Again, Goto,
       InsideLabels
  <2>3. CASE VaccinatorLocks(p)
    <3>1. /\ CanPass(p, "m")
          /\ \/ pc' = [pc EXCEPT ![p] = "mAgain"]
             \/ ~sigint /\ pc' = [pc EXCEPT ![p] = "inside"]
      BY <2>3 DEF VaccinatorLocks, Returns, Goto, IfLocked
    <3>2. ~sigint => sem["m"] > 0
      BY <3>1, Taken DEF ClinicInv, Semaphores
    <3> QED
      BY <3>1, <3>2 DEF InsideLabels
  <2> QED
    BY <2>1, <2>2, <2>3 DEF VaccinatorStep
<1> QED
  BY <1>1, <1>2, EntersAlone

(* Citizens stay outside, and who finds the flag set leaves.               *)
LEMMA CitizenAlone ==
  ASSUME ClinicInv, NEW c \in Children, (c \in Citizens /\ CitizenStep(c)) \/ TurnsAway(c)
  PROVE  Alone'
<1>1. \E l \in {"naming", "mSafe", "gone", "aborted"} : pc' = [pc EXCEPT ![c] = l]
  BY FirstWaits
     DEF CitizenStep, CitizenPosts, CitizenComes, CitizenLeaves, TurnsAway, Again, Goto
<1> QED
  BY <1>1, EntersAlone DEF InsideLabels

-----------------------------------------------------------------------------
(* The shelf.                                                              *)

ShelfInv == Shelf /\ EnoughDoses

(* A nurse only adds to the shelf.                                         *)
LEMMA NurseShelf ==
  ASSUME ClinicInv, NEW p \in Nurses, NurseStep(p)
  PROVE  ShelfInv'
<1>1. /\ firstDose \in Int /\ secDose \in Int /\ totalAppliedDose \in Int
      /\ pc \in [Processes -> Places]
  BY DEF ClinicInv, TypeInv, TypeOK
<1>2. \E l : pc' = [pc EXCEPT ![p] = l]
  BY DEF NurseStep, Again, NurseTakesPlace, NurseLocks, NurseBrings, Goto
<1>3. \A q \in Vaccinators : pc'[q] = pc[q]
  BY <1>1, <1>2, Sets
<1>4. /\ firstDose' \in {firstDose, firstDose + 1} /\ secDose' \in {secDose, secDose + 1}
      /\ totalAppliedDose' = totalAppliedDose
  <2>1. CASE NurseBrings(p)
    BY <1>1, <2>1 DEF NurseBrings, shelf
  <2>2. CASE NurseTakesPlace(p) \/ NurseLocks(p)
    BY <2>2 DEF NurseTakesPlace, NurseLocks, shelf
  <2> QED
    BY <2>1, <2>2 DEF NurseStep
<1> QED
  BY <1>1, <1>3, <1>4 DEF ClinicInv, ShelfInv, Shelf, EnoughDoses

(* A vaccinator looks before it takes, and takes what it has seen.         *)
LEMMA VaccinatorShelf ==
  ASSUME ClinicInv, NEW p \in Vaccinators, VaccinatorStep(p)
  PROVE  ShelfInv'
<1>1. /\ firstDose \in Int /\ secDose \in Int /\ totalAppliedDose \in Int
      /\ pc \in [Processes -> Places] /\ p \in Processes
  BY Sets DEF ClinicInv, TypeInv, TypeOK
<1>2. doses \in Nat
  BY Sets, FS_Subset, FS_CardinalityType, ClinicAssumption DEF doses
<1>3. CASE Vaccinate(p)
  <2>1. /\ pc[p] = "invite"
        /\ \E l \in {"mConsumer", "aborted"} : pc' = [pc EXCEPT ![p] = l]
        /\ firstDose' = firstDose - 1 /\ secDose' = secDose - 1
        /\ totalAppliedDose' = totalAppliedDose + 1
    BY <1>3, FirstWaits DEF Vaccinate, Again, Goto
  <2>2. firstDose > 0 /\ secDose > 0 /\ totalAppliedDose < doses
    BY <2>1 DEF ClinicInv, EnoughDoses
  <2>3. \A q \in Vaccinators : pc'[q] \notin {"mCitizen", "invite"}
    BY <1>1, <2>1, Sets DEF ClinicInv, Alone, InsideLabels
  <2> QED
    BY <1>1, <1>2, <2>1, <2>2, <2>3 DEF ShelfInv, Shelf, EnoughDoses
<1>4. CASE ~Vaccinate(p)
  <2>1. UNCHANGED <<firstDose, secDose, totalAppliedDose>>
    BY <1>4 DEF VaccinatorStep, Again, VaccinatorTakes, VaccinatorLocks,
           VaccinatorAborts, VaccinatorLooks, VaccinatorMeetsCitizen, shelf
  <2>2. \E l : /\ pc' = [pc EXCEPT ![p] = l]
               /\ l \in {"mCitizen", "invite"} =>
                    pc[p] = "mCitizen" \/ (~AllApplied /\ isThereAnyDose)
    <3>1. CASE VaccinatorLooks(p)
      BY <3>1, FirstWaits DEF VaccinatorLooks, Again, Goto
    <3>2. CASE VaccinatorMeetsCitizen(p)
      BY <3>2 DEF VaccinatorMeetsCitizen, Returns, Goto
    <3>3. CASE VaccinatorTakes(p) \/ VaccinatorLocks(p) \/ VaccinatorAborts(p)
      <4>1. \E l \in {"mConsumer", "full", "full2", "m", "mAgain", "inside", "aborted"} :
              pc' = [pc EXCEPT ![p] = l]
        BY <3>3 DEF VaccinatorTakes, VaccinatorLocks, IfLocked, VaccinatorAborts, Goto
      <4> QED
        BY <4>1
    <3> QED
      BY <1>4, <3>1, <3>2, <3>3 DEF VaccinatorStep
  <2>3. AllApplied \/ totalAppliedDose < doses
    BY <1>1, <1>2 DEF AllApplied, ClinicInv, Shelf
  <2> QED
    BY <1>1, <2>1, <2>2, <2>3
       DEF ClinicInv, ShelfInv, Shelf, EnoughDoses, isThereAnyDose
<1> QED
  BY <1>3, <1>4

(* Nobody else touches it, or comes to where it is used.                   *)
LEMMA OthersShelf ==
  ASSUME ClinicInv,
         \/ \E c \in Citizens : CitizenStep(c)
         \/ \E p \in Children : TurnsAway(p)
         \/ ParentCloses \/ (\E p \in Processes : Sigint(p)) \/ UNCHANGED vars
  PROVE  ShelfInv'
<1>1. UNCHANGED <<firstDose, secDose, totalAppliedDose>>
  BY DEF CitizenStep, CitizenPosts, CitizenComes, CitizenLeaves, TurnsAway, ParentCloses, Sigint,
         vars, shelf
<1>2. \A q \in Vaccinators : pc'[q] \in {pc[q], "aborted"}
  <2>1. CASE \E c \in Citizens : CitizenStep(c)
    <3>1. PICK c \in Citizens : CitizenStep(c)
      BY <2>1
    <3>2. \E l : pc' = [pc EXCEPT ![c] = l]
      BY <3>1 DEF CitizenStep, CitizenPosts, CitizenComes, CitizenLeaves, Again, Goto
    <3> QED
      BY <3>2, Sets DEF ClinicInv, TypeInv, TypeOK
  <2>2. CASE ParentCloses \/ (\E p \in Processes : Sigint(p)) \/ UNCHANGED vars
    BY <2>2, OtherKeepChildren, Sets DEF ClinicInv
  <2>3. CASE \E p \in Children : TurnsAway(p)
    BY <2>3, Sets DEF TurnsAway, Goto, ClinicInv, TypeInv, TypeOK
  <2> QED
    BY <2>1, <2>2, <2>3
<1> QED
  BY <1>1, <1>2 DEF ClinicInv, ShelfInv, Shelf, EnoughDoses

-----------------------------------------------------------------------------
(* Who is called.                                                          *)

LEMMA VaccinatorCalls ==
  ASSUME ClinicInv, NEW p \in Vaccinators, VaccinatorStep(p)
  PROVE  SomebodyCame'
<1>1. invited \in [Citizens -> Nat]
  BY DEF ClinicInv, TypeInv, TypeOK
<1>2. /\ UNCHANGED <<currCitizen, turns>>
      /\ invited' \in {invited, [invited EXCEPT ![currCitizen] = @ + 1]}
  BY DEF VaccinatorStep, Again, VaccinatorTakes, VaccinatorLocks,
         VaccinatorAborts, VaccinatorLooks, VaccinatorMeetsCitizen, Vaccinate
<1>3. \A c \in Citizens : invited'[c] > 0 => invited[c] > 0 \/ currCitizen = c
  BY <1>1, <1>2
<1> QED
  BY <1>2, <1>3 DEF ClinicInv, SomebodyCame

LEMMA CitizenCalls ==
  ASSUME ClinicInv, NEW c \in Citizens, CitizenStep(c)
  PROVE  SomebodyCame'
<1>1. /\ turns \in [Citizens -> 0..numOfDose] /\ numOfDose \in Nat
      /\ c # NoCitizen
  BY ClinicAssumption DEF ClinicInv, TypeInv, TypeOK
<1>2. invited' = invited
  BY DEF CitizenStep, CitizenPosts, CitizenComes, CitizenLeaves
<1>3. \/ UNCHANGED <<turns, currCitizen>>
      \/ /\ turns' = [turns EXCEPT ![c] = turns[c] - 1]
         /\ currCitizen' = c
  BY DEF CitizenStep, CitizenPosts, CitizenComes, CitizenLeaves, TurnsLeft, ComingCitizen
<1>4. CASE UNCHANGED <<turns, currCitizen>>
  BY <1>2, <1>4 DEF ClinicInv, SomebodyCame
<1>5. CASE /\ turns' = [turns EXCEPT ![c] = turns[c] - 1]
           /\ currCitizen' = c
  <2>1. \A d \in Citizens : turns'[d] = IF d = c THEN turns[c] - 1 ELSE turns[d]
    BY <1>1, <1>5
  <2>2. turns'[c] < numOfDose
    <3>1. turns[c] \in 0..numOfDose
      BY <1>1
    <3> QED
      BY <1>1, <2>1, <3>1
  <2> QED
    BY <1>1, <1>2, <1>5, <2>1, <2>2 DEF ClinicInv, SomebodyCame
<1> QED
  BY <1>3, <1>4, <1>5

LEMMA OthersCall ==
  ASSUME ClinicInv,
         \/ \E p \in Nurses : NurseStep(p)
         \/ \E p \in Children : TurnsAway(p)
         \/ ParentCloses \/ (\E p \in Processes : Sigint(p)) \/ UNCHANGED vars
  PROVE  SomebodyCame'
<1>1. UNCHANGED <<currCitizen, turns, invited>>
  BY DEF NurseStep, NurseTakesPlace, NurseLocks, NurseBrings, TurnsAway, ParentCloses, Sigint,
         vars
<1> QED
  BY <1>1 DEF ClinicInv, SomebodyCame

-----------------------------------------------------------------------------
(* The invariant.                                                          *)

LEMMA ClinicStarts == Init => ClinicInv
<1> SUFFICES ASSUME Init PROVE ClinicInv
  OBVIOUS
<1>1. /\ sem["m"] = 1 /\ sem["full"] = 0 /\ sem["mCitizen"] = 0 /\ sem["mSafe"] = 1
      /\ sem["empty"] = sizeOftheBuffer /\ sem \in [Semaphores -> Nat]
  BY ClinicAssumption DEF Init, Semaphores
<1> DEFINE firsts == {"empty", "mConsumer", "mSafe"}
<1>2. pc \in [Processes -> Places] /\ \A p \in Children : pc[p] \in firsts
  BY ClinicAssumption DEF Init, FirstWait, Places, Waits, Semaphores, Processes
<1>3. Cardinality(Nurses) \in Nat /\ Cardinality(Citizens) \in Nat /\ doses \in Nat
  BY Sets, FS_Subset, FS_CardinalityType, ClinicAssumption DEF doses
<1>4. ASSUME NEW S \in SUBSET Children, NEW ls, firsts \cap ls = {} PROVE AtLabels(S, ls) = 0
  <2>1. S \in SUBSET Processes /\ \A q \in S : pc[q] \notin ls
    BY <1>2, <1>4, Sets
  <2> QED
    BY <2>1, AtFinite
<1>5. Nurses \in SUBSET Children /\ Vaccinators \in SUBSET Children
      /\ Citizens \in SUBSET Children /\ Children \in SUBSET Children
  BY Sets
<1>6. /\ AtLabels(Nurses, {"m", "inside"}) = 0 /\ AtLabels(Nurses, {"gone"}) = 0
      /\ AtLabels(Citizens, {"gone", "aborted"}) = 0 /\ AtLabels(Citizens, {"naming"}) = 0
      /\ AtLabels(Vaccinators, {"full2"}) = 0 /\ AtLabels(Vaccinators, TwoLabels) = 0
      /\ AtLabels(Vaccinators, {"invite"}) = 0 /\ AtLabels(Children, InsideLabels) = 0
  BY <1>4, <1>5 DEF TwoLabels, InsideLabels
<1>7. Came = 0
  <2>1. TurnsTaken = {}
    BY ClinicAssumption DEF Init, TurnsTaken
  <2> QED
    BY <2>1, FS_EmptySet DEF Came
<1>8. TypeOK
  <2>1. file \in Seq({"1", "2", "other"})
    BY ClinicAssumption DEF Init
  <2>2. turns \in [Citizens -> 0..numOfDose] /\ invited \in [Citizens -> Nat]
    BY ClinicAssumption DEF Init
  <2>3. /\ firstDose = 0 /\ secDose = 0 /\ totalAppliedDose = 0 /\ currCitizen = NoCitizen
        /\ isEof = FALSE /\ sigint = FALSE /\ eintr = {} /\ reached = {}
    BY DEF Init
  <2>4. deadCitizen \in 0..Cardinality(Citizens) /\ nurseTermination \in 0..Cardinality(Nurses)
    BY <1>3 DEF Init
  <2>5. firstDose \in Int /\ secDose \in Int /\ totalAppliedDose \in Nat
    BY ONLY <2>3
  <2>6. /\ currCitizen \in Citizens \cup {NoCitizen} /\ isEof \in BOOLEAN /\ sigint \in BOOLEAN
        /\ eintr \subseteq Processes /\ reached \subseteq Processes
    BY ONLY <2>3
  <2>7. sem \in [Semaphores -> Nat] /\ pc \in [Processes -> Places]
    BY <1>1, <1>2
  <2> QED
    BY ONLY <2>1, <2>2, <2>4, <2>5, <2>6, <2>7, Zenon DEF TypeOK
<1>9. TypeInv
  BY <1>2, <1>5, <1>6, <1>8 DEF Init, TypeInv
<1>10. Filled = 0
  BY DEF Init, Filled
<1>11. Equations
  <2>1. \A p \in Vaccinators : pc[p] # "mAgain"
    BY <1>2, <1>5
  <2>2. totalAppliedDose = 0 /\ sizeOftheBuffer \in Nat
    BY ClinicAssumption DEF Init
  <2> HIDE DEF firsts
  <2> QED
    BY ONLY <1>1, <1>6, <1>7, <1>10, <2>1, <2>2 DEF Equations
<1>12. Alone /\ EnoughDoses
  BY <1>2, <1>5 DEF Alone, EnoughDoses, InsideLabels
<1>13. Shelf
  BY <1>3 DEF Init, Shelf
<1>14. SomebodyCame
  BY <1>2, <1>5, ClinicAssumption DEF Init, SomebodyCame
<1> QED
  BY <1>9, <1>11, <1>12, <1>13, <1>14 DEF ClinicInv

LEMMA ClinicSteps == ClinicInv /\ [Next]_vars => ClinicInv'
<1> SUFFICES ASSUME ClinicInv, [Next]_vars PROVE ClinicInv'
  OBVIOUS
<1>1. TypeInv /\ Equations
  BY DEF ClinicInv
<1>2. ASSUME NEW p \in Nurses, NurseStep(p) PROVE ClinicInv'
  <2>1. TypeInv'
    BY <1>1, <1>2, TypeNurse
  <2>2. Equations'
    <3>1. CASE sigint
      BY <1>2, <3>1 DEF Equations, NurseStep, NurseTakesPlace, NurseLocks, NurseBrings, Returns,
             signals
    <3> QED
      BY <1>1, <1>2, <2>1, <3>1, NurseBalances
  <2>3. Alone' /\ ShelfInv' /\ SomebodyCame'
    BY <1>2, NurseAlone, NurseShelf, OthersCall
  <2> QED
    BY <2>1, <2>2, <2>3 DEF ClinicInv, ShelfInv
<1>3. ASSUME NEW p \in Vaccinators, VaccinatorStep(p) PROVE ClinicInv'
  <2>1. TypeInv'
    BY <1>1, <1>3, TypeVaccinator
  <2>2. Equations'
    <3>1. CASE sigint
      BY <1>3, <3>1 DEF Equations, VaccinatorStep, VaccinatorTakes, VaccinatorLocks,
             VaccinatorAborts, VaccinatorLooks, VaccinatorMeetsCitizen, Vaccinate, Returns,
             signals
    <3> QED
      BY <1>1, <1>3, <2>1, <3>1, VaccinatorBalances
  <2>3. Alone' /\ ShelfInv' /\ SomebodyCame'
    BY <1>3, VaccinatorAlone, VaccinatorShelf, VaccinatorCalls
  <2> QED
    BY <2>1, <2>2, <2>3 DEF ClinicInv, ShelfInv
<1>4. ASSUME NEW c \in Citizens, CitizenStep(c) PROVE ClinicInv'
  <2>1. TypeInv'
    BY <1>1, <1>4, TypeCitizen
  <2>2. Equations'
    <3>1. CASE sigint
      BY <1>4, <3>1 DEF Equations, CitizenStep, CitizenPosts, CitizenComes, CitizenLeaves,
             Returns, signals
    <3> QED
      BY <1>1, <1>4, <2>1, <3>1, CitizenBalances
  <2>3. Alone' /\ ShelfInv' /\ SomebodyCame'
    BY <1>4, Sets, CitizenAlone, OthersShelf, CitizenCalls
  <2> QED
    BY <2>1, <2>2, <2>3 DEF ClinicInv, ShelfInv
<1>5. ASSUME NEW p \in Children, TurnsAway(p) PROVE ClinicInv'
  <2>1. TypeInv'
    BY <1>1, <1>5, TypeTurnsAway
  <2>2. Equations'
    BY <1>5 DEF Equations, TurnsAway, signals
  <2>3. Alone' /\ ShelfInv' /\ SomebodyCame'
    BY <1>5, CitizenAlone, OthersShelf, OthersCall
  <2> QED
    BY <2>1, <2>2, <2>3 DEF ClinicInv, ShelfInv
<1>6. CASE ParentCloses \/ (\E p \in Processes : Sigint(p)) \/ UNCHANGED vars
  <2>1. TypeInv' /\ Equations'
    BY <1>1, <1>6, TypeOther, OtherBalances
  <2>2. Alone'
    BY <1>1, <1>6, OtherKeepChildren DEF ClinicInv, Alone
  <2>3. ShelfInv' /\ SomebodyCame'
    BY <1>6, OthersShelf, OthersCall
  <2> QED
    BY <2>1, <2>2, <2>3 DEF ClinicInv, ShelfInv
<1>7. \/ \E p \in Nurses : NurseStep(p)
      \/ \E p \in Vaccinators : VaccinatorStep(p)
      \/ \E c \in Citizens : CitizenStep(c)
      \/ \E p \in Children : TurnsAway(p)
      \/ ParentCloses \/ (\E p \in Processes : Sigint(p)) \/ UNCHANGED vars
  <2>1. ASSUME NEW p \in Children, Step(p)
        PROVE  \/ p \in Nurses /\ NurseStep(p)
               \/ p \in Vaccinators /\ VaccinatorStep(p)
               \/ p \in Citizens /\ CitizenStep(p)
               \/ TurnsAway(p)
    BY <2>1 DEF Step, NurseStep, NurseTakesPlace, NurseLocks, NurseBrings,
           VaccinatorStep, VaccinatorTakes, VaccinatorLocks, VaccinatorAborts,
           VaccinatorLooks, VaccinatorMeetsCitizen, Vaccinate,
           CitizenStep, CitizenPosts, CitizenComes, CitizenLeaves
  <2> QED
    BY <2>1 DEF Next, Finished
<1> QED
  BY <1>2, <1>3, <1>4, <1>5, <1>6, <1>7

-----------------------------------------------------------------------------
(* Sums over a finite set, by induction over its size.                     *)
Smaller == {p \in Nat \X Nat : p[1] < p[2]}

LEMMA Least == ASSUME NEW T \in SUBSET Nat, T # {}
               PROVE  \E x \in T : \A y \in T : x <= y
<1>1. IsWellFoundedOn(OpToRel(<, Nat), Nat)
  BY NatLessThanWellFounded, Zenon
<1>2. OpToRel(<, Nat) = Smaller
  BY DEF OpToRel, Smaller
<1>3. PICK x \in T : \A y \in T : ~ (<<y, x>> \in Smaller)
  BY <1>1, <1>2, WFMin, T \subseteq Nat, Zenon
<1>4. ASSUME NEW y \in T PROVE x <= y
  <2>1. x \in Nat /\ y \in Nat
    OBVIOUS
  <2>2. <<y, x>> \in Nat \X Nat /\ ~ (<<y, x>> \in Smaller)
    BY <1>3, <2>1
  <2> QED BY <2>1, <2>2 DEF Smaller
<1> QED BY <1>4

(* Induction: T is the set of those for which a formula holds.             *)
LEMMA AllNat == ASSUME NEW T \in SUBSET Nat, 0 \in T, \A k \in T : k + 1 \in T
                PROVE  T = Nat
<1> SUFFICES ASSUME Nat \ T # {} PROVE FALSE
  OBVIOUS
<1>1. (Nat \ T) \in SUBSET Nat
  OBVIOUS
<1>2. PICK x \in Nat \ T : \A y \in Nat \ T : x <= y
  BY <1>1, Least, Zenon
<1>3. x # 0 /\ x - 1 \in Nat
  BY <1>2
<1>4. x - 1 \in T
  BY <1>2, <1>3
<1> QED BY <1>2, <1>3, <1>4

(* How a sum over a set is built up.                                       *)
One(s) == CHOOSE x \in s : TRUE
Up(f, g, s) == IF s = {} THEN 0 ELSE f[One(s)] + g[s \ {One(s)}]
Iter(f, S) == CHOOSE g : g = [s \in SUBSET S |-> Up(f, g, s)]

LEMMA SumIs == ASSUME NEW f, NEW S
               PROVE  SumFunctionOnSet(f, S) = Iter(f, S)[S]
  BY DEF SumFunctionOnSet, FoldFunctionOnSet, MapThenFoldSet, Iter, Up, One

LEMMA OneIn == ASSUME NEW s, s # {}
               PROVE  One(s) \in s
  BY DEF One

LEMMA LessOne == ASSUME NEW S, IsFiniteSet(S), NEW s \in SUBSET S, NEW x \in s, NEW n \in Nat,
                        Cardinality(s) <= n + 1
                 PROVE  /\ IsFiniteSet(s) /\ s \ {x} \in SUBSET S
                        /\ Cardinality(s \ {x}) \in Nat /\ Cardinality(s) \in Nat
                        /\ Cardinality(s \ {x}) = Cardinality(s) - 1 /\ Cardinality(s \ {x}) <= n
<1>1. IsFiniteSet(s)
  BY FS_Subset
<1>2. Cardinality(s) \in Nat
  BY <1>1, FS_CardinalityType
<1>3. IsFiniteSet(s \ {x}) /\ Cardinality(s \ {x}) = Cardinality(s) - 1
  BY <1>1, FS_RemoveElement
<1>4. Cardinality(s \ {x}) \in Nat
  BY <1>3, FS_CardinalityType
<1> QED BY <1>1, <1>2, <1>3, <1>4

LEMMA IterIs == ASSUME NEW f, NEW S, IsFiniteSet(S)
                PROVE  \A s \in SUBSET S : Iter(f, S)[s] = Up(f, Iter(f, S), s)
<1> DEFINE Small(n) == {s \in SUBSET S : Cardinality(s) <= n}
           T == {n \in Nat : \E g : g = [s \in Small(n) |-> Up(f, g, s)]}
<1>1. 0 \in T
  <2>1. \A s \in Small(0) : s = {}
    <3>1. \A s \in SUBSET S : IsFiniteSet(s) /\ Cardinality(s) \in Nat /\ (Cardinality(s) = 0 <=> s = {})
      BY FS_Subset, FS_CardinalityType, FS_EmptySet
    <3> QED BY <3>1
  <2> DEFINE g == [s \in Small(0) |-> 0]
  <2>2. \A s \in Small(0) : Up(f, g, s) = 0
    BY <2>1 DEF Up
  <2>3. g = [s \in Small(0) |-> Up(f, g, s)]
    BY <2>2
  <2> HIDE DEF g, Small
  <2> QED BY <2>3
<1>2. ASSUME NEW n \in T PROVE n + 1 \in T
  <2>0. n \in Nat
    OBVIOUS
  <2>1. PICK g : g = [s \in Small(n) |-> Up(f, g, s)]
    OBVIOUS
  <2> DEFINE h == [s \in Small(n + 1) |-> IF s \in Small(n) THEN g[s] ELSE Up(f, g, s)]
  <2>2. ASSUME NEW s \in Small(n + 1), s # {}
        PROVE  s \ {One(s)} \in Small(n) /\ s \ {One(s)} \in Small(n + 1)
    <3>1. One(s) \in s /\ s \in SUBSET S /\ Cardinality(s) <= n + 1
      BY <2>2, OneIn
    <3>2. /\ s \ {One(s)} \in SUBSET S /\ Cardinality(s \ {One(s)}) <= n
          /\ Cardinality(s \ {One(s)}) \in Nat
      BY <2>0, <3>1, LessOne
    <3> QED BY <2>0, <3>2
  <2>3. ASSUME NEW s \in Small(n + 1)
        PROVE  h[s] = Up(f, h, s)
    <3>1. s # {} => h[s \ {One(s)}] = g[s \ {One(s)}]
      <4> HIDE DEF Small
      <4> QED BY <2>2
    <3>2. Up(f, h, s) = Up(f, g, s)
      <4> HIDE DEF h
      <4> QED BY <3>1 DEF Up
    <3>3. s \in Small(n) => g[s] = Up(f, g, s)
      <4> HIDE DEF Small
      <4> QED BY <2>1
    <3> HIDE DEF Small
    <3> QED BY <3>2, <3>3
  <2>4. h = [s \in Small(n + 1) |-> Up(f, h, s)]
    <3>1. h = [s \in Small(n + 1) |-> h[s]]
      OBVIOUS
    <3> HIDE DEF h, Small
    <3> QED BY <2>3, <3>1
  <2>5. \E k : k = [s \in Small(n + 1) |-> Up(f, k, s)]
    <3> HIDE DEF h, Small
    <3> QED BY <2>4
  <2>6. n + 1 \in Nat
    BY <2>0
  <2> HIDE DEF Small
  <2> QED BY <2>5, <2>6
<1>3. T = Nat
  <2>1. T \in SUBSET Nat
    OBVIOUS
  <2> HIDE DEF T
  <2> QED BY <1>1, <1>2, <2>1, AllNat
<1>4. Cardinality(S) \in Nat /\ Small(Cardinality(S)) = SUBSET S
  <2>1. Cardinality(S) \in Nat
    BY FS_CardinalityType
  <2>2. \A s \in SUBSET S : Cardinality(s) <= Cardinality(S)
    BY FS_Subset
  <2> QED BY <2>1, <2>2
<1>5. \E g : g = [s \in SUBSET S |-> Up(f, g, s)]
  <2>1. Cardinality(S) \in T
    <3> HIDE DEF T
    <3> QED BY <1>3, <1>4
  <2>2. \E g : g = [s \in Small(Cardinality(S)) |-> Up(f, g, s)]
    <3> HIDE DEF Small
    <3> QED BY <2>1
  <2> HIDE DEF Small
  <2> QED BY <1>4, <2>2
<1>6. Iter(f, S) = [s \in SUBSET S |-> Up(f, Iter(f, S), s)]
  BY <1>5 DEF Iter
<1> HIDE DEF Small, T
<1> QED BY <1>6

(* The sum over a set is one of its values and the sum over the others,    *)
(* whichever value that is.                                                *)
Adds(g, f, S) == /\ g[{}] = 0
                 /\ \A s \in SUBSET S : g[s] \in Int /\ \A x \in s : g[s] = f[x] + g[s \ {x}]

LEMMA IterStep == ASSUME NEW f, NEW S, IsFiniteSet(S), \A x \in S : f[x] \in Int
                  PROVE  Adds(Iter(f, S), f, S)
<1> DEFINE I == Iter(f, S)
           Good(s) == I[s] \in Int /\ \A x \in s : I[s] = f[x] + I[s \ {x}]
           T == {n \in Nat : \A s \in SUBSET S : Cardinality(s) <= n => Good(s)}
<1>1. \A s \in SUBSET S : I[s] = Up(f, I, s)
  BY IterIs
<1> HIDE DEF I
<1>2. I[{}] = 0
  BY <1>1 DEF Up
<1>3. 0 \in T
  <2>1. \A s \in SUBSET S : IsFiniteSet(s) /\ Cardinality(s) \in Nat /\ (Cardinality(s) = 0 <=> s = {})
    BY FS_Subset, FS_CardinalityType, FS_EmptySet
  <2> QED BY <1>2, <2>1
<1>4. ASSUME NEW n \in T PROVE n + 1 \in T
  <2>0. n \in Nat /\ \A s \in SUBSET S : Cardinality(s) <= n => Good(s)
    OBVIOUS
  <2>1. ASSUME NEW s \in SUBSET S, Cardinality(s) <= n + 1
        PROVE  Good(s)
    <3>1. CASE s = {}
      BY <1>2, <3>1
    <3>2. CASE s # {}
      <4> DEFINE y == One(s)
      <4>1. y \in s
        BY <3>2, OneIn
      <4>2. I[s] = f[y] + I[s \ {y}]
        BY <1>1, <3>2 DEF Up
      <4> HIDE DEF y
      <4>3. s \ {y} \in SUBSET S /\ Cardinality(s \ {y}) <= n
        BY <2>0, <2>1, <4>1, LessOne
      <4>4. Good(s \ {y})
        <5> HIDE DEF Good
        <5> QED BY <2>0, <4>3
      <4>5. f[y] \in Int /\ I[s] \in Int
        BY <4>1, <4>2, <4>4
      <4>6. ASSUME NEW x \in s PROVE I[s] = f[x] + I[s \ {x}]
        <5>1. CASE x = y
          BY <4>2, <5>1
        <5>2. CASE x # y
          <6>1. s \ {x} \in SUBSET S /\ Cardinality(s \ {x}) <= n
            BY <2>0, <2>1, LessOne
          <6>2. Good(s \ {x})
            <7> HIDE DEF Good
            <7> QED BY <2>0, <6>1
          <6>3. y \in s \ {x} /\ x \in s \ {y} /\ (s \ {x}) \ {y} = (s \ {y}) \ {x}
            BY <4>1, <5>2
          <6>4. I[s \ {x}] = f[y] + I[(s \ {y}) \ {x}]
            BY <6>2, <6>3
          <6>5. I[s \ {y}] = f[x] + I[(s \ {y}) \ {x}]
            BY <4>4, <6>3
          <6>6. (s \ {y}) \ {x} \in SUBSET S /\ Cardinality((s \ {y}) \ {x}) <= n
            <7> DEFINE q == s \ {x}
            <7>1. q \in SUBSET S /\ y \in q /\ Cardinality(q) \in Nat /\ Cardinality(q) <= n
              BY <2>0, <2>1, <6>1, <6>3, LessOne
            <7>2. q \ {y} = (s \ {y}) \ {x}
              BY <6>3
            <7> HIDE DEF q
            <7>3. Cardinality(q) <= n + 1
              BY <2>0, <7>1
            <7>4. q \ {y} \in SUBSET S /\ Cardinality(q \ {y}) <= n
              BY <2>0, <7>1, <7>3, LessOne
            <7> QED BY <7>2, <7>4
          <6>7. I[(s \ {y}) \ {x}] \in Int
            <7>1. Good((s \ {y}) \ {x})
              <8> HIDE DEF Good
              <8> QED BY <2>0, <6>6
            <7> QED BY <7>1
          <6>8. f[x] \in Int
            OBVIOUS
          <6> QED BY <4>2, <4>5, <6>4, <6>5, <6>7, <6>8
        <5> QED BY <5>1, <5>2
      <4> QED BY <4>5, <4>6
    <3> QED BY <3>1, <3>2
  <2> HIDE DEF Good
  <2> QED BY <2>0, <2>1
<1>5. T = Nat
  <2>1. T \in SUBSET Nat
    OBVIOUS
  <2> HIDE DEF T
  <2> QED BY <1>3, <1>4, <2>1, AllNat
<1>6. \A s \in SUBSET S : Good(s)
  <2> TAKE s \in SUBSET S
  <2>1. Cardinality(s) \in Nat
    BY FS_Subset, FS_CardinalityType
  <2>2. Cardinality(s) \in T
    <3> HIDE DEF T
    <3> QED BY <1>5, <2>1
  <2> HIDE DEF Good
  <2> QED BY <2>1, <2>2
<1>7. Adds(I, f, S)
  BY <1>2, <1>6 DEF Adds
<1> QED BY <1>7 DEF I

(* There is one such sum only.                                             *)
LEMMA AddsUnique == ASSUME NEW S, IsFiniteSet(S), NEW f, NEW g, \A x \in S : g[x] = f[x],
                           NEW I, Adds(I, f, S), NEW J, Adds(J, g, S)
                    PROVE  J[S] = I[S]
<1> DEFINE T == {n \in Nat : \A s \in SUBSET S : Cardinality(s) <= n => J[s] = I[s]}
<1>1. I[{}] = 0 /\ \A s \in SUBSET S : \A x \in s : I[s] = f[x] + I[s \ {x}]
  BY DEF Adds
<1>2. J[{}] = 0 /\ \A s \in SUBSET S : \A x \in s : J[s] = g[x] + J[s \ {x}]
  BY DEF Adds
<1>3. 0 \in T
  <2>1. \A s \in SUBSET S : IsFiniteSet(s) /\ Cardinality(s) \in Nat /\ (Cardinality(s) = 0 <=> s = {})
    BY FS_Subset, FS_CardinalityType, FS_EmptySet
  <2>2. \A s \in SUBSET S : Cardinality(s) <= 0 => s = {}
    BY <2>1
  <2> QED BY <1>1, <1>2, <2>2
<1>4. ASSUME NEW n \in T PROVE n + 1 \in T
  <2>1. ASSUME NEW s \in SUBSET S, Cardinality(s) <= n + 1
        PROVE  J[s] = I[s]
    <3>1. CASE s = {}
      BY <1>1, <1>2, <3>1
    <3>2. CASE s # {}
      <4>1. PICK x \in s : TRUE
        BY <3>2
      <4>2. s \ {x} \in SUBSET S /\ Cardinality(s \ {x}) <= n
        BY <2>1, LessOne
      <4>3. J[s \ {x}] = I[s \ {x}] /\ g[x] = f[x]
        BY <4>2
      <4> QED BY <1>1, <1>2, <4>3
    <3> QED BY <3>1, <3>2
  <2> QED BY <2>1
<1>5. T = Nat
  <2>1. T \in SUBSET Nat
    OBVIOUS
  <2> HIDE DEF T
  <2> QED BY <1>3, <1>4, <2>1, AllNat
<1>6. Cardinality(S) \in Nat /\ Cardinality(S) \in T
  <2>1. Cardinality(S) \in Nat
    BY FS_CardinalityType
  <2> HIDE DEF T
  <2> QED BY <1>5, <2>1
<1> QED BY <1>6

(* What is needed of sums: the empty one, one more value, one value that   *)
(* changes.                                                                *)
LEMMA SumZero == ASSUME NEW S, IsFiniteSet(S), NEW f, \A x \in S : f[x] = 0
                 PROVE  SumFunctionOnSet(f, S) = 0
<1> DEFINE Z == [s \in SUBSET S |-> 0]
<1>1. Adds(Z, f, S)
  <2>1. \A s \in SUBSET S : \A x \in s : Z[s] = f[x] + Z[s \ {x}]
    <3> TAKE s \in SUBSET S
    <3> TAKE x \in s
    <3>1. s \ {x} \in SUBSET S /\ f[x] = 0
      OBVIOUS
    <3>2. Z[s] = 0 /\ Z[s \ {x}] = 0
      BY <3>1
    <3> QED BY <3>1, <3>2
  <2>2. \A s \in SUBSET S : Z[s] = 0
    OBVIOUS
  <2> HIDE DEF Z
  <2> QED BY <2>1, <2>2 DEF Adds
<1>2. Adds(Iter(f, S), f, S)
  BY IterStep
<1>3. Z[S] = 0
  OBVIOUS
<1> HIDE DEF Z
<1>4. Z[S] = Iter(f, S)[S]
  BY <1>1, <1>2, AddsUnique
<1> QED BY <1>3, <1>4, SumIs

LEMMA SumAdd == ASSUME NEW S, IsFiniteSet(S), NEW x, x \notin S, NEW f,
                       \A y \in S \cup {x} : f[y] \in Int
                PROVE  /\ SumFunctionOnSet(f, S) \in Int
                       /\ SumFunctionOnSet(f, S \cup {x}) = SumFunctionOnSet(f, S) + f[x]
<1> DEFINE U == S \cup {x}
           I == Iter(f, U)
           J == Iter(f, S)
<1>1. IsFiniteSet(U) /\ S \in SUBSET U /\ U \in SUBSET U /\ x \in U /\ U \ {x} = S
  BY FS_AddElement
<1>2. (\A y \in U : f[y] \in Int) /\ (\A y \in S : f[y] \in Int)
  OBVIOUS
<1>3. SumFunctionOnSet(f, S) = J[S] /\ SumFunctionOnSet(f, S \cup {x}) = I[U]
  BY SumIs
<1> HIDE DEF U
<1>4. Adds(I, f, U) /\ Adds(J, f, S)
  BY <1>1, <1>2, IterStep
<1> HIDE DEF I, J
<1>5. I[U] = f[x] + I[S] /\ I[S] \in Int
  BY <1>1, <1>4 DEF Adds
<1>6. Adds(I, f, S)
  BY <1>1, <1>4 DEF Adds
<1>7. J[S] = I[S]
  BY <1>4, <1>6, AddsUnique
<1>8. f[x] \in Int
  OBVIOUS
<1> QED BY <1>3, <1>5, <1>7, <1>8

LEMMA SumSame == ASSUME NEW S, IsFiniteSet(S), NEW f, NEW g, \A y \in S : f[y] \in Int,
                        \A y \in S : g[y] = f[y]
                 PROVE  SumFunctionOnSet(g, S) = SumFunctionOnSet(f, S)
<1>1. \A y \in S : g[y] \in Int
  OBVIOUS
<1>2. Adds(Iter(f, S), f, S) /\ Adds(Iter(g, S), g, S)
  BY <1>1, IterStep
<1>3. Iter(g, S)[S] = Iter(f, S)[S]
  BY <1>2, AddsUnique
<1> QED BY <1>3, SumIs

LEMMA SumChange == ASSUME NEW S, IsFiniteSet(S), NEW f, NEW g, NEW x \in S,
                          \A y \in S : f[y] \in Int, \A y \in S : g[y] \in Int,
                          \A y \in S \ {x} : g[y] = f[y]
                   PROVE  /\ SumFunctionOnSet(f, S) \in Int
                          /\ SumFunctionOnSet(g, S) = SumFunctionOnSet(f, S) + g[x] - f[x]
<1> DEFINE R == S \ {x}
<1>1. IsFiniteSet(R) /\ x \notin R /\ R \cup {x} = S
  BY FS_RemoveElement
<1> HIDE DEF R
<1>2. /\ SumFunctionOnSet(f, R) \in Int
      /\ SumFunctionOnSet(f, R \cup {x}) = SumFunctionOnSet(f, R) + f[x]
  BY <1>1, SumAdd
<1>3. /\ SumFunctionOnSet(g, R) \in Int
      /\ SumFunctionOnSet(g, R \cup {x}) = SumFunctionOnSet(g, R) + g[x]
  BY <1>1, SumAdd
<1>4. SumFunctionOnSet(g, R) = SumFunctionOnSet(f, R)
  BY <1>1, SumSame
<1>5. f[x] \in Int /\ g[x] \in Int
  OBVIOUS
<1>6. /\ SumFunctionOnSet(f, S) = SumFunctionOnSet(f, R) + f[x]
      /\ SumFunctionOnSet(g, S) = SumFunctionOnSet(g, R) + g[x]
  BY <1>1, <1>2, <1>3, Zenon
<1> QED BY <1>2, <1>4, <1>5, <1>6

-----------------------------------------------------------------------------
(* A vaccinator that gets mSafe has somebody to call, and everyone called  *)
(* so far had come: who posts mCitizen has mSafe until currCitizen is set  *)
(* (L278-293), and the vaccinator it wakes waits for mSafe (L228-248).     *)
LEMMA CallerFinds == ClinicInv => SomebodyToCall
<1> SUFFICES ASSUME ClinicInv PROVE SomebodyToCall
  OBVIOUS
<1>1. ASSUME ~sigint, sem["mSafe"] > 0, NEW p \in Vaccinators, pc[p] = "invite",
             currCitizen = NoCitizen
      PROVE  FALSE
  <2> DEFINE i == AtLabels(Vaccinators, {"invite"})
             c == AtLabels(Citizens, {"naming"})
  <2>1. i \in Nat /\ c \in Nat
    BY TalliesAreNat
  <2>2. i # 0
    <3>1. Vaccinators \in SUBSET Processes /\ ~(\A q \in Vaccinators : pc[q] \notin {"invite"})
      BY <1>1, Sets
    <3> QED
      BY <3>1, AtFinite
  <2>3. /\ sem["mSafe"] + c = 1
        /\ sem["mCitizen"] + totalAppliedDose + i = Came + c
    BY <1>1 DEF ClinicInv, Equations
  <2>4. sem["mSafe"] \in Nat /\ sem["mCitizen"] \in Nat /\ totalAppliedDose \in Nat
    BY DEF ClinicInv, TypeInv, TypeOK, Semaphores
  <2>5. Came = 0
    <3>1. ASSUME NEW t \in TurnsTaken PROVE FALSE
      <4>1. t[1] \in Citizens /\ t[2] \in 1..numOfDose /\ turns[t[1]] < t[2]
        BY <3>1 DEF TurnsTaken
      <4>2. turns[t[1]] = numOfDose /\ numOfDose \in Nat
        BY <1>1, <4>1, ClinicAssumption DEF ClinicInv, SomebodyCame
      <4> QED
        BY <4>1, <4>2
    <3>2. TurnsTaken = {}
      BY <3>1
    <3> QED
      BY <3>2, FS_EmptySet DEF Came
  <2> HIDE DEF i, c
  <2>6. c = 0
    BY <1>1, <2>1, <2>3, <2>4
  <2> QED
    BY <2>1, <2>2, <2>3, <2>4, <2>5, <2>6
<1>2. \A c \in Citizens : invited[c] > 0 => turns[c] < numOfDose
  BY DEF ClinicInv, SomebodyCame
<1> QED
  BY <1>1, <1>2 DEF SomebodyToCall

Called == ~sigint => totalAppliedDose = SumFunctionOnSet(invited, Citizens)

LEMMA CitizensFinite == IsFiniteSet(Citizens)
<1>1. Citizens \subseteq Processes
  BY DEF Processes, Children
<1> QED
  BY <1>1, ClinicAssumption, FS_Subset

LEMMA CalledStarts == Init => Called
<1> SUFFICES ASSUME Init PROVE Called
  OBVIOUS
<1>1. IsFiniteSet(Citizens) /\ \A c \in Citizens : invited[c] = 0
  BY CitizensFinite DEF Init
<1>2. SumFunctionOnSet(invited, Citizens) = 0
  BY <1>1, SumZero
<1> QED
  BY <1>2 DEF Init, Called

LEMMA CalledSteps == ASSUME ClinicInv, Called, [Next]_vars PROVE Called'
<1> SUFFICES ASSUME ~sigint' PROVE totalAppliedDose' = SumFunctionOnSet(invited', Citizens)
  BY DEF Called
<1>1. CASE \E p \in Vaccinators : Vaccinate(p)
  <2>1. PICK p \in Vaccinators : Vaccinate(p)
    BY <1>1
  <2>2. ~sigint /\ eintr = {} /\ pc[p] = "invite" /\ sem["mSafe"] > 0
    BY <2>1 DEF Vaccinate, CanPass, ClinicInv, TypeInv
  <2>3. currCitizen \in Citizens
    BY <2>2, CallerFinds DEF SomebodyToCall, ClinicInv, TypeInv, TypeOK
  <2>4. /\ currCitizen # NoCitizen /\ invited \in [Citizens -> Nat] /\ totalAppliedDose \in Nat
        /\ IsFiniteSet(Citizens)
    BY <2>3, ClinicAssumption, CitizensFinite DEF ClinicInv, TypeInv, TypeOK
  <2>5. /\ invited' = [invited EXCEPT ![currCitizen] = @ + 1]
        /\ totalAppliedDose' = totalAppliedDose + 1
    BY <2>1, <2>4 DEF Vaccinate
  <2> DEFINE g == invited'
             c == currCitizen
  <2>6. /\ \A d \in Citizens : invited[d] \in Int /\ g[d] \in Int
        /\ g[c] = invited[c] + 1 /\ \A d \in Citizens \ {c} : g[d] = invited[d]
    BY <2>3, <2>4, <2>5
  <2>7. c \in Citizens /\ totalAppliedDose = SumFunctionOnSet(invited, Citizens)
    BY <2>2, <2>3 DEF Called
  <2> HIDE DEF g, c
  <2>8. SumFunctionOnSet(g, Citizens) = SumFunctionOnSet(invited, Citizens) + g[c] - invited[c]
    BY <2>4, <2>6, <2>7, SumChange
  <2>9. SumFunctionOnSet(g, Citizens) = totalAppliedDose + 1
    BY <2>4, <2>6, <2>7, <2>8
  <2> QED
    BY <2>5, <2>9 DEF g
<1>2. CASE ~\E p \in Vaccinators : Vaccinate(p)
  <2>1. invited' = invited /\ totalAppliedDose' = totalAppliedDose /\ ~sigint
    <3>1. CASE UNCHANGED vars
      BY <3>1 DEF vars
    <3>2. CASE ParentCloses \/ (\E p \in Processes : Sigint(p)) \/ Finished
      BY <3>2 DEF ParentCloses, Sigint, Finished, vars, signals
    <3>3. ASSUME NEW p \in Children, Step(p)
          PROVE  invited' = invited /\ totalAppliedDose' = totalAppliedDose /\ sigint' = sigint
      <4>1. CASE NurseStep(p) \/ TurnsAway(p)
        BY <4>1 DEF NurseStep, NurseTakesPlace, NurseLocks, NurseBrings, TurnsAway, Returns, signals
      <4>2. CASE VaccinatorStep(p)
        BY <1>2, <4>2 DEF VaccinatorStep, VaccinatorTakes, VaccinatorLocks, VaccinatorAborts,
                          VaccinatorLooks, VaccinatorMeetsCitizen, Vaccinate, Returns, signals
      <4>3. CASE CitizenStep(p)
        BY <4>3 DEF CitizenStep, CitizenPosts, CitizenComes, CitizenLeaves, Returns, signals
      <4> QED
        BY <3>3, <4>1, <4>2, <4>3 DEF Step
    <3> QED
      BY <3>1, <3>2, <3>3 DEF Next
  <2> QED
    BY <2>1 DEF Called
<1> QED
  BY <1>1, <1>2

-----------------------------------------------------------------------------
(* The theorems.                                                           *)

LEMMA ClinicKeeps == Spec => []ClinicInv
BY ClinicStarts, ClinicSteps, PTL DEF Spec

(* Places of the buffer, doses on the shelf and turns of the citizens      *)
(* tally in every clinic, whatever the file holds between its vaccines     *)
(* (L84-141, L170, L178, L200-218, L228, L252-253, L279).                  *)
THEOREM TalliesCorrect == Spec => []ClinicTallies
<1>1. ClinicInv => ClinicTallies
  <2> SUFFICES ASSUME ClinicInv PROVE ClinicTallies
    OBVIOUS
  <2>1. TypeOK /\ Shelf /\ Equations
    BY DEF ClinicInv, TypeInv
  <2> DEFINE n == AtLabels(Nurses, {"m", "inside"})
             v == AtLabels(Vaccinators, {"full2"})
             w == AtLabels(Vaccinators, TwoLabels)
  <2>2. n \in Nat /\ v \in Nat /\ w \in Nat
    BY TalliesAreNat
  <2>3. sem["empty"] \in Nat /\ sem["full"] \in Nat
    BY <2>1 DEF TypeOK, Semaphores
  <2>4. ~sigint => /\ sem["empty"] + sem["full"] + n + v + 2 * w = sizeOftheBuffer
                   /\ sem["full"] + v + 2 * w = firstDose + secDose + nurseTermination
    BY <2>1 DEF Equations, Filled
  <2>5. Carried = n + v + 2 * w
    BY DEF Carried, TwoLabels
  <2> HIDE DEF n, v, w
  <2>6. ~sigint => sem["empty"] + sem["full"] + Carried = sizeOftheBuffer
    BY ONLY <2>2, <2>3, <2>4, <2>5
  <2>7. PlacesAccounted
    BY <2>4, <2>6 DEF PlacesAccounted, v, w, TwoLabels
  <2>8. DosesAccounted
    BY <2>1 DEF DosesAccounted, Shelf, Equations, Came
  <2> QED
    BY <2>1, <2>7, <2>8 DEF ClinicTallies
<1> QED
  BY <1>1, ClinicKeeps, PTL

(* Nobody is ever at the counters with another process, though a wait that *)
(* SIGINT interrupts is taken for a successful one (lib.c L122): who comes *)
(* back from such a wait finds the flag set and turns away (L92, L186).    *)
THEOREM MutualExclusion == Spec => []InsideAlone
<1>1. ClinicInv => InsideAlone
  <2> SUFFICES ASSUME ClinicInv PROVE InsideAlone
    OBVIOUS
  <2> DEFINE A == {p \in Children : pc[p] \in InsideLabels}
  <2>1. A = {} \/ \E p : A = {p}
    BY DEF ClinicInv, Alone
  <2> HIDE DEF A
  <2>2. Cardinality(A) \in {0, 1}
    BY <2>1, FS_EmptySet, FS_Singleton
  <2> QED
    BY <2>2 DEF A, InsideAlone, AtLabels, InsideLabels
<1> QED
  BY <1>1, ClinicKeeps, PTL

(* A vaccinator that gets mSafe has somebody to call, who has come (L228-  *)
(* 248, L278-293), and without SIGINT every dose is given to one who was   *)
(* called: none is counted with nobody there.                              *)
THEOREM SomebodyIsCalled == Spec => []InvitesSomebody
<1>1. ClinicInv /\ Called /\ [Next]_vars => Called'
  BY CalledSteps
<1>2. Spec => []Called
  BY CalledStarts, <1>1, ClinicKeeps, PTL DEF Spec
<1>3. ClinicInv /\ Called => InvitesSomebody
  <2> SUFFICES ASSUME ClinicInv, Called PROVE InvitesSomebody
    OBVIOUS
  <2>1. DOMAIN invited = Citizens
    BY DEF ClinicInv, TypeInv, TypeOK
  <2> QED
    BY <2>1, CallerFinds DEF Called, InvitesSomebody, SumFunction
<1> QED
  BY <1>2, <1>3, ClinicKeeps, PTL

=============================================================================
