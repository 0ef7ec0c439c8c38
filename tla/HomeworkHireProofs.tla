------------------------- MODULE HomeworkHireProofs -------------------------
(* Theorems about HomeworkHire, for any students, homeworks and money.     *)
EXTENDS HomeworkHire, SequenceTheorems, WellFoundedInduction, TLAPS

(* The inductive invariant behind FinitoIsFinal: once H has set eof it has *)
(* ended and left nothing in the file; a student that goes on to look at   *)
(* the queue has seen eof set; and what H appends is there.                *)
HasEnded  == eof => hAt = "ended" /\ homeworks = <<>>
SawEof    == \A s \in Students : at[s] = "empty" => eof
HasRead   == hAt \in {"append", "add"} => homeworks # <<>>
FinalInv  == /\ finito \in Nat /\ hw_queue \in Seq(Kinds)
             /\ homeworks \in Seq(Kinds)
             /\ at \in [Students -> Places]
             /\ HasEnded /\ SawEof /\ HasRead /\ FinitoIsFinal

(* What the queue is when H has appended a homework to it.                 *)
LEMMA Appended == ASSUME NEW q \in Seq(Kinds), NEW x \in Kinds
                  PROVE  Append(q, x) \in Seq(Kinds) /\ Len(Append(q, x)) = Len(q) + 1
  BY AppendProperties, Zenon

LEMMA FinalInit == Init => FinalInv
  BY HireAssumption DEF Init, FinalInv, HasEnded, SawEof, HasRead, FinitoIsFinal, Places

(* H is the only one that puts a homework into the queue, and it does so   *)
(* before it sets eof.                                                     *)
LEMMA FinalStep == ASSUME FinalInv, [Next]_vars
                   PROVE  FinalInv'
<1> USE DEF Places, FinalInv, HasEnded, SawEof, HasRead, FinitoIsFinal, queueVars, studentVars, walk
<1>1. CASE HReads \/ HReadsSize
  BY <1>1 DEF HReads, HReadsSize
<1>2. CASE HAdds
  <2>0. hw_queue \in Seq(Kinds)
    OBVIOUS
  <2>1. /\ homeworks # <<>> /\ homeworks' = Tail(homeworks)
        /\ hw_queue' = Append(hw_queue, Head(homeworks)) \/ UNCHANGED hw_queue
        /\ hAt = "add" /\ hAt' = "read" /\ UNCHANGED <<finito, eof, at>>
    BY <1>2 DEF HAdds
  <2>2. Head(homeworks) \in Kinds /\ homeworks' \in Seq(Kinds)
    BY <2>1, HeadTailProperties
  <2>3. hw_queue' \in Seq(Kinds)
    <3>1. Append(hw_queue, Head(homeworks)) \in Seq(Kinds)
      BY ONLY <2>2, <2>0, Appended, Zenon
    <3> QED BY ONLY <2>1, <2>0, <3>1
  <2> QED BY <2>1, <2>2, <2>3
<1>3. CASE HEnds
  BY <1>3 DEF HEnds, EofRead
<1>4. CASE MainHires
  <2>1. hw_queue # <<>> /\ hw_queue' = Tail(hw_queue) /\ hw_queue' \in Seq(Kinds)
    BY <1>4, HeadTailProperties DEF MainHires
  <2>2. UNCHANGED <<finito, eof, hAt, homeworks, at>>
    BY <1>4 DEF MainHires
  <2> QED BY <2>1, <2>2
<1>5. CASE MainFinishes
  BY <1>5 DEF MainFinishes
<1>6. CASE \/ MainWaitsFile \/ MainTests \/ MainGets \/ MainWaitsAvailable
           \/ MainFails \/ MainPays \/ MainEnds \/ \E s \in Students : MainLooksAt(s)
  BY <1>6 DEF MainWaitsFile, MainTests, MainGets, MainWaitsAvailable, MainFails,
              MainPays, MainEnds, MainLooksAt
<1>7. ASSUME NEW s \in Students, StudentReadsEof(s)
      PROVE  FinalInv'
  <2>1. at' = [at EXCEPT ![s] = IF eof THEN "empty" ELSE "startWork"]
    BY <1>7 DEF StudentReadsEof, Goto, EofSeen
  <2>2. UNCHANGED <<finito, eof, hAt, homeworks, hw_queue>>
    BY <1>7 DEF StudentReadsEof
  <2> QED BY <2>1, <2>2
<1>8. ASSUME NEW s \in Students, StudentMayBeLast(s)
      PROVE  FinalInv'
  <2>1. at' = [at EXCEPT ![s] = "startWork"] /\ at[s] = "empty"
    BY <1>8 DEF StudentMayBeLast, Goto
  <2>2. eof /\ homeworks = <<>>
    BY <2>1
  <2>3. UNCHANGED <<eof, hAt, homeworks, hw_queue>>
    BY <1>8 DEF StudentMayBeLast
  <2>4. finito' = finito \/ (finito' = finito + 1 /\ hw_queue = <<>>)
    BY <1>8 DEF StudentMayBeLast
  <2> QED BY <2>1, <2>2, <2>3, <2>4
<1>9. ASSUME NEW s \in Students,
             \/ StudentWakes(s) \/ StudentTurnsBusy(s) \/ StudentLives(s)
             \/ StudentSolves(s) \/ StudentTurnsFree(s) \/ StudentUnlives(s)
      PROVE  FinalInv'
  <2>1. UNCHANGED <<finito, eof, hAt, homeworks, hw_queue>>
    BY <1>9 DEF StudentWakes, StudentTurnsBusy, StudentLives, StudentSolves,
                StudentTurnsFree, StudentUnlives
  <2>2. \E l \in {"ended", "busy", "live", "solve", "free", "unlive", "eof"} :
          at' = [at EXCEPT ![s] = l]
    BY <1>9 DEF StudentWakes, StudentTurnsBusy, StudentLives, StudentSolves,
                StudentTurnsFree, StudentUnlives, Goto
  <2> QED BY <2>1, <2>2
<1>10. CASE UNCHANGED vars
  BY <1>10 DEF vars
<1> QED
  BY <1>1, <1>2, <1>3, <1>4, <1>5, <1>6, <1>7, <1>8, <1>9, <1>10
     DEF Next, HStep, MainStep, StudentStep

(* finito is posted only when every homework has been given away: for any  *)
(* number of students, whatever they cost and G has (L295-301).            *)
THEOREM FinitoOnlyAtTheEnd == Spec => []FinitoIsFinal
<1>1. FinalInv => FinitoIsFinal
  BY DEF FinalInv
<1> QED BY FinalInit, FinalStep, <1>1, PTL DEF Spec

-----------------------------------------------------------------------------
(* The inductive invariant behind TokensAgree and NothingMissing: H ends   *)
(* either at the end of the file or for want of money, which then stays at *)
(* 0; and while the main thread is about to take a homework, the end of    *)
(* the file means that there is one, unless one was lost.                  *)
Taking   == mainAt \in {"get", "available", "walk", "hire"}
TokTypes == /\ waitFile \in Nat /\ lost \in Nat /\ money \in Nat
            /\ hw_queue \in Seq(Kinds) /\ homeworks \in Seq(Kinds)
            /\ index \in Students /\ eof \in BOOLEAN
            /\ hAt \in {"read", "append", "add", "ended"}
EndsWhy  == /\ hAt = "ended" /\ ~eof => money = 0
            /\ eof => hAt = "ended"
            /\ hAt = "add" \/ hAt = "append" => homeworks # <<>>
CanPay   == mainAt = "pay" => money >= cost[index]
LastOne  == lost = 0 /\ Taking /\ eof => hw_queue # <<>>
TokInv   == /\ TokTypes /\ EndsWhy /\ CanPay /\ LastOne /\ TokensAgree
            /\ mainAt = "failed" => lost # 0 \/ cost[index] = 0

LEMMA TokInit == Init => TokInv
<1> SUFFICES ASSUME Init PROVE TokInv
  OBVIOUS
<1>1. homeworks \in Seq(Kinds) /\ money \in Nat
  BY HireAssumption DEF Init
<1>2. hw_queue = <<>> /\ waitFile = 0 /\ lost = 0 /\ hAt = "read" /\ eof = FALSE
      /\ mainAt = "waitFile" /\ index \in Students
  BY DEF Init
<1>3. hw_queue \in Seq(Kinds) /\ Len(hw_queue) = 0
  BY <1>2
<1>4. TokTypes
  BY <1>1, <1>2, <1>3 DEF TokTypes
<1>5. EndsWhy /\ CanPay /\ LastOne
  BY <1>2 DEF EndsWhy, CanPay, LastOne, Taking
<1>6. TokensAgree
  BY <1>2, <1>3 DEF TokensAgree
<1> QED BY <1>2, <1>4, <1>5, <1>6 DEF TokInv

(* A step of a student changes nothing that the invariant speaks of.       *)
tokVars == <<mainAt, queueVars, waitFile, money, index>>

LEMMA TokStudent ==
  ASSUME NEW s \in Students, StudentStep(s)
  PROVE  UNCHANGED tokVars
<1> USE DEF tokVars, walk
<1>1. CASE StudentWakes(s) \/ StudentTurnsBusy(s) \/ StudentLives(s)
  BY <1>1 DEF StudentWakes, StudentTurnsBusy, StudentLives
<1>2. CASE StudentSolves(s) \/ StudentTurnsFree(s) \/ StudentUnlives(s)
  BY <1>2 DEF StudentSolves, StudentTurnsFree, StudentUnlives
<1>3. CASE StudentReadsEof(s) \/ StudentMayBeLast(s)
  BY <1>3 DEF StudentReadsEof, StudentMayBeLast
<1> QED BY <1>1, <1>2, <1>3 DEF StudentStep

LEMMA TokStep == ASSUME TokInv, [Next]_vars
                 PROVE  TokInv'
<1> USE DEF TokInv, TokTypes, EndsWhy, CanPay, LastOne, Taking, TokensAgree,
            queueVars, walk
<1>1. CASE HReads
  BY <1>1 DEF HReads
<1>2. CASE HReadsSize
  BY <1>2 DEF HReadsSize
<1>3. CASE HAdds
  <2>0. hw_queue \in Seq(Kinds)
    OBVIOUS
  <2>1. /\ hAt = "add" /\ homeworks # <<>> /\ homeworks' = Tail(homeworks)
        /\ hAt' = "read" /\ waitFile' = waitFile + 1
        /\ UNCHANGED <<mainAt, eof, money, index>>
    BY <1>3 DEF HAdds, PostedByH
  <2>2. \/ lost' = lost + 1 /\ hw_queue' = hw_queue
        \/ lost' = lost /\ hw_queue' = Append(hw_queue, Head(homeworks))
    BY <1>3 DEF HAdds
  <2>3. Head(homeworks) \in Kinds /\ homeworks' \in Seq(Kinds)
    BY <2>1, HeadTailProperties
  <2>4. \/ lost' = lost + 1 /\ Len(hw_queue') = Len(hw_queue) /\ hw_queue' \in Seq(Kinds)
        \/ lost' = lost /\ Len(hw_queue') = Len(hw_queue) + 1 /\ hw_queue' \in Seq(Kinds)
    <3>1. CASE lost' = lost + 1 /\ hw_queue' = hw_queue
      BY ONLY <3>1, <2>0
    <3>2. CASE lost' = lost /\ hw_queue' = Append(hw_queue, Head(homeworks))
      <4>1. Head(homeworks) \in Kinds
        BY ONLY <2>3
      <4>2. /\ Append(hw_queue, Head(homeworks)) \in Seq(Kinds)
            /\ Len(Append(hw_queue, Head(homeworks))) = Len(hw_queue) + 1
        BY ONLY <4>1, <2>0, Appended, Zenon
      <4> QED BY ONLY <3>2, <4>2
    <3> QED BY ONLY <2>2, <3>1, <3>2
  <2>5. hw_queue' \in Seq(Kinds)
    BY ONLY <2>4
  <2>6. TokTypes'
    BY <2>1, <2>2, <2>3, <2>5
  <2>7. EndsWhy' /\ CanPay' /\ LastOne' /\ (mainAt' = "failed" => lost' # 0 \/ cost[index'] = 0)
    BY <2>1, <2>2
  <2>8. TokensAgree'
    <3>1. /\ lost' - lost + Len(hw_queue') = Len(hw_queue) + 1
          /\ Len(hw_queue) \in Nat /\ Len(hw_queue') \in Nat /\ lost' \in Nat
      BY <2>4, <2>0
    <3> QED BY <2>1, <3>1
  <2> QED BY <2>6, <2>7, <2>8
<1>4. CASE HEnds
  <2>1. /\ hAt = "read" /\ eof' = TRUE /\ waitFile' = waitFile + 1 /\ hAt' = "ended"
        /\ UNCHANGED <<mainAt, hw_queue, homeworks, lost, money, index>>
    BY <1>4 DEF HEnds, EofRead
  <2>2. ASSUME lost = 0, Taking PROVE hw_queue # <<>>
    BY <2>1, <2>2
  <2> QED BY <2>1, <2>2
<1>5. CASE MainWaitsFile
  BY <1>5 DEF MainWaitsFile
<1>6. CASE MainTests
  BY <1>6 DEF MainTests
<1>7. CASE MainGets \/ MainWaitsAvailable
  <2>1. /\ UNCHANGED <<queueVars, waitFile, money, index>>
        /\ mainAt \in {"get", "available"} /\ mainAt' \in {"available", "hire", "walk"}
    BY <1>7 DEF MainGets, MainWaitsAvailable
  <2> QED BY <2>1
<1>8. ASSUME NEW s \in Students, MainLooksAt(s)
      PROVE  TokInv'
  BY <1>8 DEF MainLooksAt
<1>9. CASE MainHires
  <2>1. /\ mainAt = "hire" /\ mainAt' = "pay" /\ money >= cost[index]
        /\ hw_queue # <<>> /\ hw_queue' = Tail(hw_queue)
        /\ UNCHANGED <<homeworks, eof, hAt, lost, money, waitFile, index>>
    BY <1>9 DEF MainHires
  <2>2. hw_queue' \in Seq(Kinds) /\ Len(hw_queue') = Len(hw_queue) - 1
    BY <2>1, HeadTailProperties
  <2> QED BY <2>1, <2>2
<1>10. CASE MainFails
  <2>1. /\ mainAt = "hire" /\ mainAt' = "failed" /\ money >= cost[index]
        /\ hw_queue = <<>> /\ UNCHANGED <<queueVars, money, waitFile, index>>
    BY <1>10 DEF MainFails
  <2>2. lost # 0 \/ money = 0
    BY <2>1
  <2>3. cost[index] \in Nat
    BY HireAssumption
  <2>4. lost # 0 \/ cost[index] = 0
    BY <2>1, <2>2, <2>3
  <2> QED BY <2>1, <2>4
<1>11. CASE MainPays
  <2>1. /\ mainAt = "pay" /\ mainAt' = "waitFile" /\ money' = money - cost[index]
        /\ UNCHANGED <<queueVars, waitFile, index>>
    BY <1>11 DEF MainPays, Paid
  <2>2. money' \in Nat /\ (money = 0 => money' = 0)
    BY <2>1, HireAssumption
  <2> QED BY <2>1, <2>2
<1>12. CASE MainFinishes \/ MainEnds
  <2>1. /\ UNCHANGED <<queueVars, money, waitFile, index>>
        /\ \/ mainAt \in {"hire", "finito"} /\ mainAt' = "join"
           \/ mainAt = "join" /\ mainAt' = "ended"
    BY <1>12 DEF MainFinishes, MainEnds
  <2>2. mainAt' \notin {"waitFile", "pay", "failed"} /\ ~Taking'
    BY <2>1
  <2>3. mainAt \notin {"waitFile", "pay"}
    BY <2>1
  <2>4. TokensAgree'
    BY <2>1, <2>2, <2>3
  <2> QED BY <2>1, <2>2, <2>4
<1>13. ASSUME NEW s \in Students, StudentStep(s)
       PROVE  TokInv'
  BY <1>13, TokStudent DEF tokVars
<1>14. CASE UNCHANGED vars
  BY <1>14 DEF vars
<1> QED
  BY <1>1, <1>2, <1>3, <1>4, <1>5, <1>6, <1>7, <1>8, <1>9, <1>10, <1>11, <1>12,
     <1>13, <1>14 DEF Next, HStep, MainStep

(* waitFile counts the homeworks there are, those that were refused and    *)
(* the end: for any number of students and any files (L169, L456, L460).   *)
THEOREM WaitFileCounts == Spec => []TokensAgree
<1>1. TokInv => TokensAgree
  BY DEF TokInv
<1> QED BY TokInit, TokStep, <1>1, PTL DEF Spec

(* As long as the list has refused nothing there is a homework to get and  *)
(* to remove, and the program does not fail, unless for a student that     *)
(* costs nothing (L170-185, L212).                                         *)
THEOREM OnlyRefusalsHurt == Spec => []NothingMissing
<1>1. TokInv => NothingMissing
  <2> SUFFICES ASSUME TokInv, lost = 0 PROVE NothingMissing
    BY DEF NothingMissing
  <2> USE DEF TokInv, TokTypes, EndsWhy, LastOne, Taking, TokensAgree
  <2>1. ASSUME Taking, hw_queue = <<>> PROVE money = 0 /\ hAt = "ended"
    <3>1. hAt = "ended"
      BY <2>1
    <3> QED BY <2>1, <3>1
  <2>2. cost[index] \in Nat
    BY HireAssumption
  <2>3. mainAt = "hire" /\ money >= cost[index] /\ hw_queue = <<>>
          => money = 0 /\ cost[index] = 0
    BY <2>1, <2>2
  <2>4. mainAt = "failed" => cost[index] = 0
    OBVIOUS
  <2> QED BY <2>1, <2>3, <2>4 DEF NothingMissing
<1> QED BY TokInit, TokStep, <1>1, PTL DEF Spec
-----------------------------------------------------------------------------
(* Sums over the students.  The library's induction theorems cannot be     *)
(* used here, but that a set of naturals has a least element follows from  *)
(* the well-foundedness of <, and gives induction for a set.               *)
Smaller == {p \in Nat \X Nat : p[1] < p[2]}

LEMMA Least == ASSUME NEW T \in SUBSET Nat, T # {}
               PROVE  \E x \in T : \A y \in T : x <= y
<1>1. IsWellFoundedOn(OpToRel(<, Nat), Nat)
  BY NatLessThanWellFounded, Zenon
<1>2. OpToRel(<, Nat) = Smaller
  BY DEF OpToRel, Smaller
<1>3. PICK x \in T : \A y \in T : ~ (<<y, x>> \in Smaller)
  BY <1>1, <1>2, WFMin, T \subseteq Nat, Zenon
<1>4. ASSUME NEW y \in T PROVE x <= y
  <2>1. x \in Nat /\ y \in Nat
    OBVIOUS
  <2>2. <<y, x>> \in Nat \X Nat /\ ~ (<<y, x>> \in Smaller)
    BY <1>3, <2>1
  <2> QED BY <2>1, <2>2 DEF Smaller
<1> QED BY <1>4

(* Induction up to n: T is the set of those for which a formula holds.     *)
LEMMA UpTo == ASSUME NEW n \in Nat, NEW T \in SUBSET Nat, 0 \in T,
                     \A k \in 1..n : k - 1 \in T => k \in T
              PROVE  \A k \in 0..n : k \in T
<1> SUFFICES ASSUME NEW m \in 0..n, m \notin T PROVE FALSE
  OBVIOUS
<1>1. (0..n) \ T \in SUBSET Nat /\ (0..n) \ T # {}
  OBVIOUS
<1>2. PICK x \in (0..n) \ T : \A y \in (0..n) \ T : x <= y
  BY <1>1, Least, Zenon
<1>3. x \in 1..n /\ x - 1 \in 0..n
  BY <1>2
<1>4. x - 1 \in T
  BY <1>2, <1>3
<1> QED BY <1>2, <1>3, <1>4

(* The partial sums of Total, and that they exist.                         *)
SumTo(f) == CHOOSE g : g = [s \in 0..line_count |-> IF s = 0 THEN 0 ELSE f[s] + g[s - 1]]
LEMMA TotalIs == ASSUME NEW f PROVE Total(f) = SumTo(f)[line_count]
  BY DEF Total, SumTo

LEMMA SumToIs == ASSUME NEW f \in [Students -> Int]
   PROVE SumTo(f) = [s \in 0..line_count |-> IF s = 0 THEN 0 ELSE f[s] + SumTo(f)[s - 1]]
<1> DEFINE Step(g, s) == IF s = 0 THEN 0 ELSE f[s] + g[s - 1]
           T == {k \in Nat : k <= line_count => \E g : g = [s \in 0..k |-> Step(g, s)]}
<1>0. line_count \in Nat /\ T \in SUBSET Nat
  BY HireAssumption
<1>1. 0 \in T
  <2>1. [s \in 0..0 |-> 0] = [s \in 0..0 |-> Step([r \in 0..0 |-> 0], s)]
    OBVIOUS
  <2> QED BY <2>1, 0 \in Nat
<1>2. ASSUME NEW k \in 1..line_count, k - 1 \in T
      PROVE  k \in T
  <2>1. PICK g : g = [s \in 0..(k - 1) |-> Step(g, s)]
    BY <1>0, <1>2
  <2> DEFINE h == [s \in 0..k |-> IF s = k THEN f[k] + g[k - 1] ELSE g[s]]
  <2>2. ASSUME NEW s \in 0..k PROVE h[s] = Step(h, s)
    <3>1. CASE s = k
      BY <3>1, <1>0
    <3>2. CASE s # k /\ s = 0
      <4>1. h[s] = g[s] 
        BY <3>2
      <4>2. g[s] = Step(g, s)
        <5> HIDE DEF Step
        <5> QED BY <2>1, <3>2, <1>0
      <4> QED BY <4>1, <4>2, <3>2
    <3>3. CASE s # k /\ s # 0
      <4>0. s \in 0..(k-1) /\ s - 1 \in 0..(k-1) /\ s - 1 \in 0..k /\ s - 1 # k
        BY <3>3, <1>0
      <4>1. h[s] = g[s] /\ h[s - 1] = g[s - 1]
        BY <3>3, <4>0
      <4>2. g[s] = Step(g, s)
        <5> HIDE DEF Step
        <5> QED BY <2>1, <4>0
      <4> QED BY <4>1, <4>2, <3>3
    <3> QED BY <3>1, <3>2, <3>3
  <2>3. h = [s \in 0..k |-> Step(h, s)]
    <3> HIDE DEF Step
    <3> QED BY <2>2
  <2>4. \E gg : gg = [s \in 0..k |-> Step(gg, s)]
    <3> HIDE DEF Step, h
    <3> QED BY <2>3
  <2> QED BY <2>4, <1>0
<1>3. line_count \in T
  <2> HIDE DEF T
  <2> QED BY <1>0, <1>1, <1>2, UpTo
<1>4. \E g : g = [s \in 0..line_count |-> Step(g, s)]
  BY <1>3, <1>0
<1> QED BY <1>4 DEF SumTo

LEMMA SumStep == ASSUME NEW f \in [Students -> Int]
                 PROVE  /\ SumTo(f)[0] = 0
                        /\ \A k \in 1..line_count : SumTo(f)[k] = f[k] + SumTo(f)[k - 1]
                        /\ \A k \in 0..line_count : SumTo(f)[k] \in Int
<1> DEFINE S == SumTo(f)
           Step(g, s) == IF s = 0 THEN 0 ELSE f[s] + g[s - 1]
           T == {k \in Nat : k <= line_count => S[k] \in Int}
<1>0. line_count \in Nat
  BY HireAssumption
<1>1. S = [s \in 0..line_count |-> Step(S, s)]
  <2>1. SumTo(f) = [s \in 0..line_count |-> IF s = 0 THEN 0 ELSE f[s] + SumTo(f)[s - 1]]
    BY SumToIs, Zenon
  <2> QED BY <2>1, Zenon
<1> HIDE DEF S
<1>2. \A k \in 0..line_count : S[k] = Step(S, k)
  <2> HIDE DEF Step
  <2> QED BY <1>1
<1>3. S[0] = 0 /\ \A k \in 1..line_count : S[k] = f[k] + S[k - 1]
  BY <1>0, <1>2
<1>4. 0 \in T
  BY <1>3
<1>5. ASSUME NEW k \in 1..line_count, k - 1 \in T PROVE k \in T
  <2>1. f[k] \in Int /\ S[k - 1] \in Int
    BY <1>5, <1>0 DEF Students
  <2> QED BY <1>3, <2>1, <1>0
<1>6. \A k \in 0..line_count : k \in T
  <2> HIDE DEF T
  <2>1. T \in SUBSET Nat
    BY DEF T
  <2> QED BY <1>0, <1>4, <1>5, <2>1, UpTo
<1>7. \A k \in 0..line_count : S[k] \in Int
  BY <1>6, <1>0
<1> QED BY <1>3, <1>7 DEF S

LEMMA TotalInt == ASSUME NEW f \in [Students -> Int]
                  PROVE  Total(f) \in Int
<1>1. line_count \in 0..line_count
  BY HireAssumption
<1> QED BY <1>1, SumStep, TotalIs

(* A change at one student changes the total by as much.                   *)
LEMMA TotalChange == ASSUME NEW f \in [Students -> Int], NEW g \in [Students -> Int],
                            NEW t \in Students, \A s \in Students \ {t} : g[s] = f[s]
                     PROVE  Total(g) = Total(f) + g[t] - f[t]
<1> DEFINE F == SumTo(f)
           G == SumTo(g)
           T == {k \in Nat : k <= line_count =>
                   G[k] = F[k] + (IF t <= k THEN g[t] - f[t] ELSE 0)}
<1>0. line_count \in Nat /\ t \in 1..line_count /\ f[t] \in Int /\ g[t] \in Int
  BY HireAssumption DEF Students
<1>1. /\ F[0] = 0 /\ \A k \in 1..line_count : F[k] = f[k] + F[k - 1]
      /\ \A k \in 0..line_count : F[k] \in Int
  BY SumStep
<1>2. /\ G[0] = 0 /\ \A k \in 1..line_count : G[k] = g[k] + G[k - 1]
      /\ \A k \in 0..line_count : G[k] \in Int
  BY SumStep
<1> HIDE DEF F, G
<1>3. 0 \in T
  BY <1>0, <1>1, <1>2
<1>4. ASSUME NEW k \in 1..line_count, k - 1 \in T PROVE k \in T
  <2>1. /\ F[k] = f[k] + F[k - 1] /\ G[k] = g[k] + G[k - 1] /\ k - 1 \in 0..line_count
        /\ f[k] \in Int /\ g[k] \in Int /\ F[k - 1] \in Int /\ G[k - 1] \in Int
    BY <1>0, <1>1, <1>2 DEF Students
  <2>2. G[k - 1] = F[k - 1] + (IF t <= k - 1 THEN g[t] - f[t] ELSE 0)
    BY <1>4, <1>0
  <2>3. k # t => g[k] = f[k]
    BY DEF Students
  <2>4. G[k] = F[k] + (IF t <= k THEN g[t] - f[t] ELSE 0)
    <3>1. CASE k = t
      BY <3>1, <2>1, <2>2, <1>0
    <3>2. CASE k # t
      BY <3>2, <2>1, <2>2, <2>3, <1>0
    <3> QED BY <3>1, <3>2
  <2> QED BY <2>4
<1>5. \A k \in 0..line_count : k \in T
  <2> HIDE DEF T
  <2>1. T \in SUBSET Nat
    BY DEF T
  <2> QED BY <1>0, <1>3, <1>4, <2>1, UpTo
<1>6. line_count \in T /\ t <= line_count
  BY <1>5, <1>0
<1>7. G[line_count] = F[line_count] + (g[t] - f[t]) /\ F[line_count] \in Int
  BY <1>6, <1>0, <1>1
<1>8. Total(f) = F[line_count] /\ Total(g) = G[line_count]
  BY TotalIs DEF F, G
<1> QED BY <1>7, <1>8, <1>0

LEMMA TotalMonotone == ASSUME NEW f \in [Students -> Int], NEW g \in [Students -> Int],
                              \A s \in Students : f[s] <= g[s]
                       PROVE  Total(f) <= Total(g)
<1> DEFINE F == SumTo(f)
           G == SumTo(g)
           T == {k \in Nat : k <= line_count => F[k] <= G[k]}
<1>0. line_count \in Nat
  BY HireAssumption
<1>1. /\ F[0] = 0 /\ \A k \in 1..line_count : F[k] = f[k] + F[k - 1]
      /\ \A k \in 0..line_count : F[k] \in Int
  BY SumStep
<1>2. /\ G[0] = 0 /\ \A k \in 1..line_count : G[k] = g[k] + G[k - 1]
      /\ \A k \in 0..line_count : G[k] \in Int
  BY SumStep
<1> HIDE DEF F, G
<1>3. 0 \in T
  BY <1>1, <1>2
<1>4. ASSUME NEW k \in 1..line_count, k - 1 \in T PROVE k \in T
  <2>1. /\ F[k] = f[k] + F[k - 1] /\ G[k] = g[k] + G[k - 1] /\ k - 1 \in 0..line_count
        /\ f[k] \in Int /\ g[k] \in Int /\ F[k - 1] \in Int /\ G[k - 1] \in Int
        /\ f[k] <= g[k]
    BY <1>0, <1>1, <1>2 DEF Students
  <2>2. F[k - 1] <= G[k - 1]
    BY <1>4, <1>0
  <2> QED BY <2>1, <2>2
<1>5. \A k \in 0..line_count : k \in T
  <2> HIDE DEF T
  <2>1. T \in SUBSET Nat
    BY DEF T
  <2> QED BY <1>0, <1>3, <1>4, <2>1, UpTo
<1>6. F[line_count] <= G[line_count]
  BY <1>5, <1>0
<1>7. Total(f) = F[line_count] /\ Total(g) = G[line_count]
  BY TotalIs DEF F, G
<1> QED BY <1>6, <1>7

LEMMA TotalConstant == ASSUME NEW d \in 0..1
                       PROVE  Total([s \in Students |-> d]) = d * line_count
<1> DEFINE f == [s \in Students |-> d]
           F == SumTo(f)
           T == {k \in Nat : k <= line_count => F[k] = d * k}
<1>0. line_count \in Nat /\ f \in [Students -> Int]
  BY HireAssumption
<1>1. /\ F[0] = 0 /\ \A k \in 1..line_count : F[k] = d + F[k - 1]
  <2>1. F[0] = 0 /\ \A k \in 1..line_count : F[k] = f[k] + F[k - 1]
    <3> HIDE DEF f
    <3> QED BY SumStep, <1>0
  <2>2. \A k \in 1..line_count : f[k] = d
    BY DEF Students
  <2> HIDE DEF F, f
  <2> QED BY <2>1, <2>2
<1>8. Total(f) = F[line_count]
  BY TotalIs
<1> HIDE DEF F
<1>3. 0 \in T
  BY <1>1
<1>4. ASSUME NEW k \in 1..line_count, k - 1 \in T PROVE k \in T
  <2>1. F[k - 1] = d * (k - 1) /\ F[k] = d + F[k - 1]
    BY <1>4, <1>0, <1>1
  <2>2. CASE d = 0
    BY <2>1, <2>2
  <2>3. CASE d = 1
    BY <2>1, <2>3
  <2> QED BY <2>2, <2>3
<1>5. \A k \in 0..line_count : k \in T
  <2> HIDE DEF T
  <2>1. T \in SUBSET Nat
    BY DEF T
  <2> QED BY <1>0, <1>3, <1>4, <2>1, UpTo
<1>6. F[line_count] = d * line_count
  BY <1>5, <1>0
<1> QED BY <1>6, <1>8
-----------------------------------------------------------------------------
(* The inductive invariant behind HireTallies and SomeoneIsFree.  Where a  *)
(* student stands says whether it is busy and counted as living; what it   *)
(* has to do, hires it has not woken to included, is its load, and         *)
(* `available' is what is left of the students when one is taken away for  *)
(* each load and for the hire under way.  So somebody without a load is    *)
(* ahead of the walk until the walk has chosen.                            *)
Load(s) == startWork[s] + (IF at[s] \in {"busy", "live", "solve", "free"} THEN 1 ELSE 0)
Loads   == [s \in Students |-> Load(s)]
Living  == [s \in Students |-> IF at[s] \in {"solve", "free", "unlive"} THEN 1 ELSE 0]
Paying  == [s \in Students |-> cost[s] * hired[s]]

Flags    == /\ \A s \in Students : busy[s] <=> at[s] \in {"live", "solve", "free"}
            /\ finished <=> mainAt \in {"join", "ended"}
            /\ liveThreadNum = Total(Living)
Crew     == mainAt \notin {"join", "ended", "failed"} =>
              available + Total(Loads) + (IF mainAt \in {"walk", "hire"} THEN 1 ELSE 0)
                = line_count
Ahead    == mainAt = "walk" => /\ c # "other" /\ next \in Students
                               /\ found \/ \E s \in next..line_count : Load(s) = 0
Owed     == \A s \in Students : solved[s] + (IF Working(s) THEN 1 ELSE 0) <= hired[s]
Refusing == hAt = "add" => size - Len(hw_queue) + lost <= Total(hired)
HireInv  == /\ TypeOK /\ HasRead /\ Flags /\ Crew /\ Ahead /\ SomeoneIsFree
            /\ AccountsAgree /\ Owed /\ LossNeedsRemoval /\ Refusing

LEMMA Functions == ASSUME startWork \in [Students -> Nat], hired \in [Students -> Nat]
                   PROVE  /\ Loads \in [Students -> Int] /\ Living \in [Students -> Int]
                          /\ Paying \in [Students -> Int] /\ hired \in [Students -> Int]
                          /\ \A s \in Students : Load(s) \in Nat
<1>1. \A s \in Students : startWork[s] \in Nat /\ cost[s] \in Nat /\ hired[s] \in Nat
  BY HireAssumption
<1>2. \A s \in Students : Load(s) \in Nat
  BY <1>1 DEF Load
<1>3. \A s \in Students : cost[s] * hired[s] \in Int
  BY <1>1
<1>4. hired \in [Students -> Int]
  OBVIOUS
<1> QED BY <1>2, <1>3, <1>4 DEF Loads, Living, Paying

(* No more students are counted than there are.                            *)
LEMMA OnesBound == ASSUME NEW f \in [Students -> {0, 1}]
                   PROVE  Total(f) \in 0..line_count
<1> DEFINE zeros == [s \in Students |-> 0]
           ones  == [s \in Students |-> 1]
<1>1. zeros \in [Students -> Int] /\ ones \in [Students -> Int] /\ line_count \in Nat
  BY HireAssumption
<1>2. \A s \in Students : zeros[s] <= f[s] /\ f[s] <= ones[s]
  <2>1. \A s \in Students : f[s] = 0 \/ f[s] = 1
    OBVIOUS
  <2> QED BY <2>1
<1>3. Total(zeros) = 0 /\ Total(ones) = line_count
  <2>1. Total(zeros) = 0 * line_count /\ Total(ones) = 1 * line_count
    BY TotalConstant
  <2> QED BY <2>1, <1>1
<1>4. f \in [Students -> Int] /\ Total(f) \in Int
  <2>1. f \in [Students -> Int]
    OBVIOUS
  <2> QED BY <2>1, TotalInt
<1> HIDE DEF zeros, ones
<1>5. Total(zeros) <= Total(f)
  BY <1>1, <1>2, <1>4, TotalMonotone
<1>6. Total(f) <= Total(ones)
  BY <1>1, <1>2, <1>4, TotalMonotone
<1> QED BY <1>1, <1>3, <1>4, <1>5, <1>6

(* When somebody is available and nobody is being hired, somebody is       *)
(* without a load (L186-201).                                              *)
LEMMA SomeoneIdle == ASSUME TypeOK, Crew, mainAt = "available", available > 0
                     PROVE  \E s \in Students : Load(s) = 0
<1> SUFFICES ASSUME \A s \in Students : Load(s) # 0 PROVE FALSE
  OBVIOUS
<1> DEFINE ones == [s \in Students |-> 1]
<1>1. ones \in [Students -> Int] /\ line_count \in Nat /\ available \in Nat
  BY HireAssumption DEF TypeOK
<1>2. Loads \in [Students -> Int] /\ \A s \in Students : Loads[s] >= 1
  <2>0. startWork \in [Students -> Nat] /\ hired \in [Students -> Nat]
    BY DEF TypeOK
  <2>1. \A s \in Students : Loads[s] = Load(s) /\ Load(s) \in Nat
    BY <2>0, Functions DEF Loads
  <2> QED BY <2>0, <2>1, Functions
<1>3. \A s \in Students : ones[s] <= Loads[s]
  BY <1>2
<1>4. Total(ones) = line_count
  <2>1. Total(ones) = 1 * line_count
    BY TotalConstant
  <2> QED BY <2>1, <1>1
<1> HIDE DEF ones
<1>5. Total(ones) <= Total(Loads) /\ Total(Loads) \in Int
  BY <1>1, <1>2, <1>3, TotalMonotone, TotalInt
<1>6. available + Total(Loads) + 0 = line_count
  BY DEF Crew
<1> QED BY <1>1, <1>4, <1>5, <1>6

LEMMA HireInit == ASSUME Init
                  PROVE  HireInv
<1>0. /\ line_count \in Nat \ {0} /\ 1 \in Students
      /\ cost \in [Students -> Nat]
  BY HireAssumption DEF Students
<1> DEFINE zeros == [s \in Students |-> 0]
<1>1. zeros \in [Students -> Int] /\ Total(zeros) = 0
  <2>1. Total(zeros) = 0 * line_count
    BY TotalConstant
  <2> QED BY <2>1, <1>0
<1>2. homeworks \in Seq(Kinds) /\ saveMoney \in Nat
  BY HireAssumption DEF Init
<1>3. TypeOK
  <2>1. hw_queue \in Seq(Kinds) /\ Kinds = {"Q", "S", "C", "other"}
    BY DEF Init, Kinds
  <2>2. /\ waitFile \in Nat /\ available \in Nat /\ finito \in Nat /\ size \in Nat
        /\ lost \in Nat /\ money \in Nat /\ liveThreadNum \in 0..line_count
        /\ next \in 1..(line_count + 1)
    BY <1>0, <1>2 DEF Init
  <2>3. /\ startWork \in [Students -> Nat] /\ balance \in [Students -> Nat]
        /\ solved \in [Students -> Nat] /\ hired \in [Students -> Nat]
        /\ busy \in [Students -> BOOLEAN] /\ at \in [Students -> Places]
        /\ index \in Students
    BY DEF Init, Places
  <2>4. /\ mainAt = "waitFile" /\ hAt = "read" /\ eof = FALSE /\ finished = FALSE
        /\ c = "other" /\ found = FALSE
    BY DEF Init
  <2> HIDE DEF Kinds, Places, Students
  <2> QED BY <1>2, <2>1, <2>2, <2>3, <2>4 DEF TypeOK
<1>4. Loads = zeros /\ Living = zeros
  BY DEF Init, Loads, Load, Living
<1>5. Paying = zeros /\ hired = zeros
  <2>1. \A s \in Students : cost[s] * 0 = 0
    BY <1>0
  <2> QED BY <2>1 DEF Init, Paying
<1> HIDE DEF zeros
<1>6. Flags /\ Crew /\ Ahead /\ SomeoneIsFree /\ HasRead /\ Refusing
  BY <1>0, <1>1, <1>4 DEF Init, Flags, Crew, Ahead, SomeoneIsFree, HasRead, Refusing
<1>7. LossNeedsRemoval /\ Owed
  BY <1>1, <1>5 DEF Init, LossNeedsRemoval, Owed, Working
<1>8. AccountsAgree
  <2>1. \A s \in Students : cost[s] * 0 = 0
    BY <1>0
  <2>2. Total(Paying) = 0 /\ Unpaid = 0 /\ money = saveMoney
    BY <1>1, <1>5 DEF Init, Unpaid
  <2>3. money = saveMoney - Total(Paying) + Unpaid /\ money >= Unpaid
    BY <2>2, <1>2
  <2>4. \A s \in Students : /\ balance[s] = cost[s] * solved[s] /\ solved[s] <= hired[s]
                            /\ hired[s] = solved[s] + Pending(s)
    BY <2>1 DEF Init, Pending, Working
  <2> QED BY <2>3, <2>4 DEF AccountsAgree, Paying
<1> QED BY <1>3, <1>6, <1>7, <1>8 DEF HireInv

(* A move of one student changes the sums by what it changes of its own.   *)
LEMMA LoadsMove ==
  ASSUME NEW s \in Students, TypeOK, startWork' \in [Students -> Nat],
         \A t \in Students \ {s} : at'[t] = at[t] /\ startWork'[t] = startWork[t]
  PROVE  Total(Loads') = Total(Loads) + Load(s)' - Load(s)
<1>1. startWork \in [Students -> Nat]
  BY DEF TypeOK
<1>2. \A t \in Students : Load(t) \in Int /\ Load(t)' \in Int
  BY <1>1 DEF Load
<1>3. Loads \in [Students -> Int] /\ Loads' \in [Students -> Int]
  BY <1>2 DEF Loads
<1>4. \A t \in Students \ {s} : Loads'[t] = Loads[t]
  BY DEF Loads, Load
<1>5. Loads'[s] = Load(s)' /\ Loads[s] = Load(s)
  BY DEF Loads
<1> HIDE DEF Loads
<1>6. Total(Loads') = Total(Loads) + Loads'[s] - Loads[s]
  BY ONLY <1>3, <1>4, s \in Students, TotalChange
<1> QED BY <1>5, <1>6

Lives(s) == IF at[s] \in {"solve", "free", "unlive"} THEN 1 ELSE 0

LEMMA LivingMove ==
  ASSUME NEW s \in Students, \A t \in Students \ {s} : at'[t] = at[t]
  PROVE  Total(Living') = Total(Living) + Lives(s)' - Lives(s)
<1>1. Living \in [Students -> Int] /\ Living' \in [Students -> Int]
  BY DEF Living
<1>2. \A t \in Students \ {s} : Living'[t] = Living[t]
  BY DEF Living
<1>3. Living'[s] = Lives(s)' /\ Living[s] = Lives(s)
  BY DEF Living, Lives
<1> HIDE DEF Living
<1>4. Total(Living') = Total(Living) + Living'[s] - Living[s]
  BY ONLY <1>1, <1>2, s \in Students, TotalChange
<1> QED BY <1>3, <1>4

(* What a step of a student leaves alone, and what it does to its own      *)
(* load: only when it turns free is it less, and then it is available.     *)
LEMMA StudentFrame ==
  ASSUME HireInv, NEW s \in Students, StudentStep(s)
  PROVE  /\ UNCHANGED <<mainAt, queueVars, finished, money, waitFile, walk, saveMoney, hired>>
         /\ \E l \in Places : at' = [at EXCEPT ![s] = l]
         /\ startWork' \in [Students -> Nat]
         /\ \A t \in Students \ {s} : startWork'[t] = startWork[t]
<1> USE DEF queueVars, walk
<1>0. at \in [Students -> Places] /\ startWork \in [Students -> Nat]
  BY DEF HireInv, TypeOK
<1>1. CASE StudentWakes(s)
  <2>1. startWork' = [startWork EXCEPT ![s] = startWork[s] - 1] /\ startWork[s] > 0
    BY <1>1, <1>0 DEF StudentWakes
  <2>2. at' = [at EXCEPT ![s] = IF finished THEN "ended" ELSE "busy"]
    BY <1>1 DEF StudentWakes, Goto
  <2>3. \E l \in Places : at' = [at EXCEPT ![s] = l]
    <3>1. (IF finished THEN "ended" ELSE "busy") \in Places
      BY DEF Places
    <3> QED BY <2>2, <3>1
  <2>4. startWork' \in [Students -> Nat] /\ \A t \in Students \ {s} : startWork'[t] = startWork[t]
    BY <1>0, <2>1
  <2>5. UNCHANGED <<mainAt, queueVars, finished, money, waitFile, walk, saveMoney, hired>>
    BY <1>1 DEF StudentWakes
  <2> QED BY ONLY <2>3, <2>4, <2>5
<1>2. CASE StudentTurnsBusy(s) \/ StudentLives(s) \/ StudentSolves(s)
  <2>1. \E l \in {"live", "solve", "free"} : at' = [at EXCEPT ![s] = l]
    BY <1>2 DEF StudentTurnsBusy, StudentLives, StudentSolves, Goto
  <2>2. startWork' = startWork
    BY <1>2 DEF StudentTurnsBusy, StudentLives, StudentSolves
  <2>3. UNCHANGED <<mainAt, queueVars, finished, money, waitFile, walk, saveMoney, hired>>
    BY <1>2 DEF StudentTurnsBusy, StudentLives, StudentSolves
  <2> QED BY <1>0, <2>1, <2>2, <2>3 DEF Places
<1>3. CASE StudentTurnsFree(s) \/ StudentUnlives(s)
  <2>1. \E l \in {"unlive", "eof"} : at' = [at EXCEPT ![s] = l]
    BY <1>3 DEF StudentTurnsFree, StudentUnlives, Goto
  <2>2. startWork' = startWork
    BY <1>3 DEF StudentTurnsFree, StudentUnlives
  <2>3. UNCHANGED <<mainAt, queueVars, finished, money, waitFile, walk, saveMoney, hired>>
    BY <1>3 DEF StudentTurnsFree, StudentUnlives
  <2> QED BY <1>0, <2>1, <2>2, <2>3 DEF Places
<1>4. CASE StudentReadsEof(s) \/ StudentMayBeLast(s)
  <2>1. \E l \in {"empty", "startWork"} : at' = [at EXCEPT ![s] = l]
    BY <1>4 DEF StudentReadsEof, StudentMayBeLast, Goto
  <2>2. startWork' = startWork
    BY <1>4 DEF StudentReadsEof, StudentMayBeLast
  <2>3. UNCHANGED <<mainAt, queueVars, finished, money, waitFile, walk, saveMoney, hired>>
    BY <1>4 DEF StudentReadsEof, StudentMayBeLast
  <2> QED BY <1>0, <2>1, <2>2, <2>3 DEF Places
<1> QED BY <1>1, <1>2, <1>3, <1>4 DEF StudentStep

(* Where a student goes from where it is, and what that does to its own    *)
(* data and to `available'.                                                *)
LEMMA StudentGoes ==
  ASSUME HireInv, NEW s \in Students, StudentStep(s)
  PROVE  \/ /\ at[s] = "startWork" /\ startWork[s] > 0 /\ startWork'[s] = startWork[s] - 1
            /\ at'[s] = IF finished THEN "ended" ELSE "busy"
            /\ UNCHANGED <<available, busy, liveThreadNum, balance, solved, finito>>
         \/ /\ at[s] = "busy" /\ at'[s] = "live" /\ busy' = [busy EXCEPT ![s] = TRUE]
            /\ UNCHANGED <<available, startWork, liveThreadNum, balance, solved, finito>>
         \/ /\ at[s] = "live" /\ at'[s] = "solve" /\ liveThreadNum' = liveThreadNum + 1
            /\ UNCHANGED <<available, startWork, busy, balance, solved, finito>>
         \/ /\ at[s] = "solve" /\ at'[s] = "free"
            /\ balance' = [balance EXCEPT ![s] = balance[s] + cost[s]]
            /\ solved' = [solved EXCEPT ![s] = solved[s] + 1]
            /\ UNCHANGED <<available, startWork, busy, liveThreadNum, finito>>
         \/ /\ at[s] = "free" /\ at'[s] = "unlive" /\ busy' = [busy EXCEPT ![s] = FALSE]
            /\ available' = available + 1
            /\ UNCHANGED <<startWork, liveThreadNum, balance, solved, finito>>
         \/ /\ at[s] = "unlive" /\ at'[s] = "eof" /\ liveThreadNum' = liveThreadNum - 1
            /\ UNCHANGED <<available, startWork, busy, balance, solved, finito>>
         \/ /\ at[s] \in {"eof", "empty"} /\ at'[s] \in {"empty", "startWork"}
            /\ finito' \in {finito, finito + 1}
            /\ UNCHANGED <<available, startWork, busy, liveThreadNum, balance, solved>>
<1>0. /\ at \in [Students -> Places] /\ startWork \in [Students -> Nat] /\ finito \in Nat
      /\ balance \in [Students -> Nat] /\ solved \in [Students -> Nat]
  BY DEF HireInv, TypeOK
<1>1. CASE StudentWakes(s)
  BY <1>0, <1>1 DEF StudentWakes, Goto
<1>2. CASE StudentTurnsBusy(s)
  BY <1>0, <1>2 DEF StudentTurnsBusy, Goto, AvailableAtWork
<1>3. CASE StudentLives(s)
  BY <1>0, <1>3 DEF StudentLives, Goto
<1>4. CASE StudentSolves(s)
  <2>1. /\ at[s] = "solve" /\ at' = [at EXCEPT ![s] = "free"]
        /\ balance' = [balance EXCEPT ![s] = balance[s] + cost[s]]
        /\ solved' = [solved EXCEPT ![s] = solved[s] + 1]
        /\ UNCHANGED <<available, startWork, busy, liveThreadNum, finito>>
    BY <1>0, <1>4 DEF StudentSolves, Goto
  <2> QED BY <1>0, <2>1
<1>5. CASE StudentTurnsFree(s)
  BY <1>0, <1>5 DEF StudentTurnsFree, Goto, AvailableAfter
<1>6. CASE StudentUnlives(s)
  BY <1>0, <1>6 DEF StudentUnlives, Goto
<1>7. CASE StudentReadsEof(s)
  BY <1>0, <1>7 DEF StudentReadsEof, Goto
<1>8. CASE StudentMayBeLast(s)
  BY <1>0, <1>8 DEF StudentMayBeLast, Goto
<1> QED BY <1>1, <1>2, <1>3, <1>4, <1>5, <1>6, <1>7, <1>8 DEF StudentStep

(* A step of a student keeps the invariant.                                *)
LEMMA StudentKeeps ==
  ASSUME HireInv, NEW s \in Students, StudentStep(s)
  PROVE  HireInv'
<1>0. /\ UNCHANGED <<mainAt, queueVars, finished, money, waitFile, walk, saveMoney, hired>>
      /\ startWork' \in [Students -> Nat]
      /\ \A t \in Students \ {s} : startWork'[t] = startWork[t]
  BY StudentFrame
<1>1. PICK l \in Places : at' = [at EXCEPT ![s] = l]
  BY StudentFrame
<1>2. /\ TypeOK /\ at \in [Students -> Places] /\ startWork \in [Students -> Nat]
      /\ finito \in Nat /\ available \in Nat /\ liveThreadNum \in Int
      /\ balance \in [Students -> Nat] /\ solved \in [Students -> Nat]
      /\ hired \in [Students -> Nat] /\ busy \in [Students -> BOOLEAN]
      /\ cost \in [Students -> Nat] /\ line_count \in Nat
  <2>1. line_count \in Nat /\ cost \in [Students -> Nat]
    BY HireAssumption
  <2>2. TypeOK
    BY DEF HireInv
  <2>3. liveThreadNum \in 0..line_count
    BY <2>2 DEF TypeOK
  <2>4. liveThreadNum \in Int
    BY <2>1, <2>3
  <2>5. /\ at \in [Students -> Places] /\ startWork \in [Students -> Nat]
        /\ finito \in Nat /\ available \in Nat
        /\ balance \in [Students -> Nat] /\ solved \in [Students -> Nat]
        /\ hired \in [Students -> Nat] /\ busy \in [Students -> BOOLEAN]
    BY <2>2, Zenon DEF TypeOK
  <2> QED BY <2>1, <2>2, <2>4, <2>5
<1>3. at' \in [Students -> Places] /\ \A t \in Students \ {s} : at'[t] = at[t]
  BY <1>1, <1>2
<1>4. /\ Total(Loads') = Total(Loads) + Load(s)' - Load(s)
      /\ Total(Living') = Total(Living) + Lives(s)' - Lives(s)
  BY <1>0, <1>2, <1>3, LoadsMove, LivingMove
<1>5. Total(Loads) \in Int /\ Total(Living) \in Int
  BY <1>2, Functions, TotalInt
<1>6. /\ available' \in Nat /\ finito' \in Nat /\ busy' \in [Students -> BOOLEAN]
      /\ balance' \in [Students -> Nat] /\ solved' \in [Students -> Nat]
  <2>1. available' \in Nat /\ finito' \in Nat
    BY <1>2, StudentGoes
  <2>4. busy' \in [Students -> BOOLEAN]
    <3>1. \E b \in BOOLEAN : busy' = busy \/ busy' = [busy EXCEPT ![s] = b]
      BY StudentGoes
    <3> QED BY <1>2, <3>1
  <2>2. /\ \/ balance' = balance
           \/ balance' = [balance EXCEPT ![s] = balance[s] + cost[s]]
        /\ solved' = solved \/ solved' = [solved EXCEPT ![s] = solved[s] + 1]
    BY StudentGoes
  <2>3. balance[s] + cost[s] \in Nat /\ solved[s] + 1 \in Nat
    BY <1>2
  <2> QED BY <1>2, <2>1, <2>2, <2>3, <2>4
<1>7. liveThreadNum' = liveThreadNum + Lives(s)' - Lives(s)
  BY <1>2, StudentGoes DEF Lives
<1>8. Flags'
  <2>1. \A t \in Students : busy[t] <=> at[t] \in {"live", "solve", "free"}
    BY DEF HireInv, Flags
  <2>2. \A t \in Students \ {s} : busy'[t] = busy[t]
    BY <1>2, StudentGoes
  <2>3. busy'[s] <=> at'[s] \in {"live", "solve", "free"}
    BY <1>2, <2>1, StudentGoes
  <2>4. \A t \in Students : busy'[t] <=> at'[t] \in {"live", "solve", "free"}
    BY <1>3, <2>1, <2>2, <2>3
  <2>5. liveThreadNum' = Total(Living')
    BY <1>4, <1>5, <1>7 DEF HireInv, Flags
  <2>6. finished' <=> mainAt' \in {"join", "ended"}
    BY <1>0 DEF HireInv, Flags
  <2> QED BY <2>4, <2>5, <2>6 DEF Flags
<1>9. TypeOK'
  <2>1. liveThreadNum' \in 0..line_count
    <3>1. Living' \in [Students -> {0, 1}]
      BY DEF Living
    <3>2. Total(Living') \in 0..line_count
      BY <3>1, OnesBound
    <3> QED BY <1>8, <3>2 DEF Flags
  <2> QED BY <1>0, <1>2, <1>3, <1>6, <2>1 DEF TypeOK, queueVars, walk
<1>10. mainAt \notin {"join", "ended", "failed"} =>
         available' + Load(s)' = available + Load(s) /\ Load(s)' <= Load(s)
  <2>1. mainAt \notin {"join", "ended", "failed"} => ~ finished
    BY DEF HireInv, Flags
  <2> QED BY <1>2, <2>1, StudentGoes DEF Load
<1>11. \A t \in Students : Load(t) \in Nat /\ Load(t)' \in Nat
  BY <1>0, <1>2, <1>3 DEF Load
<1>12. Crew'
  <2> HIDE DEF Load
  <2>1. Crew
    BY DEF HireInv
  <2> QED BY <1>0, <1>2, <1>4, <1>5, <1>6, <1>10, <1>11, <2>1 DEF Crew
<1>13. Ahead'
  <2>1. Ahead
    BY DEF HireInv
  <2>2. UNCHANGED <<c, next, found>>
    BY <1>0 DEF walk
  <2>3. \A t \in Students \ {s} : Load(t)' = Load(t)
    BY <1>0, <1>3 DEF Load
  <2>4. mainAt = "walk" => \A t \in Students : Load(t) = 0 => Load(t)' = 0
    <3> HIDE DEF Load
    <3> QED BY <1>10, <1>11, <2>3
  <2>5. mainAt = "walk" => next..line_count \subseteq Students
    BY <2>1, <1>2 DEF Ahead, Students
  <2> HIDE DEF Load
  <2> QED BY <1>0, <2>1, <2>2, <2>4, <2>5 DEF Ahead
<1>14. SomeoneIsFree' /\ HasRead' /\ LossNeedsRemoval' /\ Refusing'
  BY <1>0 DEF HireInv, SomeoneIsFree, HasRead, LossNeedsRemoval, Refusing, queueVars, walk
<1>15. /\ \A t \in Students : balance[t] = cost[t] * solved[t] /\ solved[t] <= hired[t]
       /\ \A t \in Students : solved[t] + (IF Working(t) THEN 1 ELSE 0) <= hired[t]
       /\ \A t \in Students : ~finished => hired[t] = solved[t] + Pending(t)
  BY DEF HireInv, AccountsAgree, Owed
<1>16. \A t \in Students \ {s} :
         /\ balance'[t] = balance[t] /\ solved'[t] = solved[t]
         /\ Working(t)' = Working(t) /\ Pending(t)' = Pending(t)
  <2>1. \A t \in Students \ {s} : balance'[t] = balance[t] /\ solved'[t] = solved[t]
    BY <1>2, StudentGoes
  <2> QED BY <1>0, <1>3, <2>1 DEF Working, Pending
<1>17. balance'[s] = cost[s] * solved'[s]
  <2>1. CASE solved'[s] = solved[s] /\ balance'[s] = balance[s]
    BY <1>15, <2>1
  <2>2. CASE solved'[s] = solved[s] + 1 /\ balance'[s] = balance[s] + cost[s]
    <3>1. cost[s] \in Nat /\ solved[s] \in Nat /\ balance[s] = cost[s] * solved[s]
      BY <1>2, <1>15
    <3>2. cost[s] * (solved[s] + 1) = cost[s] * solved[s] + cost[s]
      BY <3>1
    <3> QED BY <2>2, <3>1, <3>2
  <2>3. \/ solved'[s] = solved[s] /\ balance'[s] = balance[s]
        \/ solved'[s] = solved[s] + 1 /\ balance'[s] = balance[s] + cost[s]
    BY <1>2, StudentGoes
  <2> QED BY <2>1, <2>2, <2>3
<1>18. /\ solved'[s] + (IF Working(s)' THEN 1 ELSE 0) <= hired[s]
       /\ ~finished => hired[s] = solved'[s] + Pending(s)'
  <2>1. /\ solved[s] + (IF Working(s) THEN 1 ELSE 0) <= hired[s]
        /\ ~finished => hired[s] = solved[s] + Pending(s)
        /\ solved[s] \in Nat /\ hired[s] \in Nat /\ startWork[s] \in Nat
    BY <1>2, <1>15
  <2> QED BY <1>2, <2>1, StudentGoes DEF Working, Pending
<1>19. solved'[s] <= hired[s] /\ solved'[s] \in Nat
  BY <1>2, <1>6, <1>18
<1>20. \A t \in Students :
         /\ balance'[t] = cost[t] * solved'[t] /\ solved'[t] <= hired[t]
         /\ solved'[t] + (IF Working(t)' THEN 1 ELSE 0) <= hired[t]
         /\ ~finished => hired[t] = solved'[t] + Pending(t)'
  <2> TAKE t \in Students
  <2>1. CASE t = s
    BY <2>1, <1>17, <1>18, <1>19
  <2>2. CASE t # s
    BY <2>2, <1>15, <1>16
  <2> QED BY <2>1, <2>2
<1>21. Owed'
  BY <1>0, <1>20 DEF Owed
<1>22. AccountsAgree'
  <2>1. /\ money = saveMoney - Total([t \in Students |-> cost[t] * hired[t]]) + Unpaid
        /\ money >= Unpaid
    BY DEF HireInv, AccountsAgree
  <2>2. UNCHANGED <<money, saveMoney, hired, Unpaid, finished>>
    BY <1>0 DEF Unpaid, walk
  <2> QED BY <2>1, <2>2, <1>20 DEF AccountsAgree
<1> QED BY <1>8, <1>9, <1>12, <1>13, <1>14, <1>21, <1>22 DEF HireInv

(* A step of H keeps the invariant.  What H has read of the list's size    *)
(* can exceed the list only by what was removed since.                     *)
LEMMA HKeeps ==
  ASSUME HireInv, HStep
  PROVE  HireInv'
<1>0. UNCHANGED <<mainAt, finished, money, available, finito, startWork, walk, saveMoney,
                  hired, studentVars>>
  BY DEF HStep, HReads, HReadsSize, HAdds, HEnds
<1>1. /\ TypeOK /\ hw_queue \in Seq(Kinds) /\ homeworks \in Seq(Kinds)
      /\ size \in Nat /\ lost \in Nat /\ waitFile \in Nat /\ Len(hw_queue) \in Nat
      /\ Total(hired) \in Int
  <2>1. TypeOK
    BY DEF HireInv
  <2>2. hired \in [Students -> Int]
    BY <2>1 DEF TypeOK
  <2>3. Total(hired) \in Int
    BY <2>2, TotalInt
  <2>4. hw_queue \in Seq(Kinds) /\ homeworks \in Seq(Kinds)
    BY <2>1 DEF TypeOK
  <2>5. Len(hw_queue) \in Nat
    BY <2>4, LenProperties
  <2>6. size \in Nat /\ lost \in Nat /\ waitFile \in Nat
    BY <2>1 DEF TypeOK
  <2> QED BY <2>1, <2>3, <2>4, <2>5, <2>6
<1>2. LossNeedsRemoval /\ HasRead /\ Refusing
  BY DEF HireInv
<1>3. /\ Flags' /\ Crew' /\ Ahead' /\ SomeoneIsFree' /\ AccountsAgree' /\ Owed'
  <2>1. UNCHANGED <<at, busy, liveThreadNum, balance, solved, c, index, next, found>>
    BY <1>0 DEF studentVars, walk
  <2>2. UNCHANGED <<Loads, Living>>
    BY <1>0, <2>1 DEF Loads, Load, Living
  <2>3. Flags' /\ Crew' /\ Ahead' /\ SomeoneIsFree'
    BY <1>0, <2>1, <2>2 DEF HireInv, Flags, Crew, Ahead, SomeoneIsFree, Load
  <2>4. AccountsAgree' /\ Owed'
    BY <1>0, <2>1 DEF HireInv, AccountsAgree, Owed, Unpaid, Pending, Working
  <2> QED BY <2>3, <2>4
<1>4. /\ hAt' \in {"read", "append", "add", "ended"} /\ eof' \in BOOLEAN
      /\ waitFile' \in Nat /\ size' \in Nat /\ lost' \in Nat
      /\ hw_queue' \in Seq(Kinds) /\ homeworks' \in Seq(Kinds)
      /\ LossNeedsRemoval' /\ HasRead' /\ Refusing'
  <2>0. eof \in BOOLEAN
    BY <1>1 DEF TypeOK
  <2>1. CASE HReads
    BY <1>0, <1>1, <1>2, <2>0, <2>1 DEF HReads, LossNeedsRemoval, HasRead, Refusing
  <2>2. CASE HReadsSize
    BY <1>0, <1>1, <1>2, <2>0, <2>2 DEF HReadsSize, LossNeedsRemoval, HasRead, Refusing
  <2>3. CASE HAdds
    <3>1. homeworks # <<>> /\ hAt = "add"
      BY <1>2, <2>3 DEF HAdds, HasRead
    <3>2. Head(homeworks) \in Kinds /\ Tail(homeworks) \in Seq(Kinds)
      BY <1>1, <3>1, HeadTailProperties
    <3>3. Append(hw_queue, Head(homeworks)) \in Seq(Kinds)
      BY <1>1, <3>2, Appended, Zenon
    <3>4. hw_queue' \in Seq(Kinds) /\ homeworks' \in Seq(Kinds)
      BY <1>1, <2>3, <3>2, <3>3 DEF HAdds
    <3>5. lost' \in {lost, lost + 1} /\ (lost' # lost => size > Len(hw_queue))
      BY <1>1, <2>3 DEF HAdds, Refused
    <3>6. lost <= Total(hired) /\ size - Len(hw_queue) + lost <= Total(hired)
      BY <1>2, <3>1 DEF LossNeedsRemoval, Refusing
    <3>7. lost' <= Total(hired) /\ lost' \in Nat
      BY <1>1, <3>5, <3>6
    <3>8. hAt' = "read" /\ UNCHANGED <<eof, size, hired>> /\ waitFile' = waitFile + 1
      BY <2>3 DEF HAdds, PostedByH
    <3> QED BY <1>1, <2>0, <3>4, <3>7, <3>8 DEF LossNeedsRemoval, HasRead, Refusing
  <2>4. CASE HEnds
    BY <1>0, <1>1, <1>2, <2>0, <2>4 DEF HEnds, EofRead, LossNeedsRemoval, HasRead, Refusing
  <2> QED BY <2>1, <2>2, <2>3, <2>4 DEF HStep
<1>5. TypeOK'
  BY <1>0, <1>1, <1>4 DEF TypeOK, walk, studentVars
<1> QED BY <1>3, <1>4, <1>5 DEF HireInv

(* The hire: one load more, one homework less, and what the student costs  *)
(* is owed until it is paid (L202-219).                                    *)
LEMMA HiresKeeps ==
  ASSUME HireInv, MainHires
  PROVE  HireInv'
<1>1. /\ TypeOK /\ index \in Students /\ line_count \in Nat
      /\ startWork \in [Students -> Nat] /\ hired \in [Students -> Nat]
      /\ cost \in [Students -> Nat] /\ money \in Nat /\ saveMoney \in Nat
      /\ hw_queue \in Seq(Kinds) /\ hw_queue # <<>>
  <2>1. line_count \in Nat /\ cost \in [Students -> Nat]
    BY HireAssumption
  <2>2. TypeOK
    BY DEF HireInv
  <2>3. /\ index \in Students /\ startWork \in [Students -> Nat]
        /\ hired \in [Students -> Nat] /\ money \in Nat /\ saveMoney \in Nat
        /\ hw_queue \in Seq(Kinds)
    BY <2>2 DEF TypeOK
  <2> QED BY <2>1, <2>2, <2>3 DEF MainHires
<1>2. /\ mainAt = "hire" /\ mainAt' = "pay" /\ money >= cost[index]
      /\ hw_queue' = Tail(hw_queue)
      /\ startWork' = [startWork EXCEPT ![index] = startWork[index] + 1]
      /\ hired' = [hired EXCEPT ![index] = hired[index] + 1]
      /\ UNCHANGED <<homeworks, eof, hAt, size, lost, finished, money, waitFile, available,
                     finito, saveMoney, c, index, next, found>>
      /\ UNCHANGED <<at, busy, liveThreadNum, balance, solved>>
  BY <1>1 DEF MainHires, walk, studentVars
<1>3. hw_queue' \in Seq(Kinds) /\ Len(hw_queue') = Len(hw_queue) - 1 /\ Len(hw_queue) \in Nat
  BY <1>1, <1>2, HeadTailProperties, LenProperties
<1>4. startWork' \in [Students -> Nat] /\ hired' \in [Students -> Nat]
  BY <1>1, <1>2
<1>5. TypeOK'
  BY <1>1, <1>2, <1>3, <1>4 DEF TypeOK
<1>6. \A t \in Students \ {index} :
        startWork'[t] = startWork[t] /\ hired'[t] = hired[t] /\ at'[t] = at[t]
  BY <1>1, <1>2
<1>7. startWork'[index] = startWork[index] + 1 /\ hired'[index] = hired[index] + 1
  BY <1>1, <1>2
<1>8. Total(Loads') = Total(Loads) + 1 /\ Total(Loads) \in Int
  <2>1. \A s \in Students : s = index => Total(Loads') = Total(Loads) + Load(s)' - Load(s)
    BY <1>1, <1>4, <1>6, LoadsMove
  <2>2. \A s \in Students : s = index => Load(s)' = Load(s) + 1 /\ Load(s) \in Nat
    BY <1>1, <1>2, <1>7 DEF Load
  <2>3. Total(Loads) \in Int
    BY <1>1, Functions, TotalInt
  <2> HIDE DEF Load
  <2> QED BY <1>1, <2>1, <2>2, <2>3
<1>9. Living' = Living
  BY <1>2 DEF Living
<1>10. Flags' /\ Ahead' /\ SomeoneIsFree' /\ HasRead'
  BY <1>2, <1>9 DEF HireInv, Flags, Ahead, SomeoneIsFree, HasRead
<1>11. Crew'
  <2>1. available + Total(Loads) + 1 = line_count /\ available \in Nat
    BY <1>1, <1>2 DEF HireInv, Crew, TypeOK
  <2> QED BY <1>1, <1>2, <1>8, <2>1 DEF Crew
<1>12. Total(hired') = Total(hired) + 1 /\ Total(hired) \in Int
  <2>1. hired \in [Students -> Int] /\ hired' \in [Students -> Int]
    BY <1>1, <1>4
  <2>2. Total(hired') = Total(hired) + hired'[index] - hired[index]
    BY <1>1, <1>6, <2>1, TotalChange
  <2>3. Total(hired) \in Int /\ hired[index] \in Int
    BY <1>1, <2>1, TotalInt
  <2> QED BY <1>7, <2>2, <2>3
<1>13. LossNeedsRemoval' /\ Refusing'
  <2>1. lost <= Total(hired) /\ (hAt = "add" => size - Len(hw_queue) + lost <= Total(hired))
    BY DEF HireInv, LossNeedsRemoval, Refusing
  <2>2. lost \in Nat /\ size \in Nat
    BY <1>1 DEF TypeOK
  <2> QED BY <1>2, <1>3, <1>12, <2>1, <2>2 DEF LossNeedsRemoval, Refusing
<1>14. Paying \in [Students -> Int] /\ Paying' \in [Students -> Int]
  <2>1. \A t \in Students : cost[t] * hired[t] \in Int /\ cost[t] * hired'[t] \in Int
    <3> TAKE t \in Students
    <3>1. cost[t] \in Nat /\ hired[t] \in Nat /\ hired'[t] \in Nat
      BY <1>1, <1>4
    <3> QED BY <3>1
  <2> QED BY <2>1 DEF Paying
<1>15. Total(Paying') = Total(Paying) + cost[index] /\ Total(Paying) \in Int
  <2>1. Total(Paying') = Total(Paying) + Paying'[index] - Paying[index]
    <3>1. \A t \in Students \ {index} : Paying'[t] = Paying[t]
      BY <1>6 DEF Paying
    <3> HIDE DEF Paying
    <3> QED BY <1>1, <1>14, <3>1, TotalChange
  <2>2. Paying[index] = cost[index] * hired[index] /\ Paying'[index] = cost[index] * hired'[index]
    BY <1>1 DEF Paying
  <2>3. cost[index] \in Nat /\ hired[index] \in Nat
    BY <1>1
  <2>4. cost[index] * (hired[index] + 1) = cost[index] * hired[index] + cost[index]
    BY <2>3
  <2>5. Total(Paying) \in Int
    BY <1>14, TotalInt
  <2>6. cost[index] * hired[index] \in Int
    BY <2>3
  <2>7. Paying'[index] = Paying[index] + cost[index] /\ Paying[index] \in Int
    BY <1>7, <2>2, <2>4, <2>6
  <2> HIDE DEF Paying
  <2> QED BY <2>1, <2>3, <2>5, <2>7
<1>16. /\ \A t \in Students : balance[t] = cost[t] * solved[t] /\ solved[t] <= hired[t]
       /\ \A t \in Students : solved[t] + (IF Working(t) THEN 1 ELSE 0) <= hired[t]
       /\ \A t \in Students : ~finished => hired[t] = solved[t] + Pending(t)
       /\ money = saveMoney - Total(Paying) + 0
  <2>1. Unpaid = 0
    BY <1>2 DEF Unpaid
  <2> QED BY <2>1 DEF HireInv, AccountsAgree, Owed, Paying
<1>17. \A t \in Students : /\ hired[t] \in Nat /\ hired'[t] \in {hired[t], hired[t] + 1}
                           /\ startWork'[t] = startWork[t] + (hired'[t] - hired[t])
                           /\ solved[t] \in Nat /\ startWork[t] \in Nat
  <2> TAKE t \in Students
  <2>1. hired[t] \in Nat /\ startWork[t] \in Nat /\ solved[t] \in Nat
    BY <1>1 DEF TypeOK
  <2>2. CASE t = index
    BY <1>7, <2>1, <2>2
  <2>3. CASE t # index
    BY <1>6, <2>1, <2>3
  <2> QED BY <2>2, <2>3
<1>18. /\ \A t \in Students : solved[t] <= hired'[t]
       /\ \A t \in Students : ~finished => hired'[t] = solved[t] + Pending(t)'
       /\ \A t \in Students : solved[t] + (IF Working(t) THEN 1 ELSE 0) <= hired'[t]
  BY <1>2, <1>16, <1>17 DEF Pending, Working
<1>19. Owed'
  BY <1>2, <1>18 DEF Owed, Working
<1>20. AccountsAgree'
  <2>1. Unpaid' = cost[index] /\ cost[index] \in Nat
    BY <1>1, <1>2 DEF Unpaid
  <2>2. money' = saveMoney' - Total(Paying') + Unpaid' /\ money' >= Unpaid'
    <3> HIDE DEF Paying, Unpaid
    <3> QED BY <1>1, <1>2, <1>15, <1>16, <2>1
  <2> QED BY <1>2, <1>16, <1>18, <2>2 DEF AccountsAgree, Paying
<1> QED BY <1>5, <1>10, <1>11, <1>13, <1>19, <1>20 DEF HireInv

(* The program closes: everybody is woken, and no hire is to be answered   *)
(* any more.                                                               *)
LEMMA FinishesKeeps ==
  ASSUME HireInv, MainFinishes
  PROVE  HireInv'
<1>1. TypeOK
  BY DEF HireInv
<1>2. /\ mainAt \in {"hire", "finito"} /\ mainAt' = "join" /\ finished' = TRUE
      /\ startWork' = [s \in Students |-> startWork[s] + 1]
      /\ finito' = finito \/ (finito' = finito - 1 /\ finito > 0)
      /\ UNCHANGED <<queueVars, money, waitFile, available, walk, saveMoney, hired, studentVars>>
  BY DEF MainFinishes, WakeUp
<1>3. startWork' \in [Students -> Nat] /\ finito' \in Nat
  BY <1>1, <1>2 DEF TypeOK
<1>4. TypeOK'
  BY <1>1, <1>2, <1>3 DEF TypeOK, queueVars, walk, studentVars
<1>5. Flags'
  <2>1. UNCHANGED <<at, busy, liveThreadNum, Living>>
    BY <1>2 DEF studentVars, Living
  <2> QED BY <1>2, <2>1 DEF HireInv, Flags
<1>6. Crew' /\ Ahead' /\ SomeoneIsFree' /\ HasRead' /\ LossNeedsRemoval' /\ Refusing'
  BY <1>2 DEF HireInv, Crew, Ahead, SomeoneIsFree, HasRead, LossNeedsRemoval, Refusing, queueVars
<1>7. Owed' /\ AccountsAgree'
  <2>1. UNCHANGED <<at, balance, solved, hired, money, saveMoney>>
    BY <1>2 DEF studentVars
  <2>2. UNCHANGED Unpaid
    BY <1>2 DEF Unpaid
  <2> QED BY <1>2, <2>1, <2>2 DEF HireInv, Owed, AccountsAgree, Working
<1> QED BY <1>4, <1>5, <1>6, <1>7 DEF HireInv

(* What the other steps of the main thread leave alone.                    *)
MainMoves == \/ MainWaitsFile \/ MainTests \/ MainGets \/ MainWaitsAvailable
             \/ (\E s \in Students : MainLooksAt(s)) \/ MainFails \/ MainPays \/ MainEnds

LEMMA MovesFrame ==
  ASSUME MainMoves
  PROVE  UNCHANGED <<queueVars, finished, finito, startWork, saveMoney, hired, studentVars>>
  BY DEF MainMoves, MainWaitsFile, MainTests, MainGets, MainWaitsAvailable, MainLooksAt,
         MainFails, MainPays, MainEnds

LEMMA MovesTypes ==
  ASSUME HireInv, MainMoves
  PROVE  TypeOK'
<1>0. UNCHANGED <<queueVars, finished, finito, startWork, saveMoney, hired, studentVars>>
  BY MovesFrame
<1>1. TypeOK /\ line_count \in Nat \ {0} /\ cost \in [Students -> Nat]
  BY HireAssumption DEF HireInv
<1>2. /\ waitFile \in Nat /\ available \in Nat /\ money \in Nat /\ c \in Kinds
      /\ index \in Students /\ next \in 1..(line_count + 1) /\ found \in BOOLEAN
      /\ hw_queue \in Seq(Kinds)
  BY <1>1 DEF TypeOK
<1> SUFFICES /\ mainAt' \in {"waitFile", "test", "get", "available", "walk", "hire", "pay",
                             "finito", "join", "ended", "failed"}
             /\ waitFile' \in Nat /\ available' \in Nat /\ money' \in Nat /\ c' \in Kinds
             /\ index' \in Students /\ next' \in 1..(line_count + 1) /\ found' \in BOOLEAN
  BY <1>0, <1>1 DEF TypeOK, queueVars, studentVars
<1>3. CASE MainWaitsFile \/ MainTests \/ MainFails \/ MainEnds
  BY <1>2, <1>3 DEF MainWaitsFile, MainTests, MainFails, MainEnds, walk
<1>4. CASE MainGets
  <2>1. hw_queue # <<>> => Head(hw_queue) \in Kinds
    BY <1>2, HeadTailProperties
  <2> QED BY <1>2, <1>4, <2>1 DEF MainGets
<1>5. CASE MainWaitsAvailable
  <2>1. /\ available' \in Nat /\ next' = 1 /\ found' = FALSE /\ mainAt' \in {"walk", "hire"}
        /\ UNCHANGED <<waitFile, money, c, index>>
    BY <1>2, <1>5 DEF MainWaitsAvailable
  <2>2. next' \in 1..(line_count + 1)
    BY <1>1, <2>1
  <2> QED BY <1>2, <2>1, <2>2
<1>6. ASSUME NEW s \in Students, MainLooksAt(s)
      PROVE  /\ mainAt' \in {"walk", "hire"} /\ index' \in Students
             /\ next' \in 1..(line_count + 1) /\ found' \in BOOLEAN
             /\ UNCHANGED <<waitFile, available, money, c>>
  <2>1. s + 1 \in 1..(line_count + 1)
    BY <1>1 DEF Students
  <2> QED BY <1>2, <1>6, <2>1 DEF MainLooksAt
<1>7. CASE MainPays
  <2>1. money >= cost[index] /\ cost[index] \in Nat
    BY <1>1, <1>2, <1>7 DEF MainPays, HireInv, AccountsAgree, Unpaid
  <2>2. money' \in Nat
    BY <1>2, <1>7, <2>1 DEF MainPays, Paid
  <2> QED BY <1>2, <1>7, <2>2 DEF MainPays, walk
<1> QED BY <1>2, <1>3, <1>4, <1>5, <1>6, <1>7 DEF MainMoves

(* A step of the main thread keeps the invariant: the walk starts with an  *)
(* idle student ahead, and chooses it at the latest when it gets there.    *)
LEMMA MovesKeep ==
  ASSUME HireInv, MainMoves
  PROVE  HireInv'
<1>0. UNCHANGED <<queueVars, finished, finito, startWork, saveMoney, hired, studentVars>>
  BY MovesFrame
<1>1. TypeOK /\ line_count \in Nat \ {0} /\ cost \in [Students -> Nat]
  BY HireAssumption DEF HireInv
<1>2. UNCHANGED <<at, busy, liveThreadNum, balance, solved, Loads, Living>>
  BY <1>0 DEF studentVars, Loads, Load, Living
<1>3. \A s \in Students : Load(s)' = Load(s)
  BY <1>0, <1>2 DEF Load
<1>4. /\ HasRead' /\ LossNeedsRemoval' /\ Refusing' /\ Owed'
  BY <1>0, <1>2 DEF HireInv, HasRead, LossNeedsRemoval, Refusing, Owed, Working, queueVars
<1>5. mainAt' \in {"join", "ended"} <=> mainAt \in {"join", "ended"}
  BY DEF MainMoves, MainWaitsFile, MainTests, MainGets, MainWaitsAvailable, MainLooksAt,
         MainFails, MainPays, MainEnds
<1>6. Flags'
  BY <1>0, <1>2, <1>5 DEF HireInv, Flags
<1>7. AccountsAgree'
  <2>1. money' - Unpaid' = money - Unpaid /\ money' \in Int /\ Unpaid' \in Int
        /\ Unpaid \in Int /\ money \in Int /\ (money >= Unpaid => money' >= Unpaid')
    <3>1. money \in Nat /\ index \in Students /\ cost[index] \in Nat
      BY <1>1 DEF TypeOK
    <3>2. CASE MainPays
      BY <3>1, <3>2 DEF MainPays, Unpaid, Paid
    <3>3. CASE ~MainPays
      <4>1. mainAt # "pay" /\ mainAt' # "pay" /\ money' = money
        BY <3>3 DEF MainMoves, MainWaitsFile, MainTests, MainGets, MainWaitsAvailable,
                    MainLooksAt, MainFails, MainEnds
      <4> QED BY <3>1, <4>1 DEF Unpaid
    <3> QED BY <3>2, <3>3
  <2>2. /\ money = saveMoney - Total(Paying) + Unpaid /\ money >= Unpaid
        /\ \A s \in Students : /\ balance[s] = cost[s] * solved[s] /\ solved[s] <= hired[s]
                               /\ ~finished => hired[s] = solved[s] + Pending(s)
    BY DEF HireInv, AccountsAgree, Paying
  <2>3. Paying' = Paying
    BY <1>0 DEF Paying
  <2>4. saveMoney \in Int /\ Total(Paying) \in Int
    BY <1>1, Functions, TotalInt DEF TypeOK
  <2>5. money' = saveMoney' - Total(Paying') + Unpaid' /\ money' >= Unpaid'
    <3> HIDE DEF Unpaid
    <3> QED BY <1>0, <2>1, <2>2, <2>3, <2>4
  <2>6. \A s \in Students : Pending(s)' = Pending(s)
    BY <1>0, <1>2 DEF Pending, Working
  <2> QED BY <1>0, <1>2, <2>2, <2>5, <2>6 DEF AccountsAgree, Paying
<1>8. Crew'
  <2>1. Crew /\ available \in Nat /\ Total(Loads) \in Int
    BY <1>1, Functions, TotalInt DEF HireInv, TypeOK
  <2>2. CASE MainWaitsAvailable
    BY <1>1, <1>2, <2>1, <2>2 DEF MainWaitsAvailable, Crew
  <2>3. CASE \E s \in Students : MainLooksAt(s)
    BY <1>2, <2>1, <2>3 DEF MainLooksAt, Crew
  <2>4. CASE MainWaitsFile \/ MainTests \/ MainGets \/ MainFails \/ MainPays \/ MainEnds
    BY <1>2, <2>1, <2>4 DEF MainWaitsFile, MainTests, MainGets, MainFails, MainPays, MainEnds, Crew
  <2> QED BY <2>2, <2>3, <2>4 DEF MainMoves
<1>9. Ahead' /\ SomeoneIsFree'
  <2>1. CASE MainWaitsAvailable
    <3>1. /\ mainAt' = IF c = "other" THEN "hire" ELSE "walk"
          /\ next' = 1 /\ c' = c
      BY <2>1 DEF MainWaitsAvailable
    <3>2. \E s \in Students : Load(s) = 0
      BY <1>1, <2>1, SomeoneIdle DEF MainWaitsAvailable, HireInv
    <3>3. \E s \in next'..line_count : Load(s)' = 0
      BY <1>3, <3>1, <3>2 DEF Students
    <3>4. next' \in Students
      BY <1>1, <3>1 DEF Students
    <3> QED BY <3>1, <3>3, <3>4 DEF Ahead, SomeoneIsFree
  <2>2. ASSUME NEW s \in Students, MainLooksAt(s)
        PROVE  Ahead' /\ SomeoneIsFree'
    <3>1. /\ mainAt = "walk" /\ next = s /\ c' = c /\ next' = s + 1
          /\ mainAt' = IF s = line_count THEN "hire" ELSE "walk"
          /\ found' = TRUE \/ (found' = found /\ (busy[s] \/ found))
      BY <2>2 DEF MainLooksAt
    <3>2. c # "other" /\ (found \/ \E t \in s..line_count : Load(t) = 0)
      BY <3>1 DEF HireInv, Ahead
    <3>3. busy[s] => Load(s) # 0
      <4>1. startWork[s] \in Nat
        BY <1>1 DEF TypeOK
      <4>2. busy[s] => at[s] \in {"live", "solve", "free"}
        BY DEF HireInv, Flags
      <4> QED BY <4>1, <4>2 DEF Load
    <3>4. found' \/ \E t \in (s + 1)..line_count : Load(t) = 0
      <4> HIDE DEF Load
      <4>1. CASE found' = TRUE
        BY <4>1
      <4>2. CASE found' = found /\ ~found
        <5>1. PICK t \in s..line_count : Load(t) = 0
          BY <3>2, <4>2
        <5>2. t # s
          BY <3>1, <3>3, <4>2, <5>1
        <5> QED BY <1>1, <5>1, <5>2 DEF Students
      <4> QED BY <3>1, <4>1, <4>2
    <3>5. found' \/ \E t \in (s + 1)..line_count : Load(t)' = 0
      <4> HIDE DEF Load
      <4>1. (s + 1)..line_count \subseteq Students
        BY <1>1 DEF Students
      <4> QED BY <1>3, <3>4, <4>1
    <3>6. s = line_count => found'
      BY <1>1, <3>5
    <3>7. s # line_count => next' \in Students
      BY <1>1, <3>1 DEF Students
    <3> QED BY <3>1, <3>2, <3>5, <3>6, <3>7 DEF Ahead, SomeoneIsFree
  <2>3. CASE MainWaitsFile \/ MainTests \/ MainGets \/ MainFails \/ MainPays \/ MainEnds
    <3>1. mainAt' \notin {"walk", "hire"}
      BY <2>3 DEF MainWaitsFile, MainTests, MainGets, MainFails, MainPays, MainEnds
    <3> QED BY <3>1 DEF Ahead, SomeoneIsFree
  <2> QED BY <2>1, <2>2, <2>3 DEF MainMoves
<1> QED BY <1>4, <1>6, <1>7, <1>8, <1>9, MovesTypes DEF HireInv

LEMMA HireStep == ASSUME HireInv, [Next]_vars
                  PROVE  HireInv'
<1>1. CASE MainStep
  <2>1. MainHires \/ MainFinishes \/ MainMoves
    BY <1>1 DEF MainStep, MainMoves
  <2> QED BY <2>1, HiresKeeps, FinishesKeeps, MovesKeep
<1>2. CASE HStep
  BY <1>2, HKeeps
<1>3. CASE \E s \in Students : StudentStep(s)
  BY <1>3, StudentKeeps
<1>4. CASE UNCHANGED vars
  <2>1. /\ UNCHANGED <<mainAt, hAt, at, homeworks, hw_queue, eof, finished, money, size, lost>>
        /\ UNCHANGED <<waitFile, available, finito, startWork, busy, liveThreadNum, balance>>
        /\ UNCHANGED <<c, index, next, found, saveMoney, hired, solved>>
    BY <1>4 DEF vars, queueVars, walk, studentVars
  <2>2. UNCHANGED <<Loads, Living, Unpaid>> /\ \A s \in Students : UNCHANGED Load(s)
    BY <2>1 DEF Loads, Load, Living, Unpaid
  <2>3. /\ UNCHANGED <<TypeOK, HasRead, LossNeedsRemoval, Refusing, SomeoneIsFree>>
    BY <2>1 DEF TypeOK, HasRead, LossNeedsRemoval, Refusing, SomeoneIsFree
  <2>4. (Flags => Flags') /\ (Crew => Crew') /\ (Ahead => Ahead')
    BY <2>1, <2>2 DEF Flags, Crew, Ahead, Load
  <2>5. (AccountsAgree => AccountsAgree') /\ (Owed => Owed')
    BY <2>1, <2>2 DEF AccountsAgree, Owed, Pending, Working
  <2> QED BY <2>3, <2>4, <2>5 DEF HireInv
<1> QED BY <1>1, <1>2, <1>3, <1>4 DEF Next

(* G's money, the hires, what the students earn and solve, and what the    *)
(* list refuses agree at every moment, whatever students, homeworks and    *)
(* money there are (L202-219, L288-289, finishedOutput).                   *)
THEOREM AccountsCorrect == Spec => []HireTallies
<1>1. HireInv => HireTallies
  BY DEF HireInv, HireTallies
<1> QED BY HireInit, HireStep, <1>1, PTL DEF Spec

(* The walk through the students always finds one that is free, although   *)
(* they turn busy late and free while it passes (L186-201).                *)
THEOREM WalkFindsOne == Spec => []SomeoneIsFree
<1>1. HireInv => SomeoneIsFree
  BY DEF HireInv
<1> QED BY HireInit, HireStep, <1>1, PTL DEF Spec
=============================================================================
