------------------------------- MODULE Clinic -------------------------------
(***************************************************************************)
(* Midterm/main.c: a vaccination clinic of processes that share counters   *)
(* and semaphores.  Nurses read the file of vaccines one character at a    *)
(* time and put the doses into a buffer; a vaccinator takes one dose of    *)
(* each kind for a citizen who has shown up; every citizen comes t times.  *)
(*                                                                         *)
(* A process stands at the semaphore it waits for next.  Acquiring it, the *)
(* test of `sigint' that follows and the code up to the next blocking call *)
(* are one action, posts included; a citizen's turn inside mSafe is two,   *)
(* since it wakes a vaccinator first and says who it is then.  SIGINT sets *)
(* the flag for all processes, and a process blocked in sem_wait comes     *)
(* back from it without having acquired anything (x_sem_wait takes EINTR   *)
(* for success).                                                           *)
(***************************************************************************)
EXTENDS Integers, FiniteSets, Sequences, Functions

CONSTANTS Nurses, Vaccinators, Citizens,   \* the processes, and
          NoCitizen,                       \* nobody yet (-1 in the code)
          Parent,                          \* the process that made them
          numOfDose,                       \* how often a citizen comes, t
          sizeOftheBuffer,                 \* places in the buffer, b
          Files,                           \* contents the input file may have
          Signalled                        \* processes that SIGINT may reach

Children == Nurses \cup Vaccinators \cup Citizens
Processes == Children \cup {Parent}
doses == numOfDose * Cardinality(Citizens)

(* What getopt.c demands (L67-68), and the file it names: as many vaccines *)
(* of each kind as there are doses to give, between other characters.      *)
Vaccines(f, k) == Cardinality({i \in 1..Len(f) : f[i] = k})
ASSUME ClinicAssumption ==
  /\ IsFiniteSet(Processes) /\ NoCitizen \notin Citizens
  /\ Nurses \cap Vaccinators = {} /\ (Nurses \cup Vaccinators) \cap Citizens = {}
  /\ Parent \notin Children
  /\ Cardinality(Nurses) >= 2 /\ Cardinality(Vaccinators) >= 2
  /\ Cardinality(Citizens) >= 3 /\ numOfDose \in Nat \ {0}
  /\ sizeOftheBuffer \in Nat /\ sizeOftheBuffer >= doses + 1
  /\ Signalled \subseteq Processes
  /\ \A f \in Files : /\ f \in Seq({"1", "2", "other"})
                      /\ Vaccines(f, "1") = doses /\ Vaccines(f, "2") = doses

VARIABLES
  pc,          \* pc[p]: where process p is
  sem,         \* the values of the semaphores
  firstDose, secDose, totalAppliedDose, deadCitizen, nurseTermination,
  currCitizen, isEof,
  file,        \* what is left of the input file
  turns,       \* turns[c]: how often citizen c has still to come
  invited,     \* history: how often each citizen was invited
  sigint,      \* SIGINT has been handled by some process
  eintr,       \* processes whose sem_wait has been interrupted
  reached      \* processes SIGINT has reached

shelf   == <<firstDose, secDose>>
signals == <<sigint, eintr, reached>>
vars == <<pc, sem, firstDose, secDose, totalAppliedDose, deadCitizen,
          nurseTermination, currCitizen, isEof, file, turns, invited,
          sigint, eintr, reached>>

Semaphores == {"empty", "full", "m", "mConsumer", "mCitizen", "mSafe"}

(* The semaphore a process waits for first in every turn of its loop.      *)
FirstWait(p) == CASE p \in Nurses -> "empty"
                  [] p \in Vaccinators -> "mConsumer"
                  [] OTHER -> "mSafe"

Init ==
  /\ pc = [p \in Processes |-> IF p = Parent THEN "waiting" ELSE FirstWait(p)]
  /\ sem = [s \in Semaphores |-> CASE s = "empty" -> sizeOftheBuffer
                                   [] s \in {"full", "mCitizen"} -> 0
                                   [] OTHER -> 1]
  /\ firstDose = 0 /\ secDose = 0 /\ totalAppliedDose = 0
  /\ deadCitizen = 0 /\ nurseTermination = 0
  /\ currCitizen = NoCitizen /\ isEof = FALSE
  /\ file \in Files
  /\ turns = [c \in Citizens |-> numOfDose]
  /\ invited = [c \in Citizens |-> 0]
  /\ sigint = FALSE /\ eintr = {} /\ reached = {}

-----------------------------------------------------------------------------
(* Semaphores.                                                             *)

(* The semaphores after p has come back from sem_wait on s.                *)
CanPass(p, s) == sem[s] > 0 \/ p \in eintr
After(p, s)   == IF p \in eintr THEN sem ELSE [sem EXCEPT ![s] = @ - 1]
Posted(f, ss) == [s \in Semaphores |->
                    f[s] + Cardinality({i \in 1..Len(ss) : ss[i] = s})]

(* p, at the semaphore s, comes back from its wait with the values g.      *)
Returns(p, s, g) == /\ pc[p] = s /\ CanPass(p, s)
                    /\ g = After(p, s)
                    /\ eintr' = eintr \ {p}
                    /\ UNCHANGED <<sigint, reached>>

Goto(p, l) == pc' = [pc EXCEPT ![p] = l]

(* The test of the flag at the top of a loop.  A process comes to its wait *)
(* by a test that finds the flag clear; if SIGINT has come since and it is *)
(* not asleep yet, it may still have had to test.                          *)
Again(p) == Goto(p, IF sigint THEN "aborted" ELSE FirstWait(p))

TurnsAway(p) ==
  /\ pc[p] = FirstWait(p) /\ sigint /\ p \notin eintr
  /\ Goto(p, "aborted")
  /\ UNCHANGED <<sem, shelf, totalAppliedDose, deadCitizen, nurseTermination,
                 currCitizen, isEof, file, turns, invited, signals>>

-----------------------------------------------------------------------------
(* Seeded faults, which the properties are tried against.                  *)
BadEofPosts     == <<"m", "empty">>
BadAnyDose      == firstDose > 0 \/ secDose > 0
BadIfLocked     == "inside"
BadComingCitizen(c) == currCitizen

EofPosts    == <<"m", "full">>
OtherPosts  == <<"m", "empty">>
UsedPosts   == <<"mSafe", "m", "empty", "empty", "mConsumer">>
PutBack     == <<"m", "full", "full", "mConsumer">>

isThereAnyDose == firstDose > 0 /\ secDose > 0
AllApplied     == totalAppliedDose = doses
(* After SIGINT the vaccinator waits for m once more instead of posting it *)
(* (L190).                                                                 *)
IfLocked       == IF sigint THEN "mAgain" ELSE "inside"
ComingCitizen(c) == c
TurnsLeft(c)   == turns[c] - 1

-----------------------------------------------------------------------------
(* A nurse.                                                                *)

NurseTakesPlace(p) ==
  /\ p \in Nurses
  /\ \E g \in {After(p, "empty")} :
       /\ Returns(p, "empty", g)
       /\ IF sigint THEN sem' = Posted(g, <<"empty">>) /\ Goto(p, "aborted")
                    ELSE sem' = g /\ Goto(p, "m")
  /\ UNCHANGED <<shelf, totalAppliedDose, deadCitizen, nurseTermination,
                 currCitizen, isEof, file, turns, invited>>

NurseLocks(p) ==
  /\ p \in Nurses
  /\ \E g \in {After(p, "m")} :
       /\ Returns(p, "m", g)
       /\ IF sigint THEN sem' = Posted(g, <<"m", "empty">>) /\ Goto(p, "aborted")
                    ELSE sem' = g /\ Goto(p, "inside")
  /\ UNCHANGED <<shelf, totalAppliedDose, deadCitizen, nurseTermination,
                 currCitizen, isEof, file, turns, invited>>

(* bringVaccine, and what the nurse does with the character.               *)
NurseBrings(p) ==
  /\ p \in Nurses /\ pc[p] = "inside"
  /\ isEof' = (isEof \/ file = <<>>)
  /\ file' = IF file = <<>> THEN file ELSE Tail(file)
  /\ \/ /\ sigint
        /\ sem' = Posted(sem, <<"m", "empty">>) /\ Goto(p, "aborted")
        /\ UNCHANGED <<shelf, nurseTermination>>
     \/ /\ ~sigint /\ isEof'
        /\ nurseTermination' = nurseTermination + 1
        /\ sem' = Posted(sem, EofPosts) /\ Goto(p, "gone")
        /\ UNCHANGED shelf
     \/ /\ ~sigint /\ ~isEof' /\ Head(file) = "other"
        /\ sem' = Posted(sem, OtherPosts) /\ Again(p)
        /\ UNCHANGED <<shelf, nurseTermination>>
     \/ /\ ~sigint /\ ~isEof' /\ Head(file) # "other"
        /\ firstDose' = firstDose + (IF Head(file) = "1" THEN 1 ELSE 0)
        /\ secDose' = secDose + (IF Head(file) = "2" THEN 1 ELSE 0)
        /\ sem' = Posted(sem, <<"m", "full">>) /\ Again(p)
        /\ UNCHANGED nurseTermination
  /\ UNCHANGED <<totalAppliedDose, deadCitizen, currCitizen, turns, invited, signals>>

NurseStep(p) == NurseTakesPlace(p) \/ NurseLocks(p) \/ NurseBrings(p)

-----------------------------------------------------------------------------
(* A vaccinator.                                                           *)

(* The waits for mConsumer and twice for full; "full2" is the second wait. *)
VaccinatorTakes(p) ==
  /\ p \in Vaccinators
  /\ \/ \E g \in {After(p, "mConsumer")} :
          /\ Returns(p, "mConsumer", g)
          /\ IF sigint THEN sem' = Posted(g, <<"mConsumer">>) /\ Goto(p, "aborted")
                       ELSE sem' = g /\ Goto(p, "full")
     \/ \E g \in {After(p, "full")} :
          /\ Returns(p, "full", g)
          /\ IF sigint THEN sem' = Posted(g, <<"full", "mConsumer">>) /\ Goto(p, "aborted")
                       ELSE sem' = g /\ Goto(p, "full2")
     \/ /\ pc[p] = "full2" /\ CanPass(p, "full")
        /\ eintr' = eintr \ {p}
        /\ IF sigint
             THEN /\ sem' = Posted(After(p, "full"), <<"full", "full", "mConsumer">>)
                  /\ Goto(p, "aborted")
             ELSE sem' = After(p, "full") /\ Goto(p, "m")
        /\ UNCHANGED <<sigint, reached>>
  /\ UNCHANGED <<shelf, totalAppliedDose, deadCitizen, nurseTermination,
                 currCitizen, isEof, file, turns, invited>>

VaccinatorLocks(p) ==
  /\ p \in Vaccinators
  /\ \E g \in {After(p, "m")} :
       /\ Returns(p, "m", g)
       /\ sem' = g
       /\ Goto(p, IfLocked)
  /\ UNCHANGED <<shelf, totalAppliedDose, deadCitizen, nurseTermination,
                 currCitizen, isEof, file, turns, invited>>

VaccinatorAborts(p) ==
  /\ p \in Vaccinators /\ pc[p] = "mAgain" /\ CanPass(p, "m")
  /\ sem' = Posted(After(p, "m"), <<"full", "full", "mConsumer">>)
  /\ eintr' = eintr \ {p}
  /\ Goto(p, "aborted")
  /\ UNCHANGED <<shelf, totalAppliedDose, deadCitizen, nurseTermination,
                 currCitizen, isEof, file, turns, invited, sigint, reached>>

VaccinatorLooks(p) ==
  /\ p \in Vaccinators /\ pc[p] = "inside"
  /\ \/ /\ AllApplied
        /\ sem' = Posted(sem, PutBack) /\ Goto(p, "gone")
     \/ /\ ~AllApplied /\ ~isThereAnyDose
        /\ sem' = Posted(sem, PutBack) /\ Again(p)
     \/ /\ ~AllApplied /\ isThereAnyDose /\ sigint
        /\ sem' = Posted(sem, PutBack) /\ Goto(p, "aborted")
     \/ /\ ~AllApplied /\ isThereAnyDose /\ ~sigint
        /\ Goto(p, "mCitizen")
        /\ UNCHANGED sem
  /\ UNCHANGED <<shelf, totalAppliedDose, deadCitizen, nurseTermination,
                 currCitizen, isEof, file, turns, invited, signals>>

VaccinatorMeetsCitizen(p) ==
  /\ p \in Vaccinators
  /\ \E g \in {After(p, "mCitizen")} :
       /\ Returns(p, "mCitizen", g)
       /\ IF sigint
            THEN sem' = Posted(g, <<"mCitizen">> \o PutBack) /\ Goto(p, "aborted")
            ELSE sem' = g /\ Goto(p, "invite")
  /\ UNCHANGED <<shelf, totalAppliedDose, deadCitizen, nurseTermination,
                 currCitizen, isEof, file, turns, invited>>

(* The critical section of mSafe, and the posts after it; "invite" is the  *)
(* wait for mSafe, which no test of the flag follows.                      *)
Vaccinate(p) ==
  /\ p \in Vaccinators /\ pc[p] = "invite" /\ CanPass(p, "mSafe")
  /\ firstDose' = firstDose - 1 /\ secDose' = secDose - 1
  /\ totalAppliedDose' = totalAppliedDose + 1
  /\ invited' = IF currCitizen = NoCitizen THEN invited
                                           ELSE [invited EXCEPT ![currCitizen] = @ + 1]
  /\ sem' = Posted(After(p, "mSafe"), UsedPosts)
  /\ eintr' = eintr \ {p}
  /\ Again(p)
  /\ UNCHANGED <<deadCitizen, nurseTermination, currCitizen, isEof, file, turns,
                 sigint, reached>>

VaccinatorStep(p) ==
  \/ VaccinatorTakes(p) \/ VaccinatorLocks(p) \/ VaccinatorAborts(p) \/ VaccinatorLooks(p)
  \/ VaccinatorMeetsCitizen(p) \/ Vaccinate(p)

-----------------------------------------------------------------------------
(* A citizen.                                                              *)

CitizenPosts(c) ==
  /\ c \in Citizens /\ turns[c] > 0
  /\ \E g \in {After(c, "mSafe")} :
       Returns(c, "mSafe", g) /\ sem' = Posted(g, <<"mCitizen">>)
  /\ Goto(c, "naming")
  /\ UNCHANGED <<shelf, totalAppliedDose, deadCitizen, nurseTermination,
                 currCitizen, isEof, file, turns, invited>>

(* The flag may have been set since it was found clear.                    *)
CitizenComes(c) ==
  /\ c \in Citizens /\ pc[c] = "naming"
  /\ sem' = Posted(sem, <<"mSafe">>)
  /\ \/ sigint /\ Goto(c, "aborted") /\ UNCHANGED <<currCitizen, turns>>
     \/ /\ currCitizen' = ComingCitizen(c)
        /\ turns' = [turns EXCEPT ![c] = TurnsLeft(c)]
        /\ Again(c)
  /\ UNCHANGED <<shelf, totalAppliedDose, deadCitizen, nurseTermination, isEof,
                 file, invited, signals>>

(* With a second citizen let into mSafe by SIGINT, a count may be lost.    *)
CitizenLeaves(c) ==
  /\ c \in Citizens /\ turns[c] = 0
  /\ \E g \in {After(c, "mSafe")} :
       Returns(c, "mSafe", g) /\ sem' = Posted(g, <<"mSafe">>)
  /\ deadCitizen' \in {deadCitizen + 1} \cup (IF sigint THEN {deadCitizen} ELSE {})
  /\ Goto(c, IF sigint THEN "aborted" ELSE "gone")
  /\ UNCHANGED <<shelf, totalAppliedDose, nurseTermination, currCitizen, isEof,
                 file, turns, invited>>

CitizenStep(c) == CitizenPosts(c) \/ CitizenComes(c) \/ CitizenLeaves(c)

-----------------------------------------------------------------------------
(* The parent, and SIGINT.                                                 *)

Gone == {p \in Processes : pc[p] \in {"gone", "aborted"}}

ParentCloses ==
  /\ pc[Parent] = "waiting" /\ Children \subseteq Gone
  /\ Goto(Parent, IF sigint THEN "aborted" ELSE "gone")
  /\ UNCHANGED <<sem, shelf, totalAppliedDose, deadCitizen, nurseTermination,
                 currCitizen, isEof, file, turns, invited, signals>>

Waits == Semaphores \cup {"full2", "mAgain", "invite"}

(* SIGINT reaches p.  If p has already gone to sleep in sem_wait, the wait *)
(* returns; if it has not, it will sleep.  If the parent is in its wait,   *)
(* that fails with an error that is not ECHILD, which ends it.             *)
Sigint(p) ==
  /\ p \in Signalled \ (reached \cup Gone)
  /\ reached' = reached \cup {p}
  /\ sigint' = TRUE
  /\ IF p = Parent
       THEN (Goto(Parent, "aborted") \/ UNCHANGED pc) /\ UNCHANGED eintr
       ELSE /\ eintr' \in {eintr} \cup (IF pc[p] \in Waits THEN {eintr \cup {p}} ELSE {})
            /\ UNCHANGED pc
  /\ UNCHANGED <<sem, shelf, totalAppliedDose, deadCitizen, nurseTermination,
                 currCitizen, isEof, file, turns, invited>>

Finished == Processes \subseteq Gone /\ UNCHANGED vars

Step(p) == NurseStep(p) \/ VaccinatorStep(p) \/ CitizenStep(p) \/ TurnsAway(p)

Next == \/ \E p \in Children : Step(p)
        \/ ParentCloses
        \/ \E p \in Processes : Sigint(p)
        \/ Finished

Spec == Init /\ [][Next]_vars

(* Processes keep running, and a nurse whose semaphore is positive again   *)
(* and again gets it some time.                                            *)
FairSpec == /\ Spec /\ WF_vars(ParentCloses)
            /\ \A p \in Children \ Nurses : WF_vars(Step(p))
            /\ \A p \in Nurses : SF_vars(Step(p))

-----------------------------------------------------------------------------
Places == {"inside", "naming", "waiting", "gone", "aborted"} \cup Waits

TypeOK ==
  /\ pc \in [Processes -> Places]
  /\ sem \in [Semaphores -> Nat]
  /\ firstDose \in Int /\ secDose \in Int
  /\ totalAppliedDose \in Nat /\ deadCitizen \in 0..Cardinality(Citizens)
  /\ nurseTermination \in 0..Cardinality(Nurses)
  /\ currCitizen \in Citizens \cup {NoCitizen}
  /\ isEof \in BOOLEAN /\ file \in Seq({"1", "2", "other"})
  /\ turns \in [Citizens -> 0..numOfDose] /\ invited \in [Citizens -> Nat]
  /\ sigint \in BOOLEAN
  /\ eintr \subseteq Processes /\ reached \subseteq Processes

(* How many places of the buffer the processes carry with them.            *)
AtLabels(S, ls) == Cardinality({p \in S : pc[p] \in ls})
Carried == AtLabels(Nurses, {"m", "inside"}) + AtLabels(Vaccinators, {"full2"})
           + 2 * AtLabels(Vaccinators, {"m", "inside", "mCitizen", "invite"})

(* Without SIGINT, no place of the buffer is lost or made (L84-141, L170,  *)
(* L178, L205-217, L252-253), and every full place is a dose on the shelf  *)
(* or the good-bye of a nurse.                                             *)
PlacesAccounted ==
  ~sigint => /\ sem["empty"] + sem["full"] + Carried = sizeOftheBuffer
             /\ sem["full"] + AtLabels(Vaccinators, {"full2"})
                  + 2 * AtLabels(Vaccinators, {"m", "inside", "mCitizen", "invite"})
                  = firstDose + secDose + nurseTermination

(* The turns citizens have come for: of turns 1..numOfDose, the last ones. *)
TurnsTaken == {t \in Citizens \X (1..numOfDose) : turns[t[1]] < t[2]}

(* Nobody is vaccinated from an empty shelf or once too often (L200-218),  *)
(* and without SIGINT every vaccination has a citizen's turn of its own,   *)
(* taken or under way (L228, L279).                                        *)
DosesAccounted ==
  /\ firstDose >= 0 /\ secDose >= 0 /\ totalAppliedDose <= doses
  /\ ~sigint => sem["mCitizen"] + totalAppliedDose + AtLabels(Vaccinators, {"invite"})
                  = Cardinality(TurnsTaken) + AtLabels(Citizens, {"naming"})

(* The buffer's places, the doses on the shelf and the citizens' turns     *)
(* tally, through nurses' good-byes and vaccinators that give up.          *)
ClinicTallies == TypeOK /\ PlacesAccounted /\ DosesAccounted

(* Although x_sem_wait takes an interrupted wait for a successful one      *)
(* (lib.c L122), nobody is ever where m protects the counters with another.*)
InsideAlone == AtLabels(Children, {"inside", "mCitizen", "invite"}) <= 1

(* Without SIGINT, there is somebody to call when a vaccinator gets mSafe: *)
(* though a citizen wakes a vaccinator before it sets currCitizen, and     *)
(* currCitizen is whoever came last, not the one whose post of mCitizen    *)
(* was taken (L239-248, L278-286), it is not -1; and nobody is ever called *)
(* who is still to come for the first time.                                *)
SomebodyToCall ==
  /\ ~sigint /\ sem["mSafe"] > 0 /\ (\E p \in Vaccinators : pc[p] = "invite")
       => currCitizen # NoCitizen
  /\ \A c \in Citizens : invited[c] > 0 => turns[c] < numOfDose

(* So every dose is given to somebody who has come.                        *)
InvitesSomebody ==
  SomebodyToCall /\ (~sigint => totalAppliedDose = SumFunction(invited))

(* Without SIGINT and with no more nurses than places in the buffer, the   *)
(* clinic closes with every dose given.                                    *)
ClinicCloses == <>(sigint \/ (pc[Parent] = "gone" /\ totalAppliedDose = doses))

=============================================================================
