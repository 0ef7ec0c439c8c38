------------------------------ MODULE MCClinic ------------------------------
(* Small instances of Clinic for TLC.                                      *)
EXTENDS Clinic, TLC

CONSTANTS n1, n2, v1, v2, c1, c2, c3

MCNurses      == {n1, n2}
MCVaccinators == {v1, v2}
MCCitizens    == {c1, c2, c3}

(* The kinds one after the other, with a character that is none, in turn.  *)
MCFile    == {<<"1", "1", "1", "other", "2", "2", "2">>}
MCInTurn  == {<<"1", "2", "1", "2", "1", "2">>}
MCNobody  == {}
MCSome    == {v1, Parent}

(* SIGINT may come while two doses, one of each kind, are brought; the     *)
(* rest of the file is not looked at.                                      *)
SigintBound == Len(file) >= 4

SigintSymmetry == Permutations(MCNurses) \cup Permutations(MCCitizens)
=============================================================================
