\* SIGINT at a vaccinator or the parent: the clinic may then stop for good.
SPECIFICATION Spec
CONSTANTS
  n1 = n1
  n2 = n2
  v1 = v1
  v2 = v2
  c1 = c1
  c2 = c2
  c3 = c3
  Parent = Parent
  NoCitizen = NoCitizen
  Nurses <- MCNurses
  Vaccinators <- MCVaccinators
  Citizens <- MCCitizens
  numOfDose = 1
  sizeOftheBuffer = 4
  Files <- MCInTurn
  Signalled <- MCSome
SYMMETRY SigintSymmetry
INVARIANTS InsideAlone
CONSTRAINT SigintBound
CHECK_DEADLOCK FALSE
