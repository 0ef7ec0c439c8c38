\* The clinic's smallest parameters, and a file with a character to ignore.
SPECIFICATION FairSpec
CONSTANTS
  n1 = n1
  n2 = n2
  v1 = v1
  v2 = v2
  c1 = c1
  c2 = c2
  c3 = c3
  Parent = Parent
  NoCitizen = NoCitizen
  Nurses <- MCNurses
  Vaccinators <- MCVaccinators
  Citizens <- MCCitizens
  numOfDose = 1
  sizeOftheBuffer = 4
  Files <- MCFile
  Signalled <- MCNobody
INVARIANTS ClinicTallies InvitesSomebody
PROPERTIES ClinicCloses
