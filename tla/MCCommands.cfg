SPECIFICATION Spec
CONSTANTS
  Procs = {p1, p2, p3}
  Ids = {alice}
  Keys = {k1, k2, k3, k4}
  NoKey = NoKey
  Absent = Absent
  Torn = Torn
SYMMETRY Symmetry
INVARIANTS
  TypeOK
  PlantedKnown
  KeysSurvive
  CleanMeansNoLeak
  CommandsInv
CHECK_DEADLOCK FALSE
