\* Two submissions to one instance; the first job may hang.
SPECIFICATION Spec
CONSTANTS
  Jobs = {j1, j2}
  Procs = {p1}
  Stuck = {j1}
  MaxFaults = 1
INVARIANTS
  TypeOK
  SavedMeansSucceeded
  NoOrphan
  HolderTruthful
PROPERTIES
  ImplementsLane
  LaneFreed
  SolverFreed
  WaiterQuits
