\* Two questions of one conversation are sent at the same time.
SPECIFICATION Spec
CONSTANTS
  Callers = {11, 12}
  Procs = {1}
  ProcOf <- ProcessOf
  Keys = {k1, k2}
  Questions = {q1}
  Slots = 2
  Budget = 2
  MayOutlive = FALSE
  MaxFaults = 0
INVARIANTS
  PositionsDistinct
