\* A busy or refused retry of a failed question, and no crash at all.
SPECIFICATION Spec
CONSTANTS
  Callers = {11, 12}
  Procs = {1}
  ProcOf <- ProcessOf
  Keys = {k1, k2}
  Questions = {q1}
  Slots = 1
  Budget = 2
  MayOutlive = FALSE
  MaxFaults = 0
INVARIANTS
  PendingIsGenerated
