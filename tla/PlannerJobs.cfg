\* Two scenarios that may share a section; one job runs in the pool, the other
\* in its request; one manual edit adds a copy of the section, one does not.
SPECIFICATION Spec
CONSTANTS
  Scenarios = {1, 2}
  Jobs = {j1, j2}
  Inline = {j2}
  Editors = {e1, e2}
  Copiers = {e1}
  Shared = shared
  Owner = 1
  Nobody = nobody
  MaxFaults = 0
INVARIANTS
  TypeOK
  EditsSurvive
  CancelRestores
  CancelHonoured
\* Every request is answered and every job has ended: nothing is left to do.
CHECK_DEADLOCK FALSE
