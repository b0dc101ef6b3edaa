\* One job, two manual edits, and one kill, exit or failed restore.
SPECIFICATION Spec
CONSTANTS
  Scenarios = {1, 2}
  Jobs = {j1}
  Inline = {}
  Editors = {e1, e2}
  Copiers = {e1}
  Shared = shared
  Owner = 1
  Nobody = nobody
  MaxFaults = 1
PROPERTIES
  PlannerEnds
  WritersAnswered
\* Every request is answered and every job has ended: nothing is left to do.
CHECK_DEADLOCK FALSE
