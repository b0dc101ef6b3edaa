\* Two commands in any order, two workers, one lease that a live worker outlives.
SPECIFICATION Spec
CONSTANTS
  Jobs = {1, 2}
  Links = {"A"}
  LinkOf <- OneLink
  KindOf <- OnlyCommands
  Workers = {w1, w2}
  MaxAttempts = 2
  PendingCap = 2
  Answers <- OneText
  ImageSwitch = {TRUE}
  LegacyShapes = {}
  Ordered = FALSE
  MayStall = TRUE
  MaxFaults = 1
INVARIANTS
  OneRunningPerLink
  EffectOnce
  ExecutorBudget
PROPERTIES
  TerminalIsFinal
SYMMETRY WorkerSymmetry
