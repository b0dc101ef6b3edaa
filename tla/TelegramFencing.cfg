\* A worker outlives its lease while the adviser is thinking.
SPECIFICATION Spec
CONSTANTS
  Jobs = {1}
  Links = {"A"}
  LinkOf <- OneLink
  KindOf <- OnlyQuestions
  Workers = {w1, w2}
  MaxAttempts = 2
  PendingCap = 2
  Answers <- OneText
  ImageSwitch = {TRUE}
  LegacyShapes = {}
  Ordered = TRUE
  MayStall = TRUE
  MaxFaults = 1
INVARIANTS
  SoleLeaseHolder
