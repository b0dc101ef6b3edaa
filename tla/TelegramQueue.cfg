\* One chat, two updates, two workers, two crashes; an answer may be blank.
SPECIFICATION Spec
CONSTANTS
  Jobs = {1, 2}
  Links = {"A"}
  LinkOf <- OneLink
  KindOf <- AllKinds
  Workers = {w1, w2}
  MaxAttempts = 2
  PendingCap = 2
  Answers <- BlankOrText
  ImageSwitch = {TRUE}
  LegacyShapes = {}
  Ordered = TRUE
  MayStall = FALSE
  MaxFaults = 2
INVARIANTS
  RunningIsHead
  SoleLeaseHolder
PROPERTIES
  ImplementsChannel
SYMMETRY WorkerSymmetry
