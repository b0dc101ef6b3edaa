\* A worker dies on the last attempt of a text that has pictures after it.
SPECIFICATION Spec
CONSTANTS
  Jobs = {1}
  Links = {"A"}
  LinkOf <- OneLink
  KindOf <- OnlyQuestions
  Workers = {w1}
  MaxAttempts = 2
  PendingCap = 2
  Answers <- OneOfEach
  ImageSwitch = {TRUE}
  LegacyShapes = {}
  Ordered = TRUE
  MayStall = FALSE
  MaxFaults = 3
INVARIANTS
  TextBudgetIsBound
