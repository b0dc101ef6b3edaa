\* A row of an earlier release at the head of a chat, before a new update.
SPECIFICATION Spec
CONSTANTS
  Jobs = {1, 2}
  Links = {"A"}
  LinkOf <- OneLink
  KindOf <- OnlyQuestions
  Workers = {w1}
  MaxAttempts = 2
  PendingCap = 2
  Answers <- OneText
  ImageSwitch = {TRUE, FALSE}
  LegacyShapes <- LegacyAnswers
  Ordered = TRUE
  MayStall = FALSE
  MaxFaults = 1
INVARIANTS
  AnsweredInFull
PROPERTIES
  TakeoverKeepsItsAttempts
  EveryJobEnds
