\* One chat, one update: an answer of two texts and two pictures, three crashes.
SPECIFICATION Spec
CONSTANTS
  Jobs = {1}
  Links = {"A"}
  LinkOf <- OneLink
  KindOf <- OnlyQuestions
  Workers = {w1}
  MaxAttempts = 2
  PendingCap = 2
  Answers <- TextsAndPictures
  ImageSwitch = {TRUE, FALSE}
  LegacyShapes = {}
  Ordered = TRUE
  MayStall = FALSE
  MaxFaults = 3
INVARIANTS
  TypeOK
  OneUnconfirmedText
  NoConfirmedTextResent
  PicturesAccounted
  AnsweredInFull
  TextBeforePictures
  FullTextBudget
  AtMostOneLateItem
PROPERTIES
  DegradationIsReported
  PicturesNeverFailTheJob
  EveryJobEnds
