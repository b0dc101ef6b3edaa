\* One question, asked from two web threads and the Telegram worker.
SPECIFICATION Spec
CONSTANTS
  Callers = {11, 12, 21}
  Procs = {1, 2}
  ProcOf <- ProcessOf
  Keys = {k1}
  Questions = {q1, q2}
  Slots = 1
  Budget = 2
  MayOutlive = FALSE
  MaxFaults = 2
INVARIANTS
  TypeOK
  OneGenerator
  AnsweredOnce
  SlotsReturned
PROPERTIES
  NeverStuck
