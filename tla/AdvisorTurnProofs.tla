-------------------------- MODULE AdvisorTurnProofs --------------------------
(* Theorems about the conversation of AdvisorTurn, for any number of       *)
(* threads, processes, keys, slots and crashes.                            *)
EXTENDS AdvisorTurnProperties, FiniteSetTheorems, TLAPS

USE CallersAssumption, KeysAssumption, LimitsAssumption

-----------------------------------------------------------------------------
(* Types. *)

LEMMA NoRequestType == NoRequest \in Request /\ ~NoRequest.mine /\ ~NoRequest.slot
BY DEF NoRequest, Request, Statuses

LEMMA ReturnType ==
  ASSUME TypeOK, NEW c \in Callers, Return(c)
  PROVE  /\ pc' \in [Callers -> Steps]
         /\ req' \in [Callers -> Request]
         /\ slots' \in [Procs -> Nat]
<1>1. ProcOf[c] \in Procs OBVIOUS
<1>2. slots' \in [Procs -> Nat] BY <1>1 DEF TypeOK, Return
<1>3. QED BY <1>2, NoRequestType DEF TypeOK, Return, Steps

LEMMA TypeInit == Init => TypeOK
<1>1. NoTurn \in TurnRow BY DEF NoTurn, TurnRow, Statuses
<1>2. QED BY <1>1, NoRequestType DEF Init, TypeOK, Steps

LEMMA RequestUpdates ==
  ASSUME TypeOK, NEW c \in Callers
  PROVE  /\ \A n \in Nat : [req EXCEPT ![c].at = n] \in [Callers -> Request]
         /\ [req EXCEPT ![c].slot = TRUE] \in [Callers -> Request]
         /\ [req EXCEPT ![c].mine = TRUE] \in [Callers -> Request]
BY DEF TypeOK, Request

LEMMA TypeServe ==
  ASSUME TypeOK, NEW c \in Callers, Serve(c)
  PROVE  TypeOK'
<1>0. /\ req[c] \in Request
      /\ req[c].key \in Keys
      /\ req[c].at \in Nat
      /\ Turn(c) \in TurnRow
      /\ ProcOf[c] \in Procs
  BY DEF TypeOK, Request, Turn
<1>1. CASE Look(c)
  <2>1. UNCHANGED <<turn, answers, top, spent, faults>> BY <1>1 DEF Look
  <2>2. CASE Return(c) BY <2>1, <2>2, ReturnType DEF TypeOK
  <2>3. CASE Goto(c, "slot") /\ UNCHANGED <<req, slots>>
    BY <2>1, <2>3 DEF TypeOK, Goto, Steps
  <2>4. CASE /\ Goto(c, "claim")
             /\ req' = [req EXCEPT ![c].seen = Turn(c).status, ![c].known = TRUE]
             /\ UNCHANGED slots
    <3>1. Turn(c).status \in Statuses BY <1>0 DEF TurnRow
    <3>2. req' \in [Callers -> Request] BY <2>4, <3>1 DEF TypeOK, Request
    <3>3. QED BY <2>1, <2>4, <3>2 DEF TypeOK, Goto, Steps
  <2>5. QED BY <1>1, <2>2, <2>3, <2>4 DEF Look
<1>2. CASE Claim(c)
  <2>1. CASE Take(c) /\ UNCHANGED <<answers, top, spent, faults>>
    <3>1. turn' \in [Keys -> TurnRow]
      BY <1>0, <2>1 DEF Take, TypeOK, TurnRow, Statuses
    <3>2. req' \in [Callers -> Request]
      BY <1>0, <2>1 DEF Take, TypeOK, Request
    <3>3. QED BY <2>1, <3>1, <3>2 DEF Take, TypeOK, Goto, Steps
  <2>2. QED BY <1>2, <2>1, ReturnType DEF Claim, TypeOK
<1>3. CASE TakeSlot(c)
  <2>1. UNCHANGED <<turn, answers, top, spent, faults>> BY <1>3 DEF TakeSlot
  <2>2. CASE Return(c) BY <2>1, <2>2, ReturnType DEF TypeOK
  <2>3. CASE ~Return(c)
    <3>1. slots' \in [Procs -> Nat]
      <4>1. slots[ProcOf[c]] - 1 \in Nat BY <1>0, <1>3, <2>3 DEF TakeSlot, TypeOK
      <4>2. \A n \in Nat : [slots EXCEPT ![ProcOf[c]] = n] \in [Procs -> Nat]
        BY <1>0 DEF TypeOK
      <4>3. slots' = [slots EXCEPT ![ProcOf[c]] = slots[ProcOf[c]] - 1]
        BY <1>3, <2>3 DEF TakeSlot
      <4>4. QED BY <4>1, <4>2, <4>3
    <3>2. req' = [req EXCEPT ![c].slot = TRUE] BY <1>3, <2>3 DEF TakeSlot
    <3>4. req' \in [Callers -> Request] BY <3>2, RequestUpdates
    <3>5. QED BY <1>3, <2>1, <2>3, <3>1, <3>4 DEF TakeSlot, TypeOK, Goto, Steps
  <2>4. QED BY <2>2, <2>3
<1>4. CASE Spend(c)
  <2>1. UNCHANGED <<turn, answers, top, faults>> BY <1>4 DEF Spend
  <2>2. CASE Return(c) /\ UNCHANGED spent BY <2>1, <2>2, ReturnType DEF TypeOK
  <2>3. CASE spent < Budget
    <3>1. spent + 1 \in Nat BY DEF TypeOK
    <3>2. spent' = spent + 1 /\ UNCHANGED <<req, slots>> BY <1>4, <2>3 DEF Spend
    <3>3. pc' \in [Callers -> Steps] BY <1>4, <2>3 DEF Spend, TypeOK, Goto, Steps
    <3>4. QED BY <2>1, <3>1, <3>2, <3>3 DEF TypeOK
  <2>4. QED BY <1>4, <2>2, <2>3 DEF Spend
<1>5. CASE PlaceQuestion(c) \/ PlaceAnswer(c)
  <2>1. req' \in [Callers -> Request]
    <3>1. top + 1 \in Nat BY DEF TypeOK
    <3>2. req' = [req EXCEPT ![c].at = top + 1]
      BY <1>5 DEF PlaceQuestion, PlaceAnswer, Place
    <3>3. QED BY <3>1, <3>2, RequestUpdates
  <2>2. QED BY <1>5, <2>1 DEF PlaceQuestion, PlaceAnswer, Place, TypeOK, Goto, Steps
<1>6. CASE Insert(c)
  <2>1. CASE Turn(c).status = "ABSENT"
    <3>1. [status |-> "PENDING", asked |-> req[c].question, stale |-> FALSE]
            \in TurnRow
      BY <1>0 DEF TurnRow, Statuses, Request
    <3>2. turn' \in [Keys -> TurnRow] BY <1>0, <1>6, <2>1, <3>1 DEF Insert, TypeOK
    <3>3. req' \in [Callers -> Request] BY <1>6, <2>1, RequestUpdates DEF Insert
    <3>4. top' \in Nat BY <1>0, <1>6, <2>1 DEF Insert, Placed, TypeOK
    <3>5. QED BY <1>6, <2>1, <3>2, <3>3, <3>4 DEF Insert, TypeOK, Goto, Steps
  <2>2. CASE Turn(c).status # "ABSENT"
    BY <1>6, <2>2 DEF Insert, TypeOK, Goto, Steps
  <2>3. QED BY <2>1, <2>2
<1>7. CASE Generate(c) BY <1>7 DEF Generate, TypeOK, Goto, Steps
<1>8. CASE Refund(c) BY <1>8 DEF Refund, TypeOK, Goto, Steps
<1>9. CASE Fail(c)
  <2>1. turn' \in [Keys -> TurnRow]
    BY <1>0, <1>9 DEF Fail, TypeOK, TurnRow, Statuses
  <2>2. QED BY <1>9, <2>1, ReturnType DEF Fail, TypeOK
<1>10. CASE Persist(c)
  <2>1. turn' \in [Keys -> TurnRow] /\ answers' \in [Keys -> Nat] /\ top' \in Nat
    BY <1>0, <1>10 DEF Persist, Placed, TypeOK, TurnRow, Statuses
  <2>2. QED BY <1>10, <2>1, ReturnType DEF Persist, TypeOK
<1>11. QED
  BY <1>1, <1>2, <1>3, <1>4, <1>5, <1>6, <1>7, <1>8, <1>9, <1>10 DEF Serve

LEMMA TypeNext == TypeOK /\ [Next]_vars => TypeOK'
<1> SUFFICES ASSUME TypeOK, [Next]_vars PROVE TypeOK'
  OBVIOUS
<1>1. ASSUME NEW c \in Callers, Ask(c) PROVE TypeOK'
  <2>1. \A k \in Keys, q \in Questions :
          [NoRequest EXCEPT !.key = k, !.question = q] \in Request
    BY NoRequestType DEF Request
  <2>2. QED BY <1>1, <2>1 DEF Ask, TypeOK, Goto, Steps
<1>2. ASSUME NEW c \in Callers, Serve(c) PROVE TypeOK'
  BY <1>2, TypeServe
<1>3. ASSUME NEW p \in Procs, Crash(p) PROVE TypeOK'
  BY <1>3, NoRequestType DEF Crash, TypeOK, Steps
<1>4. ASSUME NEW k \in Keys, Age(k) PROVE TypeOK'
  <2>1. turn' \in [Keys -> TurnRow] BY <1>4 DEF Age, TypeOK, TurnRow
  <2>2. faults' \in Nat BY <1>4 DEF Age, TypeOK
  <2>3. QED BY <1>4, <2>1, <2>2 DEF Age, TypeOK
<1>5. CASE NewWindow BY <1>5 DEF NewWindow, TypeOK
<1>6. CASE UNCHANGED vars BY <1>6 DEF vars, TypeOK
<1>7. QED BY <1>1, <1>2, <1>3, <1>4, <1>5, <1>6 DEF Next

(* Every variable keeps its type, whatever is asked, retried or killed.    *)
THEOREM TurnTypes == Spec => []TypeOK
BY TypeInit, TypeNext, PTL DEF Spec
-----------------------------------------------------------------------------
(* One generator, one answer. *)

(* A thread at one of these steps answers a turn it has created or claimed.*)
WorkSteps == {"generate", "refund", "fail", "placeAnswer", "persist"}

WorkersAnswer == \A c \in Callers : pc[c] \in WorkSteps => req[c].mine

(* A turn that somebody answers is pending, and fresh. *)
GeneratorPending ==
  \A c \in Callers : req[c].mine => Turn(c).status = "PENDING" /\ ~Turn(c).stale

(* What a thread that is about to claim has seen still allows it to, unless*)
(* the comparison will tell.                                               *)
MayClaim(c) ==
  /\ req[c].seen \in {"FAILED", "PENDING"}
  /\ req[c].seen = "PENDING" /\ req[c].known
     => Turn(c).status = "PENDING" /\ Turn(c).stale

ClaimsAllowed == \A c \in Callers : pc[c] = "claim" => MayClaim(c)

TurnInvariant == /\ TypeOK
                 /\ WorkersAnswer
                 /\ GeneratorPending
                 /\ ClaimsAllowed
                 /\ OneGenerator
                 /\ AnsweredOnce

(* A thread that writes no message. *)
QuietMove(c) ==
  /\ UNCHANGED <<turn, answers>>
  /\ \A d \in Callers \ {c} : req'[d] = req[d] /\ pc'[d] = pc[d]
  /\ req'[c].mine => req[c].mine /\ req'[c].key = req[c].key
  /\ pc'[c] \in WorkSteps => req'[c].mine
  /\ pc'[c] = "claim" => MayClaim(c)'

LEMMA QuietKeeps ==
  ASSUME TurnInvariant, TypeOK', NEW c \in Callers, QuietMove(c)
  PROVE  TurnInvariant'
<1>1. WorkersAnswer'
  BY DEF TurnInvariant, WorkersAnswer, QuietMove
<1>2. GeneratorPending'
  BY DEF TurnInvariant, GeneratorPending, QuietMove, Turn
<1>3. ClaimsAllowed'
  <2> SUFFICES ASSUME NEW d \in Callers, pc'[d] = "claim" PROVE MayClaim(d)'
    BY DEF ClaimsAllowed
  <2>1. CASE d = c BY <2>1 DEF QuietMove
  <2>2. CASE d # c
    <3>1. req'[d] = req[d] /\ pc'[d] = pc[d] /\ turn' = turn BY <2>2 DEF QuietMove
    <3>2. MayClaim(d) BY <3>1 DEF TurnInvariant, ClaimsAllowed
    <3>3. QED BY <3>1, <3>2 DEF MayClaim, Turn
  <2>3. QED BY <2>1, <2>2
<1>4. OneGenerator'
  <2> SUFFICES ASSUME NEW k \in Keys, NEW a \in Callers, NEW b \in Callers,
                      Answering(a, k)', Answering(b, k)'
               PROVE  a = b
    BY DEF OneGenerator
  <2>1. ASSUME NEW d \in Callers, Answering(d, k)' PROVE Answering(d, k)
    BY <2>1 DEF QuietMove, Answering
  <2>2. QED BY <2>1 DEF TurnInvariant, OneGenerator
<1>5. AnsweredOnce'
  BY DEF TurnInvariant, AnsweredOnce, QuietMove
<1>6. QED BY <1>1, <1>2, <1>3, <1>4, <1>5 DEF TurnInvariant

(* A thread that gives up its turn and leaves. *)
LEMMA ReturnFacts ==
  ASSUME TypeOK, NEW c \in Callers, Return(c)
  PROVE  /\ \A d \in Callers \ {c} : req'[d] = req[d] /\ pc'[d] = pc[d]
         /\ ~req'[c].mine
         /\ pc'[c] = "idle"
BY NoRequestType DEF TypeOK, Return

LEMMA ReturnQuiet ==
  ASSUME TypeOK, NEW c \in Callers, Return(c), UNCHANGED <<turn, answers>>
  PROVE  QuietMove(c)
BY ReturnFacts DEF QuietMove, WorkSteps

LEMMA TakeKeeps ==
  ASSUME TurnInvariant, TypeOK', NEW c \in Callers, pc[c] = "claim",
         Unclaimed(c), Fenced(c), Take(c), UNCHANGED <<answers, top, spent, faults>>
  PROVE  TurnInvariant'
<1> DEFINE k == req[c].key
<1>0. k \in Keys /\ turn \in [Keys -> TurnRow]
  BY DEF TurnInvariant, TypeOK, Request
<1>1. MayClaim(c) BY DEF TurnInvariant, ClaimsAllowed
<1>2. \/ turn[k].status = "FAILED"
      \/ turn[k].status = "PENDING" /\ turn[k].stale
  BY <1>1 DEF MayClaim, Unclaimed, Fenced, Turn
<1>3. \A d \in Callers : ~Answering(d, k)
  BY <1>2 DEF TurnInvariant, GeneratorPending, Answering, Turn
<1>4. /\ turn'[k].status = "PENDING" /\ ~turn'[k].stale
      /\ \A j \in Keys \ {k} : turn'[j] = turn[j]
  BY <1>0 DEF Take, TurnRow
<1>5. /\ req'[c].mine /\ req'[c].key = k
      /\ pc'[c] # "claim"
      /\ \A d \in Callers \ {c} : /\ pc'[d] = pc[d]
                                  /\ req'[d].key = req[d].key
                                  /\ req'[d].mine = req[d].mine
                                  /\ req'[d].seen = req[d].seen
                                  /\ req[d].key = k => ~req'[d].known
                                  /\ req[d].key # k => req'[d] = req[d]
  BY DEF Take, Goto, TurnInvariant, TypeOK, Request
<1>6. WorkersAnswer' BY <1>5 DEF TurnInvariant, WorkersAnswer
<1>7. GeneratorPending'
  BY <1>3, <1>4, <1>5 DEF TurnInvariant, GeneratorPending, Answering, Turn, TypeOK, Request
<1>8. ClaimsAllowed'
  <2> SUFFICES ASSUME NEW d \in Callers, pc'[d] = "claim" PROVE MayClaim(d)'
    BY DEF ClaimsAllowed
  <2>1. d # c /\ MayClaim(d) BY <1>5 DEF TurnInvariant, ClaimsAllowed
  <2>2. req[d].key \in Keys BY DEF TurnInvariant, TypeOK, Request
  <2>3. QED BY <1>4, <1>5, <2>1, <2>2 DEF MayClaim, Turn
<1>9. OneGenerator'
  BY <1>3, <1>5 DEF TurnInvariant, OneGenerator, Answering
<1>10. AnsweredOnce'
  BY <1>2, <1>4 DEF TurnInvariant, AnsweredOnce
<1>11. QED BY <1>6, <1>7, <1>8, <1>9, <1>10 DEF TurnInvariant

LEMMA CreateKeeps ==
  ASSUME TurnInvariant, TypeOK', NEW c \in Callers, Insert(c),
         Turn(c).status = "ABSENT"
  PROVE  TurnInvariant'
<1> DEFINE k == req[c].key
<1>0. k \in Keys /\ turn \in [Keys -> TurnRow]
  BY DEF TurnInvariant, TypeOK, Request
<1>1. \A d \in Callers : ~Answering(d, k)
  BY DEF TurnInvariant, GeneratorPending, Answering, Turn
<1>2. /\ turn'[k].status = "PENDING" /\ ~turn'[k].stale
      /\ \A j \in Keys \ {k} : turn'[j] = turn[j]
      /\ answers' = answers
  BY <1>0 DEF Insert
<1>3. /\ req'[c].mine /\ req'[c].key = k /\ pc'[c] = "generate"
      /\ \A d \in Callers \ {c} : pc'[d] = pc[d] /\ req'[d] = req[d]
  BY DEF Insert, Goto, TurnInvariant, TypeOK, Request
<1>4. WorkersAnswer' BY <1>3 DEF TurnInvariant, WorkersAnswer
<1>5. GeneratorPending'
  BY <1>1, <1>2, <1>3 DEF TurnInvariant, GeneratorPending, Answering, Turn, TypeOK, Request
<1>6. ClaimsAllowed'
  <2> SUFFICES ASSUME NEW d \in Callers, pc'[d] = "claim" PROVE MayClaim(d)'
    BY DEF ClaimsAllowed
  <2>1. d # c /\ MayClaim(d) BY <1>3 DEF TurnInvariant, ClaimsAllowed
  <2>2. req[d].key \in Keys BY DEF TurnInvariant, TypeOK, Request
  <2>3. QED BY <1>2, <1>3, <2>1, <2>2 DEF MayClaim, Turn
<1>7. OneGenerator'
  BY <1>1, <1>3 DEF TurnInvariant, OneGenerator, Answering
<1>8. AnsweredOnce'
  BY <1>2 DEF TurnInvariant, AnsweredOnce, Turn
<1>9. QED BY <1>4, <1>5, <1>6, <1>7, <1>8 DEF TurnInvariant

(* The one that answers a turn ends it, and no other touches that turn.    *)
LEMMA EndKeeps ==
  ASSUME TurnInvariant, TypeOK', NEW c \in Callers, pc[c] \in WorkSteps, Return(c),
         NEW s \in {"FAILED", "COMPLETED"},
         turn' = [turn EXCEPT ![req[c].key].status = s],
         answers' = IF s = "COMPLETED"
                    THEN [answers EXCEPT ![req[c].key] = @ + 1] ELSE answers
  PROVE  TurnInvariant'
<1> DEFINE k == req[c].key
<1>0. /\ k \in Keys /\ turn \in [Keys -> TurnRow] /\ answers \in [Keys -> Nat]
  BY DEF TurnInvariant, TypeOK, Request
<1>1. Answering(c, k) /\ turn[k].status = "PENDING" /\ ~turn[k].stale
  BY DEF TurnInvariant, WorkersAnswer, GeneratorPending, Answering, Turn
<1>2. \A d \in Callers \ {c} : ~Answering(d, k)
  BY <1>0, <1>1 DEF TurnInvariant, OneGenerator
<1>3. /\ turn'[k].status = s
      /\ \A j \in Keys \ {k} : turn'[j] = turn[j]
  BY <1>0 DEF TurnRow
<1>4. /\ ~req'[c].mine /\ pc'[c] = "idle"
      /\ \A d \in Callers \ {c} : pc'[d] = pc[d] /\ req'[d] = req[d]
  BY ReturnFacts DEF TurnInvariant
<1>5. WorkersAnswer' BY <1>4 DEF TurnInvariant, WorkersAnswer, WorkSteps
<1>6. GeneratorPending'
  BY <1>2, <1>3, <1>4 DEF TurnInvariant, GeneratorPending, Answering, Turn, TypeOK, Request
<1>7. ClaimsAllowed'
  <2> SUFFICES ASSUME NEW d \in Callers, pc'[d] = "claim" PROVE MayClaim(d)'
    BY DEF ClaimsAllowed
  <2>1. d # c /\ MayClaim(d) BY <1>4 DEF TurnInvariant, ClaimsAllowed
  <2>2. req[d].key \in Keys BY DEF TurnInvariant, TypeOK, Request
  <2>3. CASE req[d].key = k
    <3>1. ~(req[d].seen = "PENDING" /\ req[d].known)
      BY <1>1, <2>1, <2>3 DEF MayClaim, Turn
    <3>2. QED BY <1>4, <2>1, <3>1 DEF MayClaim
  <2>4. CASE req[d].key # k BY <1>3, <1>4, <2>1, <2>2, <2>4 DEF MayClaim, Turn
  <2>5. QED BY <2>3, <2>4
<1>8. OneGenerator'
  BY <1>4 DEF TurnInvariant, OneGenerator, Answering
<1>9. AnsweredOnce'
  <2> SUFFICES ASSUME NEW j \in Keys
               PROVE  answers'[j] = IF turn'[j].status = "COMPLETED" THEN 1 ELSE 0
    BY DEF AnsweredOnce
  <2>1. answers[j] = IF turn[j].status = "COMPLETED" THEN 1 ELSE 0
    BY DEF TurnInvariant, AnsweredOnce
  <2>2. CASE j = k BY <1>0, <1>1, <1>3, <2>1, <2>2
  <2>3. CASE j # k BY <1>0, <1>3, <2>1, <2>3
  <2>4. QED BY <2>2, <2>3
<1>10. QED BY <1>5, <1>6, <1>7, <1>8, <1>9 DEF TurnInvariant

LEMMA ServeKeeps ==
  ASSUME TurnInvariant, NEW c \in Callers, Serve(c)
  PROVE  TurnInvariant'
<1>0. TypeOK /\ TypeOK' BY TypeServe DEF TurnInvariant
<1>1. req[c] \in Request /\ Turn(c) \in TurnRow /\ pc \in [Callers -> Steps]
  BY <1>0 DEF TypeOK, Request, Turn
<1>2. pc[c] \in WorkSteps => req[c].mine
  BY DEF TurnInvariant, WorkersAnswer
<1>3. CASE Look(c)
  <2>1. UNCHANGED <<turn, answers>> BY <1>3 DEF Look
  <2>2. CASE Return(c) BY <1>0, <2>1, <2>2, ReturnQuiet, QuietKeeps
  <2>3. CASE Goto(c, "slot") /\ UNCHANGED <<req, slots>>
    <3>1. QuietMove(c) BY <1>1, <2>1, <2>3 DEF QuietMove, Goto, WorkSteps
    <3>2. QED BY <1>0, <3>1, QuietKeeps
  <2>4. CASE /\ Resumable(Turn(c))
             /\ Goto(c, "claim")
             /\ req' = [req EXCEPT ![c].seen = Turn(c).status, ![c].known = TRUE]
    <3>1. /\ \A d \in Callers \ {c} : req'[d] = req[d] /\ pc'[d] = pc[d]
          /\ req'[c].mine = req[c].mine /\ req'[c].key = req[c].key
          /\ req'[c].seen = Turn(c).status
          /\ pc'[c] = "claim"
      BY <1>0, <1>1, <2>4 DEF Goto, TypeOK, Request
    <3>2. Turn(c)' = Turn(c) BY <2>1, <3>1 DEF Turn
    <3>3. MayClaim(c)' BY <2>4, <3>1, <3>2 DEF MayClaim, Resumable, Turn
    <3>4. QuietMove(c) BY <2>1, <3>1, <3>3 DEF QuietMove, WorkSteps
    <3>5. QED BY <1>0, <3>4, QuietKeeps
  <2>5. QED BY <1>3, <2>2, <2>3, <2>4 DEF Look
<1>4. CASE Claim(c)
  <2>1. CASE Unclaimed(c) /\ Fenced(c) BY <1>0, <1>4, <2>1, TakeKeeps DEF Claim
  <2>2. CASE ~(Unclaimed(c) /\ Fenced(c))
    BY <1>0, <1>4, <2>2, ReturnQuiet, QuietKeeps DEF Claim
  <2>3. QED BY <2>1, <2>2
<1>5. CASE TakeSlot(c)
  <2>1. CASE Return(c) BY <1>0, <1>5, <2>1, ReturnQuiet, QuietKeeps DEF TakeSlot
  <2>2. CASE req' = [req EXCEPT ![c].slot = TRUE] /\ Goto(c, "spend")
    <3>1. QuietMove(c)
      BY <1>0, <1>1, <1>5, <2>2 DEF TakeSlot, QuietMove, Goto, WorkSteps, TypeOK, Request
    <3>2. QED BY <1>0, <3>1, QuietKeeps
  <2>3. QED BY <1>5, <2>1, <2>2 DEF TakeSlot
<1>6. CASE Spend(c)
  <2>1. CASE Return(c) BY <1>0, <1>6, <2>1, ReturnQuiet, QuietKeeps DEF Spend
  <2>2. CASE /\ Goto(c, IF req[c].mine THEN "generate" ELSE "place")
             /\ UNCHANGED req
    <3>1. QuietMove(c)
      BY <1>0, <1>1, <1>6, <2>2 DEF Spend, QuietMove, Goto, WorkSteps, TypeOK
    <3>2. QED BY <1>0, <3>1, QuietKeeps
  <2>3. QED BY <1>6, <2>1, <2>2 DEF Spend
<1>7. CASE PlaceQuestion(c) \/ PlaceAnswer(c)
  <2>1. QuietMove(c)
    <3>1. /\ \A d \in Callers \ {c} : req'[d] = req[d] /\ pc'[d] = pc[d]
          /\ req'[c].mine = req[c].mine /\ req'[c].key = req[c].key
          /\ UNCHANGED <<turn, answers>>
      BY <1>0, <1>7 DEF PlaceQuestion, PlaceAnswer, Place, Goto, TypeOK, Request
    <3>2. CASE pc[c] = "place" /\ pc'[c] = "insert"
      BY <3>1, <3>2 DEF QuietMove, WorkSteps
    <3>3. CASE pc[c] = "placeAnswer" /\ pc'[c] = "persist"
      BY <1>2, <3>1, <3>3 DEF QuietMove, WorkSteps
    <3>4. QED
      BY <1>1, <1>7, <3>2, <3>3 DEF PlaceQuestion, PlaceAnswer, Place, Goto
  <2>2. QED BY <1>0, <2>1, QuietKeeps
<1>8. CASE Insert(c)
  <2>1. CASE Turn(c).status = "ABSENT" BY <1>0, <1>8, <2>1, CreateKeeps
  <2>2. CASE Turn(c).status # "ABSENT"
    <3>1. QuietMove(c)
      BY <1>1, <1>8, <2>2 DEF Insert, QuietMove, Goto, WorkSteps
    <3>2. QED BY <1>0, <3>1, QuietKeeps
  <2>3. QED BY <2>1, <2>2
<1>9. CASE Generate(c) \/ Refund(c)
  <2>1. pc[c] \in WorkSteps BY <1>9 DEF Generate, Refund, WorkSteps
  <2>2. QuietMove(c)
    BY <1>1, <1>2, <1>9, <2>1 DEF Generate, Refund, QuietMove, Goto, WorkSteps
  <2>3. QED BY <1>0, <2>2, QuietKeeps
<1>10. CASE Fail(c)
  BY <1>0, <1>10, EndKeeps DEF Fail, WorkSteps
<1>11. CASE Persist(c)
  BY <1>0, <1>11, EndKeeps DEF Persist, WorkSteps
<1>12. QED
  BY <1>3, <1>4, <1>5, <1>6, <1>7, <1>8, <1>9, <1>10, <1>11 DEF Serve

LEMMA InvariantInit == Init => TurnInvariant
<1> SUFFICES ASSUME Init PROVE TurnInvariant
  OBVIOUS
<1>1. TypeOK BY TypeInit
<1>2. \A c \in Callers : pc[c] = "idle" /\ ~req[c].mine
  BY NoRequestType DEF Init
<1>3. \A k \in Keys : turn[k].status = "ABSENT" /\ answers[k] = 0
  BY DEF Init, NoTurn
<1>4. QED
  BY <1>1, <1>2, <1>3 DEF TurnInvariant, WorkersAnswer, WorkSteps, GeneratorPending,
     ClaimsAllowed, OneGenerator, Answering, AnsweredOnce

(* As long as no turn takes longer than STALE_GENERATION.                  *)
LEMMA InvariantNext ==
  ASSUME ~MayOutlive, TurnInvariant, [Next]_vars
  PROVE  TurnInvariant'
<1>0. TypeOK /\ TypeOK' BY TypeNext DEF TurnInvariant
<1>1. ASSUME NEW c \in Callers, Ask(c) PROVE TurnInvariant'
  <2>1. /\ \A d \in Callers \ {c} : req'[d] = req[d] /\ pc'[d] = pc[d]
        /\ ~req'[c].mine /\ pc'[c] = "look" /\ UNCHANGED <<turn, answers>>
    BY <1>0, <1>1, NoRequestType DEF Ask, Goto, TypeOK, Request
  <2>2. QuietMove(c) BY <2>1 DEF QuietMove, WorkSteps
  <2>3. QED BY <1>0, <2>2, QuietKeeps
<1>2. ASSUME NEW c \in Callers, Serve(c) PROVE TurnInvariant'
  BY <1>2, ServeKeeps
<1>3. ASSUME NEW p \in Procs, Crash(p) PROVE TurnInvariant'
  <2>1. \A c \in Callers : \/ req'[c] = req[c] /\ pc'[c] = pc[c]
                           \/ ~req'[c].mine /\ pc'[c] = "idle"
    BY <1>3, NoRequestType DEF Crash
  <2>2. UNCHANGED <<turn, answers>> BY <1>3 DEF Crash
  <2>3. WorkersAnswer' BY <2>1 DEF TurnInvariant, WorkersAnswer, WorkSteps
  <2>4. GeneratorPending'
    BY <2>1, <2>2 DEF TurnInvariant, GeneratorPending, Turn
  <2>5. ClaimsAllowed'
    BY <2>1, <2>2 DEF TurnInvariant, ClaimsAllowed, MayClaim, Turn
  <2>6. OneGenerator'
    BY <2>1 DEF TurnInvariant, OneGenerator, Answering
  <2>7. AnsweredOnce' BY <2>2 DEF TurnInvariant, AnsweredOnce
  <2>8. QED BY <1>0, <2>3, <2>4, <2>5, <2>6, <2>7 DEF TurnInvariant
<1>4. ASSUME NEW k \in Keys, Age(k) PROVE TurnInvariant'
  <2>1. \A c \in Callers : ~Answering(c, k) BY <1>4 DEF Age
  <2>2. /\ UNCHANGED <<answers, pc, req>>
        /\ turn[k].status = "PENDING"
        /\ turn'[k].status = "PENDING" /\ turn'[k].stale
        /\ \A j \in Keys \ {k} : turn'[j] = turn[j]
    BY <1>0, <1>4 DEF Age, TypeOK, TurnRow
  <2>3. \A c \in Callers : req[c].key \in Keys BY <1>0 DEF TypeOK, Request
  <2>4. WorkersAnswer' BY <2>2 DEF TurnInvariant, WorkersAnswer
  <2>5. GeneratorPending'
    BY <2>1, <2>2, <2>3 DEF TurnInvariant, GeneratorPending, Answering, Turn
  <2>6. ClaimsAllowed'
    BY <2>2, <2>3 DEF TurnInvariant, ClaimsAllowed, MayClaim, Turn
  <2>7. OneGenerator' BY <2>2 DEF TurnInvariant, OneGenerator, Answering
  <2>8. AnsweredOnce'
    BY <2>2 DEF TurnInvariant, AnsweredOnce
  <2>9. QED BY <1>0, <2>4, <2>5, <2>6, <2>7, <2>8 DEF TurnInvariant
<1>5. CASE NewWindow \/ UNCHANGED vars
  <2>1. UNCHANGED <<turn, answers, pc, req>> BY <1>5 DEF NewWindow, vars
  <2>2. QED
    BY <1>0, <2>1 DEF TurnInvariant, WorkersAnswer, GeneratorPending, ClaimsAllowed,
       MayClaim, OneGenerator, Answering, AnsweredOnce, Turn
<1>6. QED BY <1>1, <1>2, <1>3, <1>4, <1>5 DEF Next

(* One request at a time has the adviser answer a question, however many   *)
(* retry it: the compare-and-swap on status and generation stamp is enough *)
(* as long as no turn outlives STALE_GENERATION.                           *)
THEOREM OneTurnAtATime ==
  ASSUME ~MayOutlive PROVE Spec => []OneGenerator
<1>1. Init /\ [][Next]_vars => []TurnInvariant
  BY InvariantInit, InvariantNext, PTL
<1>2. TurnInvariant => OneGenerator BY DEF TurnInvariant
<1>3. QED BY <1>1, <1>2, PTL DEF Spec

(* A question has exactly one answer once it is completed and none before. *)
THEOREM OneAnswer ==
  ASSUME ~MayOutlive PROVE Spec => []AnsweredOnce
<1>1. Init /\ [][Next]_vars => []TurnInvariant
  BY InvariantInit, InvariantNext, PTL
<1>2. TurnInvariant => AnsweredOnce BY DEF TurnInvariant
<1>3. QED BY <1>1, <1>2, PTL DEF Spec

-----------------------------------------------------------------------------
(* The slots of a process. *)

(* Who may hold a slot: nobody before a request or about to take one; a    *)
(* request that looks again does so at a turn that exists.                 *)
SlotSteps ==
  \A c \in Callers :
    /\ pc[c] \in {"idle", "slot"} => req[c].slot = FALSE
    /\ pc[c] = "look" /\ req[c].slot => Turn(c).status # "ABSENT"

SlotInvariant == TypeOK /\ SlotsReturned /\ SlotSteps

LEMMA HoldersFinite ==
  ASSUME NEW p \in Procs
  PROVE  IsFiniteSet(Holders(p)) /\ IsFiniteSet(Holders(p)')
<1>1. Holders(p) \subseteq Callers /\ Holders(p)' \subseteq Callers
  BY DEF Holders
<1>2. QED BY <1>1, FS_Subset

LEMMA OneFewer ==
  ASSUME NEW S, NEW T, NEW x \in S, IsFiniteSet(S), T = S \ {x}
  PROVE  Cardinality(T) = Cardinality(S) - 1
BY FS_RemoveElement, FS_CardinalityType

LEMMA OneMore ==
  ASSUME NEW S, NEW T, NEW x, x \notin S, IsFiniteSet(S), T = S \union {x}
  PROVE  Cardinality(T) = Cardinality(S) + 1
BY FS_AddElement, FS_CardinalityType

(* A step that moves no slot. *)
LEMMA SlotsUntouched ==
  ASSUME SlotsReturned, slots' = slots,
         \A c \in Callers : req'[c].slot = req[c].slot
  PROVE  SlotsReturned'
BY DEF SlotsReturned, Holders

LEMMA SlotGivenBack ==
  ASSUME SlotInvariant, NEW c \in Callers, Return(c)
  PROVE  SlotsReturned'
<1> DEFINE p == ProcOf[c]
<1>0. TypeOK /\ p \in Procs BY DEF SlotInvariant
<1>1. /\ req'[c].slot = FALSE
      /\ \A d \in Callers \ {c} : req'[d] = req[d]
  BY <1>0 DEF Return, TypeOK, NoRequest
<1>2. CASE ~req[c].slot
  <2>0. req[c].slot = FALSE BY <1>0, <1>2 DEF TypeOK, Request
  <2>1. \A d \in Callers : req'[d].slot = req[d].slot
    BY <1>1, <2>0
  <2>2. slots' = slots BY <1>2 DEF Return
  <2>3. QED BY <2>1, <2>2, SlotsUntouched DEF SlotInvariant
<1>3. CASE req[c].slot
  <2>1. slots' = [slots EXCEPT ![p] = @ + 1] BY <1>3 DEF Return
  <2> SUFFICES ASSUME NEW q \in Procs
               PROVE  slots'[q] + Cardinality(Holders(q)') = Slots
    BY DEF SlotsReturned
  <2>2. /\ slots[q] + Cardinality(Holders(q)) = Slots
        /\ slots[q] \in Nat
    BY <1>0 DEF SlotInvariant, SlotsReturned, TypeOK
  <2>3. CASE q = p
    <3>1. c \in Holders(p) /\ Holders(p)' = Holders(p) \ {c}
      BY <1>1, <1>3 DEF Holders
    <3>2. Cardinality(Holders(p)') = Cardinality(Holders(p)) - 1
      <4>1. IsFiniteSet(Holders(p)) BY <1>0, HoldersFinite
      <4>2. QED BY <3>1, <4>1, OneFewer
    <3>3. Cardinality(Holders(p)) \in Nat
      <4>1. IsFiniteSet(Holders(p)) BY <1>0, HoldersFinite
      <4>2. QED BY <4>1, FS_CardinalityType
    <3>4. slots'[p] = slots[p] + 1 BY <1>0, <2>1 DEF TypeOK
    <3>5. QED BY <2>2, <2>3, <3>2, <3>3, <3>4
  <2>4. CASE q # p
    <3>1. Holders(q)' = Holders(q) BY <1>1, <2>4 DEF Holders
    <3>2. slots'[q] = slots[q] BY <1>0, <2>1, <2>4 DEF TypeOK
    <3>3. QED BY <2>2, <3>1, <3>2
  <2>5. QED BY <2>3, <2>4
<1>4. QED BY <1>2, <1>3

LEMMA SlotTaken ==
  ASSUME SlotInvariant, NEW c \in Callers, TakeSlot(c), ~req[c].slot
  PROVE  SlotsReturned'
<1> DEFINE p == ProcOf[c]
<1>0. TypeOK /\ p \in Procs BY DEF SlotInvariant
<1>1. CASE Return(c) BY <1>1, SlotGivenBack
<1>2. CASE ~Return(c)
  <2>1. /\ slots[p] > 0
        /\ slots' = [slots EXCEPT ![p] = slots[p] - 1]
        /\ req' = [req EXCEPT ![c].slot = TRUE]
    BY <1>2 DEF TakeSlot
  <2>2. /\ req'[c].slot
        /\ \A d \in Callers \ {c} : req'[d] = req[d]
    BY <1>0, <2>1 DEF TypeOK, Request
  <2> SUFFICES ASSUME NEW q \in Procs
               PROVE  slots'[q] + Cardinality(Holders(q)') = Slots
    BY DEF SlotsReturned
  <2>3. /\ slots[q] + Cardinality(Holders(q)) = Slots
        /\ slots[q] \in Nat
    BY <1>0 DEF SlotInvariant, SlotsReturned, TypeOK
  <2>4. CASE q = p
    <3>1. c \notin Holders(p) /\ Holders(p)' = Holders(p) \union {c}
      BY <2>2 DEF Holders
    <3>2. Cardinality(Holders(p)') = Cardinality(Holders(p)) + 1
      <4>1. IsFiniteSet(Holders(p)) BY <1>0, HoldersFinite
      <4>2. QED BY <3>1, <4>1, OneMore
    <3>3. Cardinality(Holders(p)) \in Nat
      <4>1. IsFiniteSet(Holders(p)) BY <1>0, HoldersFinite
      <4>2. QED BY <4>1, FS_CardinalityType
    <3>4. slots'[p] = slots[p] - 1 BY <1>0, <2>1 DEF TypeOK
    <3>5. QED BY <2>3, <2>4, <3>2, <3>3, <3>4
  <2>5. CASE q # p
    <3>1. Holders(q)' = Holders(q) BY <2>2, <2>5 DEF Holders
    <3>2. slots'[q] = slots[q] BY <1>0, <2>1, <2>5 DEF TypeOK
    <3>3. QED BY <2>3, <3>1, <3>2
  <2>6. QED BY <2>4, <2>5
<1>3. QED BY <1>1, <1>2

(* No turn disappears. *)
LEMMA TurnsStay ==
  ASSUME TypeOK, [Next]_vars, NEW k \in Keys, turn[k].status # "ABSENT"
  PROVE  turn'[k].status # "ABSENT"
<1>1. ASSUME NEW c \in Callers, Ask(c) \/ Serve(c)
      PROVE  turn'[k].status # "ABSENT"
  <2>0. req[c].key \in Keys BY DEF TypeOK, Request
  <2>1. CASE UNCHANGED turn BY <2>1
  <2>2. CASE Take(c) BY <2>0, <2>2 DEF Take, TypeOK, TurnRow
  <2>3. CASE Insert(c) BY <2>0, <2>3 DEF Insert, TypeOK, TurnRow
  <2>4. CASE Fail(c) BY <2>0, <2>4 DEF Fail, TypeOK, TurnRow
  <2>5. CASE Persist(c) BY <2>0, <2>5 DEF Persist, TypeOK, TurnRow
  <2>6. CASE Ask(c) \/ Look(c) \/ TakeSlot(c) \/ Spend(c) \/ Generate(c) \/ Refund(c)
    <3>1. CASE Ask(c)
      <4>1. UNCHANGED turn BY <3>1 DEF Ask
      <4>2. QED BY <2>1, <4>1
    <3>2. CASE ~Ask(c)
      <4>1. UNCHANGED turn
        BY <2>6, <3>2 DEF Look, TakeSlot, Spend, Generate, Refund
      <4>2. QED BY <2>1, <4>1
    <3>3. QED BY <3>1, <3>2
  <2>7. CASE PlaceQuestion(c) \/ PlaceAnswer(c)
    BY <2>1, <2>7 DEF PlaceQuestion, PlaceAnswer, Place
  <2>8. CASE Claim(c) BY <2>1, <2>2, <2>8 DEF Claim
  <2>9. QED BY <1>1, <2>3, <2>4, <2>5, <2>6, <2>7, <2>8 DEF Serve
<1>2. ASSUME NEW j \in Keys, Age(j) PROVE turn'[k].status # "ABSENT"
  BY <1>2 DEF Age, TypeOK, TurnRow
<1>3. CASE UNCHANGED turn BY <1>3
<1>4. QED BY <1>1, <1>2, <1>3 DEF Next, Crash, NewWindow, vars

(* A step of a request that leaves the slots alone. *)
KeepsSlots(c) ==
  /\ slots' = slots
  /\ \A d \in Callers : req'[d].slot = req[d].slot
  /\ req'[c].key = req[c].key
  /\ pc'[c] # "idle"
  /\ pc'[c] = "slot" => req[c].slot = FALSE
  /\ pc'[c] = "look" => Turn(c).status # "ABSENT"

LEMMA OthersStay ==
  ASSUME TypeOK, NEW c \in Callers, Serve(c)
  PROVE  \A d \in Callers \ {c} :
           pc'[d] = pc[d] /\ req'[d].slot = req[d].slot /\ req'[d].key = req[d].key
<1> DEFINE Stay == \A d \in Callers \ {c} :
               pc'[d] = pc[d] /\ req'[d].slot = req[d].slot /\ req'[d].key = req[d].key
<1> SUFFICES Stay OBVIOUS
<1>1. CASE Return(c) BY <1>1 DEF Return, TypeOK
<1>2. CASE Take(c) BY <1>2 DEF Take, Goto, TypeOK, Request
<1>3. CASE Look(c) BY <1>1, <1>3 DEF Look, Goto, TypeOK
<1>4. CASE Claim(c) BY <1>1, <1>2, <1>4 DEF Claim
<1>5. CASE TakeSlot(c) BY <1>1, <1>5 DEF TakeSlot, Goto, TypeOK
<1>6. CASE Spend(c) \/ Generate(c) \/ Refund(c)
  BY <1>1, <1>6 DEF Spend, Generate, Refund, Goto, TypeOK
<1>7. CASE PlaceQuestion(c) \/ PlaceAnswer(c)
  BY <1>7 DEF PlaceQuestion, PlaceAnswer, Place, Goto, TypeOK
<1>8. CASE Insert(c) BY <1>8 DEF Insert, Goto, TypeOK
<1>9. CASE Fail(c) \/ Persist(c) BY <1>1, <1>9 DEF Fail, Persist
<1>10. QED
  BY <1>3, <1>4, <1>5, <1>6, <1>7, <1>8, <1>9 DEF Serve

LEMMA ServeSlots ==
  ASSUME SlotInvariant, NEW c \in Callers, Serve(c)
  PROVE  Return(c) \/ TakeSlot(c) \/ KeepsSlots(c)
<1>0. TypeOK /\ SlotSteps BY DEF SlotInvariant
<1>1. \A d \in Callers \ {c} : req'[d].slot = req[d].slot BY <1>0, OthersStay
<1>2. pc[c] \in Steps /\ req[c] \in Request BY <1>0 DEF TypeOK
<1>3. CASE Look(c) /\ ~Return(c)
  BY <1>0, <1>1, <1>3
  DEF Look, KeepsSlots, SlotSteps, Goto, TypeOK, Request
<1>4. CASE Take(c)
  BY <1>0, <1>1, <1>2, <1>4 DEF Take, KeepsSlots, Goto, TypeOK, Request
<1>5. CASE (Spend(c) \/ Generate(c) \/ Refund(c)) /\ ~Return(c)
  BY <1>0, <1>1, <1>5 DEF Spend, Generate, Refund, KeepsSlots, Goto, TypeOK
<1>6. CASE PlaceQuestion(c) \/ PlaceAnswer(c)
  BY <1>0, <1>1, <1>6
  DEF PlaceQuestion, PlaceAnswer, Place, KeepsSlots, Goto, TypeOK, Request
<1>7. CASE Insert(c)
  BY <1>0, <1>1, <1>7 DEF Insert, KeepsSlots, Goto, TypeOK, Request
<1>8. QED
  BY <1>3, <1>4, <1>5, <1>6, <1>7 DEF Serve, Claim, Fail, Persist

LEMMA SlotInit == Init => SlotInvariant
<1> SUFFICES ASSUME Init PROVE SlotInvariant
  OBVIOUS
<1>1. TypeOK BY TypeInit
<1>2. \A c \in Callers : req[c].slot = FALSE BY DEF Init, NoRequest
<1>3. \A p \in Procs : Holders(p) = {} /\ slots[p] = Slots
  BY <1>2 DEF Init, Holders
<1>4. SlotsReturned
  <2> SUFFICES ASSUME NEW p \in Procs
               PROVE  slots[p] + Cardinality(Holders(p)) = Slots
    BY DEF SlotsReturned
  <2>1. Cardinality({}) = 0 BY FS_EmptySet
  <2>2. QED BY <1>3, <2>1
<1>5. SlotSteps BY <1>2 DEF SlotSteps
<1>6. QED BY <1>1, <1>4, <1>5 DEF SlotInvariant

LEMMA SlotNext ==
  ASSUME SlotInvariant, [Next]_vars
  PROVE  SlotInvariant'
<1>0. TypeOK /\ TypeOK' /\ SlotSteps /\ SlotsReturned
  BY TypeNext DEF SlotInvariant
<1>1. \A c \in Callers : Turn(c).status # "ABSENT" /\ req'[c].key = req[c].key
                         => (Turn(c).status # "ABSENT")'
  <2>1. \A c \in Callers : req[c].key \in Keys BY <1>0 DEF TypeOK, Request
  <2>2. QED BY <1>0, <2>1, TurnsStay DEF Turn
<1>2. ASSUME NEW c \in Callers, Ask(c) PROVE SlotsReturned' /\ SlotSteps'
  <2>1. /\ slots' = slots
        /\ req'[c].slot = FALSE /\ pc'[c] = "look" /\ req[c].slot = FALSE
    BY <1>0, <1>2 DEF Ask, Goto, TypeOK, NoRequest, SlotSteps
  <2>2. \A d \in Callers \ {c} : pc'[d] = pc[d] /\ req'[d] = req[d]
    BY <1>0, <1>2, NoRequestType DEF Ask, Goto, TypeOK, Request
  <2>3. \A d \in Callers : req'[d].slot = req[d].slot BY <2>1, <2>2
  <2>4. SlotsReturned' BY <1>0, <2>1, <2>3, SlotsUntouched
  <2>5. SlotSteps' BY <1>0, <1>1, <2>1, <2>2 DEF SlotSteps
  <2>6. QED BY <2>4, <2>5
<1>3. ASSUME NEW c \in Callers, Serve(c) PROVE SlotsReturned' /\ SlotSteps'
  <2>1. \A d \in Callers \ {c} :
          pc'[d] = pc[d] /\ req'[d].slot = req[d].slot /\ req'[d].key = req[d].key
    BY <1>0, <1>3, OthersStay
  <2>2. CASE Return(c)
    <3>1. SlotsReturned' BY <2>2, SlotGivenBack
    <3>2. pc'[c] = "idle" /\ req'[c].slot = FALSE
      BY <1>0, <2>2 DEF Return, TypeOK, NoRequest
    <3>3. SlotSteps' BY <1>0, <1>1, <2>1, <3>2 DEF SlotSteps
    <3>4. QED BY <3>1, <3>3
  <2>3. CASE TakeSlot(c) /\ ~Return(c)
    <3>1. SlotsReturned' BY <1>0, <2>3, SlotTaken DEF SlotSteps, TakeSlot
    <3>2. pc'[c] = "spend" BY <1>0, <2>3 DEF TakeSlot, Goto, TypeOK
    <3>3. SlotSteps' BY <1>0, <1>1, <2>1, <3>2 DEF SlotSteps
    <3>4. QED BY <3>1, <3>3
  <2>4. CASE KeepsSlots(c)
    <3>1. SlotsReturned' BY <1>0, <2>4, SlotsUntouched DEF KeepsSlots
    <3>2. SlotSteps' BY <1>0, <1>1, <2>1, <2>4 DEF SlotSteps, KeepsSlots
    <3>3. QED BY <3>1, <3>2
  <2>5. QED BY <1>3, <2>2, <2>3, <2>4, ServeSlots
<1>4. ASSUME NEW p \in Procs, Crash(p) PROVE SlotsReturned' /\ SlotSteps'
  <2>1. \A c \in Callers :
          IF ProcOf[c] = p THEN pc'[c] = "idle" /\ req'[c].slot = FALSE
                           ELSE pc'[c] = pc[c] /\ req'[c] = req[c]
    BY <1>4 DEF Crash, NoRequest
  <2>2. SlotSteps' BY <1>0, <1>1, <2>1 DEF SlotSteps
  <2>3. ASSUME NEW q \in Procs
        PROVE  slots'[q] + Cardinality(Holders(q)') = Slots
    <3>1. CASE q = p
      <4>1. Holders(q)' = {} BY <2>1, <3>1 DEF Holders
      <4>2. slots'[q] = Slots BY <1>0, <1>4, <3>1 DEF Crash, TypeOK
      <4>3. Cardinality({}) = 0 BY FS_EmptySet
      <4>4. QED BY <4>1, <4>2, <4>3
    <3>2. CASE q # p
      <4>1. Holders(q)' = Holders(q) BY <2>1, <3>2 DEF Holders
      <4>2. slots'[q] = slots[q] BY <1>0, <1>4, <3>2 DEF Crash, TypeOK
      <4>3. QED BY <1>0, <4>1, <4>2 DEF SlotsReturned
    <3>3. QED BY <3>1, <3>2
  <2>4. QED BY <2>2, <2>3 DEF SlotsReturned
<1>5. ASSUME UNCHANGED <<slots, pc, req>> PROVE SlotsReturned' /\ SlotSteps'
  <2>1. SlotsReturned' BY <1>0, <1>5, SlotsUntouched
  <2>2. SlotSteps' BY <1>0, <1>1, <1>5 DEF SlotSteps
  <2>3. QED BY <2>1, <2>2
<1>6. SlotsReturned' /\ SlotSteps'
  BY <1>2, <1>3, <1>4, <1>5 DEF Next, Age, NewWindow, vars
<1>7. QED BY <1>0, <1>6 DEF SlotInvariant

(* No generation slot is lost and none given back twice: a process can     *)
(* always serve as many questions as it has slots, whatever its requests   *)
(* meet (the finally of run_advisor_turn).                                 *)
THEOREM SlotsNeverLost == Spec => []SlotsReturned
<1>1. Init /\ [][Next]_vars => []SlotInvariant BY SlotInit, SlotNext, PTL
<1>2. SlotInvariant => SlotsReturned BY DEF SlotInvariant
<1>3. QED BY <1>1, <1>2, PTL DEF Spec
=============================================================================
