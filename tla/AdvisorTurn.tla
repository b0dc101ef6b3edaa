----------------------------- MODULE AdvisorTurn -----------------------------
(***************************************************************************)
(* One conversation with the adviser (core/services/advisor_turn.py): the  *)
(* requests that ask its questions, from the web process and from the      *)
(* Telegram worker, and the rows they share.  A question is known by the   *)
(* idempotency key of its turn; a retry sends the key again.  Every step   *)
(* is one statement or transaction, one call to the adviser, or one look   *)
(* at the process's generation slots.                                      *)
(*                                                                         *)
(* A request without a key behaves as one whose key nobody else uses.  The *)
(* text of a question and the channel's profile, which must both be those  *)
(* the turn was created with, are one value.                               *)
(***************************************************************************)
EXTENDS Naturals, FiniteSets

CONSTANTS
  Callers,     \* threads that run advisor turns
  Procs,       \* processes: the web instance, the Telegram worker
  ProcOf,      \* the process of each thread
  Keys,        \* idempotency keys
  Questions,   \* what may be asked under a key
  Slots,       \* generation slots of a process
  Budget,      \* questions a student may ask in one window
  MayOutlive,  \* a turn may take longer than STALE_GENERATION
  MaxFaults    \* bound on crashes and on turns that take too long

ASSUME CallersAssumption == IsFiniteSet(Callers) /\ ProcOf \in [Callers -> Procs]
ASSUME KeysAssumption    == Keys # {} /\ Questions # {}
ASSUME LimitsAssumption  == /\ Slots \in Nat \ {0}
                            /\ Budget \in Nat \ {0}
                            /\ MayOutlive \in BOOLEAN
                            /\ MaxFaults \in Nat

VARIABLES
  turn,     \* the student's message of each key
  answers,  \* assistant messages that reply to it
  top,      \* the highest position of the conversation
  spent,    \* questions counted in the student's current window
  slots,    \* free generation slots of each process
  pc,       \* where each thread is in run_advisor_turn
  req,      \* its local variables
  faults    \* crashes and overlong turns so far

vars == <<turn, answers, top, spent, slots, pc, req, faults>>

Statuses == {"ABSENT", "PENDING", "COMPLETED", "FAILED"}
NoTurn   == [status |-> "ABSENT", asked |-> CHOOSE q \in Questions : TRUE,
             stale |-> FALSE]

(* `seen` is the status in the thread's copy of the turn, `known` whether  *)
(* the generation_started_at in that copy is still the row's, `mine`       *)
(* whether the thread has created or claimed the turn it answers.          *)
NoRequest == [key |-> CHOOSE k \in Keys : TRUE,
              question |-> CHOOSE q \in Questions : TRUE,
              seen |-> "ABSENT", known |-> FALSE, mine |-> FALSE,
              slot |-> FALSE, at |-> 0]

Turn(c) == turn[req[c].key]

(* Mutant: a turn that is not being answered now is answered. *)
ResumableUnlessFresh(t) == t.status = "PENDING" => t.stale

(* Mutant: only a turn that said it failed may be asked again. *)
ResumableOnlyFailed(t) == t.status = "FAILED"

Resumable(t) == t.status = "FAILED" \/ (t.status = "PENDING" /\ t.stale)

Goto(c, step) == pc' = [pc EXCEPT ![c] = step]

(* The request is answered and its slot given back: the `finally`. *)
Return(c) ==
  /\ pc'  = [pc EXCEPT ![c] = "idle"]
  /\ req' = [req EXCEPT ![c] = NoRequest]
  /\ slots' = IF req[c].slot THEN [slots EXCEPT ![ProcOf[c]] = @ + 1] ELSE slots

Ask(c) ==
  /\ pc[c] = "idle"
  /\ \E k \in Keys, q \in Questions :
       req' = [req EXCEPT ![c] = [NoRequest EXCEPT !.key = k, !.question = q]]
  /\ Goto(c, "look")
  /\ UNCHANGED <<turn, answers, top, spent, slots, faults>>

(* A key that was used before is refused, replayed or resumed. *)
Look(c) ==
  /\ pc[c] = "look"
  /\ IF Turn(c).status = "ABSENT"
     THEN Goto(c, "slot") /\ UNCHANGED <<req, slots>>
     ELSE IF Turn(c).asked = req[c].question /\ Resumable(Turn(c))
     THEN /\ Goto(c, "claim")
          /\ req' = [req EXCEPT ![c].seen = Turn(c).status, ![c].known = TRUE]
          /\ UNCHANGED slots
     ELSE Return(c)
  /\ UNCHANGED <<turn, answers, top, spent, faults>>

Unclaimed(c) == Turn(c).status = req[c].seen

Fenced(c) == req[c].seen = "PENDING" => req[c].known

(* The row is taken, and every copy of it that others hold is outdated. *)
Take(c) ==
  /\ turn' = [turn EXCEPT ![req[c].key].status = "PENDING",
                          ![req[c].key].stale  = FALSE]
  /\ req'  = [d \in Callers |->
                IF d = c THEN [req[c] EXCEPT !.mine = TRUE]
                ELSE IF req[d].key = req[c].key THEN [req[d] EXCEPT !.known = FALSE]
                ELSE req[d]]
  /\ Goto(c, IF req[c].slot THEN "generate" ELSE "slot")
  /\ UNCHANGED slots

(* Mutant: the status alone is compared. *)
ClaimByStatus(c) ==
  /\ pc[c] = "claim"
  /\ IF Unclaimed(c) THEN Take(c) ELSE Return(c) /\ UNCHANGED turn
  /\ UNCHANGED <<answers, top, spent, faults>>

(* One conditional UPDATE; whoever loses it replays. *)
Claim(c) ==
  /\ pc[c] = "claim"
  /\ IF Unclaimed(c) /\ Fenced(c) THEN Take(c) ELSE Return(c) /\ UNCHANGED turn
  /\ UNCHANGED <<answers, top, spent, faults>>

(* The slot comes first, then the charge; AdviserBusy when there is none. *)
TakeSlot(c) ==
  /\ pc[c] = "slot"
  /\ IF slots[ProcOf[c]] > 0
     THEN /\ slots' = [slots EXCEPT ![ProcOf[c]] = @ - 1]
          /\ req' = [req EXCEPT ![c].slot = TRUE]
          /\ Goto(c, "spend")
     ELSE Return(c)
  /\ UNCHANGED <<turn, answers, top, spent, faults>>

(* Mutant: the early return of a refused question is outside the try. *)
SpendKeepsSlot(c) ==
  /\ pc[c] = "spend"
  /\ IF spent < Budget
     THEN /\ spent' = spent + 1
          /\ Goto(c, IF req[c].mine THEN "generate" ELSE "place")
          /\ UNCHANGED req
     ELSE /\ Goto(c, "idle")
          /\ req' = [req EXCEPT ![c] = NoRequest]
          /\ UNCHANGED spent
  /\ UNCHANGED <<turn, answers, top, slots, faults>>

Spend(c) ==
  /\ pc[c] = "spend"
  /\ IF spent < Budget
     THEN /\ spent' = spent + 1
          /\ Goto(c, IF req[c].mine THEN "generate" ELSE "place")
          /\ UNCHANGED <<req, slots>>
     ELSE Return(c) /\ UNCHANGED spent
  /\ UNCHANGED <<turn, answers, top, faults>>

NewWindow ==
  /\ spent > 0
  /\ spent' = 0
  /\ UNCHANGED <<turn, answers, top, slots, pc, req, faults>>

-----------------------------------------------------------------------------
(* AdvisorMessage.save computes the position of a new message from the     *)
(* highest one it can see, and then inserts.                               *)

Place(c, from, to) ==
  /\ pc[c] = from
  /\ req' = [req EXCEPT ![c].at = top + 1]
  /\ Goto(c, to)
  /\ UNCHANGED <<turn, answers, top, spent, slots, faults>>

Placed(c) == top' = IF req[c].at > top THEN req[c].at ELSE top

PlaceQuestion(c) == Place(c, "place", "insert")

(* The unique index refuses a second turn of one key. *)
Insert(c) ==
  /\ pc[c] = "insert"
  /\ IF Turn(c).status = "ABSENT"
     THEN /\ turn' = [turn EXCEPT ![req[c].key] =
                        [status |-> "PENDING", asked |-> req[c].question,
                         stale |-> FALSE]]
          /\ req' = [req EXCEPT ![c].mine = TRUE]
          /\ Placed(c)
          /\ Goto(c, "generate")
     ELSE Goto(c, "look") /\ UNCHANGED <<turn, req, top>>
  /\ UNCHANGED <<answers, spent, slots, faults>>

(* The adviser answers; or fails, for the student's account when neither   *)
(* the provider nor the student's record was there.                        *)
Generate(c) ==
  /\ pc[c] = "generate"
  /\ \E step \in {"placeAnswer", "refund", "fail"} : Goto(c, step)
  /\ UNCHANGED <<turn, answers, top, spent, slots, req, faults>>

(* Mutant: a charge of a window that has ended is given back all the same. *)
RefundEver(c) ==
  /\ pc[c] = "refund"
  /\ spent' = spent - 1
  /\ Goto(c, "fail")
  /\ UNCHANGED <<turn, answers, top, slots, req, faults>>

Refund(c) ==
  /\ pc[c] = "refund"
  /\ spent' = IF spent > 0 THEN spent - 1 ELSE spent
  /\ Goto(c, "fail")
  /\ UNCHANGED <<turn, answers, top, slots, req, faults>>

Fail(c) ==
  /\ pc[c] = "fail"
  /\ turn' = [turn EXCEPT ![req[c].key].status = "FAILED"]
  /\ Return(c)
  /\ UNCHANGED <<answers, top, spent, faults>>

PlaceAnswer(c) == Place(c, "placeAnswer", "persist")

(* persist_answer: the answer and the end of the turn commit together. *)
Persist(c) ==
  /\ pc[c] = "persist"
  /\ answers' = [answers EXCEPT ![req[c].key] = @ + 1]
  /\ turn' = [turn EXCEPT ![req[c].key].status = "COMPLETED"]
  /\ Placed(c)
  /\ Return(c)
  /\ UNCHANGED <<spent, faults>>

-----------------------------------------------------------------------------
(* A process dies with the requests it was serving. *)
Crash(p) ==
  /\ faults < MaxFaults
  /\ faults' = faults + 1
  /\ pc'  = [c \in Callers |-> IF ProcOf[c] = p THEN "idle" ELSE pc[c]]
  /\ req' = [c \in Callers |-> IF ProcOf[c] = p THEN NoRequest ELSE req[c]]
  /\ slots' = [slots EXCEPT ![p] = Slots]
  /\ UNCHANGED <<turn, answers, top, spent>>

Answering(c, k) == req[c].mine /\ req[c].key = k

(* STALE_GENERATION outlives the longest turn, so it passes over a living  *)
(* one only where MayOutlive says so.                                      *)
Age(k) ==
  /\ turn[k].status = "PENDING"
  /\ ~turn[k].stale
  /\ IF \E c \in Callers : Answering(c, k)
     THEN MayOutlive /\ faults < MaxFaults /\ faults' = faults + 1
     ELSE UNCHANGED faults
  /\ turn' = [turn EXCEPT ![k].stale = TRUE]
  /\ UNCHANGED <<answers, top, spent, slots, pc, req>>

Init ==
  /\ turn    = [k \in Keys |-> NoTurn]
  /\ answers = [k \in Keys |-> 0]
  /\ top     = 0
  /\ spent   = 0
  /\ slots   = [p \in Procs |-> Slots]
  /\ pc      = [c \in Callers |-> "idle"]
  /\ req     = [c \in Callers |-> NoRequest]
  /\ faults  = 0

(* What a thread does once it has a request. *)
Serve(c) == \/ Look(c) \/ Claim(c) \/ TakeSlot(c) \/ Spend(c)
            \/ PlaceQuestion(c) \/ Insert(c) \/ Generate(c) \/ Refund(c)
            \/ Fail(c) \/ PlaceAnswer(c) \/ Persist(c)

Next == \/ \E c \in Callers : Ask(c) \/ Serve(c)
        \/ \E p \in Procs : Crash(p)
        \/ \E k \in Keys : Age(k)
        \/ NewWindow

(* A thread finishes what it is asked to do, and time passes; nobody has   *)
(* to ask, or to ask again.                                                *)
Fairness == /\ \A c \in Callers : WF_vars(Serve(c))
            /\ \A k \in Keys : WF_vars(Age(k))

Spec == Init /\ [][Next]_vars /\ Fairness
=============================================================================
