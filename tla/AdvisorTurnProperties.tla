------------------------ MODULE AdvisorTurnProperties ------------------------
(* What a conversation with the adviser must and must not do. *)
EXTENDS AdvisorTurn, Functions

Steps == {"idle", "look", "claim", "slot", "spend", "place", "insert",
          "generate", "refund", "fail", "placeAnswer", "persist"}

TurnRow == [status: Statuses, asked: Questions, stale: BOOLEAN]
Request == [key: Keys, question: Questions, seen: Statuses, known: BOOLEAN,
            mine: BOOLEAN, slot: BOOLEAN, at: Nat]

(* Every variable keeps its type. *)
TypeOK ==
  /\ turn    \in [Keys -> TurnRow]
  /\ answers \in [Keys -> Nat]
  /\ top     \in Nat
  /\ spent   \in Nat
  /\ slots   \in [Procs -> Nat]
  /\ pc      \in [Callers -> Steps]
  /\ req     \in [Callers -> Request]
  /\ faults  \in Nat

(* However often a question is retried, from however many tabs and chats,  *)
(* one request at a time has the adviser answer it (the compare-and-swap   *)
(* of _resume_or_replay, the unique index behind the first send).          *)
OneGenerator ==
  \A k \in Keys : \A c, d \in Callers :
    Answering(c, k) /\ Answering(d, k) => c = d

(* A question has one answer when its turn is completed and none before;   *)
(* no late failure reopens it and no crash loses it (persist_answer).      *)
AnsweredOnce ==
  \A k \in Keys : answers[k] = IF turn[k].status = "COMPLETED" THEN 1 ELSE 0

Holders(p) == {c \in Callers : ProcOf[c] = p /\ req[c].slot}

(* A generation slot is free or in the hands of a living request: every    *)
(* way out of run_advisor_turn gives it back, once.                        *)
SlotsReturned == \A p \in Procs : slots[p] + Cardinality(Holders(p)) = Slots

(* No question is left unanswerable: one that was accepted is answered, or *)
(* it may be asked again (is_resumable: a killed worker leaves PENDING     *)
(* behind, and nothing else will ever move it on).                         *)
NeverStuck ==
  \A k \in Keys : turn[k].status = "PENDING"
                  ~> turn[k].status = "COMPLETED" \/ Resumable(turn[k])

(* "A pending turn is still being generated" (_resume_or_replay): while no *)
(* process has died, a turn that is pending and not yet stale has a        *)
(* request that works on its answer.                                       *)
PendingIsGenerated ==
  \A k \in Keys : turn[k].status = "PENDING" /\ ~turn[k].stale /\ faults = 0
                  => \E c \in Callers : Answering(c, k)

Asked   == {k \in Keys : turn[k].status # "ABSENT"}
Replies == FoldFunction(+, 0, answers)

(* "sequence: the only field guaranteed to increase within a conversation" *)
(* (AdvisorMessage.Meta): every message that is stored takes a position of *)
(* its own, so the highest position is the number of messages.             *)
PositionsDistinct == top = Cardinality(Asked) + Replies
=============================================================================
