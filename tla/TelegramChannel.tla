--------------------------- MODULE TelegramChannel ---------------------------
(***************************************************************************)
(* What the durable queue promises a linked chat, with no word of leases,  *)
(* cursors, budgets or processes: updates of one chat are answered one at  *)
(* a time and in order; the items of an answer arrive in order; an update  *)
(* counts as answered only when all of them have arrived; and once access  *)
(* is closed no new answer is begun and at most one item still slips out.  *)
(***************************************************************************)
EXTENDS Naturals

CONSTANTS
  Jobs,    \* update ids
  Links,   \* linked chats
  LinkOf,  \* the chat of each update
  Sizes    \* how many items of text an answer may have

VARIABLES
  stage,   \* "absent", "waiting", "working", "answered" or "dropped"
  open,    \* the link still authorises its chat
  size,    \* items of the answer of each update, 0 until there is one
  heard,   \* items of that answer that have arrived
  late     \* items that arrived on a closed link

vars == <<stage, open, size, heard, late>>

Pending(j)  == stage[j] \in {"waiting", "working"}
Siblings(j) == {k \in Jobs : LinkOf[k] = LinkOf[j]} \ {j}

Init ==
  /\ stage = [j \in Jobs |-> "absent"]
  /\ open  = [l \in Links |-> TRUE]
  /\ size  = [j \in Jobs |-> 0]
  /\ heard = [j \in Jobs |-> 0]
  /\ late  = [l \in Links |-> 0]

Move(J, to) ==
  /\ stage' = [j \in Jobs |-> IF j \in J THEN to ELSE stage[j]]
  /\ UNCHANGED <<open, size, heard, late>>

Accept(j) ==
  /\ stage[j] = "absent"
  /\ open[LinkOf[j]]
  /\ \A k \in Jobs : k > j => stage[k] = "absent"
  /\ Move({j}, "waiting")

(* The oldest update of the chat, and no other, is worked on. *)
Start(j) ==
  /\ stage[j] = "waiting"
  /\ open[LinkOf[j]]
  /\ \A k \in Siblings(j) : stage[k] # "working" /\ (k < j => ~Pending(k))
  /\ Move({j}, "working")

PutBack(j) == stage[j] = "working" /\ Move({j}, "waiting")

(* An update is dropped when it cannot be answered, and every pending one  *)
(* of the closed chats when they are swept.                                *)
Drop(j) == Pending(j) /\ Move({j}, "dropped")

DropClosed == Move({j \in Jobs : Pending(j) /\ ~open[LinkOf[j]]}, "dropped")

Close(l) ==
  /\ open[l]
  /\ open' = [open EXCEPT ![l] = FALSE]
  /\ UNCHANGED <<stage, size, heard, late>>

Prepare(j) ==
  /\ stage[j] = "working"
  /\ size[j] = 0
  /\ \E n \in Sizes : size' = [size EXCEPT ![j] = n]
  /\ UNCHANGED <<stage, open, heard, late>>

(* The next item of the text, or one that is not required: a picture, or   *)
(* the same item again.                                                    *)
Arrive(j) ==
  /\ size[j] > 0
  /\ \/ heard[j] < size[j] /\ heard' = [heard EXCEPT ![j] = @ + 1]
     \/ UNCHANGED heard
  /\ IF open[LinkOf[j]]
     THEN stage[j] = "working" /\ UNCHANGED late
     ELSE /\ stage[j] \in {"working", "dropped"}
          /\ late[LinkOf[j]] = 0
          /\ late' = [late EXCEPT ![LinkOf[j]] = 1]
  /\ UNCHANGED <<stage, open, size>>

(* A blank answer is answered with nothing, where answers may be blank.    *)
Answer(j) ==
  /\ stage[j] = "working"
  /\ size[j] > 0 \/ 0 \in Sizes
  /\ heard[j] = size[j]
  /\ Move({j}, "answered")

Next == \/ \E j \in Jobs : \/ Accept(j) \/ Start(j) \/ PutBack(j) \/ Drop(j)
                           \/ Prepare(j) \/ Arrive(j) \/ Answer(j)
        \/ DropClosed
        \/ \E l \in Links : Close(l)

Spec == Init /\ [][Next]_vars
=============================================================================
