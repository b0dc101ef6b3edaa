------------------------------- MODULE ExamLane -------------------------------
(***************************************************************************)
(* What the exam page promises of its background actions (the docstring of *)
(* ExamTimetableJob, core/models.py): one action is open at a time, across *)
(* all instances; it closes once; it saves at most one timetable, and none *)
(* once its Stop was accepted or the job was given up.                     *)
(***************************************************************************)
CONSTANT Jobs

VARIABLES
  state,    \* of each action: none, open, saved, or closed without a timetable
  stopped   \* actions whose Stop was accepted

vars == <<state, stopped>>

Init ==
  /\ state   = [j \in Jobs |-> "none"]
  /\ stopped = {}

Submit(j) ==
  /\ state[j] = "none"
  /\ \A k \in Jobs : state[k] # "open"
  /\ state' = [state EXCEPT ![j] = "open"]
  /\ UNCHANGED stopped

(* An action that has not begun is closed by its Stop; one that has stays  *)
(* open until it notices.                                                  *)
Stop(j) ==
  /\ state[j] = "open"
  /\ stopped' = stopped \union {j}
  /\ state' \in {state, [state EXCEPT ![j] = "closed"]}

Save(j) ==
  /\ state[j] = "open"
  /\ j \notin stopped
  /\ state' = [state EXCEPT ![j] = "saved"]
  /\ UNCHANGED stopped

Close(j) ==
  /\ state[j] = "open"
  /\ state' = [state EXCEPT ![j] = "closed"]
  /\ UNCHANGED stopped

Next == \E j \in Jobs : Submit(j) \/ Stop(j) \/ Save(j) \/ Close(j)

Spec == Init /\ [][Next]_vars
=============================================================================
