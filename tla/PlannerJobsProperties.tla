------------------------- MODULE PlannerJobsProperties -------------------------
(* What the planner's jobs owe to the edits made by hand, and to Cancel. *)
EXTENDS PlannerJobs

Steps    == {"none", "pooled", "entering", "claimed", "checking", "working",
             "finalising", "done", "dead"}
Marked   == [Resources -> SUBSET Jobs]
Edited   == [Resources -> SUBSET Editors]
Request  == [pc: {"idle", "locking", "inside", "writing", "done"}, at: Scenarios,
             scope: SUBSET Scenarios]
Row      == [status: {"none", "queued", "running", "succeeded", "failed", "cancelled"},
             cancel: BOOLEAN, stale: BOOLEAN, at: Scenarios,
             owned: SUBSET Scenarios, section: BOOLEAN]
Worker   == [pc: Steps,
             base: [taken: BOOLEAN, holds: SUBSET Scenarios, edits: Edited, marks: Marked],
             outcome: {"none", "cancelled", "failure"}]

(* Every variable keeps its type. *)
TypeOK ==
  /\ holds    \subseteq Scenarios
  /\ edits    \in Edited
  /\ marks    \in Marked
  /\ accepted \in Edited
  /\ lock     \in [Scenarios -> Actors \union {Nobody}]
  /\ req      \in [Actors -> Request]
  /\ row      \in [Jobs -> Row]
  /\ work     \in [Jobs -> Worker]
  /\ sweep    \subseteq Jobs
  /\ proc     \in {"up", "exiting", "down"}
  /\ faults   \in Nat

(* A manual edit that was answered with ok stays on its board and in the   *)
(* meetings of the shared section: no job that read the board before it    *)
(* writes or restores over it (scenario_write_scope, conflicting_planner_  *)
(* job, the persisted ownership, _EXECUTING_JOBS).                         *)
EditsSurvive == \A r \in Resources : accepted[r] \subseteq edits[r]

(* A job that says it was cancelled has left nothing behind, on its own    *)
(* boards or in the meetings others share (restore_planner_job).           *)
CancelRestores ==
  \A j \in Jobs : row[j].status = "cancelled" => \A r \in Resources : j \notin marks[r]

(* "A caller cannot acknowledge a cancel after success has already         *)
(* committed" (cancel_planner_job): nor does a success follow one.         *)
CancelHonoured == \A j \in Jobs : row[j].cancel => row[j].status # "succeeded"

(* Every job ends, in a live instance by its worker and else by a          *)
(* reconciliation, so a scenario is not owned for ever.                    *)
PlannerEnds == \A j \in Jobs : Active(j) ~> ~Active(j)

(* Every edit and submission is answered: the locks are taken in one order *)
(* and a changed scope is not read again for ever.                         *)
WritersAnswered == \A a \in Actors : req[a].pc # "idle" ~> req[a].pc \in {"idle", "done"}
=============================================================================
