-------------------------- MODULE ExamJobsProperties --------------------------
(* What a background action of the exam page must and must not do. *)
EXTENDS ExamJobs

Statuses == {"none", "queued", "running", "succeeded", "failed", "cancelled"}
Row      == [status: Statuses, cancel: BOOLEAN, silent: BOOLEAN, overdue: BOOLEAN]
InSlot   == {"acquired", "claiming", "unstarted", "working", "saving", "answered",
             "errored", "leaving", "unnamed"}
Steps    == InSlot \union Away \union {"new", "waiting", "gaveup", "ending"}
Thread   == [pc: Steps, stop: BOOLEAN, goal: {"none", "cancelled", "failed"}]
Found    == [job: Jobs, status: {"queued", "running"}]

(* Every variable keeps its type; in particular no way out of a wait or of *)
(* the slot gives _SOLVER, a BoundedSemaphore(1), a second permit.         *)
TypeOK ==
  /\ sem    \in [Procs -> {0, 1}]
  /\ shown  \in [Procs -> Holders]
  /\ row    \in [Jobs -> Row]
  /\ runs   \subseteq Jobs
  /\ req    \in [Jobs -> {"idle", "creating", "dispatching", "failing", "done", "dead"}]
  /\ home   \in [Jobs -> Procs]
  /\ thread \in [Jobs -> Thread]
  /\ found  \subseteq Found
  /\ proc   \in [Procs -> {"up", "exiting", "down"}]
  /\ guest  \in [at: Procs, pc: {"away", "acquired", "inside", "unnamed"}]
  /\ faults \in Nat

(* A job that has a saved timetable says that it succeeded, and goes on    *)
(* saying it: no error after the commit, no Stop, no late sweep turns it   *)
(* into "nothing was saved" (_commit_run, _finish, _end, sweep_stale).     *)
SavedMeansSucceeded == \A j \in runs : row[j].status = "succeeded"

Ending(j) ==
  \/ thread[j].pc \in {"new", "waiting", "acquired", "claiming", "working", "saving",
                       "answered", "errored"}
  \/ thread[j].pc \in {"unstarted", "gaveup"} /\ Exiting(j)
  \/ thread[j].goal # "none"

(* Nothing but a dead process or a refused statement leaves the lane to    *)
(* the sweep: an active row has a request that will start or close it, or  *)
(* a thread on its way to ending it, through every early return and        *)
(* exception of submit and run_job.                                        *)
NoOrphan ==
  \A j \in Jobs : Active(j) => \/ req[j] \in {"dispatching", "failing", "dead"}
                               \/ thread[j].pc = "dead"
                               \/ Ending(j)

(* Whoever is turned away is told who solves: while a job or another user  *)
(* solves, solver_holder names it, whatever the last holder still does.    *)
HolderTruthful ==
  /\ \A j \in Jobs : thread[j].pc \in InSlot \ {"acquired", "unnamed"}
                     => shown[home[j]] = "exam_job"
  /\ guest.pc = "inside" => shown[guest.at] = "other"

Lane == INSTANCE ExamLane WITH
  state   <- [j \in Jobs |-> IF j \in runs THEN "saved"
                             ELSE IF row[j].status = "none" THEN "none"
                             ELSE IF Active(j) THEN "open" ELSE "closed"],
  stopped <- {j \in Jobs : row[j].cancel}

(* The jobs keep the page's promise: one open action over all instances,   *)
(* closed once, at most one timetable, none after an accepted Stop or for  *)
(* a job the sweep gave up, however late its thread comes to save.         *)
ImplementsLane == Lane!Spec

(* The one lane is always freed: a killed process, a lost end and a job    *)
(* that no longer reaches a cancellation point are swept (sweep_stale).    *)
LaneFreed == \A j \in Jobs : Active(j) ~> ~Active(j)

HeldByStuck(p) == \E j \in Stuck : home[j] = p /\ thread[j].pc \in InSlot

(* However a job or another user ends, the solver is free again            *)
(* (solver_slot), unless an action inside it never ends.                   *)
SolverFreed == \A p \in Procs : sem[p] = 0 ~> sem[p] = 1 \/ HeldByStuck(p)

(* A job that was stopped or swept while it waited does not wait on: its   *)
(* thread ends even when the slot is never freed (flush, give_up).         *)
WaiterQuits ==
  \A j \in Jobs : thread[j].pc = "waiting" /\ ~Active(j) ~> thread[j].pc # "waiting"
=============================================================================
