----------------------------- MODULE PlannerJobs -----------------------------
(***************************************************************************)
(* The timetable planner's jobs (core/services/planner_job_runner.py), the *)
(* snapshot a cancelled one restores (planner_job_snapshot.py), and the    *)
(* guard that keeps manual edits off a scenario while a job owns it        *)
(* (timetable_mutation_guard.py), in one web instance.                     *)
(*                                                                         *)
(* The boards of the scenarios hold sections of their own and copies of    *)
(* one Shared section.  What a board or the shared section's meetings      *)
(* contain is the manual edits they show and the jobs that rewrote them.   *)
(* Every step is one statement or transaction, or one row lock.            *)
(***************************************************************************)
EXTENDS Integers, FiniteSets

CONSTANTS
  Scenarios,  \* primary keys, the order in which they are locked
  Shared,     \* the section that may be on several boards
  Owner,      \* the scenario it belongs to
  Jobs,       \* submissions
  Inline,     \* those run by their own request, run_planner_job_synchronously
  Editors,    \* manual edits
  Copiers,    \* those that put a copy of the section on a further board
  Nobody,     \* the owner of a row that is not locked
  MaxFaults   \* bound on kills and exits of the instance and failed restores

ASSUME ScenariosAssumption == Scenarios \subseteq Nat /\ Scenarios # {} /\ Shared \notin Scenarios
ASSUME OwnerAssumption     == Owner \in Scenarios
ASSUME InlineAssumption    == Inline \subseteq Jobs
ASSUME CopiersAssumption   == Copiers \subseteq Editors
ASSUME ActorsAssumption    == Jobs \intersect Editors = {} /\ Nobody \notin Jobs \union Editors
ASSUME FaultsAssumption    == MaxFaults \in Nat

VARIABLES
  holds,    \* scenarios with a copy of the shared section on a board
  edits,    \* manual edits to be seen in each resource
  marks,    \* jobs whose rewriting is to be seen in each resource
  accepted, \* manual edits answered with ok, for each resource
  lock,     \* the row lock of each scenario
  req,      \* the requests that edit or submit, in scenario_write_scope
  row,      \* the PlannerJob of each submission
  work,     \* the worker of each job
  sweep,    \* rows a reconciliation is about to fail
  proc,     \* the instance: up, exiting, down
  faults    \* faults so far

vars == <<holds, edits, marks, accepted, lock, req, row, work, sweep, proc, faults>>
boards   == <<holds, edits, marks, accepted>>
requests == <<lock, req>>
instance == <<sweep, proc, faults>>

Resources == Scenarios \union {Shared}
Actors    == Jobs \union Editors
Anywhere  == Owner

(* A request for the boards of scenario `at` has read `scope`. *)
NoRequest == [pc |-> "idle", at |-> Anywhere, scope |-> {}]

NoRow == [status |-> "none", cancel |-> FALSE, stale |-> FALSE,
          at |-> Anywhere, owned |-> {}, section |-> FALSE]

(* What the worker read before it wrote: its baseline. *)
NoBaseline == [taken |-> FALSE, holds |-> {},
               edits |-> [r \in Resources |-> {}], marks |-> [r \in Resources |-> {}]]
NoWork == [pc |-> "none", base |-> NoBaseline, outcome |-> "none"]

Active(j) == row[j].status \in {"queued", "running"}

(* A row that has ended; what it owned is not looked at again. *)
EndedAs(j, status) == [NoRow EXCEPT !.status = status, !.cancel = row[j].cancel]

EndAs(j, status) == row' = [row EXCEPT ![j] = EndedAs(j, status)]

Fault == faults < MaxFaults /\ faults' = faults + 1

-----------------------------------------------------------------------------
(* scenario_write_scope *)

Uses(a, s) == s = Owner \/ s \in holds \/ a \in Copiers

(* The owner and all boards with a copy of the section are one resource. *)
Related(a, s) ==
  {s} \union (IF Uses(a, s) THEN holds \union {Owner} ELSE {})

UsesSection(a) == Uses(a, req[a].at)

Scope(a) == Related(a, req[a].at)

Held(a) == {s \in Scenarios : lock[s] = a}

Unlocked(a) == [s \in Scenarios |-> IF lock[s] = a THEN Nobody ELSE lock[s]]

Wanting(a) == req[a].scope \ Held(a)

(* Mutant: the rows are locked in any order. *)
TakeAnyLock(a) ==
  /\ req[a].pc = "locking"
  /\ \E s \in Wanting(a) :
       /\ lock[s] = Nobody
       /\ lock' = [lock EXCEPT ![s] = a]
  /\ UNCHANGED <<boards, req, row, work, instance>>

TakeLock(a) ==
  /\ req[a].pc = "locking"
  /\ \E s \in Wanting(a) :
       /\ \A t \in Wanting(a) : s <= t
       /\ lock[s] = Nobody
       /\ lock' = [lock EXCEPT ![s] = a]
  /\ UNCHANGED <<boards, req, row, work, instance>>

(* Mutant: the scope that was read before the locks is taken as it was. *)
EnterUnchecked(a) ==
  /\ req[a].pc = "locking"
  /\ Wanting(a) = {}
  /\ req' = [req EXCEPT ![a].pc = "inside"]
  /\ UNCHANGED <<boards, lock, row, work, instance>>

(* A scope that has changed is read again, after the locks are released. *)
Enter(a) ==
  /\ req[a].pc = "locking"
  /\ Wanting(a) = {}
  /\ IF Scope(a) = req[a].scope
     THEN req' = [req EXCEPT ![a].pc = "inside"] /\ UNCHANGED lock
     ELSE req' = [req EXCEPT ![a].scope = Scope(a)] /\ lock' = Unlocked(a)
  /\ UNCHANGED <<boards, row, work, instance>>

Owned(scenarios, section) ==
  \E j \in Jobs : /\ Active(j)
                  /\ row[j].owned \intersect scenarios # {} \/ (section /\ row[j].section)

Conflict(a) == Owned(req[a].scope, UsesSection(a))

(* Busy: the transaction ends and the request is answered. *)
Reject(a) ==
  /\ req[a].pc = "inside"
  /\ Conflict(a)
  /\ req'  = [req EXCEPT ![a] = NoRequest]
  /\ lock' = Unlocked(a)
  /\ UNCHANGED <<boards, row, work, instance>>

Proceed(a) ==
  /\ req[a].pc = "inside"
  /\ ~Conflict(a)
  /\ req' = [req EXCEPT ![a].pc = "writing"]
  /\ UNCHANGED <<boards, lock, row, work, instance>>

(* guard_manual_scenario_write, around the views that edit a board. *)
Edit(e) ==
  /\ req[e].pc = "idle"
  /\ proc = "up"
  /\ \A r \in Resources : e \notin accepted[r]
  /\ \E s \in Scenarios \ (IF e \in Copiers THEN holds ELSE {}) :
       req' = [req EXCEPT ![e] = [pc |-> "locking", at |-> s, scope |-> Related(e, s)]]
  /\ UNCHANGED <<boards, lock, row, work, instance>>

(* The views refuse to change a section that another scenario has placed. *)
Written(e) ==
  {req[e].at} \union (IF UsesSection(e) /\ holds \subseteq {req[e].at} THEN {Shared} ELSE {})

(* The view's own writes, and the commit. *)
CommitEdit(e) ==
  /\ req[e].pc = "writing"
  /\ edits'    = [r \in Resources |-> edits[r]    \union {x \in {e} : r \in Written(e)}]
  /\ accepted' = [r \in Resources |-> accepted[r] \union {x \in {e} : r \in Written(e)}]
  /\ holds' = holds \union {s \in {req[e].at} : e \in Copiers}
  /\ req'  = [req EXCEPT ![e] = [NoRequest EXCEPT !.pc = "done"]]
  /\ lock' = Unlocked(e)
  /\ UNCHANGED <<marks, row, work, instance>>

-----------------------------------------------------------------------------
(* submit_planner_job, and the reconciliation it begins with *)

Executing == {j \in Jobs : work[j].pc \in {"entering", "claimed", "checking", "working",
                                           "finalising"}}

(* Mutant: only a job that had started is an orphan. *)
StartedOrphans == {j \in Jobs : row[j].status = "running" /\ row[j].stale} \ Executing

(* A live solver may outlast the window; its job is left alone. *)
Orphans == {j \in Jobs : Active(j) /\ row[j].stale} \ Executing

Reconciled(jobs) ==
  [j \in Jobs |-> IF j \in jobs /\ Active(j) /\ row[j].stale
                  THEN EndedAs(j, "failed") ELSE row[j]]

Submit(j) ==
  /\ req[j].pc = "idle"
  /\ proc = "up"
  /\ row' = Reconciled(Orphans)
  /\ \E s \in Scenarios :
       req' = [req EXCEPT ![j] = [pc |-> "locking", at |-> s, scope |-> Related(j, s)]]
  /\ UNCHANGED <<boards, lock, work, instance>>

(* The row is created with what it owns, and then goes to the pool, unless *)
(* the request itself runs it.                                             *)
Create(j) ==
  /\ req[j].pc = "writing"
  /\ row' = [row EXCEPT ![j] = [NoRow EXCEPT !.status  = "queued",
                                             !.at      = req[j].at,
                                             !.owned   = req[j].scope,
                                             !.section = UsesSection(j)]]
  /\ work' = [work EXCEPT ![j].pc = IF j \in Inline THEN "entering" ELSE "pooled"]
  /\ req'  = [req EXCEPT ![j] = [NoRequest EXCEPT !.pc = "done"]]
  /\ lock' = Unlocked(j)
  /\ UNCHANGED <<boards, instance>>

(* Every poll reconciles.  It reads the clock and the executing jobs, *)
FindOrphans ==
  /\ sweep = {}
  /\ proc # "down"
  /\ Orphans # {}
  /\ sweep' = Orphans
  /\ UNCHANGED <<boards, requests, row, work, proc, faults>>

(* and fails the rows that are still past the window. *)
Reconcile ==
  /\ sweep # {}
  /\ row' = Reconciled(sweep)
  /\ sweep' = {}
  /\ UNCHANGED <<boards, requests, work, proc, faults>>

(* The row passes the stale window; not twice within one reconciliation. *)
TimePasses(j) ==
  /\ Active(j)
  /\ ~row[j].stale
  /\ j \notin sweep
  /\ row' = [row EXCEPT ![j].stale = TRUE]
  /\ UNCHANGED <<boards, requests, work, instance>>

Cancel(j) ==
  /\ Active(j)
  /\ ~row[j].cancel
  /\ row' = [row EXCEPT ![j].cancel = TRUE]
  /\ UNCHANGED <<boards, requests, work, instance>>

-----------------------------------------------------------------------------
(* _worker, and _run_planner_job *)

Done(j) == work' = [work EXCEPT ![j] = [NoWork EXCEPT !.pc = "done"]]

(* The pool has one thread, and it holds the solver slot.  A job still     *)
(* waiting when the process exits is failed and never starts.              *)
LeavePool(j) ==
  /\ work[j].pc = "pooled"
  /\ Executing \subseteq Inline
  /\ IF proc = "exiting"
     THEN /\ Done(j)
          /\ IF Active(j) THEN EndAs(j, "failed") ELSE UNCHANGED row
     ELSE work' = [work EXCEPT ![j].pc = "entering"] /\ UNCHANGED row
  /\ UNCHANGED <<boards, requests, instance>>

(* Under the lock of the job's row. *)
Claim(j) ==
  /\ work[j].pc = "entering"
  /\ IF row[j].status # "queued"
     THEN Done(j) /\ UNCHANGED row
     ELSE IF row[j].cancel
     THEN Done(j) /\ EndAs(j, "cancelled")
     ELSE /\ work' = [work EXCEPT ![j].pc = "claimed"]
          /\ row'  = [row EXCEPT ![j].status = "running", ![j].stale = FALSE]
  /\ UNCHANGED <<boards, requests, instance>>

Snapshot(j) ==
  /\ work[j].pc = "claimed"
  /\ work' = [work EXCEPT ![j].pc = "checking",
                          ![j].base = [taken |-> TRUE, holds |-> holds,
                                       edits |-> edits, marks |-> marks]]
  /\ UNCHANGED <<boards, requests, row, instance>>

(* _check_planner_cancel, before the first phase and between phases. *)
Check(j) ==
  /\ work[j].pc = "checking"
  /\ work' = IF row[j].status = "running" /\ ~row[j].cancel
             THEN [work EXCEPT ![j].pc = "working"]
             ELSE [work EXCEPT ![j].pc = "finalising", ![j].outcome = "cancelled"]
  /\ UNCHANGED <<boards, requests, row, instance>>

(* external_shared_section_ids: no engine moves a section, or rebuilds a   *)
(* board, that is also placed elsewhere.                                   *)
Frozen(s) == holds \ {s} # {}

(* What a phase rewrites: its boards and, when they show the section or    *)
(* its scenario owns it, the meetings of the shared section.               *)
Rewrites(s) ==
  {s} \union (IF s \in holds \union {Owner} /\ ~Frozen(s) THEN {Shared} ELSE {})

(* The rebuild drops the section from the board; its owner's places it.    *)
Rebuilt(s) ==
  {holds} \union (IF Frozen(s) THEN {} ELSE {holds \ {s}, holds \union ({s} \intersect {Owner})})

(* A phase replaces what the job read when it began. *)
Persist(j, next) ==
  LET s    == row[j].at
      base == work[j].base IN
  /\ work[j].pc = "working"
  /\ edits' = [r \in Resources |-> IF r \in Rewrites(s) THEN base.edits[r] ELSE edits[r]]
  /\ marks' = [r \in Resources |-> IF r \in Rewrites(s) THEN marks[r] \union {j} ELSE marks[r]]
  /\ holds' \in Rebuilt(s)
  /\ work' = [work EXCEPT ![j].pc = next]
  /\ UNCHANGED <<accepted, requests, row, instance>>

(* An exception, or a result that carries an error. *)
Breaks(j) ==
  /\ work[j].pc \in {"claimed", "working"}
  /\ work' = [work EXCEPT ![j].pc = "finalising", ![j].outcome = "failure"]
  /\ UNCHANGED <<boards, requests, row, instance>>

(* The baseline of the shared section is the owner's, copies included, and *)
(* that of a board that showed it.                                         *)
RestoreCopies(j) ==
  LET copies == IF row[j].at = Owner THEN Scenarios ELSE {row[j].at} IN
  holds' = (holds \ copies) \union (work[j].base.holds \intersect copies)

(* Mutant: the meetings of sections that others own are not restored. *)
RestoreBoard(j) ==
  LET base == work[j].base IN
  /\ lock[row[j].at] = Nobody
  /\ edits' = [edits EXCEPT ![row[j].at] = base.edits[row[j].at]]
  /\ marks' = [marks EXCEPT ![row[j].at] = base.marks[row[j].at]]
  /\ RestoreCopies(j)

(* It ends with an update of the scenario, and waits for who has locked it. *)
Restore(j) ==
  LET s    == row[j].at
      base == work[j].base
      back == {s} \union (IF s \in base.holds \union {Owner} THEN {Shared} ELSE {}) IN
  /\ lock[s] = Nobody
  /\ edits' = [r \in Resources |-> IF r \in back THEN base.edits[r] ELSE edits[r]]
  /\ marks' = [r \in Resources |-> IF r \in back THEN base.marks[r] ELSE marks[r]]
  /\ RestoreCopies(j)

(* Mutant: the name of the outcome is stored as the status. *)
ResultAsNamed(j) == IF work[j].outcome = "failure" THEN "failure" ELSE "succeeded"

Result(j) == IF work[j].outcome = "failure" THEN "failed" ELSE "succeeded"

(* Mutant: the job that was loaded before the solver ran decides. *)
FinaliseAsSeen(j) ==
  /\ work[j].pc = "finalising"
  /\ Done(j)
  /\ IF row[j].status # "running" THEN UNCHANGED <<row, holds, edits, marks>>
     ELSE IF work[j].outcome = "cancelled" THEN Restore(j) /\ EndAs(j, "cancelled")
     ELSE EndAs(j, Result(j)) /\ UNCHANGED <<holds, edits, marks>>
  /\ UNCHANGED <<accepted, requests, instance>>

(* Under the lock of the job's row: a cancel restores the baseline. *)
Finalise(j) ==
  /\ work[j].pc = "finalising"
  /\ Done(j)
  /\ IF row[j].status # "running" THEN UNCHANGED <<row, holds, edits, marks>>
     ELSE IF row[j].cancel
     THEN /\ EndAs(j, "cancelled")
          /\ IF work[j].base.taken THEN Restore(j) ELSE UNCHANGED <<holds, edits, marks>>
     ELSE EndAs(j, Result(j)) /\ UNCHANGED <<holds, edits, marks>>
  /\ UNCHANGED <<accepted, requests, instance>>

(* The restore or the save fails; the transaction is rolled back. *)
FinaliseFails(j) ==
  /\ work[j].pc = "finalising"
  /\ Done(j)
  /\ IF row[j].status = "running" THEN EndAs(j, "failed") ELSE UNCHANGED row
  /\ Fault
  /\ UNCHANGED <<boards, requests, sweep, proc>>

-----------------------------------------------------------------------------
(* The instance *)

Exit ==
  /\ proc = "up"
  /\ proc' = "exiting"
  /\ Fault
  /\ UNCHANGED <<boards, requests, row, work, sweep>>

(* Transactions are rolled back; workers and reconciliations are gone. *)
Down ==
  /\ proc' = "down"
  /\ lock' = [s \in Scenarios |-> Nobody]
  /\ req'  = [a \in Actors |-> IF req[a].pc = "done" THEN req[a] ELSE NoRequest]
  /\ work' = [j \in Jobs |-> IF work[j].pc \in {"none", "done"} THEN work[j]
                             ELSE [NoWork EXCEPT !.pc = "dead"]]
  /\ sweep' = {}
  /\ UNCHANGED <<boards, row>>

Kill == proc # "down" /\ Down /\ Fault

(* The pool's thread and the requests are joined first. *)
Ended ==
  /\ proc = "exiting"
  /\ \A j \in Jobs : work[j].pc \in {"none", "done", "dead"}
  /\ \A a \in Actors : req[a].pc \in {"idle", "done"}
  /\ Down
  /\ UNCHANGED faults

Start ==
  /\ proc = "down"
  /\ proc' = "up"
  /\ UNCHANGED <<boards, requests, row, work, sweep, faults>>

-----------------------------------------------------------------------------
Init ==
  /\ holds    \in SUBSET Scenarios
  /\ edits    = [r \in Resources |-> {}]
  /\ marks    = [r \in Resources |-> {}]
  /\ accepted = [r \in Resources |-> {}]
  /\ lock     = [s \in Scenarios |-> Nobody]
  /\ req      = [a \in Actors |-> NoRequest]
  /\ row      = [j \in Jobs |-> NoRow]
  /\ work     = [j \in Jobs |-> NoWork]
  /\ sweep    = {}
  /\ proc     = "up"
  /\ faults   = 0

InScope(a) == Enter(a) \/ Reject(a) \/ Proceed(a)

Work(j) ==
  \/ LeavePool(j) \/ Claim(j) \/ Snapshot(j) \/ Check(j)
  \/ (\E next \in {"checking", "finalising"} : Persist(j, next))
  \/ Breaks(j) \/ Finalise(j)

Next ==
  \/ \E a \in Actors : TakeLock(a) \/ InScope(a)
  \/ \E e \in Editors : Edit(e) \/ CommitEdit(e)
  \/ \E j \in Jobs : \/ Submit(j) \/ Create(j) \/ Work(j) \/ FinaliseFails(j)
                     \/ TimePasses(j) \/ Cancel(j)
  \/ FindOrphans \/ Reconcile
  \/ Exit \/ Kill \/ Ended \/ Start

(* Workers and requests are scheduled, the database queues who waits for a *)
(* row, a scheduler has finitely many phases, a page polls, and a stopped  *)
(* instance is started again.                                              *)
Fairness ==
  /\ \A j \in Jobs : /\ WF_vars(Work(j)) /\ SF_vars(Persist(j, "finalising")) /\ SF_vars(Finalise(j))
                     /\ WF_vars(Create(j)) /\ WF_vars(TimePasses(j))
  /\ \A e \in Editors : WF_vars(CommitEdit(e))
  /\ \A a \in Actors : WF_vars(TakeLock(a)) /\ WF_vars(InScope(a))
  /\ WF_vars(FindOrphans) /\ WF_vars(Reconcile) /\ WF_vars(Start)

Spec == Init /\ [][Next]_vars /\ Fairness
=============================================================================
