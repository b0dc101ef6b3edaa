--------------------------- MODULE PlannerJobsProofs ---------------------------
(* Theorems about the planner's jobs and the mutation guard, for any       *)
(* number of scenarios, jobs, manual edits and faults.                     *)
EXTENDS PlannerJobsProperties, TLAPS

USE ScenariosAssumption, OwnerAssumption, InlineAssumption, CopiersAssumption,
    ActorsAssumption, FaultsAssumption

-----------------------------------------------------------------------------
(* The inductive invariant. *)

Inside(a) == req[a].pc \in {"inside", "writing"}

(* A request knows at least its own scenario, and has locked what it knows *)
(* once it is inside; one that uses the section has locked its owner.      *)
ScopeInv(a) ==
  /\ req[a].pc \in {"locking", "inside", "writing"} => req[a].at \in req[a].scope
  /\ Inside(a) => \A s \in req[a].scope : lock[s] = a
  /\ Inside(a) /\ UsesSection(a) => lock[Owner] = a

Scoped == \A a \in Actors : ScopeInv(a)

Based(j) == work[j].base.taken

(* A job has no row before its request is done, *)
Unborn(j) == req[j].pc # "done" => row[j].status = "none" /\ work[j].pc = "none"

Claimed == {"claimed", "checking", "working", "finalising"}

(* a worker that claimed its job keeps it: no reconciliation takes it away, *)
Kept(j) ==
  work[j].pc \in Claimed => row[j].status = "running" /\ (j \in sweep => ~row[j].stale)

(* and a worker that checks or works has taken its baseline. *)
Prepared(j) ==
  /\ work[j].pc \in {"checking", "working"} => Based(j)
  /\ Based(j) => work[j].pc \in {"checking", "working", "finalising"}

Lifecycle == \A j \in Jobs : Unborn(j) /\ Kept(j) /\ Prepared(j)

(* An active job owns its scenario, and the section if it might touch it. *)
Owns(j) ==
  Active(j) => /\ row[j].at \in row[j].owned
               /\ row[j].at \in holds \union {Owner} => row[j].section

(* Two active jobs have nothing in common, *)
Apart(j, k) == row[j].at # row[k].at /\ ~(row[j].section /\ row[k].section)

Exclusive == \A j, k \in Jobs : Active(j) /\ Active(k) /\ j # k => Apart(j, k)

(* nor has a job with a request that may write. *)
Clear(a, k) == row[k].at # req[a].at /\ ~(UsesSection(a) /\ row[k].section)

Shielded ==
  \A a \in Actors, k \in Jobs : req[a].pc = "writing" /\ Active(k) => Clear(a, k)

Ownership == (\A j \in Jobs : Owns(j)) /\ Exclusive /\ Shielded

(* The resources of a job. *)
Ours(j) == {row[j].at} \union (IF row[j].section THEN {Shared} ELSE {})

(* What a running job read is what everybody else has left there since. *)
Faithful(j) ==
  Based(j) =>
    /\ row[j].section  => holds \ {row[j].at} = work[j].base.holds \ {row[j].at}
    /\ ~row[j].section => row[j].at \notin work[j].base.holds
    /\ row[j].at \in holds => row[j].at \in work[j].base.holds \union {Owner}
    /\ \A r \in Ours(j) : accepted[r] \subseteq work[j].base.edits[r]

Baselines == \A j \in Jobs : Faithful(j)

Over(j) == row[j].status \in {"succeeded", "failed"}

(* Where the mark of a job that is not over may be, *)
MarksOf(j) ==
  \A r \in Resources : j \in marks[r] /\ ~Over(j) =>
    /\ Active(j) /\ r \in Ours(j)
    /\ Based(j) \/ work[j].pc = "dead"
    /\ Based(j) /\ r = Shared => row[j].at \in work[j].base.holds \union {Owner}

(* and which marks a baseline may bring back. *)
OldMarks(j) ==
  Based(j) => /\ \A r \in Resources : j \notin work[j].base.marks[r]
              /\ \A r \in Ours(j) : \A k \in work[j].base.marks[r] : Over(k)

Marking == \A j \in Jobs : MarksOf(j) /\ OldMarks(j)

Invariant ==
  /\ TypeOK /\ Scoped /\ Lifecycle /\ Ownership /\ Baselines /\ Marking
  /\ EditsSurvive /\ CancelHonoured

-----------------------------------------------------------------------------
(* Types. *)

LEMMA EmptyTypes == NoRequest \in Request /\ NoRow \in Row /\ NoWork \in Worker
BY DEF NoRequest, NoRow, NoWork, NoBaseline, Anywhere, Request, Row, Worker, Steps,
       Edited, Marked

LEMMA RelatedType ==
  ASSUME TypeOK, NEW a \in Actors, NEW s \in Scenarios
  PROVE  Related(a, s) \subseteq Scenarios /\ s \in Related(a, s)
BY DEF Related, TypeOK

Statuses == {"none", "queued", "running", "succeeded", "failed", "cancelled"}

LEMMA EndedType ==
  ASSUME TypeOK, NEW j \in Jobs, NEW s \in Statuses
  PROVE  /\ EndedAs(j, s) \in Row
         /\ EndedAs(j, s).status = s
         /\ EndedAs(j, s).cancel = row[j].cancel
<1>1. row[j] \in Row BY DEF TypeOK
<1>2. QED BY <1>1, EmptyTypes DEF EndedAs, NoRow, Row, Statuses

LEMMA EndAsType ==
  ASSUME TypeOK, NEW j \in Jobs, NEW s \in Statuses, EndAs(j, s)
  PROVE  /\ row' \in [Jobs -> Row]
         /\ row'[j].status = s
         /\ row'[j].cancel = row[j].cancel
         /\ \A k \in Jobs \ {j} : row'[k] = row[k]
BY EndedType DEF EndAs, TypeOK

LEMMA ReconciledType ==
  ASSUME TypeOK, NEW jobs
  PROVE  /\ Reconciled(jobs) \in [Jobs -> Row]
         /\ \A j \in Jobs : \/ Reconciled(jobs)[j] = row[j]
                            \/ /\ Active(j) /\ row[j].stale /\ j \in jobs
                               /\ Reconciled(jobs)[j].status = "failed"
<1>1. "failed" \in Statuses BY DEF Statuses
<1>2. \A j \in Jobs : EndedAs(j, "failed") \in Row /\ EndedAs(j, "failed").status = "failed"
  BY <1>1, EndedType
<1>3. QED BY <1>2 DEF Reconciled, TypeOK

LEMMA DoneType ==
  ASSUME TypeOK, NEW j \in Jobs, Done(j)
  PROVE  /\ work' \in [Jobs -> Worker]
         /\ work'[j].pc = "done" /\ ~work'[j].base.taken
         /\ \A k \in Jobs \ {j} : work'[k] = work[k]
<1>1. [NoWork EXCEPT !.pc = "done"] \in Worker
  BY EmptyTypes DEF Worker, Steps
<1>2. QED BY <1>1 DEF Done, TypeOK, NoWork, NoBaseline

LEMMA WorkStepType ==
  ASSUME TypeOK, NEW j \in Jobs, NEW s \in Steps, NEW o \in {"none", "cancelled", "failure"},
         \/ work' = [work EXCEPT ![j].pc = s]
         \/ work' = [work EXCEPT ![j].pc = s, ![j].outcome = o]
  PROVE  /\ work' \in [Jobs -> Worker]
         /\ work'[j].pc = s /\ work'[j].base = work[j].base
         /\ \A k \in Jobs \ {j} : work'[k] = work[k]
<1>1. work[j] \in Worker BY DEF TypeOK
<1>2. CASE work' = [work EXCEPT ![j].pc = s] BY <1>1, <1>2 DEF TypeOK, Worker
<1>3. CASE work' = [work EXCEPT ![j].pc = s, ![j].outcome = o]
  <2>1. work' = [work EXCEPT ![j] = [@ EXCEPT !.pc = s, !.outcome = o]]
    BY <1>1, <1>3 DEF TypeOK
  <2>2. QED BY <1>1, <2>1 DEF TypeOK, Worker
<1>4. QED BY <1>2, <1>3

LEMMA SnapshotType ==
  ASSUME TypeOK, NEW j \in Jobs, Snapshot(j)
  PROVE  /\ work' \in [Jobs -> Worker]
         /\ work'[j].pc = "checking"
         /\ work'[j].base = [taken |-> TRUE, holds |-> holds, edits |-> edits, marks |-> marks]
         /\ \A k \in Jobs \ {j} : work'[k] = work[k]
<1>1. work[j] \in Worker BY DEF TypeOK
<1>2. work' = [work EXCEPT ![j] = [@ EXCEPT !.pc = "checking",
                 !.base = [taken |-> TRUE, holds |-> holds, edits |-> edits, marks |-> marks]]]
  BY <1>1 DEF Snapshot, TypeOK
<1>3. [taken |-> TRUE, holds |-> holds, edits |-> edits, marks |-> marks]
        \in [taken: BOOLEAN, holds: SUBSET Scenarios, edits: Edited, marks: Marked]
  BY DEF TypeOK
<1>4. QED BY <1>1, <1>2, <1>3 DEF TypeOK, Worker, Steps

LEMMA BaseType ==
  ASSUME TypeOK, NEW j \in Jobs
  PROVE  /\ work[j].base.holds \subseteq Scenarios
         /\ work[j].base.edits \in Edited /\ work[j].base.marks \in Marked
         /\ work[j].base.taken \in BOOLEAN
BY DEF TypeOK, Worker

LEMMA RowType ==
  ASSUME TypeOK, NEW j \in Jobs
  PROVE  /\ row[j].at \in Scenarios /\ row[j].owned \subseteq Scenarios
         /\ row[j].section \in BOOLEAN /\ row[j].cancel \in BOOLEAN
         /\ row[j].stale \in BOOLEAN /\ row[j].status \in Statuses
BY DEF TypeOK, Row, Statuses

(* The requests' own steps. *)
LEMMA TalkTypes ==
  ASSUME TypeOK, NEW a \in Actors,
         TakeLock(a) \/ InScope(a) \/ \E e \in Editors : e = a /\ Edit(e)
  PROVE  TypeOK'
<1>1. UNCHANGED <<boards, row, work, instance>>
  BY DEF TakeLock, InScope, Enter, Reject, Proceed, Edit
<1>2. lock' \in [Scenarios -> Actors \union {Nobody}]
  BY DEF TakeLock, InScope, Enter, Reject, Proceed, Edit, TypeOK, Unlocked
<1>3. req[a] \in Request BY DEF TypeOK
<1>4. req' \in [Actors -> Request]
  <2>1. CASE TakeLock(a) BY <2>1 DEF TakeLock, TypeOK
  <2>2. CASE Enter(a)
    <3>1. Scope(a) \subseteq Scenarios BY <1>3, RelatedType DEF Scope, Request
    <3>2. QED BY <1>3, <2>2, <3>1 DEF Enter, TypeOK, Request
  <2>3. CASE Reject(a) BY <2>3, EmptyTypes DEF Reject, TypeOK
  <2>4. CASE Proceed(a) BY <1>3, <2>4 DEF Proceed, TypeOK, Request
  <2>5. CASE \E e \in Editors : e = a /\ Edit(e)
    <3>1. PICK s \in Scenarios :
            req' = [req EXCEPT ![a] = [pc |-> "locking", at |-> s, scope |-> Related(a, s)]]
      BY <2>5 DEF Edit
    <3>2. [pc |-> "locking", at |-> s, scope |-> Related(a, s)] \in Request
      BY RelatedType DEF Request
    <3>3. QED BY <3>1, <3>2 DEF TypeOK
  <2>6. QED BY <2>1, <2>2, <2>3, <2>4, <2>5 DEF InScope
<1>5. QED BY <1>1, <1>2, <1>4 DEF TypeOK, boards, instance

(* A step of a worker or of a job's row that leaves boards and requests.   *)
LEMMA JobTypes ==
  ASSUME TypeOK, UNCHANGED <<boards, requests>>, row' \in [Jobs -> Row],
         work' \in [Jobs -> Worker], sweep' \subseteq Jobs,
         proc' \in {"up", "exiting", "down"}, faults' \in Nat
  PROVE  TypeOK'
BY DEF TypeOK, boards, requests

-----------------------------------------------------------------------------
(* Steps that leave the boards alone. *)

SameOwner(j) ==
  row'[j].at = row[j].at /\ row'[j].owned = row[j].owned /\ row'[j].section = row[j].section

Touched(j) == Active(j) /\ (Based(j) \/ work[j].pc = "dead")

(* Such a step may end the job, and opens nothing; a job that may have left *)
(* marks keeps its baseline, dies with its process, or is over.            *)
CalmJob(j) ==
  /\ Active(j)' => Active(j) /\ SameOwner(j)
  /\ Over(j) => Over(j)'
  /\ Based(j)' => Based(j) /\ Active(j)' /\ work'[j].base = work[j].base
  /\ Touched(j) => Over(j)' \/ Touched(j)'
  /\ row'[j].cancel /\ row'[j].status = "succeeded"
       => row[j].cancel /\ row[j].status = "succeeded"

Calm == UNCHANGED boards /\ \A j \in Jobs : CalmJob(j)

(* A request comes to write only where it is clear of the active jobs. *)
Admitted ==
  \A a \in Actors : req'[a].pc = "writing" =>
    /\ req'[a].at = req[a].at
    /\ req[a].pc = "writing" \/ \A k \in Jobs : Active(k) => Clear(a, k)

LEMMA CalmKeeps ==
  ASSUME TypeOK, Ownership, Baselines, Marking, EditsSurvive, CancelHonoured, Calm, Admitted
  PROVE  Ownership' /\ Baselines' /\ Marking' /\ EditsSurvive' /\ CancelHonoured'
<1>1. UNCHANGED <<holds, edits, marks, accepted>> BY DEF Calm, boards
<1>2. ASSUME NEW j \in Jobs PROVE Owns(j)' /\ Faithful(j)' /\ MarksOf(j)' /\ OldMarks(j)'
  <2>0. CalmJob(j) BY <1>2 DEF Calm
  <2>1. Owns(j) /\ Faithful(j) /\ MarksOf(j) /\ OldMarks(j)
    BY <1>2 DEF Ownership, Baselines, Marking
  <2>2. Owns(j)' BY <1>1, <2>0, <2>1 DEF Owns, CalmJob, SameOwner
  <2>3. Faithful(j)'
    BY <1>1, <2>0, <2>1 DEF Faithful, CalmJob, SameOwner, Ours
  <2>4. MarksOf(j)'
    BY <1>1, <2>0, <2>1 DEF MarksOf, CalmJob, SameOwner, Ours, Touched
  <2>5. OldMarks(j)'
    <3>1. ASSUME Based(j)'
          PROVE  /\ Based(j) /\ work'[j].base = work[j].base
                 /\ Ours(j)' = Ours(j)
      BY <2>0, <3>1 DEF CalmJob, SameOwner, Ours
    <3>2. ASSUME Based(j)', NEW r \in Ours(j)', NEW k \in work'[j].base.marks[r]
          PROVE  Over(k)'
      <4>1. Over(k) BY <2>1, <3>1, <3>2 DEF OldMarks
      <4>2. r \in Resources BY <1>2, <3>1, <3>2, RowType DEF Ours, Resources
      <4>3. k \in Jobs BY <1>2, <3>1, <3>2, <4>2, BaseType DEF Marked
      <4>4. QED BY <4>1, <4>3 DEF Calm, CalmJob
    <3>3. QED BY <2>1, <3>1, <3>2 DEF OldMarks
  <2>6. QED BY <2>2, <2>3, <2>4, <2>5
<1>3. Exclusive'
  BY DEF Ownership, Exclusive, Apart, Calm, CalmJob, SameOwner
<1>4. Shielded'
  <2>1. ASSUME NEW a \in Actors, NEW k \in Jobs, req'[a].pc = "writing", Active(k)'
        PROVE  Clear(a, k)'
    <3>1. Active(k) /\ SameOwner(k) BY <2>1 DEF Calm, CalmJob
    <3>2. req'[a].at = req[a].at /\ Clear(a, k)
      BY <2>1, <3>1 DEF Ownership, Shielded, Admitted
    <3>3. QED BY <1>1, <3>1, <3>2 DEF Clear, SameOwner, UsesSection, Uses
  <2>2. QED BY <2>1 DEF Shielded
<1>5. EditsSurvive' BY <1>1 DEF EditsSurvive
<1>6. CancelHonoured' BY DEF CancelHonoured, Calm, CalmJob
<1>7. QED BY <1>2, <1>3, <1>4, <1>5, <1>6 DEF Ownership, Baselines, Marking

-----------------------------------------------------------------------------
(* Steps of one job's worker or row. *)

Living(j) == Unborn(j) /\ Kept(j) /\ Prepared(j)

SoleJob(j) ==
  /\ UNCHANGED <<boards, requests, sweep, proc>> /\ faults' \in Nat
  /\ row' \in [Jobs -> Row] /\ work' \in [Jobs -> Worker]
  /\ \A k \in Jobs \ {j} : row'[k] = row[k] /\ work'[k] = work[k]

LEMMA ScopedKept ==
  ASSUME Scoped, UNCHANGED <<holds, requests>> PROVE Scoped'
BY DEF Scoped, ScopeInv, requests, Inside, UsesSection, Uses

LEMMA StillCalm ==
  ASSUME Lifecycle, NEW j \in Jobs, row'[j] = row[j], work'[j] = work[j]
  PROVE  CalmJob(j)
<1>1. Kept(j) /\ Prepared(j) BY DEF Lifecycle
<1>2. Based(j) => Active(j) BY <1>1 DEF Kept, Prepared, Claimed, Active
<1>3. QED BY <1>2 DEF CalmJob, SameOwner, Active, Over, Based, Touched

LEMMA SoleKeeps ==
  ASSUME Invariant, NEW j \in Jobs, SoleJob(j), CalmJob(j), Living(j)'
  PROVE  Invariant'
<1>0. TypeOK /\ Lifecycle BY DEF Invariant
<1>1. TypeOK' BY <1>0 DEF SoleJob, TypeOK, boards, requests
<1>2. Scoped' BY ScopedKept DEF Invariant, SoleJob, boards
<1>3. Lifecycle'
  BY <1>0 DEF Lifecycle, SoleJob, Living, Unborn, Kept, Prepared, Based, requests
<1>4. Calm BY <1>0, StillCalm DEF Calm, SoleJob
<1>5. Admitted BY DEF Admitted, SoleJob, requests
<1>6. QED BY <1>1, <1>2, <1>3, <1>4, <1>5, CalmKeeps DEF Invariant

(* A worker moves on and keeps what it read. *)
LEMMA WorkerMoves ==
  ASSUME Invariant, NEW j \in Jobs, NEW s \in Steps \ {"none", "dead"},
         work[j].pc \notin {"none", "dead"},
         UNCHANGED <<boards, requests, sweep, proc, faults>>,
         row' \in [Jobs -> Row], \A k \in Jobs \ {j} : row'[k] = row[k],
         row'[j] # row[j] =>
           /\ Active(j) /\ SameOwner(j) /\ row'[j].status = "running" /\ ~row'[j].stale,
         NEW o \in {"none", "cancelled", "failure"},
         \/ work' = [work EXCEPT ![j].pc = s]
         \/ work' = [work EXCEPT ![j].pc = s, ![j].outcome = o],
         s \in Claimed =>
           row'[j].status = "running" /\ (work[j].pc \in Claimed \/ ~row'[j].stale),
         s \in {"checking", "working"} => Based(j),
         Based(j) => s \in {"checking", "working", "finalising"}
  PROVE  Invariant'
<1>0. TypeOK /\ Lifecycle BY DEF Invariant
<1>1. /\ work' \in [Jobs -> Worker] /\ work'[j].pc = s /\ work'[j].base = work[j].base
      /\ \A k \in Jobs \ {j} : work'[k] = work[k]
  BY <1>0, WorkStepType
<1>2. SoleJob(j) BY <1>0, <1>1 DEF SoleJob, TypeOK
<1>3. Unborn(j) /\ Kept(j) /\ Prepared(j) BY <1>0 DEF Lifecycle
<1>4. Living(j)'
  <2>1. Unborn(j)' BY <1>3 DEF Unborn, requests
  <2>2. Kept(j)' BY <1>1, <1>3 DEF Kept
  <2>3. Prepared(j)' BY <1>1 DEF Prepared, Based
  <2>4. QED BY <2>1, <2>2, <2>3 DEF Living
<1>5. CalmJob(j)
  <2>1. Based(j)' = Based(j) BY <1>1 DEF Based
  <2>2. Based(j) => Active(j) BY <1>3 DEF Kept, Prepared, Claimed, Active
  <2>3. row'[j] = row[j] \/ (Active(j) /\ SameOwner(j) /\ row'[j].status = "running")
    OBVIOUS
  <2>4. CASE row'[j] = row[j]
    BY <1>1, <2>1, <2>2, <2>4 DEF CalmJob, SameOwner, Active, Over, Touched
  <2>5. CASE Active(j) /\ SameOwner(j) /\ row'[j].status = "running"
    BY <1>1, <2>1, <2>5 DEF CalmJob, Active, Over, Touched
  <2>6. QED BY <2>3, <2>4, <2>5
<1>6. QED BY <1>2, <1>4, <1>5, SoleKeeps

(* A worker records the end of its job, a cancel only without a baseline.  *)
LEMMA WorkerDone ==
  ASSUME Invariant, NEW j \in Jobs, work[j].pc \notin {"none", "dead"}, Done(j),
         UNCHANGED <<boards, requests, sweep, proc>>, faults' \in Nat,
         NEW s \in {"failed", "cancelled", "succeeded"},
         EndAs(j, s), Active(j),
         Based(j) => s # "cancelled",
         s = "succeeded" => ~row[j].cancel
  PROVE  Invariant'
<1>0. TypeOK /\ Lifecycle BY DEF Invariant
<1>1. /\ work' \in [Jobs -> Worker] /\ work'[j].pc = "done" /\ ~work'[j].base.taken
      /\ \A k \in Jobs \ {j} : work'[k] = work[k]
  BY <1>0, DoneType
<1>2. s \in Statuses BY DEF Statuses
<1>3. /\ row' \in [Jobs -> Row]
      /\ \A k \in Jobs \ {j} : row'[k] = row[k]
      /\ row'[j].status = s /\ row'[j].cancel = row[j].cancel
  BY <1>0, <1>2, EndAsType DEF TypeOK
<1>4. SoleJob(j) BY <1>1, <1>3 DEF SoleJob
<1>5. Unborn(j) /\ Kept(j) /\ Prepared(j) BY <1>0 DEF Lifecycle
<1>6. Living(j)'
  BY <1>1, <1>5 DEF Living, Unborn, Kept, Prepared, Based, Claimed, requests
<1>7. CalmJob(j)
  <2>1. ~Based(j)' BY <1>1 DEF Based
  <2>2. QED BY <1>3, <2>1 DEF CalmJob, Active, Over, Touched
<1>8. QED BY <1>4, <1>6, <1>7, SoleKeeps

(* A worker that has read nothing yet finds its job ended. *)
LEMMA IdleWorkerDone ==
  ASSUME Invariant, NEW j \in Jobs, work[j].pc \notin {"none", "dead"}, Done(j), ~Based(j),
         UNCHANGED <<boards, requests, sweep, proc, row>>, faults' \in Nat
  PROVE  Invariant'
<1>0. TypeOK /\ Lifecycle BY DEF Invariant
<1>1. /\ work' \in [Jobs -> Worker] /\ work'[j].pc = "done" /\ ~work'[j].base.taken
      /\ \A k \in Jobs \ {j} : work'[k] = work[k]
  BY <1>0, DoneType
<1>2. SoleJob(j) BY <1>0, <1>1 DEF SoleJob, TypeOK
<1>3. Unborn(j) /\ Kept(j) /\ Prepared(j) BY <1>0 DEF Lifecycle
<1>4. Living(j)'
  BY <1>1, <1>3 DEF Living, Unborn, Kept, Prepared, Based, Claimed, requests
<1>5. CalmJob(j) BY <1>1 DEF CalmJob, SameOwner, Active, Over, Based, Touched
<1>6. QED BY <1>2, <1>4, <1>5, SoleKeeps

LEMMA LeavePoolKeeps == ASSUME Invariant, NEW j \in Jobs, LeavePool(j) PROVE Invariant'
<1>0. TypeOK /\ Lifecycle BY DEF Invariant
<1>1. Kept(j) /\ Prepared(j) /\ work[j].pc = "pooled" BY <1>0 DEF Lifecycle, LeavePool
<1>2. ~Based(j) BY <1>1 DEF Prepared
<1>3. CASE proc = "exiting"
  <2>1. Done(j) /\ (EndAs(j, "failed") \/ row' = row) /\ (Active(j) \/ row' = row)
    BY <1>3 DEF LeavePool
  <2>2. CASE Active(j)
    BY <1>0, <1>1, <1>2, <1>3, <2>1, <2>2, WorkerDone DEF LeavePool, instance, TypeOK
  <2>3. CASE ~Active(j)
    BY <1>0, <1>1, <1>2, <1>3, <2>3, IdleWorkerDone DEF LeavePool, instance, TypeOK
  <2>4. QED BY <2>2, <2>3
<1>4. CASE proc # "exiting"
  <2>1. /\ work' = [work EXCEPT ![j].pc = "entering"] /\ row' = row
        /\ UNCHANGED <<boards, requests, sweep, proc, faults>>
    BY <1>4 DEF LeavePool, instance
  <2>2. "entering" \in Steps \ {"none", "dead"} /\ "entering" \notin Claimed
    BY DEF Steps, Claimed
  <2>3. row' \in [Jobs -> Row] BY <1>0, <2>1 DEF TypeOK
  <2>4. QED BY <1>1, <1>2, <2>1, <2>2, <2>3, WorkerMoves
<1>5. QED BY <1>3, <1>4

LEMMA ClaimKeeps == ASSUME Invariant, NEW j \in Jobs, Claim(j) PROVE Invariant'
<1>0. TypeOK /\ Lifecycle BY DEF Invariant
<1>1. Kept(j) /\ Prepared(j) /\ work[j].pc = "entering" BY <1>0 DEF Lifecycle, Claim
<1>2. ~Based(j) BY <1>1 DEF Prepared
<1>3. UNCHANGED <<boards, requests, sweep, proc, faults>> BY DEF Claim, instance
<1>4. CASE row[j].status # "queued"
  <2>1. Done(j) /\ row' = row BY <1>4 DEF Claim
  <2>2. QED BY <1>0, <1>1, <1>2, <1>3, <2>1, IdleWorkerDone DEF TypeOK
<1>5. CASE row[j].status = "queued" /\ row[j].cancel
  <2>1. Done(j) /\ EndAs(j, "cancelled") /\ Active(j) BY <1>5 DEF Claim, Active
  <2>2. QED BY <1>0, <1>1, <1>2, <1>3, <2>1, WorkerDone DEF TypeOK
<1>6. CASE row[j].status = "queued" /\ ~row[j].cancel
  <2>1. /\ work' = [work EXCEPT ![j].pc = "claimed"]
        /\ row' = [row EXCEPT ![j].status = "running", ![j].stale = FALSE]
    BY <1>6 DEF Claim
  <2>2. row[j] \in Row BY <1>0 DEF TypeOK
  <2>3. row' = [row EXCEPT ![j] = [@ EXCEPT !.status = "running", !.stale = FALSE]]
    BY <1>0, <2>1, <2>2 DEF TypeOK
  <2>4. /\ row' \in [Jobs -> Row] /\ \A k \in Jobs \ {j} : row'[k] = row[k]
        /\ SameOwner(j) /\ row'[j].status = "running" /\ ~row'[j].stale
    BY <1>0, <2>2, <2>3 DEF TypeOK, Row, SameOwner
  <2>5. Active(j) BY <1>6 DEF Active
  <2>6. "claimed" \in Steps \ {"none", "dead"} BY DEF Steps
  <2>7. QED BY <1>1, <1>2, <1>3, <2>1, <2>4, <2>5, <2>6, WorkerMoves
<1>7. QED BY <1>0, <1>4, <1>5, <1>6, RowType

LEMMA CheckKeeps == ASSUME Invariant, NEW j \in Jobs, Check(j) PROVE Invariant'
<1>0. TypeOK /\ Lifecycle BY DEF Invariant
<1>1. Kept(j) /\ Prepared(j) /\ work[j].pc = "checking" BY <1>0 DEF Lifecycle, Check
<1>2. Based(j) /\ row[j].status = "running" BY <1>1 DEF Kept, Prepared, Claimed
<1>3. UNCHANGED <<boards, requests, sweep, proc, faults, row>> BY DEF Check, instance
<1>4. "working" \in Steps \ {"none", "dead"} /\ "finalising" \in Steps \ {"none", "dead"}
  BY DEF Steps
<1>5. \/ work' = [work EXCEPT ![j].pc = "working"]
      \/ work' = [work EXCEPT ![j].pc = "finalising", ![j].outcome = "cancelled"]
  BY DEF Check
<1>6. work[j].pc \in Claimed BY <1>1 DEF Claimed
<1>7. row' \in [Jobs -> Row] BY <1>0, <1>3 DEF TypeOK
<1>8. CASE work' = [work EXCEPT ![j].pc = "working"]
  BY <1>1, <1>2, <1>3, <1>4, <1>6, <1>7, <1>8, WorkerMoves
<1>9. CASE work' = [work EXCEPT ![j].pc = "finalising", ![j].outcome = "cancelled"]
  BY <1>1, <1>2, <1>3, <1>4, <1>6, <1>7, <1>9, WorkerMoves
<1>10. QED BY <1>5, <1>8, <1>9

LEMMA BreaksKeeps == ASSUME Invariant, NEW j \in Jobs, Breaks(j) PROVE Invariant'
<1>0. TypeOK /\ Lifecycle BY DEF Invariant
<1>1. Kept(j) /\ Prepared(j) /\ work[j].pc \in Claimed /\ work[j].pc \notin {"none", "dead"}
  BY <1>0 DEF Lifecycle, Breaks, Claimed
<1>2. row[j].status = "running" BY <1>1 DEF Kept
<1>3. UNCHANGED <<boards, requests, sweep, proc, faults, row>> BY DEF Breaks, instance
<1>4. "finalising" \in Steps \ {"none", "dead"} BY DEF Steps
<1>5. work' = [work EXCEPT ![j].pc = "finalising", ![j].outcome = "failure"] BY DEF Breaks
<1>6. row' \in [Jobs -> Row] BY <1>0, <1>3 DEF TypeOK
<1>7. QED BY <1>1, <1>2, <1>3, <1>4, <1>5, <1>6, WorkerMoves

LEMMA FinaliseFailsKeeps ==
  ASSUME Invariant, NEW j \in Jobs, FinaliseFails(j) PROVE Invariant'
<1>0. TypeOK /\ Lifecycle BY DEF Invariant
<1>1. Kept(j) /\ work[j].pc = "finalising" BY <1>0 DEF Lifecycle, FinaliseFails
<1>2. row[j].status = "running" /\ Active(j) BY <1>1 DEF Kept, Claimed, Active
<1>3. Done(j) /\ EndAs(j, "failed") /\ UNCHANGED <<boards, requests, sweep, proc>>
  BY <1>2 DEF FinaliseFails
<1>4. faults' \in Nat BY <1>0 DEF FinaliseFails, Fault, TypeOK
<1>5. QED BY <1>1, <1>2, <1>3, <1>4, WorkerDone

(* Stop and the clock. *)
LEMMA FlagKeeps ==
  ASSUME Invariant, NEW j \in Jobs, TimePasses(j) \/ Cancel(j) PROVE Invariant'
<1>0. TypeOK /\ Lifecycle BY DEF Invariant
<1>1. Active(j) /\ UNCHANGED <<boards, requests, work, sweep, proc, faults>>
  BY DEF TimePasses, Cancel, instance
<1>2. row[j] \in Row BY <1>0 DEF TypeOK
<1>3. /\ row' \in [Jobs -> Row] /\ \A k \in Jobs \ {j} : row'[k] = row[k]
      /\ SameOwner(j) /\ row'[j].status = row[j].status
      /\ row'[j].stale # row[j].stale => j \notin sweep
  <2>1. CASE TimePasses(j)
    BY <1>0, <1>2, <2>1 DEF TimePasses, TypeOK, Row, SameOwner
  <2>2. CASE Cancel(j)
    BY <1>0, <1>2, <2>2 DEF Cancel, TypeOK, Row, SameOwner
  <2>3. QED BY <2>1, <2>2
<1>4. SoleJob(j) BY <1>0, <1>1, <1>3 DEF SoleJob, TypeOK
<1>5. Unborn(j) /\ Kept(j) /\ Prepared(j) BY <1>0 DEF Lifecycle
<1>6. Living(j)'
  BY <1>1, <1>3, <1>5 DEF Living, Unborn, Kept, Prepared, Based, requests
<1>7. CalmJob(j)
  BY <1>1, <1>3 DEF CalmJob, Active, Over, Based, Touched
<1>8. QED BY <1>4, <1>6, <1>7, SoleKeeps

-----------------------------------------------------------------------------
(* Steps of a request on its way in. *)

(* Locks are taken when free and given back by their holder: what others   *)
(* rely on stays.                                                          *)
LEMMA OthersScoped ==
  ASSUME TypeOK, Scoped, NEW a \in Actors, NEW b \in Actors \ {a},
         UNCHANGED holds, req'[b] = req[b],
         \A s \in Scenarios : lock[s] \notin {a, Nobody} => lock'[s] = lock[s]
  PROVE  ScopeInv(b)'
<1>1. req[b].scope \subseteq Scenarios /\ ScopeInv(b) BY DEF TypeOK, Request, Scoped
<1>2. Inside(b)' = Inside(b) /\ UsesSection(b)' = UsesSection(b)
  BY DEF Inside, UsesSection, Uses
<1>3. \A s \in Scenarios : lock[s] = b => lock'[s] = b BY DEF Actors
<1>4. QED BY <1>1, <1>2, <1>3 DEF ScopeInv

LEMMA UnlockedType ==
  ASSUME TypeOK, NEW a \in Actors
  PROVE  \A s \in Scenarios : lock[s] \notin {a, Nobody} => Unlocked(a)[s] = lock[s]
BY DEF Unlocked

LEMMA EnterScoped ==
  ASSUME TypeOK, Scoped, NEW a \in Actors, Enter(a) PROVE ScopeInv(a)'
<1>1. req[a] \in Request /\ req[a].pc = "locking" /\ UNCHANGED holds
  BY DEF TypeOK, Enter, boards
<1>2. req[a].at \in req[a].scope BY <1>1 DEF Scoped, ScopeInv
<1>3. CASE Scope(a) = req[a].scope
  <2>1. req'[a] = [req[a] EXCEPT !.pc = "inside"] /\ lock' = lock
    BY <1>1, <1>3 DEF Enter, TypeOK
  <2>2. req'[a].at = req[a].at /\ req'[a].scope = req[a].scope BY <1>1, <2>1 DEF Request
  <2>3. \A s \in req[a].scope : lock[s] = a BY <1>1 DEF Enter, Wanting, Held, Request
  <2>4. UsesSection(a)' = UsesSection(a) BY <1>1, <2>2 DEF UsesSection, Uses
  <2>5. UsesSection(a) => Owner \in req[a].scope BY <1>3 DEF UsesSection, Scope, Related
  <2>6. QED BY <1>2, <2>1, <2>2, <2>3, <2>4, <2>5 DEF ScopeInv
<1>4. CASE Scope(a) # req[a].scope
  <2>1. req'[a] = [req[a] EXCEPT !.scope = Scope(a)] BY <1>1, <1>4 DEF Enter, TypeOK
  <2>2. req'[a].pc = "locking" /\ req'[a].at = req[a].at /\ req'[a].scope = Scope(a)
    BY <1>1, <2>1 DEF Request
  <2>3. req[a].at \in Scope(a) BY DEF Scope, Related
  <2>4. QED BY <2>2, <2>3 DEF ScopeInv, Inside
<1>5. QED BY <1>3, <1>4

LEMMA TalkScoped ==
  ASSUME TypeOK, Scoped, NEW a \in Actors,
         TakeLock(a) \/ InScope(a) \/ \E e \in Editors : e = a /\ Edit(e)
  PROVE  Scoped'
<1>1. UNCHANGED holds BY DEF TakeLock, InScope, Enter, Reject, Proceed, Edit, boards
<1>2. \A s \in Scenarios : lock[s] \notin {a, Nobody} => lock'[s] = lock[s]
  BY UnlockedType DEF TakeLock, InScope, Enter, Reject, Proceed, Edit, TypeOK
<1>3. \A b \in Actors \ {a} : req'[b] = req[b]
  BY DEF TakeLock, InScope, Enter, Reject, Proceed, Edit, TypeOK
<1>4. \A b \in Actors \ {a} : ScopeInv(b)' BY <1>1, <1>2, <1>3, OthersScoped
<1>5. req[a] \in Request /\ ScopeInv(a) BY DEF TypeOK, Scoped
<1>6. ScopeInv(a)'
  <2>1. CASE TakeLock(a)
    <3>1. req[a].pc = "locking" /\ req' = req BY <2>1 DEF TakeLock
    <3>2. QED BY <1>5, <3>1 DEF ScopeInv, Inside
  <2>2. CASE Enter(a) BY <2>2, EnterScoped
  <2>3. CASE Reject(a)
    <3>1. req'[a] = NoRequest BY <2>3 DEF Reject, TypeOK
    <3>2. req'[a].pc = "idle" BY <3>1 DEF NoRequest
    <3>3. QED BY <3>2 DEF ScopeInv, Inside
  <2>4. CASE Proceed(a)
    <3>1. /\ req'[a].pc = "writing" /\ req'[a].at = req[a].at
          /\ req'[a].scope = req[a].scope /\ lock' = lock /\ req[a].pc = "inside"
      BY <1>5, <2>4 DEF Proceed, TypeOK, Request
    <3>2. QED BY <1>1, <1>5, <3>1 DEF ScopeInv, Inside, UsesSection, Uses
  <2>5. CASE \E e \in Editors : e = a /\ Edit(e)
    <3>1. PICK s \in Scenarios :
            req'[a] = [pc |-> "locking", at |-> s, scope |-> Related(a, s)]
      BY <2>5 DEF Edit, TypeOK
    <3>2. s \in Related(a, s) BY DEF Related
    <3>3. QED BY <3>1, <3>2 DEF ScopeInv, Inside
  <2>6. QED BY <2>1, <2>2, <2>3, <2>4, <2>5 DEF InScope
<1>7. QED BY <1>4, <1>6 DEF Scoped

(* Who proceeds has seen no conflict. *)
LEMMA ProceedAdmitted ==
  ASSUME TypeOK, Scoped, Ownership, NEW a \in Actors, Proceed(a) PROVE Admitted
<1>1. req[a] \in Request /\ req[a].pc = "inside" BY DEF TypeOK, Proceed
<1>2. /\ req'[a].at = req[a].at
      /\ \A b \in Actors \ {a} : req'[b] = req[b]
  BY <1>1 DEF Proceed, TypeOK, Request
<1>3. req[a].at \in req[a].scope BY <1>1 DEF Scoped, ScopeInv
<1>4. ASSUME NEW k \in Jobs, Active(k) PROVE Clear(a, k)
  <2>1. /\ row[k].owned \intersect req[a].scope = {}
        /\ ~(UsesSection(a) /\ row[k].section)
    BY <1>4 DEF Proceed, Conflict, Owned
  <2>2. row[k].at \in row[k].owned BY <1>4 DEF Ownership, Owns
  <2>3. QED BY <1>3, <2>1, <2>2 DEF Clear
<1>5. QED BY <1>2, <1>4 DEF Admitted

LEMMA TalkKeeps ==
  ASSUME Invariant, NEW a \in Actors,
         TakeLock(a) \/ InScope(a) \/ \E e \in Editors : e = a /\ Edit(e)
  PROVE  Invariant'
<1>0. TypeOK /\ Scoped /\ Lifecycle /\ Ownership BY DEF Invariant
<1>1. TypeOK' /\ Scoped' BY <1>0, TalkTypes, TalkScoped
<1>2. UNCHANGED <<boards, row, work, instance>>
  BY DEF TakeLock, InScope, Enter, Reject, Proceed, Edit
<1>3. req[a] \in Request BY <1>0 DEF TypeOK
<1>4. Admitted
  <2>1. CASE Proceed(a) BY <1>0, <2>1, ProceedAdmitted
  <2>2. CASE ~Proceed(a)
    <3>1. /\ \A b \in Actors \ {a} : req'[b] = req[b]
          /\ req'[a].pc = "writing" => req'[a] = req[a]
      BY <1>0, <1>3, <2>2
      DEF TakeLock, InScope, Enter, Reject, Edit, TypeOK, Request, NoRequest
    <3>2. QED BY <3>1 DEF Admitted
  <2>3. QED BY <2>1, <2>2
<1>5. Lifecycle'
  <2>1. \A b \in Actors : req[b].pc = "done" => req'[b].pc = "done"
    BY <1>0, <1>3 DEF TakeLock, InScope, Enter, Reject, Proceed, Edit, TypeOK
  <2>2. QED
    BY <1>0, <1>2, <2>1 DEF Lifecycle, Unborn, Kept, Prepared, Based, instance, Actors
<1>6. Calm BY <1>0, <1>2, StillCalm DEF Calm
<1>7. QED BY <1>1, <1>4, <1>5, <1>6, CalmKeeps DEF Invariant

-----------------------------------------------------------------------------
(* Reconciliations, and the process. *)

(* A request that is done stays so, and nobody begins to write. *)
Settled ==
  \A a \in Actors : /\ req[a].pc = "done" => req'[a].pc = "done"
                    /\ req'[a].pc = "writing" => req'[a] = req[a]

(* A reconciliation takes no job whose worker has claimed it. *)
LEMMA ReconcilingKeeps ==
  ASSUME Invariant, NEW jobs, row' = Reconciled(jobs), UNCHANGED <<boards, work>>,
         \A j \in jobs \intersect Jobs : work[j].pc \in Claimed => ~row[j].stale,
         sweep' \subseteq sweep, Settled, TypeOK', Scoped'
  PROVE  Invariant'
<1>0. TypeOK /\ Lifecycle BY DEF Invariant
<1>1. ASSUME NEW j \in Jobs PROVE CalmJob(j) /\ Living(j)'
  <2>1. Unborn(j) /\ Kept(j) /\ Prepared(j) BY <1>0 DEF Lifecycle
  <2>2. req'[j].pc # "done" => req[j].pc # "done" BY DEF Settled, Actors
  <2>3. work'[j] = work[j] OBVIOUS
  <2>4. CASE row'[j] = row[j]
    <3>1. CalmJob(j) BY <1>0, <2>3, <2>4, StillCalm
    <3>2. QED BY <2>1, <2>2, <2>3, <2>4, <3>1 DEF Living, Unborn, Kept, Prepared, Based
  <2>5. CASE row'[j] # row[j]
    <3>1. Active(j) /\ row[j].stale /\ j \in jobs /\ row'[j].status = "failed"
      BY <1>0, <2>5, ReconciledType
    <3>2. work[j].pc \notin Claimed BY <3>1
    <3>3. ~Based(j) BY <2>1, <3>2 DEF Prepared, Claimed
    <3>4. CalmJob(j) BY <2>3, <3>1, <3>3 DEF CalmJob, Active, Over, Based
    <3>5. req'[j].pc = "done" BY <2>1, <2>2, <3>1 DEF Unborn, Active
    <3>6. QED BY <2>1, <2>3, <3>2, <3>4, <3>5 DEF Living, Unborn, Kept, Prepared, Based
  <2>6. QED BY <2>4, <2>5
<1>2. Calm /\ Lifecycle' BY <1>1 DEF Calm, Lifecycle, Living
<1>3. Admitted BY DEF Settled, Admitted
<1>4. QED BY <1>2, <1>3, CalmKeeps DEF Invariant

LEMMA SubmitKeeps == ASSUME Invariant, NEW j \in Jobs, Submit(j) PROVE Invariant'
<1>0. TypeOK /\ Scoped /\ Lifecycle BY DEF Invariant
<1>1. j \in Actors /\ req[j].pc = "idle" BY DEF Submit, Actors
<1>2. PICK s \in Scenarios :
        req' = [req EXCEPT ![j] = [pc |-> "locking", at |-> s, scope |-> Related(j, s)]]
  BY DEF Submit
<1>3. /\ req'[j] = [pc |-> "locking", at |-> s, scope |-> Related(j, s)]
      /\ \A b \in Actors \ {j} : req'[b] = req[b]
  BY <1>0, <1>1, <1>2 DEF TypeOK
<1>4. UNCHANGED <<boards, lock, work, instance>> /\ row' = Reconciled(Orphans) BY DEF Submit
<1>5. TypeOK'
  <2>1. [pc |-> "locking", at |-> s, scope |-> Related(j, s)] \in Request
    BY <1>0, <1>1, RelatedType DEF Request
  <2>2. req' \in [Actors -> Request] BY <1>0, <1>2, <2>1 DEF TypeOK
  <2>3. row' \in [Jobs -> Row] BY <1>0, <1>4, ReconciledType
  <2>4. QED BY <1>0, <1>4, <2>2, <2>3 DEF TypeOK, boards, instance
<1>6. Scoped'
  <2>1. \A b \in Actors \ {j} : ScopeInv(b)'
    BY <1>0, <1>1, <1>3, <1>4, OthersScoped DEF boards
  <2>2. ScopeInv(j)' BY <1>3 DEF ScopeInv, Inside, Related
  <2>3. QED BY <2>1, <2>2 DEF Scoped
<1>7. Settled BY <1>1, <1>3 DEF Settled
<1>8. \A k \in Orphans \intersect Jobs : work[k].pc \in Claimed => ~row[k].stale
  BY DEF Orphans, Executing, Claimed
<1>9. QED BY <1>4, <1>5, <1>6, <1>7, <1>8, ReconcilingKeeps DEF instance

LEMMA ReconcileKeeps == ASSUME Invariant, Reconcile PROVE Invariant'
<1>0. TypeOK /\ Scoped /\ Lifecycle BY DEF Invariant
<1>1. UNCHANGED <<boards, requests, work, proc, faults>> /\ row' = Reconciled(sweep) /\ sweep' = {}
  BY DEF Reconcile
<1>2. TypeOK' BY <1>0, <1>1, JobTypes, ReconciledType DEF TypeOK
<1>3. Scoped' BY <1>0, <1>1, ScopedKept DEF boards
<1>4. Settled BY <1>1 DEF Settled, requests
<1>5. \A j \in sweep \intersect Jobs : work[j].pc \in Claimed => ~row[j].stale
  BY <1>0 DEF Lifecycle, Kept
<1>6. QED BY <1>1, <1>2, <1>3, <1>4, <1>5, ReconcilingKeeps

LEMMA InstanceKeeps == ASSUME Invariant, FindOrphans \/ Exit \/ Start PROVE Invariant'
<1>0. TypeOK /\ Scoped /\ Lifecycle BY DEF Invariant
<1>1. /\ UNCHANGED <<boards, requests, row, work>>
      /\ sweep' = sweep \/ sweep' = Orphans
      /\ proc' \in {"up", "exiting", "down"} /\ faults' \in Nat
  BY <1>0 DEF FindOrphans, Exit, Start, Fault, TypeOK
<1>2. Orphans \subseteq Jobs /\ \A j \in Orphans : work[j].pc \notin Claimed
  BY DEF Orphans, Executing, Claimed
<1>3. TypeOK' BY <1>0, <1>1, <1>2, JobTypes DEF TypeOK
<1>4. Scoped' BY <1>0, <1>1, ScopedKept DEF boards
<1>5. Lifecycle'
  BY <1>0, <1>1, <1>2 DEF Lifecycle, Unborn, Kept, Prepared, Based, requests
<1>6. Calm BY <1>0, <1>1, StillCalm DEF Calm
<1>7. Admitted BY <1>1 DEF Admitted, requests
<1>8. QED BY <1>3, <1>4, <1>5, <1>6, <1>7, CalmKeeps DEF Invariant

(* The end of the process. *)
LEMMA DownKeeps == ASSUME Invariant, Down, faults' \in Nat PROVE Invariant'
<1>0. TypeOK /\ Lifecycle BY DEF Invariant
<1>1. UNCHANGED <<boards, row>> BY DEF Down
<1>2. /\ \A a \in Actors : /\ req'[a] \in Request /\ req'[a].pc \in {"idle", "done"}
                           /\ req[a].pc = "done" => req'[a] = req[a]
      /\ req' \in [Actors -> Request]
  BY <1>0, EmptyTypes DEF Down, TypeOK, NoRequest
<1>3. /\ \A j \in Jobs : \/ work'[j] = work[j] /\ work[j].pc \in {"none", "done"}
                         \/ /\ work[j].pc \notin {"none", "done"}
                            /\ work'[j].pc = "dead" /\ ~work'[j].base.taken
      /\ work' \in [Jobs -> Worker]
  <2>1. [NoWork EXCEPT !.pc = "dead"] \in Worker BY EmptyTypes DEF Worker, Steps
  <2>2. QED BY <1>0, <2>1 DEF Down, TypeOK, NoWork, NoBaseline
<1>4. TypeOK' BY <1>0, <1>1, <1>2, <1>3 DEF Down, TypeOK, boards
<1>5. Scoped' BY <1>2 DEF Scoped, ScopeInv, Inside
<1>6. Admitted BY <1>2 DEF Admitted
<1>7. ASSUME NEW j \in Jobs PROVE CalmJob(j) /\ Living(j)'
  <2>1. Unborn(j) /\ Kept(j) /\ Prepared(j) BY <1>0 DEF Lifecycle
  <2>2. req'[j].pc # "done" => req[j].pc # "done" BY <1>2 DEF Actors
  <2>3. CASE work'[j] = work[j] /\ work[j].pc \in {"none", "done"}
    <3>1. CalmJob(j) BY <1>0, <1>1, <2>3, StillCalm
    <3>2. QED BY <1>1, <2>1, <2>2, <2>3, <3>1
          DEF Living, Unborn, Kept, Prepared, Based, Claimed
  <2>4. CASE work[j].pc \notin {"none", "done"} /\ work'[j].pc = "dead" /\ ~work'[j].base.taken
    <3>1. CalmJob(j) BY <1>1, <2>4 DEF CalmJob, SameOwner, Active, Over, Based, Touched
    <3>2. QED BY <1>1, <2>1, <2>2, <2>4, <3>1
          DEF Living, Unborn, Kept, Prepared, Based, Claimed
  <2>5. QED BY <1>3, <2>3, <2>4
<1>8. Calm /\ Lifecycle' BY <1>1, <1>7 DEF Calm, Lifecycle, Living
<1>9. QED BY <1>4, <1>5, <1>6, <1>8, CalmKeeps DEF Invariant

-----------------------------------------------------------------------------
(* Steps that read or write the boards. *)

(* What two active jobs may write is disjoint. *)
LEMMA OursApart ==
  ASSUME TypeOK, Exclusive, NEW j \in Jobs, NEW k \in Jobs, j # k, Active(j), Active(k)
  PROVE  Ours(j) \intersect Ours(k) = {} /\ Ours(j) \subseteq Resources
<1>1. Apart(j, k) BY DEF Exclusive
<1>2. row[j].at \in Scenarios /\ row[k].at \in Scenarios BY RowType
<1>3. QED BY <1>1, <1>2 DEF Apart, Ours, Resources

LEMMA BasedActive ==
  ASSUME Lifecycle, NEW j \in Jobs, Based(j)
  PROVE  row[j].status = "running" /\ Active(j) /\ ~Over(j)
BY DEF Lifecycle, Kept, Prepared, Claimed, Active, Over

(* A baseline is faithful when it is taken. *)
LEMMA SnapshotKeeps == ASSUME Invariant, NEW j \in Jobs, Snapshot(j) PROVE Invariant'
<1>0. TypeOK /\ Scoped /\ Lifecycle /\ Ownership /\ Baselines /\ Marking /\ EditsSurvive
  BY DEF Invariant
<1>1. /\ work' \in [Jobs -> Worker] /\ work'[j].pc = "checking"
      /\ work'[j].base = [taken |-> TRUE, holds |-> holds, edits |-> edits, marks |-> marks]
      /\ \A k \in Jobs \ {j} : work'[k] = work[k]
  BY <1>0, SnapshotType
<1>2. UNCHANGED <<boards, requests, row, instance>> /\ work[j].pc = "claimed" BY DEF Snapshot
<1>3. /\ UNCHANGED <<holds, edits, marks, accepted, lock, req, sweep, proc, faults>>
  BY <1>2 DEF boards, requests, instance
<1>4. Kept(j) /\ Prepared(j) /\ MarksOf(j) /\ Owns(j) BY <1>0 DEF Lifecycle, Marking, Ownership
<1>5. ~Based(j) /\ Active(j) /\ ~Over(j)
  BY <1>2, <1>4 DEF Prepared, Kept, Claimed, Active, Over
<1>6. \A r \in Resources : j \notin marks[r] BY <1>2, <1>4, <1>5 DEF MarksOf
<1>7. TypeOK' BY <1>0, <1>1, <1>2, <1>3, JobTypes DEF TypeOK
<1>8. Scoped' BY <1>0, <1>2, <1>3, ScopedKept
<1>9. Lifecycle'
  BY <1>0, <1>1, <1>2, <1>3 DEF Lifecycle, Unborn, Kept, Prepared, Based, Claimed
<1>10. Ownership'
  BY <1>0, <1>2, <1>3
  DEF Ownership, Owns, Exclusive, Apart, Shielded, Clear, Active, UsesSection, Uses
<1>11. Ours(j)' = Ours(j) /\ Ours(j) \subseteq Resources
  BY <1>0, <1>2, RowType DEF Ours, Resources
<1>12. Baselines'
  <2>1. Faithful(j)'
    BY <1>0, <1>1, <1>2, <1>3, <1>4, <1>5, <1>11 DEF Faithful, Owns, EditsSurvive
  <2>2. \A k \in Jobs \ {j} : Faithful(k)'
    BY <1>0, <1>1, <1>2, <1>3 DEF Baselines, Faithful, Based, Ours
  <2>3. QED BY <2>1, <2>2 DEF Baselines
<1>13. Marking'
  <2>1. MarksOf(j)' BY <1>3, <1>6 DEF MarksOf
  <2>2. OldMarks(j)'
    <3>1. ASSUME NEW r \in Ours(j), NEW k \in marks[r] PROVE Over(k)
      <4>1. k \in Jobs /\ r \in Resources BY <1>0, <1>11, <3>1 DEF TypeOK, Marked
      <4>2. k # j BY <1>6, <3>1, <4>1
      <4>3. SUFFICES ASSUME ~Over(k) PROVE FALSE OBVIOUS
      <4>4. Active(k) /\ r \in Ours(k) BY <1>0, <3>1, <4>1, <4>3 DEF Marking, MarksOf
      <4>5. QED BY <1>0, <1>5, <3>1, <4>1, <4>2, <4>4, OursApart DEF Ownership
    <3>2. QED BY <1>1, <1>2, <1>6, <1>11, <3>1 DEF OldMarks, Over
  <2>3. ASSUME NEW k \in Jobs \ {j} PROVE MarksOf(k)' /\ OldMarks(k)'
    <3>1. work'[k] = work[k] /\ row'[k] = row[k] BY <1>1, <1>2, <2>3
    <3>2. MarksOf(k) /\ OldMarks(k) BY <1>0, <2>3 DEF Marking
    <3>3. MarksOf(k)' BY <1>2, <1>3, <3>1, <3>2 DEF MarksOf, Based, Ours, Over, Active
    <3>4. OldMarks(k)' BY <1>2, <1>3, <3>1, <3>2 DEF OldMarks, Based, Ours, Over
    <3>5. QED BY <3>3, <3>4
  <2>4. QED BY <2>1, <2>2, <2>3 DEF Marking
<1>14. EditsSurvive' /\ CancelHonoured'
  BY <1>2, <1>3 DEF Invariant, EditsSurvive, CancelHonoured
<1>15. QED BY <1>7, <1>8, <1>9, <1>10, <1>12, <1>13, <1>14 DEF Invariant

(* Two requests that are inside have nothing in common. *)
LEMMA InsideApart ==
  ASSUME TypeOK, Scoped, NEW a \in Actors, NEW b \in Actors, a # b, Inside(a), Inside(b)
  PROVE  req[a].at # req[b].at /\ ~(UsesSection(a) /\ UsesSection(b))
<1>1. /\ req[a].at \in req[a].scope /\ lock[req[a].at] = a
      /\ UsesSection(a) => lock[Owner] = a
  BY DEF Scoped, ScopeInv, Inside
<1>2. /\ req[b].at \in req[b].scope /\ lock[req[b].at] = b
      /\ UsesSection(b) => lock[Owner] = b
  BY DEF Scoped, ScopeInv, Inside
<1>3. QED BY <1>1, <1>2

(* An edit that commits has nothing in common with an active job. *)
LEMMA CommitEditKeeps == ASSUME Invariant, NEW e \in Editors, CommitEdit(e) PROVE Invariant'
<1>0. TypeOK /\ Scoped /\ Lifecycle /\ Ownership /\ Baselines /\ Marking /\ EditsSurvive
  BY DEF Invariant
<1>1. e \in Actors /\ req[e] \in Request /\ req[e].pc = "writing" /\ Inside(e)
  BY <1>0 DEF TypeOK, Actors, CommitEdit, Inside
<1>2. UNCHANGED <<marks, row, work, sweep, proc, faults>> BY DEF CommitEdit, instance
<1>3. /\ req' = [req EXCEPT ![e] = [NoRequest EXCEPT !.pc = "done"]]
      /\ lock' = Unlocked(e)
      /\ holds' = holds \union {s \in {req[e].at} : e \in Copiers}
  BY DEF CommitEdit
<1>4. [NoRequest EXCEPT !.pc = "done"] \in Request BY EmptyTypes DEF Request
<1>5. req'[e].pc = "done" /\ \A b \in Actors \ {e} : req'[b] = req[b]
  BY <1>0, <1>1, <1>3, EmptyTypes DEF TypeOK, Request
<1>6. TypeOK'
  <2>1. edits' \in Edited /\ accepted' \in Edited
    BY <1>0 DEF CommitEdit, TypeOK, Edited
  <2>2. holds' \subseteq Scenarios BY <1>0, <1>1, <1>3 DEF TypeOK, Request
  <2>3. req' \in [Actors -> Request] BY <1>0, <1>3, <1>4 DEF TypeOK
  <2>4. lock' \in [Scenarios -> Actors \union {Nobody}] BY <1>0, <1>3 DEF TypeOK, Unlocked
  <2>5. QED BY <1>0, <1>2, <2>1, <2>2, <2>3, <2>4 DEF TypeOK
<1>7. ASSUME NEW b \in Actors \ {e}, Inside(b) PROVE UsesSection(b)' = UsesSection(b)
  <2>1. req[b].at # req[e].at BY <1>0, <1>1, <1>7, InsideApart
  <2>2. QED BY <1>3, <1>5, <1>7, <2>1 DEF UsesSection, Uses
<1>8. Scoped'
  <2>1. ASSUME NEW b \in Actors \ {e} PROVE ScopeInv(b)'
    <3>1. ScopeInv(b) /\ req'[b] = req[b] /\ req[b].scope \subseteq Scenarios
      BY <1>0, <1>5, <2>1 DEF Scoped, TypeOK, Request
    <3>2. \A s \in Scenarios : lock[s] = b => lock'[s] = b BY <1>3, <2>1 DEF Unlocked
    <3>3. QED BY <1>7, <2>1, <3>1, <3>2 DEF ScopeInv, Inside
  <2>2. ScopeInv(e)' BY <1>5 DEF ScopeInv, Inside
  <2>3. QED BY <2>1, <2>2 DEF Scoped
<1>9. Lifecycle'
  <2>1. \A j \in Jobs : req'[j] = req[j] BY <1>5 DEF Actors
  <2>2. QED BY <1>0, <1>2, <2>1 DEF Lifecycle, Unborn, Kept, Prepared, Based
<1>10. ASSUME NEW j \in Jobs, Active(j)
       PROVE  /\ row[j].section => holds' = holds
              /\ row[j].at \in holds' => row[j].at \in holds
              /\ \A r \in Ours(j) : r \in Resources /\ accepted'[r] = accepted[r]
  <2>1. Clear(e, j) BY <1>0, <1>1, <1>10 DEF Ownership, Shielded
  <2>2. e \in Copiers => UsesSection(e) BY DEF UsesSection, Uses
  <2>3. row[j].at \in Scenarios /\ req[e].at \in Scenarios BY <1>0, <1>1, RowType DEF Request
  <2>4. ASSUME NEW r \in Ours(j) PROVE r \in Resources /\ r \notin Written(e)
    BY <2>1, <2>3, <2>4 DEF Ours, Written, Clear, Resources
  <2>5. ASSUME NEW r \in Ours(j) PROVE r \in Resources /\ accepted'[r] = accepted[r]
    BY <2>4, <2>5 DEF CommitEdit
  <2>6. QED BY <1>3, <2>1, <2>2, <2>5 DEF Clear
<1>11. Ownership'
  <2>1. \A j \in Jobs : Owns(j)' BY <1>0, <1>2, <1>10 DEF Ownership, Owns, Active
  <2>2. Exclusive' BY <1>0, <1>2 DEF Ownership, Exclusive, Apart, Active
  <2>3. ASSUME NEW a \in Actors, NEW k \in Jobs, req'[a].pc = "writing", Active(k)'
        PROVE  Clear(a, k)'
    <3>1. a # e /\ req'[a] = req[a] BY <1>5, <2>3
    <3>2. Inside(a) /\ Active(k) BY <1>2, <2>3, <3>1 DEF Inside, Active
    <3>3. UsesSection(a)' = UsesSection(a) BY <1>7, <3>1, <3>2
    <3>4. Clear(a, k) BY <1>0, <2>3, <3>1, <3>2 DEF Ownership, Shielded
    <3>5. QED BY <1>2, <3>1, <3>3, <3>4 DEF Clear
  <2>4. QED BY <2>1, <2>2, <2>3 DEF Ownership, Shielded
<1>12. Baselines'
  <2>1. ASSUME NEW j \in Jobs, Based(j) PROVE Faithful(j)'
    <3>1. Active(j) /\ Faithful(j) BY <1>0, <2>1, BasedActive DEF Baselines
    <3>2. Ours(j)' = Ours(j) /\ work'[j] = work[j] /\ row'[j] = row[j] BY <1>2 DEF Ours
    <3>3. /\ row[j].section => holds' = holds
          /\ row[j].at \in holds' => row[j].at \in holds
      BY <1>10, <3>1
    <3>4. \A r \in Ours(j) : accepted'[r] = accepted[r] BY <1>10, <3>1
    <3>5. QED BY <2>1, <3>1, <3>2, <3>3, <3>4 DEF Faithful
  <2>2. QED BY <1>2, <2>1 DEF Baselines, Faithful, Based
<1>13. Marking'
  BY <1>0, <1>2 DEF Marking, MarksOf, OldMarks, Based, Ours, Over, Active
<1>14. EditsSurvive'
  BY <1>0, <1>6 DEF EditsSurvive, CommitEdit, TypeOK, Edited
<1>15. CancelHonoured' BY <1>2 DEF Invariant, CancelHonoured
<1>16. QED BY <1>6, <1>8, <1>9, <1>11, <1>12, <1>13, <1>14, <1>15 DEF Invariant

(* A job begins to own what no active job owns and no other request writes. *)
LEMMA CreateTypes ==
  ASSUME TypeOK, NEW j \in Jobs, Create(j)
  PROVE  /\ TypeOK'
         /\ row'[j] = [NoRow EXCEPT !.status = "queued", !.at = req[j].at,
                                    !.owned = req[j].scope, !.section = UsesSection(j)]
         /\ work'[j].pc \in {"entering", "pooled"} /\ work'[j].base = work[j].base
         /\ req'[j].pc = "done"
         /\ \A k \in Jobs \ {j} : row'[k] = row[k] /\ work'[k] = work[k]
         /\ \A b \in Actors \ {j} : req'[b] = req[b]
<1>1. j \in Actors /\ req[j] \in Request /\ work[j] \in Worker BY DEF TypeOK, Actors
<1>2. UsesSection(j) \in BOOLEAN BY DEF UsesSection, Uses
<1>3. [NoRow EXCEPT !.status = "queued", !.at = req[j].at,
                    !.owned = req[j].scope, !.section = UsesSection(j)] \in Row
  BY <1>1, <1>2, EmptyTypes DEF Row, Request
<1>4. /\ row' \in [Jobs -> Row] /\ \A k \in Jobs \ {j} : row'[k] = row[k]
      /\ row'[j] = [NoRow EXCEPT !.status = "queued", !.at = req[j].at,
                                 !.owned = req[j].scope, !.section = UsesSection(j)]
  BY <1>3 DEF Create, TypeOK
<1>5. /\ work' \in [Jobs -> Worker] /\ work'[j].pc \in {"entering", "pooled"}
      /\ work'[j].base = work[j].base /\ \A k \in Jobs \ {j} : work'[k] = work[k]
  <2>1. PICK s \in {"entering", "pooled"} : work' = [work EXCEPT ![j].pc = s] BY DEF Create
  <2>2. s \in Steps BY DEF Steps
  <2>3. QED BY <2>1, <2>2, WorkStepType
<1>6. [NoRequest EXCEPT !.pc = "done"] \in Request BY EmptyTypes DEF Request
<1>7. /\ req' \in [Actors -> Request] /\ req'[j].pc = "done"
      /\ \A b \in Actors \ {j} : req'[b] = req[b]
  BY <1>1, <1>6, EmptyTypes DEF Create, TypeOK, Request
<1>8. lock' \in [Scenarios -> Actors \union {Nobody}] BY DEF Create, TypeOK, Unlocked
<1>9. TypeOK' BY <1>4, <1>5, <1>7, <1>8 DEF Create, TypeOK, boards, instance
<1>10. QED BY <1>4, <1>5, <1>7, <1>9

LEMMA CreateKeeps == ASSUME Invariant, NEW j \in Jobs, Create(j) PROVE Invariant'
<1>0. TypeOK /\ Scoped /\ Lifecycle /\ Ownership /\ Baselines /\ Marking /\ EditsSurvive
  BY DEF Invariant
<1>1. /\ TypeOK'
      /\ row'[j] = [NoRow EXCEPT !.status = "queued", !.at = req[j].at,
                                 !.owned = req[j].scope, !.section = UsesSection(j)]
      /\ work'[j].pc \in {"entering", "pooled"} /\ work'[j].base = work[j].base
      /\ req'[j].pc = "done"
      /\ \A k \in Jobs \ {j} : row'[k] = row[k] /\ work'[k] = work[k]
      /\ \A b \in Actors \ {j} : req'[b] = req[b]
  BY <1>0, CreateTypes
<1>2. /\ row'[j].status = "queued" /\ row'[j].at = req[j].at
      /\ row'[j].owned = req[j].scope /\ row'[j].section = UsesSection(j)
  BY <1>1 DEF NoRow
<1>3. j \in Actors /\ req[j].pc = "writing" /\ Inside(j) BY DEF Create, Actors, Inside
<1>4. UNCHANGED <<holds, edits, marks, accepted, sweep, proc, faults>> /\ lock' = Unlocked(j)
  BY DEF Create, boards, instance
<1>5. row[j].status = "none" /\ work[j].pc = "none" /\ ~Based(j) /\ ~Over(j) /\ ~Active(j)
  BY <1>0, <1>3 DEF Lifecycle, Unborn, Prepared, Over, Active
<1>6. ~Based(j)' BY <1>1, <1>5 DEF Based
<1>7. Scoped'
  <2>1. \A s \in Scenarios : lock[s] \notin {j, Nobody} => lock'[s] = lock[s]
    BY <1>0, <1>3, <1>4, UnlockedType
  <2>2. \A b \in Actors \ {j} : ScopeInv(b)' BY <1>0, <1>1, <1>3, <1>4, <2>1, OthersScoped
  <2>3. ScopeInv(j)' BY <1>1 DEF ScopeInv, Inside
  <2>4. QED BY <2>2, <2>3 DEF Scoped
<1>8. Lifecycle'
  <2>1. Living(j)' BY <1>1, <1>6 DEF Living, Unborn, Kept, Prepared, Claimed
  <2>2. \A k \in Jobs \ {j} : Living(k)'
    BY <1>0, <1>1, <1>4 DEF Lifecycle, Living, Unborn, Kept, Prepared, Based, Actors
  <2>3. QED BY <2>1, <2>2 DEF Lifecycle, Living
<1>9. Ownership'
  <2>1. Owns(j)'
    <3>1. req[j].at \in req[j].scope BY <1>0, <1>3 DEF Scoped, ScopeInv
    <3>2. req[j].at \in holds \union {Owner} => UsesSection(j) BY DEF UsesSection, Uses
    <3>3. QED BY <1>2, <1>4, <3>1, <3>2 DEF Owns
  <2>2. \A k \in Jobs \ {j} : Owns(k)' BY <1>0, <1>1, <1>4 DEF Ownership, Owns, Active
  <2>3. Exclusive'
    <3>1. ASSUME NEW k \in Jobs \ {j}, Active(k) PROVE Apart(j, k)' /\ Apart(k, j)'
      <4>1. Clear(j, k) BY <1>0, <1>3, <3>1 DEF Ownership, Shielded
      <4>2. QED BY <1>1, <1>2, <4>1 DEF Clear, Apart
    <3>2. ASSUME NEW i \in Jobs \ {j}, NEW k \in Jobs \ {j}, Active(i), Active(k), i # k
          PROVE  Apart(i, k)'
      BY <1>0, <1>1, <3>2 DEF Ownership, Exclusive, Apart
    <3>3. \A k \in Jobs \ {j} : Active(k)' = Active(k) BY <1>1 DEF Active
    <3>4. QED BY <3>1, <3>2, <3>3 DEF Exclusive
  <2>4. ASSUME NEW a \in Actors, NEW k \in Jobs, req'[a].pc = "writing", Active(k)'
        PROVE  Clear(a, k)'
    <3>1. a # j /\ req'[a] = req[a] BY <1>1, <2>4
    <3>2. UsesSection(a)' = UsesSection(a) BY <1>4, <3>1 DEF UsesSection, Uses
    <3>3. CASE k = j
      <4>1. Inside(a) BY <2>4, <3>1 DEF Inside
      <4>2. req[a].at # req[j].at /\ ~(UsesSection(a) /\ UsesSection(j))
        BY <1>0, <1>3, <3>1, <4>1, InsideApart
      <4>3. QED BY <1>2, <3>1, <3>2, <3>3, <4>2 DEF Clear
    <3>4. CASE k # j
      <4>1. row'[k] = row[k] BY <1>1, <3>4
      <4>2. Clear(a, k) BY <1>0, <2>4, <3>1, <4>1 DEF Ownership, Shielded, Active
      <4>3. QED BY <3>1, <3>2, <4>1, <4>2 DEF Clear
    <3>5. QED BY <3>3, <3>4
  <2>5. QED BY <2>1, <2>2, <2>3, <2>4 DEF Ownership, Shielded
<1>10. Baselines'
  <2>1. Faithful(j)' BY <1>6 DEF Faithful
  <2>2. \A k \in Jobs \ {j} : Faithful(k)'
    BY <1>0, <1>1, <1>4 DEF Baselines, Faithful, Based, Ours
  <2>3. QED BY <2>1, <2>2 DEF Baselines
<1>11. Marking'
  <2>1. MarksOf(j)' /\ OldMarks(j)'
    BY <1>0, <1>4, <1>5, <1>6 DEF Marking, MarksOf, OldMarks
  <2>2. ASSUME NEW k \in Jobs \ {j} PROVE MarksOf(k)' /\ OldMarks(k)'
    <3>1. work'[k] = work[k] /\ row'[k] = row[k] BY <1>1, <2>2
    <3>2. MarksOf(k) /\ OldMarks(k) BY <1>0, <2>2 DEF Marking
    <3>3. MarksOf(k)' BY <1>4, <3>1, <3>2 DEF MarksOf, Based, Ours, Over, Active
    <3>4. OldMarks(k)'
      <4>1. Ours(k)' = Ours(k) /\ Ours(k) \subseteq Resources
        BY <1>0, <3>1, RowType DEF Ours, Resources
      <4>2. ASSUME NEW r \in Ours(k), NEW i \in work[k].base.marks[r], Over(i)
            PROVE  Over(i)'
        <5>1. i \in Jobs BY <1>0, <4>1, <4>2, BaseType DEF Marked
        <5>2. i # j BY <1>5, <4>2
        <5>3. QED BY <1>1, <4>2, <5>1, <5>2 DEF Over
      <4>3. QED BY <3>1, <3>2, <4>1, <4>2 DEF OldMarks, Based
    <3>5. QED BY <3>3, <3>4
  <2>3. QED BY <2>1, <2>2 DEF Marking
<1>12. EditsSurvive' BY <1>0, <1>4 DEF EditsSurvive
<1>13. CancelHonoured' BY <1>1, <1>2 DEF Invariant, CancelHonoured
<1>14. QED BY <1>1, <1>7, <1>8, <1>9, <1>10, <1>11, <1>12, <1>13 DEF Invariant

(* A job that writes to its own scenario, and to the section if it owns    *)
(* it, disturbs no request and no other job.                               *)
LEMMA OthersKept ==
  ASSUME Invariant, NEW j \in Jobs, Based(j), UNCHANGED <<accepted, requests>>,
         \A k \in Jobs \ {j} : row'[k] = row[k] /\ work'[k] = work[k],
         holds' # holds => row[j].section,
         holds' \ {row[j].at} = holds \ {row[j].at},
         row[j].at \in holds' => row[j].at \in holds \union {Owner} \/ lock[row[j].at] = Nobody,
         \A r \in Resources, k \in Jobs \ {j} : k \in marks'[r] => k \in marks[r] \/ Over(k),
         Over(j) => Over(j)'
  PROVE  /\ Scoped'
         /\ \A a \in Actors : Inside(a) /\ UsesSection(a)' => UsesSection(a)
         /\ \A k \in Jobs \ {j} : Owns(k)' /\ Faithful(k)' /\ MarksOf(k)' /\ OldMarks(k)'
<1>0. TypeOK /\ Scoped /\ Lifecycle /\ Ownership /\ Baselines /\ Marking BY DEF Invariant
<1>1. Active(j) BY <1>0, BasedActive
<1>2. UNCHANGED <<lock, req>> BY DEF requests
<1>3. ASSUME NEW a \in Actors, Inside(a), UsesSection(a)' PROVE UsesSection(a)
  <2>1. lock[req[a].at] = a BY <1>0, <1>3 DEF Scoped, ScopeInv, Inside
  <2>2. a # Nobody BY DEF Actors
  <2>3. req[a].at = row[j].at => (row[j].at \in holds' => row[j].at \in holds \union {Owner})
    BY <2>1, <2>2
  <2>4. req[a].at # row[j].at => (req[a].at \in holds' => req[a].at \in holds) OBVIOUS
  <2>5. QED BY <1>2, <1>3, <2>3, <2>4 DEF UsesSection, Uses
<1>4. Scoped'
  <2>1. ASSUME NEW a \in Actors PROVE ScopeInv(a)'
    <3>1. ScopeInv(a) BY <1>0 DEF Scoped
    <3>2. Inside(a)' = Inside(a) BY <1>2 DEF Inside
    <3>3. QED BY <1>2, <1>3, <3>1, <3>2 DEF ScopeInv
  <2>2. QED BY <2>1 DEF Scoped
<1>5. ASSUME NEW k \in Jobs \ {j} PROVE Owns(k)' /\ Faithful(k)' /\ MarksOf(k)' /\ OldMarks(k)'
  <2>1. row'[k] = row[k] /\ work'[k] = work[k] BY <1>5
  <2>2. Owns(k) /\ Faithful(k) /\ MarksOf(k) /\ OldMarks(k)
    BY <1>0, <1>5 DEF Ownership, Baselines, Marking
  <2>3. Active(k) => /\ row[k].at # row[j].at
                     /\ ~(row[k].section /\ row[j].section)
    BY <1>0, <1>1, <1>5 DEF Ownership, Exclusive, Apart
  <2>4. Active(k) => /\ row[k].section => holds' = holds
                     /\ row[k].at \in holds' => row[k].at \in holds
    <3>1. ASSUME Active(k), row[k].at \in holds' PROVE row[k].at \in holds BY <2>3, <3>1
    <3>2. QED BY <2>3, <3>1
  <2>5. Owns(k)' BY <2>1, <2>2, <2>4 DEF Owns, Active
  <2>6. Based(k) => Active(k) BY <1>0, <1>5, BasedActive
  <2>7. Faithful(k)' BY <2>1, <2>2, <2>4, <2>6 DEF Faithful, Based, Ours
  <2>8. MarksOf(k)' BY <1>5, <2>1, <2>2 DEF MarksOf, Based, Ours, Over, Active
  <2>9. OldMarks(k)'
    <3>1. Ours(k)' = Ours(k) /\ Ours(k) \subseteq Resources
      BY <1>0, <1>5, <2>1, RowType DEF Ours, Resources
    <3>2. ASSUME NEW r \in Ours(k), NEW i \in work[k].base.marks[r], Over(i) PROVE Over(i)'
      <4>1. i \in Jobs BY <1>0, <1>5, <3>1, <3>2, BaseType DEF Marked
      <4>2. QED BY <3>2, <4>1 DEF Over
    <3>3. QED BY <2>1, <2>2, <3>1, <3>2 DEF OldMarks, Based
  <2>10. QED BY <2>5, <2>7, <2>8, <2>9
<1>6. QED BY <1>3, <1>4, <1>5

(* What a phase rewrites is the job's own. *)
LEMMA RewritesOurs ==
  ASSUME TypeOK, Lifecycle, Ownership, Baselines, NEW j \in Jobs, NEW next, Persist(j, next)
  PROVE  /\ Based(j) /\ Active(j) /\ ~Over(j)
         /\ Rewrites(row[j].at) \subseteq Ours(j) /\ Ours(j) \subseteq Resources
         /\ Shared \in Rewrites(row[j].at) => row[j].at \in work[j].base.holds \union {Owner}
         /\ holds' \subseteq Scenarios
         /\ holds' # holds => row[j].section
         /\ holds' \ {row[j].at} = holds \ {row[j].at}
         /\ row[j].at \in holds' => row[j].at \in holds \union {Owner}
<1>1. Based(j) BY DEF Lifecycle, Prepared, Persist
<1>2. Active(j) /\ ~Over(j) BY <1>1, BasedActive
<1>3. Owns(j) /\ Faithful(j) BY DEF Ownership, Baselines
<1>4. row[j].at \in Scenarios /\ row[j].at # Shared BY RowType
<1>5. row[j].at \in holds \union {Owner} => row[j].section BY <1>2, <1>3 DEF Owns
<1>6. Rewrites(row[j].at) \subseteq Ours(j) BY <1>5 DEF Rewrites, Ours
<1>7. Ours(j) \subseteq Resources BY <1>4 DEF Ours, Resources
<1>8. Shared \in Rewrites(row[j].at) => row[j].at \in holds \union {Owner}
  BY <1>4 DEF Rewrites
<1>9. \/ holds' = holds \/ holds' = holds \ {row[j].at}
      \/ holds' = holds \union ({row[j].at} \intersect {Owner})
  BY DEF Persist, Rebuilt
<1>10. row[j].at \in holds => row[j].at \in work[j].base.holds \union {Owner}
  BY <1>1, <1>3 DEF Faithful
<1>11. holds' \subseteq Scenarios BY <1>4, <1>9 DEF TypeOK
<1>12. holds' # holds => row[j].section BY <1>5, <1>9
<1>13. holds' \ {row[j].at} = holds \ {row[j].at} BY <1>9
<1>14. row[j].at \in holds' => row[j].at \in holds \union {Owner} BY <1>9
<1>15. QED BY <1>1, <1>2, <1>6, <1>7, <1>8, <1>10, <1>11, <1>12, <1>13, <1>14

LEMMA PersistKeeps ==
  ASSUME Invariant, NEW j \in Jobs, NEW next \in {"checking", "finalising"}, Persist(j, next)
  PROVE  Invariant'
<1>0. TypeOK /\ Scoped /\ Lifecycle /\ Ownership /\ Baselines /\ Marking /\ EditsSurvive
  BY DEF Invariant
<1>1. /\ Based(j) /\ Active(j) /\ ~Over(j)
      /\ Rewrites(row[j].at) \subseteq Ours(j) /\ Ours(j) \subseteq Resources
      /\ Shared \in Rewrites(row[j].at) => row[j].at \in work[j].base.holds \union {Owner}
      /\ holds' \subseteq Scenarios
      /\ holds' # holds => row[j].section
      /\ holds' \ {row[j].at} = holds \ {row[j].at}
      /\ row[j].at \in holds' => row[j].at \in holds \union {Owner}
  BY <1>0, RewritesOurs
<1>2. /\ work' \in [Jobs -> Worker] /\ work'[j].pc = next /\ work'[j].base = work[j].base
      /\ \A k \in Jobs \ {j} : work'[k] = work[k]
  <2>1. work' = [work EXCEPT ![j].pc = next] /\ next \in Steps BY DEF Persist, Steps
  <2>2. QED BY <1>0, <2>1, WorkStepType
<1>3. UNCHANGED <<accepted, requests, row, instance>> /\ work[j].pc = "working" BY DEF Persist
<1>4. /\ edits' = [r \in Resources |-> IF r \in Rewrites(row[j].at)
                                       THEN work[j].base.edits[r] ELSE edits[r]]
      /\ marks' = [r \in Resources |-> IF r \in Rewrites(row[j].at)
                                       THEN marks[r] \union {j} ELSE marks[r]]
  BY DEF Persist
<1>5. TypeOK'
  <2>1. edits' \in Edited BY <1>0, <1>4, BaseType DEF TypeOK, Edited
  <2>2. marks' \in Marked BY <1>0, <1>4 DEF TypeOK, Marked
  <2>3. QED BY <1>0, <1>1, <1>2, <1>3, <2>1, <2>2 DEF TypeOK, requests, instance
<1>6. \A r \in Resources, k \in Jobs \ {j} : k \in marks'[r] => k \in marks[r] BY <1>4
<1>7. /\ Scoped'
      /\ \A a \in Actors : Inside(a) /\ UsesSection(a)' => UsesSection(a)
      /\ \A k \in Jobs \ {j} : Owns(k)' /\ Faithful(k)' /\ MarksOf(k)' /\ OldMarks(k)'
  BY <1>1, <1>2, <1>3, <1>6, OthersKept
<1>8. Lifecycle'
  <2>1. Living(j)'
    BY <1>0, <1>1, <1>2, <1>3
    DEF Lifecycle, Living, Unborn, Kept, Prepared, Based, Claimed, requests, instance
  <2>2. \A k \in Jobs \ {j} : Living(k)'
    BY <1>0, <1>2, <1>3
    DEF Lifecycle, Living, Unborn, Kept, Prepared, Based, requests, instance
  <2>3. QED BY <2>1, <2>2 DEF Lifecycle, Living
<1>9. Ownership'
  <2>1. Owns(j)' BY <1>0, <1>1, <1>3 DEF Ownership, Owns, Active
  <2>2. Exclusive' BY <1>0, <1>3 DEF Ownership, Exclusive, Apart, Active
  <2>3. Shielded'
    BY <1>0, <1>3, <1>7 DEF Ownership, Shielded, Clear, Active, Inside, requests
  <2>4. QED BY <1>7, <2>1, <2>2, <2>3 DEF Ownership
<1>10. Baselines'
  <2>1. Faithful(j) BY <1>0 DEF Baselines
  <2>2. Faithful(j)' BY <1>1, <1>2, <1>3, <2>1 DEF Faithful, Based, Ours
  <2>3. QED BY <1>7, <2>2 DEF Baselines
<1>11. Marking'
  <2>1. MarksOf(j) /\ OldMarks(j) BY <1>0 DEF Marking
  <2>2. MarksOf(j)'
    <3>1. ASSUME NEW r \in Resources, j \in marks'[r]
          PROVE  r \in Ours(j) /\ (r = Shared => row[j].at \in work[j].base.holds \union {Owner})
      BY <1>1, <1>4, <2>1, <3>1 DEF MarksOf
    <3>2. QED BY <1>1, <1>2, <1>3, <3>1 DEF MarksOf, Based, Ours, Active
  <2>3. OldMarks(j)' BY <1>2, <1>3, <2>1 DEF OldMarks, Based, Ours, Over
  <2>4. QED BY <1>7, <2>2, <2>3 DEF Marking
<1>12. EditsSurvive'
  <2>1. \A r \in Ours(j) : accepted[r] \subseteq work[j].base.edits[r]
    BY <1>0, <1>1 DEF Baselines, Faithful
  <2>2. QED BY <1>0, <1>1, <1>3, <1>4, <2>1 DEF EditsSurvive
<1>13. CancelHonoured' BY <1>3 DEF Invariant, CancelHonoured
<1>14. QED BY <1>5, <1>7, <1>8, <1>9, <1>10, <1>11, <1>12, <1>13 DEF Invariant

(* What a restore puts back is all that the job may have written. *)
RestoredBy(j) ==
  {row[j].at} \union (IF row[j].at \in work[j].base.holds \union {Owner} THEN {Shared} ELSE {})

LEMMA RestoreOurs ==
  ASSUME TypeOK, Lifecycle, Ownership, Baselines, NEW j \in Jobs, Based(j), Restore(j)
  PROVE  /\ RestoredBy(j) \subseteq Ours(j) /\ Ours(j) \subseteq Resources
         /\ holds' \subseteq Scenarios
         /\ holds' # holds => row[j].section
         /\ holds' \ {row[j].at} = holds \ {row[j].at}
<1>1. Active(j) BY BasedActive
<1>2. Owns(j) /\ Faithful(j) BY DEF Ownership, Baselines
<1>3. row[j].at \in Scenarios /\ work[j].base.holds \subseteq Scenarios BY RowType, BaseType
<1>4. row[j].at \in work[j].base.holds \union holds \union {Owner} => row[j].section
  BY <1>1, <1>2 DEF Owns, Faithful
<1>5. RestoredBy(j) \subseteq Ours(j) BY <1>4 DEF RestoredBy, Ours
<1>6. Ours(j) \subseteq Resources BY <1>3 DEF Ours, Resources
<1>7. CASE row[j].at = Owner
  <2>1. holds' = work[j].base.holds
    BY <1>3, <1>7 DEF Restore, RestoreCopies, TypeOK
  <2>2. row[j].section BY <1>4, <1>7
  <2>3. QED BY <1>2, <1>3, <1>5, <1>6, <2>1, <2>2 DEF Faithful
<1>8. CASE row[j].at # Owner
  <2>1. holds' = (holds \ {row[j].at}) \union (work[j].base.holds \intersect {row[j].at})
    BY <1>8 DEF Restore, RestoreCopies
  <2>2. holds' \ {row[j].at} = holds \ {row[j].at} BY <2>1
  <2>3. holds' # holds => row[j].section BY <1>4, <2>1
  <2>4. holds' \subseteq Scenarios BY <1>3, <2>1 DEF TypeOK
  <2>5. QED BY <1>5, <1>6, <2>2, <2>3, <2>4
<1>9. QED BY <1>7, <1>8

LEMMA RestoreKeeps ==
  ASSUME Invariant, NEW j \in Jobs, Based(j), Restore(j), Done(j), EndAs(j, "cancelled"),
         UNCHANGED <<accepted, requests, instance>>
  PROVE  Invariant'
<1>0. TypeOK /\ Scoped /\ Lifecycle /\ Ownership /\ Baselines /\ Marking /\ EditsSurvive
  BY DEF Invariant
<1>1. /\ RestoredBy(j) \subseteq Ours(j) /\ Ours(j) \subseteq Resources
      /\ holds' \subseteq Scenarios
      /\ holds' # holds => row[j].section
      /\ holds' \ {row[j].at} = holds \ {row[j].at}
  BY <1>0, RestoreOurs
<1>2. Active(j) /\ ~Over(j) BY <1>0, BasedActive
<1>3. /\ work' \in [Jobs -> Worker] /\ work'[j].pc = "done" /\ ~work'[j].base.taken
      /\ \A k \in Jobs \ {j} : work'[k] = work[k]
  BY <1>0, DoneType
<1>4. /\ row' \in [Jobs -> Row] /\ \A k \in Jobs \ {j} : row'[k] = row[k]
      /\ row'[j].status = "cancelled"
  BY <1>0, EndAsType DEF Statuses
<1>5. ~Active(j)' /\ ~Based(j)' BY <1>3, <1>4 DEF Active, Based
<1>6. /\ edits' = [r \in Resources |-> IF r \in RestoredBy(j)
                                       THEN work[j].base.edits[r] ELSE edits[r]]
      /\ marks' = [r \in Resources |-> IF r \in RestoredBy(j)
                                       THEN work[j].base.marks[r] ELSE marks[r]]
      /\ lock[row[j].at] = Nobody
  BY DEF Restore, RestoredBy
<1>7. MarksOf(j) /\ OldMarks(j) BY <1>0 DEF Marking
<1>8. TypeOK'
  <2>1. edits' \in Edited BY <1>0, <1>6, BaseType DEF TypeOK, Edited
  <2>2. marks' \in Marked BY <1>0, <1>6, BaseType DEF TypeOK, Marked
  <2>3. QED BY <1>0, <1>1, <1>3, <1>4, <2>1, <2>2 DEF TypeOK, requests, instance
<1>9. \A r \in Resources, k \in Jobs \ {j} : k \in marks'[r] => k \in marks[r] \/ Over(k)
  <2>1. ASSUME NEW r \in RestoredBy(j), NEW k \in work[j].base.marks[r] PROVE Over(k)
    BY <1>1, <1>7, <2>1 DEF OldMarks
  <2>2. QED BY <1>6, <2>1
<1>10. /\ Scoped'
       /\ \A a \in Actors : Inside(a) /\ UsesSection(a)' => UsesSection(a)
       /\ \A k \in Jobs \ {j} : Owns(k)' /\ Faithful(k)' /\ MarksOf(k)' /\ OldMarks(k)'
  BY <1>1, <1>2, <1>3, <1>4, <1>6, <1>9, OthersKept
<1>11. Lifecycle'
  <2>1. Living(j)'
    BY <1>0, <1>2, <1>3, <1>5
    DEF Lifecycle, Living, Unborn, Kept, Prepared, Claimed, requests, Active
  <2>2. \A k \in Jobs \ {j} : Living(k)'
    BY <1>0, <1>3, <1>4 DEF Lifecycle, Living, Unborn, Kept, Prepared, Based, requests, instance
  <2>3. QED BY <2>1, <2>2 DEF Lifecycle, Living
<1>12. Ownership'
  <2>1. Owns(j)' BY <1>5 DEF Owns
  <2>2. \A k \in Jobs \ {j} : row'[k] = row[k] /\ Active(k)' = Active(k) BY <1>4 DEF Active
  <2>3. Exclusive' BY <1>0, <1>5, <2>2 DEF Ownership, Exclusive, Apart
  <2>4. ASSUME NEW a \in Actors, NEW k \in Jobs, req'[a].pc = "writing", Active(k)'
        PROVE  Clear(a, k)'
    <3>1. k # j /\ req' = req BY <1>5, <2>4 DEF requests
    <3>2. row'[k] = row[k] /\ Active(k) BY <2>2, <2>4, <3>1
    <3>3. Clear(a, k) /\ Inside(a) BY <1>0, <2>4, <3>1, <3>2 DEF Ownership, Shielded, Inside
    <3>4. UsesSection(a)' => UsesSection(a) BY <1>10, <3>3
    <3>5. QED BY <3>1, <3>2, <3>3, <3>4 DEF Clear
  <2>5. QED BY <1>10, <2>1, <2>3, <2>4 DEF Ownership, Shielded
<1>13. Baselines' BY <1>5, <1>10 DEF Baselines, Faithful
<1>14. Marking'
  <2>1. MarksOf(j)'
    <3>1. ASSUME NEW r \in Resources PROVE j \notin marks'[r]
      <4>1. CASE r \in RestoredBy(j)
        <5>1. j \notin work[j].base.marks[r] BY <1>7, <3>1 DEF OldMarks
        <5>2. QED BY <1>6, <3>1, <4>1, <5>1
      <4>2. CASE r \notin RestoredBy(j)
        <5>1. j \notin marks[r]
          BY <1>2, <1>7, <3>1, <4>2 DEF MarksOf, Ours, RestoredBy
        <5>2. QED BY <1>6, <3>1, <4>2, <5>1
      <4>3. QED BY <4>1, <4>2
    <3>2. QED BY <3>1 DEF MarksOf
  <2>2. OldMarks(j)' BY <1>5 DEF OldMarks
  <2>3. QED BY <1>10, <2>1, <2>2 DEF Marking
<1>15. EditsSurvive'
  <2>1. \A r \in Ours(j) : accepted[r] \subseteq work[j].base.edits[r]
    BY <1>0 DEF Baselines, Faithful
  <2>2. QED BY <1>0, <1>1, <1>6, <2>1 DEF EditsSurvive
<1>16. CancelHonoured' BY <1>4 DEF Invariant, CancelHonoured
<1>17. QED BY <1>8, <1>10, <1>11, <1>12, <1>13, <1>14, <1>15, <1>16 DEF Invariant

LEMMA FinaliseKeeps == ASSUME Invariant, NEW j \in Jobs, Finalise(j) PROVE Invariant'
<1>0. TypeOK /\ Lifecycle BY DEF Invariant
<1>1. work[j].pc = "finalising" /\ Kept(j) BY <1>0 DEF Lifecycle, Finalise
<1>2. row[j].status = "running" /\ Active(j) BY <1>1 DEF Kept, Claimed, Active
<1>3. Done(j) /\ UNCHANGED <<accepted, requests, instance>> BY DEF Finalise
<1>4. faults' \in Nat BY <1>0, <1>3 DEF TypeOK, instance
<1>5. CASE row[j].cancel /\ Based(j)
  BY <1>2, <1>3, <1>5, RestoreKeeps DEF Finalise, Based
<1>6. CASE row[j].cancel /\ ~Based(j)
  <2>1. EndAs(j, "cancelled") /\ UNCHANGED boards
    BY <1>2, <1>6 DEF Finalise, Based, boards
  <2>2. QED BY <1>1, <1>2, <1>3, <1>4, <1>6, <2>1, WorkerDone DEF instance
<1>7. CASE ~row[j].cancel
  <2>1. EndAs(j, Result(j)) /\ UNCHANGED boards BY <1>2, <1>7 DEF Finalise, boards
  <2>2. Result(j) \in {"failed", "succeeded"} BY DEF Result
  <2>3. QED BY <1>1, <1>2, <1>3, <1>4, <1>7, <2>1, <2>2, WorkerDone DEF instance
<1>8. QED BY <1>5, <1>6, <1>7

-----------------------------------------------------------------------------
(* The invariant. *)

LEMMA InvariantInit == Init => Invariant
<1> SUFFICES ASSUME Init PROVE Invariant OBVIOUS
<1>1. TypeOK BY EmptyTypes DEF Init, TypeOK, Edited, Marked
<1>2. Scoped BY DEF Init, Scoped, ScopeInv, Inside, NoRequest
<1>3. \A j \in Jobs : /\ row[j].status = "none" /\ ~row[j].cancel
                      /\ work[j].pc = "none" /\ ~Based(j) /\ ~Active(j)
  BY DEF Init, NoRow, NoWork, NoBaseline, Based, Active
<1>4. Lifecycle BY <1>3 DEF Lifecycle, Unborn, Kept, Prepared, Claimed
<1>5. Ownership BY <1>3 DEF Ownership, Owns, Exclusive, Shielded
<1>6. Baselines /\ Marking
  BY <1>3 DEF Init, Baselines, Faithful, Marking, MarksOf, OldMarks
<1>7. EditsSurvive BY DEF Init, EditsSurvive
<1>8. CancelHonoured BY <1>3 DEF CancelHonoured
<1>9. QED BY <1>1, <1>2, <1>4, <1>5, <1>6, <1>7, <1>8 DEF Invariant

LEMMA InvariantStutters == Invariant /\ UNCHANGED vars => Invariant'
<1> SUFFICES ASSUME Invariant, UNCHANGED vars PROVE Invariant' OBVIOUS
<1>0. TypeOK /\ Scoped /\ Lifecycle BY DEF Invariant
<1>1. UNCHANGED <<boards, requests, row, work, instance>>
  BY DEF vars, boards, requests, instance
<1>2. TypeOK' BY <1>0 DEF TypeOK, vars
<1>3. Scoped' BY <1>0, <1>1, ScopedKept DEF boards
<1>4. Lifecycle' BY <1>0 DEF vars, Lifecycle, Unborn, Kept, Prepared, Based
<1>5. Calm BY <1>0, <1>1, StillCalm DEF Calm
<1>6. Admitted BY <1>1 DEF Admitted, requests
<1>7. QED BY <1>2, <1>3, <1>4, <1>5, <1>6, CalmKeeps DEF Invariant

LEMMA InvariantNext == Invariant /\ [Next]_vars => Invariant'
<1> SUFFICES ASSUME Invariant, [Next]_vars PROVE Invariant' OBVIOUS
<1>1. ASSUME NEW a \in Actors, TakeLock(a) \/ InScope(a) PROVE Invariant' BY <1>1, TalkKeeps
<1>2. ASSUME NEW e \in Editors, Edit(e) \/ CommitEdit(e) PROVE Invariant'
  BY <1>2, TalkKeeps, CommitEditKeeps DEF Actors
<1>3. ASSUME NEW j \in Jobs,
             Submit(j) \/ Create(j) \/ FinaliseFails(j) \/ TimePasses(j) \/ Cancel(j)
      PROVE  Invariant'
  BY <1>3, SubmitKeeps, CreateKeeps, FinaliseFailsKeeps, FlagKeeps
<1>4. ASSUME NEW j \in Jobs, Work(j) PROVE Invariant'
  <2>1. CASE LeavePool(j) BY <2>1, LeavePoolKeeps
  <2>2. CASE Claim(j)     BY <2>2, ClaimKeeps
  <2>3. CASE Snapshot(j)  BY <2>3, SnapshotKeeps
  <2>4. CASE Check(j)     BY <2>4, CheckKeeps
  <2>5. CASE \E next \in {"checking", "finalising"} : Persist(j, next)
    BY <2>5, PersistKeeps
  <2>6. CASE Breaks(j)    BY <2>6, BreaksKeeps
  <2>7. CASE Finalise(j)  BY <2>7, FinaliseKeeps
  <2>8. QED BY <1>4, <2>1, <2>2, <2>3, <2>4, <2>5, <2>6, <2>7 DEF Work
<1>5. CASE FindOrphans \/ Exit \/ Start BY <1>5, InstanceKeeps
<1>6. CASE Reconcile BY <1>6, ReconcileKeeps
<1>7. CASE Kill \/ Ended
  <2>1. faults' \in Nat BY <1>7 DEF Kill, Ended, Fault, Invariant, TypeOK
  <2>2. Down BY <1>7 DEF Kill, Ended
  <2>3. QED BY <2>1, <2>2, DownKeeps
<1>8. CASE UNCHANGED vars BY <1>8, InvariantStutters
<1>9. QED BY <1>1, <1>2, <1>3, <1>4, <1>5, <1>6, <1>7, <1>8 DEF Next

(* What every state of the planner satisfies. *)
THEOREM PlannerInvariant == Spec => []Invariant
<1>1. Init /\ [][Next]_vars => []Invariant BY InvariantInit, InvariantNext, PTL
<1>2. QED BY <1>1, PTL DEF Spec

(* Every variable keeps its type, whatever the jobs, the edits and the     *)
(* faults.                                                                 *)
THEOREM PlannerTypes == Spec => []TypeOK
<1>1. Invariant => TypeOK BY DEF Invariant
<1>2. QED BY <1>1, PlannerInvariant, PTL

(* A manual edit answered with ok is never lost to a job that read the     *)
(* boards before it (scenario_write_scope and conflicting_planner_job).    *)
THEOREM EditsKept == Spec => []EditsSurvive
<1>1. Invariant => EditsSurvive BY DEF Invariant
<1>2. QED BY <1>1, PlannerInvariant, PTL

(* A job recorded as cancelled has left no mark anywhere                   *)
(* (restore_planner_job under the job's row lock).                         *)
THEOREM CancelLeavesNothing == Spec => []CancelRestores
<1>1. Invariant => CancelRestores
  BY DEF Invariant, Marking, MarksOf, CancelRestores, Over, Active
<1>2. QED BY <1>1, PlannerInvariant, PTL

(* No job whose cancel was recorded ever reports success                   *)
(* (cancel_planner_job and the finish of _run_planner_job).                *)
THEOREM NoSuccessAfterCancel == Spec => []CancelHonoured
<1>1. Invariant => CancelHonoured BY DEF Invariant
<1>2. QED BY <1>1, PlannerInvariant, PTL
=============================================================================
