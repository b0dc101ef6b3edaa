# A verification project for the advisor system

The repository is a Django application that advises university students and
builds timetables. Students ask questions on the web or through Telegram;
committees build course and exam timetables with solvers that run for minutes.
It is deployed (`render.yaml`) as one gunicorn process with four threads plus a
separate persistent Telegram worker, over one PostgreSQL database.

What is hard about it is not the arithmetic of a timetable but the *durable
work*: jobs, leases, claims, retries, cancels and budgets kept in rows that
several threads and processes update, any of which may die. This directory
models that part in TLA+, checks it with TLC on small instances, and proves
the central invariants with TLAPS.

## 1. Inventory

| component | state it keeps | operations | what makes it hard | what makes it correct |
|---|---|---|---|---|
| Durable Telegram queue (`telegram_gateway/jobs.py`) | one receipt per update: status, lease, attempts, two cursors, manifest | admit, release, sweep, recover, claim, execute, store, deliver, requeue, finish | two processes during a deploy, crashes, outlived leases, lost answers, revocation, rows of older releases | FIFO per chat, one lease holder, resume at the cursor, side effects once, full answers, every job ends |
| Bot commands (`telegram_gateway/bot.py`) | conversation and escalation rows, the job's `result_ref` | answer a question, `/new`, `/advisor` | the side effect and the stored reply are two writes apart | once per update |
| Webhook (`telegram_gateway/views.py`) | raw receipt | authenticate, de-duplicate, dispatch | Telegram redelivers an update it got no 200 for | an update becomes at most one job |
| Linking (`telegram_gateway/linking.py`) | link requests, links, attempt counters | start, confirm, expire, revoke | two tabs confirm at once; the attempt cap | one active link per chat and student |
| Adviser turn (`core/services/advisor_turn.py`) | student and assistant messages, generation slots | ask, replay, resume, persist | turns that outlive the time after which they may be resumed | one answer per question |
| Rate limits (`core/services/rate_limit.py`) | counters per window | spend, refund | refund across a window, concurrent spends | the budget is never exceeded, refunds never go below zero |
| Solver slot (`core/services/job_runtime.py`) | a semaphore per process and the name of its holder | take, wait, give up, release | waiters that were cancelled, two writes on the way in and on the way out | one solve at a time, the name shown is the one who solves, always released |
| Exam jobs (`core/services/exam_jobs.py`) | one job row per action, its heartbeat | submit, claim, heartbeat, cancel, commit, sweep | cancel, sweep and shutdown against the commit | one active job; a run is saved exactly when its job succeeded |
| Planner jobs (`core/services/planner_job_runner.py`, `planner_job_snapshot.py`) | job rows with what they own, the executing jobs of the process, the snapshot of a running one | submit, claim, run phases, cancel, restore, reconcile | a run outlives the stale window, a cancel meets the end, a restore meets other boards | a cancelled job leaves nothing, an accepted cancel is not followed by a success, every job ends |
| Mutation guard (`timetable_mutation_guard.py`, `board_ownership.py`) | row locks of scenarios, the boards that share a section | find the scope, lock it in order, check it again, refuse while a job owns it | the scope changes while its locks are taken | an accepted manual edit is never written over by a job |
| Repair jobs (`timetable_repair_jobs.py`) | job rows, heartbeat | submit, claim, run, save | a late worker saves the row it loaded | not modelled yet |
| Drafts and boards (`planner_drafts.py`, `timetable_board_persistence.py`) | revisions | save | lost updates | optimistic revision checks |
| OTP, WhatsApp (`student_otp.py`, `whatsapp_gateway/`) | codes, attempts | issue, verify | limits under concurrency | caps hold |
| Solvers, policies, pages | — | — | data, not interleaving | not modelled |

Interactions: the webhook inserts receipts and the Telegram worker consumes
them; the worker calls the adviser turn, which spends rate limits and a
generation slot; the linking ceremony and its revocation decide who the queue
may answer; exam jobs, planner jobs, the exam Check and the move analysis share
the solver slot; and the mutation guard stands between planner jobs and manual
edits of the boards.

`PROJECT.json` lists every component with its status, and under `hazards` each
place where the code could go wrong in a way a unit test would hardly reach,
including those of components that are still to be modelled.

## 2. What is modelled: the durable Telegram queue

| module | role |
|---|---|
| `TelegramReceipts` | the data: a receipt, its delivery manifest, how progress is read from three generations of manifests (`DeliveryState`), and the new row each UPDATE leaves (`Claimed`, `Stored`, `Recovered`, `Degraded`, `Ended`, ...). No variables. |
| `TelegramJobs` | the state machine: web process, worker processes, Telegram, crashes and time |
| `TelegramJobsProperties` | type invariant, safety, action and liveness properties, and the refinement mapping |
| `TelegramChannel` | the abstract specification: what one chat is promised |
| `MCTelegramJobs` | the constants of the small instances |
| `TelegramJobsProofs` | theorems about the rows: types, order, finality, side effects |
| `TelegramLeaseProofs` | who holds a lease, what is sent after a revocation, how often the adviser is asked |
| `TelegramDeliveryProofs` | what a chat has received, what the row says of it, and what its worker knows |
| `TelegramChannelProofs` | text before pictures, the budget of the text, and the refinement of `TelegramChannel` |

The four proof modules form a chain: each extends the one above it and cites its
lemmas.

### State and code

`row[j]` is the `TelegramUpdateReceipt` of update `j`; `"ABSENT"` is "no such
row". `ready` stands for `available_at <= now`: a question is inserted hidden
and released after its progress message (or when the hiding time passes), and
a retry is inserted hidden by its back-off; `Release` is both. `claims` numbers
the claims of a row: `locked_by` and `locked_at` together identify exactly one
claim, so a worker's remembered pair is the number `mem[w].token`. `expired`
is `lease_expires_at < now`. `conv` is the mark `/new` leaves on the row.
A manifest (`man`) is abstracted to the number of text items and pictures, and
keeps every progress field: `photo` (`photo_cursor`), `tries`
(`photo_attempt_count`), `first` (`text_first`), `started`
(`text_phase_started`), `shared` (a manifest with one cursor only), `degraded`
(`image_degraded`); `made` is `result_code` being set.

A worker process is `pc`, `cur`, `mem` (the Python object it holds, as last read
or saved), `out` (what the adviser or Telegram last returned) and `todo` (the
stale ids it listed). A step is one committed statement or transaction, one
call to Telegram, or one call to the adviser. Everything a handler writes in
one transaction is written in one step; everything it reads before an outside
call and uses after it is kept in `mem` and `out`.

`pc` follows `run_next_job`: `idle` (sweep) → `recover` (stale rows, then the
claim) → `check` → `execute` → `refresh` → `store` → `begin` → text items
(`text`, `sendText`, `sentText`) → pictures (`gate`, then `off` or `photo`,
`render`, `sendPhoto`, `sentPhoto`) → `finish`; `startText` is the second phase
of picture-first manifests. `down` is a dead process.

`got`, `pics`, `answer`, `runs`, `effects`, `leases` and `late` are history
variables: they record what Telegram accepted, how often the executor ran, how
often a lease was spent while required text was pending, and what slipped out
after a revocation. No step reads them.

### Where the model abstracts, and why it may

- `Sweep` merges the UPDATE that cancels revoked jobs with the SELECT that
  lists stale ids. The list is only a hint; each row is read again under its
  lock in `RecoverStale`, which is what the property `TerminalIsFinal` and the
  mutant `RecoverUnseen` are about.
- A claim is one locked transaction. `SKIP LOCKED` only makes a worker look
  past a row that another transaction holds; the outcome is that of some serial
  order, except for two rows of one chat, which is `ClaimConflict`: the unique
  index refuses the second, nothing catches the `IntegrityError`, and the
  worker process exits and is restarted.
- `_default_deliver` looks at the link once more before the HTTP call; a link
  revoked there looks to the caller like a permanent refusal, which `Send` may
  choose at any time.
- The image switch is read once per delivery in the code and at `Gate` in the
  model, with no step of the worker's between that uses it.
- With one `--max-attempts` for every worker the arm of `Gate` that skips all
  pictures of an exhausted budget cannot be reached (the claim has degraded
  such a job already); it is kept because the code has it.
- Manifests are well typed; the arms for manifests that fail validation, and
  the ingress rate limit of an account, are left out. `run_job` and
  `_claim_specific_job` are used only by tests.
- A send answers `ok`, `retry` or `perm`. `retry` covers a lost answer (the
  item *was* accepted), a timeout and a rate limit; `perm` a refusal.

## 3. What is modelled: the adviser turn

| module | role |
|---|---|
| `AdvisorTurn` | one conversation: the requests in `run_advisor_turn`, the turns, the slots, one budget |
| `AdvisorTurnProperties` | type invariant, safety and liveness properties |
| `MCAdvisorTurn` | the constants of the small instances |
| `AdvisorTurnProofs` | theorems and their proofs |

Both channels end in `run_advisor_turn`: web threads through `_post_message`,
the Telegram worker through `bot.py`. A caller is a thread, `ProcOf` its process,
and a generation slot belongs to a process (`_GENERATION_SLOTS` is a
process-local semaphore). What the worker does when a replay brings no answer is
`ExecuteRetry` of `TelegramJobs`: it asks again with the same key, which here is
another `Ask`.

`turn[k]` is the student's `AdvisorMessage` of key `k` (`"ABSENT"`: no such row;
`stale`: older than `STALE_GENERATION`), `answers[k]` the number of assistant
messages that reply to it, `top` the highest `sequence` of the conversation,
`spent` the `count` of the student's rate-limit row. `pc` and `req` are where
a request is and its local variables: `seen` and `known` are the status and the
generation stamp of the copy it read (`known` turns false when another claim
writes a new stamp), `mine` says it created or claimed the turn it is answering,
`slot` that it holds one, `at` the position it computed for a message.

| `pc` | action | code |
|---|---|---|
| `look` | `Look` | the look-up by key, conflict, replay, `is_resumable` |
| `claim` | `Claim` | the conditional UPDATE of `_resume_or_replay` |
| `slot` | `TakeSlot` | `_GENERATION_SLOTS.acquire(blocking=False)` or `AdviserBusy` |
| `spend` | `Spend` | `consume(GENERATION, ...)` or `RATE_LIMITED` |
| `place`, `insert` | `PlaceQuestion`, `Insert` | `AdvisorMessage.save`: read the highest position, then insert; the unique index sends the loser back to `look`, slot in hand |
| `generate` | `Generate` | history and `answer_student_advisor` |
| `refund`, `fail` | `Refund`, `Fail` | the two `except` branches |
| `placeAnswer`, `persist` | `PlaceAnswer`, `Persist` | `persist_answer` |

Abstractions. A request without a key behaves as one whose key nobody else
uses. The text of a question and the channel's profile, which must both match
those of the turn, are one value. Empty and overlong questions return before
anything is touched and are left out, and so is the branch that re-raises when
the unique index refused a key no row has: turns are never deleted singly. The
rate limit is a count in a window; the weighted rest of the previous window only
makes it stricter, and no property here depends on how strict it is. A database
error inside `persist_answer` is left out; a crash at the same place is not.
`MayOutlive` lets a turn take longer than `STALE_GENERATION`. The constant is
sized so that none does (`advisor_turn.py:517-526`), and the passing run and two
of the theorems assume that.

## 4. What is modelled: exam jobs and the solver slot

| module | role |
|---|---|
| `SolverSlot` | the semaphore of each process and the holder it shows, step by step |
| `ExamJobs` | the rows, the request that submits, the thread that runs, the flusher, Stop, the sweep, the other users of the slot, the processes |
| `ExamLane` | the abstract specification: what the docstring of `ExamTimetableJob` promises |
| `ExamJobsProperties` | type invariant, safety and liveness properties, and the refinement mapping |
| `MCExamJobs` | the module of the instance |
| `ExamJobsProofs` | theorems and their proofs |

A *job* is one submission: `row[j]` its `ExamTimetableJob` (status "none": no
row yet), `runs` the jobs with an `ExamTimetableRun`, `req[j]` where its request
is in `submit`, `thread[j]` where its thread is in `run_job`. The clock is two
bits of the row: `silent` (no heartbeat for `STALE_AFTER`) and `overdue` (past
`MAX_RUNNING` or `MAX_QUEUED`). A flusher that lives clears `silent` at each
tick, so a row becomes silent only when its thread has gone or, as a fault,
when the flusher's writes do not get through.

| `pc` of the thread | action | code |
|---|---|---|
| `new` | `Begin` | `run_job` up to the start of the flusher |
| `waiting` | `Acquire`, `GiveUp` | the loop of `solver_slot`; `SolverBusy` |
| `acquired` | `Enter` | the holder is shown; shutdown is asked for |
| `claiming` | `Claim` | the conditional UPDATE of `_claim` |
| `unstarted`, `gaveup` | `EndUnstarted` | `_end_unstarted`, inside and outside the slot |
| `working` | `Checkpoint`, `Solve` | `execute_exam_action` |
| `saving` | `Commit`, `CommitLost` | `_commit_run` |
| `answered`, `errored` | `Finish` | `_finish` |
| `leaving`, `unnamed` | `Leave` | the `finally` of `solver_slot`: clear, then release |
| `ending` | `EndSafely`, `EndLost` | the `except` branches and the `finally` of `run_job` |

`goal` is the end an exception carries out of the slot. `Break` is a refused
statement or a flusher that cannot start, at any statement. `GuestArrives` and
`GuestStep` are the other users of the slot, who take it only when it is free
(`wait=False`) or, the planner, wait for it. A process is up, exiting
(`shutting_down` is true; its threads are still joined) or down; `Kill` takes
everything in memory, and a request that had not created its row may be sent
again.

Abstractions. `submit` sweeps before it creates; the read and the writes of that
sweep are one step, since `SweepRead` and `SweepWrite` of a poll show what comes
between. The deletion of finished rows after a week, what a page acknowledges,
and the stages and counters it shows are left out. The check for a cancel at the
beginning of `_commit_run` is the one in `Solve`. A commit whose connection
drops may or may not have been applied.

## 5. What is modelled: planner jobs and the mutation guard

| module | role |
|---|---|
| `PlannerJobs` | boards, row locks, requests, job rows, workers, reconciliation, the instance |
| `PlannerJobsProperties` | type invariant, safety and liveness properties |
| `MCPlannerJobs` | the module of the two instances |
| `PlannerJobsProofs` | theorems and their proofs |

A *resource* is a scenario's boards, or the meetings of one `Shared` section,
which belongs to the scenario `Owner` and of which any board may hold a copy
(`holds`). What a resource contains is abstracted to the manual edits and the
jobs that can be seen in it (`edits`, `marks`): a job that rewrites a resource
leaves its mark there and shows the edits it had read at its snapshot, so an
edit accepted after that is lost exactly when it leaves `edits`. `accepted` is
the history of edits answered with ok; no step reads it but `Edit`, which sends
each edit once.

`req[a]` is a request inside `scenario_write_scope`: `scope` is the set of
related scenarios it read, `locking` takes their rows in the order of the keys,
`Enter` reads the scope again and starts over if it changed, `Proceed` or
`Reject` is the check against `conflicting_planner_job`, and then the view
commits (`CommitEdit`) or the job's row is created with what it owns (`Create`).
`work[j]` is a worker: `pooled` (the executor with one thread), `entering` (it
counts as executing from here on), `claimed`, `checking` (`_check_planner_cancel`),
`working` (an engine), `finalising`. `base` is the snapshot.

Two rules of the code bound what a job may touch, and the model has both: no
engine moves a section that is also placed on another scenario, and a rebuild of
such a scenario is refused (`Frozen`, from `external_shared_section_ids` and
`assert_rebuild_ownership`); and the views refuse to change a section another
scenario has placed (`Written`). A cancelled job restores the boards and, where
the board showed the section or its scenario owns it, the section's meetings and
copies, and ends by updating the row of the scenario, for which it waits.

Abstractions. Phases of an engine overwrite what they read; an engine that keeps
more loses less. One shared section with an owner stands for all: sections
without an owner take the same path through `scenario_resource_ids`, except that
two first copies of one nobody has placed yet lock no row in common. The pool's
wait for other users of the solver is left out (`ExamJobs` has it), except that a
pooled job does not start beside another pooled one. Published scenarios and
invalid requests are answered before anything is touched. There is one instance,
as `PlannerJob` documents; what overlaps in a deploy is listed as a hazard.

## 6. Runs

The first six runs instantiate `MCTelegramJobs`, the next three `MCAdvisorTurn`,
the last three `MCExamJobs` and `MCPlannerJobs`.

| run | instance | question | result |
|---|---|---|---|
| `delivery` | 1 chat, 1 update, 1 worker, answers (2 texts, 2 pictures) and (1 text), 2 attempts, 3 crashes | does the student get the whole answer, in order, with at most one item in doubt, and is what the row says true? does the job end? | passes |
| `queue` | 1 chat, 2 updates (a question, whose answer may be blank, and `/new`), 2 workers, 2 crashes | FIFO, one holder per lease, refinement of `TelegramChannel` | passes |
| `stall` | 1 chat, `/advisor` and `/new` in any order, 2 workers, one outlived lease | what survives two processes on one job | passes |
| `legacy` | every row an older release may have left for an answer of 2 texts and 2 pictures, and a new update behind it | cursors are split and takeovers recognised correctly | passes |
| `fencing` | 1 update, 2 workers, one outlived lease | is a lease held by one process? | violated |
| `text_budget` | 1 update, 1 text and 1 picture, 3 crashes | is a text leased at most `max_attempts` times? | violated |
| `turn` | 1 key, 2 questions, 2 web threads and the worker, 1 slot per process, budget 2, 2 crashes | one generation at a time, one answer, no slot lost, nothing stuck | passes |
| `stuck_turn` | 2 keys, 2 threads, 1 slot, budget 2, no crash | is a pending turn being generated? | violated |
| `positions` | 2 keys, 2 threads, 2 slots, no crash | does every message have a position of its own? | violated |
| `exam_jobs` | 2 submissions to 1 process, one of which may hang, 1 other user of the solver, 1 fault | is the promise of the lane kept, is every active row somebody's, are lane, solver and waiters freed? | passes |
| `planner_jobs` | 2 scenarios that may share a section, 1 job in the pool and 1 in its request, 2 edits, one of which copies the section, no fault | does an accepted edit survive every job, does a cancel leave nothing? | passes |
| `planner_answers` | 2 scenarios, 1 job, 2 edits, 1 kill, exit or failed restore | does every job end and every request get its answer? | passes |

Bounds. Two attempts are the smallest number at which "an attempt is left" and
"this is the last" differ. Two texts and two pictures are the smallest answer
with an item before, at and after a cursor in each phase; three crashes reach
the last attempt of generation, of text and of pictures in one behaviour. Two
updates of one chat are enough for every FIFO property, which speak of pairs;
chats do not interact except through a worker, and the theorems hold for any
number. Two workers are what a deploy overlaps. `MaxFaults` bounds crashes and
outlived leases together. Three callers are a winner, a loser that read the
same row, and one that comes between; a key is one turn, and turns meet only in
slots, budget and positions, so one key is enough for the properties of a turn
and two are taken for the others. Two questions make a key conflict, one slot
makes a process busy, a budget of two is spent by a first send and one retry.
Only the runs without liveness use symmetry.

Two submissions are the one in the lane and the one that is refused or waits;
one fault is any of a kill, an exit, a refused statement, a thread that does not
start, a lost commit or a lost heartbeat, at every place. One process is enough
there because jobs of two processes meet only in the database, in the lane, and
never in a slot; the safety properties have also been checked with two, and the
theorems hold for any number. Two scenarios are an owner and another; a job in
the pool and one inside its request are the two ways to run; one edit that
creates a copy and one that does not are a scope that changes and a writer that
meets it. Faults of the instance end jobs and roll requests back, and are left
to the smaller instance, where liveness is checked; two jobs with one edit and a
fault have been checked for safety besides.

### What the passing runs say

- `RunningIsHead`, `OneRunningPerLink`: FIFO per chat needs ordered ingress
  (`Ordered`: the webhook is registered with `max_connections = 1`,
  `telegram_webhook.py:157`); without it only the unique index is left, and it
  is enough for mutual exclusion but not for order.
- `SoleLeaseHolder` holds as long as no live worker outlives its lease
  (`MayStall = FALSE`). The code relies on that: the lease is sized to the
  longest turn (`jobs.py:35-46`) and the worker command refuses a shorter one.
- `TerminalIsFinal`, `EffectOnce`, `ExecutorBudget` hold even then.
- `OneUnconfirmedText`, `NoConfirmedTextResent`, `AnsweredInFull`,
  `PicturesAccounted`, `TextBeforePictures`, `AtMostOneLateItem`: what arrived
  is the confirmed prefix plus at most one item, a success means the full text,
  a missing picture is accounted for, and a revocation stops the answer within
  one item.
- `FullTextBudget`, `PicturesNeverFailTheJob`, `DegradationIsReported`,
  `TakeoverKeepsItsAttempts`: the budgets of generation, text and pictures do
  not eat each other, and giving up pictures is reported.
- `EveryJobEnds`: liveness, under the fairness below.
- `ImplementsChannel`: everything a chat can see of the queue is a behaviour of
  the abstract channel. That includes blank answers: `render_answer`
  (`formatting.py:465-466`) makes no message of one, and the job succeeds with
  nothing sent, which the abstract `Answer` allows where the adviser may answer so.
- `OneGenerator`, `AnsweredOnce`: the compare-and-swap on status and generation
  stamp, and the unique index for the first send, let one request at a time
  answer a question; a turn is completed exactly when it has its one answer,
  in particular no late failure reopens it. Without the stamp
  (`ClaimByStatus`) two retries of a stale turn both generate.
- `SlotsReturned`: whatever a request meets, its slot comes back once.
- `NeverStuck`: a pending turn is answered, fails, or becomes resumable; nothing
  but its age helps a turn whose process died.

- `ImplementsLane`: over all instances one action of the exam page is open at a
  time, it closes once, saves at most one timetable, and none after an accepted
  Stop or after the sweep gave it up, however late its thread comes to save.
- `SavedMeansSucceeded`, `NoOrphan`: no error after the commit unsays it, and no
  early return or exception of `submit` and `run_job` leaves an active row to
  the sweep; only a dead process or a refused statement does.
- `LaneFreed`, `SolverFreed`, `WaiterQuits`: what is left is swept; the slot
  comes back on every way out; a job that was stopped or swept while it waited
  stops waiting. An action that never reaches a cancellation point again keeps
  the slot of its process (`Stuck`), and nothing in the code takes it back: the
  lane is freed, later jobs of that process wait for the solver until they are
  stopped or swept.
- `HolderTruthful`: whoever is turned away is told who solves, since the name is
  cleared before the permit is returned.
- `EditsSurvive`: an edit answered with ok is not written over by a job that read
  the boards before it. It takes all of the guard: the second look at the scope
  (`EnterUnchecked` shows why), what a job owns being kept in its row, a live
  worker's job not being reconciled, and the engines' own refusals.
- `CancelRestores`, `CancelHonoured`: "cancelled" means that nothing of the job
  is left, on its boards or in the meetings others share, and no success follows
  an accepted cancel.
- `PlannerEnds`, `WritersAnswered`: every job ends, by its worker or by a
  reconciliation; no set of writers waits for each other, because all take the
  rows in one order.

### What the failing runs say

- `fencing`. After the executor returns, `refresh_from_db` (`jobs.py:1140`)
  loads the lease columns of whoever owns the row *now*. A worker that was
  presumed dead comes back, adopts the new owner's lease, and both deliver. The
  fence compares a lease with itself. In production the lease length makes this
  unlikely, not impossible.
- `text_budget`. `_degrade_exhausted_photo_phase_locked` says it does not reset
  an active text budget, but tells "active" from `text_phase_started`, which new
  text-first manifests with pictures leave false until the text is done.
- `stuck_turn`. A retry of a failed question claims the turn before it has a slot
  and a budget. If either is refused, the turn stays pending with a fresh stamp:
  for six minutes every further retry is replayed as "still being generated"
  without an answer, though the refusal asks for a retry in 15 seconds.
- `positions`. `AdvisorMessage.save` takes the highest position plus one. At
  PostgreSQL's default isolation, which the deployment uses, two transactions
  read the same highest, and no constraint refuses the second. (SQLite, in
  development, opens its transactions as the one writer, `settings.py:145-163`,
  and does not show it.)

One behaviour is worth knowing although no property forbids it: a text-only
answer that was delivered completely, whose worker dies before `finish_job` on
the last attempt, is recorded as failed (`lease_expired_max_attempts`).

### Fairness

`WF(Work(w))`: a worker process is an endless loop that does not block on other
workers (`run_worker_loop`), and the platform restarts one that exits.
`WF(Release(j))` and `WF(ExpireLease(j))`: time passes. An outlived lease of a
live worker is bounded by `MaxFaults`, a fault, not something that must happen.
Nothing makes students ask, administrators revoke, Telegram accept or processes
crash. The retries that would make `EveryJobEnds` need strong fairness are
bounded by the attempt counters, which is what the property tests.

For the adviser turn, `WF(Serve(c))`: a request that was accepted is served to
its end unless its process dies, since no step waits for another request (a slot
is taken without blocking). `WF(Age(k))`: time passes. Nobody has to ask or to
retry, so `NeverStuck` does not say that a question is answered, only that it
never becomes unanswerable.

For the exam jobs: requests and threads are scheduled (`WF(Request(j))`,
`WF(Run(j))`), the flusher ticks (`WF(Flush(j))`), an action that is not `Stuck`
goes on (`WF(Act(j))`), the clock runs, some page polls (`WF` of the sweep: every
poll calls it, and a page with a job polls), other users of the solver finish,
and the platform starts a process that stopped. Waiting for the slot needs no
strong fairness: `WaiterQuits` is about giving up, and no property says that a
waiting job gets the slot.

For the planner: workers and requests go on, time passes, a page polls, the
instance is started again. `SF(Finalise(j))`: the UPDATE at the end of a restore
waits for a row lock that edits take and release, and PostgreSQL queues its
waiters. `SF(Persist(j, "finalising"))`: an engine has finitely many phases, so
one of them is the last.

## 7. Proofs

`TelegramJobsProofs` proves, for any sets of updates, chats and workers, any
attempt limit, pending cap, answers and number of faults, with rows of earlier
releases and with outlived leases allowed:

| theorem | property |
|---|---|
| `TypeCorrect` | `Spec => []TypeOK` |
| `OneRunning` | `Spec => []OneRunningPerLink` |
| `HeadRuns` | with `Ordered`, `Spec => []RunningIsHead` |
| `EndedForGood` | `Spec => TerminalIsFinal` |
| `EffectsOnce` | `Spec => []EffectOnce` |

They assume only the named assumptions on the constants.

The argument. Each of the many steps does one of four things to the rows, and
`RowsMove` says so: nothing; it *settles* a row (ends or requeues it, or writes
progress without touching its status); it *admits* an absent row; it *grants* a
lease to an eligible row with no running sibling. The order properties then
need four cases and not thirty actions. `TypeOK` alone does not give
`RowsMove`: a delivering worker writes the whole manifest from its own copy, so
that no write loses the fact that there is an answer needs `CopyMade` (past
`store`, a worker's copy holds one); hence `CoreInvariant = TypeOK /\ CopyMade`.
`EffectOnce` needs a strengthening of its own, `EffectInvariant`: a held row is
never absent, and an effect is always on record in the row (the mark of `/new`,
the materialised reply of `/advisor`), which by `RowsMove` no later write takes
back: even a terminal row keeps its result code.

The delivery properties concern three parties that may disagree: the row, the
worker's copy of it, and what Telegram has accepted. Three more modules prove
them, for any sets, limits and numbers of faults as above:

| theorem | property | hypotheses |
|---|---|---|
| `OneHolder` | `Spec => []SoleLeaseHolder` | `~MayStall` |
| `OneLateItem` | `Spec => []AtMostOneLateItem` | `~MayStall` |
| `AskedWithinBudget` | `Spec => []ExecutorBudget` | none |
| `TextInOrder` | `Spec => []OneUnconfirmedText` | `~MayStall` |
| `NothingResent` | `Spec => []NoConfirmedTextResent` | `~MayStall` |
| `NoPictureLostUnsaid` | `Spec => []PicturesAccounted` | `~MayStall` |
| `SucceededIsAnswered` | `Spec => []AnsweredInFull` | `~MayStall` |
| `SilenceMeansDelivered` | `Spec => DegradationIsReported` | `~MayStall` |
| `TakeoverKeepsCount` | `Spec => TakeoverKeepsItsAttempts` | `~MayStall` |
| `PicturesAreOptional` | `Spec => PicturesNeverFailTheJob` | `~MayStall`, `TextedShapes` |
| `TextComesFirst` | `Spec => []TextBeforePictures` | `~MayStall`, `FreshQueue` |
| `TextGetsItsBudget` | `Spec => []FullTextBudget` | `~MayStall`, `FreshQueue` |
| `QueueImplementsChannel` | `Spec => ImplementsChannel`, the refinement | `~MayStall`, `FreshQueue`, `Ordered` |

The hypotheses are about the deployment, not about the states:

- `~MayStall`: no lease runs out under a live worker. The lease is sized to the
  longest legitimate turn (`jobs.py:35-46`) and the worker command refuses a
  shorter one. Crashes, lost replies and two workers remain. It is needed: the
  run `fencing` shows two holders without it, and with two workers, answers of
  two texts and two pictures and two outlived leases TLC refutes every property
  of the table but two. `ExecutorBudget` needs no hypothesis;
  `TakeoverKeepsItsAttempts` withstands one outlived lease there, since a row of
  an earlier release has its answer and never reaches the `refresh` that adopts
  a new lease.
- `Ordered`: Telegram delivers the updates of the bot one at a time, as the
  webhook is registered.
- `TextedShapes`: an answer an earlier release left in the queue has text if it
  has pictures. This release drops pictures without text
  (`jobs.py:353-369`); without text there is nothing the job could succeed with
  once its pictures are given up, and `CanDegrade` refuses.
- `FreshQueue`: the queue holds answers of this release only. Rows of an earlier
  one are pictures-first by design, and the leases their text has had before the
  upgrade are not on record. All the other theorems allow such rows.

`LeaseInvariant` is the base of the other two modules. Every worker with a job
is `Alive` (its UPDATE would get through and its lease has not run out) or
`Swept` (the link is revoked and the row cancelled under it): `LeaseKept`; and
no two workers hold jobs of one chat: `LoneWorker`. Both are needed together: a
claim finds no living holder because a holder's row is running, and a row that
is running refuses a claim. `OneLateItem` adds that a chat with a late item has
no worker at a send (`LateBound`): each item is authorised in the step before.
`AskedWithinBudget` needs neither, but a count: questions asked, and workers
about to ask, are paid for by attempts of the row as long as there is no answer
(`Paid`).

`DeliveryInvariant` adds what is true of one job and its worker. `Delivered`
compares a row with the history: the text heard is the prefix the cursor names
or one item more, and that only while text is left; the pictures shown are
within one of their cursor, and none passed is missing unless the row is
degraded. It speaks of what `DeliveryState` reads, so that the three generations of
manifests are one case. `Knows` says of a living worker that its copy *is* the
row (except while a reply has not been read back) and that `pc` fits the copy
(`At`). A turn of such a worker is then one of few kinds (`TurnKinds`):
it carries the copy on, confirms an item, shows a picture, stores an answer, or
lets go. A worker that was swept writes nothing (`UnownedTurn`). Each kind, and
each way a row moves without its worker (`RowMoves`), preserves `Delivered`.

`ChannelInvariant` adds `Fair`, the account of budgets: every attempt of a
row with text left has a lease on record, a queued row has an attempt left,
and pictures have been shown only after the text. It also adds `Aims`: a worker
about to send has the next item in hand, even one that was swept and does not
know it, because its copy was true when it was swept and nobody else has sent
since. The refinement (`ChannelNext`) then takes one lemma per kind of step:
admission is `Accept`, a sweep `DropClosed`, a claim `Start`, a stored answer
`Prepare`, an accepted item `Arrive`, letting go `PutBack`, `Drop` or `Answer`;
the rest stutters. That the sweep of exhausted jobs never finds one in such a
queue (`ChannelIdle`), and that a swept worker's last item finds no other late
one, are the two places where it rests on the invariants most.

`AdvisorTurnProofs` proves, for any number of threads, processes, keys,
questions, slots and crashes:

| theorem | property |
|---|---|
| `TurnTypes` | `Spec => []TypeOK` |
| `OneTurnAtATime` | with `~MayOutlive`, `Spec => []OneGenerator` |
| `OneAnswer` | with `~MayOutlive`, `Spec => []AnsweredOnce` |
| `SlotsNeverLost` | `Spec => []SlotsReturned` |

The second and third rest on `TurnInvariant`, which adds to the two properties
what makes them inductive: a request that generates, fails or persists has made
the turn its own (`WorkersAnswer`); a turn that is somebody's is pending and not
stale (`GeneratorPending`, where `~MayOutlive` is needed: an aged turn has no
living request); and a claim whose copy still matches a pending row finds it
stale, so that nobody answers it (`ClaimsAllowed`). `SlotsNeverLost` needs none
of that, only `SlotSteps`: nobody asks for a slot with one in hand, and a request
that was refused by the unique index and looks again does so at a turn that
exists.

`ExamJobsProofs` proves, for any number of submissions, processes and faults,
whichever jobs hang:

| theorem | property |
|---|---|
| `ExamTypes` | `Spec => []TypeOK` |
| `SavedStaysSucceeded` | `Spec => []SavedMeansSucceeded` |
| `NoActiveOrphan` | `Spec => []NoOrphan` |
| `HolderNamed` | `Spec => []HolderTruthful` |
| `JobsImplementLane` | `Spec => ImplementsLane`, the refinement |

They share one `Invariant`: the types, `Lifecycle`, `OneOpen` (the index) and
`SlotInv`. `Lifecycle` says of each job alone what a thread may find in its row
at each place: a request that has no row yet has no thread (`Unborn`,
`Unlaunched`), only a claim makes a row running (`NotYetRunning`), a job told to
give up before its claim has been ended already (`ToldIsEnded`), so that one that
did give up and is still active belongs to a process that shuts down
(`GaveUpExiting`): that is why `_end_unstarted` may leave the row alone
otherwise, and what `NoOrphan` needs. `OneInside` says that of the jobs and
other users of a process one at most is inside, and none while the permit is
free. Most steps concern one job (`Alone`), and change nothing about the slot
(`Quiet`); the proof of a step is the proof of these two and of the job's own
parts. The refinement then takes one lemma per kind of step: a step that touches
one row leaves the lane as it is, or submits, stops, saves or closes.

`PlannerJobsProofs` proves, for any number of scenarios, jobs, edits and faults,
whichever scenarios hold the shared section at first:

| theorem | property |
|---|---|
| `PlannerTypes` | `Spec => []TypeOK` |
| `EditsKept` | `Spec => []EditsSurvive` |
| `CancelLeavesNothing` | `Spec => []CancelRestores` |
| `NoSuccessAfterCancel` | `Spec => []CancelHonoured` |

`EditsSurvive` and `CancelRestores` are about resources that several actors
write, so the `Invariant` says who may touch what, in five parts:

- `Scoped`: a request inside `scenario_write_scope` holds the row locks of all it
  knows, and of the section's owner if it uses the section. Two requests inside
  therefore have nothing in common (`InsideApart`), although either may yet put
  the section on a further board.
- `Lifecycle`: a job has no row before its request is done, and a worker that
  claimed its job keeps it (`Kept`). No reconciliation takes it away, not even
  one that read `_EXECUTING_JOBS` before the claim, because a claim refreshes the
  row, the sweep fails only a row that is still stale, and no row outlives the
  window twice within one reconciliation.
- `Ownership`: an active job owns its scenario, and the section if its board
  shows it (`Owns`); two active jobs have nothing in common (`Exclusive`), nor has
  an active job with a request that may write (`Shielded`). `Create` keeps this
  because its request was itself such a writer, `Proceed` because it saw no
  conflict.
- `Baselines`: what a running job read is still what everybody else has left in
  its resources (`Faithful`), so that writing or restoring from it loses nothing.
- `Marking`: the mark of a job that is not over is only in its own resources, in
  those its baseline can restore, and no baseline brings back the mark of a job
  that is not over.

`CancelRestores` is what `Marking` says of a job that is neither active nor over.
Steps that leave the boards alone (`Calm`) are proved together: such a step may
only end jobs and drop baselines (`CalmKeeps`). For the steps that write, one
lemma shows that the others are not disturbed (`OthersKept`). It needs that a
restore waits for the lock of its scenario's row: otherwise it could put the
section back on the board of a request that has entered without the owner's lock.

Only model-checked, not proved: the liveness properties (`EveryJobEnds`,
`NeverStuck`, `LaneFreed`, `SolverFreed`, `WaiterQuits`, `PlannerEnds`,
`WritersAnswered`), which need fairness and ENABLED and are outside the prover;
and, of course, what the failing runs refute. Every safety, action and
refinement property of a passing run is stated by a theorem. A theorem
with `~MayStall` or `~MayOutlive` among its hypotheses leaves out exactly that
fault; the others hold with every fault of the model.

## 8. Plan

Done so far: the Telegram queue, the adviser turn, the exam jobs with the solver
slot, the planner jobs with the mutation guard. Next, in this order:

1. **Repair jobs** (`timetable_repair_jobs.py`): a claim, a heartbeat and a final
   save of the row that was loaded, against a reconciliation.
2. **Telegram linking** (`TelegramLinking`), composed with `TelegramJobs` through
   the status of the link.
3. **Rate limits** (`RateLimit`): the estimate over two windows against the true
   number of calls in any window, as operators checked over bounded histories,
   and what a replay is charged.
4. **Proofs**: `TakeoverKeepsItsAttempts` without `~MayStall`, for the fence does
   work on rows that are never refreshed; then the theorems of the new
   components.

## 9. Not modelled

The solvers, the policies of the adviser, the pages and the exports are most of
the repository's lines and none of its concurrency: arithmetic over real data,
text, and layout, whose correctness is a matter of tests on data and not of
states. Transport and rendering of Telegram are nondeterministic choices of the
queue's model. One-time codes, the WhatsApp gateway, and drafts of boards keep
state and have not been read closely enough to be modelled faithfully. What is
left out of a modelled component is said in its section and in `PROJECT.json`.
