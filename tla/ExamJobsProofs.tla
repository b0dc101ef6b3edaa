---------------------------- MODULE ExamJobsProofs ----------------------------
(* Theorems about the exam page's background actions, for any number of    *)
(* submissions, processes and faults, whichever jobs hang.                 *)
EXTENDS ExamJobsProperties, TLAPS

USE ProcsAssumption, StuckAssumption, FaultsAssumption

-----------------------------------------------------------------------------
(* The inductive invariant. *)

(* A request has nothing to show before its row is created, *)
Unborn(j) == req[j] \in {"idle", "creating"} => row[j] = NoRow /\ j \notin runs

(* and no thread before it has started one. *)
Unlaunched(j) == req[j] # "done" => thread[j] = NoThread

Early == {"none", "new", "waiting", "acquired", "claiming"}

(* Only the claim makes a row running, *)
NotYetRunning(j) == thread[j].pc \in Early => row[j].status # "running"

(* a Stop of a queued row ends it, *)
QueuedWanted(j) == row[j].status = "queued" => ~row[j].cancel

(* so a job that is told to give up before its claim has been ended, *)
ToldIsEnded(j) ==
  thread[j].pc \in {"new", "waiting", "acquired", "claiming"} /\ thread[j].stop => ~Active(j)

(* and one that did give up was ended, or its process shuts down. *)
GaveUpExiting(j) ==
  thread[j].pc \in {"unstarted", "gaveup"} /\ Active(j) => Exiting(j)

Saved(j) == j \in runs => row[j].status = "succeeded"

Accounted(j) ==
  Active(j) => \/ req[j] \in {"dispatching", "failing", "dead"}
               \/ thread[j].pc = "dead"
               \/ Ending(j)

JobInv(j) ==
  /\ Unborn(j) /\ Unlaunched(j) /\ NotYetRunning(j) /\ QueuedWanted(j)
  /\ ToldIsEnded(j) /\ GaveUpExiting(j) /\ Saved(j) /\ Accounted(j)

Lifecycle == \A j \in Jobs : JobInv(j)

(* The index on the lane admits one active row. *)
OneOpen == \A j, k \in Jobs : Active(j) /\ Active(k) => j = k

In(j)      == thread[j].pc \in InSlot
Shows(j)   == thread[j].pc \in InSlot \ {"acquired", "unnamed"}
GuestIn(p) == guest.at = p /\ guest.pc # "away"

(* Of a process's jobs and other users one at most is inside, and none     *)
(* while the permit is free.                                               *)
OneInside ==
  /\ \A j \in Jobs : In(j) => sem[home[j]] = 0 /\ ~GuestIn(home[j])
  /\ \A j, k \in Jobs : In(j) /\ In(k) /\ home[j] = home[k] => j = k
  /\ guest.pc # "away" => sem[guest.at] = 0

SlotInv == OneInside /\ HolderTruthful

Invariant == TypeOK /\ Lifecycle /\ OneOpen /\ SlotInv

-----------------------------------------------------------------------------
(* Types. *)

LEMMA RowTypes ==
  /\ NoRow \in Row
  /\ \A s \in Statuses : [NoRow EXCEPT !.status = s] \in Row
BY DEF NoRow, Row, Statuses

LEMMA EndedType ==
  ASSUME TypeOK, NEW j \in Jobs, NEW s \in Statuses
  PROVE  /\ EndedAs(j, s) \in Row
         /\ EndedAs(j, s).status = s
         /\ EndedAs(j, s).cancel = row[j].cancel
<1>1. row[j] \in Row BY DEF TypeOK
<1>2. QED BY <1>1 DEF EndedAs, NoRow, Row, Statuses

LEMMA ThreadTypes ==
  /\ NoThread \in Thread
  /\ \A s \in Steps : [NoThread EXCEPT !.pc = s] \in Thread
BY DEF NoThread, Thread, Steps, Away

LEMMA GotoType ==
  ASSUME TypeOK, NEW j \in Jobs, NEW s \in Steps, Goto(j, s)
  PROVE  /\ thread' \in [Jobs -> Thread]
         /\ thread'[j].pc = s
         /\ thread'[j].stop = thread[j].stop
         /\ thread'[j].goal = thread[j].goal
         /\ \A k \in Jobs \ {j} : thread'[k] = thread[k]
<1>1. thread[j] \in Thread BY DEF TypeOK
<1>2. QED BY <1>1 DEF TypeOK, Goto, Thread

LEMMA GoEndType ==
  ASSUME TypeOK, NEW j \in Jobs, NEW g \in {"none", "cancelled", "failed"}, GoEnd(j, g)
  PROVE  /\ thread' \in [Jobs -> Thread]
         /\ thread'[j].pc = "leaving"
         /\ thread'[j].stop = thread[j].stop
         /\ thread'[j].goal = g
         /\ \A k \in Jobs \ {j} : thread'[k] = thread[k]
<1>1. thread[j] \in Thread BY DEF TypeOK
<1>2. "leaving" \in Steps BY DEF Steps, InSlot
<1>3. QED BY <1>1, <1>2 DEF TypeOK, GoEnd, Thread

LEMMA CloseType ==
  ASSUME TypeOK, NEW j \in Jobs, NEW s \in {"succeeded", "failed", "cancelled"}, Close(j, s)
  PROVE  /\ row' \in [Jobs -> Row]
         /\ \A k \in Jobs : row'[k].cancel = row[k].cancel
         /\ ~Active(j)'
         /\ row'[j].status = IF Active(j) THEN s ELSE row[j].status
         /\ \A k \in Jobs \ {j} : row'[k] = row[k]
         /\ ~Active(j) => row' = row
<1>1. s \in Statuses BY DEF Statuses
<1>2. CASE Active(j)
  <2>1. row' = [row EXCEPT ![j] = EndedAs(j, s)] BY <1>2 DEF Close
  <2>2. QED BY <1>1, <1>2, <2>1, EndedType DEF TypeOK, Active
<1>3. CASE ~Active(j) BY <1>3 DEF Close, TypeOK, Active
<1>4. QED BY <1>2, <1>3

-----------------------------------------------------------------------------
(* The job's life. *)

(* A step of one job leaves the others alone. *)
Alone(j) ==
  /\ \A k \in Jobs \ {j} :
       /\ row'[k] = row[k] /\ thread'[k] = thread[k]
       /\ req'[k] = req[k] /\ home'[k] = home[k]
       /\ (k \in runs') = (k \in runs)
  /\ proc' = proc

LEMMA SameJob ==
  ASSUME NEW k \in Jobs, JobInv(k),
         row'[k] = row[k], thread'[k] = thread[k], req'[k] = req[k],
         (k \in runs') = (k \in runs), Exiting(k)' = Exiting(k)
  PROVE  JobInv(k)'
BY DEF JobInv, Unborn, Unlaunched, NotYetRunning, QueuedWanted, ToldIsEnded,
       GaveUpExiting, Saved, Accounted, Active, Ending

LEMMA AloneKeeps ==
  ASSUME Lifecycle, NEW j \in Jobs, Alone(j), JobInv(j)'
  PROVE  Lifecycle'
<1>1. ASSUME NEW k \in Jobs \ {j} PROVE JobInv(k)'
  <2>1. Exiting(k)' = Exiting(k) BY <1>1 DEF Alone, Exiting
  <2>2. QED BY <1>1, <2>1, SameJob DEF Alone, Lifecycle
<1>2. QED BY <1>1 DEF Lifecycle

LEMMA NoneOpened ==
  ASSUME OneOpen, \A k \in Jobs : Active(k)' => Active(k)
  PROVE  OneOpen'
BY DEF OneOpen

(* What a step of one job that opens nothing comes to. *)
Good(j) == TypeOK' /\ Alone(j) /\ JobInv(j)' /\ (Active(j)' => Active(j))

LEMMA GoodKeeps ==
  ASSUME Lifecycle, OneOpen, NEW j \in Jobs, Good(j)
  PROVE  TypeOK' /\ Lifecycle' /\ OneOpen'
<1>1. \A k \in Jobs : Active(k)' => Active(k) BY DEF Good, Alone, Active
<1>2. QED BY <1>1, AloneKeeps, NoneOpened DEF Good

LEMMA GotoGood ==
  ASSUME TypeOK, Lifecycle, NEW j \in Jobs, NEW s \in Steps, Goto(j, s),
         UNCHANGED <<rows, submission, found, processes>>,
         faults' \in Nat, sem' \in [Procs -> {0, 1}], shown' \in [Procs -> Holders],
         req[j] = "done",
         s \in Early => row[j].status # "running",
         s \in {"new", "waiting", "acquired", "claiming"} /\ thread[j].stop => ~Active(j),
         s \in {"unstarted", "gaveup"} /\ Active(j) => Exiting(j),
         s \in Away \union {"leaving", "unnamed", "ending"} /\ thread[j].goal = "none"
           => ~Active(j)
  PROVE  Good(j)
<1>1. TypeOK' BY GotoType DEF TypeOK, rows, submission, processes
<1>2. Alone(j) BY GotoType DEF Alone, rows, submission, processes
<1>3. JobInv(j)'
  <2>1. /\ thread'[j].pc = s /\ thread'[j].stop = thread[j].stop
        /\ row'[j] = row[j] /\ req'[j] = req[j] /\ runs' = runs
        /\ Exiting(j)' = Exiting(j)
    BY GotoType DEF rows, submission, processes, Exiting
  <2>2. JobInv(j) BY DEF Lifecycle
  <2>3. Active(j)' = Active(j) /\ thread'[j].goal = thread[j].goal
    BY <2>1, GotoType DEF Active
  <2>4. Unborn(j)' /\ Unlaunched(j)' BY <2>1, <2>2 DEF JobInv, Unborn, Unlaunched
  <2>5. NotYetRunning(j)' /\ QueuedWanted(j)' /\ Saved(j)'
    BY <2>1, <2>2 DEF JobInv, NotYetRunning, QueuedWanted, Saved
  <2>6. ToldIsEnded(j)' /\ GaveUpExiting(j)'
    BY <2>1, <2>3 DEF ToldIsEnded, GaveUpExiting
  <2>7. Accounted(j)'
    BY <2>1, <2>3 DEF Accounted, Ending, Steps, InSlot, Away
  <2>8. QED BY <2>4, <2>5, <2>6, <2>7 DEF JobInv
<1>4. Active(j)' => Active(j) BY DEF Active, rows
<1>5. QED BY <1>1, <1>2, <1>3, <1>4 DEF Good

(* The thread goes on and leaves the rows as they are. *)
LEMMA Waits ==
  ASSUME TypeOK, Lifecycle, NEW j \in Jobs,
         Begin(j) \/ Acquire(j) \/ GiveUp(j) \/ Enter(j),
         sem' \in [Procs -> {0, 1}], shown' \in [Procs -> Holders]
  PROVE  Good(j)
<1>0. JobInv(j) BY DEF Lifecycle
<1>1. /\ req[j] = "done" /\ faults' \in Nat
      /\ UNCHANGED <<rows, submission, found, processes>>
  BY <1>0 DEF JobInv, Unlaunched, NoThread, TypeOK, Begin, Acquire, GiveUp, Enter
<1>2. CASE Begin(j)
  <2>1. CASE row[j].status = "queued"
    <3>1. Goto(j, "waiting") BY <1>2, <2>1 DEF Begin
    <3>2. thread[j].stop => ~Active(j) BY <1>0, <1>2 DEF JobInv, ToldIsEnded, Begin
    <3>3. QED BY <1>1, <2>1, <3>1, <3>2, GotoGood DEF Steps, Away, InSlot
  <2>2. CASE row[j].status # "queued"
    <3>1. Goto(j, "done") BY <1>2, <2>2 DEF Begin
    <3>2. ~Active(j) BY <1>0, <1>2, <2>2 DEF JobInv, NotYetRunning, Begin, Early, Active
    <3>3. QED BY <1>1, <3>1, <3>2, GotoGood DEF Steps, Away, InSlot, Early
  <2>3. QED BY <2>1, <2>2
<1>3. CASE Acquire(j)
  <2>1. Goto(j, "acquired") BY <1>3 DEF Acquire
  <2>2. row[j].status # "running" /\ (thread[j].stop => ~Active(j))
    BY <1>0, <1>3 DEF JobInv, NotYetRunning, ToldIsEnded, Acquire, Early
  <2>3. QED BY <1>1, <2>1, <2>2, GotoGood DEF Steps, Away, InSlot
<1>4. CASE GiveUp(j)
  <2>1. Goto(j, "gaveup") BY <1>4 DEF GiveUp
  <2>2. Active(j) => Exiting(j) BY <1>0, <1>4 DEF JobInv, ToldIsEnded, GiveUp
  <2>3. QED BY <1>1, <2>1, <2>2, GotoGood DEF Steps, Away, InSlot, Early
<1>5. CASE Enter(j)
  <2>1. row[j].status # "running" /\ (thread[j].stop => ~Active(j))
    BY <1>0, <1>5 DEF JobInv, NotYetRunning, ToldIsEnded, Enter, Early
  <2>2. CASE Exiting(j)
    <3>1. Goto(j, "unstarted") BY <1>5, <2>2 DEF Enter
    <3>2. QED BY <1>1, <2>2, <3>1, GotoGood DEF Steps, Away, InSlot, Early
  <2>3. CASE ~Exiting(j)
    <3>1. Goto(j, "claiming") BY <1>5, <2>3 DEF Enter
    <3>2. QED BY <1>1, <2>1, <3>1, GotoGood DEF Steps, Away, InSlot
  <2>4. QED BY <2>2, <2>3
<1>6. QED BY <1>2, <1>3, <1>4, <1>5

(* What the thread of one job writes. *)
Writes(j) ==
  /\ UNCHANGED <<submission, found, processes>>
  /\ row' \in [Jobs -> Row] /\ thread' \in [Jobs -> Thread]
  /\ \A k \in Jobs \ {j} : row'[k] = row[k] /\ thread'[k] = thread[k]
  /\ runs' \subseteq runs \union {j} /\ runs \subseteq runs'
  /\ faults' \in Nat /\ sem' \in [Procs -> {0, 1}] /\ shown' \in [Procs -> Holders]
  /\ req[j] = "done"

LEMMA WritesAlone ==
  ASSUME TypeOK, NEW j \in Jobs, Writes(j)
  PROVE  TypeOK' /\ Alone(j) /\ Unborn(j)' /\ Unlaunched(j)' /\ Exiting(j)' = Exiting(j)
<1>1. TypeOK' BY DEF Writes, TypeOK, submission, processes
<1>2. Alone(j)
  <2>1. ASSUME NEW k \in Jobs \ {j} PROVE (k \in runs') = (k \in runs) BY DEF Writes
  <2>2. QED BY <2>1 DEF Writes, Alone, submission, processes
<1>3. QED BY <1>1, <1>2 DEF Writes, Unborn, Unlaunched, Exiting, submission, processes

(* A step after which the row has ended. *)
LEMMA EndedGood ==
  ASSUME TypeOK, NEW j \in Jobs, Writes(j), ~Active(j)', Saved(j)'
  PROVE  Good(j)
<1>1. NotYetRunning(j)' /\ QueuedWanted(j)' BY DEF NotYetRunning, QueuedWanted, Active
<1>2. ToldIsEnded(j)' /\ GaveUpExiting(j)' /\ Accounted(j)'
  BY DEF ToldIsEnded, GaveUpExiting, Accounted
<1>3. QED BY <1>1, <1>2, WritesAlone DEF Good, JobInv

(* A step to the end of the job's thread that has an end to record. *)
LEMMA ToEndGood ==
  ASSUME TypeOK, Lifecycle, NEW j \in Jobs, Writes(j), row' = row, runs' = runs,
         thread'[j].pc \in {"leaving", "ending"}, thread'[j].goal # "none"
  PROVE  Good(j)
<1>1. JobInv(j) BY DEF Lifecycle
<1>2. NotYetRunning(j)' /\ ToldIsEnded(j)' /\ GaveUpExiting(j)'
  BY DEF NotYetRunning, ToldIsEnded, GaveUpExiting, Early
<1>3. QueuedWanted(j)' /\ Saved(j)' BY <1>1 DEF JobInv, QueuedWanted, Saved
<1>4. Accounted(j)' BY DEF Accounted, Ending
<1>5. Active(j)' => Active(j) BY DEF Active
<1>6. QED BY <1>2, <1>3, <1>4, <1>5, WritesAlone DEF Good, JobInv

LEMMA Launched ==
  ASSUME Lifecycle, NEW j \in Jobs, thread[j].pc # "none"
  PROVE  req[j] = "done"
BY DEF Lifecycle, JobInv, Unlaunched, NoThread

(* A job that closes its row, whatever end it has for it. *)
LEMMA CloseGood ==
  ASSUME TypeOK, Lifecycle, NEW j \in Jobs, thread[j].pc # "none",
         NEW s \in {"succeeded", "failed", "cancelled"}, Close(j, s),
         UNCHANGED <<runs, submission, found, processes>>,
         thread' \in [Jobs -> Thread], \A k \in Jobs \ {j} : thread'[k] = thread[k],
         faults' \in Nat, sem' \in [Procs -> {0, 1}], shown' \in [Procs -> Holders]
  PROVE  Good(j)
<1>1. Writes(j) BY CloseType, Launched DEF Writes
<1>2. ~Active(j)' BY CloseType
<1>3. Saved(j)'
  <2>1. Saved(j) BY DEF Lifecycle, JobInv
  <2>2. QED BY <2>1, CloseType DEF Saved, Active
<1>4. QED BY <1>1, <1>2, <1>3, EndedGood

(* The thread ends with the row in order. *)
LEMMA InOrder ==
  ASSUME TypeOK, Lifecycle, NEW j \in Jobs, ~Active(j), thread[j].pc # "none",
         UNCHANGED <<rows, submission, found, processes>>,
         thread' \in [Jobs -> Thread], \A k \in Jobs \ {j} : thread'[k] = thread[k],
         faults' \in Nat, sem' \in [Procs -> {0, 1}], shown' \in [Procs -> Holders]
  PROVE  Good(j)
<1>1. Writes(j) BY Launched DEF Writes, TypeOK, rows
<1>2. ~Active(j)' BY DEF Active, rows
<1>3. Saved(j)' BY DEF Lifecycle, JobInv, Saved, rows
<1>4. QED BY <1>1, <1>2, <1>3, EndedGood

SlotTyped == sem' \in [Procs -> {0, 1}] /\ shown' \in [Procs -> Holders]

LEMMA SlotUnchanged == ASSUME TypeOK, UNCHANGED slotVars PROVE SlotTyped
BY DEF TypeOK, slotVars, SlotTyped

(* From the claim to the end of the action. *)
LEMMA ClaimGood ==
  ASSUME TypeOK, Lifecycle, NEW j \in Jobs, Claim(j) PROVE Good(j)
<1>0. /\ JobInv(j) /\ req[j] = "done" /\ SlotTyped /\ faults' \in Nat
      /\ UNCHANGED <<runs, submission, found, processes>>
  BY Launched, SlotUnchanged DEF Lifecycle, Claim, TypeOK
<1>1. CASE row[j].status = "queued" /\ ~row[j].cancel
  <2>1. /\ row' = [row EXCEPT ![j] = [NoRow EXCEPT !.status = "running"]]
        /\ Goto(j, "working")
    BY <1>1 DEF Claim
  <2>2. [NoRow EXCEPT !.status = "running"] \in Row
    BY RowTypes DEF Statuses
  <2>3. /\ row' \in [Jobs -> Row]
        /\ row'[j].status = "running"
        /\ \A k \in Jobs \ {j} : row'[k] = row[k]
    BY <2>1, <2>2 DEF TypeOK, NoRow
  <2>4. /\ thread' \in [Jobs -> Thread] /\ thread'[j].pc = "working"
        /\ \A k \in Jobs \ {j} : thread'[k] = thread[k]
    BY <2>1, GotoType DEF Steps, InSlot
  <2>5. Writes(j) BY <1>0, <2>3, <2>4 DEF Writes, SlotTyped
  <2>6. NotYetRunning(j)' /\ QueuedWanted(j)' /\ ToldIsEnded(j)' /\ GaveUpExiting(j)'
    BY <2>3, <2>4
    DEF NotYetRunning, QueuedWanted, ToldIsEnded, GaveUpExiting, Early
  <2>7. Saved(j)' /\ Accounted(j)'
    BY <1>0, <1>1, <2>4 DEF JobInv, Saved, Accounted, Ending
  <2>8. Active(j) BY <1>1 DEF Active
  <2>9. QED BY <2>5, <2>6, <2>7, <2>8, WritesAlone DEF Good, JobInv
<1>2. CASE ~(row[j].status = "queued" /\ ~row[j].cancel)
  <2>1. Goto(j, "unstarted") /\ UNCHANGED row BY <1>2 DEF Claim
  <2>2. thread[j].pc = "claiming" BY DEF Claim
  <2>3. ~Active(j)
    BY <1>0, <1>2, <2>2 DEF JobInv, NotYetRunning, QueuedWanted, Early, Active
  <2>4. /\ thread' \in [Jobs -> Thread]
        /\ \A k \in Jobs \ {j} : thread'[k] = thread[k]
    BY <2>1, GotoType DEF Steps, InSlot
  <2>5. QED BY <1>0, <2>1, <2>2, <2>3, <2>4, InOrder DEF SlotTyped, rows
<1>3. QED BY <1>1, <1>2

LEMMA EndUnstartedGood ==
  ASSUME TypeOK, Lifecycle, NEW j \in Jobs, EndUnstarted(j) PROVE Good(j)
<1>0. /\ JobInv(j) /\ SlotTyped /\ faults' \in Nat
      /\ UNCHANGED <<runs, submission, found, processes>>
      /\ thread[j].pc \in {"unstarted", "gaveup"}
  BY SlotUnchanged DEF Lifecycle, EndUnstarted, TypeOK
<1>1. thread' \in [Jobs -> Thread] /\ \A k \in Jobs \ {j} : thread'[k] = thread[k]
  BY GotoType, GoEndType DEF EndUnstarted, Steps
<1>2. CASE Exiting(j)
  <2>1. Close(j, "failed") BY <1>2 DEF EndUnstarted
  <2>2. QED BY <1>0, <1>1, <2>1, CloseGood DEF SlotTyped
<1>3. CASE ~Exiting(j)
  <2>1. ~Active(j) BY <1>0, <1>3 DEF JobInv, GaveUpExiting
  <2>2. UNCHANGED row BY <1>3 DEF EndUnstarted
  <2>3. QED BY <1>0, <1>1, <2>1, <2>2, InOrder DEF SlotTyped, rows
<1>4. QED BY <1>2, <1>3

LEMMA ActGood ==
  ASSUME TypeOK, Lifecycle, NEW j \in Jobs, Act(j) PROVE Good(j)
<1>0. /\ SlotTyped /\ faults' \in Nat
      /\ UNCHANGED <<rows, submission, found, processes>>
      /\ thread[j].pc = "working"
  BY SlotUnchanged DEF Act, Checkpoint, Solve, TypeOK
<1>1. req[j] = "done" BY <1>0, Launched
<1>2. CASE Checkpoint(j)
  <2>1. GoEnd(j, "cancelled") BY <1>2 DEF Checkpoint
  <2>2. Writes(j) BY <1>0, <1>1, <2>1, GoEndType DEF Writes, TypeOK, rows, SlotTyped
  <2>3. QED BY <1>0, <2>1, <2>2, GoEndType, ToEndGood DEF rows
<1>3. CASE Solve(j)
  <2>1. PICK s \in {"saving", "answered", "errored"} : Goto(j, s) BY <1>3 DEF Solve
  <2>2. QED BY <1>0, <1>1, <2>1, GotoGood DEF Steps, InSlot, Away, Early, SlotTyped
<1>4. QED BY <1>2, <1>3 DEF Act

(* The commit of the timetable ends the job with it. *)
LEMMA CommitApplied ==
  ASSUME TypeOK, Lifecycle, NEW j \in Jobs, thread[j].pc = "saving", Wanted(j),
         row' = [row EXCEPT ![j] = EndedAs(j, "succeeded")], runs' = runs \union {j},
         UNCHANGED <<submission, found, processes>>,
         NEW s \in {"answered", "errored"}, Goto(j, s), SlotTyped, faults' \in Nat
  PROVE  Good(j)
<1>1. /\ row' \in [Jobs -> Row] /\ row'[j].status = "succeeded"
      /\ \A k \in Jobs \ {j} : row'[k] = row[k]
  BY EndedType DEF Statuses, TypeOK
<1>2. Writes(j) BY <1>1, GotoType, Launched DEF Writes, SlotTyped, Steps, InSlot
<1>3. ~Active(j)' /\ Saved(j)' BY <1>1 DEF Active, Saved
<1>4. QED BY <1>2, <1>3, EndedGood

LEMMA CommitGood ==
  ASSUME TypeOK, Lifecycle, NEW j \in Jobs, Commit(j) PROVE Good(j)
<1>0. /\ SlotTyped /\ faults' \in Nat
      /\ UNCHANGED <<submission, found, processes>>
      /\ thread[j].pc = "saving"
  BY SlotUnchanged DEF Commit, TypeOK
<1>1. CASE Wanted(j)
  <2>1. PICK s \in {"answered", "errored"} : Goto(j, s) BY <1>1 DEF Commit
  <2>2. QED BY <1>0, <1>1, <2>1, CommitApplied DEF Commit
<1>2. CASE ~Wanted(j)
  <2>1. GoEnd(j, "cancelled") /\ UNCHANGED rows BY <1>2 DEF Commit
  <2>2. Writes(j)
    BY <1>0, <2>1, GoEndType, Launched DEF Writes, TypeOK, rows, SlotTyped
  <2>3. QED BY <2>1, <2>2, GoEndType, ToEndGood DEF rows
<1>3. QED BY <1>1, <1>2

LEMMA CommitLostGood ==
  ASSUME TypeOK, Lifecycle, NEW j \in Jobs, CommitLost(j) PROVE Good(j)
<1>0. /\ SlotTyped /\ faults' \in Nat /\ Goto(j, "errored")
      /\ UNCHANGED <<submission, found, processes>>
      /\ thread[j].pc = "saving"
  BY SlotUnchanged DEF CommitLost, TypeOK, Fault
<1>1. CASE UNCHANGED rows
  BY <1>0, <1>1, GotoGood, Launched DEF Steps, InSlot, Away, Early, SlotTyped
<1>2. CASE ~UNCHANGED rows
  BY <1>0, <1>2, CommitApplied DEF CommitLost
<1>3. QED BY <1>1, <1>2

(* The end of the thread. *)
LEMMA FinishGood ==
  ASSUME TypeOK, Lifecycle, NEW j \in Jobs, Finish(j) PROVE Good(j)
<1>0. /\ SlotTyped /\ faults' \in Nat
      /\ UNCHANGED <<runs, submission, found, processes>>
      /\ thread[j].pc # "none" /\ GoEnd(j, "none")
  BY SlotUnchanged DEF Finish, TypeOK
<1>1. PICK s \in {"succeeded", "failed", "cancelled"} : Close(j, s) BY DEF Finish
<1>2. QED BY <1>0, <1>1, GoEndType, CloseGood DEF SlotTyped

LEMMA BreakGood ==
  ASSUME TypeOK, Lifecycle, NEW j \in Jobs, Break(j) PROVE Good(j)
<1>0. /\ SlotTyped /\ faults' \in Nat
      /\ UNCHANGED <<rows, submission, found, processes>>
      /\ req[j] = "done"
  BY SlotUnchanged, Launched DEF Break, TypeOK, Fault, Breakable
<1>1. /\ thread' \in [Jobs -> Thread]
      /\ \A k \in Jobs \ {j} : thread'[k] = thread[k]
      /\ thread'[j].pc \in {"leaving", "ending"} /\ thread'[j].goal # "none"
  <2>1. CASE thread[j].pc \in {"new", "gaveup"}
    <3>1. thread' = [thread EXCEPT ![j].pc = "ending", ![j].goal = "failed"]
      BY <2>1 DEF Break
    <3>2. thread[j] \in Thread BY DEF TypeOK
    <3>3. [thread[j] EXCEPT !.pc = "ending", !.goal = "failed"] \in Thread
      BY <3>2 DEF Thread, Steps
    <3>4. thread' = [thread EXCEPT ![j] = [thread[j] EXCEPT !.pc = "ending", !.goal = "failed"]]
      BY <3>1, <3>2 DEF TypeOK, Thread
    <3>5. QED BY <3>2, <3>3, <3>4 DEF TypeOK, Thread
  <2>2. CASE thread[j].pc \notin {"new", "gaveup"}
    <3>1. GoEnd(j, "failed") BY <2>2 DEF Break
    <3>2. QED BY <3>1, GoEndType
  <2>3. QED BY <2>1, <2>2
<1>2. Writes(j) BY <1>0, <1>1 DEF Writes, TypeOK, rows, SlotTyped
<1>3. QED BY <1>0, <1>1, <1>2, ToEndGood DEF rows

LEMMA LeaveGood ==
  ASSUME TypeOK, Lifecycle, NEW j \in Jobs, Leave(j), SlotTyped PROVE Good(j)
<1>0. /\ faults' \in Nat /\ UNCHANGED <<rows, submission, found, processes>>
      /\ thread[j].pc \in {"leaving", "unnamed"} /\ req[j] = "done"
  BY Launched DEF Leave, TypeOK
<1>1. PICK s \in {"unnamed", "ending"} : Goto(j, s) BY DEF Leave
<1>2. thread[j].goal = "none" => ~Active(j)
  BY <1>0 DEF Lifecycle, JobInv, Accounted, Ending
<1>3. QED BY <1>0, <1>1, <1>2, GotoGood DEF SlotTyped, Steps, InSlot, Early

LEMMA EndSafelyGood ==
  ASSUME TypeOK, Lifecycle, NEW j \in Jobs, EndSafely(j) PROVE Good(j)
<1>0. /\ SlotTyped /\ faults' \in Nat
      /\ UNCHANGED <<runs, submission, found, processes>>
      /\ thread[j].pc = "ending" /\ req[j] = "done"
  BY SlotUnchanged, Launched DEF EndSafely, TypeOK
<1>1. /\ thread' \in [Jobs -> Thread]
      /\ \A k \in Jobs \ {j} : thread'[k] = thread[k]
  BY ThreadTypes DEF EndSafely, TypeOK, Steps, Away
<1>2. CASE thread[j].goal = "none"
  <2>1. ~Active(j) BY <1>0, <1>2 DEF Lifecycle, JobInv, Accounted, Ending
  <2>2. UNCHANGED row BY <1>2 DEF EndSafely
  <2>3. QED BY <1>0, <1>1, <2>1, <2>2, InOrder DEF SlotTyped, rows
<1>3. CASE thread[j].goal # "none"
  <2>1. thread[j].goal \in {"failed", "cancelled"} BY <1>3 DEF TypeOK, Thread
  <2>2. Close(j, thread[j].goal) BY <1>3 DEF EndSafely
  <2>3. QED BY <1>0, <1>1, <2>1, <2>2, CloseGood DEF SlotTyped
<1>4. QED BY <1>2, <1>3

LEMMA EndLostGood ==
  ASSUME TypeOK, Lifecycle, NEW j \in Jobs, EndLost(j) PROVE Good(j)
<1>1. /\ SlotTyped /\ faults' \in Nat
      /\ UNCHANGED <<rows, submission, found, processes>>
      /\ thread[j].goal # "none" /\ Goto(j, "done") /\ req[j] = "done"
  BY SlotUnchanged, Launched DEF EndLost, TypeOK, Fault
<1>2. QED BY <1>1, GotoGood DEF SlotTyped, Steps, Away, Early

-----------------------------------------------------------------------------
(* The row alone. *)

LEMMA RowOnly ==
  ASSUME TypeOK, Lifecycle, NEW j \in Jobs, Active(j), row' \in [Jobs -> Row],
         \A k \in Jobs \ {j} : row'[k] = row[k],
         UNCHANGED <<runs, submission, thread, found, processes>>,
         faults' \in Nat, SlotTyped,
         row'[j].status = row[j].status \/ ~Active(j)',
         row'[j].status = "queued" => ~row'[j].cancel
  PROVE  Good(j)
<1>0. JobInv(j) BY DEF Lifecycle
<1>1. TypeOK' /\ Alone(j) /\ Exiting(j)' = Exiting(j)
  BY DEF TypeOK, Alone, Exiting, SlotTyped, submission, processes
<1>2. Unborn(j)' /\ Unlaunched(j)'
  BY <1>0 DEF JobInv, Unborn, Unlaunched, Active, NoRow, submission
<1>3. Active(j)' => Active(j) OBVIOUS
<1>4. NotYetRunning(j)' /\ QueuedWanted(j)'
  BY <1>0 DEF JobInv, NotYetRunning, QueuedWanted, Active
<1>5. ToldIsEnded(j)' /\ GaveUpExiting(j)'
  BY <1>0, <1>1, <1>3 DEF JobInv, ToldIsEnded, GaveUpExiting
<1>6. Saved(j)' BY <1>0 DEF JobInv, Saved, Active
<1>7. Accounted(j)'
  BY <1>0, <1>1, <1>3 DEF JobInv, Accounted, Ending, submission
<1>8. QED BY <1>1, <1>2, <1>3, <1>4, <1>5, <1>6, <1>7 DEF Good, JobInv

LEMMA CancelGood ==
  ASSUME TypeOK, Lifecycle, NEW j \in Jobs, Cancel(j) PROVE Good(j)
<1>0. /\ SlotTyped /\ faults' \in Nat /\ Active(j)
      /\ UNCHANGED <<runs, submission, thread, found, processes>>
  BY SlotUnchanged DEF Cancel, TypeOK
<1>1. row[j] \in Row BY DEF TypeOK
<1>2. /\ [NoRow EXCEPT !.status = "cancelled", !.cancel = TRUE] \in Row
      /\ [row[j] EXCEPT !.cancel = TRUE] \in Row
  BY <1>1 DEF NoRow, Row, Statuses
<1>3. CASE row[j].status = "queued"
  <2>1. row' = [row EXCEPT ![j] = [NoRow EXCEPT !.status = "cancelled", !.cancel = TRUE]]
    BY <1>3 DEF Cancel
  <2>2. /\ row' \in [Jobs -> Row] /\ \A k \in Jobs \ {j} : row'[k] = row[k]
        /\ row'[j].status = "cancelled"
    BY <1>2, <2>1 DEF TypeOK, NoRow
  <2>3. QED BY <1>0, <2>2, RowOnly DEF Active
<1>4. CASE row[j].status # "queued"
  <2>1. row' = [row EXCEPT ![j] = [row[j] EXCEPT !.cancel = TRUE]]
    BY <1>4 DEF Cancel
  <2>2. /\ row' \in [Jobs -> Row] /\ \A k \in Jobs \ {j} : row'[k] = row[k]
        /\ row'[j].status = row[j].status
    BY <1>1, <1>2, <2>1 DEF TypeOK, Row
  <2>3. QED BY <1>0, <1>4, <2>2, RowOnly
<1>5. QED BY <1>3, <1>4

LEMMA ClockGood ==
  ASSUME TypeOK, Lifecycle, NEW j \in Jobs,
         Silence(j) \/ HeartbeatLost(j) \/ TimePasses(j)
  PROVE  Good(j)
<1>0. /\ SlotTyped /\ faults' \in Nat /\ Active(j)
      /\ UNCHANGED <<runs, submission, thread, found, processes>>
  BY SlotUnchanged DEF Silence, HeartbeatLost, TimePasses, TypeOK, Fault
<1>1. row[j] \in Row /\ QueuedWanted(j) BY DEF TypeOK, Lifecycle, JobInv
<1>2. /\ row' \in [Jobs -> Row] /\ \A k \in Jobs \ {j} : row'[k] = row[k]
      /\ row'[j].status = row[j].status /\ row'[j].cancel = row[j].cancel
  <2>1. PICK r \in {[row[j] EXCEPT !.silent = TRUE], [row[j] EXCEPT !.overdue = TRUE]} :
          row' = [row EXCEPT ![j] = r]
    BY DEF Silence, HeartbeatLost, TimePasses
  <2>2. r \in Row /\ r.status = row[j].status /\ r.cancel = row[j].cancel
    BY <1>1 DEF Row
  <2>3. QED BY <2>1, <2>2 DEF TypeOK
<1>3. QED BY <1>0, <1>1, <1>2, RowOnly DEF QueuedWanted

(* The flusher writes its heartbeat and tells the thread. *)
LEMMA FlushGood ==
  ASSUME TypeOK, Lifecycle, NEW j \in Jobs, Flush(j) PROVE Good(j)
<1>0. /\ JobInv(j) /\ SlotTyped /\ faults' \in Nat /\ Flushing(j)
      /\ UNCHANGED <<runs, submission, found, processes>>
      /\ row[j] \in Row /\ thread[j] \in Thread
  BY SlotUnchanged DEF Flush, TypeOK, Lifecycle
<1>1. /\ row' \in [Jobs -> Row] /\ \A k \in Jobs \ {j} : row'[k] = row[k]
      /\ row'[j].status = row[j].status /\ row'[j].cancel = row[j].cancel
  <2>1. [row[j] EXCEPT !.silent = FALSE] \in Row BY <1>0 DEF Row
  <2>2. CASE Active(j)
    <3>1. row' = [row EXCEPT ![j] = [row[j] EXCEPT !.silent = FALSE]]
      BY <2>2 DEF Flush
    <3>2. QED BY <1>0, <2>1, <3>1 DEF TypeOK, Row
  <2>3. CASE ~Active(j) BY <2>3 DEF Flush, TypeOK
  <2>4. QED BY <2>2, <2>3
<1>2. /\ thread' \in [Jobs -> Thread] /\ \A k \in Jobs \ {j} : thread'[k] = thread[k]
      /\ thread'[j].pc = thread[j].pc /\ thread'[j].goal = thread[j].goal
      /\ thread'[j].stop <=> thread[j].stop \/ (Asking(j) /\ (~Active(j) \/ row[j].cancel))
  <2> DEFINE b == thread[j].stop \/ (Asking(j) /\ (~Active(j) \/ row[j].cancel))
  <2>1. b \in BOOLEAN BY <1>0 DEF Thread, Row, Asking, Active
  <2>2. [thread[j] EXCEPT !.stop = b] \in Thread BY <1>0, <2>1 DEF Thread
  <2>3. thread' = [thread EXCEPT ![j] = [thread[j] EXCEPT !.stop = b]] BY DEF Flush
  <2> HIDE DEF b
  <2>4. /\ thread' \in [Jobs -> Thread] /\ \A k \in Jobs \ {j} : thread'[k] = thread[k]
        /\ thread'[j].pc = thread[j].pc /\ thread'[j].goal = thread[j].goal
        /\ thread'[j].stop = b
    BY <1>0, <2>2, <2>3 DEF TypeOK, Thread
  <2>5. QED BY <2>4 DEF b
<1>3. Writes(j)
  BY <1>0, <1>1, <1>2, Launched DEF Writes, SlotTyped, Flushing, Away, TypeOK
<1>4. Active(j)' = Active(j) BY <1>1 DEF Active
<1>5. NotYetRunning(j)' /\ QueuedWanted(j)' /\ Saved(j)'
  BY <1>0, <1>1, <1>2 DEF JobInv, NotYetRunning, QueuedWanted, Saved
<1>6. ToldIsEnded(j)'
  <2>1. thread[j].pc \in Early => ~(Active(j) /\ row[j].cancel)
    BY <1>0 DEF JobInv, NotYetRunning, QueuedWanted, Active
  <2>2. QED BY <1>0, <1>2, <1>4, <2>1 DEF JobInv, ToldIsEnded, Early
<1>7. Exiting(j)' = Exiting(j) BY <1>3, WritesAlone
<1>8. GaveUpExiting(j)' /\ Accounted(j)'
  BY <1>0, <1>2, <1>4, <1>7
  DEF JobInv, GaveUpExiting, Accounted, Ending, submission
<1>9. QED BY <1>3, <1>4, <1>5, <1>6, <1>8, WritesAlone DEF Good, JobInv

-----------------------------------------------------------------------------
(* The request. *)

(* A step of the request that starts no thread and opens no row. *)
LEMMA RequestOnly ==
  ASSUME TypeOK, Lifecycle, NEW j \in Jobs,
         UNCHANGED <<rows, home, thread, found, processes>>, faults' \in Nat, SlotTyped,
         NEW s \in {"idle", "failing"}, req' = [req EXCEPT ![j] = s], req[j] # "done",
         s = "idle" => req[j] = "creating"
  PROVE  Good(j)
<1>0. JobInv(j) BY DEF Lifecycle
<1>1. /\ req'[j] = s /\ req' \in [Jobs -> {"idle", "creating", "dispatching",
                                           "failing", "done", "dead"}]
      /\ \A k \in Jobs \ {j} : req'[k] = req[k]
  BY DEF TypeOK
<1>2. TypeOK' BY <1>1 DEF TypeOK, SlotTyped, rows, processes
<1>3. Alone(j) /\ Exiting(j)' = Exiting(j) /\ Active(j)' = Active(j)
  BY <1>1 DEF Alone, Exiting, Active, rows, processes
<1>4. JobInv(j)'
  <2>1. Unborn(j)' /\ Unlaunched(j)'
    BY <1>0, <1>1 DEF JobInv, Unborn, Unlaunched, rows
  <2>2. Accounted(j)' /\ GaveUpExiting(j)'
    BY <1>0, <1>1, <1>3
    DEF JobInv, Unborn, Accounted, GaveUpExiting, Ending, Active, NoRow, rows
  <2>3. QED
    BY <1>0, <1>3, <2>1, <2>2
    DEF JobInv, NotYetRunning, QueuedWanted, ToldIsEnded, Saved, rows
<1>5. QED BY <1>2, <1>3, <1>4 DEF Good

LEMMA DispatchGood ==
  ASSUME TypeOK, Lifecycle, NEW j \in Jobs, Dispatch(j) PROVE Good(j)
<1>0. /\ JobInv(j) /\ thread[j] = NoThread /\ SlotTyped /\ faults' \in Nat
      /\ UNCHANGED <<rows, home, found, processes>>
  BY SlotUnchanged DEF Dispatch, TypeOK, Lifecycle, JobInv, Unlaunched
<1>1. /\ req'[j] = "done" /\ req' \in [Jobs -> {"idle", "creating", "dispatching",
                                                "failing", "done", "dead"}]
      /\ \A k \in Jobs \ {j} : req'[k] = req[k]
  BY DEF Dispatch, TypeOK
<1>2. /\ thread' \in [Jobs -> Thread] /\ \A k \in Jobs \ {j} : thread'[k] = thread[k]
      /\ thread'[j].pc = "new" /\ ~thread'[j].stop
  BY <1>0, ThreadTypes DEF Dispatch, TypeOK, NoThread, Steps
<1>3. TypeOK' BY <1>0, <1>1, <1>2 DEF TypeOK, SlotTyped, rows, processes
<1>4. Alone(j) /\ Active(j)' = Active(j)
  BY <1>0, <1>1, <1>2 DEF Alone, Active, rows, processes
<1>5. JobInv(j)'
  <2>1. Unborn(j)' /\ Unlaunched(j)' /\ ToldIsEnded(j)' /\ GaveUpExiting(j)' /\ Accounted(j)'
    BY <1>1, <1>2 DEF Unborn, Unlaunched, ToldIsEnded, GaveUpExiting, Accounted, Ending
  <2>2. NotYetRunning(j)' /\ QueuedWanted(j)' /\ Saved(j)'
    BY <1>0 DEF JobInv, NotYetRunning, QueuedWanted, Saved, Early, NoThread, rows
  <2>3. QED BY <2>1, <2>2 DEF JobInv
<1>6. QED BY <1>3, <1>4, <1>5 DEF Good

LEMMA RefuseGood ==
  ASSUME TypeOK, Lifecycle, NEW j \in Jobs, Refuse(j) PROVE Good(j)
<1>0. /\ JobInv(j) /\ thread[j] = NoThread /\ SlotTyped /\ faults' \in Nat
      /\ UNCHANGED <<runs, home, thread, found, processes>> /\ Close(j, "failed")
  BY SlotUnchanged DEF Refuse, TypeOK, Lifecycle, JobInv, Unlaunched
<1>1. /\ req'[j] = "done" /\ req' \in [Jobs -> {"idle", "creating", "dispatching",
                                                "failing", "done", "dead"}]
      /\ \A k \in Jobs \ {j} : req'[k] = req[k]
  BY DEF Refuse, TypeOK
<1>2. TypeOK' BY <1>0, <1>1, CloseType DEF TypeOK, SlotTyped, processes
<1>3. Alone(j) /\ ~Active(j)' BY <1>0, <1>1, CloseType DEF Alone, processes
<1>4. JobInv(j)'
  <2>1. Unborn(j)' /\ Unlaunched(j)' BY <1>1 DEF Unborn, Unlaunched
  <2>2. NotYetRunning(j)' /\ QueuedWanted(j)' /\ ToldIsEnded(j)' /\ GaveUpExiting(j)'
        /\ Accounted(j)'
    BY <1>3
    DEF NotYetRunning, QueuedWanted, ToldIsEnded, GaveUpExiting, Accounted, Active
  <2>3. Saved(j)' BY <1>0, CloseType DEF JobInv, Saved, Active
  <2>4. QED BY <2>1, <2>2, <2>3 DEF JobInv
<1>5. QED BY <1>2, <1>3, <1>4 DEF Good

(* A row that a sweep may have failed. *)
Swept(k) ==
  /\ thread'[k] = thread[k] /\ runs' = runs /\ row' \in [Jobs -> Row]
  /\ req'[k] = req[k] \/ (req[k] = "idle" /\ req'[k] = "creating")
  /\ row'[k] = row[k] \/ (Active(k) /\ ~Active(k)')
  /\ thread[k] = NoThread \/ Exiting(k)' = Exiting(k)

LEMMA SweptKeeps ==
  ASSUME TypeOK, NEW k \in Jobs, JobInv(k), Swept(k)
  PROVE  JobInv(k)' /\ (Active(k)' => Active(k))
<1>1. Active(k)' => Active(k) /\ row'[k] = row[k] BY DEF Swept, Active
<1>2. Unborn(k)' BY DEF JobInv, Swept, Unborn, Active, NoRow
<1>3. Unlaunched(k)' BY DEF JobInv, Swept, Unlaunched
<1>4. NotYetRunning(k)' /\ QueuedWanted(k)' /\ Saved(k)'
  BY DEF JobInv, Swept, NotYetRunning, QueuedWanted, Saved, Active
<1>5. ToldIsEnded(k)' /\ GaveUpExiting(k)'
  BY <1>1 DEF JobInv, Swept, ToldIsEnded, GaveUpExiting, NoThread
<1>6. Accounted(k)'
  BY <1>1 DEF JobInv, Swept, Unborn, Accounted, Ending, NoThread, Active, NoRow
<1>7. QED BY <1>1, <1>2, <1>3, <1>4, <1>5, <1>6 DEF JobInv

LEMMA SubmitKeeps ==
  ASSUME TypeOK, Lifecycle, OneOpen, NEW j \in Jobs, Submit(j)
  PROVE  TypeOK' /\ Lifecycle' /\ OneOpen'
<1>1. /\ row' = [k \in Jobs |-> IF Stale(k) THEN EndedAs(k, "failed") ELSE row[k]]
      /\ req' = [req EXCEPT ![j] = "creating"] /\ req[j] = "idle"
      /\ UNCHANGED <<slotVars, runs, thread, found, processes, faults>>
  BY DEF Submit
<1>2. PICK p \in Procs : home' = [home EXCEPT ![j] = p] BY DEF Submit
<1>3. ASSUME NEW k \in Jobs
      PROVE  row'[k] \in Row /\ (row'[k] = row[k] \/ (Active(k) /\ ~Active(k)'))
  <2>1. "failed" \in Statuses BY DEF Statuses
  <2>2. CASE Stale(k)
    <3>1. row'[k] = EndedAs(k, "failed") BY <1>1, <2>2
    <3>2. QED BY <2>1, <2>2, <3>1, EndedType DEF Stale, Active
  <2>3. CASE ~Stale(k) BY <1>1, <2>3 DEF TypeOK
  <2>4. QED BY <2>2, <2>3
<1>4. row' \in [Jobs -> Row] BY <1>1, <1>3
<1>5. TypeOK' BY <1>1, <1>2, <1>4 DEF TypeOK, slotVars, processes
<1>6. ASSUME NEW k \in Jobs PROVE Swept(k)
  <2>1. req'[k] = req[k] \/ (req[k] = "idle" /\ req'[k] = "creating")
    BY <1>1 DEF TypeOK
  <2>2. thread[k] = NoThread \/ Exiting(k)' = Exiting(k)
    BY <1>1, <1>2 DEF TypeOK, Exiting, Lifecycle, JobInv, Unlaunched, processes
  <2>3. QED BY <1>1, <1>3, <1>4, <2>1, <2>2 DEF Swept
<1>7. \A k \in Jobs : JobInv(k)' /\ (Active(k)' => Active(k))
  BY <1>6, SweptKeeps DEF Lifecycle
<1>8. QED BY <1>5, <1>7, NoneOpened DEF Lifecycle

LEMMA SweepWriteKeeps ==
  ASSUME TypeOK, Lifecycle, OneOpen, SweepWrite
  PROVE  TypeOK' /\ Lifecycle' /\ OneOpen'
<1>1. PICK r \in found :
        /\ row' = IF row[r.job].status = r.status
                  THEN [row EXCEPT ![r.job] = EndedAs(r.job, "failed")] ELSE row
        /\ found' = found \ {r}
        /\ UNCHANGED <<slotVars, runs, submission, thread, processes, faults>>
  BY DEF SweepWrite
<1>2. r.job \in Jobs /\ r.status \in {"queued", "running"} BY DEF TypeOK, Found
<1>3. /\ row' \in [Jobs -> Row]
      /\ \A k \in Jobs : row'[k] = row[k] \/ (Active(k) /\ ~Active(k)')
  <2>1. "failed" \in Statuses BY DEF Statuses
  <2>2. EndedAs(r.job, "failed") \in Row /\ EndedAs(r.job, "failed").status = "failed"
    BY <1>2, <2>1, EndedType
  <2>3. CASE row[r.job].status = r.status
    BY <1>1, <1>2, <2>2, <2>3 DEF TypeOK, Active
  <2>4. CASE row[r.job].status # r.status BY <1>1, <2>4 DEF TypeOK
  <2>5. QED BY <2>3, <2>4
<1>4. TypeOK' BY <1>1, <1>3 DEF TypeOK, slotVars, submission, processes
<1>5. \A k \in Jobs : Swept(k)
  BY <1>1, <1>3 DEF Swept, Exiting, submission, processes
<1>6. \A k \in Jobs : JobInv(k)' /\ (Active(k)' => Active(k))
  BY <1>5, SweptKeeps DEF Lifecycle
<1>7. QED BY <1>4, <1>6, NoneOpened DEF Lifecycle

LEMMA CreateKeeps ==
  ASSUME TypeOK, Lifecycle, OneOpen, NEW j \in Jobs, Create(j)
  PROVE  TypeOK' /\ Lifecycle' /\ OneOpen'
<1>0. /\ JobInv(j) /\ SlotTyped /\ faults' \in Nat /\ req[j] = "creating"
      /\ UNCHANGED <<runs, home, thread, found, processes>>
  BY SlotUnchanged DEF Create, TypeOK, Lifecycle
<1>1. CASE \E k \in Jobs : Active(k)
  <2>1. req' = [req EXCEPT ![j] = "idle"] /\ UNCHANGED row BY <1>1 DEF Create
  <2>2. Good(j) BY <1>0, <2>1, RequestOnly DEF rows
  <2>3. QED BY <2>2, GoodKeeps
<1>2. CASE ~\E k \in Jobs : Active(k)
  <2>1. /\ req' = [req EXCEPT ![j] = "dispatching"]
        /\ row' = [row EXCEPT ![j] = [NoRow EXCEPT !.status = "queued"]]
    BY <1>2 DEF Create
  <2>2. [NoRow EXCEPT !.status = "queued"] \in Row BY RowTypes DEF Statuses
  <2>3. /\ row' \in [Jobs -> Row] /\ row'[j].status = "queued" /\ ~row'[j].cancel
        /\ \A k \in Jobs \ {j} : row'[k] = row[k]
    BY <2>1, <2>2 DEF TypeOK, NoRow
  <2>4. /\ req'[j] = "dispatching" /\ \A k \in Jobs \ {j} : req'[k] = req[k]
        /\ req' \in [Jobs -> {"idle", "creating", "dispatching", "failing", "done", "dead"}]
    BY <2>1 DEF TypeOK
  <2>5. TypeOK' BY <1>0, <2>3, <2>4 DEF TypeOK, SlotTyped, processes
  <2>6. Alone(j) BY <1>0, <2>3, <2>4 DEF Alone, processes
  <2>7. JobInv(j)'
    <3>1. thread'[j] = NoThread /\ j \notin runs'
      BY <1>0 DEF JobInv, Unborn, Unlaunched
    <3>2. QED
      BY <2>3, <2>4, <3>1 DEF JobInv, Unborn, Unlaunched, NotYetRunning, QueuedWanted,
         ToldIsEnded, GaveUpExiting, Saved, Accounted, NoThread
  <2>8. Lifecycle' BY <2>6, <2>7, AloneKeeps
  <2>9. OneOpen' BY <1>2, <2>3 DEF OneOpen, Active
  <2>10. QED BY <2>5, <2>8, <2>9
<1>3. QED BY <1>1, <1>2

-----------------------------------------------------------------------------
(* Processes. *)

(* A process that shuts down or is started again. *)
LEMMA ProcKeeps ==
  ASSUME TypeOK, Lifecycle, OneOpen,
         UNCHANGED <<rows, submission, thread, found, guest>>, faults' \in Nat, SlotTyped,
         proc' \in [Procs -> {"up", "exiting", "down"}],
         \A p \in Procs : proc[p] = "exiting" => proc'[p] = "exiting"
  PROVE  TypeOK' /\ Lifecycle' /\ OneOpen'
<1>1. TypeOK' BY DEF TypeOK, SlotTyped, rows, submission
<1>2. ASSUME NEW k \in Jobs PROVE JobInv(k)' /\ Active(k)' = Active(k)
  <2>1. Exiting(k) => Exiting(k)' BY DEF Exiting, TypeOK, submission
  <2>2. JobInv(k) /\ Active(k)' = Active(k) BY DEF Lifecycle, Active, rows
  <2>3. QED
    BY <2>1, <2>2 DEF JobInv, Unborn, Unlaunched, NotYetRunning, QueuedWanted, ToldIsEnded,
       GaveUpExiting, Saved, Accounted, Ending, rows, submission
<1>3. QED BY <1>1, <1>2, NoneOpened DEF Lifecycle

LEMMA DownKeeps ==
  ASSUME TypeOK, Lifecycle, OneOpen, NEW p \in Procs, Down(p), faults' \in Nat
  PROVE  TypeOK' /\ Lifecycle' /\ OneOpen'
<1>1. UNCHANGED <<rows, home, found>> BY DEF Down
<1>2. ASSUME NEW j \in Jobs
      PROVE  /\ thread'[j] = IF j \in Of(p) /\ thread[j].pc \notin Away
                             THEN [NoThread EXCEPT !.pc = "dead"] ELSE thread[j]
             /\ req'[j] = IF j \notin Of(p) THEN req[j]
                          ELSE IF req[j] = "creating" THEN "idle"
                          ELSE IF req[j] \in {"dispatching", "failing"} THEN "dead"
                          ELSE req[j]
  <2>1. /\ thread' = [k \in Jobs |-> IF k \in Of(p) /\ thread[k].pc \notin Away
                                     THEN [NoThread EXCEPT !.pc = "dead"] ELSE thread[k]]
        /\ req' = [k \in Jobs |->
               IF k \notin Of(p) THEN req[k]
               ELSE CASE req[k] = "creating" -> "idle"
                      [] req[k] \in {"dispatching", "failing"} -> "dead"
                      [] OTHER -> req[k]]
    BY DEF Down
  <2>2. QED BY <2>1
<1>3. TypeOK'
  <2>1. thread' \in [Jobs -> Thread]
    <3>1. thread' = [j \in Jobs |-> thread'[j]] BY DEF Down
    <3>2. \A j \in Jobs : thread'[j] \in Thread
      <4>1. "dead" \in Steps BY DEF Steps, Away
      <4>2. [NoThread EXCEPT !.pc = "dead"] \in Thread BY <4>1, ThreadTypes
      <4>3. QED BY <1>2, <4>2 DEF TypeOK
    <3>3. QED BY <3>1, <3>2
  <2>2. req' \in [Jobs -> {"idle", "creating", "dispatching", "failing", "done", "dead"}]
    <3>1. req' = [j \in Jobs |-> req'[j]] BY DEF Down
    <3>2. \A j \in Jobs : req'[j] \in {"idle", "creating", "dispatching", "failing", "done", "dead"}
      BY <1>2 DEF TypeOK
    <3>3. QED BY <3>1, <3>2
  <2>3. /\ sem' \in [Procs -> {0, 1}] /\ shown' \in [Procs -> Holders]
        /\ proc' \in [Procs -> {"up", "exiting", "down"}]
    BY DEF Down, ResetSlot, TypeOK, Holders
  <2>4. guest' \in [at: Procs, pc: {"away", "acquired", "inside", "unnamed"}]
    BY DEF Down, NoGuest, TypeOK
  <2>5. QED BY <1>1, <2>1, <2>2, <2>3, <2>4 DEF TypeOK, rows
<1>4. ASSUME NEW j \in Jobs PROVE JobInv(j)' /\ Active(j)' = Active(j)
  <2>0. JobInv(j) /\ Active(j)' = Active(j) BY <1>1 DEF Lifecycle, Active, rows
  <2>1. CASE j \in Of(p)
    <3>1. CASE req[j] # "done"
      <4>1. thread[j] = NoThread /\ thread'[j] = NoThread
        BY <1>2, <2>0, <3>1 DEF JobInv, Unlaunched, NoThread, Away
      <4>2. QED
        BY <1>1, <1>2, <2>0, <2>1, <3>1, <4>1
        DEF JobInv, Unborn, Unlaunched, NotYetRunning, QueuedWanted, ToldIsEnded,
            GaveUpExiting, Saved, Accounted, Ending, NoThread, rows, Active, NoRow
    <3>2. CASE req[j] = "done" /\ thread[j].pc \in Away
      <4>1. thread'[j] = thread[j] /\ req'[j] = "done" BY <1>2, <2>1, <3>2
      <4>2. QED
        BY <1>1, <2>0, <3>2, <4>1
        DEF JobInv, Unborn, Unlaunched, NotYetRunning, QueuedWanted, ToldIsEnded,
            GaveUpExiting, Saved, Accounted, Ending, rows, Away
    <3>3. CASE req[j] = "done" /\ thread[j].pc \notin Away
      <4>1. thread'[j].pc = "dead" /\ req'[j] = "done"
        BY <1>2, <2>1, <3>3 DEF NoThread
      <4>2. QED
        BY <1>1, <2>0, <4>1
        DEF JobInv, Unborn, Unlaunched, NotYetRunning, QueuedWanted, ToldIsEnded,
            GaveUpExiting, Saved, Accounted, Early, rows
    <3>4. QED BY <3>1, <3>2, <3>3
  <2>2. CASE j \notin Of(p)
    <3>1. thread'[j] = thread[j] /\ req'[j] = req[j] BY <1>2, <2>2
    <3>2. Exiting(j)' = Exiting(j) BY <1>1, <2>2 DEF Exiting, Of, Down, TypeOK
    <3>3. QED BY <1>1, <2>0, <3>1, <3>2, SameJob DEF rows
  <2>3. QED BY <2>1, <2>2
<1>5. QED BY <1>3, <1>4, NoneOpened DEF Lifecycle

-----------------------------------------------------------------------------
(* The slot. *)

(* A step that takes nobody into the slot. *)
Quiet ==
  /\ UNCHANGED <<sem, shown, guest>>
  /\ \A k \in Jobs : (In(k)' => In(k) /\ home'[k] = home[k]) /\ (Shows(k)' => Shows(k))

LEMMA QuietKeeps == ASSUME SlotInv, Quiet PROVE SlotInv'
<1>1. OneInside' BY DEF SlotInv, OneInside, Quiet, GuestIn
<1>2. HolderTruthful'
  <2>1. \A k \in Jobs : Shows(k)' => shown'[home'[k]] = "exam_job"
    BY DEF SlotInv, HolderTruthful, Quiet, Shows, In
  <2>2. QED BY <2>1 DEF SlotInv, HolderTruthful, Quiet, Shows
<1>3. QED BY <1>1, <1>2 DEF SlotInv

(* A job takes the slot, shows its name, and leaves. *)
LEMMA TakenBy ==
  ASSUME TypeOK, SlotInv, NEW j \in Jobs, Acquire(j) PROVE SlotTyped /\ SlotInv'
<1>0. /\ home[j] \in Procs /\ sem[home[j]] = 1
      /\ sem' = [sem EXCEPT ![home[j]] = sem[home[j]] - 1]
      /\ UNCHANGED <<shown, home, guest>>
  BY DEF TypeOK, Acquire, TakeSlot, Free, submission, processes
<1>1. /\ sem' \in [Procs -> {0, 1}] /\ sem'[home[j]] = 0
      /\ \A p \in Procs \ {home[j]} : sem'[p] = sem[p]
  BY <1>0 DEF TypeOK
<1>2. \A k \in Jobs \ {j} : In(k)' = In(k) /\ Shows(k)' = Shows(k)
  BY GotoType DEF Acquire, Steps, InSlot, In, Shows
<1>3. ~Shows(j)'
  BY GotoType DEF Acquire, Steps, InSlot, Shows
<1>4. \A k \in Jobs : In(k) => home[k] # home[j] BY <1>0 DEF SlotInv, OneInside
<1>5. ~GuestIn(home[j]) BY <1>0 DEF SlotInv, OneInside, GuestIn
<1>6. guest.at \in Procs /\ \A k \in Jobs : home[k] \in Procs BY DEF TypeOK
<1>7. OneInside'
  BY <1>0, <1>1, <1>2, <1>4, <1>5, <1>6 DEF SlotInv, OneInside, GuestIn
<1>8. HolderTruthful'
  <2>1. \A k \in Jobs : Shows(k)' => shown'[home'[k]] = "exam_job"
    BY <1>0, <1>2, <1>3 DEF SlotInv, HolderTruthful, Shows
  <2>2. QED BY <1>0, <2>1 DEF SlotInv, HolderTruthful, Shows
<1>9. QED BY <1>0, <1>1, <1>7, <1>8 DEF SlotTyped, SlotInv, TypeOK

LEMMA EnteredBy ==
  ASSUME TypeOK, SlotInv, NEW j \in Jobs, Enter(j) PROVE SlotTyped /\ SlotInv'
<1>0. /\ home[j] \in Procs /\ In(j)
      /\ shown' = [shown EXCEPT ![home[j]] = "exam_job"]
      /\ UNCHANGED <<sem, home, guest>>
  BY DEF TypeOK, Enter, ShowHolder, submission, processes, In, InSlot
<1>1. shown' \in [Procs -> Holders] /\ shown'[home[j]] = "exam_job"
      /\ \A p \in Procs \ {home[j]} : shown'[p] = shown[p]
  BY <1>0 DEF TypeOK, Holders
<1>2. \A k \in Jobs : In(k)' = In(k) /\ (k # j => Shows(k)' = Shows(k))
  BY <1>0, GotoType DEF Enter, Steps, InSlot, In, Shows
<1>3. ~GuestIn(home[j]) BY <1>0 DEF SlotInv, OneInside
<1>4. \A k \in Jobs : home[k] \in Procs BY DEF TypeOK
<1>5. OneInside' BY <1>0, <1>2 DEF SlotInv, OneInside, GuestIn
<1>6. HolderTruthful'
  <2>1. ASSUME NEW k \in Jobs, Shows(k)' PROVE shown'[home'[k]] = "exam_job"
    BY <1>0, <1>1, <1>2, <1>4, <2>1 DEF SlotInv, HolderTruthful, Shows
  <2>2. guest'.pc = "inside" => shown'[guest'.at] = "other"
    BY <1>0, <1>1, <1>3 DEF SlotInv, HolderTruthful, GuestIn, TypeOK
  <2>3. QED BY <2>1, <2>2 DEF HolderTruthful, Shows
<1>7. QED BY <1>0, <1>1, <1>5, <1>6 DEF SlotTyped, SlotInv, TypeOK

LEMMA LeftBy ==
  ASSUME TypeOK, SlotInv, NEW j \in Jobs, Leave(j) PROVE SlotTyped /\ SlotInv'
<1>0. home[j] \in Procs /\ In(j) /\ UNCHANGED <<home, guest>>
  BY DEF TypeOK, Leave, submission, processes, In, InSlot
<1>1. sem[home[j]] = 0 /\ ~GuestIn(home[j]) BY <1>0 DEF SlotInv, OneInside
<1>2. \A k \in Jobs \ {j} : /\ In(k) => home[k] # home[j]
                            /\ In(k)' = In(k) /\ Shows(k)' = Shows(k)
  <2>1. \A k \in Jobs \ {j} : In(k) => home[k] # home[j]
    BY <1>0 DEF SlotInv, OneInside
  <2>2. PICK s \in {"unnamed", "ending"} : Goto(j, s) BY DEF Leave
  <2>3. QED BY <2>1, <2>2, GotoType DEF Steps, InSlot, In, Shows
<1>3. \A k \in Jobs : home[k] \in Procs BY DEF TypeOK
<1>4. CASE ClearHolder(home[j]) /\ Goto(j, "unnamed")
  <2>1. /\ shown' \in [Procs -> Holders] /\ UNCHANGED sem
        /\ \A p \in Procs \ {home[j]} : shown'[p] = shown[p]
    BY <1>0, <1>4 DEF TypeOK, Holders, ClearHolder, ShowHolder
  <2>2. In(j)' /\ ~Shows(j)'
    BY <1>4, GotoType DEF Steps, InSlot, In, Shows
  <2>3. OneInside' BY <1>0, <1>2, <2>1, <2>2 DEF SlotInv, OneInside, GuestIn
  <2>4. HolderTruthful'
    <3>1. ASSUME NEW k \in Jobs, Shows(k)' PROVE shown'[home'[k]] = "exam_job"
      <4>1. k # j /\ Shows(k) /\ In(k) BY <1>2, <2>2, <3>1 DEF Shows, In
      <4>2. QED BY <1>0, <1>2, <1>3, <2>1, <4>1 DEF SlotInv, HolderTruthful, Shows
    <3>2. guest'.pc = "inside" => shown'[guest'.at] = "other"
      BY <1>0, <1>1, <2>1 DEF SlotInv, HolderTruthful, GuestIn, TypeOK
    <3>3. QED BY <3>1, <3>2 DEF HolderTruthful, Shows
  <2>5. QED BY <2>1, <2>3, <2>4 DEF SlotTyped, SlotInv, TypeOK
<1>5. CASE ReleaseSlot(home[j]) /\ Goto(j, "ending")
  <2>1. sem' = [sem EXCEPT ![home[j]] = sem[home[j]] + 1] /\ UNCHANGED shown
    BY <1>5 DEF ReleaseSlot
  <2>2. /\ sem' \in [Procs -> {0, 1}]
        /\ \A p \in Procs \ {home[j]} : sem'[p] = sem[p]
    BY <1>0, <1>1, <2>1 DEF TypeOK
  <2>3. ~In(j)' /\ ~Shows(j)'
    BY <1>5, GotoType DEF Steps, InSlot, In, Shows, Away
  <2>4. guest.at \in Procs BY DEF TypeOK
  <2>5. OneInside'
    BY <1>0, <1>1, <1>2, <1>3, <2>2, <2>3, <2>4 DEF SlotInv, OneInside, GuestIn
  <2>6. HolderTruthful'
    <3>1. \A k \in Jobs : Shows(k)' => shown'[home'[k]] = "exam_job"
      BY <1>0, <1>2, <2>1, <2>3 DEF SlotInv, HolderTruthful, Shows
    <3>2. QED BY <1>0, <2>1, <3>1 DEF SlotInv, HolderTruthful, Shows
  <2>7. QED BY <2>1, <2>2, <2>5, <2>6 DEF SlotTyped, SlotInv, TypeOK
<1>6. QED BY <1>4, <1>5 DEF Leave

LEMMA GuestArrivesKeeps ==
  ASSUME TypeOK, SlotInv, NEW p \in Procs, GuestArrives(p) PROVE TypeOK' /\ SlotInv'
<1>0. /\ guest' = [at |-> p, pc |-> "acquired"] /\ guest.pc = "away"
      /\ sem[p] = 1 /\ sem' = [sem EXCEPT ![p] = sem[p] - 1]
      /\ UNCHANGED <<shown, rows, submission, thread, found, proc, faults>>
  BY DEF GuestArrives, TakeSlot, Free, TypeOK
<1>1. /\ sem' \in [Procs -> {0, 1}] /\ sem'[p] = 0
      /\ \A q \in Procs \ {p} : sem'[q] = sem[q]
  BY <1>0 DEF TypeOK
<1>2. \A k \in Jobs : home[k] \in Procs BY DEF TypeOK
<1>3. \A k \in Jobs : /\ home'[k] = home[k] /\ In(k)' = In(k) /\ Shows(k)' = Shows(k)
                      /\ (In(k) => home[k] # p)
  BY <1>0 DEF SlotInv, OneInside, In, Shows, submission
<1>4. TypeOK' BY <1>0, <1>1 DEF TypeOK, rows, submission
<1>5. OneInside' BY <1>0, <1>1, <1>2, <1>3 DEF SlotInv, OneInside, GuestIn
<1>6. HolderTruthful'
  <2>1. \A k \in Jobs : Shows(k)' => shown'[home'[k]] = "exam_job"
    BY <1>0, <1>3 DEF SlotInv, HolderTruthful, Shows
  <2>2. QED BY <1>0, <2>1 DEF HolderTruthful, Shows
<1>7. QED BY <1>4, <1>5, <1>6 DEF SlotInv

LEMMA GuestStepKeeps ==
  ASSUME TypeOK, SlotInv, GuestStep PROVE TypeOK' /\ SlotInv'
<1> DEFINE p == guest.at
<1>0. /\ p \in Procs /\ GuestIn(p) /\ sem[p] = 0
      /\ UNCHANGED <<rows, submission, thread, found, proc, faults>>
  BY DEF GuestStep, TypeOK, SlotInv, OneInside, GuestIn
<1>1. \A k \in Jobs : /\ home'[k] = home[k] /\ In(k)' = In(k) /\ Shows(k)' = Shows(k)
                      /\ home[k] \in Procs /\ (In(k) => home[k] # p)
                      /\ (Shows(k) => In(k))
  BY <1>0 DEF SlotInv, OneInside, In, Shows, submission, TypeOK
<1>2. CASE /\ guest.pc \in {"acquired", "inside"}
           /\ \E who \in {"other", "nobody"} : ShowHolder(p, who)
           /\ guest' \in {[guest EXCEPT !.pc = "inside"], [guest EXCEPT !.pc = "unnamed"]}
           /\ guest'.pc = "inside" => ShowHolder(p, "other")
  <2>1. PICK who \in {"other", "nobody"} : ShowHolder(p, who) BY <1>2
  <2>2. /\ shown' \in [Procs -> Holders] /\ UNCHANGED sem /\ shown'[p] = who
        /\ \A q \in Procs \ {p} : shown'[q] = shown[q]
    BY <1>0, <2>1 DEF TypeOK, Holders, ShowHolder
  <2>3. /\ guest' \in [at: Procs, pc: {"away", "acquired", "inside", "unnamed"}]
        /\ guest'.at = p
    BY <1>2 DEF TypeOK
  <2>4. TypeOK' BY <1>0, <2>2, <2>3 DEF TypeOK, rows, submission
  <2>5. OneInside'
    BY <1>0, <1>1, <2>2, <2>3 DEF SlotInv, OneInside, GuestIn
  <2>6. HolderTruthful'
    <3>1. \A k \in Jobs : Shows(k)' => shown'[home'[k]] = "exam_job"
      BY <1>1, <2>2 DEF SlotInv, HolderTruthful, Shows
    <3>2. guest'.pc = "inside" => shown'[guest'.at] = "other"
      BY <1>0, <1>2, <2>3 DEF ShowHolder, TypeOK
    <3>3. QED BY <3>1, <3>2 DEF HolderTruthful, Shows
  <2>7. QED BY <2>4, <2>5, <2>6 DEF SlotInv
<1>3. CASE guest.pc = "unnamed" /\ ReleaseSlot(p) /\ guest' = NoGuest
  <2>1. sem' = [sem EXCEPT ![p] = sem[p] + 1] /\ UNCHANGED shown BY <1>3 DEF ReleaseSlot
  <2>2. /\ sem' \in [Procs -> {0, 1}]
        /\ \A q \in Procs \ {p} : sem'[q] = sem[q]
    BY <1>0, <2>1 DEF TypeOK
  <2>3. /\ guest' \in [at: Procs, pc: {"away", "acquired", "inside", "unnamed"}]
        /\ guest'.pc = "away"
    BY <1>3 DEF NoGuest
  <2>4. TypeOK' BY <1>0, <2>1, <2>2, <2>3 DEF TypeOK, rows, submission
  <2>5. OneInside'
    BY <1>1, <2>2, <2>3 DEF SlotInv, OneInside, GuestIn
  <2>6. HolderTruthful'
    <3>1. \A k \in Jobs : Shows(k)' => shown'[home'[k]] = "exam_job"
      BY <1>1, <2>1 DEF SlotInv, HolderTruthful, Shows
    <3>2. QED BY <2>3, <3>1 DEF HolderTruthful, Shows
  <2>7. QED BY <2>4, <2>5, <2>6 DEF SlotInv
<1>4. QED
  <2>1. CASE guest.pc = "acquired"
    <3>1. ShowHolder(p, "other") /\ guest' = [guest EXCEPT !.pc = "inside"]
      BY <2>1 DEF GuestStep
    <3>2. QED BY <1>2, <2>1, <3>1
  <2>2. CASE guest.pc = "inside"
    <3>1. ShowHolder(p, "nobody") /\ guest' = [guest EXCEPT !.pc = "unnamed"]
      BY <2>2 DEF GuestStep, ClearHolder
    <3>2. guest'.pc = "unnamed" BY <3>1 DEF TypeOK
    <3>3. QED BY <1>2, <2>2, <3>1, <3>2
  <2>3. CASE guest.pc = "unnamed" BY <1>3, <2>3 DEF GuestStep
  <2>4. QED BY <2>1, <2>2, <2>3 DEF GuestStep

LEMMA DownSlot ==
  ASSUME TypeOK, SlotInv, NEW p \in Procs, Down(p) PROVE SlotInv'
<1>1. /\ \A q \in Procs \ {p} : sem'[q] = sem[q] /\ shown'[q] = shown[q]
      /\ guest' = IF guest.at = p THEN NoGuest ELSE guest
      /\ UNCHANGED home
  BY DEF Down, ResetSlot, TypeOK, rows
<1>2. \A k \in Jobs : home[k] \in Procs BY DEF TypeOK
<1>3. ASSUME NEW k \in Jobs
      PROVE  /\ (In(k)' => In(k) /\ home[k] # p)
             /\ (Shows(k)' => Shows(k) /\ home[k] # p)
  <2>1. thread'[k] = IF k \in Of(p) /\ thread[k].pc \notin Away
                     THEN [NoThread EXCEPT !.pc = "dead"] ELSE thread[k]
    BY DEF Down
  <2>2. CASE k \in Of(p) /\ thread[k].pc \notin Away
    <3>1. thread'[k].pc = "dead" BY <2>1, <2>2 DEF NoThread
    <3>2. QED BY <3>1 DEF In, Shows, InSlot
  <2>3. CASE ~(k \in Of(p) /\ thread[k].pc \notin Away)
    BY <2>1, <2>3 DEF In, Shows, InSlot, Of, Away
  <2>4. QED BY <2>2, <2>3
<1>4. \/ guest' = guest /\ guest.at # p
      \/ guest'.pc = "away"
  BY <1>1 DEF NoGuest
<1>5. guest.at \in Procs BY DEF TypeOK
<1>6. OneInside'
  <2>1. \A j \in Jobs : In(j)' => sem'[home'[j]] = 0 /\ ~GuestIn(home[j])'
    BY <1>1, <1>2, <1>3, <1>4 DEF SlotInv, OneInside, GuestIn
  <2>2. \A j, k \in Jobs : In(j)' /\ In(k)' /\ home'[j] = home'[k] => j = k
    BY <1>1, <1>3 DEF SlotInv, OneInside
  <2>3. guest'.pc # "away" => sem'[guest'.at] = 0
    BY <1>1, <1>4, <1>5 DEF SlotInv, OneInside
  <2>4. QED BY <2>1, <2>2, <2>3 DEF OneInside
<1>7. HolderTruthful'
  <2>1. \A k \in Jobs : Shows(k)' => shown'[home'[k]] = "exam_job"
    BY <1>1, <1>2, <1>3 DEF SlotInv, HolderTruthful, Shows
  <2>2. guest'.pc = "inside" => shown'[guest'.at] = "other"
    BY <1>1, <1>4, <1>5 DEF SlotInv, HolderTruthful
  <2>3. QED BY <2>1, <2>2 DEF HolderTruthful, Shows
<1>8. QED BY <1>6, <1>7 DEF SlotInv

LEMMA QuietOf ==
  ASSUME NEW j \in Jobs, UNCHANGED <<slotVars, home, guest>>,
         \A k \in Jobs \ {j} : thread'[k] = thread[k],
         thread'[j].pc \in InSlot => Shows(j),
         thread'[j].pc \notin {"acquired", "unnamed"}
  PROVE  Quiet
BY DEF Quiet, In, Shows, slotVars

(* The other steps of a job's thread take nobody into the slot. *)
LEMMA RunQuiet ==
  ASSUME TypeOK, NEW j \in Jobs,
         \/ Begin(j) \/ GiveUp(j) \/ Claim(j) \/ EndUnstarted(j) \/ Act(j) \/ Commit(j)
         \/ CommitLost(j) \/ Finish(j) \/ EndLost(j)
  PROVE  Quiet
<1>1. UNCHANGED <<slotVars, home, guest>>
  BY DEF Begin, GiveUp, Claim, EndUnstarted, Act, Checkpoint, Solve, Commit, CommitLost,
     Finish, EndLost, submission, processes
<1>2. CASE \E s \in {"waiting", "done", "gaveup", "ending"} : Goto(j, s)
  <2>1. PICK s \in {"waiting", "done", "gaveup", "ending"} : Goto(j, s) BY <1>2
  <2>2. QED BY <1>1, <2>1, GotoType, QuietOf DEF Steps, InSlot, Away
<1>3. CASE /\ Shows(j)
           /\ \E s \in {"working", "unstarted", "saving", "answered", "errored"} : Goto(j, s)
  <2>1. PICK s \in {"working", "unstarted", "saving", "answered", "errored"} : Goto(j, s)
    BY <1>3
  <2>2. QED BY <1>1, <1>3, <2>1, GotoType, QuietOf DEF Steps, InSlot
<1>4. CASE Shows(j) /\ \E g \in {"none", "cancelled", "failed"} : GoEnd(j, g)
  BY <1>1, <1>4, GoEndType, QuietOf
<1>5. QED
  <2>1. CASE Begin(j) \/ GiveUp(j) \/ EndLost(j)
    BY <1>2, <2>1 DEF Begin, GiveUp, EndLost
  <2>2. CASE Claim(j) \/ Commit(j) \/ CommitLost(j) \/ Finish(j)
    BY <1>3, <1>4, <2>2 DEF Claim, Commit, CommitLost, Finish, Shows, InSlot
  <2>3. CASE EndUnstarted(j) \/ Act(j)
    BY <1>2, <1>3, <1>4, <2>3 DEF EndUnstarted, Act, Checkpoint, Solve, Shows, InSlot
  <2>4. QED BY <2>1, <2>2, <2>3

LEMMA BreakQuiet == ASSUME TypeOK, NEW j \in Jobs, Break(j) PROVE Quiet
<1>1. UNCHANGED <<slotVars, home, guest>> BY DEF Break, submission, processes
<1>2. CASE thread[j].pc \in {"new", "gaveup"}
  <2>1. thread' = [thread EXCEPT ![j].pc = "ending", ![j].goal = "failed"]
    BY <1>2 DEF Break
  <2>2. thread'[j].pc = "ending" /\ \A k \in Jobs \ {j} : thread'[k] = thread[k]
    BY <2>1 DEF TypeOK, Thread
  <2>3. QED BY <1>1, <2>2, QuietOf DEF InSlot
<1>3. CASE thread[j].pc \notin {"new", "gaveup"}
  <2>1. GoEnd(j, "failed") /\ Shows(j) BY <1>3 DEF Break, Breakable, Shows, InSlot
  <2>2. QED BY <1>1, <2>1, GoEndType, QuietOf
<1>4. QED BY <1>2, <1>3

LEMMA EndSafelyQuiet == ASSUME TypeOK, NEW j \in Jobs, EndSafely(j) PROVE Quiet
<1>1. thread'[j].pc = "done" /\ \A k \in Jobs \ {j} : thread'[k] = thread[k]
  BY DEF EndSafely, TypeOK, NoThread
<1>2. UNCHANGED <<slotVars, home, guest>> BY DEF EndSafely, submission, processes
<1>3. QED BY <1>1, <1>2, QuietOf DEF InSlot

LEMMA FlushQuiet == ASSUME TypeOK, NEW j \in Jobs, Flush(j) PROVE Quiet
<1>1. \A k \in Jobs : thread'[k].pc = thread[k].pc BY DEF Flush, TypeOK, Thread
<1>2. UNCHANGED <<slotVars, home, guest>> BY DEF Flush, submission, processes
<1>3. QED BY <1>1, <1>2 DEF Quiet, In, Shows, slotVars

LEMMA DispatchQuiet == ASSUME TypeOK, NEW j \in Jobs, Dispatch(j) PROVE Quiet
<1>1. thread'[j].pc = "new" /\ \A k \in Jobs \ {j} : thread'[k] = thread[k]
  BY DEF Dispatch, TypeOK, Thread
<1>2. UNCHANGED <<slotVars, home, guest>> BY DEF Dispatch, processes
<1>3. QED BY <1>1, <1>2, QuietOf DEF InSlot

LEMMA SubmitQuiet == ASSUME TypeOK, Lifecycle, NEW j \in Jobs, Submit(j) PROVE Quiet
<1>1. UNCHANGED <<slotVars, thread, guest>> /\ req[j] = "idle" BY DEF Submit, processes
<1>2. \A k \in Jobs \ {j} : home'[k] = home[k] BY DEF Submit, TypeOK
<1>3. thread[j] = NoThread BY <1>1 DEF Lifecycle, JobInv, Unlaunched
<1>4. QED BY <1>1, <1>2, <1>3 DEF Quiet, In, Shows, slotVars, NoThread, InSlot

LEMMA SameThreadsQuiet ==
  ASSUME UNCHANGED <<slotVars, thread, home, guest>> PROVE Quiet
BY DEF Quiet, In, Shows, slotVars

-----------------------------------------------------------------------------
(* The theorems. *)

LEMMA InvariantInit == Init => Invariant
<1> SUFFICES ASSUME Init PROVE Invariant
  OBVIOUS
<1>1. TypeOK
  BY RowTypes, ThreadTypes
  DEF Init, InitSlot, TypeOK, Holders, NoGuest
<1>2. Lifecycle
  BY DEF Init, Lifecycle, JobInv, Unborn, Unlaunched, NotYetRunning, QueuedWanted,
     ToldIsEnded, GaveUpExiting, Saved, Accounted, NoRow, NoThread, Active
<1>3. OneOpen BY DEF Init, OneOpen, Active, NoRow
<1>4. SlotInv
  BY DEF Init, SlotInv, OneInside, HolderTruthful, In, GuestIn, NoThread, NoGuest, InSlot
<1>5. QED BY <1>1, <1>2, <1>3, <1>4 DEF Invariant

(* A step of job j, of its request, its thread, its Stop and its clock. *)
LEMMA JobKeeps ==
  ASSUME Invariant, NEW j \in Jobs,
         \/ Submit(j) \/ Request(j) \/ Run(j) \/ Act(j) \/ Flush(j)
         \/ Cancel(j) \/ Silence(j) \/ TimePasses(j) \/ Fails(j)
  PROVE  Invariant'
<1>0. TypeOK /\ Lifecycle /\ OneOpen /\ SlotInv BY DEF Invariant
<1>1. ASSUME Good(j), SlotInv' PROVE Invariant' BY <1>0, <1>1, GoodKeeps DEF Invariant
<1>2. ASSUME Good(j), Quiet PROVE Invariant' BY <1>0, <1>1, <1>2, QuietKeeps
<1>3. CASE Submit(j)
  BY <1>0, <1>3, SubmitKeeps, SubmitQuiet, QuietKeeps DEF Invariant
<1>4. CASE Create(j)
  <2>1. Quiet BY <1>4, SameThreadsQuiet DEF Create, processes
  <2>2. QED BY <1>0, <1>4, <2>1, CreateKeeps, QuietKeeps DEF Invariant
<1>5. CASE Dispatch(j) BY <1>0, <1>2, <1>5, DispatchGood, DispatchQuiet
<1>6. CASE Refuse(j)
  <2>1. Quiet BY <1>6, SameThreadsQuiet DEF Refuse, processes
  <2>2. QED BY <1>0, <1>2, <1>6, <2>1, RefuseGood
<1>7. CASE DispatchFails(j)
  <2>1. Quiet BY <1>7, SameThreadsQuiet DEF DispatchFails, processes
  <2>2. /\ req' = [req EXCEPT ![j] = "failing"] /\ req[j] # "done" /\ SlotTyped
        /\ faults' \in Nat /\ UNCHANGED <<rows, home, thread, found, processes>>
    BY <1>0, <1>7, SlotUnchanged DEF DispatchFails, Fault, TypeOK
  <2>3. Good(j) BY <1>0, <2>2, RequestOnly
  <2>4. QED BY <1>2, <2>1, <2>3
<1>8. CASE Begin(j) \/ GiveUp(j)
  <2>1. SlotTyped BY <1>0, <1>8, SlotUnchanged DEF Begin, GiveUp
  <2>2. QED BY <1>0, <1>2, <1>8, <2>1, Waits, RunQuiet DEF SlotTyped
<1>9. CASE Acquire(j) BY <1>0, <1>1, <1>9, TakenBy, Waits DEF SlotTyped
<1>10. CASE Enter(j) BY <1>0, <1>1, <1>10, EnteredBy, Waits DEF SlotTyped
<1>11. CASE Leave(j) BY <1>0, <1>1, <1>11, LeftBy, LeaveGood
<1>12. CASE Claim(j) \/ EndUnstarted(j) \/ Act(j) \/ Commit(j)
  BY <1>0, <1>2, <1>12, ClaimGood, EndUnstartedGood, ActGood, CommitGood, RunQuiet
<1>13. CASE CommitLost(j) \/ Finish(j) \/ EndLost(j)
  BY <1>0, <1>2, <1>13, CommitLostGood, FinishGood, EndLostGood, RunQuiet
<1>14. CASE Break(j) BY <1>0, <1>2, <1>14, BreakGood, BreakQuiet
<1>15. CASE EndSafely(j) BY <1>0, <1>2, <1>15, EndSafelyGood, EndSafelyQuiet
<1>16. CASE Flush(j) BY <1>0, <1>2, <1>16, FlushGood, FlushQuiet
<1>17. CASE Cancel(j) \/ Silence(j) \/ TimePasses(j) \/ HeartbeatLost(j)
  <2>1. Quiet
    BY <1>17, SameThreadsQuiet
    DEF Cancel, Silence, TimePasses, HeartbeatLost, submission, processes
  <2>2. QED BY <1>0, <1>2, <1>17, <2>1, CancelGood, ClockGood
<1>18. QED
  BY <1>3, <1>4, <1>5, <1>6, <1>7, <1>8, <1>9, <1>10, <1>11, <1>12, <1>13, <1>14, <1>15,
     <1>16, <1>17
  DEF Request, Run, Fails

LEMMA InvariantNext == Invariant /\ [Next]_vars => Invariant'
<1> SUFFICES ASSUME Invariant, [Next]_vars PROVE Invariant'
  OBVIOUS
<1>0. TypeOK /\ Lifecycle /\ OneOpen /\ SlotInv BY DEF Invariant
<1>1. CASE SweepRead \/ SweepWrite
  <2>1. Quiet BY <1>1, SameThreadsQuiet DEF SweepRead, SweepWrite, submission, processes
  <2>2. CASE SweepRead
    <3>1. StaleRows \subseteq Found BY DEF StaleRows, Found, Stale, Active
    <3>2. TypeOK'
      BY <1>0, <2>2, <3>1 DEF SweepRead, TypeOK, slotVars, rows, submission, processes
    <3>3. \A k \in Jobs : JobInv(k)' /\ Active(k)' = Active(k)
      BY <1>0, <2>2, SameJob
      DEF SweepRead, Lifecycle, Exiting, Active, rows, submission, processes
    <3>4. Lifecycle' /\ OneOpen' BY <1>0, <3>3, NoneOpened DEF Lifecycle
    <3>5. QED BY <1>0, <2>1, <3>2, <3>4, QuietKeeps DEF Invariant
  <2>3. CASE SweepWrite
    BY <1>0, <2>1, <2>3, SweepWriteKeeps, QuietKeeps DEF Invariant
  <2>4. QED BY <1>1, <2>2, <2>3
<1>2. ASSUME NEW p \in Procs, Exit(p) \/ Start(p) PROVE Invariant'
  <2>1. Quiet BY <1>2, SameThreadsQuiet DEF Exit, Start, submission
  <2>2. /\ SlotTyped /\ faults' \in Nat
        /\ UNCHANGED <<rows, submission, thread, found, guest>>
    BY <1>0, <1>2, SlotUnchanged DEF Exit, Start, Fault, TypeOK
  <2>3. /\ proc' \in [Procs -> {"up", "exiting", "down"}]
        /\ \A q \in Procs : proc[q] = "exiting" => proc'[q] = "exiting"
    BY <1>0, <1>2 DEF Exit, Start, TypeOK
  <2>4. QED BY <1>0, <2>1, <2>2, <2>3, ProcKeeps, QuietKeeps DEF Invariant
<1>3. ASSUME NEW p \in Procs, Kill(p) \/ Ended(p) PROVE Invariant'
  <2>1. Down(p) /\ faults' \in Nat BY <1>0, <1>3 DEF Kill, Ended, Fault, TypeOK
  <2>2. QED BY <1>0, <2>1, DownKeeps, DownSlot DEF Invariant
<1>4. CASE GuestStep \/ \E p \in Procs : GuestArrives(p)
  <2>1. TypeOK' /\ SlotInv' BY <1>0, <1>4, GuestStepKeeps, GuestArrivesKeeps
  <2>2. UNCHANGED <<rows, submission, thread, proc>>
    BY <1>4 DEF GuestStep, GuestArrives
  <2>3. \A k \in Jobs : JobInv(k)' /\ Active(k)' = Active(k)
    BY <1>0, <2>2, SameJob DEF Lifecycle, Exiting, Active, rows, submission
  <2>4. QED BY <1>0, <2>1, <2>3, NoneOpened DEF Invariant, Lifecycle
<1>5. CASE UNCHANGED vars
  <2>1. TypeOK' BY <1>0, <1>5 DEF vars, TypeOK
  <2>2. SlotInv'
    BY <1>0, <1>5, SameThreadsQuiet, QuietKeeps DEF vars, slotVars
  <2>3. \A k \in Jobs : JobInv(k)' /\ Active(k)' = Active(k)
    BY <1>0, <1>5, SameJob DEF vars, Lifecycle, Exiting, Active
  <2>4. QED BY <1>0, <2>1, <2>2, <2>3, NoneOpened DEF Invariant, Lifecycle
<1>6. QED BY <1>1, <1>2, <1>3, <1>4, <1>5, JobKeeps DEF Next

(* Every variable of a background action keeps its type; the semaphore of  *)
(* a process has one permit at most, whatever its jobs and other users do  *)
(* and however they end (solver_slot, run_job).                            *)
THEOREM ExamTypes == Spec => []TypeOK
<1>1. Init /\ [][Next]_vars => []Invariant BY InvariantInit, InvariantNext, PTL
<1>2. Invariant => TypeOK BY DEF Invariant
<1>3. QED BY <1>1, <1>2, PTL DEF Spec

(* A saved timetable keeps its job succeeded against every later error,    *)
(* Stop and sweep (_commit_run, _finish, _end, sweep_stale).               *)
THEOREM SavedStaysSucceeded == Spec => []SavedMeansSucceeded
<1>1. Init /\ [][Next]_vars => []Invariant BY InvariantInit, InvariantNext, PTL
<1>2. Invariant => SavedMeansSucceeded
  BY DEF Invariant, TypeOK, Lifecycle, JobInv, Saved, SavedMeansSucceeded
<1>3. QED BY <1>1, <1>2, PTL DEF Spec

(* Only a dead process or a refused statement leaves an active row to the  *)
(* sweep, through every early return and exception of submit and run_job.  *)
THEOREM NoActiveOrphan == Spec => []NoOrphan
<1>1. Init /\ [][Next]_vars => []Invariant BY InvariantInit, InvariantNext, PTL
<1>2. Invariant => NoOrphan BY DEF Invariant, Lifecycle, JobInv, Accounted, NoOrphan
<1>3. QED BY <1>1, <1>2, PTL DEF Spec

(* solver_holder names the one who solves, in every process, while the     *)
(* last holder may still be leaving (solver_slot).                         *)
THEOREM HolderNamed == Spec => []HolderTruthful
<1>1. Init /\ [][Next]_vars => []Invariant BY InvariantInit, InvariantNext, PTL
<1>2. Invariant => HolderTruthful BY DEF Invariant, SlotInv
<1>3. QED BY <1>1, <1>2, PTL DEF Spec

-----------------------------------------------------------------------------
(* The refinement: what the lane sees of a job, *)
LaneState(j) ==
  IF j \in runs THEN "saved"
  ELSE IF row[j].status = "none" THEN "none"
  ELSE IF Active(j) THEN "open" ELSE "closed"

LEMMA LaneStates ==
  /\ Lane!vars = <<[j \in Jobs |-> LaneState(j)], {j \in Jobs : row[j].cancel}>>
  /\ Lane!vars' = <<[j \in Jobs |-> LaneState(j)'], {j \in Jobs : row'[j].cancel}>>
BY DEF Lane!vars, LaneState

(* and what a step comes to that touches one row: nothing, or the close of *)
(* an open action.                                                         *)
LEMMA LaneSame ==
  ASSUME \A k \in Jobs : LaneState(k)' = LaneState(k) /\ row'[k].cancel = row[k].cancel
  PROVE  UNCHANGED Lane!vars
BY LaneStates

LEMMA SameRowSame ==
  ASSUME UNCHANGED rows PROVE UNCHANGED Lane!vars
BY LaneSame DEF rows, LaneState, Active

LEMMA LaneClosed ==
  ASSUME NEW j \in Jobs, Active(j), Lifecycle, UNCHANGED runs,
         row'[j].cancel = row[j].cancel,
         row'[j].status \in {"succeeded", "failed", "cancelled"},
         \A k \in Jobs \ {j} : row'[k] = row[k]
  PROVE  Lane!Close(j)
<1>1. j \notin runs BY DEF Lifecycle, JobInv, Saved, Active
<1>2. LaneState(j) = "open" /\ LaneState(j)' = "closed"
  BY <1>1 DEF LaneState, Active
<1>3. \A k \in Jobs \ {j} : LaneState(k)' = LaneState(k) BY DEF LaneState, Active
<1>4. QED BY <1>2, <1>3 DEF Lane!Close, LaneState

LEMMA LaneCloses ==
  ASSUME TypeOK, Lifecycle, NEW j \in Jobs, UNCHANGED runs,
         NEW s \in {"succeeded", "failed", "cancelled"}, Close(j, s)
  PROVE  [Lane!Next]_(Lane!vars)
<1>1. CASE Active(j)
  <2>1. Lane!Close(j) BY <1>1, CloseType, LaneClosed DEF Active
  <2>2. QED BY <2>1 DEF Lane!Next
<1>2. CASE ~Active(j) BY <1>2, CloseType, SameRowSame DEF rows
<1>3. QED BY <1>1, <1>2

(* A new heartbeat, an older clock, the claim. *)
LEMMA LaneSameStatus ==
  ASSUME UNCHANGED runs,
         \A k \in Jobs : /\ row'[k].cancel = row[k].cancel
                          /\ \/ row'[k].status = row[k].status
                             \/ Active(k) /\ row'[k].status = "running"
  PROVE  UNCHANGED Lane!vars
<1>1. \A k \in Jobs : LaneState(k)' = LaneState(k) BY DEF LaneState, Active
<1>2. QED BY <1>1, LaneSame

(* Submit's sweep closes the one open action, or nobody's. *)
LEMMA LaneSubmit ==
  ASSUME TypeOK, Lifecycle, OneOpen, NEW j \in Jobs, Submit(j)
  PROVE  [Lane!Next]_(Lane!vars)
<1>1. /\ row' = [k \in Jobs |-> IF Stale(k) THEN EndedAs(k, "failed") ELSE row[k]]
      /\ UNCHANGED runs
  BY DEF Submit
<1>2. CASE \E k \in Jobs : Stale(k)
  <2>1. PICK k \in Jobs : Stale(k) BY <1>2
  <2>2. \A i \in Jobs \ {k} : ~Stale(i) BY <2>1 DEF OneOpen, Stale
  <2>3. "failed" \in Statuses BY DEF Statuses
  <2>4. row'[k].status = "failed" /\ row'[k].cancel = row[k].cancel
    BY <1>1, <2>1, <2>3, EndedType
  <2>5. Lane!Close(k) BY <1>1, <2>1, <2>2, <2>4, LaneClosed DEF Stale
  <2>6. QED BY <2>5 DEF Lane!Next
<1>3. CASE \A k \in Jobs : ~Stale(k)
  <2>1. row' = row BY <1>1, <1>3 DEF TypeOK
  <2>2. QED BY <1>1, <2>1, SameRowSame DEF rows
<1>4. QED BY <1>2, <1>3

LEMMA LaneCreate ==
  ASSUME TypeOK, Lifecycle, NEW j \in Jobs, Create(j)
  PROVE  [Lane!Next]_(Lane!vars)
<1>1. CASE \E k \in Jobs : Active(k) BY <1>1, SameRowSame DEF Create, rows
<1>2. CASE \A k \in Jobs : ~Active(k)
  <2>1. row[j] = NoRow /\ j \notin runs BY DEF Create, Lifecycle, JobInv, Unborn
  <2>2. /\ row'[j].status = "queued" /\ row'[j].cancel = FALSE /\ UNCHANGED runs
        /\ \A k \in Jobs \ {j} : row'[k] = row[k]
    BY <1>2 DEF Create, TypeOK, NoRow
  <2>3. LaneState(j) = "none" /\ LaneState(j)' = "open"
    BY <2>1, <2>2 DEF LaneState, Active, NoRow
  <2>4. \A k \in Jobs : LaneState(k) # "open" BY <1>2 DEF LaneState
  <2>5. \A k \in Jobs \ {j} : LaneState(k)' = LaneState(k)
    BY <2>2 DEF LaneState, Active
  <2>6. \A k \in Jobs : row'[k].cancel = row[k].cancel
    <3>1. row[j].cancel = FALSE BY <2>1 DEF NoRow
    <3>2. QED BY <2>2, <3>1
  <2>7. Lane!Submit(j)
    BY <2>3, <2>4, <2>5, <2>6 DEF Lane!Submit, LaneState
  <2>8. QED BY <2>7 DEF Lane!Next
<1>3. QED BY <1>1, <1>2

LEMMA LaneStop ==
  ASSUME TypeOK, Lifecycle, NEW j \in Jobs, Cancel(j)
  PROVE  [Lane!Next]_(Lane!vars)
<1>1. j \notin runs /\ Active(j) BY DEF Cancel, Lifecycle, JobInv, Saved, Active
<1>2. /\ row'[j].cancel /\ UNCHANGED runs
      /\ row'[j].status \in {row[j].status, "cancelled"}
      /\ \A k \in Jobs \ {j} : row'[k] = row[k]
  BY DEF Cancel, TypeOK, Row, NoRow
<1>3. LaneState(j) = "open" /\ LaneState(j)' \in {"open", "closed"}
  BY <1>1, <1>2 DEF LaneState, Active
<1>4. \A k \in Jobs \ {j} : LaneState(k)' = LaneState(k) BY <1>2 DEF LaneState, Active
<1>5. {k \in Jobs : row'[k].cancel} = {k \in Jobs : row[k].cancel} \union {j}
  BY <1>2
<1>6. Lane!Stop(j) BY <1>3, <1>4, <1>5 DEF Lane!Stop, LaneState
<1>7. QED BY <1>6 DEF Lane!Next

LEMMA LaneSave ==
  ASSUME TypeOK, Lifecycle, NEW j \in Jobs, Wanted(j),
         row' = [row EXCEPT ![j] = EndedAs(j, "succeeded")], runs' = runs \union {j}
  PROVE  [Lane!Next]_(Lane!vars)
<1>1. "succeeded" \in Statuses BY DEF Statuses
<1>2. /\ row'[j].cancel = row[j].cancel /\ row'[j].status = "succeeded"
      /\ \A k \in Jobs \ {j} : row'[k] = row[k]
  BY <1>1, EndedType DEF TypeOK
<1>3. j \notin runs BY DEF Lifecycle, JobInv, Saved, Wanted
<1>4. LaneState(j) = "open" /\ LaneState(j)' = "saved"
  BY <1>2, <1>3 DEF LaneState, Active, Wanted
<1>5. \A k \in Jobs \ {j} : LaneState(k)' = LaneState(k) BY <1>2 DEF LaneState, Active
<1>6. Lane!Save(j) BY <1>2, <1>4, <1>5 DEF Lane!Save, LaneState, Wanted
<1>7. QED BY <1>6 DEF Lane!Next

(* The thread's steps. *)
LEMMA LaneRun ==
  ASSUME TypeOK, Lifecycle, NEW j \in Jobs, Run(j) \/ Act(j) \/ Fails(j)
  PROVE  [Lane!Next]_(Lane!vars)
<1>1. CASE UNCHANGED rows BY <1>1, SameRowSame
<1>2. CASE Claim(j) /\ ~UNCHANGED rows
  <2>1. /\ row' = [row EXCEPT ![j] = [NoRow EXCEPT !.status = "running"]]
        /\ Active(j) /\ ~row[j].cancel /\ UNCHANGED runs
    BY <1>2 DEF Claim, rows, Active
  <2>2. row'[j].status = "running" /\ row'[j].cancel = FALSE
    BY <2>1 DEF TypeOK, NoRow
  <2>3. row[j].cancel = FALSE BY <2>1 DEF TypeOK, Row
  <2>4. \A k \in Jobs \ {j} : row'[k] = row[k] BY <2>1 DEF TypeOK
  <2>5. QED BY <2>1, <2>2, <2>3, <2>4, LaneSameStatus
<1>3. CASE EndUnstarted(j) BY <1>1, <1>3, LaneCloses DEF EndUnstarted, rows
<1>4. CASE Finish(j) BY <1>4, LaneCloses DEF Finish
<1>5. CASE EndSafely(j)
  <2>1. CASE thread[j].goal = "none" BY <1>1, <1>5, <2>1 DEF EndSafely, rows
  <2>2. CASE thread[j].goal # "none"
    <3>1. thread[j].goal \in {"cancelled", "failed"} BY <2>2 DEF TypeOK, Thread
    <3>2. QED BY <1>5, <2>2, <3>1, LaneCloses DEF EndSafely
  <2>3. QED BY <2>1, <2>2
<1>6. CASE Commit(j) BY <1>1, <1>6, LaneSave DEF Commit
<1>7. CASE CommitLost(j) BY <1>1, <1>7, LaneSave DEF CommitLost
<1>8. CASE HeartbeatLost(j)
  <2>1. \A k \in Jobs : row'[k].cancel = row[k].cancel /\ row'[k].status = row[k].status
    BY <1>8 DEF HeartbeatLost, TypeOK, Row
  <2>2. QED BY <1>8, <2>1, LaneSameStatus DEF HeartbeatLost
<1>9. QED
  BY <1>1, <1>2, <1>3, <1>4, <1>5, <1>6, <1>7, <1>8
  DEF Run, Act, Fails, Begin, Acquire, GiveUp, Enter, Leave, Checkpoint, Solve,
      DispatchFails, Break, EndLost, rows

LEMMA LaneClock ==
  ASSUME TypeOK, NEW j \in Jobs, Flush(j) \/ Silence(j) \/ TimePasses(j)
  PROVE  UNCHANGED Lane!vars
<1>1. \A k \in Jobs : row'[k].cancel = row[k].cancel /\ row'[k].status = row[k].status
  BY DEF Flush, Silence, TimePasses, TypeOK, Row
<1>2. QED BY <1>1, LaneSameStatus DEF Flush, Silence, TimePasses

LEMMA LaneSweep ==
  ASSUME TypeOK, Lifecycle, SweepWrite PROVE [Lane!Next]_(Lane!vars)
<1>1. PICK r \in found :
        row' = IF row[r.job].status = r.status
               THEN [row EXCEPT ![r.job] = EndedAs(r.job, "failed")] ELSE row
  BY DEF SweepWrite
<1>2. r.job \in Jobs /\ r.status \in {"queued", "running"} BY DEF TypeOK, Found
<1>3. UNCHANGED runs BY DEF SweepWrite
<1>4. CASE row[r.job].status = r.status
  <2>1. Active(r.job) BY <1>2, <1>4 DEF Active
  <2>2. Close(r.job, "failed") BY <1>1, <1>4, <2>1 DEF Close
  <2>3. QED BY <1>2, <1>3, <2>2, LaneCloses
<1>5. CASE row[r.job].status # r.status
  BY <1>1, <1>3, <1>5, SameRowSame DEF rows
<1>6. QED BY <1>4, <1>5

LEMMA LaneInit == Init => Lane!Init
<1> SUFFICES ASSUME Init PROVE Lane!Init
  OBVIOUS
<1>1. \A j \in Jobs : j \notin runs /\ row[j].status = "none" /\ ~row[j].cancel
  BY DEF Init, NoRow
<1>2. QED BY <1>1 DEF Lane!Init

LEMMA LaneNext == Invariant /\ [Next]_vars => [Lane!Next]_(Lane!vars)
<1> SUFFICES ASSUME Invariant, [Next]_vars PROVE [Lane!Next]_(Lane!vars)
  OBVIOUS
<1>0. TypeOK /\ Lifecycle /\ OneOpen BY DEF Invariant
<1>1. CASE UNCHANGED rows BY <1>1, SameRowSame
<1>2. ASSUME NEW j \in Jobs, Submit(j) \/ Create(j) \/ Cancel(j)
      PROVE  [Lane!Next]_(Lane!vars)
  BY <1>0, <1>2, LaneSubmit, LaneCreate, LaneStop
<1>3. ASSUME NEW j \in Jobs, Refuse(j) PROVE [Lane!Next]_(Lane!vars)
  BY <1>0, <1>3, LaneCloses DEF Refuse
<1>4. ASSUME NEW j \in Jobs, Run(j) \/ Act(j) \/ Fails(j) PROVE [Lane!Next]_(Lane!vars)
  BY <1>0, <1>4, LaneRun
<1>5. ASSUME NEW j \in Jobs, Flush(j) \/ Silence(j) \/ TimePasses(j)
      PROVE  [Lane!Next]_(Lane!vars)
  BY <1>0, <1>5, LaneClock
<1>6. CASE SweepWrite BY <1>0, <1>6, LaneSweep
<1>7. ASSUME NEW j \in Jobs, Dispatch(j) PROVE UNCHANGED rows
  BY <1>7 DEF Dispatch, rows
<1>8. CASE SweepRead \/ GuestStep BY <1>1, <1>8 DEF SweepRead, GuestStep
<1>9. ASSUME NEW p \in Procs,
             GuestArrives(p) \/ Exit(p) \/ Kill(p) \/ Ended(p) \/ Start(p)
      PROVE  UNCHANGED rows
  BY <1>9 DEF GuestArrives, Exit, Kill, Ended, Start, Down
<1>10. CASE UNCHANGED vars BY <1>1, <1>10 DEF vars, rows
<1>11. QED
  BY <1>1, <1>2, <1>3, <1>4, <1>5, <1>6, <1>7, <1>8, <1>9, <1>10 DEF Next, Request

(* The actions of the exam page keep its promise, over any number of       *)
(* instances: one open at a time, each closed once, at most one timetable, *)
(* and none after an accepted Stop or for a job that was given up.         *)
THEOREM JobsImplementLane == Spec => ImplementsLane
<1>1. Init /\ [][Next]_vars => []Invariant BY InvariantInit, InvariantNext, PTL
<1>2. QED BY <1>1, LaneInit, LaneNext, PTL DEF Spec, ImplementsLane, Lane!Spec
=============================================================================
