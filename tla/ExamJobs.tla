------------------------------- MODULE ExamJobs -------------------------------
(***************************************************************************)
(* The exam page's background actions (core/services/exam_jobs.py): the    *)
(* request that submits one, the thread that runs it, the flusher that     *)
(* writes its heartbeat, Stop, and the sweep; and the other users of the   *)
(* solver slot.  Every step is one statement or transaction, or one step   *)
(* on a lock.                                                              *)
(*                                                                         *)
(* A job is one submission.  The clock is three bits of its row: `silent`  *)
(* (no heartbeat for STALE_AFTER), `overdue` (past MAX_RUNNING, or past    *)
(* MAX_QUEUED), and both are what a sweep sees.                            *)
(***************************************************************************)
EXTENDS SolverSlot, FiniteSets

CONSTANTS
  Jobs,      \* submissions
  Stuck,     \* jobs whose action may never reach a cancellation point again
  MaxFaults  \* bound on exits, kills, refused statements and lost heartbeats

ASSUME StuckAssumption  == Stuck \subseteq Jobs
ASSUME FaultsAssumption == MaxFaults \in Nat

VARIABLES
  row,     \* the ExamTimetableJob of each submission
  runs,    \* jobs whose timetable is saved, the ExamTimetableRun rows
  req,     \* where the request that submits the job is in submit()
  home,    \* the process that runs that request, and then the job
  thread,  \* the job's thread in run_job, its JobProgress.cancelled, and the
           \* end it goes to record
  found,   \* the stale rows a sweep has read and not yet written
  proc,    \* each process: up, exiting, down
  guest,   \* another user of the slot: its process, and its place there
  faults   \* faults so far

vars == <<sem, shown, row, runs, req, home, thread, found, proc, guest, faults>>
rows == <<row, runs>>
submission == <<req, home>>
processes  == <<proc, guest>>

NoRow    == [status |-> "none", cancel |-> FALSE, silent |-> FALSE, overdue |-> FALSE]
NoThread == [pc |-> "none", stop |-> FALSE, goal |-> "none"]

Active(j)  == row[j].status \in {"queued", "running"}
Exiting(j) == proc[home[j]] = "exiting"

(* Mutant: only a silent job is swept. *)
StaleIfSilent(j) == Active(j) /\ row[j].silent

Stale(j) == Active(j) /\ (row[j].silent \/ row[j].overdue)

StaleRows == {[job |-> j, status |-> row[j].status] : j \in {k \in Jobs : Stale(k)}}

Fault == faults < MaxFaults /\ faults' = faults + 1

Goto(j, step) == thread' = [thread EXCEPT ![j].pc = step]

(* Leave the slot, to record `goal` or because the row is in order.        *)
GoEnd(j, goal) == thread' = [thread EXCEPT ![j].pc = "leaving", ![j].goal = goal]

(* A row that has ended; its clock is not looked at again. *)
EndedAs(j, status) == [NoRow EXCEPT !.status = status, !.cancel = row[j].cancel]

Close(j, status) ==
  row' = IF Active(j) THEN [row EXCEPT ![j] = EndedAs(j, status)] ELSE row

-----------------------------------------------------------------------------
(* submit *)

(* It sweeps first.  Its read and its writes are one step here; what may   *)
(* come between them is shown by the sweep of a poll below.                *)
Submit(j) ==
  /\ req[j] = "idle"
  /\ \E p \in Procs : proc[p] = "up" /\ home' = [home EXCEPT ![j] = p]
  /\ row' = [k \in Jobs |-> IF Stale(k) THEN EndedAs(k, "failed") ELSE row[k]]
  /\ req' = [req EXCEPT ![j] = "creating"]
  /\ UNCHANGED <<slotVars, runs, thread, found, processes, faults>>

(* The partial unique index on the lane admits one active row. *)
Create(j) ==
  /\ req[j] = "creating"
  /\ IF \E k \in Jobs : Active(k)
     THEN req' = [req EXCEPT ![j] = "idle"] /\ UNCHANGED row
     ELSE /\ req' = [req EXCEPT ![j] = "dispatching"]
          /\ row' = [row EXCEPT ![j] = [NoRow EXCEPT !.status = "queued"]]
  /\ UNCHANGED <<slotVars, runs, home, thread, found, processes, faults>>

Dispatch(j) ==
  /\ req[j] = "dispatching"
  /\ req' = [req EXCEPT ![j] = "done"]
  /\ thread' = [thread EXCEPT ![j].pc = "new"]
  /\ UNCHANGED <<slotVars, rows, home, found, processes, faults>>

(* The thread cannot start, for want of memory or threads. *)
DispatchFails(j) ==
  /\ req[j] = "dispatching"
  /\ req' = [req EXCEPT ![j] = "failing"]
  /\ Fault
  /\ UNCHANGED <<slotVars, rows, home, thread, found, processes>>

Refuse(j) ==
  /\ req[j] = "failing"
  /\ Close(j, "failed")
  /\ req' = [req EXCEPT ![j] = "done"]
  /\ UNCHANGED <<slotVars, runs, home, thread, found, processes, faults>>

-----------------------------------------------------------------------------
(* run_job *)

Begin(j) ==
  /\ thread[j].pc = "new"
  /\ Goto(j, IF row[j].status = "queued" THEN "waiting" ELSE "done")
  /\ UNCHANGED <<slotVars, rows, submission, found, processes, faults>>

Acquire(j) ==
  /\ thread[j].pc = "waiting"
  /\ TakeSlot(home[j])
  /\ Goto(j, "acquired")
  /\ UNCHANGED <<rows, submission, found, processes, faults>>

(* Mutant: the wait is inside the try whose `finally` releases the slot. *)
GiveUpInsideTry(j) ==
  /\ thread[j].pc = "waiting"
  /\ ~Free(home[j])
  /\ thread[j].stop \/ Exiting(j)
  /\ GoEnd(j, "none")
  /\ UNCHANGED <<slotVars, rows, submission, found, processes, faults>>

(* SolverBusy: asked after each wait that did not get the slot. *)
GiveUp(j) ==
  /\ thread[j].pc = "waiting"
  /\ ~Free(home[j])
  /\ thread[j].stop \/ Exiting(j)
  /\ Goto(j, "gaveup")
  /\ UNCHANGED <<slotVars, rows, submission, found, processes, faults>>

Enter(j) ==
  /\ thread[j].pc = "acquired"
  /\ ShowHolder(home[j], "exam_job")
  /\ Goto(j, IF Exiting(j) THEN "unstarted" ELSE "claiming")
  /\ UNCHANGED <<rows, submission, found, processes, faults>>

Claim(j) ==
  /\ thread[j].pc = "claiming"
  /\ IF row[j].status = "queued" /\ ~row[j].cancel
     THEN /\ row' = [row EXCEPT ![j] = [NoRow EXCEPT !.status = "running"]]
          /\ Goto(j, "working")
     ELSE Goto(j, "unstarted") /\ UNCHANGED row
  /\ UNCHANGED <<slotVars, runs, submission, found, processes, faults>>

(* Mutant: the job is always taken for one that somebody else has ended. *)
EndUnstartedKeepsRow(j) ==
  /\ \/ thread[j].pc = "unstarted" /\ GoEnd(j, "none")
     \/ thread[j].pc = "gaveup" /\ Goto(j, "ending")
  /\ UNCHANGED <<slotVars, rows, submission, found, processes, faults>>

(* Only a shutdown leaves a row to close. *)
EndUnstarted(j) ==
  /\ \/ thread[j].pc = "unstarted" /\ GoEnd(j, "none")
     \/ thread[j].pc = "gaveup" /\ Goto(j, "ending")
  /\ IF Exiting(j) THEN Close(j, "failed") ELSE UNCHANGED row
  /\ UNCHANGED <<slotVars, runs, submission, found, processes, faults>>

(* JobCancelled, at the next stage or tick of a counter. *)
Checkpoint(j) ==
  /\ thread[j].pc = "working"
  /\ thread[j].stop
  /\ GoEnd(j, "cancelled")
  /\ UNCHANGED <<slotVars, rows, submission, found, processes, faults>>

(* The action has a timetable to save, an answer and nothing to save, or   *)
(* an error, which execute_exam_action turns into an answer.               *)
Solve(j) ==
  /\ thread[j].pc = "working"
  /\ \/ ~thread[j].stop /\ Goto(j, "saving")
     \/ Goto(j, "answered")
     \/ Goto(j, "errored")
  /\ UNCHANGED <<slotVars, rows, submission, found, processes, faults>>

Wanted(j) == row[j].status = "running" /\ ~row[j].cancel

(* Mutant: any job that is still running is finished. *)
CommitIgnoresStop(j) ==
  /\ thread[j].pc = "saving"
  /\ IF row[j].status = "running"
     THEN /\ row'  = [row EXCEPT ![j] = EndedAs(j, "succeeded")]
          /\ runs' = runs \union {j}
          /\ \E after \in {"answered", "errored"} : Goto(j, after)
     ELSE GoEnd(j, "cancelled") /\ UNCHANGED rows
  /\ UNCHANGED <<slotVars, submission, found, processes, faults>>

(* One transaction: the run and the end of the job.  The action may still  *)
(* fail between this commit and its answer.                                *)
Commit(j) ==
  /\ thread[j].pc = "saving"
  /\ IF Wanted(j)
     THEN /\ row'  = [row EXCEPT ![j] = EndedAs(j, "succeeded")]
          /\ runs' = runs \union {j}
          /\ \E after \in {"answered", "errored"} : Goto(j, after)
     ELSE GoEnd(j, "cancelled") /\ UNCHANGED rows
  /\ UNCHANGED <<slotVars, submission, found, processes, faults>>

(* The connection drops at the commit, which may have been applied. *)
CommitLost(j) ==
  /\ thread[j].pc = "saving"
  /\ \/ /\ Wanted(j)
        /\ row'  = [row EXCEPT ![j] = EndedAs(j, "succeeded")]
        /\ runs' = runs \union {j}
     \/ UNCHANGED rows
  /\ Goto(j, "errored")
  /\ Fault
  /\ UNCHANGED <<slotVars, submission, found, processes>>

(* _finish: a job that its commit ended stays succeeded; a conditional     *)
(* UPDATE that matches nothing means a Stop, and _end says so.             *)
Finish(j) ==
  /\ \/ thread[j].pc = "errored" /\ Close(j, "failed")
     \/ thread[j].pc = "answered" /\ Close(j, IF Wanted(j) THEN "succeeded" ELSE "cancelled")
  /\ GoEnd(j, "none")
  /\ UNCHANGED <<slotVars, runs, submission, found, processes, faults>>

Breakable == {"new", "claiming", "unstarted", "gaveup", "working", "saving",
              "answered", "errored"}

(* A statement fails, or the flusher's thread does not start. *)
Break(j) ==
  /\ thread[j].pc \in Breakable
  /\ IF thread[j].pc \in {"new", "gaveup"}
     THEN thread' = [thread EXCEPT ![j].pc = "ending", ![j].goal = "failed"]
     ELSE GoEnd(j, "failed")
  /\ Fault
  /\ UNCHANGED <<slotVars, rows, submission, found, processes>>

(* Mutant: the slot is released before its holder is cleared. *)
ReleaseFirst(j) ==
  /\ \/ thread[j].pc = "leaving" /\ ReleaseSlot(home[j]) /\ Goto(j, "unnamed")
     \/ thread[j].pc = "unnamed" /\ ClearHolder(home[j]) /\ Goto(j, "ending")
  /\ UNCHANGED <<rows, submission, found, processes, faults>>

(* Mutant: no `finally`; an exception passes the slot's clean-up by. *)
LeaveOnReturn(j) ==
  /\ \/ thread[j].pc = "leaving" /\ ClearHolder(home[j]) /\ Goto(j, "unnamed")
     \/ /\ thread[j].pc = "unnamed" /\ Goto(j, "ending")
        /\ IF thread[j].goal = "none" THEN ReleaseSlot(home[j]) ELSE UNCHANGED slotVars
  /\ UNCHANGED <<rows, submission, found, processes, faults>>

Leave(j) ==
  /\ \/ thread[j].pc = "leaving" /\ ClearHolder(home[j]) /\ Goto(j, "unnamed")
     \/ thread[j].pc = "unnamed" /\ ReleaseSlot(home[j]) /\ Goto(j, "ending")
  /\ UNCHANGED <<rows, submission, found, processes, faults>>

(* _end_safely, for a job that an exception ended; the flusher stops. *)
EndSafely(j) ==
  /\ thread[j].pc = "ending"
  /\ IF thread[j].goal = "none" THEN UNCHANGED row ELSE Close(j, thread[j].goal)
  /\ thread' = [thread EXCEPT ![j] = [NoThread EXCEPT !.pc = "done"]]
  /\ UNCHANGED <<slotVars, runs, submission, found, processes, faults>>

(* Even that statement fails: the row is left to the sweep. *)
EndLost(j) ==
  /\ thread[j].pc = "ending"
  /\ thread[j].goal # "none"
  /\ Goto(j, "done")
  /\ Fault
  /\ UNCHANGED <<slotVars, rows, submission, found, processes>>

Away == {"none", "done", "dead"}
Flushing(j) == thread[j].pc \notin Away \union {"new"}

(* Later on nobody looks at the flag it sets. *)
Asking(j) == thread[j].pc \in {"waiting", "acquired", "claiming", "working"}

(* Mutant: only a Stop ends the job; one that was swept runs on. *)
FlushReadsStop(j) ==
  /\ Flushing(j)
  /\ row' = IF Active(j) THEN [row EXCEPT ![j].silent = FALSE] ELSE row
  /\ thread' = [thread EXCEPT ![j].stop = @ \/ (Asking(j) /\ row[j].cancel)]
  /\ UNCHANGED <<slotVars, runs, submission, found, processes, faults>>

(* The flusher's tick: a heartbeat, and whether the job is still wanted. *)
Flush(j) ==
  /\ Flushing(j)
  /\ row' = IF Active(j) THEN [row EXCEPT ![j].silent = FALSE] ELSE row
  /\ thread' = [thread EXCEPT ![j].stop =
                    @ \/ (Asking(j) /\ (~Active(j) \/ row[j].cancel))]
  /\ UNCHANGED <<slotVars, runs, submission, found, processes, faults>>

-----------------------------------------------------------------------------
(* Stop, the clock and the sweep *)

Cancel(j) ==
  /\ Active(j)
  /\ ~row[j].cancel
  /\ row' = [row EXCEPT ![j] =
               IF row[j].status = "queued"
               THEN [NoRow EXCEPT !.status = "cancelled", !.cancel = TRUE]
               ELSE [row[j] EXCEPT !.cancel = TRUE]]
  /\ UNCHANGED <<slotVars, runs, submission, thread, found, processes, faults>>

(* Nobody writes a heartbeat. *)
Silence(j) ==
  /\ Active(j)
  /\ ~row[j].silent
  /\ ~Flushing(j)
  /\ row' = [row EXCEPT ![j].silent = TRUE]
  /\ UNCHANGED <<slotVars, runs, submission, thread, found, processes, faults>>

(* The flusher lives and its writes do not get through. *)
HeartbeatLost(j) ==
  /\ Active(j)
  /\ ~row[j].silent
  /\ Flushing(j)
  /\ row' = [row EXCEPT ![j].silent = TRUE]
  /\ Fault
  /\ UNCHANGED <<slotVars, runs, submission, thread, found, processes>>

TimePasses(j) ==
  /\ Active(j)
  /\ ~row[j].overdue
  /\ row' = [row EXCEPT ![j].overdue = TRUE]
  /\ UNCHANGED <<slotVars, runs, submission, thread, found, processes, faults>>

(* Every poll sweeps: it reads, *)
SweepRead ==
  /\ found = {}
  /\ StaleRows # {}
  /\ found' = StaleRows
  /\ UNCHANGED <<slotVars, rows, submission, thread, processes, faults>>

(* Mutant: every row that was read is failed, whatever it is by now. *)
SweepWriteAny ==
  \E r \in found :
    /\ row' = [row EXCEPT ![r.job] = EndedAs(r.job, "failed")]
    /\ found' = found \ {r}
    /\ UNCHANGED <<slotVars, runs, submission, thread, processes, faults>>

(* and fails each row only as it was read. *)
SweepWrite ==
  \E r \in found :
    /\ row' = IF row[r.job].status = r.status
              THEN [row EXCEPT ![r.job] = EndedAs(r.job, "failed")] ELSE row
    /\ found' = found \ {r}
    /\ UNCHANGED <<slotVars, runs, submission, thread, processes, faults>>

-----------------------------------------------------------------------------
(* The other users of the slot: Check, the planner, a synchronous action,  *)
(* a move analysis.                                                        *)

NoGuest == [at |-> CHOOSE p \in Procs : TRUE, pc |-> "away"]

GuestArrives(p) ==
  /\ guest.pc = "away"
  /\ proc[p] # "down"
  /\ TakeSlot(p)
  /\ guest' = [at |-> p, pc |-> "acquired"]
  /\ UNCHANGED <<rows, submission, thread, found, proc, faults>>

GuestStep ==
  /\ \/ /\ guest.pc = "acquired"
        /\ ShowHolder(guest.at, "other")
        /\ guest' = [guest EXCEPT !.pc = "inside"]
     \/ /\ guest.pc = "inside"
        /\ ClearHolder(guest.at)
        /\ guest' = [guest EXCEPT !.pc = "unnamed"]
     \/ /\ guest.pc = "unnamed"
        /\ ReleaseSlot(guest.at)
        /\ guest' = NoGuest
  /\ UNCHANGED <<rows, submission, thread, found, proc, faults>>

-----------------------------------------------------------------------------
(* Processes: a deploy starts the next before it stops the last. *)

Exit(p) ==
  /\ proc[p] = "up"
  /\ proc' = [proc EXCEPT ![p] = "exiting"]
  /\ Fault
  /\ UNCHANGED <<slotVars, rows, submission, thread, found, guest>>

Of(p) == {j \in Jobs : home[j] = p}

(* What a process that ends takes with it. *)
Down(p) ==
  /\ proc'  = [proc EXCEPT ![p] = "down"]
  /\ guest' = IF guest.at = p THEN NoGuest ELSE guest
  /\ ResetSlot(p)
  /\ thread' = [j \in Jobs |->
                  IF j \in Of(p) /\ thread[j].pc \notin Away
                  THEN [NoThread EXCEPT !.pc = "dead"] ELSE thread[j]]
  /\ req' = [j \in Jobs |->
               IF j \notin Of(p) THEN req[j]
               ELSE CASE req[j] = "creating" -> "idle"
                      [] req[j] \in {"dispatching", "failing"} -> "dead"
                      [] OTHER -> req[j]]
  /\ UNCHANGED <<rows, home, found>>

Kill(p) == proc[p] # "down" /\ Down(p) /\ Fault

(* The threads are joined before the interpreter ends. *)
Ended(p) ==
  /\ proc[p] = "exiting"
  /\ guest.pc = "away" \/ guest.at # p
  /\ \A j \in Of(p) : thread[j].pc \in Away /\ req[j] \in {"idle", "done", "dead"}
  /\ Down(p)
  /\ UNCHANGED faults

Start(p) ==
  /\ proc[p] = "down"
  /\ proc' = [proc EXCEPT ![p] = "up"]
  /\ UNCHANGED <<slotVars, rows, submission, thread, found, guest, faults>>

-----------------------------------------------------------------------------
Init ==
  /\ InitSlot
  /\ row    = [j \in Jobs |-> NoRow]
  /\ runs   = {}
  /\ req    = [j \in Jobs |-> "idle"]
  /\ home   = [j \in Jobs |-> CHOOSE p \in Procs : TRUE]
  /\ thread = [j \in Jobs |-> NoThread]
  /\ found  = {}
  /\ proc   = [p \in Procs |-> "up"]
  /\ guest  = NoGuest
  /\ faults = 0

Request(j) == Create(j) \/ Dispatch(j) \/ Refuse(j)

(* What a job's thread does besides the action itself. *)
Run(j) ==
  \/ Begin(j) \/ Acquire(j) \/ GiveUp(j) \/ Enter(j) \/ Claim(j) \/ EndUnstarted(j)
  \/ Commit(j) \/ Finish(j) \/ Leave(j) \/ EndSafely(j)

Act(j) == Checkpoint(j) \/ Solve(j)

Fails(j) ==
  DispatchFails(j) \/ CommitLost(j) \/ Break(j) \/ EndLost(j) \/ HeartbeatLost(j)

Next ==
  \/ \E j \in Jobs : \/ Submit(j) \/ Request(j) \/ Run(j) \/ Act(j) \/ Flush(j)
                     \/ Cancel(j) \/ Silence(j) \/ TimePasses(j) \/ Fails(j)
  \/ SweepRead \/ SweepWrite
  \/ \E p \in Procs : GuestArrives(p) \/ Exit(p) \/ Kill(p) \/ Ended(p) \/ Start(p)
  \/ GuestStep

(* Requests and threads are scheduled, the clock runs, a page polls, other *)
(* users of the slot finish, a process that stopped is started again.      *)
Fairness ==
  /\ \A j \in Jobs : WF_vars(Request(j)) /\ WF_vars(Run(j)) /\ WF_vars(Flush(j))
  /\ \A j \in Jobs \ Stuck : WF_vars(Act(j))
  /\ \A j \in Jobs : WF_vars(Silence(j)) /\ WF_vars(TimePasses(j))
  /\ WF_vars(SweepRead) /\ WF_vars(SweepWrite) /\ WF_vars(GuestStep)
  /\ \A p \in Procs : WF_vars(Start(p))

Spec == Init /\ [][Next]_vars /\ Fairness
=============================================================================
