----------------------- MODULE TelegramJobsProperties -----------------------
(* What the Telegram queue of TelegramJobs must and must not do. *)
EXTENDS TelegramJobs

Steps == {"down", "idle", "recover", "check", "execute", "refresh", "store",
          "begin", "text", "sendText", "sentText", "gate", "off", "photo",
          "render", "sendPhoto", "sentPhoto", "startText", "finish"}

(* Steps of run_next_job at which the process holds no job. *)
FreeSteps == {"down", "idle", "recover"}

Memory  == [token: Nat, attempts: Nat, cursor: Nat, man: Manifest]
Outcome == [texts: Nat, photos: Nat, reply: {"none", "ok", "retry", "perm"}]

DatabaseTypeOK ==
  /\ row  \in [Jobs -> Receipt]
  /\ link \in [Links -> {"ACTIVE", "REVOKED"}]

WorkerTypeOK ==
  /\ pc   \in [Workers -> Steps]
  /\ cur  \in [Workers -> Jobs \union {NoJob}]
  /\ mem  \in [Workers -> Memory]
  /\ out  \in [Workers -> Outcome]
  /\ todo \in [Workers -> SUBSET Jobs]
  /\ \A w \in Workers : cur[w] = NoJob <=> pc[w] \in FreeSteps

SeenTypeOK ==
  /\ faults \in Nat
  /\ got  \in [Jobs -> SUBSET Nat]
  /\ pics \in [Jobs -> SUBSET Nat]
  /\ answer  \in [Jobs -> Nat]
  /\ runs    \in [Jobs -> Nat]
  /\ effects \in [Jobs -> Nat]
  /\ leases  \in [Jobs -> Nat]
  /\ late \in [Links -> Nat]

(* Every variable keeps its type, and a process holds a job exactly while  *)
(* it is past the claim (run_next_job returns, or dies, with none).        *)
TypeOK == DatabaseTypeOK /\ WorkerTypeOK /\ SeenTypeOK

-----------------------------------------------------------------------------
Terminal(j) == row[j].status \in TerminalStatuses
Running(j)  == row[j].status = "RUNNING"

-----------------------------------------------------------------------------
(* Who may work on what. *)

(* While an update of a chat runs, no earlier update of that chat is still *)
(* queued or running: FIFO per link survives retries, crashes, recoveries  *)
(* and outlived leases, provided Telegram delivers updates one at a time   *)
(* (_claim_next_job, has_earlier_active).                                  *)
RunningIsHead ==
  \A j \in Jobs : Running(j) => \A k \in Siblings(j) : k < j => ~IsActive(k)

(* Two updates of one chat never run together, in whatever order Telegram  *)
(* hands them over (uq_tg_running_link behind the claim).                  *)
OneRunningPerLink ==
  \A j \in Jobs : Running(j) => \A k \in Siblings(j) : ~Running(k)

(* The worker that would get its next UPDATE of the job through.           *)
HoldsLease(w, j) == cur[w] = j /\ Running(j) /\ mem[w].token = row[j].claims

(* A lease has one holder: no two processes can both write a job's row     *)
(* ("Finish a job only if this caller still owns its lease").              *)
SoleLeaseHolder ==
  \A j \in Jobs : \A v, w \in Workers :
    HoldsLease(v, j) /\ HoldsLease(w, j) => v = w

(* A job that has ended stays ended, whatever a stale worker, a recovery   *)
(* or a late release still does to it (_owned_running; status filters).    *)
TerminalIsFinal == [][\A j \in Jobs : Terminal(j) => row'[j].status = row[j].status]_vars

(* A chat whose link is revoked gets no new answer and, because each item  *)
(* is authorised before it leaves, at most the one item already on its way *)
(* (_link_is_active before each send).                                     *)
AtMostOneLateItem == \A l \in Links : late[l] <= 1

-----------------------------------------------------------------------------
(* What a retry may repeat. *)

(* A retried command creates its conversation or its escalation once, even *)
(* after a crash between the side effect and the stored reply, and even if *)
(* two workers execute it (_execute_durable_new, _execute_durable_advisor).*)
EffectOnce == \A j \in Jobs : effects[j] <= 1

(* The adviser is asked at most MaxAttempts times for one update, however  *)
(* the job came back to the queue, and never again once its answer is      *)
(* stored (attempt_count over requeue, recovery and materialisation).      *)
ExecutorBudget == \A j \in Jobs : runs[j] <= MaxAttempts

(* The items Telegram has are the confirmed ones and at most one more, the *)
(* one whose answer was lost: nothing is skipped, reordered or sent ahead  *)
(* of the durable cursor.                                                  *)
OneUnconfirmedText ==
  \A j \in Jobs : IsActive(j) =>
    LET c == DeliveryState(row[j].man, row[j].cursor).text
    IN  got[j] \in {1..c, 1..(c + 1)}

(* A text item confirmed in the row is never sent again, whichever worker  *)
(* resumes the job (delivery_cursor, read at the claim).                   *)
NoConfirmedTextResent ==
  \A w \in Workers : pc[w] = "sendText" => mem[w].cursor >= row[cur[w]].cursor

(* Every picture the cursor has passed was delivered, or the job is marked *)
(* degraded; at most one delivered picture is unconfirmed.                 *)
PicturesAccounted ==
  \A j \in Jobs : IsActive(j) =>
    LET s == DeliveryState(row[j].man, row[j].cursor)
    IN  /\ pics[j] \subseteq 1..(s.photo + 1)
        /\ 1..s.photo \subseteq pics[j] \/ row[j].man.degraded

-----------------------------------------------------------------------------
(* What a job that ends has done. *)

(* A job is SUCCEEDED only when every item of its required text has been   *)
(* accepted by Telegram.                                                   *)
AnsweredInFull ==
  \A j \in Jobs : row[j].status = "SUCCEEDED" =>
    row[j].man.made /\ got[j] = 1..answer[j]

(* Pictures never overtake the required text of the answer they belong to  *)
(* (text_first).                                                           *)
TextBeforePictures == \A j \in Jobs : pics[j] # {} => got[j] = 1..answer[j]

(* A job that finishes without "image_delivery_degraded" has delivered all *)
(* its pictures, over all its retries and recoveries.                      *)
DegradationIsReported ==
  [][\A j \in Jobs :
       /\ IsActive(j) /\ row'[j].status = "SUCCEEDED" /\ row'[j].error = "none"
       => pics[j] = 1..row[j].man.photos]_vars

(* While only pictures are pending, nothing fails the job: an optional     *)
(* picture never costs the student the validated answer.                   *)
PicturesNeverFailTheJob ==
  [][\A j \in Jobs : IsActive(j) /\ PendingPhotos(row[j]) =>
       row'[j].status # "FAILED"]_vars

(* Delivery has a budget of its own: an answer that was generated on its   *)
(* last attempt still gets MaxAttempts leases before its text is given up  *)
(* (store_delivery: "generation and delivery have independent budgets").   *)
FullTextBudget ==
  \A j \in Jobs :
    /\ row[j].error = "exhausted"
    /\ answer[j] > 0
    /\ got[j] # 1..answer[j]
    => leases[j] >= MaxAttempts

(* The converse, "without resetting an active text budget"                 *)
(* (_degrade_exhausted_photo_phase_locked): no answer has its required     *)
(* text leased more than MaxAttempts times.                                *)
TextBudgetIsBound == \A j \in Jobs : leases[j] <= MaxAttempts

(* The attempts a rolled-back text-only worker has spent on the text it    *)
(* took over are never given back                                          *)
(* (_begin_text_after_skipping_photos, rollback_text_takeover).            *)
TakeoverKeepsItsAttempts ==
  [][\A j \in Jobs :
       /\ IsActive(j)
       /\ DeliveryState(row[j].man, row[j].cursor).takeover
       => row'[j].attempts >= row[j].attempts]_vars

-----------------------------------------------------------------------------
(* What must happen in the end. *)

(* Every accepted update ends, though workers crash and rows come back     *)
(* with no attempt left: no row stays queued or running for ever.          *)
EveryJobEnds == \A j \in Jobs : IsActive(j) ~> Terminal(j)

(* The queue keeps the promise of TelegramChannel.                         *)
Stage(j) ==
  CASE row[j].status = "ABSENT"    -> "absent"
    [] row[j].status = "QUEUED"    -> "waiting"
    [] row[j].status = "RUNNING"   -> "working"
    [] row[j].status = "SUCCEEDED" -> "answered"
    [] row[j].status \in {"FAILED", "CANCELLED"} -> "dropped"

Channel == INSTANCE TelegramChannel WITH
  stage <- [j \in Jobs |-> Stage(j)],
  open  <- [l \in Links |-> link[l] = "ACTIVE"],
  size  <- answer,
  heard <- [j \in Jobs |-> Cardinality(got[j])],
  Sizes <- {a.texts : a \in Answers \union {OneMessage}}

(* One chat sees what the abstract channel allows, and nothing else.       *)
ImplementsChannel == Channel!Spec
=============================================================================
