---------------------------- MODULE TelegramJobs ----------------------------
(***************************************************************************)
(* The durable Telegram queue of telegram_gateway/jobs.py: the webhook     *)
(* that admits updates, the link that authorises them, the worker          *)
(* processes that lease, execute and deliver them, and the database in     *)
(* between.  Every step is one committed database statement (or one        *)
(* transaction), one call to Telegram, or one call to the adviser; worker  *)
(* processes interleave between steps and may die at any of them.          *)
(***************************************************************************)
EXTENDS TelegramReceipts

CONSTANTS
  Jobs,         \* update ids that may arrive
  Links,        \* linked chats
  LinkOf,       \* the link that authorises each update
  KindOf,       \* "QUESTION", "NEW" (/new) or "ADVISOR" (/advisor)
  Workers,      \* worker processes: one, or two while a deploy overlaps
  PendingCap,   \* TELEGRAM_MAX_PENDING_PER_LINK
  Answers,      \* what the adviser may answer: [texts, photos]
  ImageSwitch,  \* values the image switch of a deployment may have
  LegacyShapes, \* answers an earlier release may have left in the queue
  Ordered,      \* the webhook is registered with max_connections = 1
  MayStall,     \* a live worker may outlive its lease
  MaxFaults     \* bound on crashes and on outlived leases

ASSUME JobsAssumption    == Jobs \subseteq Nat \ {0}
ASSUME LinkAssumption    == LinkOf \in [Jobs -> Links]
ASSUME KindAssumption    == KindOf \in [Jobs -> {"QUESTION", "NEW", "ADVISOR"}]
ASSUME CapAssumption     == PendingCap \in Nat \ {0}
ASSUME AnswersAssumption == /\ Answers \subseteq [texts: Nat, photos: Nat]
                            /\ LegacyShapes \subseteq [texts: Nat, photos: Nat]
ASSUME SwitchAssumption  == /\ ImageSwitch \subseteq BOOLEAN
                            /\ Ordered \in BOOLEAN
                            /\ MayStall \in BOOLEAN
                            /\ MaxFaults \in Nat

VARIABLES
  (* the database *)
  row,       \* the receipt of each update
  link,      \* ACTIVE or REVOKED
  (* the worker processes *)
  pc,        \* where each process is in run_next_job
  cur,       \* the job it holds, 0 for none
  mem,       \* its in-memory copy of that job, read when it was last saved
  out,       \* the last result of the adviser or of Telegram
  todo,      \* the stale ids recover_stale_jobs listed
  (* the environment *)
  faults,    \* crashes and outlived leases so far
  (* observation only: no step reads these *)
  got,       \* text items Telegram has accepted, per job
  pics,      \* pictures Telegram has accepted, per job
  answer,    \* text items of the answer materialised for a job, 0 before that
  runs,      \* times the executor was started for a job
  effects,   \* conversations or escalations a command has created
  leases,    \* leases spent while required text of an answer was pending
  late       \* items accepted after the link was revoked

vars == <<row, link, pc, cur, mem, out, todo, faults,
          got, pics, answer, runs, effects, leases, late>>

NoJob == 0
NoMem == [token |-> 0, attempts |-> 0, cursor |-> 0, man |-> NoManifest]
NoOut == [texts |-> 0, photos |-> 0, reply |-> "none"]

Siblings(j)  == {k \in Jobs : LinkOf[k] = LinkOf[j]} \ {j}
IsActive(j)  == row[j].status \in ActiveStatuses

(* Mutant: a resumed job starts over. *)
CopyFromStart(r) == [token |-> r.claims, attempts |-> r.attempts,
                     cursor |-> 0, man |-> r.man]

Copy(r)      == [token |-> r.claims, attempts |-> r.attempts,
                 cursor |-> r.cursor, man |-> r.man]

-----------------------------------------------------------------------------
(* A worker writes through _owned_running: the UPDATE matches only while   *)
(* the row is RUNNING under the very claim the worker remembers.           *)

Owned(w) == /\ row[cur[w]].status = "RUNNING"
            /\ row[cur[w]].claims = mem[w].token

Rest(w) == /\ pc'  = [pc  EXCEPT ![w] = "idle"]
           /\ cur' = [cur EXCEPT ![w] = NoJob]
           /\ mem' = [mem EXCEPT ![w] = NoMem]
           /\ out' = [out EXCEPT ![w] = NoOut]

Goto(w, step) == /\ pc' = [pc EXCEPT ![w] = step]
                 /\ UNCHANGED <<cur, mem, out, todo>>

(* Write the row and go on; if the UPDATE matches nothing, stop. *)
ProceedIf(w, matches, r, m, step) ==
  /\ UNCHANGED todo
  /\ IF Owned(w) /\ matches
     THEN /\ row' = [row EXCEPT ![cur[w]] = r]
          /\ mem' = [mem EXCEPT ![w] = m]
          /\ pc'  = [pc  EXCEPT ![w] = step]
          /\ out' = [out EXCEPT ![w] = NoOut]
          /\ UNCHANGED cur
     ELSE Rest(w) /\ UNCHANGED row

Proceed(w, r, m, step) == ProceedIf(w, TRUE, r, m, step)

(* Write the row and let go of the job either way. *)
LetGo(w, r) ==
  /\ UNCHANGED todo
  /\ row' = IF Owned(w) THEN [row EXCEPT ![cur[w]] = r] ELSE row
  /\ Rest(w)

Finish(w, status, error) == LetGo(w, Ended(row[cur[w]], status, error))

(* A retry is refused, and the job failed, once its attempts are spent. *)
RequeueDelivery(w) ==
  IF mem[w].attempts >= MaxAttempts
  THEN Finish(w, "FAILED", "exhausted")
  ELSE LetGo(w, Requeued(row[cur[w]], FALSE))

RequeuePhoto(w) ==
  LetGo(w, [Requeued(row[cur[w]], FALSE) EXCEPT !.attempts = 0])

(* The payload is written as a whole, from the worker's own copy. *)
WithManifest(r, man) == [r EXCEPT !.man = man, !.expired = FALSE]

(* Where delivery stands, and what the worker does next, from its copy. *)
State(m)        == DeliveryState(m.man, m.cursor)

(* Mutant: the loop stops one item early. *)
TextLeftButLast(m) == State(m).text + 1 < m.man.texts

TextLeft(m)     == State(m).text < m.man.texts
PhotoLeft(m)    == State(m).photo < m.man.photos
TextStep(m)     == IF TextLeft(m) THEN "text"
                   ELSE IF State(m).first THEN "gate" ELSE "finish"
AfterPhotos(m)  == IF State(m).first THEN "finish"
                   ELSE IF State(m).started THEN TextStep(m) ELSE "startText"
PhotoStep(m, p) == IF PhotoLeft(m) THEN p ELSE AfterPhotos(m)

(* Mutant: pictures first, as in the release before. *)
PicturesFirst(m) == "gate"

DeliverStep(m)  == IF State(m).first THEN TextStep(m) ELSE "gate"

LinkActive(w) == link[LinkOf[cur[w]]] = "ACTIVE"
Quiet         == UNCHANGED <<link, faults, got, pics, answer, runs, effects,
                             leases, late>>

-----------------------------------------------------------------------------
(* Admission and revocation, in the web process. *)

Enqueue(j) ==
  /\ row[j].status = "ABSENT"
  /\ link[LinkOf[j]] = "ACTIVE"
  /\ Cardinality({k \in Siblings(j) : IsActive(k)}) < PendingCap
  /\ Ordered => \A k \in Jobs : k > j => row[k].status = "ABSENT"
  /\ row' = [row EXCEPT ![j] = [Absent EXCEPT !.status = "QUEUED",
                                              !.ready = KindOf[j] # "QUESTION"]]
  /\ UNCHANGED <<pc, cur, mem, out, todo>> /\ Quiet

(* make_job_available after the progress message, or the passing of the    *)
(* moment available_at names.                                              *)
Release(j) ==
  /\ row[j].status = "QUEUED"
  /\ ~row[j].ready
  /\ row' = [row EXCEPT ![j].ready = TRUE]
  /\ UNCHANGED <<pc, cur, mem, out, todo>> /\ Quiet

Revoke(l) ==
  /\ link[l] = "ACTIVE"
  /\ link' = [link EXCEPT ![l] = "REVOKED"]
  /\ UNCHANGED <<row, pc, cur, mem, out, todo, faults, got, pics, answer, runs,
                 effects, leases, late>>

Orphaned(j) == IsActive(j) /\ link[LinkOf[j]] = "REVOKED"

(* Mutant: the status of the link is written to the job. *)
SweptAsRevoked == [j \in Jobs |-> IF Orphaned(j)
                                  THEN Ended(row[j], "REVOKED", "revoked")
                                  ELSE row[j]]

SweptRows == [j \in Jobs |-> IF Orphaned(j)
                             THEN Ended(row[j], "CANCELLED", "revoked")
                             ELSE row[j]]

(* /unlink sweeps at once, in the web process. *)
SweepOnUnlink ==
  /\ \E j \in Jobs : Orphaned(j)
  /\ row' = SweptRows
  /\ UNCHANGED <<pc, cur, mem, out, todo>> /\ Quiet

-----------------------------------------------------------------------------
(* run_next_job: sweep, recover, claim. *)

(* Mutant: a job on its last attempt is left to the exhausted-job sweep,   *)
(* which looks at queued rows only.                                        *)
SweepBeforeLast(w) ==
  /\ pc[w] = "idle"
  /\ row' = SweptRows
  /\ todo' = [todo EXCEPT ![w] = {j \in Jobs : SweptRows[j].status = "RUNNING"
                                                /\ SweptRows[j].expired
                                                /\ ~(SweptRows[j].attempts >= MaxAttempts)}]
  /\ pc' = [pc EXCEPT ![w] = "recover"]
  /\ UNCHANGED <<cur, mem, out>> /\ Quiet

(* The list of stale ids is only a hint: each is read again under its lock. *)
Sweep(w) ==
  /\ pc[w] = "idle"
  /\ row' = SweptRows
  /\ todo' = [todo EXCEPT ![w] = {j \in Jobs : SweptRows[j].status = "RUNNING"
                                                /\ SweptRows[j].expired}]
  /\ pc' = [pc EXCEPT ![w] = "recover"]
  /\ UNCHANGED <<cur, mem, out>> /\ Quiet

(* Mutant: the list is trusted and the row not looked at again. *)
RecoverUnseen(w, j) ==
  /\ pc[w] = "recover"
  /\ j \in todo[w]
  /\ todo' = [todo EXCEPT ![w] = @ \ {j}]
  /\ row' = [row EXCEPT ![j] = Recovered(@, link[LinkOf[j]] = "ACTIVE")]
  /\ UNCHANGED <<pc, cur, mem, out>> /\ Quiet

RecoverStale(w, j) ==
  /\ pc[w] = "recover"
  /\ j \in todo[w]
  /\ todo' = [todo EXCEPT ![w] = @ \ {j}]
  /\ row' = IF row[j].status = "RUNNING" /\ row[j].expired
            THEN [row EXCEPT ![j] = Recovered(@, link[LinkOf[j]] = "ACTIVE")]
            ELSE row
  /\ UNCHANGED <<pc, cur, mem, out>> /\ Quiet

(* Mutant: any active row will do, leased or not. *)
EligibleRunning(j) ==
  /\ row[j].status \in ActiveStatuses
  /\ row[j].ready
  /\ row[j].attempts < MaxAttempts
  /\ link[LinkOf[j]] = "ACTIVE"
  /\ \A k \in Siblings(j) : k < j => ~IsActive(k)

(* Mutant: an earlier update waiting for its retry is overtaken. *)
EligiblePastQueued(j) ==
  /\ row[j].status = "QUEUED"
  /\ row[j].ready
  /\ row[j].attempts < MaxAttempts
  /\ link[LinkOf[j]] = "ACTIVE"
  /\ \A k \in Siblings(j) : k < j => row[k].status # "RUNNING"

Eligible(j) ==
  /\ row[j].status = "QUEUED"
  /\ row[j].ready
  /\ row[j].attempts < MaxAttempts
  /\ link[LinkOf[j]] = "ACTIVE"
  /\ \A k \in Siblings(j) : k < j => ~IsActive(k)

NextClaim(w, j) ==
  /\ pc[w] = "recover"
  /\ todo[w] = {}
  /\ Eligible(j)
  /\ \A k \in Jobs : Eligible(k) => j <= k

(* Mutant: no unique index on the running job of a link. *)
NeverRefused(j) == FALSE

SiblingRunning(j) == \E k \in Siblings(j) : row[k].status = "RUNNING"

TextDue(r) == r.man.first /\ r.cursor < r.man.texts

Claim(w, j) ==
  /\ NextClaim(w, j)
  /\ ~SiblingRunning(j)
  /\ row' = [row EXCEPT ![j] = Claimed(@)]
  /\ cur' = [cur EXCEPT ![w] = j]
  /\ mem' = [mem EXCEPT ![w] = Copy(Claimed(row[j]))]
  /\ pc'  = [pc EXCEPT ![w] = "check"]
  /\ leases' = IF TextDue(row[j]) THEN [leases EXCEPT ![j] = @ + 1] ELSE leases
  /\ UNCHANGED <<out, todo, link, faults, got, pics, answer, runs, effects, late>>

(* uq_tg_running_link refuses the claim and nothing catches the error. *)
ClaimConflict(w, j) ==
  /\ NextClaim(w, j)
  /\ SiblingRunning(j)
  /\ pc' = [pc EXCEPT ![w] = "down"]
  /\ UNCHANGED <<row, cur, mem, out, todo>> /\ Quiet

(* Mutant: rows without attempts are left where they are. *)
NothingToDo(w) ==
  /\ pc[w] = "recover"
  /\ todo[w] = {}
  /\ \A j \in Jobs : ~Eligible(j)
  /\ pc' = [pc EXCEPT ![w] = "idle"]
  /\ UNCHANGED <<row, cur, mem, out, todo>> /\ Quiet

NothingToClaim(w) ==
  /\ pc[w] = "recover"
  /\ todo[w] = {}
  /\ \A j \in Jobs : ~Eligible(j)
  /\ row' = [j \in Jobs |-> FailedIfExhausted(row[j])]
  /\ pc' = [pc EXCEPT ![w] = "idle"]
  /\ UNCHANGED <<cur, mem, out, todo>> /\ Quiet

-----------------------------------------------------------------------------
(* _execute_claimed_job, first half: authorise, execute, materialise. *)

Check(w) ==
  /\ pc[w] = "check"
  /\ IF ~LinkActive(w)
     THEN Finish(w, "CANCELLED", "revoked") /\ UNCHANGED runs
     ELSE /\ Goto(w, IF mem[w].man.made THEN "begin" ELSE "execute")
          /\ UNCHANGED row
          /\ runs' = IF mem[w].man.made THEN runs
                     ELSE [runs EXCEPT ![cur[w]] = @ + 1]
  /\ UNCHANGED <<link, faults, got, pics, answer, effects, leases, late>>

Executed(w, a) ==
  /\ pc'  = [pc  EXCEPT ![w] = "refresh"]
  /\ out' = [out EXCEPT ![w] = [NoOut EXCEPT !.texts = a.texts,
                                             !.photos = a.photos]]
  /\ UNCHANGED <<cur, mem, todo>>

OneMessage == [texts |-> 1, photos |-> 0]

Executing(w, kind) == pc[w] = "execute" /\ KindOf[cur[w]] = kind

(* The link is authorised again after the adviser has answered; a question *)
(* that is only sent to the secure surface does not get that far.          *)
ExecuteQuestion(w) ==
  /\ Executing(w, "QUESTION")
  /\ \E a \in Answers \union {OneMessage} :
       /\ LinkActive(w) \/ a = OneMessage
       /\ Executed(w, a)
  /\ UNCHANGED row /\ Quiet

(* Mutant: the mark an earlier attempt left is not looked at. *)
ExecuteNewAgain(w) ==
  LET j == cur[w]
  IN  /\ Executing(w, "NEW")
      /\ row' = [row EXCEPT ![j].conv = TRUE]
      /\ effects' = [effects EXCEPT ![j] = @ + 1]
      /\ Executed(w, OneMessage)
      /\ UNCHANGED <<link, faults, got, pics, answer, runs, leases, late>>

(* /new: the conversation and its mark on the row commit together; the     *)
(* conversation budget may refuse a first one.                             *)
ExecuteNew(w) ==
  LET j == cur[w]
  IN  /\ Executing(w, "NEW")
      /\ \E granted \in BOOLEAN :
           IF granted /\ ~row[j].conv
           THEN /\ row' = [row EXCEPT ![j].conv = TRUE]
                /\ effects' = [effects EXCEPT ![j] = @ + 1]
           ELSE UNCHANGED <<row, effects>>
      /\ Executed(w, OneMessage)
      /\ UNCHANGED <<link, faults, got, pics, answer, runs, leases, late>>

Materialised(j, r) ==
  /\ answer' = [answer EXCEPT ![j] = r.man.texts]
  /\ leases' = [leases EXCEPT ![j] = 1]

(* /advisor: the escalation and its reply commit together, under whatever  *)
(* lease the locked row carries now.                                       *)
ExecuteAdvisor(w) ==
  LET j == cur[w]
  IN  /\ Executing(w, "ADVISOR")
      /\ IF row[j].man.made
         THEN /\ Executed(w, OneMessage)
              /\ UNCHANGED <<row, effects, answer, leases>>
         ELSE IF row[j].status = "RUNNING"
         THEN /\ row' = [row EXCEPT ![j] = Stored(@, OneMessage)]
              /\ effects' = [effects EXCEPT ![j] = @ + 1]
              /\ Materialised(j, Stored(row[j], OneMessage))
              /\ Executed(w, OneMessage)
         ELSE /\ RequeueDelivery(w)
              /\ UNCHANGED <<effects, answer, leases>>
      /\ UNCHANGED <<link, faults, got, pics, runs, late>>

(* RetryJob, or an exception nobody expected. *)
ExecuteRetry(w) ==
  /\ pc[w] = "execute"
  /\ RequeueDelivery(w)
  /\ Quiet

(* PermanentJobError: a revoked link, or work that can never succeed. *)
ExecutePermanent(w) ==
  /\ pc[w] = "execute"
  /\ Finish(w, "FAILED", "permanent")
  /\ Quiet

(* refresh_from_db: the worker now remembers the lease the row has now. *)
Refresh(w) ==
  LET r == row[cur[w]]
  IN  /\ pc[w] = "refresh"
      /\ mem' = [mem EXCEPT ![w] =
                   [Copy(r) EXCEPT !.token = IF r.status = "RUNNING"
                                             THEN r.claims ELSE 0]]
      /\ pc' = [pc EXCEPT ![w] = IF r.man.made THEN "begin" ELSE "store"]
      /\ UNCHANGED <<row, cur, out, todo>> /\ Quiet

(* Mutant: the result is stored whoever owns the row by now. *)
StoreUnowned(w) ==
  LET j == cur[w]
      r == Stored(row[j], out[w])
  IN  /\ pc[w] = "store"
      /\ row' = [row EXCEPT ![j] = r]
      /\ mem' = [mem EXCEPT ![w] = [Copy(r) EXCEPT !.token = mem[w].token]]
      /\ pc'  = [pc EXCEPT ![w] = "begin"]
      /\ Materialised(j, r)
      /\ UNCHANGED <<cur, out, todo, link, faults, got, pics, runs, effects, late>>

StoreDelivery(w) ==
  LET j == cur[w]
      r == Stored(row[j], out[w])
  IN  /\ pc[w] = "store"
      /\ Proceed(w, r, [Copy(r) EXCEPT !.token = mem[w].token], "begin")
      /\ IF Owned(w) THEN Materialised(j, r) ELSE UNCHANGED <<answer, leases>>
      /\ UNCHANGED <<link, faults, got, pics, runs, effects, late>>

-----------------------------------------------------------------------------
(* Second half: deliver what is still unconfirmed. *)

(* Mutant: the shared cursor is kept as the cursor of the text. *)
SplitCursorUnmoved(m) ==
  LET s == State(m)
  IN  [m EXCEPT !.man = [@ EXCEPT !.shared = FALSE, !.photo = s.photo,
                                  !.tries = s.tries, !.started = s.started]]

SplitCursor(m) ==
  LET s   == State(m)
      man == [m.man EXCEPT !.shared = FALSE, !.photo = s.photo,
                           !.tries = s.tries, !.started = s.started]
  IN  [m EXCEPT !.man = man, !.cursor = s.text]

(* Give up the pictures that are left and begin the required text. *)
TextWithoutPhotos(m) ==
  LET s   == State(m)
      man == [m.man EXCEPT !.shared = FALSE, !.photo = m.man.photos,
                           !.tries = s.tries, !.started = TRUE,
                           !.degraded = @ \/ PhotoLeft(m)]
  IN  [m EXCEPT !.man = man, !.cursor = s.text,
                !.attempts = IF s.takeover THEN @ ELSE 1]

BeginTextAfterSkippingPhotos(w) ==
  LET m == TextWithoutPhotos(mem[w])
  IN  Proceed(w, [WithManifest(row[cur[w]], m.man) EXCEPT
                    !.cursor = m.cursor, !.attempts = m.attempts],
              m, TextStep(m))

Begin(w) ==
  LET m == mem[w]
      s == SplitCursor(m)
  IN  /\ pc[w] = "begin"
      /\ IF m.man.texts + m.man.photos = 0 THEN Finish(w, "SUCCEEDED", "none")
         ELSE IF State(m).takeover THEN BeginTextAfterSkippingPhotos(w)
         ELSE IF m.man.photos > 0 /\ m.man.shared
         THEN Proceed(w, [WithManifest(row[cur[w]], s.man) EXCEPT !.cursor = s.cursor],
                      s, DeliverStep(s))
         ELSE Goto(w, DeliverStep(m)) /\ UNCHANGED row
      /\ Quiet

(* Every item is authorised again before it leaves. *)
Authorise(w, step, send) ==
  /\ pc[w] = step
  /\ IF LinkActive(w) THEN Goto(w, send) /\ UNCHANGED row
                      ELSE Finish(w, "CANCELLED", "revoked")
  /\ Quiet

(* Mutant: the link is not looked at again between two items. *)
TextUnauthorised(w) ==
  /\ pc[w] = "text"
  /\ Goto(w, "sendText")
  /\ UNCHANGED row /\ Quiet

AuthoriseText(w) == Authorise(w, "text", "sendText")

(* What Telegram may do with an item, and what the caller learns of it: a  *)
(* lost answer to an accepted send looks like a failed one.                *)
Replies == {[seen |-> TRUE,  reply |-> "ok"],    [seen |-> TRUE,  reply |-> "retry"],
            [seen |-> FALSE, reply |-> "retry"], [seen |-> FALSE, reply |-> "perm"]}

Send(w, x, step) ==
  /\ pc'   = [pc EXCEPT ![w] = step]
  /\ out'  = [out EXCEPT ![w].reply = x.reply]
  /\ late' = IF x.seen /\ ~LinkActive(w)
             THEN [late EXCEPT ![LinkOf[cur[w]]] = @ + 1] ELSE late
  /\ UNCHANGED <<row, link, cur, mem, todo, faults, answer, runs, effects, leases>>

SendText(w) ==
  /\ pc[w] = "sendText"
  /\ \E x \in Replies :
       /\ Send(w, x, "sentText")
       /\ got' = IF x.seen THEN [got EXCEPT ![cur[w]] = @ \union {mem[w].cursor + 1}]
                 ELSE got
  /\ UNCHANGED pics

(* Mutant: one confirmation marks the whole text as delivered. *)
ConfirmWholeText(w) ==
  LET m == [mem[w] EXCEPT !.cursor = mem[w].man.texts]
      r == [row[cur[w]] EXCEPT !.cursor = m.cursor, !.expired = FALSE]
  IN  ProceedIf(w, row[cur[w]].cursor < m.cursor, r, m, TextStep(m))

(* mark_delivery_progress: only ever forward, and the last text item hands *)
(* the attempts over to the pictures.                                      *)
ConfirmText(w) ==
  LET m    == [mem[w] EXCEPT !.cursor = @ + 1]
      last == m.cursor = m.man.texts /\ State(m).first /\ PhotoLeft(m)
      n    == IF last THEN [m EXCEPT !.attempts = 0] ELSE m
      r    == [row[cur[w]] EXCEPT !.cursor = m.cursor, !.expired = FALSE,
                                  !.attempts = IF last THEN 0 ELSE @]
  IN  ProceedIf(w, row[cur[w]].cursor < m.cursor, r, n, TextStep(n))

SettleText(w) ==
  /\ pc[w] = "sentText"
  /\ IF out[w].reply = "ok" THEN ConfirmText(w)
     ELSE IF out[w].reply = "retry" THEN RequeueDelivery(w)
     ELSE Finish(w, "FAILED", "rejected")
  /\ Quiet

(* mark_photo_progress *)
PhotoDone(w, m, step) ==
  Proceed(w, WithManifest(row[cur[w]], m.man), m, step)

NextPhoto(m, degraded) ==
  LET man == [m.man EXCEPT !.photo = @ + 1, !.degraded = @ \/ degraded]
  IN  [m EXCEPT !.man = man]

(* Mutant: a picture is skipped without marking the job. *)
SkipUnmarked(w, step) == LET m == NextPhoto(mem[w], FALSE)
                         IN  PhotoDone(w, m, PhotoStep(m, step))

SkipPhoto(w, step) == LET m == NextPhoto(mem[w], TRUE)
                      IN  PhotoDone(w, m, PhotoStep(m, step))

(* The picture phase: off, out of attempts, or one more attempt. *)
PhotoAttempt(w) ==
  LET m == [mem[w] EXCEPT !.attempts = 0, !.man.tries = @ + 1]
  IN  Proceed(w, [WithManifest(row[cur[w]], m.man) EXCEPT !.attempts = 0],
              m, "photo")

AllPhotosSkipped(w) ==
  LET man == [mem[w].man EXCEPT !.photo = mem[w].man.photos, !.degraded = TRUE]
  IN  PhotoDone(w, [mem[w] EXCEPT !.man = man], "finish")

Gate(w) ==
  LET m == mem[w]
  IN  /\ pc[w] = "gate"
      /\ IF ~PhotoLeft(m) THEN Goto(w, AfterPhotos(m)) /\ UNCHANGED row
         ELSE \E on \in ImageSwitch :
                IF ~on THEN Goto(w, "off") /\ UNCHANGED row
                ELSE IF m.man.tries < MaxAttempts THEN PhotoAttempt(w)
                ELSE IF State(m).first THEN AllPhotosSkipped(w)
                ELSE BeginTextAfterSkippingPhotos(w)
      /\ Quiet

(* Images are switched off: each picture is skipped under a live link. *)
PhotoOff(w) ==
  /\ pc[w] = "off"
  /\ IF LinkActive(w) THEN SkipPhoto(w, "off")
                      ELSE Finish(w, "CANCELLED", "revoked")
  /\ Quiet

AuthorisePhoto(w) == Authorise(w, "photo", "render")

(* A picture that cannot be drawn or sent is retried on the picture budget *)
(* and skipped when that is spent.                                         *)
PhotoFailed(w, retryable) ==
  IF retryable /\ mem[w].man.tries < MaxAttempts
  THEN RequeuePhoto(w) ELSE SkipPhoto(w, "photo")

Render(w) ==
  /\ pc[w] = "render"
  /\ \E drawn \in BOOLEAN :
       IF drawn
       THEN IF LinkActive(w) THEN Goto(w, "sendPhoto") /\ UNCHANGED row
                             ELSE Finish(w, "CANCELLED", "revoked")
       ELSE PhotoFailed(w, TRUE)
  /\ Quiet

SendPhoto(w) ==
  /\ pc[w] = "sendPhoto"
  /\ \E x \in Replies :
       /\ Send(w, x, "sentPhoto")
       /\ pics' = IF x.seen THEN [pics EXCEPT ![cur[w]] = @ \union {mem[w].man.photo + 1}]
                  ELSE pics
  /\ UNCHANGED got

SettlePhoto(w) ==
  LET m == NextPhoto(mem[w], FALSE)
  IN  /\ pc[w] = "sentPhoto"
      /\ IF out[w].reply = "ok" THEN PhotoDone(w, m, PhotoStep(m, "photo"))
         ELSE PhotoFailed(w, out[w].reply = "retry")
      /\ Quiet

(* Pictures first, of an earlier release: now the required text. *)
StartText(w) ==
  LET m == [mem[w] EXCEPT !.attempts = 1, !.man.started = TRUE]
  IN  /\ pc[w] = "startText"
      /\ Proceed(w, [WithManifest(row[cur[w]], m.man) EXCEPT !.attempts = 1],
                 m, TextStep(m))
      /\ Quiet

FinishDelivered(w) ==
  /\ pc[w] = "finish"
  /\ Finish(w, "SUCCEEDED", IF mem[w].man.degraded THEN "degraded" ELSE "none")
  /\ Quiet

-----------------------------------------------------------------------------
(* Crashes, restarts and the passing of time. *)

Crash(w) ==
  /\ pc[w] \notin {"down", "idle"}
  /\ faults < MaxFaults
  /\ faults' = faults + 1
  /\ pc'   = [pc   EXCEPT ![w] = "down"]
  /\ cur'  = [cur  EXCEPT ![w] = NoJob]
  /\ mem'  = [mem  EXCEPT ![w] = NoMem]
  /\ out'  = [out  EXCEPT ![w] = NoOut]
  /\ todo' = [todo EXCEPT ![w] = {}]
  /\ UNCHANGED <<row, link, got, pics, answer, runs, effects, leases, late>>

(* The platform restarts a worker that exited. *)
Restart(w) ==
  /\ pc[w] = "down"
  /\ pc' = [pc EXCEPT ![w] = "idle"]
  /\ UNCHANGED <<row, cur, mem, out, todo>> /\ Quiet

Held(j) == \E w \in Workers : cur[w] = j /\ mem[w].token = row[j].claims

(* A lease outlives the longest legitimate turn, so it runs out under a    *)
(* live worker only where MayStall says so.                                *)
ExpireLease(j) ==
  /\ row[j].status = "RUNNING"
  /\ ~row[j].expired
  /\ Held(j) => MayStall /\ faults < MaxFaults
  /\ faults' = IF Held(j) THEN faults + 1 ELSE faults
  /\ row' = [row EXCEPT ![j].expired = TRUE]
  /\ UNCHANGED <<link, pc, cur, mem, out, todo, got, pics, answer, runs, effects,
                 leases, late>>

-----------------------------------------------------------------------------
(* A row of an earlier release has delivered what its cursors say. *)
Seeded(r) == DeliveryState(r.man, r.cursor)

FirstJob(j) == \A k \in Jobs : j <= k

InitialRows == {Absent} \union UNION {LegacySeeds(a) : a \in LegacyShapes}

Init ==
  /\ row \in {[j \in Jobs |-> IF FirstJob(j) THEN r ELSE Absent] :
                r \in IF LegacyShapes = {} THEN {Absent} ELSE InitialRows \ {Absent}}
  /\ link   = [l \in Links |-> "ACTIVE"]
  /\ pc     = [w \in Workers |-> "idle"]
  /\ cur    = [w \in Workers |-> NoJob]
  /\ mem    = [w \in Workers |-> NoMem]
  /\ out    = [w \in Workers |-> NoOut]
  /\ todo   = [w \in Workers |-> {}]
  /\ faults = 0
  /\ got    = [j \in Jobs |-> 1..Seeded(row[j]).text]
  /\ pics   = [j \in Jobs |-> 1..Seeded(row[j]).photo]
  /\ answer = [j \in Jobs |-> row[j].man.texts]
  /\ runs   = [j \in Jobs |-> 0]
  /\ effects = [j \in Jobs |-> 0]
  /\ leases = [j \in Jobs |-> 0]
  /\ late   = [l \in Links |-> 0]

Execute(w) == \/ ExecuteQuestion(w) \/ ExecuteNew(w) \/ ExecuteAdvisor(w)
              \/ ExecuteRetry(w) \/ ExecutePermanent(w)

Deliver(w) == \/ Begin(w) \/ AuthoriseText(w) \/ SendText(w) \/ SettleText(w)
              \/ Gate(w) \/ PhotoOff(w) \/ AuthorisePhoto(w) \/ Render(w)
              \/ SendPhoto(w) \/ SettlePhoto(w) \/ StartText(w)
              \/ FinishDelivered(w)

Work(w) == \/ Sweep(w)
           \/ \E j \in Jobs : RecoverStale(w, j) \/ Claim(w, j) \/ ClaimConflict(w, j)
           \/ NothingToClaim(w)
           \/ Check(w) \/ Execute(w) \/ Refresh(w) \/ StoreDelivery(w)
           \/ Deliver(w)
           \/ Restart(w)

Next == \/ \E j \in Jobs : Enqueue(j) \/ Release(j) \/ ExpireLease(j)
        \/ \E l \in Links : Revoke(l)
        \/ SweepOnUnlink
        \/ \E w \in Workers : Work(w) \/ Crash(w)

(* A running process makes progress, a dead one is restarted, and time     *)
(* passes; nothing makes students ask or administrators revoke.            *)
Fairness == /\ \A w \in Workers : WF_vars(Work(w))
            /\ \A j \in Jobs : WF_vars(Release(j)) /\ WF_vars(ExpireLease(j))

Spec == Init /\ [][Next]_vars /\ Fairness
=============================================================================
