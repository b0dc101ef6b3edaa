-------------------------- MODULE TelegramReceipts --------------------------
(***************************************************************************)
(* One row of the durable Telegram queue (TelegramUpdateReceipt) and what  *)
(* telegram_gateway/jobs.py computes from it and does to it: the reading   *)
(* of a stored delivery manifest, the retry budgets, and the new row each  *)
(* UPDATE writes.  The rows, their workers and their interleavings are in  *)
(* TelegramJobs.                                                           *)
(*                                                                         *)
(* A manifest is abstracted to how many text items and how many pictures   *)
(* it holds and to the progress fields the code keeps beside them; a lease *)
(* is abstracted to the number of the claim that granted it (locked_by and *)
(* locked_at together identify one claim) and to whether it has run out.   *)
(***************************************************************************)
EXTENDS Naturals, FiniteSets

CONSTANT MaxAttempts    \* --max-attempts of every worker process

ASSUME AttemptsAssumption == MaxAttempts \in Nat \ {0}

ActiveStatuses   == {"QUEUED", "RUNNING"}
TerminalStatuses == {"SUCCEEDED", "FAILED", "CANCELLED"}
Statuses         == {"ABSENT"} \union ActiveStatuses \union TerminalStatuses

(* How a job ended, as far as the properties tell error codes apart. *)
Errors == {"none", "degraded", "revoked", "rejected", "permanent", "exhausted"}

(***************************************************************************)
(* delivery_payload (with the result_code that marks a materialised job).  *)
(* `shared` is a manifest of the release before the cursor was split: its  *)
(* delivery_cursor counts pictures and text together, pictures first.      *)
(***************************************************************************)
Manifest == [made: BOOLEAN, texts: Nat, photos: Nat, photo: Nat, tries: Nat,
             first: BOOLEAN, started: BOOLEAN, shared: BOOLEAN,
             degraded: BOOLEAN]

NoManifest == [made |-> FALSE, texts |-> 0, photos |-> 0, photo |-> 0,
               tries |-> 0, first |-> FALSE, started |-> FALSE,
               shared |-> FALSE, degraded |-> FALSE]

(* The manifest this release writes: text before pictures, two cursors.    *)
(* Pictures without any text are dropped.                                  *)
NewManifest(a) ==
  LET photos == IF a.texts = 0 THEN 0 ELSE a.photos
  IN  [NoManifest EXCEPT !.made = TRUE, !.texts = a.texts, !.photos = photos,
                         !.first = TRUE, !.started = (photos = 0)]

Receipt == [status: Statuses, ready: BOOLEAN, attempts: Nat, claims: Nat,
            expired: BOOLEAN, conv: BOOLEAN, cursor: Nat, man: Manifest,
            error: Errors]

Absent == [status |-> "ABSENT", ready |-> FALSE, attempts |-> 0, claims |-> 0,
           expired |-> FALSE, conv |-> FALSE, cursor |-> 0,
           man |-> NoManifest, error |-> "none"]

-----------------------------------------------------------------------------
(* Reading the progress of a manifest: three generations of rows.          *)

TextOnlyState(m, cursor) ==
  [photo |-> 0, tries |-> 0, text |-> cursor, started |-> TRUE,
   takeover |-> FALSE, first |-> TRUE]

SharedCursorState(m, cursor) ==
  [photo |-> IF cursor <= m.photos THEN cursor ELSE m.photos, tries |-> 0,
   text  |-> IF cursor <= m.photos THEN 0 ELSE cursor - m.photos,
   started |-> cursor > m.photos, takeover |-> FALSE, first |-> FALSE]

(* A rolled-back text-only worker moves the text cursor of a picture-first *)
(* manifest without marking its text phase: the text has taken over.       *)
SplitCursorState(m, cursor) ==
  LET takeover == ~m.first /\ ~m.started /\ cursor > 0
  IN  [photo |-> m.photo, tries |-> m.tries, text |-> cursor,
       started |-> m.started \/ takeover, takeover |-> takeover,
       first |-> m.first]

DeliveryState(m, cursor) ==
  IF m.photos = 0 THEN TextOnlyState(m, cursor)
  ELSE IF m.shared THEN SharedCursorState(m, cursor)
  ELSE SplitCursorState(m, cursor)

(* The job is delivering pictures and nothing else. *)
PendingPhotos(r) ==
  LET s == DeliveryState(r.man, r.cursor)
  IN  /\ s.photo < r.man.photos
      /\ IF s.first THEN s.text = r.man.texts ELSE ~s.started

PhotoBudgetExhausted(r) ==
  /\ PendingPhotos(r)
  /\ DeliveryState(r.man, r.cursor).tries >= MaxAttempts

(* Giving up the pictures is a way out only while the budget that ran out  *)
(* is not the one of the required text.                                    *)
CanDegrade(r) ==
  LET s == DeliveryState(r.man, r.cursor)
  IN  /\ r.man.photos > 0
      /\ r.man.texts > 0
      /\ s.started => s.takeover \/ (s.first /\ s.text = r.man.texts)

-----------------------------------------------------------------------------
(* The row each UPDATE leaves behind. *)

(* A terminal row keeps its result code and loses its payload. *)
Ended(r, status, error) ==
  [r EXCEPT !.status = status, !.error = error, !.expired = FALSE,
            !.man = [NoManifest EXCEPT !.made = r.man.made]]

Requeued(r, ready) ==
  [r EXCEPT !.status = "QUEUED", !.ready = ready, !.expired = FALSE]

(* Mutant: pictures are given up and nobody is told. *)
DegradedSilently(r) ==
  LET s == DeliveryState(r.man, r.cursor)
  IN  [Requeued(r, TRUE) EXCEPT
         !.man = [@ EXCEPT !.shared = FALSE, !.photo = r.man.photos,
                           !.tries = s.tries, !.started = TRUE],
         !.cursor = s.text,
         !.attempts = IF s.takeover THEN @ ELSE 0]

(* Mutant: the attempts a rolled-back worker spent are given back. *)
DegradedAfresh(r) ==
  LET s == DeliveryState(r.man, r.cursor)
  IN  [Requeued(r, TRUE) EXCEPT
         !.man = [@ EXCEPT !.shared = FALSE, !.photo = r.man.photos,
                           !.tries = s.tries, !.started = TRUE,
                           !.degraded = @ \/ s.photo < r.man.photos],
         !.cursor = s.text, !.attempts = 0]

Degraded(r) ==
  LET s == DeliveryState(r.man, r.cursor)
      m == [r.man EXCEPT !.shared = FALSE, !.photo = r.man.photos,
                         !.tries = s.tries, !.started = TRUE,
                         !.degraded = @ \/ s.photo < r.man.photos]
  IN  [Requeued(r, TRUE) EXCEPT !.man = m, !.cursor = s.text,
                                !.attempts = IF s.takeover THEN @ ELSE 0]

(* Mutant: out of attempts means failed, whatever was pending. *)
GivenUpOutright(r) == Ended(r, "FAILED", "exhausted")

(* What becomes of a row that has no attempt left. *)
GivenUp(r) == IF CanDegrade(r) THEN Degraded(r) ELSE Ended(r, "FAILED", "exhausted")

(* Mutant: a recovered job starts counting again. *)
RecoveredAfresh(r, linkActive) ==
  IF ~linkActive THEN Ended(r, "CANCELLED", "revoked")
  ELSE IF PhotoBudgetExhausted(r) \/ r.attempts >= MaxAttempts THEN GivenUp(r)
  ELSE [Requeued(r, TRUE) EXCEPT !.attempts = 0]

(* recover_stale_jobs on one row whose lease ran out. *)
Recovered(r, linkActive) ==
  IF ~linkActive THEN Ended(r, "CANCELLED", "revoked")
  ELSE IF PhotoBudgetExhausted(r) \/ r.attempts >= MaxAttempts THEN GivenUp(r)
  ELSE Requeued(r, TRUE)

(* _fail_exhausted_queued_jobs on one row. *)
Exhausted(r) == r.status = "QUEUED" /\ r.attempts >= MaxAttempts

FailedIfExhausted(r) == IF Exhausted(r) THEN GivenUp(r) ELSE r

(* Granting a lease. The picture phase has a counter of its own, so there  *)
(* the claim leaves the text budget at zero.                               *)
Leased(r) ==
  [r EXCEPT !.status = "RUNNING", !.claims = @ + 1, !.expired = FALSE,
            !.attempts = IF PendingPhotos(r) THEN 0 ELSE @ + 1]

Claimed(r) ==
  Leased(IF PhotoBudgetExhausted(r) /\ CanDegrade(r) THEN Degraded(r) ELSE r)

(* Mutant: delivery inherits the attempts generation has spent. *)
StoredOnOneBudget(r, a) ==
  [r EXCEPT !.man = NewManifest(a), !.cursor = 0, !.expired = FALSE]

(* store_delivery: the manifest replaces the input, text attempt one. *)
Stored(r, a) ==
  [r EXCEPT !.man = NewManifest(a), !.cursor = 0, !.attempts = 1,
            !.expired = FALSE]

(* The rows an earlier release may have left queued: pictures first, with  *)
(* one shared cursor, or with split cursors before or after the text       *)
(* phase, or taken over by a rolled-back text-only worker.                 *)
PicturesFirstManifest(a) == [NoManifest EXCEPT !.made = TRUE, !.texts = a.texts,
                                               !.photos = a.photos]

BeforeText(a, p, t) == [PicturesFirstManifest(a) EXCEPT !.photo = p, !.tries = t]

LegacyManifests(a) ==
  {BeforeText(a, p, t) : p \in 0..a.photos, t \in 0..MaxAttempts} \union
  {[PicturesFirstManifest(a) EXCEPT !.shared = TRUE],
   [PicturesFirstManifest(a) EXCEPT !.photo = a.photos, !.started = TRUE]}

LegacyRow(m, n, c) == [Absent EXCEPT !.status = "QUEUED", !.ready = TRUE,
                                     !.attempts = n, !.man = m, !.cursor = c]

LegacyRows(a) ==
  {LegacyRow(m, n, c) : m \in LegacyManifests(a), n \in 0..(MaxAttempts - 1),
                        c \in 0..(a.texts + a.photos)}

(* A split cursor never passes the text. *)
LegacySeeds(a) ==
  {r \in LegacyRows(a) : r.man.shared \/ r.cursor <= a.texts}
=============================================================================
