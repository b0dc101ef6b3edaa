------------------------ MODULE TelegramLeaseProofs ------------------------
(***************************************************************************)
(* Who may work on what, and how often: a lease has one holder and a       *)
(* revoked chat hears at most one late item, as long as no lease runs out  *)
(* under a live worker; and the adviser is asked at most MaxAttempts times *)
(* for one update, whatever workers do to each other.                      *)
(***************************************************************************)
EXTENDS TelegramJobsProofs, FiniteSetTheorems

SendSteps == {"sendText", "sendPhoto"}

(* The worker's next UPDATE goes through, and nobody recovers the row. *)
Alive(w) == Owned(w) /\ ~row[cur[w]].expired

(* The sweep of a revoked link ended the job under the worker's hands. *)
Swept(w) == row[cur[w]].status = "CANCELLED" /\ ~LinkActive(w)

LeaseKept == \A w \in Workers : cur[w] # NoJob => Alive(w) \/ Swept(w)

(* Two processes never work for the same chat. *)
LoneWorker ==
  \A v, w \in Workers :
    /\ cur[v] # NoJob
    /\ cur[w] # NoJob
    /\ LinkOf[cur[v]] = LinkOf[cur[w]]
    => v = w

(* A copy never knows of an answer its row does not have. *)
CopyFromRow == \A w \in Workers : cur[w] # NoJob /\ mem[w].man.made => row[cur[w]].man.made

BaseInvariant == CoreInvariant /\ HeldIsPresent /\ CopyFromRow

-----------------------------------------------------------------------------
(* What a worker past its claim does to itself and to the row it holds.    *)

(* Without an answer a row keeps its attempts and its empty payload. *)
Unmade(r, q) == q.man.made \/ (q.attempts = r.attempts /\ q.man \in {r.man, NoManifest})

Writes(w) == /\ UNCHANGED link
             /\ \A k \in Jobs \ {cur[w]} : row'[k] = row[k]
             /\ \A v \in Workers \ {w} : /\ cur'[v] = cur[v]
                                         /\ mem'[v] = mem[v]
                                         /\ pc'[v] = pc[v]
             /\ Unmade(row[cur[w]], row'[cur[w]])

Continues(w) == /\ cur'[w] = cur[w]
                /\ row'[cur[w]].status = row[cur[w]].status
                /\ Alive(w) => Alive(w)'
                /\ mem'[w].man.made => row'[cur[w]].man.made
                /\ pc'[w] \notin FreeSteps \union {"check"}
                /\ pc'[w] \in SendSteps => LinkActive(w)

Stops(w) == cur'[w] = NoJob /\ pc'[w] = "idle"

Tends(w) == cur[w] \in Jobs /\ Writes(w) /\ (Continues(w) \/ Stops(w))

(* Steps at which an UPDATE may let a worker go on: never to a send. *)
OnSteps == Steps \ (FreeSteps \union SendSteps \union {"check"})

LEMMA OnStepsHeld ==
  ASSUME NEW m
  PROVE  {TextStep(m), AfterPhotos(m), DeliverStep(m), PhotoStep(m, "photo"),
          PhotoStep(m, "off"), "photo", "finish", "begin"} \subseteq OnSteps
BY DEF TextStep, AfterPhotos, DeliverStep, PhotoStep, OnSteps, Steps, FreeSteps,
       SendSteps

LEMMA GotoTends ==
  ASSUME TypeOK, CopyFromRow, NEW w \in Workers, pc[w] \notin FreeSteps,
         NEW step \in Steps \ (FreeSteps \union {"check"}),
         step \in SendSteps => LinkActive(w),
         Goto(w, step), UNCHANGED <<row, link>>
  PROVE  Tends(w)
<1>1. cur[w] \in Jobs BY BusyHoldsJob DEF TypeOK
<1>2. cur[w] # NoJob BY <1>1, JobsAssumption DEF NoJob
<1>3. Writes(w) BY DEF Goto, Writes, Unmade, TypeOK, WorkerTypeOK
<1>4. Continues(w)
  BY <1>2 DEF Goto, Continues, Alive, Owned, CopyFromRow, TypeOK, WorkerTypeOK
<1>5. QED BY <1>1, <1>3, <1>4 DEF Tends

LEMMA ProceedTends ==
  ASSUME TypeOK, NEW w \in Workers, pc[w] \notin FreeSteps, NEW matches,
         NEW r, r.status = row[cur[w]].status, r.claims = row[cur[w]].claims,
         r.expired \in {FALSE, row[cur[w]].expired},
         r.man.made \/ (r.attempts = row[cur[w]].attempts /\ r.man = row[cur[w]].man),
         NEW m, m.token = mem[w].token, m.man.made => r.man.made,
         NEW step \in OnSteps, ProceedIf(w, matches, r, m, step), UNCHANGED link
  PROVE  Tends(w)
<1>1. cur[w] \in Jobs BY BusyHoldsJob DEF TypeOK
<1>2. CASE Owned(w) /\ matches
  <2>1. row' = [row EXCEPT ![cur[w]] = r] /\ mem' = [mem EXCEPT ![w] = m]
        /\ pc' = [pc EXCEPT ![w] = step] /\ UNCHANGED cur
    BY <1>2 DEF ProceedIf
  <2>2. row'[cur[w]] = r /\ mem'[w] = m /\ pc'[w] = step /\ cur'[w] = cur[w]
    BY <1>1, <2>1 DEF TypeOK, DatabaseTypeOK, WorkerTypeOK
  <2>3. Writes(w)
    BY <1>1, <2>1, <2>2 DEF Writes, Unmade, TypeOK, DatabaseTypeOK, WorkerTypeOK
  <2>4. Continues(w)
    BY <2>2 DEF Continues, Alive, Owned, OnSteps
  <2>5. QED BY <1>1, <2>3, <2>4 DEF Tends
<1>3. CASE ~(Owned(w) /\ matches)
  <2>1. Rest(w) /\ UNCHANGED row BY <1>3 DEF ProceedIf
  <2>2. Writes(w) /\ Stops(w)
    BY <2>1 DEF Rest, Writes, Unmade, Stops, TypeOK, WorkerTypeOK
  <2>3. QED BY <1>1, <2>2 DEF Tends
<1>4. QED BY <1>2, <1>3

LEMMA LetGoTends ==
  ASSUME TypeOK, NEW w \in Workers, pc[w] \notin FreeSteps,
         NEW r, Unmade(row[cur[w]], r), LetGo(w, r), UNCHANGED link
  PROVE  Tends(w)
<1>1. cur[w] \in Jobs BY BusyHoldsJob DEF TypeOK
<1>2. row'[cur[w]] \in {r, row[cur[w]]}
      /\ \A k \in Jobs \ {cur[w]} : row'[k] = row[k]
  BY <1>1 DEF LetGo, TypeOK, DatabaseTypeOK
<1>3. Writes(w) /\ Stops(w)
  BY <1>2 DEF LetGo, Rest, Writes, Unmade, Stops, TypeOK, WorkerTypeOK
<1>4. QED BY <1>1, <1>3 DEF Tends

LEMMA FinishTends ==
  ASSUME TypeOK, NEW w \in Workers, pc[w] \notin FreeSteps, NEW s, NEW e,
         Finish(w, s, e), UNCHANGED link
  PROVE  Tends(w)
<1>1. row[cur[w]] \in Receipt BY BusyHoldsJob DEF TypeOK, DatabaseTypeOK
<1>2. Unmade(row[cur[w]], Ended(row[cur[w]], s, e))
  <2>1. row[cur[w]].man.made \in BOOLEAN BY <1>1 DEF Receipt, Manifest
  <2>2. Ended(row[cur[w]], s, e).man = [NoManifest EXCEPT !.made = row[cur[w]].man.made]
        /\ Ended(row[cur[w]], s, e).attempts = row[cur[w]].attempts
    BY <1>1 DEF Ended, Receipt
  <2>3. CASE row[cur[w]].man.made BY <2>2, <2>3 DEF Unmade, NoManifest
  <2>4. CASE row[cur[w]].man.made = FALSE
    <3>1. [NoManifest EXCEPT !.made = FALSE] = NoManifest
      BY NoManifestType DEF NoManifest, Manifest
    <3>2. QED BY <2>2, <2>4, <3>1 DEF Unmade
  <2>5. QED BY <2>1, <2>3, <2>4
<1>3. QED BY <1>2, LetGoTends DEF Finish

LEMMA RequeueTends ==
  ASSUME TypeOK, NEW w \in Workers, pc[w] \notin FreeSteps,
         RequeueDelivery(w) \/ (RequeuePhoto(w) /\ row[cur[w]].man.made), UNCHANGED link
  PROVE  Tends(w)
<1> DEFINE q == Requeued(row[cur[w]], FALSE)
           r == [q EXCEPT !.attempts = 0]
<1>1. row[cur[w]] \in Receipt BY BusyHoldsJob DEF TypeOK, DatabaseTypeOK
<1>2. q \in Receipt /\ q.man = row[cur[w]].man /\ q.attempts = row[cur[w]].attempts
  BY <1>1 DEF Requeued, Receipt, Statuses, ActiveStatuses
<1> HIDE DEF q
<1>3. Unmade(row[cur[w]], q) BY <1>2 DEF Unmade
<1>4. row[cur[w]].man.made => Unmade(row[cur[w]], r)
  BY <1>2 DEF Unmade, Receipt
<1>5. \/ Finish(w, "FAILED", "exhausted")
      \/ LetGo(w, q)
      \/ row[cur[w]].man.made /\ LetGo(w, r)
  BY DEF RequeueDelivery, RequeuePhoto, q
<1> HIDE DEF r
<1>6. QED BY <1>3, <1>4, <1>5, FinishTends, LetGoTends

(* A write of the payload, as a whole, by a worker that has an answer. *)
LEMMA PayloadTends ==
  ASSUME TypeOK, NEW w \in Workers, pc[w] \notin FreeSteps,
         NEW m, m.token = mem[w].token, m.man.made,
         NEW c, NEW n,
         NEW step \in OnSteps,
         Proceed(w, [WithManifest(row[cur[w]], m.man) EXCEPT !.cursor = c, !.attempts = n],
                 m, step),
         UNCHANGED link
  PROVE  Tends(w)
<1> DEFINE r == [WithManifest(row[cur[w]], m.man) EXCEPT !.cursor = c, !.attempts = n]
<1>1. row[cur[w]] \in Receipt BY BusyHoldsJob DEF TypeOK, DatabaseTypeOK
<1>2. /\ r.status = row[cur[w]].status /\ r.claims = row[cur[w]].claims
      /\ r.expired = FALSE /\ r.man = m.man
  BY <1>1 DEF WithManifest, Receipt
<1>3. ProceedIf(w, TRUE, r, m, step) BY DEF Proceed
<1> HIDE DEF r
<1>4. QED BY <1>2, <1>3, ProceedTends

(* The three shorter forms of such a write. *)
LEMMA PayloadOnly ==
  ASSUME NEW r \in Receipt, NEW man
  PROVE  WithManifest(r, man)
         = [WithManifest(r, man) EXCEPT !.cursor = r.cursor, !.attempts = r.attempts]
BY DEF WithManifest, Receipt

LEMMA PayloadAndCursor ==
  ASSUME NEW r \in Receipt, NEW man, NEW c
  PROVE  [WithManifest(r, man) EXCEPT !.cursor = c]
         = [WithManifest(r, man) EXCEPT !.cursor = c, !.attempts = r.attempts]
BY DEF WithManifest, Receipt

LEMMA PayloadAndAttempts ==
  ASSUME NEW r \in Receipt, NEW man, NEW n
  PROVE  [WithManifest(r, man) EXCEPT !.attempts = n]
         = [WithManifest(r, man) EXCEPT !.cursor = r.cursor, !.attempts = n]
BY DEF WithManifest, Receipt

LEMMA PhotoDoneTends ==
  ASSUME TypeOK, NEW w \in Workers, pc[w] \notin FreeSteps,
         NEW m, m.token = mem[w].token, m.man.made, NEW step \in OnSteps,
         PhotoDone(w, m, step), UNCHANGED link
  PROVE  Tends(w)
<1>1. row[cur[w]] \in Receipt BY BusyHoldsJob DEF TypeOK, DatabaseTypeOK
<1> DEFINE q == WithManifest(row[cur[w]], m.man)
<1>2. q = [q EXCEPT !.cursor = row[cur[w]].cursor, !.attempts = row[cur[w]].attempts]
  BY <1>1, PayloadOnly
<1>3. Proceed(w, [q EXCEPT !.cursor = row[cur[w]].cursor,
                           !.attempts = row[cur[w]].attempts], m, step)
  BY <1>2 DEF PhotoDone
<1>4. QED BY <1>3, PayloadTends

LEMMA SkipPhotoTends ==
  ASSUME TypeOK, CopyMade, NEW w \in Workers, pc[w] \notin EarlySteps,
         NEW step \in {"photo", "off"}, SkipPhoto(w, step), UNCHANGED link
  PROVE  Tends(w)
<1> DEFINE m == NextPhoto(mem[w], TRUE)
<1>1. pc[w] \notin FreeSteps BY DEF EarlySteps
<1>2. mem[w] \in Memory /\ mem[w].man.made BY DEF CopyMade, TypeOK, WorkerTypeOK
<1>3. m.token = mem[w].token BY <1>2 DEF NextPhoto, Memory
<1>4. m.man.made BY <1>2, NextPhotoType
<1>5. PhotoDone(w, m, PhotoStep(m, step)) BY DEF SkipPhoto
<1> HIDE DEF m
<1>6. QED BY <1>1, <1>3, <1>4, <1>5, OnStepsHeld, PhotoDoneTends

LEMMA PhotoFailedTends ==
  ASSUME TypeOK, CopyMade, CopyFromRow, NEW w \in Workers, pc[w] \notin EarlySteps,
         NEW retryable, PhotoFailed(w, retryable), UNCHANGED link
  PROVE  Tends(w)
<1>1. pc[w] \notin FreeSteps BY DEF EarlySteps
<1>2. cur[w] # NoJob BY <1>1 DEF TypeOK, WorkerTypeOK
<1>3. row[cur[w]].man.made BY <1>2 DEF CopyMade, CopyFromRow
<1>4. QED BY <1>1, <1>3, RequeueTends, SkipPhotoTends DEF PhotoFailed

LEMMA BeginTextTends ==
  ASSUME TypeOK, CopyMade, NEW w \in Workers, pc[w] \notin EarlySteps,
         BeginTextAfterSkippingPhotos(w), UNCHANGED link
  PROVE  Tends(w)
<1> DEFINE m == TextWithoutPhotos(mem[w])
<1>1. pc[w] \notin FreeSteps BY DEF EarlySteps
<1>2. mem[w] \in Memory /\ mem[w].man.made BY DEF CopyMade, TypeOK, WorkerTypeOK
<1>3. m.token = mem[w].token BY <1>2 DEF TextWithoutPhotos, Memory
<1>4. m.man.made BY <1>2, TextWithoutPhotosType
<1>5. Proceed(w, [WithManifest(row[cur[w]], m.man) EXCEPT
                    !.cursor = m.cursor, !.attempts = m.attempts], m, TextStep(m))
  BY DEF BeginTextAfterSkippingPhotos
<1> HIDE DEF m
<1>6. QED BY <1>1, <1>3, <1>4, <1>5, OnStepsHeld, PayloadTends

LEMMA PhotoAttemptTends ==
  ASSUME TypeOK, CopyMade, NEW w \in Workers, pc[w] \notin EarlySteps,
         PhotoAttempt(w), UNCHANGED link
  PROVE  Tends(w)
<1> DEFINE m == [mem[w] EXCEPT !.attempts = 0, !.man.tries = @ + 1]
           q == WithManifest(row[cur[w]], m.man)
<1>1. pc[w] \notin FreeSteps BY DEF EarlySteps
<1>2. mem[w] \in Memory /\ mem[w].man.made BY DEF CopyMade, TypeOK, WorkerTypeOK
<1>3. row[cur[w]] \in Receipt BY <1>1, BusyHoldsJob DEF TypeOK, DatabaseTypeOK
<1>4. m.token = mem[w].token /\ m.man.made BY <1>2 DEF Memory, Manifest
<1>5. [q EXCEPT !.attempts = 0] = [q EXCEPT !.cursor = row[cur[w]].cursor, !.attempts = 0]
  BY <1>3, PayloadAndAttempts
<1>6. Proceed(w, [q EXCEPT !.attempts = 0], m, "photo") BY DEF PhotoAttempt
<1> HIDE DEF m
<1>7. Proceed(w, [q EXCEPT !.cursor = row[cur[w]].cursor, !.attempts = 0], m, "photo")
  BY <1>5, <1>6
<1>8. QED BY <1>1, <1>4, <1>7, OnStepsHeld, PayloadTends

LEMMA StartTextTends ==
  ASSUME TypeOK, CopyMade, NEW w \in Workers, StartText(w)
  PROVE  Tends(w)
<1> DEFINE m == [mem[w] EXCEPT !.attempts = 1, !.man.started = TRUE]
           q == WithManifest(row[cur[w]], m.man)
<1>1. pc[w] \notin EarlySteps BY DEF StartText, EarlySteps, FreeSteps
<1>2. pc[w] \notin FreeSteps BY <1>1 DEF EarlySteps
<1>3. mem[w] \in Memory /\ mem[w].man.made BY <1>1 DEF CopyMade, TypeOK, WorkerTypeOK
<1>4. row[cur[w]] \in Receipt BY <1>2, BusyHoldsJob DEF TypeOK, DatabaseTypeOK
<1>5. m.token = mem[w].token /\ m.man.made BY <1>3 DEF Memory, Manifest
<1>6. [q EXCEPT !.attempts = 1] = [q EXCEPT !.cursor = row[cur[w]].cursor, !.attempts = 1]
  BY <1>4, PayloadAndAttempts
<1>7. Proceed(w, [q EXCEPT !.attempts = 1], m, TextStep(m)) /\ UNCHANGED link
  BY DEF StartText, Quiet
<1> HIDE DEF m
<1>8. Proceed(w, [q EXCEPT !.cursor = row[cur[w]].cursor, !.attempts = 1], m, TextStep(m))
  BY <1>6, <1>7
<1>9. QED BY <1>2, <1>5, <1>7, <1>8, OnStepsHeld, PayloadTends

LEMMA ConfirmTextTends ==
  ASSUME TypeOK, CopyMade, CopyFromRow, NEW w \in Workers, pc[w] \notin EarlySteps,
         ConfirmText(w), UNCHANGED link
  PROVE  Tends(w)
<1> DEFINE m    == [mem[w] EXCEPT !.cursor = @ + 1]
           last == m.cursor = m.man.texts /\ State(m).first /\ PhotoLeft(m)
           n    == IF last THEN [m EXCEPT !.attempts = 0] ELSE m
           r    == [row[cur[w]] EXCEPT !.cursor = m.cursor, !.expired = FALSE,
                                       !.attempts = IF last THEN 0 ELSE @]
<1>1. pc[w] \notin FreeSteps BY DEF EarlySteps
<1>2. mem[w] \in Memory /\ mem[w].man.made BY DEF CopyMade, TypeOK, WorkerTypeOK
<1>3. row[cur[w]] \in Receipt /\ row[cur[w]].man.made
  BY <1>1, <1>2, BusyHoldsJob DEF CopyFromRow, TypeOK, DatabaseTypeOK, WorkerTypeOK
<1>4. n.token = mem[w].token
  <2>1. m.token = mem[w].token BY <1>2 DEF Memory
  <2>2. [m EXCEPT !.attempts = 0].token = m.token BY <1>2 DEF Memory
  <2> HIDE DEF last, m
  <2>3. QED BY <2>1, <2>2
<1>5. ProceedIf(w, row[cur[w]].cursor < m.cursor, r, n, TextStep(n))
  BY DEF ConfirmText
<1> HIDE DEF n, m, last
<1>6. /\ r.status = row[cur[w]].status /\ r.claims = row[cur[w]].claims
      /\ r.expired = FALSE /\ r.man.made
  BY <1>3 DEF Receipt
<1> HIDE DEF r
<1>7. QED BY <1>1, <1>4, <1>5, <1>6, OnStepsHeld, ProceedTends

LEMMA BeginTends ==
  ASSUME TypeOK, CopyMade, CopyFromRow, NEW w \in Workers, Begin(w)
  PROVE  Tends(w)
<1> DEFINE m == mem[w]
           s == SplitCursor(m)
           q == WithManifest(row[cur[w]], s.man)
<1>1. pc[w] \notin EarlySteps BY DEF Begin, EarlySteps, FreeSteps
<1>2. pc[w] \notin FreeSteps BY <1>1 DEF EarlySteps
<1>3. m \in Memory /\ m.man.made BY <1>1 DEF CopyMade, TypeOK, WorkerTypeOK
<1>4. row[cur[w]] \in Receipt BY <1>2, BusyHoldsJob DEF TypeOK, DatabaseTypeOK
<1>5. s.token = m.token BY <1>3 DEF SplitCursor, Memory
<1>6. s.man.made BY <1>3, SplitCursorType
<1>7. [q EXCEPT !.cursor = s.cursor]
      = [q EXCEPT !.cursor = s.cursor, !.attempts = row[cur[w]].attempts]
  BY <1>4, PayloadAndCursor
<1>8. /\ \/ Finish(w, "SUCCEEDED", "none")
         \/ BeginTextAfterSkippingPhotos(w)
         \/ Proceed(w, [q EXCEPT !.cursor = s.cursor], s, DeliverStep(s))
         \/ Goto(w, DeliverStep(m)) /\ UNCHANGED row
      /\ UNCHANGED link
  BY DEF Begin, Quiet
<1>9. DeliverStep(m) \in OnSteps BY OnStepsHeld
<1> HIDE DEF m, s
<1>10. CASE Proceed(w, [q EXCEPT !.cursor = s.cursor], s, DeliverStep(s))
  <2>1. Proceed(w, [q EXCEPT !.cursor = s.cursor, !.attempts = row[cur[w]].attempts],
                s, DeliverStep(s))
    BY <1>7, <1>10
  <2>2. s.token = mem[w].token BY <1>5 DEF m
  <2>3. QED BY <1>2, <1>6, <1>8, <2>1, <2>2, OnStepsHeld, PayloadTends
<1>11. CASE Goto(w, DeliverStep(m)) /\ UNCHANGED row
  BY <1>2, <1>8, <1>9, <1>11, GotoTends DEF OnSteps
<1>12. QED BY <1>1, <1>2, <1>8, <1>10, <1>11, FinishTends, BeginTextTends

(* Telegram takes an item or not; the row stays as it is. *)
LEMMA SendTends ==
  ASSUME TypeOK, CopyFromRow, NEW w \in Workers, SendText(w) \/ SendPhoto(w)
  PROVE  Tends(w) /\ pc'[w] \notin SendSteps
<1>1. pc[w] \notin FreeSteps BY DEF SendText, SendPhoto, FreeSteps
<1>2. cur[w] \in Jobs /\ cur[w] # NoJob
  BY <1>1, BusyHoldsJob, JobsAssumption DEF TypeOK, NoJob
<1>3. PICK x \in Replies, step \in {"sentText", "sentPhoto"} : Send(w, x, step)
  BY DEF SendText, SendPhoto
<1>4. /\ pc' = [pc EXCEPT ![w] = step]
      /\ UNCHANGED <<row, link, cur, mem>>
  BY <1>3 DEF Send
<1>5. pc'[w] = step BY <1>4 DEF TypeOK, WorkerTypeOK
<1>6. Writes(w) BY <1>4 DEF Writes, Unmade, TypeOK, WorkerTypeOK
<1>7. Continues(w)
  BY <1>2, <1>4, <1>5 DEF Continues, Alive, Owned, CopyFromRow, FreeSteps, SendSteps
<1>8. QED BY <1>2, <1>5, <1>6, <1>7 DEF Tends, SendSteps

LEMMA GateTends ==
  ASSUME TypeOK, CopyMade, CopyFromRow, NEW w \in Workers, Gate(w)
  PROVE  Tends(w)
<1>1. pc[w] \notin EarlySteps BY DEF Gate, EarlySteps, FreeSteps
<1>2. pc[w] \notin FreeSteps BY <1>1 DEF EarlySteps
<1>3. mem[w] \in Memory /\ mem[w].man.made BY <1>1 DEF CopyMade, TypeOK, WorkerTypeOK
<1>4. UNCHANGED link BY DEF Gate, Quiet
<1>5. ASSUME AllPhotosSkipped(w) PROVE Tends(w)
  <2> DEFINE man == [mem[w].man EXCEPT !.photo = mem[w].man.photos, !.degraded = TRUE]
             m == [mem[w] EXCEPT !.man = man]
  <2>1. PhotoDone(w, m, "finish") BY <1>5 DEF AllPhotosSkipped
  <2>2. man.made BY <1>3 DEF Memory, Manifest
  <2> HIDE DEF man
  <2>3. m.token = mem[w].token /\ m.man.made BY <1>3, <2>2 DEF Memory
  <2> HIDE DEF m
  <2>4. QED BY <1>2, <1>4, <2>1, <2>3, OnStepsHeld, PhotoDoneTends
<1>6. \/ Goto(w, AfterPhotos(mem[w])) /\ UNCHANGED row
      \/ Goto(w, "off") /\ UNCHANGED row
      \/ PhotoAttempt(w)
      \/ AllPhotosSkipped(w)
      \/ BeginTextAfterSkippingPhotos(w)
  BY DEF Gate
<1>7. AfterPhotos(mem[w]) \in OnSteps /\ "off" \in OnSteps
  BY OnStepsHeld DEF OnSteps, Steps, FreeSteps, SendSteps
<1>8. ASSUME NEW step \in OnSteps, Goto(w, step) /\ UNCHANGED row PROVE Tends(w)
  BY <1>2, <1>4, <1>8, GotoTends DEF OnSteps
<1>9. QED BY <1>1, <1>4, <1>5, <1>6, <1>7, <1>8, PhotoAttemptTends, BeginTextTends

LEMMA DeliverTends ==
  ASSUME TypeOK, CopyMade, CopyFromRow, NEW w \in Workers, Deliver(w)
  PROVE  Tends(w)
<1>1. CASE Begin(w) BY <1>1, BeginTends
<1>2. CASE AuthoriseText(w) \/ AuthorisePhoto(w)
  <2>1. PICK step \in {"sendText", "render"} :
          \/ LinkActive(w) /\ Goto(w, step) /\ UNCHANGED row
          \/ Finish(w, "CANCELLED", "revoked")
    BY <1>2 DEF AuthoriseText, AuthorisePhoto, Authorise
  <2>2. pc[w] \notin FreeSteps /\ UNCHANGED link
    BY <1>2 DEF AuthoriseText, AuthorisePhoto, Authorise, FreeSteps, Quiet
  <2>3. step \in Steps \ (FreeSteps \union {"check"}) BY DEF Steps, FreeSteps
  <2>4. QED BY <2>1, <2>2, <2>3, GotoTends, FinishTends
<1>3. CASE SendText(w) \/ SendPhoto(w) BY <1>3, SendTends
<1>4. CASE SettleText(w)
  <2>1. pc[w] \notin EarlySteps BY <1>4 DEF SettleText, EarlySteps, FreeSteps
  <2>2. pc[w] \notin FreeSteps BY <2>1 DEF EarlySteps
  <2>3. /\ \/ ConfirmText(w) \/ RequeueDelivery(w) \/ Finish(w, "FAILED", "rejected")
        /\ UNCHANGED link
    BY <1>4 DEF SettleText, Quiet
  <2>4. QED BY <2>1, <2>2, <2>3, ConfirmTextTends, RequeueTends, FinishTends
<1>5. CASE Gate(w) BY <1>5, GateTends
<1>6. CASE PhotoOff(w)
  <2>1. pc[w] \notin EarlySteps /\ pc[w] \notin FreeSteps
    BY <1>6 DEF PhotoOff, EarlySteps, FreeSteps
  <2>2. /\ SkipPhoto(w, "off") \/ Finish(w, "CANCELLED", "revoked")
        /\ UNCHANGED link
    BY <1>6 DEF PhotoOff, Quiet
  <2>3. QED BY <2>1, <2>2, SkipPhotoTends, FinishTends
<1>7. CASE Render(w)
  <2>1. pc[w] \notin EarlySteps /\ pc[w] \notin FreeSteps
    BY <1>7 DEF Render, EarlySteps, FreeSteps
  <2>2. /\ \/ LinkActive(w) /\ Goto(w, "sendPhoto") /\ UNCHANGED row
           \/ Finish(w, "CANCELLED", "revoked")
           \/ PhotoFailed(w, TRUE)
        /\ UNCHANGED link
    BY <1>7 DEF Render, Quiet
  <2>3. "sendPhoto" \in Steps \ (FreeSteps \union {"check"}) BY DEF Steps, FreeSteps
  <2>4. QED BY <2>1, <2>2, <2>3, GotoTends, FinishTends, PhotoFailedTends
<1>8. CASE SettlePhoto(w)
  <2> DEFINE m == NextPhoto(mem[w], FALSE)
  <2>1. pc[w] \notin EarlySteps /\ pc[w] \notin FreeSteps
    BY <1>8 DEF SettlePhoto, EarlySteps, FreeSteps
  <2>2. mem[w] \in Memory /\ mem[w].man.made
    BY <2>1 DEF CopyMade, TypeOK, WorkerTypeOK
  <2>3. m.token = mem[w].token BY <2>2 DEF NextPhoto, Memory
  <2>4. m.man.made BY <2>2, NextPhotoType
  <2>5. /\ \/ PhotoDone(w, m, PhotoStep(m, "photo"))
           \/ PhotoFailed(w, out[w].reply = "retry")
        /\ UNCHANGED link
    BY <1>8 DEF SettlePhoto, Quiet
  <2> HIDE DEF m
  <2>6. QED BY <2>1, <2>3, <2>4, <2>5, OnStepsHeld, PhotoDoneTends, PhotoFailedTends
<1>9. CASE StartText(w) BY <1>9, StartTextTends
<1>10. CASE FinishDelivered(w)
  BY <1>10, FinishTends DEF FinishDelivered, FreeSteps, Quiet
<1>11. QED
  BY <1>1, <1>2, <1>3, <1>4, <1>5, <1>6, <1>7, <1>8, <1>9, <1>10 DEF Deliver

(* The adviser has answered, and the row is the one it was or keeps its    *)
(* lease and gains an answer or a mark.                                    *)
LEMMA ExecutedTends ==
  ASSUME TypeOK, CopyFromRow, NEW w \in Workers, pc[w] = "execute", NEW a, Executed(w, a),
         NEW r, r.status = row[cur[w]].status, r.claims = row[cur[w]].claims,
         r.expired \in {FALSE, row[cur[w]].expired},
         r.man.made \/ (r.attempts = row[cur[w]].attempts /\ r.man = row[cur[w]].man),
         row' = [row EXCEPT ![cur[w]] = r], UNCHANGED link
  PROVE  Tends(w)
<1>1. cur[w] \in Jobs /\ cur[w] # NoJob
  BY BusyHoldsJob, JobsAssumption DEF TypeOK, NoJob, FreeSteps
<1>2. row'[cur[w]] = r /\ \A k \in Jobs \ {cur[w]} : row'[k] = row[k]
  BY <1>1 DEF TypeOK, DatabaseTypeOK
<1>3. /\ pc' = [pc EXCEPT ![w] = "refresh"]
      /\ UNCHANGED <<cur, mem>>
  BY DEF Executed
<1>4. pc'[w] = "refresh" BY <1>3 DEF TypeOK, WorkerTypeOK
<1>5. Writes(w) BY <1>2, <1>3 DEF Writes, Unmade, TypeOK, WorkerTypeOK
<1>6. mem[w].man.made => r.man.made BY <1>1 DEF CopyFromRow
<1>7. Continues(w)
  BY <1>2, <1>3, <1>4, <1>6 DEF Continues, Alive, Owned, FreeSteps, SendSteps
<1>8. QED BY <1>1, <1>5, <1>7 DEF Tends

LEMMA ExecuteTends ==
  ASSUME TypeOK, CopyFromRow, NEW w \in Workers, Execute(w)
  PROVE  Tends(w)
<1>1. pc[w] = "execute" /\ pc[w] \notin FreeSteps
  BY DEF Execute, ExecuteQuestion, ExecuteNew, ExecuteAdvisor, Executing, ExecuteRetry,
         ExecutePermanent, FreeSteps
<1>2. cur[w] \in Jobs /\ row[cur[w]] \in Receipt
  BY <1>1, BusyHoldsJob DEF TypeOK, DatabaseTypeOK
<1>3. UNCHANGED link
  BY DEF Execute, ExecuteQuestion, ExecuteNew, ExecuteAdvisor, ExecuteRetry,
         ExecutePermanent, Quiet
<1>4. ASSUME NEW a, Executed(w, a), UNCHANGED row PROVE Tends(w)
  <2>1. row' = [row EXCEPT ![cur[w]] = row[cur[w]]]
    BY <1>2, <1>4 DEF TypeOK, DatabaseTypeOK
  <2>2. QED BY <1>1, <1>3, <1>4, <2>1, ExecutedTends
<1>5. CASE ExecuteQuestion(w) BY <1>4, <1>5 DEF ExecuteQuestion
<1>6. CASE ExecuteNew(w)
  <2> DEFINE r == [row[cur[w]] EXCEPT !.conv = TRUE]
  <2>1. /\ \/ UNCHANGED row
           \/ row' = [row EXCEPT ![cur[w]] = r]
        /\ Executed(w, OneMessage)
    BY <1>2, <1>6 DEF ExecuteNew, TypeOK, DatabaseTypeOK
  <2>2. /\ r.status = row[cur[w]].status /\ r.claims = row[cur[w]].claims
        /\ r.expired = row[cur[w]].expired /\ r.attempts = row[cur[w]].attempts
        /\ r.man = row[cur[w]].man
    BY <1>2 DEF Receipt
  <2> HIDE DEF r
  <2>3. QED BY <1>1, <1>3, <1>4, <2>1, <2>2, ExecutedTends
<1>7. CASE ExecuteAdvisor(w)
  <2> DEFINE r == Stored(row[cur[w]], OneMessage)
  <2>1. \/ UNCHANGED row /\ Executed(w, OneMessage)
        \/ row' = [row EXCEPT ![cur[w]] = r] /\ Executed(w, OneMessage)
        \/ RequeueDelivery(w)
    BY <1>2, <1>7 DEF ExecuteAdvisor, TypeOK, DatabaseTypeOK
  <2>2. /\ r.status = row[cur[w]].status /\ r.claims = row[cur[w]].claims
        /\ r.expired = FALSE /\ r.man.made
    BY <1>2, StoredMarks DEF Stored, Receipt
  <2> HIDE DEF r
  <2>3. CASE RequeueDelivery(w) BY <1>1, <1>3, <2>3, RequeueTends
  <2>4. CASE ~RequeueDelivery(w)
    BY <1>1, <1>3, <1>4, <2>1, <2>2, <2>4, ExecutedTends
  <2>5. QED BY <2>3, <2>4
<1>8. CASE ExecuteRetry(w) BY <1>1, <1>3, <1>8, RequeueTends DEF ExecuteRetry
<1>9. CASE ExecutePermanent(w) BY <1>1, <1>3, <1>9, FinishTends DEF ExecutePermanent
<1>10. QED BY <1>5, <1>6, <1>7, <1>8, <1>9 DEF Execute

LEMMA RefreshTends ==
  ASSUME TypeOK, NEW w \in Workers, Refresh(w)
  PROVE  Tends(w)
<1> DEFINE r == row[cur[w]]
           m == [Copy(r) EXCEPT !.token = IF r.status = "RUNNING" THEN r.claims ELSE 0]
<1>1. pc[w] \notin FreeSteps BY DEF Refresh, FreeSteps
<1>2. cur[w] \in Jobs /\ r \in Receipt BY <1>1, BusyHoldsJob DEF TypeOK, DatabaseTypeOK
<1>3. /\ mem' = [mem EXCEPT ![w] = m]
      /\ pc' = [pc EXCEPT ![w] = IF r.man.made THEN "begin" ELSE "store"]
      /\ UNCHANGED <<row, cur, link>>
  BY DEF Refresh, Quiet
<1>4. m.man = r.man /\ (r.status = "RUNNING" => m.token = r.claims) BY DEF Copy
<1> HIDE DEF m
<1>5. mem'[w] = m /\ pc'[w] \in {"begin", "store"}
  BY <1>3 DEF TypeOK, WorkerTypeOK
<1>6. Writes(w) BY <1>3 DEF Writes, Unmade, TypeOK, WorkerTypeOK
<1>7. Continues(w)
  BY <1>3, <1>4, <1>5 DEF Continues, Alive, Owned, FreeSteps, SendSteps
<1>8. QED BY <1>2, <1>6, <1>7 DEF Tends

LEMMA StoreTends ==
  ASSUME TypeOK, NEW w \in Workers, StoreDelivery(w)
  PROVE  Tends(w)
<1> DEFINE r == Stored(row[cur[w]], out[w])
           m == [Copy(r) EXCEPT !.token = mem[w].token]
<1>1. pc[w] \notin FreeSteps BY DEF StoreDelivery, FreeSteps
<1>2. row[cur[w]] \in Receipt BY <1>1, BusyHoldsJob DEF TypeOK, DatabaseTypeOK
<1>3. /\ r.status = row[cur[w]].status /\ r.claims = row[cur[w]].claims
      /\ r.expired = FALSE /\ r.man.made
  BY <1>2, StoredMarks DEF Stored, Receipt
<1>4. ProceedIf(w, TRUE, r, m, "begin") /\ UNCHANGED link
  BY DEF StoreDelivery, Proceed
<1>5. m.token = mem[w].token BY DEF Copy
<1> HIDE DEF r, m
<1>6. QED BY <1>1, <1>3, <1>4, <1>5, OnStepsHeld, ProceedTends

LEMMA CheckTends ==
  ASSUME TypeOK, CopyFromRow, NEW w \in Workers, Check(w)
  PROVE  Tends(w)
<1>1. pc[w] \notin FreeSteps /\ UNCHANGED link BY DEF Check, FreeSteps
<1>2. \/ Finish(w, "CANCELLED", "revoked")
      \/ Goto(w, "begin") /\ UNCHANGED row
      \/ Goto(w, "execute") /\ UNCHANGED row
  BY DEF Check
<1>3. {"begin", "execute"} \subseteq Steps \ (FreeSteps \union {"check"})
      /\ "begin" \notin SendSteps /\ "execute" \notin SendSteps
  BY DEF Steps, FreeSteps, SendSteps
<1>4. QED BY <1>1, <1>2, <1>3, GotoTends, FinishTends

(* The steps of run_next_job after the claim. *)
Turn(w) == Check(w) \/ Execute(w) \/ Refresh(w) \/ StoreDelivery(w) \/ Deliver(w)

LEMMA TurnTends ==
  ASSUME BaseInvariant, NEW w \in Workers, Turn(w)
  PROVE  Tends(w)
<1>1. TypeOK /\ CopyMade /\ CopyFromRow BY DEF BaseInvariant, CoreInvariant
<1>2. QED
  BY <1>1, CheckTends, ExecuteTends, RefreshTends, StoreTends, DeliverTends DEF Turn

-----------------------------------------------------------------------------
(* The steps that are no worker's turn: the web process, the environment,  *)
(* and what a worker does before it holds a job.                           *)
Outside == \/ \E j \in Jobs : Enqueue(j) \/ Release(j) \/ ExpireLease(j)
           \/ \E l \in Links : Revoke(l)
           \/ SweepOnUnlink
           \/ \E w \in Workers :
                \/ Sweep(w) \/ NothingToClaim(w) \/ Restart(w) \/ Crash(w)
                \/ \E j \in Jobs : RecoverStale(w, j) \/ ClaimConflict(w, j)

LEMMA StepKinds ==
  ASSUME [Next]_vars
  PROVE  \/ UNCHANGED vars
         \/ Outside
         \/ \E w \in Workers : Turn(w)
         \/ \E w \in Workers, j \in Jobs : Claim(w, j)
BY DEF Next, Work, Outside, Turn

(* They leave a worker and what it holds in memory alone, or they free it. *)
LEMMA OutsideWorkers ==
  ASSUME TypeOK, Outside, NEW v \in Workers
  PROVE  /\ cur'[v] \in {cur[v], NoJob}
         /\ cur'[v] # NoJob => mem'[v] = mem[v] /\ pc'[v] = pc[v]
         /\ pc'[v] # pc[v] => pc'[v] \in FreeSteps
<1>1. CASE UNCHANGED <<pc, cur, mem>> BY <1>1
<1>2. ASSUME NEW w \in Workers, NEW step \in FreeSteps,
             pc' = [pc EXCEPT ![w] = step], cur[w] = NoJob, UNCHANGED <<cur, mem>>
      PROVE  /\ cur'[v] \in {cur[v], NoJob}
             /\ cur'[v] # NoJob => mem'[v] = mem[v] /\ pc'[v] = pc[v]
             /\ pc'[v] # pc[v] => pc'[v] \in FreeSteps
  BY <1>2 DEF TypeOK, WorkerTypeOK
<1>3. ASSUME NEW w \in Workers, Crash(w)
      PROVE  /\ cur'[v] \in {cur[v], NoJob}
             /\ cur'[v] # NoJob => mem'[v] = mem[v] /\ pc'[v] = pc[v]
             /\ pc'[v] # pc[v] => pc'[v] \in FreeSteps
  BY <1>3 DEF Crash, TypeOK, WorkerTypeOK, FreeSteps
<1>4. ASSUME NEW w \in Workers,
             \/ Sweep(w) \/ NothingToClaim(w) \/ Restart(w)
             \/ \E j \in Jobs : ClaimConflict(w, j)
      PROVE  \E step \in FreeSteps : /\ pc' = [pc EXCEPT ![w] = step]
                                     /\ cur[w] = NoJob
                                     /\ UNCHANGED <<cur, mem>>
  <2>1. pc[w] \in FreeSteps /\ UNCHANGED <<cur, mem>>
        /\ pc' \in {[pc EXCEPT ![w] = step] : step \in FreeSteps}
    BY <1>4 DEF Sweep, NothingToClaim, Restart, ClaimConflict, NextClaim, FreeSteps
  <2>2. QED BY <2>1 DEF TypeOK, WorkerTypeOK
<1>5. ASSUME \/ \E j \in Jobs : Enqueue(j) \/ Release(j) \/ ExpireLease(j)
             \/ \E l \in Links : Revoke(l)
             \/ SweepOnUnlink
             \/ \E w \in Workers, j \in Jobs : RecoverStale(w, j)
      PROVE  UNCHANGED <<pc, cur, mem>>
  BY <1>5 DEF Enqueue, Release, ExpireLease, Revoke, SweepOnUnlink, RecoverStale
<1>6. QED BY <1>1, <1>2, <1>3, <1>4, <1>5 DEF Outside

(* What they may do to one row. *)
OutsideRow(r, q, j) ==
  \/ q = r
  \/ /\ r.status = "ABSENT" /\ q.status = "QUEUED" /\ q.man = NoManifest /\ q.cursor = 0
     /\ q.attempts = 0 /\ q.error = "none"
  \/ r.status = "QUEUED" /\ q = [r EXCEPT !.ready = TRUE]
  \/ /\ r.status = "RUNNING" /\ ~r.expired
     /\ Held(j) => MayStall
     /\ q = [r EXCEPT !.expired = TRUE]
  \/ Orphaned(j) /\ q = Ended(r, "CANCELLED", "revoked")
  \/ r.status = "RUNNING" /\ r.expired /\ q = Recovered(r, link[LinkOf[j]] = "ACTIVE")
  \/ r.status = "QUEUED" /\ q = FailedIfExhausted(r)

LEMMA OutsideRows ==
  ASSUME TypeOK, Outside, NEW j \in Jobs
  PROVE  OutsideRow(row[j], row'[j], j)
<1>1. ASSUME NEW i \in Jobs, Enqueue(i) PROVE OutsideRow(row[j], row'[j], j)
  <2>1. row[i].status = "ABSENT" /\ row' = [row EXCEPT ![i] =
          [Absent EXCEPT !.status = "QUEUED", !.ready = KindOf[i] # "QUESTION"]]
    BY <1>1 DEF Enqueue
  <2>2. CASE i = j BY <2>1, <2>2 DEF OutsideRow, Absent, TypeOK, DatabaseTypeOK
  <2>3. CASE i # j BY <2>1, <2>3 DEF OutsideRow, TypeOK, DatabaseTypeOK
  <2>4. QED BY <2>2, <2>3
<1>2. ASSUME NEW i \in Jobs, Release(i) PROVE OutsideRow(row[j], row'[j], j)
  BY <1>2 DEF Release, OutsideRow, TypeOK, DatabaseTypeOK
<1>3. ASSUME NEW i \in Jobs, ExpireLease(i) PROVE OutsideRow(row[j], row'[j], j)
  BY <1>3 DEF ExpireLease, OutsideRow, TypeOK, DatabaseTypeOK
<1>4. ASSUME row' = SweptRows PROVE OutsideRow(row[j], row'[j], j)
  BY <1>4 DEF SweptRows, OutsideRow
<1>5. ASSUME NEW w \in Workers, NEW i \in Jobs, RecoverStale(w, i)
      PROVE OutsideRow(row[j], row'[j], j)
  BY <1>5 DEF RecoverStale, OutsideRow, TypeOK, DatabaseTypeOK
<1>6. ASSUME NEW w \in Workers, NothingToClaim(w) PROVE OutsideRow(row[j], row'[j], j)
  <2>1. row'[j] = FailedIfExhausted(row[j]) BY <1>6 DEF NothingToClaim
  <2>2. QED BY <2>1 DEF FailedIfExhausted, Exhausted, OutsideRow
<1>7. ASSUME UNCHANGED row PROVE OutsideRow(row[j], row'[j], j)
  BY <1>7 DEF OutsideRow
<1>8. QED
  BY <1>1, <1>2, <1>3, <1>4, <1>5, <1>6, <1>7
  DEF Outside, Revoke, SweepOnUnlink, Sweep, Restart, Crash, ClaimConflict

LEMMA OutsideLinks ==
  ASSUME TypeOK, Outside, NEW l \in Links
  PROVE  link[l] # "ACTIVE" => link'[l] # "ACTIVE"
<1>1. ASSUME NEW k \in Links, Revoke(k) PROVE link'[l] \in {link[l], "REVOKED"}
  BY <1>1 DEF Revoke, TypeOK, DatabaseTypeOK
<1>2. ASSUME \/ \E j \in Jobs : Enqueue(j) \/ Release(j) \/ ExpireLease(j)
             \/ SweepOnUnlink
             \/ \E w \in Workers :
                  \/ Sweep(w) \/ NothingToClaim(w) \/ Restart(w) \/ Crash(w)
                  \/ \E j \in Jobs : RecoverStale(w, j) \/ ClaimConflict(w, j)
      PROVE  UNCHANGED link
  BY <1>2 DEF Enqueue, Release, ExpireLease, SweepOnUnlink, Sweep, NothingToClaim,
              Restart, Crash, RecoverStale, ClaimConflict, Quiet
<1>3. QED BY <1>1, <1>2 DEF Outside

-----------------------------------------------------------------------------
(* What every worker knows of the job it holds, at any interleaving.       *)

LEMMA MadeStays ==
  ASSUME RowsMove, NEW j \in Jobs, row[j].status # "ABSENT", row[j].man.made
  PROVE  row'[j].man.made
<1>1. CASE Settle BY <1>1 DEF Settle, Settled, Marks
<1>2. ASSUME NEW i \in Jobs, Admit(i) PROVE row'[j] = row[j]
  BY <1>2 DEF Admit
<1>3. ASSUME NEW i \in Jobs, Grant(i) PROVE row'[j].man.made
  BY <1>3 DEF Grant, Marks
<1>4. QED BY <1>1, <1>2, <1>3 DEF RowsMove

LEMMA StepCopies ==
  ASSUME BaseInvariant, [Next]_vars
  PROVE  CopyFromRow'
<1> USE DEF BaseInvariant, CoreInvariant
<1>1. RowsMove BY StepMoves
<1>2. ASSUME NEW v \in Workers, cur'[v] # NoJob, cur'[v] = cur[v], mem'[v] = mem[v],
             mem'[v].man.made
      PROVE  row'[cur'[v]].man.made
  <2>1. cur[v] \in Jobs BY <1>2 DEF TypeOK, WorkerTypeOK
  <2>2. row[cur[v]].man.made BY <1>2 DEF CopyFromRow
  <2>3. row[cur[v]].status # "ABSENT" BY <1>2 DEF HeldIsPresent
  <2>4. QED BY <1>1, <1>2, <2>1, <2>2, <2>3, MadeStays
<1>3. CASE UNCHANGED vars BY <1>3 DEF vars, CopyFromRow
<1>4. CASE Outside BY <1>2, <1>4, OutsideWorkers DEF CopyFromRow
<1>5. ASSUME NEW w \in Workers, Turn(w) PROVE CopyFromRow'
  <2>1. Tends(w) BY <1>5, TurnTends
  <2>2. QED BY <1>2, <2>1 DEF Tends, Writes, Continues, Stops, CopyFromRow
<1>6. ASSUME NEW w \in Workers, NEW j \in Jobs, Claim(w, j) PROVE CopyFromRow'
  <2>1. mem'[w].man = row'[j].man /\ cur'[w] = j
    BY <1>6 DEF Claim, Copy, TypeOK, DatabaseTypeOK, WorkerTypeOK
  <2>2. \A v \in Workers \ {w} : cur'[v] = cur[v] /\ mem'[v] = mem[v]
    BY <1>6 DEF Claim, TypeOK, WorkerTypeOK
  <2>3. QED BY <1>2, <2>1, <2>2 DEF CopyFromRow
<1>7. QED BY <1>3, <1>4, <1>5, <1>6, StepKinds

LEMMA BaseCorrect == Spec => []BaseInvariant
<1>1. Init => BaseInvariant
  <2>1. Init => CoreInvariant
    BY InitType DEF CoreInvariant, Init, CopyMade, EarlySteps, FreeSteps
  <2>2. Init => HeldIsPresent /\ CopyFromRow BY DEF Init, HeldIsPresent, CopyFromRow
  <2>3. QED BY <2>1, <2>2 DEF BaseInvariant
<1>2. BaseInvariant /\ [Next]_vars => BaseInvariant'
  <2>1. CoreInvariant /\ [Next]_vars => CoreInvariant' /\ RowsMove
    BY StepType, StepMoves DEF CoreInvariant
  <2>2. QED BY <2>1, HeldStaysPresent, StepCopies DEF BaseInvariant, CoreInvariant
<1>3. QED BY <1>1, <1>2, PTL DEF Spec

-----------------------------------------------------------------------------
(* One holder per lease, while no lease runs out under a live worker.      *)

LeaseInvariant == BaseInvariant /\ LeaseKept /\ LoneWorker

LEMMA OutsideKeepsLeases ==
  ASSUME ~MayStall, LeaseInvariant, Outside, NEW w \in Workers, cur'[w] # NoJob
  PROVE  /\ cur'[w] = cur[w] /\ mem'[w] = mem[w] /\ pc'[w] = pc[w] /\ cur[w] \in Jobs
         /\ Swept(w) => Swept(w)' /\ row'[cur[w]] = row[cur[w]]
         /\ Alive(w) => \/ Alive(w)' /\ row'[cur[w]] = row[cur[w]]
                        \/ /\ Swept(w)'
                           /\ Running(cur[w])
                           /\ row'[cur[w]] = Ended(row[cur[w]], "CANCELLED", "revoked")
<1> USE DEF LeaseInvariant, BaseInvariant, CoreInvariant
<1>1. cur'[w] = cur[w] /\ mem'[w] = mem[w] /\ pc'[w] = pc[w] BY OutsideWorkers
<1>2. cur[w] \in Jobs BY <1>1 DEF TypeOK, WorkerTypeOK
<1>3. OutsideRow(row[cur[w]], row'[cur[w]], cur[w]) BY <1>2, OutsideRows
<1>4. row[cur[w]] \in Receipt /\ LinkOf[cur[w]] \in Links
  BY <1>2, LinkAssumption DEF TypeOK, DatabaseTypeOK
<1>5. ~LinkActive(w) => ~LinkActive(w)' BY <1>1, <1>4, OutsideLinks DEF LinkActive
<1>6. CASE Swept(w)
  <2>1. row'[cur[w]] = row[cur[w]]
    BY <1>3, <1>6 DEF Swept, OutsideRow, Orphaned, IsActive, ActiveStatuses
  <2>2. QED BY <1>1, <1>2, <1>5, <1>6, <2>1 DEF Swept, Alive, Owned
<1>7. CASE Alive(w)
  <2>1. Held(cur[w]) /\ Running(cur[w]) /\ ~row[cur[w]].expired
    BY <1>7 DEF Alive, Owned, Held, Running
  <2>2. \/ row'[cur[w]] = row[cur[w]]
        \/ /\ Orphaned(cur[w])
           /\ row'[cur[w]] = Ended(row[cur[w]], "CANCELLED", "revoked")
    BY <1>3, <2>1 DEF OutsideRow, Running
  <2>3. CASE row'[cur[w]] = row[cur[w]]
    BY <1>1, <1>2, <1>7, <2>3 DEF Alive, Owned, Swept
  <2>4. CASE /\ Orphaned(cur[w])
             /\ row'[cur[w]] = Ended(row[cur[w]], "CANCELLED", "revoked")
    <3>1. ~LinkActive(w) BY <2>4 DEF Orphaned, LinkActive
    <3>2. row'[cur[w]].status = "CANCELLED" BY <1>4, <2>4, EndedMarks
    <3>3. Swept(w)' BY <1>1, <1>5, <3>1, <3>2 DEF Swept
    <3>4. ~Swept(w) BY <2>1 DEF Swept, Running
    <3>5. QED BY <1>1, <1>2, <2>1, <2>4, <3>3, <3>4
  <2>5. QED BY <2>2, <2>3, <2>4
<1>8. QED BY <1>1, <1>6, <1>7 DEF LeaseKept

LEMMA TurnKeepsLeases ==
  ASSUME LeaseInvariant, NEW w \in Workers, Turn(w)
  PROVE  LeaseKept' /\ LoneWorker'
<1> USE DEF LeaseInvariant, BaseInvariant, CoreInvariant
<1>1. Tends(w) BY TurnTends
<1>2. cur[w] \in Jobs /\ cur[w] # NoJob BY <1>1, JobsAssumption DEF Tends, NoJob
<1>3. LoneWorker'
  BY <1>1, LinkAssumption
  DEF Tends, Writes, Continues, Stops, LoneWorker, TypeOK, WorkerTypeOK
<1>4. ASSUME NEW v \in Workers, cur'[v] # NoJob PROVE Alive(v)' \/ Swept(v)'
  <2>1. CASE v = w
    <3>1. Continues(w) BY <1>1, <1>4, <2>1 DEF Tends, Stops
    <3>2. UNCHANGED link BY <1>1 DEF Tends, Writes
    <3>3. Swept(w) => Swept(w)' BY <3>1, <3>2 DEF Continues, Swept, LinkActive
    <3>4. QED BY <1>2, <2>1, <3>1, <3>3 DEF Continues, LeaseKept
  <2>2. CASE v # w
    <3>1. cur'[v] = cur[v] /\ mem'[v] = mem[v] /\ UNCHANGED link
      BY <1>1, <2>2 DEF Tends, Writes
    <3>2. cur[v] # cur[w] BY <1>2, <1>4, <2>2, <3>1 DEF LoneWorker
    <3>3. cur[v] \in Jobs BY <1>4, <3>1 DEF TypeOK, WorkerTypeOK
    <3>4. row'[cur[v]] = row[cur[v]] BY <1>1, <3>2, <3>3 DEF Tends, Writes
    <3>5. QED BY <1>4, <3>1, <3>4 DEF LeaseKept, Alive, Owned, Swept, LinkActive
  <2>3. QED BY <2>1, <2>2
<1>5. QED BY <1>3, <1>4 DEF LeaseKept

(* Nobody holds a job of a chat from which a job is claimed. *)
LEMMA ClaimFindsNoHolder ==
  ASSUME LeaseInvariant, NEW w \in Workers, NEW j \in Jobs, Claim(w, j),
         NEW v \in Workers, cur[v] # NoJob
  PROVE  cur[v] \in Jobs /\ LinkOf[cur[v]] # LinkOf[j]
<1> USE DEF LeaseInvariant, BaseInvariant, CoreInvariant
<1>1. cur[v] \in Jobs BY DEF TypeOK, WorkerTypeOK
<1>2. row[j].status = "QUEUED" /\ link[LinkOf[j]] = "ACTIVE" /\ ~SiblingRunning(j)
  BY DEF Claim, NextClaim, Eligible
<1>3. CASE Alive(v)
  <2>1. row[cur[v]].status = "RUNNING" BY <1>3 DEF Alive, Owned
  <2>2. QED BY <1>1, <1>2, <2>1 DEF SiblingRunning, Siblings
<1>4. CASE Swept(v) BY <1>1, <1>2, <1>4 DEF Swept, LinkActive
<1>5. QED BY <1>3, <1>4 DEF LeaseKept

LEMMA ClaimKeepsLeases ==
  ASSUME LeaseInvariant, NEW w \in Workers, NEW j \in Jobs, Claim(w, j)
  PROVE  LeaseKept' /\ LoneWorker'
<1> USE DEF LeaseInvariant, BaseInvariant, CoreInvariant
<1>1. /\ row' = [row EXCEPT ![j] = Claimed(row[j])]
      /\ cur' = [cur EXCEPT ![w] = j]
      /\ mem' = [mem EXCEPT ![w] = Copy(Claimed(row[j]))]
      /\ UNCHANGED link
  BY DEF Claim, TypeOK, DatabaseTypeOK
<1>2. row[j] \in Receipt BY DEF TypeOK, DatabaseTypeOK
<1>3. Claimed(row[j]).status = "RUNNING" BY <1>2, ClaimedType
<1>4. Claimed(row[j]).expired = FALSE
  BY <1>2, DegradedType DEF Claimed, Leased, Receipt
<1>5. Alive(w)'
  <2>1. row'[j] = Claimed(row[j]) /\ cur'[w] = j /\ mem'[w].token = Claimed(row[j]).claims
    BY <1>1 DEF Copy, TypeOK, DatabaseTypeOK, WorkerTypeOK
  <2>2. QED BY <1>3, <1>4, <2>1 DEF Alive, Owned
<1>6. ASSUME NEW v \in Workers, cur'[v] # NoJob, v # w
      PROVE  cur'[v] = cur[v] /\ LinkOf[cur[v]] # LinkOf[j] /\ (Alive(v)' \/ Swept(v)')
  <2>1. cur'[v] = cur[v] /\ mem'[v] = mem[v]
    BY <1>1, <1>6 DEF TypeOK, WorkerTypeOK
  <2>2. cur[v] \in Jobs /\ LinkOf[cur[v]] # LinkOf[j]
    BY <1>6, <2>1, ClaimFindsNoHolder
  <2>3. row'[cur[v]] = row[cur[v]] BY <1>1, <2>2 DEF TypeOK, DatabaseTypeOK
  <2>4. QED
    BY <1>1, <1>6, <2>1, <2>2, <2>3 DEF LeaseKept, Alive, Owned, Swept, LinkActive
<1>7. LeaseKept' BY <1>5, <1>6 DEF LeaseKept
<1>8. cur'[w] = j BY <1>1 DEF TypeOK, WorkerTypeOK
<1>9. LoneWorker' BY <1>6, <1>8 DEF LoneWorker, LeaseInvariant, BaseInvariant
<1>10. QED BY <1>7, <1>9

LEMMA StepLeases ==
  ASSUME ~MayStall, LeaseInvariant, [Next]_vars
  PROVE  LeaseKept' /\ LoneWorker'
<1>1. CASE UNCHANGED vars
  BY <1>1 DEF vars, LeaseInvariant, LeaseKept, LoneWorker, Alive, Owned, Swept, LinkActive
<1>2. CASE Outside
  BY <1>2, OutsideKeepsLeases DEF LeaseKept, LoneWorker, LeaseInvariant
<1>3. CASE \E w \in Workers : Turn(w) BY <1>3, TurnKeepsLeases
<1>4. CASE \E w \in Workers, j \in Jobs : Claim(w, j) BY <1>4, ClaimKeepsLeases
<1>5. QED BY <1>1, <1>2, <1>3, <1>4, StepKinds

LEMMA LeasesKept ==
  ASSUME ~MayStall
  PROVE  Spec => []LeaseInvariant
<1>1. Init => LeaseKept /\ LoneWorker BY DEF Init, LeaseKept, LoneWorker
<1>2. LeaseInvariant /\ [Next]_vars => (LeaseKept /\ LoneWorker)'
  BY StepLeases
<1>3. LeaseInvariant <=> BaseInvariant /\ (LeaseKept /\ LoneWorker)
  BY DEF LeaseInvariant
<1>4. QED BY <1>1, <1>2, <1>3, BaseCorrect, PTL DEF Spec

(* A lease has one holder: as long as no lease runs out under a live       *)
(* worker, which is what its length is for, no two worker processes can    *)
(* both get an UPDATE of one job through, and none of them need worry that *)
(* a sweep, a recovery or a restart has handed its job on.                 *)
THEOREM OneHolder ==
  ASSUME ~MayStall
  PROVE  Spec => []SoleLeaseHolder
<1>1. LeaseInvariant => SoleLeaseHolder
  BY JobsAssumption DEF LeaseInvariant, LoneWorker, SoleLeaseHolder, HoldsLease, NoJob
<1>2. QED BY <1>1, LeasesKept, PTL

-----------------------------------------------------------------------------
(* What a revoked chat still hears.                                        *)

(* Once an item has slipped out to a revoked chat, nobody is about to send *)
(* to it, and nobody will be.                                              *)
LateBound ==
  \A l \in Links : late[l] # 0 =>
    /\ late[l] = 1
    /\ link[l] # "ACTIVE"
    /\ \A w \in Workers : cur[w] # NoJob /\ LinkOf[cur[w]] = l => pc[w] \notin SendSteps

LEMMA StepLate ==
  ASSUME [Next]_vars
  PROVE  \/ UNCHANGED late
         \/ \E w \in Workers : SendText(w) \/ SendPhoto(w)
<1>1. CASE UNCHANGED vars BY <1>1 DEF vars
<1>2. CASE Outside
  BY <1>2
  DEF Outside, Enqueue, Release, ExpireLease, Revoke, SweepOnUnlink, Sweep,
      NothingToClaim, Restart, Crash, RecoverStale, ClaimConflict, Quiet
<1>3. ASSUME NEW w \in Workers, Turn(w)
      PROVE  UNCHANGED late \/ SendText(w) \/ SendPhoto(w)
  <2>1. CASE Check(w) \/ Execute(w) \/ Refresh(w) \/ StoreDelivery(w)
    BY <2>1 DEF Check, Execute, ExecuteQuestion, ExecuteNew, ExecuteAdvisor, ExecuteRetry,
                ExecutePermanent, Refresh, StoreDelivery, Quiet
  <2>2. CASE Deliver(w)
    BY <2>2 DEF Deliver, Begin, AuthoriseText, AuthorisePhoto, Authorise, SettleText, Gate,
                PhotoOff, Render, SettlePhoto, StartText, FinishDelivered, Quiet
  <2>3. QED BY <1>3, <2>1, <2>2 DEF Turn
<1>4. CASE \E w \in Workers, j \in Jobs : Claim(w, j) BY <1>4 DEF Claim
<1>5. QED BY <1>1, <1>2, <1>3, <1>4, StepKinds

LEMMA TurnKeepsLate ==
  ASSUME LeaseInvariant, LateBound, NEW w \in Workers, Turn(w), UNCHANGED late
  PROVE  LateBound'
<1> USE DEF LeaseInvariant, BaseInvariant, CoreInvariant
<1>1. Tends(w) BY TurnTends
<1>2. UNCHANGED link BY <1>1 DEF Tends, Writes
<1>3. ASSUME NEW l \in Links, link[l] # "ACTIVE",
             NEW v \in Workers, cur'[v] # NoJob, LinkOf[cur'[v]] = l, pc'[v] \in SendSteps
      PROVE  cur[v] # NoJob /\ LinkOf[cur[v]] = l /\ pc[v] \in SendSteps
  <2>1. CASE v = w
    BY <1>1, <1>3, <2>1 DEF Tends, Continues, Stops, LinkActive
  <2>2. CASE v # w BY <1>1, <1>3, <2>2 DEF Tends, Writes
  <2>3. QED BY <2>1, <2>2
<1>4. QED BY <1>2, <1>3 DEF LateBound

LEMMA SendKeepsLate ==
  ASSUME LeaseInvariant, LateBound, NEW w \in Workers, SendText(w) \/ SendPhoto(w)
  PROVE  LateBound'
<1> USE DEF LeaseInvariant, BaseInvariant, CoreInvariant
<1> DEFINE here == LinkOf[cur[w]]
<1>1. pc[w] \in SendSteps /\ pc'[w] \notin SendSteps /\ Tends(w)
  BY SendTends DEF SendText, SendPhoto, SendSteps
<1>2. cur[w] \in Jobs /\ cur[w] # NoJob /\ here \in Links
  BY <1>1, JobsAssumption, LinkAssumption DEF Tends, NoJob
<1>3. late[here] = 0 BY <1>1, <1>2 DEF LateBound
<1>4. PICK x \in Replies, step \in {"sentText", "sentPhoto"} : Send(w, x, step)
  BY DEF SendText, SendPhoto
<1>5. \/ UNCHANGED late
      \/ ~LinkActive(w) /\ late' = [late EXCEPT ![here] = late[here] + 1]
  BY <1>4 DEF Send
<1>6. CASE UNCHANGED late
  BY <1>6, TurnKeepsLate DEF Turn, Deliver
<1>7. CASE ~LinkActive(w) /\ late' = [late EXCEPT ![here] = late[here] + 1]
  <2>1. late'[here] = 1 BY <1>2, <1>3, <1>7 DEF TypeOK, SeenTypeOK
  <2>2. UNCHANGED <<link, cur>> BY <1>4 DEF Send
  <2>3. link'[here] # "ACTIVE" BY <1>7, <2>2 DEF LinkActive
  <2>4. ASSUME NEW v \in Workers, cur'[v] # NoJob, LinkOf[cur'[v]] = here
        PROVE  pc'[v] \notin SendSteps
    <3>1. v = w BY <1>2, <2>2, <2>4 DEF LoneWorker
    <3>2. QED BY <1>1, <3>1
  <2>5. ASSUME NEW l \in Links \ {here}, late'[l] # 0
        PROVE  /\ late'[l] = 1
               /\ link'[l] # "ACTIVE"
               /\ \A v \in Workers : cur'[v] # NoJob /\ LinkOf[cur'[v]] = l
                                       => pc'[v] \notin SendSteps
    <3>1. late'[l] = late[l] BY <1>7, <2>5 DEF TypeOK, SeenTypeOK
    <3>2. \A v \in Workers : pc'[v] \in SendSteps => pc[v] \in SendSteps
      BY <1>1 DEF Tends, Writes
    <3>3. QED BY <2>2, <2>5, <3>1, <3>2 DEF LateBound
  <2>6. QED BY <2>1, <2>3, <2>4, <2>5 DEF LateBound
<1>8. QED BY <1>5, <1>6, <1>7

LEMMA StepKeepsLate ==
  ASSUME ~MayStall, LeaseInvariant, LateBound, [Next]_vars
  PROVE  LateBound'
<1> USE DEF LeaseInvariant, BaseInvariant, CoreInvariant
<1>1. CASE \E w \in Workers : SendText(w) \/ SendPhoto(w) BY <1>1, SendKeepsLate
<1>2. CASE UNCHANGED late
  <2>1. CASE UNCHANGED vars BY <2>1 DEF vars, LateBound
  <2>2. CASE Outside
    <3>1. \A l \in Links : link[l] # "ACTIVE" => link'[l] # "ACTIVE"
      BY <2>2, OutsideLinks
    <3>2. QED BY <1>2, <2>2, <3>1, OutsideKeepsLeases DEF LateBound
  <2>3. CASE \E w \in Workers : Turn(w) BY <1>2, <2>3, TurnKeepsLate
  <2>4. ASSUME NEW w \in Workers, NEW j \in Jobs, Claim(w, j) PROVE LateBound'
    <3>1. /\ cur' = [cur EXCEPT ![w] = j]
          /\ pc' = [pc EXCEPT ![w] = "check"]
          /\ UNCHANGED link
      BY <2>4 DEF Claim
    <3>2. \A v \in Workers : pc'[v] \in SendSteps =>
            pc[v] \in SendSteps /\ cur'[v] = cur[v]
      BY <3>1 DEF SendSteps, TypeOK, WorkerTypeOK
    <3>3. QED BY <1>2, <3>1, <3>2 DEF LateBound
  <2>5. QED BY <2>1, <2>2, <2>3, <2>4, StepKinds
<1>3. QED BY <1>1, <1>2, StepLate

(* A chat whose link is revoked hears at most the one item that was        *)
(* already on its way: every item is authorised again before it leaves,    *)
(* and no other worker can be between that look and its send.              *)
THEOREM OneLateItem ==
  ASSUME ~MayStall
  PROVE  Spec => []AtMostOneLateItem
<1>1. Init => LateBound BY DEF Init, LateBound
<1>2. LeaseInvariant /\ LateBound /\ [Next]_vars => LateBound'
  BY StepKeepsLate
<1>3. LeaseInvariant /\ LateBound => AtMostOneLateItem
  BY DEF LeaseInvariant, BaseInvariant, CoreInvariant, TypeOK, SeenTypeOK, LateBound,
         AtMostOneLateItem
<1>4. QED BY <1>1, <1>2, <1>3, LeasesKept, PTL DEF Spec

-----------------------------------------------------------------------------
(* How often the adviser is asked: here a lease may run out under a live   *)
(* worker, and two workers may hold one job.                               *)

(* The processes that have claimed a job without an answer and are about   *)
(* to ask for one.                                                         *)
Asking(j) == {w \in Workers : cur[w] = j /\ pc[w] = "check" /\ ~mem[w].man.made}

(* Every question asked, or about to be, was paid for by one attempt of    *)
(* the row; attempts are given back only to rows that have their answer.   *)
Paid(j) ==
  /\ IsFiniteSet(Asking(j))
  /\ runs[j] + Cardinality(Asking(j)) <= MaxAttempts
  /\ ~row[j].man.made => /\ row[j].man = NoManifest
                         /\ runs[j] + Cardinality(Asking(j)) <= row[j].attempts
                         /\ row[j].attempts <= MaxAttempts
  /\ row[j].status = "ABSENT" => ~row[j].man.made /\ row[j].attempts = 0

BudgetKept == \A j \in Jobs : Paid(j)

(* Nothing is pending in an empty payload, and nothing can be given up. *)
LEMMA EmptyPayload ==
  ASSUME NEW r \in Receipt, r.man = NoManifest
  PROVE  ~PendingPhotos(r) /\ ~PhotoBudgetExhausted(r) /\ ~CanDegrade(r)
<1>1. DeliveryState(r.man, r.cursor).photo = 0 /\ r.man.photos = 0
  BY DEF DeliveryState, TextOnlyState, NoManifest
<1>2. QED BY <1>1 DEF PendingPhotos, PhotoBudgetExhausted, CanDegrade

LEMMA OutsideUnmade ==
  ASSUME NEW r \in Receipt, ~r.man.made => r.man = NoManifest,
         r.status = "ABSENT" => ~r.man.made /\ r.attempts = 0,
         NEW q, NEW j, OutsideRow(r, q, j)
  PROVE  /\ ~q.man.made => ~r.man.made /\ q.man = NoManifest /\ q.attempts = r.attempts
         /\ q.status = "ABSENT" => r.status = "ABSENT" /\ q = r
<1>1. [NoManifest EXCEPT !.made = FALSE] = NoManifest
  BY NoManifestType DEF NoManifest, Manifest
<1>2. r.man.made \in BOOLEAN BY DEF Receipt, Manifest
<1>3. ASSUME NEW s, NEW e, s # "ABSENT", q = Ended(r, s, e)
      PROVE  /\ ~q.man.made => ~r.man.made /\ q.man = NoManifest /\ q.attempts = r.attempts
             /\ q.status # "ABSENT"
  <2>1. /\ q.status = s /\ q.attempts = r.attempts
        /\ q.man = [NoManifest EXCEPT !.made = r.man.made]
    BY <1>3 DEF Ended, Receipt
  <2>2. q.man.made = r.man.made BY <2>1 DEF NoManifest
  <2>3. QED BY <1>1, <1>2, <1>3, <2>1, <2>2
<1>4. ASSUME q = GivenUp(r)
      PROVE  /\ ~q.man.made => ~r.man.made /\ q.man = NoManifest /\ q.attempts = r.attempts
             /\ q.status # "ABSENT"
  <2>1. q.status # "ABSENT" /\ q.man.made = r.man.made BY <1>4, GivenUpType
  <2>2. ~r.man.made => q = Ended(r, "FAILED", "exhausted")
    BY <1>4, EmptyPayload DEF GivenUp
  <2>3. QED BY <1>3, <2>1, <2>2
<1>5. CASE q = r BY <1>5
<1>6. CASE r.status = "ABSENT" /\ q.status = "QUEUED" /\ q.man = NoManifest /\ q.attempts = 0
  BY <1>6
<1>7. CASE \/ q = [r EXCEPT !.ready = TRUE] /\ r.status = "QUEUED"
           \/ q = [r EXCEPT !.expired = TRUE] /\ r.status = "RUNNING"
  BY <1>7 DEF Receipt
<1>8. CASE q = Ended(r, "CANCELLED", "revoked") BY <1>3, <1>8
<1>9. CASE q = Recovered(r, link[LinkOf[j]] = "ACTIVE")
  <2>1. ASSUME q = Requeued(r, TRUE)
        PROVE  /\ q.man = r.man /\ q.attempts = r.attempts
               /\ q.status # "ABSENT"
    BY <2>1 DEF Requeued, Receipt
  <2>2. QED BY <1>3, <1>4, <1>9, <2>1 DEF Recovered
<1>10. CASE q = FailedIfExhausted(r) BY <1>4, <1>5, <1>10 DEF FailedIfExhausted
<1>11. QED BY <1>5, <1>6, <1>7, <1>8, <1>9, <1>10 DEF OutsideRow

(* A claim of a job without an answer costs one attempt. *)
LEMMA ClaimedUnmade ==
  ASSUME NEW r \in Receipt, ~r.man.made => r.man = NoManifest
  PROVE  /\ Claimed(r).man.made = r.man.made
         /\ Claimed(r).status = "RUNNING"
         /\ ~r.man.made => Claimed(r).man = NoManifest /\ Claimed(r).attempts = r.attempts + 1
<1>1. Claimed(r).man.made = r.man.made /\ Claimed(r).status = "RUNNING" BY ClaimedType
<1>2. CASE ~r.man.made
  <2>1. Claimed(r) = Leased(r) BY <1>2, EmptyPayload DEF Claimed
  <2>2. Leased(r).man = r.man /\ Leased(r).attempts = r.attempts + 1
    BY <1>2, EmptyPayload DEF Leased, Receipt
  <2>3. QED BY <1>1, <1>2, <2>1, <2>2
<1>3. QED BY <1>1, <1>2

(* Only the step that asks counts a question. *)
LEMMA TurnRuns ==
  ASSUME NEW w \in Workers, Turn(w)
  PROVE  UNCHANGED runs \/ Check(w)
<1>1. CASE Execute(w) \/ Refresh(w) \/ StoreDelivery(w)
  BY <1>1 DEF Execute, ExecuteQuestion, ExecuteNew, ExecuteAdvisor, ExecuteRetry,
              ExecutePermanent, Refresh, StoreDelivery, Quiet
<1>2. CASE Deliver(w)
  BY <1>2 DEF Deliver, Begin, AuthoriseText, AuthorisePhoto, Authorise, SendText, SendPhoto,
              Send, SettleText, Gate, PhotoOff, Render, SettlePhoto, StartText,
              FinishDelivered, Quiet
<1>3. QED BY <1>1, <1>2 DEF Turn

(* A step that asks nobody and claims nothing. *)
LEMMA StaysPaid ==
  ASSUME TypeOK, NEW j \in Jobs, Paid(j), runs'[j] = runs[j],
         Asking(j)' \subseteq Asking(j),
         ~row'[j].man.made => /\ ~row[j].man.made
                              /\ row'[j].man = NoManifest
                              /\ row'[j].attempts = row[j].attempts,
         row'[j].status = "ABSENT" => row[j].status = "ABSENT" /\ row'[j] = row[j]
  PROVE  Paid(j)'
<1>1. /\ IsFiniteSet(Asking(j)')
      /\ Cardinality(Asking(j)') \in Nat /\ Cardinality(Asking(j)) \in Nat
      /\ Cardinality(Asking(j)') <= Cardinality(Asking(j))
  BY FS_Subset, FS_CardinalityType DEF Paid
<1>2. runs[j] \in Nat /\ row[j].attempts \in Nat /\ MaxAttempts \in Nat
  BY AttemptsAssumption DEF TypeOK, SeenTypeOK, DatabaseTypeOK, Receipt
<1>3. QED BY <1>1, <1>2 DEF Paid

LEMMA OutsideStaysPaid ==
  ASSUME BaseInvariant, BudgetKept, Outside, UNCHANGED runs
  PROVE  BudgetKept'
<1> USE DEF BaseInvariant, CoreInvariant
<1> SUFFICES ASSUME NEW j \in Jobs PROVE Paid(j)'
  BY DEF BudgetKept
<1>1. Paid(j) BY DEF BudgetKept
<1>2. Asking(j)' \subseteq Asking(j)
  <2>1. ASSUME NEW v \in Workers, cur'[v] = j
        PROVE  cur[v] = j /\ pc'[v] = pc[v] /\ mem'[v] = mem[v]
    BY <2>1, OutsideWorkers, JobsAssumption DEF NoJob
  <2>2. QED BY <2>1 DEF Asking
<1>3. row[j] \in Receipt BY DEF TypeOK, DatabaseTypeOK
<1>4. OutsideRow(row[j], row'[j], j) BY OutsideRows
<1>5. /\ ~row'[j].man.made => /\ ~row[j].man.made
                              /\ row'[j].man = NoManifest
                              /\ row'[j].attempts = row[j].attempts
      /\ row'[j].status = "ABSENT" => row[j].status = "ABSENT" /\ row'[j] = row[j]
  BY <1>1, <1>3, <1>4, OutsideUnmade DEF Paid
<1>6. QED BY <1>1, <1>2, <1>5, StaysPaid

(* What a turn does to the budget of the job it is about, and of others. *)
LEMMA TurnUnmade ==
  ASSUME BaseInvariant, BudgetKept, NEW w \in Workers, Turn(w), [Next]_vars,
         NEW j \in Jobs
  PROVE  /\ ~row'[j].man.made => /\ ~row[j].man.made
                                 /\ row'[j].man = NoManifest
                                 /\ row'[j].attempts = row[j].attempts
         /\ row'[j].status = "ABSENT" => row[j].status = "ABSENT" /\ row'[j] = row[j]
         /\ Asking(j)' = Asking(j) \ {w}
<1> USE DEF BaseInvariant, CoreInvariant
<1>1. Tends(w) BY TurnTends
<1>2. RowsMove BY StepMoves
<1>3. cur[w] \in Jobs /\ row[cur[w]].status # "ABSENT"
  BY <1>1, JobsAssumption DEF Tends, HeldIsPresent, NoJob
<1>4. Asking(j)' = Asking(j) \ {w}
  <2>1. w \notin Asking(j)'
    BY <1>1, JobsAssumption DEF Asking, Tends, Continues, Stops, NoJob
  <2>2. \A v \in Workers \ {w} : v \in Asking(j)' <=> v \in Asking(j)
    BY <1>1 DEF Asking, Tends, Writes
  <2>3. QED BY <2>1, <2>2 DEF Asking
<1>5. CASE j # cur[w]
  <2>1. row'[j] = row[j] BY <1>1, <1>5 DEF Tends, Writes
  <2>2. QED BY <1>4, <2>1 DEF BudgetKept, Paid
<1>6. CASE j = cur[w]
  <2>1. Unmade(row[j], row'[j]) BY <1>1, <1>6 DEF Tends, Writes
  <2>2. row'[j].status # "ABSENT" /\ (row[j].man.made => row'[j].man.made)
    BY <1>2, <1>3, <1>6, PresentStays, MadeStays
  <2>3. QED BY <1>4, <2>1, <2>2 DEF Unmade, BudgetKept, Paid
<1>7. QED BY <1>5, <1>6

LEMMA TurnStaysPaid ==
  ASSUME BaseInvariant, BudgetKept, NEW w \in Workers, Turn(w), [Next]_vars,
         UNCHANGED runs \/ Check(w)
  PROVE  BudgetKept'
<1> USE DEF BaseInvariant, CoreInvariant
<1> SUFFICES ASSUME NEW j \in Jobs PROVE Paid(j)'
  BY DEF BudgetKept
<1>1. Paid(j) BY DEF BudgetKept
<1>2. CASE runs'[j] = runs[j] BY <1>1, <1>2, TurnUnmade, StaysPaid
<1>3. CASE runs'[j] # runs[j]
  <2>1. Check(w) BY <1>3
  <2>2. /\ w \in Asking(j)
        /\ runs'[j] = runs[j] + 1
    <3>1. /\ ~mem[w].man.made /\ pc[w] = "check"
          /\ runs' = [runs EXCEPT ![cur[w]] = runs[cur[w]] + 1]
      BY <1>3, <2>1 DEF Check
    <3>2. QED BY <1>3, <3>1 DEF Asking, TypeOK, SeenTypeOK
  <2>3. /\ IsFiniteSet(Asking(j)')
        /\ Cardinality(Asking(j)') = Cardinality(Asking(j)) - 1
    BY <1>1, <2>2, TurnUnmade, FS_RemoveElement DEF Paid
  <2>4. Cardinality(Asking(j)) \in Nat BY <1>1, FS_CardinalityType DEF Paid
  <2>5. runs[j] \in Nat BY DEF TypeOK, SeenTypeOK
  <2>6. runs'[j] + Cardinality(Asking(j)') = runs[j] + Cardinality(Asking(j))
    BY <2>2, <2>3, <2>4, <2>5
  <2>7. QED BY <1>1, <2>3, <2>6, TurnUnmade DEF Paid
<1>4. QED BY <1>2, <1>3

LEMMA ClaimStaysPaid ==
  ASSUME BaseInvariant, BudgetKept, NEW w \in Workers, NEW i \in Jobs, Claim(w, i)
  PROVE  BudgetKept'
<1> USE DEF BaseInvariant, CoreInvariant
<1> SUFFICES ASSUME NEW j \in Jobs PROVE Paid(j)'
  BY DEF BudgetKept
<1>1. Paid(j) /\ Paid(i) BY DEF BudgetKept
<1>2. /\ row' = [row EXCEPT ![i] = Claimed(row[i])]
      /\ cur' = [cur EXCEPT ![w] = i]
      /\ pc' = [pc EXCEPT ![w] = "check"]
      /\ mem' = [mem EXCEPT ![w] = Copy(Claimed(row[i]))]
      /\ UNCHANGED runs
      /\ row[i].attempts < MaxAttempts
      /\ cur[w] = NoJob
  BY DEF Claim, NextClaim, Eligible, TypeOK, DatabaseTypeOK, WorkerTypeOK, FreeSteps
<1>3. row[i] \in Receipt BY DEF TypeOK, DatabaseTypeOK
<1>4. /\ Claimed(row[i]).man.made = row[i].man.made
      /\ Claimed(row[i]).status = "RUNNING"
      /\ ~row[i].man.made => /\ Claimed(row[i]).man = NoManifest
                             /\ Claimed(row[i]).attempts = row[i].attempts + 1
  BY <1>1, <1>3, ClaimedUnmade DEF Paid
<1>5. \A v \in Workers \ {w} : cur'[v] = cur[v] /\ pc'[v] = pc[v] /\ mem'[v] = mem[v]
  BY <1>2 DEF TypeOK, WorkerTypeOK
<1>6. cur'[w] = i /\ mem'[w].man = Claimed(row[i]).man
  BY <1>2 DEF Copy, TypeOK, WorkerTypeOK
<1>7. CASE j # i
  <2>1. Asking(j)' \subseteq Asking(j) BY <1>5, <1>6, <1>7 DEF Asking
  <2>2. row'[j] = row[j] BY <1>2, <1>7 DEF TypeOK, DatabaseTypeOK
  <2>3. QED BY <1>1, <1>2, <2>1, <2>2, StaysPaid DEF Paid
<1>8. CASE j = i
  <2>1. row'[j] = Claimed(row[j]) BY <1>2, <1>8 DEF TypeOK, DatabaseTypeOK
  <2>2. CASE row[j].man.made
    <3>1. Asking(j)' \subseteq Asking(j)
      BY <1>4, <1>5, <1>6, <1>8, <2>2 DEF Asking
    <3>2. QED BY <1>1, <1>2, <1>4, <1>8, <2>1, <2>2, <3>1, StaysPaid
  <2>3. CASE ~row[j].man.made
    <3>1. Asking(j)' \subseteq Asking(j) \union {w} BY <1>5 DEF Asking
    <3>2. w \notin Asking(j) BY <1>2, JobsAssumption DEF Asking, NoJob
    <3>3. /\ IsFiniteSet(Asking(j) \union {w})
          /\ Cardinality(Asking(j) \union {w}) = Cardinality(Asking(j)) + 1
      BY <1>1, <3>2, FS_AddElement DEF Paid
    <3>4. /\ IsFiniteSet(Asking(j)')
          /\ Cardinality(Asking(j)') <= Cardinality(Asking(j)) + 1
      BY <3>1, <3>3, FS_Subset
    <3>5. Cardinality(Asking(j)') \in Nat /\ Cardinality(Asking(j)) \in Nat
      BY <1>1, <3>4, FS_CardinalityType DEF Paid
    <3>6. runs[j] \in Nat /\ row[j].attempts \in Nat /\ MaxAttempts \in Nat
      BY AttemptsAssumption DEF TypeOK, SeenTypeOK, DatabaseTypeOK, Receipt
    <3>7. runs'[j] = runs[j] /\ row'[j].attempts = row[j].attempts + 1
          /\ row[j].attempts < MaxAttempts
      BY <1>2, <1>4, <1>8, <2>1, <2>3
    <3>8. runs[j] + Cardinality(Asking(j)) <= row[j].attempts BY <1>1, <2>3 DEF Paid
    <3>9. QED BY <1>4, <1>8, <2>1, <2>3, <3>4, <3>5, <3>6, <3>7, <3>8 DEF Paid
  <2>4. QED BY <2>2, <2>3
<1>9. QED BY <1>7, <1>8

LEMMA StepStaysPaid ==
  ASSUME BaseInvariant, BudgetKept, [Next]_vars
  PROVE  BudgetKept'
<1>1. CASE UNCHANGED vars BY <1>1 DEF vars, BudgetKept, Paid, Asking
<1>2. CASE Outside
  <2>1. UNCHANGED runs
    BY <1>2
    DEF Outside, Enqueue, Release, ExpireLease, Revoke, SweepOnUnlink, Sweep,
        NothingToClaim, Restart, Crash, RecoverStale, ClaimConflict, Quiet
  <2>2. QED BY <1>2, <2>1, OutsideStaysPaid
<1>3. ASSUME NEW w \in Workers, Turn(w) PROVE BudgetKept'
  BY <1>3, TurnRuns, TurnStaysPaid
<1>4. CASE \E w \in Workers, j \in Jobs : Claim(w, j) BY <1>4, ClaimStaysPaid
<1>5. QED BY <1>1, <1>2, <1>3, <1>4, StepKinds

LEMMA LegacyIsMade ==
  ASSUME NEW r \in InitialRows
  PROVE  r = Absent \/ (r.man.made /\ r.status = "QUEUED")
<1>1. ASSUME NEW a \in LegacyShapes, r \in LegacySeeds(a)
      PROVE  r.man.made /\ r.status = "QUEUED"
  <2>1. PICK m \in LegacyManifests(a), n \in 0..(MaxAttempts - 1),
             c \in 0..(a.texts + a.photos) : r = LegacyRow(m, n, c)
    BY <1>1 DEF LegacySeeds, LegacyRows
  <2>2. m.made
    <3> DEFINE base == PicturesFirstManifest(a)
    <3>1. base.made BY DEF PicturesFirstManifest, NoManifest
    <3>2. base \in Manifest
      <4>1. a.texts \in Nat /\ a.photos \in Nat BY <1>1, AnswersAssumption
      <4>2. QED BY <4>1, NoManifestType DEF PicturesFirstManifest, Manifest
    <3>3. \/ \E p \in 0..a.photos, t \in 0..MaxAttempts : m = BeforeText(a, p, t)
          \/ m = [base EXCEPT !.shared = TRUE]
          \/ m = [base EXCEPT !.photo = a.photos, !.started = TRUE]
      BY DEF LegacyManifests
    <3> HIDE DEF base
    <3>4. ASSUME NEW p \in 0..a.photos, NEW t \in 0..MaxAttempts, m = BeforeText(a, p, t)
          PROVE  m.made
      <4>1. m = [base EXCEPT !.photo = p, !.tries = t] BY <3>4 DEF BeforeText, base
      <4>2. QED BY <3>1, <3>2, <4>1 DEF Manifest
    <3>5. ASSUME m = [base EXCEPT !.shared = TRUE] PROVE m.made
      BY <3>1, <3>2, <3>5 DEF Manifest
    <3>6. ASSUME m = [base EXCEPT !.photo = a.photos, !.started = TRUE] PROVE m.made
      BY <3>1, <3>2, <3>6 DEF Manifest
    <3>7. QED BY <3>3, <3>4, <3>5, <3>6
  <2>3. QED BY <2>1, <2>2 DEF LegacyRow, Absent
<1>2. QED BY <1>1 DEF InitialRows

(* The adviser is asked at most MaxAttempts times for one update, and      *)
(* never again once its answer is stored, however often the update comes   *)
(* back to the queue by a retry, a crash, a recovery or an outlived lease  *)
(* and however many workers hold it at once: each question was paid for by *)
(* a claim, and a row without an answer gets none of its attempts back.    *)
THEOREM AskedWithinBudget == Spec => []ExecutorBudget
<1>1. Init => BudgetKept
  <2> SUFFICES ASSUME Init, NEW j \in Jobs PROVE Paid(j)
    BY DEF BudgetKept
  <2>1. row[j] = Absent \/ (row[j].man.made /\ row[j].status = "QUEUED")
    <3>1. PICK r \in InitialRows : row = [k \in Jobs |-> IF FirstJob(k) THEN r ELSE Absent]
      <4>1. Absent \in InitialRows BY DEF InitialRows
      <4>2. QED BY <4>1 DEF Init
    <3>2. QED BY <3>1, LegacyIsMade
  <2>2. Asking(j) = {} BY DEF Init, Asking
  <2>3. IsFiniteSet(Asking(j)) /\ Cardinality(Asking(j)) = 0 BY <2>2, FS_EmptySet
  <2>4. runs[j] = 0 /\ MaxAttempts \in Nat BY AttemptsAssumption DEF Init
  <2>5. Absent.man = NoManifest /\ Absent.attempts = 0 /\ ~Absent.man.made
        /\ Absent.status = "ABSENT"
    BY DEF Absent, NoManifest
  <2>6. QED BY <2>1, <2>3, <2>4, <2>5 DEF Paid
<1>2. BaseInvariant /\ BudgetKept /\ [Next]_vars => BudgetKept'
  BY StepStaysPaid
<1>3. BaseInvariant /\ BudgetKept => ExecutorBudget
  <2> SUFFICES ASSUME BaseInvariant, BudgetKept, NEW j \in Jobs
               PROVE  runs[j] <= MaxAttempts
    BY DEF ExecutorBudget
  <2>1. Paid(j) BY DEF BudgetKept
  <2>2. Cardinality(Asking(j)) \in Nat BY <2>1, FS_CardinalityType DEF Paid
  <2>3. runs[j] \in Nat /\ MaxAttempts \in Nat
    BY AttemptsAssumption DEF BaseInvariant, CoreInvariant, TypeOK, SeenTypeOK
  <2>4. QED BY <2>1, <2>2, <2>3 DEF Paid
<1>4. QED BY <1>1, <1>2, <1>3, BaseCorrect, PTL DEF Spec
=============================================================================
