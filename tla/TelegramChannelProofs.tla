----------------------- MODULE TelegramChannelProofs ------------------------
(***************************************************************************)
(* What the queue promises its chats once it holds only answers this       *)
(* release has stored: the required text comes before the pictures and has *)
(* a retry budget of its own, and the chats see what the abstract channel  *)
(* allows.  As in TelegramDeliveryProofs, no lease runs out under a live   *)
(* worker.                                                                 *)
(***************************************************************************)
EXTENDS TelegramDeliveryProofs

(* No answer of an earlier release, pictures first, is left in the queue.  *)
FreshQueue == LegacyShapes = {}

(* Telegram owes nothing out of order: every lease of pending text was one *)
(* attempt, a queued row has an attempt left, pictures have followed the   *)
(* text, and a row is out of attempts only when its text had them all.     *)
Fair(r, g, p, a, l) ==
  /\ r.status \in ActiveStatuses => /\ r.man.made => r.man.first
                                    /\ TextLeft(r) => l >= r.attempts
  /\ r.status = "QUEUED" => r.attempts < MaxAttempts
  /\ p # {} => g = 1..a
  /\ r.error = "exhausted" => g = 1..a \/ a = 0 \/ l >= MaxAttempts

AllFair == \A j \in Jobs : Fair(row[j], got[j], pics[j], answer[j], leases[j])

(* What a worker knows of the item it is about to send, its lease or no.   *)
Aims(w) ==
  /\ pc[w] = "sendText" =>
       /\ mem[w].cursor < answer[cur[w]]
       /\ got[cur[w]] \in {1..mem[w].cursor, 1..(mem[w].cursor + 1)}
  /\ pc[w] = "sendPhoto" => answer[cur[w]] > 0 /\ got[cur[w]] = 1..answer[cur[w]]

AllAim        == \A w \in Workers : Aims(w)
AimUnlessHeld == \A w \in Workers : Alive(w) \/ Aims(w)

ChannelInvariant == DeliveryInvariant /\ AllTexted /\ AllFair /\ AllAim

-----------------------------------------------------------------------------
(* A row of this release reads the same from its manifest and its cursor.  *)
LEMMA FirstReads ==
  ASSUME NEW r \in Receipt, r.man.first, r.man.shared => ~r.man.first
  PROVE  State(r).first /\ State(r).text = r.cursor /\ ~State(r).takeover
BY RowFields, StateFields

LEMMA UnmadeReads ==
  ASSUME NEW r \in Receipt, Formed(r), ~r.man.made
  PROVE  ~TextLeft(r) /\ r.man.texts = 0
<1>1. r.man = NoManifest /\ r.cursor = 0 BY DEF Formed
<1>2. r.man.texts = 0 /\ r.man.photos = 0 BY <1>1 DEF NoManifest
<1>3. State(r).text = 0 BY <1>1, <1>2, RowFields, StateFields
<1>4. QED BY <1>2, <1>3 DEF TextLeft

(* Text that is not left has all been heard. *)
LEMMA NoneLeft ==
  ASSUME NEW r \in Receipt, NEW g, NEW p, NEW a, Delivered(r, g, p, a), ~TextLeft(r)
  PROVE  g = 1..a
<1>1. State(r).text \in Nat /\ r.man.texts \in Nat BY RowFields DEF Progress
<1>2. State(r).text = r.man.texts BY <1>1 DEF Delivered, Formed, TextLeft
<1>3. QED BY <1>2 DEF Delivered, Heard

(* A row without attempts has no text left, or has had them all. *)
LEMMA SpentReads ==
  ASSUME NEW r \in Receipt, NEW g, NEW p, NEW a, NEW l \in Nat, Delivered(r, g, p, a),
         r.status \in ActiveStatuses, Fair(r, g, p, a, l),
         PhotoBudgetExhausted(r) \/ r.attempts >= MaxAttempts
  PROVE  g = 1..a \/ l >= MaxAttempts
<1>1. CASE ~TextLeft(r) BY <1>1, NoneLeft
<1>2. CASE TextLeft(r)
  <2>1. Formed(r) BY DEF Delivered
  <2>2. r.man.first BY <1>2, <2>1, UnmadeReads DEF Fair
  <2>3. State(r).first BY <2>1, <2>2, FirstReads DEF Formed
  <2>4. State(r).text \in Nat /\ r.man.texts \in Nat /\ r.attempts \in Nat
        /\ State(r) = DeliveryState(r.man, r.cursor)
    BY RowFields DEF Progress
  <2>5. ~PhotoBudgetExhausted(r)
    BY <1>2, <2>3, <2>4 DEF PhotoBudgetExhausted, PendingPhotos, TextLeft
  <2>6. l >= r.attempts BY <1>2 DEF Fair
  <2>7. QED BY <2>4, <2>5, <2>6, AttemptsAssumption
<1>3. QED BY <1>1, <1>2

(* An end that is not for want of attempts. *)
LEMMA EndedFair ==
  ASSUME NEW r \in Receipt, NEW g, NEW p, NEW a, NEW l, Fair(r, g, p, a, l),
         NEW s \in TerminalStatuses, NEW e, e # "exhausted"
  PROVE  Fair(Ended(r, s, e), g, p, a, l)
<1>1. Ended(r, s, e).status = s /\ Ended(r, s, e).error = e BY DEF Ended, Receipt
<1>2. s \notin ActiveStatuses BY DEF ActiveStatuses, TerminalStatuses
<1>3. s # "QUEUED" BY DEF TerminalStatuses
<1>4. QED BY <1>1, <1>2, <1>3 DEF Fair

LEMMA ExhaustedFair ==
  ASSUME NEW r \in Receipt, NEW g, NEW p, NEW a, NEW l \in Nat, Delivered(r, g, p, a),
         r.status \in ActiveStatuses, Fair(r, g, p, a, l),
         PhotoBudgetExhausted(r) \/ r.attempts >= MaxAttempts
  PROVE  Fair(Ended(r, "FAILED", "exhausted"), g, p, a, l)
<1> DEFINE q == Ended(r, "FAILED", "exhausted")
<1>1. q.status = "FAILED" /\ q.error = "exhausted" BY DEF Ended, Receipt
<1>2. g = 1..a \/ l >= MaxAttempts BY SpentReads
<1> HIDE DEF q
<1>3. p # {} => g = 1..a BY DEF Fair
<1>4. q.status \notin ActiveStatuses /\ q.status # "QUEUED" BY <1>1 DEF ActiveStatuses
<1>5. Fair(q, g, p, a, l) BY <1>2, <1>3, <1>4 DEF Fair
<1>6. QED BY <1>5 DEF q

(* A row that keeps its answer, gives no text back and has an attempt left.*)
LEMMA ActiveFair ==
  ASSUME NEW r \in Receipt, NEW g, NEW p, NEW a, NEW l \in Nat,
         r.status \in ActiveStatuses, Fair(r, g, p, a, l), r.error = "none",
         NEW q \in Receipt, q.status \in ActiveStatuses, q.error = r.error,
         q.man.made => r.man.made, r.man.first => q.man.first,
         TextLeft(q) => TextLeft(r), q.attempts <= r.attempts,
         q.status = r.status \/ q.attempts < MaxAttempts
  PROVE  Fair(q, g, p, a, l)
<1>1. r.attempts \in Nat /\ q.attempts \in Nat BY RowFields
<1>2. q.status = "QUEUED" => q.attempts < MaxAttempts
  BY <1>1, AttemptsAssumption DEF Fair
<1>3. TextLeft(q) => l >= q.attempts BY <1>1 DEF Fair
<1>4. QED BY <1>2, <1>3 DEF Fair

LEMMA RowMovesFair ==
  ASSUME NEW r \in Receipt, NEW g, NEW p, NEW a, NEW l \in Nat, Delivered(r, g, p, a),
         r.status \in ActiveStatuses, Fair(r, g, p, a, l), r.error = "none",
         NEW q \in Receipt, RowMoves(r, q)
  PROVE  Fair(q, g, p, a, l)
<1>1. CASE q = Ended(r, "CANCELLED", "revoked") BY <1>1, EndedFair DEF TerminalStatuses
<1>2. CASE /\ q = Ended(r, "FAILED", "exhausted")
           /\ PhotoBudgetExhausted(r) \/ r.attempts >= MaxAttempts
  BY <1>2, ExhaustedFair
<1>3. CASE /\ q.status \in ActiveStatuses /\ q.error = r.error
           /\ Resumes(r, q) /\ q.attempts <= r.attempts
           /\ q.status = r.status \/ q.attempts < MaxAttempts \/ State(r).takeover
  <2>1. TextLeft(q) = TextLeft(r) BY <1>3 DEF Resumes, TextLeft
  <2>2. ~State(r).takeover
    <3>1. CASE r.man.made BY <3>1, FirstReads DEF Fair, Delivered, Formed
    <3>2. CASE ~r.man.made
      <4>1. r.man.photos = 0 BY <3>2 DEF Delivered, Formed, NoManifest
      <4>2. QED BY <4>1, RowFields, StateFields
    <3>3. QED BY <3>1, <3>2
  <2>3. QED BY <1>3, <2>1, <2>2, ActiveFair DEF Resumes
<1>4. QED BY <1>1, <1>2, <1>3 DEF RowMoves

-----------------------------------------------------------------------------
(* The claims and the turns of a worker whose lease holds.                 *)

LEMMA AdvancesFair ==
  ASSUME NEW r \in Receipt, NEW g, NEW p, NEW a, NEW l \in Nat, Delivered(r, g, p, a),
         r.status \in ActiveStatuses, Fair(r, g, p, a, l), r.error = "none",
         NEW q \in Receipt, Advances(r, q)
  PROVE  Fair(q, g, p, a, l)
<1>1. State(r).first
  <2>1. CASE r.man.made BY <2>1, FirstReads DEF Fair, Delivered, Formed
  <2>2. CASE ~r.man.made
    <3>1. r.man.photos = 0 BY <2>2 DEF Delivered, Formed, NoManifest
    <3>2. QED BY <3>1, RowFields, StateFields
  <2>3. QED BY <2>1, <2>2
<1>2. State(r).text \in Nat /\ State(q).text \in Nat /\ r.man.texts \in Nat
  BY RowFields DEF Progress
<1>3. TextLeft(q) => TextLeft(r) BY <1>2 DEF Advances, TextLeft
<1>4. QED BY <1>1, <1>3, ActiveFair DEF Advances

LEMMA ClaimedFair ==
  ASSUME NEW r \in Receipt, NEW g, NEW p, NEW a, NEW l \in Nat, Delivered(r, g, p, a),
         r.status \in ActiveStatuses, Fair(r, g, p, a, l), r.error = "none"
  PROVE  Fair(Claimed(r), g, p, a, IF TextDue(r) THEN l + 1 ELSE l)
<1> DEFINE q == Claimed(r)
           k == IF TextDue(r) THEN l + 1 ELSE l
<1>1. /\ Resumes(r, q) /\ q.status = "RUNNING" /\ q.error = "none"
      /\ q.attempts <= r.attempts + 1 /\ q \in Receipt
  BY ClaimedResumes, ClaimedType DEF Delivered
<1> HIDE DEF q
<1>2. TextLeft(q) => TextLeft(r) BY <1>1 DEF Resumes, TextLeft
<1>3. TextLeft(r) => TextDue(r)
  <2>1. TextLeft(r) => r.man.first BY UnmadeReads DEF Fair, Delivered
  <2>2. r.man.first => State(r).text = r.cursor BY FirstReads DEF Delivered, Formed
  <2>3. QED BY <2>1, <2>2 DEF TextLeft, TextDue
<1>4. TextLeft(q) => k >= q.attempts
  <2>1. r.attempts \in Nat /\ q.attempts \in Nat BY <1>1, RowFields
  <2>2. TextLeft(r) => l >= r.attempts BY DEF Fair
  <2>3. QED BY <1>1, <1>2, <1>3, <2>1, <2>2
<1>5. q.man.made => q.man.first BY <1>1 DEF Resumes, Fair
<1>6. p # {} => g = 1..a BY DEF Fair
<1> HIDE DEF k
<1>7. Fair(q, g, p, a, k) BY <1>1, <1>4, <1>5, <1>6 DEF Fair
<1>8. QED BY <1>7 DEF q, k

LEMMA PreparedFair ==
  ASSUME NEW r \in Receipt, NEW n \in [texts: Nat, photos: Nat], r.error = "none",
         r.status = "RUNNING"
  PROVE  LET q == Stored(r, n)
         IN  /\ Fair(q, {}, {}, q.man.texts, 1)
             /\ q.man.texts = n.texts
<1> DEFINE q == Stored(r, n)
<1>1. /\ q.status = "RUNNING" /\ q.error = "none" /\ q.attempts = 1
      /\ q.man = NewManifest(n) /\ q.cursor = 0
  BY DEF Stored, Receipt
<1>2. q.man.texts = n.texts BY <1>1 DEF NewManifest, NoManifest
<1> HIDE DEF q
<1>3. q.man.first BY <1>1, NewDelivered
<1>4. Fair(q, {}, {}, q.man.texts, 1) BY <1>1, <1>3 DEF Fair
<1>5. QED BY <1>2, <1>4 DEF q

LEMMA LetsFair ==
  ASSUME NEW w \in Workers, Lets(w), NEW g, NEW p, NEW a, NEW l \in Nat,
         Delivered(row[cur[w]], g, p, a), Fair(row[cur[w]], g, p, a, l),
         row[cur[w]].error = "none", row'[cur[w]] \in Receipt
  PROVE  Fair(row'[cur[w]], g, p, a, l)
<1> DEFINE r == row[cur[w]]
           q == row'[cur[w]]
<1>1. r \in Receipt /\ r.status = "RUNNING" /\ r.status \in ActiveStatuses
  BY LeavesKinds DEF ActiveStatuses
<1>2. CASE /\ q.status = "QUEUED" /\ q.error = r.error /\ q.man = r.man
           /\ q.cursor = r.cursor
           /\ \/ q.attempts = r.attempts /\ r.attempts < MaxAttempts
              \/ q.attempts = 0 /\ ~State(r).takeover
  <2>1. State(q) = State(r) BY <1>2 DEF State
  <2>2. TextLeft(q) = TextLeft(r) BY <1>2, <2>1 DEF TextLeft
  <2>3. q.attempts <= r.attempts /\ q.attempts < MaxAttempts
    BY <1>1, <1>2, RowFields, AttemptsAssumption
  <2>4. q.status \in ActiveStatuses BY <1>2 DEF ActiveStatuses
  <2>5. QED BY <1>1, <1>2, <2>2, <2>3, <2>4, ActiveFair
<1>3. ASSUME NEW s \in TerminalStatuses, NEW e, e # "exhausted", q = Ended(r, s, e)
      PROVE  Fair(q, g, p, a, l)
  BY <1>1, <1>3, EndedFair
<1>4. CASE r.attempts >= MaxAttempts /\ q = Ended(r, "FAILED", "exhausted")
  BY <1>1, <1>4, ExhaustedFair
<1>5. q = Ended(r, "CANCELLED", "revoked") => Fair(q, g, p, a, l)
  BY <1>3 DEF TerminalStatuses
<1>6. (\E e \in {"none", "degraded"} : q = Ended(r, "SUCCEEDED", e)) => Fair(q, g, p, a, l)
  BY <1>3 DEF TerminalStatuses
<1>7. (\E e \in {"permanent", "rejected"} : q = Ended(r, "FAILED", e)) => Fair(q, g, p, a, l)
  BY <1>3 DEF TerminalStatuses
<1>8. QED BY <1>2, <1>4, <1>5, <1>6, <1>7, LeavesKinds

-----------------------------------------------------------------------------
(* What a step may do to a job that is neither queued nor running.         *)

LEMMA StepHears ==
  ASSUME [Next]_vars
  PROVE  \/ UNCHANGED <<got, pics>>
         \/ \E w \in Workers : SendText(w) \/ SendPhoto(w)
<1>1. CASE UNCHANGED vars BY <1>1 DEF vars
<1>2. CASE Outside
  BY <1>2
  DEF Outside, Enqueue, Release, ExpireLease, Revoke, SweepOnUnlink, Sweep,
      NothingToClaim, Restart, Crash, RecoverStale, ClaimConflict, Quiet
<1>3. ASSUME NEW w \in Workers, Turn(w)
      PROVE  UNCHANGED <<got, pics>> \/ SendText(w) \/ SendPhoto(w)
  <2>1. CASE Check(w) \/ Execute(w) \/ Refresh(w) \/ StoreDelivery(w)
    BY <2>1 DEF Check, Execute, ExecuteQuestion, ExecuteNew, ExecuteAdvisor, ExecuteRetry,
                ExecutePermanent, Refresh, StoreDelivery, Quiet
  <2>2. CASE Deliver(w)
    BY <2>2 DEF Deliver, Begin, AuthoriseText, AuthorisePhoto, Authorise, SettleText, Gate,
                PhotoOff, Render, SettlePhoto, StartText, FinishDelivered, Quiet
  <2>3. QED BY <1>3, <2>1, <2>2 DEF Turn
<1>4. CASE \E w \in Workers, j \in Jobs : Claim(w, j) BY <1>4 DEF Claim
<1>5. QED BY <1>1, <1>2, <1>3, <1>4, StepKinds

(* No UPDATE of a worker whose row is not running gets through: all it     *)
(* still does is to mark the conversation of a command.                    *)
LEMMA UnownedWrites ==
  ASSUME NEW w \in Workers, ~Owned(w)
  PROVE  /\ \A b, r, m, s : ProceedIf(w, b, r, m, s) => UNCHANGED row
         /\ \A r, m, s : Proceed(w, r, m, s) => UNCHANGED row
         /\ \A r : LetGo(w, r) => UNCHANGED row
         /\ \A s, e : Finish(w, s, e) => UNCHANGED row
         /\ RequeueDelivery(w) => UNCHANGED row
         /\ RequeuePhoto(w) => UNCHANGED row
         /\ \A m, s : PhotoDone(w, m, s) => UNCHANGED row
         /\ \A s : SkipPhoto(w, s) => UNCHANGED row
         /\ \A b : PhotoFailed(w, b) => UNCHANGED row
         /\ BeginTextAfterSkippingPhotos(w) => UNCHANGED row
         /\ PhotoAttempt(w) => UNCHANGED row
         /\ AllPhotosSkipped(w) => UNCHANGED row
         /\ ConfirmText(w) => UNCHANGED row
<1>1. \A b, r, m, s : ProceedIf(w, b, r, m, s) => UNCHANGED row BY DEF ProceedIf
<1>2. \A r, m, s : Proceed(w, r, m, s) => UNCHANGED row BY <1>1 DEF Proceed
<1>3. \A r : LetGo(w, r) => UNCHANGED row BY DEF LetGo
<1>4. \A s, e : Finish(w, s, e) => UNCHANGED row BY <1>3 DEF Finish
<1>5. RequeueDelivery(w) => UNCHANGED row BY <1>3, <1>4 DEF RequeueDelivery
<1>6. RequeuePhoto(w) => UNCHANGED row BY <1>3 DEF RequeuePhoto
<1>7. \A m, s : PhotoDone(w, m, s) => UNCHANGED row BY <1>2 DEF PhotoDone
<1>8. \A s : SkipPhoto(w, s) => UNCHANGED row BY <1>7 DEF SkipPhoto
<1>9. \A b : PhotoFailed(w, b) => UNCHANGED row BY <1>6, <1>8 DEF PhotoFailed
<1>10. BeginTextAfterSkippingPhotos(w) => UNCHANGED row
  BY <1>2 DEF BeginTextAfterSkippingPhotos
<1>11. PhotoAttempt(w) => UNCHANGED row BY <1>2 DEF PhotoAttempt
<1>12. AllPhotosSkipped(w) => UNCHANGED row BY <1>7 DEF AllPhotosSkipped
<1>13. ConfirmText(w) => UNCHANGED row BY <1>1 DEF ConfirmText
<1>14. QED BY <1>1, <1>2, <1>3, <1>4, <1>5, <1>6, <1>7, <1>8, <1>9, <1>10, <1>11, <1>12, <1>13

LEMMA UnownedTurn ==
  ASSUME TypeOK, NEW w \in Workers, cur[w] \in Jobs, row[cur[w]].status # "RUNNING", Turn(w)
  PROVE  /\ UNCHANGED <<answer, leases>>
         /\ row'[cur[w]].error = row[cur[w]].error
         /\ row'[cur[w]].status = row[cur[w]].status
         /\ \A j \in Jobs \ {cur[w]} : row'[j] = row[j]
<1>1. ~Owned(w) BY DEF Owned
<1>2. CASE UNCHANGED <<row, answer, leases>> BY <1>2
<1>3. CASE Deliver(w)
  <2>1. UNCHANGED <<answer, leases>>
    BY <1>3 DEF Deliver, Begin, AuthoriseText, AuthorisePhoto, Authorise, SendText, SendPhoto,
                Send, SettleText, Gate, PhotoOff, Render, SettlePhoto, StartText,
                FinishDelivered, Quiet
  <2>2. UNCHANGED row
    <3>1. CASE SendText(w) \/ SendPhoto(w) BY <3>1 DEF SendText, SendPhoto, Send
    <3>2. CASE Begin(w) BY <1>1, <3>2, UnownedWrites DEF Begin
    <3>3. CASE AuthoriseText(w) \/ AuthorisePhoto(w) \/ FinishDelivered(w) \/ StartText(w)
      BY <1>1, <3>3, UnownedWrites
      DEF AuthoriseText, AuthorisePhoto, Authorise, FinishDelivered, StartText
    <3>4. CASE SettleText(w) \/ SettlePhoto(w)
      BY <1>1, <3>4, UnownedWrites DEF SettleText, SettlePhoto
    <3>5. CASE Gate(w) BY <1>1, <3>5, UnownedWrites DEF Gate
    <3>6. CASE PhotoOff(w) \/ Render(w) BY <1>1, <3>6, UnownedWrites DEF PhotoOff, Render
    <3>7. QED BY <1>3, <3>1, <3>2, <3>3, <3>4, <3>5, <3>6 DEF Deliver
  <2>3. QED BY <1>2, <2>1, <2>2
<1>4. CASE Check(w) \/ Refresh(w) \/ StoreDelivery(w)
  <2>1. UNCHANGED <<row, answer, leases>>
    BY <1>1, <1>4, UnownedWrites DEF Check, Refresh, StoreDelivery, Quiet
  <2>2. QED BY <1>2, <2>1
<1>5. CASE ExecuteQuestion(w) \/ ExecuteRetry(w) \/ ExecutePermanent(w)
  <2>1. UNCHANGED <<row, answer, leases>>
    BY <1>1, <1>5, UnownedWrites DEF ExecuteQuestion, ExecuteRetry, ExecutePermanent, Quiet
  <2>2. QED BY <1>2, <2>1
<1>6. CASE ExecuteAdvisor(w)
  <2>1. UNCHANGED <<row, answer, leases>>
    BY <1>1, <1>6, UnownedWrites DEF ExecuteAdvisor
  <2>2. QED BY <1>2, <2>1
<1>7. CASE ExecuteNew(w)
  <2>1. /\ UNCHANGED <<answer, leases>>
        /\ UNCHANGED row \/ row' = [row EXCEPT ![cur[w]].conv = TRUE]
    BY <1>7 DEF ExecuteNew
  <2>2. QED BY <2>1 DEF TypeOK, DatabaseTypeOK, Receipt
<1>8. QED BY <1>3, <1>4, <1>5, <1>6, <1>7 DEF Turn, Execute

LEMMA SettledMoves ==
  ASSUME ~MayStall, DeliveryInvariant, [Next]_vars, NEW j \in Jobs, ~IsActive(j), ~IsActive(j)'
  PROVE  /\ row'[j].error = row[j].error
         /\ row'[j].status = row[j].status
         /\ answer'[j] = answer[j] /\ leases'[j] = leases[j]
<1>1. TypeOK /\ BaseInvariant /\ LeaseKept
  BY DEF DeliveryInvariant, LeaseInvariant, BaseInvariant, CoreInvariant
<1>2. CASE UNCHANGED vars BY <1>2 DEF vars
<1>3. CASE Outside
  <2>1. OutsideRow(row[j], row'[j], j) BY <1>1, <1>3, OutsideRows
  <2>2. UNCHANGED <<answer, leases>> BY <1>1, <1>3, OutsideSilent
  <2>3. row[j].status \notin ActiveStatuses /\ row'[j].status \notin ActiveStatuses
    BY DEF IsActive
  <2>4. QED BY <2>1, <2>2, <2>3 DEF OutsideRow, Orphaned, IsActive, ActiveStatuses
<1>4. ASSUME NEW w \in Workers, Turn(w)
      PROVE  /\ row'[j].error = row[j].error
             /\ row'[j].status = row[j].status
             /\ answer'[j] = answer[j] /\ leases'[j] = leases[j]
  <2>1. Tends(w) BY <1>1, <1>4, TurnTends
  <2>2. cur[w] \in Jobs /\ cur[w] # NoJob BY <2>1, JobsAssumption DEF Tends, NoJob
  <2>3. CASE cur[w] # j
    BY <1>1, <1>4, <2>1, <2>2, <2>3, TurnObserved DEF Tends, Writes, Observed
  <2>4. CASE cur[w] = j
    <3>1. row[j].status # "RUNNING" BY DEF IsActive, ActiveStatuses
    <3>2. QED BY <1>1, <1>4, <2>2, <2>4, <3>1, UnownedTurn
  <2>5. QED BY <2>3, <2>4
<1>5. ASSUME NEW w \in Workers, NEW i \in Jobs, Claim(w, i)
      PROVE  /\ row'[j] = row[j]
             /\ answer'[j] = answer[j] /\ leases'[j] = leases[j]
  <2>1. i # j BY <1>5 DEF Claim, NextClaim, Eligible, IsActive, ActiveStatuses
  <2>2. QED BY <1>1, <1>5, <2>1 DEF Claim, TypeOK, DatabaseTypeOK, SeenTypeOK
<1>6. QED BY <1>2, <1>3, <1>4, <1>5, StepKinds

-----------------------------------------------------------------------------
(* Every step is fair to every job.                                        *)

LEMMA SendKeepsFair ==
  ASSUME TypeOK, AllFair, AllAim, NEW w \in Workers, cur[w] \in Jobs,
         SendText(w) \/ SendPhoto(w)
  PROVE  AllFair'
<1> DEFINE i == cur[w]
           g == got[i]
           a == answer[i]
<1>1. Observed(w) /\ UNCHANGED <<row, answer, leases>>
  BY TurnObserved, Sends DEF Turn, Deliver
<1>2. Aims(w) /\ Fair(row[i], g, pics[i], a, leases[i]) BY DEF AllAim, AllFair
<1>3. g = 1..a => got'[i] = 1..a
  <2>1. CASE pc[w] = "sendText"
    <3>1. mem[w].cursor \in Nat /\ a \in Nat
      BY DEF TypeOK, WorkerTypeOK, Memory, SeenTypeOK
    <3>2. mem[w].cursor + 1 \in 1..a BY <1>2, <2>1, <3>1 DEF Aims
    <3>3. QED BY <2>1, <3>2, Sends
  <2>2. CASE pc[w] # "sendText" BY <2>2, Sends
  <2>3. QED BY <2>1, <2>2
<1>4. pics'[i] = pics[i] \/ g = 1..a BY <1>2, Sends DEF Aims
<1>5. Fair(row'[i], got'[i], pics'[i], answer'[i], leases'[i])
  <2>1. row'[i] = row[i] /\ answer'[i] = a /\ leases'[i] = leases[i] BY <1>1
  <2>2. QED BY <1>2, <1>3, <1>4, <2>1 DEF Fair
<1>6. ASSUME NEW j \in Jobs, j # i
      PROVE  Fair(row'[j], got'[j], pics'[j], answer'[j], leases'[j])
  BY <1>1, <1>6 DEF Observed, AllFair
<1>7. QED BY <1>5, <1>6 DEF AllFair

LEMMA QuietKeepsFair ==
  ASSUME ~MayStall, ChannelInvariant, TypeOK', [Next]_vars, UNCHANGED <<got, pics>>
  PROVE  AllFair'
<1> SUFFICES ASSUME NEW j \in Jobs
             PROVE  Fair(row'[j], got[j], pics[j], answer'[j], leases'[j])
  BY DEF AllFair
<1> DEFINE r == row[j]
           q == row'[j]
           g == got[j]
           p == pics[j]
           a == answer[j]
           l == leases[j]
<1>1. /\ DeliveryInvariant /\ TypeOK /\ BaseInvariant
      /\ r \in Receipt /\ q \in Receipt /\ l \in Nat
      /\ Fair(r, g, p, a, l)
  BY DEF ChannelInvariant, DeliveryInvariant, LeaseInvariant, BaseInvariant, CoreInvariant,
         TypeOK, DatabaseTypeOK, SeenTypeOK, AllFair
<1>2. CASE IsActive(j)
  <2>1. Delivered(r, g, p, a) /\ r.error = "none" /\ r.status \in ActiveStatuses
    BY <1>1, <1>2 DEF DeliveryInvariant, AllTold, JobTold, Told, IsActive, ActiveStatuses,
                      TerminalStatuses
  <2>2. CASE q = r /\ answer'[j] = a /\ leases'[j] = l BY <1>1, <2>2
  <2>3. CASE RowMoves(r, q) /\ answer'[j] = a /\ leases'[j] = l
    BY <1>1, <2>1, <2>3, RowMovesFair
  <2>4. ASSUME NEW w \in Workers, Claim(w, j)
        PROVE  Fair(q, g, p, answer'[j], leases'[j])
    <3>1. /\ q = Claimed(r) /\ answer'[j] = a
          /\ leases'[j] = IF TextDue(r) THEN l + 1 ELSE l
      BY <1>1, <2>4 DEF Claim, TypeOK, DatabaseTypeOK, SeenTypeOK
    <3>2. QED BY <1>1, <2>1, <3>1, ClaimedFair
  <2>5. ASSUME NEW w \in Workers, Turn(w), Alive(w), cur[w] = j
        PROVE  Fair(q, g, p, answer'[j], leases'[j])
    <3>1. CASE Advances(r, q) /\ UNCHANGED <<answer, leases>>
      BY <1>1, <2>1, <3>1, AdvancesFair
    <3>2. CASE Prepares(w)
      <4>1. g = {} /\ p = {} BY <1>1, <2>1, <2>5, <3>2, NothingHeard DEF Prepares
      <4>2. PICK n \in [texts: Nat, photos: Nat] : q = Stored(r, n)
        BY <2>5, <3>2 DEF Prepares
      <4>3. answer'[j] = q.man.texts /\ leases'[j] = 1 BY <2>5, <3>2 DEF Prepares
      <4>4. r.status = "RUNNING" BY <2>5 DEF Alive, Owned
      <4>5. QED BY <1>1, <2>1, <4>1, <4>2, <4>3, <4>4, PreparedFair
    <3>3. CASE Lets(w)
      <4>1. answer'[j] = a /\ leases'[j] = l BY <3>3 DEF Lets, Silent
      <4>2. QED BY <1>1, <2>1, <2>5, <3>3, <4>1, LetsFair
    <3>4. QED BY <1>1, <2>5, <3>1, <3>2, <3>3, TurnMoves
  <2>6. QED BY <1>1, <1>2, <2>2, <2>3, <2>4, <2>5, ActiveMoves
<1>3. CASE ~IsActive(j) /\ IsActive(j)'
  <2>1. /\ q.man = NoManifest /\ q.cursor = 0 /\ q.attempts = 0 /\ q.error = "none"
        /\ answer'[j] = a /\ leases'[j] = l
    BY <1>1, <1>3, InactiveMoves
  <2>2. ~q.man.made /\ q.man.texts = 0 /\ q.man.photos = 0 BY <2>1 DEF NoManifest
  <2>3. ~TextLeft(q)
    BY <1>1, <2>1, <2>2, RowFields, StateFields DEF TextLeft
  <2>4. p # {} => g = 1..a BY <1>1 DEF Fair
  <2>5. QED BY <2>1, <2>2, <2>3, <2>4, AttemptsAssumption DEF Fair
<1>4. CASE ~IsActive(j) /\ ~IsActive(j)'
  <2>1. /\ q.error = r.error /\ answer'[j] = a /\ leases'[j] = l
        /\ q.status \notin ActiveStatuses
    BY <1>1, <1>4, SettledMoves DEF IsActive
  <2>2. q.status # "QUEUED" BY <2>1 DEF ActiveStatuses
  <2>3. QED BY <1>1, <2>1, <2>2 DEF Fair
<1>5. QED BY <1>2, <1>3, <1>4

LEMMA StepKeepsFair ==
  ASSUME ~MayStall, ChannelInvariant, TypeOK', [Next]_vars
  PROVE  AllFair'
<1>1. ASSUME NEW w \in Workers, SendText(w) \/ SendPhoto(w) PROVE AllFair'
  <2>1. TypeOK /\ AllFair /\ AllAim /\ BaseInvariant
    BY DEF ChannelInvariant, DeliveryInvariant, LeaseInvariant, BaseInvariant, CoreInvariant
  <2>2. cur[w] \in Jobs BY <1>1, <2>1, TurnTends DEF Turn, Deliver, Tends
  <2>3. QED BY <1>1, <2>1, <2>2, SendKeepsFair
<1>2. QED BY <1>1, QuietKeepsFair, StepHears

-----------------------------------------------------------------------------
(* What a worker is about to send, it sends in order.                      *)

LEMMA AliveAims ==
  ASSUME DeliveryInvariant, AllTexted, AllFair, NEW w \in Workers, Alive(w)
  PROVE  Aims(w)
<1> DEFINE m == mem[w]
           j == cur[w]
           r == row[j]
<1>1. /\ TypeOK /\ CopyMade /\ Knows(w) /\ (\A k \in Jobs : JobTold(k))
      /\ AllTexted /\ AllFair
  BY DEF DeliveryInvariant, LeaseInvariant, BaseInvariant, CoreInvariant, AllTold
<1> SUFFICES ASSUME pc[w] \in {"sendText", "sendPhoto"} PROVE Aims(w)
  BY DEF Aims
<1>2. pc[w] \notin EarlySteps /\ pc[w] \notin FreeSteps /\ pc[w] # "refresh"
  BY DEF EarlySteps, FreeSteps
<1>3. j \in Jobs /\ j # NoJob
  BY <1>1, <1>2, BusyHoldsJob, JobsAssumption DEF TypeOK, NoJob
<1>4. InStep(w) /\ At(pc[w], m) BY <1>1, <1>2, <1>3 DEF Knows, InStep
<1>5. /\ Delivered(m, got[j], pics[j], answer[j]) /\ State(m) = State(r)
      /\ r.status = "RUNNING"
  BY <1>1, <1>3, <1>4, CopyDelivered
<1>6. m \in Memory /\ m.man = r.man /\ r \in Receipt /\ m.man \in Manifest /\ m.cursor \in Nat
  BY <1>4, InStepFacts DEF Memory
<1>7. CASE pc[w] = "sendText"
  <2>1. TextLeft(m) /\ (m.man.photos = 0 \/ ~m.man.shared)
    BY <1>4, <1>7 DEF At, TextSteps, EarlySteps, FreeSteps
  <2>2. State(m).text = m.cursor BY <1>6, <2>1, StateFields
  <2>3. QED BY <1>5, <1>7, <2>1, <2>2 DEF Aims, Delivered, Heard, TextLeft
<1>8. CASE pc[w] = "sendPhoto"
  <2>1. m.man.made /\ PhotoLeft(m) /\ (State(m).first => ~TextLeft(m))
    BY <1>4, <1>8 DEF At, PhotoSteps, EarlySteps, FreeSteps
  <2>2. IsActive(j) BY <1>5 DEF IsActive, ActiveStatuses
  <2>3. r.man.first BY <1>1, <1>3, <1>6, <2>1, <2>2 DEF AllFair, Fair, IsActive
  <2>4. State(r).first BY <1>5, <1>6, <2>3, FirstReads DEF Delivered, Formed
  <2>5. ~TextLeft(r) BY <1>5, <1>6, <2>1, <2>4 DEF TextLeft
  <2>6. Delivered(r, got[j], pics[j], answer[j])
    BY <1>1, <1>3, <1>5 DEF JobTold, Told, TerminalStatuses
  <2>7. got[j] = 1..answer[j] BY <1>6, <2>5, <2>6, NoneLeft
  <2>8. answer[j] > 0
    <3>1. State(m).photo \in Nat /\ m.man.photos \in Nat
      BY <1>6, StateFields DEF Progress, Manifest
    <3>2. m.man.photos > 0 BY <2>1, <3>1 DEF PhotoLeft
    <3>3. m.man.texts > 0 BY <1>1, <1>3, <1>6, <2>2, <3>2 DEF AllTexted, Texted
    <3>4. QED BY <1>5, <3>3 DEF Delivered
  <2>9. QED BY <1>8, <2>7, <2>8 DEF Aims
<1>9. QED BY <1>7, <1>8

LEMMA HeldAims == DeliveryInvariant /\ AllTexted /\ AllFair /\ AimUnlessHeld => AllAim
BY AliveAims DEF AimUnlessHeld, AllAim

LEMMA SameAims ==
  ASSUME NEW w \in Workers, Aims(w), pc'[w] = pc[w], cur'[w] = cur[w], mem'[w] = mem[w],
         pc[w] \notin FreeSteps => /\ got'[cur[w]] = got[cur[w]]
                                   /\ answer'[cur[w]] = answer[cur[w]]
  PROVE  Aims(w)'
BY DEF Aims, FreeSteps

LEMMA StepKeepsAim ==
  ASSUME ~MayStall, ChannelInvariant, TypeOK', [Next]_vars
  PROVE  AimUnlessHeld'
<1> SUFFICES ASSUME NEW v \in Workers PROVE Alive(v)' \/ Aims(v)'
  BY DEF AimUnlessHeld
<1>1. TypeOK /\ BaseInvariant /\ LeaseKept /\ LoneWorker /\ Aims(v) /\ LeaseInvariant
  BY DEF ChannelInvariant, DeliveryInvariant, LeaseInvariant, BaseInvariant, CoreInvariant,
         AllAim
<1>2. cur'[v] = NoJob => Aims(v)'
  BY DEF TypeOK, WorkerTypeOK, Aims, FreeSteps
<1>3. CASE UNCHANGED vars BY <1>1, <1>3, SameAims DEF vars
<1>4. CASE Outside
  <2>1. CASE cur'[v] # NoJob
    <3>1. /\ cur'[v] = cur[v] /\ mem'[v] = mem[v] /\ pc'[v] = pc[v]
          /\ UNCHANGED <<got, answer>>
      BY <1>1, <1>4, <2>1, OutsideWorkers, OutsideSilent
    <3>2. QED BY <1>1, <3>1, SameAims
  <2>2. QED BY <1>2, <2>1
<1>5. ASSUME NEW w \in Workers, Turn(w) PROVE Alive(v)' \/ Aims(v)'
  <2>1. Tends(w) BY <1>1, <1>5, TurnTends
  <2>2. cur[w] \in Jobs /\ cur[w] # NoJob BY <2>1, JobsAssumption DEF Tends, NoJob
  <2>3. Observed(w) BY <1>1, <1>5, <2>2, TurnObserved
  <2>4. CASE v # w
    <3>1. pc'[v] = pc[v] /\ cur'[v] = cur[v] /\ mem'[v] = mem[v]
      BY <2>1, <2>4 DEF Tends, Writes
    <3>2. pc[v] \notin FreeSteps => cur[v] \in Jobs /\ cur[v] # cur[w]
      BY <1>1, <2>2, <2>4, BusyHoldsJob, JobsAssumption DEF TypeOK, NoJob, LoneWorker
    <3>3. QED BY <1>1, <2>3, <3>1, <3>2, SameAims DEF Observed
  <2>5. CASE v = w /\ Stops(w) BY <1>2, <2>5 DEF Stops
  <2>6. CASE v = w /\ Continues(w)
    <3>1. CASE Alive(w) BY <2>6, <3>1 DEF Continues
    <3>2. CASE Swept(w) BY <2>6, <3>2 DEF Continues, Swept, Aims, SendSteps
    <3>3. QED BY <1>1, <2>2, <3>1, <3>2 DEF LeaseKept
  <2>7. QED BY <2>1, <2>4, <2>5, <2>6 DEF Tends
<1>6. ASSUME NEW w \in Workers, NEW j \in Jobs, Claim(w, j) PROVE Aims(v)'
  <2>1. /\ cur' = [cur EXCEPT ![w] = j] /\ pc' = [pc EXCEPT ![w] = "check"]
        /\ mem' = [mem EXCEPT ![w] = Copy(Claimed(row[j]))]
        /\ UNCHANGED <<got, answer>>
    BY <1>6 DEF Claim
  <2>2. CASE v = w BY <1>1, <2>1, <2>2 DEF Aims, TypeOK, WorkerTypeOK
  <2>3. CASE v # w
    <3>1. pc'[v] = pc[v] /\ cur'[v] = cur[v] /\ mem'[v] = mem[v]
      BY <1>1, <2>1, <2>3 DEF TypeOK, WorkerTypeOK
    <3>2. QED BY <1>1, <2>1, <3>1, SameAims
  <2>4. QED BY <2>2, <2>3
<1>7. QED BY <1>3, <1>4, <1>5, <1>6, StepKinds

LEMMA InitFair ==
  ASSUME FreshQueue, Init
  PROVE  AllFair /\ AllAim
<1>1. row = [j \in Jobs |-> Absent]
  <2>1. PICK r \in {Absent} : row = [j \in Jobs |-> IF FirstJob(j) THEN r ELSE Absent]
    BY DEF Init, FreshQueue
  <2>2. QED BY <2>1
<1>2. ASSUME NEW j \in Jobs PROVE Fair(row[j], got[j], pics[j], answer[j], leases[j])
  <2>1. row[j] = Absent BY <1>1
  <2>2. Absent.status = "ABSENT" /\ Absent.error = "none" /\ Absent.man = NoManifest
    BY DEF Absent
  <2>3. Seeded(Absent).photo = 0
    BY <2>2 DEF Seeded, DeliveryState, TextOnlyState, NoManifest
  <2>4. pics[j] = 1..0 BY <2>1, <2>3 DEF Init
  <2>5. pics[j] = {} BY <2>4
  <2>6. QED BY <2>1, <2>2, <2>5 DEF Fair, ActiveStatuses
<1>3. AllAim BY DEF Init, AllAim, Aims
<1>4. QED BY <1>2, <1>3 DEF AllFair

LEMMA ChannelKept ==
  ASSUME ~MayStall, FreshQueue
  PROVE  Spec => []ChannelInvariant
<1>1. TextedShapes BY DEF FreshQueue, TextedShapes
<1>2. Init => AllFair /\ AllAim BY InitFair
<1>3. ChannelInvariant /\ TypeOK' /\ [Next]_vars => AllFair' /\ AimUnlessHeld'
  BY StepKeepsFair, StepKeepsAim
<1>4. DeliveryInvariant => TypeOK
  BY DEF DeliveryInvariant, LeaseInvariant, BaseInvariant, CoreInvariant
<1>5. ChannelInvariant <=> DeliveryInvariant /\ AllTexted /\ AllFair /\ AllAim
  BY DEF ChannelInvariant
<1>6. Spec => []DeliveryInvariant BY DeliveryKept
<1>7. Spec => []AllTexted BY <1>1, TextedKept
<1>8. QED BY <1>2, <1>3, <1>4, <1>5, <1>6, <1>7, HeldAims, PTL DEF Spec

(* Pictures never overtake the required text of the answer they belong to, *)
(* over all retries, crashes, recoveries and lost replies (text_first).    *)
THEOREM TextComesFirst ==
  ASSUME ~MayStall, FreshQueue
  PROVE  Spec => []TextBeforePictures
<1>1. ChannelInvariant => TextBeforePictures
  BY DEF ChannelInvariant, AllFair, Fair, TextBeforePictures
<1>2. QED BY <1>1, ChannelKept, PTL

(* Delivery has a budget of its own: an answer that was generated on its   *)
(* last attempt still gets MaxAttempts leases before its text is given up  *)
(* (store_delivery: "generation and delivery have independent budgets").   *)
THEOREM TextGetsItsBudget ==
  ASSUME ~MayStall, FreshQueue
  PROVE  Spec => []FullTextBudget
<1>1. ChannelInvariant => FullTextBudget
  <2> SUFFICES ASSUME ChannelInvariant, NEW j \in Jobs, row[j].error = "exhausted",
                      answer[j] > 0, got[j] # 1..answer[j]
               PROVE  leases[j] >= MaxAttempts
    BY DEF FullTextBudget
  <2>1. Fair(row[j], got[j], pics[j], answer[j], leases[j])
    BY DEF ChannelInvariant, AllFair
  <2>2. QED BY <2>1 DEF Fair
<1>2. QED BY <1>1, ChannelKept, PTL

-----------------------------------------------------------------------------
(* What the chats see is what TelegramChannel allows.                      *)

(* The lengths of text an answer may have. *)
Lengths == {a.texts : a \in Answers \union {OneMessage}}

(* The reply a worker is about to store is one the adviser may give.       *)
Sized(w) == Alive(w) /\ pc[w] \in {"refresh", "store"} => out[w].texts \in Lengths

(* A pending answer that is stored is one the adviser may give. *)
Said(j) == IsActive(j) /\ row[j].man.made => answer[j] \in Lengths

AllSized == \A w \in Workers : Sized(w)
AllSaid  == \A j \in Jobs : Said(j)

PromiseInvariant == ChannelInvariant /\ LateBound /\ AllSized /\ AllSaid

LEMMA MovesToNoReread ==
  ASSUME NEW s, NEW m, NEW t, NEW n, Moves(s, m, t, n)
  PROVE  t \notin {"refresh", "store"}
BY DEF Moves, Stands, DeliverStep, TextStep, AfterPhotos, PhotoStep

(* The facts of an unbroken lease. *)
LEMMA PromiseFacts ==
  ASSUME PromiseInvariant
  PROVE  /\ DeliveryInvariant /\ LeaseInvariant /\ BaseInvariant /\ TypeOK /\ CopyMade
         /\ LeaseKept /\ LateBound /\ AllFair /\ AllAim
         /\ \A j \in Jobs : JobTold(j) /\ Said(j)
         /\ \A w \in Workers : Knows(w) /\ Sized(w)
BY DEF PromiseInvariant, ChannelInvariant, DeliveryInvariant, LeaseInvariant, BaseInvariant,
       CoreInvariant, AllTold, AllSized, AllSaid

(* Only an answer of the adviser becomes the answer of a job. *)
LEMMA PreparesLength ==
  ASSUME BaseInvariant, NEW w \in Workers, Alive(w), Knows(w), Sized(w), cur[w] \in Jobs,
         Turn(w), Prepares(w)
  PROVE  \E n \in Lengths : answer' = [answer EXCEPT ![cur[w]] = n]
<1> DEFINE j == cur[w]
           r == row[j]
           q == row'[j]
<1>1. /\ TypeOK /\ CopyMade /\ r \in Receipt
      /\ cur'[w] = j /\ j # NoJob /\ ~r.man.made /\ q.man.made
  <2>1. cur[w] # NoJob BY JobsAssumption DEF NoJob
  <2>2. PICK a \in [texts: Nat, photos: Nat] : q = Stored(r, a) BY DEF Prepares
  <2>3. TypeOK /\ CopyMade BY DEF BaseInvariant, CoreInvariant
  <2>4. r \in Receipt BY <2>3 DEF TypeOK, DatabaseTypeOK
  <2>5. q.man = NewManifest(a) BY <2>2, <2>4 DEF Stored, Receipt
  <2>6. q.man.made BY <2>5, NewDelivered DEF NewManifest, NoManifest
  <2>7. QED BY <2>1, <2>3, <2>4, <2>6 DEF Prepares
<1>2. CASE StoreDelivery(w)
  <2>1. Owned(w) /\ pc[w] = "store" BY <1>2 DEF Alive, StoreDelivery
  <2>2. answer' = [answer EXCEPT ![j] = Stored(r, out[w]).man.texts]
    BY <1>2, <2>1 DEF StoreDelivery, Materialised
  <2>3. Stored(r, out[w]).man.texts = out[w].texts
    BY <1>1 DEF Stored, NewManifest, NoManifest, Receipt
  <2>4. QED BY <2>1, <2>2, <2>3 DEF Sized
<1>3. CASE ExecuteAdvisor(w)
  <2>1. r.status = "RUNNING" BY DEF Alive, Owned
  <2>2. answer' = [answer EXCEPT ![j] = Stored(r, OneMessage).man.texts]
    BY <1>1, <1>3, <2>1 DEF ExecuteAdvisor, Materialised
  <2>3. Stored(r, OneMessage).man.texts = OneMessage.texts
    BY <1>1 DEF Stored, NewManifest, NoManifest, Receipt
  <2>4. QED BY <2>2, <2>3 DEF Lengths
<1>4. \A s : LetGo(w, s) => cur'[w] = NoJob BY <1>1 DEF LetGo, Rest, TypeOK, WorkerTypeOK
<1>5. CASE Check(w) \/ ExecuteRetry(w) \/ ExecutePermanent(w)
  BY <1>1, <1>4, <1>5
  DEF Check, ExecuteRetry, ExecutePermanent, Finish, RequeueDelivery
<1>6. CASE ExecuteQuestion(w) \/ Refresh(w)
  BY <1>1, <1>6 DEF ExecuteQuestion, Refresh
<1>7. CASE ExecuteNew(w)
  <2>1. UNCHANGED row \/ row' = [row EXCEPT ![j].conv = TRUE] BY <1>7 DEF ExecuteNew
  <2>2. q.man = r.man BY <1>1, <2>1 DEF TypeOK, DatabaseTypeOK, Receipt
  <2>3. QED BY <1>1, <2>2
<1>8. CASE Deliver(w)
  <2>1. pc[w] \notin EarlySteps
    BY <1>8 DEF Deliver, Begin, AuthoriseText, AuthorisePhoto, Authorise, SendText, SendPhoto,
                SettleText, Gate, PhotoOff, Render, SettlePhoto, StartText, FinishDelivered,
                EarlySteps, FreeSteps
  <2>2. mem[w].man.made BY <1>1, <2>1 DEF CopyMade
  <2>3. QED BY <1>1, <2>2 DEF BaseInvariant, CopyFromRow
<1>9. QED BY <1>2, <1>3, <1>5, <1>6, <1>7, <1>8 DEF Turn, Execute

LEMMA DeliverAsksNothing ==
  ASSUME PromiseInvariant, NEW w \in Workers, Alive(w), Deliver(w)
  PROVE  pc'[w] \notin {"refresh", "store"}
<1>1. pc[w] \notin FreeSteps /\ pc[w] # "refresh"
  BY DEF Deliver, Begin, AuthoriseText, AuthorisePhoto, Authorise, SendText, SendPhoto,
         SettleText, Gate, PhotoOff, Render, SettlePhoto, StartText, FinishDelivered, FreeSteps
<1>2. TypeOK /\ CopyMade /\ Knows(w) BY PromiseFacts
<1>3. cur[w] # NoJob BY <1>1, <1>2 DEF TypeOK, WorkerTypeOK
<1>4. InStep(w) BY <1>1, <1>2, <1>3 DEF Knows, InStep
<1>5. CASE SendText(w) \/ SendPhoto(w)
  BY <1>2, <1>5 DEF SendText, SendPhoto, Send, TypeOK, WorkerTypeOK
<1>6. CASE Carries(w) BY <1>6, MovesToNoReread DEF Carries, CarriedTo
<1>7. CASE Confirms(w) BY <1>7 DEF Confirms, CarriedTo, TextStep
<1>8. CASE Shows(w) BY <1>8 DEF Shows, CarriedTo, PhotoStep, AfterPhotos, TextStep
<1>9. CASE Drops(w)
  <2>1. Tends(w) BY PromiseFacts, TurnTends DEF Turn
  <2>2. pc'[w] = "idle" BY <1>3, <1>9, <2>1 DEF Drops, Tends, Continues, Stops
  <2>3. QED BY <2>2
<1>10. QED BY <1>4, <1>5, <1>6, <1>7, <1>8, <1>9, DeliverKinds

LEMMA TurnSizes ==
  ASSUME PromiseInvariant, NEW w \in Workers, Alive(w), Turn(w),
         pc'[w] \in {"refresh", "store"}
  PROVE  out'[w].texts \in Lengths
<1>1. TypeOK /\ Sized(w) BY PromiseFacts
<1>2. \A s : LetGo(w, s) => pc'[w] = "idle" BY <1>1 DEF LetGo, Rest, TypeOK, WorkerTypeOK
<1>3. CASE Check(w)
  BY <1>1, <1>2, <1>3 DEF Check, Finish, Goto, TypeOK, WorkerTypeOK
<1>4. CASE StoreDelivery(w)
  BY <1>1, <1>4 DEF StoreDelivery, Proceed, ProceedIf, Rest, TypeOK, WorkerTypeOK
<1>5. CASE Refresh(w) BY <1>1, <1>5 DEF Refresh, Sized
<1>6. ASSUME NEW a \in Answers \union {OneMessage}, Executed(w, a)
      PROVE  out'[w].texts \in Lengths
  <2>1. out'[w].texts = a.texts BY <1>1, <1>6 DEF Executed, NoOut, TypeOK, WorkerTypeOK
  <2>2. QED BY <2>1 DEF Lengths
<1>7. CASE Execute(w)
  <2>1. OneMessage \in Answers \union {OneMessage} OBVIOUS
  <2>2. CASE ExecuteQuestion(w) BY <1>6, <2>2 DEF ExecuteQuestion
  <2>3. CASE ExecuteNew(w) BY <1>6, <2>1, <2>3 DEF ExecuteNew
  <2>4. CASE ExecuteAdvisor(w)
    BY <1>2, <1>6, <2>1, <2>4 DEF ExecuteAdvisor, RequeueDelivery, Finish
  <2>5. CASE ExecuteRetry(w) \/ ExecutePermanent(w)
    BY <1>2, <2>5 DEF ExecuteRetry, ExecutePermanent, RequeueDelivery, Finish
  <2>6. QED BY <1>7, <2>2, <2>3, <2>4, <2>5 DEF Execute
<1>8. CASE Deliver(w) BY <1>8, DeliverAsksNothing
<1>9. QED BY <1>3, <1>4, <1>5, <1>7, <1>8 DEF Turn

LEMMA StepKeepsSized ==
  ASSUME ~MayStall, PromiseInvariant, TypeOK', [Next]_vars
  PROVE  AllSized'
<1> SUFFICES ASSUME NEW v \in Workers, Alive(v)', pc'[v] \in {"refresh", "store"}
             PROVE  out'[v].texts \in Lengths
  BY DEF AllSized, Sized
<1>1. TypeOK /\ BaseInvariant /\ LeaseInvariant /\ LeaseKept /\ Sized(v) BY PromiseFacts
<1>2. cur'[v] # NoJob BY DEF TypeOK, WorkerTypeOK, FreeSteps
<1>3. CASE UNCHANGED vars BY <1>1, <1>3 DEF vars, Sized, Alive, Owned
<1>4. CASE Outside
  <2>1. cur'[v] = cur[v] /\ mem'[v] = mem[v] /\ pc'[v] = pc[v] /\ out'[v] = out[v]
    BY <1>1, <1>2, <1>4, OutsideWorkers, OutsideSilent
  <2>2. Alive(v)
    <3>1. CASE Swept(v)
      <4>1. Swept(v)' BY <1>1, <1>2, <1>4, <3>1, OutsideKeepsLeases
      <4>2. QED BY <4>1 DEF Swept, Alive, Owned
    <3>2. CASE ~Swept(v) BY <1>1, <1>2, <2>1, <3>2 DEF LeaseKept
    <3>3. QED BY <3>1, <3>2
  <2>3. QED BY <1>1, <2>1, <2>2 DEF Sized
<1>5. ASSUME NEW w \in Workers, Turn(w) PROVE out'[v].texts \in Lengths
  <2>1. Tends(w) /\ cur[w] \in Jobs BY <1>1, <1>5, TurnTends DEF Tends
  <2>2. Observed(w) BY <1>1, <1>5, <2>1, TurnObserved
  <2>3. CASE v # w
    <3>1. pc'[v] = pc[v] /\ cur'[v] = cur[v] /\ mem'[v] = mem[v] /\ out'[v] = out[v]
      BY <2>1, <2>2, <2>3 DEF Tends, Writes, Observed
    <3>2. cur[v] \in Jobs /\ LinkOf[cur[v]] # LinkOf[cur[w]]
      <4>1. cur[v] # NoJob /\ cur[v] \in Jobs BY <1>1, <1>2, <3>1 DEF TypeOK, WorkerTypeOK
      <4>2. cur[w] # NoJob BY <2>1, JobsAssumption DEF NoJob
      <4>3. QED BY <1>1, <2>3, <4>1, <4>2 DEF LeaseInvariant, LoneWorker
    <3>3. row'[cur[v]] = row[cur[v]] BY <2>1, <3>2 DEF Tends, Writes
    <3>4. Alive(v) BY <3>1, <3>3 DEF Alive, Owned
    <3>5. QED BY <1>1, <3>1, <3>4 DEF Sized
  <2>4. CASE v = w
    <3>1. Continues(w) BY <1>2, <2>1, <2>4 DEF Tends, Stops
    <3>2. cur[w] # NoJob BY <2>1, JobsAssumption DEF NoJob
    <3>3. row'[cur[w]].status = "RUNNING" BY <2>4, <3>1 DEF Continues, Alive, Owned
    <3>4. Alive(w) BY <1>1, <3>1, <3>2, <3>3 DEF LeaseKept, Swept, Continues
    <3>5. QED BY <1>5, <2>4, <3>4, TurnSizes
  <2>5. QED BY <2>3, <2>4
<1>6. ASSUME NEW w \in Workers, NEW j \in Jobs, Claim(w, j) PROVE out'[v].texts \in Lengths
  <2>1. /\ cur' = [cur EXCEPT ![w] = j] /\ pc' = [pc EXCEPT ![w] = "check"]
        /\ mem' = [mem EXCEPT ![w] = Copy(Claimed(row[j]))]
        /\ row' = [row EXCEPT ![j] = Claimed(row[j])]
        /\ UNCHANGED out
    BY <1>6 DEF Claim
  <2>2. v # w BY <1>1, <2>1 DEF TypeOK, WorkerTypeOK
  <2>3. pc'[v] = pc[v] /\ cur'[v] = cur[v] /\ mem'[v] = mem[v]
    BY <1>1, <2>1, <2>2 DEF TypeOK, WorkerTypeOK
  <2>4. cur[v] # j BY <1>1, <1>2, <1>6, <2>3, ClaimFindsNoHolder
  <2>5. row'[cur[v]] = row[cur[v]]
    BY <1>1, <1>2, <2>1, <2>3, <2>4 DEF TypeOK, DatabaseTypeOK, WorkerTypeOK
  <2>6. Alive(v) BY <2>3, <2>5 DEF Alive, Owned
  <2>7. QED BY <1>1, <2>1, <2>3, <2>6 DEF Sized
<1>7. QED BY <1>3, <1>4, <1>5, <1>6, StepKinds

LEMMA StepKeepsSaid ==
  ASSUME ~MayStall, PromiseInvariant, TypeOK', [Next]_vars
  PROVE  AllSaid'
<1> SUFFICES ASSUME NEW j \in Jobs, IsActive(j)', row'[j].man.made PROVE answer'[j] \in Lengths
  BY DEF AllSaid, Said
<1> DEFINE r == row[j]
           q == row'[j]
<1>1. /\ TypeOK /\ BaseInvariant /\ DeliveryInvariant /\ Said(j) /\ JobTold(j)
      /\ r \in Receipt /\ q \in Receipt
  BY PromiseFacts DEF TypeOK, DatabaseTypeOK
<1>2. CASE ~IsActive(j)
  <2>1. q.man = NoManifest BY <1>1, <1>2, InactiveMoves
  <2>2. QED BY <2>1 DEF NoManifest
<1>3. CASE IsActive(j) /\ r.man.made /\ answer'[j] = answer[j] BY <1>1, <1>3 DEF Said
<1>4. CASE IsActive(j) /\ q = r /\ answer'[j] = answer[j] BY <1>3, <1>4
<1>5. CASE IsActive(j) /\ RowMoves(r, q) /\ answer'[j] = answer[j]
  <2>1. \A s \in TerminalStatuses : \A e : q # Ended(r, s, e)
    BY <1>1 DEF IsActive, ActiveStatuses, TerminalStatuses, Ended, Receipt
  <2>2. q.man.made = r.man.made
    BY <1>5, <2>1 DEF RowMoves, Resumes, TerminalStatuses
  <2>3. QED BY <1>3, <1>5, <2>2
<1>6. ASSUME NEW w \in Workers, Claim(w, j), IsActive(j) PROVE answer'[j] \in Lengths
  <2>1. q = Claimed(r) /\ answer'[j] = answer[j]
    BY <1>1, <1>6 DEF Claim, TypeOK, DatabaseTypeOK
  <2>2. Formed(r)
    BY <1>1, <1>6
    DEF JobTold, Told, Delivered, IsActive, ActiveStatuses, TerminalStatuses
  <2>3. Resumes(r, q) BY <1>1, <2>1, <2>2, ClaimedResumes
  <2>4. q.man.made = r.man.made BY <2>3 DEF Resumes
  <2>5. QED BY <1>3, <1>6, <2>1, <2>4
<1>7. ASSUME NEW w \in Workers, Turn(w), Alive(w), cur[w] = j, IsActive(j)
      PROVE  answer'[j] \in Lengths
  <2>1. CASE Advances(r, q) /\ UNCHANGED <<answer, leases>>
    BY <1>3, <1>7, <2>1 DEF Advances
  <2>2. CASE Prepares(w)
    <3>1. PICK n \in Lengths : answer' = [answer EXCEPT ![j] = n]
      BY <1>1, <1>7, <2>2, PromiseFacts, PreparesLength
    <3>2. answer'[j] = n BY <1>1, <3>1 DEF TypeOK, SeenTypeOK
    <3>3. QED BY <3>2
  <2>3. CASE Lets(w)
    <3>1. answer'[j] = answer[j] BY <2>3 DEF Lets, Silent
    <3>2. \A s \in TerminalStatuses : \A e : q # Ended(r, s, e)
      BY <1>1 DEF IsActive, ActiveStatuses, TerminalStatuses, Ended, Receipt
    <3>3. q.man = r.man BY <1>7, <2>3, <3>2, LeavesKinds DEF TerminalStatuses
    <3>4. QED BY <1>3, <1>7, <3>1, <3>3
  <2>4. QED BY <1>1, <1>7, <2>1, <2>2, <2>3, TurnMoves
<1>8. QED BY <1>1, <1>2, <1>4, <1>5, <1>6, <1>7, ActiveMoves

LEMMA PromiseKept ==
  ASSUME ~MayStall, FreshQueue
  PROVE  Spec => []PromiseInvariant
<1>1. Init => LateBound BY DEF Init, LateBound
<1>2. Init => AllSized BY DEF Init, AllSized, Sized
<1>3. Init => AllSaid
  <2> SUFFICES ASSUME Init, NEW j \in Jobs, row[j].man.made PROVE FALSE
    BY DEF AllSaid, Said
  <2>1. PICK r \in {Absent} : row = [k \in Jobs |-> IF FirstJob(k) THEN r ELSE Absent]
    BY DEF Init, FreshQueue
  <2>2. row[j] = Absent BY <2>1
  <2>3. QED BY <2>2 DEF Absent, NoManifest
<1>4. PromiseInvariant /\ TypeOK' /\ [Next]_vars => LateBound' /\ AllSized' /\ AllSaid'
  BY PromiseFacts, StepKeepsLate, StepKeepsSized, StepKeepsSaid
<1>5. ChannelInvariant => TypeOK
  BY DEF ChannelInvariant, DeliveryInvariant, LeaseInvariant, BaseInvariant, CoreInvariant
<1>6. PromiseInvariant <=> ChannelInvariant /\ LateBound /\ AllSized /\ AllSaid
  BY DEF PromiseInvariant
<1>7. QED BY <1>1, <1>2, <1>3, <1>4, <1>5, <1>6, ChannelKept, PTL DEF Spec

-----------------------------------------------------------------------------
(* The state the chats see, and what a step comes to that moves some jobs  *)
(* to one stage, or none.                                                  *)

LEMMA ChannelStates ==
  /\ Channel!vars = <<[j \in Jobs |-> Stage(j)], [l \in Links |-> link[l] = "ACTIVE"],
                      answer, [j \in Jobs |-> Cardinality(got[j])], late>>
  /\ Channel!vars' = <<[j \in Jobs |-> Stage(j)'], [l \in Links |-> link'[l] = "ACTIVE"],
                       answer', [j \in Jobs |-> Cardinality(got'[j])], late'>>
BY DEF Channel!vars

LEMMA Stages ==
  ASSUME TypeOK, TypeOK', NEW j \in Jobs
  PROVE  /\ Stage(j) = "absent" <=> row[j].status = "ABSENT"
         /\ Stage(j) = "waiting" <=> row[j].status = "QUEUED"
         /\ Stage(j) = "working" <=> row[j].status = "RUNNING"
         /\ Stage(j) = "answered" <=> row[j].status = "SUCCEEDED"
         /\ Stage(j) = "dropped" <=> row[j].status \in {"FAILED", "CANCELLED"}
         /\ Stage(j)' = "waiting" <=> row'[j].status = "QUEUED"
         /\ Stage(j)' = "working" <=> row'[j].status = "RUNNING"
         /\ Stage(j)' = "answered" <=> row'[j].status = "SUCCEEDED"
         /\ Stage(j)' = "dropped" <=> row'[j].status \in {"FAILED", "CANCELLED"}
<1>1. row[j].status \in Statuses /\ row'[j].status \in Statuses
  BY DEF TypeOK, DatabaseTypeOK, Receipt
<1>2. QED BY <1>1 DEF Stage, Statuses, ActiveStatuses, TerminalStatuses

LEMMA SameStages ==
  ASSUME \A j \in Jobs : row'[j].status = row[j].status,
         UNCHANGED <<link, answer, got, late>>
  PROVE  UNCHANGED Channel!vars
<1>1. \A j \in Jobs : Stage(j)' = Stage(j) BY DEF Stage
<1>2. QED BY <1>1, ChannelStates

LEMMA StageMoves ==
  ASSUME NEW J \in SUBSET Jobs, NEW to,
         \A j \in J : Stage(j)' = to,
         \A j \in Jobs \ J : row'[j].status = row[j].status,
         UNCHANGED <<link, answer, got, late>>
  PROVE  Channel!Move(J, to)
<1>1. \A j \in Jobs \ J : Stage(j)' = Stage(j) BY DEF Stage
<1>2. \A j \in Jobs : Stage(j)' = IF j \in J THEN to ELSE Stage(j) BY <1>1
<1>3. QED BY <1>2 DEF Channel!Move

(* One running job is put back or dropped. *)
LEMMA JobLetGo ==
  ASSUME TypeOK, TypeOK', NEW j \in Jobs, row[j].status = "RUNNING",
         row'[j].status \in {"QUEUED", "FAILED", "CANCELLED"},
         \A k \in Jobs \ {j} : row'[k].status = row[k].status,
         UNCHANGED <<link, answer, got, late>>
  PROVE  [Channel!Next]_(Channel!vars)
<1>1. Stage(j) = "working" BY Stages
<1>2. CASE row'[j].status = "QUEUED"
  <2>1. Channel!Move({j}, "waiting") BY <1>2, Stages, StageMoves
  <2>2. Channel!PutBack(j) BY <1>1, <2>1 DEF Channel!PutBack
  <2>3. QED BY <2>2 DEF Channel!Next
<1>3. CASE row'[j].status # "QUEUED"
  <2>1. Channel!Move({j}, "dropped") BY <1>3, Stages, StageMoves
  <2>2. Channel!Drop(j) BY <1>1, <2>1 DEF Channel!Drop, Channel!Pending
  <2>3. QED BY <2>2 DEF Channel!Next
<1>4. QED BY <1>2, <1>3

-----------------------------------------------------------------------------
(* Each step of the queue is a step of the channel, or none.               *)

LEMMA ChannelAccept ==
  ASSUME Ordered, TypeOK, TypeOK', NEW j \in Jobs, Enqueue(j)
  PROVE  Channel!Accept(j)
<1>1. /\ row' = [row EXCEPT ![j] = [Absent EXCEPT !.status = "QUEUED",
                                                  !.ready = KindOf[j] # "QUESTION"]]
      /\ UNCHANGED <<link, answer, got, late>>
      /\ row[j].status = "ABSENT" /\ link[LinkOf[j]] = "ACTIVE"
      /\ \A k \in Jobs : k > j => row[k].status = "ABSENT"
  BY DEF Enqueue, Quiet
<1>2. row'[j].status = "QUEUED" /\ \A k \in Jobs \ {j} : row'[k] = row[k]
  BY <1>1 DEF TypeOK, DatabaseTypeOK, Absent
<1>3. Channel!Move({j}, "waiting") BY <1>1, <1>2, Stages, StageMoves
<1>4. LinkOf[j] \in Links BY LinkAssumption
<1>5. QED BY <1>1, <1>3, <1>4, Stages DEF Channel!Accept

LEMMA ChannelClose ==
  ASSUME TypeOK, NEW l \in Links, Revoke(l)
  PROVE  Channel!Close(l)
<1>1. /\ link[l] = "ACTIVE" /\ link' = [link EXCEPT ![l] = "REVOKED"]
      /\ UNCHANGED <<row, answer, got, late>>
  BY DEF Revoke
<1>2. [k \in Links |-> link'[k] = "ACTIVE"]
      = [[k \in Links |-> link[k] = "ACTIVE"] EXCEPT ![l] = FALSE]
  BY <1>1 DEF TypeOK, DatabaseTypeOK
<1>3. [j \in Jobs |-> Stage(j)'] = [j \in Jobs |-> Stage(j)] BY <1>1 DEF Stage
<1>4. QED BY <1>1, <1>2, <1>3 DEF Channel!Close

LEMMA ChannelSweep ==
  ASSUME TypeOK, TypeOK', row' = SweptRows, UNCHANGED <<link, answer, got, late>>
  PROVE  Channel!DropClosed
<1> DEFINE J == {j \in Jobs : Channel!Pending(j) /\ ~[l \in Links |-> link[l] = "ACTIVE"][LinkOf[j]]}
<1>1. ASSUME NEW j \in Jobs PROVE j \in J <=> Orphaned(j)
  <2>1. LinkOf[j] \in Links BY LinkAssumption
  <2>2. link[LinkOf[j]] # "ACTIVE" <=> link[LinkOf[j]] = "REVOKED"
    BY <2>1 DEF TypeOK, DatabaseTypeOK
  <2>3. QED BY <2>1, <2>2, Stages DEF Channel!Pending, Orphaned, IsActive, ActiveStatuses
<1>2. ASSUME NEW j \in J PROVE Stage(j)' = "dropped"
  <2>1. row'[j] = Ended(row[j], "CANCELLED", "revoked") BY <1>1, <1>2 DEF SweptRows
  <2>2. row'[j].status = "CANCELLED"
    BY <1>2, <2>1 DEF Ended, TypeOK, DatabaseTypeOK, Receipt
  <2>3. QED BY <1>2, <2>2, Stages
<1>3. \A j \in Jobs \ J : row'[j].status = row[j].status BY <1>1 DEF SweptRows
<1>4. J \subseteq Jobs OBVIOUS
<1> HIDE DEF J
<1>5. Channel!Move(J, "dropped") BY <1>2, <1>3, <1>4, StageMoves
<1>6. QED BY <1>5 DEF Channel!DropClosed, J

LEMMA ChannelRecover ==
  ASSUME TypeOK, TypeOK', NEW w \in Workers, NEW j \in Jobs, RecoverStale(w, j)
  PROVE  [Channel!Next]_(Channel!vars)
<1> DEFINE r == row[j]
           q == Recovered(r, link[LinkOf[j]] = "ACTIVE")
<1>1. UNCHANGED <<link, answer, got, late>> BY DEF RecoverStale, Quiet
<1>2. CASE r.status = "RUNNING" /\ r.expired
  <2>1. row' = [row EXCEPT ![j] = q] BY <1>2 DEF RecoverStale
  <2>2. row'[j] = q /\ \A k \in Jobs \ {j} : row'[k].status = row[k].status
    BY <2>1 DEF TypeOK, DatabaseTypeOK
  <2>3. q.status \in {"QUEUED", "FAILED", "CANCELLED"}
    BY DEF Recovered, GivenUp, Degraded, Requeued, Ended, TypeOK, DatabaseTypeOK, Receipt
  <2>4. QED BY <1>1, <1>2, <2>2, <2>3, JobLetGo
<1>3. CASE ~(r.status = "RUNNING" /\ r.expired)
  <2>1. row' = row BY <1>3 DEF RecoverStale
  <2>2. QED BY <1>1, <2>1, SameStages
<1>4. QED BY <1>2, <1>3

(* No queued job is ever out of attempts. *)
LEMMA ChannelIdle ==
  ASSUME TypeOK, AllFair, NEW w \in Workers, NothingToClaim(w)
  PROVE  UNCHANGED Channel!vars
<1>1. /\ row' = [j \in Jobs |-> FailedIfExhausted(row[j])]
      /\ UNCHANGED <<link, answer, got, late>>
  BY DEF NothingToClaim, Quiet
<1>2. ASSUME NEW j \in Jobs PROVE row'[j] = row[j]
  <2>1. row[j].attempts \in Nat BY RowFields DEF TypeOK, DatabaseTypeOK
  <2>2. ~Exhausted(row[j]) BY <2>1, AttemptsAssumption DEF AllFair, Fair, Exhausted
  <2>3. QED BY <1>1, <2>2 DEF FailedIfExhausted
<1>3. QED BY <1>1, <1>2, SameStages

LEMMA ChannelOutside ==
  ASSUME Ordered, TypeOK, TypeOK', AllFair, Outside
  PROVE  [Channel!Next]_(Channel!vars)
<1>1. ASSUME NEW j \in Jobs, Enqueue(j) PROVE [Channel!Next]_(Channel!vars)
  BY <1>1, ChannelAccept DEF Channel!Next
<1>2. ASSUME NEW j \in Jobs, Release(j) \/ ExpireLease(j) PROVE UNCHANGED Channel!vars
  <2>1. \A k \in Jobs : row'[k].status = row[k].status
    BY <1>2 DEF Release, ExpireLease, TypeOK, DatabaseTypeOK, Receipt
  <2>2. QED BY <1>2, <2>1, SameStages DEF Release, ExpireLease, Quiet
<1>3. ASSUME NEW l \in Links, Revoke(l) PROVE [Channel!Next]_(Channel!vars)
  BY <1>3, ChannelClose DEF Channel!Next
<1>4. ASSUME SweepOnUnlink \/ \E w \in Workers : Sweep(w)
      PROVE  [Channel!Next]_(Channel!vars)
  <2>1. row' = SweptRows /\ UNCHANGED <<link, answer, got, late>>
    BY <1>4 DEF SweepOnUnlink, Sweep, Quiet
  <2>2. QED BY <2>1, ChannelSweep DEF Channel!Next
<1>5. ASSUME NEW w \in Workers, NEW j \in Jobs, RecoverStale(w, j)
      PROVE  [Channel!Next]_(Channel!vars)
  BY <1>5, ChannelRecover
<1>6. ASSUME NEW w \in Workers, NothingToClaim(w) PROVE UNCHANGED Channel!vars
  BY <1>6, ChannelIdle
<1>7. ASSUME NEW w \in Workers,
             Restart(w) \/ Crash(w) \/ \E j \in Jobs : ClaimConflict(w, j)
      PROVE  UNCHANGED Channel!vars
  <2>1. UNCHANGED <<row, link, answer, got, late>>
    BY <1>7 DEF Restart, Crash, ClaimConflict, Quiet
  <2>2. QED BY <2>1, SameStages
<1>8. QED BY <1>1, <1>2, <1>3, <1>4, <1>5, <1>6, <1>7 DEF Outside

LEMMA ChannelStart ==
  ASSUME TypeOK, TypeOK', NEW w \in Workers, NEW j \in Jobs, Claim(w, j),
         UNCHANGED got
  PROVE  Channel!Start(j)
<1>1. /\ row' = [row EXCEPT ![j] = Claimed(row[j])]
      /\ UNCHANGED <<link, answer, got, late>>
      /\ Eligible(j) /\ ~SiblingRunning(j)
  BY DEF Claim, NextClaim
<1>2. row'[j].status = "RUNNING" /\ \A k \in Jobs \ {j} : row'[k] = row[k]
  <2>1. row'[j] = Claimed(row[j]) /\ row[j] \in Receipt
    BY <1>1 DEF TypeOK, DatabaseTypeOK
  <2>2. Claimed(row[j]).status = "RUNNING"
    BY <2>1 DEF Claimed, Leased, Degraded, Requeued, Receipt
  <2>3. QED BY <1>1, <2>1, <2>2 DEF TypeOK, DatabaseTypeOK
<1>3. Channel!Move({j}, "working") BY <1>1, <1>2, Stages, StageMoves
<1>4. LinkOf[j] \in Links BY LinkAssumption
<1>5. \A k \in Siblings(j) : k \in Jobs /\ row[k].status # "RUNNING" /\ (k < j => ~IsActive(k))
  BY <1>1 DEF Eligible, SiblingRunning, Siblings
<1>6. \A k \in Channel!Siblings(j) :
        Stage(k) # "working" /\ (k < j => ~Channel!Pending(k))
  BY <1>5, Stages DEF Channel!Siblings, Siblings, Channel!Pending, IsActive, ActiveStatuses
<1>7. Stage(j) = "waiting" BY <1>1, Stages DEF Eligible
<1>8. \A k \in Channel!Siblings(j) : k \in Jobs BY DEF Channel!Siblings
<1>9. QED BY <1>1, <1>3, <1>4, <1>6, <1>7, <1>8 DEF Channel!Start, Eligible

(* A text item more, or the one already heard again. *)
LEMMA HeardOneMore ==
  ASSUME NEW c \in Nat, NEW g \in {1..c, 1..(c + 1)}
  PROVE  /\ Cardinality(g \union {c + 1}) = c + 1
         /\ \/ g = 1..c /\ Cardinality(g) = c
            \/ g \union {c + 1} = g
<1>1. g \union {c + 1} = 1..(c + 1) OBVIOUS
<1>2. Cardinality(1..c) = c /\ Cardinality(1..(c + 1)) = c + 1 BY FS_Interval
<1>3. QED BY <1>1, <1>2

LEMMA SendSeen ==
  ASSUME TypeOK, NEW w \in Workers, cur[w] \in Jobs, Aims(w), SendText(w) \/ SendPhoto(w)
  PROVE  LET j == cur[w]  l == LinkOf[cur[w]]
         IN  /\ UNCHANGED <<row, link, answer>>
             /\ pc[w] \in SendSteps /\ answer[j] > 0
             /\ \A k \in Jobs \ {j} : got'[k] = got[k]
             /\ \/ UNCHANGED <<got, late>>
                \/ /\ late' = IF LinkActive(w) THEN late ELSE [late EXCEPT ![l] = @ + 1]
                   /\ \/ Cardinality(got[j]) < answer[j]
                         /\ Cardinality(got'[j]) = Cardinality(got[j]) + 1
                      \/ got'[j] = got[j]
<1> DEFINE j == cur[w]
           c == mem[w].cursor
<1>1. UNCHANGED <<row, link, answer>> BY DEF SendText, SendPhoto, Send
<1>2. c \in Nat /\ answer[j] \in Nat BY DEF TypeOK, WorkerTypeOK, Memory, SeenTypeOK
<1>3. CASE SendText(w)
  <2>1. PICK x \in Replies :
          /\ Send(w, x, "sentText")
          /\ got' = IF x.seen THEN [got EXCEPT ![j] = @ \union {c + 1}] ELSE got
    BY <1>3 DEF SendText
  <2>2. pc[w] = "sendText" BY <1>3 DEF SendText
  <2>3. c < answer[j] /\ got[j] \in {1..c, 1..(c + 1)} BY <2>2 DEF Aims
  <2>4. CASE x.seen
    <3>1. got'[j] = got[j] \union {c + 1} /\ \A k \in Jobs \ {j} : got'[k] = got[k]
      BY <2>1, <2>4 DEF TypeOK, SeenTypeOK
    <3>2. \/ Cardinality(got[j]) = c /\ Cardinality(got'[j]) = c + 1
          \/ got'[j] = got[j]
      BY <1>2, <2>3, <3>1, HeardOneMore
    <3>3. late' = IF LinkActive(w) THEN late ELSE [late EXCEPT ![LinkOf[j]] = @ + 1]
      BY <2>1, <2>4 DEF Send
    <3>4. QED BY <1>1, <1>2, <2>2, <2>3, <3>1, <3>2, <3>3 DEF SendSteps
  <2>5. CASE ~x.seen
    <3>1. UNCHANGED <<got, late>> BY <2>1, <2>5 DEF Send
    <3>2. QED BY <1>1, <1>2, <2>2, <2>3, <3>1 DEF SendSteps
  <2>6. QED BY <2>4, <2>5
<1>4. CASE SendPhoto(w)
  <2>1. PICK x \in Replies : Send(w, x, "sentPhoto") BY <1>4 DEF SendPhoto
  <2>2. pc[w] = "sendPhoto" /\ UNCHANGED got BY <1>4 DEF SendPhoto
  <2>3. answer[j] > 0 BY <2>2 DEF Aims
  <2>4. \/ UNCHANGED late
        \/ late' = IF LinkActive(w) THEN late ELSE [late EXCEPT ![LinkOf[j]] = @ + 1]
    BY <2>1 DEF Send
  <2>5. QED BY <1>1, <2>2, <2>3, <2>4 DEF SendSteps
<1>5. QED BY <1>3, <1>4

LEMMA ChannelArrive ==
  ASSUME PromiseInvariant, TypeOK', NEW w \in Workers, SendText(w) \/ SendPhoto(w)
  PROVE  [Channel!Next]_(Channel!vars)
<1> DEFINE j == cur[w]
           l == LinkOf[j]
<1>1. TypeOK /\ LeaseKept /\ LateBound /\ Aims(w) /\ BaseInvariant
  BY PromiseFacts DEF AllAim
<1>2. j \in Jobs /\ j # NoJob
  BY <1>1, TurnTends, JobsAssumption DEF Turn, Deliver, Tends, NoJob
<1>3. l \in Links BY <1>2, LinkAssumption
<1>4. /\ UNCHANGED <<row, link, answer>>
      /\ pc[w] \in SendSteps /\ answer[j] > 0
      /\ \A k \in Jobs \ {j} : got'[k] = got[k]
  BY <1>1, <1>2, SendSeen
<1>5. CASE UNCHANGED <<got, late>> BY <1>4, <1>5, SameStages
<1>6. ASSUME late' = IF LinkActive(w) THEN late ELSE [late EXCEPT ![l] = @ + 1],
             \/ /\ Cardinality(got[j]) < answer[j]
                /\ Cardinality(got'[j]) = Cardinality(got[j]) + 1
             \/ got'[j] = got[j]
      PROVE  Channel!Arrive(j)
  <2>1. [k \in Jobs |-> Stage(k)'] = [k \in Jobs |-> Stage(k)] BY <1>4 DEF Stage
  <2>2. \/ /\ Cardinality(got[j]) < answer[j]
           /\ [k \in Jobs |-> Cardinality(got'[k])]
              = [[k \in Jobs |-> Cardinality(got[k])] EXCEPT ![j] = @ + 1]
        \/ [k \in Jobs |-> Cardinality(got'[k])] = [k \in Jobs |-> Cardinality(got[k])]
    BY <1>2, <1>4, <1>6
  <2>3. CASE LinkActive(w)
    <3>1. row[j].status = "RUNNING"
      BY <1>1, <1>2, <2>3 DEF LeaseKept, Alive, Owned, Swept
    <3>2. Stage(j) = "working" BY <1>1, <1>2, <3>1, Stages
    <3>3. link[l] = "ACTIVE" BY <2>3 DEF LinkActive
    <3>4. UNCHANGED late BY <1>6, <2>3
    <3>5. QED BY <1>2, <1>3, <1>4, <2>1, <2>2, <3>2, <3>3, <3>4 DEF Channel!Arrive
  <2>4. CASE ~LinkActive(w)
    <3>1. row[j].status \in {"RUNNING", "CANCELLED"}
      BY <1>1, <1>2 DEF LeaseKept, Alive, Owned, Swept
    <3>2. Stage(j) \in {"working", "dropped"} BY <1>1, <1>2, <3>1, Stages
    <3>3. link[l] # "ACTIVE" BY <2>4 DEF LinkActive
    <3>4. late[l] = 0 BY <1>1, <1>2, <1>3, <1>4 DEF LateBound
    <3>5. late' = [late EXCEPT ![l] = 1] BY <1>6, <2>4, <3>4
    <3>6. QED BY <1>2, <1>3, <1>4, <2>1, <2>2, <3>2, <3>3, <3>4, <3>5 DEF Channel!Arrive
  <2>5. QED BY <2>3, <2>4
<1>7. QED BY <1>1, <1>2, <1>5, <1>6, SendSeen DEF Channel!Next

LEMMA ChannelPrepare ==
  ASSUME PromiseInvariant, TypeOK', NEW w \in Workers, Turn(w), Alive(w),
         Prepares(w), UNCHANGED <<got, late>>
  PROVE  Channel!Prepare(cur[w])
<1> DEFINE j == cur[w]
           r == row[j]
<1>1. TypeOK /\ BaseInvariant /\ Knows(w) /\ Sized(w) BY PromiseFacts
<1>2. Tends(w) /\ j \in Jobs BY <1>1, TurnTends DEF Tends
<1>3. r \in Receipt /\ r.status = "RUNNING" /\ ~r.man.made
  BY <1>1, <1>2 DEF TypeOK, DatabaseTypeOK, Alive, Owned, Prepares
<1>4. PICK n \in Lengths : answer' = [answer EXCEPT ![j] = n]
  BY <1>1, <1>2, PreparesLength
<1>5. answer[j] = 0
  <2>1. Delivered(r, got[j], pics[j], answer[j])
    BY <1>2, <1>3, PromiseFacts DEF JobTold, Told, TerminalStatuses
  <2>2. QED BY <1>3, <2>1, UnmadeReads DEF Delivered
<1>6. row'[j].status = r.status
  <2>1. PICK a \in [texts: Nat, photos: Nat] : row'[j] = Stored(r, a) BY DEF Prepares
  <2>2. QED BY <1>3, <2>1 DEF Stored, Receipt
<1>7. \A k \in Jobs : row'[k].status = row[k].status /\ link' = link
  BY <1>2, <1>6 DEF Tends, Writes
<1>8. \A k \in Jobs : Stage(k)' = Stage(k) BY <1>7 DEF Stage
<1>9. Stage(j) = "working" BY <1>1, <1>2, <1>3, Stages
<1>10. link' = link BY <1>2 DEF Tends, Writes
<1>11. QED BY <1>2, <1>4, <1>5, <1>8, <1>9, <1>10 DEF Channel!Prepare, Lengths

LEMMA EndedReads ==
  ASSUME NEW r \in Receipt, NEW s, NEW e
  PROVE  Ended(r, s, e).status = s /\ Ended(r, s, e).man.made = r.man.made
BY DEF Ended, NoManifest, Receipt

LEMMA ChannelAnswer ==
  ASSUME ~MayStall, PromiseInvariant, TypeOK', [Next]_vars, NEW w \in Workers, Turn(w),
         Lets(w), row'[cur[w]].status = "SUCCEEDED", UNCHANGED late
  PROVE  Channel!Answer(cur[w])
<1> DEFINE j == cur[w]
           r == row[j]
           q == row'[j]
<1>1. TypeOK /\ BaseInvariant /\ DeliveryInvariant BY PromiseFacts
<1>2. Tends(w) /\ j \in Jobs BY <1>1, TurnTends DEF Tends
<1>3. r \in Receipt /\ r.status = "RUNNING" /\ Silent BY LeavesKinds DEF Lets
<1>4. Told(q, got'[j], pics'[j], answer'[j])
  BY <1>1, <1>2, StepKeepsTold DEF AllTold, JobTold
<1>5. q.man.made /\ got[j] = 1..answer[j] BY <1>3, <1>4 DEF Told, Silent
<1>6. \E e \in {"none", "degraded"} : q = Ended(r, "SUCCEEDED", e)
  BY <1>3, EndedReads, LeavesKinds
<1>7. r.man.made BY <1>3, <1>5, <1>6, EndedReads
<1>8. answer[j] \in Lengths
  BY <1>2, <1>3, <1>7, PromiseFacts DEF Said, IsActive, ActiveStatuses
<1>9. answer[j] \in Nat BY <1>1, <1>2 DEF TypeOK, SeenTypeOK
<1>10. Cardinality(got[j]) = answer[j] BY <1>5, <1>9, FS_Interval
<1>11. \A k \in Jobs \ {j} : row'[k].status = row[k].status BY <1>2 DEF Tends, Writes
<1>12. UNCHANGED <<link, answer, got, late>> BY <1>2, <1>3 DEF Tends, Writes, Silent
<1>13. Channel!Move({j}, "answered") BY <1>1, <1>2, <1>11, <1>12, Stages, StageMoves
<1>14. Stage(j) = "working" BY <1>1, <1>2, <1>3, Stages
<1>15. QED BY <1>2, <1>8, <1>9, <1>10, <1>13, <1>14 DEF Channel!Answer, Lengths

LEMMA ChannelTurn ==
  ASSUME ~MayStall, PromiseInvariant, TypeOK', [Next]_vars,
         NEW w \in Workers, Turn(w), UNCHANGED <<got, late>>
  PROVE  [Channel!Next]_(Channel!vars)
<1> DEFINE j == cur[w]
           r == row[j]
           q == row'[j]
<1>1. TypeOK /\ BaseInvariant /\ DeliveryInvariant /\ LeaseKept BY PromiseFacts
<1>2. Tends(w) /\ j \in Jobs /\ j # NoJob
  BY <1>1, TurnTends, JobsAssumption DEF Tends, NoJob
<1>3. UNCHANGED link /\ \A k \in Jobs \ {j} : row'[k].status = row[k].status
  BY <1>2 DEF Tends, Writes
<1>4. ASSUME q.status = r.status, UNCHANGED answer PROVE UNCHANGED Channel!vars
  <2>1. \A k \in Jobs : row'[k].status = row[k].status BY <1>3, <1>4
  <2>2. QED BY <1>3, <1>4, <2>1, SameStages
<1>5. CASE Swept(w)
  <2>1. r.status # "RUNNING" BY <1>5 DEF Swept
  <2>2. QED BY <1>1, <1>2, <1>4, <2>1, UnownedTurn
<1>6. CASE Alive(w)
  <2>1. CASE Advances(r, q) /\ UNCHANGED <<answer, leases>>
    BY <1>4, <2>1 DEF Advances
  <2>2. CASE Prepares(w)
    BY <1>2, <1>6, <2>2, ChannelPrepare DEF Channel!Next
  <2>3. CASE Lets(w)
    <3>1. r \in Receipt /\ r.status = "RUNNING" /\ UNCHANGED answer
      BY <2>3, LeavesKinds DEF Lets, Silent
    <3>2. q.status \in {"QUEUED", "SUCCEEDED", "FAILED", "CANCELLED"}
      BY <2>3, <3>1, EndedReads, LeavesKinds
    <3>3. CASE q.status = "SUCCEEDED"
      BY <1>2, <2>3, <3>3, ChannelAnswer DEF Channel!Next
    <3>4. CASE q.status # "SUCCEEDED"
      BY <1>1, <1>2, <1>3, <3>1, <3>2, <3>4, JobLetGo
    <3>5. QED BY <3>3, <3>4
  <2>4. QED BY <1>1, <1>6, <2>1, <2>2, <2>3, TurnMoves
<1>7. QED BY <1>1, <1>2, <1>5, <1>6 DEF LeaseKept

LEMMA ChannelInit == FreshQueue /\ Init => Channel!Init
<1> SUFFICES ASSUME FreshQueue, Init PROVE Channel!Init
  OBVIOUS
<1>1. PICK r \in {Absent} : row = [j \in Jobs |-> IF FirstJob(j) THEN r ELSE Absent]
  BY DEF Init, FreshQueue
<1>2. \A j \in Jobs : row[j] = Absent BY <1>1
<1>3. ASSUME NEW j \in Jobs
      PROVE  Stage(j) = "absent" /\ answer[j] = 0 /\ Cardinality(got[j]) = 0
  <2>1. Stage(j) = "absent" BY <1>2 DEF Stage, Absent
  <2>2. answer[j] = 0 BY <1>2 DEF Init, Absent, NoManifest
  <2>3. Seeded(row[j]).text = 0
    BY <1>2 DEF Seeded, DeliveryState, TextOnlyState, Absent, NoManifest
  <2>4. got[j] = 1..0 BY <2>3 DEF Init
  <2>5. got[j] = {} BY <2>4
  <2>6. QED BY <2>1, <2>2, <2>5, FS_EmptySet
<1>4. answer = [j \in Jobs |-> 0] BY <1>3 DEF Init
<1>5. \A l \in Links : link[l] = "ACTIVE" BY DEF Init
<1>6. late = [l \in Links |-> 0] BY DEF Init
<1>7. QED BY <1>3, <1>4, <1>5, <1>6 DEF Channel!Init

LEMMA ChannelNext ==
  ASSUME ~MayStall, Ordered
  PROVE  PromiseInvariant /\ TypeOK' /\ [Next]_vars => [Channel!Next]_(Channel!vars)
<1> SUFFICES ASSUME PromiseInvariant, TypeOK', [Next]_vars
             PROVE  [Channel!Next]_(Channel!vars)
  OBVIOUS
<1>1. TypeOK /\ AllFair BY PromiseFacts
<1>2. CASE \E w \in Workers : SendText(w) \/ SendPhoto(w) BY <1>2, ChannelArrive
<1>3. CASE UNCHANGED <<got, late>>
  <2>1. CASE UNCHANGED vars BY <2>1, SameStages DEF vars
  <2>2. CASE Outside BY <1>1, <2>2, ChannelOutside
  <2>3. CASE \E w \in Workers : Turn(w) BY <1>3, <2>3, ChannelTurn
  <2>4. CASE \E w \in Workers, j \in Jobs : Claim(w, j)
    BY <1>1, <1>3, <2>4, ChannelStart DEF Channel!Next
  <2>5. QED BY <2>1, <2>2, <2>3, <2>4, StepKinds
<1>4. QED BY <1>2, <1>3, StepHears, StepLate

(* The queue keeps the promise of the abstract channel, for any number of  *)
(* chats, updates, workers, crashes and lost replies: one update of a chat *)
(* at a time and in order, its items in order, answered only when all have *)
(* arrived, and after a revocation no new answer and at most one late item.*)
THEOREM QueueImplementsChannel ==
  ASSUME ~MayStall, FreshQueue, Ordered
  PROVE  Spec => ImplementsChannel
<1>1. FreshQueue /\ Init => Channel!Init BY ChannelInit
<1>2. PromiseInvariant /\ TypeOK' /\ [Next]_vars => [Channel!Next]_(Channel!vars)
  BY ChannelNext
<1>3. PromiseInvariant => TypeOK BY PromiseFacts
<1>4. Spec => []PromiseInvariant BY PromiseKept
<1>5. QED BY <1>1, <1>2, <1>3, <1>4, PTL DEF Spec, ImplementsChannel, Channel!Spec

=============================================================================
