------------------------- MODULE TelegramJobsProofs -------------------------
(* Theorems about the Telegram queue, for any number of updates, links,    *)
(* workers, attempts, items and faults.                                    *)
EXTENDS TelegramJobsProperties, TLAPS

(* What reading a manifest returns. *)
Progress == [photo: Nat, tries: Nat, text: Nat, started: BOOLEAN,
             takeover: BOOLEAN, first: BOOLEAN]

(* Every generation of manifests is read as progress of the same type.     *)
LEMMA DeliveryStateType ==
  ASSUME NEW m \in Manifest, NEW c \in Nat
  PROVE  DeliveryState(m, c) \in Progress
BY DEF DeliveryState, TextOnlyState, SharedCursorState, SplitCursorState,
       Manifest, Progress

LEMMA NoManifestType == NoManifest \in Manifest
BY DEF NoManifest, Manifest

LEMMA NewManifestType ==
  ASSUME NEW a \in [texts: Nat, photos: Nat]
  PROVE  NewManifest(a) \in Manifest /\ NewManifest(a).made
BY DEF NewManifest, NoManifest, Manifest

LEMMA AbsentType == Absent \in Receipt
BY NoManifestType DEF Absent, Receipt, Statuses, Errors

LEMMA EndedType ==
  ASSUME NEW r \in Receipt, NEW s \in TerminalStatuses, NEW e \in Errors
  PROVE  /\ Ended(r, s, e) \in Receipt
         /\ Ended(r, s, e).status = s
         /\ Ended(r, s, e).man.made = r.man.made
         /\ Ended(r, s, e).conv = r.conv
BY DEF Ended, Receipt, NoManifest, Manifest, Statuses

LEMMA RequeuedType ==
  ASSUME NEW r \in Receipt, NEW b \in BOOLEAN
  PROVE  /\ Requeued(r, b) \in Receipt
         /\ Requeued(r, b).status = "QUEUED"
         /\ Requeued(r, b).man = r.man
         /\ Requeued(r, b).conv = r.conv
BY DEF Requeued, Receipt, Statuses, ActiveStatuses

LEMMA DegradedType ==
  ASSUME NEW r \in Receipt
  PROVE  /\ Degraded(r) \in Receipt
         /\ Degraded(r).status = "QUEUED"
         /\ Degraded(r).man.made = r.man.made
         /\ Degraded(r).conv = r.conv
<1>1. r.man \in Manifest /\ r.cursor \in Nat BY DEF Receipt
<1>2. DeliveryState(r.man, r.cursor) \in Progress BY <1>1, DeliveryStateType
<1> DEFINE s == DeliveryState(r.man, r.cursor)
<1>3. s \in Progress BY <1>2
<1> DEFINE m == [r.man EXCEPT !.shared = FALSE, !.photo = r.man.photos,
                              !.tries = s.tries, !.started = TRUE,
                              !.degraded = @ \/ s.photo < r.man.photos]
           q == Requeued(r, TRUE)
<1>4. Degraded(r) = [q EXCEPT !.man = m, !.cursor = s.text,
                              !.attempts = IF s.takeover THEN @ ELSE 0]
  BY DEF Degraded
<1>5. m \in Manifest /\ m.made = r.man.made
  <2> HIDE DEF s
  <2>1. s.tries \in Nat /\ s.photo \in Nat BY <1>3 DEF Progress
  <2>2. QED BY <1>1, <2>1 DEF Manifest
<1>6. q \in Receipt /\ q.status = "QUEUED" /\ q.conv = r.conv
  BY RequeuedType
<1> DEFINE n == IF s.takeover THEN q.attempts ELSE 0
<1>7. s.text \in Nat /\ n \in Nat
  <2> HIDE DEF s, q
  <2>1. QED BY <1>3, <1>6 DEF Progress, Receipt
<1>8. Degraded(r) = [q EXCEPT !.man = m, !.cursor = s.text, !.attempts = n]
  BY <1>4
<1>9. QED
  <2> HIDE DEF s, m, q, n
  <2>1. QED BY <1>5, <1>6, <1>7, <1>8 DEF Receipt

LEMMA GivenUpType ==
  ASSUME NEW r \in Receipt
  PROVE  /\ GivenUp(r) \in Receipt
         /\ GivenUp(r).status \in {"QUEUED", "FAILED"}
         /\ GivenUp(r).man.made = r.man.made
         /\ GivenUp(r).conv = r.conv
<1>1. "FAILED" \in TerminalStatuses /\ "exhausted" \in Errors
  BY DEF TerminalStatuses, Errors
<1>2. CASE CanDegrade(r) BY <1>2, DegradedType DEF GivenUp
<1>3. CASE ~CanDegrade(r) BY <1>1, <1>3, EndedType DEF GivenUp
<1>4. QED BY <1>2, <1>3

LEMMA RecoveredType ==
  ASSUME NEW r \in Receipt, NEW active \in BOOLEAN
  PROVE  /\ Recovered(r, active) \in Receipt
         /\ Recovered(r, active).status \in {"QUEUED", "FAILED", "CANCELLED"}
         /\ Recovered(r, active).man.made = r.man.made
         /\ Recovered(r, active).conv = r.conv
<1>1. "CANCELLED" \in TerminalStatuses /\ "revoked" \in Errors
  BY DEF TerminalStatuses, Errors
<1>2. CASE ~active BY <1>1, <1>2, EndedType DEF Recovered
<1>3. CASE active /\ (PhotoBudgetExhausted(r) \/ r.attempts >= MaxAttempts)
  BY <1>3, GivenUpType DEF Recovered
<1>4. CASE active /\ ~(PhotoBudgetExhausted(r) \/ r.attempts >= MaxAttempts)
  BY <1>4, RequeuedType DEF Recovered
<1>5. QED BY <1>2, <1>3, <1>4

LEMMA LeasedType ==
  ASSUME NEW r \in Receipt
  PROVE  /\ Leased(r) \in Receipt
         /\ Leased(r).status = "RUNNING"
         /\ Leased(r).man = r.man
         /\ Leased(r).conv = r.conv
<1> DEFINE n == IF PendingPhotos(r) THEN 0 ELSE r.attempts + 1
<1>1. n \in Nat BY DEF Receipt
<1>2. Leased(r) = [r EXCEPT !.status = "RUNNING", !.claims = @ + 1,
                            !.expired = FALSE, !.attempts = n]
  BY DEF Leased
<1>3. r.claims + 1 \in Nat BY DEF Receipt
<1>4. "RUNNING" \in Statuses BY DEF Statuses, ActiveStatuses
<1>5. QED
  <2> HIDE DEF n
  <2>1. Leased(r) \in Receipt BY <1>1, <1>2, <1>3, <1>4 DEF Receipt
  <2>2. QED BY <1>2, <2>1 DEF Receipt

LEMMA ClaimedType ==
  ASSUME NEW r \in Receipt
  PROVE  /\ Claimed(r) \in Receipt
         /\ Claimed(r).status = "RUNNING"
         /\ Claimed(r).man.made = r.man.made
         /\ Claimed(r).conv = r.conv
<1>1. CASE PhotoBudgetExhausted(r) BY <1>1, DegradedType, LeasedType DEF Claimed
<1>2. CASE ~PhotoBudgetExhausted(r) BY <1>2, LeasedType DEF Claimed
<1>3. QED BY <1>1, <1>2

LEMMA MaterialisedType ==
  ASSUME NEW r \in Receipt, NEW m \in Manifest
  PROVE  [r EXCEPT !.man = m, !.cursor = 0, !.attempts = 1,
                   !.expired = FALSE] \in Receipt
BY DEF Receipt

LEMMA StoredType ==
  ASSUME NEW r \in Receipt, NEW a, a.texts \in Nat, a.photos \in Nat
  PROVE  /\ Stored(r, a) \in Receipt
         /\ Stored(r, a).status = r.status
         /\ Stored(r, a).man.made
         /\ Stored(r, a).conv = r.conv
<1> DEFINE m == NewManifest(a)
<1>1. m \in Manifest /\ m.made BY DEF NewManifest, NoManifest, Manifest
<1>2. Stored(r, a) = [r EXCEPT !.man = m, !.cursor = 0, !.attempts = 1,
                               !.expired = FALSE]
  BY DEF Stored
<1> HIDE DEF m
<1>3. Stored(r, a) \in Receipt BY <1>1, <1>2, MaterialisedType
<1>4. QED BY <1>1, <1>2, <1>3 DEF Receipt

LEMMA CopyType ==
  ASSUME NEW r \in Receipt
  PROVE  Copy(r) \in Memory /\ Copy(r).man = r.man
BY DEF Copy, Receipt, Memory

-----------------------------------------------------------------------------
(* How the writes of a worker move it and its row. *)

LEMMA BusyHoldsJob ==
  ASSUME WorkerTypeOK, NEW w \in Workers, pc[w] \notin FreeSteps
  PROVE  cur[w] \in Jobs
BY JobsAssumption DEF WorkerTypeOK, NoJob

LEMMA RestType ==
  ASSUME WorkerTypeOK, NEW w \in Workers, Rest(w), UNCHANGED todo
  PROVE  WorkerTypeOK'
<1>1. NoMem \in Memory BY NoManifestType DEF NoMem, Memory
<1>2. NoOut \in Outcome BY DEF NoOut, Outcome
<1>3. QED BY <1>1, <1>2 DEF WorkerTypeOK, Rest, Steps, FreeSteps

LEMMA GotoType ==
  ASSUME WorkerTypeOK, NEW w \in Workers, pc[w] \notin FreeSteps,
         NEW step \in Steps \ FreeSteps, Goto(w, step)
  PROVE  WorkerTypeOK'
BY DEF WorkerTypeOK, Goto, Steps, FreeSteps

LEMMA ProceedIfType ==
  ASSUME DatabaseTypeOK, WorkerTypeOK, NEW w \in Workers, pc[w] \notin FreeSteps,
         NEW matches, NEW r \in Receipt, NEW m \in Memory, NEW step \in Steps \ FreeSteps,
         ProceedIf(w, matches, r, m, step)
  PROVE  row' \in [Jobs -> Receipt] /\ WorkerTypeOK'
<1>1. cur[w] \in Jobs BY BusyHoldsJob
<1>2. CASE Owned(w) /\ matches
  <2>1. row' \in [Jobs -> Receipt] BY <1>1, <1>2 DEF ProceedIf, DatabaseTypeOK
  <2>2. NoOut \in Outcome BY DEF NoOut, Outcome
  <2>3. WorkerTypeOK' BY <1>2, <2>2 DEF ProceedIf, WorkerTypeOK
  <2>4. QED BY <2>1, <2>3
<1>3. CASE ~(Owned(w) /\ matches)
  BY <1>3, RestType DEF ProceedIf, DatabaseTypeOK
<1>4. QED BY <1>2, <1>3

LEMMA ProceedType ==
  ASSUME DatabaseTypeOK, WorkerTypeOK, NEW w \in Workers, pc[w] \notin FreeSteps,
         NEW r \in Receipt, NEW m \in Memory, NEW step \in Steps \ FreeSteps,
         Proceed(w, r, m, step)
  PROVE  row' \in [Jobs -> Receipt] /\ WorkerTypeOK'
BY ProceedIfType DEF Proceed

LEMMA LetGoType ==
  ASSUME DatabaseTypeOK, WorkerTypeOK, NEW w \in Workers, pc[w] \notin FreeSteps,
         NEW r \in Receipt, LetGo(w, r)
  PROVE  row' \in [Jobs -> Receipt] /\ WorkerTypeOK'
<1>1. cur[w] \in Jobs BY BusyHoldsJob
<1>2. WorkerTypeOK' BY RestType DEF LetGo
<1>3. QED BY <1>1, <1>2 DEF LetGo, DatabaseTypeOK

LEMMA FinishType ==
  ASSUME DatabaseTypeOK, WorkerTypeOK, NEW w \in Workers, pc[w] \notin FreeSteps,
         NEW s \in TerminalStatuses, NEW e \in Errors, Finish(w, s, e)
  PROVE  row' \in [Jobs -> Receipt] /\ WorkerTypeOK'
<1>1. row[cur[w]] \in Receipt BY BusyHoldsJob DEF DatabaseTypeOK
<1>2. Ended(row[cur[w]], s, e) \in Receipt BY <1>1, EndedType
<1>3. QED BY <1>2, LetGoType DEF Finish

LEMMA RequeueDeliveryType ==
  ASSUME DatabaseTypeOK, WorkerTypeOK, NEW w \in Workers, pc[w] \notin FreeSteps,
         RequeueDelivery(w)
  PROVE  row' \in [Jobs -> Receipt] /\ WorkerTypeOK'
<1>1. row[cur[w]] \in Receipt BY BusyHoldsJob DEF DatabaseTypeOK
<1>2. Requeued(row[cur[w]], FALSE) \in Receipt BY <1>1, RequeuedType
<1>3. "FAILED" \in TerminalStatuses /\ "exhausted" \in Errors
  BY DEF TerminalStatuses, Errors
<1>4. QED BY <1>2, <1>3, LetGoType, FinishType DEF RequeueDelivery

LEMMA RequeuePhotoType ==
  ASSUME DatabaseTypeOK, WorkerTypeOK, NEW w \in Workers, pc[w] \notin FreeSteps,
         RequeuePhoto(w)
  PROVE  row' \in [Jobs -> Receipt] /\ WorkerTypeOK'
<1>1. row[cur[w]] \in Receipt BY BusyHoldsJob DEF DatabaseTypeOK
<1>2. Requeued(row[cur[w]], FALSE) \in Receipt BY <1>1, RequeuedType
<1>3. [Requeued(row[cur[w]], FALSE) EXCEPT !.attempts = 0] \in Receipt
  BY <1>2 DEF Receipt
<1>4. QED BY <1>3, LetGoType DEF RequeuePhoto

LEMMA QuietType ==
  ASSUME TypeOK, Quiet, row' \in [Jobs -> Receipt], WorkerTypeOK'
  PROVE  TypeOK'
BY DEF TypeOK, DatabaseTypeOK, SeenTypeOK, Quiet

LEMMA IdleWorkersType ==
  ASSUME WorkerTypeOK, UNCHANGED <<pc, cur, mem, out, todo>>
  PROVE  WorkerTypeOK'
BY DEF WorkerTypeOK

(* The web process keeps every type. *)
LEMMA WebType ==
  ASSUME TypeOK,
         \/ \E j \in Jobs : Enqueue(j) \/ Release(j) \/ ExpireLease(j)
         \/ \E l \in Links : Revoke(l)
         \/ SweepOnUnlink
  PROVE  TypeOK'
<1>1. "CANCELLED" \in TerminalStatuses /\ "revoked" \in Errors
  BY DEF TerminalStatuses, Errors
<1>2. SweptRows \in [Jobs -> Receipt]
  BY <1>1, EndedType DEF SweptRows, TypeOK, DatabaseTypeOK
<1>3. ASSUME NEW j \in Jobs, Enqueue(j) PROVE TypeOK'
  <2> DEFINE r == [Absent EXCEPT !.status = "QUEUED",
                                 !.ready = KindOf[j] # "QUESTION"]
  <2>1. "QUEUED" \in Statuses BY DEF Statuses, ActiveStatuses
  <2>2. r \in Receipt BY <2>1, AbsentType DEF Receipt
  <2>3. row' = [row EXCEPT ![j] = r] BY <1>3 DEF Enqueue
  <2> HIDE DEF r
  <2>4. row' \in [Jobs -> Receipt] BY <2>2, <2>3 DEF TypeOK, DatabaseTypeOK
  <2>5. WorkerTypeOK' BY <1>3, IdleWorkersType DEF Enqueue, TypeOK
  <2>6. QED BY <1>3, <2>4, <2>5, QuietType DEF Enqueue
<1>4. ASSUME NEW j \in Jobs, Release(j) PROVE TypeOK'
  <2>1. [row[j] EXCEPT !.ready = TRUE] \in Receipt
    BY DEF TypeOK, DatabaseTypeOK, Receipt
  <2>2. row' = [row EXCEPT ![j] = [row[j] EXCEPT !.ready = TRUE]]
    BY <1>4 DEF Release, TypeOK, DatabaseTypeOK
  <2>3. row' \in [Jobs -> Receipt] BY <2>1, <2>2 DEF TypeOK, DatabaseTypeOK
  <2>4. WorkerTypeOK' BY <1>4, IdleWorkersType DEF Release, TypeOK
  <2>5. QED BY <1>4, <2>3, <2>4, QuietType DEF Release
<1>5. ASSUME NEW j \in Jobs, ExpireLease(j) PROVE TypeOK'
  <2>1. [row[j] EXCEPT !.expired = TRUE] \in Receipt
    BY DEF TypeOK, DatabaseTypeOK, Receipt
  <2>2. row' = [row EXCEPT ![j] = [row[j] EXCEPT !.expired = TRUE]]
    BY <1>5 DEF ExpireLease, TypeOK, DatabaseTypeOK
  <2>3. DatabaseTypeOK'
    BY <1>5, <2>1, <2>2 DEF ExpireLease, TypeOK, DatabaseTypeOK
  <2>4. WorkerTypeOK' BY <1>5, IdleWorkersType DEF ExpireLease, TypeOK
  <2>5. SeenTypeOK' BY <1>5 DEF ExpireLease, TypeOK, SeenTypeOK
  <2>6. QED BY <2>3, <2>4, <2>5 DEF TypeOK
<1>6. ASSUME NEW l \in Links, Revoke(l) PROVE TypeOK'
  <2>1. DatabaseTypeOK' BY <1>6 DEF Revoke, TypeOK, DatabaseTypeOK
  <2>2. WorkerTypeOK' BY <1>6, IdleWorkersType DEF Revoke, TypeOK
  <2>3. SeenTypeOK' BY <1>6 DEF Revoke, TypeOK, SeenTypeOK
  <2>4. QED BY <2>1, <2>2, <2>3 DEF TypeOK
<1>7. ASSUME SweepOnUnlink PROVE TypeOK'
  <2>1. row' \in [Jobs -> Receipt] BY <1>2, <1>7 DEF SweepOnUnlink
  <2>2. WorkerTypeOK' BY <1>7, IdleWorkersType DEF SweepOnUnlink, TypeOK
  <2>3. QED BY <1>7, <2>1, <2>2, QuietType DEF SweepOnUnlink
<1>8. QED BY <1>3, <1>4, <1>5, <1>6, <1>7

(* Sweeping, recovering and claiming keep every type. *)
LEMMA ClaimingType ==
  ASSUME TypeOK, NEW w \in Workers,
         \/ Sweep(w) \/ NothingToClaim(w) \/ Restart(w) \/ Crash(w)
         \/ \E j \in Jobs : RecoverStale(w, j) \/ Claim(w, j) \/ ClaimConflict(w, j)
  PROVE  TypeOK'
<1> USE DEF TypeOK
<1>1. "CANCELLED" \in TerminalStatuses /\ "revoked" \in Errors
  BY DEF TerminalStatuses, Errors
<1>2. ASSUME Sweep(w) PROVE TypeOK'
  <2>1. row' \in [Jobs -> Receipt]
    BY <1>1, <1>2, EndedType DEF Sweep, SweptRows, DatabaseTypeOK
  <2>2. WorkerTypeOK' BY <1>2 DEF Sweep, WorkerTypeOK, Steps, FreeSteps
  <2>3. QED BY <1>2, <2>1, <2>2, QuietType DEF Sweep
<1>3. ASSUME NothingToClaim(w) PROVE TypeOK'
  <2>1. row' \in [Jobs -> Receipt]
    BY <1>3, GivenUpType DEF NothingToClaim, FailedIfExhausted, DatabaseTypeOK
  <2>2. WorkerTypeOK' BY <1>3 DEF NothingToClaim, WorkerTypeOK, Steps, FreeSteps
  <2>3. QED BY <1>3, <2>1, <2>2, QuietType DEF NothingToClaim
<1>4. ASSUME Restart(w) PROVE TypeOK'
  <2>1. WorkerTypeOK' BY <1>4 DEF Restart, WorkerTypeOK, Steps, FreeSteps
  <2>2. QED BY <1>4, <2>1, QuietType DEF Restart, DatabaseTypeOK
<1>5. ASSUME Crash(w) PROVE TypeOK'
  <2>1. NoMem \in Memory BY NoManifestType DEF NoMem, Memory
  <2>2. NoOut \in Outcome BY DEF NoOut, Outcome
  <2>3. WorkerTypeOK' BY <1>5, <2>1, <2>2 DEF Crash, WorkerTypeOK, Steps, FreeSteps
  <2>4. DatabaseTypeOK' BY <1>5 DEF Crash, DatabaseTypeOK
  <2>5. SeenTypeOK' BY <1>5 DEF Crash, SeenTypeOK
  <2>6. QED BY <2>3, <2>4, <2>5
<1>6. ASSUME NEW j \in Jobs, RecoverStale(w, j) PROVE TypeOK'
  <2>1. Recovered(row[j], link[LinkOf[j]] = "ACTIVE") \in Receipt
    BY RecoveredType DEF DatabaseTypeOK
  <2>2. row' \in [Jobs -> Receipt] BY <1>6, <2>1 DEF RecoverStale, DatabaseTypeOK
  <2>3. WorkerTypeOK' BY <1>6 DEF RecoverStale, WorkerTypeOK
  <2>4. QED BY <1>6, <2>2, <2>3, QuietType DEF RecoverStale
<1>7. ASSUME NEW j \in Jobs, Claim(w, j) PROVE TypeOK'
  <2> DEFINE r == Claimed(row[j])
  <2>1. r \in Receipt BY ClaimedType DEF DatabaseTypeOK
  <2>2. Copy(r) \in Memory BY <2>1, CopyType
  <2>3. /\ row' = [row EXCEPT ![j] = r]
        /\ mem' = [mem EXCEPT ![w] = Copy(r)]
        /\ cur' = [cur EXCEPT ![w] = j]
        /\ pc'  = [pc EXCEPT ![w] = "check"]
        /\ UNCHANGED <<out, todo, link, faults, got, pics, answer, runs, effects, late>>
        /\ leases' \in {leases, [leases EXCEPT ![j] = @ + 1]}
    BY <1>7 DEF Claim, DatabaseTypeOK
  <2> HIDE DEF r
  <2>4. DatabaseTypeOK' BY <2>1, <2>3 DEF DatabaseTypeOK
  <2>5. j # NoJob BY JobsAssumption DEF NoJob
  <2>6. WorkerTypeOK' BY <2>2, <2>3, <2>5 DEF WorkerTypeOK, Steps, FreeSteps
  <2>7. SeenTypeOK' BY <2>3 DEF SeenTypeOK
  <2>8. QED BY <2>4, <2>6, <2>7
<1>8. ASSUME NEW j \in Jobs, ClaimConflict(w, j) PROVE TypeOK'
  <2>1. WorkerTypeOK'
    BY <1>8 DEF ClaimConflict, NextClaim, WorkerTypeOK, Steps, FreeSteps
  <2>2. QED BY <1>8, <2>1, QuietType DEF ClaimConflict, DatabaseTypeOK
<1>9. QED BY <1>2, <1>3, <1>4, <1>5, <1>6, <1>7, <1>8

(* Authorising, executing and materialising keep every type. *)
LEMMA ExecutingType ==
  ASSUME TypeOK, NEW w \in Workers,
         Check(w) \/ Execute(w) \/ Refresh(w) \/ StoreDelivery(w)
  PROVE  TypeOK'
<1> USE DEF TypeOK
<1>0. /\ "CANCELLED" \in TerminalStatuses /\ "revoked" \in Errors
      /\ "FAILED" \in TerminalStatuses /\ "permanent" \in Errors
  BY DEF TerminalStatuses, Errors
<1>1. ASSUME NEW a, a.texts \in Nat, a.photos \in Nat,
             pc[w] = "execute", Executed(w, a)
      PROVE  WorkerTypeOK'
  <2> DEFINE o == [NoOut EXCEPT !.texts = a.texts, !.photos = a.photos]
  <2>1. o \in Outcome BY <1>1 DEF NoOut, Outcome
  <2>2. /\ pc'  = [pc  EXCEPT ![w] = "refresh"]
        /\ out' = [out EXCEPT ![w] = o]
        /\ UNCHANGED <<cur, mem, todo>>
    BY <1>1 DEF Executed
  <2> HIDE DEF o
  <2>3. QED BY <1>1, <2>1, <2>2 DEF WorkerTypeOK, Steps, FreeSteps
<1>2. OneMessage.texts \in Nat /\ OneMessage.photos \in Nat BY DEF OneMessage
<1>3. ASSUME Check(w) PROVE TypeOK'
  <2>1. pc[w] \notin FreeSteps BY <1>3 DEF Check, FreeSteps
  <2>2. cur[w] \in Jobs BY <2>1, BusyHoldsJob
  <2>3. row' \in [Jobs -> Receipt] /\ WorkerTypeOK'
    <3>1. CASE ~LinkActive(w)
      BY <1>0, <1>3, <2>1, <3>1, FinishType DEF Check
    <3>2. CASE LinkActive(w)
      <4>1. \E step \in Steps \ FreeSteps : Goto(w, step)
        BY <1>3, <3>2 DEF Check, Steps, FreeSteps
      <4>2. QED BY <1>3, <2>1, <3>2, <4>1, GotoType DEF Check, DatabaseTypeOK
    <3>3. QED BY <3>1, <3>2
  <2>4. runs' \in [Jobs -> Nat] BY <1>3 DEF Check, SeenTypeOK
  <2>5. QED BY <1>3, <2>3, <2>4 DEF Check, DatabaseTypeOK, SeenTypeOK
<1>4. ASSUME ExecuteQuestion(w) PROVE TypeOK'
  <2>1. PICK a \in Answers \union {OneMessage} : Executed(w, a)
    BY <1>4 DEF ExecuteQuestion
  <2>2. a.texts \in Nat /\ a.photos \in Nat BY <1>2, AnswersAssumption
  <2>3. WorkerTypeOK' BY <1>1, <1>4, <2>1, <2>2 DEF ExecuteQuestion, Executing
  <2>4. QED BY <1>4, <2>3, QuietType DEF ExecuteQuestion, DatabaseTypeOK
<1>5. ASSUME ExecuteNew(w) PROVE TypeOK'
  <2>1. cur[w] \in Jobs BY <1>5, BusyHoldsJob DEF ExecuteNew, Executing, FreeSteps
  <2>2. WorkerTypeOK' BY <1>1, <1>2, <1>5 DEF ExecuteNew, Executing
  <2>3. \/ UNCHANGED <<row, effects>>
        \/ /\ row' = [row EXCEPT ![cur[w]] = [row[cur[w]] EXCEPT !.conv = TRUE]]
           /\ effects' = [effects EXCEPT ![cur[w]] = @ + 1]
    BY <1>5, <2>1 DEF ExecuteNew, DatabaseTypeOK
  <2>4. [row[cur[w]] EXCEPT !.conv = TRUE] \in Receipt
    BY <2>1 DEF DatabaseTypeOK, Receipt
  <2>5. row' \in [Jobs -> Receipt] /\ effects' \in [Jobs -> Nat]
    BY <2>3, <2>4 DEF DatabaseTypeOK, SeenTypeOK
  <2>6. QED BY <1>5, <2>2, <2>5 DEF ExecuteNew, DatabaseTypeOK, SeenTypeOK
<1>6. ASSUME ExecuteAdvisor(w) PROVE TypeOK'
  <2> DEFINE j == cur[w]
             r == Stored(row[j], OneMessage)
  <2>1. pc[w] \notin FreeSteps BY <1>6 DEF ExecuteAdvisor, Executing, FreeSteps
  <2>2. j \in Jobs BY <2>1, BusyHoldsJob
  <2>3. r \in Receipt BY <1>2, <2>2, StoredType DEF DatabaseTypeOK
  <2>4. CASE row[j].man.made
    <3>1. WorkerTypeOK' BY <1>1, <1>2, <1>6, <2>4 DEF ExecuteAdvisor, Executing
    <3>2. QED BY <1>6, <2>4, <3>1 DEF ExecuteAdvisor, DatabaseTypeOK, SeenTypeOK
  <2>5. CASE ~row[j].man.made /\ row[j].status = "RUNNING"
    <3>1. WorkerTypeOK' BY <1>1, <1>2, <1>6, <2>5 DEF ExecuteAdvisor, Executing
    <3>2. /\ row' = [row EXCEPT ![j] = r]
          /\ effects' = [effects EXCEPT ![j] = @ + 1]
          /\ answer' = [answer EXCEPT ![j] = r.man.texts]
          /\ leases' = [leases EXCEPT ![j] = 1]
          /\ UNCHANGED <<link, faults, got, pics, runs, late>>
      BY <1>6, <2>2, <2>5 DEF ExecuteAdvisor, Materialised, DatabaseTypeOK
    <3>3. r.man.texts \in Nat BY <2>3 DEF Receipt, Manifest
    <3> HIDE DEF r
    <3>4. DatabaseTypeOK' BY <2>3, <3>2 DEF DatabaseTypeOK
    <3>5. /\ effects' \in [Jobs -> Nat]
          /\ answer'  \in [Jobs -> Nat]
          /\ leases'  \in [Jobs -> Nat]
      <4>1. effects[j] + 1 \in Nat BY <2>2 DEF SeenTypeOK
      <4> HIDE DEF j
      <4>2. effects' \in [Jobs -> Nat] BY <3>2, <4>1 DEF SeenTypeOK
      <4>3. answer' \in [Jobs -> Nat] BY <3>2, <3>3 DEF SeenTypeOK
      <4>4. leases' \in [Jobs -> Nat] BY <3>2 DEF SeenTypeOK
      <4>5. QED BY <4>2, <4>3, <4>4
    <3>6. SeenTypeOK' BY <3>2, <3>5 DEF SeenTypeOK
    <3>7. QED BY <3>1, <3>4, <3>6
  <2>6. CASE ~row[j].man.made /\ row[j].status # "RUNNING"
    <3>1. RequeueDelivery(w) BY <1>6, <2>6 DEF ExecuteAdvisor
    <3>2. row' \in [Jobs -> Receipt] /\ WorkerTypeOK'
      BY <2>1, <3>1, RequeueDeliveryType
    <3>3. QED BY <1>6, <2>6, <3>2 DEF ExecuteAdvisor, DatabaseTypeOK, SeenTypeOK
  <2>7. QED BY <2>4, <2>5, <2>6
<1>7. ASSUME ExecuteRetry(w) PROVE TypeOK'
  BY <1>7, RequeueDeliveryType, QuietType DEF ExecuteRetry, FreeSteps
<1>8. ASSUME ExecutePermanent(w) PROVE TypeOK'
  BY <1>0, <1>8, FinishType, QuietType DEF ExecutePermanent, FreeSteps
<1>9. ASSUME Refresh(w) PROVE TypeOK'
  <2> DEFINE r == row[cur[w]]
             m == [Copy(r) EXCEPT !.token = IF r.status = "RUNNING"
                                            THEN r.claims ELSE 0]
  <2>1. cur[w] \in Jobs BY <1>9, BusyHoldsJob DEF Refresh, FreeSteps
  <2>2. r \in Receipt BY <2>1 DEF DatabaseTypeOK
  <2>3. m \in Memory BY <2>2, CopyType DEF Receipt, Memory
  <2>4. /\ mem' = [mem EXCEPT ![w] = m]
        /\ pc' \in {[pc EXCEPT ![w] = "begin"], [pc EXCEPT ![w] = "store"]}
        /\ UNCHANGED <<row, cur, out, todo>>
    BY <1>9 DEF Refresh
  <2> HIDE DEF m
  <2>5. WorkerTypeOK'
    BY <1>9, <2>1, <2>3, <2>4 DEF Refresh, WorkerTypeOK, Steps, FreeSteps
  <2>6. QED BY <1>9, <2>4, <2>5, QuietType DEF Refresh, DatabaseTypeOK
<1>10. ASSUME StoreDelivery(w) PROVE TypeOK'
  <2> DEFINE j == cur[w]
             r == Stored(row[j], out[w])
             m == [Copy(r) EXCEPT !.token = mem[w].token]
  <2>1. pc[w] \notin FreeSteps BY <1>10 DEF StoreDelivery, FreeSteps
  <2>2. j \in Jobs BY <2>1, BusyHoldsJob
  <2>3. out[w].texts \in Nat /\ out[w].photos \in Nat BY DEF WorkerTypeOK, Outcome
  <2>4. r \in Receipt BY <2>2, <2>3, StoredType DEF DatabaseTypeOK
  <2>5. mem[w].token \in Nat BY DEF WorkerTypeOK, Memory
  <2>6. m \in Memory BY <2>4, <2>5, CopyType DEF Memory
  <2>7. Proceed(w, r, m, "begin") BY <1>10 DEF StoreDelivery
  <2>8. "begin" \in Steps \ FreeSteps BY DEF Steps, FreeSteps
  <2>9. r.man.texts \in Nat BY <2>4 DEF Receipt, Manifest
  <2>10. answer' \in [Jobs -> Nat] /\ leases' \in [Jobs -> Nat]
    BY <1>10, <2>9 DEF StoreDelivery, Materialised, SeenTypeOK
  <2> HIDE DEF r, m
  <2>11. row' \in [Jobs -> Receipt] /\ WorkerTypeOK'
    BY <2>1, <2>4, <2>6, <2>7, <2>8, ProceedType
  <2>12. QED BY <1>10, <2>10, <2>11 DEF StoreDelivery, DatabaseTypeOK, SeenTypeOK
<1>11. QED BY <1>3, <1>4, <1>5, <1>6, <1>7, <1>8, <1>9, <1>10 DEF Execute

(* The steps of delivery stay within the steps that hold a job. *)
LEMMA DeliverySteps ==
  ASSUME NEW m
  PROVE  /\ TextStep(m) \in Steps \ FreeSteps
         /\ AfterPhotos(m) \in Steps \ FreeSteps
         /\ DeliverStep(m) \in Steps \ FreeSteps
         /\ PhotoStep(m, "photo") \in Steps \ FreeSteps
         /\ PhotoStep(m, "off") \in Steps \ FreeSteps
BY DEF TextStep, AfterPhotos, DeliverStep, PhotoStep, Steps, FreeSteps

LEMMA StateType ==
  ASSUME NEW m \in Memory
  PROVE  /\ State(m).photo \in Nat
         /\ State(m).tries \in Nat
         /\ State(m).text \in Nat
         /\ State(m).started \in BOOLEAN
<1>1. m.man \in Manifest /\ m.cursor \in Nat BY DEF Memory
<1>2. State(m) \in Progress BY <1>1, DeliveryStateType DEF State
<1>3. QED BY <1>2 DEF Progress

LEMMA WithManifestType ==
  ASSUME NEW r \in Receipt, NEW man \in Manifest
  PROVE  /\ WithManifest(r, man) \in Receipt
         /\ WithManifest(r, man).status = r.status
         /\ WithManifest(r, man).man = man
         /\ WithManifest(r, man).conv = r.conv
BY DEF WithManifest, Receipt

(* A worker's copy keeps its type, and its answer, through delivery. *)
LEMMA SplitCursorType ==
  ASSUME NEW m \in Memory
  PROVE  SplitCursor(m) \in Memory /\ SplitCursor(m).man.made = m.man.made
<1> DEFINE s == State(m)
           man == [m.man EXCEPT !.shared = FALSE, !.photo = s.photo,
                                !.tries = s.tries, !.started = s.started]
<1>1. man \in Manifest /\ man.made = m.man.made
  <2> HIDE DEF s
  <2>1. s.photo \in Nat /\ s.tries \in Nat /\ s.started \in BOOLEAN
    BY StateType DEF s
  <2>2. QED BY <2>1 DEF Memory, Manifest
<1>2. SplitCursor(m) = [m EXCEPT !.man = man, !.cursor = s.text]
  BY DEF SplitCursor
<1>3. s.text \in Nat BY StateType
<1>4. QED
  <2> HIDE DEF s, man
  <2>1. QED BY <1>1, <1>2, <1>3 DEF Memory

LEMMA TextWithoutPhotosType ==
  ASSUME NEW m \in Memory
  PROVE  /\ TextWithoutPhotos(m) \in Memory
         /\ TextWithoutPhotos(m).man.made = m.man.made
<1> DEFINE s == State(m)
           d == m.man.degraded \/ PhotoLeft(m)
           n == IF s.takeover THEN m.attempts ELSE 1
           man == [m.man EXCEPT !.shared = FALSE, !.photo = m.man.photos,
                                !.tries = s.tries, !.started = TRUE,
                                !.degraded = d]
<1>1. man \in Manifest /\ man.made = m.man.made
  <2>1. s.tries \in Nat BY StateType
  <2>2. d \in BOOLEAN BY DEF Memory, Manifest
  <2> HIDE DEF s, d
  <2>3. QED BY <2>1, <2>2 DEF Memory, Manifest
<1>2. TextWithoutPhotos(m) = [m EXCEPT !.man = man, !.cursor = s.text,
                                       !.attempts = n]
  BY DEF TextWithoutPhotos
<1>3. s.text \in Nat /\ n \in Nat BY StateType DEF Memory
<1>4. QED
  <2> HIDE DEF s, d, man, n
  <2>1. QED BY <1>1, <1>2, <1>3 DEF Memory

LEMMA NextPhotoType ==
  ASSUME NEW m \in Memory, NEW d \in BOOLEAN
  PROVE  NextPhoto(m, d) \in Memory /\ NextPhoto(m, d).man.made = m.man.made
<1> DEFINE p == m.man.photo + 1
           e == m.man.degraded \/ d
           man == [m.man EXCEPT !.photo = p, !.degraded = e]
<1>1. man \in Manifest /\ man.made = m.man.made
  <2>1. p \in Nat BY DEF Memory, Manifest
  <2>2. e \in BOOLEAN BY DEF Memory, Manifest
  <2> HIDE DEF p, e
  <2>3. QED BY <2>1, <2>2 DEF Memory, Manifest
<1>2. NextPhoto(m, d) = [m EXCEPT !.man = man]
  <2>1. m.man \in Manifest BY DEF Memory
  <2>2. QED BY <2>1 DEF NextPhoto, Manifest
<1>3. QED
  <2> HIDE DEF man
  <2>1. QED BY <1>1, <1>2 DEF Memory

LEMMA PhotoDoneType ==
  ASSUME DatabaseTypeOK, WorkerTypeOK, NEW w \in Workers, pc[w] \notin FreeSteps,
         NEW m \in Memory, NEW step \in Steps \ FreeSteps, PhotoDone(w, m, step)
  PROVE  row' \in [Jobs -> Receipt] /\ WorkerTypeOK'
<1>1. row[cur[w]] \in Receipt BY BusyHoldsJob DEF DatabaseTypeOK
<1>2. WithManifest(row[cur[w]], m.man) \in Receipt
  BY <1>1, WithManifestType DEF Memory
<1>3. QED BY <1>2, ProceedType DEF PhotoDone

LEMMA SkipPhotoType ==
  ASSUME DatabaseTypeOK, WorkerTypeOK, NEW w \in Workers, pc[w] \notin FreeSteps,
         NEW step \in {"photo", "off"}, SkipPhoto(w, step)
  PROVE  row' \in [Jobs -> Receipt] /\ WorkerTypeOK'
<1>1. mem[w] \in Memory BY DEF WorkerTypeOK
<1>2. NextPhoto(mem[w], TRUE) \in Memory BY <1>1, NextPhotoType
<1>3. QED BY <1>2, DeliverySteps, PhotoDoneType DEF SkipPhoto

LEMMA BeginTextType ==
  ASSUME DatabaseTypeOK, WorkerTypeOK, NEW w \in Workers, pc[w] \notin FreeSteps,
         BeginTextAfterSkippingPhotos(w)
  PROVE  row' \in [Jobs -> Receipt] /\ WorkerTypeOK'
<1> DEFINE m == TextWithoutPhotos(mem[w])
           q == WithManifest(row[cur[w]], m.man)
           r == [q EXCEPT !.cursor = m.cursor, !.attempts = m.attempts]
<1>1. mem[w] \in Memory /\ row[cur[w]] \in Receipt
  BY BusyHoldsJob DEF WorkerTypeOK, DatabaseTypeOK
<1>2. m \in Memory BY <1>1, TextWithoutPhotosType
<1>3. Proceed(w, r, m, TextStep(m)) BY DEF BeginTextAfterSkippingPhotos
<1> HIDE DEF m
<1>4. q \in Receipt BY <1>1, <1>2, WithManifestType DEF Memory
<1>5. m.cursor \in Nat /\ m.attempts \in Nat BY <1>2 DEF Memory
<1> HIDE DEF q
<1>6. r \in Receipt BY <1>4, <1>5 DEF Receipt
<1> HIDE DEF r
<1>7. QED BY <1>2, <1>3, <1>6, DeliverySteps, ProceedType

LEMMA PhotoAttemptType ==
  ASSUME DatabaseTypeOK, WorkerTypeOK, NEW w \in Workers, pc[w] \notin FreeSteps,
         PhotoAttempt(w)
  PROVE  row' \in [Jobs -> Receipt] /\ WorkerTypeOK'
<1> DEFINE man == [mem[w].man EXCEPT !.tries = @ + 1]
           m == [mem[w] EXCEPT !.attempts = 0, !.man.tries = @ + 1]
           q == WithManifest(row[cur[w]], m.man)
           r == [q EXCEPT !.attempts = 0]
<1>1. mem[w] \in Memory /\ row[cur[w]] \in Receipt
  BY BusyHoldsJob DEF WorkerTypeOK, DatabaseTypeOK
<1>2. mem[w].man.tries + 1 \in Nat BY <1>1 DEF Memory, Manifest
<1>3. man \in Manifest BY <1>1, <1>2 DEF Memory, Manifest
<1>4. m = [mem[w] EXCEPT !.attempts = 0, !.man = man]
  BY <1>1 DEF Memory, Manifest
<1>5. m \in Memory
  <2> HIDE DEF man, m
  <2>1. QED BY <1>1, <1>3, <1>4 DEF Memory
<1>6. Proceed(w, r, m, "photo") BY DEF PhotoAttempt
<1> HIDE DEF m
<1>7. q \in Receipt BY <1>1, <1>5, WithManifestType DEF Memory
<1> HIDE DEF q
<1>8. r \in Receipt BY <1>7 DEF Receipt
<1> HIDE DEF r
<1>9. "photo" \in Steps \ FreeSteps BY DEF Steps, FreeSteps
<1>10. QED BY <1>5, <1>6, <1>8, <1>9, ProceedType

LEMMA StayType ==
  ASSUME DatabaseTypeOK, WorkerTypeOK, NEW w \in Workers, pc[w] \notin FreeSteps,
         NEW step \in Steps \ FreeSteps, Goto(w, step), UNCHANGED row
  PROVE  row' \in [Jobs -> Receipt] /\ WorkerTypeOK'
BY GotoType DEF DatabaseTypeOK

LEMMA RevokedType ==
  ASSUME DatabaseTypeOK, WorkerTypeOK, NEW w \in Workers, pc[w] \notin FreeSteps,
         Finish(w, "CANCELLED", "revoked")
  PROVE  row' \in [Jobs -> Receipt] /\ WorkerTypeOK'
<1>1. "CANCELLED" \in TerminalStatuses /\ "revoked" \in Errors
  BY DEF TerminalStatuses, Errors
<1>2. QED BY <1>1, FinishType

LEMMA PhotoFailedType ==
  ASSUME DatabaseTypeOK, WorkerTypeOK, NEW w \in Workers, pc[w] \notin FreeSteps,
         NEW retryable, PhotoFailed(w, retryable)
  PROVE  row' \in [Jobs -> Receipt] /\ WorkerTypeOK'
BY RequeuePhotoType, SkipPhotoType DEF PhotoFailed

LEMMA ConfirmTextType ==
  ASSUME DatabaseTypeOK, WorkerTypeOK, NEW w \in Workers, pc[w] \notin FreeSteps,
         ConfirmText(w)
  PROVE  row' \in [Jobs -> Receipt] /\ WorkerTypeOK'
<1> DEFINE m    == [mem[w] EXCEPT !.cursor = @ + 1]
           last == m.cursor = m.man.texts /\ State(m).first /\ PhotoLeft(m)
           n    == IF last THEN [m EXCEPT !.attempts = 0] ELSE m
           a    == IF last THEN 0 ELSE row[cur[w]].attempts
           r    == [row[cur[w]] EXCEPT !.cursor = m.cursor, !.expired = FALSE,
                                       !.attempts = a]
<1>1. mem[w] \in Memory /\ row[cur[w]] \in Receipt
  BY BusyHoldsJob DEF WorkerTypeOK, DatabaseTypeOK
<1>2. ProceedIf(w, row[cur[w]].cursor < m.cursor, r, n, TextStep(n))
  <2>1. r = [row[cur[w]] EXCEPT !.cursor = m.cursor, !.expired = FALSE,
                                !.attempts = IF last THEN 0 ELSE @]
    BY <1>1 DEF Receipt
  <2>2. QED BY <2>1 DEF ConfirmText
<1>3. mem[w].cursor + 1 \in Nat BY <1>1 DEF Memory
<1>4. m \in Memory BY <1>1, <1>3 DEF Memory
<1> HIDE DEF last
<1>5. n \in Memory BY <1>4 DEF Memory
<1>6. a \in Nat BY <1>1 DEF Receipt
<1>7. m.cursor \in Nat BY <1>4 DEF Memory
<1> HIDE DEF m, n, a
<1>8. r \in Receipt BY <1>1, <1>6, <1>7 DEF Receipt
<1> HIDE DEF r
<1>9. QED BY <1>2, <1>5, <1>8, DeliverySteps, ProceedIfType

LEMMA BeginType ==
  ASSUME DatabaseTypeOK, WorkerTypeOK, NEW w \in Workers, Begin(w)
  PROVE  row' \in [Jobs -> Receipt] /\ WorkerTypeOK'
<1> DEFINE m == mem[w]
           s == SplitCursor(m)
           q == WithManifest(row[cur[w]], s.man)
           r == [q EXCEPT !.cursor = s.cursor]
<1>1. pc[w] \notin FreeSteps BY DEF Begin, FreeSteps
<1>2. m \in Memory /\ row[cur[w]] \in Receipt
  BY <1>1, BusyHoldsJob DEF WorkerTypeOK, DatabaseTypeOK
<1>3. s \in Memory BY <1>2, SplitCursorType
<1>4. "SUCCEEDED" \in TerminalStatuses /\ "none" \in Errors
  BY DEF TerminalStatuses, Errors
<1>5. \/ Finish(w, "SUCCEEDED", "none")
      \/ BeginTextAfterSkippingPhotos(w)
      \/ Proceed(w, r, s, DeliverStep(s))
      \/ Goto(w, DeliverStep(m)) /\ UNCHANGED row
  BY DEF Begin
<1> HIDE DEF m, s
<1>6. q \in Receipt BY <1>2, <1>3, WithManifestType DEF Memory
<1>7. s.cursor \in Nat BY <1>3 DEF Memory
<1> HIDE DEF q
<1>8. r \in Receipt BY <1>6, <1>7 DEF Receipt
<1> HIDE DEF r
<1>9. DeliverStep(s) \in Steps \ FreeSteps /\ DeliverStep(m) \in Steps \ FreeSteps
  BY DeliverySteps
<1>10. QED
  BY <1>1, <1>3, <1>4, <1>5, <1>8, <1>9, FinishType, BeginTextType, ProceedType,
     StayType

LEMMA GateType ==
  ASSUME DatabaseTypeOK, WorkerTypeOK, NEW w \in Workers, Gate(w)
  PROVE  row' \in [Jobs -> Receipt] /\ WorkerTypeOK'
<1>1. pc[w] \notin FreeSteps BY DEF Gate, FreeSteps
<1>2. mem[w] \in Memory BY DEF WorkerTypeOK
<1>3. ASSUME AllPhotosSkipped(w)
      PROVE  row' \in [Jobs -> Receipt] /\ WorkerTypeOK'
  <2> DEFINE man == [mem[w].man EXCEPT !.photo = mem[w].man.photos, !.degraded = TRUE]
             m == [mem[w] EXCEPT !.man = man]
  <2>1. man \in Manifest BY <1>2 DEF Memory, Manifest
  <2>2. PhotoDone(w, m, "finish") BY <1>3 DEF AllPhotosSkipped
  <2> HIDE DEF man
  <2>3. m \in Memory BY <1>2, <2>1 DEF Memory
  <2>4. "finish" \in Steps \ FreeSteps BY DEF Steps, FreeSteps
  <2> HIDE DEF m
  <2>5. QED BY <1>1, <2>2, <2>3, <2>4, PhotoDoneType
<1>4. \/ Goto(w, AfterPhotos(mem[w])) /\ UNCHANGED row
      \/ Goto(w, "off") /\ UNCHANGED row
      \/ PhotoAttempt(w)
      \/ AllPhotosSkipped(w)
      \/ BeginTextAfterSkippingPhotos(w)
  BY DEF Gate
<1>5. AfterPhotos(mem[w]) \in Steps \ FreeSteps /\ "off" \in Steps \ FreeSteps
  BY DeliverySteps DEF Steps, FreeSteps
<1>6. QED BY <1>1, <1>3, <1>4, <1>5, StayType, PhotoAttemptType, BeginTextType

(* Telegram takes an item, or not. *)
LEMMA SendType ==
  ASSUME TypeOK, NEW w \in Workers, SendText(w) \/ SendPhoto(w)
  PROVE  TypeOK'
<1>1. pc[w] \notin FreeSteps BY DEF SendText, SendPhoto, FreeSteps
<1>2. cur[w] \in Jobs BY <1>1, BusyHoldsJob DEF TypeOK
<1>3. mem[w].cursor + 1 \in Nat /\ mem[w].man.photo + 1 \in Nat
  BY DEF TypeOK, WorkerTypeOK, Memory, Manifest
<1>4. PICK x \in Replies, step \in {"sentText", "sentPhoto"} : Send(w, x, step)
  BY DEF SendText, SendPhoto
<1>5. x.reply \in {"ok", "retry", "perm"} BY DEF Replies
<1>6. WorkerTypeOK'
  <2>1. [out[w] EXCEPT !.reply = x.reply] \in Outcome
    BY <1>5 DEF TypeOK, WorkerTypeOK, Outcome
  <2>2. out' = [out EXCEPT ![w] = [out[w] EXCEPT !.reply = x.reply]]
    BY <1>4 DEF Send, TypeOK, WorkerTypeOK
  <2>3. QED BY <1>1, <1>4, <2>1, <2>2 DEF Send, TypeOK, WorkerTypeOK, Steps, FreeSteps
<1>7. DatabaseTypeOK' BY <1>4 DEF Send, TypeOK, DatabaseTypeOK
<1>8. late' \in [Links -> Nat]
  <2>1. LinkOf[cur[w]] \in Links BY <1>2, LinkAssumption
  <2>2. late[LinkOf[cur[w]]] + 1 \in Nat BY <2>1 DEF TypeOK, SeenTypeOK
  <2>3. QED BY <1>4, <2>1, <2>2 DEF Send, TypeOK, SeenTypeOK
<1>9. got' \in [Jobs -> SUBSET Nat] /\ pics' \in [Jobs -> SUBSET Nat]
  <2>1. got[cur[w]] \union {mem[w].cursor + 1} \in SUBSET Nat
    BY <1>2, <1>3 DEF TypeOK, SeenTypeOK
  <2>2. pics[cur[w]] \union {mem[w].man.photo + 1} \in SUBSET Nat
    BY <1>2, <1>3 DEF TypeOK, SeenTypeOK
  <2>3. \/ UNCHANGED got
        \/ got' = [got EXCEPT ![cur[w]] = got[cur[w]] \union {mem[w].cursor + 1}]
    BY <1>2 DEF SendText, SendPhoto, TypeOK, SeenTypeOK
  <2>4. \/ UNCHANGED pics
        \/ pics' = [pics EXCEPT ![cur[w]] = pics[cur[w]] \union {mem[w].man.photo + 1}]
    BY <1>2 DEF SendText, SendPhoto, TypeOK, SeenTypeOK
  <2>5. QED BY <2>1, <2>2, <2>3, <2>4 DEF TypeOK, SeenTypeOK
<1>10. SeenTypeOK' BY <1>4, <1>8, <1>9 DEF Send, TypeOK, SeenTypeOK
<1>11. QED BY <1>6, <1>7, <1>10 DEF TypeOK

(* Delivering keeps every type. *)
LEMMA DeliveringType ==
  ASSUME TypeOK, NEW w \in Workers, Deliver(w)
  PROVE  TypeOK'
<1> USE DEF TypeOK
<1>1. /\ "FAILED" \in TerminalStatuses /\ "SUCCEEDED" \in TerminalStatuses
      /\ {"none", "degraded", "rejected"} \subseteq Errors
  BY DEF TerminalStatuses, Errors
<1>2. {"sendText", "render", "sendPhoto", "photo"} \subseteq Steps \ FreeSteps
  BY DEF Steps, FreeSteps
<1>3. CASE Begin(w) BY <1>3, BeginType, QuietType DEF Begin
<1>4. CASE AuthoriseText(w) \/ AuthorisePhoto(w)
  <2>1. pc[w] \notin FreeSteps
    BY <1>4 DEF AuthoriseText, AuthorisePhoto, Authorise, FreeSteps
  <2>2. QED
    BY <1>2, <1>4, <2>1, StayType, RevokedType, QuietType
    DEF AuthoriseText, AuthorisePhoto, Authorise
<1>5. CASE SendText(w) \/ SendPhoto(w) BY <1>5, SendType
<1>6. CASE SettleText(w)
  BY <1>1, <1>6, ConfirmTextType, RequeueDeliveryType, FinishType, QuietType
  DEF SettleText, FreeSteps
<1>7. CASE Gate(w) BY <1>7, GateType, QuietType DEF Gate
<1>8. CASE PhotoOff(w)
  BY <1>8, SkipPhotoType, RevokedType, QuietType DEF PhotoOff, FreeSteps
<1>9. CASE Render(w)
  <2>1. pc[w] \notin FreeSteps BY <1>9 DEF Render, FreeSteps
  <2>2. \/ Goto(w, "sendPhoto") /\ UNCHANGED row
        \/ Finish(w, "CANCELLED", "revoked")
        \/ PhotoFailed(w, TRUE)
    BY <1>9 DEF Render
  <2>3. QED
    BY <1>2, <1>9, <2>1, <2>2, StayType, RevokedType, PhotoFailedType, QuietType
    DEF Render
<1>10. CASE SettlePhoto(w)
  <2> DEFINE m == NextPhoto(mem[w], FALSE)
  <2>1. pc[w] \notin FreeSteps BY <1>10 DEF SettlePhoto, FreeSteps
  <2>2. m \in Memory BY NextPhotoType DEF WorkerTypeOK
  <2>3. \/ PhotoDone(w, m, PhotoStep(m, "photo"))
        \/ PhotoFailed(w, out[w].reply = "retry")
    BY <1>10 DEF SettlePhoto
  <2> HIDE DEF m
  <2>4. PhotoStep(m, "photo") \in Steps \ FreeSteps BY DeliverySteps
  <2>5. row' \in [Jobs -> Receipt] /\ WorkerTypeOK'
    BY <2>1, <2>2, <2>3, <2>4, PhotoDoneType, PhotoFailedType
  <2>6. QED BY <1>10, <2>5, QuietType DEF SettlePhoto
<1>11. CASE StartText(w)
  <2> DEFINE man == [mem[w].man EXCEPT !.started = TRUE]
             m == [mem[w] EXCEPT !.attempts = 1, !.man = man]
             q == WithManifest(row[cur[w]], m.man)
             r == [q EXCEPT !.attempts = 1]
  <2>1. pc[w] \notin FreeSteps BY <1>11 DEF StartText, FreeSteps
  <2>2. mem[w] \in Memory /\ row[cur[w]] \in Receipt
    BY <2>1, BusyHoldsJob DEF WorkerTypeOK, DatabaseTypeOK
  <2>3. m = [mem[w] EXCEPT !.attempts = 1, !.man.started = TRUE]
    BY <2>2 DEF Memory, Manifest
  <2>4. Proceed(w, r, m, TextStep(m)) BY <1>11, <2>3 DEF StartText
  <2>5. man \in Manifest BY <2>2 DEF Memory, Manifest
  <2> HIDE DEF man
  <2>6. m \in Memory BY <2>2, <2>5 DEF Memory
  <2> HIDE DEF m
  <2>7. q \in Receipt BY <2>2, <2>6, WithManifestType DEF Memory
  <2> HIDE DEF q
  <2>8. r \in Receipt BY <2>7 DEF Receipt
  <2> HIDE DEF r
  <2>9. row' \in [Jobs -> Receipt] /\ WorkerTypeOK'
    BY <2>1, <2>4, <2>6, <2>8, DeliverySteps, ProceedType
  <2>10. QED BY <1>11, <2>9, QuietType DEF StartText
<1>12. CASE FinishDelivered(w)
  BY <1>1, <1>12, FinishType, QuietType DEF FinishDelivered, FreeSteps
<1>13. QED
  BY <1>3, <1>4, <1>5, <1>6, <1>7, <1>8, <1>9, <1>10, <1>11, <1>12 DEF Deliver

-----------------------------------------------------------------------------
(* The type invariant. *)

LEMMA LegacyManifestType ==
  ASSUME NEW a \in [texts: Nat, photos: Nat], NEW m \in LegacyManifests(a)
  PROVE  m \in Manifest
<1> DEFINE base == PicturesFirstManifest(a)
<1>1. a.texts \in Nat /\ a.photos \in Nat OBVIOUS
<1>2. base \in Manifest BY <1>1, NoManifestType DEF PicturesFirstManifest, Manifest
<1>3. CASE \E p \in 0..a.photos, t \in 0..MaxAttempts : m = BeforeText(a, p, t)
  <2>1. PICK p \in 0..a.photos, t \in 0..MaxAttempts : m = BeforeText(a, p, t)
    BY <1>3
  <2>2. p \in Nat /\ t \in Nat BY <1>1, AttemptsAssumption
  <2>3. m = [base EXCEPT !.photo = p, !.tries = t] BY <2>1 DEF BeforeText
  <2> HIDE DEF base
  <2>4. QED BY <1>2, <2>2, <2>3 DEF Manifest
<1>4. CASE m = [base EXCEPT !.shared = TRUE]
  <2> HIDE DEF base
  <2>1. QED BY <1>2, <1>4 DEF Manifest
<1>5. CASE m = [base EXCEPT !.photo = a.photos, !.started = TRUE]
  <2> HIDE DEF base
  <2>1. QED BY <1>1, <1>2, <1>5 DEF Manifest
<1>6. QED BY <1>3, <1>4, <1>5 DEF LegacyManifests

LEMMA InitialRowsType ==
  ASSUME NEW r \in InitialRows
  PROVE  r \in Receipt
<1>1. ASSUME NEW a \in LegacyShapes, r \in LegacySeeds(a) PROVE r \in Receipt
  <2>1. a \in [texts: Nat, photos: Nat] BY AnswersAssumption
  <2>2. PICK m \in LegacyManifests(a), n \in 0..(MaxAttempts - 1),
             c \in 0..(a.texts + a.photos) : r = LegacyRow(m, n, c)
    BY <1>1 DEF LegacySeeds, LegacyRows
  <2>3. m \in Manifest BY <2>1, LegacyManifestType
  <2>4. n \in Nat /\ c \in Nat BY <2>1, AttemptsAssumption
  <2>5. "QUEUED" \in Statuses BY DEF Statuses, ActiveStatuses
  <2>6. QED BY <2>2, <2>3, <2>4, <2>5, AbsentType DEF LegacyRow, Receipt
<1>2. QED BY <1>1, AbsentType DEF InitialRows

LEMMA InitType == Init => TypeOK
<1> SUFFICES ASSUME Init PROVE TypeOK
  OBVIOUS
<1>1. row \in [Jobs -> Receipt]
  <2>1. PICK r \in InitialRows : row = [j \in Jobs |-> IF FirstJob(j) THEN r ELSE Absent]
    <3>1. Absent \in InitialRows BY DEF InitialRows
    <3>2. QED BY <3>1 DEF Init
  <2>2. QED BY <2>1, AbsentType, InitialRowsType
<1>2. DatabaseTypeOK BY <1>1 DEF Init, DatabaseTypeOK
<1>3. NoMem \in Memory BY NoManifestType DEF NoMem, Memory
<1>4. NoOut \in Outcome BY DEF NoOut, Outcome
<1>5. WorkerTypeOK BY <1>3, <1>4 DEF Init, WorkerTypeOK, Steps, FreeSteps
<1>6. \A j \in Jobs : /\ Seeded(row[j]).text \in Nat
                      /\ Seeded(row[j]).photo \in Nat
                      /\ row[j].man.texts \in Nat
  <2> SUFFICES ASSUME NEW j \in Jobs
               PROVE  /\ Seeded(row[j]).text \in Nat
                      /\ Seeded(row[j]).photo \in Nat
                      /\ row[j].man.texts \in Nat
    OBVIOUS
  <2>1. row[j].man \in Manifest /\ row[j].cursor \in Nat BY <1>1 DEF Receipt
  <2>2. Seeded(row[j]) \in Progress BY <2>1, DeliveryStateType DEF Seeded
  <2>3. QED BY <2>1, <2>2 DEF Progress, Manifest
<1>7. SeenTypeOK BY <1>6 DEF Init, SeenTypeOK
<1>8. QED BY <1>2, <1>5, <1>7 DEF TypeOK

LEMMA StepType == TypeOK /\ [Next]_vars => TypeOK'
<1>1. CASE UNCHANGED vars
  BY <1>1 DEF vars, TypeOK, DatabaseTypeOK, WorkerTypeOK, SeenTypeOK
<1>2. CASE TypeOK /\ Next
  BY <1>2, WebType, ClaimingType, ExecutingType, DeliveringType DEF Next, Work
<1>3. QED BY <1>1, <1>2

(* Every variable keeps its type and a process holds a job exactly while   *)
(* it is past the claim, for any number of chats, updates, workers and     *)
(* attempts and whatever an earlier release left in the queue.             *)
THEOREM TypeCorrect == Spec => []TypeOK
<1>1. QED BY InitType, StepType, PTL DEF Spec

-----------------------------------------------------------------------------
(* How a step may move the rows: a row is admitted, or granted to a worker,*)
(* or keeps its status, or goes back to the queue, or ends; and neither    *)
(* the mark of a conversation nor the fact of an answer is ever lost.      *)

Marks(r, q) == (r.conv => q.conv) /\ (r.man.made => q.man.made)

Settled(r, q) ==
  /\ Marks(r, q)
  /\ \/ q.status = r.status
     \/ r.status \in ActiveStatuses /\ q.status \in {"QUEUED"} \union TerminalStatuses

Settle == \A j \in Jobs : Settled(row[j], row'[j])

Admit(j) == /\ row[j].status = "ABSENT"
            /\ row'[j].status = "QUEUED"
            /\ Ordered => \A k \in Jobs : k > j => row[k].status = "ABSENT"
            /\ \A k \in Jobs \ {j} : row'[k] = row[k]

Grant(j) == /\ Eligible(j)
            /\ ~SiblingRunning(j)
            /\ row'[j].status = "RUNNING"
            /\ Marks(row[j], row'[j])
            /\ \A k \in Jobs \ {j} : row'[k] = row[k]

RowsMove == \/ Settle
            \/ \E j \in Jobs : Admit(j) \/ Grant(j)

(* Past these steps a worker's copy holds an answer. *)
EarlySteps == FreeSteps \union {"check", "execute", "refresh", "store"}

CopyMade == \A w \in Workers : pc[w] \notin EarlySteps => mem[w].man.made

LEMMA EndedMarks ==
  ASSUME NEW r \in Receipt, NEW s, NEW e
  PROVE  Ended(r, s, e).status = s /\ Marks(r, Ended(r, s, e))
BY DEF Ended, Receipt, Marks, NoManifest

LEMMA RequeuedMarks ==
  ASSUME NEW r \in Receipt, NEW ready
  PROVE  Requeued(r, ready).status = "QUEUED" /\ Marks(r, Requeued(r, ready))
BY DEF Requeued, Receipt, Marks

LEMMA DegradedMarks ==
  ASSUME NEW r \in Receipt
  PROVE  Degraded(r).status = "QUEUED" /\ Marks(r, Degraded(r))
BY DegradedType DEF Marks

LEMMA GivenUpMarks ==
  ASSUME NEW r \in Receipt
  PROVE  GivenUp(r).status \in {"QUEUED", "FAILED"} /\ Marks(r, GivenUp(r))
BY DegradedMarks, EndedMarks DEF GivenUp

LEMMA RecoveredMarks ==
  ASSUME NEW r \in Receipt, NEW active
  PROVE  /\ Recovered(r, active).status \in {"QUEUED", "FAILED", "CANCELLED"}
         /\ Marks(r, Recovered(r, active))
BY GivenUpMarks, EndedMarks, RequeuedMarks DEF Recovered

LEMMA ClaimedMarks ==
  ASSUME NEW r \in Receipt
  PROVE  Claimed(r).status = "RUNNING" /\ Marks(r, Claimed(r))
<1>1. ASSUME NEW q \in Receipt PROVE Leased(q).status = "RUNNING" /\ Marks(q, Leased(q))
  BY DEF Leased, Receipt, Marks
<1>2. Degraded(r) \in Receipt BY DegradedType
<1>3. QED BY <1>1, <1>2, DegradedMarks DEF Claimed, Marks

LEMMA StoredMarks ==
  ASSUME NEW r \in Receipt, NEW a
  PROVE  /\ Stored(r, a).status = r.status
         /\ Stored(r, a).man.made
         /\ Marks(r, Stored(r, a))
<1>1. NewManifest(a).made BY DEF NewManifest, NoManifest
<1>2. QED BY <1>1 DEF Stored, Receipt, Marks

(* A worker that holds a job and writes its row. *)
LEMMA ProceedMoves ==
  ASSUME TypeOK, CopyMade, NEW w \in Workers, pc[w] \notin FreeSteps, NEW matches,
         NEW r, r.status = row[cur[w]].status, Marks(row[cur[w]], r),
         NEW m, m.man.made, NEW step, ProceedIf(w, matches, r, m, step)
  PROVE  Settle /\ CopyMade'
<1>1. cur[w] \in Jobs BY BusyHoldsJob DEF TypeOK
<1>2. CASE Owned(w) /\ matches
  <2>1. Settle BY <1>1, <1>2 DEF ProceedIf, Settle, Settled, Marks, TypeOK, DatabaseTypeOK
  <2>2. CopyMade' BY <1>2 DEF ProceedIf, CopyMade, TypeOK, WorkerTypeOK
  <2>3. QED BY <2>1, <2>2
<1>3. CASE ~(Owned(w) /\ matches)
  <2>1. Settle BY <1>3 DEF ProceedIf, Settle, Settled, Marks
  <2>2. CopyMade'
    BY <1>3 DEF ProceedIf, Rest, CopyMade, EarlySteps, FreeSteps, TypeOK, WorkerTypeOK
  <2>3. QED BY <2>1, <2>2
<1>4. QED BY <1>2, <1>3

LEMMA LetGoMoves ==
  ASSUME TypeOK, CopyMade, NEW w \in Workers, pc[w] \notin FreeSteps,
         NEW r, r.status \in {"QUEUED"} \union TerminalStatuses,
         Marks(row[cur[w]], r), LetGo(w, r)
  PROVE  Settle /\ CopyMade'
<1>1. cur[w] \in Jobs BY BusyHoldsJob DEF TypeOK
<1>2. Settle
  BY <1>1 DEF LetGo, Owned, Settle, Settled, Marks, ActiveStatuses, TypeOK, DatabaseTypeOK
<1>3. CopyMade'
  BY DEF LetGo, Rest, CopyMade, EarlySteps, FreeSteps, TypeOK, WorkerTypeOK
<1>4. QED BY <1>2, <1>3

LEMMA FinishMoves ==
  ASSUME TypeOK, CopyMade, NEW w \in Workers, pc[w] \notin FreeSteps,
         NEW s \in TerminalStatuses, NEW e, Finish(w, s, e)
  PROVE  Settle /\ CopyMade'
<1>1. row[cur[w]] \in Receipt BY BusyHoldsJob DEF TypeOK, DatabaseTypeOK
<1>2. QED BY <1>1, EndedMarks, LetGoMoves DEF Finish

LEMMA RequeueMoves ==
  ASSUME TypeOK, CopyMade, NEW w \in Workers, pc[w] \notin FreeSteps,
         RequeueDelivery(w) \/ RequeuePhoto(w)
  PROVE  Settle /\ CopyMade'
<1>1. row[cur[w]] \in Receipt BY BusyHoldsJob DEF TypeOK, DatabaseTypeOK
<1> DEFINE q == Requeued(row[cur[w]], FALSE)
           r == [q EXCEPT !.attempts = 0]
<1>2. q \in Receipt /\ q.status = "QUEUED" /\ Marks(row[cur[w]], q)
  BY <1>1, RequeuedType, RequeuedMarks
<1>3. "FAILED" \in TerminalStatuses BY DEF TerminalStatuses
<1>4. \/ Finish(w, "FAILED", "exhausted") \/ LetGo(w, q) \/ LetGo(w, r)
  BY DEF RequeueDelivery, RequeuePhoto
<1> HIDE DEF q
<1>5. r.status = "QUEUED" /\ Marks(row[cur[w]], r) BY <1>2 DEF Marks, Receipt
<1> HIDE DEF r
<1>6. QED BY <1>2, <1>3, <1>4, <1>5, FinishMoves, LetGoMoves

LEMMA StayMoves ==
  ASSUME TypeOK, CopyMade, NEW w \in Workers, pc[w] \notin EarlySteps, NEW step,
         Goto(w, step), UNCHANGED row
  PROVE  Settle /\ CopyMade'
BY DEF Goto, Settle, Settled, Marks, CopyMade, TypeOK, WorkerTypeOK

LEMMA PhotoDoneMoves ==
  ASSUME TypeOK, CopyMade, NEW w \in Workers, pc[w] \notin FreeSteps,
         NEW m, m.man.made, NEW step, PhotoDone(w, m, step)
  PROVE  Settle /\ CopyMade'
<1> DEFINE r == WithManifest(row[cur[w]], m.man)
<1>1. row[cur[w]] \in Receipt BY BusyHoldsJob DEF TypeOK, DatabaseTypeOK
<1>2. r.status = row[cur[w]].status /\ Marks(row[cur[w]], r)
  BY <1>1 DEF WithManifest, Receipt, Marks
<1>3. ProceedIf(w, TRUE, r, m, step) BY DEF PhotoDone, Proceed
<1> HIDE DEF r
<1>4. QED BY <1>2, <1>3, ProceedMoves

LEMMA SkipPhotoMoves ==
  ASSUME TypeOK, CopyMade, NEW w \in Workers, pc[w] \notin EarlySteps,
         NEW step, SkipPhoto(w, step)
  PROVE  Settle /\ CopyMade'
<1>1. mem[w] \in Memory BY DEF TypeOK, WorkerTypeOK
<1>2. NextPhoto(mem[w], TRUE).man.made BY <1>1, NextPhotoType DEF CopyMade
<1>3. pc[w] \notin FreeSteps BY DEF EarlySteps
<1>4. QED BY <1>2, <1>3, PhotoDoneMoves DEF SkipPhoto

LEMMA PhotoFailedMoves ==
  ASSUME TypeOK, CopyMade, NEW w \in Workers, pc[w] \notin EarlySteps,
         NEW retryable, PhotoFailed(w, retryable)
  PROVE  Settle /\ CopyMade'
<1>1. pc[w] \notin FreeSteps BY DEF EarlySteps
<1>2. QED BY <1>1, RequeueMoves, SkipPhotoMoves DEF PhotoFailed

LEMMA BeginTextMoves ==
  ASSUME TypeOK, CopyMade, NEW w \in Workers, pc[w] \notin EarlySteps,
         BeginTextAfterSkippingPhotos(w)
  PROVE  Settle /\ CopyMade'
<1> DEFINE m == TextWithoutPhotos(mem[w])
           q == WithManifest(row[cur[w]], m.man)
           r == [q EXCEPT !.cursor = m.cursor, !.attempts = m.attempts]
<1>1. pc[w] \notin FreeSteps BY DEF EarlySteps
<1>2. mem[w] \in Memory /\ row[cur[w]] \in Receipt
  BY <1>1, BusyHoldsJob DEF TypeOK, WorkerTypeOK, DatabaseTypeOK
<1>3. m \in Memory /\ m.man.made BY <1>2, TextWithoutPhotosType DEF CopyMade
<1>4. ProceedIf(w, TRUE, r, m, TextStep(m)) BY DEF BeginTextAfterSkippingPhotos, Proceed
<1> HIDE DEF m
<1>5. /\ q \in Receipt /\ q.status = row[cur[w]].status
      /\ q.conv = row[cur[w]].conv /\ q.man.made
  BY <1>2, <1>3, WithManifestType DEF Memory
<1> HIDE DEF q
<1>6. r.status = row[cur[w]].status /\ Marks(row[cur[w]], r)
  BY <1>5 DEF Receipt, Marks
<1> HIDE DEF r
<1>7. QED BY <1>1, <1>3, <1>4, <1>6, ProceedMoves

LEMMA PhotoAttemptMoves ==
  ASSUME TypeOK, CopyMade, NEW w \in Workers, pc[w] \notin EarlySteps, PhotoAttempt(w)
  PROVE  Settle /\ CopyMade'
<1> DEFINE m == [mem[w] EXCEPT !.attempts = 0, !.man.tries = @ + 1]
           q == WithManifest(row[cur[w]], m.man)
           r == [q EXCEPT !.attempts = 0]
<1>1. pc[w] \notin FreeSteps BY DEF EarlySteps
<1>2. mem[w] \in Memory /\ row[cur[w]] \in Receipt
  BY <1>1, BusyHoldsJob DEF TypeOK, WorkerTypeOK, DatabaseTypeOK
<1>3. m.man.made BY <1>2 DEF CopyMade, Memory, Manifest
<1>4. ProceedIf(w, TRUE, r, m, "photo") BY DEF PhotoAttempt, Proceed
<1> HIDE DEF m
<1>5. r.status = row[cur[w]].status /\ Marks(row[cur[w]], r)
  BY <1>2, <1>3 DEF WithManifest, Receipt, Marks
<1> HIDE DEF r
<1>6. QED BY <1>1, <1>3, <1>4, <1>5, ProceedMoves

LEMMA ConfirmTextMoves ==
  ASSUME TypeOK, CopyMade, NEW w \in Workers, pc[w] \notin EarlySteps, ConfirmText(w)
  PROVE  Settle /\ CopyMade'
<1> DEFINE m    == [mem[w] EXCEPT !.cursor = @ + 1]
           last == m.cursor = m.man.texts /\ State(m).first /\ PhotoLeft(m)
           n    == IF last THEN [m EXCEPT !.attempts = 0] ELSE m
           a    == IF last THEN 0 ELSE row[cur[w]].attempts
           r    == [row[cur[w]] EXCEPT !.cursor = m.cursor, !.expired = FALSE,
                                       !.attempts = a]
<1>1. pc[w] \notin FreeSteps BY DEF EarlySteps
<1>2. mem[w] \in Memory /\ row[cur[w]] \in Receipt
  BY <1>1, BusyHoldsJob DEF TypeOK, WorkerTypeOK, DatabaseTypeOK
<1>3. ProceedIf(w, row[cur[w]].cursor < m.cursor, r, n, TextStep(n))
  <2>1. r = [row[cur[w]] EXCEPT !.cursor = m.cursor, !.expired = FALSE,
                                !.attempts = IF last THEN 0 ELSE @]
    BY <1>2 DEF Receipt
  <2>2. QED BY <2>1 DEF ConfirmText
<1> HIDE DEF last
<1>4. n.man.made BY <1>2 DEF CopyMade, Memory
<1> HIDE DEF m, n, a
<1>5. r.status = row[cur[w]].status /\ Marks(row[cur[w]], r)
  BY <1>2 DEF Receipt, Marks
<1> HIDE DEF r
<1>6. QED BY <1>1, <1>3, <1>4, <1>5, ProceedMoves

LEMMA DeliverMoves ==
  ASSUME TypeOK, CopyMade, NEW w \in Workers, Deliver(w)
  PROVE  Settle /\ CopyMade'
<1>1. pc[w] \notin EarlySteps
  BY DEF Deliver, Begin, AuthoriseText, AuthorisePhoto, Authorise, SendText, SettleText,
         Gate, PhotoOff, Render, SendPhoto, SettlePhoto, StartText, FinishDelivered,
         EarlySteps, FreeSteps
<1>2. pc[w] \notin FreeSteps BY <1>1 DEF EarlySteps
<1>3. mem[w] \in Memory /\ mem[w].man.made /\ row[cur[w]] \in Receipt
  BY <1>1, <1>2, BusyHoldsJob DEF CopyMade, TypeOK, WorkerTypeOK, DatabaseTypeOK
<1>4. {"SUCCEEDED", "FAILED", "CANCELLED"} \subseteq TerminalStatuses
  BY DEF TerminalStatuses
<1>5. CASE Begin(w)
  <2> DEFINE s == SplitCursor(mem[w])
             q == WithManifest(row[cur[w]], s.man)
             r == [q EXCEPT !.cursor = s.cursor]
  <2>1. \/ Finish(w, "SUCCEEDED", "none")
        \/ BeginTextAfterSkippingPhotos(w)
        \/ ProceedIf(w, TRUE, r, s, DeliverStep(s))
        \/ Goto(w, DeliverStep(mem[w])) /\ UNCHANGED row
    BY <1>5 DEF Begin, Proceed
  <2>2. s \in Memory /\ s.man.made BY <1>3, SplitCursorType
  <2> HIDE DEF s
  <2>3. r.status = row[cur[w]].status /\ Marks(row[cur[w]], r)
    BY <1>3, <2>2 DEF WithManifest, Receipt, Marks
  <2> HIDE DEF r
  <2>4. QED
    BY <1>1, <1>2, <1>4, <2>1, <2>2, <2>3, FinishMoves, BeginTextMoves, ProceedMoves,
       StayMoves
<1>6. CASE AuthoriseText(w) \/ AuthorisePhoto(w)
  BY <1>1, <1>2, <1>4, <1>6, StayMoves, FinishMoves
  DEF AuthoriseText, AuthorisePhoto, Authorise
<1>7. CASE SendText(w) \/ SendPhoto(w)
  <2>1. PICK x \in Replies, step \in {"sentText", "sentPhoto"} : Send(w, x, step)
    BY <1>7 DEF SendText, SendPhoto
  <2>2. QED
    BY <1>1, <2>1 DEF Send, Settle, Settled, Marks, CopyMade, TypeOK, WorkerTypeOK
<1>8. CASE SettleText(w)
  BY <1>1, <1>2, <1>4, <1>8, ConfirmTextMoves, RequeueMoves, FinishMoves DEF SettleText
<1>9. CASE Gate(w)
  <2>1. ASSUME AllPhotosSkipped(w) PROVE Settle /\ CopyMade'
    <3> DEFINE man == [mem[w].man EXCEPT !.photo = mem[w].man.photos,
                                         !.degraded = TRUE]
               m == [mem[w] EXCEPT !.man = man]
    <3>1. m.man.made BY <1>3 DEF Memory, Manifest
    <3>2. PhotoDone(w, m, "finish") BY <2>1 DEF AllPhotosSkipped
    <3> HIDE DEF m
    <3>3. QED BY <1>2, <3>1, <3>2, PhotoDoneMoves
  <2>2. \/ Goto(w, AfterPhotos(mem[w])) /\ UNCHANGED row
        \/ Goto(w, "off") /\ UNCHANGED row
        \/ PhotoAttempt(w)
        \/ AllPhotosSkipped(w)
        \/ BeginTextAfterSkippingPhotos(w)
    BY <1>9 DEF Gate
  <2>3. QED BY <1>1, <2>1, <2>2, StayMoves, PhotoAttemptMoves, BeginTextMoves
<1>10. CASE PhotoOff(w)
  BY <1>1, <1>2, <1>4, <1>10, SkipPhotoMoves, FinishMoves DEF PhotoOff
<1>11. CASE Render(w)
  <2>1. \/ Goto(w, "sendPhoto") /\ UNCHANGED row
        \/ Finish(w, "CANCELLED", "revoked")
        \/ PhotoFailed(w, TRUE)
    BY <1>11 DEF Render
  <2>2. QED BY <1>1, <1>2, <1>4, <2>1, StayMoves, FinishMoves, PhotoFailedMoves
<1>12. CASE SettlePhoto(w)
  <2> DEFINE m == NextPhoto(mem[w], FALSE)
  <2>1. m.man.made BY <1>3, NextPhotoType
  <2>2. \/ PhotoDone(w, m, PhotoStep(m, "photo"))
        \/ PhotoFailed(w, out[w].reply = "retry")
    BY <1>12 DEF SettlePhoto
  <2> HIDE DEF m
  <2>3. QED BY <1>1, <1>2, <2>1, <2>2, PhotoDoneMoves, PhotoFailedMoves
<1>13. CASE StartText(w)
  <2> DEFINE m == [mem[w] EXCEPT !.attempts = 1, !.man.started = TRUE]
             r == [WithManifest(row[cur[w]], m.man) EXCEPT !.attempts = 1]
  <2>1. m.man.made BY <1>3 DEF Memory, Manifest
  <2>2. ProceedIf(w, TRUE, r, m, TextStep(m)) BY <1>13 DEF StartText, Proceed
  <2> HIDE DEF m
  <2>3. r.status = row[cur[w]].status /\ Marks(row[cur[w]], r)
    BY <1>3, <2>1 DEF WithManifest, Receipt, Marks
  <2> HIDE DEF r
  <2>4. QED BY <1>2, <2>1, <2>2, <2>3, ProceedMoves
<1>14. CASE FinishDelivered(w)
  BY <1>2, <1>4, <1>14, FinishMoves DEF FinishDelivered
<1>15. QED
  BY <1>5, <1>6, <1>7, <1>8, <1>9, <1>10, <1>11, <1>12, <1>13, <1>14 DEF Deliver

LEMMA ExecuteMoves ==
  ASSUME TypeOK, CopyMade, NEW w \in Workers,
         Check(w) \/ Execute(w) \/ Refresh(w) \/ StoreDelivery(w)
  PROVE  Settle /\ CopyMade'
<1>1. {"FAILED", "CANCELLED"} \subseteq TerminalStatuses BY DEF TerminalStatuses
<1>2. pc[w] \notin FreeSteps
  BY DEF Check, Execute, ExecuteQuestion, ExecuteNew, ExecuteAdvisor, Executing,
         ExecuteRetry, ExecutePermanent, Refresh, StoreDelivery, FreeSteps
<1>3. cur[w] \in Jobs /\ row[cur[w]] \in Receipt
  BY <1>2, BusyHoldsJob DEF TypeOK, DatabaseTypeOK
<1>4. ASSUME NEW a, Executed(w, a) PROVE CopyMade'
  BY <1>4 DEF Executed, CopyMade, EarlySteps, TypeOK, WorkerTypeOK
<1>5. CASE Check(w)
  <2>1. CASE ~LinkActive(w) BY <1>1, <1>2, <1>5, <2>1, FinishMoves DEF Check
  <2>2. CASE LinkActive(w)
    BY <1>5, <2>2
    DEF Check, Goto, Settle, Settled, Marks, CopyMade, EarlySteps, TypeOK, WorkerTypeOK
  <2>3. QED BY <2>1, <2>2
<1>6. CASE ExecuteQuestion(w)
  BY <1>4, <1>6 DEF ExecuteQuestion, Settle, Settled, Marks
<1>7. CASE ExecuteNew(w)
  <2> DEFINE r == [row[cur[w]] EXCEPT !.conv = TRUE]
  <2>1. UNCHANGED row \/ row' = [row EXCEPT ![cur[w]] = r]
    BY <1>3, <1>7 DEF ExecuteNew, TypeOK, DatabaseTypeOK
  <2>2. Settled(row[cur[w]], r) BY <1>3 DEF Settled, Marks, Receipt
  <2> HIDE DEF r
  <2>3. Settle
    BY <1>3, <2>1, <2>2 DEF Settle, Settled, Marks, TypeOK, DatabaseTypeOK
  <2>4. QED BY <1>4, <1>7, <2>3 DEF ExecuteNew
<1>8. CASE ExecuteAdvisor(w)
  <2> DEFINE r == Stored(row[cur[w]], OneMessage)
  <2>1. Settled(row[cur[w]], r) BY <1>3, StoredMarks DEF Settled
  <2>2. \/ UNCHANGED row /\ Executed(w, OneMessage)
        \/ row' = [row EXCEPT ![cur[w]] = r] /\ Executed(w, OneMessage)
        \/ RequeueDelivery(w)
    BY <1>3, <1>8 DEF ExecuteAdvisor, TypeOK, DatabaseTypeOK
  <2> HIDE DEF r
  <2>3. CASE RequeueDelivery(w) BY <1>2, <2>3, RequeueMoves
  <2>4. CASE ~RequeueDelivery(w)
    <3>1. Settle
      BY <1>3, <2>1, <2>2, <2>4 DEF Settle, Settled, Marks, TypeOK, DatabaseTypeOK
    <3>2. QED BY <1>4, <2>2, <2>4, <3>1
  <2>5. QED BY <2>3, <2>4
<1>9. CASE ExecuteRetry(w) BY <1>2, <1>9, RequeueMoves DEF ExecuteRetry
<1>10. CASE ExecutePermanent(w)
  BY <1>1, <1>2, <1>10, FinishMoves DEF ExecutePermanent
<1>11. CASE Refresh(w)
  <2> DEFINE r == row[cur[w]]
             m == [Copy(r) EXCEPT !.token = IF r.status = "RUNNING"
                                            THEN r.claims ELSE 0]
  <2>1. m.man = r.man BY DEF Copy
  <2>2. /\ mem' = [mem EXCEPT ![w] = m]
        /\ pc' = [pc EXCEPT ![w] = IF r.man.made THEN "begin" ELSE "store"]
        /\ UNCHANGED row
    BY <1>11 DEF Refresh
  <2> HIDE DEF m
  <2>3. Settle BY <2>2 DEF Settle, Settled, Marks
  <2>4. CopyMade' BY <2>1, <2>2 DEF CopyMade, EarlySteps, TypeOK, WorkerTypeOK
  <2>5. QED BY <2>3, <2>4
<1>12. CASE StoreDelivery(w)
  <2> DEFINE r == Stored(row[cur[w]], out[w])
             m == [Copy(r) EXCEPT !.token = mem[w].token]
  <2>1. r.status = row[cur[w]].status /\ r.man.made /\ Marks(row[cur[w]], r)
    BY <1>3, StoredMarks
  <2>2. ProceedIf(w, TRUE, r, m, "begin") BY <1>12 DEF StoreDelivery, Proceed
  <2>3. m.man.made BY <2>1 DEF Copy
  <2> HIDE DEF r, m
  <2>4. QED BY <1>2, <2>1, <2>2, <2>3, ProceedMoves
<1>13. QED
  BY <1>5, <1>6, <1>7, <1>8, <1>9, <1>10, <1>11, <1>12 DEF Execute

LEMMA SweptMoves ==
  ASSUME TypeOK, row' = SweptRows
  PROVE  Settle
<1> SUFFICES ASSUME NEW j \in Jobs PROVE Settled(row[j], row'[j])
  BY DEF Settle
<1>1. row[j] \in Receipt BY DEF TypeOK, DatabaseTypeOK
<1>2. row'[j] = IF Orphaned(j) THEN Ended(row[j], "CANCELLED", "revoked") ELSE row[j]
  BY DEF SweptRows
<1>3. QED
  BY <1>1, <1>2, EndedMarks DEF Orphaned, IsActive, Settled, Marks, TerminalStatuses

LEMMA ClaimMoves ==
  ASSUME TypeOK, CopyMade, NEW w \in Workers,
         \/ Sweep(w) \/ NothingToClaim(w) \/ Restart(w) \/ Crash(w)
         \/ \E j \in Jobs : RecoverStale(w, j) \/ Claim(w, j) \/ ClaimConflict(w, j)
  PROVE  RowsMove /\ CopyMade'
<1>1. \A j \in Jobs : row[j] \in Receipt BY DEF TypeOK, DatabaseTypeOK
<1>2. CopyMade'
  <2>1. \/ UNCHANGED mem /\ pc' \in {[pc EXCEPT ![w] = s] : s \in EarlySteps}
        \/ UNCHANGED <<pc, mem>>
        \/ Crash(w)
        \/ \E j \in Jobs : Claim(w, j)
    BY DEF Sweep, NothingToClaim, Restart, RecoverStale, ClaimConflict,
           EarlySteps, FreeSteps
  <2>2. QED
    BY <2>1 DEF Crash, Claim, CopyMade, EarlySteps, FreeSteps, TypeOK, WorkerTypeOK
<1>3. CASE Sweep(w) BY <1>2, <1>3, SweptMoves DEF Sweep, RowsMove
<1>4. CASE NothingToClaim(w)
  <2>1. \A j \in Jobs : row'[j] = FailedIfExhausted(row[j])
    BY <1>4 DEF NothingToClaim
  <2>2. ASSUME NEW j \in Jobs PROVE Settled(row[j], FailedIfExhausted(row[j]))
    BY <1>1, GivenUpMarks
    DEF FailedIfExhausted, Exhausted, Settled, Marks, ActiveStatuses, TerminalStatuses
  <2>3. QED BY <1>2, <2>1, <2>2 DEF RowsMove, Settle
<1>5. CASE Restart(w) \/ Crash(w) \/ \E j \in Jobs : ClaimConflict(w, j)
  BY <1>2, <1>5 DEF Restart, Crash, ClaimConflict, RowsMove, Settle, Settled, Marks
<1>6. ASSUME NEW j \in Jobs, RecoverStale(w, j) PROVE RowsMove
  BY <1>1, <1>6, RecoveredMarks
  DEF RecoverStale, RowsMove, Settle, Settled, Marks, ActiveStatuses, TerminalStatuses,
      TypeOK, DatabaseTypeOK
<1>7. ASSUME NEW j \in Jobs, Claim(w, j) PROVE RowsMove
  <2>1. Claimed(row[j]).status = "RUNNING" /\ Marks(row[j], Claimed(row[j]))
    BY <1>1, ClaimedMarks
  <2>2. row' = [row EXCEPT ![j] = Claimed(row[j])]
    BY <1>7 DEF Claim, TypeOK, DatabaseTypeOK
  <2>3. Grant(j)
    BY <1>7, <2>1, <2>2 DEF Claim, NextClaim, Grant, TypeOK, DatabaseTypeOK
  <2>4. QED BY <2>3 DEF RowsMove
<1>8. QED BY <1>2, <1>3, <1>4, <1>5, <1>6, <1>7

LEMMA WebMoves ==
  ASSUME TypeOK, CopyMade,
         \/ \E j \in Jobs : Enqueue(j) \/ Release(j) \/ ExpireLease(j)
         \/ \E l \in Links : Revoke(l)
         \/ SweepOnUnlink
  PROVE  RowsMove /\ CopyMade'
<1>1. \A j \in Jobs : row[j] \in Receipt BY DEF TypeOK, DatabaseTypeOK
<1>2. CopyMade'
  BY DEF Enqueue, Release, ExpireLease, Revoke, SweepOnUnlink, CopyMade
<1>3. ASSUME NEW j \in Jobs, Enqueue(j) PROVE RowsMove
  <2>1. /\ row'[j].status = "QUEUED"
        /\ \A k \in Jobs \ {j} : row'[k] = row[k]
    BY <1>3 DEF Enqueue, Absent, TypeOK, DatabaseTypeOK
  <2>2. Admit(j) BY <1>3, <2>1 DEF Enqueue, Admit
  <2>3. QED BY <2>2 DEF RowsMove
<1>4. ASSUME NEW j \in Jobs, Release(j) \/ ExpireLease(j) PROVE RowsMove
  <2>1. \A k \in Jobs : /\ row'[k].status = row[k].status
                        /\ row'[k].conv = row[k].conv
                        /\ row'[k].man = row[k].man
    BY <1>1, <1>4 DEF Release, ExpireLease, Receipt, TypeOK, DatabaseTypeOK
  <2>2. QED BY <2>1 DEF RowsMove, Settle, Settled, Marks
<1>5. CASE \E l \in Links : Revoke(l)
  <2>1. UNCHANGED row BY <1>5 DEF Revoke
  <2>2. QED BY <1>2, <2>1 DEF RowsMove, Settle, Settled, Marks
<1>6. CASE SweepOnUnlink BY <1>2, <1>6, SweptMoves DEF SweepOnUnlink, RowsMove
<1>7. QED BY <1>2, <1>3, <1>4, <1>5, <1>6

LEMMA StepMoves ==
  ASSUME TypeOK, CopyMade, [Next]_vars
  PROVE  RowsMove /\ CopyMade'
<1>1. CASE UNCHANGED vars
  BY <1>1 DEF vars, RowsMove, Settle, Settled, Marks, CopyMade
<1>2. CASE Next
  BY <1>2, WebMoves, ClaimMoves, ExecuteMoves, DeliverMoves DEF Next, Work, RowsMove
<1>3. QED BY <1>1, <1>2

-----------------------------------------------------------------------------
(* Who may work on what.                                                   *)

CoreInvariant == TypeOK /\ CopyMade

LEMMA InitialStatuses ==
  ASSUME Init
  PROVE  \A j \in Jobs : row[j].status \in {"ABSENT", "QUEUED"}
<1>1. ASSUME NEW r \in InitialRows PROVE r.status \in {"ABSENT", "QUEUED"}
  <2>1. ASSUME NEW a \in LegacyShapes, r \in LegacySeeds(a) PROVE r.status = "QUEUED"
    <3>1. PICK m \in LegacyManifests(a), n \in 0..(MaxAttempts - 1),
               c \in 0..(a.texts + a.photos) : r = LegacyRow(m, n, c)
      BY <2>1 DEF LegacySeeds, LegacyRows
    <3>2. QED BY <3>1 DEF LegacyRow, Absent
  <2>2. QED BY <2>1 DEF InitialRows, Absent
<1>2. PICK r \in InitialRows : row = [j \in Jobs |-> IF FirstJob(j) THEN r ELSE Absent]
  <2>1. Absent \in InitialRows BY DEF InitialRows
  <2>2. QED BY <2>1 DEF Init
<1>3. QED BY <1>1, <1>2 DEF Absent

LEMMA CoreCorrect == Spec => []CoreInvariant
<1>1. Init => CoreInvariant
  BY InitType DEF CoreInvariant, Init, CopyMade, EarlySteps, FreeSteps
<1>2. CoreInvariant /\ [Next]_vars => CoreInvariant'
  BY StepType, StepMoves DEF CoreInvariant
<1>3. QED BY <1>1, <1>2, PTL DEF Spec

(* Two updates of one chat never run together, in whatever order Telegram  *)
(* hands them over, whoever crashes and whichever lease is outlived: the   *)
(* claim is refused while a sibling runs (uq_tg_running_link), and no other*)
(* write makes a row RUNNING.                                              *)
THEOREM OneRunning == Spec => []OneRunningPerLink
<1>1. Init => OneRunningPerLink
  BY InitialStatuses DEF OneRunningPerLink, Running
<1>2. CoreInvariant /\ OneRunningPerLink /\ [Next]_vars => OneRunningPerLink'
  <2> SUFFICES ASSUME CoreInvariant, OneRunningPerLink, [Next]_vars,
                      NEW j \in Jobs, Running(j)',
                      NEW k \in Siblings(j), Running(k)'
               PROVE  FALSE
    BY DEF OneRunningPerLink, Siblings
  <2>1. RowsMove BY StepMoves DEF CoreInvariant
  <2>2. k \in Jobs /\ j # k /\ j \in Siblings(k) BY DEF Siblings
  <2>3. CASE Settle
    <3>1. Running(j) /\ Running(k)
      BY <2>2, <2>3 DEF Settle, Settled, Running, TerminalStatuses
    <3>2. QED BY <3>1 DEF OneRunningPerLink
  <2>4. ASSUME NEW i \in Jobs, Admit(i) PROVE FALSE
    <3>1. i # j /\ i # k BY <2>4 DEF Admit, Running
    <3>2. Running(j) /\ Running(k) BY <2>2, <2>4, <3>1 DEF Admit, Running
    <3>3. QED BY <3>2 DEF OneRunningPerLink
  <2>5. ASSUME NEW i \in Jobs, Grant(i) PROVE FALSE
    <3>1. CASE i = j
      <4>1. Running(k) BY <2>2, <2>5, <3>1 DEF Grant, Running
      <4>2. QED BY <2>5, <3>1, <4>1 DEF Grant, SiblingRunning, Running
    <3>2. CASE i = k
      <4>1. Running(j) BY <2>2, <2>5, <3>2 DEF Grant, Running
      <4>2. QED BY <2>2, <2>5, <3>2, <4>1 DEF Grant, SiblingRunning, Running
    <3>3. CASE i # j /\ i # k
      <4>1. Running(j) /\ Running(k) BY <2>2, <2>5, <3>3 DEF Grant, Running
      <4>2. QED BY <4>1 DEF OneRunningPerLink
    <3>4. QED BY <3>1, <3>2, <3>3
  <2>6. QED BY <2>1, <2>3, <2>4, <2>5 DEF RowsMove
<1>3. QED BY <1>1, <1>2, CoreCorrect, PTL DEF Spec

(* FIFO: while updates are handed over in order, no update of a chat runs  *)
(* before an earlier one has ended, over any retries, crashes, recoveries  *)
(* and outlived leases.  A row returns to the queue only from RUNNING, so  *)
(* nothing earlier than a running row becomes active again.                *)
THEOREM HeadRuns ==
  ASSUME Ordered
  PROVE  Spec => []RunningIsHead
<1>1. Init => RunningIsHead
  BY InitialStatuses DEF RunningIsHead, Running
<1>2. CoreInvariant /\ RunningIsHead /\ [Next]_vars => RunningIsHead'
  <2> SUFFICES ASSUME CoreInvariant, RunningIsHead, [Next]_vars,
                      NEW j \in Jobs, Running(j)',
                      NEW k \in Siblings(j), k < j, IsActive(k)'
               PROVE  FALSE
    BY DEF RunningIsHead, Siblings
  <2>1. RowsMove BY StepMoves DEF CoreInvariant
  <2>2. k \in Jobs /\ j # k BY DEF Siblings
  <2>3. CASE Settle
    <3>1. Running(j) /\ IsActive(k)
      BY <2>2, <2>3 DEF Settle, Settled, Running, IsActive, TerminalStatuses
    <3>2. QED BY <3>1 DEF RunningIsHead
  <2>4. ASSUME NEW i \in Jobs, Admit(i) PROVE FALSE
    <3>1. i # j BY <2>4 DEF Admit, Running
    <3>2. Running(j) BY <2>4, <3>1 DEF Admit, Running
    <3>3. i # k BY <2>4, <3>2, JobsAssumption DEF Admit, Running
    <3>4. IsActive(k) BY <2>2, <2>4, <3>3 DEF Admit, IsActive
    <3>5. QED BY <3>2, <3>4 DEF RunningIsHead
  <2>5. ASSUME NEW i \in Jobs, Grant(i) PROVE FALSE
    <3>1. IsActive(k)
      <4>1. CASE i = k BY <2>5, <4>1 DEF Grant, Eligible, IsActive, ActiveStatuses
      <4>2. CASE i # k BY <2>2, <2>5, <4>2 DEF Grant, IsActive
      <4>3. QED BY <4>1, <4>2
    <3>2. CASE i = j BY <2>5, <3>1, <3>2 DEF Grant, Eligible
    <3>3. CASE i # j
      <4>1. Running(j) BY <2>5, <3>3 DEF Grant, Running
      <4>2. QED BY <3>1, <4>1 DEF RunningIsHead
    <3>4. QED BY <3>2, <3>3
  <2>6. QED BY <2>1, <2>3, <2>4, <2>5 DEF RowsMove
<1>3. QED BY <1>1, <1>2, CoreCorrect, PTL DEF Spec

(* A job that has ended stays ended: no stale worker, recovery, sweep or   *)
(* late release writes the status of a terminal row.                       *)
THEOREM EndedForGood == Spec => TerminalIsFinal
<1>1. CoreInvariant /\ [Next]_vars =>
        [\A j \in Jobs : Terminal(j) => row'[j].status = row[j].status]_vars
  <2> SUFFICES ASSUME CoreInvariant, [Next]_vars, NEW j \in Jobs, Terminal(j)
               PROVE  row'[j].status = row[j].status
    OBVIOUS
  <2>1. RowsMove BY StepMoves DEF CoreInvariant
  <2>2. QED
    BY <2>1
    DEF RowsMove, Settle, Settled, Admit, Grant, Eligible, Terminal, ActiveStatuses,
        TerminalStatuses
<1>2. QED BY <1>1, CoreCorrect, PTL DEF Spec, TerminalIsFinal

-----------------------------------------------------------------------------
(* What a retry may repeat.                                                *)

(* A worker keeps its job or lets go of it. *)
KeepsOrDrops(w) == cur' \in {cur, [cur EXCEPT ![w] = NoJob]}

LEMMA WritesKeepOrDrop ==
  ASSUME NEW w
  PROVE  /\ \A step : Goto(w, step) => KeepsOrDrops(w)
         /\ \A matches, r, m, step : ProceedIf(w, matches, r, m, step) => KeepsOrDrops(w)
         /\ \A r : LetGo(w, r) => KeepsOrDrops(w)
BY DEF Goto, ProceedIf, LetGo, Rest, KeepsOrDrops

LEMMA EndsKeepOrDrop ==
  ASSUME NEW w
  PROVE  /\ \A s, e : Finish(w, s, e) => KeepsOrDrops(w)
         /\ RequeueDelivery(w) => KeepsOrDrops(w)
         /\ RequeuePhoto(w) => KeepsOrDrops(w)
BY WritesKeepOrDrop DEF Finish, RequeueDelivery, RequeuePhoto

LEMMA PhotosKeepOrDrop ==
  ASSUME NEW w
  PROVE  /\ \A m, step : PhotoDone(w, m, step) => KeepsOrDrops(w)
         /\ \A step : SkipPhoto(w, step) => KeepsOrDrops(w)
         /\ \A retryable : PhotoFailed(w, retryable) => KeepsOrDrops(w)
         /\ BeginTextAfterSkippingPhotos(w) => KeepsOrDrops(w)
<1>1. \A m, step : PhotoDone(w, m, step) => KeepsOrDrops(w)
  BY WritesKeepOrDrop DEF PhotoDone, Proceed
<1>2. \A step : SkipPhoto(w, step) => KeepsOrDrops(w)
  BY <1>1 DEF SkipPhoto
<1>3. \A retryable : PhotoFailed(w, retryable) => KeepsOrDrops(w)
  BY <1>2, EndsKeepOrDrop DEF PhotoFailed
<1>4. BeginTextAfterSkippingPhotos(w) => KeepsOrDrops(w)
  BY WritesKeepOrDrop DEF BeginTextAfterSkippingPhotos, Proceed
<1>5. QED BY <1>1, <1>2, <1>3, <1>4

(* Delivery has no side effect but its messages. *)
LEMMA DeliverKeepsOrDrops ==
  ASSUME NEW w \in Workers, Deliver(w)
  PROVE  KeepsOrDrops(w) /\ UNCHANGED effects
<1>1. CASE Begin(w)
  BY <1>1, EndsKeepOrDrop, WritesKeepOrDrop, PhotosKeepOrDrop DEF Begin, Proceed, Quiet
<1>2. CASE AuthoriseText(w) \/ AuthorisePhoto(w)
  BY <1>2, EndsKeepOrDrop, WritesKeepOrDrop
  DEF AuthoriseText, AuthorisePhoto, Authorise, Quiet
<1>3. CASE SendText(w) \/ SendPhoto(w)
  BY <1>3 DEF SendText, SendPhoto, Send, KeepsOrDrops
<1>4. CASE SettleText(w)
  BY <1>4, EndsKeepOrDrop, WritesKeepOrDrop DEF SettleText, ConfirmText, Quiet
<1>5. CASE Gate(w)
  BY <1>5, WritesKeepOrDrop, PhotosKeepOrDrop
  DEF Gate, PhotoAttempt, AllPhotosSkipped, Proceed, Quiet
<1>6. CASE PhotoOff(w) BY <1>6, EndsKeepOrDrop, PhotosKeepOrDrop DEF PhotoOff, Quiet
<1>7. CASE Render(w)
  BY <1>7, EndsKeepOrDrop, WritesKeepOrDrop, PhotosKeepOrDrop DEF Render, Quiet
<1>8. CASE SettlePhoto(w) BY <1>8, PhotosKeepOrDrop DEF SettlePhoto, Quiet
<1>9. CASE StartText(w) BY <1>9, WritesKeepOrDrop DEF StartText, Proceed, Quiet
<1>10. CASE FinishDelivered(w) BY <1>10, EndsKeepOrDrop DEF FinishDelivered, Quiet
<1>11. QED
  BY <1>1, <1>2, <1>3, <1>4, <1>5, <1>6, <1>7, <1>8, <1>9, <1>10 DEF Deliver

(* Nobody holds a row that does not exist. *)
HeldIsPresent ==
  \A w \in Workers : cur[w] # NoJob => row[cur[w]].status # "ABSENT"

(* What a command has done is on record in its row. *)
Recorded(j) == \/ KindOf[j] = "NEW" /\ row[j].conv
               \/ KindOf[j] = "ADVISOR" /\ row[j].man.made

EffectsRecorded ==
  \A j \in Jobs : /\ effects[j] <= 1
                  /\ effects[j] > 0 => Recorded(j) /\ row[j].status # "ABSENT"

EffectInvariant == CoreInvariant /\ HeldIsPresent /\ EffectsRecorded

(* No row is ever erased, and no other step touches what it records. *)
LEMMA PresentStays ==
  ASSUME RowsMove, NEW j \in Jobs, row[j].status # "ABSENT"
  PROVE  row'[j].status # "ABSENT" /\ (Recorded(j) => Recorded(j)')
<1>1. CASE Settle
  BY <1>1 DEF Settle, Settled, Marks, Recorded, TerminalStatuses
<1>2. ASSUME NEW i \in Jobs, Admit(i) PROVE row'[j] = row[j]
  BY <1>2 DEF Admit
<1>3. ASSUME NEW i \in Jobs, Grant(i) PROVE row'[j].status # "ABSENT" /\ Marks(row[j], row'[j])
  BY <1>3 DEF Grant, Marks
<1>4. QED BY <1>1, <1>2, <1>3 DEF RowsMove, Recorded, Marks

LEMMA StepKeepsOrDrops ==
  ASSUME TypeOK, [Next]_vars
  PROVE  \/ UNCHANGED cur
         \/ \E w \in Workers : KeepsOrDrops(w)
         \/ \E w \in Workers, j \in Jobs : Claim(w, j)
<1>1. CASE UNCHANGED vars BY <1>1 DEF vars
<1>2. ASSUME NEW w \in Workers, Work(w) \/ Crash(w)
      PROVE  KeepsOrDrops(w) \/ \E j \in Jobs : Claim(w, j)
  <2>1. CASE \/ Sweep(w) \/ NothingToClaim(w) \/ Restart(w) \/ Crash(w)
             \/ \E j \in Jobs : RecoverStale(w, j) \/ ClaimConflict(w, j)
    BY <2>1
    DEF Sweep, NothingToClaim, Restart, Crash, RecoverStale, ClaimConflict, KeepsOrDrops
  <2>2. CASE Check(w) \/ Execute(w) \/ Refresh(w) \/ StoreDelivery(w)
    BY <2>2, EndsKeepOrDrop, WritesKeepOrDrop
    DEF Check, Execute, ExecuteQuestion, ExecuteNew, ExecuteAdvisor, ExecuteRetry,
        ExecutePermanent, Executed, Refresh, StoreDelivery, Proceed, KeepsOrDrops
  <2>3. CASE Deliver(w) BY <2>3, DeliverKeepsOrDrops
  <2>4. QED BY <1>2, <2>1, <2>2, <2>3 DEF Work
<1>3. CASE \/ \E j \in Jobs : Enqueue(j) \/ Release(j) \/ ExpireLease(j)
           \/ \E l \in Links : Revoke(l)
           \/ SweepOnUnlink
  BY <1>3 DEF Enqueue, Release, ExpireLease, Revoke, SweepOnUnlink
<1>4. QED BY <1>1, <1>2, <1>3 DEF Next

LEMMA HeldStaysPresent ==
  ASSUME TypeOK, HeldIsPresent, RowsMove, [Next]_vars
  PROVE  HeldIsPresent'
<1> SUFFICES ASSUME NEW w \in Workers, cur'[w] # NoJob
             PROVE  row'[cur'[w]].status # "ABSENT"
  BY DEF HeldIsPresent
<1>1. ASSUME cur'[w] = cur[w] PROVE row'[cur'[w]].status # "ABSENT"
  <2>1. cur[w] \in Jobs BY <1>1 DEF TypeOK, WorkerTypeOK
  <2>2. row[cur[w]].status # "ABSENT" BY <1>1 DEF HeldIsPresent
  <2>3. QED BY <1>1, <2>1, <2>2, PresentStays
<1>2. ASSUME NEW v \in Workers, KeepsOrDrops(v) PROVE cur'[w] = cur[w]
  BY <1>2 DEF KeepsOrDrops, TypeOK, WorkerTypeOK
<1>3. ASSUME NEW v \in Workers, NEW j \in Jobs, Claim(v, j)
      PROVE  row'[cur'[w]].status # "ABSENT"
  <2>1. row[j].status # "ABSENT" BY <1>3 DEF Claim, NextClaim, Eligible
  <2>2. row'[j].status # "ABSENT" BY <2>1, PresentStays
  <2>3. cur'[w] = j \/ cur'[w] = cur[w] BY <1>3 DEF Claim, TypeOK, WorkerTypeOK
  <2>4. QED BY <1>1, <2>2, <2>3
<1>4. QED BY <1>1, <1>2, <1>3, StepKeepsOrDrops

LEMMA StepEffects ==
  ASSUME TypeOK, [Next]_vars
  PROVE  \/ UNCHANGED effects
         \/ \E w \in Workers : ExecuteNew(w) \/ ExecuteAdvisor(w)
<1>1. CASE UNCHANGED vars BY <1>1 DEF vars
<1>2. ASSUME NEW w \in Workers, Work(w) \/ Crash(w)
      PROVE  UNCHANGED effects \/ ExecuteNew(w) \/ ExecuteAdvisor(w)
  <2>1. CASE \/ Sweep(w) \/ NothingToClaim(w) \/ Restart(w) \/ Crash(w)
             \/ \E j \in Jobs : RecoverStale(w, j) \/ ClaimConflict(w, j) \/ Claim(w, j)
    BY <2>1
    DEF Sweep, NothingToClaim, Restart, Crash, RecoverStale, ClaimConflict, Claim, Quiet
  <2>2. CASE Check(w) \/ Execute(w) \/ Refresh(w) \/ StoreDelivery(w)
    BY <2>2
    DEF Check, Execute, ExecuteQuestion, ExecuteRetry, ExecutePermanent, Refresh,
        StoreDelivery, Quiet
  <2>3. CASE Deliver(w) BY <2>3, DeliverKeepsOrDrops
  <2>4. QED BY <1>2, <2>1, <2>2, <2>3 DEF Work
<1>3. CASE \/ \E j \in Jobs : Enqueue(j) \/ Release(j) \/ ExpireLease(j)
           \/ \E l \in Links : Revoke(l)
           \/ SweepOnUnlink
  BY <1>3 DEF Enqueue, Release, ExpireLease, Revoke, SweepOnUnlink, Quiet
<1>4. QED BY <1>1, <1>2, <1>3 DEF Next

(* The step that has an effect records it in the same transaction. *)
LEMMA EffectIsRecorded ==
  ASSUME EffectInvariant, NEW w \in Workers, ExecuteNew(w) \/ ExecuteAdvisor(w),
         NEW j \in Jobs
  PROVE  \/ effects'[j] = effects[j]
         \/ effects[j] = 0 /\ effects'[j] = 1 /\ Recorded(j)' /\ j = cur[w]
<1> USE DEF EffectInvariant, CoreInvariant, TypeOK
<1>1. pc[w] \notin FreeSteps BY DEF ExecuteNew, ExecuteAdvisor, Executing, FreeSteps
<1>2. cur[w] \in Jobs /\ row[cur[w]] \in Receipt
  BY <1>1, BusyHoldsJob DEF DatabaseTypeOK
<1>3. CASE ExecuteNew(w)
  <2>1. KindOf[cur[w]] = "NEW" BY <1>3 DEF ExecuteNew, Executing
  <2>2. \/ UNCHANGED effects
        \/ /\ ~row[cur[w]].conv
           /\ row' = [row EXCEPT ![cur[w]] = [row[cur[w]] EXCEPT !.conv = TRUE]]
           /\ effects' = [effects EXCEPT ![cur[w]] = effects[cur[w]] + 1]
    BY <1>2, <1>3 DEF ExecuteNew, DatabaseTypeOK, SeenTypeOK
  <2>3. ~row[cur[w]].conv => effects[cur[w]] = 0
    BY <1>2, <2>1 DEF EffectsRecorded, Recorded, SeenTypeOK
  <2>4. CASE UNCHANGED effects BY <2>4
  <2>5. CASE ~UNCHANGED effects
    <3>1. row'[cur[w]].conv BY <1>2, <2>2, <2>5 DEF DatabaseTypeOK, Receipt
    <3>2. effects'[cur[w]] = 1 BY <1>2, <2>2, <2>3, <2>5 DEF SeenTypeOK
    <3>3. j # cur[w] => effects'[j] = effects[j] BY <2>2, <2>5 DEF SeenTypeOK
    <3>4. QED BY <2>1, <2>2, <2>3, <2>5, <3>1, <3>2, <3>3 DEF Recorded
  <2>6. QED BY <2>4, <2>5
<1>4. CASE ExecuteAdvisor(w)
  <2> DEFINE r == Stored(row[cur[w]], OneMessage)
  <2>1. KindOf[cur[w]] = "ADVISOR" BY <1>4 DEF ExecuteAdvisor, Executing
  <2>2. \/ UNCHANGED effects
        \/ /\ ~row[cur[w]].man.made
           /\ row' = [row EXCEPT ![cur[w]] = r]
           /\ effects' = [effects EXCEPT ![cur[w]] = effects[cur[w]] + 1]
    BY <1>2, <1>4 DEF ExecuteAdvisor, DatabaseTypeOK, SeenTypeOK
  <2>3. ~row[cur[w]].man.made => effects[cur[w]] = 0
    BY <1>2, <2>1 DEF EffectsRecorded, Recorded, SeenTypeOK
  <2>4. r.man.made BY <1>2, StoredMarks
  <2> HIDE DEF r
  <2>5. QED
    BY <1>2, <2>1, <2>2, <2>3, <2>4 DEF Recorded, DatabaseTypeOK, SeenTypeOK
<1>5. QED BY <1>3, <1>4

LEMMA EffectsStayRecorded ==
  ASSUME EffectInvariant, RowsMove, [Next]_vars
  PROVE  EffectsRecorded'
<1> USE DEF EffectInvariant, CoreInvariant
<1> SUFFICES ASSUME NEW j \in Jobs
             PROVE  /\ effects'[j] <= 1
                    /\ effects'[j] > 0 => Recorded(j)' /\ row'[j].status # "ABSENT"
  BY DEF EffectsRecorded
<1>1. CASE effects'[j] = effects[j]
  BY <1>1, PresentStays DEF EffectsRecorded
<1>2. CASE effects'[j] # effects[j]
  <2>1. PICK w \in Workers : ExecuteNew(w) \/ ExecuteAdvisor(w) BY <1>2, StepEffects
  <2>2. effects'[j] = 1 /\ Recorded(j)' /\ j = cur[w]
    BY <1>2, <2>1, EffectIsRecorded
  <2>3. row[j].status # "ABSENT" BY <2>2, JobsAssumption DEF HeldIsPresent, NoJob
  <2>4. QED BY <2>2, <2>3, PresentStays
<1>3. QED BY <1>1, <1>2

(* A command creates its conversation or its escalation once, however      *)
(* often crashes and retries run it again and even if two workers run it   *)
(* at once: the effect and its mark on the row commit together, and no     *)
(* step of any worker removes the mark.                                    *)
THEOREM EffectsOnce == Spec => []EffectOnce
<1>1. Init => EffectInvariant
  <2>1. Init => CoreInvariant
    BY InitType DEF CoreInvariant, Init, CopyMade, EarlySteps, FreeSteps
  <2>2. Init => HeldIsPresent BY DEF Init, HeldIsPresent
  <2>3. Init => EffectsRecorded
    <3>1. Init => effects = [j \in Jobs |-> 0] BY DEF Init
    <3>2. QED BY <3>1 DEF EffectsRecorded
  <2>4. QED BY <2>1, <2>2, <2>3 DEF EffectInvariant
<1>2. EffectInvariant /\ [Next]_vars => EffectInvariant'
  <2>1. CoreInvariant /\ [Next]_vars => CoreInvariant' /\ RowsMove
    BY StepType, StepMoves DEF CoreInvariant
  <2>2. QED
    BY <2>1, HeldStaysPresent, EffectsStayRecorded DEF EffectInvariant, CoreInvariant
<1>3. EffectInvariant => EffectOnce
  BY DEF EffectInvariant, EffectsRecorded, EffectOnce
<1>4. QED BY <1>1, <1>2, <1>3, PTL DEF Spec
=============================================================================
