----------------------- MODULE TelegramDeliveryProofs -----------------------
(***************************************************************************)
(* What of an answer has reached the chat: the items Telegram has are the  *)
(* ones the row has confirmed and at most one more, and a job that ends    *)
(* well has delivered all it does not report missing.  While no lease runs *)
(* out under a live worker, the worker's copy and the row move together,   *)
(* so a turn is a step of the row alone.                                   *)
(***************************************************************************)
EXTENDS TelegramLeaseProofs

(* A payload that is read the same way by whoever reads it next. *)
Formed(m) == /\ ~m.man.made => m.man = NoManifest /\ m.cursor = 0
             /\ m.man.shared => ~m.man.first
             /\ State(m).text <= m.man.texts
             /\ State(m).photo <= m.man.photos

(* The cursor of the text is at most one item behind Telegram. *)
Heard(m, g) == \/ g = 1..State(m).text
               \/ TextLeft(m) /\ g = 1..(State(m).text + 1)

(* So is the cursor of the pictures, but for those reported missing. *)
Shown(m, p) == /\ p \subseteq 1..m.man.photos
               /\ p \subseteq 1..(State(m).photo + 1)
               /\ 1..State(m).photo \subseteq p \/ m.man.degraded

(* What a worker at a step of delivery knows of the row it holds. *)
TextSteps  == {"text", "sendText", "sentText"}
PhotoSteps == {"off", "photo", "render", "sendPhoto", "sentPhoto"}

At(step, m) ==
  /\ step \in {"execute", "store"} => ~m.man.made
  /\ step \notin EarlySteps => m.man.made
  /\ step \notin EarlySteps \union {"begin"} =>
       (m.man.photos = 0 \/ ~m.man.shared) /\ ~State(m).takeover
  /\ step \in TextSteps =>
       TextLeft(m) /\ (State(m).first \/ (State(m).started /\ ~PhotoLeft(m)))
  /\ step = "gate" => (State(m).first => ~TextLeft(m))
  /\ step \in PhotoSteps => PhotoLeft(m) /\ (State(m).first => ~TextLeft(m))
  /\ step = "startText" => ~State(m).first /\ ~PhotoLeft(m)
  /\ step = "finish" => ~TextLeft(m) /\ ~PhotoLeft(m)

-----------------------------------------------------------------------------
(* How the steps of delivery change what the worker reads from its copy.   *)

(* What no step of delivery changes. *)
SameAnswer(m, n) == /\ n.token = m.token
                    /\ n.man.made = m.man.made
                    /\ n.man.texts = m.man.texts
                    /\ n.man.photos = m.man.photos
                    /\ n.man.first = m.man.first

LEMMA StateFields ==
  ASSUME NEW m, m.man \in Manifest, m.cursor \in Nat
  PROVE  /\ State(m) \in Progress
         /\ m.man.photos = 0 => /\ State(m).photo = 0 /\ State(m).text = m.cursor
                                /\ State(m).started /\ State(m).first
                                /\ ~State(m).takeover
         /\ m.man.photos # 0 => State(m).first = (~m.man.shared /\ m.man.first)
         /\ m.man.photos # 0 /\ m.man.shared =>
              /\ ~State(m).takeover
              /\ State(m).started = (State(m).text > 0)
         /\ m.man.photos # 0 /\ ~m.man.shared =>
              /\ State(m).photo = m.man.photo
              /\ State(m).tries = m.man.tries
              /\ State(m).text = m.cursor
              /\ State(m).takeover = (~m.man.first /\ ~m.man.started /\ m.cursor > 0)
              /\ State(m).started = (m.man.started \/ State(m).takeover)
<1>1. State(m) \in Progress BY DeliveryStateType DEF State
<1>2. CASE m.man.photos = 0 BY <1>1, <1>2 DEF State, DeliveryState, TextOnlyState
<1>3. CASE m.man.photos # 0 /\ m.man.shared
  <2>1. State(m) = SharedCursorState(m.man, m.cursor) BY <1>3 DEF State, DeliveryState
  <2>2. State(m).takeover = FALSE /\ State(m).first = FALSE
    BY <2>1 DEF SharedCursorState
  <2>3. m.man.photos \in Nat BY DEF Manifest
  <2>4. State(m).started = (m.cursor > m.man.photos) BY <2>1 DEF SharedCursorState
  <2>5. State(m).text = IF m.cursor <= m.man.photos THEN 0 ELSE m.cursor - m.man.photos
    BY <2>1 DEF SharedCursorState
  <2>6. (m.cursor > m.man.photos) = (State(m).text > 0) BY <2>3, <2>5
  <2>7. State(m).started = (State(m).text > 0) BY <2>4, <2>6, Zenon
  <2>8. QED BY <1>1, <1>3, <2>2, <2>7
<1>4. CASE m.man.photos # 0 /\ ~m.man.shared
  BY <1>1, <1>4 DEF State, DeliveryState, SplitCursorState, Manifest
<1>5. QED BY <1>1, <1>2, <1>3, <1>4

LEMMA SplitCursorReads ==
  ASSUME NEW m \in Memory, m.man.photos # 0, m.man.shared
  PROVE  LET n == SplitCursor(m)
         IN  /\ n \in Memory /\ SameAnswer(m, n)
             /\ n.attempts = m.attempts
             /\ ~n.man.shared /\ n.man.degraded = m.man.degraded
             /\ State(n).photo = State(m).photo /\ State(n).text = State(m).text
             /\ ~m.man.first => ~State(n).takeover
<1> DEFINE s   == State(m)
           man == [m.man EXCEPT !.shared = FALSE, !.photo = s.photo,
                                !.tries = s.tries, !.started = s.started]
           n   == SplitCursor(m)
<1>1. m.man \in Manifest /\ m.cursor \in Nat BY DEF Memory
<1>2. s \in Progress /\ (s.started = (s.text > 0)) BY <1>1, StateFields
<1> HIDE DEF s
<1>3. man \in Manifest BY <1>1, <1>2 DEF Manifest, Progress
<1>4. /\ man.made = m.man.made /\ man.texts = m.man.texts /\ man.photos = m.man.photos
      /\ man.first = m.man.first /\ man.degraded = m.man.degraded
      /\ man.shared = FALSE /\ man.photo = s.photo /\ man.started = s.started
  BY <1>1 DEF Manifest
<1> HIDE DEF man
<1>5. n = [m EXCEPT !.man = man, !.cursor = s.text] BY DEF SplitCursor, s, man
<1>6. s.text \in Nat BY <1>2 DEF Progress
<1>7. /\ n \in Memory /\ n.man = man /\ n.cursor = s.text /\ n.token = m.token
      /\ n.attempts = m.attempts
  BY <1>3, <1>5, <1>6 DEF Memory
<1> HIDE DEF n
<1>8. /\ State(n).photo = s.photo /\ State(n).text = s.text
      /\ State(n).takeover = (~man.first /\ ~man.started /\ s.text > 0)
  BY <1>3, <1>4, <1>6, <1>7, StateFields
<1>9. QED BY <1>2, <1>4, <1>7, <1>8 DEF SameAnswer, s, n

LEMMA TextWithoutPhotosReads ==
  ASSUME NEW m \in Memory, m.man.photos # 0
  PROVE  LET n == TextWithoutPhotos(m)
         IN  /\ n \in Memory /\ SameAnswer(m, n)
             /\ n.attempts = IF State(m).takeover THEN m.attempts ELSE 1
             /\ ~n.man.shared /\ n.man.degraded = (m.man.degraded \/ PhotoLeft(m))
             /\ State(n).photo = n.man.photos /\ State(n).text = State(m).text
             /\ State(n).started /\ ~State(n).takeover
             /\ State(n).first = m.man.first
<1> DEFINE s   == State(m)
           d   == m.man.degraded \/ PhotoLeft(m)
           a   == IF s.takeover THEN m.attempts ELSE 1
           man == [m.man EXCEPT !.shared = FALSE, !.photo = m.man.photos,
                                !.tries = s.tries, !.started = TRUE, !.degraded = d]
           n   == TextWithoutPhotos(m)
<1>1. m.man \in Manifest /\ m.cursor \in Nat BY DEF Memory
<1>2. s \in Progress BY <1>1, StateFields
<1>3. d \in BOOLEAN BY <1>1 DEF Manifest
<1>4. a \in Nat BY DEF Memory
<1>5. n = [m EXCEPT !.man = man, !.cursor = s.text, !.attempts = a]
  <2>1. man = [m.man EXCEPT !.shared = FALSE, !.photo = m.man.photos, !.tries = s.tries,
                            !.started = TRUE, !.degraded = @ \/ PhotoLeft(m)]
    BY <1>1 DEF Manifest
  <2>2. QED BY <2>1 DEF TextWithoutPhotos, Memory
<1> HIDE DEF s, d
<1>6. man \in Manifest BY <1>1, <1>2, <1>3 DEF Manifest, Progress
<1>7. /\ man.made = m.man.made /\ man.texts = m.man.texts /\ man.photos = m.man.photos
      /\ man.first = m.man.first /\ man.degraded = d
      /\ man.shared = FALSE /\ man.photo = m.man.photos /\ man.started = TRUE
  BY <1>1 DEF Manifest
<1> HIDE DEF man
<1>8. s.text \in Nat BY <1>2 DEF Progress
<1> HIDE DEF a
<1>9. /\ n \in Memory /\ n.man = man /\ n.cursor = s.text /\ n.token = m.token
      /\ n.attempts = a
  BY <1>4, <1>5, <1>6, <1>8 DEF Memory
<1> HIDE DEF n
<1>10. /\ State(n).photo = man.photos /\ State(n).text = s.text /\ State(n).started
       /\ ~State(n).takeover /\ State(n).first = man.first
  BY <1>6, <1>7, <1>8, <1>9, StateFields DEF Manifest
<1>11. QED BY <1>7, <1>9, <1>10 DEF SameAnswer, s, d, a, n

LEMMA NextPhotoReads ==
  ASSUME NEW m \in Memory, m.man.photos # 0, ~m.man.shared, NEW d \in BOOLEAN
  PROVE  LET n == NextPhoto(m, d)
         IN  /\ n \in Memory /\ SameAnswer(m, n)
             /\ n.attempts = m.attempts
             /\ ~n.man.shared /\ n.man.degraded = (m.man.degraded \/ d)
             /\ State(n).photo = State(m).photo + 1 /\ State(n).text = State(m).text
             /\ State(n).started = State(m).started
             /\ State(n).takeover = State(m).takeover /\ State(n).first = State(m).first
<1> DEFINE p   == m.man.photo + 1
           e   == m.man.degraded \/ d
           man == [m.man EXCEPT !.photo = p, !.degraded = e]
           n   == NextPhoto(m, d)
<1>1. m.man \in Manifest /\ m.cursor \in Nat BY DEF Memory
<1>2. p \in Nat /\ e \in BOOLEAN BY <1>1 DEF Manifest
<1>3. n = [m EXCEPT !.man = man] BY <1>1 DEF NextPhoto, Manifest
<1> HIDE DEF p, e
<1>4. man \in Manifest BY <1>1, <1>2 DEF Manifest
<1>5. /\ man.made = m.man.made /\ man.texts = m.man.texts /\ man.photos = m.man.photos
      /\ man.first = m.man.first /\ man.degraded = e /\ man.shared = m.man.shared
      /\ man.photo = p /\ man.started = m.man.started
  BY <1>1 DEF Manifest
<1> HIDE DEF man
<1>6. /\ n \in Memory /\ n.man = man /\ n.cursor = m.cursor /\ n.token = m.token
      /\ n.attempts = m.attempts
  BY <1>3, <1>4 DEF Memory
<1> HIDE DEF n
<1>7. /\ State(n).photo = p /\ State(m).photo = m.man.photo
      /\ State(n).text = m.cursor /\ State(m).text = m.cursor
      /\ State(n).takeover = State(m).takeover /\ State(n).started = State(m).started
      /\ State(n).first = State(m).first
  <2>1. /\ State(n).photo = p /\ State(n).text = m.cursor
        /\ State(n).takeover = (~m.man.first /\ ~m.man.started /\ m.cursor > 0)
        /\ State(n).started = (m.man.started \/ State(n).takeover)
        /\ State(n).first = m.man.first
    BY <1>4, <1>5, <1>6, <1>1, StateFields DEF Manifest
  <2>2. /\ State(m).photo = m.man.photo /\ State(m).text = m.cursor
        /\ State(m).takeover = (~m.man.first /\ ~m.man.started /\ m.cursor > 0)
        /\ State(m).started = (m.man.started \/ State(m).takeover)
        /\ State(m).first = m.man.first
    BY <1>1, StateFields DEF Manifest
  <2>3. QED BY <2>1, <2>2
<1>8. QED BY <1>5, <1>6, <1>7 DEF SameAnswer, p, e, n

(* The other three keep the cursor of the pictures or move it to the end.  *)
LEMMA AttemptReads ==
  ASSUME NEW m \in Memory, m.man.photos # 0, ~m.man.shared
  PROVE  LET n == [m EXCEPT !.attempts = 0, !.man.tries = @ + 1]
         IN  /\ n \in Memory /\ SameAnswer(m, n)
             /\ n.attempts = 0
             /\ ~n.man.shared /\ n.man.degraded = m.man.degraded
             /\ State(n).photo = State(m).photo /\ State(n).text = State(m).text
             /\ State(n).started = State(m).started
             /\ State(n).takeover = State(m).takeover /\ State(n).first = State(m).first
<1> DEFINE t   == m.man.tries + 1
           man == [m.man EXCEPT !.tries = t]
           n   == [m EXCEPT !.attempts = 0, !.man.tries = @ + 1]
<1>1. m.man \in Manifest /\ m.cursor \in Nat BY DEF Memory
<1>2. t \in Nat BY <1>1 DEF Manifest
<1>3. n = [m EXCEPT !.attempts = 0, !.man = man] BY <1>1 DEF Memory, Manifest
<1> HIDE DEF t
<1>4. man \in Manifest BY <1>1, <1>2 DEF Manifest
<1>5. /\ man.made = m.man.made /\ man.texts = m.man.texts /\ man.photos = m.man.photos
      /\ man.first = m.man.first /\ man.degraded = m.man.degraded
      /\ man.shared = m.man.shared /\ man.photo = m.man.photo
      /\ man.started = m.man.started
  BY <1>1 DEF Manifest
<1> HIDE DEF man
<1>6. /\ n \in Memory /\ n.man = man /\ n.cursor = m.cursor /\ n.token = m.token
      /\ n.attempts = 0
  <2> HIDE DEF n
  <2>1. QED BY <1>3, <1>4 DEF Memory
<1> HIDE DEF n
<1>7. /\ State(n).photo = m.man.photo /\ State(n).text = m.cursor
      /\ State(n).takeover = (~m.man.first /\ ~m.man.started /\ m.cursor > 0)
      /\ State(n).started = (m.man.started \/ State(n).takeover)
      /\ State(n).first = m.man.first
  BY <1>4, <1>5, <1>6, <1>1, StateFields DEF Manifest
<1>8. /\ State(m).photo = m.man.photo /\ State(m).text = m.cursor
      /\ State(m).takeover = (~m.man.first /\ ~m.man.started /\ m.cursor > 0)
      /\ State(m).started = (m.man.started \/ State(m).takeover)
      /\ State(m).first = m.man.first
  BY <1>1, StateFields DEF Manifest
<1>9. QED BY <1>5, <1>6, <1>7, <1>8 DEF SameAnswer, n

AllSkipped(m) ==
  LET man == [m.man EXCEPT !.photo = m.man.photos, !.degraded = TRUE]
  IN  [m EXCEPT !.man = man]

LEMMA AllSkippedReads ==
  ASSUME NEW m \in Memory, m.man.photos # 0, ~m.man.shared
  PROVE  LET n == AllSkipped(m)
         IN  /\ n \in Memory /\ SameAnswer(m, n)
             /\ n.attempts = m.attempts
             /\ ~n.man.shared /\ n.man.degraded
             /\ State(n).photo = n.man.photos /\ State(n).text = State(m).text
             /\ State(n).takeover = State(m).takeover /\ State(n).first = State(m).first
<1> DEFINE man == [m.man EXCEPT !.photo = m.man.photos, !.degraded = TRUE]
           n   == AllSkipped(m)
<1>1. m.man \in Manifest /\ m.cursor \in Nat BY DEF Memory
<1>2. man \in Manifest BY <1>1 DEF Manifest
<1>3. /\ man.made = m.man.made /\ man.texts = m.man.texts /\ man.photos = m.man.photos
      /\ man.first = m.man.first /\ man.degraded = TRUE
      /\ man.shared = m.man.shared /\ man.photo = m.man.photos
      /\ man.started = m.man.started
  BY <1>1 DEF Manifest
<1>4. n = [m EXCEPT !.man = man] BY DEF AllSkipped
<1> HIDE DEF man, n
<1>5. /\ n \in Memory /\ n.man = man /\ n.cursor = m.cursor /\ n.token = m.token
      /\ n.attempts = m.attempts
  BY <1>2, <1>4 DEF Memory
<1>6. /\ State(n).photo = m.man.photos /\ State(n).text = m.cursor
      /\ State(n).takeover = (~m.man.first /\ ~m.man.started /\ m.cursor > 0)
      /\ State(n).first = m.man.first
  BY <1>2, <1>3, <1>5, <1>1, StateFields DEF Manifest
<1>7. /\ State(m).text = m.cursor
      /\ State(m).takeover = (~m.man.first /\ ~m.man.started /\ m.cursor > 0)
      /\ State(m).first = m.man.first
  BY <1>1, StateFields DEF Manifest
<1>8. QED BY <1>3, <1>5, <1>6, <1>7 DEF SameAnswer, n

LEMMA ConfirmedReads ==
  ASSUME NEW m \in Memory, m.man.photos = 0 \/ ~m.man.shared, NEW a \in Nat
  PROVE  LET n == [m EXCEPT !.cursor = @ + 1, !.attempts = a]
         IN  /\ n \in Memory /\ n.man = m.man /\ n.token = m.token
             /\ n.attempts = a /\ n.cursor = m.cursor + 1
             /\ State(m).text = m.cursor /\ State(n).text = m.cursor + 1
             /\ State(n).photo = State(m).photo
             /\ State(n).first = State(m).first
             /\ State(m).first => ~State(n).takeover
             /\ ~State(m).takeover /\ State(m).started =>
                  State(n).started /\ ~State(n).takeover
<1> DEFINE n == [m EXCEPT !.cursor = @ + 1, !.attempts = a]
<1>1. m.man \in Manifest /\ m.cursor \in Nat BY DEF Memory
<1>2. /\ n \in Memory /\ n.man = m.man /\ n.cursor = m.cursor + 1 /\ n.token = m.token
      /\ n.attempts = a
  <2>1. n = [m EXCEPT !.cursor = m.cursor + 1, !.attempts = a] BY DEF Memory
  <2>2. m.cursor + 1 \in Nat BY <1>1
  <2> HIDE DEF n
  <2>3. QED BY <2>1, <2>2 DEF Memory
<1> HIDE DEF n
<1>3. CASE m.man.photos = 0
  <2>1. /\ State(m).photo = 0 /\ State(m).text = m.cursor /\ State(m).first = TRUE
        /\ State(m).takeover = FALSE
    BY <1>1, <1>3, StateFields DEF Progress
  <2>2. /\ State(n).photo = 0 /\ State(n).text = m.cursor + 1 /\ State(n).first = TRUE
        /\ State(n).takeover = FALSE /\ State(n).started = TRUE
    BY <1>1, <1>2, <1>3, StateFields DEF Progress, Memory
  <2>3. QED BY <1>2, <2>1, <2>2 DEF n
<1>4. CASE m.man.photos # 0 /\ ~m.man.shared
  <2>1. /\ State(m).photo = m.man.photo /\ State(m).text = m.cursor
        /\ State(m).takeover = (~m.man.first /\ ~m.man.started /\ m.cursor > 0)
        /\ State(m).started = (m.man.started \/ State(m).takeover)
        /\ State(m).first = (~m.man.shared /\ m.man.first)
    BY <1>1, <1>4, StateFields
  <2>2. /\ State(n).photo = m.man.photo /\ State(n).text = m.cursor + 1
        /\ State(n).takeover = (~m.man.first /\ ~m.man.started /\ n.cursor > 0)
        /\ State(n).started = (m.man.started \/ State(n).takeover)
        /\ State(n).first = (~m.man.shared /\ m.man.first)
    BY <1>1, <1>2, <1>4, StateFields
  <2>3. n.cursor = m.cursor + 1 /\ m.cursor \in Nat BY <1>1, <1>2
  <2>4. QED BY <1>2, <1>4, <2>1, <2>2, <2>3 DEF n
<1>5. QED BY <1>3, <1>4

Started(m) == [m EXCEPT !.attempts = 1, !.man.started = TRUE]

LEMMA StartedReads ==
  ASSUME NEW m \in Memory, m.man.photos # 0, ~m.man.shared
  PROVE  LET n == Started(m)
         IN  /\ n \in Memory /\ SameAnswer(m, n)
             /\ n.attempts = 1
             /\ ~n.man.shared /\ n.man.degraded = m.man.degraded
             /\ State(n).photo = State(m).photo /\ State(n).text = State(m).text
             /\ State(n).started /\ ~State(n).takeover
             /\ State(n).first = State(m).first
<1> DEFINE man == [m.man EXCEPT !.started = TRUE]
           n   == Started(m)
<1>1. m.man \in Manifest /\ m.cursor \in Nat BY DEF Memory
<1>2. n = [m EXCEPT !.attempts = 1, !.man = man] BY <1>1 DEF Started, Memory, Manifest
<1>3. man \in Manifest BY <1>1 DEF Manifest
<1>4. /\ man.made = m.man.made /\ man.texts = m.man.texts /\ man.photos = m.man.photos
      /\ man.first = m.man.first /\ man.degraded = m.man.degraded
      /\ man.shared = m.man.shared /\ man.photo = m.man.photo /\ man.started = TRUE
  BY <1>1 DEF Manifest
<1> HIDE DEF man, n
<1>5. /\ n \in Memory /\ n.man = man /\ n.cursor = m.cursor /\ n.token = m.token
      /\ n.attempts = 1
  BY <1>2, <1>3 DEF Memory
<1>6. /\ State(n).photo = m.man.photo /\ State(n).text = m.cursor
      /\ State(n).takeover = FALSE /\ State(n).started = TRUE
      /\ State(n).first = (~m.man.shared /\ m.man.first)
  BY <1>1, <1>3, <1>4, <1>5, StateFields
<1>7. /\ State(m).photo = m.man.photo /\ State(m).text = m.cursor
      /\ State(m).first = (~m.man.shared /\ m.man.first)
  BY <1>1, StateFields
<1>8. QED BY <1>4, <1>5, <1>6, <1>7 DEF SameAnswer, n

-----------------------------------------------------------------------------
(* The way of a turn through the steps of delivery, from the copy alone.   *)

(* A payload of this release, or of the one before as this one reads it.   *)
Split(m) == (m.man.photos = 0 \/ ~m.man.shared) /\ ~State(m).takeover

(* The payload n goes on where m stands, or past pictures it gives up.     *)
Resumes(m, n) ==
  /\ n.man.made = m.man.made
  /\ n.man.texts = m.man.texts /\ n.man.photos = m.man.photos
  /\ n.man.first = m.man.first
  /\ n.man.shared => m.man.shared
  /\ ~n.man.made => n.man = m.man /\ n.cursor = m.cursor
  /\ State(n).text = State(m).text
  /\ \/ State(n).photo = State(m).photo /\ n.man.degraded = m.man.degraded
     \/ n.man.degraded /\ State(n).photo \in State(m).photo..n.man.photos

(* Between two writes only the step changes. *)
Stands(s, m, t) ==
  \/ s = "check" /\ t = (IF m.man.made THEN "begin" ELSE "execute")
  \/ /\ s = "begin" /\ ~State(m).takeover /\ (m.man.photos = 0 \/ ~m.man.shared)
     /\ t = DeliverStep(m)
  \/ s = "gate" /\ ~PhotoLeft(m) /\ t = AfterPhotos(m)
  \/ s = "gate" /\ PhotoLeft(m) /\ t = "off"
  \/ s = "text" /\ t = "sendText"
  \/ s = "photo" /\ t = "render"
  \/ s = "render" /\ t = "sendPhoto"

(* The moves that tell the chat nothing and learn nothing from it. *)
Moves(s, m, t, n) ==
  \/ n = m /\ Stands(s, m, t)
  \/ /\ \/ s = "begin" /\ State(m).takeover
        \/ s = "gate" /\ PhotoLeft(m) /\ ~State(m).first
     /\ n = TextWithoutPhotos(m) /\ t = TextStep(n)
  \/ /\ s = "begin" /\ ~State(m).takeover /\ m.man.photos # 0 /\ m.man.shared
     /\ n = SplitCursor(m) /\ t = DeliverStep(n)
  \/ /\ s = "gate" /\ PhotoLeft(m)
     /\ n = [m EXCEPT !.attempts = 0, !.man.tries = @ + 1] /\ t = "photo"
  \/ /\ s = "gate" /\ PhotoLeft(m) /\ State(m).first
     /\ n = AllSkipped(m) /\ t = "finish"
  \/ /\ s \in PhotoSteps /\ n = NextPhoto(m, TRUE)
     /\ \E p \in {"off", "photo"} : t = PhotoStep(n, p)
  \/ s = "startText" /\ n = Started(m) /\ t = TextStep(n)

LEMMA TextStepAt ==
  ASSUME NEW m, m.man.made, Split(m),
         State(m).first \/ (State(m).started /\ ~PhotoLeft(m))
  PROVE  At(TextStep(m), m)
<1>1. CASE TextLeft(m)
  BY <1>1 DEF TextStep, At, Split, TextSteps, PhotoSteps, EarlySteps, FreeSteps
<1>2. CASE ~TextLeft(m) /\ State(m).first
  BY <1>2 DEF TextStep, At, Split, TextSteps, PhotoSteps, EarlySteps, FreeSteps
<1>3. CASE ~TextLeft(m) /\ ~State(m).first
  BY <1>3 DEF TextStep, At, Split, TextSteps, PhotoSteps, EarlySteps, FreeSteps
<1>4. QED BY <1>1, <1>2, <1>3

LEMMA AfterPhotosAt ==
  ASSUME NEW m, m.man.made, Split(m), ~PhotoLeft(m), State(m).first => ~TextLeft(m)
  PROVE  At(AfterPhotos(m), m)
<1>1. CASE State(m).first
  BY <1>1 DEF AfterPhotos, At, Split, TextSteps, PhotoSteps, EarlySteps, FreeSteps
<1>2. CASE ~State(m).first /\ State(m).started
  BY <1>2, TextStepAt DEF AfterPhotos
<1>3. CASE ~State(m).first /\ ~State(m).started
  BY <1>3 DEF AfterPhotos, At, Split, TextSteps, PhotoSteps, EarlySteps, FreeSteps
<1>4. QED BY <1>1, <1>2, <1>3

LEMMA PhotoAt ==
  ASSUME NEW m, m.man.made, Split(m), PhotoLeft(m), State(m).first => ~TextLeft(m),
         NEW p \in PhotoSteps
  PROVE  At(p, m)
BY DEF At, Split, TextSteps, PhotoSteps, EarlySteps, FreeSteps

LEMMA PhotoStepAt ==
  ASSUME NEW m, m.man.made, Split(m), State(m).first => ~TextLeft(m),
         NEW p \in PhotoSteps
  PROVE  At(PhotoStep(m, p), m)
BY PhotoAt, AfterPhotosAt DEF PhotoStep

LEMMA DeliverStepAt ==
  ASSUME NEW m, m.man.made, Split(m)
  PROVE  At(DeliverStep(m), m)
<1>1. CASE State(m).first BY <1>1, TextStepAt DEF DeliverStep
<1>2. CASE ~State(m).first
  BY <1>2 DEF DeliverStep, At, Split, TextSteps, PhotoSteps, EarlySteps, FreeSteps
<1>3. QED BY <1>1, <1>2

(* What At says of the steps between two items. *)
LEMMA AtSplit ==
  ASSUME NEW m, NEW s, At(s, m), s \notin EarlySteps \union {"begin"}
  PROVE  m.man.made /\ Split(m)
BY DEF At, Split, EarlySteps

LEMMA PicturesLeft ==
  ASSUME NEW m \in Memory, PhotoLeft(m)
  PROVE  m.man.photos # 0
<1>1. m.man \in Manifest /\ m.cursor \in Nat BY DEF Memory
<1>2. State(m) \in Progress BY <1>1, StateFields
<1>3. QED BY <1>1, <1>2 DEF PhotoLeft, Manifest, Progress

(* What every move keeps. *)
Onward(m, t, n) ==
  /\ n \in Memory /\ n.token = m.token
  /\ At(t, n)
  /\ Resumes(m, n)
  /\ State(m).takeover => n.attempts >= m.attempts
  /\ State(m).first => n.attempts <= m.attempts

LEMMA StillOnward ==
  ASSUME NEW m \in Memory, NEW t, At(t, m)
  PROVE  Onward(m, t, m)
BY DEF Onward, Resumes, Memory

LEMMA StandsOnward ==
  ASSUME NEW m \in Memory, NEW s, At(s, m), NEW t, Stands(s, m, t)
  PROVE  Onward(m, t, m)
<1>1. CASE s = "check" /\ t = (IF m.man.made THEN "begin" ELSE "execute")
  <2>1. At(t, m) BY <1>1 DEF At, TextSteps, PhotoSteps, EarlySteps, FreeSteps
  <2>2. QED BY <2>1, StillOnward
<1>2. CASE /\ s = "begin" /\ t = DeliverStep(m)
           /\ ~State(m).takeover /\ (m.man.photos = 0 \/ ~m.man.shared)
  <2>1. m.man.made BY <1>2 DEF At, EarlySteps, FreeSteps
  <2>2. QED BY <1>2, <2>1, DeliverStepAt, StillOnward DEF Split
<1>3. CASE s = "gate" /\ Stands(s, m, t)
  <2>1. m.man.made /\ Split(m) /\ (State(m).first => ~TextLeft(m))
    BY <1>3 DEF At, Split, EarlySteps, FreeSteps
  <2>2. CASE ~PhotoLeft(m) /\ t = AfterPhotos(m)
    BY <2>1, <2>2, AfterPhotosAt, StillOnward
  <2>3. CASE PhotoLeft(m) /\ t = "off"
    BY <2>1, <2>3, PhotoAt, StillOnward DEF PhotoSteps
  <2>4. QED BY <1>3, <2>2, <2>3 DEF Stands
<1>4. CASE s = "text" /\ t = "sendText"
  <2>1. At(t, m) BY <1>4 DEF At, TextSteps, PhotoSteps, EarlySteps, FreeSteps
  <2>2. QED BY <2>1, StillOnward
<1>5. CASE (s = "photo" /\ t = "render") \/ (s = "render" /\ t = "sendPhoto")
  <2>1. At(t, m) BY <1>5 DEF At, TextSteps, PhotoSteps, EarlySteps, FreeSteps
  <2>2. QED BY <2>1, StillOnward
<1>6. QED BY <1>1, <1>2, <1>3, <1>4, <1>5 DEF Stands

LEMMA GiveUpOnward ==
  ASSUME NEW m \in Memory, Formed(m), NEW s, At(s, m),
         \/ s = "begin" /\ State(m).takeover
         \/ s = "gate" /\ PhotoLeft(m) /\ ~State(m).first
  PROVE  Onward(m, TextStep(TextWithoutPhotos(m)), TextWithoutPhotos(m))
<1> DEFINE n == TextWithoutPhotos(m)
<1>1. m.man \in Manifest /\ m.cursor \in Nat /\ m.attempts \in Nat BY DEF Memory
<1>2. m.man.photos # 0 /\ ~State(m).first
  BY <1>1, PicturesLeft, StateFields
<1>3. m.man.made BY DEF At, EarlySteps, FreeSteps
<1>4. /\ n \in Memory /\ SameAnswer(m, n)
      /\ n.attempts = IF State(m).takeover THEN m.attempts ELSE 1
      /\ ~n.man.shared /\ n.man.degraded = (m.man.degraded \/ PhotoLeft(m))
      /\ State(n).photo = n.man.photos /\ State(n).text = State(m).text
      /\ State(n).started /\ ~State(n).takeover
      /\ State(n).first = m.man.first
  BY <1>2, TextWithoutPhotosReads
<1> HIDE DEF n
<1>5. State(m) \in Progress /\ State(m).photo <= m.man.photos
  BY <1>1, StateFields DEF Formed
<1>6. m.man.photos \in Nat /\ State(m).photo \in Nat BY <1>1, <1>5 DEF Manifest, Progress
<1>7. ~PhotoLeft(n) BY <1>4, <1>6 DEF PhotoLeft, SameAnswer
<1>8. At(TextStep(n), n)
  BY <1>3, <1>4, <1>7, TextStepAt DEF Split, SameAnswer
<1>9. Resumes(m, n)
  <2>1. CASE PhotoLeft(m)
    <3>1. n.man.degraded BY <1>4, <2>1
    <3>2. State(n).photo \in State(m).photo..n.man.photos
      BY <1>4, <1>5, <1>6 DEF SameAnswer
    <3>3. QED BY <1>3, <1>4, <3>1, <3>2 DEF Resumes, SameAnswer
  <2>2. CASE ~PhotoLeft(m)
    <3>1. State(m).photo = m.man.photos BY <1>5, <1>6, <2>2 DEF PhotoLeft
    <3>2. n.man.degraded = m.man.degraded BY <1>1, <1>4, <2>2 DEF Manifest
    <3>3. QED BY <1>3, <1>4, <3>1, <3>2 DEF Resumes, SameAnswer
  <2>3. QED BY <2>1, <2>2
<1>10. QED BY <1>1, <1>2, <1>4, <1>8, <1>9 DEF Onward, SameAnswer, n

LEMMA SplitOnward ==
  ASSUME NEW m \in Memory, Formed(m), At("begin", m), m.man.photos # 0, m.man.shared
  PROVE  Onward(m, DeliverStep(SplitCursor(m)), SplitCursor(m))
<1> DEFINE n == SplitCursor(m)
<1>1. m.man \in Manifest /\ m.cursor \in Nat /\ m.attempts \in Nat BY DEF Memory
<1>2. m.man.made BY DEF At, EarlySteps, FreeSteps
<1>3. ~m.man.first BY DEF Formed
<1>4. /\ n \in Memory /\ SameAnswer(m, n) /\ n.attempts = m.attempts
      /\ ~n.man.shared /\ n.man.degraded = m.man.degraded
      /\ State(n).photo = State(m).photo /\ State(n).text = State(m).text
      /\ ~State(n).takeover
  BY <1>3, SplitCursorReads
<1> HIDE DEF n
<1>5. At(DeliverStep(n), n) BY <1>2, <1>4, DeliverStepAt DEF Split, SameAnswer
<1>6. Resumes(m, n) BY <1>2, <1>4 DEF Resumes, SameAnswer
<1>7. QED BY <1>1, <1>4, <1>5, <1>6 DEF Onward, SameAnswer, n

LEMMA AttemptOnward ==
  ASSUME NEW m \in Memory, At("gate", m), PhotoLeft(m)
  PROVE  LET n == [m EXCEPT !.attempts = 0, !.man.tries = @ + 1]
         IN  Onward(m, "photo", n)
<1> DEFINE n == [m EXCEPT !.attempts = 0, !.man.tries = @ + 1]
<1>1. m.man.made /\ Split(m) /\ (State(m).first => ~TextLeft(m)) /\ m.attempts \in Nat
  BY DEF At, Split, EarlySteps, FreeSteps, Memory
<1>2. m.man.photos # 0 /\ ~m.man.shared BY <1>1, PicturesLeft DEF Split
<1>3. /\ n \in Memory /\ SameAnswer(m, n)
      /\ n.attempts = 0
      /\ ~n.man.shared /\ n.man.degraded = m.man.degraded
      /\ State(n).photo = State(m).photo /\ State(n).text = State(m).text
      /\ State(n).takeover = State(m).takeover /\ State(n).first = State(m).first
  BY <1>2, AttemptReads
<1> HIDE DEF n
<1>4. Split(n) /\ PhotoLeft(n) /\ (State(n).first => ~TextLeft(n)) /\ n.man.made
  BY <1>1, <1>3 DEF Split, PhotoLeft, TextLeft, SameAnswer
<1>5. At("photo", n) BY <1>4, PhotoAt DEF PhotoSteps
<1>6. Resumes(m, n) BY <1>1, <1>3 DEF Resumes, SameAnswer
<1>7. ~State(m).takeover BY <1>1 DEF Split
<1>8. Onward(m, "photo", n) BY <1>1, <1>3, <1>5, <1>6, <1>7 DEF Onward, SameAnswer
<1>9. QED BY <1>8 DEF n

LEMMA AllSkippedOnward ==
  ASSUME NEW m \in Memory, At("gate", m), PhotoLeft(m), State(m).first
  PROVE  Onward(m, "finish", AllSkipped(m))
<1> DEFINE n == AllSkipped(m)
<1>1. m.man.made /\ Split(m) /\ ~TextLeft(m) /\ m.attempts \in Nat
  BY DEF At, Split, EarlySteps, FreeSteps, Memory
<1>2. m.man.photos # 0 /\ ~m.man.shared BY <1>1, PicturesLeft DEF Split
<1>3. /\ n \in Memory /\ SameAnswer(m, n)
      /\ n.attempts = m.attempts
      /\ ~n.man.shared /\ n.man.degraded
      /\ State(n).photo = n.man.photos /\ State(n).text = State(m).text
      /\ State(n).takeover = State(m).takeover /\ State(n).first = State(m).first
  BY <1>2, AllSkippedReads
<1> HIDE DEF n
<1>4. m.man \in Manifest /\ m.cursor \in Nat BY DEF Memory
<1>5. m.man.photos \in Nat /\ State(m).photo \in Nat
  BY <1>4, StateFields DEF Manifest, Progress
<1>6. Split(n) /\ ~PhotoLeft(n) /\ ~TextLeft(n) /\ n.man.made
  BY <1>1, <1>3, <1>5 DEF Split, PhotoLeft, TextLeft, SameAnswer
<1>7. At("finish", n) BY <1>6 DEF At, Split, TextSteps, PhotoSteps, EarlySteps, FreeSteps
<1>8. State(n).photo \in State(m).photo..n.man.photos
  BY <1>3, <1>5 DEF PhotoLeft, SameAnswer
<1>9. Resumes(m, n) BY <1>1, <1>3, <1>8 DEF Resumes, SameAnswer
<1>10. QED BY <1>1, <1>3, <1>7, <1>9 DEF Onward, SameAnswer, Split, n

LEMMA SkipOnward ==
  ASSUME NEW m \in Memory, NEW s \in PhotoSteps, At(s, m), NEW p \in {"off", "photo"}
  PROVE  LET n == NextPhoto(m, TRUE)
         IN  Onward(m, PhotoStep(n, p), n)
<1> DEFINE n == NextPhoto(m, TRUE)
<1>1. /\ m.man.made /\ Split(m) /\ PhotoLeft(m)
      /\ State(m).first => ~TextLeft(m)
      /\ m.attempts \in Nat
  BY DEF At, Split, PhotoSteps, EarlySteps, FreeSteps, Memory
<1>2. m.man.photos # 0 /\ ~m.man.shared BY <1>1, PicturesLeft DEF Split
<1>3. /\ n \in Memory /\ SameAnswer(m, n)
      /\ n.attempts = m.attempts
      /\ ~n.man.shared /\ n.man.degraded = (m.man.degraded \/ TRUE)
      /\ State(n).photo = State(m).photo + 1 /\ State(n).text = State(m).text
      /\ State(n).takeover = State(m).takeover /\ State(n).first = State(m).first
  BY <1>2, NextPhotoReads
<1> HIDE DEF n
<1>4. m.man \in Manifest /\ m.cursor \in Nat BY DEF Memory
<1>5. m.man.photos \in Nat /\ State(m).photo \in Nat
  BY <1>4, StateFields DEF Manifest, Progress
<1>6. Split(n) /\ (State(n).first => ~TextLeft(n)) /\ n.man.made
  BY <1>1, <1>3 DEF Split, TextLeft, SameAnswer
<1>7. At(PhotoStep(n, p), n) BY <1>6, PhotoStepAt DEF PhotoSteps
<1>8. State(n).photo \in State(m).photo..n.man.photos
  BY <1>1, <1>3, <1>5 DEF PhotoLeft, SameAnswer
<1>9. n.man.degraded BY <1>3
<1>10. Resumes(m, n) BY <1>1, <1>3, <1>8, <1>9 DEF Resumes, SameAnswer
<1>11. ~State(m).takeover BY <1>1 DEF Split
<1>12. n \in Memory /\ n.token = m.token /\ n.attempts = m.attempts
  BY <1>3 DEF SameAnswer
<1>13. Onward(m, PhotoStep(n, p), n)
  BY <1>1, <1>7, <1>10, <1>11, <1>12 DEF Onward
<1>14. QED BY <1>13 DEF n

LEMMA StartOnward ==
  ASSUME NEW m \in Memory, At("startText", m)
  PROVE  Onward(m, TextStep(Started(m)), Started(m))
<1> DEFINE n == Started(m)
<1>1. m.man.made /\ Split(m) /\ ~PhotoLeft(m) /\ ~State(m).first /\ m.attempts \in Nat
  BY DEF At, Split, EarlySteps, FreeSteps, Memory
<1>2. m.man.photos # 0 /\ ~m.man.shared
  BY <1>1, StateFields DEF Split, Memory
<1>3. /\ n \in Memory /\ SameAnswer(m, n)
      /\ n.attempts = 1
      /\ ~n.man.shared /\ n.man.degraded = m.man.degraded
      /\ State(n).photo = State(m).photo /\ State(n).text = State(m).text
      /\ State(n).started /\ ~State(n).takeover
      /\ State(n).first = State(m).first
  BY <1>2, StartedReads
<1> HIDE DEF n
<1>4. Split(n) /\ ~PhotoLeft(n) /\ State(n).started /\ n.man.made
  BY <1>1, <1>3 DEF Split, PhotoLeft, SameAnswer
<1>5. At(TextStep(n), n) BY <1>4, TextStepAt
<1>6. Resumes(m, n) BY <1>1, <1>3 DEF Resumes, SameAnswer
<1>7. ~State(m).takeover BY <1>1 DEF Split
<1>8. QED BY <1>1, <1>3, <1>5, <1>6, <1>7 DEF Onward, SameAnswer, n

LEMMA MovesOnward ==
  ASSUME NEW m \in Memory, Formed(m), NEW s, At(s, m), NEW t, NEW n, Moves(s, m, t, n)
  PROVE  Onward(m, t, n)
<1>1. CASE s \in PhotoSteps /\ n = NextPhoto(m, TRUE)
           /\ \E p \in {"off", "photo"} : t = PhotoStep(n, p)
  BY <1>1, SkipOnward
<1>2. CASE n = m /\ Stands(s, m, t) BY <1>2, StandsOnward
<1>3. CASE /\ \/ s = "begin" /\ State(m).takeover
              \/ s = "gate" /\ PhotoLeft(m) /\ ~State(m).first
           /\ n = TextWithoutPhotos(m) /\ t = TextStep(n)
  BY <1>3, GiveUpOnward
<1>4. CASE /\ s = "begin" /\ m.man.photos # 0 /\ m.man.shared
           /\ n = SplitCursor(m) /\ t = DeliverStep(n)
  BY <1>4, SplitOnward
<1>5. CASE /\ s = "gate" /\ PhotoLeft(m)
           /\ n = [m EXCEPT !.attempts = 0, !.man.tries = @ + 1] /\ t = "photo"
  BY <1>5, AttemptOnward
<1>6. CASE /\ s = "gate" /\ PhotoLeft(m) /\ State(m).first
           /\ n = AllSkipped(m) /\ t = "finish"
  BY <1>6, AllSkippedOnward
<1>7. CASE s = "startText" /\ n = Started(m) /\ t = TextStep(n)
  BY <1>7, StartOnward
<1>8. QED BY <1>1, <1>2, <1>3, <1>4, <1>5, <1>6, <1>7 DEF Moves

-----------------------------------------------------------------------------
(* What Telegram has of an answer, as the payload tells it. *)
Delivered(m, g, p, a) == Formed(m) /\ a = m.man.texts /\ Heard(m, g) /\ Shown(m, p)

LEMMA ResumesDelivered ==
  ASSUME NEW m, m.man \in Manifest, m.cursor \in Nat,
         NEW n, n.man \in Manifest, n.cursor \in Nat, Resumes(m, n),
         NEW g, NEW p, NEW a, Delivered(m, g, p, a)
  PROVE  Delivered(n, g, p, a)
<1>1. /\ State(m).photo \in Nat /\ State(n).photo \in Nat /\ State(m).text \in Nat
      /\ m.man.photos \in Nat /\ m.man.texts \in Nat
  BY StateFields DEF Progress, Manifest
<1>2. /\ State(m).text <= m.man.texts /\ State(m).photo <= m.man.photos
      /\ p \subseteq 1..m.man.photos /\ p \subseteq 1..(State(m).photo + 1)
      /\ 1..State(m).photo \subseteq p \/ m.man.degraded
  BY DEF Delivered, Formed, Shown
<1>3. /\ State(n).photo <= n.man.photos
      /\ State(m).photo <= State(n).photo
      /\ 1..State(n).photo \subseteq p \/ n.man.degraded
  BY <1>1, <1>2 DEF Resumes
<1>4. Formed(n) BY <1>3 DEF Delivered, Formed, Resumes
<1>5. Heard(n, g) BY DEF Delivered, Heard, Resumes, TextLeft
<1>6. 1..(State(m).photo + 1) \subseteq 1..(State(n).photo + 1) BY <1>1, <1>3
<1>7. Shown(n, p) BY <1>2, <1>3, <1>6 DEF Shown, Resumes
<1>8. QED BY <1>4, <1>5, <1>7 DEF Delivered, Resumes

-----------------------------------------------------------------------------
(* What becomes of a row that no worker holds. *)

LEMMA SamePayload ==
  ASSUME NEW m, NEW n, m.man \in Manifest, m.cursor \in Nat,
         n.man = m.man, n.cursor = m.cursor
  PROVE  /\ State(n) = State(m)
         /\ Resumes(m, n)
         /\ Formed(m) => Formed(n)
         /\ \A g, p, a : Delivered(m, g, p, a) => Delivered(n, g, p, a)
<1>1. State(n) = State(m) BY DEF State
<1>2. QED
  BY <1>1 DEF Resumes, Formed, Delivered, Heard, Shown, TextLeft

LEMMA RowFields ==
  ASSUME NEW r \in Receipt
  PROVE  /\ r.man \in Manifest /\ r.cursor \in Nat /\ r.attempts \in Nat
         /\ State(r) \in Progress /\ r.man.photos \in Nat /\ r.man.texts \in Nat
         /\ State(r) = DeliveryState(r.man, r.cursor)
         /\ Copy(r) \in Memory /\ State(Copy(r)) = State(r)
<1>1. r.man \in Manifest /\ r.cursor \in Nat /\ r.attempts \in Nat BY DEF Receipt
<1>2. Copy(r) \in Memory BY CopyType
<1>3. QED BY <1>1, <1>2, StateFields DEF State, Copy, Manifest

(* A row that gives up its pictures keeps the payload a worker would write. *)
LEMMA DegradedResumes ==
  ASSUME NEW r \in Receipt, r.man.photos # 0, Formed(r), r.man.made
  PROVE  LET q == Degraded(r)
         IN  /\ Resumes(r, q)
             /\ q.status = "QUEUED" /\ q.error = r.error
             /\ q.attempts = IF State(r).takeover THEN r.attempts ELSE 0
             /\ State(q).photo = q.man.photos
<1> DEFINE q == Degraded(r)
           m == Copy(r)
           n == TextWithoutPhotos(m)
           s == State(r)
           man == [r.man EXCEPT !.shared = FALSE, !.photo = r.man.photos,
                                !.tries = s.tries, !.started = TRUE,
                                !.degraded = r.man.degraded \/ PhotoLeft(r)]
<1>1. /\ r.man \in Manifest /\ r.cursor \in Nat /\ r.attempts \in Nat
      /\ s \in Progress /\ r.man.photos \in Nat /\ r.man.texts \in Nat
      /\ s = DeliveryState(r.man, r.cursor)
      /\ m \in Memory /\ State(m) = s
  BY RowFields
<1>2. m.man = r.man /\ m.cursor = r.cursor /\ m.attempts = r.attempts BY DEF Copy
<1>3. PhotoLeft(m) = PhotoLeft(r) BY <1>1, <1>2 DEF PhotoLeft
<1>4. man \in Manifest
  <2>1. s.tries \in Nat /\ r.man.degraded \in BOOLEAN /\ PhotoLeft(r) \in BOOLEAN
    BY <1>1 DEF Progress, Manifest, PhotoLeft
  <2> HIDE DEF s
  <2>2. QED BY <1>1, <2>1 DEF Manifest
<1>5. n.man = man /\ n.cursor = s.text
  <2>1. man = [m.man EXCEPT !.shared = FALSE, !.photo = m.man.photos, !.tries = State(m).tries,
                            !.started = TRUE, !.degraded = @ \/ PhotoLeft(m)]
    BY <1>1, <1>2, <1>3 DEF Manifest
  <2> HIDE DEF man, m, s
  <2>2. QED BY <1>1, <2>1 DEF TextWithoutPhotos, Memory
<1>6. /\ q.man = man /\ q.cursor = s.text
      /\ q.status = "QUEUED" /\ q.error = r.error
      /\ q.attempts = IF s.takeover THEN r.attempts ELSE 0
  <2> DEFINE b == Requeued(r, TRUE)
             a == IF s.takeover THEN r.attempts ELSE 0
  <2>1. /\ b \in Receipt /\ b.status = "QUEUED" /\ b.man = r.man
        /\ b.error = r.error /\ b.attempts = r.attempts
    BY RequeuedType DEF Requeued, Receipt
  <2> HIDE DEF b
  <2>2. q = [b EXCEPT !.man = man, !.cursor = s.text, !.attempts = a]
    <3>1. man = [r.man EXCEPT !.shared = FALSE, !.photo = r.man.photos,
                              !.tries = s.tries, !.started = TRUE,
                              !.degraded = @ \/ s.photo < r.man.photos]
      BY <1>1 DEF PhotoLeft, Manifest
    <3>2. s = DeliveryState(r.man, r.cursor) BY <1>1
    <3> HIDE DEF man, s
    <3>3. QED BY <2>1, <3>1, <3>2 DEF Degraded, b
  <2> HIDE DEF man, s, a
  <2>3. QED BY <2>1, <2>2 DEF Receipt, a
<1> HIDE DEF man, q
<1>7. /\ SameAnswer(m, n)
      /\ ~n.man.shared /\ n.man.degraded = (m.man.degraded \/ PhotoLeft(m))
      /\ State(n).photo = n.man.photos /\ State(n).text = State(m).text
  BY <1>1, <1>2, TextWithoutPhotosReads
<1> HIDE DEF m, n, s
<1>8. State(q) = State(n) BY <1>5, <1>6 DEF State
<1>9. /\ q.man.made /\ q.man.texts = r.man.texts /\ q.man.photos = r.man.photos
      /\ q.man.first = r.man.first /\ ~q.man.shared
      /\ q.man.degraded = (r.man.degraded \/ PhotoLeft(r))
      /\ State(q).photo = q.man.photos /\ State(q).text = State(r).text
  BY <1>1, <1>2, <1>3, <1>5, <1>6, <1>7, <1>8 DEF SameAnswer, s
<1>10. Resumes(r, q)
  <2>1. State(r).photo \in Nat /\ State(r).photo <= r.man.photos
    BY <1>1, RowFields DEF Progress, Formed
  <2>2. CASE PhotoLeft(r)
    <3>1. q.man.degraded BY <1>9, <2>2
    <3>2. State(q).photo \in State(r).photo..q.man.photos BY <1>1, <1>9, <2>1
    <3>3. QED BY <1>9, <3>1, <3>2 DEF Resumes
  <2>3. CASE ~PhotoLeft(r)
    <3>1. State(r).photo = r.man.photos BY <1>1, <2>1, <2>3 DEF PhotoLeft
    <3>2. q.man.degraded = r.man.degraded BY <1>1, <1>9, <2>3 DEF Manifest
    <3>3. QED BY <1>9, <3>1, <3>2 DEF Resumes
  <2>4. QED BY <2>2, <2>3
<1>11. QED BY <1>6, <1>9, <1>10 DEF q, s

(* Put back, given up, or ended because the link is gone. *)
RowMoves(r, q) ==
  \/ /\ q.status \in ActiveStatuses /\ q.error = r.error
     /\ Resumes(r, q)
     /\ State(r).takeover => q.attempts >= r.attempts
     /\ q.attempts <= r.attempts
     /\ q.status = r.status \/ q.attempts < MaxAttempts \/ State(r).takeover
  \/ q = Ended(r, "CANCELLED", "revoked")
  \/ /\ q = Ended(r, "FAILED", "exhausted")
     /\ ~CanDegrade(r)
     /\ PhotoBudgetExhausted(r) \/ r.attempts >= MaxAttempts

(* The same payload under another lease. *)
LEMMA SameRowMoves ==
  ASSUME NEW r \in Receipt, NEW q, q.man = r.man, q.cursor = r.cursor,
         q.attempts = r.attempts, q.error = r.error, q.status \in ActiveStatuses,
         q.status = r.status \/ q.attempts < MaxAttempts
  PROVE  RowMoves(r, q)
BY RowFields, SamePayload DEF RowMoves

LEMMA RequeuedRowMoves ==
  ASSUME NEW r \in Receipt, NEW b \in BOOLEAN, r.attempts < MaxAttempts
  PROVE  RowMoves(r, Requeued(r, b))
<1>1. /\ Requeued(r, b).man = r.man /\ Requeued(r, b).cursor = r.cursor
      /\ Requeued(r, b).attempts = r.attempts /\ Requeued(r, b).error = r.error
      /\ Requeued(r, b).status = "QUEUED"
  BY DEF Requeued, Receipt
<1>2. QED BY <1>1, SameRowMoves DEF ActiveStatuses

LEMMA DegradedRowMoves ==
  ASSUME NEW r \in Receipt, Formed(r), CanDegrade(r)
  PROVE  r.man.made /\ r.man.photos # 0 /\ RowMoves(r, Degraded(r))
<1>1. r.man.photos # 0 /\ r.attempts \in Nat BY RowFields DEF CanDegrade
<1>2. r.man.made BY <1>1 DEF Formed, NoManifest
<1>3. /\ Resumes(r, Degraded(r))
      /\ Degraded(r).status = "QUEUED" /\ Degraded(r).error = r.error
      /\ Degraded(r).attempts = IF State(r).takeover THEN r.attempts ELSE 0
  BY <1>1, <1>2, DegradedResumes
<1>4. QED BY <1>1, <1>2, <1>3, AttemptsAssumption DEF RowMoves, ActiveStatuses

LEMMA GivenUpRowMoves ==
  ASSUME NEW r \in Receipt, Formed(r),
         PhotoBudgetExhausted(r) \/ r.attempts >= MaxAttempts
  PROVE  RowMoves(r, GivenUp(r))
<1>1. CASE CanDegrade(r) BY <1>1, DegradedRowMoves DEF GivenUp
<1>2. CASE ~CanDegrade(r) BY <1>2 DEF GivenUp, RowMoves
<1>3. QED BY <1>1, <1>2

LEMMA OutsideRowMoves ==
  ASSUME TypeOK, NEW j \in Jobs, Formed(row[j]), NEW q, OutsideRow(row[j], q, j)
  PROVE  \/ q = row[j]
         \/ /\ row[j].status = "ABSENT" /\ q.status = "QUEUED" /\ q.man = NoManifest
            /\ q.cursor = 0 /\ q.attempts = 0 /\ q.error = "none"
         \/ IsActive(j) /\ RowMoves(row[j], q)
<1> DEFINE r == row[j]
<1>1. r \in Receipt BY DEF TypeOK, DatabaseTypeOK
<1>2. CASE q = [r EXCEPT !.ready = TRUE] /\ r.status = "QUEUED"
  <2>1. /\ q.man = r.man /\ q.cursor = r.cursor /\ q.attempts = r.attempts
        /\ q.error = r.error /\ q.status = "QUEUED"
    BY <1>1, <1>2 DEF Receipt
  <2>2. QED BY <1>1, <1>2, <2>1, SameRowMoves DEF IsActive, ActiveStatuses
<1>3. CASE q = [r EXCEPT !.expired = TRUE] /\ r.status = "RUNNING"
  <2>1. /\ q.man = r.man /\ q.cursor = r.cursor /\ q.attempts = r.attempts
        /\ q.error = r.error /\ q.status = "RUNNING"
    BY <1>1, <1>3 DEF Receipt
  <2>2. QED BY <1>1, <1>3, <2>1, SameRowMoves DEF IsActive, ActiveStatuses
<1>4. CASE Orphaned(j) /\ q = Ended(r, "CANCELLED", "revoked")
  BY <1>4 DEF Orphaned, RowMoves
<1>5. CASE r.status = "RUNNING" /\ q = Recovered(r, link[LinkOf[j]] = "ACTIVE")
  <2>1. RowMoves(r, q)
    <3>1. CASE link[LinkOf[j]] # "ACTIVE" BY <1>5, <3>1 DEF Recovered, RowMoves
    <3>2. CASE link[LinkOf[j]] = "ACTIVE"
               /\ (PhotoBudgetExhausted(r) \/ r.attempts >= MaxAttempts)
      BY <1>1, <1>5, <3>2, GivenUpRowMoves DEF Recovered
    <3>3. CASE link[LinkOf[j]] = "ACTIVE"
               /\ ~(PhotoBudgetExhausted(r) \/ r.attempts >= MaxAttempts)
      <4>1. r.attempts < MaxAttempts BY <1>1, <3>3, RowFields, AttemptsAssumption
      <4>2. q = Requeued(r, TRUE) BY <1>5, <3>3 DEF Recovered
      <4>3. QED BY <1>1, <4>1, <4>2, RequeuedRowMoves
    <3>4. QED BY <3>1, <3>2, <3>3
  <2>2. QED BY <1>5, <2>1 DEF IsActive, ActiveStatuses
<1>6. CASE r.status = "QUEUED" /\ q = FailedIfExhausted(r)
  <2>1. q = r \/ RowMoves(r, q)
    BY <1>1, <1>6, GivenUpRowMoves DEF FailedIfExhausted, Exhausted
  <2>2. QED BY <1>6, <2>1 DEF IsActive, ActiveStatuses
<1>7. QED BY <1>2, <1>3, <1>4, <1>5, <1>6 DEF OutsideRow

(* A claim goes on where the row stands, or gives up its pictures first. *)
LEMMA ClaimedResumes ==
  ASSUME NEW r \in Receipt, Formed(r)
  PROVE  LET q == Claimed(r)
         IN  /\ Resumes(r, q)
             /\ q.status = "RUNNING" /\ q.error = r.error
             /\ State(r).takeover => q.attempts >= r.attempts
             /\ q.attempts <= r.attempts + 1
<1>1. r.attempts \in Nat /\ State(r) \in Progress BY RowFields
<1>2. ASSUME NEW d \in Receipt
      PROVE  /\ Leased(d).man = d.man /\ Leased(d).cursor = d.cursor
             /\ Leased(d).status = "RUNNING" /\ Leased(d).error = d.error
             /\ Leased(d).attempts = IF PendingPhotos(d) THEN 0 ELSE d.attempts + 1
  BY DEF Leased, Receipt
<1>3. ~(State(r).takeover /\ PendingPhotos(r))
  <2>1. State(r).takeover => State(r).started /\ ~State(r).first
    <3>1. r.man \in Manifest /\ r.cursor \in Nat BY RowFields
    <3>2. State(r).takeover => r.man.photos # 0 /\ ~r.man.shared /\ ~r.man.first
      BY <3>1, StateFields
    <3>3. QED BY <3>1, <3>2, StateFields
  <2>2. State(r) = DeliveryState(r.man, r.cursor) BY RowFields
  <2>3. QED BY <2>1, <2>2 DEF PendingPhotos
<1>4. CASE PhotoBudgetExhausted(r) /\ CanDegrade(r)
  <2> DEFINE d == Degraded(r)
  <2>1. d \in Receipt BY DegradedType
  <2>2. /\ Resumes(r, d) /\ d.error = r.error
        /\ State(d).photo = d.man.photos
        /\ d.attempts = IF State(r).takeover THEN r.attempts ELSE 0
    BY <1>4, DegradedRowMoves, DegradedResumes
  <2> HIDE DEF d
  <2>3. ~PendingPhotos(d)
    BY <2>1, <2>2, RowFields DEF PendingPhotos, Progress
  <2>4. Claimed(r) = Leased(d) BY <1>4 DEF Claimed, d
  <2>5. d.man \in Manifest /\ d.cursor \in Nat BY <2>1, RowFields
  <2>6. Resumes(r, Leased(d))
    BY <1>2, <2>1, <2>2, <2>5, SamePayload DEF Resumes
  <2>7. Leased(d).attempts = d.attempts + 1 BY <1>2, <2>1, <2>3
  <2>8. QED BY <1>1, <1>2, <2>1, <2>2, <2>4, <2>6, <2>7
<1>5. CASE ~(PhotoBudgetExhausted(r) /\ CanDegrade(r))
  <2>1. Claimed(r) = Leased(r) BY <1>5 DEF Claimed
  <2>2. r.man \in Manifest /\ r.cursor \in Nat BY RowFields
  <2>3. Resumes(r, Leased(r)) BY <1>2, <2>2, SamePayload
  <2>4. QED BY <1>1, <1>2, <1>3, <2>1, <2>3
<1>6. QED BY <1>4, <1>5

-----------------------------------------------------------------------------
(* A turn of a worker whose lease holds, as a step of the row.             *)

Silent == UNCHANGED <<got, pics, answer, leases>>

(* The row once the worker has written its copy back. *)
Written(r, m) == [r EXCEPT !.man = m.man, !.cursor = m.cursor,
                           !.attempts = m.attempts, !.expired = FALSE]

CarriedTo(w, t, n) == /\ cur'[w] = cur[w] /\ pc'[w] = t /\ mem'[w] = n
                      /\ row'[cur[w]] = Written(row[cur[w]], n)

Carries(w) == \E t, n : CarriedTo(w, t, n) /\ Moves(pc[w], mem[w], t, n)

(* Telegram has confirmed an item. *)
TextConfirmed(m, a) == [m EXCEPT !.cursor = @ + 1, !.attempts = a]

Confirms(w) ==
  /\ pc[w] = "sentText" /\ out[w].reply = "ok"
  /\ \E a \in {0, mem[w].attempts} :
       CarriedTo(w, TextStep(TextConfirmed(mem[w], a)), TextConfirmed(mem[w], a))

Shows(w) ==
  LET n == NextPhoto(mem[w], FALSE)
  IN  /\ pc[w] = "sentPhoto" /\ out[w].reply = "ok"
      /\ CarriedTo(w, PhotoStep(n, "photo"), n)

(* How a worker may leave its row when it lets go of it. *)
Leaves(s, m, r, q) ==
  \/ q = Ended(r, "CANCELLED", "revoked")
  \/ s = "begin" /\ m.man.texts + m.man.photos = 0 /\ q = Ended(r, "SUCCEEDED", "none")
  \/ s = "finish" /\ q = Ended(r, "SUCCEEDED", IF m.man.degraded THEN "degraded" ELSE "none")
  \/ /\ s \in {"execute", "sentText"}
     /\ \/ \E e \in {"permanent", "rejected"} : q = Ended(r, "FAILED", e)
        \/ m.attempts >= MaxAttempts /\ q = Ended(r, "FAILED", "exhausted")
        \/ m.attempts < MaxAttempts /\ q = Requeued(r, FALSE)
  \/ s \in PhotoSteps /\ q = [Requeued(r, FALSE) EXCEPT !.attempts = 0]

Drops(w) == cur'[w] = NoJob /\ Leaves(pc[w], mem[w], row[cur[w]], row'[cur[w]])

(* What the worker knows while its lease holds. *)
InStep(w) == /\ TypeOK /\ CopyMade
             /\ pc[w] \notin FreeSteps
             /\ Alive(w) /\ mem[w] = Copy(row[cur[w]])

LEMMA InStepFacts ==
  ASSUME NEW w \in Workers, InStep(w)
  PROVE  /\ cur[w] \in Jobs /\ row[cur[w]] \in Receipt /\ mem[w] \in Memory
         /\ mem[w].man = row[cur[w]].man /\ mem[w].cursor = row[cur[w]].cursor
         /\ mem[w].attempts = row[cur[w]].attempts
         /\ Owned(w)
         /\ row[cur[w]] = Written(row[cur[w]], mem[w])
         /\ pc[w] \notin EarlySteps => mem[w].man.made
<1>1. cur[w] \in Jobs /\ row[cur[w]] \in Receipt /\ mem[w] \in Memory
  BY BusyHoldsJob DEF InStep, TypeOK, DatabaseTypeOK, WorkerTypeOK
<1>2. /\ mem[w].man = row[cur[w]].man /\ mem[w].cursor = row[cur[w]].cursor
      /\ mem[w].attempts = row[cur[w]].attempts
  BY DEF InStep, Copy
<1>3. Owned(w) /\ row[cur[w]].expired = FALSE
  BY <1>1 DEF InStep, Alive, Receipt
<1>4. row[cur[w]] = Written(row[cur[w]], mem[w])
  BY <1>1, <1>2, <1>3 DEF Written, Receipt
<1>5. QED BY <1>1, <1>2, <1>3, <1>4 DEF InStep, CopyMade

LEMMA ProceedCarries ==
  ASSUME NEW w \in Workers, InStep(w), NEW matches, matches, NEW n, NEW t,
         NEW r, r = Written(row[cur[w]], n), ProceedIf(w, matches, r, n, t)
  PROVE  CarriedTo(w, t, n)
<1>1. cur[w] \in Jobs /\ Owned(w) BY InStepFacts
<1>2. /\ row' = [row EXCEPT ![cur[w]] = r]
      /\ mem' = [mem EXCEPT ![w] = n]
      /\ pc'  = [pc  EXCEPT ![w] = t]
      /\ UNCHANGED cur
  BY <1>1 DEF ProceedIf
<1>3. QED BY <1>1, <1>2 DEF CarriedTo, InStep, TypeOK, DatabaseTypeOK, WorkerTypeOK

LEMMA GotoCarries ==
  ASSUME NEW w \in Workers, InStep(w), NEW t, Goto(w, t), UNCHANGED row
  PROVE  CarriedTo(w, t, mem[w])
<1>1. row[cur[w]] = Written(row[cur[w]], mem[w]) BY InStepFacts
<1>2. pc' = [pc EXCEPT ![w] = t] /\ UNCHANGED <<cur, mem>> BY DEF Goto
<1>3. pc'[w] = t BY <1>2 DEF InStep, TypeOK, WorkerTypeOK
<1>4. QED BY <1>1, <1>2, <1>3 DEF CarriedTo

LEMMA LetGoDrops ==
  ASSUME NEW w \in Workers, InStep(w), NEW q, LetGo(w, q),
         Leaves(pc[w], mem[w], row[cur[w]], q)
  PROVE  Drops(w)
<1>1. cur[w] \in Jobs /\ Owned(w) BY InStepFacts
<1>2. row' = [row EXCEPT ![cur[w]] = q] /\ cur' = [cur EXCEPT ![w] = NoJob]
  BY <1>1 DEF LetGo, Rest
<1>3. QED BY <1>1, <1>2 DEF Drops, InStep, TypeOK, DatabaseTypeOK, WorkerTypeOK

LEMMA RequeueDrops ==
  ASSUME NEW w \in Workers, InStep(w), RequeueDelivery(w),
         pc[w] \in {"execute", "sentText"}
  PROVE  Drops(w)
<1>1. CASE mem[w].attempts >= MaxAttempts
  <2>1. LetGo(w, Ended(row[cur[w]], "FAILED", "exhausted"))
    BY <1>1 DEF RequeueDelivery, Finish
  <2>2. QED BY <1>1, <2>1, LetGoDrops DEF Leaves
<1>2. CASE ~(mem[w].attempts >= MaxAttempts)
  <2>1. LetGo(w, Requeued(row[cur[w]], FALSE)) BY <1>2 DEF RequeueDelivery
  <2>2. mem[w].attempts < MaxAttempts
    BY <1>2, InStepFacts, AttemptsAssumption DEF Memory
  <2>3. QED BY <2>1, <2>2, LetGoDrops DEF Leaves
<1>3. QED BY <1>1, <1>2

LEMMA CancelDrops ==
  ASSUME NEW w \in Workers, InStep(w), Finish(w, "CANCELLED", "revoked")
  PROVE  Drops(w)
BY LetGoDrops DEF Finish, Leaves

(* A whole payload written back, from any copy the row has the rest of. *)
LEMMA PayloadCarries ==
  ASSUME NEW w \in Workers, InStep(w), NEW n, NEW t,
         Proceed(w, [WithManifest(row[cur[w]], n.man) EXCEPT
                       !.cursor = n.cursor, !.attempts = n.attempts], n, t)
  PROVE  CarriedTo(w, t, n)
<1> DEFINE r == [WithManifest(row[cur[w]], n.man) EXCEPT
                   !.cursor = n.cursor, !.attempts = n.attempts]
<1>1. row[cur[w]] \in Receipt BY InStepFacts
<1>2. r = Written(row[cur[w]], n) BY <1>1 DEF WithManifest, Written, Receipt
<1>3. ProceedIf(w, TRUE, r, n, t) BY DEF Proceed
<1> HIDE DEF r
<1>4. QED BY <1>2, <1>3, ProceedCarries

LEMMA PhotoDoneCarries ==
  ASSUME NEW w \in Workers, InStep(w), NEW n, NEW t, PhotoDone(w, n, t),
         n.cursor = mem[w].cursor, n.attempts = mem[w].attempts
  PROVE  CarriedTo(w, t, n)
<1>1. /\ row[cur[w]] \in Receipt
      /\ n.cursor = row[cur[w]].cursor /\ n.attempts = row[cur[w]].attempts
  BY InStepFacts
<1>2. WithManifest(row[cur[w]], n.man)
      = [WithManifest(row[cur[w]], n.man) EXCEPT !.cursor = n.cursor, !.attempts = n.attempts]
  BY <1>1, PayloadOnly
<1>3. Proceed(w, [WithManifest(row[cur[w]], n.man) EXCEPT
                    !.cursor = n.cursor, !.attempts = n.attempts], n, t)
  BY <1>2 DEF PhotoDone
<1>4. QED BY <1>3, PayloadCarries

LEMMA SkipCarries ==
  ASSUME NEW w \in Workers, InStep(w), pc[w] \in PhotoSteps,
         NEW p \in {"off", "photo"}, SkipPhoto(w, p)
  PROVE  Carries(w)
<1> DEFINE n == NextPhoto(mem[w], TRUE)
<1>1. mem[w] \in Memory BY InStepFacts
<1>2. n.cursor = mem[w].cursor /\ n.attempts = mem[w].attempts
  BY <1>1 DEF NextPhoto, Memory
<1>3. PhotoDone(w, n, PhotoStep(n, p)) BY DEF SkipPhoto
<1>4. CarriedTo(w, PhotoStep(n, p), n)
  <2> HIDE DEF n
  <2>1. QED BY <1>2, <1>3, PhotoDoneCarries
<1>5. Moves(pc[w], mem[w], PhotoStep(n, p), n) BY DEF Moves
<1>6. QED BY <1>4, <1>5 DEF Carries

LEMMA PhotoFailedKinds ==
  ASSUME NEW w \in Workers, InStep(w), pc[w] \in PhotoSteps, NEW b, PhotoFailed(w, b)
  PROVE  Carries(w) \/ Drops(w)
<1>1. CASE RequeuePhoto(w)
  <2>1. LetGo(w, [Requeued(row[cur[w]], FALSE) EXCEPT !.attempts = 0])
    BY <1>1 DEF RequeuePhoto
  <2>2. QED BY <2>1, LetGoDrops DEF Leaves
<1>2. CASE SkipPhoto(w, "photo") BY <1>2, SkipCarries
<1>3. QED BY <1>1, <1>2 DEF PhotoFailed

LEMMA GiveUpCarries ==
  ASSUME NEW w \in Workers, InStep(w), BeginTextAfterSkippingPhotos(w),
         \/ pc[w] = "begin" /\ State(mem[w]).takeover
         \/ pc[w] = "gate" /\ PhotoLeft(mem[w]) /\ ~State(mem[w]).first
  PROVE  Carries(w)
<1> DEFINE n == TextWithoutPhotos(mem[w])
<1>1. Proceed(w, [WithManifest(row[cur[w]], n.man) EXCEPT
                    !.cursor = n.cursor, !.attempts = n.attempts], n, TextStep(n))
  BY DEF BeginTextAfterSkippingPhotos
<1>2. CarriedTo(w, TextStep(n), n)
  <2> HIDE DEF n
  <2>1. QED BY <1>1, PayloadCarries
<1>3. Moves(pc[w], mem[w], TextStep(n), n) BY DEF Moves
<1>4. QED BY <1>2, <1>3 DEF Carries

LEMMA BeginKinds ==
  ASSUME NEW w \in Workers, InStep(w), Begin(w)
  PROVE  Carries(w) \/ Drops(w)
<1> DEFINE m == mem[w]
           n == SplitCursor(m)
<1>1. pc[w] = "begin" /\ m \in Memory /\ row[cur[w]] \in Receipt
      /\ m.attempts = row[cur[w]].attempts
  BY InStepFacts DEF Begin
<1>2. \/ m.man.texts + m.man.photos = 0 /\ Finish(w, "SUCCEEDED", "none")
      \/ State(m).takeover /\ BeginTextAfterSkippingPhotos(w)
      \/ /\ ~State(m).takeover /\ m.man.photos > 0 /\ m.man.shared
         /\ Proceed(w, [WithManifest(row[cur[w]], n.man) EXCEPT !.cursor = n.cursor],
                    n, DeliverStep(n))
      \/ /\ ~State(m).takeover /\ ~(m.man.photos > 0 /\ m.man.shared)
         /\ Goto(w, DeliverStep(m)) /\ UNCHANGED row
  BY DEF Begin
<1>3. m.man.photos \in Nat BY <1>1 DEF Memory, Manifest
<1>4. CASE m.man.texts + m.man.photos = 0 /\ Finish(w, "SUCCEEDED", "none")
  BY <1>1, <1>4, LetGoDrops DEF Finish, Leaves
<1>5. CASE State(m).takeover /\ BeginTextAfterSkippingPhotos(w)
  BY <1>1, <1>5, GiveUpCarries
<1>6. CASE /\ ~State(m).takeover /\ m.man.photos > 0 /\ m.man.shared
           /\ Proceed(w, [WithManifest(row[cur[w]], n.man) EXCEPT !.cursor = n.cursor],
                      n, DeliverStep(n))
  <2>1. n.attempts = row[cur[w]].attempts
    <3>1. n.attempts = m.attempts BY <1>1 DEF SplitCursor, Memory
    <3>2. QED BY <1>1, <3>1
  <2>2. m.man.photos # 0 BY <1>3, <1>6
  <2>3. Moves(pc[w], m, DeliverStep(n), n) BY <1>1, <1>6, <2>2 DEF Moves
  <2> HIDE DEF n
  <2>4. Proceed(w, [WithManifest(row[cur[w]], n.man) EXCEPT
                      !.cursor = n.cursor, !.attempts = n.attempts], n, DeliverStep(n))
    BY <1>1, <1>6, <2>1, PayloadAndCursor
  <2>5. CarriedTo(w, DeliverStep(n), n) BY <2>4, PayloadCarries
  <2>6. QED BY <2>3, <2>5 DEF Carries
<1>7. CASE /\ ~State(m).takeover /\ ~(m.man.photos > 0 /\ m.man.shared)
           /\ Goto(w, DeliverStep(m)) /\ UNCHANGED row
  <2>1. m.man.photos = 0 \/ ~m.man.shared BY <1>3, <1>7
  <2>2. Moves(pc[w], m, DeliverStep(m), m) BY <1>1, <1>7, <2>1 DEF Moves, Stands
  <2>3. CarriedTo(w, DeliverStep(m), m) BY <1>7, GotoCarries
  <2>4. QED BY <2>2, <2>3 DEF Carries
<1>8. QED BY <1>2, <1>4, <1>5, <1>6, <1>7

LEMMA AuthoriseKinds ==
  ASSUME NEW w \in Workers, InStep(w), AuthoriseText(w) \/ AuthorisePhoto(w)
  PROVE  Carries(w) \/ Drops(w)
<1>1. \/ Finish(w, "CANCELLED", "revoked")
      \/ pc[w] = "text" /\ Goto(w, "sendText") /\ UNCHANGED row
      \/ pc[w] = "photo" /\ Goto(w, "render") /\ UNCHANGED row
  BY DEF AuthoriseText, AuthorisePhoto, Authorise
<1>2. ASSUME NEW t, Goto(w, t), UNCHANGED row, Stands(pc[w], mem[w], t)
      PROVE  Carries(w)
  BY <1>2, GotoCarries DEF Carries, Moves
<1>3. QED BY <1>1, <1>2, CancelDrops DEF Stands

LEMMA SettleTextKinds ==
  ASSUME NEW w \in Workers, InStep(w), SettleText(w)
  PROVE  Confirms(w) \/ Drops(w)
<1>1. pc[w] = "sentText" BY DEF SettleText
<1>2. CASE out[w].reply = "ok" /\ ConfirmText(w)
  <2> DEFINE m    == [mem[w] EXCEPT !.cursor = @ + 1]
             last == m.cursor = m.man.texts /\ State(m).first /\ PhotoLeft(m)
             a    == IF last THEN 0 ELSE mem[w].attempts
             n    == IF last THEN [m EXCEPT !.attempts = 0] ELSE m
             r    == [row[cur[w]] EXCEPT !.cursor = m.cursor, !.expired = FALSE,
                                         !.attempts = IF last THEN 0 ELSE @]
  <2>1. ProceedIf(w, row[cur[w]].cursor < m.cursor, r, n, TextStep(n))
    BY <1>2 DEF ConfirmText
  <2>2. /\ mem[w] \in Memory /\ row[cur[w]] \in Receipt
        /\ mem[w].man = row[cur[w]].man /\ mem[w].cursor = row[cur[w]].cursor
        /\ mem[w].attempts = row[cur[w]].attempts
    BY InStepFacts
  <2>3. m.cursor = mem[w].cursor + 1 /\ mem[w].cursor \in Nat BY <2>2 DEF Memory
  <2>4. n = TextConfirmed(mem[w], a)
    <3> HIDE DEF last
    <3>1. CASE last BY <2>2, <3>1 DEF TextConfirmed, Memory
    <3>2. CASE ~last BY <2>2, <3>2 DEF TextConfirmed, Memory
    <3>3. QED BY <3>1, <3>2
  <2>5. /\ n.man = mem[w].man /\ n.cursor = mem[w].cursor + 1 /\ n.attempts = a
    <3> HIDE DEF a, n
    <3>1. QED BY <2>2, <2>4 DEF TextConfirmed, Memory
  <2>6. r = Written(row[cur[w]], n)
    <3>1. r = [row[cur[w]] EXCEPT !.cursor = mem[w].cursor + 1, !.expired = FALSE,
                                  !.attempts = a]
      <4> HIDE DEF last
      <4>1. QED BY <2>2, <2>3
    <3> HIDE DEF a, n, r
    <3>2. QED BY <2>2, <2>5, <3>1 DEF Written, Receipt
  <2>7. row[cur[w]].cursor < m.cursor BY <2>2, <2>3
  <2>8. a \in {0, mem[w].attempts} OBVIOUS
  <2> HIDE DEF n, r, m, a, last
  <2>9. CarriedTo(w, TextStep(n), n) BY <2>1, <2>6, <2>7, ProceedCarries
  <2>10. QED BY <1>1, <1>2, <2>4, <2>8, <2>9 DEF Confirms
<1>3. CASE RequeueDelivery(w) BY <1>1, <1>3, RequeueDrops
<1>4. CASE Finish(w, "FAILED", "rejected") BY <1>1, <1>4, LetGoDrops DEF Finish, Leaves
<1>5. QED BY <1>2, <1>3, <1>4 DEF SettleText

LEMMA GateKinds ==
  ASSUME NEW w \in Workers, InStep(w), Gate(w)
  PROVE  Carries(w)
<1>1. pc[w] = "gate" /\ mem[w] \in Memory /\ row[cur[w]] \in Receipt
      /\ mem[w].cursor = row[cur[w]].cursor
  BY InStepFacts DEF Gate
<1>2. \/ /\ ~PhotoLeft(mem[w]) /\ Goto(w, AfterPhotos(mem[w])) /\ UNCHANGED row
      \/ /\ PhotoLeft(mem[w])
         /\ \/ Goto(w, "off") /\ UNCHANGED row
            \/ PhotoAttempt(w)
            \/ State(mem[w]).first /\ AllPhotosSkipped(w)
            \/ ~State(mem[w]).first /\ BeginTextAfterSkippingPhotos(w)
  BY DEF Gate
<1>3. ASSUME NEW t, Goto(w, t), UNCHANGED row, Stands(pc[w], mem[w], t)
      PROVE  Carries(w)
  BY <1>3, GotoCarries DEF Carries, Moves
<1>4. ASSUME PhotoLeft(mem[w]), PhotoAttempt(w) PROVE Carries(w)
  <2> DEFINE n == [mem[w] EXCEPT !.attempts = 0, !.man.tries = @ + 1]
  <2>1. Proceed(w, [WithManifest(row[cur[w]], n.man) EXCEPT !.attempts = 0], n, "photo")
    BY <1>4 DEF PhotoAttempt
  <2>2. n.cursor = row[cur[w]].cursor /\ n.attempts = 0 BY <1>1 DEF Memory
  <2>3. Moves(pc[w], mem[w], "photo", n) BY <1>1, <1>4 DEF Moves
  <2> HIDE DEF n
  <2>4. Proceed(w, [WithManifest(row[cur[w]], n.man) EXCEPT
                      !.cursor = n.cursor, !.attempts = n.attempts], n, "photo")
    <3>1. [WithManifest(row[cur[w]], n.man) EXCEPT !.attempts = 0]
          = [WithManifest(row[cur[w]], n.man) EXCEPT !.cursor = row[cur[w]].cursor,
                                                    !.attempts = 0]
      BY <1>1 DEF WithManifest, Receipt
    <3>2. QED BY <2>1, <2>2, <3>1
  <2>5. CarriedTo(w, "photo", n) BY <2>4, PayloadCarries
  <2>6. QED BY <2>3, <2>5 DEF Carries
<1>5. ASSUME PhotoLeft(mem[w]), State(mem[w]).first, AllPhotosSkipped(w) PROVE Carries(w)
  <2> DEFINE n == AllSkipped(mem[w])
  <2>1. PhotoDone(w, n, "finish") BY <1>5 DEF AllPhotosSkipped, AllSkipped
  <2>2. n.cursor = mem[w].cursor /\ n.attempts = mem[w].attempts
    BY <1>1 DEF AllSkipped, Memory
  <2>3. Moves(pc[w], mem[w], "finish", n) BY <1>1, <1>5 DEF Moves
  <2> HIDE DEF n
  <2>4. QED BY <2>1, <2>2, <2>3, PhotoDoneCarries DEF Carries
<1>6. QED BY <1>1, <1>2, <1>3, <1>4, <1>5, GiveUpCarries DEF Stands

LEMMA PictureKinds ==
  ASSUME NEW w \in Workers, InStep(w), PhotoOff(w) \/ Render(w) \/ SettlePhoto(w)
  PROVE  Carries(w) \/ Shows(w) \/ Drops(w)
<1>1. CASE PhotoOff(w)
  <2>1. pc[w] = "off" /\ pc[w] \in PhotoSteps BY <1>1 DEF PhotoOff, PhotoSteps
  <2>2. QED BY <1>1, <2>1, SkipCarries, CancelDrops DEF PhotoOff
<1>2. CASE Render(w)
  <2>1. pc[w] = "render" /\ pc[w] \in PhotoSteps BY <1>2 DEF Render, PhotoSteps
  <2>2. \/ Goto(w, "sendPhoto") /\ UNCHANGED row
        \/ Finish(w, "CANCELLED", "revoked")
        \/ PhotoFailed(w, TRUE)
    BY <1>2 DEF Render
  <2>3. CASE Goto(w, "sendPhoto") /\ UNCHANGED row
    <3>1. Stands(pc[w], mem[w], "sendPhoto") BY <2>1 DEF Stands
    <3>2. QED BY <2>3, <3>1, GotoCarries DEF Carries, Moves
  <2>4. QED BY <2>1, <2>2, <2>3, CancelDrops, PhotoFailedKinds
<1>3. CASE SettlePhoto(w)
  <2> DEFINE n == NextPhoto(mem[w], FALSE)
  <2>1. pc[w] = "sentPhoto" /\ pc[w] \in PhotoSteps BY <1>3 DEF SettlePhoto, PhotoSteps
  <2>2. \/ out[w].reply = "ok" /\ PhotoDone(w, n, PhotoStep(n, "photo"))
        \/ PhotoFailed(w, out[w].reply = "retry")
    BY <1>3 DEF SettlePhoto
  <2>3. mem[w] \in Memory BY InStepFacts
  <2>4. n.cursor = mem[w].cursor /\ n.attempts = mem[w].attempts
    BY <2>3 DEF NextPhoto, Memory
  <2>5. ASSUME out[w].reply = "ok", PhotoDone(w, n, PhotoStep(n, "photo"))
        PROVE  Shows(w)
    <3>1. CarriedTo(w, PhotoStep(n, "photo"), n)
      <4> HIDE DEF n
      <4>1. QED BY <2>4, <2>5, PhotoDoneCarries
    <3>2. QED BY <2>1, <2>5, <3>1 DEF Shows
  <2>6. QED BY <2>1, <2>2, <2>5, PhotoFailedKinds
<1>4. QED BY <1>1, <1>2, <1>3

LEMMA StartTextKinds ==
  ASSUME NEW w \in Workers, InStep(w), StartText(w)
  PROVE  Carries(w)
<1> DEFINE n == Started(mem[w])
<1>1. pc[w] = "startText" /\ mem[w] \in Memory /\ row[cur[w]] \in Receipt
      /\ mem[w].cursor = row[cur[w]].cursor
  BY InStepFacts DEF StartText
<1>2. Proceed(w, [WithManifest(row[cur[w]], n.man) EXCEPT !.attempts = 1], n, TextStep(n))
  BY DEF StartText, Started
<1>3. n.cursor = row[cur[w]].cursor /\ n.attempts = 1 BY <1>1 DEF Started, Memory
<1>4. Moves(pc[w], mem[w], TextStep(n), n) BY <1>1 DEF Moves
<1> HIDE DEF n
<1>5. Proceed(w, [WithManifest(row[cur[w]], n.man) EXCEPT
                    !.cursor = n.cursor, !.attempts = n.attempts], n, TextStep(n))
  <2>1. [WithManifest(row[cur[w]], n.man) EXCEPT !.attempts = 1]
        = [WithManifest(row[cur[w]], n.man) EXCEPT !.cursor = row[cur[w]].cursor,
                                                  !.attempts = 1]
    BY <1>1 DEF WithManifest, Receipt
  <2>2. QED BY <1>2, <1>3, <2>1
<1>6. CarriedTo(w, TextStep(n), n) BY <1>5, PayloadCarries
<1>7. QED BY <1>4, <1>6 DEF Carries

LEMMA DeliverKinds ==
  ASSUME NEW w \in Workers, InStep(w), Deliver(w)
  PROVE  \/ SendText(w) \/ SendPhoto(w)
         \/ Silent /\ (Carries(w) \/ Confirms(w) \/ Shows(w) \/ Drops(w))
<1>1. SendText(w) \/ SendPhoto(w) \/ Silent
  BY DEF Deliver, Begin, AuthoriseText, AuthorisePhoto, Authorise, SettleText, Gate, PhotoOff,
         Render, SettlePhoto, StartText, FinishDelivered, Quiet, Silent
<1>2. CASE FinishDelivered(w)
  <2>1. LetGo(w, Ended(row[cur[w]], "SUCCEEDED",
                       IF mem[w].man.degraded THEN "degraded" ELSE "none"))
        /\ pc[w] = "finish"
    BY <1>2 DEF FinishDelivered, Finish
  <2>2. Drops(w) BY <2>1, LetGoDrops DEF Leaves
  <2>3. QED BY <1>1, <2>2
<1>3. QED
  BY <1>1, <1>2, BeginKinds, AuthoriseKinds, SettleTextKinds, GateKinds, PictureKinds,
     StartTextKinds DEF Deliver

(* Before there is an answer: the adviser has replied, the reply is        *)
(* stored, the worker reads the row again.                                 *)
Replied(w) ==
  LET r == row[cur[w]]  q == row'[cur[w]]
  IN  /\ cur'[w] = cur[w] /\ pc'[w] = "refresh" /\ mem'[w] = mem[w]
      /\ q.man = r.man /\ q.cursor = r.cursor /\ q.attempts = r.attempts
      /\ q.status = r.status /\ q.error = r.error

Prepares(w) ==
  LET r == row[cur[w]]  q == row'[cur[w]]
  IN  /\ cur'[w] = cur[w]
      /\ ~r.man.made
      /\ \E a \in [texts: Nat, photos: Nat] : q = Stored(r, a)
      /\ answer'[cur[w]] = q.man.texts /\ leases'[cur[w]] = 1
      /\ UNCHANGED <<got, pics>>
      /\ pc'[w] = "refresh" \/ (pc'[w] = "begin" /\ mem'[w] = Copy(q))

Rereads(w) == /\ cur'[w] = cur[w] /\ row'[cur[w]] = row[cur[w]]
              /\ mem'[w] = Copy(row[cur[w]])
              /\ pc'[w] = IF row[cur[w]].man.made THEN "begin" ELSE "store"

LEMMA CheckKinds ==
  ASSUME NEW w \in Workers, InStep(w), Check(w)
  PROVE  Silent /\ (Carries(w) \/ Drops(w))
<1>1. pc[w] = "check" /\ Silent BY DEF Check, Silent
<1>2. \/ Finish(w, "CANCELLED", "revoked")
      \/ Goto(w, IF mem[w].man.made THEN "begin" ELSE "execute") /\ UNCHANGED row
  BY DEF Check
<1>3. ASSUME NEW t, Goto(w, t), UNCHANGED row, Stands(pc[w], mem[w], t)
      PROVE  Carries(w)
  BY <1>3, GotoCarries DEF Carries, Moves
<1>4. Stands(pc[w], mem[w], IF mem[w].man.made THEN "begin" ELSE "execute")
  BY <1>1 DEF Stands
<1>5. QED BY <1>1, <1>2, <1>3, <1>4, CancelDrops

LEMMA ExecutedReplied ==
  ASSUME NEW w \in Workers, TypeOK, NEW a, Executed(w, a)
  PROVE  cur'[w] = cur[w] /\ pc'[w] = "refresh" /\ mem'[w] = mem[w]
BY DEF Executed, TypeOK, WorkerTypeOK

LEMMA ExecuteKinds ==
  ASSUME NEW w \in Workers, InStep(w), Execute(w), ~mem[w].man.made
  PROVE  Prepares(w) \/ (Silent /\ (Replied(w) \/ Drops(w)))
<1> DEFINE j == cur[w]
           r == row[j]
<1>1. /\ j \in Jobs /\ r \in Receipt /\ ~r.man.made /\ TypeOK
      /\ r.status = "RUNNING"
  BY InStepFacts DEF InStep, Owned
<1>2. pc[w] = "execute"
  BY DEF Execute, ExecuteQuestion, ExecuteNew, ExecuteAdvisor, Executing, ExecuteRetry,
         ExecutePermanent
<1>3. CASE ExecuteQuestion(w)
  BY <1>1, <1>3, ExecutedReplied DEF ExecuteQuestion, Quiet, Silent, Replied
<1>4. CASE ExecuteNew(w)
  <2>1. /\ row' \in {row, [row EXCEPT ![j] = [row[j] EXCEPT !.conv = TRUE]]}
        /\ Executed(w, OneMessage) /\ Silent
    BY <1>1, <1>4 DEF ExecuteNew, Silent, TypeOK, DatabaseTypeOK
  <2>2. row'[j] \in {r, [r EXCEPT !.conv = TRUE]}
    BY <1>1, <2>1 DEF TypeOK, DatabaseTypeOK
  <2>3. /\ row'[j].man = r.man /\ row'[j].cursor = r.cursor
        /\ row'[j].attempts = r.attempts /\ row'[j].status = r.status
        /\ row'[j].error = r.error
    BY <1>1, <2>2 DEF Receipt
  <2>4. QED BY <1>1, <2>1, <2>3, ExecutedReplied DEF Replied
<1>5. CASE ExecuteAdvisor(w)
  <2>1. /\ row' = [row EXCEPT ![j] = Stored(r, OneMessage)]
        /\ Materialised(j, Stored(r, OneMessage))
        /\ Executed(w, OneMessage)
        /\ UNCHANGED <<got, pics>>
    BY <1>1, <1>5 DEF ExecuteAdvisor, TypeOK, DatabaseTypeOK
  <2>2. row'[j] = Stored(r, OneMessage) BY <1>1, <2>1 DEF TypeOK, DatabaseTypeOK
  <2>3. OneMessage \in [texts: Nat, photos: Nat] BY DEF OneMessage
  <2>4. answer'[j] = row'[j].man.texts /\ leases'[j] = 1
    BY <1>1, <2>1, <2>2 DEF Materialised, TypeOK, SeenTypeOK
  <2>5. cur'[w] = cur[w] /\ pc'[w] = "refresh" BY <1>1, <2>1, ExecutedReplied
  <2>6. \E a \in [texts: Nat, photos: Nat] : row'[j] = Stored(r, a) BY <2>2, <2>3
  <2>7. QED BY <1>1, <2>1, <2>4, <2>5, <2>6 DEF Prepares
<1>6. CASE ExecuteRetry(w)
  BY <1>2, <1>6, RequeueDrops DEF ExecuteRetry, Quiet, Silent
<1>7. CASE ExecutePermanent(w)
  BY <1>2, <1>7, LetGoDrops DEF ExecutePermanent, Finish, Leaves, Quiet, Silent
<1>8. QED BY <1>3, <1>4, <1>5, <1>6, <1>7 DEF Execute

LEMMA RefreshKinds ==
  ASSUME NEW w \in Workers, TypeOK, Alive(w), Refresh(w)
  PROVE  Silent /\ Rereads(w)
<1> DEFINE r == row[cur[w]]
<1>1. r.status = "RUNNING" BY DEF Alive, Owned
<1>2. [Copy(r) EXCEPT !.token = IF r.status = "RUNNING" THEN r.claims ELSE 0] = Copy(r)
  BY <1>1 DEF Copy
<1>3. /\ mem' = [mem EXCEPT ![w] = Copy(r)]
      /\ pc' = [pc EXCEPT ![w] = IF r.man.made THEN "begin" ELSE "store"]
      /\ UNCHANGED <<row, cur>>
  BY <1>2 DEF Refresh
<1>4. QED BY <1>3 DEF Refresh, Quiet, Silent, Rereads, TypeOK, WorkerTypeOK

LEMMA StoreKinds ==
  ASSUME NEW w \in Workers, InStep(w), StoreDelivery(w), ~mem[w].man.made
  PROVE  Prepares(w)
<1> DEFINE j == cur[w]
           a == [texts |-> out[w].texts, photos |-> out[w].photos]
           r == Stored(row[j], out[w])
           m == [Copy(r) EXCEPT !.token = mem[w].token]
<1>1. /\ j \in Jobs /\ row[j] \in Receipt /\ ~row[j].man.made /\ TypeOK /\ Owned(w)
      /\ mem[w].token = row[j].claims
  BY InStepFacts DEF InStep, Owned
<1>2. a \in [texts: Nat, photos: Nat] BY <1>1 DEF TypeOK, WorkerTypeOK, Outcome
<1>3. r = Stored(row[j], a) BY DEF Stored, NewManifest
<1>4. r.claims = mem[w].token BY <1>1 DEF Stored, Receipt
<1>5. m = Copy(r) BY <1>4 DEF Copy
<1>6. /\ Proceed(w, r, m, "begin") /\ Materialised(j, r) /\ UNCHANGED <<got, pics>>
  BY <1>1 DEF StoreDelivery
<1> HIDE DEF r, m
<1>7. /\ row' = [row EXCEPT ![j] = r]
      /\ mem' = [mem EXCEPT ![w] = m]
      /\ pc'  = [pc  EXCEPT ![w] = "begin"]
      /\ UNCHANGED cur
  BY <1>1, <1>6 DEF Proceed, ProceedIf
<1>8. row'[j] = r /\ mem'[w] = Copy(r) /\ pc'[w] = "begin" /\ cur'[w] = j
  BY <1>1, <1>5, <1>7 DEF TypeOK, DatabaseTypeOK, WorkerTypeOK
<1>9. answer'[j] = r.man.texts /\ leases'[j] = 1
  BY <1>1, <1>6 DEF Materialised, TypeOK, SeenTypeOK
<1>10. QED BY <1>1, <1>2, <1>3, <1>6, <1>8, <1>9 DEF Prepares

(* What a worker knows of the job it holds, and what it has heard of it.   *)
Knows(w) ==
  cur[w] # NoJob =>
    /\ Alive(w) /\ pc[w] # "refresh" => mem[w] = Copy(row[cur[w]]) /\ At(pc[w], mem[w])
    /\ Alive(w) /\ pc[w] = "sentText" /\ out[w].reply = "ok" =>
         mem[w].cursor + 1 \in got[cur[w]]
    /\ Alive(w) /\ pc[w] = "sentPhoto" /\ out[w].reply = "ok" =>
         mem[w].man.photo + 1 \in pics[cur[w]]
    /\ pc[w] = "sendText" => mem[w].cursor = row[cur[w]].cursor

LEMMA TurnKinds ==
  ASSUME BaseInvariant, NEW w \in Workers, Alive(w), Knows(w), Turn(w)
  PROVE  \/ SendText(w) \/ SendPhoto(w)
         \/ Prepares(w)
         \/ /\ Silent
            /\ \/ Carries(w) \/ Confirms(w) \/ Shows(w) \/ Drops(w)
               \/ Replied(w) \/ Rereads(w)
<1>1. Tends(w) /\ TypeOK /\ CopyMade BY TurnTends DEF BaseInvariant, CoreInvariant
<1>2. cur[w] \in Jobs /\ cur[w] # NoJob BY <1>1, JobsAssumption DEF Tends, NoJob
<1>3. pc[w] \notin FreeSteps BY <1>1, <1>2 DEF TypeOK, WorkerTypeOK
<1>4. CASE Refresh(w) BY <1>1, <1>4, RefreshKinds
<1>5. CASE pc[w] # "refresh"
  <2>1. InStep(w) /\ At(pc[w], mem[w]) BY <1>1, <1>2, <1>3, <1>5 DEF Knows, InStep
  <2>2. pc[w] \in {"execute", "store"} => ~mem[w].man.made BY <2>1 DEF At
  <2>3. CASE Execute(w)
    <3>1. pc[w] = "execute"
      BY <2>3 DEF Execute, ExecuteQuestion, ExecuteNew, ExecuteAdvisor, Executing,
                  ExecuteRetry, ExecutePermanent
    <3>2. QED BY <2>1, <2>2, <2>3, <3>1, ExecuteKinds
  <2>4. CASE StoreDelivery(w)
    <3>1. pc[w] = "store" BY <2>4 DEF StoreDelivery
    <3>2. QED BY <2>1, <2>2, <2>4, <3>1, StoreKinds
  <2>5. CASE Check(w) BY <2>1, <2>5, CheckKinds
  <2>6. CASE Deliver(w) BY <2>1, <2>6, DeliverKinds
  <2>7. CASE Refresh(w) BY <1>4, <2>7
  <2>8. QED BY <2>3, <2>4, <2>5, <2>6, <2>7 DEF Turn
<1>6. CASE pc[w] = "refresh" /\ ~Refresh(w)
  <2>1. FALSE
    BY <1>6 DEF Turn, Check, Execute, ExecuteQuestion, ExecuteNew, ExecuteAdvisor, Executing,
                ExecuteRetry, ExecutePermanent, StoreDelivery, Deliver, Begin, AuthoriseText,
                AuthorisePhoto, Authorise, SendText, SendPhoto, SettleText, Gate, PhotoOff,
                Render, SettlePhoto, StartText, FinishDelivered
  <2>2. QED BY <2>1
<1>7. QED BY <1>4, <1>5, <1>6

-----------------------------------------------------------------------------
(* The invariant: what the chat has heard is what the rows say.            *)

Told(r, g, p, a) ==
  /\ r.status \notin TerminalStatuses => Delivered(r, g, p, a) /\ r.error = "none"
  /\ r.status = "ABSENT" => ~r.man.made
  /\ r.status = "SUCCEEDED" => r.man.made /\ g = 1..a

JobTold(j) == Told(row[j], got[j], pics[j], answer[j])

AllTold == (\A j \in Jobs : JobTold(j)) /\ (\A w \in Workers : Knows(w))

DeliveryInvariant == LeaseInvariant /\ AllTold

(* A turn leaves its own job told and its worker knowing. *)
Kept(w) == Told(row'[cur[w]], got'[cur[w]], pics'[cur[w]], answer'[cur[w]]) /\ Knows(w)'

(* A worker in step has the row's payload in its hands. *)
LEMMA CopyDelivered ==
  ASSUME NEW w \in Workers, InStep(w), JobTold(cur[w])
  PROVE  /\ Delivered(mem[w], got[cur[w]], pics[cur[w]], answer[cur[w]])
         /\ Formed(mem[w]) /\ State(mem[w]) = State(row[cur[w]])
         /\ row[cur[w]].error = "none" /\ row[cur[w]].status = "RUNNING"
         /\ mem[w].token = row[cur[w]].claims
<1>1. /\ row[cur[w]] \in Receipt /\ Owned(w)
      /\ mem[w].man = row[cur[w]].man /\ mem[w].cursor = row[cur[w]].cursor
  BY InStepFacts
<1>2. row[cur[w]].status = "RUNNING" /\ mem[w].token = row[cur[w]].claims
  BY <1>1 DEF Owned
<1>3. Delivered(row[cur[w]], got[cur[w]], pics[cur[w]], answer[cur[w]])
      /\ row[cur[w]].error = "none"
  BY <1>2 DEF JobTold, Told, TerminalStatuses
<1>4. row[cur[w]].man \in Manifest /\ row[cur[w]].cursor \in Nat BY <1>1, RowFields
<1>5. QED BY <1>1, <1>2, <1>3, <1>4, SamePayload DEF Delivered

LEMMA CarriedKept ==
  ASSUME NEW w \in Workers, InStep(w), JobTold(cur[w]), Silent,
         NEW t, t \notin {"sentText", "sentPhoto"}, NEW n \in Memory, n.token = mem[w].token,
         CarriedTo(w, t, n), At(t, n),
         Delivered(n, got[cur[w]], pics[cur[w]], answer[cur[w]])
  PROVE  Kept(w)
<1> DEFINE r == row[cur[w]]
           q == Written(r, n)
<1>1. r \in Receipt /\ cur[w] \in Jobs BY InStepFacts
<1>2. r.error = "none" /\ r.status = "RUNNING" /\ n.token = r.claims BY CopyDelivered
<1>3. /\ q.man = n.man /\ q.cursor = n.cursor /\ q.attempts = n.attempts
      /\ q.claims = r.claims /\ q.status = "RUNNING" /\ q.error = "none"
  BY <1>1, <1>2 DEF Written, Receipt
<1>4. Copy(q) = n BY <1>2, <1>3 DEF Copy, Memory
<1>5. n.man \in Manifest /\ n.cursor \in Nat BY DEF Memory
<1> HIDE DEF q
<1>6. Delivered(q, got[cur[w]], pics[cur[w]], answer[cur[w]])
  BY <1>3, <1>5, SamePayload
<1>7. Told(q, got[cur[w]], pics[cur[w]], answer[cur[w]])
  BY <1>3, <1>6 DEF Told
<1>8. row'[cur[w]] = q /\ cur'[w] = cur[w] /\ mem'[w] = n /\ pc'[w] = t
  BY DEF CarriedTo, q
<1>9. Knows(w)' BY <1>3, <1>4, <1>8 DEF Knows
<1>10. QED BY <1>7, <1>8, <1>9 DEF Kept, Silent

LEMMA MovesToNoReply ==
  ASSUME NEW s, NEW m, NEW t, NEW n, Moves(s, m, t, n)
  PROVE  t \notin {"sentText", "sentPhoto"}
BY DEF Moves, Stands, DeliverStep, TextStep, AfterPhotos, PhotoStep

LEMMA CarriesKept ==
  ASSUME NEW w \in Workers, InStep(w), At(pc[w], mem[w]), JobTold(cur[w]), Silent, Carries(w)
  PROVE  Kept(w)
<1>1. PICK t, n : CarriedTo(w, t, n) /\ Moves(pc[w], mem[w], t, n) BY DEF Carries
<1>2. mem[w] \in Memory BY InStepFacts
<1>3. /\ Formed(mem[w])
      /\ Delivered(mem[w], got[cur[w]], pics[cur[w]], answer[cur[w]])
  BY CopyDelivered
<1>4. n \in Memory /\ n.token = mem[w].token /\ At(t, n) /\ Resumes(mem[w], n)
  BY <1>1, <1>2, <1>3, MovesOnward DEF Onward
<1>5. Delivered(n, got[cur[w]], pics[cur[w]], answer[cur[w]])
  BY <1>2, <1>3, <1>4, ResumesDelivered DEF Memory
<1>6. QED BY <1>1, <1>4, <1>5, MovesToNoReply, CarriedKept

LEMMA ConfirmsKept ==
  ASSUME NEW w \in Workers, InStep(w), At(pc[w], mem[w]), Knows(w), JobTold(cur[w]), Silent,
         Confirms(w)
  PROVE  Kept(w)
<1> DEFINE m == mem[w]
           g == got[cur[w]]
<1>1. PICK a \in {0, m.attempts} :
        CarriedTo(w, TextStep(TextConfirmed(m, a)), TextConfirmed(m, a))
  BY DEF Confirms
<1> DEFINE n == TextConfirmed(m, a)
<1>2. m \in Memory /\ cur[w] \in Jobs BY InStepFacts
<1>3. /\ Formed(m) /\ Heard(m, g) /\ Shown(m, pics[cur[w]])
      /\ answer[cur[w]] = m.man.texts
  BY CopyDelivered DEF Delivered
<1>4. /\ m.man.made /\ Split(m) /\ TextLeft(m)
      /\ State(m).first \/ (State(m).started /\ ~PhotoLeft(m))
  BY DEF Confirms, At, Split, TextSteps, EarlySteps, FreeSteps
<1>5. m.cursor + 1 \in g
  BY <1>2, JobsAssumption DEF Knows, Confirms, InStep, NoJob
<1>6. a \in Nat BY <1>2 DEF Memory
<1>7. /\ n \in Memory /\ n.man = m.man /\ n.token = m.token
      /\ n.cursor = m.cursor + 1
      /\ State(m).text = m.cursor /\ State(n).text = m.cursor + 1
      /\ State(n).photo = State(m).photo
      /\ State(n).first = State(m).first
      /\ State(m).first => ~State(n).takeover
      /\ ~State(m).takeover /\ State(m).started =>
           State(n).started /\ ~State(n).takeover
  BY <1>2, <1>4, <1>6, ConfirmedReads DEF Split, TextConfirmed
<1> HIDE DEF n
<1>8. m.cursor \in Nat /\ m.man.texts \in Nat BY <1>2 DEF Memory, Manifest
<1>9. g = 1..(m.cursor + 1)
  BY <1>3, <1>5, <1>7, <1>8 DEF Heard
<1>10. Delivered(n, g, pics[cur[w]], answer[cur[w]])
  <2>1. Formed(n) BY <1>3, <1>4, <1>7, <1>8 DEF Formed, TextLeft
  <2>2. Heard(n, g) BY <1>7, <1>9 DEF Heard
  <2>3. Shown(n, pics[cur[w]]) BY <1>3, <1>7 DEF Shown
  <2>4. QED BY <1>3, <1>7, <2>1, <2>2, <2>3 DEF Delivered
<1>11. At(TextStep(n), n)
  <2>1. Split(n) /\ n.man.made BY <1>4, <1>7 DEF Split
  <2>2. State(n).first \/ (State(n).started /\ ~PhotoLeft(n))
    BY <1>4, <1>7 DEF Split, PhotoLeft
  <2>3. QED BY <2>1, <2>2, TextStepAt
<1>12. TextStep(n) \notin {"sentText", "sentPhoto"} BY DEF TextStep
<1>13. QED BY <1>1, <1>7, <1>10, <1>11, <1>12, CarriedKept DEF n

LEMMA ShowsKept ==
  ASSUME NEW w \in Workers, InStep(w), At(pc[w], mem[w]), Knows(w), JobTold(cur[w]), Silent,
         Shows(w)
  PROVE  Kept(w)
<1> DEFINE m == mem[w]
           p == pics[cur[w]]
           n == NextPhoto(m, FALSE)
<1>1. CarriedTo(w, PhotoStep(n, "photo"), n) BY DEF Shows
<1>2. m \in Memory /\ cur[w] \in Jobs BY InStepFacts
<1>3. /\ Formed(m) /\ Heard(m, got[cur[w]]) /\ Shown(m, p)
      /\ answer[cur[w]] = m.man.texts
  BY CopyDelivered DEF Delivered
<1>4. /\ m.man.made /\ Split(m) /\ PhotoLeft(m)
      /\ State(m).first => ~TextLeft(m)
  BY DEF Shows, At, Split, PhotoSteps, EarlySteps, FreeSteps
<1>5. m.man.photo + 1 \in p
  BY <1>2, JobsAssumption DEF Knows, Shows, InStep, NoJob
<1>6. m.man.photos # 0 /\ ~m.man.shared BY <1>2, <1>4, PicturesLeft DEF Split
<1>7. /\ n \in Memory /\ SameAnswer(m, n)
      /\ ~n.man.shared /\ n.man.degraded = (m.man.degraded \/ FALSE)
      /\ State(n).photo = State(m).photo + 1 /\ State(n).text = State(m).text
      /\ State(n).takeover = State(m).takeover /\ State(n).first = State(m).first
  BY <1>2, <1>6, NextPhotoReads
<1> HIDE DEF n
<1>8. m.man \in Manifest /\ m.cursor \in Nat BY <1>2 DEF Memory
<1>9. State(m).photo = m.man.photo /\ m.man.photo \in Nat /\ m.man.photos \in Nat
  BY <1>6, <1>8, StateFields DEF Manifest
<1>10. n.man.degraded = m.man.degraded BY <1>7, <1>8 DEF Manifest
<1>11. Delivered(n, got[cur[w]], p, answer[cur[w]])
  <2>1. Formed(n)
    BY <1>3, <1>4, <1>7, <1>9 DEF Formed, PhotoLeft, SameAnswer
  <2>2. Heard(n, got[cur[w]]) BY <1>3, <1>7 DEF Heard, TextLeft, SameAnswer
  <2>3. 1..(m.man.photo + 1) \subseteq p \/ n.man.degraded
    BY <1>3, <1>5, <1>9, <1>10 DEF Shown
  <2>4. 1..(m.man.photo + 1) \subseteq 1..(State(n).photo + 1) BY <1>7, <1>9
  <2>5. Shown(n, p) BY <1>3, <1>7, <1>9, <2>3, <2>4 DEF Shown, SameAnswer
  <2>6. QED BY <1>3, <1>7, <2>1, <2>2, <2>5 DEF Delivered, SameAnswer
<1>12. At(PhotoStep(n, "photo"), n)
  <2>1. Split(n) /\ n.man.made /\ (State(n).first => ~TextLeft(n))
    BY <1>4, <1>7 DEF Split, TextLeft, SameAnswer
  <2>2. QED BY <2>1, PhotoStepAt DEF PhotoSteps
<1>13. PhotoStep(n, "photo") \notin {"sentText", "sentPhoto"}
  BY DEF PhotoStep, AfterPhotos, TextStep
<1>14. QED BY <1>1, <1>7, <1>11, <1>12, <1>13, CarriedKept DEF SameAnswer

LEMMA DropsKept ==
  ASSUME NEW w \in Workers, InStep(w), At(pc[w], mem[w]), JobTold(cur[w]), Silent, Drops(w)
  PROVE  Kept(w)
<1> DEFINE m == mem[w]
           r == row[cur[w]]
           q == row'[cur[w]]
           g == got[cur[w]]
           p == pics[cur[w]]
           a == answer[cur[w]]
<1>1. m \in Memory /\ cur[w] \in Jobs /\ r \in Receipt /\ m.man = r.man
  BY InStepFacts
<1>2. Delivered(r, g, p, a) /\ Delivered(m, g, p, a) /\ r.error = "none"
      /\ r.status = "RUNNING" /\ State(m) = State(r)
  BY <1>1, CopyDelivered DEF JobTold, Told, TerminalStatuses
<1>3. Knows(w)' BY DEF Drops, Knows
<1>4. ASSUME NEW e, q = Ended(r, "CANCELLED", e) \/ q = Ended(r, "FAILED", e)
      PROVE  Told(q, g, p, a)
  <2>1. q.status \in {"CANCELLED", "FAILED"} BY <1>1, <1>4 DEF Ended, Receipt
  <2>2. QED BY <2>1 DEF Told, TerminalStatuses
<1>5. ASSUME NEW e, q = Ended(r, "SUCCEEDED", e), m.man.made, ~TextLeft(m)
      PROVE  Told(q, g, p, a)
  <2>1. q.status = "SUCCEEDED" /\ q.man.made
    BY <1>1, <1>5 DEF Ended, Receipt, NoManifest
  <2>2. m.man.texts \in Nat /\ State(m).text \in Nat
    BY <1>1, StateFields DEF Memory, Manifest, Progress
  <2>3. State(m).text = a BY <1>2, <1>5, <2>2 DEF Delivered, Formed, TextLeft
  <2>4. g = 1..a BY <1>2, <1>5, <2>3 DEF Delivered, Heard
  <2>5. QED BY <2>1, <2>4 DEF Told, TerminalStatuses
<1>6. ASSUME q = Requeued(r, FALSE) \/ q = [Requeued(r, FALSE) EXCEPT !.attempts = 0]
      PROVE  Told(q, g, p, a)
  <2>1. /\ q.status = "QUEUED" /\ q.man = r.man /\ q.cursor = r.cursor
        /\ q.error = r.error
    BY <1>1, <1>6 DEF Requeued, Receipt
  <2>2. r.man \in Manifest /\ r.cursor \in Nat BY <1>1, RowFields
  <2>3. Delivered(q, g, p, a) BY <1>2, <2>1, <2>2, SamePayload
  <2>4. QED BY <1>2, <2>1, <2>3 DEF Told
<1>7. Leaves(pc[w], m, r, q) BY DEF Drops
<1>8. pc[w] \in {"begin", "finish"} => m.man.made
  BY InStepFacts DEF EarlySteps, FreeSteps
<1>9. m.man.texts + m.man.photos = 0 => ~TextLeft(m)
  <2>1. m.man.texts \in Nat /\ m.man.photos \in Nat /\ State(m).text \in Nat
    BY <1>1, StateFields DEF Memory, Manifest, Progress
  <2>2. QED BY <2>1 DEF TextLeft
<1>10. pc[w] = "finish" => ~TextLeft(m) BY DEF At
<1> HIDE DEF m, r, q, g, p, a
<1>11. Told(q, g, p, a)
  BY <1>4, <1>5, <1>6, <1>7, <1>8, <1>9, <1>10 DEF Leaves
<1>12. QED BY <1>3, <1>11 DEF Kept, Silent, q, g, p, a

(* Nothing has reached the chat before there is an answer. *)
LEMMA NothingHeard ==
  ASSUME NEW r \in Receipt, ~r.man.made, NEW g, NEW p, NEW a, Delivered(r, g, p, a)
  PROVE  r.man = NoManifest /\ r.cursor = 0 /\ g = {} /\ p = {}
<1>1. r.man = NoManifest /\ r.cursor = 0 BY DEF Delivered, Formed
<1>2. State(r).text = 0 /\ State(r).photo = 0 /\ r.man.texts = 0 /\ r.man.photos = 0
  BY <1>1, NoManifestType, StateFields DEF NoManifest
<1>3. g = 1..0 BY <1>2 DEF Delivered, Heard, TextLeft
<1>4. p \subseteq 1..0 BY <1>2 DEF Delivered, Shown
<1>5. QED BY <1>1, <1>3, <1>4

LEMMA NewDelivered ==
  ASSUME NEW n \in [texts: Nat, photos: Nat], NEW q, q.man = NewManifest(n), q.cursor = 0
  PROVE  /\ Delivered(q, {}, {}, q.man.texts)
         /\ q.man.first /\ q.man.made /\ ~q.man.shared
         /\ State(q).text = 0 /\ State(q).photo = 0 /\ State(q).first
         /\ q.man.photos # 0 => q.man.texts > 0
<1>1. q.man \in Manifest BY NewManifestType
<1>2. /\ q.man.made /\ q.man.first /\ ~q.man.shared /\ q.man.photo = 0
      /\ q.man.texts \in Nat /\ q.man.photos \in Nat
      /\ q.man.photos # 0 => q.man.texts > 0
  BY DEF NewManifest, NoManifest
<1>3. State(q).text = 0 /\ State(q).photo = 0 /\ State(q).first
  <2>1. CASE q.man.photos = 0 BY <1>1, <2>1, StateFields
  <2>2. CASE q.man.photos # 0
    <3>1. State(q).first = (~q.man.shared /\ q.man.first) BY <1>1, <2>2, StateFields
    <3>2. State(q).text = 0 /\ State(q).photo = 0 BY <1>1, <1>2, <2>2, StateFields
    <3>3. QED BY <1>2, <3>1, <3>2
  <2>3. QED BY <2>1, <2>2
<1>4. Formed(q) BY <1>2, <1>3 DEF Formed
<1>5. Heard(q, {}) BY <1>3 DEF Heard
<1>6. Shown(q, {}) BY <1>3 DEF Shown
<1>7. QED BY <1>2, <1>3, <1>4, <1>5, <1>6 DEF Delivered

LEMMA PreparesKept ==
  ASSUME NEW w \in Workers, TypeOK, cur[w] \in Jobs, Alive(w), JobTold(cur[w]), Prepares(w)
  PROVE  Kept(w)
<1> DEFINE r == row[cur[w]]
           q == row'[cur[w]]
<1>1. r \in Receipt /\ r.status = "RUNNING" /\ ~r.man.made
  BY DEF TypeOK, DatabaseTypeOK, Alive, Owned, Prepares
<1>2. r.error = "none" /\ Delivered(r, got[cur[w]], pics[cur[w]], answer[cur[w]])
  BY <1>1 DEF JobTold, Told, TerminalStatuses
<1>3. got[cur[w]] = {} /\ pics[cur[w]] = {} BY <1>1, <1>2, NothingHeard
<1>4. PICK a \in [texts: Nat, photos: Nat] : q = Stored(r, a) BY DEF Prepares
<1>5. /\ q.man = NewManifest(a) /\ q.cursor = 0 /\ q.status = "RUNNING"
      /\ q.error = "none"
  BY <1>1, <1>2, <1>4 DEF Stored, Receipt
<1>6. Delivered(q, {}, {}, q.man.texts) /\ q.man.made BY <1>5, NewDelivered
<1>7. /\ got'[cur[w]] = {} /\ pics'[cur[w]] = {} /\ answer'[cur[w]] = q.man.texts
      /\ cur'[w] = cur[w]
      /\ pc'[w] = "refresh" \/ (pc'[w] = "begin" /\ mem'[w] = Copy(q))
  BY <1>3 DEF Prepares
<1>8. Told(q, {}, {}, q.man.texts) BY <1>5, <1>6 DEF Told
<1>9. At("begin", Copy(q))
  BY <1>6 DEF At, Copy, EarlySteps, FreeSteps, TextSteps, PhotoSteps
<1>10. Knows(w)' BY <1>7, <1>9 DEF Knows
<1>11. QED BY <1>7, <1>8, <1>10 DEF Kept

LEMMA RepliedKept ==
  ASSUME NEW w \in Workers, TypeOK, cur[w] \in Jobs, JobTold(cur[w]), Silent, Replied(w)
  PROVE  Kept(w)
<1> DEFINE r == row[cur[w]]
           q == row'[cur[w]]
<1>1. /\ r \in Receipt /\ q.man = r.man /\ q.cursor = r.cursor
      /\ q.status = r.status /\ q.error = r.error
      /\ cur'[w] = cur[w] /\ pc'[w] = "refresh"
  BY DEF TypeOK, DatabaseTypeOK, Replied
<1>2. r.man \in Manifest /\ r.cursor \in Nat BY <1>1, RowFields
<1>3. Told(q, got[cur[w]], pics[cur[w]], answer[cur[w]])
  BY <1>1, <1>2, SamePayload DEF JobTold, Told
<1>4. Knows(w)' BY <1>1 DEF Knows
<1>5. QED BY <1>3, <1>4 DEF Kept, Silent

LEMMA RereadsKept ==
  ASSUME NEW w \in Workers, TypeOK, cur[w] \in Jobs, JobTold(cur[w]), Silent, Rereads(w)
  PROVE  Kept(w)
<1> DEFINE r == row[cur[w]]
<1>1. /\ cur'[w] = cur[w] /\ row'[cur[w]] = r /\ mem'[w] = Copy(r)
      /\ pc'[w] = IF r.man.made THEN "begin" ELSE "store"
  BY DEF Rereads
<1>2. Told(r, got[cur[w]], pics[cur[w]], answer[cur[w]]) BY DEF JobTold
<1>3. At(pc'[w], Copy(r))
  BY <1>1 DEF At, Copy, EarlySteps, FreeSteps, TextSteps, PhotoSteps
<1>4. Knows(w)' BY <1>1, <1>3 DEF Knows
<1>5. QED BY <1>1, <1>2, <1>4 DEF Kept, Silent

(* A send moves nothing but the chat. *)
LEMMA Sends ==
  ASSUME TypeOK, NEW w \in Workers, cur[w] \in Jobs, SendText(w) \/ SendPhoto(w)
  PROVE  /\ UNCHANGED <<row, cur, mem, answer, leases>>
         /\ \/ /\ pc[w] = "sendText" /\ pc'[w] = "sentText" /\ UNCHANGED pics
               /\ \/ got'[cur[w]] = got[cur[w]] /\ out'[w].reply # "ok"
                  \/ got'[cur[w]] = got[cur[w]] \union {mem[w].cursor + 1}
            \/ /\ pc[w] = "sendPhoto" /\ pc'[w] = "sentPhoto" /\ UNCHANGED got
               /\ \/ pics'[cur[w]] = pics[cur[w]] /\ out'[w].reply # "ok"
                  \/ pics'[cur[w]] = pics[cur[w]] \union {mem[w].man.photo + 1}
<1>1. ASSUME NEW x \in Replies, NEW step, Send(w, x, step)
      PROVE  /\ UNCHANGED <<row, cur, mem, answer, leases>>
             /\ pc'[w] = step /\ (~x.seen => out'[w].reply # "ok")
  <2>1. out' = [out EXCEPT ![w].reply = x.reply] /\ pc' = [pc EXCEPT ![w] = step]
        /\ UNCHANGED <<row, cur, mem, answer, leases>>
    BY <1>1 DEF Send
  <2>2. out'[w].reply = x.reply /\ pc'[w] = step
    BY <2>1 DEF TypeOK, WorkerTypeOK, Outcome
  <2>3. ~x.seen => x.reply # "ok" BY <1>1 DEF Replies
  <2>4. QED BY <2>1, <2>2, <2>3
<1>2. CASE SendText(w)
  <2>1. PICK x \in Replies :
          /\ Send(w, x, "sentText")
          /\ got' = IF x.seen THEN [got EXCEPT ![cur[w]] = @ \union {mem[w].cursor + 1}]
                    ELSE got
    BY <1>2 DEF SendText
  <2>2. pc[w] = "sendText" /\ UNCHANGED pics BY <1>2 DEF SendText
  <2>3. QED BY <1>1, <2>1, <2>2 DEF TypeOK, SeenTypeOK
<1>3. CASE SendPhoto(w)
  <2>1. PICK x \in Replies :
          /\ Send(w, x, "sentPhoto")
          /\ pics' = IF x.seen THEN [pics EXCEPT ![cur[w]] = @ \union {mem[w].man.photo + 1}]
                     ELSE pics
    BY <1>3 DEF SendPhoto
  <2>2. pc[w] = "sendPhoto" /\ UNCHANGED got BY <1>3 DEF SendPhoto
  <2>3. QED BY <1>1, <2>1, <2>2 DEF TypeOK, SeenTypeOK
<1>4. QED BY <1>2, <1>3

LEMMA SendTextKept ==
  ASSUME NEW w \in Workers, InStep(w), At(pc[w], mem[w]), JobTold(cur[w]), SendText(w)
  PROVE  Kept(w)
<1> DEFINE m == mem[w]
           r == row[cur[w]]
           g == got[cur[w]]
<1>1. m \in Memory /\ cur[w] \in Jobs /\ r \in Receipt /\ cur[w] # NoJob
      /\ m = Copy(r) /\ TypeOK
  BY InStepFacts, JobsAssumption DEF NoJob, InStep
<1>2. pc[w] = "sendText" BY DEF SendText
<1>3. /\ UNCHANGED <<row, cur, mem, answer, pics>> /\ pc'[w] = "sentText"
      /\ \/ got'[cur[w]] = g /\ out'[w].reply # "ok"
         \/ got'[cur[w]] = g \union {m.cursor + 1}
  BY <1>1, <1>2, Sends
<1>4. /\ Delivered(m, g, pics[cur[w]], answer[cur[w]])
      /\ State(m) = State(r) /\ r.status = "RUNNING" /\ r.error = "none"
  BY CopyDelivered
<1>5. At("sentText", m)
  BY <1>2 DEF At, TextSteps, PhotoSteps, EarlySteps, FreeSteps
<1>6. TextLeft(m) /\ (m.man.photos = 0 \/ ~m.man.shared)
  BY <1>2 DEF At, TextSteps, EarlySteps, FreeSteps
<1>7. State(m).text = m.cursor /\ m.cursor \in Nat /\ m.man \in Manifest
  BY <1>1, <1>6, StateFields DEF Memory
<1>8. g = 1..m.cursor \/ g = 1..(m.cursor + 1)
  BY <1>4, <1>7 DEF Delivered, Heard
<1>9. 1..m.cursor \union {m.cursor + 1} = 1..(m.cursor + 1)
      /\ 1..(m.cursor + 1) \union {m.cursor + 1} = 1..(m.cursor + 1)
      /\ m.cursor + 1 \in 1..(m.cursor + 1)
  BY <1>7
<1>10. got'[cur[w]] \in {1..m.cursor, 1..(m.cursor + 1)}
       /\ (out'[w].reply = "ok" => m.cursor + 1 \in got'[cur[w]])
  BY <1>3, <1>8, <1>9
<1>11. Delivered(m, got'[cur[w]], pics[cur[w]], answer[cur[w]])
  BY <1>4, <1>6, <1>7, <1>10 DEF Delivered, Heard
<1>12. m.man = r.man /\ m.cursor = r.cursor BY <1>1 DEF Copy
<1>13. Delivered(r, got'[cur[w]], pics[cur[w]], answer[cur[w]])
  BY <1>7, <1>11, <1>12, SamePayload
<1>14. Told(r, got'[cur[w]], pics[cur[w]], answer[cur[w]])
  BY <1>4, <1>13 DEF Told
<1>15. Knows(w)' BY <1>1, <1>3, <1>5, <1>10 DEF Knows, Copy
<1>16. QED BY <1>3, <1>14, <1>15 DEF Kept

LEMMA SendPhotoKept ==
  ASSUME NEW w \in Workers, InStep(w), At(pc[w], mem[w]), JobTold(cur[w]), SendPhoto(w)
  PROVE  Kept(w)
<1> DEFINE m == mem[w]
           r == row[cur[w]]
           p == pics[cur[w]]
<1>1. m \in Memory /\ cur[w] \in Jobs /\ r \in Receipt /\ cur[w] # NoJob
      /\ m = Copy(r) /\ TypeOK
  BY InStepFacts, JobsAssumption DEF NoJob, InStep
<1>2. pc[w] = "sendPhoto" BY DEF SendPhoto
<1>3. /\ UNCHANGED <<row, cur, mem, answer, got>> /\ pc'[w] = "sentPhoto"
      /\ \/ pics'[cur[w]] = p /\ out'[w].reply # "ok"
         \/ pics'[cur[w]] = p \union {m.man.photo + 1}
  BY <1>1, <1>2, Sends
<1>4. /\ Delivered(m, got[cur[w]], p, answer[cur[w]])
      /\ State(m) = State(r) /\ r.status = "RUNNING" /\ r.error = "none"
  BY CopyDelivered
<1>5. At("sentPhoto", m)
  BY <1>2 DEF At, TextSteps, PhotoSteps, EarlySteps, FreeSteps
<1>6. PhotoLeft(m) /\ (m.man.photos = 0 \/ ~m.man.shared)
  BY <1>2 DEF At, PhotoSteps, EarlySteps, FreeSteps
<1>7. m.man \in Manifest /\ m.cursor \in Nat BY <1>1 DEF Memory
<1>8. m.man.photos # 0 /\ ~m.man.shared BY <1>1, <1>6, PicturesLeft
<1>9. State(m).photo = m.man.photo /\ m.man.photo \in Nat /\ m.man.photos \in Nat
      /\ m.man.photo < m.man.photos
  BY <1>6, <1>7, <1>8, StateFields DEF Manifest, PhotoLeft
<1>10. pics'[cur[w]] \in {p, p \union {m.man.photo + 1}}
       /\ (out'[w].reply = "ok" => m.man.photo + 1 \in pics'[cur[w]])
  BY <1>3
<1>11. m.man.photo + 1 \in 1..(m.man.photo + 1) /\ m.man.photo + 1 \in 1..m.man.photos
  BY <1>9
<1>12. Shown(m, pics'[cur[w]])
  BY <1>4, <1>9, <1>10, <1>11 DEF Delivered, Shown
<1>13. Delivered(m, got[cur[w]], pics'[cur[w]], answer[cur[w]])
  BY <1>4, <1>12 DEF Delivered
<1>14. m.man = r.man /\ m.cursor = r.cursor BY <1>1 DEF Copy
<1>15. Delivered(r, got[cur[w]], pics'[cur[w]], answer[cur[w]])
  BY <1>7, <1>13, <1>14, SamePayload
<1>16. Told(r, got[cur[w]], pics'[cur[w]], answer[cur[w]])
  BY <1>4, <1>15 DEF Told
<1>17. Knows(w)' BY <1>1, <1>3, <1>5, <1>10 DEF Knows, Copy
<1>18. QED BY <1>3, <1>16, <1>17 DEF Kept

LEMMA AliveTurnKept ==
  ASSUME BaseInvariant, NEW w \in Workers, Alive(w), Knows(w), JobTold(cur[w]), Turn(w)
  PROVE  Kept(w)
<1>1. Tends(w) /\ TypeOK /\ CopyMade BY TurnTends DEF BaseInvariant, CoreInvariant
<1>2. cur[w] \in Jobs /\ cur[w] # NoJob BY <1>1, JobsAssumption DEF Tends, NoJob
<1>3. pc[w] \notin FreeSteps BY <1>1, <1>2 DEF TypeOK, WorkerTypeOK
<1>4. pc[w] # "refresh" => InStep(w) /\ At(pc[w], mem[w])
  BY <1>1, <1>2, <1>3 DEF Knows, InStep
<1>5. CASE SendText(w) \/ SendPhoto(w)
  <2>1. pc[w] # "refresh" BY <1>5 DEF SendText, SendPhoto
  <2>2. QED BY <1>4, <1>5, <2>1, SendTextKept, SendPhotoKept
<1>6. CASE Prepares(w) BY <1>1, <1>2, <1>6, PreparesKept
<1>7. CASE Silent /\ (Replied(w) \/ Rereads(w))
  BY <1>1, <1>2, <1>7, RepliedKept, RereadsKept
<1>8. CASE pc[w] # "refresh" /\ Silent
           /\ (Carries(w) \/ Confirms(w) \/ Shows(w) \/ Drops(w))
  BY <1>4, <1>8, CarriesKept, ConfirmsKept, ShowsKept, DropsKept
<1>9. CASE pc[w] = "refresh"
  <2>1. Refresh(w)
    BY <1>9 DEF Turn, Check, Execute, ExecuteQuestion, ExecuteNew, ExecuteAdvisor, Executing,
                ExecuteRetry, ExecutePermanent, StoreDelivery, Deliver, Begin, AuthoriseText,
                AuthorisePhoto, Authorise, SendText, SendPhoto, SettleText, Gate, PhotoOff,
                Render, SettlePhoto, StartText, FinishDelivered
  <2>2. Silent /\ Rereads(w) BY <1>1, <2>1, RefreshKinds
  <2>3. QED BY <1>7, <2>2
<1>10. QED BY <1>5, <1>6, <1>7, <1>8, <1>9, TurnKinds

(* A worker that lost its job to a sweep changes nothing any more. *)
LEMMA EndedStays ==
  ASSUME CoreInvariant, [Next]_vars, NEW j \in Jobs, Terminal(j)
  PROVE  row'[j].status = row[j].status
<1>1. RowsMove BY StepMoves DEF CoreInvariant
<1>2. CASE Settle BY <1>2 DEF Settle, Settled, Terminal, TerminalStatuses, ActiveStatuses
<1>3. ASSUME NEW i \in Jobs, Admit(i) PROVE row'[j] = row[j]
  BY <1>3 DEF Admit, Terminal, TerminalStatuses
<1>4. ASSUME NEW i \in Jobs, Grant(i) PROVE row'[j] = row[j]
  BY <1>4 DEF Grant, Eligible, Terminal, TerminalStatuses
<1>5. QED BY <1>1, <1>2, <1>3, <1>4 DEF RowsMove

LEMMA SweptTurnKept ==
  ASSUME BaseInvariant, [Next]_vars, NEW w \in Workers, Swept(w), Turn(w)
  PROVE  Kept(w)
<1>1. Tends(w) BY TurnTends
<1>2. cur[w] \in Jobs BY <1>1 DEF Tends
<1>3. Terminal(cur[w]) /\ row[cur[w]].status = "CANCELLED"
  BY DEF Swept, Terminal, TerminalStatuses
<1>4. row'[cur[w]].status = "CANCELLED"
  BY <1>2, <1>3, EndedStays DEF BaseInvariant
<1>5. Told(row'[cur[w]], got'[cur[w]], pics'[cur[w]], answer'[cur[w]])
  BY <1>4 DEF Told, TerminalStatuses
<1>6. Knows(w)'
  <2>1. CASE Stops(w) BY <2>1 DEF Stops, Knows
  <2>2. CASE Continues(w)
    <3>1. ~Alive(w)' BY <1>4, <2>2 DEF Continues, Alive, Owned
    <3>2. pc'[w] # "sendText" BY <2>2 DEF Continues, Swept, SendSteps
    <3>3. QED BY <3>1, <3>2 DEF Knows
  <2>3. QED BY <1>1, <2>1, <2>2 DEF Tends
<1>7. QED BY <1>5, <1>6 DEF Kept

(* A turn is observed in its own job and answered to its own worker. *)
Observed(w) == /\ \A k \in Jobs \ {cur[w]} : /\ got'[k] = got[k]
                                             /\ pics'[k] = pics[k]
                                             /\ answer'[k] = answer[k]
                                             /\ leases'[k] = leases[k]
               /\ \A v \in Workers \ {w} : out'[v] = out[v]

LEMMA WritesAnswerOne ==
  ASSUME TypeOK, NEW w \in Workers, NEW v \in Workers \ {w}
  PROVE  /\ \A s : Goto(w, s) => out'[v] = out[v]
         /\ \A b, r, m, s : ProceedIf(w, b, r, m, s) => out'[v] = out[v]
         /\ \A r, m, s : Proceed(w, r, m, s) => out'[v] = out[v]
         /\ \A r : LetGo(w, r) => out'[v] = out[v]
         /\ \A s, e : Finish(w, s, e) => out'[v] = out[v]
         /\ RequeueDelivery(w) => out'[v] = out[v]
         /\ \A a : Executed(w, a) => out'[v] = out[v]
<1>1. Rest(w) => out'[v] = out[v] BY DEF Rest, TypeOK, WorkerTypeOK
<1>2. \A b, r, m, s : ProceedIf(w, b, r, m, s) => out'[v] = out[v]
  BY <1>1 DEF ProceedIf, TypeOK, WorkerTypeOK
<1>3. \A r : LetGo(w, r) => out'[v] = out[v] BY <1>1 DEF LetGo
<1>4. \A s, e : Finish(w, s, e) => out'[v] = out[v] BY <1>3 DEF Finish
<1>5. RequeueDelivery(w) => out'[v] = out[v] BY <1>3, <1>4 DEF RequeueDelivery
<1>6. \A r, m, s : Proceed(w, r, m, s) => out'[v] = out[v] BY <1>2 DEF Proceed
<1>7. \A s : Goto(w, s) => out'[v] = out[v] BY DEF Goto
<1>8. \A a : Executed(w, a) => out'[v] = out[v] BY DEF Executed, TypeOK, WorkerTypeOK
<1>9. QED BY <1>2, <1>3, <1>4, <1>5, <1>6, <1>7, <1>8

LEMMA DeliverAnswersOne ==
  ASSUME TypeOK, NEW w \in Workers, NEW v \in Workers \ {w}, Deliver(w)
  PROVE  out'[v] = out[v]
<1>1. PhotoDone(w, NextPhoto(mem[w], FALSE), PhotoStep(NextPhoto(mem[w], FALSE), "photo"))
        => out'[v] = out[v]
  BY WritesAnswerOne DEF PhotoDone
<1>2. \A p : SkipPhoto(w, p) => out'[v] = out[v] BY WritesAnswerOne DEF SkipPhoto, PhotoDone
<1>3. \A b : PhotoFailed(w, b) => out'[v] = out[v]
  BY <1>2, WritesAnswerOne DEF PhotoFailed, RequeuePhoto
<1>4. BeginTextAfterSkippingPhotos(w) => out'[v] = out[v]
  BY WritesAnswerOne DEF BeginTextAfterSkippingPhotos
<1>5. CASE Begin(w) BY <1>4, <1>5, WritesAnswerOne DEF Begin
<1>6. CASE AuthoriseText(w) \/ AuthorisePhoto(w)
  BY <1>6, WritesAnswerOne DEF AuthoriseText, AuthorisePhoto, Authorise
<1>7. CASE SendText(w) \/ SendPhoto(w)
  BY <1>7 DEF SendText, SendPhoto, Send, TypeOK, WorkerTypeOK
<1>8. CASE SettleText(w)
  BY <1>8, WritesAnswerOne DEF SettleText, ConfirmText
<1>9. CASE Gate(w)
  BY <1>4, <1>9, WritesAnswerOne DEF Gate, PhotoAttempt, AllPhotosSkipped, PhotoDone
<1>10. CASE PhotoOff(w) \/ Render(w) \/ SettlePhoto(w)
  BY <1>1, <1>2, <1>3, <1>10, WritesAnswerOne DEF PhotoOff, Render, SettlePhoto
<1>11. CASE StartText(w) \/ FinishDelivered(w)
  BY <1>11, WritesAnswerOne DEF StartText, FinishDelivered
<1>12. QED BY <1>5, <1>6, <1>7, <1>8, <1>9, <1>10, <1>11 DEF Deliver

LEMMA TurnObserved ==
  ASSUME TypeOK, NEW w \in Workers, cur[w] \in Jobs, Turn(w)
  PROVE  Observed(w)
<1>1. ASSUME NEW k \in Jobs \ {cur[w]}
      PROVE  /\ got'[k] = got[k] /\ pics'[k] = pics[k]
             /\ answer'[k] = answer[k] /\ leases'[k] = leases[k]
  <2>1. ASSUME NEW r, Materialised(cur[w], r)
        PROVE  answer'[k] = answer[k] /\ leases'[k] = leases[k]
    BY <2>1 DEF Materialised, TypeOK, SeenTypeOK
  <2>2. CASE Check(w) \/ Refresh(w) BY <2>2 DEF Check, Refresh, Quiet
  <2>3. CASE Execute(w)
    BY <2>1, <2>3 DEF Execute, ExecuteQuestion, ExecuteNew, ExecuteAdvisor, ExecuteRetry,
                      ExecutePermanent, Quiet
  <2>4. CASE StoreDelivery(w) BY <2>1, <2>4 DEF StoreDelivery
  <2>5. CASE SendText(w) \/ SendPhoto(w)
    BY <2>5 DEF SendText, SendPhoto, Send, TypeOK, SeenTypeOK
  <2>6. CASE Deliver(w) /\ ~SendText(w) /\ ~SendPhoto(w)
    BY <2>6 DEF Deliver, Begin, AuthoriseText, AuthorisePhoto, Authorise, SettleText, Gate,
                PhotoOff, Render, SettlePhoto, StartText, FinishDelivered, Quiet
  <2>7. QED BY <2>2, <2>3, <2>4, <2>5, <2>6 DEF Turn
<1>2. ASSUME NEW v \in Workers \ {w} PROVE out'[v] = out[v]
  <2>1. CASE Check(w) BY <2>1, WritesAnswerOne DEF Check
  <2>2. CASE Refresh(w) BY <2>2 DEF Refresh
  <2>3. CASE Execute(w)
    BY <2>3, WritesAnswerOne DEF Execute, ExecuteQuestion, ExecuteNew, ExecuteAdvisor,
                                 ExecuteRetry, ExecutePermanent
  <2>4. CASE StoreDelivery(w) BY <2>4, WritesAnswerOne DEF StoreDelivery
  <2>5. QED BY <2>1, <2>2, <2>3, <2>4, DeliverAnswersOne DEF Turn
<1>3. QED BY <1>1, <1>2 DEF Observed

LEMMA TurnKeepsTold ==
  ASSUME LeaseInvariant, AllTold, [Next]_vars, NEW w \in Workers, Turn(w)
  PROVE  AllTold'
<1>1. TypeOK /\ BaseInvariant BY DEF LeaseInvariant, BaseInvariant, CoreInvariant
<1>2. Tends(w) BY <1>1, TurnTends
<1>3. cur[w] \in Jobs /\ cur[w] # NoJob BY <1>2, JobsAssumption DEF Tends, NoJob
<1>4. Kept(w)
  BY <1>1, <1>3, AliveTurnKept, SweptTurnKept DEF LeaseInvariant, LeaseKept, AllTold
<1>5. Observed(w) BY <1>1, <1>3, TurnObserved
<1>6. ASSUME NEW j \in Jobs PROVE JobTold(j)'
  <2>1. CASE j = cur[w] BY <1>4, <2>1 DEF Kept, JobTold
  <2>2. CASE j # cur[w]
    BY <1>2, <1>5, <2>2 DEF Tends, Writes, Observed, JobTold, AllTold
  <2>3. QED BY <2>1, <2>2
<1>7. ASSUME NEW v \in Workers PROVE Knows(v)'
  <2>1. CASE v = w BY <1>4, <2>1 DEF Kept
  <2>2. CASE v # w /\ cur[v] # NoJob
    <3>1. cur'[v] = cur[v] /\ mem'[v] = mem[v] /\ pc'[v] = pc[v] /\ out'[v] = out[v]
      BY <1>2, <1>5, <2>2 DEF Tends, Writes, Observed
    <3>2. cur[v] \in Jobs BY <1>1, <2>2 DEF TypeOK, WorkerTypeOK
    <3>3. cur[v] # cur[w] BY <1>3, <2>2 DEF LeaseInvariant, LoneWorker
    <3>4. /\ row'[cur[v]] = row[cur[v]] /\ got'[cur[v]] = got[cur[v]]
          /\ pics'[cur[v]] = pics[cur[v]]
      BY <1>2, <1>5, <3>2, <3>3 DEF Tends, Writes, Observed
    <3>5. Knows(v) BY DEF AllTold
    <3>6. QED BY <3>1, <3>4, <3>5 DEF Knows, Alive, Owned
  <2>3. CASE v # w /\ cur[v] = NoJob
    BY <1>2, <2>3 DEF Tends, Writes, Knows
  <2>4. QED BY <2>1, <2>2, <2>3
<1>8. QED BY <1>6, <1>7 DEF AllTold

-----------------------------------------------------------------------------
(* The steps that are no turn, and the initial states.                     *)

LEMMA OutsideSilent ==
  ASSUME TypeOK, Outside
  PROVE  /\ UNCHANGED <<got, pics, answer, leases>>
         /\ \A v \in Workers : cur'[v] # NoJob => out'[v] = out[v]
BY DEF Outside, Enqueue, Release, ExpireLease, Revoke, SweepOnUnlink, Sweep, NothingToClaim,
       Restart, Crash, RecoverStale, ClaimConflict, Quiet, TypeOK, WorkerTypeOK

LEMMA OutsideRowTold ==
  ASSUME TypeOK, TypeOK', NEW j \in Jobs, JobTold(j), OutsideRow(row[j], row'[j], j)
  PROVE  Told(row'[j], got[j], pics[j], answer[j])
<1> DEFINE r == row[j]
           q == row'[j]
<1>1. r \in Receipt /\ q \in Receipt BY DEF TypeOK, DatabaseTypeOK
<1>2. Told(r, got[j], pics[j], answer[j]) BY DEF JobTold
<1>3. /\ r.man \in Manifest /\ r.cursor \in Nat
      /\ q.man \in Manifest /\ q.cursor \in Nat
  BY <1>1, RowFields
<1>4. CASE Terminal(j)
  <2>1. q = r
    BY <1>4 DEF OutsideRow, Terminal, TerminalStatuses, Orphaned, IsActive, ActiveStatuses,
                FailedIfExhausted, Exhausted
  <2>2. QED BY <1>2, <2>1
<1>5. CASE ~Terminal(j)
  <2>1. Delivered(r, got[j], pics[j], answer[j]) /\ r.error = "none"
    BY <1>2, <1>5 DEF Told, Terminal
  <2>2. \/ q = r
        \/ /\ r.status = "ABSENT" /\ q.status = "QUEUED" /\ q.man = NoManifest
           /\ q.cursor = 0 /\ q.error = "none"
        \/ IsActive(j) /\ RowMoves(r, q)
    BY <2>1, OutsideRowMoves DEF Delivered
  <2>3. CASE /\ r.status = "ABSENT" /\ q.status = "QUEUED" /\ q.man = NoManifest
             /\ q.cursor = 0 /\ q.error = "none"
    <3>1. r.man = NoManifest /\ r.cursor = 0
      BY <1>2, <2>1, <2>3 DEF Told, Delivered, Formed
    <3>2. Delivered(q, got[j], pics[j], answer[j])
      BY <1>3, <2>1, <2>3, <3>1, SamePayload
    <3>3. QED BY <2>3, <3>2 DEF Told
  <2>4. CASE IsActive(j) /\ RowMoves(r, q)
    <3>1. CASE q.status \in ActiveStatuses /\ q.error = r.error /\ Resumes(r, q)
      <4>1. Delivered(q, got[j], pics[j], answer[j])
        BY <1>3, <2>1, <3>1, ResumesDelivered
      <4>2. QED BY <2>1, <3>1, <4>1 DEF Told, ActiveStatuses
    <3>2. CASE q = Ended(r, "CANCELLED", "revoked") \/ q = Ended(r, "FAILED", "exhausted")
      <4>1. q.status \in {"CANCELLED", "FAILED"} BY <1>1, <3>2 DEF Ended, Receipt
      <4>2. QED BY <4>1 DEF Told, TerminalStatuses
    <3>3. QED BY <2>4, <3>1, <3>2 DEF RowMoves
  <2>5. QED BY <1>2, <2>2, <2>3, <2>4
<1>6. QED BY <1>4, <1>5

LEMMA OutsideKeepsTold ==
  ASSUME ~MayStall, DeliveryInvariant, TypeOK', Outside
  PROVE  AllTold'
<1>1. TypeOK /\ LeaseInvariant /\ AllTold
  BY DEF DeliveryInvariant, LeaseInvariant, BaseInvariant, CoreInvariant
<1>2. /\ UNCHANGED <<got, pics, answer, leases>>
      /\ \A v \in Workers : cur'[v] # NoJob => out'[v] = out[v]
  BY <1>1, OutsideSilent
<1>3. ASSUME NEW j \in Jobs PROVE JobTold(j)'
  <2>1. OutsideRow(row[j], row'[j], j) BY <1>1, OutsideRows
  <2>2. Told(row'[j], got[j], pics[j], answer[j])
    BY <1>1, <2>1, OutsideRowTold DEF AllTold
  <2>3. QED BY <1>2, <2>2 DEF JobTold
<1>4. ASSUME NEW v \in Workers, cur'[v] # NoJob PROVE Knows(v)'
  <2>1. /\ cur'[v] = cur[v] /\ mem'[v] = mem[v] /\ pc'[v] = pc[v] /\ cur[v] \in Jobs
        /\ Swept(v) => row'[cur[v]] = row[cur[v]]
        /\ Alive(v) => \/ row'[cur[v]] = row[cur[v]]
                       \/ row'[cur[v]] = Ended(row[cur[v]], "CANCELLED", "revoked")
    BY <1>1, <1>4, OutsideKeepsLeases
  <2>2. out'[v] = out[v] /\ got' = got /\ pics' = pics BY <1>2, <1>4
  <2>3. Knows(v) BY <1>1 DEF AllTold
  <2>4. CASE row'[cur[v]] = row[cur[v]]
    BY <1>4, <2>1, <2>2, <2>3, <2>4 DEF Knows, Alive, Owned
  <2>5. CASE row'[cur[v]] = Ended(row[cur[v]], "CANCELLED", "revoked")
    <3>1. row[cur[v]] \in Receipt BY <1>1, <2>1 DEF TypeOK, DatabaseTypeOK
    <3>2. row'[cur[v]].status = "CANCELLED" /\ row'[cur[v]].cursor = row[cur[v]].cursor
      BY <2>5, <3>1 DEF Ended, Receipt
    <3>3. ~Alive(v)' BY <2>1, <3>2 DEF Alive, Owned
    <3>4. QED BY <1>4, <2>1, <2>3, <3>2, <3>3 DEF Knows
  <2>6. Alive(v) \/ Swept(v) BY <1>1, <1>4, <2>1 DEF LeaseInvariant, LeaseKept
  <2>7. QED BY <2>1, <2>4, <2>5, <2>6
<1>5. \A v \in Workers : Knows(v)' BY <1>4 DEF Knows
<1>6. QED BY <1>3, <1>5 DEF AllTold

LEMMA ClaimKeepsTold ==
  ASSUME DeliveryInvariant, TypeOK', NEW w \in Workers, NEW j \in Jobs, Claim(w, j)
  PROVE  AllTold'
<1> DEFINE r == row[j]
           q == Claimed(r)
<1>1. TypeOK /\ LeaseInvariant /\ AllTold
  BY DEF DeliveryInvariant, LeaseInvariant, BaseInvariant, CoreInvariant
<1>2. /\ row' = [row EXCEPT ![j] = Claimed(row[j])]
      /\ cur' = [cur EXCEPT ![w] = j]
      /\ mem' = [mem EXCEPT ![w] = Copy(Claimed(row[j]))]
      /\ pc' = [pc EXCEPT ![w] = "check"]
      /\ UNCHANGED <<out, got, pics, answer>>
      /\ r.status = "QUEUED"
  BY <1>1 DEF Claim, NextClaim, Eligible, TypeOK, DatabaseTypeOK
<1>3. r \in Receipt /\ row'[j] = q /\ q \in Receipt
  BY <1>1, <1>2 DEF TypeOK, DatabaseTypeOK
<1>4. Delivered(r, got[j], pics[j], answer[j]) /\ r.error = "none"
  BY <1>1, <1>2 DEF AllTold, JobTold, Told, TerminalStatuses
<1>5. Resumes(r, q) /\ q.status = "RUNNING" /\ q.error = r.error
  BY <1>3, <1>4, ClaimedResumes DEF Delivered
<1>6. Delivered(q, got[j], pics[j], answer[j])
  BY <1>3, <1>4, <1>5, RowFields, ResumesDelivered
<1>7. JobTold(j)' BY <1>2, <1>3, <1>4, <1>5, <1>6 DEF JobTold, Told
<1>8. ASSUME NEW k \in Jobs \ {j} PROVE JobTold(k)'
  <2>1. row'[k] = row[k] BY <1>1, <1>2 DEF TypeOK, DatabaseTypeOK
  <2>2. QED BY <1>1, <1>2, <2>1 DEF AllTold, JobTold
<1>9. Knows(w)'
  <2>1. cur'[w] = j /\ mem'[w] = Copy(q) /\ pc'[w] = "check"
    BY <1>1, <1>2 DEF TypeOK, WorkerTypeOK
  <2>2. At("check", Copy(q)) BY DEF At, EarlySteps, TextSteps, PhotoSteps
  <2>3. QED BY <1>3, <2>1, <2>2 DEF Knows
<1>10. ASSUME NEW v \in Workers \ {w} PROVE Knows(v)'
  <2>1. cur'[v] = cur[v] /\ mem'[v] = mem[v] /\ pc'[v] = pc[v] /\ out'[v] = out[v]
    BY <1>1, <1>2 DEF TypeOK, WorkerTypeOK
  <2>2. CASE cur[v] = NoJob BY <2>1, <2>2 DEF Knows
  <2>3. CASE cur[v] # NoJob
    <3>1. cur[v] \in Jobs /\ cur[v] # j BY <1>1, <2>3, ClaimFindsNoHolder
    <3>2. row'[cur[v]] = row[cur[v]] BY <1>1, <1>2, <3>1 DEF TypeOK, DatabaseTypeOK
    <3>3. Knows(v) BY <1>1 DEF AllTold
    <3>4. QED BY <1>2, <2>1, <3>2, <3>3 DEF Knows, Alive, Owned
  <2>4. QED BY <2>2, <2>3
<1>11. QED BY <1>7, <1>8, <1>9, <1>10 DEF AllTold

LEMMA StepKeepsTold ==
  ASSUME ~MayStall, DeliveryInvariant, [Next]_vars
  PROVE  AllTold'
<1>1. CASE UNCHANGED vars
  BY <1>1 DEF vars, DeliveryInvariant, AllTold, JobTold, Knows, Alive, Owned
<1>2. TypeOK' BY StepType DEF DeliveryInvariant, LeaseInvariant, BaseInvariant, CoreInvariant
<1>3. CASE Outside BY <1>2, <1>3, OutsideKeepsTold
<1>4. CASE \E w \in Workers : Turn(w)
  BY <1>4, TurnKeepsTold DEF DeliveryInvariant
<1>5. CASE \E w \in Workers, j \in Jobs : Claim(w, j) BY <1>2, <1>5, ClaimKeepsTold
<1>6. QED BY <1>1, <1>3, <1>4, <1>5, StepKinds

LEMMA LegacyManifestFields ==
  ASSUME NEW a \in [texts: Nat, photos: Nat], NEW m \in LegacyManifests(a)
  PROVE  /\ m.texts = a.texts /\ m.photos = a.photos /\ ~m.first /\ m.made
         /\ m.photo \in 0..a.photos
<1> DEFINE base == PicturesFirstManifest(a)
<1>1. base \in Manifest /\ base.made /\ base.texts = a.texts /\ base.photos = a.photos
      /\ ~base.first /\ base.photo = 0
  BY NoManifestType DEF PicturesFirstManifest, NoManifest, Manifest
<1>2. \/ \E p \in 0..a.photos, t \in 0..MaxAttempts : m = BeforeText(a, p, t)
      \/ m = [base EXCEPT !.shared = TRUE]
      \/ m = [base EXCEPT !.photo = a.photos, !.started = TRUE]
  BY DEF LegacyManifests
<1> HIDE DEF base
<1>3. ASSUME NEW p \in 0..a.photos, NEW t \in 0..MaxAttempts, m = BeforeText(a, p, t)
      PROVE  m.texts = a.texts /\ m.photos = a.photos /\ ~m.first /\ m.made
             /\ m.photo \in 0..a.photos
  <2>1. m = [base EXCEPT !.photo = p, !.tries = t] BY <1>3 DEF BeforeText, base
  <2>2. QED BY <1>1, <2>1 DEF Manifest
<1>4. CASE m = [base EXCEPT !.shared = TRUE] BY <1>1, <1>4 DEF Manifest
<1>5. CASE m = [base EXCEPT !.photo = a.photos, !.started = TRUE]
  BY <1>1, <1>5 DEF Manifest
<1>6. QED BY <1>2, <1>3, <1>4, <1>5

(* What an earlier release left in the queue, it had delivered. *)
LEMMA SeedTold ==
  ASSUME NEW r \in InitialRows
  PROVE  Told(r, 1..Seeded(r).text, 1..Seeded(r).photo, r.man.texts)
<1>1. r \in Receipt BY InitialRowsType
<1>2. /\ r.man \in Manifest /\ r.cursor \in Nat /\ r.man.photos \in Nat /\ r.man.texts \in Nat
      /\ State(r) = Seeded(r) /\ State(r).text \in Nat /\ State(r).photo \in Nat
  BY <1>1, RowFields DEF Seeded, Progress
<1>3. ASSUME State(r).text <= r.man.texts, State(r).photo <= r.man.photos,
             ~r.man.made => r.man = NoManifest /\ r.cursor = 0, ~r.man.first
      PROVE  Delivered(r, 1..State(r).text, 1..State(r).photo, r.man.texts)
  <2>1. Formed(r) BY <1>3 DEF Formed
  <2>2. Heard(r, 1..State(r).text) BY DEF Heard
  <2>3. Shown(r, 1..State(r).photo) BY <1>2, <1>3 DEF Shown
  <2>4. QED BY <2>1, <2>2, <2>3 DEF Delivered
<1>4. CASE r = Absent
  <2>1. /\ r.man = NoManifest /\ r.cursor = 0 /\ r.status = "ABSENT" /\ r.error = "none"
        /\ ~r.man.made /\ r.man.photos = 0 /\ r.man.texts = 0 /\ ~r.man.first
    BY <1>4 DEF Absent, NoManifest
  <2>2. State(r).text = 0 /\ State(r).photo = 0 BY <1>2, <2>1, StateFields
  <2>3. Delivered(r, 1..State(r).text, 1..State(r).photo, r.man.texts)
    BY <1>3, <2>1, <2>2
  <2>4. QED BY <1>2, <2>1, <2>3 DEF Told
<1>5. ASSUME NEW a \in LegacyShapes, r \in LegacySeeds(a)
      PROVE  Told(r, 1..Seeded(r).text, 1..Seeded(r).photo, r.man.texts)
  <2>1. a \in [texts: Nat, photos: Nat] BY AnswersAssumption
  <2>2. PICK m \in LegacyManifests(a), n \in 0..(MaxAttempts - 1),
             c \in 0..(a.texts + a.photos) : r = LegacyRow(m, n, c)
    BY <1>5 DEF LegacySeeds, LegacyRows
  <2>3. /\ r.man = m /\ r.cursor = c /\ r.status = "QUEUED" /\ r.error = "none"
    BY <2>2 DEF LegacyRow, Absent
  <2>4. /\ m.texts = a.texts /\ m.photos = a.photos /\ ~m.first /\ m.made
        /\ m.photo \in 0..a.photos
    BY <2>1, LegacyManifestFields
  <2>5. r.man.shared \/ r.cursor <= a.texts BY <1>5 DEF LegacySeeds
  <2>6. a.texts \in Nat /\ a.photos \in Nat /\ c \in 0..(a.texts + a.photos) BY <2>1
  <2>7. State(r).text <= a.texts /\ State(r).photo <= a.photos
    <3>1. CASE m.photos = 0
      <4>1. State(r).text = c /\ State(r).photo = 0 BY <1>2, <2>3, <3>1, StateFields
      <4>2. QED BY <2>4, <2>6, <3>1, <4>1
    <3>2. CASE m.photos # 0 /\ ~m.shared
      <4>1. State(r).text = c /\ State(r).photo = m.photo
        BY <1>2, <2>3, <3>2, StateFields
      <4>2. QED BY <2>3, <2>4, <2>5, <2>6, <3>2, <4>1
    <3>3. CASE m.photos # 0 /\ m.shared
      <4>1. State(r) = SharedCursorState(m, c) BY <2>3, <3>3 DEF State, DeliveryState
      <4>2. QED BY <2>4, <2>6, <4>1 DEF SharedCursorState
    <3>4. QED BY <3>1, <3>2, <3>3
  <2>8. Delivered(r, 1..State(r).text, 1..State(r).photo, r.man.texts)
    BY <1>3, <2>3, <2>4, <2>7
  <2>9. QED BY <1>2, <2>3, <2>8 DEF Told
<1>6. QED BY <1>4, <1>5 DEF InitialRows

LEMMA InitTold == Init => AllTold
<1> SUFFICES ASSUME Init PROVE AllTold
  OBVIOUS
<1>1. PICK r \in InitialRows : row = [k \in Jobs |-> IF FirstJob(k) THEN r ELSE Absent]
  <2>1. Absent \in InitialRows BY DEF InitialRows
  <2>2. QED BY <2>1 DEF Init
<1>2. Absent \in InitialRows BY DEF InitialRows
<1>3. \A j \in Jobs : JobTold(j)
  <2> SUFFICES ASSUME NEW j \in Jobs PROVE JobTold(j)
    OBVIOUS
  <2>1. row[j] \in InitialRows BY <1>1, <1>2
  <2>2. /\ got[j] = 1..Seeded(row[j]).text /\ pics[j] = 1..Seeded(row[j]).photo
        /\ answer[j] = row[j].man.texts
    BY DEF Init
  <2>3. QED BY <2>1, <2>2, SeedTold DEF JobTold
<1>4. \A w \in Workers : Knows(w) BY DEF Init, Knows
<1>5. QED BY <1>3, <1>4 DEF AllTold

LEMMA DeliveryKept ==
  ASSUME ~MayStall
  PROVE  Spec => []DeliveryInvariant
<1>1. Init => AllTold BY InitTold
<1>2. LeaseInvariant /\ AllTold /\ [Next]_vars => AllTold'
  BY StepKeepsTold DEF DeliveryInvariant
<1>3. Spec => []LeaseInvariant BY LeasesKept
<1>4. DeliveryInvariant <=> LeaseInvariant /\ AllTold BY DEF DeliveryInvariant
<1>5. QED BY <1>1, <1>2, <1>3, <1>4, PTL DEF Spec

-----------------------------------------------------------------------------
(* The items Telegram has are the confirmed ones and at most the one whose *)
(* answer was lost: over retries, crashes and recoveries no text is        *)
(* skipped, reordered or sent ahead of the durable cursor, for any number  *)
(* of messages and in rows of every release (mark_delivery_progress).      *)
THEOREM TextInOrder ==
  ASSUME ~MayStall
  PROVE  Spec => []OneUnconfirmedText
<1>1. DeliveryInvariant => OneUnconfirmedText
  <2> SUFFICES ASSUME DeliveryInvariant, NEW j \in Jobs, IsActive(j)
               PROVE  LET c == DeliveryState(row[j].man, row[j].cursor).text
                      IN  got[j] \in {1..c, 1..(c + 1)}
    BY DEF OneUnconfirmedText
  <2>1. Delivered(row[j], got[j], pics[j], answer[j])
    BY DEF DeliveryInvariant, AllTold, JobTold, Told, IsActive, ActiveStatuses,
           TerminalStatuses
  <2>2. QED BY <2>1 DEF Delivered, Heard, State
<1>2. QED BY <1>1, DeliveryKept, PTL

(* A text item the row has confirmed is never sent again, whichever worker *)
(* resumes the job: the copy taken at the claim stands where the row does  *)
(* whenever a worker is about to send (delivery_cursor).                   *)
THEOREM NothingResent ==
  ASSUME ~MayStall
  PROVE  Spec => []NoConfirmedTextResent
<1>1. DeliveryInvariant => NoConfirmedTextResent
  <2> SUFFICES ASSUME DeliveryInvariant, NEW w \in Workers, pc[w] = "sendText"
               PROVE  mem[w].cursor >= row[cur[w]].cursor
    BY DEF NoConfirmedTextResent
  <2>1. TypeOK BY DEF DeliveryInvariant, LeaseInvariant, BaseInvariant, CoreInvariant
  <2>2. cur[w] # NoJob /\ mem[w].cursor \in Nat
    BY <2>1 DEF TypeOK, WorkerTypeOK, FreeSteps, Memory
  <2>3. mem[w].cursor = row[cur[w]].cursor
    BY <2>2 DEF DeliveryInvariant, AllTold, Knows
  <2>4. QED BY <2>2, <2>3
<1>2. QED BY <1>1, DeliveryKept, PTL

(* Every picture the cursor has passed was delivered, or the job says that *)
(* some are missing, and at most one delivered picture is unconfirmed, in  *)
(* all three generations of rows (mark_photo_progress).                    *)
THEOREM NoPictureLostUnsaid ==
  ASSUME ~MayStall
  PROVE  Spec => []PicturesAccounted
<1>1. DeliveryInvariant => PicturesAccounted
  <2> SUFFICES ASSUME DeliveryInvariant, NEW j \in Jobs, IsActive(j)
               PROVE  LET s == DeliveryState(row[j].man, row[j].cursor)
                      IN  /\ pics[j] \subseteq 1..(s.photo + 1)
                          /\ 1..s.photo \subseteq pics[j] \/ row[j].man.degraded
    BY DEF PicturesAccounted
  <2>1. Delivered(row[j], got[j], pics[j], answer[j])
    BY DEF DeliveryInvariant, AllTold, JobTold, Told, IsActive, ActiveStatuses,
           TerminalStatuses
  <2>2. QED BY <2>1 DEF Delivered, Shown, State
<1>2. QED BY <1>1, DeliveryKept, PTL

(* A job is SUCCEEDED only when Telegram has accepted every item of its    *)
(* required text, however often it was retried, recovered or degraded on   *)
(* the way (_deliver_job, finish_job).                                     *)
THEOREM SucceededIsAnswered ==
  ASSUME ~MayStall
  PROVE  Spec => []AnsweredInFull
<1>1. DeliveryInvariant => AnsweredInFull
  BY DEF DeliveryInvariant, AllTold, JobTold, Told, AnsweredInFull
<1>2. QED BY <1>1, DeliveryKept, PTL

-----------------------------------------------------------------------------
(* How a step may move one job.                                            *)

(* A worker has written its copy back, or not touched the row. *)
Advances(r, q) ==
  /\ q.status = r.status /\ q.error = r.error
  /\ q.man.made = r.man.made /\ q.man.first = r.man.first
  /\ q.man.texts = r.man.texts /\ q.man.photos = r.man.photos
  /\ q.man.shared => r.man.shared
  /\ State(q).text >= State(r).text
  /\ State(r).takeover => q.attempts >= r.attempts
  /\ State(r).first => q.attempts <= r.attempts

LEMMA SameAdvances ==
  ASSUME NEW r \in Receipt, NEW q, q.man = r.man, q.cursor = r.cursor,
         q.attempts = r.attempts, q.status = r.status, q.error = r.error
  PROVE  Advances(r, q)
<1>1. r.man \in Manifest /\ r.cursor \in Nat /\ r.attempts \in Nat BY RowFields
<1>2. State(q) = State(r) BY <1>1, SamePayload
<1>3. State(r).text \in Nat BY RowFields DEF Progress
<1>4. QED BY <1>1, <1>2, <1>3 DEF Advances

LEMMA CarriedAdvances ==
  ASSUME NEW w \in Workers, InStep(w), NEW n \in Memory, NEW t, CarriedTo(w, t, n),
         n.man.made = mem[w].man.made, n.man.first = mem[w].man.first,
         n.man.texts = mem[w].man.texts, n.man.photos = mem[w].man.photos,
         n.man.shared => mem[w].man.shared,
         State(n).text >= State(mem[w]).text,
         State(mem[w]).takeover => n.attempts >= mem[w].attempts,
         State(mem[w]).first => n.attempts <= mem[w].attempts
  PROVE  Advances(row[cur[w]], row'[cur[w]])
<1> DEFINE r == row[cur[w]]
           q == row'[cur[w]]
           m == mem[w]
<1>1. /\ r \in Receipt /\ m.man = r.man /\ m.cursor = r.cursor
      /\ m.attempts = r.attempts
  BY InStepFacts
<1>2. q = Written(r, n) BY DEF CarriedTo
<1>3. /\ q.man = n.man /\ q.cursor = n.cursor /\ q.attempts = n.attempts
      /\ q.status = r.status /\ q.error = r.error
  BY <1>1, <1>2 DEF Written, Receipt
<1>4. State(q) = State(n) /\ State(r) = State(m) BY <1>1, <1>3 DEF State
<1> HIDE DEF r, q, m
<1>5. Advances(r, q) BY <1>1, <1>3, <1>4 DEF Advances, m
<1>6. QED BY <1>5 DEF r, q

LEMMA CarriesAdvances ==
  ASSUME NEW w \in Workers, InStep(w), At(pc[w], mem[w]), JobTold(cur[w]), Carries(w)
  PROVE  Advances(row[cur[w]], row'[cur[w]])
<1>1. PICK t, n : CarriedTo(w, t, n) /\ Moves(pc[w], mem[w], t, n) BY DEF Carries
<1>2. mem[w] \in Memory /\ Formed(mem[w]) BY InStepFacts, CopyDelivered
<1>3. Onward(mem[w], t, n) BY <1>1, <1>2, MovesOnward
<1>4. n \in Memory /\ Resumes(mem[w], n)
      /\ (State(mem[w]).takeover => n.attempts >= mem[w].attempts)
      /\ (State(mem[w]).first => n.attempts <= mem[w].attempts)
  BY <1>3 DEF Onward
<1>5. State(mem[w]).text \in Nat BY <1>2, StateFields DEF Memory, Progress
<1>6. /\ n.man.made = mem[w].man.made /\ n.man.first = mem[w].man.first
      /\ n.man.texts = mem[w].man.texts /\ n.man.photos = mem[w].man.photos
      /\ n.man.shared => mem[w].man.shared
      /\ State(n).text >= State(mem[w]).text
  BY <1>4, <1>5 DEF Resumes
<1>7. QED BY <1>1, <1>4, <1>6, CarriedAdvances

LEMMA ConfirmsAdvances ==
  ASSUME NEW w \in Workers, InStep(w), At(pc[w], mem[w]), Confirms(w)
  PROVE  Advances(row[cur[w]], row'[cur[w]])
<1> DEFINE m == mem[w]
<1>1. PICK a \in {0, m.attempts} :
        CarriedTo(w, TextStep(TextConfirmed(m, a)), TextConfirmed(m, a))
  BY DEF Confirms
<1> DEFINE n == TextConfirmed(m, a)
<1>2. m \in Memory /\ m.attempts \in Nat /\ m.cursor \in Nat
  BY InStepFacts DEF Memory
<1>3. Split(m) BY DEF Confirms, At, Split, EarlySteps, FreeSteps
<1>4. a \in Nat /\ a <= m.attempts BY <1>1, <1>2
<1>5. /\ n \in Memory /\ n.man = m.man /\ n.attempts = a
      /\ State(m).text = m.cursor /\ State(n).text = m.cursor + 1
  BY <1>2, <1>3, <1>4, ConfirmedReads DEF Split, TextConfirmed
<1> HIDE DEF n
<1>6. State(n).text >= State(m).text BY <1>2, <1>5
<1>7. CarriedTo(w, TextStep(n), n) BY <1>1 DEF n
<1>8. QED BY <1>3, <1>4, <1>5, <1>6, <1>7, CarriedAdvances DEF Split

LEMMA ShowsAdvances ==
  ASSUME NEW w \in Workers, InStep(w), At(pc[w], mem[w]), Shows(w)
  PROVE  Advances(row[cur[w]], row'[cur[w]])
<1> DEFINE m == mem[w]
           n == NextPhoto(m, FALSE)
<1>1. CarriedTo(w, PhotoStep(n, "photo"), n) BY DEF Shows
<1>2. m \in Memory /\ m.attempts \in Nat BY InStepFacts DEF Memory
<1>3. Split(m) /\ PhotoLeft(m) BY DEF Shows, At, Split, PhotoSteps, EarlySteps, FreeSteps
<1>4. m.man.photos # 0 /\ ~m.man.shared BY <1>2, <1>3, PicturesLeft DEF Split
<1>5. /\ n \in Memory /\ SameAnswer(m, n)
      /\ ~n.man.shared /\ n.attempts = m.attempts
      /\ State(n).text = State(m).text
  BY <1>2, <1>4, NextPhotoReads
<1> HIDE DEF n
<1>6. State(m).text \in Nat BY <1>2, StateFields DEF Memory, Progress
<1>7. State(n).text >= State(m).text /\ n.attempts >= m.attempts /\ n.attempts <= m.attempts
  BY <1>2, <1>5, <1>6
<1>8. QED BY <1>1, <1>5, <1>7, CarriedAdvances DEF SameAnswer

(* A turn of a worker whose lease holds: the row advances, gets its answer,*)
(* or is let go of.                                                        *)
Lets(w) == /\ Silent /\ Drops(w) /\ InStep(w) /\ At(pc[w], mem[w])
           /\ row[cur[w]].man = mem[w].man /\ State(mem[w]) = State(row[cur[w]])
           /\ Formed(mem[w])

LEMMA TurnMoves ==
  ASSUME DeliveryInvariant, NEW w \in Workers, Alive(w), Turn(w)
  PROVE  \/ Advances(row[cur[w]], row'[cur[w]]) /\ UNCHANGED <<answer, leases>>
         \/ Prepares(w)
         \/ Lets(w)
<1>1. BaseInvariant /\ Knows(w) /\ (\A j \in Jobs : JobTold(j))
  BY DEF DeliveryInvariant, LeaseInvariant, AllTold
<1>2. Tends(w) /\ TypeOK /\ CopyMade BY <1>1, TurnTends DEF BaseInvariant, CoreInvariant
<1>3. cur[w] \in Jobs /\ cur[w] # NoJob BY <1>2, JobsAssumption DEF Tends, NoJob
<1>4. pc[w] \notin FreeSteps BY <1>2, <1>3 DEF TypeOK, WorkerTypeOK
<1>5. row[cur[w]] \in Receipt /\ JobTold(cur[w])
  BY <1>1, <1>2, <1>3 DEF TypeOK, DatabaseTypeOK
<1>6. pc[w] # "refresh" => InStep(w) /\ At(pc[w], mem[w])
  BY <1>1, <1>2, <1>3, <1>4 DEF Knows, InStep
<1>7. CASE SendText(w) \/ SendPhoto(w)
  BY <1>2, <1>3, <1>5, <1>7, Sends, SameAdvances
<1>8. CASE Silent /\ Replied(w)
  BY <1>5, <1>8, SameAdvances DEF Replied, Silent
<1>9. CASE Silent /\ Rereads(w)
  BY <1>5, <1>9, SameAdvances DEF Rereads, Silent
<1>10. CASE pc[w] # "refresh" /\ Silent /\ (Carries(w) \/ Confirms(w) \/ Shows(w))
  BY <1>5, <1>6, <1>10, CarriesAdvances, ConfirmsAdvances, ShowsAdvances DEF Silent
<1>11. CASE pc[w] # "refresh" /\ Silent /\ Drops(w)
  <2>1. InStep(w) /\ At(pc[w], mem[w]) BY <1>6, <1>11
  <2>2. mem[w].man = row[cur[w]].man BY <2>1, InStepFacts
  <2>3. State(mem[w]) = State(row[cur[w]]) /\ Formed(mem[w])
    BY <1>5, <2>1, CopyDelivered
  <2>4. QED BY <1>11, <2>1, <2>2, <2>3 DEF Lets
<1>12. CASE pc[w] = "refresh"
  <2>1. Refresh(w)
    BY <1>12 DEF Turn, Check, Execute, ExecuteQuestion, ExecuteNew, ExecuteAdvisor, Executing,
                 ExecuteRetry, ExecutePermanent, StoreDelivery, Deliver, Begin, AuthoriseText,
                 AuthorisePhoto, Authorise, SendText, SendPhoto, SettleText, Gate, PhotoOff,
                 Render, SettlePhoto, StartText, FinishDelivered
  <2>2. QED BY <1>2, <1>9, <2>1, RefreshKinds
<1>13. QED BY <1>1, <1>7, <1>8, <1>9, <1>10, <1>11, <1>12, TurnKinds

(* What a step does to a row that is queued or running. *)
LEMMA ActiveMoves ==
  ASSUME ~MayStall, DeliveryInvariant, [Next]_vars, NEW j \in Jobs, IsActive(j)
  PROVE  \/ /\ UNCHANGED <<got, pics, answer, leases>>
            /\ row'[j] = row[j] \/ RowMoves(row[j], row'[j])
         \/ \E w \in Workers : Claim(w, j)
         \/ /\ row'[j] = row[j] /\ got'[j] = got[j] /\ pics'[j] = pics[j]
            /\ answer'[j] = answer[j] /\ leases'[j] = leases[j]
         \/ \E w \in Workers : Turn(w) /\ Alive(w) /\ cur[w] = j
<1>1. TypeOK /\ LeaseInvariant /\ BaseInvariant
  BY DEF DeliveryInvariant, LeaseInvariant, BaseInvariant, CoreInvariant
<1>2. CASE UNCHANGED vars BY <1>2 DEF vars
<1>3. CASE Outside
  <2>1. UNCHANGED <<got, pics, answer, leases>> BY <1>1, <1>3, OutsideSilent
  <2>2. OutsideRow(row[j], row'[j], j) BY <1>1, <1>3, OutsideRows
  <2>3. Formed(row[j])
    BY DEF DeliveryInvariant, AllTold, JobTold, Told, Delivered, IsActive, ActiveStatuses,
           TerminalStatuses
  <2>4. row[j].status # "ABSENT" BY DEF IsActive, ActiveStatuses
  <2>5. QED BY <1>1, <2>1, <2>2, <2>3, <2>4, OutsideRowMoves
<1>4. ASSUME NEW w \in Workers, NEW i \in Jobs, Claim(w, i), i # j
      PROVE  /\ row'[j] = row[j] /\ got'[j] = got[j] /\ pics'[j] = pics[j]
             /\ answer'[j] = answer[j] /\ leases'[j] = leases[j]
  BY <1>1, <1>4 DEF Claim, TypeOK, DatabaseTypeOK, SeenTypeOK
<1>5. ASSUME NEW w \in Workers, Turn(w)
      PROVE  \/ /\ row'[j] = row[j] /\ got'[j] = got[j] /\ pics'[j] = pics[j]
                /\ answer'[j] = answer[j] /\ leases'[j] = leases[j]
             \/ Alive(w) /\ cur[w] = j
  <2>1. Tends(w) BY <1>1, <1>5, TurnTends
  <2>2. cur[w] \in Jobs /\ cur[w] # NoJob BY <2>1, JobsAssumption DEF Tends, NoJob
  <2>3. Observed(w) BY <1>1, <1>5, <2>2, TurnObserved
  <2>4. CASE j # cur[w] BY <2>1, <2>3, <2>4 DEF Tends, Writes, Observed
  <2>5. CASE j = cur[w]
    <3>1. Alive(w) \/ Swept(w) BY <1>1, <2>2 DEF LeaseInvariant, LeaseKept
    <3>2. ~Swept(w) BY <2>5 DEF Swept, IsActive, ActiveStatuses
    <3>3. QED BY <2>5, <3>1, <3>2
  <2>6. QED BY <2>4, <2>5
<1>6. QED BY <1>2, <1>3, <1>4, <1>5, StepKinds

(* What is known of the row a worker lets go of. *)
LEMMA LeavesKinds ==
  ASSUME NEW w \in Workers, Lets(w)
  PROVE  LET r == row[cur[w]]  q == row'[cur[w]]
         IN  /\ r \in Receipt /\ cur[w] \in Jobs /\ r.status = "RUNNING"
             /\ \/ /\ q.status = "QUEUED" /\ q.error = r.error /\ q.man = r.man
                   /\ q.cursor = r.cursor
                   /\ \/ q.attempts = r.attempts /\ r.attempts < MaxAttempts
                      \/ q.attempts = 0 /\ ~State(r).takeover
                \/ q = Ended(r, "CANCELLED", "revoked")
                \/ /\ \E e \in {"none", "degraded"} : q = Ended(r, "SUCCEEDED", e)
                   /\ ~TextLeft(r)
                   /\ q.error = "none" =>
                        ~PhotoLeft(r) /\ (r.man.degraded => r.man.photos = 0)
                \/ /\ \/ pc[w] = "execute" /\ ~r.man.made
                      \/ /\ pc[w] = "sentText" /\ r.man.made /\ TextLeft(r)
                         /\ State(r).first \/ (State(r).started /\ ~State(r).takeover)
                   /\ \/ \E e \in {"permanent", "rejected"} : q = Ended(r, "FAILED", e)
                      \/ r.attempts >= MaxAttempts /\ q = Ended(r, "FAILED", "exhausted")
<1> DEFINE r == row[cur[w]]
           q == row'[cur[w]]
           m == mem[w]
<1>1. /\ r \in Receipt /\ cur[w] \in Jobs /\ m.man = r.man /\ State(m) = State(r)
      /\ m.attempts = r.attempts /\ r.status = "RUNNING" /\ Formed(m) /\ At(pc[w], m)
  BY InStepFacts DEF Lets, Owned
<1>2. r.man \in Manifest /\ r.cursor \in Nat /\ r.attempts \in Nat
      /\ r.man.texts \in Nat /\ r.man.photos \in Nat /\ State(r) \in Progress
  BY <1>1, RowFields
<1>3. TextLeft(m) = TextLeft(r) /\ PhotoLeft(m) = PhotoLeft(r)
  BY <1>1 DEF TextLeft, PhotoLeft
<1>4. Leaves(pc[w], m, r, q) BY DEF Lets, Drops
<1>5. CASE /\ pc[w] = "begin" /\ m.man.texts + m.man.photos = 0
           /\ q = Ended(r, "SUCCEEDED", "none")
  <2>1. r.man.texts = 0 /\ r.man.photos = 0 BY <1>1, <1>2, <1>5
  <2>2. ~TextLeft(r) /\ ~PhotoLeft(r) BY <1>2, <2>1 DEF TextLeft, PhotoLeft, Progress
  <2>3. QED BY <1>1, <1>5, <2>1, <2>2
<1>6. CASE /\ pc[w] = "finish"
           /\ q = Ended(r, "SUCCEEDED", IF m.man.degraded THEN "degraded" ELSE "none")
  <2>1. ~TextLeft(r) /\ ~PhotoLeft(r) BY <1>1, <1>3, <1>6 DEF At
  <2>2. q.error = "none" => ~r.man.degraded
    BY <1>1, <1>6 DEF Ended, Receipt
  <2>3. \E e \in {"none", "degraded"} : q = Ended(r, "SUCCEEDED", e) BY <1>6
  <2>4. QED BY <1>1, <2>1, <2>2, <2>3
<1>7. pc[w] = "execute" => ~r.man.made BY <1>1 DEF At
<1>8. pc[w] = "sentText" =>
        /\ r.man.made /\ TextLeft(r)
        /\ State(r).first \/ (State(r).started /\ ~State(r).takeover)
  BY <1>1, <1>3 DEF At, TextSteps, EarlySteps, FreeSteps
<1>9. pc[w] \in PhotoSteps => ~State(r).takeover
  BY <1>1 DEF At, PhotoSteps, EarlySteps, FreeSteps
<1>10. /\ Requeued(r, FALSE).status = "QUEUED" /\ Requeued(r, FALSE).error = r.error
       /\ Requeued(r, FALSE).man = r.man /\ Requeued(r, FALSE).cursor = r.cursor
       /\ Requeued(r, FALSE).attempts = r.attempts
       /\ Requeued(r, FALSE) \in Receipt
  BY <1>1, RequeuedType DEF Requeued, Receipt
<1>11. CASE pc[w] \in PhotoSteps /\ q = [Requeued(r, FALSE) EXCEPT !.attempts = 0]
  <2>1. /\ q.status = "QUEUED" /\ q.error = r.error /\ q.man = r.man
        /\ q.cursor = r.cursor /\ q.attempts = 0
    BY <1>10, <1>11 DEF Receipt
  <2>2. QED BY <1>1, <1>9, <1>11, <2>1
<1>12. CASE m.attempts < MaxAttempts /\ q = Requeued(r, FALSE)
  BY <1>1, <1>10, <1>12
<1>13. QED
  BY <1>1, <1>4, <1>5, <1>6, <1>7, <1>8, <1>11, <1>12 DEF Leaves

-----------------------------------------------------------------------------
(* A job that finishes without saying so has delivered all its pictures:   *)
(* each of them was accepted by Telegram in this attempt or an earlier one,*)
(* or the skip is in the payload and survives every retry, recovery and    *)
(* degradation up to the last write ("image_delivery_degraded").           *)
THEOREM SilenceMeansDelivered ==
  ASSUME ~MayStall
  PROVE  Spec => DegradationIsReported
<1>1. DeliveryInvariant /\ [Next]_vars =>
        [\A j \in Jobs :
           /\ IsActive(j) /\ row'[j].status = "SUCCEEDED" /\ row'[j].error = "none"
           => pics[j] = 1..row[j].man.photos]_vars
  <2> SUFFICES ASSUME DeliveryInvariant, [Next]_vars, NEW j \in Jobs,
                      IsActive(j), row'[j].status = "SUCCEEDED", row'[j].error = "none"
               PROVE  pics[j] = 1..row[j].man.photos
    OBVIOUS
  <2>1. /\ row[j] \in Receipt /\ row[j].status # "SUCCEEDED"
        /\ Delivered(row[j], got[j], pics[j], answer[j])
    BY DEF DeliveryInvariant, LeaseInvariant, BaseInvariant, CoreInvariant, TypeOK,
           DatabaseTypeOK, AllTold, JobTold, Told, IsActive, ActiveStatuses, TerminalStatuses
  <2>2. ~RowMoves(row[j], row'[j])
    BY <2>1 DEF RowMoves, ActiveStatuses, Ended, Receipt
  <2>3. ASSUME NEW w \in Workers, Claim(w, j) PROVE FALSE
    <3>1. row'[j] = Claimed(row[j])
      BY <2>3 DEF Claim, DeliveryInvariant, LeaseInvariant, BaseInvariant, CoreInvariant,
                  TypeOK, DatabaseTypeOK
    <3>2. QED BY <2>1, <3>1, ClaimedMarks
  <2>4. ASSUME NEW w \in Workers, Turn(w), Alive(w), cur[w] = j
        PROVE  pics[j] = 1..row[j].man.photos
    <3>1. ~Advances(row[j], row'[j]) BY <2>1 DEF Advances
    <3>2. ~Prepares(w)
      <4>1. ASSUME NEW a \in [texts: Nat, photos: Nat]
            PROVE  row'[j] # Stored(row[j], a)
        BY <2>1, StoredMarks
      <4>2. QED BY <2>4, <4>1 DEF Prepares
    <3>3. Lets(w) BY <2>4, <3>1, <3>2, TurnMoves
    <3>4. ~PhotoLeft(row[j]) /\ (row[j].man.degraded => row[j].man.photos = 0)
      BY <2>1, <2>4, <3>3, LeavesKinds DEF Ended, Receipt
    <3>5. State(row[j]).photo \in Nat /\ row[j].man.photos \in Nat
      BY <2>1, RowFields DEF Progress
    <3>6. State(row[j]).photo = row[j].man.photos
      BY <2>1, <3>4, <3>5 DEF Delivered, Formed, PhotoLeft
    <3>7. CASE ~row[j].man.degraded BY <2>1, <3>6, <3>7 DEF Delivered, Shown
    <3>8. CASE row[j].man.photos = 0 BY <2>1, <3>8 DEF Delivered, Shown
    <3>9. QED BY <3>4, <3>7, <3>8
  <2>5. QED BY <2>1, <2>2, <2>3, <2>4, ActiveMoves
<1>2. QED BY <1>1, DeliveryKept, PTL DEF Spec, DegradationIsReported

(* The attempts a rolled-back text-only worker has spent on the text it    *)
(* took over are never given back, neither when its pictures are given up  *)
(* nor by a claim, a requeue or a recovery                                 *)
(* (_begin_text_after_skipping_photos, rollback_text_takeover).            *)
THEOREM TakeoverKeepsCount ==
  ASSUME ~MayStall
  PROVE  Spec => TakeoverKeepsItsAttempts
<1>1. DeliveryInvariant /\ [Next]_vars =>
        [\A j \in Jobs :
           /\ IsActive(j)
           /\ DeliveryState(row[j].man, row[j].cursor).takeover
           => row'[j].attempts >= row[j].attempts]_vars
  <2> SUFFICES ASSUME DeliveryInvariant, [Next]_vars, NEW j \in Jobs,
                      IsActive(j), DeliveryState(row[j].man, row[j].cursor).takeover
               PROVE  row'[j].attempts >= row[j].attempts
    OBVIOUS
  <2> DEFINE r == row[j]
             q == row'[j]
  <2>1. /\ r \in Receipt /\ Delivered(r, got[j], pics[j], answer[j])
    BY DEF DeliveryInvariant, LeaseInvariant, BaseInvariant, CoreInvariant, TypeOK,
           DatabaseTypeOK, AllTold, JobTold, Told, IsActive, ActiveStatuses, TerminalStatuses
  <2>2. /\ State(r).takeover /\ r.attempts \in Nat /\ r.man \in Manifest
        /\ r.cursor \in Nat
    BY <2>1, RowFields
  <2>3. \A s, e : Ended(r, s, e).attempts = r.attempts BY <2>1 DEF Ended, Receipt
  <2>4. CASE q = r BY <2>2, <2>4
  <2>5. CASE RowMoves(r, q) BY <2>2, <2>3, <2>5 DEF RowMoves
  <2>6. ASSUME NEW w \in Workers, Claim(w, j) PROVE q.attempts >= r.attempts
    <3>1. q = Claimed(r)
      BY <2>6 DEF Claim, DeliveryInvariant, LeaseInvariant, BaseInvariant, CoreInvariant,
                  TypeOK, DatabaseTypeOK
    <3>2. QED BY <2>1, <2>2, <3>1, ClaimedResumes DEF Delivered
  <2>7. ASSUME NEW w \in Workers, Turn(w), Alive(w), cur[w] = j
        PROVE  q.attempts >= r.attempts
    <3>1. CASE Advances(r, q) BY <2>2, <3>1 DEF Advances
    <3>2. CASE Prepares(w)
      <4>1. r.man = NoManifest BY <2>1, <2>7, <3>2 DEF Prepares, Delivered, Formed
      <4>2. ~State(r).takeover BY <2>2, <4>1, StateFields DEF NoManifest
      <4>3. QED BY <2>2, <4>2
    <3>3. CASE Lets(w)
      <4>1. q.attempts = r.attempts \/ (q.attempts = 0 /\ ~State(r).takeover)
        BY <2>3, <2>7, <3>3, LeavesKinds
      <4>2. QED BY <2>2, <4>1
    <3>4. QED BY <2>7, <3>1, <3>2, <3>3, TurnMoves
  <2>8. QED BY <2>4, <2>5, <2>6, <2>7, ActiveMoves
<1>2. QED BY <1>1, DeliveryKept, PTL DEF Spec, TakeoverKeepsItsAttempts

-----------------------------------------------------------------------------
(* Only an admission makes a row active. *)
LEMMA InactiveMoves ==
  ASSUME DeliveryInvariant, [Next]_vars, NEW j \in Jobs, ~IsActive(j), IsActive(j)'
  PROVE  /\ row[j].status = "ABSENT"
         /\ row'[j].man = NoManifest /\ row'[j].cursor = 0
         /\ row'[j].attempts = 0 /\ row'[j].error = "none"
         /\ UNCHANGED <<got, pics, answer, leases>>
<1>1. TypeOK /\ BaseInvariant /\ CoreInvariant
  BY DEF DeliveryInvariant, LeaseInvariant, BaseInvariant, CoreInvariant
<1>2. row[j].status = "ABSENT"
  <2>1. row[j].status \in Statuses BY <1>1 DEF TypeOK, DatabaseTypeOK, Receipt
  <2>2. ~Terminal(j)
    BY <1>1, EndedStays DEF IsActive, Terminal, ActiveStatuses, TerminalStatuses
  <2>3. QED BY <2>1, <2>2 DEF Statuses, IsActive, Terminal
<1>3. row'[j] # row[j] BY DEF IsActive
<1>4. CASE UNCHANGED vars BY <1>3, <1>4 DEF vars
<1>5. CASE Outside
  <2>1. OutsideRow(row[j], row'[j], j) BY <1>1, <1>5, OutsideRows
  <2>2. UNCHANGED <<got, pics, answer, leases>> BY <1>1, <1>5, OutsideSilent
  <2>3. QED
    BY <1>2, <1>3, <2>1, <2>2 DEF OutsideRow, Orphaned, IsActive, ActiveStatuses,
                                 FailedIfExhausted, Exhausted
<1>6. ASSUME NEW w \in Workers, Turn(w) PROVE FALSE
  <2>1. Tends(w) BY <1>1, <1>6, TurnTends
  <2>2. cur[w] \in Jobs /\ cur[w] # NoJob BY <2>1, JobsAssumption DEF Tends, NoJob
  <2>3. cur[w] # j BY <1>1, <1>2, <2>2 DEF BaseInvariant, HeldIsPresent
  <2>4. QED BY <1>3, <2>1, <2>3 DEF Tends, Writes
<1>7. ASSUME NEW w \in Workers, NEW i \in Jobs, Claim(w, i) PROVE FALSE
  <2>1. i # j BY <1>2, <1>7 DEF Claim, NextClaim, Eligible
  <2>2. QED BY <1>1, <1>3, <1>7, <2>1 DEF Claim, TypeOK, DatabaseTypeOK
<1>8. QED BY <1>4, <1>5, <1>6, <1>7, StepKinds

(* Pictures come with a text: this release drops them otherwise, and so    *)
(* does the theorem below require of the rows of an earlier one.           *)
TextedShapes == \A a \in LegacyShapes : a.photos > 0 => a.texts > 0

Texted(j) == IsActive(j) => (row[j].man.photos > 0 => row[j].man.texts > 0)

AllTexted == \A j \in Jobs : Texted(j)

LEMMA StepKeepsTexted ==
  ASSUME ~MayStall, DeliveryInvariant, AllTexted, [Next]_vars
  PROVE  AllTexted'
<1> SUFFICES ASSUME NEW j \in Jobs, IsActive(j)'
             PROVE  row'[j].man.photos > 0 => row'[j].man.texts > 0
  BY DEF AllTexted, Texted
<1> DEFINE r == row[j]
           q == row'[j]
<1>1. CASE ~IsActive(j)
  <2>1. q.man = NoManifest BY <1>1, InactiveMoves
  <2>2. QED BY <2>1 DEF NoManifest
<1>2. CASE IsActive(j)
  <2>1. /\ r \in Receipt /\ Formed(r) /\ (r.man.photos > 0 => r.man.texts > 0)
    BY <1>2 DEF DeliveryInvariant, LeaseInvariant, BaseInvariant, CoreInvariant, TypeOK,
           DatabaseTypeOK, AllTold, JobTold, Told, Delivered, IsActive, ActiveStatuses,
           TerminalStatuses, AllTexted, Texted
  <2>2. CASE q = r BY <2>1, <2>2
  <2>3. CASE RowMoves(r, q)
    <3>1. \A s, e : s \in TerminalStatuses => q # Ended(r, s, e)
      BY <2>1 DEF Ended, Receipt, IsActive, ActiveStatuses, TerminalStatuses
    <3>2. Resumes(r, q) BY <2>3, <3>1 DEF RowMoves, TerminalStatuses
    <3>3. QED BY <2>1, <3>2 DEF Resumes
  <2>4. ASSUME NEW w \in Workers, Claim(w, j) PROVE q.man.photos > 0 => q.man.texts > 0
    <3>1. q = Claimed(r)
      BY <2>4 DEF Claim, DeliveryInvariant, LeaseInvariant, BaseInvariant, CoreInvariant,
                  TypeOK, DatabaseTypeOK
    <3>2. QED BY <2>1, <3>1, ClaimedResumes DEF Resumes
  <2>5. ASSUME NEW w \in Workers, Turn(w), Alive(w), cur[w] = j
        PROVE  q.man.photos > 0 => q.man.texts > 0
    <3>1. CASE Advances(r, q) BY <2>1, <3>1 DEF Advances
    <3>2. CASE Prepares(w)
      <4>1. PICK a \in [texts: Nat, photos: Nat] : q = Stored(r, a)
        BY <2>5, <3>2 DEF Prepares
      <4>2. q.man = NewManifest(a) /\ q.cursor = 0 BY <2>1, <4>1 DEF Stored, Receipt
      <4>3. q.man.photos # 0 => q.man.texts > 0 BY <4>2, NewDelivered
      <4>4. QED BY <4>3
    <3>3. CASE Lets(w)
      <4>1. q.status \in ActiveStatuses BY DEF IsActive
      <4>2. \A s, e : Ended(r, s, e).status = s BY <2>1 DEF Ended, Receipt
      <4>3. \A s, e : s \in TerminalStatuses => q # Ended(r, s, e)
        BY <4>1, <4>2 DEF ActiveStatuses, TerminalStatuses
      <4>4. q.man = r.man
        BY <2>5, <3>3, <4>3, LeavesKinds DEF TerminalStatuses
      <4>5. QED BY <2>1, <4>4
    <3>4. QED BY <2>5, <3>1, <3>2, <3>3, TurnMoves
  <2>6. QED BY <1>2, <2>2, <2>3, <2>4, <2>5, ActiveMoves
<1>3. QED BY <1>1, <1>2

LEMMA InitTexted ==
  ASSUME TextedShapes, Init
  PROVE  AllTexted
<1>1. ASSUME NEW r \in InitialRows PROVE r.man.photos > 0 => r.man.texts > 0
  <2>1. ASSUME NEW a \in LegacyShapes, r \in LegacySeeds(a)
        PROVE  r.man.photos > 0 => r.man.texts > 0
    <3>1. PICK m \in LegacyManifests(a), n \in 0..(MaxAttempts - 1),
               c \in 0..(a.texts + a.photos) : r = LegacyRow(m, n, c)
      BY <2>1 DEF LegacySeeds, LegacyRows
    <3>2. r.man = m BY <3>1 DEF LegacyRow, Absent
    <3>3. a \in [texts: Nat, photos: Nat] BY AnswersAssumption
    <3>4. m.texts = a.texts /\ m.photos = a.photos BY <3>3, LegacyManifestFields
    <3>5. QED BY <3>2, <3>4 DEF TextedShapes
  <2>2. CASE r = Absent BY <2>2 DEF Absent, NoManifest
  <2>3. QED BY <2>1, <2>2 DEF InitialRows
<1>2. PICK r \in InitialRows : row = [k \in Jobs |-> IF FirstJob(k) THEN r ELSE Absent]
  <2>1. Absent \in InitialRows BY DEF InitialRows
  <2>2. QED BY <2>1 DEF Init
<1>3. Absent \in InitialRows BY DEF InitialRows
<1>4. QED BY <1>1, <1>2, <1>3 DEF AllTexted, Texted

LEMMA TextedKept ==
  ASSUME ~MayStall, TextedShapes
  PROVE  Spec => []AllTexted
<1>1. Init => AllTexted BY InitTexted
<1>2. DeliveryInvariant /\ AllTexted /\ [Next]_vars => AllTexted' BY StepKeepsTexted
<1>3. QED BY <1>1, <1>2, DeliveryKept, PTL DEF Spec

(* While only pictures are pending, nothing fails the job: out of attempts *)
(* it gives the pictures up and goes on with the text, and a rejected send *)
(* skips its picture, so an optional picture never costs the student the   *)
(* validated answer (_degrade_exhausted_photo_phase_locked).               *)
THEOREM PicturesAreOptional ==
  ASSUME ~MayStall, TextedShapes
  PROVE  Spec => PicturesNeverFailTheJob
<1>1. DeliveryInvariant /\ AllTexted /\ [Next]_vars =>
        [\A j \in Jobs : IsActive(j) /\ PendingPhotos(row[j]) =>
           row'[j].status # "FAILED"]_vars
  <2> SUFFICES ASSUME DeliveryInvariant, AllTexted, [Next]_vars, NEW j \in Jobs,
                      IsActive(j), PendingPhotos(row[j]), row'[j].status = "FAILED"
               PROVE  FALSE
    OBVIOUS
  <2> DEFINE r == row[j]
             q == row'[j]
  <2>1. /\ r \in Receipt /\ Formed(r) /\ r.status # "FAILED"
        /\ r.man.photos > 0 => r.man.texts > 0
    BY DEF DeliveryInvariant, LeaseInvariant, BaseInvariant, CoreInvariant, TypeOK,
           DatabaseTypeOK, AllTold, JobTold, Told, Delivered, IsActive, ActiveStatuses,
           TerminalStatuses, AllTexted, Texted
  <2>2. /\ State(r) \in Progress /\ State(r) = DeliveryState(r.man, r.cursor)
        /\ r.man.photos \in Nat /\ r.man.texts \in Nat
    BY <2>1, RowFields
  <2>3. /\ State(r).photo < r.man.photos
        /\ IF State(r).first THEN State(r).text = r.man.texts ELSE ~State(r).started
    BY <2>2 DEF PendingPhotos
  <2>4. r.man.photos > 0 BY <2>2, <2>3 DEF Progress
  <2>5. CanDegrade(r)
    <3>1. State(r).started => State(r).takeover \/ (State(r).first /\ State(r).text = r.man.texts)
      BY <2>3
    <3>2. QED BY <2>1, <2>2, <2>4, <3>1 DEF CanDegrade
  <2>6. ~RowMoves(r, q)
    BY <2>1, <2>5 DEF RowMoves, ActiveStatuses, Ended, Receipt
  <2>7. ASSUME NEW w \in Workers, Claim(w, j) PROVE FALSE
    <3>1. q = Claimed(r)
      BY <2>7 DEF Claim, DeliveryInvariant, LeaseInvariant, BaseInvariant, CoreInvariant,
                  TypeOK, DatabaseTypeOK
    <3>2. QED BY <2>1, <3>1, ClaimedMarks
  <2>8. ASSUME NEW w \in Workers, Turn(w), Alive(w), cur[w] = j PROVE FALSE
    <3>1. ~Advances(r, q) BY <2>1 DEF Advances
    <3>2. ~Prepares(w)
      <4>1. ASSUME NEW a \in [texts: Nat, photos: Nat] PROVE q # Stored(r, a)
        BY <2>1, StoredMarks
      <4>2. QED BY <2>8, <4>1 DEF Prepares
    <3>3. Lets(w) BY <2>8, <3>1, <3>2, TurnMoves
    <3>4. \/ ~r.man.made
          \/ /\ TextLeft(r)
             /\ State(r).first \/ (State(r).started /\ ~State(r).takeover)
      <4>1. \A s, e : Ended(r, s, e).status = s BY <2>1 DEF Ended, Receipt
      <4>2. /\ Requeued(r, FALSE).status = "QUEUED"
            /\ [Requeued(r, FALSE) EXCEPT !.attempts = 0].status = "QUEUED"
        BY <2>1 DEF Requeued, Receipt
      <4>3. QED BY <2>1, <2>8, <3>3, <4>1, <4>2, LeavesKinds
    <3>5. r.man.made
      BY <2>4, <2>1 DEF Formed, NoManifest
    <3>6. ~(TextLeft(r) /\ State(r).first)
      BY <2>2, <2>3 DEF TextLeft, Progress
    <3>7. QED BY <2>3, <3>4, <3>5, <3>6
  <2>9. QED BY <2>1, <2>6, <2>7, <2>8, ActiveMoves
<1>2. QED BY <1>1, DeliveryKept, TextedKept, PTL DEF Spec, PicturesNeverFailTheJob
=============================================================================
