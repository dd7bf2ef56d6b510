----------------------------- MODULE EmailProofs -----------------------------
(***************************************************************************)
(* One email, for any number of couriers, relays, attempts and faults: it  *)
(* is sent at most once, asked for at most EMAIL_MAX_ATTEMPTS times, and   *)
(* its three tables tell one story.                                        *)
(***************************************************************************)
EXTENDS Email, FiniteSetTheorems, TLAPS

Sending == {w \in Courier : courier[w].step = "sending"}

\* Every request belongs to an attempt that was allowed to send.
RequestsCounted ==
  /\ requests + Cardinality(Sending) <= EmailAttempts
  /\ requests + Cardinality(Sending) <= email.attempts

\* Whoever may still send claimed within the retry window and is not held longer than
\* MaxHold, so that it sends while the provider remembers the key.
KeyRemembered ==
  /\ emailed <= 1
  /\ keyAge # -1 => emailed = 1
  /\ emailed = 1 /\ keyAge = -1 => since >= KeyRetention
  /\ keyAge <= since
  /\ \A w \in Courier : courier[w].step = "sending" =>
       courier[w].hour < RetryWindow /\ since <= courier[w].hour + MaxHold
  /\ \A w \in Courier : courier[w].step = "sent" => emailed = 1

\* A courier that has claimed knows the number of its attempt, and asks for another
\* only below the limit.
CouriersNumbered ==
  \A w \in Courier :
    /\ courier[w].step \in {"idle", "claiming"} <=> courier[w].attempt = 0
    /\ courier[w].step = "retry_scheduled" => courier[w].attempt < EmailAttempts

\* Past the limit, every attempt more than one costs a fault: it is made only when the
\* holder of the one before has gone without settling it.
AttemptsBounded ==
  /\ email.attempts <= EmailAttempts + 1 + trouble
  /\ email.status \in {"absent", "queued"} => email.attempts = 0
  /\ email.status = "processing" => email.attempts > 0
  /\ email.status = "retry_scheduled" => email.attempts < EmailAttempts
  /\ email.status = "processing" /\ (~email.leased \/ \A w \in Courier : ~HoldsDelivery(w))
       => email.attempts <= EmailAttempts + trouble

EmailInvariant ==
  /\ EmailTypeOK /\ RequestsCounted /\ KeyRemembered /\ CouriersNumbered /\ AttemptsBounded
  /\ EventFollowsDelivery /\ HistoryAgrees

-----------------------------------------------------------------------------
(* What the couriers' moves mean for the count and for the window.         *)

LEMMA SendingIsFinite == IsFiniteSet(Sending) /\ Cardinality(Sending) \in Nat
<1>1. IsFiniteSet(Sending)
  BY EmailAssumption, FS_Subset DEF Sending
<1> QED
  BY <1>1, FS_CardinalityType

\* Nobody more sends.
LEMMA NobodyMoreSends ==
  ASSUME EmailTypeOK, EmailTypeOK', RequestsCounted, requests' = requests,
         email.attempts <= email'.attempts, Sending' \subseteq Sending
  PROVE  RequestsCounted'
<1>1. Cardinality(Sending') <= Cardinality(Sending) /\ Cardinality(Sending') \in Nat
  BY SendingIsFinite, FS_Subset, FS_CardinalityType
<1>2. /\ email.attempts \in Int /\ email'.attempts \in Int /\ requests \in Int
      /\ EmailAttempts \in Int /\ Cardinality(Sending) \in Nat
  BY SendingIsFinite, EmailAssumption
  DEF EmailTypeOK, DeliveryRow, LastAttempt
<1> QED
  BY <1>1, <1>2 DEF RequestsCounted

\* One that was sending has asked.
LEMMA OneHasAsked ==
  ASSUME EmailTypeOK, EmailTypeOK', RequestsCounted, requests' = requests + 1,
         email' = email, NEW w \in Sending, Sending' = Sending \ {w}
  PROVE  RequestsCounted'
<1>1. Cardinality(Sending') = Cardinality(Sending) - 1
  BY SendingIsFinite, FS_RemoveElement
<1>2. /\ email.attempts \in Int /\ requests \in Int
      /\ EmailAttempts \in Int /\ Cardinality(Sending) \in Nat
  BY SendingIsFinite, EmailAssumption
  DEF EmailTypeOK, DeliveryRow, LastAttempt
<1> QED
  BY <1>1, <1>2 DEF RequestsCounted

\* One more may send, with an attempt of its own.
LEMMA OneMoreSends ==
  ASSUME EmailTypeOK, EmailTypeOK', RequestsCounted, requests' = requests,
         email'.attempts = email.attempts + 1, email'.attempts <= EmailAttempts,
         NEW w \in Courier, Sending' = Sending \cup {w}
  PROVE  RequestsCounted'
<1>1. Cardinality(Sending') <= Cardinality(Sending) + 1
  <2>1. Cardinality(Sending \cup {w}) =
          IF w \in Sending THEN Cardinality(Sending) ELSE Cardinality(Sending) + 1
    BY SendingIsFinite, FS_AddElement
  <2> QED
    BY <2>1, SendingIsFinite
<1>2. Cardinality(Sending') \in Nat
  <2>1. IsFiniteSet(Sending \cup {w})
    BY SendingIsFinite, FS_AddElement
  <2> QED
    BY <2>1, FS_CardinalityType
<1>3. /\ email.attempts \in Int /\ email'.attempts \in Int /\ requests \in Int
      /\ EmailAttempts \in Int /\ Cardinality(Sending) \in Nat
  BY SendingIsFinite, EmailAssumption
  DEF EmailTypeOK, DeliveryRow, LastAttempt
<1> QED
  BY <1>1, <1>2, <1>3 DEF RequestsCounted

-----------------------------------------------------------------------------
(* What is kept when a part of the state is.                               *)

LEMMA WindowKept ==
  ASSUME KeyRemembered, UNCHANGED <<emailed, keyAge, since>>,
         \A x \in Courier : courier'[x].step = courier[x].step
                            \/ courier'[x].step \notin {"sending", "sent"},
         \A x \in Courier : courier'[x].step = "sending" => courier'[x].hour = courier[x].hour
  PROVE  KeyRemembered'
BY DEF KeyRemembered

LEMMA BoundsKept ==
  ASSUME EmailTypeOK, EmailTypeOK', AttemptsBounded, email' = email,
         \/ trouble' = trouble + 1
         \/ trouble' = trouble /\ \A x \in Courier : HoldsDelivery(x) => HoldsDelivery(x)'
  PROVE  AttemptsBounded'
<1>1. email.attempts \in Int /\ EmailAttempts \in Int /\ trouble \in Int
  BY EmailAssumption DEF EmailTypeOK, DeliveryRow, LastAttempt
<1> QED
  BY <1>1 DEF AttemptsBounded

LEMMA StoryKept ==
  ASSUME EventFollowsDelivery, HistoryAgrees, UNCHANGED <<email, attempted, emailed>>,
         event'.status = "consumed" <=> event.status = "consumed"
  PROVE  EventFollowsDelivery' /\ HistoryAgrees'
BY DEF EventFollowsDelivery, HistoryAgrees

\* A courier that leaves its job.
LEMMA CourierLeaves ==
  ASSUME EmailTypeOK, CouriersNumbered, NEW w \in Courier,
         courier' = [courier EXCEPT ![w] = Waits]
  PROVE  /\ courier' \in [Courier -> CourierState]
         /\ \A x \in Courier : courier'[x] = IF x = w THEN Waits ELSE courier[x]
         /\ Sending' \subseteq Sending
         /\ CouriersNumbered'
<1>1. Waits \in CourierState
  BY EmailAssumption DEF Waits, CourierState, LastAttempt
<1>2. courier' \in [Courier -> CourierState]
  BY <1>1 DEF EmailTypeOK
<1>3. \A x \in Courier : courier'[x] = IF x = w THEN Waits ELSE courier[x]
  BY DEF EmailTypeOK
<1>4. Sending' \subseteq Sending
  BY <1>3 DEF Sending, Waits
<1>5. CouriersNumbered'
  BY <1>3 DEF CouriersNumbered, Waits
<1> QED
  BY <1>2, <1>3, <1>4, <1>5

-----------------------------------------------------------------------------
(* The relays' steps touch the event and its job alone.                    *)

RelaySteps ==
  \/ \E r \in Relay : Publishing(r) \/ PublishFails(r) \/ RelayDies(r)
  \/ EventDue

LEMMA RelayStep == EmailInvariant /\ RelaySteps => EmailInvariant'
<1> SUFFICES ASSUME EmailInvariant, RelaySteps PROVE EmailInvariant'
  OBVIOUS
<1> DEFINE Shape ==
      /\ RelayKeeps /\ event' \in EventRow
      /\ emailJob' \in {"none", "queued", "active"}
      /\ relay' \in [Relay -> {"idle", "adding", "marking"}]
      /\ \/ trouble' = trouble
         \/ trouble' = trouble + 1 /\ trouble' \in 0..MaxEmailFaults
      /\ event'.status = "consumed" <=> event.status = "consumed"
<1>0. EmailTypeOK
  BY DEF EmailInvariant
<1>1. ASSUME NEW r \in Relay, ClaimEvent(r) PROVE Shape
  BY <1>0, <1>1 DEF ClaimEvent, EmailTypeOK, EventRow
<1>2. ASSUME NEW r \in Relay, AddJob(r) PROVE Shape
  BY <1>0, <1>2 DEF AddJob, Added, EmailTypeOK
<1>3. ASSUME NEW r \in Relay, NEW s \in {"dispatched", "pending"}, DispatchOwn(r, s)
      PROVE  event' \in EventRow /\ (event'.status = "consumed" <=> event.status = "consumed")
  BY <1>0, <1>3 DEF DispatchOwn, EmailTypeOK, EventRow
<1>4. ASSUME NEW r \in Relay, MarkDispatched(r) PROVE Shape
  BY <1>0, <1>3, <1>4 DEF MarkDispatched, EmailTypeOK
<1>5. ASSUME NEW r \in Relay, PublishFails(r) PROVE Shape
  <2>1. emailJob' \in {"none", "queued", "active"}
    BY <1>0, <1>5 DEF PublishFails, Added, EmailTypeOK
  <2>2. trouble' = trouble + 1 /\ trouble' \in 0..MaxEmailFaults
    BY <1>0, <1>5, EmailAssumption DEF PublishFails, EmailFault, EmailTypeOK
  <2> QED
    BY <1>0, <1>3, <1>5, <2>1, <2>2 DEF PublishFails, EmailTypeOK
<1>6. ASSUME NEW r \in Relay, RelayDies(r) PROVE Shape
  <2>2. trouble' = trouble + 1 /\ trouble' \in 0..MaxEmailFaults
    BY <1>0, <1>6, EmailAssumption DEF RelayDies, EmailFault, EmailTypeOK
  <2> QED
    BY <1>0, <1>6, <2>2 DEF RelayDies, EmailTypeOK
<1>7. ASSUME EventDue PROVE Shape
  BY <1>0, <1>7 DEF EventDue, EmailTypeOK, EventRow
<1>8. Shape
  BY <1>1, <1>2, <1>4, <1>5, <1>6, <1>7 DEF RelaySteps, Publishing
<1>9. EmailTypeOK'
  BY <1>0, <1>8 DEF EmailTypeOK, RelayKeeps
<1>10. Sending' \subseteq Sending /\ CouriersNumbered'
  BY <1>8 DEF RelayKeeps, Sending, CouriersNumbered, EmailInvariant
<1>11. RequestsCounted'
  <2>1. email.attempts <= email'.attempts
    BY <1>0, <1>8 DEF RelayKeeps, EmailTypeOK, DeliveryRow, LastAttempt
  <2> QED
    BY <1>0, <1>8, <1>9, <1>10, <2>1, NobodyMoreSends DEF RelayKeeps, EmailInvariant
<1>12. KeyRemembered'
  BY <1>8, WindowKept DEF RelayKeeps, EmailInvariant
<1>13. AttemptsBounded'
  BY <1>0, <1>8, <1>9, BoundsKept DEF RelayKeeps, EmailInvariant, HoldsDelivery
<1>14. EventFollowsDelivery' /\ HistoryAgrees'
  BY <1>8, StoryKept DEF RelayKeeps, EmailInvariant
<1> QED
  BY <1>9, <1>10, <1>11, <1>12, <1>13, <1>14 DEF EmailInvariant

-----------------------------------------------------------------------------
(* A courier that leaves its delivery as it is.                            *)

CourierGoes(w) == ClaimNothing(w) \/ DeliveryThrows(w) \/ CourierDies(w)

LEMMA JobStaysTyped ==
  ASSUME EmailTypeOK, NEW w \in Courier, JobEnds(w)
  PROVE  emailJob' \in {"none", "queued", "active"}
BY DEF JobEnds, EmailTypeOK

LEMMA FaultStaysTyped ==
  ASSUME EmailTypeOK, EmailFault
  PROVE  trouble' = trouble + 1 /\ trouble' \in 0..MaxEmailFaults
BY EmailAssumption DEF EmailFault, EmailTypeOK

LEMMA ConsumedIsTyped ==
  ASSUME EmailTypeOK
  PROVE  Consumed \in EventRow /\ Consumed.status = "consumed"
BY DEF Consumed, EmailTypeOK, EventRow

LEMMA GoneStep ==
  EmailInvariant /\ (\E w \in Courier : CourierGoes(w)) => EmailInvariant'
<1> SUFFICES ASSUME EmailInvariant, NEW w \in Courier, CourierGoes(w) PROVE EmailInvariant'
  OBVIOUS
<1>0. /\ EmailTypeOK /\ CouriersNumbered /\ RequestsCounted /\ KeyRemembered /\ AttemptsBounded
      /\ EventFollowsDelivery /\ HistoryAgrees
  BY DEF EmailInvariant
<1>1. /\ courier' = [courier EXCEPT ![w] = Waits]
      /\ emailJob' \in {"none", "queued", "active"}
      /\ UNCHANGED <<email, attempted, relay, configured, since, keyAge, emailed, requests>>
  BY <1>0, JobStaysTyped
  DEF CourierGoes, ClaimNothing, DeliveryThrows, CourierDies, JobEnds, EmailTypeOK
<1>2. /\ courier' \in [Courier -> CourierState]
      /\ \A x \in Courier : courier'[x] = IF x = w THEN Waits ELSE courier[x]
      /\ Sending' \subseteq Sending /\ CouriersNumbered'
  BY <1>0, <1>1, CourierLeaves
<1>3. \/ trouble' = trouble + 1 /\ trouble' \in 0..MaxEmailFaults
      \/ trouble' = trouble /\ \A x \in Courier : HoldsDelivery(x) => HoldsDelivery(x)'
  <2>1. CASE ClaimNothing(w)
    <3>1. ~HoldsDelivery(w)
      BY <1>0, <2>1 DEF ClaimNothing, CouriersNumbered, AttemptsBounded, HoldsDelivery
    <3> QED
      BY <1>1, <1>2, <2>1, <3>1 DEF ClaimNothing, HoldsDelivery
  <2>2. CASE DeliveryThrows(w) \/ CourierDies(w)
    BY <1>0, <2>2, FaultStaysTyped DEF DeliveryThrows, CourierDies
  <2> QED
    BY <2>1, <2>2 DEF CourierGoes
<1>4. /\ event' \in EventRow
      /\ event'.status = "consumed" <=> event.status = "consumed"
  <2>1. CASE ClaimNothing(w)
    BY <1>0, <2>1, ConsumedIsTyped DEF ClaimNothing, EventFollowsDelivery, EmailTypeOK
  <2>2. CASE DeliveryThrows(w) \/ CourierDies(w)
    BY <1>0, <2>2 DEF DeliveryThrows, CourierDies, EmailTypeOK
  <2> QED
    BY <2>1, <2>2 DEF CourierGoes
<1>5. EmailTypeOK'
  BY <1>0, <1>1, <1>2, <1>3, <1>4 DEF EmailTypeOK
<1>6. RequestsCounted'
  <2>1. email.attempts <= email'.attempts
    BY <1>0, <1>1 DEF EmailTypeOK, DeliveryRow, LastAttempt
  <2> QED
    BY <1>0, <1>1, <1>2, <1>5, <2>1, NobodyMoreSends
<1>7. KeyRemembered'
  BY <1>0, <1>1, <1>2, WindowKept DEF Waits
<1>8. AttemptsBounded'
  BY <1>0, <1>1, <1>3, <1>5, BoundsKept
<1>9. EventFollowsDelivery' /\ HistoryAgrees'
  BY <1>0, <1>1, <1>4, StoryKept
<1> QED
  BY <1>2, <1>5, <1>6, <1>7, <1>8, <1>9 DEF EmailInvariant

-----------------------------------------------------------------------------
(* A delivery is claimed.                                                  *)

\* There is room for the next attempt in the history.
LEMMA RoomForAttempt ==
  ASSUME EmailTypeOK, AttemptsBounded, CanClaim
  PROVE  /\ email.attempts + 1 \in 1..LastAttempt
         /\ email.attempts + 1 <= EmailAttempts + 1 + trouble
<1>1. email.attempts \in Nat /\ EmailAttempts \in Nat \ {0} /\ trouble \in 0..MaxEmailFaults
  BY EmailAssumption DEF EmailTypeOK, DeliveryRow, LastAttempt
<1>2. email.attempts <= EmailAttempts + trouble
  BY <1>1 DEF CanClaim, AttemptsBounded
<1> QED
  BY <1>1, <1>2, EmailAssumption DEF LastAttempt

\* The history of a delivery whose next attempt has begun.
LEMMA NextInHistory ==
  ASSUME EmailTypeOK, AttemptsBounded, HistoryAgrees, CanClaim, NEW s \in {"processing", "blocked"},
         attempted' = NextAttempt(s), email'.status = s, email'.attempts = email.attempts + 1,
         emailed' = emailed
  PROVE  attempted' \in [1..LastAttempt -> AttemptState] /\ HistoryAgrees'
<1>1. email.attempts \in Nat /\ LastAttempt \in Nat
  BY EmailAssumption DEF EmailTypeOK, DeliveryRow, LastAttempt
<1>2. \A n \in 1..LastAttempt :
        attempted'[n] = IF n = email.attempts + 1 THEN s
                        ELSE IF attempted[n] = "processing" THEN "unknown" ELSE attempted[n]
  BY DEF NextAttempt
<1>3. attempted' \in [1..LastAttempt -> AttemptState]
  BY DEF NextAttempt, EmailTypeOK, AttemptState
<1>4. ASSUME NEW n \in 1..LastAttempt
      PROVE  /\ attempted'[n] = "none" <=> n > email'.attempts
             /\ n = email'.attempts => attempted'[n] = email'.status
             /\ n < email'.attempts => attempted'[n] \in {"retry_scheduled", "unknown"}
  <2>1. CASE n > email.attempts + 1
    BY <1>1, <1>2, <2>1 DEF HistoryAgrees
  <2>2. CASE n = email.attempts + 1
    BY <1>1, <1>2, <2>2
  <2>3. CASE n = email.attempts
    <3>1. email.status \in {"retry_scheduled", "processing"}
      BY <1>1, <2>3 DEF CanClaim, AttemptsBounded
    <3>2. attempted[n] = email.status
      BY <2>3 DEF HistoryAgrees
    <3> QED
      BY <1>1, <1>2, <2>3, <3>1, <3>2
  <2>4. CASE n < email.attempts
    BY <1>1, <1>2, <2>4 DEF HistoryAgrees
  <2> QED
    BY <1>1, <2>1, <2>2, <2>3, <2>4
<1> QED
  BY <1>3, <1>4 DEF HistoryAgrees

LEMMA BlockStep ==
  EmailInvariant /\ (\E w \in Courier : Block(w)) => EmailInvariant'
<1> SUFFICES ASSUME EmailInvariant, NEW w \in Courier, Block(w) PROVE EmailInvariant'
  OBVIOUS
<1>0. /\ EmailTypeOK /\ CouriersNumbered /\ RequestsCounted /\ KeyRemembered /\ AttemptsBounded
      /\ EventFollowsDelivery /\ HistoryAgrees
  BY DEF EmailInvariant
<1>1. /\ email'.status = "blocked" /\ email'.attempts = email.attempts + 1
      /\ email' \in DeliveryRow /\ email'.attempts <= EmailAttempts + 1 + trouble
  <2>1. /\ email.attempts + 1 \in 1..LastAttempt
        /\ email.attempts + 1 <= EmailAttempts + 1 + trouble
    BY <1>0, RoomForAttempt DEF Block
  <2>2. email' = [status |-> "blocked", attempts |-> email.attempts + 1, token |-> Unclaimed,
                  leased |-> FALSE, due |-> FALSE]
    BY DEF Block, NoEmail
  <2> QED
    BY <2>1, <2>2 DEF DeliveryRow, Over, LastAttempt
<1>2. /\ courier' \in [Courier -> CourierState]
      /\ \A x \in Courier : courier'[x] = IF x = w THEN Waits ELSE courier[x]
      /\ Sending' \subseteq Sending /\ CouriersNumbered'
  BY <1>0, CourierLeaves DEF Block, JobEnds
<1>3. attempted' \in [1..LastAttempt -> AttemptState] /\ HistoryAgrees'
  BY <1>0, <1>1, NextInHistory DEF Block
<1>4. EmailTypeOK'
  <2>1. event' \in EventRow /\ emailJob' \in {"none", "queued", "active"}
    BY <1>0, ConsumedIsTyped, JobStaysTyped DEF Block
  <2> QED
    BY <1>0, <1>1, <1>2, <1>3, <2>1 DEF Block, EmailTypeOK
<1>5. RequestsCounted'
  <2>1. email.attempts <= email'.attempts
    BY <1>0, <1>1 DEF EmailTypeOK, DeliveryRow, LastAttempt
  <2> QED
    BY <1>0, <1>2, <1>4, <2>1, NobodyMoreSends DEF Block
<1>6. KeyRemembered'
  BY <1>0, <1>2, WindowKept DEF Block, Waits
<1>7. AttemptsBounded'
  BY <1>1 DEF AttemptsBounded, Block
<1>8. EventFollowsDelivery'
  BY <1>0, <1>1, ConsumedIsTyped DEF Block, EventFollowsDelivery, Over
<1> QED
  BY <1>2, <1>3, <1>4, <1>5, <1>6, <1>7, <1>8 DEF EmailInvariant

LEMMA CourierClaims ==
  EmailInvariant /\ (\E w \in Courier : ClaimDelivery(w)) => EmailInvariant'
<1> SUFFICES ASSUME EmailInvariant, NEW w \in Courier, ClaimDelivery(w) PROVE EmailInvariant'
  OBVIOUS
<1> DEFINE n == email.attempts + 1
           step == IF GoesOn(n) THEN "sending" ELSE "failed"
<1>0. /\ EmailTypeOK /\ CouriersNumbered /\ RequestsCounted /\ KeyRemembered /\ AttemptsBounded
      /\ EventFollowsDelivery /\ HistoryAgrees
  BY DEF EmailInvariant
<1>1. n \in 1..LastAttempt /\ n <= EmailAttempts + 1 + trouble
  BY <1>0, RoomForAttempt DEF ClaimDelivery
<1>2. /\ email' = [status |-> "processing", attempts |-> n, token |-> w, leased |-> TRUE,
                   due |-> FALSE]
      /\ email' \in DeliveryRow
  <2>1. email' = [status |-> "processing", attempts |-> n, token |-> w, leased |-> TRUE,
                  due |-> FALSE]
    BY DEF ClaimDelivery, NoEmail
  <2> QED
    BY <1>1, <2>1 DEF DeliveryRow, LastAttempt
<1>3. /\ courier'[w].step = step /\ courier'[w].attempt = n /\ courier'[w].hour = since
      /\ \A x \in Courier : x # w => courier'[x] = courier[x]
      /\ courier' \in [Courier -> CourierState]
  <2>1. courier' = [courier EXCEPT ![w] = [@ EXCEPT !.attempt = n, !.hour = since, !.step = step]]
    BY <1>0 DEF ClaimDelivery, EmailTypeOK, CourierState
  <2>2. /\ n \in 0..LastAttempt /\ step \in {"sending", "failed"}
        /\ since \in 0..(KeyRetention + 1)
    BY <1>0, <1>1, EmailAssumption DEF LastAttempt, EmailTypeOK
  <2> HIDE DEF n, step
  <2>3. [courier[w] EXCEPT !.attempt = n, !.hour = since, !.step = step] \in CourierState
    BY <1>0, <2>2 DEF EmailTypeOK, CourierState
  <2> QED
    BY <1>0, <2>1, <2>3 DEF EmailTypeOK, CourierState
<1>4. attempted' \in [1..LastAttempt -> AttemptState] /\ HistoryAgrees'
  BY <1>0, <1>2, NextInHistory DEF ClaimDelivery
<1>5. EmailTypeOK'
  BY <1>0, <1>2, <1>3, <1>4 DEF ClaimDelivery, EmailTypeOK
<1>6. RequestsCounted'
  <2>1. email'.attempts = email.attempts + 1 /\ requests' = requests
    BY <1>2 DEF ClaimDelivery
  <2>2. CASE GoesOn(n)
    <3>1. Sending' = Sending \cup {w}
      BY <1>3, <2>2 DEF Sending
    <3>2. email'.attempts <= EmailAttempts
      BY <2>1, <2>2 DEF GoesOn
    <3> QED
      BY <1>0, <1>5, <2>1, <3>1, <3>2, OneMoreSends
  <2>3. CASE ~GoesOn(n)
    <3>1. Sending' \subseteq Sending
      BY <1>3, <2>3 DEF Sending
    <3>2. email.attempts <= email'.attempts
      BY <1>0, <2>1 DEF EmailTypeOK, DeliveryRow, LastAttempt
    <3> QED
      BY <1>0, <1>5, <2>1, <3>1, <3>2, NobodyMoreSends
  <2> QED
    BY <2>2, <2>3
<1>7. KeyRemembered'
  <2>1. since \in Nat /\ MaxHold \in Nat /\ since' = since
    BY <1>0, EmailAssumption DEF EmailTypeOK, ClaimDelivery
  <2> QED
    BY <1>0, <1>3, <2>1 DEF KeyRemembered, ClaimDelivery, GoesOn
<1>8. CouriersNumbered'
  BY <1>0, <1>1, <1>3 DEF CouriersNumbered
<1>9. AttemptsBounded'
  <2>1. HoldsDelivery(w)'
    BY <1>2, <1>3 DEF HoldsDelivery
  <2> QED
    BY <1>1, <1>2, <2>1 DEF AttemptsBounded, ClaimDelivery
<1>10. EventFollowsDelivery'
  BY <1>2 DEF ClaimDelivery, EventFollowsDelivery, Over
<1> QED
  BY <1>4, <1>5, <1>6, <1>7, <1>8, <1>9, <1>10 DEF EmailInvariant

-----------------------------------------------------------------------------
(* The provider answers.                                                   *)

LEMMA AnswerStep ==
  EmailInvariant /\ (\E w \in Courier : Accept(w) \/ Refuse(w)) => EmailInvariant'
<1> SUFFICES ASSUME EmailInvariant, NEW w \in Courier, Accept(w) \/ Refuse(w)
             PROVE  EmailInvariant'
  OBVIOUS
<1>0. /\ EmailTypeOK /\ CouriersNumbered /\ RequestsCounted /\ KeyRemembered /\ AttemptsBounded
      /\ EventFollowsDelivery /\ HistoryAgrees
  BY DEF EmailInvariant
<1>1. PICK answer \in {"sent", "failed", "retry_scheduled"} :
        /\ courier' = [courier EXCEPT ![w].step = answer]
        /\ answer = "sent" => Accept(w)
        /\ answer = "retry_scheduled" => courier[w].attempt < EmailAttempts
  <2>1. courier[w].attempt \in Int /\ EmailAttempts \in Int
    BY <1>0, EmailAssumption DEF EmailTypeOK, CourierState, LastAttempt
  <2>2. CASE Accept(w)
    <3>1. PICK a \in {"sent", "retry_scheduled"} :
            courier' = [courier EXCEPT ![w].step =
              IF a # "sent" /\ courier[w].attempt >= EmailAttempts THEN "failed" ELSE a]
      BY <2>2 DEF Accept
    <3>2. CASE a # "sent" /\ courier[w].attempt >= EmailAttempts
      BY <3>1, <3>2
    <3>3. CASE ~(a # "sent" /\ courier[w].attempt >= EmailAttempts)
      <4>1. courier' = [courier EXCEPT ![w].step = a]
        BY <3>1, <3>3
      <4>2. a = "retry_scheduled" => courier[w].attempt < EmailAttempts
        BY <2>1, <3>3
      <4> QED
        BY <2>2, <4>1, <4>2, Zenon
    <3> QED
      BY <3>2, <3>3
  <2>3. CASE Refuse(w)
    <3>1. PICK a \in {"failed", "retry_scheduled"} :
            courier' = [courier EXCEPT ![w].step =
              IF courier[w].attempt >= EmailAttempts THEN "failed" ELSE a]
      BY <2>3 DEF Refuse
    <3>2. CASE courier[w].attempt >= EmailAttempts
      BY <3>1, <3>2
    <3>3. CASE ~(courier[w].attempt >= EmailAttempts)
      <4>1. courier' = [courier EXCEPT ![w].step = a]
        BY <3>1, <3>3
      <4>2. courier[w].attempt < EmailAttempts
        BY <2>1, <3>3
      <4>3. a # "sent"
        OBVIOUS
      <4> QED
        BY <4>1, <4>2, <4>3, Zenon
    <3> QED
      BY <3>2, <3>3
  <2> QED
    BY <2>2, <2>3
<1>2. /\ courier[w].step = "sending" /\ SendKeeps /\ requests' = requests + 1
      /\ courier'[w].step = answer /\ courier'[w].attempt = courier[w].attempt
      /\ courier'[w].hour = courier[w].hour
      /\ \A x \in Courier : x # w => courier'[x] = courier[x]
      /\ courier' \in [Courier -> CourierState]
  BY <1>0, <1>1 DEF Accept, Refuse, EmailTypeOK, CourierState
<1>3. \/ /\ keyAge = -1 /\ keyAge' = 0 /\ emailed' = emailed + 1 /\ Accept(w)
      \/ UNCHANGED <<keyAge, emailed>> /\ keyAge # -1 /\ Accept(w)
      \/ UNCHANGED <<keyAge, emailed>> /\ ~Accept(w)
  BY DEF Accept, Refuse
<1>4. KeyRemembered'
  <2>0. courier[w].hour \in Nat /\ since \in Nat
    BY <1>0 DEF EmailTypeOK, CourierState
  <2>1. since < KeyRetention /\ since' = since /\ keyAge \in Int /\ emailed \in Nat
        /\ KeyRetention \in Nat
    BY <1>0, <1>2, <2>0, EmailAssumption DEF KeyRemembered, EmailTypeOK, SendKeeps
  <2>2. emailed' \in {0, 1} /\ (Accept(w) => emailed' = 1) /\ (emailed = 1 => emailed' = 1)
    <3>1. keyAge = -1 => emailed = 0
      BY <1>0, <2>0, <2>1 DEF KeyRemembered
    <3> QED
      BY <1>0, <1>3, <2>1, <3>1 DEF KeyRemembered
  <2> QED
    BY <1>0, <1>1, <1>2, <1>3, <2>0, <2>1, <2>2 DEF KeyRemembered
<1>5. EmailTypeOK'
  <2>1. keyAge' \in -1..(KeyRetention - 1) /\ emailed' \in Nat /\ requests' \in Nat
    BY <1>0, <1>2, <1>3, EmailAssumption DEF EmailTypeOK
  <2> QED
    BY <1>0, <1>2, <2>1 DEF SendKeeps, EmailTypeOK
<1>6. RequestsCounted'
  <2>1. w \in Sending /\ Sending' = Sending \ {w}
    BY <1>1, <1>2 DEF Sending
  <2> QED
    BY <1>0, <1>2, <1>5, <2>1, OneHasAsked DEF SendKeeps
<1>7. CouriersNumbered'
  BY <1>0, <1>1, <1>2 DEF CouriersNumbered
<1>8. AttemptsBounded'
  <2>1. \A x \in Courier : HoldsDelivery(x) => HoldsDelivery(x)'
    BY <1>2 DEF HoldsDelivery, SendKeeps
  <2> QED
    BY <1>0, <1>2, <1>5, <2>1, BoundsKept DEF SendKeeps
<1>9. EventFollowsDelivery' /\ HistoryAgrees'
  <2>1. emailed = 1 => emailed' = 1
    BY <1>0, <1>2, <1>3, <1>4 DEF KeyRemembered, EmailTypeOK
  <2> QED
    BY <1>0, <1>2, <2>1 DEF SendKeeps, EventFollowsDelivery, HistoryAgrees
<1> QED
  BY <1>4, <1>5, <1>6, <1>7, <1>8, <1>9 DEF EmailInvariant

-----------------------------------------------------------------------------
(* A delivery is settled.                                                  *)

LEMMA SettleStep ==
  EmailInvariant /\ (\E w \in Courier : SettleDelivery(w)) => EmailInvariant'
<1> SUFFICES ASSUME EmailInvariant, NEW w \in Courier, SettleDelivery(w) PROVE EmailInvariant'
  OBVIOUS
<1> DEFINE status == courier[w].step
           n == email.attempts
<1>0. /\ EmailTypeOK /\ CouriersNumbered /\ RequestsCounted /\ KeyRemembered /\ AttemptsBounded
      /\ EventFollowsDelivery /\ HistoryAgrees
  BY DEF EmailInvariant
<1>1. /\ courier' \in [Courier -> CourierState]
      /\ \A x \in Courier : courier'[x] = IF x = w THEN Waits ELSE courier[x]
      /\ Sending' \subseteq Sending /\ CouriersNumbered'
      /\ emailJob' \in {"none", "queued", "active"}
  BY <1>0, CourierLeaves, JobStaysTyped DEF SettleDelivery, JobEnds
<1>2. status \in {"sent", "failed", "retry_scheduled"}
  BY DEF SettleDelivery
<1>3. KeyRemembered'
  BY <1>0, <1>1, WindowKept DEF SettleDelivery, Waits
<1>4. CASE ~HoldsDelivery(w)
  <2>1. UNCHANGED <<email, attempted, event>>
    BY <1>4 DEF SettleDelivery
  <2>2. EmailTypeOK'
    BY <1>0, <1>1, <2>1 DEF SettleDelivery, EmailTypeOK
  <2>3. RequestsCounted'
    <3>1. email.attempts <= email'.attempts
      BY <1>0, <2>1 DEF EmailTypeOK, DeliveryRow, LastAttempt
    <3> QED
      BY <1>0, <1>1, <2>2, <3>1, NobodyMoreSends DEF SettleDelivery
  <2>4. AttemptsBounded'
    <3>1. \A x \in Courier : HoldsDelivery(x) => HoldsDelivery(x)'
      BY <1>1, <1>4, <2>1 DEF HoldsDelivery
    <3> QED
      BY <1>0, <2>1, <2>2, <3>1, BoundsKept DEF SettleDelivery
  <2>5. EventFollowsDelivery' /\ HistoryAgrees'
    BY <1>0, <2>1, StoryKept DEF SettleDelivery
  <2> QED
    BY <1>1, <1>3, <2>2, <2>3, <2>4, <2>5 DEF EmailInvariant
<1>5. CASE HoldsDelivery(w)
  <2>1. email.status = "processing" /\ courier[w].attempt = n /\ n \in 1..LastAttempt
    <3>1. n \in 0..LastAttempt
      BY <1>0 DEF EmailTypeOK, DeliveryRow
    <3> QED
      BY <1>0, <1>5, <3>1, EmailAssumption DEF HoldsDelivery, AttemptsBounded, LastAttempt
  <2>2. /\ email' = [status |-> status, attempts |-> n, token |-> Unclaimed,
                     leased |-> FALSE, due |-> FALSE]
        /\ attempted' = [attempted EXCEPT ![n] = IF @ = "processing" THEN status ELSE @]
        /\ event' = Settles(status)
    BY <1>5, <2>1 DEF SettleDelivery, NoEmail
  <2>3. email' \in DeliveryRow
    BY <1>2, <2>1, <2>2 DEF DeliveryRow, Over
  <2>4. attempted[n] = "processing"
    BY <1>0, <2>1 DEF HistoryAgrees
  <2>5. /\ attempted' \in [1..LastAttempt -> AttemptState]
        /\ attempted'[n] = status
        /\ \A m \in 1..LastAttempt : m # n => attempted'[m] = attempted[m]
    BY <1>0, <1>2, <2>1, <2>2, <2>4 DEF EmailTypeOK, AttemptState
  <2>6. event' \in EventRow /\ (event'.status = "consumed" <=> status \in Over)
    <3>1. CASE status \in Over
      BY <1>0, <2>2, <3>1, ConsumedIsTyped DEF Settles
    <3>2. CASE status \notin Over
      BY <1>0, <2>2, <3>2 DEF Settles, EmailTypeOK, EventRow
    <3> QED
      BY <3>1, <3>2
  <2>7. EmailTypeOK'
    BY <1>0, <1>1, <2>3, <2>5, <2>6 DEF SettleDelivery, EmailTypeOK
  <2>8. RequestsCounted'
    <3>1. email.attempts <= email'.attempts
      BY <2>1, <2>2
    <3> QED
      BY <1>0, <1>1, <2>7, <3>1, NobodyMoreSends DEF SettleDelivery
  <2>9. AttemptsBounded'
    <3>1. status = "retry_scheduled" => n < EmailAttempts
      BY <1>0, <2>1 DEF CouriersNumbered
    <3> QED
      BY <1>0, <1>2, <2>1, <2>2, <3>1 DEF AttemptsBounded, SettleDelivery
  <2>10. EventFollowsDelivery'
    BY <2>2, <2>6 DEF EventFollowsDelivery
  <2>11. HistoryAgrees'
    <3>1. status = "sent" => emailed' = 1
      BY <1>0 DEF KeyRemembered, SettleDelivery
    <3>2. status # "none"
      BY <1>2
    <3> QED
      BY <1>0, <2>1, <2>2, <2>5, <3>1, <3>2 DEF HistoryAgrees
  <2> QED
    BY <1>1, <1>3, <2>7, <2>8, <2>9, <2>10, <2>11 DEF EmailInvariant
<1> QED
  BY <1>4, <1>5

-----------------------------------------------------------------------------
(* The other steps.                                                        *)

\* A courier is handed a job, or loses it.
LEMMA JobStep ==
  EmailInvariant /\ (\E w \in Courier : TakeJob(w) \/ CourierStalls(w)) => EmailInvariant'
<1> SUFFICES ASSUME EmailInvariant, NEW w \in Courier, TakeJob(w) \/ CourierStalls(w)
             PROVE  EmailInvariant'
  OBVIOUS
<1>0. /\ EmailTypeOK /\ CouriersNumbered /\ RequestsCounted /\ KeyRemembered /\ AttemptsBounded
      /\ EventFollowsDelivery /\ HistoryAgrees
  BY DEF EmailInvariant
<1>1. /\ courier' \in [Courier -> CourierState]
      /\ \A x \in Courier : /\ courier'[x].attempt = courier[x].attempt
                           /\ \/ courier'[x].step = courier[x].step
                              \/ courier'[x].step = "claiming" /\ courier[x].step = "idle"
      /\ \A x \in Courier : courier'[x].step = "sending" => courier'[x].hour = courier[x].hour
      /\ emailJob' \in {"none", "queued", "active"}
  <2>1. CASE TakeJob(w)
    <3> DEFINE new == [Waits EXCEPT !.step = "claiming", !.owns = TRUE]
    <3>1. courier' = [courier EXCEPT ![w] = new]
      BY <2>1 DEF TakeJob
    <3>2. new \in CourierState /\ new.step = "claiming" /\ new.attempt = 0
      <4>1. /\ Waits \in CourierState /\ Waits.attempt = 0
        BY EmailAssumption DEF CourierState, LastAttempt, Waits
      <4> QED
        BY <4>1 DEF CourierState
    <3> HIDE DEF new
    <3>3. courier[w].step = "idle" /\ courier[w].attempt = 0 /\ emailJob' = "active"
      BY <1>0, <2>1 DEF TakeJob, CouriersNumbered
    <3> QED
      BY <1>0, <3>1, <3>2, <3>3 DEF EmailTypeOK
  <2>2. CASE CourierStalls(w)
    BY <1>0, <2>2 DEF CourierStalls, EmailTypeOK, CourierState
  <2> QED
    BY <2>1, <2>2
<1>2. UNCHANGED <<attempted, event, relay, configured, since, keyAge, emailed, requests>>
  BY DEF TakeJob, CourierStalls
<1>3. \/ email' = email /\ trouble' = trouble
      \/ email' = email /\ trouble' = trouble + 1 /\ trouble' \in 0..MaxEmailFaults
      \/ /\ email' = [email EXCEPT !.leased = FALSE] /\ email.status = "processing"
         /\ trouble' = trouble + 1 /\ trouble' \in 0..MaxEmailFaults
  BY <1>0, FaultStaysTyped DEF TakeJob, CourierStalls, HoldsDelivery
<1>4. /\ email' \in DeliveryRow /\ email'.status = email.status /\ email'.attempts = email.attempts
      /\ trouble' \in 0..MaxEmailFaults
  BY <1>0, <1>3 DEF EmailTypeOK, DeliveryRow
<1>5. EmailTypeOK'
  BY <1>0, <1>1, <1>2, <1>4 DEF EmailTypeOK
<1>6. RequestsCounted'
  <2>1. Sending' \subseteq Sending
    BY <1>1 DEF Sending
  <2>2. email.attempts <= email'.attempts
    BY <1>0, <1>4 DEF EmailTypeOK, DeliveryRow, LastAttempt
  <2> QED
    BY <1>0, <1>2, <1>5, <2>1, <2>2, NobodyMoreSends
<1>7. KeyRemembered'
  BY <1>0, <1>1, <1>2, WindowKept
<1>8. CouriersNumbered'
  BY <1>0, <1>1 DEF CouriersNumbered
<1>9. AttemptsBounded'
  <2>1. CASE email' = email
    <3>1. \A x \in Courier : HoldsDelivery(x) => HoldsDelivery(x)'
      BY <1>1, <2>1 DEF HoldsDelivery
    <3> QED
      BY <1>0, <1>3, <1>5, <2>1, <3>1, BoundsKept
  <2>2. CASE trouble' = trouble + 1
    <3>1. email.attempts \in Int /\ EmailAttempts \in Int /\ trouble \in Int
      BY <1>0, EmailAssumption DEF EmailTypeOK, DeliveryRow, LastAttempt
    <3> QED
      BY <1>0, <1>4, <2>2, <3>1 DEF AttemptsBounded
  <2> QED
    BY <1>3, <2>1, <2>2
<1>10. EventFollowsDelivery' /\ HistoryAgrees'
  BY <1>0, <1>2, <1>4 DEF EventFollowsDelivery, HistoryAgrees
<1> QED
  BY <1>5, <1>6, <1>7, <1>8, <1>9, <1>10 DEF EmailInvariant

\* The email is created, a stalled job is found, a due time or a lease passes, the
\* workers are restarted.
OtherSteps == CreateEmail \/ StalledEmail \/ EmailDue \/ Reconfigure

LEMMA OtherStep == EmailInvariant /\ OtherSteps => EmailInvariant'
<1> SUFFICES ASSUME EmailInvariant, OtherSteps PROVE EmailInvariant'
  OBVIOUS
<1>0. /\ EmailTypeOK /\ CouriersNumbered /\ RequestsCounted /\ KeyRemembered /\ AttemptsBounded
      /\ EventFollowsDelivery /\ HistoryAgrees
  BY DEF EmailInvariant
<1>1. /\ UNCHANGED <<attempted, courier, relay, since, keyAge, emailed, requests>>
      /\ emailJob' \in {"none", "queued", "active"} /\ configured' \in BOOLEAN
  BY <1>0 DEF OtherSteps, CreateEmail, StalledEmail, EmailDue, Reconfigure, EmailTypeOK
<1>2. /\ trouble' \in 0..MaxEmailFaults
      /\ trouble' = trouble \/ trouble' = trouble + 1
  BY <1>0, FaultStaysTyped
  DEF OtherSteps, CreateEmail, StalledEmail, EmailDue, Reconfigure, EmailTypeOK
<1>3. /\ email' \in DeliveryRow /\ email'.attempts = email.attempts
      /\ \/ email'.status = email.status
         \/ email.status = "absent" /\ email'.status = "queued"
  <2>1. CASE CreateEmail
    BY <1>0, <2>1 DEF CreateEmail, EmailTypeOK, DeliveryRow
  <2>2. CASE EmailDue
    BY <1>0, <2>2 DEF EmailDue, EmailTypeOK, DeliveryRow
  <2>3. CASE StalledEmail \/ Reconfigure
    BY <1>0, <2>3 DEF StalledEmail, Reconfigure, EmailTypeOK
  <2> QED
    BY <2>1, <2>2, <2>3 DEF OtherSteps
<1>4. /\ event' \in EventRow
      /\ \/ event'.status = event.status
         \/ event'.status = "pending" /\ event.status # "consumed"
  <2>1. CASE CreateEmail
    <3>1. event.status # "consumed"
      BY <1>0, <2>1 DEF CreateEmail, EventFollowsDelivery, Over
    <3> QED
      BY <1>0, <2>1, <3>1 DEF CreateEmail, EmailTypeOK, EventRow
  <2>2. CASE StalledEmail \/ EmailDue \/ Reconfigure
    BY <1>0, <2>2 DEF StalledEmail, EmailDue, Reconfigure, EmailTypeOK
  <2> QED
    BY <2>1, <2>2 DEF OtherSteps
<1>5. EmailTypeOK'
  BY <1>0, <1>1, <1>2, <1>3, <1>4 DEF EmailTypeOK
<1>6. RequestsCounted'
  <2>1. Sending' \subseteq Sending /\ requests' = requests
    BY <1>1 DEF Sending
  <2>2. email.attempts <= email'.attempts
    BY <1>0, <1>3 DEF EmailTypeOK, DeliveryRow, LastAttempt
  <2> QED
    BY <1>0, <1>5, <2>1, <2>2, NobodyMoreSends
<1>7. KeyRemembered'
  BY <1>0, <1>1, WindowKept
<1>8. CouriersNumbered'
  BY <1>0, <1>1 DEF CouriersNumbered
<1>9. AttemptsBounded'
  <2>0. email.attempts \in Int /\ EmailAttempts \in Int /\ trouble \in Int
    BY <1>0, EmailAssumption DEF EmailTypeOK, DeliveryRow, LastAttempt
  <2>1. email'.status = "processing" => email.status = "processing"
    BY <1>3
  <2>2. email'.status = "processing" /\ (~email'.leased \/ \A w \in Courier : ~HoldsDelivery(w)')
          => email.attempts <= EmailAttempts + trouble
    <3>1. CASE EmailDue
      <4>1. CASE email.status = "retry_scheduled"
        BY <1>3, <4>1
      <4>2. CASE email.status = "processing" /\ \A w \in Courier : ~HoldsDelivery(w)
        BY <1>0, <4>2 DEF AttemptsBounded
      <4> QED
        BY <3>1, <4>1, <4>2 DEF EmailDue
    <3>2. CASE CreateEmail
      BY <1>0, <3>2 DEF CreateEmail, EmailTypeOK, DeliveryRow
    <3>3. CASE StalledEmail \/ Reconfigure
      <4>1. email' = email
        BY <3>3 DEF StalledEmail, Reconfigure
      <4> QED
        BY <1>0, <1>1, <4>1 DEF AttemptsBounded, HoldsDelivery
    <3> QED
      BY <3>1, <3>2, <3>3 DEF OtherSteps
  <2> QED
    BY <1>0, <1>2, <1>3, <2>0, <2>1, <2>2 DEF AttemptsBounded
<1>10. EventFollowsDelivery'
  <2>1. email.status \in Over <=> email'.status \in Over
    BY <1>3 DEF Over
  <2>2. event'.status = "consumed" <=> event.status = "consumed"
    BY <1>4
  <2> QED
    BY <1>0, <2>1, <2>2 DEF EventFollowsDelivery
<1>11. HistoryAgrees'
  <2>1. CASE email'.status = email.status
    BY <1>0, <1>1, <1>3, <2>1 DEF HistoryAgrees
  <2>2. CASE email.status = "absent" /\ email'.status = "queued"
    <3>1. email.attempts = 0
      BY <1>0, <2>2 DEF AttemptsBounded
    <3> QED
      BY <1>0, <1>1, <1>3, <2>2, <3>1 DEF HistoryAgrees
  <2> QED
    BY <1>3, <2>1, <2>2
<1> QED
  BY <1>5, <1>6, <1>7, <1>8, <1>9, <1>10, <1>11 DEF EmailInvariant

\* An hour passes: when the provider forgets an accepted email, its keys are as old as
\* the first attempt or younger, and nobody who may still send is held so long.
LEMMA HourStep == EmailInvariant /\ HourPasses => EmailInvariant'
<1> SUFFICES ASSUME EmailInvariant, HourPasses PROVE EmailInvariant'
  OBVIOUS
<1>0. /\ EmailTypeOK /\ CouriersNumbered /\ RequestsCounted /\ KeyRemembered /\ AttemptsBounded
      /\ EventFollowsDelivery /\ HistoryAgrees
  BY DEF EmailInvariant
<1>1. UNCHANGED <<email, attempted, event, emailJob, courier, relay, configured, emailed,
                  requests, trouble>>
  BY DEF HourPasses
<1>2. /\ since \in Nat /\ since' = since + 1 /\ since' \in 0..(KeyRetention + 1)
      /\ keyAge \in Int /\ keyAge' \in -1..(KeyRetention - 1)
      /\ keyAge # -1 /\ keyAge' = -1 => keyAge + 1 >= KeyRetention
      /\ keyAge' # -1 => keyAge' = keyAge + 1 /\ keyAge # -1
  BY <1>0, EmailAssumption DEF HourPasses, EmailTypeOK
<1>3. EmailTypeOK'
  BY <1>0, <1>1, <1>2 DEF EmailTypeOK
<1>4. KeyRemembered'
  <2>1. KeyRetention \in Nat /\ MaxHold \in Nat /\ \A w \in Courier : courier[w].hour \in Nat
    BY <1>0, EmailAssumption DEF EmailTypeOK, CourierState
  <2>2. \A w \in Courier : courier'[w].step = "sending" =>
          courier'[w].hour < RetryWindow /\ since' <= courier'[w].hour + MaxHold
    BY <1>0, <1>1, <1>2, <2>1 DEF HourPasses, KeyRemembered
  <2>3. emailed' <= 1 /\ (keyAge' # -1 => emailed' = 1)
    BY <1>0, <1>1, <1>2 DEF KeyRemembered
  <2>4. emailed' = 1 /\ keyAge' = -1 => since' >= KeyRetention
    BY <1>0, <1>1, <1>2, <2>1 DEF KeyRemembered
  <2>5. keyAge' <= since'
    BY <1>0, <1>2 DEF KeyRemembered
  <2> QED
    BY <1>0, <1>1, <2>2, <2>3, <2>4, <2>5 DEF KeyRemembered
<1>5. RequestsCounted' /\ CouriersNumbered'
  BY <1>0, <1>1 DEF RequestsCounted, CouriersNumbered, Sending
<1>6. AttemptsBounded'
  BY <1>0, <1>1, <1>3, BoundsKept DEF HoldsDelivery
<1>7. EventFollowsDelivery' /\ HistoryAgrees'
  BY <1>0, <1>1, StoryKept
<1> QED
  BY <1>3, <1>4, <1>5, <1>6, <1>7 DEF EmailInvariant

-----------------------------------------------------------------------------
LEMMA EmailInitOK == EmailInit => EmailInvariant
<1> SUFFICES ASSUME EmailInit PROVE EmailInvariant
  OBVIOUS
<1> USE EmailAssumption DEF EmailInit, NoEmail, NoEvent, Waits
<1>1. EmailTypeOK
  <2>1. NoEmail \in DeliveryRow /\ NoEvent \in EventRow /\ Waits \in CourierState
    BY DEF DeliveryRow, EventRow, CourierState, LastAttempt
  <2>2. since \in 0..(KeyRetention + 1) /\ keyAge \in -1..(KeyRetention - 1)
    OBVIOUS
  <2> QED
    BY <2>1, <2>2 DEF EmailTypeOK, AttemptState
<1>2. RequestsCounted
  <2>1. Sending = {}
    BY DEF Sending
  <2> QED
    BY <2>1, FS_EmptySet DEF RequestsCounted
<1>3. KeyRemembered /\ CouriersNumbered
  BY DEF KeyRemembered, CouriersNumbered
<1>4. AttemptsBounded /\ EventFollowsDelivery
  BY DEF AttemptsBounded, EventFollowsDelivery, Over
<1>5. HistoryAgrees
  BY DEF HistoryAgrees
<1> QED
  BY <1>1, <1>2, <1>3, <1>4, <1>5 DEF EmailInvariant

LEMMA EmailSteps == EmailInvariant /\ [EmailNext]_emailVars => EmailInvariant'
<1> SUFFICES ASSUME EmailInvariant, [EmailNext]_emailVars PROVE EmailInvariant'
  OBVIOUS
<1>1. CASE EmailNext
  BY <1>1, RelayStep, GoneStep, BlockStep, CourierClaims, AnswerStep, SettleStep, JobStep,
     OtherStep, HourStep
  DEF EmailNext, RelaySteps, CourierGoes, OtherSteps, Delivering
<1>2. CASE UNCHANGED emailVars
  BY <1>2 DEF emailVars, EmailInvariant, EmailTypeOK, RequestsCounted, KeyRemembered,
     CouriersNumbered, AttemptsBounded, EventFollowsDelivery, HistoryAgrees, Sending, HoldsDelivery
<1> QED
  BY <1>1, <1>2

\* Every state of the email delivery satisfies the inductive invariant: the requests made,
\* what the provider remembers and the story its rows tell.
THEOREM EmailInvariantHolds == EmailSpec => []EmailInvariant
BY EmailInitOK, EmailSteps, PTL DEF EmailSpec

\* The email's variables keep their types; no attempt has a number past the bound.
THEOREM EmailTyped == EmailSpec => []EmailTypeOK
<1>1. EmailInvariant => EmailTypeOK
  BY DEF EmailInvariant
<1> QED
  BY <1>1, EmailInvariantHolds, PTL

\* At most one email goes out and at most EMAIL_MAX_ATTEMPTS requests are made, for
\* any number of couriers, relays, crashes and lapsed leases, as long as the provider
\* keeps its keys for the retry window and the time a process may be held within it.
THEOREM OnceEmailed == EmailSpec => []EmailedOnce
<1>1. EmailInvariant => EmailedOnce
  <2> SUFFICES ASSUME EmailInvariant PROVE EmailedOnce
    OBVIOUS
  <2>1. requests \in Int /\ EmailAttempts \in Int
    BY EmailAssumption DEF EmailInvariant, EmailTypeOK
  <2> QED
    BY <2>1, SendingIsFinite DEF EmailInvariant, RequestsCounted, KeyRemembered, EmailedOnce
<1> QED
  BY <1>1, EmailInvariantHolds, PTL

\* The delivery, its attempts and its event tell one story.
THEOREM RowsAlwaysAgree == EmailSpec => []RowsAgree
<1>1. EmailInvariant => RowsAgree
  BY DEF EmailInvariant, RowsAgree
<1> QED
  BY <1>1, EmailInvariantHolds, PTL
=============================================================================
