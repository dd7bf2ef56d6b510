-------------------------------- MODULE Email --------------------------------
(***************************************************************************)
(* One email: its delivery row, the outbox event that keeps publishing a   *)
(* BullMQ job for it, the relays that publish, the couriers that claim the *)
(* delivery, call the provider outside any transaction and settle it in a  *)
(* second one.  Every claim carries a random token; a relay or a courier   *)
(* holds one claim at a time, so its name and the attempt number stand for *)
(* it.  The clock of the retry window counts in hours; leases and due      *)
(* times are only compared with now, so that the outcome is kept.  A       *)
(* process may be held up anywhere, but between the claim of an attempt    *)
(* and its request for no more than MaxHold hours.                         *)
(***************************************************************************)
EXTENDS Integers, FiniteSets

CONSTANTS
  Courier,          \* slots of the email-worker in a delivery job
  Relay,            \* passes of the outbox relay that may overlap
  Unclaimed,        \* no token
  EmailAttempts,    \* EMAIL_MAX_ATTEMPTS
  RetryWindow,      \* EMAIL_IDEMPOTENCY_WINDOW_MS, in hours
  KeyRetention,     \* how long the provider keeps an idempotency key, in hours
  MaxHold,          \* how long a courier may take from its claim to its request, in hours
  MaxEmailFaults    \* bound: crashes, lapsed leases, failing stores, restarts

ASSUME EmailAssumption ==
  /\ IsFiniteSet(Courier) /\ Unclaimed \notin Courier \cup Relay
  /\ EmailAttempts \in Nat \ {0} /\ RetryWindow \in Nat \ {0}
  /\ KeyRetention \in Nat /\ MaxHold \in Nat /\ RetryWindow + MaxHold <= KeyRetention
  /\ MaxEmailFaults \in Nat

VARIABLES
  email,        \* the row of email_deliveries
  attempted,    \* attempt number -> its row in email_delivery_attempts
  event,        \* the row of email_outbox_events
  emailJob,     \* none, queued, active: finished jobs are removed
  courier,      \* courier -> the delivery job it is in
  relay,        \* relay -> how far its pass is
  configured,   \* whether the workers have a provider
  since,        \* hours since the first attempt started
  keyAge,       \* hours since the provider accepted the email, -1: it knows no key
  emailed,      \* emails the provider sent out
  requests,     \* attempts that reached the provider
  trouble       \* faults so far

emailVars == <<email, attempted, event, emailJob, courier, relay, configured, since,
               keyAge, emailed, requests, trouble>>

LastAttempt == EmailAttempts + 1 + MaxEmailFaults

Over == {"sent", "failed", "blocked"}

NoEmail == [status |-> "absent", attempts |-> 0, token |-> Unclaimed, leased |-> FALSE,
            due |-> FALSE]

NoEvent == [status |-> "absent", token |-> Unclaimed, due |-> FALSE]

\* hour is when the attempt was claimed; owns: BullMQ still grants the job to it.
Waits == [step |-> "idle", attempt |-> 0, hour |-> 0, owns |-> FALSE]

EmailInit ==
  /\ email = NoEmail /\ event = NoEvent
  /\ attempted = [n \in 1..LastAttempt |-> "none"]
  /\ emailJob = "none"
  /\ courier = [w \in Courier |-> Waits]
  /\ relay = [r \in Relay |-> "idle"]
  /\ configured \in BOOLEAN
  /\ since = 0 /\ keyAge = -1 /\ emailed = 0 /\ requests = 0 /\ trouble = 0

EmailFault == trouble < MaxEmailFaults /\ trouble' = trouble + 1

\* create: delivery and event in one transaction; a replay finds them.
CreateEmail ==
  /\ email.status = "absent"
  /\ email' = [email EXCEPT !.status = "queued"]
  /\ event' = [event EXCEPT !.status = "pending", !.due = TRUE]
  /\ UNCHANGED <<attempted, emailJob, courier, relay, configured, since, keyAge, emailed,
                 requests, trouble>>

-----------------------------------------------------------------------------
(* The relay.  due of a publishing event says that its lease is over.      *)

RelayKeeps ==
  UNCHANGED <<email, attempted, courier, configured, since, keyAge, emailed, requests>>

\* claimOutboxBatch.
ClaimEvent(r) ==
  /\ relay[r] = "idle"
  /\ event.status \in {"pending", "publishing", "dispatched"} /\ event.due
  /\ event' = [status |-> "publishing", token |-> r, due |-> FALSE]
  /\ relay' = [relay EXCEPT ![r] = "adding"]
  /\ RelayKeeps /\ UNCHANGED <<emailJob, trouble>>

\* The id of the job is that of the event: adding it twice adds it once.
Added == IF emailJob = "none" THEN "queued" ELSE emailJob

AddJob(r) ==
  /\ relay[r] = "adding"
  /\ emailJob' = Added
  /\ relay' = [relay EXCEPT ![r] = "marking"]
  /\ RelayKeeps /\ UNCHANGED <<event, trouble>>

\* markOutboxDispatched and releaseOutbox, held to the claim.
DispatchOwn(r, status) ==
  event' = IF event.status = "publishing" /\ event.token = r
           THEN [status |-> status, token |-> Unclaimed, due |-> FALSE] ELSE event

MarkDispatched(r) ==
  /\ relay[r] = "marking"
  /\ DispatchOwn(r, "dispatched")
  /\ relay' = [relay EXCEPT ![r] = "idle"]
  /\ RelayKeeps /\ UNCHANGED <<emailJob, trouble>>

\* Redis answers with an error, having added the job or not, or the mark fails: the
\* event is released.
PublishFails(r) ==
  /\ relay[r] \in {"adding", "marking"} /\ EmailFault
  /\ emailJob' \in IF relay[r] = "adding" THEN {emailJob, Added} ELSE {emailJob}
  /\ DispatchOwn(r, "pending")
  /\ relay' = [relay EXCEPT ![r] = "idle"]
  /\ RelayKeeps

RelayDies(r) ==
  /\ relay[r] # "idle" /\ EmailFault
  /\ relay' = [relay EXCEPT ![r] = "idle"]
  /\ RelayKeeps /\ UNCHANGED <<event, emailJob>>

\* available_at or lease_until passes.
EventDue ==
  /\ event.status \in {"pending", "publishing", "dispatched"} /\ ~event.due
  /\ event' = [event EXCEPT !.due = TRUE]
  /\ RelayKeeps /\ UNCHANGED <<emailJob, relay, trouble>>

-----------------------------------------------------------------------------
(* Deliveries.                                                             *)

\* Mutant: a finished job is retained, and its id taken.
JobRetained(w) ==
  /\ courier' = [courier EXCEPT ![w] = Waits]
  /\ emailJob' = IF courier[w].owns THEN "finished" ELSE emailJob

\* A job that ends, however it ends, is removed, unless BullMQ gave it to another.
JobEnds(w) ==
  /\ courier' = [courier EXCEPT ![w] = Waits]
  /\ emailJob' = IF courier[w].owns THEN "none" ELSE emailJob

TakeJob(w) ==
  /\ courier[w].step = "idle" /\ emailJob = "queued"
  /\ emailJob' = "active"
  /\ courier' = [courier EXCEPT ![w] = [Waits EXCEPT !.step = "claiming", !.owns = TRUE]]
  /\ UNCHANGED <<email, attempted, event, relay, configured, since, keyAge, emailed, requests,
                 trouble>>

CanClaim ==
  \/ email.status = "queued"
  \/ email.status = "retry_scheduled" /\ email.due
  \/ email.status = "processing" /\ ~email.leased

Consumed == [event EXCEPT !.status = "consumed", !.token = Unclaimed]

\* claimDelivery of a delivery that is over or held by somebody else.
ClaimNothing(w) ==
  /\ courier[w].step = "claiming"
  /\ event.status = "consumed" \/ ~CanClaim
  /\ event' = IF email.status \in Over THEN Consumed ELSE event
  /\ JobEnds(w)
  /\ UNCHANGED <<email, attempted, relay, configured, since, keyAge, emailed, requests, trouble>>

\* The next attempt: what an expired one did is unknown.
NextAttempt(status) ==
  [n \in 1..LastAttempt |->
     IF n = email.attempts + 1 THEN status
     ELSE IF attempted[n] = "processing" THEN "unknown" ELSE attempted[n]]

\* processWithoutProvider: claimed and blocked in one transaction.
Block(w) ==
  /\ courier[w].step = "claiming" /\ ~configured
  /\ event.status # "consumed" /\ CanClaim
  /\ email' = [NoEmail EXCEPT !.status = "blocked", !.attempts = email.attempts + 1]
  /\ attempted' = NextAttempt("blocked")
  /\ event' = Consumed
  /\ JobEnds(w)
  /\ UNCHANGED <<relay, configured, since, keyAge, emailed, requests, trouble>>

\* Mutant: only the attempts are counted.
GoesOnCounting(n) == n <= EmailAttempts

\* The bounds on automatic sends.
GoesOn(n) == since < RetryWindow /\ n <= EmailAttempts

\* claimDelivery, committed before the provider is called.
ClaimDelivery(w) ==
  LET n == email.attempts + 1
  IN /\ courier[w].step = "claiming" /\ configured
     /\ event.status # "consumed" /\ CanClaim
     /\ email' = [NoEmail EXCEPT !.status = "processing", !.attempts = n, !.token = w,
                                 !.leased = TRUE]
     /\ attempted' = NextAttempt("processing")
     /\ courier' = [courier EXCEPT ![w].attempt = n, ![w].hour = since,
                      ![w].step = IF GoesOn(n) THEN "sending" ELSE "failed"]
     /\ UNCHANGED <<event, emailJob, relay, configured, since, keyAge, emailed, requests, trouble>>

SendKeeps == UNCHANGED <<email, attempted, event, emailJob, relay, configured, since, trouble>>

\* The provider accepts the email, or knows its key, and the answer arrives or is lost.
Accept(w) ==
  /\ courier[w].step = "sending"
  /\ emailed' = IF keyAge = -1 THEN emailed + 1 ELSE emailed
  /\ keyAge' = IF keyAge = -1 THEN 0 ELSE keyAge
  /\ requests' = requests + 1
  /\ \E answer \in {"sent", "retry_scheduled"} :
       courier' = [courier EXCEPT ![w].step =
         IF answer # "sent" /\ courier[w].attempt >= EmailAttempts THEN "failed" ELSE answer]
  /\ SendKeeps

\* The provider refuses, for good or for now.
Refuse(w) ==
  /\ courier[w].step = "sending"
  /\ requests' = requests + 1
  /\ \E answer \in {"failed", "retry_scheduled"} :
       courier' = [courier EXCEPT ![w].step =
         IF courier[w].attempt >= EmailAttempts THEN "failed" ELSE answer]
  /\ SendKeeps /\ UNCHANGED <<keyAge, emailed>>

\* Mutant: the settlement is held to the status alone.
HoldsProcessing(w) == email.status = "processing"

\* The fence of a settlement.
HoldsDelivery(w) ==
  email.status = "processing" /\ email.token = w /\ email.attempts = courier[w].attempt

\* What a settlement makes of the event.
Settles(status) ==
  IF status \in Over THEN Consumed
  ELSE [event EXCEPT !.status = "dispatched", !.token = Unclaimed, !.due = FALSE]

\* markSent, markFailed and markRetryScheduled.
SettleDelivery(w) ==
  LET status == courier[w].step
  IN /\ status \in {"sent", "failed", "retry_scheduled"}
     /\ IF HoldsDelivery(w)
        THEN /\ email' = [NoEmail EXCEPT !.status = status, !.attempts = email.attempts]
             /\ attempted' = [attempted EXCEPT ![courier[w].attempt] =
                                 IF @ = "processing" THEN status ELSE @]
             /\ event' = Settles(status)
        ELSE UNCHANGED <<email, attempted, event>>
     /\ JobEnds(w)
     /\ UNCHANGED <<relay, configured, since, keyAge, emailed, requests, trouble>>

\* A transaction fails or the client throws something unexpected: the job is removed.
DeliveryThrows(w) ==
  /\ courier[w].step # "idle" /\ EmailFault
  /\ JobEnds(w)
  /\ UNCHANGED <<email, attempted, event, relay, configured, since, keyAge, emailed, requests>>

CourierDies(w) ==
  /\ courier[w].step # "idle" /\ EmailFault
  /\ courier' = [courier EXCEPT ![w] = Waits]
  /\ UNCHANGED <<email, attempted, event, emailJob, relay, configured, since, keyAge, emailed,
                 requests>>

\* A courier that is paused loses the lock on its job, and later its lease.
CourierStalls(w) ==
  /\ courier[w].owns /\ EmailFault
  /\ courier' = [courier EXCEPT ![w].owns = FALSE]
  /\ \/ UNCHANGED email
     \/ HoldsDelivery(w) /\ email.leased /\ email' = [email EXCEPT !.leased = FALSE]
  /\ UNCHANGED <<attempted, event, emailJob, relay, configured, since, keyAge, emailed, requests>>

\* A job nobody executes is delivered again, or fails and is removed.
StalledEmail ==
  /\ emailJob = "active" /\ \A w \in Courier : ~courier[w].owns
  /\ emailJob' \in {"queued", "none"}
  /\ UNCHANGED <<email, attempted, event, courier, relay, configured, since, keyAge, emailed,
                 requests, trouble>>

\* next_attempt_at passes, or the lease of an attempt nobody works on.
EmailDue ==
  /\ \/ email.status = "retry_scheduled" /\ ~email.due /\ email' = [email EXCEPT !.due = TRUE]
     \/ /\ email.status = "processing" /\ email.leased
        /\ \A w \in Courier : ~HoldsDelivery(w)
        /\ email' = [email EXCEPT !.leased = FALSE]
  /\ UNCHANGED <<attempted, event, emailJob, courier, relay, configured, since, keyAge, emailed,
                 requests, trouble>>

\* An hour passes, whatever is under way, but for a request that is held too long.  The
\* provider forgets old keys.
HourPasses ==
  /\ \A w \in Courier : courier[w].step = "sending" => since < courier[w].hour + MaxHold
  /\ email.attempts > 0 /\ since < KeyRetention + 1
  /\ since' = since + 1
  /\ keyAge' = IF keyAge = -1 \/ keyAge + 1 >= KeyRetention THEN -1 ELSE keyAge + 1
  /\ UNCHANGED <<email, attempted, event, emailJob, courier, relay, configured, emailed, requests,
                 trouble>>

\* The workers are restarted with or without the provider's key.
Reconfigure ==
  /\ \A w \in Courier : courier[w].step = "idle"
  /\ EmailFault
  /\ configured' = ~configured
  /\ UNCHANGED <<email, attempted, event, emailJob, courier, relay, since, keyAge, emailed,
                 requests>>

-----------------------------------------------------------------------------
Publishing(r) == ClaimEvent(r) \/ AddJob(r) \/ MarkDispatched(r)

Delivering(w) ==
  ClaimNothing(w) \/ Block(w) \/ ClaimDelivery(w) \/ Accept(w) \/ Refuse(w) \/ SettleDelivery(w)

EmailNext ==
  \/ CreateEmail
  \/ \E r \in Relay : Publishing(r) \/ PublishFails(r) \/ RelayDies(r)
  \/ \E w \in Courier : \/ TakeJob(w) \/ Delivering(w)
                        \/ DeliveryThrows(w) \/ CourierDies(w) \/ CourierStalls(w)
  \/ EventDue \/ StalledEmail \/ EmailDue \/ HourPasses \/ Reconfigure

EmailSpec == EmailInit /\ [][EmailNext]_emailVars

-----------------------------------------------------------------------------
DeliveryRow ==
  [status : {"absent", "queued", "processing", "retry_scheduled"} \cup Over,
   attempts : 0..LastAttempt, token : Courier \cup {Unclaimed}, leased : BOOLEAN, due : BOOLEAN]

AttemptState == {"none", "processing", "retry_scheduled", "blocked", "sent", "failed", "unknown"}

EventRow ==
  [status : {"absent", "pending", "publishing", "dispatched", "consumed"},
   token : Relay \cup {Unclaimed}, due : BOOLEAN]

CourierState ==
  [step : {"idle", "claiming", "sending", "sent", "failed", "retry_scheduled"},
   attempt : 0..LastAttempt, hour : 0..(KeyRetention + 1), owns : BOOLEAN]

\* Every variable keeps its type.
EmailTypeOK ==
  /\ email \in DeliveryRow /\ attempted \in [1..LastAttempt -> AttemptState]
  /\ event \in EventRow /\ emailJob \in {"none", "queued", "active"}
  /\ courier \in [Courier -> CourierState]
  /\ relay \in [Relay -> {"idle", "adding", "marking"}]
  /\ configured \in BOOLEAN
  /\ since \in 0..(KeyRetention + 1) /\ keyAge \in -1..(KeyRetention - 1)
  /\ emailed \in Nat /\ requests \in Nat /\ trouble \in 0..MaxEmailFaults

\* Nobody gets an email twice: whatever was lost or repeated, and however late, an
\* attempt is made only while the provider remembers the one it may have accepted.
\* And it is asked at most EMAIL_MAX_ATTEMPTS times.
EmailedOnce == emailed <= 1 /\ requests <= EmailAttempts

\* The event outlives the delivery and no longer: it is consumed exactly when the
\* delivery is over, so nothing is lost between the two rows and nothing published for
\* ever.
EventFollowsDelivery == event.status = "consumed" <=> email.status \in Over

\* The history is the delivery's: only the current attempt may be open, it says what
\* the delivery says, and sent is written only for an email that went out.
HistoryAgrees ==
  /\ \A n \in 1..LastAttempt :
       /\ attempted[n] = "none" <=> n > email.attempts
       /\ n = email.attempts => attempted[n] = email.status
       /\ n < email.attempts => attempted[n] \in {"retry_scheduled", "unknown"}
  /\ email.status = "sent" => emailed = 1

\* The three tables tell one story.
RowsAgree == EventFollowsDelivery /\ HistoryAgrees

\* An email that was asked for ends, whichever process died on the way and whatever
\* became of its job.
EmailSettles == email.status = "queued" ~> email.status \in Over
=============================================================================
