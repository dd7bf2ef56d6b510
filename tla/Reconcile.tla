------------------------------ MODULE Reconcile ------------------------------
(***************************************************************************)
(* The durable work of one feedback conversation: what is next, and when,  *)
(* is a revision and a due time on its row; a disposable Redis job wakes a *)
(* worker, which claims the revision, derives one action from the state it *)
(* finds (extract, retry, remind, expire or nothing), performs it, and     *)
(* settles the next due time (post-event-feedback/reconciliation, with the *)
(* admission, guards and commit of extraction).                            *)
(*                                                                         *)
(* Revisions and epochs only grow and are only compared for equality with  *)
(* the current one, so a worker carries `fresh`, whether the revision it   *)
(* was started for is still current, and `claim` names the worker whose    *)
(* token is on the fence.  Jobs of older revisions end as stale without an *)
(* effect and are left out: `job` is the job of the current revision.      *)
(* Times are ages and delays in one unit.  What the model answers, the     *)
(* outbox rows and the transcript limit are in Outbox and Ingress.  Of the *)
(* attention reasons only that they are at their capacity is kept: then    *)
(* raising one fails, unless the very reason stands.                       *)
(***************************************************************************)
EXTENDS Integers, FiniteSets

CONSTANTS
  Worker,        \* executions of the conversation processor
  NoWorker,
  Quiet,         \* FEEDBACK_EXTRACT_QUIET_WINDOW_MS
  ParkRetry,     \* FEEDBACK_EXTRACTION_PARK_RETRY_MS
  ParkMax,       \* FEEDBACK_EXTRACTION_PARK_MAX_MS
  RemindEvery,   \* FEEDBACK_REMINDER_AFTER_HOURS
  MaxReminders,  \* FEEDBACK_MAX_REMINDERS
  ExpireAfter,   \* FEEDBACK_EXPIRE_AFTER_HOURS
  MaxInbound,    \* bound: messages of the participant
  MaxFlips,      \* bound: interventions of staff and of the rest of the system
  MaxEvents      \* bound: those, and crashes, stalls, lapsed locks, failed calls

\* A unit is the longest a message waits for its materialization, and reminders
\* and expiry, an hour at least, take longer.
ASSUME ReconcileAssumption ==
  /\ NoWorker \notin Worker
  /\ Quiet \in Nat \ {0} /\ ParkRetry \in Nat \ {0} /\ ParkMax \in Nat \ {0}
  /\ RemindEvery \in Nat \ {0, 1} /\ MaxReminders \in Nat
  /\ ExpireAfter \in Nat \ {0, 1}
  /\ MaxInbound \in Nat /\ MaxFlips \in Nat /\ MaxEvents \in Nat

VARIABLES
  life,       \* lifecycle: "open", or the reason it closed for
  mode,       \* control.mode
  awaiting,   \* awaitingHuman
  flagged,    \* needsAttention
  unread,     \* testimony beyond the extraction cursor
  readings,   \* extractions committed since the last message
  reminders,  \* reminderCount
  parked,     \* age of extraction.parkedSince, or Never
  silence,    \* age of the newest message of the participant
  touched,    \* age of updatedAt
  campaign, consent,
  inbox,      \* a recorded observation waits for materialization
  full,       \* attentionReasons is at its capacity
  due,        \* work.nextActionAt: time still to go, or Never for null
  job,        \* the reconcile job of the current revision
  claim,      \* whose token is on the execution fence
  leased,     \* lease_until is in the future
  mutex,      \* holder of the Redis mutex of the conversation
  wk,         \* the workers
  inbounds, flips, faults

convVars   == <<life, mode, awaiting, flagged>>
readVars   == <<unread, readings, reminders, parked>>
clockVars  == <<silence, touched>>
worldVars  == <<campaign, consent, inbox, full>>
workVars   == <<due, job>>
fenceVars  == <<claim, leased, mutex>>
bounds     == <<inbounds, flips, faults>>
vars == <<convVars, readVars, clockVars, worldVars, workVars, fenceVars, wk, bounds>>

Never == -1
Least(a, b) == IF a <= b THEN a ELSE b
Most(a, b)  == IF a >= b THEN a ELSE b

\* fresh: the worker's revision is current; held: BullMQ still gives it the
\* job; heard: a message arrived that its snapshot does not hold
Idle == [pc |-> "idle", fresh |-> FALSE, held |-> FALSE, heard |-> FALSE,
         todo |-> "none", rung |-> 0]

Init ==
  \* launch: open, under the bot, due at once
  /\ life = "open" /\ mode = "bot" /\ awaiting = FALSE /\ flagged = FALSE
  /\ unread = FALSE /\ readings = 0 /\ reminders = 0 /\ parked = Never
  /\ silence = 0 /\ touched = 0
  /\ campaign = "launched" /\ consent = TRUE /\ inbox = FALSE /\ full = FALSE
  /\ due = 0 /\ job = "waiting"
  /\ claim = NoWorker /\ leased = FALSE /\ mutex = NoWorker
  /\ wk = [w \in Worker |-> Idle]
  /\ inbounds = 0 /\ flips = 0 /\ faults = 0

Fault ==
  /\ flips + faults < MaxEvents
  /\ faults' = faults + 1
  /\ UNCHANGED <<inbounds, flips>>
Flip ==
  /\ flips < MaxFlips /\ flips + faults < MaxEvents
  /\ flips' = flips + 1
  /\ UNCHANGED <<inbounds, faults>>

Goto(w, pc) == wk' = [wk EXCEPT ![w].pc = pc]

\* The fence: token, epoch and an unexpired lease.
Current(w) == claim = w /\ leased

\* The bot may act: what the planner, the admission and the guards all ask.
BotTalks == life = "open" /\ mode = "bot" /\ ~awaiting

\* executionSnapshotGuardReason finds nothing that changed.
Unchanged(w) == wk[w].fresh /\ BotTalks

\* A new revision, due in d.  Whoever wrote it publishes its job, or fails to.
NewRevision(d) ==
  /\ due' = d
  /\ job' \in {"none", "waiting"}

Outdated(f) == [v \in Worker |-> [f[v] EXCEPT !.fresh = FALSE]]

-----------------------------------------------------------------------------
(* The planner.                                                            *)

\* A park is retried once both the due time and the time since the last write
\* to the conversation have passed.
RetryIn == Most(due, ParkRetry - touched)

Rung == reminders + 1

Wait(n) == [do |-> "wait", in |-> n]
Do(act) == [do |-> act, in |-> 0]

\* Retries of a parked extraction end with its park.
Retriable == parked \in 0..(ParkMax - 1)

PlanReading ==
  IF Retriable
  THEN IF RetryIn > 0 THEN Wait(RetryIn) ELSE Do("extract")
  ELSE IF silence < Quiet THEN Wait(Quiet - silence) ELSE Do("extract")

PlanSilence ==
  IF silence >= ExpireAfter THEN Do("expire")
  ELSE IF parked # Never \/ flagged \/ Rung > MaxReminders THEN Wait(ExpireAfter - silence)
  ELSE IF silence >= Rung * RemindEvery THEN Do("remind")
  ELSE Wait(Least(Rung * RemindEvery, ExpireAfter) - silence)

Plan ==
  IF ~BotTalks \/ campaign # "launched" THEN [do |-> "idle", in |-> Never]
  ELSE IF ~consent
       THEN IF silence < ExpireAfter THEN Wait(ExpireAfter - silence) ELSE Do("expire")
  ELSE IF unread /\ (parked = Never \/ Retriable) THEN PlanReading
  ELSE PlanSilence

-----------------------------------------------------------------------------
(* The job, the mutex and the claim.                                       *)

\* BullMQ hands out a delayed job when its delay is over.
Take(w) ==
  /\ wk[w].pc = "idle"
  /\ job = "waiting" /\ due <= 0
  /\ job' = "active"
  /\ wk' = [wk EXCEPT ![w] = [Idle EXCEPT !.pc = "mutex", !.fresh = TRUE, !.held = TRUE]]
  /\ UNCHANGED <<convVars, readVars, clockVars, worldVars, due, fenceVars, bounds>>

Enter(w) ==
  /\ wk[w].pc = "mutex"
  /\ mutex = NoWorker
  /\ mutex' = w
  /\ Goto(w, "admit")
  /\ UNCHANGED <<convVars, readVars, clockVars, worldVars, workVars, claim, leased, bounds>>

\* One transaction: the revision is current and due, nobody holds the claim.
\* The plan is derived from the conversation that was claimed.
Admit(w) ==
  LET next == CASE Plan.do = "extract" -> "admission"
                [] Plan.do \in {"remind", "expire"} -> "look"
                [] OTHER -> "settle"
  IN  /\ wk[w].pc = "admit"
      /\ CASE ~wk[w].fresh \/ due # 0 ->
                Goto(w, "done") /\ UNCHANGED <<claim, leased>>
           [] wk[w].fresh /\ due = 0 /\ leased ->
                Goto(w, "again") /\ UNCHANGED <<claim, leased>>
           [] OTHER ->
                /\ claim' = w /\ leased' = TRUE
                /\ wk' = [wk EXCEPT ![w].pc = next, ![w].todo = Plan.do,
                                    ![w].rung = Rung]
      /\ UNCHANGED <<convVars, readVars, clockVars, worldVars, workVars, mutex, bounds>>

-----------------------------------------------------------------------------
(* Silence: reminders and expiry.                                          *)

\* Both read the conversation again, a snapshot for their transaction.
Look(w) ==
  LET stands == \/ wk[w].todo = "expire"
                \/ /\ wk[w].rung = Rung /\ Rung <= MaxReminders
                   /\ life = "open" /\ mode = "bot" /\ ~flagged /\ parked = Never
                   /\ silence >= Rung * RemindEvery
                   /\ campaign = "launched" /\ consent
  IN  /\ wk[w].pc = "look"
      /\ wk' = [wk EXCEPT ![w].pc = IF stands THEN wk[w].todo ELSE "settle",
                          ![w].heard = FALSE]
      /\ UNCHANGED <<convVars, readVars, clockVars, worldVars, workVars, fenceVars, bounds>>

\* Mutant: only what was materialized counts, not what waits to be.
OvertakenMaterialized(w) == wk[w].heard

\* hasInboundBeyondSnapshot
Overtaken(w) == inbox \/ wk[w].heard

\* Under the phone's lock; markReminded compares the count.  A transcript that
\* is full cancels the row, and nothing is recorded.
Remind(w) ==
  /\ wk[w].pc = "remind"
  /\ \/ /\ ~Overtaken(w) /\ life = "open" /\ wk[w].rung = Rung
        /\ reminders' = Rung
        /\ touched' = 0
     \/ UNCHANGED <<reminders, touched>>
  /\ Goto(w, "settle")
  /\ UNCHANGED <<convVars, unread, readings, parked, silence, worldVars, workVars, fenceVars, bounds>>

\* Under the locks of phone, conversation and campaign.
Expire(w) ==
  /\ wk[w].pc = "expire"
  /\ IF /\ ~Overtaken(w) /\ life = "open" /\ mode = "bot"
        /\ silence >= ExpireAfter /\ campaign = "launched"
     THEN life' = "expired" /\ touched' = 0
     ELSE UNCHANGED <<life, touched>>
  /\ Goto(w, "settle")
  /\ UNCHANGED <<mode, awaiting, flagged, readVars, silence, worldVars, workVars, fenceVars, bounds>>

-----------------------------------------------------------------------------
(* Extraction.                                                             *)

\* What ends a run: "lost" is an error BullMQ retries, like the lost claim; a failed
\* generation is retried, parked or handed over once the claim is released.
Admission(w) ==
  /\ wk[w].pc = "admission"
  /\ IF /\ BotTalks /\ unread /\ silence >= Quiet
        /\ campaign = "launched" /\ consent
     THEN wk' = [wk EXCEPT ![w].pc = "entry", ![w].heard = FALSE]
     ELSE Goto(w, "settle")
  /\ UNCHANGED <<convVars, readVars, clockVars, worldVars, workVars, fenceVars, bounds>>

\* assertProviderEntry, the last look before the call is paid for.
ProviderEntry(w) ==
  /\ wk[w].pc = "entry"
  /\ wk' = [wk EXCEPT ![w] =
       IF ~Current(w) THEN [@ EXCEPT !.pc = "release", !.todo = "lost"]
       ELSE IF \/ campaign # "launched" \/ ~consent
               \/ Overtaken(w) \/ ~Unchanged(w)
            THEN [@ EXCEPT !.pc = "release", !.todo = "superseded"]
       ELSE [@ EXCEPT !.pc = "commit"]]
  /\ UNCHANGED <<convVars, readVars, clockVars, worldVars, workVars, fenceVars, bounds>>

\* The model, or the validation of its answer, fails.
ModelFails(w) ==
  /\ wk[w].pc = "commit"
  /\ \E todo \in {"lost", "park", "handover"} :
       /\ wk' = [wk EXCEPT ![w].pc = "release", ![w].todo = todo]
       /\ IF todo = "lost" THEN Fault ELSE UNCHANGED bounds
  /\ UNCHANGED <<convVars, readVars, clockVars, worldVars, workVars, fenceVars>>

\* Mutant: the commit does not ask for the claim.
CommitUnfenced(w) ==
  /\ wk[w].pc = "commit"
  /\ Goto(w, "settle")
  /\ IF Unchanged(w)
     THEN unread' = FALSE /\ readings' = readings + 1 /\ parked' = Never /\ touched' = 0
     ELSE UNCHANGED <<unread, readings, parked, touched>>
  /\ UNCHANGED <<convVars, reminders, silence, worldVars, workVars, fenceVars, bounds>>

\* The commit renews the lease, which needs the claim.  State that changed
\* leaves the cursor where it is; so does a second call for the reply that was
\* overtaken.  Newer inbound only suppresses what is to be sent: it is looked for
\* when there is a message, and a closing without one does not ask.  A turn that
\* raises attention beyond the capacity is rolled back.
Commit(w) ==
  LET read == /\ unread' = FALSE
              /\ readings' = readings + 1
              /\ parked' = Never
              /\ touched' = 0
              /\ flagged' \in {flagged, TRUE}
  IN  /\ wk[w].pc = "commit"
      /\ IF ~Current(w)
         THEN /\ wk' = [wk EXCEPT ![w].pc = "release", ![w].todo = "lost"]
              /\ UNCHANGED <<convVars, readVars, touched>>
         ELSE \/ /\ full
                 /\ wk' = [wk EXCEPT ![w].pc = "release", ![w].todo = "lost"]
                 /\ UNCHANGED <<convVars, readVars, touched>>
              \/ /\ Goto(w, "settle")
                 /\ \/ /\ Unchanged(w) => Overtaken(w)
                       /\ UNCHANGED <<convVars, readVars, touched>>
                    \/ Unchanged(w) /\ read /\ UNCHANGED <<life, awaiting>>
                    \/ Unchanged(w) /\ read /\ awaiting' = TRUE /\ UNCHANGED life
                    \/ Unchanged(w) /\ read /\ life' = "answered" /\ UNCHANGED awaiting
      /\ UNCHANGED <<mode, reminders, silence, worldVars, workVars, fenceVars, bounds>>

-----------------------------------------------------------------------------
(* Settlement, release, and the fallback that follows a failed generation.  *)

\* Plan again on the current state; a revision that moved on is left alone.
Settle(w) ==
  /\ wk[w].pc = "settle"
  /\ CASE ~Current(w) ->
            /\ wk' = [wk EXCEPT ![w].pc = "release", ![w].todo = "lost"]
            /\ UNCHANGED <<workVars, touched>>
       [] Current(w) /\ ~wk[w].fresh ->
            /\ wk' = [wk EXCEPT ![w].pc = "release", ![w].todo = "superseded"]
            /\ UNCHANGED <<workVars, touched>>
       [] Current(w) /\ wk[w].fresh /\ Plan.do = "idle" ->
            /\ wk' = [wk EXCEPT ![w].pc = "release", ![w].todo = "settled"]
            /\ due' = Never
            /\ touched' = 0
            /\ UNCHANGED job
       [] OTHER ->
            /\ wk' = [Outdated(wk) EXCEPT ![w].pc = "release", ![w].todo = "settled"]
            /\ NewRevision(Plan.in)
            /\ touched' = 0
  /\ UNCHANGED <<convVars, readVars, silence, worldVars, fenceVars, bounds>>

\* Mutant: the release clears the token and leaves the lease.
ReleaseKeepsLease(w) ==
  /\ wk[w].pc = "release"
  /\ claim' = IF claim = w THEN NoWorker ELSE claim
  /\ Goto(w, "done")
  /\ UNCHANGED <<convVars, readVars, clockVars, worldVars, workVars, leased, mutex, bounds>>

Release(w) ==
  /\ wk[w].pc = "release"
  /\ claim' = IF claim = w THEN NoWorker ELSE claim
  /\ leased' = (leased /\ claim # w)
  /\ Goto(w, CASE wk[w].todo \in {"park", "handover"} -> wk[w].todo
               [] wk[w].todo = "lost" -> "again"
               [] OTHER -> "done")
  /\ UNCHANGED <<convVars, readVars, clockVars, worldVars, workVars, mutex, bounds>>

\* fallback.park; its retry is scheduled by a transaction of its own, decided
\* on what the first one returned.
Park(w) ==
  LET since == Most(parked, 0)
  IN  /\ wk[w].pc = "park"
      /\ parked' = since
      /\ touched' = 0
      /\ Goto(w, IF life = "open" /\ since < ParkMax THEN "schedule" ELSE "failed")
      /\ UNCHANGED <<convVars, unread, readings, reminders, silence, worldVars, workVars, fenceVars, bounds>>

ScheduleRetry(w) ==
  /\ wk[w].pc = "schedule"
  /\ NewRevision(ParkRetry)
  /\ touched' = 0
  /\ wk' = [Outdated(wk) EXCEPT ![w].pc = "failed"]
  /\ UNCHANGED <<convVars, readVars, silence, worldVars, fenceVars, bounds>>

\* fallback.apply.  It raises attention, and rolls back when that fails; the job
\* fails either way.
HandOver(w) ==
  /\ wk[w].pc = "handover"
  /\ \/ full /\ UNCHANGED <<awaiting, flagged, due, touched>>
     \/ /\ IF life = "open" /\ mode = "bot"
           THEN awaiting' = TRUE /\ due' = Never
           ELSE UNCHANGED <<awaiting, due>>
        /\ flagged' = TRUE
        /\ touched' = 0
  /\ Goto(w, "failed")
  /\ UNCHANGED <<life, mode, readVars, silence, worldVars, job, fenceVars, bounds>>

\* The job ends: completed and removed, failed and kept, or moved back.  A job
\* that is retried may have used up its attempts.
Leave(w) ==
  /\ wk[w].pc \in {"done", "failed", "again"}
  /\ mutex' = IF mutex = w THEN NoWorker ELSE mutex
  /\ IF wk[w].fresh /\ wk[w].held
     THEN job' \in CASE wk[w].pc = "done"   -> {"none"}
                     [] wk[w].pc = "failed" -> {"failed"}
                     [] OTHER               -> {"waiting", "failed"}
     ELSE UNCHANGED job
  /\ wk' = [wk EXCEPT ![w] = Idle]
  /\ UNCHANGED <<convVars, readVars, clockVars, worldVars, due, claim, leased, bounds>>

-----------------------------------------------------------------------------
(* Failures, and the sweep that repairs them.                              *)

Running(w)  == wk[w].pc \notin {"idle", "mutex"}
Claiming(w) == wk[w].pc \in {"look", "remind", "expire", "admission", "entry",
                             "commit", "settle", "release"}

\* The process dies; BullMQ finds the job stalled.
Crash(w) ==
  /\ wk[w].pc # "idle"
  /\ Fault
  /\ IF wk[w].fresh /\ wk[w].held THEN job' \in {"waiting", "failed"} ELSE UNCHANGED job
  /\ wk' = [wk EXCEPT ![w] = Idle]
  /\ UNCHANGED <<convVars, readVars, clockVars, worldVars, due, fenceVars>>

\* BullMQ believes a busy worker dead and gives its job to another one.
Stall(w) ==
  /\ Running(w) /\ wk[w].fresh /\ wk[w].held
  /\ Fault
  /\ job' = "waiting"
  /\ wk' = [wk EXCEPT ![w].held = FALSE]
  /\ UNCHANGED <<convVars, readVars, clockVars, worldVars, due, fenceVars>>

\* The lease or the mutex runs out: in time when its holder is gone, and as a
\* fault when the heartbeat fails or the run outlasts the mutex.
LeaseEnds ==
  /\ leased
  /\ IF Claiming(claim) THEN Fault ELSE UNCHANGED bounds
  /\ leased' = FALSE
  /\ UNCHANGED <<convVars, readVars, clockVars, worldVars, workVars, claim, mutex, wk>>

MutexEnds ==
  /\ mutex # NoWorker
  /\ IF Running(mutex) THEN Fault ELSE UNCHANGED bounds
  /\ mutex' = NoWorker
  /\ UNCHANGED <<convVars, readVars, clockVars, worldVars, workVars, claim, leased, wk>>

\* Mutant: a failed job that is kept passes for a live one.
SweepMissing ==
  /\ due = 0
  /\ job = "none"
  /\ job' = "waiting"
  /\ UNCHANGED <<convVars, readVars, clockVars, worldVars, due, fenceVars, wk, bounds>>

\* recoverDue: due work without a live job gets one.
Sweep ==
  /\ due = 0
  /\ job \in {"none", "failed"}
  /\ job' = "waiting"
  /\ UNCHANGED <<convVars, readVars, clockVars, worldVars, due, fenceVars, wk, bounds>>

-----------------------------------------------------------------------------
(* The participant, staff and the campaign.                                *)

Arrive ==
  /\ ~inbox
  /\ inbounds < MaxInbound
  /\ inbounds' = inbounds + 1
  /\ inbox' = TRUE
  /\ UNCHANGED <<convVars, readVars, clockVars, campaign, consent, full, workVars, fenceVars, wk, flips, faults>>

\* A message is materialized within a unit of its arrival.  On a conversation
\* that has closed it is kept without work.
Materialize ==
  /\ inbox
  /\ inbox' = FALSE
  /\ IF life = "open"
     THEN /\ unread' = TRUE
          /\ readings' = 0
          /\ \E age \in 0..1 :
               /\ silence' = Least(silence, age)
               /\ touched' = Least(touched, age)
               /\ NewRevision(Most(Quiet - age, 0))
          /\ wk' = [v \in Worker |-> [wk[v] EXCEPT !.fresh = FALSE, !.heard = TRUE]]
     ELSE UNCHANGED <<unread, readings, clockVars, workVars, wk>>
  /\ UNCHANGED <<convVars, reminders, parked, campaign, consent, full, fenceVars, bounds>>

TakeOver ==
  /\ life = "open" /\ mode = "bot"
  /\ Flip
  /\ mode' = "human" /\ awaiting' = FALSE /\ touched' = 0
  /\ UNCHANGED <<life, flagged, readVars, silence, worldVars, workVars, fenceVars, wk>>

\* Mutant: resuming never makes work due.
ResumeBotUndue ==
  /\ life = "open" /\ mode = "human"
  /\ mode' = "bot" /\ awaiting' = FALSE /\ touched' = 0
  /\ NewRevision(due)
  /\ wk' = Outdated(wk)
  /\ UNCHANGED <<life, flagged, readVars, silence, worldVars, fenceVars, bounds>>

\* A new generation; its due time is now if something is unread, and is left as
\* it was otherwise.
ResumeBot ==
  /\ life = "open" /\ mode = "human"
  /\ mode' = "bot" /\ awaiting' = FALSE /\ touched' = 0
  /\ NewRevision(IF unread THEN 0 ELSE due)
  /\ wk' = Outdated(wk)
  /\ UNCHANGED <<life, flagged, readVars, silence, worldVars, fenceVars, bounds>>

\* Staff close, STOP: the due time stays, one more run settles it to null.
Close ==
  /\ life = "open"
  /\ Flip
  /\ life' = "ended" /\ touched' = 0
  /\ UNCHANGED <<mode, awaiting, flagged, readVars, silence, worldVars, workVars, fenceVars, wk>>

\* A delivery becomes uncertain: the dispatcher hands over to a human.
Uncertain ==
  /\ BotTalks
  /\ Flip
  /\ awaiting' = TRUE /\ due' = Never /\ flagged' = TRUE /\ touched' = 0
  /\ UNCHANGED <<life, mode, readVars, silence, worldVars, job, fenceVars, wk>>

ResolveAttention ==
  /\ flagged
  /\ flagged' = FALSE /\ touched' = 0
  /\ UNCHANGED <<life, mode, awaiting, readVars, silence, worldVars, workVars, fenceVars, wk, bounds>>

Pause ==
  /\ campaign = "launched"
  /\ Flip
  /\ campaign' = "paused"
  /\ UNCHANGED <<convVars, readVars, clockVars, consent, inbox, full, workVars, fenceVars, wk>>

\* markCampaignWorkDue: every open conversation is due now, or when it was.
Resume ==
  /\ campaign = "paused"
  /\ campaign' = "launched"
  /\ IF life = "open"
     THEN NewRevision(Most(due, 0)) /\ wk' = Outdated(wk) /\ touched' = 0
     ELSE UNCHANGED <<workVars, wk, touched>>
  /\ UNCHANGED <<convVars, readVars, silence, consent, inbox, full, fenceVars, bounds>>

CloseCampaign ==
  /\ campaign # "closed"
  /\ Flip
  /\ campaign' = "closed"
  /\ UNCHANGED <<convVars, readVars, clockVars, consent, inbox, full, workVars, fenceVars, wk>>

WithdrawConsent ==
  /\ consent
  /\ Flip
  /\ consent' = FALSE
  /\ UNCHANGED <<convVars, readVars, clockVars, campaign, inbox, full, workVars, fenceVars, wk>>

\* Reasons are raised by every part of the system and never taken off the list.
AttentionFills ==
  /\ ~full
  /\ Flip
  /\ full' = TRUE
  /\ UNCHANGED <<convVars, readVars, clockVars, campaign, consent, inbox, workVars, fenceVars, wk>>

\* Hours pass between runs, seconds within one; a call of the model may take
\* its time, the two transactions of a reminder or an expiry do not.
Tick ==
  /\ \A w \in Worker : wk[w].pc \notin {"look", "remind", "expire"}
  /\ silence' = Least(silence + 1, ExpireAfter)
  /\ touched' = Least(touched + 1, ParkRetry)
  /\ parked' = IF parked = Never THEN Never ELSE Least(parked + 1, ParkMax)
  /\ due' = IF due > 0 THEN due - 1 ELSE due
  /\ UNCHANGED <<convVars, unread, readings, reminders, worldVars, job, fenceVars, wk, bounds>>

-----------------------------------------------------------------------------
WorkerStep(w) ==
  \/ Admit(w) \/ Look(w) \/ Remind(w) \/ Expire(w)
  \/ Admission(w) \/ ProviderEntry(w) \/ ModelFails(w) \/ Commit(w)
  \/ Settle(w) \/ Release(w) \/ Park(w) \/ ScheduleRetry(w) \/ HandOver(w)
  \/ Leave(w)

Execute ==
  \E w \in Worker : Take(w) \/ Enter(w) \/ WorkerStep(w) \/ Crash(w) \/ Stall(w)

Environment ==
  \/ Arrive \/ Materialize
  \/ TakeOver \/ ResumeBot \/ Close \/ Uncertain \/ ResolveAttention
  \/ Pause \/ Resume \/ CloseCampaign \/ WithdrawConsent \/ AttentionFills

Next == Execute \/ LeaseEnds \/ MutexEnds \/ Sweep \/ Environment \/ Tick

Spec == Init /\ [][Next]_vars

\* Nothing is late: due work is found and taken, and runs end, before the next
\* unit.
Prompt ==
  /\ \A w \in Worker : wk[w].pc = "idle"
  /\ due = 0 => job = "active"

\* Time passes, workers go on, the queue hands out due jobs, the mutex is
\* polled, maintenance comes round, dead holders lapse, and a recorded message
\* is materialized (Ingress).
Progress ==
  /\ WF_vars(Sweep) /\ WF_vars(Materialize)
  /\ WF_vars(leased /\ ~Claiming(claim) /\ LeaseEnds)
  /\ WF_vars(mutex # NoWorker /\ ~Running(mutex) /\ MutexEnds)
  /\ SF_vars(\E w \in Worker : Take(w))
  /\ \A w \in Worker : SF_vars(Enter(w)) /\ WF_vars(WorkerStep(w))

FairSpec == Spec /\ Progress /\ WF_vars(Tick)

\* The same, when every worker is fast: what fails here fails by design and not
\* because something came late.
PromptNext == Execute \/ LeaseEnds \/ MutexEnds \/ Sweep \/ Environment \/ (Prompt /\ Tick)
PromptSpec == Init /\ [][PromptNext]_vars /\ Progress /\ WF_vars(Prompt /\ Tick)

-----------------------------------------------------------------------------
Pcs == {"idle", "mutex", "admit", "look", "remind", "expire", "admission",
        "entry", "commit", "settle", "release", "park", "schedule",
        "handover", "done", "failed", "again"}
Todos == {"none", "idle", "wait", "extract", "remind", "expire", "lost",
          "superseded", "settled", "park", "handover"}

ConvTypes ==
  /\ life \in {"open", "answered", "expired", "ended"}
  /\ mode \in {"bot", "human"}
  /\ awaiting \in BOOLEAN /\ flagged \in BOOLEAN
  /\ unread \in BOOLEAN
  /\ readings \in Nat
  /\ reminders \in 0..MaxReminders

ClockTypes ==
  /\ parked \in {Never} \cup 0..ParkMax
  /\ silence \in 0..ExpireAfter
  /\ touched \in 0..ParkRetry

WorldTypes ==
  /\ campaign \in {"launched", "paused", "closed"}
  /\ consent \in BOOLEAN /\ inbox \in BOOLEAN /\ full \in BOOLEAN
  /\ inbounds \in Nat /\ flips \in Nat /\ faults \in Nat

WorkTypes ==
  /\ due \in {Never} \cup Nat
  /\ job \in {"none", "waiting", "active", "failed"}
  /\ claim \in Worker \cup {NoWorker}
  /\ leased \in BOOLEAN
  /\ leased => claim \in Worker
  /\ mutex \in Worker \cup {NoWorker}
  /\ wk \in [Worker -> [pc : Pcs, fresh : BOOLEAN, held : BOOLEAN,
                        heard : BOOLEAN, todo : Todos, rung : Nat]]

\* Every variable keeps its type; a due time is null or not in the past of the
\* clock, and only a worker holds a lease.
TypeOK == ConvTypes /\ ClockTypes /\ WorldTypes /\ WorkTypes

\* Nothing the participant said is forgotten: as long as the bot is to answer,
\* unread testimony has a due time that the sweep will find, through every
\* order of settlements, resumes, pauses and takeovers.
UnreadIsDue ==
  BotTalks /\ campaign = "launched" /\ unread => due # Never

\* What was said is extracted once, also by workers that run the same revision
\* at once: the claim lets one of them commit.
ReadOnce == readings <= 1

\* What is done about silence never overtakes an answer, recorded or read into the
\* conversation.  A reminder is sent only into silence, and a conversation that expires
\* leaves nothing unread that it was allowed to read: only a withdrawn consent or a
\* spent park lets testimony lapse.
ActsOnSilence ==
  [][/\ reminders' # reminders => ~unread /\ ~inbox /\ silence >= reminders' * RemindEvery
     /\ life' = "expired" /\ life = "open" =>
          ~inbox /\ (unread => ~consent \/ parked = ParkMax)]_vars

Talking == BotTalks /\ campaign = "launched" /\ consent

\* What the participant said is read in the end, or parked on an incident of
\* the provider, unless a human or the end of the conversation comes first.  A
\* conversation at its attention capacity is another matter: what needs a human
\* then fails, and is tried again for ever.
TestimonyIsServed ==
  Talking /\ unread ~> ~unread \/ parked # Never \/ ~Talking \/ full

\* A parked conversation is tried again while its park lasts.
ParkIsRetried ==
  (Talking /\ unread /\ parked = 0) ~>
    \/ \E w \in Worker : wk[w].pc = "entry"
    \/ ~unread \/ mode = "human" \/ awaiting \/ ~consent
    \/ campaign # "launched" \/ life \in {"answered", "ended"}

\* A conversation the bot holds does not stay open for ever in silence.
SilenceEnds == Talking ~> ~Talking \/ unread
=============================================================================
