# Formal models of the post-event feedback system

This directory holds TLA+ models of slopform's backend: the WhatsApp conversations that
collect feedback after an event (`src/apps/backend/src/modules/post-event-feedback`,
called PEF below), and the assistant, email and recovery machinery beside them. The
models are checked with TLC on small instances, and the properties that matter most are
proved with TLAPS for every value of the constants. `PROJECT.json` maps every definition
to the lines it stands for.

## 1. The system

The backend is a NestJS modular monolith over PostgreSQL, with MongoDB for the
assistant's threads, Redis/BullMQ for jobs, and a WhatsApp gateway (WASender).
PostgreSQL is the only truth: a job in Redis is a disposable wake-up, carries an
identifier and no data, and may be lost, late, repeated or executed twice. The order of
things is kept by advisory locks (per phone, conversation, campaign), `FOR UPDATE`,
compare-and-set updates, leases with tokens, and a few unique indexes.

### 1.1 Components

| Component | State it keeps | Operations | Modelled in |
|---|---|---|---|
| outbox dispatch (`outbox/`) | `message_outbox`: status, purpose, claim token, lease, context | poll, claim a wave, guard, record, slot, prepare, send, settle, park, quarantine; enqueue and cancel by every producer | `Outbox`, `DispatchPoll`, `MessageDelivery` |
| transports and pacer | Redis slot of the session | send; reserve a slot | `Outbox`, `Pacer` |
| ingress (`ingress/`) | `provider_message_ingress` in `ingress_order`; the phone's session lock | record, redelivery, edit, publish, drain, route, apply (ordinary, unreadable, after closing, STOP) | `Ingress` |
| observed outbound | - | correlate a message seen on the phone with a row; take over | `Outbox` |
| conversation aggregate | lifecycle, control mode, awaiting human, attention, work (revision, due time), execution fence, cursor, park, transcript | pure transitions in `…conversation.state.ts`, writes in its repository | `Outbox`, `Ingress`, `Reconcile` |
| reconciliation | the work columns | plan, admit, settle, remind, expire, wake up, recover | `Reconcile` |
| extraction | fence epoch, token and lease; Redis mutex; cursor; goals, answers, tombstones | admission, guards, provider call, validation, commit, park, fall back, brake | `Reconcile`, `Interview` |
| operator inbox | control mode; answers | take over, resume, close, send, resolve attention; correct, withdraw and record answers | `Outbox`, `Reconcile`, `Interview` |
| campaign lifecycle | `feedback_campaigns.status` | launch, start one conversation, pause, resume, close | `Campaign`; its effects on rows and work in `Outbox`, `Reconcile` |
| maintenance sweeps | a paging cursor per family | re-enqueue pending ingress, due work and summaries | `Recovery` |
| campaign summary | one row: status, attempt, claim, trigger | request, automatic intent, run, publish, fail, recover | `Summary` |
| topic analysis | runs, and one execution slot with an epoch | start, claim, embed, complete, fail, recover | `TopicAnalysis` |
| assistant | turns in PostgreSQL and in MongoDB | create, append, retry, run, three ends, repair, recover | `Assistant` |
| email delivery | deliveries, attempts, outbox events | relay, deliver, retry, settle | `Email` |
| model providers | Redis semaphore | acquire, release | `ProviderCalls` |
| events, participants | status, attendance, consent, records | transitions, corrections, imports | `Campaign`, as a launch meets them |
| matching, simulator, burst, alerts, overview, health, infrastructure, admin application, clustering script | - | pure functions, rigs, read models, clients | - |

`PROJECT.json` lists them with their files and their status.

### 1.2 How they interact

1. Staff launch a campaign for a finished event: one conversation and one intro per
   eligible attendee, each in a transaction of its own.
2. A webhook records an observation under the phone's advisory lock, so that
   `ingress_order` is a commit order, and publishes a materialize job. A worker takes the
   phone's *session* lock and drains the phone's pending rows up to its own. Each row is
   routed to the conversation that is open on the phone, or was last, and applied in a
   transaction: a turn, a new work revision, an acknowledgement, attention, or nothing.
3. The work revision has a due time. A reconcile job for that revision claims the
   execution fence, plans one action from the state it finds, performs it, and settles
   the next due time. Anything that changes the conversation in the meantime makes a new
   revision, and the worker's result is superseded.
4. An extraction asks the model what the unread messages answer, checks the proposal
   against the questionnaire and against what staff decided, and commits answers, goals,
   the cursor and the reply together.
5. What the bot has to say is a row of the outbox, written in the transaction that
   decides it. The recurring dispatch job claims the oldest unresolved row of each
   conversation, looks at the conversation again, and crosses the provider boundary by
   marking the row `attempting`: from then on delivery can no longer be denied.
6. The last conversation that closes asks for the campaign's summary; a person may ask
   for one earlier, and for an analysis of topics. Both are durable rows with attempts
   and leases, and a job that wakes somebody up.
7. Staff, STOP, campaigns and consent change what all of these may do, at any moment.
   Paging scans over PostgreSQL find whatever a lost job left behind.

### 1.3 What is hard here

* Sending at most once over a transport that is not idempotent and sometimes does not
  know what happened, with leases that expire under a worker that is only slow.
* Order: two jobs of a phone, two rows of a conversation, an answer against a reminder, a
  STOP against everything.
* Decisions on snapshots: first guard and send marker; conversation lookup and
  materializing transaction; silence check and reminder; failure and fallback; the
  questionnaire before and after the model call; the attendees of a launch.
* Paying once: a model call, an embedding or an email whose answer was lost, or whose
  result could not be stored.
* Two stores, or two rows, that have to tell one story although no transaction spans
  them.
* Nothing must be forgotten: work without a due time, a due time without a job, a job
  that failed and is kept under its id, a claim whose holder died, a row that became due
  behind a cursor.
* Limits that throw: a full transcript, fifty attention reasons.

The full list, with lines, is under `hazards` in `PROJECT.json`.

## 2. Modules

| Module | Is | Checked by |
|---|---|---|
| `MessageDelivery` | abstract: what a queue of messages promises about each | refined by `Outbox` |
| `Outbox` | the outbound queue of one conversation, all its producers, its dispatchers | `MCOutbox` |
| `DispatchPoll` | the recurring poll over many conversations | `MCBackground` |
| `Ingress` | recording and materialization of what one phone sends | `MCIngress` |
| `Reconcile` | the durable work of one conversation: plan, claim, act, settle | `MCReconcile` |
| `Interview` | the questionnaire of one conversation over many extraction runs | `MCBackground` |
| `Campaign` | the campaign of one event and its launch | `MCBackground` |
| `Summary` | the summary of one campaign | `MCBackground` |
| `TopicAnalysis` | analyses that compete for one slot | `MCBackground` |
| `Assistant` | the turns of one thread, in two stores | `MCBackground` |
| `Recovery` | the paging scans of the maintenance worker | `MCBackground` |
| `ProviderCalls` | the semaphore of calls to the model providers | `MCBackground` |
| `Email` | one email from request to end | `MCBackground` |
| `Pacer` | the spacing of sends on the shared session | `MCBackground` |
| `OutboxProofs`, `IngressProofs`, `ReconcileProofs`, `InterviewProofs`, `EmailProofs`, `AssistantProofs` | theorems about the module of the name | TLAPS |
| `AnalysisProofs` | theorems about `Summary` and `TopicAnalysis` | TLAPS |
| `BackgroundProofs` | theorems about `ProviderCalls`, `DispatchPoll`, `Pacer`, `Campaign`, `Recovery` and `MCBackground` | TLAPS |

The split follows the locks. `Outbox`, `Reconcile` and `Interview` are about one
conversation because every transaction in them takes that conversation's lock; `Ingress`
is about one phone and `Campaign` about one campaign for the same reason; `DispatchPoll`
is what is left of the dispatcher when the life of a single row is taken out: waves,
limits, isolation. Where modules meet, one abstracts the other. The inbound message of
`Outbox` and `Reconcile` is the outcome of `Ingress` (they assume of it what
`EveryMessageIsHandled` says); the reminder of `Reconcile` is `Decide("nudge")` followed
by `EnqueueDecided` in `Outbox`; a lane of `DispatchPoll` is one claim of `Outbox`; a
commit of `Reconcile` is what `Interview` spells out; a close of `Summary` is any of the
ways a conversation ends; what `Recovery` examines is a job of the module it is due in.

### 2.1 MessageDelivery and Outbox

In `MessageDelivery` a message is unwritten, queued, offered to the provider, uncertain,
delivered, rejected or retracted. It is offered at most once; only a queued message can be
retracted; only an offered one is delivered, rejected or becomes uncertain; an uncertain
one may turn out delivered. A retry is not in the promise: that is the point of it. One
late transition is: an observation on the phone may call a rejected message delivered
(section 5).

In `Outbox` one row of `message_outbox` is a number, in `created_at` order. `status`,
`purpose`, `owner` (the claim token) and `live` (the lease) are its columns; `entered` and
`accepted` record what really happened at the provider, which the program does not see;
`late` remembers the rows that committed after a row with a newer `created_at`, because
`created_at` is the *start* of a transaction.

* Dispatcher, one step per transaction: `Claim` (claimDispatchBatch), `FirstGuard`,
  `SettleClaim`, `RecordTurn`, `AwaitSlot` (heartbeat and renewal), `SlotFails`, `Prepare`
  (final guard and send marker), `Enter`, `Return` (the call tells the truth, or that it
  does not know), `Settle`, `Alert` (the attention of a failed send, in a transaction after
  its settlement), `Quarantine`, `Expire`, `Crash`.
* Producers: `AdmitExecution`, `ExtractReply`, `ExtractSilently`, `ExtractClosing`,
  `Decide`/`EnqueueDecided`/`GiveUp` (reminders and notices, decided on a snapshot),
  `TerminalFallback`, `StaffSends`.
* Environment: `InboundArrives` and its four materializations (text, STOP, unreadable,
  transcript full), `TakeOver`, `ResumeBot`, `CloseWithoutCopy`, campaign and consent
  changes, `ReadObserved`/`ApplyObserved`, `AttentionGrows`, `ResolveAttention`.

`Verdict` is the one guard of `dispatch-eligibility` and `dispatch-preparation`, in the
order of the code; `Claimable` is the claim query. `Commitment` is the current commitment
of `current-commitment.ts`: the latest turn of the bot. Every row that is not from staff
is such a turn, the system's notices and the STOP acknowledgement included, because the
transcript service records them all with the actor `bot`.

`attention` is the list of attention reasons as far as the dispatcher depends on it: how
many were raised, of at most `MaxReasons`, and whether the one it raises,
`undelivered_message`, is unresolved. A reason that is not resolved is not raised again;
one more than the limit throws (`CanRaise`). Settling an attempt as ambiguous and
quarantining one raise it in the same transaction, so at capacity both roll back: the
attempt stays as it is, and a poll that meets it throws before it claims (`PollsFail`).

Left out: the `held` status, which no code writes; the rows that are cancelled as they are
born because the transcript is full at the enqueue; provider delivery ticks. The legacy
status `sending` exists only in the initial state.

### 2.2 DispatchPoll and Pacer

A conversation of `DispatchPoll` is the number of messages it has queued and the state of
the oldest one. A poll is `StartPoll` (recovery: one transaction per expired attempt),
`ClaimWave`, one lane per claimed conversation (`LaneResolves`, `LaneDefers`,
`LaneUncertain`), `WaveEnds`, and again until a wave is short or deferred or the limit is
reached; `Crash` and `LeaseExpires` can come at any time. `Full` names the conversations
at their attention capacity, where parking throws; `Broken` those whose messages always
throw before the provider. What the capacity does to one row is in `Outbox`, what it does
to the other conversations here.

`Pacer` is the script and the loop of `waitTurn` around it: a sender draws its jitter
once, asks, sleeps until the boundary it was told, and competes again. A process may wake
late. The key is the only thing they share, and it is not lost in the model.

### 2.3 Ingress

`row` is `provider_message_ingress` by `ingress_order`; `queue` the jobs, whose id is the
row; `pub` the two publishers (webhook, sweep), each between the check and the add of
`ensurePendingQueued`; `lock` the session advisory lock, which PostgreSQL may drop without
the worker noticing. A worker lists a page, looks the conversation up (`Route`, outside a
transaction), applies one row per transaction (`ApplyOrdinary`, `Flag`,
`ApplyPostClosure`, `ApplyStop`, `IgnoreUnmatched`), and releases. A transaction that
throws fails the job (`Throws`). A redelivery with other words becomes a row of its own
(`DeliverEdit`).

A row carries the time the provider gives its message, which need not follow the order of
recording. A turn takes the next number of the conversation (`seq`), and its place in the
stored array is that of its time, a tie going by number (`Behind`, `WithTurn`, as
`sortTranscript` does).

### 2.4 Reconcile

Revisions and epochs only grow and are compared for equality only, so the model keeps
whether a worker's revision is still current (`fresh`) and whose token is on the fence
(`claim`, `leased`). Times are ages of events (`silence`, `touched`, `parked`) and the
delay until the next action (`due`), in one unit. `Plan` is the planner, branch by branch.
A run is `Take`, `Enter` (the Redis mutex), `Admit`, then `Look` and `Remind` or `Expire`,
or `Admission`, `ProviderEntry`, `ModelFails` or `Commit`, then `Settle`, `Release`, the
fallback (`Park`, `ScheduleRetry`, `HandOver`) and `Leave`. `full` is the capacity of the
attention list (`AttentionFills`): a commit that needs a human and the handover of the
fallback then roll back, and the sweep tries again for ever. Left out: the transcript
limit (but for the cancelled reminder), the outbox rows themselves, and what a commit does
to the questionnaire.

### 2.5 Interview

What `Reconcile` leaves out of a commit. `goals`, `stored`, `corrected`, `staffed` and
`withdrawn` are the goal statuses, the answers and the tombstones. A run takes a snapshot,
pays for the model, plans a turn against the snapshot (validation of each verdict, the
status of every goal, the next question or the close) and commits it, or brakes when the
transcript or the attention is full, or stands back when the conversation has `moved`.
Staff correct, withdraw and record answers in between. What the model proposes is a free
choice of verdicts, repeated contradictions and replies included; one person is asked
about; notes, provenance and wording are left out.

### 2.6 Campaign

`ask` is a request of staff: a launch reads the event and the eligible attendees
(`ReadEvent`), finds or creates the campaign (`FindCampaign`, `CreateCampaign`), and then
invites one attendee per transaction under the campaign's row lock (`Invite`), waking the
worker after each commit (`WakeUp`), and at the end reports the phones that were in use
(`Report`). `StartOne` is the same for one latecomer. Pause, resume and close are
`Transition` and `CloseCampaign`. Meanwhile attendance, consent, phones and the event
change, conversations end and intros are dispatched. `present` begins as all attendees
(they were added before the event finished).

### 2.7 Summary and TopicAnalysis

`Summary` is the single row of a campaign, the job named after its attempt, and workers
that claim, read, pay, renew and publish. An attempt number, a token and the time of a
close are only compared with the row's, so the model keeps the outcomes (`current`,
`owns`, `late`, `leased`). A request comes from staff or from the recovery; the close of
the last conversation writes an automatic intent in its own transaction, whose wake-up may
be lost. The simulator switch is part of it, because it turns the automatic intent off.

`TopicAnalysis` has runs that survive any number of attempts, one slot that a claim takes
together with the run, a cache of vectors, and a budget of embedding requests that is
reserved before each request and is not given back by a crash. The reservation and the
request are two steps (`Reserve`, `Embed`), and the request leaves whatever became of the
claim in between. Every transaction of a worker holds both row locks and looks at both
tokens and leases; that it also renews the lease is left out, for a lease lapses when it
will. Crashes, lapsed leases and lost wake-ups are not bounded: attempts are.

### 2.8 Assistant, Email, Recovery, ProviderCalls

`Assistant`: a turn is a row in PostgreSQL, which decides what may run, and an entry of
the thread's MongoDB document, which readers see. Every operation is one step per store,
with a crash or a refused write in between; ends are written to the document first, and
every write is fenced on attempt and status. Partial answers and the live stream are left
out.

`Email`: the delivery, its attempts and its outbox event; relays that publish the event's
job, couriers that claim, call the provider outside of any transaction and settle. The
clock of the retry window counts hours, because what it is compared with, the retention of
the provider's idempotency key, does. A courier may be held between its claim, where it
looks at the window, and its request, for up to `MaxHold` hours: the code leaves one, with
a window of 23 hours against a retention of 24.

`Recovery`: one scan over rows in key order, behind a cursor that all replicas share. A
page is allocated under the cursor's lock and published after the commit; a poisoned row
fails its publication; a dead worker leaves its page behind.

`ProviderCalls`: the sorted set of leases in Redis and the callers around it. Its clock
ticks in minutes and drops leases that ran out. Two things are left out: what a caller
spends on its own guards while it holds the slot, before its timeout starts, and the loss
of the set by Redis.

### 2.9 MCBackground

Ten of the modules have no state in common. `MCBackground` puts them side by side;
`focus`, chosen initially, says which one moves, and the others stay as they begin, so
that the state space is the sum of theirs and not the product. One run asks all of them
its safety properties and one its liveness properties.

## 3. What is checked

### 3.1 Runs that pass

| Run | Properties | Bounds |
|---|---|---|
| `Outbox_safety` | `EnteredAtMostOnce`, `StatusIsTruthful`, `DeliveryKept`, `FifoEntry`, `AuthorityAtEntry` | 2 dispatchers, 2 rows, 1 intervention, 1 fault |
| `Outbox_liveness` | `StopAckLeavesQueue`, `AttemptIsResolved` | 1 dispatcher, 2 rows, 1 intervention, 1 fault |
| `Ingress_order` | `HandledInOrder`, `TranscriptInOrder`, `NothingKeptAfterStop` | 2 workers, 2 messages, 2 rows, pages of 1, 1 fault |
| `Ingress_progress` | `EveryMessageIsHandled` | 2 workers, 1 message, 2 rows, a transcript of 1, 1 fault |
| `Reconcile_safety` | `TypeOK`, `UnreadIsDue`, `ReadOnce`, `ActsOnSilence` | 2 workers, 1 message, 3 events of which 1 intervention |
| `Reconcile_served` | `TestimonyIsServed` | 1 worker, 1 message, 2 events of which 1 intervention |
| `Background_safety` | the 16 of the list below | section 3.3 |
| `Background_progress` | the 8 of the list below | section 3.3 |

The conversation:

* `EnteredAtMostOnce`: no row is handed to the provider twice.
* `StatusIsTruthful`: a queued or cancelled row was never offered; a failed row was never
  taken.
* `DeliveryKept`: `Outbox` implements `MessageDelivery`.
* `FifoEntry`: no row crosses the boundary while an older row, visible before it, is
  unresolved, except staff and the STOP acknowledgement past an ambiguous one.
* `AuthorityAtEntry`: at the crossing, STOP, closing, pause, consent and human control are
  obeyed as they stand *then*; and while a human is awaited nothing crosses but staff and
  the latest turn of the bot, whatever it is (section 5), unless the extraction has read
  past it.
* `StopAckLeavesQueue`, `AttemptIsResolved`: the acknowledgement of a STOP does not wait
  for ever, and no attempt stays with a dead worker. The exception is stated in both: at
  the attention capacity an attempt that has to be parked stays, and polls may fail on it.
* `HandledInOrder`: the participant's messages are settled in the order they were recorded,
  also without the lock.
* `TranscriptInOrder`: the turns of a transcript are numbered in the order of recording,
  without a gap, and stored in the order of observation; a delayed message neither renumbers
  the others nor is missed by the cursor, which counts.
* `NothingKeptAfterStop`: nothing said after a STOP is kept, on the row or in the
  transcript, even where the conversation was looked up before.
* `EveryMessageIsHandled`: lost jobs, failed jobs that are kept, dead workers and lost
  locks only delay a message.
* `UnreadIsDue`: unread testimony has a due time whenever the bot is to answer.
* `ReadOnce`: of workers that run the same revision at once, one commits.
* `ActsOnSilence`: a reminder is sent only into silence, and an expiry leaves nothing
  unread that could have been read.
* `TestimonyIsServed`: what was said is read, or parked, in the end, unless attention is at
  its capacity.

`Background_safety`:

* `BackgroundTypeOK`: the component that moves is well typed.
* `NoContradiction`: nobody is both liked and avoided, however runs and staff alternate.
* `OperatorsDecide`: no run changes a corrected answer or fills a slot staff emptied, also
  when it read the answers before.
* `PaidOnce`: one state of a conversation is paid for once, plus once per lost run.
* `CloseIsEarned`: a bot that closes owes nothing and asks nothing.
* `LaunchAccounts`: a launch leaves no attendee it read without a conversation or an entry
  in the report, unless the campaign is closed under it or it fails.
* `CloseIsTheEnd`: after a close nobody is invited and no intro is queued, whatever was
  under way.
* `FinalSummaryIsComplete`: a summary that recovery would leave alone lacks no closed
  conversation.
* `OnePayer`: two runs are in the model at once only if one lost its lease.
* `AnalysisIsSound`: an analysis sends requests within its budget over all attempts, its
  result is of the last attempt, and the slot names the run executed under it.
* `EndsAreFinal`: the end of a turn that a reader saw stays, until a retry.
* `CallsWithinLimit`: never more calls to the providers than the limit.
* `PollIsBounded`: a poll overshoots its limit by less than a wave.
* `EmailedOnce`, `RowsAgree`: an email goes out once at most, on at most the configured
  number of requests, and its three tables agree.
* `GrantsAreSpaced`: the slot of the session is never granted twice within the interval.
  (The delay of a lane between its grant and its request is its own.)

`Background_progress`:

* `StoresAgree`: PostgreSQL and MongoDB tell the same thread (an invariant, checked here
  with crashes and repeated jobs).
* `SummaryIsServed`, `AnalysisEnds`, `TurnSettles`, `EmailSettles`: a summary, an
  analysis, a turn and an email that were asked for end, and a campaign that is over gets
  its summary.
* `DueRowIsExamined`: a row that stays due is examined, although others become due before
  and after it all the time.
* `SlotComesFree`: slots of dead callers come back.
* `FailuresStayApart`: a lane that fails does not keep the others waiting, unless an
  attempt is left behind that cannot be parked.

### 3.2 Runs that show a disagreement

Each checks one statement of a document, a comment or an intention of the code, and TLC
finds a behaviour of the code against it.

| Run | Statement | What happens |
|---|---|---|
| `Ingress_stop_at_capacity` | "Capacity does not prevent close." (`stop.service.ts`) | the fifty-first attention reason throws and rolls the STOP back, on every retry |
| `Interview_staff_answer` | "marking the goal answered here would also silence the bot's next question" (`conversation.service.ts`) | the next run reads the recorded answer as an accepted one and settles the goal |
| `Reconcile_park_starved` | five-minute retries for six hours (`queues.md`, `jobs.schemas.ts`) | settling the wait moves `updatedAt`, from which the same wait is computed: once the two are out of step the retry is postponed until the park is over |
| `Reconcile_resumed` | an open conversation is not immortal (`planner.ts`) | settled under human control, resumed with nothing unread: no due time, no reminder, no expiry, and the phone stays taken |

`Reconcile_resumed` is checked without reminders, which it does not need; with no
intervention of staff the same property holds on this instance, so the takeover is what
breaks it.

### 3.3 Bounds

Every counter that would grow without limit has a bound in a guard, named in the
CONSTANTS of its module with the word "bound".

* `Outbox`: two rows are enough for an older one in front of a newer one, in either order
  of commit, an ambiguous row and one that would pass it. Two dispatchers and one fault
  are enough for a worker that stalls past its lease while another reclaims the row or
  quarantines the attempt. One attention reason (`MaxReasons`) is enough for both sides of
  the capacity: the reason is raised, or another one took the room.
* `DispatchPoll` (4 conversations with 2 messages, waves of 2, limit 3, 1 fault): full,
  short and deferred waves; a limit of three is overshot by a full second wave;
  conversation 1 cannot be parked, 2 always throws.
* `Ingress`: pages of one make a drain list again between rows; two rows of one message
  give the edit beside its original, and two messages a STOP and what follows. Two observation
  times in `Ingress_order` give each order of observation beside each order of recording,
  and ties; the other runs need one.
* `Reconcile`: for `ReadOnce` three faults have to meet: a stalled job, a lapsed lease and
  a lapsed mutex. `MaxEvents = 3` allows them. A unit is longer than a materialization
  takes and a reminder is at least two units away, as hours are to minutes.
* `Interview` (3 goals: scored, liking, avoiding; 2 messages, 1 decision of staff, 1 lost
  run, proposals about one goal at a time): a contradiction needs the two directed goals
  in two runs, a stale plan one decision between snapshot and commit.
* `Campaign` (2 attendees with one handset, 2 requests at once, 2 in all, 1 change, 1
  fault): two launches meet each other's conversation, a phone in use and a close.
* `Summary` (2 workers, 2 conversations, jobs of 1 attempt, 1 fault; for liveness 1
  worker, 1 conversation, jobs of 2): a second worker for the lapsed lease, a second
  conversation for a close between read and publication.
* `TopicAnalysis` (2 runs, 2 processes, 1 batch, 2 attempts, 1 request per run; for
  liveness 1 process): the budget is spent by the first attempt and missing in the second.
* `Assistant` (1 generator, 1 browser): in `Background_safety` 2 turns of 2 attempts whose
  jobs are executed once, without a fault (a turn is appended while recovery and a late
  execution still write the end of the one before); in `Background_progress` 1 turn of 2
  attempts whose jobs are executed twice, with 1 fault, which is enough to leave one store
  behind, at the end of an attempt or at its retry. The instance with all of it (2 turns,
  2 attempts, 2 executions, 1 fault) was checked for the inductive invariant of section 4.
* `Recovery` (2 keys of which 1 is poisoned, 2 replicas, pages of 1, 2 rows a pass, 1
  crash): the row asked about is the one behind the poisoned one. `ProviderCalls` (3
  calls, limit 2, timeout 2, lease 3, 2 crashes). `Email` (2 couriers, 2 relays, 2
  attempts, a window of 2 hours, a retention of 3, a hold of 1, 1 fault; for liveness 1
  courier, 1 relay, and 1, 2 and 1 hours). `Pacer` (2 senders, interval 3, jitter up to 1,
  12 ticks: four slots and a sender that wakes late).

Symmetry over `Worker` is used in the runs without liveness only. Deadlock is not checked:
a bounded instance legitimately stops when its rows, messages and faults are used up and
everything is settled.

### 3.4 Fairness

* `Outbox`: weak fairness of each worker's steps (a process that is not crashed goes on),
  of the claim by an idle worker (the poll repeats every few seconds) as long as its poll
  does not throw in the quarantine (`~PollsFail`), of quarantine (part of every poll), and
  of the expiry of leases whose holder is gone (time passes). None for producers, staff or
  the participant.
* `Ingress`: weak for the publishers and workers; strong for `Sweep` of a row (the
  maintenance cursor comes round, though not at any fixed moment), for `Take` (BullMQ
  serves its list) and `Lock` (PostgreSQL grants locks in the order of requests). The
  provider delivers an edit in the end (weak for `DeliverEdit`).
* `Reconcile`: weak for the sweep, materialization, lapse of abandoned leases and worker
  steps, strong for taking a job and entering the mutex, which several runs compete for;
  `FairSpec` lets time pass whatever happens. `PromptSpec` adds that due work is done
  before the clock moves on: a violation under it is not a matter of lateness.
* `MCBackground`: the recurring passes come round (`SummaryFair`, `AssistantFair`,
  `RecoveryFair`, `PollFair`, the relay in `EmailFair`); BullMQ hands out waiting jobs and
  finds stalled ones; leases and delays run out because time passes; a process that is not
  crashed goes on with what it has begun. Strong fairness is used once, for the claim of an
  analysis by some process: its delayed job comes again and again while another run holds
  the slot now and then. Nothing is assumed of browsers, staff, new requests or faults.
  `Interview`, `Campaign` and `Pacer` have safety properties only.

Nothing is assumed about the providers and the models: a call ends, with any result.

## 4. What is proved

TLAPS checks the theorems below for any sets of workers, rows, attendees, goals, turns,
runs and calls and any bounds, under the named assumptions of the modules. Most of these
say that a name for nobody (`NoWorker`, `NoRunner`, `Unclaimed`, ...) is nobody's name,
that bounds are naturals and limits positive. The assumptions of substance are:

* `Interview`: a goal is scored, liked or avoided, and only one of them.
* `ProviderCalls`: `SlotLease > CallTimeout`; `Email`: `RetryWindow + MaxHold <=
  KeyRetention`. They relate configured constants to what the outside and the scheduler do;
  without them `CallsWithinLimit` and `EmailedOnce` are false.
* `Reconcile`: reminders and expiry take more than one unit, which is the longest a
  message waits between its recording and its materialization. `config` counts both in
  hours. A participant whose message waits as long as a reminder can be reminded although
  they answered, and TLC shows it when the constant is 1.
* `Pacer`: the clock of the bounded model starts one interval after zero, so the interval
  fits below `MaxClock`.

| Theorem | States |
|---|---|
| `OutboxProofs!TypeCorrect` | `Spec => []TypeOK` |
| `OutboxProofs!AtMostOnce` | `Spec => []EnteredAtMostOnce` |
| `OutboxProofs!Truthful` | `Spec => []StatusIsTruthful` |
| `OutboxProofs!CrossesInOrder` | `Spec => FifoEntry` |
| `OutboxProofs!CrossesWithAuthority` | `Spec => AuthorityAtEntry` |
| `OutboxProofs!DeliveryCorrect` | `Spec => DeliveryKept` (refinement of `MessageDelivery`) |
| `OutboxProofs!AttentionStaysFull` | `Spec => [][~CanRaise => ~CanRaise']_vars` |
| `IngressProofs!TypeCorrect` | `Spec => []TypeOK` |
| `IngressProofs!InOrder` | `Spec => []HandledInOrder` |
| `IngressProofs!TranscriptOrdered` | `Spec => []TranscriptInOrder` |
| `IngressProofs!StopRespected` | `Spec => []NothingKeptAfterStop` |
| `ReconcileProofs!TypeCorrect` | `Spec => []TypeOK` |
| `ReconcileProofs!TestimonyIsDue` | `Spec => []UnreadIsDue` |
| `ReconcileProofs!TestimonyReadOnce` | `Spec => []ReadOnce` |
| `ReconcileProofs!SilenceRespected` | `Spec => ActsOnSilence` |
| `InterviewProofs!ContradictionFree` | `InterviewSpec => []NoContradiction` |
| `InterviewProofs!WorkPaidOnce` | `InterviewSpec => []PaidOnce` |
| `InterviewProofs!StaffDecide` | `InterviewSpec => OperatorsDecide` |
| `InterviewProofs!CloseEarned` | `InterviewSpec => CloseIsEarned` |
| `AnalysisProofs!FinalComplete` | `SummarySpec => []FinalSummaryIsComplete` |
| `AnalysisProofs!OnlyOnePays` | `SummarySpec => []OnePayer` |
| `AnalysisProofs!AnalysisSound` | `TopicSpec => []AnalysisIsSound` |
| `AssistantProofs!StoresTellTheSame` | `AssistantSpec => []StoresAgree` |
| `AssistantProofs!EndsStayFinal` | `AssistantSpec => EndsAreFinal` |
| `EmailProofs!OnceEmailed` | `EmailSpec => []EmailedOnce` |
| `EmailProofs!RowsAlwaysAgree` | `EmailSpec => []RowsAgree` |
| `BackgroundProofs!WithinLimit` | `CallSpec => []CallsWithinLimit` |
| `BackgroundProofs!PollBounded` | `Spec => []PollIsBounded` |
| `BackgroundProofs!SpacedGrants` | `PacerSpec => GrantsAreSpaced` |
| `BackgroundProofs!CloseIsFinal` | `CampaignSpec => CloseIsTheEnd` |
| `BackgroundProofs!LaunchLeavesNobodyOut` | `CampaignSpec => LaunchAccounts` |
| `BackgroundProofs!RecoveryTyped` | `RecoverySpec => []RecoveryTypeOK` |
| `BackgroundProofs!BackgroundTyped` | `BackgroundSpec => []BackgroundTypeOK` |

Every invariant and every action property of the passing runs is among them.

**Outbox.** `EnteredAtMostOnce` is not inductive: that a worker before the provider call
is the first one there rests on who owns the row. The invariant is `MarkerIsExclusive`:
the send marker is set once, by the owner of the token, and the row never comes back into
the queue, so that a worker between the marker and its settlement still owns its row
though the lease ran out and the row may be ambiguous by now. It needs `ObservedHasLeft`:
a row correlated with an observed message has left the queue and cannot be retracted
before the observation is applied. Each action of `Next` is one lemma over both. The
refinement follows from the same invariant: each step changes the phase of the messages as
`MessageDelivery` allows, or not at all.

The order of crossings rests on `ClaimKeepsPlace`: what is older than a claimed row, and
was visible before it, is resolved or is an ambiguity the row may pass. The claim
establishes it, and no later step undoes it: what is resolved does not come back
(`StatusMoves`), and a row that appears under an older number is `late` (`RowsAreStable`).
Then nothing is asked of the crossing itself. Authority is the opposite case, where
nothing is carried from the claim to the crossing: `ReadyHasAuthority` derives all of it
from the second guard, read in the transaction that sets the marker.

`AttentionStaysFull` is about the exception in the two liveness properties: once the list
has no room for `undelivered_message` it never has again, because resolving a reason frees
no room. An attempt that cannot be parked then is not one that has to wait.

**Ingress.** `HandledInOrder` does not rest on the lock. The invariant `OrderInv` says
that a worker's page holds, of all rows up to its last, every one that is still pending,
so that the row it settles is the oldest pending one, and that rows never go back to
pending. Another worker can only shrink the set of pending rows. Rows are recorded without
gaps, which is what the sequence under the phone's lock gives. `KeepInv` adds what the
transcript holds (`TurnsAreHandled`), that a conversation ended by a STOP stays ended with
nothing kept after it (`StopsStand`), and that a worker that looked up an open
conversation knows of every STOP before its row (`RoutesKnowStops`): it looks a row up
only after every older one is settled, so a STOP among them has stopped the conversation
it finds. A turn that is inserted leaves both orders as they were (`WithTurnInOrder`): its
row is the last that was settled, so its number is the greatest, and its place lies
between what was observed no later and what was observed after it.

**Reconcile.** `ReconcileInvariant` is the types, `StepsAgree` (a worker looks again only
to remind or to expire, and only of a rung the ladder has) and `TestimonyKept`. In the
latter, `ReadOnce` needs that a message which arrives starts the count again
(`UnreadIsUncounted`) and that only the worker with the current revision and the fence can
still read, and then finds something to read (`HolderHasUnread`); the mutex, whose lease
may lapse, does not occur in it. `UnreadIsDue` follows step by step, because each step
that leaves testimony unread leaves a due time, or a mode in which the bot is not to
answer. For `ActsOnSilence` the plan and the transaction are connected by
`ReminderIsEarned` and `ExpiryIsEarned`: between them an answer shows in the silence, which
restarted, or among what arrived beyond the snapshot, which the transaction looks up.

**Interview.** `AnswersInvariant` holds of the stored answers alone: nobody is liked and
avoided, a corrected answer and one of staff are there, and a slot that staff emptied is
empty. `RunInvariant` is about the run: one whose snapshot holds has read the whole
transcript, and since the work moved nothing was paid (`WorkIsPaidOnce`); the last message
of the bot asks something only while there is nothing to read (`QuestionWaits`); and both
outcomes a plan carries, for the case that its reply goes out and for the case that it does
not, close only what is settled (`PlanIsSound`).

**Summary.** `JobHasOneOwner` (one worker holds the job of the attempt, and it is active
then), `PayerHolds` (a run in the model holds the row's claim or lost its lease), and
`ClosesCovered`: of an attempt asked for when nothing was open, every close is late or was
there before the campaign was read, so that it is in what the current run has read and in
the body it publishes.

**TopicAnalysis.** `Reserved`: what was sent, and what is about to be sent by the
processes between reservation and request, was reserved, for every run over all its
attempts; `LeasesAgree`: the leases of the slot and of its run begin and end together, one
run is leased at a time, and a process executes the run it holds; `ResultOfLastAttempt`.

**Assistant.** `StoresAgree` is not inductive, because an actor in the middle of its two
writes carries what it believes of the stores. `Agreed` lists the four pairs that a row
and its entry in the document can form, according to which store is written first when a
turn begins, ends or is retried. `SoundActor` bounds what an actor may believe: it never
runs ahead of the row, what it read is behind the stores (`BehindStores`), and it writes an
end to the row only after the document has it or has gone on to a later attempt. Each
action moves one turn of one store (`StoresMove`): attempts only grow and an end in the
document stays (`DocMoves`), so that what the other actors believe remains true
(`NobodyActs`). TLC checks the invariant with 2 turns of 2 attempts executed twice, one
generator, one browser and one fault (2,120,816 states). Both theorems follow.

**Email.** Requests made and about to be made are within the attempts and within the limit
(`RequestsCounted`); whoever is about to send claimed within the retry window and has not
been held longer than `MaxHold` since, and the provider forgets an accepted email no
sooner than `KeyRetention` after the first attempt began, so not before the last of them
has sent (`KeyRemembered`); a courier knows the number of its attempt and asks for another
only below the limit (`CouriersNumbered`); every attempt past the limit costs a fault
(`AttemptsBounded`).

**ProviderCalls.** `CallKeepsSlot`: the lease of a call in flight has at least left what
the call has not used of it, so that its slot is there; then there are no more calls than
slots, and the script grants no more slots than the limit.

**DispatchPoll.** A lane works on a claimed message of a conversation that has one, and a
poll goes on only below its limit; a batch is added below the limit and is no larger than a
wave (`WaveIsBounded`). That the first `n` of a set of numbers are at most `n` is usually
shown by induction on `n`; `FirstOnes` shows it from the greatest of them, which exists
because strict inclusion is well founded on finite sets (`GreatestExists`).

**Pacer.** The boundary lies an interval behind the last slot, whoever took it
(`PacerInvariant`), and the script grants nothing before the boundary. How late a sender
wakes, and its jitter, do not occur in the argument.

**Campaign.** `CloseIsTheEnd` needs that a closed campaign has nothing queued; the launch
looks at the status again in each transaction, under the campaign's lock. `LaunchAccounts`
relates the set a launch read at its start to what it leaves at its end: each attendee it
saw has an invitation, is still to come, or is a clash that will be reported, and
conversations end but do not disappear (`OneRequestMoves`).

**Recovery.** `WithinScan`: a pass asks for another page only while it has examined fewer
rows than its limit. The cursor that the replicas share is free to be anything.

**All of them.** `BackgroundInvariant` is the invariant of whichever component a behaviour
of `MCBackground` is about, so that the theorem about its types cites the ten step lemmas.

### 4.1 Model-checked only

* Liveness and `ENABLED`, which are out of the prover's reach: `StopAckLeavesQueue`,
  `AttemptIsResolved`, `EveryMessageIsHandled`, `TestimonyIsServed`, `SummaryIsServed`,
  `AnalysisEnds`, `TurnSettles`, `DueRowIsExamined`, `SlotComesFree`, `FailuresStayApart`,
  `EmailSettles`.
* The properties of the runs of section 3.2, which are false.

Nothing recursive is used in a module with theorems, so the proofs need no induction over
data, which the installed provers do not do. Decisions with overlapping conditions
(`Verdict` of the outbox, `Plan` of the reconciliation) are written as chains of `IF`,
which is also how the code reads them: to the prover a `CASE` with two true guards is
either.

## 5. Other disagreements and observations

The models have these behaviours too; no run is kept for them. Four are stated as
properties that no run checks, because they are false.

* `PromiseStaysOwed` (`Outbox`): `current-commitment.ts:4-8` speaks of the exact
  participant-facing promise that may still be sent while a human is awaited. What the code
  computes is the latest turn of the bot, and a notice or a reminder is one
  (`outbound-transcript.service.ts:32-41`). A notice about a media message, or a reminder
  decided before the handover and recorded after it, takes the promise's place: it crosses,
  and the promise is refused (`dispatch-preparation.service.ts:210-221`).
* The settlement of an ambiguous send and the quarantine raise attention in their
  transaction (`dispatch-settlement.service.ts:178`, `dispatch-recovery.service.ts:55`). In
  a conversation whose fifty reasons are used up both throw, so the attempt stays
  `attempting`, is never ambiguous, and is met again by every poll. `PollsFail` is that
  state; `StopAckLeavesQueue` and `AttemptIsResolved` name it as their exception.
* `OthersAreServed` (`DispatchPoll`), the same seen by the other conversations: parking an
  attempt in a conversation that is at its attention capacity throws, and
  `dispatch-recovery.service.ts:55` returns the promise out of its `try` without awaiting
  it, so that the exception rejects the whole recovery and every later poll fails before
  it claims; `dispatcher.service.ts:32` says that per-row failures are isolated.
* `StopAckStaysOwed` (`Outbox`): the fallback of a run that failed earlier cancels every
  automated row (`fallback.service.ts:165`), the acknowledgement of a STOP that came since
  included; `docs/decisions/0013…:147` says that it remains owed.
* `AnswersAreReplaced` (`Interview`): `results.repository.ts:72` deletes the contradicted
  answer before the insertion of its successor is refused by a tombstone, so an answer
  staff recorded can vanish with nothing in its place.
* `outbox.repository.ts:893` compares `created_at`, the start of a transaction. A row that
  commits late can be claimed beside, or after, a newer one, although
  `docs/backend/mechanisms/queues.md:264` says that nothing passes a claimed or attempting
  row. `FifoEntry` therefore speaks of rows that were visible (`late`).
* `observed-outbound.service.ts:116` writes `sent` on a row it read before its
  transaction, also if the row was settled as failed in between;
  `docs/backend/modules/post-event-feedback.md:832` calls `failed` terminal.
* `delivery-status.service.ts:67`: a tick `error` sets `failed`, and a later tick
  `delivered` is recorded without changing that status (ticks are not in the model).
* `inbound-message.service.ts:97` does not look at the lifecycle again: a message routed
  while the conversation was open and applied after staff closed it is an ordinary turn
  and raises no attention (`post-event-feedback.md:522`).
* `ingress.service.ts:109` compares a redelivery with the text kept on the row; after a
  STOP erased it, the same words arrive as an edited message, although
  `ingress.repository.ts:50` calls duplicates ignored.
* `planner.ts:96` idles on a closed campaign and the expiry asks for a launched one, so
  conversations of a closed campaign do not expire (`post-event-feedback.md:1025`).
* `reconcile.service.ts:328`: a suppressed reminder or expiry is due again at once, and
  its successor job has no delay.
* `campaign.service.ts:229` rethrows what the wake-up of line 594 throws after a
  successful commit: the launch stops and the remaining attendees wait for the next one.
  The eligible attendees are read once, so somebody who withdrew the consent in between
  still gets a conversation and a queued intro, which the dispatcher's guard refuses.
* `provider-call-limiter.ts:105`: a release that Redis refuses throws in a `finally`, and
  the answer that was paid for is lost with it.
* The correction of an answer reads the answer it corrects before it takes the
  conversation's lock (`correctAnswerValue` in `inbox/conversation.service.ts`), so two
  corrections at once may both name the same former value.

## 6. Not modelled, and why

`map` covers about a sixth of the repository's lines. The rest is of these kinds:

* The admin application (some 21,000 lines): a client of the HTTP API; its state is what
  the last response said.
* The harness, the simulator, the burst rig with its personas and corpora (some 19,000):
  they drive the code above with scripted people and models.
* Schemas, prompts, configuration, controllers, views, read models, migrations and the
  wiring of modules: data and shape. Where a constraint of the schema decides something
  (partial unique indexes, checks), the guard that relies on it is mapped to it.
* Matching, copy, the command parser, attention classification, the mathematics of metrics
  and clusters: pure functions over text or numbers, with tests of their own. Whether a
  message is a STOP, or what a model answers, is a choice in the models.
* Events, participants, imports, overview, health: CRUD without concurrency of their own.
  A launch meets the event's status, attendance, consent and phones in `Campaign`.
* Parts of modelled components: delivery ticks and the legacy closing repair of the
  outbox; staff notes; the correction call and the usage accounting of the extraction; the
  branching of assistant threads, their stream and tools.
* The gateway, PostgreSQL, MongoDB, Redis, BullMQ, the mail provider and the models are
  external. What is assumed of them: transactions and single document updates are atomic
  and locks exclusive while the session lives; a job id that exists is not added twice; a
  delayed job is not handed out early; anything in Redis may be lost; the mail provider
  honours an idempotency key for as long as it says.

## 7. Running

    tlc -workers 2 -config Outbox_safety.cfg MCOutbox
    tlc -workers 2 -config Background_safety.cfg MCBackground
    tlapm OutboxProofs.tla

`Background_*` and `Interview_staff_answer` belong to `MCBackground`, every other run to
`MC` and the part before the underscore. Operators marked "Mutant" in the modules are
plausible bugs of the code; `PROJECT.json` names the definition each replaces and the
property that notices it.
