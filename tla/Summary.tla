------------------------------ MODULE Summary ------------------------------
(***************************************************************************)
(* The summary of one campaign: a single row that is asked for by hand or  *)
(* when the last conversation closes, a BullMQ job named after the attempt *)
(* and workers that lease the row, read the campaign, pay for one model    *)
(* call and publish.  What the narrative says is left out; the body of a   *)
(* summary is the set of conversations that were closed when it was read.  *)
(*                                                                         *)
(* Three values only ever get compared with the row's, and the model keeps *)
(* the outcome: an attempt number (`current`: it is still the row's; a job *)
(* of an earlier attempt is refused at its claim, so only the job of the   *)
(* row's attempt is kept), the token and epoch of a claim (a worker has    *)
(* one claim at a time, so its name stands for both), and the time of a    *)
(* close (`late`: it is later than the request).                           *)
(***************************************************************************)
EXTENDS Integers, FiniteSets

CONSTANTS
  SummaryWorker,   \* slots of the feedback-summary-worker
  NoRunner,        \* no claim
  SummaryThread,   \* the campaign's conversations
  JobAttempts,     \* attempts of one BullMQ job (5 in the code)
  MaxSummaryFaults \* bound: crashes, lost wake-ups, lapsed leases, a restart

ASSUME SummaryAssumption ==
  /\ NoRunner \notin SummaryWorker
  /\ {"recovery", "admin"} \cap SummaryThread = {}
  /\ JobAttempts \in Nat \ {0} /\ MaxSummaryFaults \in Nat

VARIABLES
  thread,      \* conversation -> absent, open, closing (uncommitted), closed
  late,        \* conversations whose close carries a time after the request
  summary,     \* the row of feedback_campaign_summaries
  summaryJob,  \* the BullMQ job of the row's attempt
  tries,       \* failed attempts of that job
  runner,      \* worker -> the run it executes
  caller,      \* who asks for a summary -> how far the request is
  simulator,   \* FEEDBACK_SIMULATOR_ENABLED of the running processes
  lapses       \* faults so far

summaryVars == <<thread, late, summary, summaryJob, tries, runner, caller, simulator, lapses>>

\* token is the claim that holds the row; leased says whether claim_expires_at
\* is still ahead.
NoSummary == [status |-> "none", trigger |-> "none", partial |-> FALSE,
              token |-> NoRunner, leased |-> FALSE, body |-> {}]

\* A run: owns tells whether BullMQ still grants it the lock on its job, lapsed
\* whether its lease ran out under it.
IdleRun == [step |-> "idle", current |-> FALSE, read |-> {}, owns |-> FALSE,
            lapsed |-> FALSE]

\* The closer of every conversation, the recovery, and the admin page.
Caller == SummaryThread \cup {"recovery", "admin"}

IdleCall == [step |-> "idle", current |-> FALSE]

Open   == {c \in SummaryThread : thread[c] \in {"open", "closing"}}
Closed == {c \in SummaryThread : thread[c] = "closed"}

AllClosed == Open = {} /\ Closed # {}

SummaryInit ==
  /\ thread = [c \in SummaryThread |-> "absent"]
  /\ late = {}
  /\ summary = NoSummary
  /\ summaryJob = "none"
  /\ tries = 0
  /\ runner = [w \in SummaryWorker |-> IdleRun]
  /\ caller = [k \in Caller |-> IdleCall]
  /\ simulator = FALSE
  /\ lapses = 0

SummaryFault == lapses < MaxSummaryFaults /\ lapses' = lapses + 1

-----------------------------------------------------------------------------
(* The conversations.                                                      *)

\* Created under the campaign row lock, so never inside a request.
CreateThread(c) ==
  /\ thread[c] = "absent"
  /\ thread' = [thread EXCEPT ![c] = "open"]
  /\ UNCHANGED <<late, summary, summaryJob, tries, runner, caller, simulator, lapses>>

\* The closing transaction reads the clock before it commits.
BeginClose(c) ==
  /\ thread[c] = "open"
  /\ thread' = [thread EXCEPT ![c] = "closing"]
  /\ late' = late \cup {c}
  /\ UNCHANGED <<summary, summaryJob, tries, runner, caller, simulator, lapses>>

\* After the commit the closer will look whether it was the last.
CommitClose(c) ==
  /\ thread[c] = "closing"
  /\ thread' = [thread EXCEPT ![c] = "closed"]
  /\ caller' = [caller EXCEPT ![c].step = "notify"]
  /\ UNCHANGED <<late, summary, summaryJob, tries, runner, simulator, lapses>>

-----------------------------------------------------------------------------
(* Requests.                                                               *)

\* Mutant: a summary older than the last close is taken for final.
RefreshPartial == summary.status = "none" \/ summary.partial

\* summaryNeedsFinalRefresh.
NeedsRefresh ==
  \/ summary.status = "none"
  \/ summary.partial
  \/ Closed \cap late # {}

\* recoverAutomaticIntent looks at the campaign.
FindsDue == AllClosed /\ NeedsRefresh /\ ~simulator /\ summary.status # "pending"

\* maybeRequestAfterConversationClosed up to its last check: by the closer, or
\* by the recovery.
Ask(k) ==
  /\ \/ caller[k].step = "notify"
     \/ k = "recovery" /\ caller[k].step = "idle" /\ FindsDue
  /\ caller' = [caller EXCEPT ![k].step =
                  IF simulator \/ Open # {} \/ summary.status = "pending"
                  THEN "idle" ELSE "asking"]
  /\ UNCHANGED <<thread, late, summary, summaryJob, tries, runner, simulator, lapses>>

\* A new attempt: the row is reset and its claim dropped, and what belonged to
\* the attempt before it belongs to the past.
Pend(k, trigger) ==
  /\ summary' = [NoSummary EXCEPT !.status = "pending", !.trigger = trigger,
                                  !.partial = Open # {}]
  /\ late' = {}
  /\ summaryJob' = "none" /\ tries' = 0
  /\ runner' = [w \in SummaryWorker |-> [runner[w] EXCEPT !.current = FALSE]]
  /\ caller' = [c \in Caller |->
       IF c = k THEN [step |-> "publishing", current |-> TRUE]
       ELSE [caller[c] EXCEPT !.current = FALSE]]

\* The request transaction under the campaign lock: a pending row is returned as
\* it is.
RequestRow(k, trigger) ==
  IF summary.status = "pending"
  THEN /\ caller' = [caller EXCEPT ![k] = [step |-> "publishing", current |-> TRUE]]
       /\ UNCHANGED <<summary, late, summaryJob, tries, runner>>
  ELSE Pend(k, trigger)

\* request("all_closed"), and request("manual"), in the simulator too.
Request(k) ==
  /\ \/ caller[k].step = "asking" /\ RequestRow(k, "all_closed")
     \/ k = "admin" /\ caller[k].step = "idle" /\ RequestRow(k, "manual")
  /\ UNCHANGED <<thread, simulator, lapses>>

\* A live job is left alone, a retained finished one is replaced.
Publishes ==
  IF summaryJob \in {"none", "failed", "done"} THEN summaryJob' = "queued" /\ tries' = 0
  ELSE UNCHANGED <<summaryJob, tries>>

\* ensurePendingQueued with the row the request returned, whatever the row is by
\* now.
PublishJob(k) ==
  /\ caller[k].step = "publishing"
  /\ caller' = [caller EXCEPT ![k] = IdleCall]
  /\ IF caller[k].current THEN Publishes ELSE UNCHANGED <<summaryJob, tries>>
  /\ UNCHANGED <<thread, late, summary, runner, simulator, lapses>>

\* The caller dies, or Redis refuses the job: the row keeps the intent.
Forgets(k) ==
  /\ caller[k].step # "idle"
  /\ SummaryFault
  /\ caller' = [caller EXCEPT ![k] = IdleCall]
  /\ UNCHANGED <<thread, late, summary, summaryJob, tries, runner, simulator>>

\* Mutant: recovery leaves a job that failed.
RecoverMissing ==
  /\ summary.status = "pending" /\ summaryJob = "none"
  /\ Publishes
  /\ UNCHANGED <<thread, late, summary, runner, caller, simulator, lapses>>

\* recoverPending on this row.
RecoverPending ==
  /\ summary.status = "pending" /\ summaryJob \in {"none", "failed", "done"}
  /\ Publishes
  /\ UNCHANGED <<thread, late, summary, runner, caller, simulator, lapses>>

-----------------------------------------------------------------------------
(* Runs.                                                                   *)

\* matchesSummaryExecutionClaim.
Holds(w) ==
  summary.status = "pending" /\ runner[w].current /\ summary.token = w

Leased(w) == Holds(w) /\ summary.leased

Claimed(w) ==
  /\ summaryJob' = "active"
  /\ summary' = [summary EXCEPT !.token = w, !.leased = TRUE]
  /\ runner' = [runner EXCEPT ![w] =
       [IdleRun EXCEPT !.step = "claimed", !.current = TRUE, !.owns = TRUE]]

\* Mutant: the lease of another run is not looked at.
ClaimOver(w) ==
  /\ summaryJob = "queued" /\ runner[w].step = "idle"
  /\ IF summary.status # "pending" THEN summaryJob' = "done" /\ UNCHANGED <<summary, runner>>
     ELSE Claimed(w)
  /\ UNCHANGED <<thread, late, tries, caller, simulator, lapses>>

\* tryClaimSummaryExecution: stale ends the job; busy delays it, which leaves
\* it queued.
Claim(w) ==
  /\ summaryJob = "queued" /\ runner[w].step = "idle"
  /\ IF summary.status # "pending" THEN summaryJob' = "done" /\ UNCHANGED <<summary, runner>>
     ELSE ~summary.leased /\ Claimed(w)
  /\ UNCHANGED <<thread, late, tries, caller, simulator, lapses>>

\* A run ends: its claim is released if it is still its own, and its job is done,
\* delayed, retried or failed unless BullMQ gave it to somebody else.
EndRun(w, held, outcome) ==
  /\ summary' = IF held.status = "pending" /\ runner[w].current /\ held.token = w
                THEN [held EXCEPT !.token = NoRunner, !.leased = FALSE] ELSE held
  /\ runner' = [runner EXCEPT ![w] = IdleRun]
  /\ IF runner[w].owns /\ runner[w].current
     THEN /\ summaryJob' = CASE outcome = "done"  -> "done"
                             [] outcome = "busy"  -> "queued"
                             [] outcome = "fatal" -> "failed"
                             [] outcome = "retry" ->
                                  IF tries + 1 < JobAttempts THEN "queued" ELSE "failed"
          /\ tries' = IF outcome = "retry" THEN tries + 1 ELSE tries
     ELSE UNCHANGED <<summaryJob, tries>>

\* markSummaryReady and markSummaryFailed on a row the run holds.
Settled(status, body) ==
  [summary EXCEPT !.status = status, !.body = body, !.token = NoRunner,
                  !.leased = FALSE]

RunKeeps == UNCHANGED <<thread, late, caller, simulator, lapses>>

\* The row is read again: another attempt ends the run, an automatic summary in
\* the simulator fails it before the model, otherwise the campaign is read.
Read(w) ==
  /\ runner[w].step = "claimed"
  /\ IF summary.status # "pending" \/ ~runner[w].current
     THEN EndRun(w, summary, "done")
     ELSE IF simulator /\ summary.trigger # "manual"
     THEN IF Leased(w) THEN EndRun(w, Settled("failed", {}), "done")
                       ELSE EndRun(w, summary, "busy")
     ELSE /\ runner' = [runner EXCEPT ![w].step = "waiting", ![w].read = Closed]
          /\ UNCHANGED <<summary, summaryJob, tries>>
  /\ RunKeeps

\* The limiter grants a slot and the lease is renewed, or the run was superseded.
Enter(w) ==
  /\ runner[w].step = "waiting"
  /\ IF Leased(w)
     THEN runner' = [runner EXCEPT ![w].step = "paying"] /\ UNCHANGED <<summary, summaryJob, tries>>
     ELSE EndRun(w, summary, "busy")
  /\ RunKeeps

\* The model answers: markSummaryReady.
Publish(w) ==
  /\ runner[w].step = "paying"
  /\ IF Leased(w) THEN EndRun(w, Settled("ready", runner[w].read), "done")
                  ELSE EndRun(w, summary, "busy")
  /\ RunKeeps

\* Reading, the model or the document fails.  A failure that is not retryable,
\* or the last of the job, is written on the row if the lease still stands.
Fail(w, retryable) ==
  /\ runner[w].step \in {"waiting", "paying"}
  /\ LET terminal == ~retryable \/ tries + 1 >= JobAttempts
     IN IF terminal /\ ~Leased(w)
        THEN EndRun(w, summary, "busy")
        ELSE EndRun(w, IF terminal THEN Settled("failed", {}) ELSE summary,
                    IF retryable THEN "retry" ELSE "fatal")
  /\ RunKeeps

\* Reading the row again fails: the job is retried and the row says nothing.
FailRead(w) ==
  /\ runner[w].step = "claimed"
  /\ SummaryFault
  /\ EndRun(w, summary, "retry")
  /\ UNCHANGED <<thread, late, caller, simulator>>

\* A worker dies; its job stays active until BullMQ finds it stalled.
CrashRun(w) ==
  /\ runner[w].step # "idle"
  /\ SummaryFault
  /\ runner' = [runner EXCEPT ![w] = IdleRun]
  /\ UNCHANGED <<thread, late, summary, summaryJob, tries, caller, simulator>>

\* A stalled job is delivered again; once more than maxStalledCount it fails.
Stalled ==
  /\ summaryJob = "active"
  /\ ~\E w \in SummaryWorker : runner[w].owns /\ runner[w].current
  /\ summaryJob' \in {"queued", "failed"}
  /\ UNCHANGED <<thread, late, summary, tries, runner, caller, simulator, lapses>>

\* A live run loses the lock on its job.
LosesJob(w) ==
  /\ runner[w].owns
  /\ SummaryFault
  /\ runner' = [runner EXCEPT ![w].owns = FALSE]
  /\ UNCHANGED <<thread, late, summary, summaryJob, tries, caller, simulator>>

\* A lease nobody renews runs out.
LeaseEnds ==
  /\ summary.leased
  /\ \A w \in SummaryWorker : runner[w].step = "idle" \/ ~Holds(w)
  /\ summary' = [summary EXCEPT !.leased = FALSE]
  /\ UNCHANGED <<thread, late, summaryJob, tries, runner, caller, simulator, lapses>>

\* The heartbeat of a live run fails until its lease is over.
LeaseLapses(w) ==
  /\ runner[w].step # "idle" /\ Leased(w)
  /\ SummaryFault
  /\ summary' = [summary EXCEPT !.leased = FALSE]
  /\ runner' = [runner EXCEPT ![w].lapsed = TRUE]
  /\ UNCHANGED <<thread, late, summaryJob, tries, caller, simulator>>

\* Every process is restarted with the simulator on.
RestartAsSimulator ==
  /\ ~simulator
  /\ SummaryFault
  /\ simulator' = TRUE
  /\ runner' = [w \in SummaryWorker |-> IdleRun]
  /\ caller' = [k \in Caller |-> IdleCall]
  /\ UNCHANGED <<thread, late, summary, summaryJob, tries>>

-----------------------------------------------------------------------------
Run(w) == Read(w) \/ Enter(w) \/ Publish(w) \/ \E r \in BOOLEAN : Fail(w, r)

SummaryNext ==
  \/ \E c \in SummaryThread : CreateThread(c) \/ BeginClose(c) \/ CommitClose(c)
  \/ \E k \in Caller : Ask(k) \/ Request(k) \/ PublishJob(k) \/ Forgets(k)
  \/ RecoverPending \/ Stalled \/ LeaseEnds \/ RestartAsSimulator
  \/ \E w \in SummaryWorker : \/ Claim(w) \/ Run(w) \/ FailRead(w) \/ CrashRun(w)
                              \/ LosesJob(w) \/ LeaseLapses(w)

SummarySpec == SummaryInit /\ [][SummaryNext]_summaryVars

-----------------------------------------------------------------------------
\* Every variable keeps its type.
SummaryTypeOK ==
  /\ thread \in [SummaryThread -> {"absent", "open", "closing", "closed"}]
  /\ late \subseteq SummaryThread
  /\ summary \in [status : {"none", "pending", "ready", "failed"},
                  trigger : {"none", "all_closed", "manual"}, partial : BOOLEAN,
                  token : SummaryWorker \cup {NoRunner}, leased : BOOLEAN,
                  body : SUBSET SummaryThread]
  /\ summaryJob \in {"none", "queued", "active", "failed", "done"}
  /\ tries \in 0..JobAttempts
  /\ runner \in [SummaryWorker ->
       [step : {"idle", "claimed", "waiting", "paying"}, current : BOOLEAN,
        read : SUBSET SummaryThread, owns : BOOLEAN, lapsed : BOOLEAN]]
  /\ caller \in [Caller -> [step : {"idle", "notify", "asking", "publishing"},
                            current : BOOLEAN]]
  /\ simulator \in BOOLEAN
  /\ lapses \in 0..MaxSummaryFaults

\* A summary that recovery would leave alone, of a campaign with nothing open,
\* was read after the last close: no close is missing from it, whichever order
\* closes, requests and runs took.
FinalSummaryIsComplete ==
  summary.status = "ready" /\ AllClosed /\ ~NeedsRefresh => Closed \subseteq summary.body

\* Two runs are inside the model at once only if one of them lost its lease while
\* it worked: a stalled job or a second wake-up does not buy a second summary.
OnePayer ==
  \A v, w \in SummaryWorker :
    v # w /\ runner[v].step = "paying" /\ runner[w].step = "paying"
      => runner[v].lapsed \/ runner[w].lapsed

\* A pending summary is settled in the end, whatever became of its job.
SummarySettles == summary.status = "pending" ~> summary.status # "pending"

\* Once the last conversation is closed, the campaign gets a summary that needs no
\* refresh, though the closer may die before it asks; unless a conversation is
\* opened again or the simulator takes over.
LastCloseIsSummarised ==
  AllClosed ~> (summary.status # "pending" /\ ~NeedsRefresh) \/ ~AllClosed \/ simulator

\* Both: a campaign that is over gets its summary.
SummaryIsServed == SummarySettles /\ LastCloseIsSummarised
=============================================================================
