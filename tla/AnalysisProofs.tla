--------------------------- MODULE AnalysisProofs ---------------------------
(***************************************************************************)
(* What is computed of a campaign behind the scenes, for any workers,      *)
(* conversations, batches, limits, job attempts and faults.  Its summary:  *)
(* a final one misses no close, and of two runs inside the model one has   *)
(* lost its lease.  Its topic analyses: a run spends no more than its      *)
(* budget, its result is of the last attempt it was granted, and the slot  *)
(* names the one run that is executed.                                     *)
(***************************************************************************)
EXTENDS Summary, TopicAnalysis, FiniteSetTheorems, TLAPS

-----------------------------------------------------------------------------
(* The summary.                                                            *)

SummaryRow ==
  [status : {"none", "pending", "ready", "failed"}, trigger : {"none", "all_closed", "manual"},
   partial : BOOLEAN, token : SummaryWorker \cup {NoRunner}, leased : BOOLEAN,
   body : SUBSET SummaryThread]

RunState ==
  [step : {"idle", "claimed", "waiting", "paying"}, current : BOOLEAN,
   read : SUBSET SummaryThread, owns : BOOLEAN, lapsed : BOOLEAN]

CallState == [step : {"idle", "notify", "asking", "publishing"}, current : BOOLEAN]

\* The job of the attempt has at most one owner, and it is active while it has one.
JobHasOneOwner ==
  /\ \A w \in SummaryWorker : runner[w].owns /\ runner[w].current => summaryJob = "active"
  /\ \A v, w \in SummaryWorker :
       /\ runner[v].owns /\ runner[v].current
       /\ runner[w].owns /\ runner[w].current
       => v = w
  /\ summaryJob \in {"queued", "active"} => tries < JobAttempts

\* A run inside the model holds the row, unless its lease lapsed under it.
PayerHolds ==
  \A w \in SummaryWorker : runner[w].step = "paying" /\ ~runner[w].lapsed => Leased(w)

\* Of an attempt that was asked for when nothing was open, a close is late or was
\* there before the campaign was read.
ClosesCovered ==
  summary.status # "none" /\ ~summary.partial =>
    /\ \A c \in SummaryThread : thread[c] = "closing" => c \in late
    /\ summary.status = "pending" =>
         \A w \in SummaryWorker :
           runner[w].current /\ runner[w].step \in {"waiting", "paying"}
             => Closed \ late \subseteq runner[w].read
    /\ summary.status = "ready" => Closed \ late \subseteq summary.body

SummaryInvariant == SummaryTypeOK /\ JobHasOneOwner /\ PayerHolds /\ ClosesCovered

-----------------------------------------------------------------------------
(* Types.                                                                  *)

LEMMA SummaryTypes ==
  SummaryTypeOK <=>
    /\ thread \in [SummaryThread -> {"absent", "open", "closing", "closed"}]
    /\ late \subseteq SummaryThread /\ summary \in SummaryRow
    /\ summaryJob \in {"none", "queued", "active", "failed", "done"} /\ tries \in 0..JobAttempts
    /\ runner \in [SummaryWorker -> RunState] /\ caller \in [Caller -> CallState]
    /\ simulator \in BOOLEAN /\ lapses \in 0..MaxSummaryFaults
BY DEF SummaryTypeOK, SummaryRow, RunState, CallState

LEMMA SummaryTypesNext ==
  ASSUME thread' \in [SummaryThread -> {"absent", "open", "closing", "closed"}],
         late' \subseteq SummaryThread, summary' \in SummaryRow,
         summaryJob' \in {"none", "queued", "active", "failed", "done"}, tries' \in 0..JobAttempts,
         runner' \in [SummaryWorker -> RunState], caller' \in [Caller -> CallState],
         simulator' \in BOOLEAN, lapses' \in 0..MaxSummaryFaults
  PROVE  SummaryTypeOK'
BY DEF SummaryTypeOK, SummaryRow, RunState, CallState

LEMMA FaultCounted ==
  ASSUME SummaryTypeOK, SummaryFault \/ UNCHANGED lapses
  PROVE  lapses' \in 0..MaxSummaryFaults
BY SummaryTypes, SummaryAssumption DEF SummaryFault

LEMMA IdleTyped ==
  /\ IdleRun \in RunState /\ IdleRun.step = "idle" /\ ~IdleRun.owns /\ ~IdleRun.current
  /\ IdleCall \in CallState
BY DEF IdleRun, RunState, IdleCall, CallState

-----------------------------------------------------------------------------
(* The conversations.                                                      *)

LEMMA ThreadSteps ==
  ASSUME SummaryInvariant, NEW c \in SummaryThread,
         CreateThread(c) \/ BeginClose(c) \/ CommitClose(c)
  PROVE  SummaryInvariant'
<1>0. SummaryTypeOK /\ c \in Caller
  BY DEF SummaryInvariant, Caller
<1>1. UNCHANGED <<summary, summaryJob, tries, runner, simulator, lapses>>
  BY DEF CreateThread, BeginClose, CommitClose
<1>2. /\ thread' \in [SummaryThread -> {"absent", "open", "closing", "closed"}]
      /\ late' \subseteq SummaryThread /\ caller' \in [Caller -> CallState]
  <2>1. CASE CreateThread(c)
    BY <1>0, <2>1, SummaryTypes DEF CreateThread
  <2>2. CASE BeginClose(c)
    BY <1>0, <2>2, SummaryTypes DEF BeginClose
  <2>3. CASE CommitClose(c)
    <3> DEFINE k == [caller[c] EXCEPT !.step = "notify"]
    <3>1. caller[c] \in CallState
      BY <1>0, SummaryTypes
    <3>2. k \in CallState
      BY <3>1 DEF CallState
    <3>3. caller' = [caller EXCEPT ![c] = k]
      BY <1>0, <2>3, SummaryTypes DEF CommitClose
    <3> HIDE DEF k
    <3> QED
      BY <1>0, <2>3, <3>2, <3>3, SummaryTypes DEF CommitClose
  <2> QED
    BY <2>1, <2>2, <2>3
<1>3. SummaryTypeOK'
  BY <1>0, <1>1, <1>2, SummaryTypes, SummaryTypesNext
<1>4. JobHasOneOwner' /\ PayerHolds'
  BY <1>1 DEF SummaryInvariant, JobHasOneOwner, PayerHolds, Leased, Holds
<1>5. ClosesCovered'
  <2> SUFFICES ASSUME summary.status # "none", ~summary.partial
               PROVE  /\ \A d \in SummaryThread : thread'[d] = "closing" => d \in late'
                      /\ Closed' \ late' \subseteq Closed \ late
    BY <1>1 DEF SummaryInvariant, ClosesCovered
  <2>1. \A d \in SummaryThread : thread[d] = "closing" => d \in late
    BY DEF SummaryInvariant, ClosesCovered
  <2>2. CASE CreateThread(c)
    BY <1>0, <2>1, <2>2, SummaryTypes DEF CreateThread, Closed
  <2>3. CASE BeginClose(c)
    BY <1>0, <2>1, <2>3, SummaryTypes DEF BeginClose, Closed
  <2>4. CASE CommitClose(c)
    BY <1>0, <2>1, <2>4, SummaryTypes DEF CommitClose, Closed
  <2> QED
    BY <2>2, <2>3, <2>4
<1> QED
  BY <1>3, <1>4, <1>5 DEF SummaryInvariant

-----------------------------------------------------------------------------
(* The job.                                                                *)

\* A job is published only when the attempt has no live one.
LEMMA PublishesJob ==
  ASSUME SummaryTypeOK, JobHasOneOwner, Publishes \/ UNCHANGED <<summaryJob, tries>>,
         runner' = runner
  PROVE  /\ summaryJob' \in {"none", "queued", "active", "failed", "done"}
         /\ tries' \in 0..JobAttempts /\ JobHasOneOwner'
<1>1. /\ summaryJob \in {"none", "queued", "active", "failed", "done"} /\ tries \in 0..JobAttempts
  BY SummaryTypes
<1>2. CASE UNCHANGED <<summaryJob, tries>>
  BY <1>1, <1>2 DEF JobHasOneOwner
<1>3. CASE summaryJob \in {"none", "failed", "done"} /\ summaryJob' = "queued" /\ tries' = 0
  <2>1. \A w \in SummaryWorker : ~(runner'[w].owns /\ runner'[w].current)
    BY <1>3 DEF JobHasOneOwner
  <2> QED
    BY <1>3, <2>1, SummaryAssumption DEF JobHasOneOwner
<1> QED
  BY <1>2, <1>3 DEF Publishes

\* Actions that change the callers and the job alone.
LEMMA JobAlone ==
  ASSUME SummaryInvariant, UNCHANGED <<thread, late, summary, runner, simulator>>,
         caller' \in [Caller -> CallState], JobHasOneOwner', SummaryFault \/ UNCHANGED lapses,
         summaryJob' \in {"none", "queued", "active", "failed", "done"}, tries' \in 0..JobAttempts
  PROVE  SummaryInvariant'
<1>1. SummaryTypeOK'
  BY FaultCounted, SummaryTypes, SummaryTypesNext DEF SummaryInvariant
<1>2. PayerHolds' /\ ClosesCovered'
  BY DEF SummaryInvariant, PayerHolds, ClosesCovered, Leased, Holds, Closed
<1> QED
  BY <1>1, <1>2 DEF SummaryInvariant

LEMMA CallerSteps ==
  ASSUME SummaryInvariant, NEW k \in Caller, Ask(k) \/ PublishJob(k) \/ Forgets(k)
  PROVE  SummaryInvariant'
<1>0. SummaryTypeOK /\ JobHasOneOwner /\ caller \in [Caller -> CallState]
  BY SummaryTypes DEF SummaryInvariant
<1>1. /\ UNCHANGED <<thread, late, summary, runner, simulator>>
      /\ Publishes \/ UNCHANGED <<summaryJob, tries>>
      /\ SummaryFault \/ UNCHANGED lapses
  BY DEF Ask, PublishJob, Forgets
<1>2. caller' \in [Caller -> CallState]
  <2>1. CASE Ask(k)
    <3>1. PICK s \in {"idle", "asking"} : caller' = [caller EXCEPT ![k].step = s]
      BY <2>1 DEF Ask
    <3> DEFINE e == [caller[k] EXCEPT !.step = s]
    <3>2. e \in CallState
      BY <1>0 DEF CallState
    <3>3. caller' = [caller EXCEPT ![k] = e]
      BY <1>0, <3>1
    <3> HIDE DEF e
    <3> QED
      BY <1>0, <3>2, <3>3
  <2>2. CASE PublishJob(k) \/ Forgets(k)
    BY <1>0, <2>2, IdleTyped DEF PublishJob, Forgets
  <2> QED
    BY <2>1, <2>2
<1> QED
  BY <1>0, <1>1, <1>2, PublishesJob, JobAlone

LEMMA RecoverStep == SummaryInvariant /\ RecoverPending => SummaryInvariant'
<1> SUFFICES ASSUME SummaryInvariant, RecoverPending PROVE SummaryInvariant'
  OBVIOUS
<1>0. /\ SummaryTypeOK /\ JobHasOneOwner /\ caller' \in [Caller -> CallState]
      /\ Publishes /\ UNCHANGED <<thread, late, summary, runner, caller, simulator, lapses>>
  BY SummaryTypes DEF SummaryInvariant, RecoverPending
<1> QED
  BY <1>0, PublishesJob, JobAlone

LEMMA StalledStep == SummaryInvariant /\ Stalled => SummaryInvariant'
<1> SUFFICES ASSUME SummaryInvariant, Stalled PROVE SummaryInvariant'
  OBVIOUS
<1>0. /\ SummaryTypeOK /\ JobHasOneOwner
      /\ caller' \in [Caller -> CallState] /\ tries' \in 0..JobAttempts
      /\ UNCHANGED <<thread, late, summary, tries, runner, caller, simulator, lapses>>
      /\ summaryJob' \in {"queued", "failed"} /\ summaryJob = "active"
  BY SummaryTypes DEF SummaryInvariant, Stalled
<1>1. \A w \in SummaryWorker : ~(runner[w].owns /\ runner[w].current)
  BY DEF Stalled
<1>2. JobHasOneOwner'
  BY <1>0, <1>1 DEF JobHasOneOwner
<1> QED
  BY <1>0, <1>2, JobAlone

-----------------------------------------------------------------------------
(* A request.                                                              *)

LEMMA PendStep ==
  ASSUME SummaryInvariant, NEW k \in Caller, NEW trigger \in {"all_closed", "manual"},
         summary.status # "pending", Pend(k, trigger), UNCHANGED <<thread, simulator, lapses>>
  PROVE  SummaryInvariant'
<1> DEFINE partial == Open # {}
           row == [NoSummary EXCEPT !.status = "pending", !.trigger = trigger,
                                    !.partial = partial]
           left(w) == [runner[w] EXCEPT !.current = FALSE]
<1>0. /\ SummaryTypeOK /\ runner \in [SummaryWorker -> RunState]
      /\ caller \in [Caller -> CallState]
  BY SummaryTypes DEF SummaryInvariant
<1>1. /\ summary' = row /\ late' = {} /\ summaryJob' = "none" /\ tries' = 0
      /\ runner' = [w \in SummaryWorker |-> left(w)]
      /\ caller' = [c \in Caller |-> IF c = k THEN [step |-> "publishing", current |-> TRUE]
                                     ELSE [caller[c] EXCEPT !.current = FALSE]]
  <2>1. summary' = row
    BY DEF Pend
  <2>2. runner' = [w \in SummaryWorker |-> left(w)]
    BY DEF Pend
  <2>3. caller' = [c \in Caller |-> IF c = k THEN [step |-> "publishing", current |-> TRUE]
                                    ELSE [caller[c] EXCEPT !.current = FALSE]]
    BY DEF Pend
  <2>4. late' = {} /\ summaryJob' = "none" /\ tries' = 0
    BY DEF Pend
  <2> HIDE DEF row, left
  <2> QED
    BY <2>1, <2>2, <2>3, <2>4
<1>2. row \in SummaryRow /\ row.status = "pending" /\ row.partial = partial
  <2>1. partial \in BOOLEAN
    OBVIOUS
  <2> HIDE DEF partial
  <2> QED
    BY <2>1 DEF NoSummary, SummaryRow
<1> HIDE DEF row
<1>3. ASSUME NEW w \in SummaryWorker
      PROVE  left(w) \in RunState /\ ~left(w).current /\ left(w).step = runner[w].step
             /\ left(w).lapsed = runner[w].lapsed
  BY <1>0 DEF RunState
<1> HIDE DEF left
<1>4. runner' \in [SummaryWorker -> RunState] /\ \A w \in SummaryWorker : runner'[w] = left(w)
  BY <1>1, <1>3
<1>5. caller' \in [Caller -> CallState]
  <2>1. ASSUME NEW c \in Caller PROVE [caller[c] EXCEPT !.current = FALSE] \in CallState
    BY <1>0 DEF CallState
  <2>2. [step |-> "publishing", current |-> TRUE] \in CallState
    BY DEF CallState
  <2> QED
    BY <1>1, <2>1, <2>2
<1>6. SummaryTypeOK'
  BY <1>0, <1>1, <1>2, <1>4, <1>5, SummaryTypes, SummaryTypesNext, SummaryAssumption
<1>7. JobHasOneOwner'
  BY <1>1, <1>3, <1>4, SummaryAssumption DEF JobHasOneOwner
<1>8. PayerHolds'
  BY <1>3, <1>4 DEF SummaryInvariant, PayerHolds, Leased, Holds
<1>9. ClosesCovered'
  <2> SUFFICES ASSUME ~summary'.partial
               PROVE  \A c \in SummaryThread : thread'[c] # "closing"
    BY <1>1, <1>2, <1>3, <1>4 DEF ClosesCovered
  <2>1. Open = {}
    BY <1>1, <1>2
  <2> QED
    BY <2>1 DEF Open
<1> QED
  BY <1>6, <1>7, <1>8, <1>9 DEF SummaryInvariant

LEMMA RequestStep ==
  ASSUME SummaryInvariant, NEW k \in Caller, Request(k)
  PROVE  SummaryInvariant'
<1>0. /\ SummaryTypeOK /\ JobHasOneOwner /\ caller \in [Caller -> CallState]
  BY SummaryTypes DEF SummaryInvariant
<1>1. PICK trigger \in {"all_closed", "manual"} : RequestRow(k, trigger)
  BY DEF Request
<1>2. UNCHANGED <<thread, simulator, lapses>>
  BY DEF Request
<1>3. CASE summary.status = "pending"
  <2>1. /\ caller' = [caller EXCEPT ![k] = [step |-> "publishing", current |-> TRUE]]
        /\ UNCHANGED <<summary, late, summaryJob, tries, runner>>
    BY <1>1, <1>3 DEF RequestRow
  <2>2. caller' \in [Caller -> CallState]
    BY <1>0, <2>1 DEF CallState
  <2> QED
    BY <1>0, <1>2, <2>1, <2>2, PublishesJob, JobAlone
<1>4. CASE summary.status # "pending"
  BY <1>1, <1>2, <1>4, PendStep DEF RequestRow
<1> QED
  BY <1>3, <1>4

-----------------------------------------------------------------------------
(* Claims and runs.                                                        *)

LEMMA ClaimStep ==
  ASSUME SummaryInvariant, NEW w \in SummaryWorker, Claim(w)
  PROVE  SummaryInvariant'
<1>0. /\ SummaryTypeOK /\ JobHasOneOwner /\ runner \in [SummaryWorker -> RunState]
      /\ summary \in SummaryRow /\ UNCHANGED <<thread, late, tries, caller, simulator, lapses>>
      /\ summaryJob = "queued"
  BY SummaryTypes DEF SummaryInvariant, Claim
<1>1. \A v \in SummaryWorker : ~(runner[v].owns /\ runner[v].current)
  BY <1>0 DEF JobHasOneOwner
<1>2. CASE summaryJob' = "done" /\ UNCHANGED <<summary, runner>>
  <2>1. JobHasOneOwner'
    BY <1>1, <1>2 DEF JobHasOneOwner
  <2> QED
    BY <1>0, <1>2, <2>1, SummaryTypes, JobAlone
<1>3. CASE summary.status = "pending" /\ ~summary.leased /\ Claimed(w)
  <2> DEFINE e == [IdleRun EXCEPT !.step = "claimed", !.current = TRUE, !.owns = TRUE]
             row == [summary EXCEPT !.token = w, !.leased = TRUE]
  <2>1. e \in RunState /\ e.step = "claimed"
    BY DEF IdleRun, RunState
  <2>2. row \in SummaryRow /\ row.status = summary.status /\ row.partial = summary.partial
    BY <1>0 DEF SummaryRow
  <2>3. summaryJob' = "active" /\ summary' = row /\ runner' = [runner EXCEPT ![w] = e]
    BY <1>3 DEF Claimed
  <2> HIDE DEF e, row
  <2>4. /\ runner' \in [SummaryWorker -> RunState]
        /\ \A v \in SummaryWorker : runner'[v] = IF v = w THEN e ELSE runner[v]
    BY <1>0, <2>1, <2>3
  <2>5. SummaryTypeOK'
    BY <1>0, <2>2, <2>3, <2>4, SummaryTypes, SummaryTypesNext
  <2>6. JobHasOneOwner'
    BY <1>0, <1>1, <2>3, <2>4 DEF JobHasOneOwner
  <2>7. PayerHolds'
    BY <1>3, <2>1, <2>4 DEF SummaryInvariant, PayerHolds, Leased, Holds
  <2>8. ClosesCovered'
    BY <1>0, <1>3, <2>1, <2>2, <2>3, <2>4 DEF SummaryInvariant, ClosesCovered, Closed
  <2> QED
    BY <2>5, <2>6, <2>7, <2>8 DEF SummaryInvariant
<1> QED
  BY <1>2, <1>3 DEF Claim

\* The outcomes of a run.
Outcomes == {"done", "busy", "fatal", "retry"}

\* What a run that ends leaves behind.
LEMMA RunEnds ==
  ASSUME SummaryTypeOK, JobHasOneOwner, NEW w \in SummaryWorker, NEW held \in SummaryRow,
         NEW outcome \in Outcomes, EndRun(w, held, outcome)
  PROVE  /\ summary' \in SummaryRow /\ summary'.status = held.status
         /\ summary'.partial = held.partial /\ summary'.body = held.body
         /\ summary' # held => held.token = w /\ held.status = "pending" /\ runner[w].current
         /\ runner' \in [SummaryWorker -> RunState]
         /\ \A v \in SummaryWorker : runner'[v] = IF v = w THEN IdleRun ELSE runner[v]
         /\ summaryJob' \in {"none", "queued", "active", "failed", "done"}
         /\ tries' \in 0..JobAttempts /\ JobHasOneOwner'
<1> DEFINE freed == [held EXCEPT !.token = NoRunner, !.leased = FALSE]
<1>1. /\ freed \in SummaryRow /\ freed.status = held.status /\ freed.partial = held.partial
      /\ freed.body = held.body
  BY DEF SummaryRow
<1>2. \/ summary' = held
      \/ summary' = freed /\ held.token = w /\ held.status = "pending" /\ runner[w].current
  BY DEF EndRun
<1> HIDE DEF freed
<1>3. /\ runner \in [SummaryWorker -> RunState]
      /\ summaryJob \in {"none", "queued", "active", "failed", "done"} /\ tries \in 0..JobAttempts
  BY SummaryTypes
<1>4. /\ runner' \in [SummaryWorker -> RunState]
      /\ \A v \in SummaryWorker : runner'[v] = IF v = w THEN IdleRun ELSE runner[v]
  BY <1>3, IdleTyped DEF EndRun
<1>5. \A v \in SummaryWorker :
        runner'[v].owns /\ runner'[v].current => v # w /\ runner[v].owns /\ runner[v].current
  BY <1>4, IdleTyped
<1>6. CASE ~(runner[w].owns /\ runner[w].current)
  <2>1. UNCHANGED <<summaryJob, tries>>
    BY <1>6 DEF EndRun
  <2>2. JobHasOneOwner'
    BY <1>5, <2>1 DEF JobHasOneOwner
  <2> QED
    BY <1>1, <1>2, <1>3, <1>4, <2>1, <2>2
<1>7. CASE runner[w].owns /\ runner[w].current
  <2>1. summaryJob = "active" /\ tries < JobAttempts
    BY <1>7 DEF JobHasOneOwner
  <2>2. \A v \in SummaryWorker : ~(runner'[v].owns /\ runner'[v].current)
    BY <1>5, <1>7 DEF JobHasOneOwner
  <2>3. /\ summaryJob' \in {"none", "queued", "active", "failed", "done"}
        /\ \/ tries' = tries
           \/ tries' = tries + 1 /\ (summaryJob' = "failed" \/ tries + 1 < JobAttempts)
    <3>1. CASE outcome = "done"
      BY <1>7, <3>1 DEF EndRun
    <3>2. CASE outcome = "busy"
      BY <1>7, <3>2 DEF EndRun
    <3>3. CASE outcome = "fatal"
      BY <1>7, <3>3 DEF EndRun
    <3>4. CASE outcome = "retry"
      BY <1>7, <3>4 DEF EndRun
    <3> QED
      BY <3>1, <3>2, <3>3, <3>4 DEF Outcomes
  <2>4. tries' \in 0..JobAttempts /\ (tries' < JobAttempts \/ summaryJob' = "failed")
    BY <1>3, <2>1, <2>3, SummaryAssumption
  <2>5. JobHasOneOwner'
    BY <2>2, <2>4 DEF JobHasOneOwner
  <2> QED
    BY <1>1, <1>2, <1>4, <2>3, <2>4, <2>5
<1> QED
  BY <1>6, <1>7

\* A run that ends keeps the invariant when it leaves the row as it was, or settles a
\* row it holds with a body that covers the closes.
LEMMA EndStep ==
  ASSUME SummaryInvariant, NEW w \in SummaryWorker, NEW held \in SummaryRow,
         NEW outcome \in Outcomes, EndRun(w, held, outcome),
         UNCHANGED <<thread, late, caller, simulator>>, SummaryFault \/ UNCHANGED lapses,
         \/ held = summary
         \/ /\ Leased(w) /\ held.status \in {"ready", "failed"} /\ held.partial = summary.partial
            /\ held.status = "ready" => /\ held.body = runner[w].read
                                        /\ runner[w].step \in {"waiting", "paying"}
  PROVE  SummaryInvariant'
<1>0. SummaryTypeOK /\ JobHasOneOwner
  BY DEF SummaryInvariant
<1>1. /\ summary' \in SummaryRow /\ summary'.status = held.status
      /\ summary'.partial = held.partial /\ summary'.body = held.body
      /\ summary' # held => held.token = w /\ held.status = "pending" /\ runner[w].current
      /\ runner' \in [SummaryWorker -> RunState]
      /\ \A v \in SummaryWorker : runner'[v] = IF v = w THEN IdleRun ELSE runner[v]
      /\ summaryJob' \in {"none", "queued", "active", "failed", "done"}
      /\ tries' \in 0..JobAttempts /\ JobHasOneOwner'
  BY <1>0, RunEnds
<1>2. SummaryTypeOK'
  BY <1>0, <1>1, FaultCounted, SummaryTypes, SummaryTypesNext
<1>3. PayerHolds'
  <2> SUFFICES ASSUME NEW v \in SummaryWorker, runner'[v].step = "paying", ~runner'[v].lapsed
               PROVE  Leased(v)'
    BY DEF PayerHolds
  <2>1. v # w /\ runner'[v] = runner[v]
    BY <1>1, IdleTyped
  <2>2. Leased(v)
    BY <2>1 DEF SummaryInvariant, PayerHolds
  <2>3. summary' = summary
    BY <1>1, <2>1, <2>2 DEF Leased, Holds
  <2> QED
    BY <2>1, <2>2, <2>3 DEF Leased, Holds
<1>4. ClosesCovered'
  <2>1. Closed' = Closed /\ late' = late /\ thread' = thread
    BY DEF Closed
  <2>2. CASE held = summary
    BY <1>1, <2>1, <2>2, IdleTyped DEF SummaryInvariant, ClosesCovered
  <2>3. CASE /\ Leased(w) /\ held.status \in {"ready", "failed"} /\ held.partial = summary.partial
             /\ held.status = "ready" => /\ held.body = runner[w].read
                                         /\ runner[w].step \in {"waiting", "paying"}
    <3>1. summary.status = "pending" /\ runner[w].current
      BY <2>3 DEF Leased, Holds
    <3> QED
      BY <1>1, <2>1, <2>3, <3>1 DEF SummaryInvariant, ClosesCovered
  <2> QED
    BY <2>2, <2>3
<1> QED
  BY <1>1, <1>2, <1>3, <1>4 DEF SummaryInvariant

LEMMA SettledRow ==
  ASSUME summary \in SummaryRow, NEW status \in {"ready", "failed"}, NEW body \in SUBSET SummaryThread
  PROVE  /\ Settled(status, body) \in SummaryRow /\ Settled(status, body).status = status
         /\ Settled(status, body).partial = summary.partial /\ Settled(status, body).body = body
BY DEF Settled, SummaryRow

\* A run goes on: only its own state changes.
LEMMA RunGoesOn ==
  ASSUME SummaryInvariant, NEW w \in SummaryWorker, NEW e \in RunState,
         runner' = [runner EXCEPT ![w] = e],
         UNCHANGED <<thread, late, summary, summaryJob, tries, caller, simulator>>,
         SummaryFault \/ UNCHANGED lapses,
         e.owns /\ e.current => runner[w].owns /\ runner[w].current,
         e.step = "paying" /\ ~e.lapsed => Leased(w) /\ e.current,
         /\ summary.status = "pending" /\ ~summary.partial /\ e.current
         /\ e.step \in {"waiting", "paying"}
         => Closed \ late \subseteq e.read
  PROVE  SummaryInvariant'
<1>0. /\ SummaryTypeOK /\ runner \in [SummaryWorker -> RunState]
      /\ \A v \in SummaryWorker : runner'[v] = IF v = w THEN e ELSE runner[v]
      /\ runner' \in [SummaryWorker -> RunState]
  BY SummaryTypes DEF SummaryInvariant
<1>1. SummaryTypeOK'
  BY <1>0, FaultCounted, SummaryTypes, SummaryTypesNext
<1>2. JobHasOneOwner'
  BY <1>0 DEF SummaryInvariant, JobHasOneOwner
<1>3. PayerHolds'
  <2> SUFFICES ASSUME NEW v \in SummaryWorker, runner'[v].step = "paying", ~runner'[v].lapsed
               PROVE  summary.status = "pending" /\ runner'[v].current /\ summary.token = v
                      /\ summary.leased
    BY DEF PayerHolds, Leased, Holds
  <2>1. CASE v # w
    BY <1>0, <2>1 DEF SummaryInvariant, PayerHolds, Leased, Holds
  <2>2. CASE v = w
    BY <1>0, <2>2 DEF Leased, Holds
  <2> QED
    BY <2>1, <2>2
<1>4. ClosesCovered'
  BY <1>0 DEF SummaryInvariant, ClosesCovered, Closed
<1> QED
  BY <1>1, <1>2, <1>3, <1>4 DEF SummaryInvariant

\* The steps of a run.
LEMMA RunSteps ==
  ASSUME SummaryInvariant, NEW w \in SummaryWorker, Run(w) \/ FailRead(w)
  PROVE  SummaryInvariant'
<1>0. /\ SummaryTypeOK /\ summary \in SummaryRow /\ runner[w] \in RunState
      /\ runner \in [SummaryWorker -> RunState]
  BY SummaryTypes DEF SummaryInvariant
<1>1. UNCHANGED <<thread, late, caller, simulator>> /\ (SummaryFault \/ UNCHANGED lapses)
  BY DEF Run, Read, Enter, Publish, Fail, FailRead, RunKeeps
<1>2. ASSUME NEW outcome \in Outcomes, EndRun(w, summary, outcome) PROVE SummaryInvariant'
  BY <1>0, <1>1, <1>2, EndStep
<1>3. ASSUME NEW outcome \in Outcomes, Leased(w), EndRun(w, Settled("failed", {}), outcome)
      PROVE  SummaryInvariant'
  <2>1. /\ Settled("failed", {}) \in SummaryRow /\ Settled("failed", {}).status = "failed"
        /\ Settled("failed", {}).partial = summary.partial
    BY <1>0, SettledRow
  <2> QED
    BY <1>0, <1>1, <1>3, <2>1, EndStep
<1>4. CASE Read(w)
  <2>1. CASE EndRun(w, summary, "done") \/ EndRun(w, summary, "busy")
    BY <1>2, <2>1 DEF Outcomes
  <2>2. CASE Leased(w) /\ EndRun(w, Settled("failed", {}), "done")
    BY <1>3, <2>2 DEF Outcomes
  <2>3. CASE /\ runner' = [runner EXCEPT ![w].step = "waiting", ![w].read = Closed]
             /\ UNCHANGED <<summary, summaryJob, tries>>
    <3> DEFINE e == [runner[w] EXCEPT !.step = "waiting", !.read = Closed]
    <3>1. Closed \subseteq SummaryThread
      BY DEF Closed
    <3>2. /\ e \in RunState /\ e.step = "waiting" /\ e.read = Closed
          /\ e.owns = runner[w].owns /\ e.current = runner[w].current
      BY <1>0, <3>1 DEF RunState
    <3>3. runner' = [runner EXCEPT ![w] = e]
      BY <1>0, <2>3 DEF RunState
    <3> HIDE DEF e
    <3> QED
      BY <1>1, <2>3, <3>2, <3>3, RunGoesOn
  <2> QED
    BY <1>4, <2>1, <2>2, <2>3 DEF Read
<1>5. CASE Enter(w)
  <2>1. CASE EndRun(w, summary, "busy")
    BY <1>2, <2>1 DEF Outcomes
  <2>2. CASE /\ Leased(w) /\ runner' = [runner EXCEPT ![w].step = "paying"]
             /\ UNCHANGED <<summary, summaryJob, tries>>
    <3> DEFINE e == [runner[w] EXCEPT !.step = "paying"]
    <3>1. /\ e \in RunState /\ e.step = "paying" /\ e.read = runner[w].read
          /\ e.owns = runner[w].owns /\ e.current = runner[w].current
      BY <1>0 DEF RunState
    <3>2. runner' = [runner EXCEPT ![w] = e]
      BY <1>0, <2>2 DEF RunState
    <3>3. runner[w].step = "waiting" /\ runner[w].current
      BY <1>5, <2>2 DEF Enter, Leased, Holds
    <3>4. e.current
      BY <3>1, <3>3
    <3>5. summary.status = "pending" /\ ~summary.partial => Closed \ late \subseteq e.read
      BY <3>1, <3>3 DEF SummaryInvariant, ClosesCovered
    <3> HIDE DEF e
    <3> QED
      BY <1>1, <2>2, <3>1, <3>2, <3>3, <3>4, <3>5, RunGoesOn
  <2> QED
    BY <1>5, <2>1, <2>2 DEF Enter
<1>6. CASE Publish(w)
  <2>1. CASE EndRun(w, summary, "busy")
    BY <1>2, <2>1 DEF Outcomes
  <2>2. CASE Leased(w) /\ EndRun(w, Settled("ready", runner[w].read), "done")
    <3> DEFINE row == Settled("ready", runner[w].read)
    <3>1. /\ row \in SummaryRow /\ row.status = "ready" /\ row.body = runner[w].read
          /\ row.partial = summary.partial
      BY <1>0, SettledRow DEF RunState
    <3>2. runner[w].step = "paying" /\ "done" \in Outcomes
      BY <1>6 DEF Publish, Outcomes
    <3> HIDE DEF row
    <3> QED
      BY <1>0, <1>1, <2>2, <3>1, <3>2, EndStep DEF row
  <2> QED
    BY <1>6, <2>1, <2>2 DEF Publish
<1>7. ASSUME NEW retryable \in BOOLEAN, Fail(w, retryable) PROVE SummaryInvariant'
  <2>1. \/ \E outcome \in Outcomes : EndRun(w, summary, outcome)
        \/ \E outcome \in Outcomes : Leased(w) /\ EndRun(w, Settled("failed", {}), outcome)
    BY <1>7 DEF Fail, Outcomes
  <2> QED
    BY <1>2, <1>3, <2>1
<1>8. CASE FailRead(w)
  BY <1>2, <1>8 DEF FailRead, Outcomes
<1> QED
  BY <1>4, <1>5, <1>6, <1>7, <1>8 DEF Run

\* A worker dies or loses the lock on its job.
LEMMA WorkerFaults ==
  ASSUME SummaryInvariant, NEW w \in SummaryWorker, CrashRun(w) \/ LosesJob(w)
  PROVE  SummaryInvariant'
<1>0. runner[w] \in RunState /\ runner \in [SummaryWorker -> RunState]
  BY SummaryTypes DEF SummaryInvariant
<1>1. /\ UNCHANGED <<thread, late, summary, summaryJob, tries, caller, simulator>>
      /\ SummaryFault
  BY DEF CrashRun, LosesJob
<1>2. CASE CrashRun(w)
  BY <1>1, <1>2, IdleTyped, RunGoesOn DEF CrashRun
<1>3. CASE LosesJob(w)
  <2> DEFINE e == [runner[w] EXCEPT !.owns = FALSE]
  <2>1. /\ e \in RunState /\ ~e.owns /\ e.step = runner[w].step /\ e.current = runner[w].current
        /\ e.read = runner[w].read /\ e.lapsed = runner[w].lapsed
    BY <1>0 DEF RunState
  <2>2. runner' = [runner EXCEPT ![w] = e]
    BY <1>0, <1>3 DEF LosesJob, RunState
  <2>3. runner[w].step = "paying" /\ ~runner[w].lapsed => Leased(w) /\ runner[w].current
    BY DEF SummaryInvariant, PayerHolds, Leased, Holds
  <2>4. /\ summary.status = "pending" /\ ~summary.partial /\ runner[w].current
        /\ runner[w].step \in {"waiting", "paying"}
        => Closed \ late \subseteq runner[w].read
    BY DEF SummaryInvariant, ClosesCovered
  <2> HIDE DEF e
  <2> QED
    BY <1>1, <2>1, <2>2, <2>3, <2>4, RunGoesOn
<1> QED
  BY <1>2, <1>3

\* A lease runs out, with nobody working under it or under a run that is told so.
LEMMA LeaseSteps ==
  ASSUME SummaryInvariant, LeaseEnds \/ \E w \in SummaryWorker : LeaseLapses(w)
  PROVE  SummaryInvariant'
<1> DEFINE row == [summary EXCEPT !.leased = FALSE]
<1>0. /\ SummaryTypeOK /\ summary \in SummaryRow /\ runner \in [SummaryWorker -> RunState]
  BY SummaryTypes DEF SummaryInvariant
<1>1. /\ summary' = row /\ UNCHANGED <<thread, late, summaryJob, tries, caller, simulator>>
      /\ SummaryFault \/ UNCHANGED lapses
  BY DEF LeaseEnds, LeaseLapses
<1>2. /\ row \in SummaryRow /\ row.status = summary.status /\ row.partial = summary.partial
      /\ row.body = summary.body
  BY <1>0 DEF SummaryRow
<1> HIDE DEF row
<1>3. /\ runner' \in [SummaryWorker -> RunState]
      /\ \A v \in SummaryWorker :
           /\ runner'[v].step = runner[v].step /\ runner'[v].current = runner[v].current
           /\ runner'[v].owns = runner[v].owns /\ runner'[v].read = runner[v].read
           /\ ~runner'[v].lapsed => ~runner[v].lapsed /\ (runner[v].step = "idle" \/ ~Leased(v))
  <2>1. CASE LeaseEnds
    BY <1>0, <2>1 DEF LeaseEnds, Leased
  <2>2. ASSUME NEW w \in SummaryWorker, LeaseLapses(w)
        PROVE  /\ runner' \in [SummaryWorker -> RunState]
               /\ \A v \in SummaryWorker :
                    /\ runner'[v].step = runner[v].step /\ runner'[v].current = runner[v].current
                    /\ runner'[v].owns = runner[v].owns /\ runner'[v].read = runner[v].read
                    /\ ~runner'[v].lapsed =>
                         ~runner[v].lapsed /\ (runner[v].step = "idle" \/ ~Leased(v))
    <3> DEFINE e == [runner[w] EXCEPT !.lapsed = TRUE]
    <3>1. /\ e \in RunState /\ e.lapsed /\ e.step = runner[w].step
          /\ e.current = runner[w].current /\ e.owns = runner[w].owns /\ e.read = runner[w].read
      BY <1>0 DEF RunState
    <3>2. runner' = [runner EXCEPT ![w] = e]
      BY <1>0, <2>2 DEF LeaseLapses, RunState
    <3> HIDE DEF e
    <3>3. /\ runner' \in [SummaryWorker -> RunState]
          /\ \A v \in SummaryWorker : runner'[v] = IF v = w THEN e ELSE runner[v]
      BY <1>0, <3>1, <3>2
    <3>4. \A v \in SummaryWorker : v # w => ~Leased(v)
      BY <2>2 DEF LeaseLapses, Leased, Holds
    <3> QED
      BY <3>1, <3>3, <3>4
  <2> QED
    BY <2>1, <2>2
<1>4. SummaryTypeOK'
  BY <1>0, <1>1, <1>2, <1>3, FaultCounted, SummaryTypes, SummaryTypesNext
<1>5. JobHasOneOwner'
  BY <1>1, <1>3 DEF SummaryInvariant, JobHasOneOwner
<1>6. PayerHolds'
  BY <1>3 DEF SummaryInvariant, PayerHolds
<1>7. ClosesCovered'
  BY <1>1, <1>2, <1>3 DEF SummaryInvariant, ClosesCovered, Closed
<1> QED
  BY <1>4, <1>5, <1>6, <1>7 DEF SummaryInvariant

LEMMA RestartStep == SummaryInvariant /\ RestartAsSimulator => SummaryInvariant'
<1> SUFFICES ASSUME SummaryInvariant, RestartAsSimulator PROVE SummaryInvariant'
  OBVIOUS
<1>0. /\ SummaryTypeOK /\ UNCHANGED <<thread, late, summary, summaryJob, tries>>
      /\ runner' = [w \in SummaryWorker |-> IdleRun] /\ caller' = [k \in Caller |-> IdleCall]
      /\ simulator' = TRUE /\ SummaryFault
  BY DEF SummaryInvariant, RestartAsSimulator
<1>1. SummaryTypeOK'
  BY <1>0, IdleTyped, FaultCounted, SummaryTypes, SummaryTypesNext
<1>2. JobHasOneOwner' /\ PayerHolds'
  BY <1>0, IdleTyped DEF SummaryInvariant, JobHasOneOwner, PayerHolds
<1>3. ClosesCovered'
  BY <1>0, IdleTyped DEF SummaryInvariant, ClosesCovered, Closed
<1> QED
  BY <1>1, <1>2, <1>3 DEF SummaryInvariant

LEMMA SummaryStutters == SummaryInvariant /\ UNCHANGED summaryVars => SummaryInvariant'
<1> SUFFICES ASSUME SummaryInvariant, UNCHANGED summaryVars PROVE SummaryInvariant'
  OBVIOUS
<1>1. UNCHANGED <<thread, late, summary, summaryJob, tries, runner, caller, simulator, lapses>>
  BY DEF summaryVars
<1>2. SummaryTypeOK /\ JobHasOneOwner
  BY DEF SummaryInvariant
<1>3. JobHasOneOwner'
  BY <1>1, <1>2 DEF JobHasOneOwner
<1> QED
  BY <1>1, <1>2, <1>3, SummaryTypes, JobAlone

-----------------------------------------------------------------------------
(* The theorems.                                                           *)

LEMMA SummaryStarts == SummaryInit => SummaryInvariant
<1> SUFFICES ASSUME SummaryInit PROVE SummaryInvariant
  OBVIOUS
<1>1. /\ thread = [c \in SummaryThread |-> "absent"] /\ late = {} /\ summary = NoSummary
      /\ summaryJob = "none" /\ tries = 0 /\ runner = [w \in SummaryWorker |-> IdleRun]
      /\ caller = [k \in Caller |-> IdleCall] /\ simulator = FALSE /\ lapses = 0
  BY DEF SummaryInit
<1>2. NoSummary \in SummaryRow /\ NoSummary.status = "none"
  BY DEF NoSummary, SummaryRow
<1>3. SummaryTypeOK
  <2>1. /\ thread \in [SummaryThread -> {"absent", "open", "closing", "closed"}]
        /\ runner \in [SummaryWorker -> RunState] /\ caller \in [Caller -> CallState]
    BY <1>1, IdleTyped
  <2>2. tries \in 0..JobAttempts /\ lapses \in 0..MaxSummaryFaults
    BY <1>1, SummaryAssumption
  <2>3. /\ summary \in SummaryRow /\ late \subseteq SummaryThread
        /\ summaryJob \in {"none", "queued", "active", "failed", "done"}
    BY <1>1, <1>2
  <2>4. simulator \in BOOLEAN
    BY <1>1, Zenon
  <2> QED
    BY <2>1, <2>2, <2>3, <2>4, SummaryTypes, Zenon
<1>4. JobHasOneOwner /\ PayerHolds /\ ClosesCovered
  BY <1>1, <1>2, IdleTyped DEF JobHasOneOwner, PayerHolds, ClosesCovered
<1> QED
  BY <1>3, <1>4 DEF SummaryInvariant

LEMMA SummarySteps == SummaryInvariant /\ [SummaryNext]_summaryVars => SummaryInvariant'
<1> SUFFICES ASSUME SummaryInvariant, [SummaryNext]_summaryVars PROVE SummaryInvariant'
  OBVIOUS
<1>1. ASSUME NEW c \in SummaryThread, CreateThread(c) \/ BeginClose(c) \/ CommitClose(c)
      PROVE  SummaryInvariant'
  BY <1>1, ThreadSteps
<1>2. ASSUME NEW k \in Caller, Ask(k) \/ PublishJob(k) \/ Forgets(k) PROVE SummaryInvariant'
  BY <1>2, CallerSteps
<1>3. ASSUME NEW k \in Caller, Request(k) PROVE SummaryInvariant'
  BY <1>3, RequestStep
<1>4. CASE RecoverPending \/ Stalled
  BY <1>4, RecoverStep, StalledStep
<1>5. ASSUME NEW w \in SummaryWorker, Claim(w) PROVE SummaryInvariant'
  BY <1>5, ClaimStep
<1>6. ASSUME NEW w \in SummaryWorker, Run(w) \/ FailRead(w) PROVE SummaryInvariant'
  BY <1>6, RunSteps
<1>7. ASSUME NEW w \in SummaryWorker, CrashRun(w) \/ LosesJob(w) PROVE SummaryInvariant'
  BY <1>7, WorkerFaults
<1>8. CASE LeaseEnds \/ \E w \in SummaryWorker : LeaseLapses(w)
  BY <1>8, LeaseSteps
<1>9. CASE RestartAsSimulator
  BY <1>9, RestartStep
<1>10. CASE UNCHANGED summaryVars
  BY <1>10, SummaryStutters
<1> QED
  BY <1>1, <1>2, <1>3, <1>4, <1>5, <1>6, <1>7, <1>8, <1>9, <1>10 DEF SummaryNext

\* The inductive invariant holds in every state of the summary, and with it the type
\* invariant.
THEOREM SummaryInvariantHolds == SummarySpec => []SummaryInvariant
BY SummaryStarts, SummarySteps, PTL DEF SummarySpec

\* Conversations, the summary row, its job, its runs and its callers keep their types: no
\* run of a job is counted beyond JobAttempts.
THEOREM SummaryTyped == SummarySpec => []SummaryTypeOK
<1>1. SummaryInvariant => SummaryTypeOK
  BY DEF SummaryInvariant
<1> QED
  BY <1>1, SummaryInvariantHolds, PTL

\* A summary that recovery leaves alone holds every closed conversation: what closed
\* after the request is late, and what closed before was there to be read.
THEOREM FinalComplete == SummarySpec => []FinalSummaryIsComplete
<1>1. SummaryInvariant => FinalSummaryIsComplete
  <2> SUFFICES ASSUME SummaryInvariant, summary.status = "ready", ~NeedsRefresh
               PROVE  Closed \subseteq summary.body
    BY DEF FinalSummaryIsComplete
  <2>1. ~summary.partial /\ Closed \cap late = {}
    BY DEF NeedsRefresh
  <2>2. Closed \ late \subseteq summary.body
    BY <2>1 DEF SummaryInvariant, ClosesCovered
  <2> QED
    BY <2>1, <2>2
<1> QED
  BY <1>1, SummaryInvariantHolds, PTL

\* Two runs are inside the model at once only if one of them lost its lease: both would
\* hold the same row.
THEOREM OnlyOnePays == SummarySpec => []OnePayer
<1>1. SummaryInvariant => OnePayer
  BY DEF SummaryInvariant, PayerHolds, OnePayer, Leased, Holds
<1> QED
  BY <1>1, SummaryInvariantHolds, PTL

-----------------------------------------------------------------------------
(* The topic analyses.                                                     *)

AnalysisRow ==
  [status : {"absent", "pending", "running"} \cup Finished,
   attempts : 0..AttemptLimit, token : Analyst \cup {NoAnalyst},
   leased : BOOLEAN, reserved : 0..RequestLimit, by : 0..AttemptLimit]

Execution ==
  [step : {"idle", "claimed", "embedding", "reserved", "calling", "clustering"},
   run : SUBSET Analysis, attempt : 0..AttemptLimit,
   missing : SUBSET Batch, batch : SUBSET Batch, owns : BOOLEAN]

\* The executions that reserved a request of a run and have not sent it.
AboutToSend(a) == {w \in Analyst : In(w, a, "reserved")}

\* What was sent, or is about to be, was reserved before.
Reserved ==
  \A a \in Analysis : calls[a] + Cardinality(AboutToSend(a)) <= analysis[a].reserved

\* Nobody comes to hold a reservation.
NoneReserves ==
  \A w \in Analyst : analyst'[w].step = "reserved" =>
     analyst[w].step = "reserved" /\ analyst'[w].run = analyst[w].run

\* The leases of a slot and of its run begin and end together, one run is leased at a
\* time, and a process that executes something executes the run it holds.
LeasesAgree ==
  /\ \A a \in Analysis : analysis[a].leased =>
       slot.leased /\ analysis[a].status = "running" /\ analysis[a].token = slot.token
  /\ \A a, b \in Analysis : analysis[a].leased /\ analysis[b].leased => a = b
  /\ slot.leased => \E a \in Analysis : analysis[a].leased
  /\ \A a \in Analysis, w \in Analyst :
       analysis[a].leased /\ analysis[a].token = w => analyst[w].run \in {{}, {a}}

TopicInvariant == TopicTypeOK /\ Reserved /\ LeasesAgree /\ ResultOfLastAttempt

-----------------------------------------------------------------------------
(* Rows and executions.                                                    *)

LEMMA RunTypes ==
  TopicTypeOK <=>
    /\ analysis \in [Analysis -> AnalysisRow]
    /\ slot \in [token : Analyst \cup {NoAnalyst}, leased : BOOLEAN]
    /\ cached \subseteq Batch
    /\ wakeup \in [Analysis -> {"none", "queued", "active", "failed"}]
    /\ failures \in [Analysis -> 0..(WakeupAttempts - 1)]
    /\ analyst \in [Analyst -> Execution]
    /\ calls \in [Analysis -> Nat]
BY DEF TopicTypeOK, AnalysisRow, Execution

\* A row that changes.
LEMMA RowChanges ==
  ASSUME TopicTypeOK, NEW a \in Analysis, NEW r \in AnalysisRow,
         analysis' = [analysis EXCEPT ![a] = r]
  PROVE  /\ analysis' \in [Analysis -> AnalysisRow]
         /\ \A b \in Analysis : analysis'[b] = IF b = a THEN r ELSE analysis[b]
BY RunTypes

\* A run that is given up, finished or handed back holds no lease.
LEMMA ReleasedRow ==
  ASSUME TopicTypeOK, NEW a \in Analysis, NEW s \in {"pending"} \cup Finished
  PROVE  /\ Released(a, s) \in AnalysisRow
         /\ Released(a, s).status = s /\ ~Released(a, s).leased
         /\ Released(a, s).attempts = analysis[a].attempts
         /\ Released(a, s).reserved = analysis[a].reserved /\ Released(a, s).by = analysis[a].by
<1>1. analysis[a] \in AnalysisRow
  BY RunTypes
<1> QED
  BY <1>1 DEF AnalysisRow, Released

-----------------------------------------------------------------------------
(* The budget.                                                             *)

LEMMA AboutToSendIsFinite ==
  ASSUME NEW a
  PROVE  IsFiniteSet(AboutToSend(a)) /\ Cardinality(AboutToSend(a)) \in Nat
BY AnalysisAssumption, FS_Subset, FS_CardinalityType DEF AboutToSend

\* Where nobody reserves or sends, the budget holds as before.
LEMMA BudgetKept ==
  ASSUME TopicTypeOK, TopicTypeOK', Reserved, NoneReserves, calls' = calls,
         \A a \in Analysis : analysis'[a].reserved = analysis[a].reserved
  PROVE  Reserved'
<1> SUFFICES ASSUME NEW a \in Analysis
             PROVE  calls'[a] + Cardinality(AboutToSend(a)') <= analysis'[a].reserved
  BY DEF Reserved
<1>1. AboutToSend(a)' \subseteq AboutToSend(a)
  BY DEF AboutToSend, In, NoneReserves
<1>2. /\ Cardinality(AboutToSend(a)') \in Nat /\ Cardinality(AboutToSend(a)) \in Nat
      /\ Cardinality(AboutToSend(a)') <= Cardinality(AboutToSend(a))
  BY <1>1, AboutToSendIsFinite, FS_Subset, FS_CardinalityType
<1>3. calls[a] \in Nat /\ analysis[a].reserved \in Nat
  BY RunTypes, AnalysisAssumption DEF AnalysisRow
<1> QED
  BY <1>2, <1>3 DEF Reserved

-----------------------------------------------------------------------------
(* The leases.                                                             *)

\* Nothing of a claim changes: no lease, no token, and nobody executes another run.
LEMMA LeasesKept ==
  ASSUME LeasesAgree, slot' = slot,
         \A a \in Analysis : /\ analysis'[a].leased = analysis[a].leased
                             /\ analysis'[a].token = analysis[a].token
                             /\ analysis[a].leased => analysis'[a].status = analysis[a].status,
         \A w \in Analyst : analyst'[w].run \in {{}, analyst[w].run}
  PROVE  LeasesAgree'
BY DEF LeasesAgree

\* Nobody holds a lease any more.
LEMMA LeasesEnded ==
  ASSUME ~slot'.leased, \A a \in Analysis : ~analysis'[a].leased
  PROVE  LeasesAgree'
BY DEF LeasesAgree

\* An execution that finds its claim in both rows holds the only lease.
LEMMA HolderIsLeased ==
  ASSUME LeasesAgree, NEW w \in Analyst, NEW a \in Analysis,
         analyst[w].run = {a}, LocksClaim(w, a)
  PROVE  /\ analysis[a].leased /\ analysis[a].status = "running"
         /\ \A b \in Analysis : analysis[b].leased => b = a
<1>1. PICK b \in Analysis : analysis[b].leased
  BY DEF LeasesAgree, LocksClaim
<1>2. analysis[b].token = w
  BY <1>1 DEF LeasesAgree, LocksClaim
<1>3. analyst[w].run \in {{}, {b}}
  BY <1>1, <1>2 DEF LeasesAgree
<1>4. a = b
  BY <1>3
<1> QED
  BY <1>1, <1>4 DEF LeasesAgree, LocksClaim

-----------------------------------------------------------------------------
(* What is kept when only some of the variables change.                    *)

\* An action that leaves the rows and the requests alone.
LEMMA RowsAlone ==
  ASSUME TopicInvariant, UNCHANGED <<analysis, slot, calls>>,
         cached' \subseteq Batch,
         wakeup' \in [Analysis -> {"none", "queued", "active", "failed"}],
         failures' \in [Analysis -> 0..(WakeupAttempts - 1)],
         analyst' \in [Analyst -> Execution], NoneReserves,
         \A w \in Analyst : analyst'[w].run \in {{}, analyst[w].run}
  PROVE  TopicInvariant'
<1>1. TopicTypeOK'
  <2>1. /\ analysis' \in [Analysis -> AnalysisRow]
        /\ slot' \in [token : Analyst \cup {NoAnalyst}, leased : BOOLEAN]
        /\ calls' \in [Analysis -> Nat]
    BY RunTypes DEF TopicInvariant
  <2> QED
    BY <2>1 DEF TopicTypeOK, AnalysisRow, Execution
<1>2. LeasesAgree'
  BY LeasesKept DEF TopicInvariant
<1>3. Reserved' /\ ResultOfLastAttempt'
  BY <1>1, BudgetKept DEF TopicInvariant, ResultOfLastAttempt
<1> QED
  BY <1>1, <1>2, <1>3 DEF TopicInvariant

LEMMA WakeupsTyped ==
  ASSUME TopicTypeOK, NEW a \in Analysis, WakesUp(a) \/ UNCHANGED <<wakeup, failures>>
  PROVE  /\ wakeup' \in [Analysis -> {"none", "queued", "active", "failed"}]
         /\ failures' \in [Analysis -> 0..(WakeupAttempts - 1)]
<1>1. /\ wakeup \in [Analysis -> {"none", "queued", "active", "failed"}]
      /\ failures \in [Analysis -> 0..(WakeupAttempts - 1)] /\ 0 \in 0..(WakeupAttempts - 1)
  BY RunTypes, AnalysisAssumption
<1> QED
  BY <1>1 DEF WakesUp

LEMMA RestingTyped == Resting \in Execution /\ Resting.run = {} /\ Resting.step = "idle"
BY AnalysisAssumption DEF Resting, Execution

\* The end of an execution.
LEMMA JobOverTyped ==
  ASSUME TopicTypeOK, NEW w \in Analyst, NEW a \in Analysis, NEW outcome, JobOver(w, a, outcome)
  PROVE  /\ wakeup' \in [Analysis -> {"none", "queued", "active", "failed"}]
         /\ failures' \in [Analysis -> 0..(WakeupAttempts - 1)]
         /\ analyst' \in [Analyst -> Execution] /\ NoneReserves
         /\ \A v \in Analyst : analyst'[v].run \in {{}, analyst[v].run}
<1>1. /\ wakeup \in [Analysis -> {"none", "queued", "active", "failed"}]
      /\ failures \in [Analysis -> 0..(WakeupAttempts - 1)]
      /\ analyst \in [Analyst -> Execution]
  BY RunTypes
<1>2. analyst' = [analyst EXCEPT ![w] = Resting]
  BY DEF JobOver
<1>0. /\ analyst' \in [Analyst -> Execution] /\ NoneReserves
      /\ \A v \in Analyst : analyst'[v].run \in {{}, analyst[v].run}
  BY <1>1, <1>2, RestingTyped DEF NoneReserves
<1>3. CASE UNCHANGED <<wakeup, failures>>
  BY <1>0, <1>1, <1>3
<1>4. CASE /\ failures[a] + 1 < WakeupAttempts
           /\ wakeup' = [wakeup EXCEPT ![a] = "queued"]
           /\ failures' = [failures EXCEPT ![a] = @ + 1]
  <2>1. failures[a] + 1 \in 0..(WakeupAttempts - 1)
    BY <1>1, <1>4, AnalysisAssumption
  <2>2. failures' \in [Analysis -> 0..(WakeupAttempts - 1)]
    BY <1>1, <1>4, <2>1
  <2> QED
    BY <1>0, <1>1, <1>4, <2>2
<1>5. CASE /\ wakeup' = [wakeup EXCEPT ![a] = IF outcome = "done" THEN "none" ELSE "failed"]
           /\ UNCHANGED failures
  BY <1>0, <1>1, <1>5
<1> QED
  BY <1>3, <1>4, <1>5 DEF JobOver

-----------------------------------------------------------------------------
(* One lemma per action that changes a row.                                *)

LEMMA StartStep ==
  ASSUME TopicInvariant, NEW a \in Analysis, NEW delivered \in BOOLEAN, Start(a, delivered)
  PROVE  TopicInvariant'
<1> DEFINE r == [analysis[a] EXCEPT !.status = "pending"]
<1>1. analysis[a] \in AnalysisRow /\ TopicTypeOK
  BY RunTypes DEF TopicInvariant
<1>2. /\ r \in AnalysisRow /\ r.status = "pending" /\ r.leased = analysis[a].leased
      /\ r.token = analysis[a].token /\ r.reserved = analysis[a].reserved
  BY <1>1 DEF AnalysisRow
<1>3. /\ analysis[a].status \in {"absent", "pending"}
      /\ analysis' = [analysis EXCEPT ![a] = r]
      /\ UNCHANGED <<slot, cached, analyst, calls>>
      /\ WakesUp(a) \/ UNCHANGED <<wakeup, failures>>
  BY <1>1, RunTypes DEF Start
<1> HIDE DEF r
<1>4. /\ analysis' \in [Analysis -> AnalysisRow]
      /\ \A b \in Analysis : analysis'[b] = IF b = a THEN r ELSE analysis[b]
  BY <1>1, <1>2, <1>3, RowChanges
<1>5. ~analysis[a].leased
  BY <1>3 DEF TopicInvariant, LeasesAgree
<1>6. TopicTypeOK'
  <2>1. /\ wakeup' \in [Analysis -> {"none", "queued", "active", "failed"}]
        /\ failures' \in [Analysis -> 0..(WakeupAttempts - 1)]
    BY <1>1, <1>3, WakeupsTyped
  <2> QED
    BY <1>1, <1>3, <1>4, <2>1 DEF TopicTypeOK, AnalysisRow, Execution
<1>7. LeasesAgree'
  BY <1>2, <1>3, <1>4, <1>5, LeasesKept DEF TopicInvariant
<1>8. Reserved' /\ ResultOfLastAttempt'
  BY <1>2, <1>3, <1>4, <1>6, BudgetKept
     DEF TopicInvariant, NoneReserves, ResultOfLastAttempt, Finished
<1> QED
  BY <1>6, <1>7, <1>8 DEF TopicInvariant

LEMMA ClaimsStep ==
  ASSUME TopicInvariant, NEW w \in Analyst, NEW a \in Analysis, Claims(w, a)
  PROVE  TopicInvariant'
<1>0. TopicTypeOK /\ analysis[a] \in AnalysisRow /\ UNCHANGED <<cached, failures, calls>>
  BY RunTypes DEF TopicInvariant, Claims
<1>1. \A s \in {"none", "active"} :
        [wakeup EXCEPT ![a] = s] \in [Analysis -> {"none", "queued", "active", "failed"}]
  BY <1>0, RunTypes
<1>2. CASE analysis[a].status \in Finished /\ wakeup' = [wakeup EXCEPT ![a] = "none"]
           /\ UNCHANGED <<analysis, slot, analyst>>
  BY <1>0, <1>1, <1>2, RunTypes, RowsAlone DEF NoneReserves
<1>3. CASE /\ ~slot.leased /\ analysis' = [analysis EXCEPT ![a] = Released(a, "failed")]
           /\ wakeup' = [wakeup EXCEPT ![a] = "none"]
           /\ UNCHANGED <<slot, analyst>>
  <2>1. /\ Released(a, "failed") \in AnalysisRow /\ Released(a, "failed").status = "failed"
        /\ ~Released(a, "failed").leased
        /\ Released(a, "failed").reserved = analysis[a].reserved
    BY <1>0, ReleasedRow DEF Finished
  <2>2. /\ analysis' \in [Analysis -> AnalysisRow]
        /\ \A b \in Analysis : analysis'[b] = IF b = a THEN Released(a, "failed") ELSE analysis[b]
    BY <1>0, <1>3, <2>1, RowChanges
  <2>3. TopicTypeOK'
    BY <1>0, <1>1, <1>3, <2>2 DEF TopicTypeOK, AnalysisRow, Execution
  <2>4. LeasesAgree'
    BY <1>3, <2>1, <2>2, LeasesEnded DEF TopicInvariant, LeasesAgree
  <2>5. Reserved' /\ ResultOfLastAttempt'
    BY <1>0, <1>3, <2>1, <2>2, <2>3, BudgetKept
       DEF TopicInvariant, NoneReserves, ResultOfLastAttempt
  <2> QED
    BY <2>3, <2>4, <2>5 DEF TopicInvariant
<1>4. CASE /\ ~slot.leased /\ analysis[a].attempts < AttemptLimit
           /\ analysis' = [analysis EXCEPT ![a] = [analysis[a] EXCEPT
                !.status = "running", !.attempts = @ + 1, !.token = w, !.leased = TRUE]]
           /\ slot' = [token |-> w, leased |-> TRUE]
           /\ analyst' = [analyst EXCEPT ![w] = [Resting EXCEPT
                !.step = "claimed", !.run = {a}, !.attempt = analysis[a].attempts + 1,
                !.owns = TRUE]]
           /\ wakeup' = [wakeup EXCEPT ![a] = "active"]
  <2> DEFINE r == [analysis[a] EXCEPT !.status = "running", !.attempts = @ + 1, !.token = w,
                                      !.leased = TRUE]
             e == [Resting EXCEPT !.step = "claimed", !.run = {a},
                     !.attempt = analysis[a].attempts + 1, !.owns = TRUE]
  <2>1. /\ analysis[a].attempts + 1 \in 0..AttemptLimit
    BY <1>0, <1>4, AnalysisAssumption DEF AnalysisRow
  <2>2. /\ r \in AnalysisRow /\ r.status = "running" /\ r.token = w /\ r.leased
        /\ r.reserved = analysis[a].reserved
    BY <1>0, <2>1 DEF AnalysisRow
  <2>3. e \in Execution /\ e.run = {a} /\ e.step = "claimed"
    BY <2>1 DEF Resting, Execution
  <2>4. analysis' = [analysis EXCEPT ![a] = r] /\ analyst' = [analyst EXCEPT ![w] = e]
    BY <1>4
  <2> HIDE DEF r, e
  <2>5. /\ analysis' \in [Analysis -> AnalysisRow]
        /\ \A b \in Analysis : analysis'[b] = IF b = a THEN r ELSE analysis[b]
    BY <1>0, <2>2, <2>4, RowChanges
  <2>6. /\ analyst' \in [Analyst -> Execution]
        /\ \A v \in Analyst : analyst'[v] = IF v = w THEN e ELSE analyst[v]
    BY <1>0, <2>3, <2>4, RunTypes
  <2>7. TopicTypeOK'
    BY <1>0, <1>1, <1>4, <2>5, <2>6 DEF TopicTypeOK, AnalysisRow, Execution
  <2>8. LeasesAgree'
    <3>0. \A b \in Analysis : ~analysis[b].leased
      BY <1>4 DEF TopicInvariant, LeasesAgree
    <3>1. /\ \A b \in Analysis : analysis'[b].leased => b = a
          /\ analysis'[a].leased
      BY <2>2, <2>5, <3>0
    <3>2. slot'.token = w /\ slot'.leased /\ analysis'[a].token = w
          /\ analysis'[a].status = "running" /\ analyst'[w].run = {a}
      BY <1>4, <2>2, <2>3, <2>5, <2>6
    <3> QED
      BY <3>1, <3>2 DEF LeasesAgree
  <2>9. Reserved' /\ ResultOfLastAttempt'
    BY <1>0, <2>2, <2>3, <2>5, <2>6, <2>7, BudgetKept
       DEF TopicInvariant, NoneReserves, ResultOfLastAttempt
  <2> QED
    BY <2>7, <2>8, <2>9 DEF TopicInvariant
<1> QED
  BY <1>2, <1>3, <1>4 DEF Claims

LEMMA LeaseOverStep ==
  ASSUME TopicInvariant, LeaseOver
  PROVE  TopicInvariant'
<1>0. TopicTypeOK /\ analysis \in [Analysis -> AnalysisRow]
  BY RunTypes DEF TopicInvariant
<1>1. /\ slot' = [slot EXCEPT !.leased = FALSE]
      /\ UNCHANGED <<cached, wakeup, failures, analyst, calls>>
      /\ analysis' = [a \in Analysis |->
           IF analysis[a].token = slot.token THEN [analysis[a] EXCEPT !.leased = FALSE]
           ELSE analysis[a]]
  BY DEF LeaseOver
<1>2. ASSUME NEW a \in Analysis
      PROVE  /\ analysis'[a] \in AnalysisRow /\ ~analysis'[a].leased
             /\ analysis'[a].status = analysis[a].status /\ analysis'[a].by = analysis[a].by
             /\ analysis'[a].attempts = analysis[a].attempts
             /\ analysis'[a].reserved = analysis[a].reserved
  <2>1. analysis[a] \in AnalysisRow
    BY <1>0
  <2>2. CASE analysis[a].token = slot.token
    BY <1>1, <2>1, <2>2 DEF AnalysisRow
  <2>3. CASE analysis[a].token # slot.token
    BY <1>1, <2>1, <2>3 DEF TopicInvariant, LeasesAgree
  <2> QED
    BY <2>2, <2>3
<1>3. slot' \in [token : Analyst \cup {NoAnalyst}, leased : BOOLEAN] /\ ~slot'.leased
  BY <1>0, <1>1, RunTypes
<1>4. TopicTypeOK'
  <2>1. analysis' \in [Analysis -> AnalysisRow]
    BY <1>1, <1>2
  <2> QED
    BY <1>0, <1>1, <1>3, <2>1 DEF TopicTypeOK, AnalysisRow, Execution
<1>5. LeasesAgree'
  BY <1>2, <1>3, LeasesEnded
<1>6. Reserved' /\ ResultOfLastAttempt'
  BY <1>0, <1>1, <1>2, <1>4, BudgetKept DEF TopicInvariant, NoneReserves, ResultOfLastAttempt
<1> QED
  BY <1>4, <1>5, <1>6 DEF TopicInvariant

\* An execution fails: it writes its row only with its claim, and ends its job.
LEMMA FailsStep ==
  ASSUME TopicInvariant, NEW w \in Analyst, NEW a \in Analysis,
         NEW retryable \in BOOLEAN, NEW recorded \in BOOLEAN, Fails(w, a, retryable, recorded)
  PROVE  TopicInvariant'
<1>0. TopicTypeOK
  BY DEF TopicInvariant
<1>1. /\ analyst[w].run = {a} /\ UNCHANGED <<cached, calls>>
      /\ wakeup' \in [Analysis -> {"none", "queued", "active", "failed"}]
      /\ failures' \in [Analysis -> 0..(WakeupAttempts - 1)]
      /\ analyst' \in [Analyst -> Execution] /\ NoneReserves
      /\ \A v \in Analyst : analyst'[v].run \in {{}, analyst[v].run}
  BY <1>0, JobOverTyped DEF Fails
<1>2. CASE recorded /\ LocksClaim(w, a)
  <2> DEFINE s == IF retryable /\ analysis[a].attempts < AttemptLimit THEN "pending" ELSE "failed"
             r == Released(a, s)
  <2>1. s \in {"pending"} \cup Finished /\ s # "completed"
    BY DEF Finished
  <2>2. analysis' = [analysis EXCEPT ![a] = r] /\ slot' = FreeSlot
    BY <1>2 DEF Fails
  <2> HIDE DEF s
  <2>3. /\ r \in AnalysisRow /\ r.status = s /\ ~r.leased /\ r.reserved = analysis[a].reserved
    BY <1>0, <2>1, ReleasedRow
  <2> HIDE DEF r
  <2>4. /\ analysis' \in [Analysis -> AnalysisRow]
        /\ \A b \in Analysis : analysis'[b] = IF b = a THEN r ELSE analysis[b]
    BY <1>0, <2>2, <2>3, RowChanges
  <2>5. TopicTypeOK'
    BY <1>0, <1>1, <2>2, <2>4 DEF TopicTypeOK, AnalysisRow, Execution, FreeSlot
  <2>6. LeasesAgree'
    <3>1. \A b \in Analysis : analysis[b].leased => b = a
      BY <1>1, <1>2, HolderIsLeased DEF TopicInvariant
    <3> QED
      BY <2>2, <2>3, <2>4, <3>1, LeasesEnded DEF FreeSlot
  <2>7. Reserved' /\ ResultOfLastAttempt'
    BY <1>0, <1>1, <2>1, <2>3, <2>4, <2>5, BudgetKept DEF TopicInvariant, ResultOfLastAttempt
  <2> QED
    BY <2>5, <2>6, <2>7 DEF TopicInvariant
<1>3. CASE ~(recorded /\ LocksClaim(w, a))
  <2>1. UNCHANGED <<analysis, slot>>
    BY <1>3 DEF Fails
  <2> QED
    BY <1>0, <1>1, <2>1, RunTypes, RowsAlone
<1> QED
  BY <1>2, <1>3

\* A request is reserved: the budget covers it and all that were reserved before.
LEMMA ReserveStep ==
  ASSUME TopicInvariant, NEW w \in Analyst, NEW a \in Analysis, Reserve(w, a)
  PROVE  TopicInvariant'
<1> DEFINE r == [analysis[a] EXCEPT !.reserved = @ + 1]
<1>0. TopicTypeOK /\ analysis[a] \in AnalysisRow /\ UNCHANGED <<slot, cached, wakeup, failures, calls>>
  BY RunTypes DEF TopicInvariant, Reserve
<1>1. /\ r \in AnalysisRow /\ r.reserved = analysis[a].reserved + 1 /\ r.leased = analysis[a].leased
      /\ r.status = analysis[a].status /\ r.token = analysis[a].token
      /\ r.by = analysis[a].by /\ r.attempts = analysis[a].attempts
  <2>1. analysis[a].reserved + 1 \in 0..RequestLimit
    BY <1>0, AnalysisAssumption DEF Reserve, AnalysisRow
  <2> QED
    BY <1>0, <2>1 DEF AnalysisRow
<1>2. analysis' = [analysis EXCEPT ![a] = r]
  BY <1>0, RunTypes DEF Reserve
<1> HIDE DEF r
<1>3. /\ analysis' \in [Analysis -> AnalysisRow]
      /\ \A b \in Analysis : analysis'[b] = IF b = a THEN r ELSE analysis[b]
  BY <1>0, <1>1, <1>2, RowChanges
<1>4. PICK b \in analyst[w].missing :
        analyst' = [analyst EXCEPT ![w].step = "reserved", ![w].batch = {b}]
  BY DEF Reserve
<1>5. /\ analyst' \in [Analyst -> Execution]
      /\ \A v \in Analyst : analyst'[v].run = analyst[v].run
      /\ \A v \in Analyst \ {w} : analyst'[v] = analyst[v]
  <2>1. analyst \in [Analyst -> Execution] /\ b \in Batch
    BY <1>0, <1>4, RunTypes DEF Execution
  <2> DEFINE e == [analyst[w] EXCEPT !.step = "reserved", !.batch = {b}]
  <2>2. e \in Execution /\ e.run = analyst[w].run
    BY <2>1 DEF Execution
  <2>3. analyst' = [analyst EXCEPT ![w] = e]
    BY <1>4, <2>1 DEF Execution
  <2> HIDE DEF e
  <2> QED
    BY <2>1, <2>2, <2>3
<1>6. TopicTypeOK'
  BY <1>0, <1>3, <1>5 DEF TopicTypeOK, AnalysisRow, Execution
<1>7. LeasesAgree'
  BY <1>0, <1>1, <1>3, <1>5, LeasesKept DEF TopicInvariant
<1>8. Reserved'
  <2> SUFFICES ASSUME NEW c \in Analysis
               PROVE  calls'[c] + Cardinality(AboutToSend(c)') <= analysis'[c].reserved
    BY DEF Reserved
  <2>1. /\ IsFiniteSet(AboutToSend(c)) /\ Cardinality(AboutToSend(c)) \in Nat
        /\ Cardinality(AboutToSend(c)') \in Nat
    BY AboutToSendIsFinite, FS_Subset, FS_CardinalityType, AnalysisAssumption DEF AboutToSend
  <2>2. /\ calls'[c] = calls[c] /\ calls[c] \in Nat /\ analysis[c].reserved \in Nat
        /\ analysis'[c].reserved =
             IF c = a THEN analysis[c].reserved + 1 ELSE analysis[c].reserved
    BY <1>0, <1>1, <1>3, RunTypes, AnalysisAssumption DEF AnalysisRow
  <2>3. calls[c] + Cardinality(AboutToSend(c)) <= analysis[c].reserved
    BY DEF TopicInvariant, Reserved
  <2>4. CASE c = a
    <3>1. AboutToSend(c)' \subseteq AboutToSend(c) \cup {w}
      BY <1>5 DEF AboutToSend, In
    <3>2. /\ IsFiniteSet(AboutToSend(c) \cup {w})
          /\ Cardinality(AboutToSend(c) \cup {w}) <= Cardinality(AboutToSend(c)) + 1
      <4>1. w \notin AboutToSend(c)
        BY DEF AboutToSend, Reserve, In
      <4>2. /\ IsFiniteSet(AboutToSend(c) \cup {w})
            /\ Cardinality(AboutToSend(c) \cup {w}) = Cardinality(AboutToSend(c)) + 1
        BY <2>1, <4>1, FS_AddElement
      <4> QED
        BY <2>1, <4>2
    <3>3. Cardinality(AboutToSend(c)') <= Cardinality(AboutToSend(c)) + 1
      BY <2>1, <3>1, <3>2, FS_Subset, FS_CardinalityType
    <3> QED
      BY <2>1, <2>2, <2>3, <2>4, <3>3
  <2>5. CASE c # a
    <3>1. analyst[w].run = {a}
      BY DEF Reserve, In
    <3>2. AboutToSend(c)' \subseteq AboutToSend(c)
      BY <1>5, <2>5, <3>1 DEF AboutToSend, In
    <3>3. Cardinality(AboutToSend(c)') <= Cardinality(AboutToSend(c))
      BY <2>1, <3>2, FS_Subset
    <3> QED
      BY <2>1, <2>2, <2>3, <2>5, <3>3
  <2> QED
    BY <2>4, <2>5
<1>9. ResultOfLastAttempt'
  BY <1>1, <1>3 DEF TopicInvariant, ResultOfLastAttempt
<1> QED
  BY <1>6, <1>7, <1>8, <1>9 DEF TopicInvariant

\* A request is sent: its reservation stays and covers it.
LEMMA EmbedStep ==
  ASSUME TopicInvariant, NEW w \in Analyst, NEW a \in Analysis, Embed(w, a)
  PROVE  TopicInvariant'
<1> DEFINE e == [analyst[w] EXCEPT !.step = "calling"]
<1>0. /\ TopicTypeOK /\ analyst \in [Analyst -> Execution] /\ calls \in [Analysis -> Nat]
      /\ In(w, a, "reserved") /\ UNCHANGED <<analysis, slot, cached, wakeup, failures>>
      /\ calls' = [calls EXCEPT ![a] = @ + 1]
  BY RunTypes DEF TopicInvariant, Embed
<1>1. e \in Execution /\ e.run = {a} /\ e.step = "calling" /\ analyst' = [analyst EXCEPT ![w] = e]
  BY <1>0 DEF Embed, Execution, In
<1> HIDE DEF e
<1>2. /\ analyst' \in [Analyst -> Execution]
      /\ \A v \in Analyst : analyst'[v] = IF v = w THEN e ELSE analyst[v]
      /\ calls' \in [Analysis -> Nat]
      /\ \A c \in Analysis : calls'[c] = IF c = a THEN calls[c] + 1 ELSE calls[c]
  BY <1>0, <1>1
<1>3. TopicTypeOK'
  BY <1>0, <1>2 DEF TopicTypeOK, AnalysisRow, Execution
<1>4. LeasesAgree'
  BY <1>0, <1>1, <1>2, LeasesKept DEF TopicInvariant, In
<1>5. Reserved'
  <2> SUFFICES ASSUME NEW c \in Analysis
               PROVE  calls'[c] + Cardinality(AboutToSend(c)') <= analysis'[c].reserved
    BY DEF Reserved
  <2>1. /\ IsFiniteSet(AboutToSend(c)') /\ Cardinality(AboutToSend(c)') \in Nat
        /\ IsFiniteSet(AboutToSend(c)) /\ Cardinality(AboutToSend(c)) \in Nat
    BY AboutToSendIsFinite, FS_Subset, FS_CardinalityType, AnalysisAssumption DEF AboutToSend
  <2>2. /\ calls[c] \in Nat /\ analysis[c].reserved \in Nat /\ analysis' = analysis
    BY <1>0, RunTypes, AnalysisAssumption DEF AnalysisRow
  <2>3. calls[c] + Cardinality(AboutToSend(c)) <= analysis[c].reserved
    BY DEF TopicInvariant, Reserved
  <2>4. CASE c = a
    <3>1. w \notin AboutToSend(c)'
      BY <1>1, <1>2 DEF AboutToSend, In
    <3>2. AboutToSend(c)' \cup {w} \subseteq AboutToSend(c)
      BY <1>0, <1>1, <1>2, <2>4 DEF AboutToSend, In
    <3>3. Cardinality(AboutToSend(c)') + 1 <= Cardinality(AboutToSend(c))
      <4>1. Cardinality(AboutToSend(c)' \cup {w}) = Cardinality(AboutToSend(c)') + 1
        BY <2>1, <3>1, FS_AddElement
      <4>2. Cardinality(AboutToSend(c)' \cup {w}) <= Cardinality(AboutToSend(c))
        BY <2>1, <3>2, FS_Subset
      <4> QED
        BY <4>1, <4>2
    <3> QED
      BY <1>2, <2>1, <2>2, <2>3, <2>4, <3>3
  <2>5. CASE c # a
    <3>1. AboutToSend(c)' \subseteq AboutToSend(c)
      BY <1>1, <1>2, <2>5 DEF AboutToSend, In
    <3>2. Cardinality(AboutToSend(c)') <= Cardinality(AboutToSend(c))
      BY <2>1, <3>1, FS_Subset
    <3> QED
      BY <1>2, <2>1, <2>2, <2>3, <2>5, <3>2
  <2> QED
    BY <2>4, <2>5
<1>6. ResultOfLastAttempt'
  BY <1>0 DEF TopicInvariant, ResultOfLastAttempt
<1> QED
  BY <1>3, <1>4, <1>5, <1>6 DEF TopicInvariant

\* A result is written with the claim of the attempt that computed it.
LEMMA CompleteStep ==
  ASSUME TopicInvariant, NEW w \in Analyst, NEW a \in Analysis, Complete(w, a)
  PROVE  TopicInvariant'
<1> DEFINE r == [Released(a, "completed") EXCEPT !.by = analyst[w].attempt]
<1>0. TopicTypeOK /\ UNCHANGED <<cached, calls>>
  BY DEF TopicInvariant, Complete
<1>1. /\ analyst[w].run = {a} /\ LocksClaim(w, a) /\ JobOver(w, a, "done")
      /\ analysis' = [analysis EXCEPT ![a] = r] /\ slot' = FreeSlot
  BY DEF Complete, In
<1>2. /\ wakeup' \in [Analysis -> {"none", "queued", "active", "failed"}]
      /\ failures' \in [Analysis -> 0..(WakeupAttempts - 1)]
      /\ analyst' \in [Analyst -> Execution] /\ NoneReserves
  BY <1>0, <1>1, JobOverTyped
<1>3. /\ r \in AnalysisRow /\ ~r.leased /\ r.reserved = analysis[a].reserved
      /\ r.by = r.attempts
  <2>1. /\ Released(a, "completed") \in AnalysisRow /\ ~Released(a, "completed").leased
        /\ Released(a, "completed").attempts = analysis[a].attempts
        /\ Released(a, "completed").reserved = analysis[a].reserved
    BY <1>0, ReleasedRow DEF Finished
  <2>2. analyst[w].attempt \in 0..AttemptLimit /\ analyst[w].attempt = analysis[a].attempts
    BY <1>0, <1>1, RunTypes DEF Execution, LocksClaim
  <2> QED
    BY <2>1, <2>2 DEF AnalysisRow
<1> HIDE DEF r
<1>4. /\ analysis' \in [Analysis -> AnalysisRow]
      /\ \A b \in Analysis : analysis'[b] = IF b = a THEN r ELSE analysis[b]
  BY <1>0, <1>1, <1>3, RowChanges
<1>5. TopicTypeOK'
  BY <1>0, <1>1, <1>2, <1>4, RunTypes DEF TopicTypeOK, AnalysisRow, Execution, FreeSlot
<1>6. LeasesAgree'
  <2>1. \A b \in Analysis : analysis[b].leased => b = a
    BY <1>1, HolderIsLeased DEF TopicInvariant
  <2> QED
    BY <1>1, <1>3, <1>4, <2>1, LeasesEnded DEF FreeSlot
<1>7. Reserved' /\ ResultOfLastAttempt'
  BY <1>0, <1>2, <1>3, <1>4, <1>5, BudgetKept DEF TopicInvariant, ResultOfLastAttempt
<1> QED
  BY <1>5, <1>6, <1>7 DEF TopicInvariant

-----------------------------------------------------------------------------
(* The actions that leave the rows alone.                                  *)

\* One execution goes on with its run, or is gone.
LEMMA ExecutionMoves ==
  ASSUME TopicTypeOK, NEW w \in Analyst, NEW e \in Execution,
         e.run \in {{}, analyst[w].run}, analyst' = [analyst EXCEPT ![w] = e],
         e.step = "reserved" => e.step = analyst[w].step /\ e.run = analyst[w].run
  PROVE  /\ analyst' \in [Analyst -> Execution] /\ NoneReserves
         /\ \A v \in Analyst : analyst'[v].run \in {{}, analyst[v].run}
BY RunTypes DEF NoneReserves

LEMMA ExecutionSteps ==
  ASSUME TopicInvariant, NEW w \in Analyst,
         \/ \E a \in Analysis : ReadCache(w, a) \/ RecordBatch(w, a) \/ Cluster(w, a)
         \/ CrashAnalyst(w) \/ LosesWakeup(w)
  PROVE  TopicInvariant'
<1>0. TopicTypeOK /\ analyst[w] \in Execution /\ analyst \in [Analyst -> Execution]
      /\ cached \subseteq Batch
  BY RunTypes DEF TopicInvariant
<1>1. /\ UNCHANGED <<analysis, slot, calls, wakeup, failures>> /\ cached' \subseteq Batch
  BY <1>0 DEF ReadCache, RecordBatch, Cluster, CrashAnalyst, LosesWakeup, Execution
<1> DEFINE Moves(e) ==
      /\ e.run \in {{}, analyst[w].run} /\ analyst' = [analyst EXCEPT ![w] = e]
      /\ e.step = "reserved" => e.step = analyst[w].step /\ e.run = analyst[w].run
<1>2. PICK e \in Execution : Moves(e)
  <2>1. ASSUME NEW a \in Analysis, ReadCache(w, a) PROVE \E e \in Execution : Moves(e)
    <3> DEFINE e == [analyst[w] EXCEPT !.step = "embedding", !.missing = Batch \ cached]
    <3>1. e \in Execution /\ e.run = analyst[w].run /\ e.step = "embedding"
      BY <1>0 DEF Execution
    <3>2. analyst' = [analyst EXCEPT ![w] = e]
      BY <1>0, <2>1 DEF ReadCache, Execution
    <3> QED
      BY <3>1, <3>2, Zenon
  <2>2. ASSUME NEW a \in Analysis, RecordBatch(w, a) PROVE \E e \in Execution : Moves(e)
    <3> DEFINE e == [analyst[w] EXCEPT !.step = "embedding", !.batch = {},
                                       !.missing = @ \ analyst[w].batch]
    <3>1. e \in Execution /\ e.run = analyst[w].run /\ e.step = "embedding"
      BY <1>0 DEF Execution
    <3>2. analyst' = [analyst EXCEPT ![w] = e]
      BY <1>0, <2>2 DEF RecordBatch, Execution
    <3> QED
      BY <3>1, <3>2, Zenon
  <2>3. ASSUME NEW a \in Analysis, Cluster(w, a) PROVE \E e \in Execution : Moves(e)
    <3> DEFINE e == [analyst[w] EXCEPT !.step = "clustering"]
    <3>1. e \in Execution /\ e.run = analyst[w].run /\ e.step = "clustering"
      BY <1>0 DEF Execution
    <3>2. analyst' = [analyst EXCEPT ![w] = e]
      BY <1>0, <2>3 DEF Cluster, Execution
    <3> QED
      BY <3>1, <3>2, Zenon
  <2>4. CASE CrashAnalyst(w)
    BY <2>4, RestingTyped DEF CrashAnalyst
  <2>5. CASE LosesWakeup(w)
    <3> DEFINE e == [analyst[w] EXCEPT !.owns = FALSE]
    <3>1. e \in Execution /\ e.run = analyst[w].run /\ e.step = analyst[w].step
      BY <1>0 DEF Execution
    <3>2. analyst' = [analyst EXCEPT ![w] = e]
      BY <1>0, <2>5 DEF LosesWakeup, Execution
    <3> QED
      BY <3>1, <3>2, Zenon
  <2> QED
    BY <2>1, <2>2, <2>3, <2>4, <2>5
<1>3. /\ analyst' \in [Analyst -> Execution] /\ NoneReserves
      /\ \A v \in Analyst : analyst'[v].run \in {{}, analyst[v].run}
  BY <1>0, <1>2, ExecutionMoves
<1> QED
  BY <1>0, <1>1, <1>3, RunTypes, RowsAlone

LEMMA WakeupSteps ==
  ASSUME TopicInvariant, NEW a \in Analysis, RecoverDue(a) \/ StalledWakeup(a)
  PROVE  TopicInvariant'
<1>0. TopicTypeOK /\ UNCHANGED <<analysis, slot, cached, analyst, calls>>
  BY DEF TopicInvariant, RecoverDue, StalledWakeup
<1>1. /\ wakeup' \in [Analysis -> {"none", "queued", "active", "failed"}]
      /\ failures' \in [Analysis -> 0..(WakeupAttempts - 1)]
  <2>1. CASE RecoverDue(a)
    BY <1>0, <2>1, WakeupsTyped DEF RecoverDue
  <2>2. CASE StalledWakeup(a)
    BY <1>0, <2>2, RunTypes DEF StalledWakeup
  <2> QED
    BY <2>1, <2>2
<1> QED
  BY <1>0, <1>1, RunTypes, RowsAlone DEF NoneReserves

LEMMA TopicStutters == TopicInvariant /\ UNCHANGED topicVars => TopicInvariant'
<1> SUFFICES ASSUME TopicInvariant, UNCHANGED topicVars PROVE TopicInvariant'
  OBVIOUS
<1>1. UNCHANGED <<analysis, slot, cached, wakeup, failures, analyst, calls>> /\ TopicTypeOK
  BY DEF topicVars, TopicInvariant
<1> QED
  BY <1>1, RunTypes, RowsAlone DEF NoneReserves

-----------------------------------------------------------------------------
(* The theorems.                                                           *)

LEMMA TopicStarts == TopicInit => TopicInvariant
<1> SUFFICES ASSUME TopicInit PROVE TopicInvariant
  OBVIOUS
<1>1. /\ analysis = [a \in Analysis |-> NoRun] /\ slot = FreeSlot /\ cached = {}
      /\ wakeup = [a \in Analysis |-> "none"] /\ failures = [a \in Analysis |-> 0]
      /\ analyst = [w \in Analyst |-> Resting] /\ calls = [a \in Analysis |-> 0]
  BY DEF TopicInit
<1>2. NoRun \in AnalysisRow /\ ~NoRun.leased /\ NoRun.reserved = 0 /\ NoRun.status = "absent"
  BY AnalysisAssumption DEF NoRun, AnalysisRow
<1>3. TopicTypeOK
  <2>1. 0 \in 0..(WakeupAttempts - 1) /\ FreeSlot \in [token : Analyst \cup {NoAnalyst}, leased : BOOLEAN]
    BY AnalysisAssumption DEF FreeSlot
  <2> QED
    BY <1>1, <1>2, <2>1, RestingTyped, RunTypes
<1>4. LeasesAgree
  BY <1>1, <1>2 DEF LeasesAgree, FreeSlot
<1>5. Reserved /\ ResultOfLastAttempt
  <2>1. \A a \in Analysis : AboutToSend(a) = {}
    BY <1>1, RestingTyped DEF AboutToSend, In
  <2>2. \A a \in Analysis : Cardinality(AboutToSend(a)) = 0
    BY <2>1, FS_EmptySet
  <2> QED
    BY <1>1, <1>2, <2>2 DEF Reserved, ResultOfLastAttempt
<1> QED
  BY <1>3, <1>4, <1>5 DEF TopicInvariant

LEMMA TopicSteps == TopicInvariant /\ [TopicNext]_topicVars => TopicInvariant'
<1> SUFFICES ASSUME TopicInvariant, [TopicNext]_topicVars PROVE TopicInvariant'
  OBVIOUS
<1>1. ASSUME NEW a \in Analysis, NEW delivered \in BOOLEAN, Start(a, delivered)
      PROVE  TopicInvariant'
  BY <1>1, StartStep
<1>2. ASSUME NEW a \in Analysis, RecoverDue(a) \/ StalledWakeup(a) PROVE TopicInvariant'
  BY <1>2, WakeupSteps
<1>3. ASSUME NEW a \in Analysis, NEW w \in Analyst, Claims(w, a) PROVE TopicInvariant'
  BY <1>3, ClaimsStep
<1>4. ASSUME NEW a \in Analysis, NEW w \in Analyst, Works(w, a) PROVE TopicInvariant'
  <2>1. CASE ReadCache(w, a) \/ RecordBatch(w, a) \/ Cluster(w, a)
    BY <2>1, ExecutionSteps
  <2>2. CASE Reserve(w, a)
    BY <2>2, ReserveStep
  <2>3. CASE Complete(w, a)
    BY <2>3, CompleteStep
  <2>6. CASE Embed(w, a)
    BY <2>6, EmbedStep
  <2>4. CASE ReserveRefused(w, a)
    BY <2>4, FailsStep DEF ReserveRefused
  <2>5. CASE EmbeddingFails(w, a) \/ ClusteringFails(w, a) \/ ExecutionFails(w, a)
    BY <2>5, FailsStep DEF EmbeddingFails, ClusteringFails, ExecutionFails
  <2> QED
    BY <1>4, <2>1, <2>2, <2>3, <2>4, <2>5, <2>6 DEF Works
<1>5. ASSUME NEW w \in Analyst, CrashAnalyst(w) \/ LosesWakeup(w) PROVE TopicInvariant'
  BY <1>5, ExecutionSteps
<1>6. CASE LeaseOver
  BY <1>6, LeaseOverStep
<1>7. CASE UNCHANGED topicVars
  BY <1>7, TopicStutters
<1> QED
  BY <1>1, <1>2, <1>3, <1>4, <1>5, <1>6, <1>7 DEF TopicNext

\* The inductive invariant holds in every state of the analyses, and with it the type
\* invariant.
THEOREM TopicInvariantHolds == TopicSpec => []TopicInvariant
BY TopicStarts, TopicSteps, PTL DEF TopicSpec

\* The slot, the runs and the executions of a topic analysis keep their types.
THEOREM TopicTyped == TopicSpec => []TopicTypeOK
<1>1. TopicInvariant => TopicTypeOK
  BY DEF TopicInvariant
<1> QED
  BY <1>1, TopicInvariantHolds, PTL

\* A run spends no more than its budget over all its attempts, its result is of the last
\* attempt it was granted, and the slot names the one run that is executed under it.
THEOREM AnalysisSound == TopicSpec => []AnalysisIsSound
<1>1. TopicInvariant => AnalysisIsSound
  <2> SUFFICES ASSUME TopicInvariant PROVE AnalysisIsSound
    OBVIOUS
  <2>1. SpendIsBounded
    BY RunTypes, AboutToSendIsFinite, AnalysisAssumption
       DEF TopicInvariant, Reserved, SpendIsBounded, AnalysisRow
  <2>2. SlotNamesItsRun
    <3> SUFFICES ASSUME slot.leased
                 PROVE  \E a \in Analysis :
                          /\ analysis[a].status = "running" /\ analysis[a].token = slot.token
                          /\ analysis[a].leased
                          /\ \A b \in Analysis \ {a} : ~analysis[b].leased
      BY DEF SlotNamesItsRun
    <3>1. PICK a \in Analysis : analysis[a].leased
      BY DEF TopicInvariant, LeasesAgree
    <3> QED
      BY <3>1 DEF TopicInvariant, LeasesAgree
  <2> QED
    BY <2>1, <2>2 DEF AnalysisIsSound, TopicInvariant
<1> QED
  BY <1>1, TopicInvariantHolds, PTL
=============================================================================
