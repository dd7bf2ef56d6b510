--------------------------- MODULE TopicAnalysis ---------------------------
(***************************************************************************)
(* Topic analyses: durable runs that compete for one deployment-wide slot. *)
(* A worker process claims the slot and the run together, embeds the notes *)
(* batch by batch against a budget that outlives the attempt, clusters     *)
(* them in a child process and writes the result, each step under both row *)
(* locks (lockClaim).  Claims carry a random token; a process executes one *)
(* run at a time, so its name stands for the token.  Lost jobs, crashes    *)
(* and lapsed leases are not bounded: the attempts of a run are.           *)
(***************************************************************************)
EXTENDS Integers, FiniteSets

CONSTANTS
  Analysis,        \* the runs of feedback_topic_analyses
  Analyst,         \* worker processes
  NoAnalyst,       \* no claim
  Batch,           \* batches of notes a snapshot needs embedded
  AttemptLimit,    \* TOPIC_ANALYSIS_LIMITS.attempts
  RequestLimit,    \* TOPIC_ANALYSIS_LIMITS.requests
  WakeupAttempts   \* attempts of one BullMQ job

ASSUME AnalysisAssumption ==
  /\ IsFiniteSet(Analyst) /\ NoAnalyst \notin Analyst
  /\ IsFiniteSet(Batch)
  /\ AttemptLimit \in Nat \ {0} /\ RequestLimit \in Nat
  /\ WakeupAttempts \in Nat \ {0}

VARIABLES
  analysis,    \* run -> its row
  slot,        \* the single row of feedback_topic_analysis_slot
  cached,      \* batches whose vectors are in the embedding cache
  wakeup,      \* run -> its BullMQ job
  failures,    \* run -> failed attempts of that job
  analyst,     \* worker -> the execution it is in
  calls        \* run -> embedding requests sent so far

topicVars == <<analysis, slot, cached, wakeup, failures, analyst, calls>>

NoRun == [status |-> "absent", attempts |-> 0, token |-> NoAnalyst, leased |-> FALSE,
          reserved |-> 0, by |-> 0]

FreeSlot == [token |-> NoAnalyst, leased |-> FALSE]

\* attempt is the epoch of the claim this execution was granted, owns tells
\* whether BullMQ still grants it the lock on its job.
Resting == [step |-> "idle", run |-> {}, attempt |-> 0, missing |-> {}, batch |-> {},
            owns |-> FALSE]

Finished == {"completed", "failed"}

TopicInit ==
  /\ analysis = [a \in Analysis |-> NoRun]
  /\ slot = FreeSlot
  /\ cached = {}
  /\ wakeup = [a \in Analysis |-> "none"]
  /\ failures = [a \in Analysis |-> 0]
  /\ analyst = [w \in Analyst |-> Resting]
  /\ calls = [a \in Analysis |-> 0]

-----------------------------------------------------------------------------
(* Requests and wake-ups.                                                  *)

\* TopicAnalysisWakeup.publish: a live job stays, a failed one is replaced.
WakesUp(a) ==
  IF wakeup[a] \in {"none", "failed"}
  THEN /\ wakeup' = [wakeup EXCEPT ![a] = "queued"]
       /\ failures' = [failures EXCEPT ![a] = 0]
  ELSE UNCHANGED <<wakeup, failures>>

\* start: the run is created or found by its identity, and a pending one is
\* published, which Redis may refuse.
Start(a, delivered) ==
  /\ analysis[a].status \in {"absent", "pending"}
  /\ analysis' = [analysis EXCEPT ![a].status = "pending"]
  /\ IF delivered THEN WakesUp(a) ELSE UNCHANGED <<wakeup, failures>>
  /\ UNCHANGED <<slot, cached, analyst, calls>>

\* Mutant: only pending runs are looked for.
RecoverPendingOnly(a) ==
  /\ analysis[a].status = "pending" /\ wakeup[a] \in {"none", "failed"}
  /\ WakesUp(a)
  /\ UNCHANGED <<analysis, slot, cached, analyst, calls>>

\* recoverDueRuns: an unfinished run nobody holds is published again.
RecoverDue(a) ==
  /\ analysis[a].status \in {"pending", "running"} /\ ~analysis[a].leased
  /\ wakeup[a] \in {"none", "failed"}
  /\ WakesUp(a)
  /\ UNCHANGED <<analysis, slot, cached, analyst, calls>>

-----------------------------------------------------------------------------
(* Claims.                                                                 *)

\* A run whose claim ends: it is given up, handed back or completed.
Released(a, status) ==
  [analysis[a] EXCEPT !.status = status, !.token = NoAnalyst, !.leased = FALSE]

\* claimRun under the slot's row lock, then the run's: terminal runs are left,
\* a busy slot delays the job, an exhausted run fails for good.
Claims(w, a) ==
  /\ wakeup[a] = "queued" /\ analyst[w].step = "idle"
  /\ \/ /\ analysis[a].status \in Finished
        /\ wakeup' = [wakeup EXCEPT ![a] = "none"]
        /\ UNCHANGED <<analysis, slot, analyst>>
     \/ /\ analysis[a].status \notin Finished /\ ~slot.leased
        /\ analysis[a].attempts >= AttemptLimit
        /\ analysis' = [analysis EXCEPT ![a] = Released(a, "failed")]
        /\ wakeup' = [wakeup EXCEPT ![a] = "none"]
        /\ UNCHANGED <<slot, analyst>>
     \/ /\ analysis[a].status \notin Finished /\ ~slot.leased
        /\ analysis[a].attempts < AttemptLimit
        /\ analysis' = [analysis EXCEPT ![a] = [analysis[a] EXCEPT
             !.status = "running", !.attempts = @ + 1, !.token = w, !.leased = TRUE]]
        /\ slot' = [token |-> w, leased |-> TRUE]
        /\ analyst' = [analyst EXCEPT ![w] = [Resting EXCEPT
             !.step = "claimed", !.run = {a}, !.attempt = analysis[a].attempts + 1,
             !.owns = TRUE]]
        /\ wakeup' = [wakeup EXCEPT ![a] = "active"]
  /\ UNCHANGED <<cached, failures, calls>>

\* Mutant: the run is recognised by its status alone.
LocksRunning(w, a) == analysis[a].status = "running"

\* lockClaim: slot and run both name this claim, and neither lease is over.
LocksClaim(w, a) ==
  /\ slot.token = w /\ slot.leased
  /\ analysis[a].status = "running"
  /\ analysis[a].token = w /\ analysis[a].attempts = analyst[w].attempt

\* The two leases of a claim are written together and run out together.
LeaseOver ==
  /\ slot.leased
  /\ slot' = [slot EXCEPT !.leased = FALSE]
  /\ analysis' = [a \in Analysis |->
       IF analysis[a].token = slot.token THEN [analysis[a] EXCEPT !.leased = FALSE]
       ELSE analysis[a]]
  /\ UNCHANGED <<cached, wakeup, failures, analyst, calls>>

-----------------------------------------------------------------------------
(* Execution.                                                              *)

In(w, a, step) == analyst[w].run = {a} /\ analyst[w].step = step

\* The job of an execution that ends: removed, failed, or retried, unless BullMQ
\* gave it to somebody else.
JobOver(w, a, outcome) ==
  /\ analyst' = [analyst EXCEPT ![w] = Resting]
  /\ IF ~analyst[w].owns THEN UNCHANGED <<wakeup, failures>>
     ELSE IF outcome = "retry" /\ failures[a] + 1 < WakeupAttempts
     THEN /\ wakeup' = [wakeup EXCEPT ![a] = "queued"]
          /\ failures' = [failures EXCEPT ![a] = @ + 1]
     ELSE /\ wakeup' = [wakeup EXCEPT ![a] = IF outcome = "done" THEN "none" ELSE "failed"]
          /\ UNCHANGED failures

\* recordFailure, then the job; a claim that was lost writes nothing, and the
\* write itself may fail (recorded = FALSE).
Fails(w, a, retryable, recorded) ==
  /\ analyst[w].run = {a}
  /\ IF recorded /\ LocksClaim(w, a)
     THEN /\ analysis' = [analysis EXCEPT ![a] = Released(a,
               IF retryable /\ analysis[a].attempts < AttemptLimit THEN "pending" ELSE "failed")]
          /\ slot' = FreeSlot
     ELSE UNCHANGED <<analysis, slot>>
  /\ JobOver(w, a, IF retryable \/ ~recorded THEN "retry" ELSE "fatal")
  /\ UNCHANGED <<cached, calls>>

\* The cache is read once; the batches that miss are embedded one by one.
ReadCache(w, a) ==
  /\ In(w, a, "claimed")
  /\ analyst' = [analyst EXCEPT ![w].step = "embedding", ![w].missing = Batch \ cached]
  /\ UNCHANGED <<analysis, slot, cached, wakeup, failures, calls>>

\* renewClaim, which finds the claim and leaves it, then reserveEmbeddingRequest, which
\* looks for it again: what is reserved stays spent whatever becomes of the request.
Reserve(w, a) ==
  /\ In(w, a, "embedding") /\ analyst[w].missing # {}
  /\ LocksClaim(w, a) /\ analysis[a].reserved < RequestLimit
  /\ analysis' = [analysis EXCEPT ![a].reserved = @ + 1]
  /\ \E b \in analyst[w].missing :
       analyst' = [analyst EXCEPT ![w].step = "reserved", ![w].batch = {b}]
  /\ UNCHANGED <<slot, cached, wakeup, failures, calls>>

\* The budget is spent, or the claim was lost.
ReserveRefused(w, a) ==
  /\ In(w, a, "embedding") /\ analyst[w].missing # {}
  /\ ~LocksClaim(w, a) \/ analysis[a].reserved >= RequestLimit
  /\ Fails(w, a, ~LocksClaim(w, a), TRUE)

\* The request leaves, whatever became of the claim since.
Embed(w, a) ==
  /\ In(w, a, "reserved")
  /\ analyst' = [analyst EXCEPT ![w].step = "calling"]
  /\ calls' = [calls EXCEPT ![a] = @ + 1]
  /\ UNCHANGED <<analysis, slot, cached, wakeup, failures>>

\* recordEmbeddingBatch.
RecordBatch(w, a) ==
  /\ In(w, a, "calling") /\ LocksClaim(w, a)
  /\ cached' = cached \cup analyst[w].batch
  /\ analyst' = [analyst EXCEPT ![w].step = "embedding", ![w].batch = {},
                                ![w].missing = @ \ analyst[w].batch]
  /\ UNCHANGED <<analysis, slot, wakeup, failures, calls>>

\* renewClaim before the child process is started.
Cluster(w, a) ==
  /\ In(w, a, "embedding") /\ analyst[w].missing = {}
  /\ LocksClaim(w, a)
  /\ analyst' = [analyst EXCEPT ![w].step = "clustering"]
  /\ UNCHANGED <<analysis, slot, cached, wakeup, failures, calls>>

\* completeRun.
Complete(w, a) ==
  /\ In(w, a, "clustering") /\ LocksClaim(w, a)
  /\ analysis' = [analysis EXCEPT ![a] =
                    [Released(a, "completed") EXCEPT !.by = analyst[w].attempt]]
  /\ slot' = FreeSlot
  /\ JobOver(w, a, "done")
  /\ UNCHANGED <<cached, calls>>

\* The embedding request fails, sent or not: to be tried again, or for good when the
\* answer breaks its contract.  The claim may be lost too, or the failure not recorded.
EmbeddingFails(w, a) ==
  /\ In(w, a, "reserved") \/ In(w, a, "calling")
  /\ \E retryable, recorded \in BOOLEAN : Fails(w, a, retryable, recorded)

\* The child process fails or times out, prints too much or nothing sensible.
ClusteringFails(w, a) ==
  /\ In(w, a, "clustering")
  /\ \E retryable, recorded \in BOOLEAN : Fails(w, a, retryable, recorded)

\* classifyTopicAnalysisFailure of anything else that is thrown.
ExecutionFails(w, a) ==
  /\ analyst[w].step \in {"claimed", "embedding"}
  /\ \E retryable, recorded \in BOOLEAN : Fails(w, a, retryable, recorded)

\* The process dies; its job is found stalled later.
CrashAnalyst(w) ==
  /\ analyst[w].step # "idle"
  /\ analyst' = [analyst EXCEPT ![w] = Resting]
  /\ UNCHANGED <<analysis, slot, cached, wakeup, failures, calls>>

\* A job nobody executes any more is delivered again or given up.
StalledWakeup(a) ==
  /\ wakeup[a] = "active"
  /\ \A w \in Analyst : analyst[w].run = {a} => ~analyst[w].owns
  /\ \E s \in {"queued", "failed"} : wakeup' = [wakeup EXCEPT ![a] = s]
  /\ UNCHANGED <<analysis, slot, cached, failures, analyst, calls>>

\* A live execution loses the lock on its job.
LosesWakeup(w) ==
  /\ analyst[w].owns
  /\ analyst' = [analyst EXCEPT ![w].owns = FALSE]
  /\ UNCHANGED <<analysis, slot, cached, wakeup, failures, calls>>

-----------------------------------------------------------------------------
Works(w, a) ==
  \/ ReadCache(w, a) \/ Reserve(w, a) \/ ReserveRefused(w, a) \/ Embed(w, a)
  \/ RecordBatch(w, a) \/ Cluster(w, a) \/ Complete(w, a)
  \/ EmbeddingFails(w, a) \/ ClusteringFails(w, a) \/ ExecutionFails(w, a)

TopicNext ==
  \/ \E a \in Analysis : \/ \E delivered \in BOOLEAN : Start(a, delivered)
                         \/ RecoverDue(a) \/ StalledWakeup(a)
                         \/ \E w \in Analyst : Claims(w, a) \/ Works(w, a)
  \/ \E w \in Analyst : CrashAnalyst(w) \/ LosesWakeup(w)
  \/ LeaseOver

TopicSpec == TopicInit /\ [][TopicNext]_topicVars

-----------------------------------------------------------------------------
\* Every variable keeps its type, and a run is never claimed more than AttemptLimit
\* times.
TopicTypeOK ==
  /\ analysis \in [Analysis ->
       [status : {"absent", "pending", "running"} \cup Finished,
        attempts : 0..AttemptLimit, token : Analyst \cup {NoAnalyst},
        leased : BOOLEAN, reserved : 0..RequestLimit, by : 0..AttemptLimit]]
  /\ slot \in [token : Analyst \cup {NoAnalyst}, leased : BOOLEAN]
  /\ cached \subseteq Batch
  /\ wakeup \in [Analysis -> {"none", "queued", "active", "failed"}]
  /\ failures \in [Analysis -> 0..(WakeupAttempts - 1)]
  /\ analyst \in [Analyst ->
       [step : {"idle", "claimed", "embedding", "reserved", "calling", "clustering"},
        run : SUBSET Analysis, attempt : 0..AttemptLimit,
        missing : SUBSET Batch, batch : SUBSET Batch, owns : BOOLEAN]]
  /\ calls \in [Analysis -> Nat]

\* Over all attempts, crashes and redeliveries a run sends at most RequestLimit
\* paid embedding requests.
SpendIsBounded == \A a \in Analysis : calls[a] <= RequestLimit

\* A result is written by the last attempt a run was granted, never by one whose
\* claim another attempt has taken over.
ResultOfLastAttempt ==
  \A a \in Analysis :
    analysis[a].status = "completed" => analysis[a].by = analysis[a].attempts

\* The two rows of a claim agree: while the slot is leased, exactly the run it was
\* taken for is running under its token.
SlotNamesItsRun ==
  slot.leased =>
    \E a \in Analysis :
      /\ analysis[a].status = "running" /\ analysis[a].token = slot.token
      /\ analysis[a].leased
      /\ \A b \in Analysis \ {a} : ~analysis[b].leased

\* One run behaves as one run however many attempts, processes and tokens it took.
AnalysisIsSound == SpendIsBounded /\ ResultOfLastAttempt /\ SlotNamesItsRun

\* A requested analysis ends, completed or failed, although processes may crash,
\* leases lapse and wake-ups be lost again and again.
AnalysisEnds ==
  \A a \in Analysis : analysis[a].status = "pending" ~> analysis[a].status \in Finished
=============================================================================
