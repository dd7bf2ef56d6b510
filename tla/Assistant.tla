----------------------------- MODULE Assistant -----------------------------
(***************************************************************************)
(* The turns of one assistant thread.  A turn lives twice: as a row of     *)
(* assistant_turns, which decides what may run, and inside the thread's    *)
(* MongoDB document, which is what readers see and which is written first  *)
(* whenever a turn ends.  No transaction spans the two stores: every write *)
(* is fenced on (attempt, status) and every operation below takes one step *)
(* per store it touches.  What is streamed before a turn ends is left out. *)
(***************************************************************************)
EXTENDS Integers, FiniteSets

CONSTANTS
  Generator,          \* slots of the assistant-worker
  Browser,            \* HTTP requests of the thread's owner
  MaxTurns,           \* CONVERSATION_THREAD_MAX_TURNS
  TurnJobAttempts,    \* attempts of one BullMQ job
  MaxRetries,         \* bound: attempts of one turn
  MaxAssistantFaults  \* bound: crashes, failing stores, lost jobs

ASSUME AssistantAssumption ==
  /\ Generator \cap Browser = {} /\ "recovery" \notin Generator \cup Browser
  /\ {"none", "error"} \cap Generator = {}
  /\ MaxTurns \in Nat \ {0} /\ TurnJobAttempts \in Nat \ {0}
  /\ MaxRetries \in Nat \ {0} /\ MaxAssistantFaults \in Nat

VARIABLES
  row,        \* turn -> its row in PostgreSQL
  doc,        \* turn -> its entry in the MongoDB document
  turnJob,    \* turn -> the BullMQ job of the row's attempt
  jobFailures,\* turn -> failed attempts of that job
  actor,      \* generators, requests and the recovery -> what they are doing
  mishaps     \* faults so far

assistantVars == <<row, doc, turnJob, jobFailures, actor, mishaps>>

Turn  == 1..MaxTurns
Actor == Generator \cup Browser \cup {"recovery"}

\* A result is the generator that answered, or an error.
Absent == [status |-> "absent", attempt |-> 0, result |-> "none"]
NoTurns == [t \in Turn |-> Absent]

Active == {"queued", "running"}
Ended  == {"succeeded", "failed"}

\* seen is the record as getRecord read it, then what becomes of the job when the
\* operation ends, owns whether BullMQ grants the job to this execution.
AtRest == [step |-> "idle", turn |-> 0, attempt |-> 0, seen |-> NoTurns,
           then |-> "done", owns |-> FALSE]

AssistantInit ==
  /\ row = NoTurns /\ doc = NoTurns
  /\ turnJob = [t \in Turn |-> "none"]
  /\ jobFailures = [t \in Turn |-> 0]
  /\ actor = [a \in Actor |-> AtRest]
  /\ mishaps = 0

AssistantFault == mishaps < MaxAssistantFaults /\ mishaps' = mishaps + 1

\* Mutant: a late writer is not held to the turn's state.
FencedByAttempt(store, t, n) == store[t].attempt = n /\ store[t].status # "absent"

\* The condition of every conditional write of one attempt.
Fenced(store, t, n) == store[t].attempt = n /\ store[t].status \in Active

At(a, step) == actor[a].step = step

Goes(a, step) == actor' = [actor EXCEPT ![a].step = step]

\* The job of an execution that ends: removed, failed or retried, unless BullMQ gave
\* it to somebody else.
Ends(a) ==
  LET t == actor[a].turn
      again == actor[a].then = "retry" /\ jobFailures[t] + 1 < TurnJobAttempts
  IN /\ actor' = [actor EXCEPT ![a] = AtRest]
     /\ IF ~actor[a].owns THEN UNCHANGED <<turnJob, jobFailures>>
        ELSE /\ turnJob' = [turnJob EXCEPT ![t] =
                  IF actor[a].then = "done" THEN "done"
                  ELSE IF again THEN "queued" ELSE "failed"]
             /\ jobFailures' = [jobFailures EXCEPT ![t] = IF again THEN @ + 1 ELSE @]

\* An exception ends a request or a recovery item; an execution's job is retried,
\* and the last failure of a job is written on the turn by onFailed.
Throws(a) ==
  LET t == actor[a].turn
  IN IF ~actor[a].owns
     THEN actor' = [actor EXCEPT ![a] = AtRest] /\ UNCHANGED <<turnJob, jobFailures>>
     ELSE IF jobFailures[t] + 1 < TurnJobAttempts
     THEN /\ actor' = [actor EXCEPT ![a] = AtRest]
          /\ turnJob' = [turnJob EXCEPT ![t] = "queued"]
          /\ jobFailures' = [jobFailures EXCEPT ![t] = @ + 1]
     ELSE /\ actor' = [actor EXCEPT ![a] = [AtRest EXCEPT !.step = "fail",
                                  !.turn = t, !.attempt = actor[a].attempt]]
          /\ turnJob' = [turnJob EXCEPT ![t] = "failed"]
          /\ UNCHANGED jobFailures

-----------------------------------------------------------------------------
(* Requests.                                                               *)

\* What getRecord reads, less the turns nobody will look at again: those of others
\* that the document already has.
Record(t, rows) ==
  [u \in Turn |-> IF u = t \/ doc[u] = Absent THEN rows[u] ELSE Absent]

Reads(a, step, t, rows) ==
  actor' = [actor EXCEPT ![a] = [AtRest EXCEPT !.step = step, !.turn = t,
              !.attempt = rows[t].attempt, !.seen = Record(t, rows)]]

\* A new turn follows turns that have all ended.
ThreadIsFree(t) == \A u \in 1..(t - 1) : row[u].status \in Ended

\* createThread and appendTurn under the locks of the request and the thread; a
\* replayed request finds its own turn.
Post(b, t) ==
  /\ At(b, "idle")
  /\ IF row[t] = Absent
     THEN /\ ThreadIsFree(t)
          /\ row' = [row EXCEPT ![t] = [status |-> "queued", attempt |-> 1, result |-> "none"]]
     ELSE UNCHANGED row
  /\ Reads(b, "posting", t, row')
  /\ UNCHANGED <<doc, turnJob, jobFailures, mishaps>>

\* list and getThread copy turns that never reached the document.
View(b, t) ==
  /\ At(b, "idle") /\ row[t] # Absent /\ doc[t] = Absent
  /\ Reads(b, "viewing", t, row)
  /\ UNCHANGED <<row, doc, turnJob, jobFailures, mishaps>>

\* retryTurn reads the document.
RetryLook(b, t) ==
  /\ At(b, "idle") /\ doc[t].status \in {"failed", "queued"}
  /\ actor' = [actor EXCEPT ![b] = [AtRest EXCEPT !.step = "retrying", !.turn = t,
                                                  !.seen = [NoTurns EXCEPT ![t] = doc[t]]]]
  /\ UNCHANGED <<row, doc, turnJob, jobFailures, mishaps>>

Latest(t) == \A u \in (t + 1)..MaxTurns : row[u] = Absent

\* retryFailedTurn: the two stores agree on the failed attempt, or another retry is
\* on its way; only the latest turn, under the thread's lock.
RetryRow(b) ==
  LET t == actor[b].turn
      seen == actor[b].seen[t]
      ahead == row[t].attempt = seen.attempt + 1
      same == row[t].attempt = seen.attempt
      onItsWay == row[t].status = "queued"
                    /\ (IF seen.status = "failed" THEN ahead ELSE same)
      fresh == /\ row[t].status = "failed"
               /\ IF seen.status = "failed" THEN same ELSE row[t].attempt + 1 = seen.attempt
               /\ Latest(t) /\ row[t].attempt < MaxRetries
  IN /\ At(b, "retrying")
     /\ \/ /\ fresh
           /\ row' = [row EXCEPT ![t] = [status |-> "queued",
                        attempt |-> row[t].attempt + 1, result |-> "none"]]
           /\ turnJob' = [turnJob EXCEPT ![t] = "none"]
           /\ jobFailures' = [jobFailures EXCEPT ![t] = 0]
           /\ actor' = [a \in Actor |->
                IF a = b THEN [AtRest EXCEPT !.step = "preparing", !.turn = t,
                                             !.attempt = row[t].attempt + 1]
                ELSE IF actor[a].turn = t THEN [actor[a] EXCEPT !.owns = FALSE]
                ELSE actor[a]]
        \/ /\ onItsWay
           /\ actor' = [actor EXCEPT ![b] = [AtRest EXCEPT !.step = "preparing",
                                      !.turn = t, !.attempt = row[t].attempt]]
           /\ UNCHANGED <<row, turnJob, jobFailures>>
        \/ /\ ~fresh /\ ~onItsWay
           /\ actor' = [actor EXCEPT ![b] = AtRest]
           /\ UNCHANGED <<row, turnJob, jobFailures>>
     /\ UNCHANGED <<doc, mishaps>>

Prepared(n) == [status |-> "queued", attempt |-> n, result |-> "none"]

\* prepareTurnRetry, then the document as it is read back.
RetryDoc(b) ==
  LET t == actor[b].turn
      n == actor[b].attempt
      moves == doc[t].status = "failed" /\ doc[t].attempt = n - 1
  IN /\ At(b, "preparing")
     /\ doc' = IF moves THEN [doc EXCEPT ![t] = Prepared(n)] ELSE doc
     /\ IF doc'[t] = Prepared(n) THEN Goes(b, "enqueue")
                                 ELSE actor' = [actor EXCEPT ![b] = AtRest]
     /\ UNCHANGED <<row, turnJob, jobFailures, mishaps>>

\* enqueueOrFail: the id of the job carries the attempt, so adding twice adds once.
Enqueue(b) ==
  LET t == actor[b].turn
  IN /\ At(b, "enqueue")
     /\ turnJob' = IF turnJob[t] = "none" /\ row[t].attempt = actor[b].attempt
                   THEN [turnJob EXCEPT ![t] = "queued"] ELSE turnJob
     /\ actor' = [actor EXCEPT ![b] = AtRest]
     /\ UNCHANGED <<row, doc, jobFailures, mishaps>>

\* Redis answers with an error, having added the job or not: the turn is failed.
EnqueueFails(b) ==
  LET t == actor[b].turn
  IN /\ At(b, "enqueue")
     /\ AssistantFault
     /\ turnJob' \in {turnJob,
          IF turnJob[t] = "none" /\ row[t].attempt = actor[b].attempt
          THEN [turnJob EXCEPT ![t] = "queued"] ELSE turnJob}
     /\ Goes(b, "fail")
     /\ UNCHANGED <<row, doc, jobFailures>>

-----------------------------------------------------------------------------
(* The document is brought up to the record that was read.                 *)

\* materializeConversation: missing turns are copied, a retry that stopped half-way
\* is finished; attempts that still differ are an error, and a turn that has ended
\* is written back to its row.
Materialize(a) ==
  LET t == actor[a].turn
      seen == actor[a].seen
      copied == IF doc[t] # Absent THEN doc
                ELSE [u \in Turn |-> IF doc[u] = Absent THEN seen[u] ELSE doc[u]]
      halfRetried == /\ seen[t].status \in Active /\ copied[t].status = "failed"
                     /\ seen[t].attempt = copied[t].attempt + 1
  IN /\ actor[a].step \in {"starting", "posting", "failing", "viewing"}
     /\ doc' = IF halfRetried THEN [copied EXCEPT ![t] = Prepared(seen[t].attempt)]
                              ELSE copied
     /\ IF At(a, "viewing")
        THEN actor' = [actor EXCEPT ![a] = AtRest] /\ UNCHANGED <<turnJob, jobFailures>>
        ELSE IF doc'[t].attempt # seen[t].attempt THEN Throws(a)
        ELSE /\ actor' = [actor EXCEPT ![a].seen = NoTurns, ![a].step =
                  IF doc'[t].status \in Ended THEN "repair"
                  ELSE CASE At(a, "starting") -> "run"
                         [] At(a, "posting")  -> "enqueue"
                         [] At(a, "failing")  -> "failDoc"]
             /\ UNCHANGED <<turnJob, jobFailures>>
     /\ UNCHANGED <<row, mishaps>>

\* repairProjectionFromTerminalTurn.
Repair(a) ==
  LET t == actor[a].turn
  IN /\ At(a, "repair")
     /\ row' = IF /\ doc[t].attempt = actor[a].attempt /\ doc[t].status \in Ended
                  /\ Fenced(row, t, actor[a].attempt)
               THEN [row EXCEPT ![t] = doc[t]] ELSE row
     /\ Ends(a)
     /\ UNCHANGED <<doc, mishaps>>

-----------------------------------------------------------------------------
(* Executions.                                                             *)

\* start reads the turn; a stale or ended one ends the job.
Take(g, t) ==
  /\ At(g, "idle") /\ turnJob[t] = "queued"
  /\ IF row[t].status \in Active
     THEN /\ turnJob' = [turnJob EXCEPT ![t] = "active"]
          /\ actor' = [actor EXCEPT ![g] = [AtRest EXCEPT !.step = "starting",
               !.turn = t, !.attempt = row[t].attempt,
               !.seen = Record(t, row), !.owns = TRUE]]
     ELSE turnJob' = [turnJob EXCEPT ![t] = "done"] /\ UNCHANGED actor
  /\ UNCHANGED <<row, doc, jobFailures, mishaps>>

\* markRunning on the row, then on the document.
RunRow(g) ==
  LET t == actor[g].turn
  IN /\ At(g, "run")
     /\ IF Fenced(row, t, actor[g].attempt)
        THEN /\ row' = [row EXCEPT ![t].status = "running"]
             /\ Goes(g, "runDoc") /\ UNCHANGED <<turnJob, jobFailures>>
        ELSE Ends(g) /\ UNCHANGED row
     /\ UNCHANGED <<doc, mishaps>>

RunDoc(g) ==
  LET t == actor[g].turn
  IN /\ At(g, "runDoc")
     /\ IF Fenced(doc, t, actor[g].attempt)
        THEN doc' = [doc EXCEPT ![t].status = "running"] /\ Goes(g, "generate")
        ELSE UNCHANGED doc /\ Goes(g, "repair")
     /\ UNCHANGED <<row, turnJob, jobFailures, mishaps>>

\* The model answers, or fails: for good, or to be tried again while the job has
\* attempts left.
Generate(g) ==
  /\ At(g, "generate")
  /\ \E next \in {"succeed", "fail", "queue"} :
       /\ next = "queue" => jobFailures[actor[g].turn] + 1 < TurnJobAttempts
       /\ actor' = [actor EXCEPT ![g].step = next,
            ![g].then = CASE next = "succeed" -> "done" [] next = "fail" -> "fatal"
                          [] next = "queue" -> "retry"]
  /\ UNCHANGED <<row, doc, turnJob, jobFailures, mishaps>>

\* markSucceeded, markFailed and markQueued begin with the row.
CheckRow(a) ==
  LET t == actor[a].turn
  IN /\ actor[a].step \in {"succeed", "fail", "queue"}
     /\ IF ~Fenced(row, t, actor[a].attempt) THEN Ends(a)
        ELSE /\ actor' = [actor EXCEPT
                  ![a].step = CASE At(a, "succeed") -> "succeedDoc"
                                [] At(a, "fail")    -> "failing"
                                [] At(a, "queue")   -> "queueDoc",
                  ![a].seen = IF At(a, "fail") THEN Record(t, row) ELSE NoTurns]
             /\ UNCHANGED <<turnJob, jobFailures>>
     /\ UNCHANGED <<row, doc, mishaps>>

\* What the operation of an actor makes of a turn.
Rewritten(a, entry) ==
  CASE actor[a].step \in {"succeedDoc", "succeedRow"} ->
         [entry EXCEPT !.status = "succeeded", !.result = a]
    [] actor[a].step \in {"failDoc", "failRow"} ->
         [entry EXCEPT !.status = "failed", !.result = "error"]
    [] actor[a].step \in {"queueDoc", "queueRow"} -> [entry EXCEPT !.status = "queued"]

\* The document decides: the same end is confirmed, any other end is what the row
\* is repaired to.
WriteDoc(a) ==
  LET t == actor[a].turn
      new == Rewritten(a, doc[t])
      confirmed == doc[t].attempt = actor[a].attempt /\ doc[t] = new
  IN /\ actor[a].step \in {"succeedDoc", "failDoc", "queueDoc"}
     /\ LET wins == Fenced(doc, t, actor[a].attempt)
        IN /\ doc' = IF wins THEN [doc EXCEPT ![t] = new] ELSE doc
           /\ Goes(a, IF ~wins /\ ~confirmed THEN "repair"
                      ELSE CASE At(a, "succeedDoc") -> "succeedRow"
                             [] At(a, "failDoc")    -> "failRow"
                             [] At(a, "queueDoc")   -> "queueRow")
     /\ UNCHANGED <<row, turnJob, jobFailures, mishaps>>

WriteRow(a) ==
  LET t == actor[a].turn
  IN /\ actor[a].step \in {"succeedRow", "failRow", "queueRow"}
     /\ row' = IF Fenced(row, t, actor[a].attempt)
               THEN [row EXCEPT ![t] = Rewritten(a, row[t])] ELSE row
     /\ Ends(a)
     /\ UNCHANGED <<doc, mishaps>>

-----------------------------------------------------------------------------
(* Recovery and faults.                                                    *)

\* Mutant: recovery passes over a job that ended.
RecoverMissingJob(t) ==
  /\ At("recovery", "idle")
  /\ row[t].status \in Active /\ turnJob[t] = "none"
  /\ actor' = [actor EXCEPT !["recovery"] = [AtRest EXCEPT !.step = "fail",
                                 !.turn = t, !.attempt = row[t].attempt]]
  /\ UNCHANGED <<row, doc, turnJob, jobFailures, mishaps>>

\* reconcileStaleTurns: an active turn without a live job is failed.  Its age is
\* left out: a request may take as long.
RecoverTurn(t) ==
  /\ At("recovery", "idle")
  /\ row[t].status \in Active /\ turnJob[t] \in {"none", "failed", "done"}
  /\ actor' = [actor EXCEPT !["recovery"] = [AtRest EXCEPT !.step = "fail",
                                 !.turn = t, !.attempt = row[t].attempt]]
  /\ UNCHANGED <<row, doc, turnJob, jobFailures, mishaps>>

\* A store refuses the call an actor is about to make.
StoreFails(a) ==
  /\ actor[a].step \notin {"idle", "generate", "enqueue"}
  /\ AssistantFault
  /\ Throws(a)
  /\ UNCHANGED <<row, doc>>

Dies(a) ==
  /\ ~At(a, "idle")
  /\ AssistantFault
  /\ actor' = [actor EXCEPT ![a] = AtRest]
  /\ UNCHANGED <<row, doc, turnJob, jobFailures>>

\* A live execution loses the lock on its job.
LosesTurnJob(g) ==
  /\ actor[g].owns
  /\ AssistantFault
  /\ actor' = [actor EXCEPT ![g].owns = FALSE]
  /\ UNCHANGED <<row, doc, turnJob, jobFailures>>

\* A job nobody owns is delivered again, or given up by the worker that finds it,
\* whose onFailed fails the turn.
StalledTurn(t) ==
  /\ turnJob[t] = "active" /\ \A a \in Actor : ~(actor[a].turn = t /\ actor[a].owns)
  /\ \/ turnJob' = [turnJob EXCEPT ![t] = "queued"] /\ UNCHANGED actor
     \/ /\ turnJob' = [turnJob EXCEPT ![t] = "failed"]
        /\ \/ UNCHANGED actor
           \/ \E g \in Generator :
                /\ At(g, "idle")
                /\ actor' = [actor EXCEPT ![g] = [AtRest EXCEPT !.step = "fail",
                                    !.turn = t, !.attempt = row[t].attempt]]
  /\ UNCHANGED <<row, doc, jobFailures, mishaps>>

-----------------------------------------------------------------------------
\* Every step of an operation that is under way.
Acts(a) == Materialize(a) \/ Repair(a) \/ CheckRow(a) \/ WriteDoc(a) \/ WriteRow(a)
Executes(g) == RunRow(g) \/ RunDoc(g) \/ Generate(g)

AssistantNext ==
  \/ \E b \in Browser :
       \/ \E t \in Turn : Post(b, t) \/ View(b, t) \/ RetryLook(b, t)
       \/ RetryRow(b) \/ RetryDoc(b) \/ Enqueue(b) \/ EnqueueFails(b)
  \/ \E g \in Generator : (\E t \in Turn : Take(g, t)) \/ Executes(g) \/ LosesTurnJob(g)
  \/ \E a \in Actor : Acts(a) \/ StoreFails(a) \/ Dies(a)
  \/ \E t \in Turn : RecoverTurn(t) \/ StalledTurn(t)

AssistantSpec == AssistantInit /\ [][AssistantNext]_assistantVars

-----------------------------------------------------------------------------
TurnState == [status : {"absent"} \cup Active \cup Ended, attempt : 0..MaxRetries,
              result : {"none", "error"} \cup Generator]

\* Every variable keeps its type.
AssistantTypeOK ==
  /\ row \in [Turn -> TurnState] /\ doc \in [Turn -> TurnState]
  /\ turnJob \in [Turn -> {"none", "queued", "active", "failed", "done"}]
  /\ jobFailures \in [Turn -> 0..(TurnJobAttempts - 1)]
  /\ actor \in [Actor -> [step : {"idle", "posting", "viewing", "retrying", "preparing",
        "enqueue", "starting", "run", "runDoc", "generate", "succeed", "fail", "queue",
        "failing", "succeedDoc", "failDoc", "queueDoc", "succeedRow", "failRow",
        "queueRow", "repair"},
        turn : 0..MaxTurns, attempt : 0..MaxRetries, seen : [Turn -> TurnState],
        then : {"done", "fatal", "retry"}, owns : BOOLEAN]]
  /\ mishaps \in 0..MaxAssistantFaults

\* The row never runs ahead of what readers see: a turn ends in the document first,
\* a row that has ended says what the document says, and the document trails at most
\* by a retry that is on its way.
RowFollowsDocument ==
  \A t \in Turn :
    /\ row[t].status \in Ended => doc[t] = row[t]
    /\ doc[t] # Absent =>
         \/ doc[t].attempt = row[t].attempt
         \/ /\ doc[t].attempt + 1 = row[t].attempt
            /\ doc[t].status = "failed" /\ row[t].status \in Active

\* A thread has at most one turn that is not over, as its readers see it too.
OneActiveTurn ==
  \A t, u \in Turn : t < u /\ doc[u].status # "absent" => doc[t].status \in Ended

\* The two stores tell readers and workers the same thread.
StoresAgree == RowFollowsDocument /\ OneActiveTurn

\* What a reader has seen the end of stays: an answer for ever, a failure until the
\* turn is retried under the next attempt, whoever else was still working on it.
EndsAreFinal ==
  [][\A t \in Turn :
       /\ doc[t].status = "succeeded" => doc'[t] = doc[t]
       /\ doc[t].status = "failed" =>
            doc'[t] = doc[t] \/ doc'[t] = Prepared(doc[t].attempt + 1)]_assistantVars

\* An active turn ends, in both stores alike, whichever process died on it.
TurnSettles ==
  \A t \in Turn :
    row[t].status \in Active ~> row[t].status \in Ended /\ doc[t] = row[t]
=============================================================================
