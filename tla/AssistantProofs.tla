--------------------------- MODULE AssistantProofs ---------------------------
(***************************************************************************)
(* The turns of an assistant thread, for any generators, browsers, turns,  *)
(* attempts and faults: the row and the document tell the same thread, and *)
(* what a reader has seen the end of stays.                                *)
(***************************************************************************)
EXTENDS Assistant, TLAPS

-----------------------------------------------------------------------------
(* The invariant.                                                          *)

\* A turn that was never written, or one under some attempt.
Entry ==
  {Absent} \cup [status : Active \cup Ended, attempt : 1..MaxRetries,
                 result : {"none", "error"} \cup Generator]

\* What a row r and its entry d in the document can be at one time: the document is
\* written first when a turn ends, the row first when it begins or is retried.
Agreed(r, d) ==
  \/ d = Absent /\ (r = Absent \/ (r.status \in Active /\ r.attempt = 1))
  \/ d.status \in Active \cup Ended /\ r.status \in Active /\ r.attempt = d.attempt
  \/ d.status \in Ended /\ r = d
  \/ d.status = "failed" /\ r.status \in Active /\ r.attempt = d.attempt + 1

\* A turn follows turns whose rows have ended.
RowsInOrder ==
  \A u \in Turn : row[u] # Absent => \A t \in 1..(u - 1) : row[t].status \in Ended

StoresSound ==
  /\ row \in [Turn -> Entry] /\ doc \in [Turn -> Entry]
  /\ \A t \in Turn : Agreed(row[t], doc[t])
  /\ RowsInOrder

\* Where an entry of the document can go: an end stays, but for a retry of a failure.
DocMoves(d, e) ==
  \/ e = d
  \/ d = Absent /\ e.status \in Active
  \/ d.status \in Active /\ e.status \in Active \cup Ended /\ e.attempt = d.attempt
  \/ d.status = "failed" /\ e = Prepared(d.attempt + 1)

StoresMove ==
  \A u \in Turn : row[u].attempt <= row'[u].attempt /\ DocMoves(doc[u], doc'[u])

ActorStep ==
  {"idle", "posting", "viewing", "retrying", "preparing",
   "enqueue", "starting", "run", "runDoc", "generate", "succeed", "fail", "queue",
   "failing", "succeedDoc", "failDoc", "queueDoc", "succeedRow", "failRow",
   "queueRow", "repair"}

ActorState ==
  [step : ActorStep, turn : 0..MaxTurns, attempt : 0..MaxRetries, seen : [Turn -> Entry],
   then : {"done", "fatal", "retry"}, owns : BOOLEAN]

\* The steps of an execution, which only generators take.
ExecutionStep ==
  {"starting", "run", "runDoc", "generate", "succeed", "queue", "succeedDoc", "queueDoc",
   "succeedRow", "queueRow"}

\* What was read of a turn is behind it: not a later attempt than the row's, and as long
\* as the document has nothing of the turn, its first attempt.
BehindStores(seen, rows, docs) ==
  \A u \in Turn : seen[u] # Absent =>
    /\ seen[u].attempt <= rows[u].attempt
    /\ docs[u] = Absent => seen[u].status \in Active /\ seen[u].attempt = 1

\* An actor never runs ahead of the row, and writes an end to the row only after the
\* document has it, or has gone on to a later attempt.
SoundActor(a, x, rows, docs) ==
  /\ x.step # "idle" => x.turn \in Turn
  /\ x.owns => x.step # "idle"
  /\ x.turn \in Turn => x.attempt <= rows[x.turn].attempt
  /\ BehindStores(x.seen, rows, docs)
  /\ x.step \in ExecutionStep => a \in Generator
  /\ x.step = "succeedRow" =>
       docs[x.turn] = [status |-> "succeeded", attempt |-> x.attempt, result |-> a]
  /\ x.step = "failRow" =>
       \/ docs[x.turn] = [status |-> "failed", attempt |-> x.attempt, result |-> "error"]
       \/ docs[x.turn].attempt > x.attempt

ActorsSound ==
  /\ actor \in [Actor -> ActorState]
  /\ \A a \in Actor : SoundActor(a, actor[a], row, doc)

JobsTyped ==
  /\ turnJob \in [Turn -> {"none", "queued", "active", "failed", "done"}]
  /\ jobFailures \in [Turn -> 0..(TurnJobAttempts - 1)]

AssistantInvariant ==
  StoresSound /\ ActorsSound /\ JobsTyped /\ mishaps \in 0..MaxAssistantFaults

-----------------------------------------------------------------------------
(* Entries and their moves.                                                *)

LEMMA TurnsAreNumbers == Turn \subseteq Nat /\ 0 \notin Turn /\ Turn \subseteq 0..MaxTurns
BY AssistantAssumption DEF Turn

LEMMA EntryFacts ==
  ASSUME NEW e \in Entry
  PROVE  /\ e.attempt \in 0..MaxRetries /\ e.attempt \in Nat
         /\ e.status \in {"absent"} \cup Active \cup Ended
         /\ e # Absent => /\ e.status \in Active \cup Ended /\ e.attempt >= 1
                          /\ e \in [status : Active \cup Ended, attempt : 1..MaxRetries,
                                    result : {"none", "error"} \cup Generator]
         /\ e.status = "absent" <=> e = Absent
BY AssistantAssumption DEF Entry, Absent, Active, Ended

\* The columns of an entry make the entry.
LEMMA EntryIsItsColumns ==
  ASSUME NEW e \in Entry, e # Absent
  PROVE  e = [status |-> e.status, attempt |-> e.attempt, result |-> e.result]
BY EntryFacts

LEMMA AbsentIsEntry == Absent \in Entry /\ NoTurns \in [Turn -> Entry]
BY DEF Entry, NoTurns

\* A document that lacks a turn, and a row that is not written yet or has ended, decide
\* the other store.
LEMMA AgreedFacts ==
  ASSUME NEW r \in Entry, NEW d \in Entry, Agreed(r, d)
  PROVE  /\ d.attempt <= r.attempt
         /\ r = Absent => d = Absent
         /\ r.status \in Ended => d = r
         /\ d.status \in Active => r.status \in Active /\ r.attempt = d.attempt
         /\ d.status = "failed" /\ r.attempt > d.attempt =>
              r.status \in Active /\ r.attempt = d.attempt + 1
BY EntryFacts DEF Agreed, Absent, Active, Ended

LEMMA StoresStay ==
  ASSUME StoresSound, UNCHANGED <<row, doc>>
  PROVE  StoresSound' /\ StoresMove
BY EntryFacts DEF StoresSound, StoresMove, RowsInOrder, DocMoves

\* A row is written that agrees with the document: a turn is begun after ended ones,
\* goes on, ends, or is retried while it is the latest.
LEMMA RowStep ==
  ASSUME StoresSound, NEW t \in Turn, NEW e \in Entry, row' = [row EXCEPT ![t] = e], doc' = doc,
         Agreed(e, doc[t]), row[t].attempt <= e.attempt,
         row[t] = Absent => ThreadIsFree(t),
         row[t].status \in Ended => e.status \in Ended \/ Latest(t)
  PROVE  StoresSound' /\ StoresMove
<1>1. row' \in [Turn -> Entry] /\ doc' \in [Turn -> Entry]
  BY DEF StoresSound
<1>2. \A u \in Turn : Agreed(row'[u], doc'[u])
  BY DEF StoresSound
<1>3. ASSUME NEW u \in Turn, row'[u] # Absent, NEW v \in 1..(u - 1)
      PROVE  row'[v].status \in Ended
  <2>0. u \in Nat /\ v \in Nat /\ v < u /\ v \in Turn
    BY <1>3, AssistantAssumption DEF Turn
  <2>1. CASE u = t
    <3>1. v # t /\ row'[v] = row[v]
      BY <2>0, <2>1 DEF StoresSound
    <3>2. CASE row[t] = Absent
      BY <1>3, <2>1, <3>1, <3>2 DEF ThreadIsFree
    <3>3. CASE row[t] # Absent
      BY <1>3, <2>1, <3>1, <3>3 DEF StoresSound, RowsInOrder
    <3> QED BY <3>2, <3>3
  <2>2. CASE u # t
    <3>1. row[u] # Absent /\ row[v].status \in Ended
      BY <1>3, <2>2 DEF StoresSound, RowsInOrder
    <3>2. CASE v # t
      BY <2>0, <3>1, <3>2 DEF StoresSound
    <3>3. CASE v = t
      <4>1. ~Latest(t)
        BY <2>0, <3>1, <3>3 DEF Latest, Turn
      <4> QED BY <2>0, <3>1, <3>3, <4>1 DEF StoresSound
    <3> QED BY <3>2, <3>3
  <2> QED BY <2>1, <2>2
<1>4. StoresMove
  BY EntryFacts DEF StoresMove, StoresSound, DocMoves
<1> QED BY <1>1, <1>2, <1>3, <1>4 DEF StoresSound, RowsInOrder

\* A turn that is not over is the latest, so what becomes of it disturbs no order.
LEMMA ActiveRowStep ==
  ASSUME StoresSound, NEW t \in Turn, NEW e \in Entry, row' = [row EXCEPT ![t] = e], doc' = doc,
         row[t].status \in Active, e.attempt = row[t].attempt,
         e.status \in Active \/ e = doc[t]
  PROVE  StoresSound' /\ StoresMove
<1>1. row[t] \in Entry /\ doc[t] \in Entry /\ Agreed(row[t], doc[t])
  BY DEF StoresSound
<1>2. row[t].attempt \in Nat /\ row[t] # Absent /\ row[t].status \notin Ended
  BY <1>1, EntryFacts DEF Absent, Active, Ended
<1>3. Agreed(e, doc[t])
  <2>1. CASE e.status \in Active
    BY <1>1, <1>2, <2>1 DEF Agreed
  <2>2. CASE e = doc[t] /\ e.status \notin Active
    <3>1. e # Absent
      BY <1>2, <2>2, <1>1, EntryFacts DEF Absent
    <3> QED BY <2>2, <3>1, EntryFacts DEF Agreed
  <2> QED BY <2>1, <2>2
<1>4. row[t].attempt <= e.attempt
  BY <1>2
<1> QED BY <1>2, <1>3, <1>4, RowStep, Zenon

\* Entries of the document are written that agree with the rows.
LEMMA DocStep ==
  ASSUME StoresSound, row' = row, doc' \in [Turn -> Entry],
         \A u \in Turn : Agreed(row[u], doc'[u]) /\ DocMoves(doc[u], doc'[u])
  PROVE  StoresSound' /\ StoresMove
BY EntryFacts DEF StoresSound, StoresMove, RowsInOrder

LEMMA OneDocStep ==
  ASSUME StoresSound, row' = row, NEW t \in Turn, NEW e \in Entry, doc' = [doc EXCEPT ![t] = e],
         Agreed(row[t], e), DocMoves(doc[t], e)
  PROVE  StoresSound' /\ StoresMove
<1>1. doc' \in [Turn -> Entry]
  BY DEF StoresSound
<1>2. \A u \in Turn : Agreed(row[u], doc'[u]) /\ DocMoves(doc[u], doc'[u])
  BY DEF StoresSound, DocMoves
<1> QED BY <1>1, <1>2, DocStep

-----------------------------------------------------------------------------
(* Actors.                                                                 *)

\* The stores move on, and an actor that does nothing stays as sound as it was.
LEMMA StaysSound ==
  ASSUME StoresSound, StoresSound', StoresMove, NEW a \in Actor, NEW x \in ActorState,
         SoundActor(a, x, row, doc)
  PROVE  SoundActor(a, x, row', doc')
<1>1. \A u \in Turn : /\ row[u] \in Entry /\ row'[u] \in Entry /\ doc[u] \in Entry /\ doc'[u] \in Entry
                      /\ row[u].attempt \in Nat /\ row'[u].attempt \in Nat
                      /\ doc[u].attempt \in Nat /\ doc'[u].attempt \in Nat
  BY EntryFacts DEF StoresSound
<1>2. x.attempt \in Nat /\ \A u \in Turn : x.seen[u] \in Entry /\ x.seen[u].attempt \in Nat
  BY EntryFacts, AssistantAssumption DEF ActorState
<1>3. x.turn \in Turn => x.attempt <= row'[x.turn].attempt
  BY <1>1, <1>2 DEF SoundActor, StoresMove
<1>4. \A u \in Turn : doc'[u] = Absent => doc[u] = Absent
  <2> SUFFICES ASSUME NEW u \in Turn, doc'[u] = Absent PROVE doc[u] = Absent
    OBVIOUS
  <2>1. DocMoves(doc[u], doc'[u])
    BY DEF StoresMove
  <2>2. doc'[u].status = "absent"
    BY DEF Absent
  <2> QED BY <2>1, <2>2 DEF DocMoves, Active, Ended, Prepared
<1>5. BehindStores(x.seen, row', doc')
  <2> SUFFICES ASSUME NEW u \in Turn, x.seen[u] # Absent
               PROVE  /\ x.seen[u].attempt <= row'[u].attempt
                      /\ doc'[u] = Absent => x.seen[u].status \in Active /\ x.seen[u].attempt = 1
    BY DEF BehindStores
  <2> QED BY <1>1, <1>2, <1>4 DEF BehindStores, SoundActor, StoresMove
<1>6. \A u \in Turn : /\ doc[u].attempt <= doc'[u].attempt
                      /\ doc[u].status = "succeeded" => doc'[u] = doc[u]
                      /\ doc[u].status = "failed" => doc'[u] = doc[u] \/ doc'[u].attempt > doc[u].attempt
  <2> SUFFICES ASSUME NEW u \in Turn
               PROVE  /\ doc[u].attempt <= doc'[u].attempt
                      /\ doc[u].status = "succeeded" => doc'[u] = doc[u]
                      /\ doc[u].status = "failed" => doc'[u] = doc[u] \/ doc'[u].attempt > doc[u].attempt
    OBVIOUS
  <2>1. DocMoves(doc[u], doc'[u])
    BY DEF StoresMove
  <2> QED BY <1>1, <2>1 DEF DocMoves, Absent, Active, Ended, Prepared
<1>7. x.step = "succeedRow" =>
        doc'[x.turn] = [status |-> "succeeded", attempt |-> x.attempt, result |-> a]
  BY <1>6 DEF SoundActor
<1>8. ASSUME x.step = "failRow"
      PROVE  \/ doc'[x.turn] = [status |-> "failed", attempt |-> x.attempt, result |-> "error"]
             \/ doc'[x.turn].attempt > x.attempt
  <2>1. x.turn \in Turn
    BY <1>8 DEF SoundActor
  <2> QED BY <1>1, <1>2, <1>6, <1>8, <2>1 DEF SoundActor
<1> QED BY <1>3, <1>5, <1>7, <1>8 DEF SoundActor

\* One actor moves, or none.
LEMMA OneActs ==
  ASSUME StoresSound, ActorsSound, StoresSound', StoresMove, NEW a \in Actor, NEW x \in ActorState,
         actor' = [actor EXCEPT ![a] = x], SoundActor(a, x, row', doc')
  PROVE  ActorsSound'
<1>1. actor' \in [Actor -> ActorState]
  BY DEF ActorsSound
<1>2. \A b \in Actor : SoundActor(b, actor'[b], row', doc')
  BY StaysSound DEF ActorsSound
<1> QED BY <1>1, <1>2 DEF ActorsSound

LEMMA NobodyActs ==
  ASSUME StoresSound, ActorsSound, StoresSound', StoresMove, UNCHANGED actor
  PROVE  ActorsSound'
BY StaysSound DEF ActorsSound

LEMMA NothingReadIsBehind == \A rows, docs : BehindStores(NoTurns, rows, docs)
BY DEF BehindStores, NoTurns

LEMMA AtRestSound ==
  AtRest \in ActorState /\ \A a, rows, docs : SoundActor(a, AtRest, rows, docs)
<1>1. AtRest \in ActorState
  BY AbsentIsEntry, AssistantAssumption DEF AtRest, ActorState, ActorStep
<1>2. AtRest.step = "idle" /\ AtRest.turn \notin Turn /\ AtRest.seen = NoTurns /\ AtRest.owns = FALSE
  BY TurnsAreNumbers DEF AtRest
<1> QED BY <1>1, <1>2, NothingReadIsBehind DEF SoundActor, ExecutionStep

\* An actor at some other step than the two that end a row.
LEMMA AtWorkSound ==
  ASSUME NEW rows, NEW docs, NEW a \in Actor, NEW x \in ActorState,
         x.step \notin {"idle", "succeedRow", "failRow"}, x.turn \in Turn,
         x.attempt <= rows[x.turn].attempt, BehindStores(x.seen, rows, docs),
         x.step \in ExecutionStep => a \in Generator
  PROVE  SoundActor(a, x, rows, docs)
BY DEF SoundActor

\* An actor begins an operation on the record it has read.
LEMMA LooksSound ==
  ASSUME NEW rows, NEW docs, NEW a \in Actor, NEW s \in {"posting", "viewing"},
         NEW t \in Turn, rows[t].attempt \in 0..MaxRetries,
         NEW seen \in [Turn -> Entry], BehindStores(seen, rows, docs),
         NEW x, x = [AtRest EXCEPT !.step = s, !.turn = t, !.attempt = rows[t].attempt,
                                   !.seen = seen]
  PROVE  x \in ActorState /\ SoundActor(a, x, rows, docs)
<1>1. x \in ActorState /\ x.step = s /\ x.turn = t /\ x.attempt = rows[t].attempt /\ x.seen = seen
  BY TurnsAreNumbers, AtRestSound DEF ActorState, ActorStep
<1>2. x.attempt <= rows[x.turn].attempt
  BY <1>1, AssistantAssumption
<1>3. x.step \notin {"idle", "succeedRow", "failRow"} /\ x.step \notin ExecutionStep
  BY <1>1 DEF ExecutionStep
<1> QED BY <1>1, <1>2, <1>3, AtWorkSound

\* What is known of an actor that is at work.
LEMMA Working ==
  ASSUME StoresSound, ActorsSound, NEW a \in Actor, actor[a].step # "idle"
  PROVE  /\ actor[a] \in ActorState /\ SoundActor(a, actor[a], row, doc)
         /\ actor[a].turn \in Turn /\ actor[a].attempt \in 0..MaxRetries
         /\ actor[a].attempt <= row[actor[a].turn].attempt
         /\ actor[a].seen \in [Turn -> Entry] /\ BehindStores(actor[a].seen, row, doc)
<1>1. actor[a] \in ActorState /\ SoundActor(a, actor[a], row, doc)
  BY DEF ActorsSound
<1> QED BY <1>1 DEF ActorState, SoundActor

\* What getRecord reads of sound stores.
LEMMA RecordIsBehind ==
  ASSUME NEW rows \in [Turn -> Entry], doc \in [Turn -> Entry], NEW t \in Turn,
         \A u \in Turn : Agreed(rows[u], doc[u])
  PROVE  Record(t, rows) \in [Turn -> Entry] /\ BehindStores(Record(t, rows), rows, doc)
<1>1. Record(t, rows) \in [Turn -> Entry]
  BY AbsentIsEntry DEF Record
<1>2. ASSUME NEW u \in Turn, Record(t, rows)[u] # Absent
      PROVE  /\ Record(t, rows)[u].attempt <= rows[u].attempt
             /\ doc[u] = Absent => /\ Record(t, rows)[u].status \in Active
                                   /\ Record(t, rows)[u].attempt = 1
  <2>1. Record(t, rows)[u] = rows[u]
    BY <1>2 DEF Record
  <2>2. rows[u].attempt \in Nat /\ Agreed(rows[u], doc[u])
    BY EntryFacts
  <2> QED BY <1>2, <2>1, <2>2, EntryFacts DEF Agreed, Absent, Active, Ended
<1> QED BY <1>1, <1>2 DEF BehindStores

-----------------------------------------------------------------------------
(* How an operation ends.                                                  *)

LEMMA MishapCounted ==
  ASSUME mishaps \in 0..MaxAssistantFaults, AssistantFault
  PROVE  mishaps' \in 0..MaxAssistantFaults
BY AssistantAssumption DEF AssistantFault

LEMMA JobsStay ==
  ASSUME JobsTyped, UNCHANGED <<turnJob, jobFailures>>
  PROVE  JobsTyped'
BY DEF JobsTyped

LEMMA JobMoves ==
  ASSUME JobsTyped, NEW t \in Turn, NEW s \in {"none", "queued", "active", "failed", "done"},
         turnJob' = [turnJob EXCEPT ![t] = s], UNCHANGED jobFailures
  PROVE  JobsTyped'
BY DEF JobsTyped

\* A job that is tried again has failed once more, and less often than it may.
LEMMA JobAgain ==
  ASSUME JobsTyped, NEW t \in Turn, jobFailures[t] + 1 < TurnJobAttempts,
         turnJob' = [turnJob EXCEPT ![t] = "queued"],
         jobFailures' = [jobFailures EXCEPT ![t] = @ + 1]
  PROVE  JobsTyped'
<1>1. jobFailures[t] + 1 \in 0..(TurnJobAttempts - 1)
  BY AssistantAssumption DEF JobsTyped
<1> QED BY <1>1 DEF JobsTyped

LEMMA EndsSound ==
  ASSUME StoresSound, ActorsSound, JobsTyped, StoresSound', StoresMove, NEW a \in Actor,
         actor[a].step # "idle", Ends(a)
  PROVE  ActorsSound' /\ JobsTyped'
<1>1. ActorsSound'
  BY AtRestSound, OneActs DEF Ends
<1>2. PICK t \in Turn : t = actor[a].turn
  BY Working
<1>3. CASE ~actor[a].owns
  <2>1. UNCHANGED <<turnJob, jobFailures>>
    BY <1>3 DEF Ends
  <2> QED BY <1>1, <2>1, JobsStay
<1>4. CASE actor[a].owns /\ actor[a].then = "retry"
           /\ jobFailures[t] + 1 < TurnJobAttempts
  <2>1. /\ turnJob' = [turnJob EXCEPT ![t] = "queued"]
        /\ jobFailures' = [jobFailures EXCEPT ![t] = @ + 1]
    BY <1>2, <1>4 DEF Ends
  <2> QED BY <1>1, <1>2, <1>4, <2>1, JobAgain
<1>5. CASE actor[a].owns /\ ~(actor[a].then = "retry"
                              /\ jobFailures[t] + 1 < TurnJobAttempts)
  <2>1. PICK s \in {"done", "failed"} : turnJob' = [turnJob EXCEPT ![t] = s]
    BY <1>2, <1>5 DEF Ends
  <2>2. jobFailures' = jobFailures
    BY <1>2, <1>5 DEF Ends, JobsTyped
  <2> QED BY <1>1, <1>2, <2>1, <2>2, JobMoves
<1> QED BY <1>1, <1>3, <1>4, <1>5

\* onFailed, and the recovery, write a failure of an attempt the row has reached.
LEMMA FailSound ==
  ASSUME NEW rows, NEW docs, NEW a \in Actor, NEW t \in Turn, NEW n \in 0..MaxRetries,
         n <= rows[t].attempt,
         NEW x, x = [AtRest EXCEPT !.step = "fail", !.turn = t, !.attempt = n]
  PROVE  x \in ActorState /\ SoundActor(a, x, rows, docs)
<1>1. x \in ActorState /\ x.step = "fail" /\ x.turn = t /\ x.attempt = n /\ x.seen = NoTurns
  BY TurnsAreNumbers, AtRestSound DEF ActorState, ActorStep, AtRest
<1> QED BY <1>1, AtWorkSound, NothingReadIsBehind DEF ExecutionStep

LEMMA ThrowsSound ==
  ASSUME StoresSound, ActorsSound, JobsTyped, StoresSound', StoresMove, NEW a \in Actor,
         actor[a].step # "idle", Throws(a)
  PROVE  ActorsSound' /\ JobsTyped'
<1>1. PICK t \in Turn : t = actor[a].turn
  BY Working
<1>2. CASE ~actor[a].owns
  <2>1. actor' = [actor EXCEPT ![a] = AtRest] /\ UNCHANGED <<turnJob, jobFailures>>
    BY <1>2 DEF Throws
  <2> QED BY <2>1, AtRestSound, OneActs, JobsStay
<1>3. CASE actor[a].owns /\ jobFailures[t] + 1 < TurnJobAttempts
  <2>1. /\ actor' = [actor EXCEPT ![a] = AtRest]
        /\ turnJob' = [turnJob EXCEPT ![t] = "queued"]
        /\ jobFailures' = [jobFailures EXCEPT ![t] = @ + 1]
    BY <1>1, <1>3 DEF Throws
  <2> QED BY <1>1, <1>3, <2>1, AtRestSound, OneActs, JobAgain
<1>4. CASE actor[a].owns /\ ~(jobFailures[t] + 1 < TurnJobAttempts)
  <2> DEFINE x == [AtRest EXCEPT !.step = "fail", !.turn = t, !.attempt = actor[a].attempt]
  <2>1. /\ actor' = [actor EXCEPT ![a] = x]
        /\ turnJob' = [turnJob EXCEPT ![t] = "failed"] /\ UNCHANGED jobFailures
    BY <1>1, <1>4 DEF Throws
  <2>2. SoundActor(a, actor[a], row', doc')
    BY Working, StaysSound
  <2>3. actor[a].attempt \in 0..MaxRetries /\ actor[a].attempt <= row'[t].attempt
    BY <1>1, <2>2, Working DEF SoundActor
  <2>4. x \in ActorState /\ SoundActor(a, x, row', doc')
    BY <2>3, FailSound
  <2> HIDE DEF x
  <2> QED BY <1>1, <2>1, <2>4, OneActs, JobMoves
<1> QED BY <1>2, <1>3, <1>4

\* An actor takes the next step of its operation.
LEMMA GoesSound ==
  ASSUME StoresSound, ActorsSound, StoresSound', StoresMove, NEW a \in Actor, NEW s \in ActorStep,
         actor[a].step # "idle", s # "idle", s \in ExecutionStep => a \in Generator, Goes(a, s),
         s = "succeedRow" => doc'[actor[a].turn] =
           [status |-> "succeeded", attempt |-> actor[a].attempt, result |-> a],
         s = "failRow" => doc'[actor[a].turn] =
           [status |-> "failed", attempt |-> actor[a].attempt, result |-> "error"]
  PROVE  ActorsSound'
<1> DEFINE x == [actor[a] EXCEPT !.step = s]
<1>1. actor' = [actor EXCEPT ![a] = x]
  BY DEF Goes
<1>2. actor[a] \in ActorState /\ actor[a].turn \in Turn /\ SoundActor(a, actor[a], row', doc')
  BY Working, StaysSound
<1>3. /\ x \in ActorState /\ x.step = s /\ x.turn = actor[a].turn
      /\ x.attempt = actor[a].attempt /\ x.seen = actor[a].seen
  BY <1>2 DEF ActorState
<1> HIDE DEF x
<1>4. SoundActor(a, x, row', doc')
  BY <1>2, <1>3 DEF SoundActor
<1> QED BY <1>1, <1>3, <1>4, OneActs

\* Nothing of the stores moves, and one actor does.
LEMMA ActsAlone ==
  ASSUME AssistantInvariant, UNCHANGED <<row, doc, turnJob, jobFailures>>,
         mishaps' \in 0..MaxAssistantFaults, NEW a \in Actor, NEW x \in ActorState,
         actor' = [actor EXCEPT ![a] = x], SoundActor(a, x, row, doc)
  PROVE  AssistantInvariant' /\ StoresMove
<1>1. StoresSound' /\ StoresMove
  BY StoresStay DEF AssistantInvariant
<1>2. ActorsSound'
  BY <1>1, OneActs DEF AssistantInvariant
<1> QED BY <1>1, <1>2, JobsStay DEF AssistantInvariant

-----------------------------------------------------------------------------
(* Requests.                                                               *)

LEMMA PostStep ==
  ASSUME AssistantInvariant, NEW b \in Browser, NEW t \in Turn, Post(b, t)
  PROVE  AssistantInvariant' /\ StoresMove
<1>0. StoresSound /\ ActorsSound /\ JobsTyped /\ b \in Actor
  BY DEF AssistantInvariant, Actor
<1>1. row[t] \in Entry /\ doc[t] \in Entry /\ Agreed(row[t], doc[t])
  BY <1>0 DEF StoresSound
<1>2. StoresSound' /\ StoresMove
  <2>1. CASE row[t] = Absent
    <3> DEFINE e == [status |-> "queued", attempt |-> 1, result |-> "none"]
    <3>1. row' = [row EXCEPT ![t] = e] /\ doc' = doc /\ ThreadIsFree(t)
      BY <2>1 DEF Post
    <3>2. e \in Entry
      BY AssistantAssumption DEF Entry, Active
    <3>3. doc[t] = Absent
      BY <1>1, <2>1, AgreedFacts
    <3>4. /\ Agreed(e, doc[t]) /\ row[t].attempt <= e.attempt
          /\ row[t].status \notin Ended
      BY <2>1, <3>3 DEF Agreed, Active, Absent, Ended
    <3> HIDE DEF e
    <3> QED BY <1>0, <3>1, <3>2, <3>4, RowStep
  <2>2. CASE row[t] # Absent
    BY <1>0, <2>2, StoresStay DEF Post
  <2> QED BY <2>1, <2>2
<1> DEFINE x == [AtRest EXCEPT !.step = "posting", !.turn = t, !.attempt = row'[t].attempt,
                              !.seen = Record(t, row')]
<1>3. actor' = [actor EXCEPT ![b] = x] /\ doc' = doc
  BY DEF Post, Reads
<1>4. x \in ActorState /\ SoundActor(b, x, row', doc')
  <2>1. /\ row' \in [Turn -> Entry] /\ doc \in [Turn -> Entry]
        /\ \A u \in Turn : Agreed(row'[u], doc[u])
    BY <1>2, <1>3 DEF StoresSound
  <2>2. /\ Record(t, row') \in [Turn -> Entry] /\ BehindStores(Record(t, row'), row', doc')
        /\ row'[t].attempt \in 0..MaxRetries
    BY <1>3, <2>1, RecordIsBehind, EntryFacts
  <2> QED BY <1>0, <2>2, LooksSound
<1> HIDE DEF x
<1>5. ActorsSound'
  BY <1>0, <1>2, <1>3, <1>4, OneActs
<1> QED BY <1>0, <1>2, <1>5, JobsStay DEF AssistantInvariant, Post

LEMMA ViewStep ==
  ASSUME AssistantInvariant, NEW b \in Browser, NEW t \in Turn, View(b, t)
  PROVE  AssistantInvariant' /\ StoresMove
<1>0. StoresSound /\ b \in Actor /\ mishaps \in 0..MaxAssistantFaults
  BY DEF AssistantInvariant, Actor
<1> DEFINE x == [AtRest EXCEPT !.step = "viewing", !.turn = t, !.attempt = row[t].attempt,
                              !.seen = Record(t, row)]
<1>1. actor' = [actor EXCEPT ![b] = x] /\ UNCHANGED <<row, doc, turnJob, jobFailures, mishaps>>
  BY DEF View, Reads
<1>2. /\ Record(t, row) \in [Turn -> Entry] /\ BehindStores(Record(t, row), row, doc)
      /\ row[t].attempt \in 0..MaxRetries
  BY <1>0, RecordIsBehind, EntryFacts DEF StoresSound
<1>3. x \in ActorState /\ SoundActor(b, x, row, doc)
  BY <1>0, <1>2, LooksSound
<1> HIDE DEF x
<1> QED BY <1>0, <1>1, <1>3, ActsAlone

LEMMA RetryLookStep ==
  ASSUME AssistantInvariant, NEW b \in Browser, NEW t \in Turn, RetryLook(b, t)
  PROVE  AssistantInvariant' /\ StoresMove
<1>0. StoresSound /\ b \in Actor /\ mishaps \in 0..MaxAssistantFaults
  BY DEF AssistantInvariant, Actor
<1> DEFINE seen == [NoTurns EXCEPT ![t] = doc[t]]
           x == [AtRest EXCEPT !.step = "retrying", !.turn = t, !.seen = seen]
<1>1. actor' = [actor EXCEPT ![b] = x] /\ UNCHANGED <<row, doc, turnJob, jobFailures, mishaps>>
  BY DEF RetryLook
<1>2. seen \in [Turn -> Entry]
  BY <1>0, AbsentIsEntry DEF StoresSound
<1>3. BehindStores(seen, row, doc)
  <2>1. doc[t] # Absent
    BY DEF RetryLook, Absent
  <2>2. \A u \in Turn : u # t => seen[u] = Absent
    BY AbsentIsEntry DEF NoTurns
  <2>3. seen[t] = doc[t] /\ doc[t].attempt <= row[t].attempt
    BY <1>0, AgreedFacts, AbsentIsEntry DEF StoresSound
  <2> HIDE DEF seen
  <2> QED BY <2>1, <2>2, <2>3 DEF BehindStores
<1> HIDE DEF seen
<1>4. x \in ActorState /\ x.step = "retrying" /\ x.turn = t /\ x.attempt = 0 /\ x.seen = seen
  BY <1>2, TurnsAreNumbers, AtRestSound DEF ActorState, ActorStep, AtRest
<1> HIDE DEF x
<1>5. row[t].attempt >= 0
  BY <1>0, EntryFacts DEF StoresSound
<1>6. SoundActor(b, x, row, doc)
  BY <1>0, <1>3, <1>4, <1>5, AtWorkSound DEF ExecutionStep
<1> QED BY <1>0, <1>1, <1>4, <1>6, ActsAlone

\* The retry takes the jobs of the attempt it leaves from their owners.
LEMMA RetryRowStep ==
  ASSUME AssistantInvariant, NEW b \in Browser, RetryRow(b)
  PROVE  AssistantInvariant' /\ StoresMove
<1>0. /\ StoresSound /\ ActorsSound /\ JobsTyped /\ b \in Actor
      /\ actor[b].step = "retrying" /\ UNCHANGED <<doc, mishaps>>
      /\ mishaps \in 0..MaxAssistantFaults
  BY DEF AssistantInvariant, Actor, RetryRow, At
<1>1. PICK t \in Turn : t = actor[b].turn
  BY <1>0, Working
<1>2. row[t] \in Entry /\ doc[t] \in Entry /\ Agreed(row[t], doc[t]) /\ row[t].attempt \in 0..MaxRetries
  BY <1>0, EntryFacts DEF StoresSound
<1>3. ASSUME row[t].status = "failed", Latest(t), row[t].attempt < MaxRetries,
             row' = [row EXCEPT ![t] = [status |-> "queued", attempt |-> row[t].attempt + 1,
                                        result |-> "none"]],
             turnJob' = [turnJob EXCEPT ![t] = "none"],
             jobFailures' = [jobFailures EXCEPT ![t] = 0],
             actor' = [a \in Actor |->
                IF a = b THEN [AtRest EXCEPT !.step = "preparing", !.turn = t,
                                             !.attempt = row[t].attempt + 1]
                ELSE IF actor[a].turn = t THEN [actor[a] EXCEPT !.owns = FALSE]
                ELSE actor[a]]
      PROVE  AssistantInvariant' /\ StoresMove
  <2> DEFINE e == [status |-> "queued", attempt |-> row[t].attempt + 1, result |-> "none"]
  <2>1. row[t].attempt + 1 \in 1..MaxRetries /\ row[t].attempt + 1 \in 0..MaxRetries
    BY <1>2, <1>3, AssistantAssumption
  <2>2. e \in Entry
    BY <2>1 DEF Entry, Active
  <2>3. Agreed(e, doc[t]) /\ row[t].attempt <= e.attempt /\ row[t] # Absent
    <3>1. doc[t] = row[t]
      BY <1>2, <1>3, AgreedFacts DEF Ended
    <3> QED BY <1>2, <1>3, <3>1 DEF Agreed, Active, Ended, Absent
  <2>4. row' = [row EXCEPT ![t] = e]
    BY <1>3
  <2>5. StoresSound' /\ StoresMove /\ row'[t] = e
    <3> HIDE DEF e
    <3> QED BY <1>0, <1>3, <2>2, <2>3, <2>4, RowStep DEF StoresSound
  <2> DEFINE x == [AtRest EXCEPT !.step = "preparing", !.turn = t, !.attempt = row[t].attempt + 1]
  <2>6. x \in ActorState /\ SoundActor(b, x, row', doc')
    <3>1. /\ x \in ActorState /\ x.step = "preparing" /\ x.turn = t
          /\ x.attempt = row[t].attempt + 1 /\ x.seen = NoTurns
      BY <2>1, TurnsAreNumbers, AtRestSound DEF ActorState, ActorStep, AtRest
    <3>2. x.attempt <= row'[t].attempt
      BY <2>1, <2>5, <3>1
    <3> HIDE DEF x
    <3> QED BY <1>0, <3>1, <3>2, AtWorkSound, NothingReadIsBehind DEF ExecutionStep
  <2>7. ASSUME NEW a \in Actor
        PROVE  actor'[a] \in ActorState /\ SoundActor(a, actor'[a], row', doc')
    <3>0. actor[a] \in ActorState /\ SoundActor(a, actor[a], row', doc')
      BY <1>0, <2>5, StaysSound DEF ActorsSound
    <3>1. CASE a = b
      BY <1>3, <2>6, <3>1
    <3>2. CASE a # b /\ actor[a].turn = t
      <4> DEFINE y == [actor[a] EXCEPT !.owns = FALSE]
      <4>1. actor'[a] = y
        BY <1>3, <3>2
      <4>2. y \in ActorState
        BY <3>0 DEF ActorState
      <4>3. /\ y.step = actor[a].step /\ y.turn = actor[a].turn
            /\ y.attempt = actor[a].attempt /\ y.seen = actor[a].seen
        BY <3>0 DEF ActorState
      <4>4. ~y.owns
        BY <3>0 DEF ActorState
      <4> HIDE DEF y
      <4>5. SoundActor(a, y, row', doc')
        BY <3>0, <4>3, <4>4 DEF SoundActor
      <4> QED BY <4>1, <4>2, <4>5
    <3>3. CASE a # b /\ actor[a].turn # t
      BY <1>3, <3>0, <3>3
    <3> QED BY <3>1, <3>2, <3>3
  <2>8. ActorsSound'
    <3>1. actor' = [a \in Actor |-> actor'[a]]
      BY <1>3
    <3> QED BY <2>7, <3>1 DEF ActorsSound
  <2>9. JobsTyped'
    BY <1>0, <1>3, AssistantAssumption DEF JobsTyped
  <2> QED BY <1>0, <2>5, <2>8, <2>9 DEF AssistantInvariant
<1>4. ASSUME actor' = [actor EXCEPT ![b] = [AtRest EXCEPT !.step = "preparing", !.turn = t,
                                                        !.attempt = row[t].attempt]],
             UNCHANGED <<row, turnJob, jobFailures>>
      PROVE  AssistantInvariant' /\ StoresMove
  <2> DEFINE x == [AtRest EXCEPT !.step = "preparing", !.turn = t, !.attempt = row[t].attempt]
  <2>1. /\ x \in ActorState /\ x.step = "preparing" /\ x.turn = t
        /\ x.attempt = row[t].attempt /\ x.seen = NoTurns
    BY <1>2, TurnsAreNumbers, AtRestSound DEF ActorState, ActorStep, AtRest
  <2>2. actor' = [actor EXCEPT ![b] = x]
    BY <1>4
  <2> HIDE DEF x
  <2>3. x.attempt <= row[t].attempt
    BY <1>2, <2>1
  <2>4. SoundActor(b, x, row, doc)
    BY <1>0, <2>1, <2>3, AtWorkSound, NothingReadIsBehind DEF ExecutionStep
  <2> QED BY <1>0, <1>4, <2>1, <2>2, <2>4, ActsAlone
<1>5. ASSUME actor' = [actor EXCEPT ![b] = AtRest], UNCHANGED <<row, turnJob, jobFailures>>
      PROVE  AssistantInvariant' /\ StoresMove
  BY <1>0, <1>5, ActsAlone, AtRestSound
<1> QED BY <1>1, <1>3, <1>4, <1>5 DEF RetryRow

\* A retry that is behind the document changes nothing; the one that is due is in both
\* stores.
LEMMA RetryDocStep ==
  ASSUME AssistantInvariant, NEW b \in Browser, RetryDoc(b)
  PROVE  AssistantInvariant' /\ StoresMove
<1>0. /\ StoresSound /\ ActorsSound /\ JobsTyped /\ b \in Actor /\ actor[b].step = "preparing"
      /\ UNCHANGED <<row, turnJob, jobFailures, mishaps>> /\ mishaps \in 0..MaxAssistantFaults
  BY DEF AssistantInvariant, Actor, RetryDoc, At
<1>1. PICK t \in Turn, n \in 0..MaxRetries : t = actor[b].turn /\ n = actor[b].attempt
                                            /\ n <= row[t].attempt
  BY <1>0, Working
<1>2. row[t] \in Entry /\ doc[t] \in Entry /\ Agreed(row[t], doc[t])
  BY <1>0 DEF StoresSound
<1>3. StoresSound' /\ StoresMove
  <2>1. CASE doc[t].status = "failed" /\ doc[t].attempt = n - 1
    <3>1. doc' = [doc EXCEPT ![t] = Prepared(n)]
      BY <1>1, <2>1 DEF RetryDoc
    <3>2. doc[t].attempt \in Nat /\ doc[t].attempt >= 1 /\ row[t].attempt \in Nat
      BY <1>2, <2>1, EntryFacts DEF Absent
    <3>3. row[t].status \in Active /\ row[t].attempt = n
      BY <1>1, <1>2, <2>1, <3>2, AgreedFacts
    <3>4. Prepared(n) \in Entry
      BY <1>1, <2>1, <3>2, AssistantAssumption DEF Prepared, Entry, Active
    <3>5. Agreed(row[t], Prepared(n))
      BY <3>3 DEF Agreed, Prepared, Active
    <3>6. DocMoves(doc[t], Prepared(n))
      <4>1. n = doc[t].attempt + 1
        BY <2>1, <3>2
      <4> QED BY <2>1, <4>1 DEF DocMoves
    <3> QED BY <1>0, <3>1, <3>4, <3>5, <3>6, OneDocStep
  <2>2. CASE ~(doc[t].status = "failed" /\ doc[t].attempt = n - 1)
    BY <1>0, <1>1, <2>2, StoresStay DEF RetryDoc
  <2> QED BY <2>1, <2>2
<1>4. ActorsSound'
  <2>1. CASE Goes(b, "enqueue")
    BY <1>0, <1>3, <2>1, GoesSound DEF ActorStep, ExecutionStep
  <2>2. CASE actor' = [actor EXCEPT ![b] = AtRest]
    BY <1>0, <1>3, <2>2, AtRestSound, OneActs
  <2> QED BY <2>1, <2>2 DEF RetryDoc
<1> QED BY <1>0, <1>3, <1>4, JobsStay DEF AssistantInvariant

LEMMA EnqueueStep ==
  ASSUME AssistantInvariant, NEW b \in Browser, Enqueue(b) \/ EnqueueFails(b)
  PROVE  AssistantInvariant' /\ StoresMove
<1>0. /\ StoresSound /\ ActorsSound /\ JobsTyped /\ b \in Actor /\ actor[b].step = "enqueue"
      /\ UNCHANGED <<row, doc, jobFailures>> /\ mishaps \in 0..MaxAssistantFaults
  BY DEF AssistantInvariant, Actor, Enqueue, EnqueueFails, At
<1>1. StoresSound' /\ StoresMove
  BY <1>0, StoresStay
<1>2. ActorsSound'
  <2>1. CASE Enqueue(b)
    BY <1>0, <1>1, <2>1, AtRestSound, OneActs DEF Enqueue
  <2>2. CASE EnqueueFails(b)
    BY <1>0, <1>1, <2>2, GoesSound DEF EnqueueFails, ActorStep, ExecutionStep
  <2> QED BY <2>1, <2>2
<1>3. JobsTyped'
  <2>1. turnJob' = turnJob \/ turnJob' = [turnJob EXCEPT ![actor[b].turn] = "queued"]
    BY DEF Enqueue, EnqueueFails
  <2>2. turnJob' \in [Turn -> {"none", "queued", "active", "failed", "done"}]
    BY <1>0, <2>1 DEF JobsTyped
  <2> QED BY <1>0, <2>2 DEF JobsTyped
<1>4. mishaps' \in 0..MaxAssistantFaults
  BY <1>0, MishapCounted DEF Enqueue, EnqueueFails
<1> QED BY <1>1, <1>2, <1>3, <1>4 DEF AssistantInvariant

-----------------------------------------------------------------------------
(* The document is brought up to the record that was read.                 *)

\* What is copied is the first attempt of a turn the document lacks; what is finished is
\* the retry the row is at.
LEMMA MaterializedStores ==
  ASSUME AssistantInvariant, NEW a \in Actor, Materialize(a)
  PROVE  StoresSound' /\ StoresMove
<1>0. /\ StoresSound /\ ActorsSound /\ actor[a].step # "idle" /\ row' = row
  BY DEF AssistantInvariant, Materialize
<1>1. PICK t \in Turn, seen \in [Turn -> Entry] :
        t = actor[a].turn /\ seen = actor[a].seen /\ BehindStores(seen, row, doc)
  BY <1>0, Working
<1> DEFINE copied == IF doc[t] # Absent THEN doc
                     ELSE [u \in Turn |-> IF doc[u] = Absent THEN seen[u] ELSE doc[u]]
           halfRetried == /\ seen[t].status \in Active /\ copied[t].status = "failed"
                          /\ seen[t].attempt = copied[t].attempt + 1
<1>2. doc' = IF halfRetried THEN [copied EXCEPT ![t] = Prepared(seen[t].attempt)] ELSE copied
  BY <1>1 DEF Materialize
<1>3. copied \in [Turn -> Entry]
  BY <1>0 DEF StoresSound
<1>4. ASSUME NEW u \in Turn PROVE Agreed(row[u], copied[u]) /\ DocMoves(doc[u], copied[u])
  <2>0. row[u] \in Entry /\ doc[u] \in Entry /\ seen[u] \in Entry /\ Agreed(row[u], doc[u])
        /\ row[u].attempt \in Nat
    BY <1>0, EntryFacts DEF StoresSound
  <2>1. copied[u] = doc[u] \/ (doc[u] = Absent /\ copied[u] = seen[u] /\ seen[u] # Absent)
    OBVIOUS
  <2>2. CASE copied[u] = doc[u]
    <3> HIDE DEF copied
    <3> QED BY <2>0, <2>2 DEF DocMoves
  <2>3. CASE doc[u] = Absent /\ copied[u] = seen[u] /\ seen[u] # Absent
    <3> HIDE DEF copied
    <3>1. seen[u].status \in Active /\ seen[u].attempt = 1 /\ row[u].attempt >= 1
      BY <1>1, <2>3 DEF BehindStores
    <3>2. row[u].status \in Active /\ row[u].attempt = 1
      BY <2>0, <2>3, <3>1 DEF Agreed, Absent, Active, Ended
    <3> QED BY <2>3, <3>1, <3>2 DEF Agreed, DocMoves
  <2> QED BY <2>1, <2>2, <2>3
<1>5. CASE ~halfRetried
  <2>1. doc' = copied
    BY <1>2, <1>5
  <2> HIDE DEF copied, halfRetried
  <2> QED BY <1>0, <1>3, <1>4, <2>1, DocStep
<1>6. CASE halfRetried
  <2> DEFINE e == Prepared(seen[t].attempt)
  <2>0. row[t] \in Entry /\ doc[t] \in Entry /\ seen[t] \in Entry
        /\ Agreed(row[t], doc[t]) /\ row[t].attempt \in Nat
        /\ seen[t].attempt \in 1..MaxRetries /\ seen[t].attempt \in Nat
    <3>1. seen[t] # Absent
      BY <1>6 DEF Absent, Active
    <3>2. seen[t].attempt >= 1 /\ seen[t].attempt \in 0..MaxRetries
      BY <3>1, EntryFacts
    <3>3. seen[t].attempt \in 1..MaxRetries /\ seen[t].attempt \in Nat
      BY <3>2, AssistantAssumption
    <3> QED BY <1>0, <3>3, EntryFacts DEF StoresSound
  <2>1. copied[t] = doc[t] /\ doc[t].status = "failed" /\ seen[t].attempt = doc[t].attempt + 1
    BY <1>6 DEF Active
  <2>2. seen[t].attempt <= row[t].attempt
    BY <1>1, <1>6 DEF BehindStores, Absent, Active
  <2>3. doc[t].attempt \in Nat
    BY <2>0, EntryFacts
  <2>4. row[t].status \in Active /\ row[t].attempt = seen[t].attempt
    BY <2>0, <2>1, <2>2, <2>3, AgreedFacts
  <2>5. e \in Entry /\ Agreed(row[t], e) /\ DocMoves(doc[t], e)
    <3>1. e \in Entry
      BY <2>0 DEF Prepared, Entry, Active
    <3>2. Agreed(row[t], e)
      BY <2>4 DEF Agreed, Prepared, Active
    <3>3. DocMoves(doc[t], e)
      BY <2>1 DEF DocMoves
    <3> QED BY <3>1, <3>2, <3>3
  <2>6. doc' = [copied EXCEPT ![t] = e]
    BY <1>2, <1>6
  <2> HIDE DEF copied, halfRetried, e
  <2>7. doc' \in [Turn -> Entry]
    BY <1>3, <2>5, <2>6
  <2>8. \A u \in Turn : Agreed(row[u], doc'[u]) /\ DocMoves(doc[u], doc'[u])
    BY <1>3, <1>4, <2>5, <2>6
  <2> QED BY <1>0, <2>7, <2>8, DocStep
<1> QED BY <1>5, <1>6

LEMMA MaterializeStep ==
  ASSUME AssistantInvariant, NEW a \in Actor, Materialize(a)
  PROVE  AssistantInvariant' /\ StoresMove
<1>0. /\ StoresSound /\ ActorsSound /\ JobsTyped /\ actor[a].step # "idle"
      /\ actor[a].step \in {"starting", "posting", "failing", "viewing"}
      /\ UNCHANGED <<row, mishaps>> /\ mishaps \in 0..MaxAssistantFaults
  BY DEF AssistantInvariant, Materialize
<1>1. StoresSound' /\ StoresMove
  BY MaterializedStores
<1>2. CASE actor' = [actor EXCEPT ![a] = AtRest] /\ UNCHANGED <<turnJob, jobFailures>>
  BY <1>0, <1>1, <1>2, AtRestSound, OneActs, JobsStay DEF AssistantInvariant
<1>3. CASE Throws(a)
  BY <1>0, <1>1, <1>3, ThrowsSound DEF AssistantInvariant
<1>4. ASSUME NEW s \in {"repair", "run", "enqueue", "failDoc"}, s = "run" => At(a, "starting"),
             actor' = [actor EXCEPT ![a].seen = NoTurns, ![a].step = s],
             UNCHANGED <<turnJob, jobFailures>>
      PROVE  AssistantInvariant'
  <2> DEFINE x == [actor[a] EXCEPT !.seen = NoTurns, !.step = s]
  <2>1. actor[a] \in ActorState /\ actor[a].turn \in Turn /\ SoundActor(a, actor[a], row', doc')
        /\ actor[a].attempt <= row'[actor[a].turn].attempt
        /\ (actor[a].step = "starting" => a \in Generator)
    <3>1. actor[a] \in ActorState /\ actor[a].turn \in Turn /\ SoundActor(a, actor[a], row', doc')
      BY <1>0, <1>1, Working, StaysSound
    <3> QED BY <3>1 DEF SoundActor, ExecutionStep
  <2>2. /\ x \in ActorState /\ x.step = s /\ x.turn = actor[a].turn
        /\ x.attempt = actor[a].attempt /\ x.seen = NoTurns
    BY <2>1, AbsentIsEntry DEF ActorState, ActorStep
  <2>3. actor' = [actor EXCEPT ![a] = x]
    BY <1>4, <1>0 DEF ActorsSound
  <2> HIDE DEF x
  <2>4. SoundActor(a, x, row', doc')
    BY <1>4, <2>1, <2>2, AtWorkSound, NothingReadIsBehind DEF ExecutionStep, At
  <2>5. ActorsSound'
    BY <1>0, <1>1, <2>2, <2>3, <2>4, OneActs
  <2> QED BY <1>0, <1>1, <1>4, <2>5, JobsStay DEF AssistantInvariant
<1>5. \/ actor' = [actor EXCEPT ![a] = AtRest] /\ UNCHANGED <<turnJob, jobFailures>>
      \/ Throws(a)
      \/ /\ UNCHANGED <<turnJob, jobFailures>>
         /\ \E s \in {"repair", "run", "enqueue", "failDoc"} :
              /\ s = "run" => At(a, "starting")
              /\ actor' = [actor EXCEPT ![a].seen = NoTurns, ![a].step = s]
  BY <1>0 DEF Materialize, At
<1> QED BY <1>1, <1>2, <1>3, <1>4, <1>5

\* The row is written with the end the document has.
LEMMA RepairStep ==
  ASSUME AssistantInvariant, NEW a \in Actor, Repair(a)
  PROVE  AssistantInvariant' /\ StoresMove
<1>0. /\ StoresSound /\ ActorsSound /\ JobsTyped /\ actor[a].step # "idle"
      /\ UNCHANGED <<doc, mishaps>> /\ mishaps \in 0..MaxAssistantFaults
  BY DEF AssistantInvariant, Repair, At
<1>1. PICK t \in Turn : t = actor[a].turn
  BY <1>0, Working
<1>2. StoresSound' /\ StoresMove
  <2>1. CASE row' = row
    BY <1>0, <2>1, StoresStay
  <2>2. CASE row' # row
    <3>1. /\ row' = [row EXCEPT ![t] = doc[t]] /\ row[t].status \in Active
          /\ doc[t].attempt = row[t].attempt
      BY <1>1, <2>2 DEF Repair, Fenced
    <3>2. doc[t] \in Entry
      BY <1>0 DEF StoresSound
    <3> QED BY <1>0, <3>1, <3>2, ActiveRowStep
  <2> QED BY <2>1, <2>2
<1>3. ActorsSound' /\ JobsTyped'
  BY <1>0, <1>2, EndsSound DEF Repair
<1> QED BY <1>0, <1>2, <1>3 DEF AssistantInvariant

-----------------------------------------------------------------------------
(* Executions.                                                             *)

LEMMA TakeStep ==
  ASSUME AssistantInvariant, NEW g \in Generator, NEW t \in Turn, Take(g, t)
  PROVE  AssistantInvariant' /\ StoresMove
<1>0. /\ StoresSound /\ ActorsSound /\ JobsTyped /\ g \in Actor
      /\ UNCHANGED <<row, doc, jobFailures, mishaps>> /\ mishaps \in 0..MaxAssistantFaults
  BY DEF AssistantInvariant, Actor, Take
<1>1. StoresSound' /\ StoresMove
  BY <1>0, StoresStay
<1>2. ActorsSound'
  <2>1. CASE row[t].status \in Active
    <3> DEFINE x == [AtRest EXCEPT !.step = "starting", !.turn = t, !.attempt = row[t].attempt,
                                   !.seen = Record(t, row), !.owns = TRUE]
    <3>1. actor' = [actor EXCEPT ![g] = x]
      BY <2>1 DEF Take
    <3>2. /\ Record(t, row) \in [Turn -> Entry] /\ BehindStores(Record(t, row), row, doc)
          /\ row[t].attempt \in 0..MaxRetries /\ row[t].attempt \in Nat
      BY <1>0, RecordIsBehind, EntryFacts DEF StoresSound
    <3>3. /\ x \in ActorState /\ x.step = "starting" /\ x.turn = t
          /\ x.attempt = row[t].attempt /\ x.seen = Record(t, row)
      BY <3>2, TurnsAreNumbers, AtRestSound DEF ActorState, ActorStep
    <3> HIDE DEF x
    <3>4. SoundActor(g, x, row, doc)
      BY <1>0, <3>2, <3>3, AtWorkSound
    <3> QED BY <1>0, <1>1, <3>1, <3>3, <3>4, OneActs
  <2>2. CASE UNCHANGED actor
    BY <1>0, <1>1, <2>2, NobodyActs
  <2> QED BY <2>1, <2>2 DEF Take
<1>3. JobsTyped'
  <2>1. \E s \in {"active", "done"} : turnJob' = [turnJob EXCEPT ![t] = s]
    BY DEF Take
  <2> QED BY <1>0, <2>1, JobMoves
<1> QED BY <1>0, <1>1, <1>2, <1>3 DEF AssistantInvariant

LEMMA RunRowStep ==
  ASSUME AssistantInvariant, NEW g \in Generator, RunRow(g)
  PROVE  AssistantInvariant' /\ StoresMove
<1>0. /\ StoresSound /\ ActorsSound /\ JobsTyped /\ g \in Actor /\ actor[g].step = "run"
      /\ UNCHANGED <<doc, mishaps>> /\ mishaps \in 0..MaxAssistantFaults
  BY DEF AssistantInvariant, Actor, RunRow, At
<1>1. PICK t \in Turn : t = actor[g].turn
  BY <1>0, Working
<1>2. CASE Fenced(row, t, actor[g].attempt)
  <2> DEFINE e == [row[t] EXCEPT !.status = "running"]
  <2>1. row' = [row EXCEPT ![t] = e] /\ Goes(g, "runDoc") /\ UNCHANGED <<turnJob, jobFailures>>
    BY <1>1, <1>2 DEF RunRow
  <2>2. row[t] \in Entry /\ row[t] # Absent /\ row[t].status \in Active
    BY <1>0, <1>2 DEF Fenced, StoresSound, Absent, Active
  <2>3. e \in Entry /\ e.attempt = row[t].attempt /\ e.status \in Active
    BY <2>2, EntryFacts DEF Entry, Active
  <2>4. StoresSound' /\ StoresMove
    <3> HIDE DEF e
    <3> QED BY <1>0, <2>1, <2>2, <2>3, ActiveRowStep
  <2>5. ActorsSound'
    BY <1>0, <2>1, <2>4, GoesSound DEF ActorStep, ExecutionStep
  <2> QED BY <1>0, <2>1, <2>4, <2>5, JobsStay DEF AssistantInvariant
<1>3. CASE ~Fenced(row, t, actor[g].attempt)
  <2>1. Ends(g) /\ UNCHANGED row
    BY <1>1, <1>3 DEF RunRow
  <2>2. StoresSound' /\ StoresMove
    BY <1>0, <2>1, StoresStay
  <2> QED BY <1>0, <2>1, <2>2, EndsSound DEF AssistantInvariant
<1> QED BY <1>2, <1>3

LEMMA RunDocStep ==
  ASSUME AssistantInvariant, NEW g \in Generator, RunDoc(g)
  PROVE  AssistantInvariant' /\ StoresMove
<1>0. /\ StoresSound /\ ActorsSound /\ JobsTyped /\ g \in Actor /\ actor[g].step = "runDoc"
      /\ UNCHANGED <<row, turnJob, jobFailures, mishaps>> /\ mishaps \in 0..MaxAssistantFaults
  BY DEF AssistantInvariant, Actor, RunDoc, At
<1>1. PICK t \in Turn : t = actor[g].turn
  BY <1>0, Working
<1>2. StoresSound' /\ StoresMove
  <2>1. CASE Fenced(doc, t, actor[g].attempt)
    <3> DEFINE e == [doc[t] EXCEPT !.status = "running"]
    <3>1. doc' = [doc EXCEPT ![t] = e]
      BY <1>1, <2>1 DEF RunDoc
    <3>2. doc[t] \in Entry /\ row[t] \in Entry /\ doc[t] # Absent /\ doc[t].status \in Active
          /\ Agreed(row[t], doc[t])
      BY <1>0, <2>1 DEF Fenced, StoresSound, Absent, Active
    <3>3. e \in Entry /\ e.attempt = doc[t].attempt /\ e.status \in Active
      BY <3>2, EntryFacts DEF Entry, Active
    <3>4. Agreed(row[t], e) /\ DocMoves(doc[t], e)
      <4>1. row[t].status \in Active /\ row[t].attempt = doc[t].attempt
        BY <3>2, AgreedFacts
      <4> HIDE DEF e
      <4> QED BY <3>2, <3>3, <4>1 DEF Agreed, DocMoves
    <3> HIDE DEF e
    <3> QED BY <1>0, <3>1, <3>3, <3>4, OneDocStep
  <2>2. CASE ~Fenced(doc, t, actor[g].attempt)
    BY <1>0, <1>1, <2>2, StoresStay DEF RunDoc
  <2> QED BY <2>1, <2>2
<1>3. Goes(g, "generate") \/ Goes(g, "repair")
  BY DEF RunDoc
<1>4. ActorsSound'
  BY <1>0, <1>2, <1>3, GoesSound DEF ActorStep, ExecutionStep
<1> QED BY <1>0, <1>2, <1>4, JobsStay DEF AssistantInvariant

LEMMA GenerateStep ==
  ASSUME AssistantInvariant, NEW g \in Generator, Generate(g)
  PROVE  AssistantInvariant' /\ StoresMove
<1>0. /\ StoresSound /\ ActorsSound /\ g \in Actor /\ actor[g].step = "generate"
      /\ UNCHANGED <<row, doc, turnJob, jobFailures, mishaps>> /\ mishaps \in 0..MaxAssistantFaults
  BY DEF AssistantInvariant, Actor, Generate, At
<1>1. PICK s \in {"succeed", "fail", "queue"}, then \in {"done", "fatal", "retry"} :
        actor' = [actor EXCEPT ![g].step = s, ![g].then = then]
  BY DEF Generate
<1> DEFINE x == [actor[g] EXCEPT !.step = s, !.then = then]
<1>2. /\ actor[g] \in ActorState /\ actor[g].turn \in Turn
      /\ actor[g].attempt <= row[actor[g].turn].attempt /\ BehindStores(actor[g].seen, row, doc)
  BY <1>0, Working
<1>3. /\ x \in ActorState /\ x.step = s /\ x.turn = actor[g].turn
      /\ x.attempt = actor[g].attempt /\ x.seen = actor[g].seen
  BY <1>2 DEF ActorState, ActorStep
<1>4. actor' = [actor EXCEPT ![g] = x]
  BY <1>0, <1>1 DEF ActorsSound
<1> HIDE DEF x
<1>5. SoundActor(g, x, row, doc)
  BY <1>0, <1>2, <1>3, AtWorkSound
<1> QED BY <1>0, <1>3, <1>4, <1>5, ActsAlone

LEMMA CheckRowStep ==
  ASSUME AssistantInvariant, NEW a \in Actor, CheckRow(a)
  PROVE  AssistantInvariant' /\ StoresMove
<1>0. /\ StoresSound /\ ActorsSound /\ JobsTyped /\ actor[a].step \in {"succeed", "fail", "queue"}
      /\ actor[a].step # "idle" /\ UNCHANGED <<row, doc, mishaps>>
      /\ mishaps \in 0..MaxAssistantFaults
  BY DEF AssistantInvariant, CheckRow
<1>1. PICK t \in Turn : t = actor[a].turn
  BY <1>0, Working
<1>2. CASE Ends(a)
  BY <1>0, <1>2, StoresStay, EndsSound DEF AssistantInvariant
<1>3. CASE ~Ends(a)
  <2>1. PICK s \in {"succeedDoc", "failing", "queueDoc"}, seen \in {NoTurns, Record(t, row)} :
          /\ actor' = [actor EXCEPT ![a].step = s, ![a].seen = seen]
          /\ s \in {"succeedDoc", "queueDoc"} => actor[a].step \in {"succeed", "queue"}
    BY <1>0, <1>1, <1>3 DEF CheckRow, At
  <2> DEFINE x == [actor[a] EXCEPT !.step = s, !.seen = seen]
  <2>2. /\ actor[a] \in ActorState /\ actor[a].turn \in Turn
        /\ actor[a].attempt <= row[actor[a].turn].attempt
        /\ (actor[a].step \in ExecutionStep => a \in Generator)
    BY <1>0, Working DEF SoundActor
  <2>3. seen \in [Turn -> Entry] /\ BehindStores(seen, row, doc)
    BY <1>0, AbsentIsEntry, NothingReadIsBehind, RecordIsBehind DEF StoresSound
  <2>4. /\ x \in ActorState /\ x.step = s /\ x.turn = actor[a].turn
        /\ x.attempt = actor[a].attempt /\ x.seen = seen
    BY <2>2, <2>3 DEF ActorState, ActorStep
  <2>5. actor' = [actor EXCEPT ![a] = x]
    BY <1>0, <2>1 DEF ActorsSound
  <2>6. s \in ExecutionStep => a \in Generator
    BY <2>1, <2>2 DEF ExecutionStep
  <2> HIDE DEF x
  <2>7. SoundActor(a, x, row, doc)
    BY <2>2, <2>3, <2>4, <2>6, AtWorkSound
  <2>8. UNCHANGED <<turnJob, jobFailures>>
    BY <1>3 DEF CheckRow
  <2> QED BY <1>0, <2>4, <2>5, <2>7, <2>8, ActsAlone
<1> QED BY <1>2, <1>3

\* What an end or another attempt makes of a turn that is not over.
LEMMA RewrittenEntry ==
  ASSUME NEW a \in Actor, NEW d \in Entry, d # Absent,
         actor[a].step \in {"succeedDoc", "failDoc", "queueDoc", "succeedRow", "failRow",
                            "queueRow"},
         actor[a].step \in ExecutionStep => a \in Generator
  PROVE  /\ Rewritten(a, d) \in Entry /\ Rewritten(a, d) # Absent
         /\ Rewritten(a, d).attempt = d.attempt
         /\ actor[a].step \in {"succeedDoc", "succeedRow"} =>
              Rewritten(a, d) = [status |-> "succeeded", attempt |-> d.attempt, result |-> a]
         /\ actor[a].step \in {"failDoc", "failRow"} =>
              Rewritten(a, d) = [status |-> "failed", attempt |-> d.attempt, result |-> "error"]
         /\ actor[a].step \in {"queueDoc", "queueRow"} => Rewritten(a, d).status \in Active
<1>0. d \in [status : Active \cup Ended, attempt : 1..MaxRetries,
             result : {"none", "error"} \cup Generator]
  BY EntryFacts
<1>1. CASE actor[a].step \in {"succeedDoc", "succeedRow"}
  <2>1. Rewritten(a, d) = [d EXCEPT !.status = "succeeded", !.result = a] /\ a \in Generator
    BY <1>1 DEF Rewritten, ExecutionStep
  <2>2. /\ Rewritten(a, d) \in Entry /\ Rewritten(a, d).status = "succeeded"
        /\ Rewritten(a, d).attempt = d.attempt /\ Rewritten(a, d).result = a
    BY <1>0, <2>1 DEF Entry, Active, Ended
  <2>3. Rewritten(a, d) # Absent
    BY <2>2 DEF Absent
  <2> QED BY <1>1, <2>2, <2>3, EntryIsItsColumns
<1>2. CASE actor[a].step \in {"failDoc", "failRow"}
  <2>1. Rewritten(a, d) = [d EXCEPT !.status = "failed", !.result = "error"]
    BY <1>2 DEF Rewritten
  <2>2. /\ Rewritten(a, d) \in Entry /\ Rewritten(a, d).status = "failed"
        /\ Rewritten(a, d).attempt = d.attempt /\ Rewritten(a, d).result = "error"
    BY <1>0, <2>1 DEF Entry, Active, Ended
  <2>3. Rewritten(a, d) # Absent
    BY <2>2 DEF Absent
  <2> QED BY <1>2, <2>2, <2>3, EntryIsItsColumns
<1>3. CASE actor[a].step \in {"queueDoc", "queueRow"}
  <2>1. Rewritten(a, d) = [d EXCEPT !.status = "queued"]
    BY <1>3 DEF Rewritten
  <2>2. /\ Rewritten(a, d) \in Entry /\ Rewritten(a, d).status = "queued"
        /\ Rewritten(a, d).attempt = d.attempt
    BY <1>0, <2>1 DEF Entry, Active, Ended
  <2> QED BY <1>3, <2>2 DEF Absent, Active
<1> QED BY <1>1, <1>2, <1>3

\* The document takes the end of an attempt it is at, once.
LEMMA WriteDocStep ==
  ASSUME AssistantInvariant, NEW a \in Actor, WriteDoc(a)
  PROVE  AssistantInvariant' /\ StoresMove
<1>0. /\ StoresSound /\ ActorsSound /\ JobsTyped /\ actor[a].step \in {"succeedDoc", "failDoc", "queueDoc"}
      /\ actor[a].step # "idle" /\ UNCHANGED <<row, turnJob, jobFailures, mishaps>>
      /\ mishaps \in 0..MaxAssistantFaults
  BY DEF AssistantInvariant, WriteDoc
<1>1. PICK t \in Turn, n \in 0..MaxRetries : t = actor[a].turn /\ n = actor[a].attempt
  BY <1>0, Working
<1>2. actor[a].step \in ExecutionStep => a \in Generator
  BY <1>0, Working DEF SoundActor
<1>3. row[t] \in Entry /\ doc[t] \in Entry /\ Agreed(row[t], doc[t])
  BY <1>0 DEF StoresSound
<1> DEFINE new == Rewritten(a, doc[t])
           wins == Fenced(doc, t, n)
           confirmed == doc[t].attempt = n /\ doc[t] = new
           next == CASE At(a, "succeedDoc") -> "succeedRow"
                     [] At(a, "failDoc")    -> "failRow"
                     [] At(a, "queueDoc")   -> "queueRow"
<1>4. /\ doc' = IF wins THEN [doc EXCEPT ![t] = new] ELSE doc
      /\ Goes(a, IF ~wins /\ ~confirmed THEN "repair" ELSE next)
  BY <1>1 DEF WriteDoc
<1>5. StoresSound' /\ StoresMove
  <2>1. CASE wins
    <3>1. doc[t] # Absent /\ doc[t].status \in Active
      BY <2>1 DEF Fenced, Absent, Active
    <3>2. /\ new \in Entry /\ new # Absent /\ new.attempt = doc[t].attempt
          /\ new.status \in Active \cup Ended
      BY <1>0, <1>2, <1>3, <3>1, RewrittenEntry, EntryFacts
    <3>3. Agreed(row[t], new) /\ DocMoves(doc[t], new)
      <4>1. row[t].status \in Active /\ row[t].attempt = doc[t].attempt
        BY <1>3, <3>1, AgreedFacts
      <4> HIDE DEF new
      <4> QED BY <3>1, <3>2, <4>1 DEF Agreed, DocMoves
    <3>4. doc' = [doc EXCEPT ![t] = new]
      BY <1>4, <2>1
    <3> HIDE DEF new, wins
    <3> QED BY <1>0, <3>2, <3>3, <3>4, OneDocStep
  <2>2. CASE ~wins
    BY <1>0, <1>4, <2>2, StoresStay
  <2> QED BY <2>1, <2>2
<1>6. ASSUME wins \/ confirmed PROVE doc'[t] = new /\ doc[t] # Absent /\ doc[t].attempt = n
  <2>1. doc[t] # Absent
    <3>1. CASE wins
      BY <3>1 DEF Fenced, Absent, Active
    <3>2. CASE confirmed /\ doc[t] = Absent
      <4>1. new = Absent
        BY <3>2
      <4>2. new.status \in {"succeeded", "failed", "queued"}
        BY <1>0, <3>2 DEF Rewritten, Absent
      <4> QED BY <4>1, <4>2 DEF Absent
    <3> QED BY <1>6, <3>1, <3>2
  <2> QED BY <1>0, <1>3, <1>4, <1>6, <2>1 DEF StoresSound, Fenced
<1>7. ActorsSound'
  <2>1. CASE ~wins /\ ~confirmed
    <3>1. Goes(a, "repair")
      BY <1>4, <2>1
    <3> HIDE DEF new, wins, confirmed, next
    <3> QED BY <1>0, <1>5, <3>1, GoesSound DEF ActorStep, ExecutionStep
  <2>2. CASE wins \/ confirmed
    <3>1. Goes(a, next)
      BY <1>4, <2>2
    <3>2. /\ next \in {"succeedRow", "failRow", "queueRow"}
          /\ next = "succeedRow" => actor[a].step = "succeedDoc"
          /\ next = "failRow" => actor[a].step = "failDoc"
          /\ next = "queueRow" => actor[a].step = "queueDoc"
      BY <1>0 DEF At
    <3>3. doc'[t] = new /\ doc[t] # Absent /\ doc[t].attempt = n
      BY <1>6, <2>2
    <3>4. next = "succeedRow" => doc'[t] = [status |-> "succeeded", attempt |-> n, result |-> a]
      BY <1>0, <1>2, <1>3, <3>2, <3>3, RewrittenEntry
    <3>5. next = "failRow" => doc'[t] = [status |-> "failed", attempt |-> n, result |-> "error"]
      BY <1>0, <1>2, <1>3, <3>2, <3>3, RewrittenEntry
    <3>6. next \in ExecutionStep => a \in Generator
      BY <1>2, <3>2 DEF ExecutionStep
    <3>7. next \in ActorStep /\ next # "idle"
      BY <3>2 DEF ActorStep
    <3> HIDE DEF next, new, wins, confirmed
    <3> QED BY <1>0, <1>1, <1>5, <3>1, <3>4, <3>5, <3>6, <3>7, GoesSound
  <2> QED BY <2>1, <2>2
<1> QED BY <1>0, <1>5, <1>7, JobsStay DEF AssistantInvariant

\* The row takes the end the document has, unless a retry is ahead of it.
LEMMA WriteRowStep ==
  ASSUME AssistantInvariant, NEW a \in Actor, WriteRow(a)
  PROVE  AssistantInvariant' /\ StoresMove
<1>0. /\ StoresSound /\ ActorsSound /\ JobsTyped /\ actor[a].step \in {"succeedRow", "failRow", "queueRow"}
      /\ actor[a].step # "idle" /\ UNCHANGED <<doc, mishaps>> /\ mishaps \in 0..MaxAssistantFaults
  BY DEF AssistantInvariant, WriteRow
<1>1. PICK t \in Turn, n \in 0..MaxRetries : t = actor[a].turn /\ n = actor[a].attempt
  BY <1>0, Working
<1>2. StoresSound' /\ StoresMove
  <2>1. CASE ~Fenced(row, t, n)
    BY <1>0, <1>1, <2>1, StoresStay DEF WriteRow
  <2>2. CASE Fenced(row, t, n)
    <3> DEFINE e == Rewritten(a, row[t])
    <3>1. row' = [row EXCEPT ![t] = e]
      BY <1>1, <2>2 DEF WriteRow
    <3>2. row[t] \in Entry /\ doc[t] \in Entry /\ Agreed(row[t], doc[t]) /\ row[t] # Absent
          /\ row[t].status \in Active /\ row[t].attempt = n
      BY <1>0, <2>2 DEF StoresSound, Fenced, Absent, Active
    <3>3. /\ (actor[a].step \in ExecutionStep => a \in Generator)
          /\ actor[a].step = "succeedRow" =>
               doc[t] = [status |-> "succeeded", attempt |-> n, result |-> a]
          /\ actor[a].step = "failRow" =>
               \/ doc[t] = [status |-> "failed", attempt |-> n, result |-> "error"]
               \/ doc[t].attempt > n
      BY <1>0, <1>1, Working DEF SoundActor
    <3>4. ~(doc[t].attempt > n)
      <4>1. doc[t].attempt <= row[t].attempt /\ doc[t].attempt \in Nat /\ n \in Nat
        BY <1>1, <3>2, AgreedFacts, EntryFacts, AssistantAssumption
      <4> QED BY <3>2, <4>1
    <3>5. /\ e \in Entry /\ e.attempt = row[t].attempt
          /\ e.status \in Active \/ e = doc[t]
      BY <1>0, <3>2, <3>3, <3>4, RewrittenEntry
    <3> HIDE DEF e
    <3> QED BY <1>0, <3>1, <3>2, <3>5, ActiveRowStep
  <2> QED BY <2>1, <2>2
<1>3. ActorsSound' /\ JobsTyped'
  BY <1>0, <1>2, EndsSound DEF WriteRow
<1> QED BY <1>0, <1>2, <1>3 DEF AssistantInvariant

-----------------------------------------------------------------------------
(* Recovery and faults.                                                    *)

LEMMA RecoverTurnStep ==
  ASSUME AssistantInvariant, NEW t \in Turn, RecoverTurn(t)
  PROVE  AssistantInvariant' /\ StoresMove
<1>0. StoresSound /\ "recovery" \in Actor /\ mishaps \in 0..MaxAssistantFaults
  BY DEF AssistantInvariant, Actor
<1> DEFINE x == [AtRest EXCEPT !.step = "fail", !.turn = t, !.attempt = row[t].attempt]
<1>1. actor' = [actor EXCEPT !["recovery"] = x] /\ UNCHANGED <<row, doc, turnJob, jobFailures, mishaps>>
  BY DEF RecoverTurn
<1>2. row[t].attempt \in 0..MaxRetries /\ row[t].attempt <= row[t].attempt
  BY <1>0, EntryFacts DEF StoresSound
<1>3. x \in ActorState /\ SoundActor("recovery", x, row, doc)
  BY <1>0, <1>2, FailSound
<1> HIDE DEF x
<1> QED BY <1>0, <1>1, <1>3, ActsAlone

LEMMA FaultStep ==
  ASSUME AssistantInvariant, NEW a \in Actor, StoreFails(a) \/ Dies(a) \/ LosesTurnJob(a)
  PROVE  AssistantInvariant' /\ StoresMove
<1>0. /\ StoresSound /\ ActorsSound /\ JobsTyped /\ UNCHANGED <<row, doc>>
      /\ mishaps' \in 0..MaxAssistantFaults
  BY MishapCounted DEF AssistantInvariant, StoreFails, Dies, LosesTurnJob
<1>1. CASE StoreFails(a)
  <2>1. actor[a].step # "idle" /\ Throws(a)
    BY <1>1 DEF StoreFails
  <2>2. StoresSound' /\ StoresMove
    BY <1>0, StoresStay
  <2> QED BY <1>0, <2>1, <2>2, ThrowsSound DEF AssistantInvariant
<1>2. CASE Dies(a)
  BY <1>0, <1>2, ActsAlone, AtRestSound DEF Dies
<1>3. CASE LosesTurnJob(a)
  <2> DEFINE x == [actor[a] EXCEPT !.owns = FALSE]
  <2>1. actor' = [actor EXCEPT ![a] = x] /\ UNCHANGED <<turnJob, jobFailures>>
    BY <1>3 DEF LosesTurnJob
  <2>2. actor[a] \in ActorState /\ SoundActor(a, actor[a], row, doc)
    BY <1>0 DEF ActorsSound
  <2>3. x \in ActorState
    BY <2>2 DEF ActorState
  <2>4. /\ x.step = actor[a].step /\ x.turn = actor[a].turn
        /\ x.attempt = actor[a].attempt /\ x.seen = actor[a].seen
    BY <2>2 DEF ActorState
  <2>5. ~x.owns
    BY <2>2 DEF ActorState
  <2> HIDE DEF x
  <2>6. SoundActor(a, x, row, doc)
    BY <2>2, <2>4, <2>5 DEF SoundActor
  <2> QED BY <1>0, <2>1, <2>3, <2>6, ActsAlone
<1> QED BY <1>1, <1>2, <1>3

LEMMA StalledTurnStep ==
  ASSUME AssistantInvariant, NEW t \in Turn, StalledTurn(t)
  PROVE  AssistantInvariant' /\ StoresMove
<1>0. /\ StoresSound /\ ActorsSound /\ JobsTyped /\ UNCHANGED <<row, doc, jobFailures, mishaps>>
      /\ mishaps \in 0..MaxAssistantFaults
  BY DEF AssistantInvariant, StalledTurn
<1>1. StoresSound' /\ StoresMove
  BY <1>0, StoresStay
<1>2. JobsTyped'
  <2>1. \E s \in {"queued", "failed"} : turnJob' = [turnJob EXCEPT ![t] = s]
    BY DEF StalledTurn
  <2> QED BY <1>0, <2>1, JobMoves
<1>3. ActorsSound'
  <2>1. CASE UNCHANGED actor
    BY <1>0, <1>1, <2>1, NobodyActs
  <2>2. ASSUME NEW g \in Generator,
               actor' = [actor EXCEPT ![g] = [AtRest EXCEPT !.step = "fail", !.turn = t,
                                                            !.attempt = row[t].attempt]]
        PROVE  ActorsSound'
    <3> DEFINE x == [AtRest EXCEPT !.step = "fail", !.turn = t, !.attempt = row[t].attempt]
    <3>1. row[t].attempt \in 0..MaxRetries /\ row[t].attempt <= row[t].attempt /\ g \in Actor
      BY <1>0, EntryFacts DEF StoresSound, Actor
    <3>2. x \in ActorState /\ SoundActor(g, x, row, doc)
      BY <3>1, FailSound
    <3>3. actor' = [actor EXCEPT ![g] = x]
      BY <2>2
    <3> HIDE DEF x
    <3> QED BY <1>0, <1>1, <3>1, <3>2, <3>3, OneActs
  <2> QED BY <2>1, <2>2 DEF StalledTurn
<1> QED BY <1>0, <1>1, <1>2, <1>3 DEF AssistantInvariant

-----------------------------------------------------------------------------
(* The theorems.                                                           *)

LEMMA AssistantStarts == AssistantInit => AssistantInvariant
<1> SUFFICES ASSUME AssistantInit PROVE AssistantInvariant
  OBVIOUS
<1>1. StoresSound
  BY AbsentIsEntry DEF AssistantInit, StoresSound, NoTurns, Agreed, RowsInOrder
<1>2. ActorsSound
  BY AtRestSound DEF AssistantInit, ActorsSound
<1>3. JobsTyped /\ mishaps \in 0..MaxAssistantFaults
  BY AssistantAssumption DEF AssistantInit, JobsTyped
<1> QED BY <1>1, <1>2, <1>3 DEF AssistantInvariant

LEMMA AssistantSteps ==
  AssistantInvariant /\ [AssistantNext]_assistantVars => AssistantInvariant' /\ StoresMove
<1> SUFFICES ASSUME AssistantInvariant, [AssistantNext]_assistantVars
             PROVE  AssistantInvariant' /\ StoresMove
  OBVIOUS
<1>1. ASSUME NEW b \in Browser, NEW t \in Turn, Post(b, t) \/ View(b, t) \/ RetryLook(b, t)
      PROVE  AssistantInvariant' /\ StoresMove
  BY <1>1, PostStep, ViewStep, RetryLookStep
<1>2. ASSUME NEW b \in Browser, RetryRow(b) \/ RetryDoc(b) \/ Enqueue(b) \/ EnqueueFails(b)
      PROVE  AssistantInvariant' /\ StoresMove
  BY <1>2, RetryRowStep, RetryDocStep, EnqueueStep
<1>3. ASSUME NEW g \in Generator, (\E t \in Turn : Take(g, t)) \/ Executes(g) \/ LosesTurnJob(g)
      PROVE  AssistantInvariant' /\ StoresMove
  BY <1>3, TakeStep, RunRowStep, RunDocStep, GenerateStep, FaultStep DEF Executes, Actor
<1>4. ASSUME NEW a \in Actor, Acts(a) \/ StoreFails(a) \/ Dies(a)
      PROVE  AssistantInvariant' /\ StoresMove
  BY <1>4, MaterializeStep, RepairStep, CheckRowStep, WriteDocStep, WriteRowStep, FaultStep DEF Acts
<1>5. ASSUME NEW t \in Turn, RecoverTurn(t) \/ StalledTurn(t)
      PROVE  AssistantInvariant' /\ StoresMove
  BY <1>5, RecoverTurnStep, StalledTurnStep
<1>6. CASE UNCHANGED assistantVars
  <2>1. UNCHANGED <<row, doc, turnJob, jobFailures, actor, mishaps>>
    BY <1>6 DEF assistantVars
  <2>2. StoresSound' /\ StoresMove
    BY <2>1, StoresStay DEF AssistantInvariant
  <2> QED BY <2>1, <2>2, NobodyActs, JobsStay DEF AssistantInvariant
<1> QED BY <1>1, <1>2, <1>3, <1>4, <1>5, <1>6 DEF AssistantNext

\* Every state of the assistant, with any requests and faults, satisfies the inductive
\* invariant: rows and documents agree, and no actor holds more than it may believe.
THEOREM AssistantInvariantHolds == AssistantSpec => []AssistantInvariant
<1>1. AssistantInvariant /\ [AssistantNext]_assistantVars => AssistantInvariant'
  BY AssistantSteps
<1> QED BY <1>1, AssistantStarts, PTL DEF AssistantSpec

LEMMA TypedWhileSound == AssistantInvariant => AssistantTypeOK
<1> SUFFICES ASSUME AssistantInvariant PROVE AssistantTypeOK
  OBVIOUS
<1>1. Entry \subseteq TurnState
  <2> SUFFICES ASSUME NEW e \in Entry PROVE e \in TurnState
    OBVIOUS
  <2>1. CASE e = Absent
    BY <2>1, AssistantAssumption DEF Absent, TurnState
  <2>2. CASE e # Absent
    BY <2>2, EntryFacts, AssistantAssumption DEF TurnState
  <2> QED BY <2>1, <2>2
<1>2. row \in [Turn -> TurnState] /\ doc \in [Turn -> TurnState]
  BY <1>1 DEF AssistantInvariant, StoresSound
<1>3. ASSUME NEW a \in Actor
      PROVE  actor[a] \in [step : ActorStep, turn : 0..MaxTurns, attempt : 0..MaxRetries,
                           seen : [Turn -> TurnState], then : {"done", "fatal", "retry"},
                           owns : BOOLEAN]
  <2>1. actor[a] \in ActorState
    BY DEF AssistantInvariant, ActorsSound
  <2>2. actor[a].seen \in [Turn -> TurnState]
    BY <1>1, <2>1 DEF ActorState
  <2> QED BY <2>1, <2>2 DEF ActorState
<1>4. actor \in [Actor -> [step : ActorStep, turn : 0..MaxTurns, attempt : 0..MaxRetries,
                           seen : [Turn -> TurnState], then : {"done", "fatal", "retry"},
                           owns : BOOLEAN]]
  BY <1>3 DEF AssistantInvariant, ActorsSound
<1> QED BY <1>2, <1>4 DEF AssistantInvariant, JobsTyped, AssistantTypeOK, ActorStep

\* Every variable of the assistant keeps its type.
THEOREM AssistantTyped == AssistantSpec => []AssistantTypeOK
BY AssistantInvariantHolds, TypedWhileSound, PTL

\* The rows and the document tell readers and workers the same thread, for any number of
\* requests and executions at once, and whatever is lost between the two stores.
THEOREM StoresTellTheSame == AssistantSpec => []StoresAgree
<1>1. AssistantInvariant => StoresAgree
  <2> SUFFICES ASSUME AssistantInvariant PROVE StoresAgree
    OBVIOUS
  <2>1. \A t \in Turn : row[t] \in Entry /\ doc[t] \in Entry /\ Agreed(row[t], doc[t])
    BY DEF AssistantInvariant, StoresSound
  <2>2. RowFollowsDocument
    <3> SUFFICES ASSUME NEW t \in Turn
                 PROVE  /\ row[t].status \in Ended => doc[t] = row[t]
                        /\ doc[t] # Absent =>
                             \/ doc[t].attempt = row[t].attempt
                             \/ /\ doc[t].attempt + 1 = row[t].attempt
                                /\ doc[t].status = "failed" /\ row[t].status \in Active
      BY DEF RowFollowsDocument
    <3>1. row[t].attempt \in Nat /\ doc[t].attempt \in Nat
      BY <2>1, EntryFacts
    <3> QED BY <2>1, <3>1, AgreedFacts DEF Agreed
  <2>3. OneActiveTurn
    <3> SUFFICES ASSUME NEW t \in Turn, NEW u \in Turn, t < u, doc[u].status # "absent"
                 PROVE  doc[t].status \in Ended
      BY DEF OneActiveTurn
    <3>1. row[u] # Absent
      BY <2>1, AgreedFacts DEF Absent
    <3>2. t \in 1..(u - 1)
      BY AssistantAssumption DEF Turn
    <3>3. row[t].status \in Ended
      BY <3>1, <3>2 DEF AssistantInvariant, StoresSound, RowsInOrder
    <3> QED BY <2>1, <3>3, AgreedFacts
  <2> QED BY <2>2, <2>3 DEF StoresAgree
<1> QED BY <1>1, AssistantInvariantHolds, PTL

\* What a reader has seen the end of stays, but for a retry of a failure, whoever was
\* still working on the turn.
THEOREM EndsStayFinal == AssistantSpec => EndsAreFinal
<1>1. AssistantInvariant /\ [AssistantNext]_assistantVars =>
        \A t \in Turn :
          /\ doc[t].status = "succeeded" => doc'[t] = doc[t]
          /\ doc[t].status = "failed" =>
               doc'[t] = doc[t] \/ doc'[t] = Prepared(doc[t].attempt + 1)
  <2> SUFFICES ASSUME AssistantInvariant, [AssistantNext]_assistantVars, NEW t \in Turn
               PROVE  /\ doc[t].status = "succeeded" => doc'[t] = doc[t]
                      /\ doc[t].status = "failed" =>
                           doc'[t] = doc[t] \/ doc'[t] = Prepared(doc[t].attempt + 1)
    OBVIOUS
  <2>1. DocMoves(doc[t], doc'[t])
    BY AssistantSteps DEF StoresMove
  <2> QED BY <2>1 DEF DocMoves, Absent, Active
<1> QED BY <1>1, AssistantInvariantHolds, PTL DEF AssistantSpec, EndsAreFinal
=============================================================================
