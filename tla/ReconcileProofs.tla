--------------------------- MODULE ReconcileProofs ---------------------------
(***************************************************************************)
(* The durable work of a conversation, for any number of workers, any      *)
(* delays and any number of messages, interventions and faults: what was   *)
(* said has a due time, is read once, and is never overtaken by a reminder *)
(* or an expiry.                                                           *)
(***************************************************************************)
EXTENDS Reconcile, TLAPS

\* What a worker carries agrees with where it is: it looks again only to remind
\* or to expire, and reminds of a rung of the ladder.
StepsAgree ==
  \A w \in Worker :
    /\ wk[w].pc = "look" => wk[w].todo \in {"remind", "expire"}
    /\ wk[w].pc = "remind" => wk[w].rung <= MaxReminders

\* What is unread was not read: a message that arrives starts the count again.
UnreadIsUncounted == unread => readings = 0

\* The worker that holds the fence, on its way to the model or back, is the only
\* one that can read what it is to read.
HolderHasUnread ==
  \A w \in Worker :
    wk[w].pc \in {"entry", "commit"} /\ Current(w) => unread

\* Between the plan and the transaction of a reminder, a message that arrives
\* shows in the silence or in `heard`.
ReminderIsEarned ==
  \A w \in Worker :
    /\ wk[w].pc = "look" /\ wk[w].todo = "remind" => ~unread \/ silence <= 1
    /\ wk[w].pc = "remind" /\ ~wk[w].heard =>
         ~unread /\ silence >= wk[w].rung * RemindEvery

\* What an expiry may leave unread.
Lapsed == unread => ~consent \/ parked = ParkMax

\* The same of an expiry, which asks for the whole silence when it commits.
ExpiryIsEarned ==
  \A w \in Worker :
    (wk[w].pc = "expire" \/ (wk[w].pc = "look" /\ wk[w].todo = "expire"))
      => silence <= 1 \/ Lapsed

-----------------------------------------------------------------------------
(* What the planner returns.                                               *)

LEMMA LeastMost ==
  ASSUME NEW a \in Int, NEW b \in Int
  PROVE  /\ Least(a, b) \in {a, b} /\ Least(a, b) <= a /\ Least(a, b) <= b
         /\ Most(a, b) \in {a, b} /\ Most(a, b) >= a /\ Most(a, b) >= b
BY DEF Least, Most

\* The ladder is measured in whole numbers.
LEMMA RungType ==
  ASSUME TypeOK
  PROVE  Rung \in Nat /\ Rung * RemindEvery \in Nat
BY ReconcileAssumption DEF TypeOK, ConvTypes, Rung

\* A plan is idle only when the bot may not act; any other has a due time.  A
\* reminder is planned only when nothing is unread, an expiry when what is unread
\* may lapse.
LEMMA PlanShape ==
  ASSUME TypeOK
  PROVE  /\ Plan.do \in {"idle", "wait", "extract", "remind", "expire"}
         /\ Plan.do = "idle" => ~BotTalks \/ campaign # "launched"
         /\ Plan.do # "idle" => Plan.in \in Nat
         /\ Plan.do = "remind" => ~unread
         /\ Plan.do = "expire" => Lapsed
<1>1. /\ silence \in 0..ExpireAfter /\ touched \in 0..ParkRetry
      /\ parked \in {Never} \cup 0..ParkMax
  BY DEF TypeOK, ClockTypes
<1>2. due \in {Never} \cup Nat
  BY DEF TypeOK, WorkTypes
<1>3. RetryIn \in Int
  BY <1>1, <1>2, ReconcileAssumption DEF RetryIn, Most, Never
<1>4. ASSUME unread, parked = Never \/ Retriable
      PROVE  /\ PlanReading.do \in {"wait", "extract"}
             /\ PlanReading.in \in Nat
  BY <1>1, <1>3, ReconcileAssumption DEF PlanReading, Wait, Do
<1>5. ASSUME unread => parked = ParkMax
      PROVE  /\ PlanSilence.do \in {"wait", "remind", "expire"}
             /\ PlanSilence.in \in Nat
             /\ PlanSilence.do = "remind" => ~unread
  <2>1. Least(Rung * RemindEvery, ExpireAfter) \in {Rung * RemindEvery, ExpireAfter}
    BY RungType, ReconcileAssumption, LeastMost
  <2> QED
    BY <1>1, <1>5, <2>1, RungType, ReconcileAssumption DEF PlanSilence, Wait, Do, Never
<1>6. ~(unread /\ (parked = Never \/ Retriable)) => (unread => parked = ParkMax)
  BY <1>1, ReconcileAssumption DEF Retriable
<1> QED
  BY <1>1, <1>4, <1>5, <1>6, ReconcileAssumption DEF Plan, Wait, Do, Lapsed
-----------------------------------------------------------------------------
(* Types.                                                                  *)

WorkerState == [pc : Pcs, fresh : BOOLEAN, held : BOOLEAN, heard : BOOLEAN,
                todo : Todos, rung : Nat]

LEMMA Typed ==
  ASSUME TypeOK
  PROVE  /\ ConvTypes /\ ClockTypes /\ WorldTypes /\ WorkTypes
         /\ wk \in [Worker -> WorkerState]
BY DEF TypeOK, WorkTypes, WorkerState

\* One worker goes on; or the revision of all moves on.
LEMMA OneWorker ==
  ASSUME NEW f \in [Worker -> WorkerState], NEW w \in Worker, NEW next \in WorkerState
  PROVE  [f EXCEPT ![w] = next] \in [Worker -> WorkerState]
OBVIOUS

LEMMA NextStep ==
  ASSUME NEW state \in WorkerState, NEW pc \in Pcs, NEW todo \in Todos
  PROVE  /\ [state EXCEPT !.pc = pc] \in WorkerState
         /\ [state EXCEPT !.pc = pc, !.todo = todo] \in WorkerState
         /\ [state EXCEPT !.pc = pc, !.heard = FALSE] \in WorkerState
         /\ [state EXCEPT !.held = FALSE] \in WorkerState
BY DEF WorkerState

LEMMA OutdatedTyped ==
  ASSUME NEW f \in [Worker -> WorkerState]
  PROVE  /\ Outdated(f) \in [Worker -> WorkerState]
         /\ \A v \in Worker : /\ Outdated(f)[v].pc = f[v].pc /\ Outdated(f)[v].todo = f[v].todo
                              /\ Outdated(f)[v].rung = f[v].rung
                              /\ Outdated(f)[v].heard = f[v].heard
BY DEF WorkerState, Outdated

\* Nobody but w moves on, whatever becomes of the revision.
OthersStay(w) ==
  \A v \in Worker \ {w} :
    /\ wk'[v].pc = wk[v].pc /\ wk'[v].todo = wk[v].todo
    /\ wk'[v].rung = wk[v].rung /\ wk'[v].heard = wk[v].heard

LEMMA Moves ==
  ASSUME wk \in [Worker -> WorkerState], NEW w \in Worker,
         NEW f \in [Worker -> WorkerState], f \in {wk, Outdated(wk)},
         NEW pc \in Pcs, NEW todo \in Todos,
         wk' = [f EXCEPT ![w] = [f[w] EXCEPT !.pc = pc, !.todo = todo]]
  PROVE  /\ wk' \in [Worker -> WorkerState]
         /\ OthersStay(w)
         /\ wk'[w].pc = pc
<1>1. [f[w] EXCEPT !.pc = pc, !.todo = todo] \in WorkerState
  BY NextStep
<1>2. \A v \in Worker : /\ f[v].pc = wk[v].pc /\ f[v].todo = wk[v].todo
                        /\ f[v].rung = wk[v].rung /\ f[v].heard = wk[v].heard
  BY OutdatedTyped
<1> QED
  BY <1>1, <1>2, OneWorker DEF OthersStay, WorkerState

LEMMA EntryEffect ==
  ASSUME TypeOK, NEW w \in Worker, ProviderEntry(w)
  PROVE  /\ wk' \in [Worker -> WorkerState]
         /\ OthersStay(w)
         /\ wk'[w].pc \in {"release", "commit"}
<1>0. wk \in [Worker -> WorkerState]
  BY Typed
<1>1. \/ wk' = [wk EXCEPT ![w] = [wk[w] EXCEPT !.pc = "release", !.todo = "lost"]]
      \/ wk' = [wk EXCEPT ![w] = [wk[w] EXCEPT !.pc = "release", !.todo = "superseded"]]
      \/ wk' = [wk EXCEPT ![w] = [wk[w] EXCEPT !.pc = "commit", !.todo = wk[w].todo]]
  BY <1>0 DEF ProviderEntry, WorkerState
<1>2. {"release", "commit"} \subseteq Pcs /\ {"lost", "superseded", wk[w].todo} \subseteq Todos
  BY <1>0 DEF WorkerState, Pcs, Todos
<1>3. CASE wk' = [wk EXCEPT ![w] = [wk[w] EXCEPT !.pc = "release", !.todo = "lost"]]
  BY <1>0, <1>2, <1>3, Moves
<1>4. CASE wk' = [wk EXCEPT ![w] = [wk[w] EXCEPT !.pc = "release", !.todo = "superseded"]]
  BY <1>0, <1>2, <1>4, Moves
<1>5. CASE wk' = [wk EXCEPT ![w] = [wk[w] EXCEPT !.pc = "commit", !.todo = wk[w].todo]]
  BY <1>0, <1>2, <1>5, Moves
<1> QED
  BY <1>1, <1>3, <1>4, <1>5

LEMMA FailureEffect ==
  ASSUME TypeOK, NEW w \in Worker, ModelFails(w)
  PROVE  wk' \in [Worker -> WorkerState] /\ OthersStay(w) /\ wk'[w].pc = "release"
<1>0. wk \in [Worker -> WorkerState]
  BY Typed
<1>1. PICK todo \in {"lost", "park", "handover"} :
        wk' = [wk EXCEPT ![w].pc = "release", ![w].todo = todo]
  BY DEF ModelFails
<1>2. wk' = [wk EXCEPT ![w] = [wk[w] EXCEPT !.pc = "release", !.todo = todo]]
  BY <1>0, <1>1
<1>3. "release" \in Pcs /\ todo \in Todos
  BY <1>1 DEF Pcs, Todos
<1> QED
  BY <1>0, <1>2, <1>3, Moves

\* A commit reads everything there is to read, under the claim, or nothing.
Reads(w) ==
  /\ Current(w)
  /\ unread' = FALSE /\ readings' = readings + 1 /\ parked' = Never /\ touched' = 0
  /\ flagged' \in BOOLEAN /\ awaiting' \in BOOLEAN
  /\ life' \in {life, "answered"}
  /\ UNCHANGED <<mode, reminders>>

LEMMA CommitEffect ==
  ASSUME TypeOK, NEW w \in Worker, Commit(w)
  PROVE  /\ wk' \in [Worker -> WorkerState]
         /\ OthersStay(w)
         /\ wk'[w].pc \in {"settle", "release"}
         /\ Reads(w) \/ UNCHANGED <<convVars, readVars, touched>>
<1>0. wk \in [Worker -> WorkerState]
  BY Typed
<1>1. CASE ~Current(w)
  <2>1. wk' = [wk EXCEPT ![w] = [wk[w] EXCEPT !.pc = "release", !.todo = "lost"]]
    BY <1>0, <1>1 DEF Commit
  <2>2. "release" \in Pcs /\ "lost" \in Todos
    BY DEF Pcs, Todos
  <2>3. UNCHANGED <<convVars, readVars, touched>>
    BY <1>1 DEF Commit
  <2> QED
    BY <1>0, <2>1, <2>2, <2>3, Moves
<1>2. CASE Current(w) /\ full /\ UNCHANGED <<convVars, readVars, touched>>
           /\ wk' = [wk EXCEPT ![w].pc = "release", ![w].todo = "lost"]
  <2>1. wk' = [wk EXCEPT ![w] = [wk[w] EXCEPT !.pc = "release", !.todo = "lost"]]
    BY <1>0, <1>2
  <2>2. "release" \in Pcs /\ "lost" \in Todos
    BY DEF Pcs, Todos
  <2>3. wk' \in [Worker -> WorkerState] /\ OthersStay(w) /\ wk'[w].pc = "release"
    BY <1>0, <2>1, <2>2, Moves
  <2> QED
    BY <1>2, <2>3
<1>3. CASE Current(w) /\ Goto(w, "settle")
  <2>1. wk' = [wk EXCEPT ![w] = [wk[w] EXCEPT !.pc = "settle", !.todo = wk[w].todo]]
    BY <1>0, <1>3 DEF Goto, WorkerState
  <2>2. "settle" \in Pcs /\ wk[w].todo \in Todos
    BY <1>0 DEF Pcs, WorkerState
  <2>3. flagged \in BOOLEAN /\ awaiting \in BOOLEAN
    BY Typed DEF ConvTypes
  <2>4. Reads(w) \/ UNCHANGED <<convVars, readVars, touched>>
    BY <1>3, <2>3 DEF Commit, Reads
  <2> QED
    BY <1>0, <2>1, <2>2, <2>4, Moves
<1> QED
  BY <1>1, <1>2, <1>3 DEF Commit

\* A settlement leaves the due time, or plans it again.
LEMMA SettleEffect ==
  ASSUME TypeOK, NEW w \in Worker, Settle(w)
  PROVE  /\ wk' \in [Worker -> WorkerState]
         /\ OthersStay(w)
         /\ wk'[w].pc = "release"
         /\ touched' \in {touched, 0}
         /\ job' \in {job, "none", "waiting"}
         /\ \/ due' = due
            \/ due' = Never /\ (~BotTalks \/ campaign # "launched")
            \/ due' \in Nat
<1>0. wk \in [Worker -> WorkerState] /\ Outdated(wk) \in [Worker -> WorkerState]
  BY Typed, OutdatedTyped
<1>1. {"release"} \subseteq Pcs /\ {"lost", "superseded", "settled"} \subseteq Todos
  BY DEF Pcs, Todos
<1>2. CASE ~Current(w)
  <2>1. wk' = [wk EXCEPT ![w] = [wk[w] EXCEPT !.pc = "release", !.todo = "lost"]]
    BY <1>0, <1>2 DEF Settle
  <2>2. UNCHANGED <<due, job, touched>>
    BY <1>2 DEF Settle, workVars
  <2> QED
    BY <1>0, <1>1, <2>1, <2>2, Moves
<1>3. CASE Current(w) /\ ~wk[w].fresh
  <2>1. wk' = [wk EXCEPT ![w] = [wk[w] EXCEPT !.pc = "release", !.todo = "superseded"]]
    BY <1>0, <1>3 DEF Settle
  <2>2. UNCHANGED <<due, job, touched>>
    BY <1>3 DEF Settle, workVars
  <2> QED
    BY <1>0, <1>1, <2>1, <2>2, Moves
<1>4. CASE Current(w) /\ wk[w].fresh /\ Plan.do = "idle"
  <2>1. wk' = [wk EXCEPT ![w] = [wk[w] EXCEPT !.pc = "release", !.todo = "settled"]]
    BY <1>0, <1>4 DEF Settle
  <2>2. due' = Never /\ touched' = 0 /\ job' = job
    BY <1>4 DEF Settle
  <2>3. ~BotTalks \/ campaign # "launched"
    BY <1>4, PlanShape
  <2> QED
    BY <1>0, <1>1, <2>1, <2>2, <2>3, Moves
<1>5. CASE Current(w) /\ wk[w].fresh /\ Plan.do # "idle"
  <2>1. wk' = [Outdated(wk) EXCEPT ![w] =
                 [Outdated(wk)[w] EXCEPT !.pc = "release", !.todo = "settled"]]
    BY <1>0, <1>5 DEF Settle
  <2>2. due' = Plan.in /\ touched' = 0 /\ job' \in {"none", "waiting"}
    BY <1>5 DEF Settle, NewRevision
  <2>3. due' \in Nat
    BY <1>5, <2>2, PlanShape
  <2> QED
    BY <1>0, <1>1, <2>1, <2>2, <2>3, Moves
<1> QED
  BY <1>2, <1>3, <1>4, <1>5

\* A message that reaches an open conversation is work, is new to everybody, and ends
\* the silence; one that comes too late changes nothing.
Delivers ==
  /\ life = "open" /\ unread' = TRUE /\ readings' = 0
  /\ silence' \in 0..1 /\ silence' <= silence
  /\ touched' \in 0..1
  /\ due' \in Nat /\ job' \in {"none", "waiting"}
  /\ \A v \in Worker : /\ wk'[v].pc = wk[v].pc /\ wk'[v].todo = wk[v].todo
                       /\ wk'[v].rung = wk[v].rung /\ wk'[v].heard = TRUE

LEMMA MaterializeEffect ==
  ASSUME TypeOK, Materialize
  PROVE  /\ wk' \in [Worker -> WorkerState]
         /\ \/ Delivers
            \/ life # "open" /\ UNCHANGED <<unread, readings, clockVars, workVars, wk>>
<1>0. wk \in [Worker -> WorkerState] /\ silence \in Nat /\ touched \in Nat
  BY Typed, ReconcileAssumption DEF ClockTypes
<1>1. CASE life = "open"
  <2>1. PICK age \in 0..1 : /\ silence' = Least(silence, age)
                            /\ touched' = Least(touched, age)
                            /\ NewRevision(Most(Quiet - age, 0))
    BY <1>1 DEF Materialize
  <2>2. silence' \in 0..1 /\ silence' <= silence /\ touched' \in 0..1
    BY <1>0, <2>1 DEF Least
  <2>3. due' \in Nat /\ job' \in {"none", "waiting"}
    BY <2>1, ReconcileAssumption DEF NewRevision, Most
  <2>4. wk' = [v \in Worker |-> [wk[v] EXCEPT !.fresh = FALSE, !.heard = TRUE]]
    BY <1>1 DEF Materialize
  <2>5. /\ wk' \in [Worker -> WorkerState]
        /\ \A v \in Worker : /\ wk'[v].pc = wk[v].pc /\ wk'[v].todo = wk[v].todo
                             /\ wk'[v].rung = wk[v].rung /\ wk'[v].heard = TRUE
    BY <1>0, <2>4 DEF WorkerState
  <2>6. unread' = TRUE /\ readings' = 0
    BY <1>1 DEF Materialize
  <2> QED
    BY <1>1, <2>2, <2>3, <2>5, <2>6 DEF Delivers
<1>2. CASE life # "open"
  BY <1>0, <1>2 DEF Materialize
<1> QED
  BY <1>1, <1>2

LEMMA RetryEffect ==
  ASSUME TypeOK, NEW w \in Worker, ScheduleRetry(w)
  PROVE  wk' \in [Worker -> WorkerState] /\ OthersStay(w) /\ wk'[w].pc = "failed"
<1>0. wk \in [Worker -> WorkerState] /\ Outdated(wk) \in [Worker -> WorkerState]
  BY Typed, OutdatedTyped
<1>1. wk' = [Outdated(wk) EXCEPT ![w] =
               [Outdated(wk)[w] EXCEPT !.pc = "failed", !.todo = Outdated(wk)[w].todo]]
  BY <1>0 DEF ScheduleRetry, WorkerState
<1>2. "failed" \in Pcs /\ Outdated(wk)[w].todo \in Todos
  BY <1>0 DEF Pcs, WorkerState
<1> QED
  BY <1>0, <1>1, <1>2, Moves

-----------------------------------------------------------------------------
(* The steps.                                                              *)

LEMMA TypesKept ==
  ASSUME TypeOK, StepsAgree, [Next]_vars
  PROVE  TypeOK' /\ StepsAgree'
<1> USE ReconcileAssumption
<1>0. /\ ConvTypes /\ ClockTypes /\ WorldTypes /\ WorkTypes
      /\ wk \in [Worker -> WorkerState]
  BY Typed
<1>1. ASSUME NEW w \in Worker, Take(w) PROVE TypeOK' /\ StepsAgree'
  <2>1. ConvTypes' /\ ClockTypes' /\ WorldTypes'
    BY <1>0, <1>1 DEF ConvTypes, ClockTypes, WorldTypes, Take, Idle, convVars, readVars,
       clockVars, worldVars, bounds
  <2>2. wk' \in [Worker -> WorkerState]
    BY <1>0, <1>1 DEF Take, Idle, WorkerState, Pcs, Todos
  <2>3. WorkTypes'
    BY <1>0, <1>1, <2>2 DEF WorkTypes, WorkerState, Take, Idle, workVars, fenceVars
  <2>4. StepsAgree'
    BY <1>0, <1>1, <2>2 DEF StepsAgree, WorkerState, Take, Idle
  <2> QED
    BY <2>1, <2>3, <2>4 DEF TypeOK
<1>2. ASSUME NEW w \in Worker, Enter(w) PROVE TypeOK' /\ StepsAgree'
  <2>1. ConvTypes' /\ ClockTypes' /\ WorldTypes'
    BY <1>0, <1>2 DEF ConvTypes, ClockTypes, WorldTypes, Enter, Goto, convVars, readVars,
       clockVars, worldVars, bounds
  <2>2. wk' \in [Worker -> WorkerState]
    BY <1>0, <1>2 DEF Enter, Goto, WorkerState, Pcs, Todos
  <2>3. WorkTypes'
    BY <1>0, <1>2, <2>2 DEF WorkTypes, WorkerState, Enter, Goto, workVars, fenceVars
  <2>4. StepsAgree'
    BY <1>0, <1>2, <2>2 DEF StepsAgree, WorkerState, Enter, Goto
  <2> QED
    BY <2>1, <2>3, <2>4 DEF TypeOK
<1>3. ASSUME NEW w \in Worker, Admit(w) PROVE TypeOK' /\ StepsAgree'
  <2>1. ConvTypes' /\ ClockTypes' /\ WorldTypes'
    BY <1>0, <1>3 DEF ConvTypes, ClockTypes, WorldTypes, Admit, Goto, convVars, readVars,
       clockVars, worldVars, bounds
  <2>2. wk' \in [Worker -> WorkerState]
    BY <1>0, <1>3, PlanShape, RungType DEF Admit, Goto, WorkerState, Pcs, Todos
  <2>3. WorkTypes'
    BY <1>0, <1>3, <2>2, PlanShape DEF WorkTypes, WorkerState, Admit, Goto, workVars, fenceVars
  <2>4. StepsAgree'
    BY <1>0, <1>3, <2>2, PlanShape DEF StepsAgree, WorkerState, Admit, Goto
  <2> QED
    BY <2>1, <2>3, <2>4 DEF TypeOK
<1>4. ASSUME NEW w \in Worker, Look(w) PROVE TypeOK' /\ StepsAgree'
  <2>1. ConvTypes' /\ ClockTypes' /\ WorldTypes'
    BY <1>0, <1>4 DEF ConvTypes, ClockTypes, WorldTypes, Look, convVars, readVars,
       clockVars, worldVars, bounds
  <2>2. wk' \in [Worker -> WorkerState]
    <3>1. PICK pc \in Pcs : wk' = [wk EXCEPT ![w].pc = pc, ![w].heard = FALSE]
      BY <1>4 DEF Look, StepsAgree, Pcs
    <3>2. wk' = [wk EXCEPT ![w] = [wk[w] EXCEPT !.pc = pc, !.heard = FALSE]]
      BY <3>1, <1>0
    <3>3. [wk[w] EXCEPT !.pc = pc, !.heard = FALSE] \in WorkerState
      BY <1>0, NextStep DEF Todos
    <3> QED
      BY <1>0, <3>2, <3>3, OneWorker
  <2>3. WorkTypes'
    BY <1>0, <1>4, <2>2 DEF WorkTypes, WorkerState, Look, workVars, fenceVars
  <2>4. StepsAgree'
    BY <1>0, <1>4, <2>2 DEF StepsAgree, WorkerState, Look
  <2> QED
    BY <2>1, <2>3, <2>4 DEF TypeOK
<1>5. ASSUME NEW w \in Worker, Remind(w) PROVE TypeOK' /\ StepsAgree'
  <2>1. ConvTypes' /\ ClockTypes' /\ WorldTypes'
    BY <1>0, <1>5, RungType DEF ConvTypes, ClockTypes, WorldTypes, StepsAgree, Remind,
       Goto, Rung, convVars, readVars, clockVars, worldVars, bounds
  <2>2. wk' \in [Worker -> WorkerState]
    BY <1>0, <1>5 DEF Remind, Goto, Rung, WorkerState, Pcs, Todos
  <2>3. WorkTypes'
    BY <1>0, <1>5, <2>2 DEF WorkTypes, WorkerState, Remind, Goto, Rung, workVars, fenceVars
  <2>4. StepsAgree'
    BY <1>0, <1>5, <2>2 DEF StepsAgree, WorkerState, Remind, Goto, Rung
  <2> QED
    BY <2>1, <2>3, <2>4 DEF TypeOK
<1>6. ASSUME NEW w \in Worker, Expire(w) PROVE TypeOK' /\ StepsAgree'
  <2>1. ConvTypes' /\ ClockTypes' /\ WorldTypes'
    BY <1>0, <1>6 DEF ConvTypes, ClockTypes, WorldTypes, Expire, Goto, convVars, readVars,
       clockVars, worldVars, bounds
  <2>2. wk' \in [Worker -> WorkerState]
    BY <1>0, <1>6 DEF Expire, Goto, WorkerState, Pcs, Todos
  <2>3. WorkTypes'
    BY <1>0, <1>6, <2>2 DEF WorkTypes, WorkerState, Expire, Goto, workVars, fenceVars
  <2>4. StepsAgree'
    BY <1>0, <1>6, <2>2 DEF StepsAgree, WorkerState, Expire, Goto
  <2> QED
    BY <2>1, <2>3, <2>4 DEF TypeOK
<1>7. ASSUME NEW w \in Worker, Admission(w) PROVE TypeOK' /\ StepsAgree'
  <2>1. ConvTypes' /\ ClockTypes' /\ WorldTypes'
    BY <1>0, <1>7 DEF ConvTypes, ClockTypes, WorldTypes, Admission, Goto, convVars,
       readVars, clockVars, worldVars, bounds
  <2>2. wk' \in [Worker -> WorkerState]
    BY <1>0, <1>7 DEF Admission, Goto, WorkerState, Pcs, Todos
  <2>3. WorkTypes'
    BY <1>0, <1>7, <2>2 DEF WorkTypes, WorkerState, Admission, Goto, workVars, fenceVars
  <2>4. StepsAgree'
    BY <1>0, <1>7, <2>2 DEF StepsAgree, WorkerState, Admission, Goto
  <2> QED
    BY <2>1, <2>3, <2>4 DEF TypeOK
<1>8. ASSUME NEW w \in Worker, ProviderEntry(w) PROVE TypeOK' /\ StepsAgree'
  <2>1. ConvTypes' /\ ClockTypes' /\ WorldTypes'
    BY <1>0, <1>8 DEF ConvTypes, ClockTypes, WorldTypes, ProviderEntry, convVars,
       readVars, clockVars, worldVars, bounds
  <2>2. wk' \in [Worker -> WorkerState]
    BY <1>8, EntryEffect
  <2>3. WorkTypes'
    BY <1>0, <1>8, <2>2 DEF WorkTypes, WorkerState, ProviderEntry, workVars, fenceVars
  <2>4. StepsAgree'
    BY <1>8, EntryEffect DEF StepsAgree, OthersStay
  <2> QED
    BY <2>1, <2>3, <2>4 DEF TypeOK
<1>9. ASSUME NEW w \in Worker, ModelFails(w) PROVE TypeOK' /\ StepsAgree'
  <2>1. ConvTypes' /\ ClockTypes' /\ WorldTypes'
    BY <1>0, <1>9 DEF ConvTypes, ClockTypes, WorldTypes, ModelFails, Fault, Goto,
       convVars, readVars, clockVars, worldVars, bounds
  <2>2. wk' \in [Worker -> WorkerState]
    BY <1>9, FailureEffect
  <2>3. WorkTypes'
    BY <1>0, <1>9, <2>2 DEF WorkTypes, WorkerState, ModelFails, Fault, Goto, workVars, fenceVars
  <2>4. StepsAgree'
    BY <1>9, FailureEffect DEF StepsAgree, OthersStay
  <2> QED
    BY <2>1, <2>3, <2>4 DEF TypeOK
<1>10. ASSUME NEW w \in Worker, Commit(w) PROVE TypeOK' /\ StepsAgree'
  <2>1. wk' \in [Worker -> WorkerState] /\ StepsAgree'
    BY <1>10, CommitEffect DEF StepsAgree, OthersStay
  <2>2. ConvTypes'
    <3>1. CASE Reads(w)
      <4>1. life' \in {"open", "answered", "expired", "ended"} /\ mode' \in {"bot", "human"}
        BY <1>0, <3>1 DEF ConvTypes, Reads
      <4>2. awaiting' \in BOOLEAN /\ flagged' \in BOOLEAN /\ unread' \in BOOLEAN
        BY <3>1, Zenon DEF Reads
      <4>3. readings' \in Nat /\ reminders' \in 0..MaxReminders
        BY <1>0, <3>1 DEF ConvTypes, Reads
      <4> QED
        BY <4>1, <4>2, <4>3 DEF ConvTypes
    <3>2. CASE UNCHANGED <<convVars, readVars, touched>>
      BY <1>0, <3>2 DEF ConvTypes, convVars, readVars
    <3> QED
      BY <1>10, <3>1, <3>2, CommitEffect
  <2>3. ClockTypes'
    <3>1. silence' = silence
      BY <1>10 DEF Commit
    <3>2. CASE Reads(w)
      BY <1>0, <3>1, <3>2 DEF ClockTypes, Reads
    <3>3. CASE UNCHANGED <<convVars, readVars, touched>>
      BY <1>0, <3>1, <3>3 DEF ClockTypes, readVars
    <3> QED
      BY <1>10, <3>2, <3>3, CommitEffect
  <2>4. WorldTypes' /\ WorkTypes'
    BY <1>0, <1>10, <2>1 DEF WorldTypes, WorkTypes, WorkerState, Commit, worldVars,
       workVars, fenceVars, bounds
  <2> QED
    BY <2>1, <2>2, <2>3, <2>4 DEF TypeOK
<1>11. ASSUME NEW w \in Worker, Settle(w) PROVE TypeOK' /\ StepsAgree'
  <2>1. wk' \in [Worker -> WorkerState] /\ StepsAgree'
    BY <1>11, SettleEffect DEF StepsAgree, OthersStay
  <2>2. ConvTypes' /\ WorldTypes'
    BY <1>0, <1>11 DEF ConvTypes, WorldTypes, Settle, convVars, readVars, worldVars, bounds
  <2>3. ClockTypes'
    BY <1>0, <1>11, SettleEffect DEF ClockTypes, Settle, readVars
  <2>4. due' \in {Never} \cup Nat /\ job' \in {"none", "waiting", "active", "failed"}
    BY <1>0, <1>11, SettleEffect DEF WorkTypes
  <2>5. WorkTypes'
    BY <1>0, <1>11, <2>1, <2>4 DEF WorkTypes, WorkerState, Settle, fenceVars
  <2> QED
    BY <2>1, <2>2, <2>3, <2>5 DEF TypeOK
<1>12. ASSUME NEW w \in Worker, Release(w) PROVE TypeOK' /\ StepsAgree'
  <2>1. ConvTypes' /\ ClockTypes' /\ WorldTypes'
    BY <1>0, <1>12 DEF ConvTypes, ClockTypes, WorldTypes, Release, Goto, convVars,
       readVars, clockVars, worldVars, bounds
  <2>2. wk' \in [Worker -> WorkerState]
    BY <1>0, <1>12 DEF Release, Goto, WorkerState, Pcs, Todos
  <2>3. WorkTypes'
    BY <1>0, <1>12, <2>2 DEF WorkTypes, WorkerState, Release, Goto, workVars, fenceVars
  <2>4. StepsAgree'
    BY <1>0, <1>12, <2>2 DEF StepsAgree, WorkerState, Release, Goto
  <2> QED
    BY <2>1, <2>3, <2>4 DEF TypeOK
<1>13. ASSUME NEW w \in Worker, Park(w) PROVE TypeOK' /\ StepsAgree'
  <2>1. ConvTypes' /\ ClockTypes' /\ WorldTypes'
    BY <1>0, <1>13 DEF ConvTypes, ClockTypes, WorldTypes, Park, Goto, Most, Never,
       convVars, readVars, clockVars, worldVars, bounds
  <2>2. wk' \in [Worker -> WorkerState]
    BY <1>0, <1>13 DEF Park, Goto, Most, Never, WorkerState, Pcs, Todos
  <2>3. WorkTypes'
    BY <1>0, <1>13, <2>2 DEF WorkTypes, WorkerState, Park, Goto, Most, Never, workVars,
       fenceVars
  <2>4. StepsAgree'
    BY <1>0, <1>13, <2>2 DEF StepsAgree, WorkerState, Park, Goto, Most, Never
  <2> QED
    BY <2>1, <2>3, <2>4 DEF TypeOK
<1>14. ASSUME NEW w \in Worker, ScheduleRetry(w) PROVE TypeOK' /\ StepsAgree'
  <2>1. ConvTypes' /\ ClockTypes' /\ WorldTypes'
    BY <1>0, <1>14 DEF ConvTypes, ClockTypes, WorldTypes, ScheduleRetry, NewRevision,
       Outdated, Never, convVars, readVars, clockVars, worldVars, bounds
  <2>2. wk' \in [Worker -> WorkerState]
    BY <1>14, RetryEffect
  <2>3. WorkTypes'
    BY <1>0, <1>14, <2>2 DEF WorkTypes, WorkerState, ScheduleRetry, NewRevision, Outdated,
       Never, workVars, fenceVars
  <2>4. StepsAgree'
    BY <1>14, RetryEffect DEF StepsAgree, OthersStay
  <2> QED
    BY <2>1, <2>3, <2>4 DEF TypeOK
<1>15. ASSUME NEW w \in Worker, HandOver(w) PROVE TypeOK' /\ StepsAgree'
  <2>1. ConvTypes'
    BY <1>0, <1>15 DEF ConvTypes, HandOver, Goto, Never, convVars, readVars
  <2>2. ClockTypes'
    BY <1>0, <1>15 DEF ClockTypes, HandOver, Goto, Never, clockVars, readVars
  <2>3. WorldTypes'
    BY <1>0, <1>15 DEF WorldTypes, HandOver, Goto, Never, worldVars, bounds
  <2>4. wk' \in [Worker -> WorkerState]
    BY <1>0, <1>15 DEF HandOver, Goto, Never, WorkerState, Pcs, Todos
  <2>5. WorkTypes'
    BY <1>0, <1>15, <2>4 DEF WorkTypes, WorkerState, HandOver, Goto, Never, workVars, fenceVars
  <2>6. StepsAgree'
    BY <1>0, <1>15, <2>4 DEF StepsAgree, WorkerState, HandOver, Goto, Never
  <2> QED
    BY <2>1, <2>2, <2>3, <2>5, <2>6 DEF TypeOK
<1>16. ASSUME NEW w \in Worker, Leave(w) PROVE TypeOK' /\ StepsAgree'
  <2>1. ConvTypes' /\ ClockTypes' /\ WorldTypes'
    BY <1>0, <1>16 DEF ConvTypes, ClockTypes, WorldTypes, Leave, Idle, convVars, readVars,
       clockVars, worldVars, bounds
  <2>2. wk' \in [Worker -> WorkerState]
    BY <1>0, <1>16 DEF Leave, Idle, WorkerState, Pcs, Todos
  <2>3. WorkTypes'
    BY <1>0, <1>16, <2>2 DEF WorkTypes, WorkerState, Leave, Idle, workVars, fenceVars
  <2>4. StepsAgree'
    BY <1>0, <1>16, <2>2 DEF StepsAgree, WorkerState, Leave, Idle
  <2> QED
    BY <2>1, <2>3, <2>4 DEF TypeOK
<1>17. ASSUME NEW w \in Worker, Crash(w) PROVE TypeOK' /\ StepsAgree'
  <2>1. ConvTypes' /\ ClockTypes' /\ WorldTypes'
    BY <1>0, <1>17 DEF ConvTypes, ClockTypes, WorldTypes, Crash, Fault, Idle, convVars,
       readVars, clockVars, worldVars, bounds
  <2>2. wk' \in [Worker -> WorkerState]
    BY <1>0, <1>17 DEF Crash, Fault, Idle, WorkerState, Pcs, Todos
  <2>3. WorkTypes'
    BY <1>0, <1>17, <2>2 DEF WorkTypes, WorkerState, Crash, Fault, Idle, workVars, fenceVars
  <2>4. StepsAgree'
    BY <1>0, <1>17, <2>2 DEF StepsAgree, WorkerState, Crash, Fault, Idle
  <2> QED
    BY <2>1, <2>3, <2>4 DEF TypeOK
<1>18. ASSUME NEW w \in Worker, Stall(w) PROVE TypeOK' /\ StepsAgree'
  <2>1. ConvTypes' /\ ClockTypes' /\ WorldTypes'
    BY <1>0, <1>18 DEF ConvTypes, ClockTypes, WorldTypes, Stall, Fault, convVars,
       readVars, clockVars, worldVars, bounds
  <2>2. wk' \in [Worker -> WorkerState]
    <3>1. wk' = [wk EXCEPT ![w] = [wk[w] EXCEPT !.held = FALSE]]
      BY <1>0, <1>18 DEF Stall
    <3>2. [wk[w] EXCEPT !.held = FALSE] \in WorkerState
      BY <1>0, NextStep DEF Pcs, Todos
    <3> QED
      BY <1>0, <3>1, <3>2, OneWorker
  <2>3. WorkTypes'
    BY <1>0, <1>18, <2>2 DEF WorkTypes, WorkerState, Stall, Fault, workVars, fenceVars
  <2>4. StepsAgree'
    BY <1>0, <1>18, <2>2 DEF StepsAgree, WorkerState, Stall, Fault
  <2> QED
    BY <2>1, <2>3, <2>4 DEF TypeOK
<1>19. ASSUME LeaseEnds PROVE TypeOK' /\ StepsAgree'
  <2>1. ConvTypes' /\ ClockTypes' /\ WorldTypes'
    BY <1>0, <1>19 DEF ConvTypes, ClockTypes, WorldTypes, LeaseEnds, Fault, convVars,
       readVars, clockVars, worldVars, bounds
  <2>2. wk' = wk
    BY <1>19 DEF LeaseEnds
  <2>3. WorkTypes'
    BY <1>0, <1>19, <2>2 DEF WorkTypes, LeaseEnds, Fault, workVars, fenceVars
  <2>4. StepsAgree'
    BY <2>2 DEF StepsAgree
  <2> QED
    BY <2>1, <2>3, <2>4 DEF TypeOK
<1>20. ASSUME MutexEnds PROVE TypeOK' /\ StepsAgree'
  <2>1. ConvTypes' /\ ClockTypes' /\ WorldTypes'
    BY <1>0, <1>20 DEF ConvTypes, ClockTypes, WorldTypes, MutexEnds, Fault, convVars,
       readVars, clockVars, worldVars, bounds
  <2>2. wk' = wk
    BY <1>20 DEF MutexEnds
  <2>3. WorkTypes'
    BY <1>0, <1>20, <2>2 DEF WorkTypes, MutexEnds, Fault, workVars, fenceVars
  <2>4. StepsAgree'
    BY <2>2 DEF StepsAgree
  <2> QED
    BY <2>1, <2>3, <2>4 DEF TypeOK
<1>21. ASSUME Sweep PROVE TypeOK' /\ StepsAgree'
  <2>1. ConvTypes' /\ ClockTypes' /\ WorldTypes'
    BY <1>0, <1>21 DEF ConvTypes, ClockTypes, WorldTypes, Sweep, convVars, readVars,
       clockVars, worldVars, bounds
  <2>2. wk' = wk
    BY <1>21 DEF Sweep
  <2>3. WorkTypes'
    BY <1>0, <1>21, <2>2 DEF WorkTypes, Sweep, workVars, fenceVars
  <2>4. StepsAgree'
    BY <2>2 DEF StepsAgree
  <2> QED
    BY <2>1, <2>3, <2>4 DEF TypeOK
<1>22. ASSUME Arrive PROVE TypeOK' /\ StepsAgree'
  <2>1. ConvTypes' /\ ClockTypes' /\ WorldTypes'
    BY <1>0, <1>22 DEF ConvTypes, ClockTypes, WorldTypes, Arrive, convVars, readVars,
       clockVars, worldVars, bounds
  <2>2. wk' = wk
    BY <1>22 DEF Arrive
  <2>3. WorkTypes'
    BY <1>0, <1>22, <2>2 DEF WorkTypes, Arrive, workVars, fenceVars
  <2>4. StepsAgree'
    BY <2>2 DEF StepsAgree
  <2> QED
    BY <2>1, <2>3, <2>4 DEF TypeOK
<1>23. ASSUME Materialize PROVE TypeOK' /\ StepsAgree'
  <2>1. wk' \in [Worker -> WorkerState]
    BY <1>23, MaterializeEffect
  <2>2. /\ UNCHANGED <<convVars, reminders, parked, campaign, consent, full, fenceVars, bounds>>
        /\ inbox' = FALSE
    BY <1>23 DEF Materialize
  <2>3. CASE Delivers
    <3>1. ConvTypes' /\ WorldTypes'
      BY <1>0, <2>2, <2>3 DEF Delivers, ConvTypes, WorldTypes, convVars, bounds
    <3>2. ClockTypes'
      BY <1>0, <2>2, <2>3 DEF Delivers, ClockTypes
    <3>3. WorkTypes'
      BY <1>0, <2>1, <2>2, <2>3 DEF Delivers, WorkTypes, WorkerState, fenceVars
    <3>4. StepsAgree'
      BY <2>3 DEF Delivers, StepsAgree
    <3> QED
      BY <3>1, <3>2, <3>3, <3>4 DEF TypeOK
  <2>4. CASE UNCHANGED <<unread, readings, clockVars, workVars, wk>>
    <3>1. ConvTypes' /\ ClockTypes'
      BY <1>0, <2>2, <2>4 DEF ConvTypes, ClockTypes, convVars, clockVars
    <3>2. WorldTypes'
      BY <1>0, <2>2 DEF WorldTypes, bounds
    <3>3. WorkTypes'
      BY <1>0, <2>2, <2>4 DEF WorkTypes, workVars, fenceVars
    <3>4. StepsAgree'
      BY <2>4 DEF StepsAgree
    <3> QED
      BY <3>1, <3>2, <3>3, <3>4 DEF TypeOK
  <2> QED
    BY <1>23, <2>3, <2>4, MaterializeEffect
<1>24. ASSUME TakeOver PROVE TypeOK' /\ StepsAgree'
  <2>1. ConvTypes'
    BY <1>0, <1>24 DEF ConvTypes, TakeOver, Flip, convVars, readVars
  <2>2. ClockTypes'
    BY <1>0, <1>24 DEF ClockTypes, TakeOver, Flip, clockVars, readVars
  <2>3. WorldTypes'
    BY <1>0, <1>24 DEF WorldTypes, TakeOver, Flip, worldVars, bounds
  <2>4. wk' = wk
    BY <1>24 DEF TakeOver
  <2>5. WorkTypes'
    BY <1>0, <1>24, <2>4 DEF WorkTypes, TakeOver, Flip, workVars, fenceVars
  <2>6. StepsAgree'
    BY <2>4 DEF StepsAgree
  <2> QED
    BY <2>1, <2>2, <2>3, <2>5, <2>6 DEF TypeOK
<1>25. ASSUME ResumeBot PROVE TypeOK' /\ StepsAgree'
  <2>1. ConvTypes'
    BY <1>0, <1>25 DEF ConvTypes, ResumeBot, NewRevision, Outdated, Never, convVars, readVars
  <2>2. ClockTypes'
    BY <1>0, <1>25 DEF ClockTypes, ResumeBot, NewRevision, Outdated, Never, clockVars, readVars
  <2>3. WorldTypes'
    BY <1>0, <1>25 DEF WorldTypes, ResumeBot, NewRevision, Outdated, Never, worldVars, bounds
  <2>4. wk' \in [Worker -> WorkerState]
    BY <1>0, <1>25, OutdatedTyped DEF ResumeBot
  <2>5. WorkTypes'
    BY <1>0, <1>25, <2>4 DEF WorkTypes, WorkerState, ResumeBot, NewRevision, Outdated,
       Never, workVars, fenceVars
  <2>6. StepsAgree'
    BY <1>0, <1>25, OutdatedTyped DEF StepsAgree, ResumeBot
  <2> QED
    BY <2>1, <2>2, <2>3, <2>5, <2>6 DEF TypeOK
<1>26. ASSUME Close PROVE TypeOK' /\ StepsAgree'
  <2>1. ConvTypes' /\ ClockTypes' /\ WorldTypes'
    BY <1>0, <1>26 DEF ConvTypes, ClockTypes, WorldTypes, Close, Flip, convVars, readVars,
       clockVars, worldVars, bounds
  <2>2. wk' = wk
    BY <1>26 DEF Close
  <2>3. WorkTypes'
    BY <1>0, <1>26, <2>2 DEF WorkTypes, Close, Flip, workVars, fenceVars
  <2>4. StepsAgree'
    BY <2>2 DEF StepsAgree
  <2> QED
    BY <2>1, <2>3, <2>4 DEF TypeOK
<1>27. ASSUME Uncertain PROVE TypeOK' /\ StepsAgree'
  <2>1. ConvTypes' /\ ClockTypes' /\ WorldTypes'
    BY <1>0, <1>27 DEF ConvTypes, ClockTypes, WorldTypes, Uncertain, Flip, Never,
       convVars, readVars, clockVars, worldVars, bounds
  <2>2. wk' = wk
    BY <1>27 DEF Uncertain
  <2>3. WorkTypes'
    BY <1>0, <1>27, <2>2 DEF WorkTypes, Uncertain, Flip, Never, workVars, fenceVars
  <2>4. StepsAgree'
    BY <2>2 DEF StepsAgree
  <2> QED
    BY <2>1, <2>3, <2>4 DEF TypeOK
<1>28. ASSUME ResolveAttention PROVE TypeOK' /\ StepsAgree'
  <2>1. ConvTypes'
    BY <1>0, <1>28 DEF ConvTypes, ResolveAttention, convVars, readVars
  <2>2. ClockTypes'
    BY <1>0, <1>28 DEF ClockTypes, ResolveAttention, clockVars, readVars
  <2>3. WorldTypes'
    BY <1>0, <1>28 DEF WorldTypes, ResolveAttention, worldVars, bounds
  <2>4. wk' = wk
    BY <1>28 DEF ResolveAttention
  <2>5. WorkTypes'
    BY <1>0, <1>28, <2>4 DEF WorkTypes, ResolveAttention, workVars, fenceVars
  <2>6. StepsAgree'
    BY <2>4 DEF StepsAgree
  <2> QED
    BY <2>1, <2>2, <2>3, <2>5, <2>6 DEF TypeOK
<1>29. ASSUME Pause PROVE TypeOK' /\ StepsAgree'
  <2>1. ConvTypes' /\ ClockTypes' /\ WorldTypes'
    BY <1>0, <1>29 DEF ConvTypes, ClockTypes, WorldTypes, Pause, Flip, convVars, readVars,
       clockVars, worldVars, bounds
  <2>2. wk' = wk
    BY <1>29 DEF Pause
  <2>3. WorkTypes'
    BY <1>0, <1>29, <2>2 DEF WorkTypes, Pause, Flip, workVars, fenceVars
  <2>4. StepsAgree'
    BY <2>2 DEF StepsAgree
  <2> QED
    BY <2>1, <2>3, <2>4 DEF TypeOK
<1>30. ASSUME Resume PROVE TypeOK' /\ StepsAgree'
  <2>1. ConvTypes' /\ ClockTypes' /\ WorldTypes'
    BY <1>0, <1>30 DEF ConvTypes, ClockTypes, WorldTypes, Resume, NewRevision, Outdated,
       Most, Never, convVars, readVars, clockVars, worldVars, bounds
  <2>2. wk' \in [Worker -> WorkerState]
    BY <1>0, <1>30, OutdatedTyped DEF Resume
  <2>3. WorkTypes'
    BY <1>0, <1>30, <2>2 DEF WorkTypes, WorkerState, Resume, NewRevision, Outdated, Most,
       Never, workVars, fenceVars
  <2>4. StepsAgree'
    BY <1>0, <1>30, OutdatedTyped DEF StepsAgree, Resume
  <2> QED
    BY <2>1, <2>3, <2>4 DEF TypeOK
<1>31. ASSUME CloseCampaign PROVE TypeOK' /\ StepsAgree'
  <2>1. ConvTypes' /\ ClockTypes' /\ WorldTypes'
    BY <1>0, <1>31 DEF ConvTypes, ClockTypes, WorldTypes, CloseCampaign, Flip, convVars,
       readVars, clockVars, worldVars, bounds
  <2>2. wk' = wk
    BY <1>31 DEF CloseCampaign
  <2>3. WorkTypes'
    BY <1>0, <1>31, <2>2 DEF WorkTypes, CloseCampaign, Flip, workVars, fenceVars
  <2>4. StepsAgree'
    BY <2>2 DEF StepsAgree
  <2> QED
    BY <2>1, <2>3, <2>4 DEF TypeOK
<1>32. ASSUME WithdrawConsent PROVE TypeOK' /\ StepsAgree'
  <2>1. ConvTypes' /\ ClockTypes'
    BY <1>0, <1>32 DEF ConvTypes, ClockTypes, WithdrawConsent, convVars, readVars, clockVars
  <2>2. /\ consent' \in BOOLEAN /\ flips' = flips + 1
        /\ UNCHANGED <<campaign, inbox, full, inbounds, faults>>
    BY <1>32 DEF WithdrawConsent, Flip
  <2>3. WorldTypes'
    BY <1>0, <2>2 DEF WorldTypes
  <2>4. WorkTypes' /\ StepsAgree'
    BY <1>0, <1>32 DEF WorkTypes, StepsAgree, WithdrawConsent, workVars, fenceVars
  <2> QED
    BY <2>1, <2>3, <2>4 DEF TypeOK
<1>33. ASSUME Tick PROVE TypeOK' /\ StepsAgree'
  <2>1. ConvTypes' /\ ClockTypes' /\ WorldTypes'
    BY <1>0, <1>33 DEF ConvTypes, ClockTypes, WorldTypes, Tick, Least, Never, convVars,
       readVars, clockVars, worldVars, bounds
  <2>2. wk' = wk
    BY <1>33 DEF Tick
  <2>3. WorkTypes'
    BY <1>0, <1>33, <2>2 DEF WorkTypes, Tick, Least, Never, workVars, fenceVars
  <2>4. StepsAgree'
    BY <2>2 DEF StepsAgree
  <2> QED
    BY <2>1, <2>3, <2>4 DEF TypeOK
<1>34. ASSUME AttentionFills PROVE TypeOK' /\ StepsAgree'
  <2>1. ConvTypes' /\ ClockTypes'
    BY <1>0, <1>34 DEF ConvTypes, ClockTypes, AttentionFills, convVars, readVars, clockVars
  <2>2. /\ full' = TRUE /\ flips' = flips + 1
        /\ UNCHANGED <<campaign, consent, inbox, inbounds, faults>>
    BY <1>34 DEF AttentionFills, Flip
  <2>3. WorldTypes'
    BY <1>0, <2>2 DEF WorldTypes
  <2>4. WorkTypes' /\ StepsAgree'
    BY <1>0, <1>34 DEF WorkTypes, StepsAgree, AttentionFills, workVars, fenceVars
  <2> QED
    BY <2>1, <2>3, <2>4 DEF TypeOK
<1>35. ASSUME UNCHANGED vars PROVE TypeOK' /\ StepsAgree'
  BY <1>0, <1>35 DEF StepsAgree, TypeOK, ConvTypes, ClockTypes, WorldTypes, WorkTypes, vars,
     convVars, readVars, clockVars, worldVars, workVars, fenceVars, bounds
<1> QED
  BY <1>1, <1>2, <1>3, <1>4, <1>5, <1>6, <1>7, <1>8, <1>9, <1>10, <1>11, <1>12, <1>13,
     <1>14, <1>15, <1>16, <1>17, <1>18, <1>19, <1>20, <1>21, <1>22, <1>23, <1>24, <1>25,
     <1>26, <1>27, <1>28, <1>29, <1>30, <1>31, <1>32, <1>33, <1>34, <1>35 DEF Next, Execute,
     WorkerStep, Environment

\* What the types leave.
TestimonyKept ==
  /\ UnreadIsDue /\ UnreadIsUncounted /\ ReadOnce
  /\ HolderHasUnread /\ ReminderIsEarned /\ ExpiryIsEarned

LEMMA TestimonyStep ==
  ASSUME TypeOK, StepsAgree, TypeOK', TestimonyKept, [Next]_vars
  PROVE  TestimonyKept'
<1> USE ReconcileAssumption
<1>0. /\ UnreadIsDue /\ UnreadIsUncounted /\ ReadOnce
      /\ HolderHasUnread /\ ReminderIsEarned /\ ExpiryIsEarned
      /\ wk \in [Worker -> WorkerState] /\ wk' \in [Worker -> WorkerState]
      /\ ConvTypes /\ ClockTypes /\ WorkTypes
  BY Typed DEF TestimonyKept, TypeOK, WorkTypes, WorkerState
<1>1. ASSUME NEW w \in Worker, Take(w) PROVE TestimonyKept'
  <2>1. UnreadIsDue' /\ UnreadIsUncounted' /\ ReadOnce'
    BY <1>0, <1>1 DEF UnreadIsDue, UnreadIsUncounted, ReadOnce, BotTalks, Take, Idle,
       convVars, readVars, worldVars, workVars
  <2>2. HolderHasUnread' /\ ReminderIsEarned' /\ ExpiryIsEarned'
    BY <1>0, <1>1 DEF HolderHasUnread, ReminderIsEarned, ExpiryIsEarned, Current, Lapsed,
       WorkerState, Take, Idle, readVars, clockVars, worldVars, fenceVars
  <2> QED
    BY <2>1, <2>2 DEF TestimonyKept
<1>2. ASSUME NEW w \in Worker, Enter(w) PROVE TestimonyKept'
  <2>1. UnreadIsDue' /\ UnreadIsUncounted' /\ ReadOnce'
    BY <1>0, <1>2 DEF UnreadIsDue, UnreadIsUncounted, ReadOnce, BotTalks, Enter, Goto,
       convVars, readVars, worldVars, workVars
  <2>2. HolderHasUnread' /\ ReminderIsEarned' /\ ExpiryIsEarned'
    BY <1>0, <1>2 DEF HolderHasUnread, ReminderIsEarned, ExpiryIsEarned, Current, Lapsed,
       WorkerState, Enter, Goto, readVars, clockVars, worldVars, fenceVars
  <2> QED
    BY <2>1, <2>2 DEF TestimonyKept
<1>3. ASSUME NEW w \in Worker, Admit(w) PROVE TestimonyKept'
  <2>1. UnreadIsDue' /\ UnreadIsUncounted' /\ ReadOnce'
    BY <1>0, <1>3 DEF UnreadIsDue, UnreadIsUncounted, ReadOnce, BotTalks, Admit, convVars,
       readVars, worldVars, workVars
  <2>2. /\ wk'[w].pc \notin {"entry", "commit", "remind", "expire"}
        /\ wk'[w].pc = "look" => wk'[w].todo = Plan.do
        /\ \A v \in Worker \ {w} : wk'[v] = wk[v]
    BY <1>0, <1>3, PlanShape DEF Admit, Goto, WorkerState
  <2>3. HolderHasUnread'
    BY <1>0, <1>3, <2>2 DEF HolderHasUnread, Current, Admit, readVars
  <2>4. ReminderIsEarned'
    BY <1>0, <1>3, <2>2, PlanShape DEF ReminderIsEarned, Admit, readVars, clockVars
  <2>5. ExpiryIsEarned'
    BY <1>0, <1>3, <2>2, PlanShape DEF ExpiryIsEarned, Lapsed, Admit, readVars, clockVars,
       worldVars
  <2> QED
    BY <2>1, <2>3, <2>4, <2>5 DEF TestimonyKept
<1>4. ASSUME NEW w \in Worker, Look(w) PROVE TestimonyKept'
  <2>1. UnreadIsDue' /\ UnreadIsUncounted' /\ ReadOnce'
    BY <1>0, <1>4 DEF UnreadIsDue, UnreadIsUncounted, ReadOnce, BotTalks, Look, convVars,
       readVars, worldVars, workVars
  <2>2. /\ wk'[w].pc \in {"settle", wk[w].todo} /\ wk[w].todo \in {"remind", "expire"}
        /\ wk'[w].pc = "remind" =>
             /\ wk[w].todo = "remind" /\ wk'[w].rung = wk[w].rung /\ wk[w].rung = Rung
             /\ silence >= Rung * RemindEvery
        /\ \A v \in Worker \ {w} : wk'[v] = wk[v]
    BY <1>0, <1>4 DEF Look, StepsAgree, WorkerState
  <2>3. HolderHasUnread'
    BY <1>0, <1>4, <2>2 DEF HolderHasUnread, Current, Look, readVars, fenceVars
  <2>4. Rung * RemindEvery > 1
    BY <1>0 DEF ConvTypes, Rung
  <2>5. ASSUME NEW v \in Worker
        PROVE  /\ wk'[v].pc = "look" /\ wk'[v].todo = "remind" => ~unread' \/ silence' <= 1
               /\ wk'[v].pc = "remind" /\ ~wk'[v].heard =>
                    ~unread' /\ silence' >= wk'[v].rung * RemindEvery
    <3>1. unread' = unread /\ silence' = silence /\ silence \in Nat
      BY <1>0, <1>4 DEF Look, readVars, clockVars, ClockTypes
    <3>2. CASE v = w
      <4>1. ~unread \/ silence <= 1 \/ wk'[w].pc # "remind"
        BY <1>0, <1>4, <2>2 DEF ReminderIsEarned, Look
      <4> QED
        BY <2>2, <2>4, <3>1, <3>2, <4>1, RungType
    <3>3. CASE v # w
      BY <1>0, <2>2, <3>1, <3>3 DEF ReminderIsEarned
    <3> QED
      BY <3>2, <3>3
  <2>6. ReminderIsEarned'
    BY <2>5 DEF ReminderIsEarned
  <2>7. ExpiryIsEarned'
    BY <1>0, <1>4, <2>2 DEF ExpiryIsEarned, Lapsed, Look, readVars, clockVars, worldVars
  <2> QED
    BY <2>1, <2>3, <2>6, <2>7 DEF TestimonyKept
<1>5. ASSUME NEW w \in Worker, Remind(w) PROVE TestimonyKept'
  <2>1. UnreadIsDue' /\ UnreadIsUncounted' /\ ReadOnce'
    BY <1>0, <1>5 DEF UnreadIsDue, UnreadIsUncounted, ReadOnce, BotTalks, Remind, Goto,
       Rung, convVars, readVars, worldVars, workVars
  <2>2. HolderHasUnread' /\ ReminderIsEarned' /\ ExpiryIsEarned'
    BY <1>0, <1>5 DEF HolderHasUnread, ReminderIsEarned, ExpiryIsEarned, Current, Lapsed,
       WorkerState, Remind, Goto, Rung, readVars, clockVars, worldVars, fenceVars
  <2> QED
    BY <2>1, <2>2 DEF TestimonyKept
<1>6. ASSUME NEW w \in Worker, Expire(w) PROVE TestimonyKept'
  <2>1. UnreadIsDue' /\ UnreadIsUncounted' /\ ReadOnce'
    BY <1>0, <1>6 DEF UnreadIsDue, UnreadIsUncounted, ReadOnce, BotTalks, Expire, Goto,
       convVars, readVars, worldVars, workVars
  <2>2. HolderHasUnread' /\ ReminderIsEarned' /\ ExpiryIsEarned'
    BY <1>0, <1>6 DEF HolderHasUnread, ReminderIsEarned, ExpiryIsEarned, Current, Lapsed,
       WorkerState, Expire, Goto, readVars, clockVars, worldVars, fenceVars
  <2> QED
    BY <2>1, <2>2 DEF TestimonyKept
<1>7. ASSUME NEW w \in Worker, Admission(w) PROVE TestimonyKept'
  <2>1. UnreadIsDue' /\ UnreadIsUncounted' /\ ReadOnce'
    BY <1>0, <1>7 DEF UnreadIsDue, UnreadIsUncounted, ReadOnce, BotTalks, Admission, Goto,
       convVars, readVars, worldVars, workVars
  <2>2. HolderHasUnread' /\ ReminderIsEarned' /\ ExpiryIsEarned'
    BY <1>0, <1>7 DEF HolderHasUnread, ReminderIsEarned, ExpiryIsEarned, Current, Lapsed,
       WorkerState, Admission, Goto, readVars, clockVars, worldVars, fenceVars
  <2> QED
    BY <2>1, <2>2 DEF TestimonyKept
<1>8. ASSUME NEW w \in Worker, ProviderEntry(w) PROVE TestimonyKept'
  <2>1. UnreadIsDue' /\ UnreadIsUncounted' /\ ReadOnce'
    BY <1>0, <1>8 DEF UnreadIsDue, UnreadIsUncounted, ReadOnce, BotTalks, ProviderEntry,
       convVars, readVars, worldVars, workVars
  <2>2. HolderHasUnread' /\ ReminderIsEarned' /\ ExpiryIsEarned'
    BY <1>0, <1>8 DEF HolderHasUnread, ReminderIsEarned, ExpiryIsEarned, Current, Lapsed,
       WorkerState, ProviderEntry, readVars, clockVars, worldVars, fenceVars
  <2> QED
    BY <2>1, <2>2 DEF TestimonyKept
<1>9. ASSUME NEW w \in Worker, ModelFails(w) PROVE TestimonyKept'
  <2>1. UnreadIsDue' /\ UnreadIsUncounted' /\ ReadOnce'
    BY <1>0, <1>9 DEF UnreadIsDue, UnreadIsUncounted, ReadOnce, BotTalks, ModelFails,
       Goto, convVars, readVars, worldVars, workVars
  <2>2. HolderHasUnread' /\ ReminderIsEarned' /\ ExpiryIsEarned'
    BY <1>0, <1>9 DEF HolderHasUnread, ReminderIsEarned, ExpiryIsEarned, Current, Lapsed,
       WorkerState, ModelFails, Goto, readVars, clockVars, worldVars, fenceVars
  <2> QED
    BY <2>1, <2>2 DEF TestimonyKept
<1>10. ASSUME NEW w \in Worker, Commit(w) PROVE TestimonyKept'
  <2>1. OthersStay(w) /\ wk'[w].pc \in {"settle", "release"}
    BY <1>10, CommitEffect
  <2>2. UNCHANGED <<silence, worldVars, workVars, fenceVars>>
    BY <1>10 DEF Commit
  <2>3. CASE Reads(w)
    <3>1. unread
      BY <1>0, <1>10, <2>3 DEF HolderHasUnread, Commit, Reads
    <3>2. UnreadIsDue' /\ UnreadIsUncounted' /\ ReadOnce'
      BY <1>0, <2>3, <3>1 DEF Reads, UnreadIsDue, UnreadIsUncounted, ReadOnce, ConvTypes
    <3>3. HolderHasUnread'
      BY <2>1, <2>2, <2>3 DEF Reads, HolderHasUnread, Current, OthersStay, fenceVars
    <3>4. ReminderIsEarned' /\ ExpiryIsEarned'
      BY <1>0, <2>1, <2>2, <2>3 DEF Reads, ReminderIsEarned, ExpiryIsEarned, Lapsed, OthersStay
    <3> QED
      BY <3>2, <3>3, <3>4 DEF TestimonyKept
  <2>4. CASE UNCHANGED <<convVars, readVars, touched>>
    <3>1. UnreadIsDue' /\ UnreadIsUncounted' /\ ReadOnce'
      BY <1>0, <2>2, <2>4 DEF UnreadIsDue, UnreadIsUncounted, ReadOnce, BotTalks,
         convVars, readVars, worldVars, workVars
    <3>2. HolderHasUnread' /\ ReminderIsEarned' /\ ExpiryIsEarned'
      BY <1>0, <2>1, <2>2, <2>4 DEF HolderHasUnread, ReminderIsEarned, ExpiryIsEarned,
         Lapsed, Current, OthersStay, readVars, worldVars, fenceVars
    <3> QED
      BY <3>1, <3>2 DEF TestimonyKept
  <2> QED
    BY <1>10, <2>3, <2>4, CommitEffect
<1>11. ASSUME NEW w \in Worker, Settle(w) PROVE TestimonyKept'
  <2>1. OthersStay(w) /\ wk'[w].pc = "release"
    BY <1>11, SettleEffect
  <2>2. UNCHANGED <<convVars, readVars, silence, worldVars, fenceVars>>
    BY <1>11 DEF Settle
  <2>3. UnreadIsDue'
    BY <1>0, <1>11, <2>2, SettleEffect DEF UnreadIsDue, BotTalks, convVars, readVars,
       worldVars, Never
  <2>4. UnreadIsUncounted' /\ ReadOnce'
    BY <1>0, <2>2 DEF UnreadIsUncounted, ReadOnce, readVars
  <2>5. HolderHasUnread' /\ ReminderIsEarned' /\ ExpiryIsEarned'
    BY <1>0, <2>1, <2>2 DEF HolderHasUnread, ReminderIsEarned, ExpiryIsEarned, Lapsed,
       Current, OthersStay, readVars, worldVars, fenceVars
  <2> QED
    BY <2>3, <2>4, <2>5 DEF TestimonyKept
<1>12. ASSUME NEW w \in Worker, Release(w) PROVE TestimonyKept'
  <2>1. UnreadIsDue' /\ UnreadIsUncounted' /\ ReadOnce'
    BY <1>0, <1>12 DEF UnreadIsDue, UnreadIsUncounted, ReadOnce, BotTalks, Release, Goto,
       convVars, readVars, worldVars, workVars
  <2>2. HolderHasUnread' /\ ReminderIsEarned' /\ ExpiryIsEarned'
    BY <1>0, <1>12 DEF HolderHasUnread, ReminderIsEarned, ExpiryIsEarned, Current, Lapsed,
       WorkerState, Release, Goto, readVars, clockVars, worldVars, fenceVars
  <2> QED
    BY <2>1, <2>2 DEF TestimonyKept
<1>13. ASSUME NEW w \in Worker, Park(w) PROVE TestimonyKept'
  <2>1. /\ UNCHANGED <<convVars, unread, readings, silence, worldVars, workVars, fenceVars>>
        /\ parked' = Most(parked, 0)
    BY <1>13 DEF Park
  <2>2. OthersStay(w) /\ wk'[w].pc \in {"schedule", "failed"}
    BY <1>0, <1>13 DEF Park, Goto, OthersStay, WorkerState
  <2>3. UnreadIsDue' /\ UnreadIsUncounted' /\ ReadOnce'
    BY <1>0, <2>1 DEF UnreadIsDue, UnreadIsUncounted, ReadOnce, BotTalks, convVars,
       worldVars, workVars
  <2>4. parked = ParkMax => parked' = ParkMax
    BY <2>1 DEF Most
  <2>5. HolderHasUnread' /\ ReminderIsEarned' /\ ExpiryIsEarned'
    BY <1>0, <2>1, <2>2, <2>4 DEF HolderHasUnread, ReminderIsEarned, ExpiryIsEarned,
       Lapsed, Current, OthersStay, worldVars, fenceVars
  <2> QED
    BY <2>3, <2>5 DEF TestimonyKept
<1>14. ASSUME NEW w \in Worker, ScheduleRetry(w) PROVE TestimonyKept'
  <2>1. UnreadIsDue' /\ UnreadIsUncounted' /\ ReadOnce'
    BY <1>0, <1>14 DEF UnreadIsDue, UnreadIsUncounted, ReadOnce, BotTalks, ScheduleRetry,
       NewRevision, Outdated, Never, convVars, readVars, worldVars, workVars
  <2>2. HolderHasUnread' /\ ReminderIsEarned' /\ ExpiryIsEarned'
    BY <1>0, <1>14 DEF HolderHasUnread, ReminderIsEarned, ExpiryIsEarned, Current, Lapsed,
       WorkerState, ScheduleRetry, NewRevision, Outdated, Never, readVars, clockVars,
       worldVars, fenceVars
  <2> QED
    BY <2>1, <2>2 DEF TestimonyKept
<1>15. ASSUME NEW w \in Worker, HandOver(w) PROVE TestimonyKept'
  <2>1. UnreadIsDue' /\ UnreadIsUncounted' /\ ReadOnce'
    BY <1>0, <1>15 DEF UnreadIsDue, UnreadIsUncounted, ReadOnce, BotTalks, HandOver, Goto,
       Never, convVars, readVars, worldVars, workVars
  <2>2. HolderHasUnread' /\ ReminderIsEarned' /\ ExpiryIsEarned'
    BY <1>0, <1>15 DEF HolderHasUnread, ReminderIsEarned, ExpiryIsEarned, Current, Lapsed,
       WorkerState, HandOver, Goto, Never, readVars, clockVars, worldVars, fenceVars
  <2> QED
    BY <2>1, <2>2 DEF TestimonyKept
<1>16. ASSUME NEW w \in Worker, Leave(w) PROVE TestimonyKept'
  <2>1. UnreadIsDue' /\ UnreadIsUncounted' /\ ReadOnce'
    BY <1>0, <1>16 DEF UnreadIsDue, UnreadIsUncounted, ReadOnce, BotTalks, Leave, Idle,
       convVars, readVars, worldVars, workVars
  <2>2. HolderHasUnread' /\ ReminderIsEarned' /\ ExpiryIsEarned'
    BY <1>0, <1>16 DEF HolderHasUnread, ReminderIsEarned, ExpiryIsEarned, Current, Lapsed,
       WorkerState, Leave, Idle, readVars, clockVars, worldVars, fenceVars
  <2> QED
    BY <2>1, <2>2 DEF TestimonyKept
<1>17. ASSUME NEW w \in Worker, Crash(w) PROVE TestimonyKept'
  <2>1. UnreadIsDue' /\ UnreadIsUncounted' /\ ReadOnce'
    BY <1>0, <1>17 DEF UnreadIsDue, UnreadIsUncounted, ReadOnce, BotTalks, Crash, Idle,
       convVars, readVars, worldVars, workVars
  <2>2. HolderHasUnread' /\ ReminderIsEarned' /\ ExpiryIsEarned'
    BY <1>0, <1>17 DEF HolderHasUnread, ReminderIsEarned, ExpiryIsEarned, Current, Lapsed,
       WorkerState, Crash, Idle, readVars, clockVars, worldVars, fenceVars
  <2> QED
    BY <2>1, <2>2 DEF TestimonyKept
<1>18. ASSUME NEW w \in Worker, Stall(w) PROVE TestimonyKept'
  <2>1. UnreadIsDue' /\ UnreadIsUncounted' /\ ReadOnce'
    BY <1>0, <1>18 DEF UnreadIsDue, UnreadIsUncounted, ReadOnce, BotTalks, Stall,
       convVars, readVars, worldVars, workVars
  <2>2. HolderHasUnread' /\ ReminderIsEarned' /\ ExpiryIsEarned'
    BY <1>0, <1>18 DEF HolderHasUnread, ReminderIsEarned, ExpiryIsEarned, Current, Lapsed,
       WorkerState, Stall, readVars, clockVars, worldVars, fenceVars
  <2> QED
    BY <2>1, <2>2 DEF TestimonyKept
<1>19. ASSUME LeaseEnds PROVE TestimonyKept'
  <2>1. UnreadIsDue' /\ UnreadIsUncounted' /\ ReadOnce'
    BY <1>0, <1>19 DEF UnreadIsDue, UnreadIsUncounted, ReadOnce, BotTalks, LeaseEnds,
       convVars, readVars, worldVars, workVars
  <2>2. HolderHasUnread' /\ ReminderIsEarned' /\ ExpiryIsEarned'
    BY <1>0, <1>19 DEF HolderHasUnread, ReminderIsEarned, ExpiryIsEarned, Current, Lapsed,
       WorkerState, LeaseEnds, readVars, clockVars, worldVars, fenceVars
  <2> QED
    BY <2>1, <2>2 DEF TestimonyKept
<1>20. ASSUME MutexEnds PROVE TestimonyKept'
  <2>1. UnreadIsDue' /\ UnreadIsUncounted' /\ ReadOnce'
    BY <1>0, <1>20 DEF UnreadIsDue, UnreadIsUncounted, ReadOnce, BotTalks, MutexEnds,
       convVars, readVars, worldVars, workVars
  <2>2. HolderHasUnread' /\ ReminderIsEarned' /\ ExpiryIsEarned'
    BY <1>0, <1>20 DEF HolderHasUnread, ReminderIsEarned, ExpiryIsEarned, Current, Lapsed,
       MutexEnds, readVars, clockVars, worldVars, fenceVars
  <2> QED
    BY <2>1, <2>2 DEF TestimonyKept
<1>21. ASSUME Sweep PROVE TestimonyKept'
  <2>1. UnreadIsDue' /\ UnreadIsUncounted' /\ ReadOnce'
    BY <1>0, <1>21 DEF UnreadIsDue, UnreadIsUncounted, ReadOnce, BotTalks, Sweep,
       convVars, readVars, worldVars, workVars
  <2>2. HolderHasUnread' /\ ReminderIsEarned' /\ ExpiryIsEarned'
    BY <1>0, <1>21 DEF HolderHasUnread, ReminderIsEarned, ExpiryIsEarned, Current, Lapsed,
       Sweep, readVars, clockVars, worldVars, fenceVars
  <2> QED
    BY <2>1, <2>2 DEF TestimonyKept
<1>22. ASSUME Arrive PROVE TestimonyKept'
  <2>1. UnreadIsDue' /\ UnreadIsUncounted' /\ ReadOnce'
    BY <1>0, <1>22 DEF UnreadIsDue, UnreadIsUncounted, ReadOnce, BotTalks, Arrive,
       convVars, readVars, worldVars, workVars
  <2>2. HolderHasUnread' /\ ReminderIsEarned' /\ ExpiryIsEarned'
    BY <1>0, <1>22 DEF HolderHasUnread, ReminderIsEarned, ExpiryIsEarned, Current, Lapsed,
       Arrive, readVars, clockVars, worldVars, fenceVars
  <2> QED
    BY <2>1, <2>2 DEF TestimonyKept
<1>23. ASSUME Materialize PROVE TestimonyKept'
  <2>1. UNCHANGED <<convVars, reminders, parked, campaign, consent, fenceVars>>
    BY <1>23 DEF Materialize
  <2>2. CASE Delivers
    <3>1. UnreadIsDue' /\ UnreadIsUncounted' /\ ReadOnce'
      BY <2>2 DEF Delivers, UnreadIsDue, UnreadIsUncounted, ReadOnce, Never
    <3>2. HolderHasUnread'
      BY <2>2 DEF Delivers, HolderHasUnread
    <3>3. ReminderIsEarned' /\ ExpiryIsEarned'
      BY <2>2 DEF Delivers, ReminderIsEarned, ExpiryIsEarned
    <3> QED
      BY <3>1, <3>2, <3>3 DEF TestimonyKept
  <2>3. CASE life # "open" /\ UNCHANGED <<unread, readings, clockVars, workVars, wk>>
    BY <1>0, <2>1, <2>3 DEF TestimonyKept, UnreadIsDue, UnreadIsUncounted, ReadOnce,
       HolderHasUnread, ReminderIsEarned, ExpiryIsEarned, BotTalks, Lapsed, Current,
       convVars, clockVars, workVars, fenceVars
  <2> QED
    BY <1>23, <2>2, <2>3, MaterializeEffect
<1>24. ASSUME TakeOver PROVE TestimonyKept'
  <2>1. UnreadIsDue' /\ UnreadIsUncounted' /\ ReadOnce'
    BY <1>0, <1>24 DEF UnreadIsDue, UnreadIsUncounted, ReadOnce, BotTalks, TakeOver,
       convVars, readVars, worldVars, workVars
  <2>2. HolderHasUnread' /\ ReminderIsEarned' /\ ExpiryIsEarned'
    BY <1>0, <1>24 DEF HolderHasUnread, ReminderIsEarned, ExpiryIsEarned, Current, Lapsed,
       TakeOver, readVars, clockVars, worldVars, fenceVars
  <2> QED
    BY <2>1, <2>2 DEF TestimonyKept
<1>25. ASSUME ResumeBot PROVE TestimonyKept'
  <2>1. UnreadIsDue' /\ UnreadIsUncounted' /\ ReadOnce'
    BY <1>0, <1>25 DEF UnreadIsDue, UnreadIsUncounted, ReadOnce, BotTalks, ResumeBot,
       NewRevision, Outdated, Never, convVars, readVars, worldVars, workVars
  <2>2. HolderHasUnread' /\ ReminderIsEarned' /\ ExpiryIsEarned'
    BY <1>0, <1>25 DEF HolderHasUnread, ReminderIsEarned, ExpiryIsEarned, Current, Lapsed,
       WorkerState, ResumeBot, NewRevision, Outdated, Never, readVars, clockVars,
       worldVars, fenceVars
  <2> QED
    BY <2>1, <2>2 DEF TestimonyKept
<1>26. ASSUME Close PROVE TestimonyKept'
  <2>1. UnreadIsDue' /\ UnreadIsUncounted' /\ ReadOnce'
    BY <1>0, <1>26 DEF UnreadIsDue, UnreadIsUncounted, ReadOnce, BotTalks, Close,
       convVars, readVars, worldVars, workVars
  <2>2. HolderHasUnread' /\ ReminderIsEarned' /\ ExpiryIsEarned'
    BY <1>0, <1>26 DEF HolderHasUnread, ReminderIsEarned, ExpiryIsEarned, Current, Lapsed,
       Close, readVars, clockVars, worldVars, fenceVars
  <2> QED
    BY <2>1, <2>2 DEF TestimonyKept
<1>27. ASSUME Uncertain PROVE TestimonyKept'
  <2>1. UnreadIsDue' /\ UnreadIsUncounted' /\ ReadOnce'
    BY <1>0, <1>27 DEF UnreadIsDue, UnreadIsUncounted, ReadOnce, BotTalks, Uncertain,
       Never, convVars, readVars, worldVars, workVars
  <2>2. HolderHasUnread' /\ ReminderIsEarned' /\ ExpiryIsEarned'
    BY <1>0, <1>27 DEF HolderHasUnread, ReminderIsEarned, ExpiryIsEarned, Current, Lapsed,
       Uncertain, Never, readVars, clockVars, worldVars, fenceVars
  <2> QED
    BY <2>1, <2>2 DEF TestimonyKept
<1>28. ASSUME ResolveAttention PROVE TestimonyKept'
  <2>1. UnreadIsDue' /\ UnreadIsUncounted' /\ ReadOnce'
    BY <1>0, <1>28 DEF UnreadIsDue, UnreadIsUncounted, ReadOnce, BotTalks,
       ResolveAttention, convVars, readVars, worldVars, workVars
  <2>2. HolderHasUnread' /\ ReminderIsEarned' /\ ExpiryIsEarned'
    BY <1>0, <1>28 DEF HolderHasUnread, ReminderIsEarned, ExpiryIsEarned, Current, Lapsed,
       ResolveAttention, readVars, clockVars, worldVars, fenceVars
  <2> QED
    BY <2>1, <2>2 DEF TestimonyKept
<1>29. ASSUME Pause PROVE TestimonyKept'
  <2>1. UnreadIsDue' /\ UnreadIsUncounted' /\ ReadOnce'
    BY <1>0, <1>29 DEF UnreadIsDue, UnreadIsUncounted, ReadOnce, BotTalks, Pause,
       convVars, readVars, worldVars, workVars
  <2>2. HolderHasUnread' /\ ReminderIsEarned' /\ ExpiryIsEarned'
    BY <1>0, <1>29 DEF HolderHasUnread, ReminderIsEarned, ExpiryIsEarned, Current, Lapsed,
       Pause, readVars, clockVars, worldVars, fenceVars
  <2> QED
    BY <2>1, <2>2 DEF TestimonyKept
<1>30. ASSUME Resume PROVE TestimonyKept'
  <2>1. UnreadIsDue' /\ UnreadIsUncounted' /\ ReadOnce'
    BY <1>0, <1>30 DEF UnreadIsDue, UnreadIsUncounted, ReadOnce, BotTalks, Resume,
       NewRevision, Outdated, Most, Never, convVars, readVars, worldVars, workVars
  <2>2. HolderHasUnread' /\ ReminderIsEarned' /\ ExpiryIsEarned'
    BY <1>0, <1>30 DEF HolderHasUnread, ReminderIsEarned, ExpiryIsEarned, Current, Lapsed,
       WorkerState, Resume, NewRevision, Outdated, Most, Never, readVars, clockVars,
       worldVars, fenceVars
  <2> QED
    BY <2>1, <2>2 DEF TestimonyKept
<1>31. ASSUME CloseCampaign PROVE TestimonyKept'
  <2>1. UnreadIsDue' /\ UnreadIsUncounted' /\ ReadOnce'
    BY <1>0, <1>31 DEF UnreadIsDue, UnreadIsUncounted, ReadOnce, BotTalks, CloseCampaign,
       convVars, readVars, worldVars, workVars
  <2>2. HolderHasUnread' /\ ReminderIsEarned' /\ ExpiryIsEarned'
    BY <1>0, <1>31 DEF HolderHasUnread, ReminderIsEarned, ExpiryIsEarned, Current, Lapsed,
       CloseCampaign, readVars, clockVars, worldVars, fenceVars
  <2> QED
    BY <2>1, <2>2 DEF TestimonyKept
<1>32. ASSUME WithdrawConsent PROVE TestimonyKept'
  <2>1. UnreadIsDue' /\ UnreadIsUncounted' /\ ReadOnce'
    BY <1>0, <1>32 DEF UnreadIsDue, UnreadIsUncounted, ReadOnce, BotTalks,
       WithdrawConsent, convVars, readVars, worldVars, workVars
  <2>2. HolderHasUnread' /\ ReminderIsEarned' /\ ExpiryIsEarned'
    BY <1>0, <1>32 DEF HolderHasUnread, ReminderIsEarned, ExpiryIsEarned, Current, Lapsed,
       WorkerState, WithdrawConsent, readVars, clockVars, worldVars, fenceVars
  <2> QED
    BY <2>1, <2>2 DEF TestimonyKept
<1>33. ASSUME Tick PROVE TestimonyKept'
  <2>1. UnreadIsDue' /\ UnreadIsUncounted' /\ ReadOnce'
    BY <1>0, <1>33 DEF UnreadIsDue, UnreadIsUncounted, ReadOnce, BotTalks, Tick, Least,
       Never, convVars, readVars, worldVars, workVars
  <2>2. HolderHasUnread' /\ ReminderIsEarned' /\ ExpiryIsEarned'
    BY <1>0, <1>33 DEF HolderHasUnread, ReminderIsEarned, ExpiryIsEarned, Current, Lapsed,
       WorkerState, Tick, Least, Never, readVars, clockVars, worldVars, fenceVars
  <2> QED
    BY <2>1, <2>2 DEF TestimonyKept
<1>34. ASSUME AttentionFills PROVE TestimonyKept'
  <2>1. UnreadIsDue' /\ UnreadIsUncounted' /\ ReadOnce'
    BY <1>0, <1>34 DEF UnreadIsDue, UnreadIsUncounted, ReadOnce, BotTalks,
       AttentionFills, convVars, readVars, worldVars, workVars
  <2>2. HolderHasUnread' /\ ReminderIsEarned' /\ ExpiryIsEarned'
    BY <1>0, <1>34 DEF HolderHasUnread, ReminderIsEarned, ExpiryIsEarned, Current, Lapsed,
       AttentionFills, readVars, clockVars, worldVars, fenceVars
  <2> QED
    BY <2>1, <2>2 DEF TestimonyKept
<1>35. ASSUME UNCHANGED vars PROVE TestimonyKept'
  BY <1>0, <1>35 DEF TestimonyKept, UnreadIsDue, UnreadIsUncounted, ReadOnce,
     HolderHasUnread, ReminderIsEarned, ExpiryIsEarned, BotTalks, Current, Lapsed, vars,
     convVars, readVars, clockVars, worldVars, workVars, fenceVars
<1> QED
  BY <1>1, <1>2, <1>3, <1>4, <1>5, <1>6, <1>7, <1>8, <1>9, <1>10, <1>11, <1>12, <1>13,
     <1>14, <1>15, <1>16, <1>17, <1>18, <1>19, <1>20, <1>21, <1>22, <1>23, <1>24, <1>25,
     <1>26, <1>27, <1>28, <1>29, <1>30, <1>31, <1>32, <1>33, <1>34, <1>35 DEF Next, Execute,
     WorkerStep, Environment

-----------------------------------------------------------------------------
(* The theorems.                                                           *)

ReconcileInvariant == TypeOK /\ StepsAgree /\ TestimonyKept

LEMMA InitOK == Init => ReconcileInvariant
<1> SUFFICES ASSUME Init PROVE ReconcileInvariant
  OBVIOUS
<1> USE ReconcileAssumption
<1>1. TypeOK
  <2>1. ConvTypes
    <3>1. awaiting = FALSE /\ flagged = FALSE /\ unread = FALSE
      BY DEF Init
    <3>2. life = "open" /\ mode = "bot" /\ readings = 0 /\ reminders = 0
      BY DEF Init
    <3>3. readings \in Nat /\ reminders \in 0..MaxReminders
      BY <3>2
    <3> QED
      BY <3>1, <3>2, <3>3, Zenon DEF ConvTypes
  <2>4. ClockTypes
    BY DEF Init, ClockTypes, Never
  <2>5. WorldTypes
    <3>1. campaign = "launched" /\ consent = TRUE /\ inbox = FALSE /\ full = FALSE
      BY DEF Init
    <3>2. inbounds \in Nat /\ flips \in Nat /\ faults \in Nat
      BY DEF Init
    <3> QED
      BY <3>1, <3>2 DEF WorldTypes
  <2>2. Idle \in WorkerState
    BY DEF Idle, WorkerState, Pcs, Todos
  <2>3. WorkTypes
    BY <2>2 DEF Init, WorkTypes, WorkerState
  <2> QED
    BY <2>1, <2>3, <2>4, <2>5 DEF TypeOK
<1>2. StepsAgree
  BY DEF Init, StepsAgree, Idle
<1>3. TestimonyKept
  BY DEF Init, TestimonyKept, UnreadIsDue, UnreadIsUncounted, ReadOnce, HolderHasUnread,
         ReminderIsEarned, ExpiryIsEarned, Idle
<1> QED
  BY <1>1, <1>2, <1>3 DEF ReconcileInvariant

\* The invariant that carries the rest, for any workers, delays and bounds.
THEOREM InvariantHolds == Spec => []ReconcileInvariant
<1>1. Init => ReconcileInvariant
  BY InitOK
<1>2. ReconcileInvariant /\ [Next]_vars => ReconcileInvariant'
  BY TypesKept, TestimonyStep DEF ReconcileInvariant
<1> QED
  BY <1>1, <1>2, PTL DEF Spec

\* Every variable of a conversation's work keeps its type: no due time is negative, the
\* ladder of reminders ends, and only a worker holds a lease.
THEOREM TypeCorrect == Spec => []TypeOK
<1>1. ReconcileInvariant => TypeOK
  BY DEF ReconcileInvariant
<1> QED
  BY <1>1, InvariantHolds, PTL

\* As long as the bot is to answer, what the participant said has a due time, through
\* every order of settlements, resumes, pauses and takeovers.
THEOREM TestimonyIsDue == Spec => []UnreadIsDue
<1>1. ReconcileInvariant => UnreadIsDue
  BY DEF ReconcileInvariant, TestimonyKept
<1> QED
  BY <1>1, InvariantHolds, PTL

\* What was said is extracted once, by any number of workers that run the revision: the
\* one whose token is on the fence finds it unread, and nobody else commits.
THEOREM TestimonyReadOnce == Spec => []ReadOnce
<1>1. ReconcileInvariant => ReadOnce
  BY DEF ReconcileInvariant, TestimonyKept
<1> QED
  BY <1>1, InvariantHolds, PTL

\* A step that counts a reminder is one of the reminder's transaction, and one that
\* expires the conversation is one of the expiry's.
LEMMA SilentSteps ==
  ASSUME TypeOK, [Next]_vars
  PROVE  /\ reminders' = reminders \/ \E w \in Worker : Remind(w)
         /\ (life = "open" /\ life' = "expired") => \E w \in Worker : Expire(w)
<1> DEFINE Silent == /\ reminders' = reminders \/ \E w \in Worker : Remind(w)
                     /\ (life = "open" /\ life' = "expired") => \E w \in Worker : Expire(w)
<1>1. ASSUME NEW w \in Worker, Take(w) PROVE Silent
  BY <1>1 DEF Take, convVars, readVars
<1>2. ASSUME NEW w \in Worker, Enter(w) PROVE Silent
  BY <1>2 DEF Enter, convVars, readVars
<1>3. ASSUME NEW w \in Worker, Admit(w) PROVE Silent
  BY <1>3 DEF Admit, convVars, readVars
<1>4. ASSUME NEW w \in Worker, Look(w) PROVE Silent
  BY <1>4 DEF Look, convVars, readVars
<1>5. ASSUME NEW w \in Worker, Remind(w) PROVE Silent
  BY <1>5 DEF Remind, convVars, readVars
<1>6. ASSUME NEW w \in Worker, Expire(w) PROVE Silent
  BY <1>6 DEF Expire, convVars, readVars
<1>7. ASSUME NEW w \in Worker, Admission(w) PROVE Silent
  BY <1>7 DEF Admission, convVars, readVars
<1>8. ASSUME NEW w \in Worker, ProviderEntry(w) PROVE Silent
  BY <1>8 DEF ProviderEntry, convVars, readVars
<1>9. ASSUME NEW w \in Worker, ModelFails(w) PROVE Silent
  BY <1>9 DEF ModelFails, convVars, readVars
<1>10. ASSUME NEW w \in Worker, Commit(w) PROVE Silent
  BY <1>10, CommitEffect DEF Reads, convVars, readVars
<1>11. ASSUME NEW w \in Worker, Settle(w) PROVE Silent
  BY <1>11 DEF Settle, convVars, readVars
<1>12. ASSUME NEW w \in Worker, Release(w) PROVE Silent
  BY <1>12 DEF Release, convVars, readVars
<1>13. ASSUME NEW w \in Worker, Park(w) PROVE Silent
  BY <1>13 DEF Park, convVars, readVars
<1>14. ASSUME NEW w \in Worker, ScheduleRetry(w) PROVE Silent
  BY <1>14 DEF ScheduleRetry, convVars, readVars
<1>15. ASSUME NEW w \in Worker, HandOver(w) PROVE Silent
  BY <1>15 DEF HandOver, convVars, readVars
<1>16. ASSUME NEW w \in Worker, Leave(w) PROVE Silent
  BY <1>16 DEF Leave, convVars, readVars
<1>17. ASSUME NEW w \in Worker, Crash(w) PROVE Silent
  BY <1>17 DEF Crash, convVars, readVars
<1>18. ASSUME NEW w \in Worker, Stall(w) PROVE Silent
  BY <1>18 DEF Stall, convVars, readVars
<1>19. ASSUME LeaseEnds PROVE Silent
  BY <1>19 DEF LeaseEnds, convVars, readVars
<1>20. ASSUME MutexEnds PROVE Silent
  BY <1>20 DEF MutexEnds, convVars, readVars
<1>21. ASSUME Sweep PROVE Silent
  BY <1>21 DEF Sweep, convVars, readVars
<1>22. ASSUME Arrive PROVE Silent
  BY <1>22 DEF Arrive, convVars, readVars
<1>23. ASSUME Materialize PROVE Silent
  BY <1>23 DEF Materialize, convVars, readVars
<1>24. ASSUME TakeOver PROVE Silent
  BY <1>24 DEF TakeOver, convVars, readVars
<1>25. ASSUME ResumeBot PROVE Silent
  BY <1>25 DEF ResumeBot, convVars, readVars
<1>26. ASSUME Close PROVE Silent
  BY <1>26 DEF Close, convVars, readVars
<1>27. ASSUME Uncertain PROVE Silent
  BY <1>27 DEF Uncertain, convVars, readVars
<1>28. ASSUME ResolveAttention PROVE Silent
  BY <1>28 DEF ResolveAttention, convVars, readVars
<1>29. ASSUME Pause PROVE Silent
  BY <1>29 DEF Pause, convVars, readVars
<1>30. ASSUME Resume PROVE Silent
  BY <1>30 DEF Resume, convVars, readVars
<1>31. ASSUME CloseCampaign PROVE Silent
  BY <1>31 DEF CloseCampaign, convVars, readVars
<1>32. ASSUME WithdrawConsent PROVE Silent
  BY <1>32 DEF WithdrawConsent, convVars, readVars
<1>33. ASSUME Tick PROVE Silent
  BY <1>33 DEF Tick, convVars, readVars
<1>34. ASSUME AttentionFills PROVE Silent
  BY <1>34 DEF AttentionFills, convVars, readVars
<1>35. ASSUME UNCHANGED vars PROVE Silent
  BY <1>35 DEF vars, convVars, readVars
<1> QED
  BY <1>1, <1>2, <1>3, <1>4, <1>5, <1>6, <1>7, <1>8, <1>9, <1>10, <1>11, <1>12, <1>13,
     <1>14, <1>15, <1>16, <1>17, <1>18, <1>19, <1>20, <1>21, <1>22, <1>23, <1>24, <1>25,
     <1>26, <1>27, <1>28, <1>29, <1>30, <1>31, <1>32, <1>33, <1>34, <1>35 DEF Next, Execute,
     WorkerStep, Environment

\* A reminder goes only into silence, and an expiry leaves unread only what may lapse,
\* also when the answer arrives between the plan and the transaction.
THEOREM SilenceRespected == Spec => ActsOnSilence
<1> DEFINE Acts == /\ reminders' # reminders =>
                        ~unread /\ ~inbox /\ silence >= reminders' * RemindEvery
                   /\ life' = "expired" /\ life = "open" =>
                        ~inbox /\ (unread => ~consent \/ parked = ParkMax)
<1>1. ASSUME ReconcileInvariant, [Next]_vars PROVE Acts
  <2>0. TypeOK /\ ReminderIsEarned /\ ExpiryIsEarned
    BY <1>1 DEF ReconcileInvariant, TestimonyKept
  <2>1. ASSUME NEW w \in Worker, Remind(w), reminders' # reminders
        PROVE  ~unread /\ ~inbox /\ silence >= reminders' * RemindEvery
    BY <2>0, <2>1 DEF ReminderIsEarned, Remind, Overtaken
  <2>2. ASSUME NEW w \in Worker, Expire(w), life = "open", life' = "expired"
        PROVE  ~inbox /\ (unread => ~consent \/ parked = ParkMax)
    <3>1. wk[w].pc = "expire" /\ ~inbox /\ silence >= ExpireAfter
      BY <2>2 DEF Expire, Overtaken
    <3>2. silence > 1
      BY <2>0, <3>1, ReconcileAssumption DEF TypeOK, ClockTypes
    <3> QED
      BY <2>0, <3>1, <3>2 DEF ExpiryIsEarned, Lapsed, TypeOK, ClockTypes
  <2> QED
    BY <1>1, <2>0, <2>1, <2>2, SilentSteps
<1>2. ReconcileInvariant /\ [Next]_vars => [Acts]_vars
  BY <1>1
<1> QED
  BY <1>2, InvariantHolds, PTL DEF Spec, ActsOnSilence
=============================================================================
