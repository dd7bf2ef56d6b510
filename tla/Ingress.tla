------------------------------- MODULE Ingress -------------------------------
(***************************************************************************)
(* What becomes of the messages one phone sends: the webhook records each  *)
(* observation as a provider_message_ingress row, a Redis job wakes a      *)
(* worker, and the worker drains the pending rows of the phone in the      *)
(* order PostgreSQL gave them, routing each to the conversation that is    *)
(* open on the phone, or was last (post-event-feedback/ingress, sweeps).   *)
(*                                                                         *)
(* Row numbers are ingress_order: the insert takes the phone's advisory    *)
(* lock before the sequence assigns it, so they are in commit order.       *)
(* Every transaction is one action; what a worker read outside its         *)
(* transaction is kept in wk.  A row also carries the time the provider    *)
(* observed the message at, which need not follow the order of recording:  *)
(* transcripts are kept in the order of that time, and number their turns  *)
(* in the order they were appended (the seq extraction's cursor counts).   *)
(*                                                                         *)
(* Simplifications.  Inbound messages only (Outbox models the observed     *)
(* outbound ones).  A resolved attention reason still counts for the       *)
(* capacity, so resolving is left out.  Which closed conversation is the   *)
(* latest depends on provider timestamps: any closed one may be.           *)
(***************************************************************************)
EXTENDS Integers, Sequences, FiniteSets

CONSTANTS
  Worker,         \* concurrent executions of the ingress processor
  NoWorker,
  NMsgs,          \* messages the participant sends
  NRows,          \* bound: observations recorded
  NConvs,         \* bound: conversations ever launched on the phone
  BatchSize,      \* FEEDBACK_SWEEP_BATCH_SIZE, the page of one drain
  MaxTurns,       \* FEEDBACK_CONVERSATION_MAX_MESSAGES
  MaxReasons,     \* FEEDBACK_CONVERSATION_MAX_ATTENTION_REASONS
  Silent,         \* conversations without an answered goal
  Kinds,          \* what the messages may be
  MaxTime,        \* bound: observation times
  MaxDeliveries,  \* bound: webhook calls
  MaxFaults       \* bound: crashes, lost locks and lost enqueues

ASSUME IngressAssumption ==
  /\ NoWorker \notin Worker
  /\ NMsgs \in Nat \ {0} /\ NRows \in Nat \ {0} /\ NConvs \in Nat \ {0}
  /\ BatchSize \in Nat \ {0} /\ MaxTime \in Nat \ {0}
  /\ MaxTurns \in Nat /\ MaxReasons \in Nat
  /\ Silent \subseteq 1..NConvs
  /\ Kinds \subseteq {"text", "stop", "media"}
  /\ MaxDeliveries \in Nat /\ MaxFaults \in Nat

VARIABLES
  kind,    \* message -> what the participant sent
  row,     \* ingress_order -> the recorded observation
  queue,   \* row -> its materialize job
  pub,     \* the webhook call and the sweep: which row each is enqueueing
  lock,    \* holder of the phone's session advisory lock
  wk,      \* worker -> program counter, target row, drained page, route
  conv,    \* conversation -> lifecycle
  turns,   \* conversation -> its transcript: rows and their seq, as stored
  reasons, \* conversation -> attention reasons raised: <<kind, anchor>>
  consent,
  deliveries, faults

convVars == <<conv, turns, reasons, consent>>
bounds   == <<deliveries, faults>>
vars == <<kind, row, queue, pub, lock, wk, convVars, bounds>>

Msg  == 1..NMsgs
Row  == 1..NRows
Conv == 1..NConvs
Time == 1..MaxTime
None == 0

\* the words first written, and the words of an edit
Words   == {"first", "edited"}
Publisher == {"webhook", "sweep"}
Live    == {"waiting", "active"}

Pending(r) == row[r].state = "pending"

\* Nothing is at this order yet.
Free(r) == row[r].state = "absent" /\ \A q \in 1..(r - 1) : row[q].state # "absent"

NoRoute == [conv |-> None, life |-> "none"]
IdleWorker == [pc |-> "idle", target |-> None, todo |-> {}, route |-> NoRoute]
IdlePub == [pc |-> "idle", row |-> None, edit |-> "none", msg |-> None]

Init ==
  /\ kind \in [Msg -> Kinds]
  /\ row = [r \in Row |-> [state |-> "absent", msg |-> 1, edit |-> FALSE,
                           words |-> "first", at |-> 1, kept |-> FALSE, conv |-> None]]
  /\ queue = [r \in Row |-> "none"]
  /\ pub = [p \in Publisher |-> IdlePub]
  /\ lock = NoWorker
  /\ wk = [w \in Worker |-> IdleWorker]
  \* the introduction may be out already, or the phone unknown so far
  /\ \E life \in {"none", "open"} :
       conv = [c \in Conv |-> IF c = 1 THEN life ELSE "none"]
  /\ turns = [c \in Conv |-> <<>>]
  /\ reasons = [c \in Conv |-> {}]
  /\ consent = TRUE
  /\ deliveries = 0
  /\ faults = 0

Fault == faults < MaxFaults /\ faults' = faults + 1 /\ UNCHANGED deliveries

-----------------------------------------------------------------------------
(* Recording.  recordObservedMessage inserts the row unless the provider id  *)
(* is known, then enqueues; the same id with other words becomes a row of    *)
(* its own under a derived id.                                               *)

Observation(m, edit, words, at) ==
  [state |-> "pending", msg |-> m, edit |-> edit, words |-> words, at |-> at,
   kept |-> kind[m] # "media", conv |-> None]

SameKey(r, m, edit, words) ==
  /\ row[r].state # "absent" /\ row[r].msg = m /\ row[r].edit = edit
  /\ edit => row[r].words = words

\* insertIngressIfAbsent: r is the row it returns.  Whatever is observed again
\* leaves the time of the first observation.
Insert(r, m, edit, words) ==
  \/ SameKey(r, m, edit, words) /\ UNCHANGED row
  \/ /\ \A q \in Row : ~SameKey(q, m, edit, words)
     /\ Free(r)
     /\ \E at \in Time : row' = [row EXCEPT ![r] = Observation(m, edit, words, at)]

\* The text on the row decides what is an edit: words other than those kept.
LooksEdited(r, m, words) ==
  /\ row[r].state # "absent"
  /\ kind[m] # "media"
  /\ ~row[r].kept \/ row[r].words # words

Deliver(m, words) ==
  /\ pub["webhook"].pc = "idle"
  /\ deliveries < MaxDeliveries
  /\ deliveries' = deliveries + 1
  /\ words = "edited" => \E r \in Row : SameKey(r, m, FALSE, "first")
  /\ \E r \in Row :
       /\ Insert(r, m, FALSE, words)
       /\ pub' = [pub EXCEPT !["webhook"] =
                   [pc |-> "check", row |-> r, msg |-> m,
                    edit |-> IF LooksEdited(r, m, words) THEN words ELSE "none"]]
  /\ UNCHANGED <<kind, queue, lock, wk, convVars, faults>>

\* recordEditedRedelivery
DeliverEdit ==
  LET p == pub["webhook"]
  IN  /\ p.pc = "edit"
      /\ \E r \in Row :
           /\ Insert(r, p.msg, TRUE, p.edit)
           /\ pub' = [pub EXCEPT !["webhook"] =
                       [pc |-> "check", row |-> r, msg |-> p.msg, edit |-> "none"]]
      /\ UNCHANGED <<kind, queue, lock, wk, convVars, bounds>>

\* The maintenance sweep finds a pending row.
Sweep(r) ==
  /\ pub["sweep"].pc = "idle"
  /\ Pending(r)
  /\ pub' = [pub EXCEPT !["sweep"] =
              [pc |-> "check", row |-> r, msg |-> row[r].msg, edit |-> "none"]]
  /\ UNCHANGED <<kind, row, queue, lock, wk, convVars, bounds>>

Published(p) ==
  pub' = [pub EXCEPT ![p] = IF @.edit = "none" THEN IdlePub
                            ELSE [@ EXCEPT !.pc = "edit"]]

\* Mutant: a job that failed for good is not removed.
CheckKeepsFailed(p) ==
  LET r == pub[p].row
  IN  /\ pub[p].pc = "check"
      /\ IF Pending(r) /\ queue[r] \notin Live
         THEN pub' = [pub EXCEPT ![p].pc = "add"]
         ELSE Published(p)
      /\ UNCHANGED <<kind, row, queue, lock, wk, convVars, bounds>>

\* ensurePendingQueued, up to the removal of a retained terminal job ...
CheckQueued(p) ==
  LET r == pub[p].row
  IN  /\ pub[p].pc = "check"
      /\ IF Pending(r) /\ queue[r] \notin Live
         THEN /\ pub' = [pub EXCEPT ![p].pc = "add"]
              /\ queue' = [queue EXCEPT ![r] = "none"]
         ELSE /\ Published(p)
              /\ UNCHANGED queue
      /\ UNCHANGED <<kind, row, lock, wk, convVars, bounds>>

\* ... and the add, which does nothing when the job id exists.
AddJob(p) ==
  LET r == pub[p].row
  IN  /\ pub[p].pc = "add"
      /\ queue' = [queue EXCEPT ![r] = IF @ = "none" THEN "waiting" ELSE @]
      /\ Published(p)
      /\ UNCHANGED <<kind, row, lock, wk, convVars, bounds>>

\* Redis is down or the process dies: the row stays pending without a job.
EnqueueLost(p) ==
  /\ pub[p].pc # "idle"
  /\ Fault
  /\ pub' = [pub EXCEPT ![p] = IdlePub]
  /\ UNCHANGED <<kind, row, queue, lock, wk, convVars>>

-----------------------------------------------------------------------------
(* Materialization under the phone's lock.                                  *)

Take(w, r) ==
  /\ wk[w].pc = "idle"
  /\ queue[r] = "waiting"
  /\ queue' = [queue EXCEPT ![r] = "active"]
  /\ wk' = [wk EXCEPT ![w] = [IdleWorker EXCEPT !.pc = "lock", !.target = r]]
  /\ UNCHANGED <<kind, row, pub, lock, convVars, bounds>>

Lock(w) ==
  /\ wk[w].pc = "lock"
  /\ lock = NoWorker
  /\ lock' = w
  /\ wk' = [wk EXCEPT ![w].pc = "list"]
  /\ UNCHANGED <<kind, row, queue, pub, convVars, bounds>>

\* The first BatchSize rows of S.
Page(S) == {r \in S : Cardinality({q \in S : q < r}) < BatchSize}

\* Mutant: a job materializes its own row and nothing before it.
TargetOnly(r) == {r}

\* listPendingIngressForSerializationKey through the target.
PendingThrough(r) == Page({q \in 1..r : Pending(q)})

\* A target that is no longer pending has nothing left to drain.
List(w) ==
  LET rows == PendingThrough(wk[w].target)
  IN  /\ wk[w].pc = "list"
      /\ wk' = IF Pending(wk[w].target)
               THEN [wk EXCEPT ![w].pc = "route", ![w].todo = rows]
               ELSE [wk EXCEPT ![w].pc = "unlock"]
      /\ UNCHANGED <<kind, row, queue, pub, lock, convVars, bounds>>

\* The row a worker is at: the oldest of its page.
At(w, r) == r \in wk[w].todo /\ \A q \in wk[w].todo : r <= q

\* Done with row r: the next one, another page, or the end of the job.
After(w, r) ==
  LET rest == wk[w].todo \ {r}
  IN  [wk EXCEPT ![w] = [@ EXCEPT
         !.todo  = rest,
         !.route = NoRoute,
         !.pc    = IF r = wk[w].target THEN "unlock"
                   ELSE IF rest = {} THEN "list" ELSE "route"]]

\* findOpenByPhone, else findLatestClosedByPhone, else nothing.
Routes ==
  IF \E c \in Conv : conv[c] = "open"
  THEN {[conv |-> c, life |-> "open"] : c \in {d \in Conv : conv[d] = "open"}}
  ELSE IF \E c \in Conv : conv[c] # "none"
  THEN {[conv |-> c, life |-> conv[c]] : c \in {d \in Conv : conv[d] # "none"}}
  ELSE {NoRoute}

\* The lookup, outside any transaction.
Route(w, r) ==
  /\ wk[w].pc = "route"
  /\ At(w, r)
  /\ IF Pending(r)
     THEN \E to \in Routes :
            wk' = [wk EXCEPT ![w].pc = "apply", ![w].route = to]
     ELSE wk' = After(w, r)
  /\ UNCHANGED <<kind, row, queue, pub, lock, convVars, bounds>>

\* applyPending re-reads the row FOR UPDATE; a loser of the race does nothing.
Loses(w, r) ==
  /\ ~Pending(r)
  /\ wk' = After(w, r)
  /\ UNCHANGED <<kind, row, queue, pub, lock, convVars, bounds>>

\* The job fails for good and the lock is released.
Throws(w) ==
  /\ queue' = [queue EXCEPT ![wk[w].target] = "failed"]
  /\ lock' = IF lock = w THEN NoWorker ELSE lock
  /\ wk' = [wk EXCEPT ![w] = IdleWorker]
  /\ UNCHANGED <<kind, row, pub, convVars, bounds>>

\* raiseAttention for each of new: idempotent, and an error at the capacity.
Raisable(c, new) == Cardinality(reasons[c] \cup new) <= MaxReasons

\* appendMessage is idempotent by ingress id.
Appended(c, r) == \E i \in 1..Len(turns[c]) : turns[c][i].row = r
Fits(c, r)     == Appended(c, r) \/ Len(turns[c]) < MaxTurns

\* sortTranscript puts a new turn behind the n turns that were observed no
\* later; a tie goes by seq, and the new one is the greatest.
Behind(c, r, n) ==
  /\ \A i \in 1..n : row[turns[c][i].row].at <= row[r].at
  /\ \A i \in (n + 1)..Len(turns[c]) : row[r].at < row[turns[c][i].row].at

\* The stored array with a turn for row r behind its first n.
WithTurn(c, r, n) ==
  LET size == Len(turns[c]) + 1
  IN  [i \in 1..size |-> IF i <= n THEN turns[c][i]
                         ELSE IF i = n + 1 THEN [row |-> r, seq |-> size]
                         ELSE turns[c][i - 1]]

Append1(c, r) ==
  \/ Appended(c, r) /\ UNCHANGED turns
  \/ /\ ~Appended(c, r)
     /\ \E n \in 0..Len(turns[c]) :
          Behind(c, r, n) /\ turns' = [turns EXCEPT ![c] = WithTurn(c, r, n)]

AppendIf(appends, c, r) == IF appends THEN Append1(c, r) ELSE UNCHANGED turns

\* The row after updateIngressProcessing; its text is erased unless kept.
Settled(r, c, state, keep) ==
  [row[r] EXCEPT !.state = state, !.conv = c, !.kept = keep /\ row[r].kept]

\* One materializing transaction commits, or all of it rolls back.
Commit(w, r, c, state, keep, new) ==
  /\ row' = [row EXCEPT ![r] = Settled(r, c, state, keep)]
  /\ reasons' = IF c = None THEN reasons
                ELSE [reasons EXCEPT ![c] = @ \cup new]
  /\ wk' = After(w, r)
  /\ UNCHANGED <<kind, queue, pub, lock, bounds>>

EditReason(r, kept) ==
  IF kept /\ row[r].edit THEN {<<"transcript_mismatch", r>>} ELSE {}

ApplyOrdinary(w, r, c) ==
  /\ kind[row[r].msg] = "text"
  /\ wk[w].route.life = "open"
  /\ LET new == EditReason(r, TRUE)
         full == {<<"transcript_full", None>>}
     IN  CASE Fits(c, r) /\ Raisable(c, new) ->
                /\ Commit(w, r, c, "materialized", TRUE, new)
                /\ Append1(c, r)
                /\ UNCHANGED <<conv, consent>>
           [] ~Fits(c, r) /\ Raisable(c, full) ->
                \* rolled back; the brake is a transaction of its own
                /\ wk' = [wk EXCEPT ![w].pc = "flag"]
                /\ UNCHANGED <<kind, row, queue, pub, lock, convVars, bounds>>
           [] OTHER -> Throws(w)

\* flagUnmaterializedInbound: nothing to append, a person has to look.
Flag(w, r, c, reason) ==
  LET new == {<<reason, None>>}
  IN  IF Raisable(c, new)
      THEN /\ Commit(w, r, c, "failed", TRUE, new)
           /\ UNCHANGED <<conv, turns, consent>>
      ELSE Throws(w)

\* Mutant: what follows a STOP is kept like everything else.
PostClosureRetains(w, r, c) ==
  /\ kind[row[r].msg] # "stop"
  /\ wk[w].route.life \in {"ended", "stopped"}
  /\ LET appends == kind[row[r].msg] = "text" /\ Fits(c, r)
         new == {<<"post_closure_message", IF appends THEN r ELSE None>>}
     IN  IF Raisable(c, new)
         THEN /\ Commit(w, r, c, "materialized", TRUE, new)
              /\ AppendIf(appends, c, r)
              /\ UNCHANGED <<conv, consent>>
         ELSE Throws(w)

\* closedIngress: the text is kept unless the conversation ended on STOP.
ApplyPostClosure(w, r, c) ==
  /\ kind[row[r].msg] # "stop"
  /\ wk[w].route.life \in {"ended", "stopped"}
  /\ LET retains == wk[w].route.life = "ended"
         wants   == retains /\ kind[row[r].msg] = "text"
         appends == wants /\ Fits(c, r)
         new == {<<"post_closure_message", IF appends THEN r ELSE None>>}
                \cup (IF wants /\ ~appends THEN {<<"transcript_full", None>>} ELSE {})
     IN  IF Raisable(c, new)
         THEN /\ Commit(w, r, c, "materialized", retains, new)
              /\ AppendIf(appends, c, r)
              /\ UNCHANGED <<conv, consent>>
         ELSE Throws(w)

\* stop.apply on an open or a closed conversation, under human control or not.
\* The turn is appended only when the conversation is open as looked up.
ApplyStop(w, r, c) ==
  /\ kind[row[r].msg] = "stop"
  /\ LET wants   == wk[w].route.life = "open"
         appends == wants /\ Fits(c, r)
         new == (IF c \in Silent THEN {<<"stopped_without_answers",
                                         IF appends THEN r ELSE None>>} ELSE {})
                \cup (IF wants /\ ~appends THEN {<<"transcript_full", None>>} ELSE {})
                \cup EditReason(r, appends)
     IN  IF Raisable(c, new)
         THEN /\ Commit(w, r, c, "materialized", TRUE, new)
              /\ AppendIf(appends, c, r)
              /\ conv' = [conv EXCEPT ![c] = "stopped"]
              /\ consent' = FALSE
         ELSE Throws(w)

IgnoreUnmatched(w, r) ==
  /\ wk[w].route.conv = None
  /\ Commit(w, r, None, "ignored", TRUE, {})
  /\ UNCHANGED <<conv, turns, consent>>

Apply(w, r) ==
  /\ wk[w].pc = "apply"
  /\ At(w, r)
  /\ LET c == wk[w].route.conv
     IN  \/ Loses(w, r)
         \/ Pending(r) /\ IgnoreUnmatched(w, r)
         \/ /\ Pending(r)
            /\ c # None
            /\ \/ ApplyOrdinary(w, r, c)
               \/ /\ kind[row[r].msg] = "media" /\ wk[w].route.life = "open"
                  /\ Flag(w, r, c, "unreadable_message")
               \/ ApplyPostClosure(w, r, c)
               \/ ApplyStop(w, r, c)

FlagFull(w, r) ==
  /\ wk[w].pc = "flag"
  /\ At(w, r)
  /\ \/ Loses(w, r)
     \/ Pending(r) /\ Flag(w, r, wk[w].route.conv, "transcript_full")

\* The job completes; a session that lost the lock fails its release instead
\* and the job runs again.
Unlock(w) ==
  /\ wk[w].pc = "unlock"
  /\ lock' = IF lock = w THEN NoWorker ELSE lock
  /\ queue' = [queue EXCEPT ![wk[w].target] = IF lock = w THEN "ended" ELSE "waiting"]
  /\ wk' = [wk EXCEPT ![w] = IdleWorker]
  /\ UNCHANGED <<kind, row, pub, convVars, bounds>>

\* A transient error or the death of the process: retried while attempts last.
Fails(w) ==
  /\ wk[w].pc # "idle"
  /\ Fault
  /\ \E to \in {"waiting", "failed"} :
       queue' = [queue EXCEPT ![wk[w].target] = to]
  /\ lock' = IF lock = w THEN NoWorker ELSE lock
  /\ wk' = [wk EXCEPT ![w] = IdleWorker]
  /\ UNCHANGED <<kind, row, pub, convVars>>

\* PostgreSQL ends the session that holds the lock; the worker does not notice.
LoseLock ==
  /\ lock # NoWorker
  /\ Fault
  /\ lock' = NoWorker
  /\ UNCHANGED <<kind, row, queue, pub, wk, convVars>>

-----------------------------------------------------------------------------
(* The rest of the system closes conversations and launches campaigns.      *)

Close(c) ==
  /\ conv[c] = "open"
  /\ conv' = [conv EXCEPT ![c] = "ended"]
  /\ UNCHANGED <<kind, row, queue, pub, lock, wk, turns, reasons, consent, bounds>>

Launch(c) ==
  /\ conv[c] = "none"
  /\ consent
  /\ \A d \in Conv : conv[d] # "open"
  /\ conv' = [conv EXCEPT ![c] = "open"]
  /\ UNCHANGED <<kind, row, queue, pub, lock, wk, turns, reasons, consent, bounds>>

-----------------------------------------------------------------------------
WorkerStep(w) ==
  \/ List(w) \/ Unlock(w)
  \/ \E r \in Row : Route(w, r) \/ Apply(w, r) \/ FlagFull(w, r)

Record ==
  \/ \E m \in Msg, words \in Words : Deliver(m, words)
  \/ DeliverEdit
  \/ \E r \in Row : Sweep(r)
  \/ \E p \in Publisher : CheckQueued(p) \/ AddJob(p) \/ EnqueueLost(p)

Materialize ==
  \/ \E w \in Worker, r \in Row : Take(w, r)
  \/ \E w \in Worker : Lock(w) \/ WorkerStep(w) \/ Fails(w)
  \/ LoseLock

Next == Record \/ Materialize \/ \E c \in Conv : Close(c) \/ Launch(c)

Spec == Init /\ [][Next]_vars

\* Every webhook and sweep finishes, the sweep's cursor comes round to every
\* pending row, the queue hands out every job, and PostgreSQL grants the lock
\* in the order it was asked for.
FairSpec ==
  /\ Spec
  /\ \A p \in Publisher : WF_vars(CheckQueued(p)) /\ WF_vars(AddJob(p))
  /\ WF_vars(DeliverEdit)
  /\ \A r \in Row : SF_vars(Sweep(r))
  /\ \A r \in Row : SF_vars(\E w \in Worker : Take(w, r))
  /\ \A w \in Worker : SF_vars(Lock(w)) /\ WF_vars(WorkerStep(w))

-----------------------------------------------------------------------------
States == {"absent", "pending", "materialized", "failed", "ignored"}
Observations == [state : States, msg : Msg, edit : BOOLEAN, words : Words,
                 at : Time, kept : BOOLEAN, conv : Conv \cup {None}]
Turns == [row : Row, seq : Nat]
Workers == [pc : {"idle", "lock", "list", "route", "apply", "flag", "unlock"},
            target : Row \cup {None}, todo : SUBSET Row,
            route : [conv : Conv \cup {None},
                     life : {"none", "open", "ended", "stopped"}]]
Publications == [pc : {"idle", "check", "add", "edit"}, row : Row \cup {None},
                 edit : Words \cup {"none"}, msg : Msg \cup {None}]

Reasons == {"transcript_mismatch", "transcript_full", "unreadable_message",
            "post_closure_message", "stopped_without_answers"}

RowTypes ==
  /\ kind \in [Msg -> Kinds]
  /\ row \in [Row -> Observations]
  /\ queue \in [Row -> {"none", "waiting", "active", "failed", "ended"}]

PubTypes ==
  /\ pub \in [Publisher -> Publications]
  /\ \A p \in Publisher :
       /\ pub[p].pc # "idle" => pub[p].row \in Row /\ pub[p].msg \in Msg
       /\ pub[p].pc = "edit" => pub[p].edit \in Words

WorkTypes ==
  /\ wk \in [Worker -> Workers]
  /\ \A w \in Worker :
       /\ wk[w].pc # "idle" => wk[w].target \in Row
       /\ wk[w].pc = "flag" => wk[w].route.conv \in Conv
  /\ lock \in Worker \cup {NoWorker}
  /\ lock # NoWorker => wk[lock].pc \notin {"idle", "lock"}

ConvTypes ==
  /\ conv \in [Conv -> {"none", "open", "ended", "stopped"}]
  /\ turns \in [Conv -> Seq(Turns)]
  /\ reasons \in [Conv -> SUBSET (Reasons \X (Row \cup {None}))]
  /\ consent \in BOOLEAN

\* Every variable keeps its type, a call or job at work names its row, and the
\* holder of the lock is at work.
TypeOK ==
  /\ RowTypes
  /\ PubTypes
  /\ WorkTypes
  /\ ConvTypes
  /\ deliveries \in Nat /\ faults \in Nat

Handled(r) == row[r].state \in {"materialized", "failed", "ignored"}

\* The rows of a phone are settled in the order they were recorded, whatever
\* job woke whichever worker, and also after the lock was lost.
HandledInOrder ==
  \A r \in Row : Handled(r) => \A q \in 1..(r - 1) : Handled(q)

\* Row q was observed before row r, or at the same time and recorded before.
ObservedBefore(q, r) ==
  row[q].at < row[r].at \/ (row[q].at = row[r].at /\ q < r)

\* A transcript holds each of the participant's rows once.  Their numbers run
\* in the order the rows were recorded, without a gap, so that a cursor which
\* counts them passes no message by; the array is in the order of observation,
\* which a delayed webhook makes another one.
TranscriptInOrder ==
  \A c \in Conv :
    LET t == turns[c]
    IN  /\ \A i \in 1..Len(t) : t[i].seq \in 1..Len(t)
        /\ \A i, j \in 1..Len(t) :
             /\ t[i].seq < t[j].seq <=> t[i].row < t[j].row
             /\ i < j => ObservedBefore(t[i].row, t[j].row)

\* Of what arrives in a conversation after the row that stopped it, no word is
\* kept, neither in the transcript nor on the row.
NothingKeptAfterStop ==
  \A s, r \in Row :
    /\ row[s].state = "materialized" /\ kind[row[s].msg] = "stop"
    /\ row[s].conv # None /\ s < r
    /\ row[r].conv = row[s].conv /\ kind[row[r].msg] # "stop"
    => ~row[r].kept /\ ~Appended(row[s].conv, r)

\* Every recorded message is settled in the end: lost enqueues, dead workers
\* and lost locks only delay it.
EveryMessageIsHandled == \A r \in Row : Pending(r) ~> ~Pending(r)

\* Capacity does not prevent an opt-out: a recorded STOP is settled.
StopIsHeard ==
  \A r \in Row : Pending(r) /\ kind[row[r].msg] = "stop" ~> ~Pending(r)
=============================================================================
