---------------------------- MODULE IngressProofs ----------------------------
(***************************************************************************)
(* Proofs about Ingress, for every number of workers, messages and rows:   *)
(* the types, that the rows of a phone are settled in the order they were  *)
(* recorded, that transcripts number them in it while they show them in    *)
(* the order of observation, and that nothing which follows a STOP is kept.*)
(***************************************************************************)
EXTENDS Ingress, FiniteSetTheorems, TLAPS

-----------------------------------------------------------------------------
(* Types.                                                                   *)

\* A recorded observation is one the type knows.
LEMMA InsertType ==
  ASSUME RowTypes, NEW r \in Row, NEW m \in Msg, NEW edit \in BOOLEAN,
         NEW words \in Words, Insert(r, m, edit, words)
  PROVE  row' \in [Row -> Observations]
<1>1. CASE UNCHANGED row
  BY <1>1 DEF RowTypes
<1>2. ASSUME NEW at \in Time, row' = [row EXCEPT ![r] = Observation(m, edit, words, at)]
      PROVE  row' \in [Row -> Observations]
  <2>1. Observation(m, edit, words, at) \in Observations
    BY DEF Observation, Observations, States, None
  <2>2. row \in [Row -> Observations]
    BY DEF RowTypes
  <2>. QED  BY <1>2, <2>1, <2>2
<1>. QED  BY <1>1, <1>2 DEF Insert

\* Leaving a row takes a worker to the next one, another page or the unlock.
LEMMA AfterType ==
  ASSUME WorkTypes, NEW w \in Worker, NEW r \in Row,
         wk[w].pc \notin {"idle", "lock"}, wk' = After(w, r), UNCHANGED lock
  PROVE  WorkTypes'
<1> DEFINE rest == wk[w].todo \ {r}
           pc == IF r = wk[w].target THEN "unlock"
                 ELSE IF rest = {} THEN "list" ELSE "route"
           new == [wk[w] EXCEPT !.todo = rest, !.route = NoRoute, !.pc = pc]
<1>1. wk' = [wk EXCEPT ![w] = new]
  BY DEF After
<1>2. wk \in [Worker -> Workers] /\ wk[w] \in Workers
  BY DEF WorkTypes
<1>3. /\ new \in Workers
      /\ new.pc \in {"unlock", "list", "route"}
      /\ new.target = wk[w].target
  BY <1>2 DEF Workers, NoRoute, None
<1>. HIDE DEF new
<1>4. wk' \in [Worker -> Workers]
  BY <1>1, <1>2, <1>3
<1>5. wk'[w] = new /\ \A v \in Worker \ {w} : wk'[v] = wk[v]
  BY <1>1, <1>2
<1>6. \A v \in Worker : /\ wk'[v].pc # "idle" => wk'[v].target \in Row
                        /\ wk'[v].pc = "flag" => wk'[v].route.conv \in Conv
  BY <1>3, <1>5 DEF WorkTypes
<1>7. lock' \in Worker \cup {NoWorker}
      /\ (lock' # NoWorker => wk'[lock'].pc \notin {"idle", "lock"})
  BY <1>3, <1>5 DEF WorkTypes
<1>. QED  BY <1>4, <1>6, <1>7 DEF WorkTypes

\* A worker that stops gives up the lock if it still holds it.
LEMMA IdleType ==
  ASSUME WorkTypes, NEW w \in Worker, wk' = [wk EXCEPT ![w] = IdleWorker],
         lock' = IF lock = w THEN NoWorker ELSE lock
  PROVE  WorkTypes'
<1>1. IdleWorker \in Workers /\ IdleWorker.pc = "idle"
  BY DEF IdleWorker, Workers, NoRoute, None
<1>2. wk'[w] = IdleWorker /\ \A v \in Worker \ {w} : wk'[v] = wk[v]
  BY DEF WorkTypes
<1>3. wk' \in [Worker -> Workers]
  BY <1>1 DEF WorkTypes
<1>. QED  BY <1>1, <1>2, <1>3 DEF WorkTypes

\* A worker that moves on to a pc of its own keeps its target.
LEMMA MoveType ==
  ASSUME WorkTypes, NEW w \in Worker, NEW new \in Workers,
         wk' = [wk EXCEPT ![w] = new],
         new.pc \notin {"idle", "lock"}, new.target \in Row,
         new.pc = "flag" => new.route.conv \in Conv,
         lock' \in {lock, w}
  PROVE  WorkTypes'
<1>1. wk'[w] = new /\ \A v \in Worker \ {w} : wk'[v] = wk[v]
  BY DEF WorkTypes
<1>2. wk' \in [Worker -> Workers]
  BY DEF WorkTypes
<1>. QED  BY <1>1, <1>2 DEF WorkTypes

\* A committed materialization leaves everything but the transcript, the
\* lifecycle and consent typed.
LEMMA CommitType ==
  ASSUME TypeOK, NEW w \in Worker, NEW r \in Row, NEW c \in Conv \cup {None},
         NEW state \in States, NEW keep \in BOOLEAN,
         NEW new \in SUBSET (Reasons \X (Row \cup {None})),
         wk[w].pc \notin {"idle", "lock"},
         Commit(w, r, c, state, keep, new)
  PROVE  /\ RowTypes' /\ PubTypes' /\ WorkTypes'
         /\ reasons' \in [Conv -> SUBSET (Reasons \X (Row \cup {None}))]
         /\ deliveries' \in Nat /\ faults' \in Nat
<1>1. row' \in [Row -> Observations]
  <2>1. row \in [Row -> Observations] /\ row[r] \in Observations
    BY DEF TypeOK, RowTypes
  <2>2. (keep /\ row[r].kept) \in BOOLEAN
    OBVIOUS
  <2>3. Settled(r, c, state, keep) \in Observations
    BY <2>1, <2>2 DEF Settled, Observations
  <2>. QED  BY <2>1, <2>3 DEF Commit
<1>2. RowTypes' /\ PubTypes'
  BY <1>1 DEF TypeOK, RowTypes, PubTypes, Commit
<1>3. WorkTypes'
  BY AfterType DEF TypeOK, Commit
<1>4. reasons' \in [Conv -> SUBSET (Reasons \X (Row \cup {None}))]
  BY DEF TypeOK, ConvTypes, Commit
<1>. QED  BY <1>2, <1>3, <1>4 DEF TypeOK, Commit, bounds

\* What the array with one turn more holds.
LEMMA WithTurnHolds ==
  ASSUME ConvTypes, NEW c \in Conv, NEW r \in Row, NEW n \in 0..Len(turns[c])
  PROVE  LET new == WithTurn(c, r, n)
             size == Len(turns[c]) + 1
         IN  /\ new \in Seq(Turns) /\ Len(new) = size
             /\ \A i \in 1..n : i \in 1..Len(turns[c]) /\ new[i] = turns[c][i]
             /\ new[n + 1] = [row |-> r, seq |-> size]
             /\ \A i \in (n + 2)..size :
                  i - 1 \in (n + 1)..Len(turns[c]) /\ new[i] = turns[c][i - 1]
<1> DEFINE t == turns[c]
           size == Len(t) + 1
           last == [row |-> r, seq |-> size]
           new == [i \in 1..size |-> IF i <= n THEN t[i]
                                     ELSE IF i = n + 1 THEN last ELSE t[i - 1]]
<1>1. t \in Seq(Turns) /\ Len(t) \in Nat /\ n \in Nat /\ n <= Len(t)
  BY DEF ConvTypes
<1>2. \A i \in 1..Len(t) : t[i] \in Turns
  BY <1>1
<1>3. last \in Turns
  BY <1>1 DEF Turns
<1>4. WithTurn(c, r, n) = new
  BY DEF WithTurn
<1> HIDE DEF t, last
<1>5. \A i \in 1..size : new[i] \in Turns
  <2> SUFFICES ASSUME NEW i \in 1..size
               PROVE  (IF i <= n THEN t[i] ELSE IF i = n + 1 THEN last ELSE t[i - 1]) \in Turns
    OBVIOUS
  <2>1. i <= n => i \in 1..Len(t)
    BY <1>1
  <2>2. ~(i <= n) /\ i # n + 1 => i - 1 \in 1..Len(t)
    BY <1>1
  <2> QED
    BY <1>2, <1>3, <2>1, <2>2
<1>6. size \in Nat /\ new \in [1..size -> Turns]
  BY <1>1, <1>5
<1>7. new \in Seq(Turns) /\ Len(new) = size
  BY <1>6
<1>8. \A i \in 1..n : i \in 1..Len(t) /\ new[i] = t[i]
  BY <1>1
<1>9. new[n + 1] = last
  BY <1>1
<1>10. \A i \in (n + 2)..size : i - 1 \in (n + 1)..Len(t) /\ new[i] = t[i - 1]
  BY <1>1
<1> QED
  BY <1>4, <1>7, <1>8, <1>9, <1>10 DEF t, last

\* The transcript stays a sequence of turns.
LEMMA AppendType ==
  ASSUME ConvTypes, NEW c \in Conv, NEW r \in Row, Append1(c, r) \/ UNCHANGED turns
  PROVE  turns' \in [Conv -> Seq(Turns)]
<1>1. turns \in [Conv -> Seq(Turns)]
  BY DEF ConvTypes
<1>2. ASSUME NEW n \in 0..Len(turns[c]), turns' = [turns EXCEPT ![c] = WithTurn(c, r, n)]
      PROVE  turns' \in [Conv -> Seq(Turns)]
  <2>1. WithTurn(c, r, n) \in Seq(Turns)
    BY WithTurnHolds
  <2> QED
    BY <1>1, <1>2, <2>1
<1> QED
  BY <1>1, <1>2 DEF Append1

\* Groups of variables an action leaves alone stay typed.
LEMMA Frame ==
  /\ RowTypes /\ UNCHANGED <<kind, row, queue>> => RowTypes'
  /\ PubTypes /\ UNCHANGED pub => PubTypes'
  /\ WorkTypes /\ UNCHANGED <<wk, lock>> => WorkTypes'
  /\ ConvTypes /\ UNCHANGED convVars => ConvTypes'
BY DEF RowTypes, PubTypes, WorkTypes, ConvTypes, convVars

\* A publisher moves on to another row, another pc, or nothing.
LEMMA PubType ==
  ASSUME PubTypes, NEW p \in Publisher, NEW new \in Publications,
         pub' = [pub EXCEPT ![p] = new],
         new.pc # "idle" => new.row \in Row /\ new.msg \in Msg,
         new.pc = "edit" => new.edit \in Words
  PROVE  PubTypes'
<1>1. pub'[p] = new /\ \A q \in Publisher \ {p} : pub'[q] = pub[q]
  BY DEF PubTypes
<1>2. pub' \in [Publisher -> Publications]
  BY DEF PubTypes
<1>. QED  BY <1>1, <1>2 DEF PubTypes

\* The end of ensurePendingQueued.
LEMMA PublishedType ==
  ASSUME PubTypes, NEW p \in Publisher, pub[p].pc \in {"check", "add"}, Published(p)
  PROVE  PubTypes'
<1> DEFINE new == IF pub[p].edit = "none" THEN IdlePub
                  ELSE [pub[p] EXCEPT !.pc = "edit"]
<1>1. pub' = [pub EXCEPT ![p] = new]
  BY DEF Published
<1>2. pub[p] \in Publications
  BY DEF PubTypes
<1>3. new \in Publications
  BY <1>2 DEF Publications, IdlePub, None
<1>4. new.pc # "idle" => new.row \in Row /\ new.msg \in Msg
  BY <1>2 DEF PubTypes, Publications, IdlePub
<1>5. new.pc = "edit" => new.edit \in Words
  BY <1>2 DEF Publications, IdlePub
<1>. QED
  <2>. HIDE DEF new
  <2>. QED  BY <1>1, <1>3, <1>4, <1>5, PubType

\* Recording keeps every type.
LEMMA RecordType ==
  ASSUME TypeOK, Record
  PROVE  TypeOK'
<1> USE DEF TypeOK
<1>1. ASSUME NEW m \in Msg, NEW words \in Words, Deliver(m, words)
      PROVE  TypeOK'
  <2>1. PICK r \in Row :
          /\ Insert(r, m, FALSE, words)
          /\ pub' = [pub EXCEPT !["webhook"] =
                      [pc |-> "check", row |-> r, msg |-> m,
                       edit |-> IF LooksEdited(r, m, words) THEN words ELSE "none"]]
    BY <1>1 DEF Deliver
  <2>2. RowTypes'
    BY <1>1, <2>1, InsertType DEF Deliver, RowTypes
  <2>3. PubTypes'
    <3> DEFINE new == [pc |-> "check", row |-> r, msg |-> m,
                       edit |-> IF LooksEdited(r, m, words) THEN words ELSE "none"]
    <3>1. new \in Publications /\ new.pc = "check" /\ new.row = r /\ new.msg = m
      BY DEF Publications
    <3>2. "webhook" \in Publisher
      BY DEF Publisher
    <3>3. pub' = [pub EXCEPT !["webhook"] = new]
      BY <2>1
    <3>. HIDE DEF new
    <3>. QED  BY <3>1, <3>2, <3>3, PubType
  <2>4. WorkTypes' /\ ConvTypes'
    BY <1>1, Frame DEF Deliver
  <2>5. deliveries' \in Nat /\ faults' \in Nat
    BY <1>1 DEF Deliver
  <2>. QED  BY <2>2, <2>3, <2>4, <2>5
<1>2. CASE DeliverEdit
  <2> DEFINE was == pub["webhook"]
  <2>1. "webhook" \in Publisher /\ was.pc = "edit"
    BY <1>2 DEF DeliverEdit, Publisher
  <2>2. was.msg \in Msg /\ was.edit \in Words
    BY <2>1 DEF PubTypes
  <2>3. PICK r \in Row :
          /\ Insert(r, was.msg, TRUE, was.edit)
          /\ pub' = [pub EXCEPT !["webhook"] =
                      [pc |-> "check", row |-> r, msg |-> was.msg, edit |-> "none"]]
    BY <1>2 DEF DeliverEdit
  <2>4. RowTypes'
    BY <1>2, <2>2, <2>3, InsertType DEF DeliverEdit, RowTypes
  <2>5. PubTypes'
    <3> DEFINE new == [pc |-> "check", row |-> r, msg |-> was.msg, edit |-> "none"]
    <3>1. new \in Publications /\ new.pc = "check" /\ new.row = r /\ new.msg \in Msg
      BY <2>2 DEF Publications
    <3>2. pub' = [pub EXCEPT !["webhook"] = new]
      BY <2>3
    <3>. HIDE DEF new
    <3>. QED  BY <2>1, <3>1, <3>2, PubType
  <2>6. WorkTypes' /\ ConvTypes' /\ deliveries' \in Nat /\ faults' \in Nat
    BY <1>2, Frame DEF DeliverEdit, bounds
  <2>. QED  BY <2>4, <2>5, <2>6
<1>3. ASSUME NEW r \in Row, Sweep(r)
      PROVE  TypeOK'
  <2> DEFINE new == [pc |-> "check", row |-> r, msg |-> row[r].msg, edit |-> "none"]
  <2>1. row[r].msg \in Msg
    BY DEF RowTypes, Observations
  <2>2. new \in Publications /\ new.pc = "check" /\ new.row = r /\ new.msg \in Msg
    BY <2>1 DEF Publications
  <2>3. "sweep" \in Publisher /\ pub' = [pub EXCEPT !["sweep"] = new]
    BY <1>3 DEF Sweep, Publisher
  <2>4. PubTypes'
    <3>. HIDE DEF new
    <3>. QED  BY <2>2, <2>3, PubType
  <2>. QED  BY <1>3, <2>4, Frame DEF Sweep, bounds
<1>4. ASSUME NEW p \in Publisher, CheckQueued(p)
      PROVE  TypeOK'
  <2>1. PubTypes'
    <3>1. CASE Published(p)
      BY <1>4, <3>1, PublishedType DEF CheckQueued
    <3>2. CASE pub' = [pub EXCEPT ![p].pc = "add"]
      <4> DEFINE new == [pub[p] EXCEPT !.pc = "add"]
      <4>1. pub[p] \in Publications /\ pub[p].row \in Row /\ pub[p].msg \in Msg
        BY <1>4 DEF PubTypes, CheckQueued
      <4>2. new \in Publications /\ new.pc = "add"
            /\ new.row = pub[p].row /\ new.msg = pub[p].msg
        BY <4>1 DEF Publications
      <4>3. pub' = [pub EXCEPT ![p] = new]
        BY <3>2
      <4>. HIDE DEF new
      <4>. QED  BY <4>1, <4>2, <4>3, PubType
    <3>. QED  BY <1>4, <3>1, <3>2 DEF CheckQueued
  <2>2. RowTypes'
    BY <1>4 DEF CheckQueued, RowTypes
  <2>. QED  BY <1>4, <2>1, <2>2, Frame DEF CheckQueued, bounds
<1>5. ASSUME NEW p \in Publisher, AddJob(p)
      PROVE  TypeOK'
  <2>1. PubTypes'
    BY <1>5, PublishedType DEF AddJob
  <2>2. RowTypes'
    BY <1>5 DEF AddJob, RowTypes
  <2>. QED  BY <1>5, <2>1, <2>2, Frame DEF AddJob, bounds
<1>6. ASSUME NEW p \in Publisher, EnqueueLost(p)
      PROVE  TypeOK'
  <2>1. IdlePub \in Publications /\ IdlePub.pc = "idle"
    BY DEF IdlePub, Publications, None
  <2>2. PubTypes'
    BY <1>6, <2>1, PubType DEF EnqueueLost
  <2>. QED  BY <1>6, <2>2, Frame DEF EnqueueLost, Fault
<1>. QED  BY <1>1, <1>2, <1>3, <1>4, <1>5, <1>6 DEF Record

\* What a lookup finds.
LEMMA RouteType ==
  ASSUME ConvTypes, NEW to \in Routes
  PROVE  /\ to \in [conv : Conv \cup {None}, life : {"none", "open", "ended", "stopped"}]
         /\ to.conv # None => to.conv \in Conv
BY DEF ConvTypes, Routes, NoRoute, None

\* A job that fails for good.
LEMMA ThrowsType ==
  ASSUME TypeOK, NEW w \in Worker, wk[w].pc # "idle", Throws(w)
  PROVE  TypeOK'
<1>1. RowTypes'
  BY DEF TypeOK, RowTypes, WorkTypes, Throws
<1>2. WorkTypes'
  BY IdleType DEF TypeOK, Throws
<1>. QED  BY <1>1, <1>2, Frame DEF TypeOK, Throws, bounds

\* The loser of a race for a row.
LEMMA LosesType ==
  ASSUME TypeOK, NEW w \in Worker, NEW r \in Row,
         wk[w].pc \notin {"idle", "lock"}, Loses(w, r)
  PROVE  TypeOK'
<1>1. WorkTypes'
  BY AfterType DEF TypeOK, Loses
<1>. QED  BY <1>1, Frame DEF TypeOK, Loses, bounds

\* Flagging a message nobody can append.
LEMMA FlagType ==
  ASSUME TypeOK, NEW w \in Worker, NEW r \in Row, NEW c \in Conv,
         NEW reason \in Reasons, wk[w].pc \notin {"idle", "lock"},
         Flag(w, r, c, reason)
  PROVE  TypeOK'
<1> DEFINE new == {<<reason, None>>}
<1>1. CASE Throws(w)
  BY <1>1, ThrowsType
<1>2. CASE Commit(w, r, c, "failed", TRUE, new) /\ UNCHANGED <<conv, turns, consent>>
  <2>1. new \in SUBSET (Reasons \X (Row \cup {None})) /\ "failed" \in States
    BY DEF States
  <2>. HIDE DEF new
  <2>. QED  BY <1>2, <2>1, CommitType DEF TypeOK, ConvTypes
<1>. QED  BY <1>1, <1>2 DEF Flag

\* Every way a worker applies a row keeps the types.
LEMMA ApplyType ==
  ASSUME TypeOK, NEW w \in Worker, NEW r \in Row, Apply(w, r)
  PROVE  TypeOK'
<1> DEFINE c == wk[w].route.conv
<1>1. wk[w].pc = "apply" /\ c \in Conv \cup {None} /\ wk[w].target \in Row
  BY DEF Apply, TypeOK, WorkTypes, Workers
<1>2. CASE Loses(w, r)
  BY <1>1, <1>2, LosesType
<1>3. CASE IgnoreUnmatched(w, r)
  <2>1. "ignored" \in States /\ None \in Conv \cup {None}
    BY DEF States
  <2>. QED  BY <1>1, <1>3, <2>1, CommitType DEF IgnoreUnmatched, TypeOK, ConvTypes
<1>4. ASSUME c # None, ApplyOrdinary(w, r, c)
      PROVE  TypeOK'
  <2>1. c \in Conv
    BY <1>1, <1>4
  <2>2. CASE Throws(w)
    BY <1>1, <2>2, ThrowsType
  <2>3. CASE /\ wk' = [wk EXCEPT ![w].pc = "flag"]
             /\ UNCHANGED <<kind, row, queue, pub, lock, convVars, bounds>>
    <3> DEFINE new == [wk[w] EXCEPT !.pc = "flag"]
    <3>1. new \in Workers /\ new.pc = "flag" /\ new.target \in Row /\ new.route.conv \in Conv
      BY <1>1, <2>1 DEF TypeOK, WorkTypes, Workers
    <3>2. wk' = [wk EXCEPT ![w] = new] /\ lock' = lock
      BY <2>3
    <3>3. WorkTypes'
      <4>. HIDE DEF new
      <4>. QED  BY <3>1, <3>2, MoveType DEF TypeOK
    <3>. QED  BY <2>3, <3>3, Frame DEF TypeOK, bounds
  <2>4. CASE /\ Commit(w, r, c, "materialized", TRUE, EditReason(r, TRUE))
             /\ Append1(c, r)
             /\ UNCHANGED <<conv, consent>>
    <3>1. EditReason(r, TRUE) \in SUBSET (Reasons \X (Row \cup {None}))
      BY DEF EditReason, Reasons
    <3>2. "materialized" \in States
      BY DEF States
    <3>3. turns' \in [Conv -> Seq(Turns)]
      BY <2>1, <2>4, AppendType DEF TypeOK
    <3>. QED  BY <1>1, <2>4, <3>1, <3>2, <3>3, CommitType DEF TypeOK, ConvTypes
  <2>. QED  BY <1>4, <2>2, <2>3, <2>4 DEF ApplyOrdinary
<1>5. ASSUME c # None, Flag(w, r, c, "unreadable_message")
      PROVE  TypeOK'
  <2>1. "unreadable_message" \in Reasons
    BY DEF Reasons
  <2>. QED  BY <1>1, <1>5, <2>1, FlagType
<1>6. ASSUME c # None, ApplyPostClosure(w, r, c)
      PROVE  TypeOK'
  <2>1. c \in Conv
    BY <1>1, <1>6
  <2> DEFINE retains == wk[w].route.life = "ended"
             wants   == retains /\ kind[row[r].msg] = "text"
             appends == wants /\ Fits(c, r)
             new == {<<"post_closure_message", IF appends THEN r ELSE None>>}
                \cup (IF wants /\ ~appends THEN {<<"transcript_full", None>>} ELSE {})
  <2>2. CASE Throws(w)
    BY <1>1, <2>2, ThrowsType
  <2>3. CASE /\ Commit(w, r, c, "materialized", retains, new)
             /\ AppendIf(appends, c, r)
             /\ UNCHANGED <<conv, consent>>
    <3>1. new \in SUBSET (Reasons \X (Row \cup {None}))
      BY DEF Reasons
    <3>2. "materialized" \in States /\ retains \in BOOLEAN
      BY DEF States
    <3>3. turns' \in [Conv -> Seq(Turns)]
      BY <2>1, <2>3, AppendType DEF TypeOK, AppendIf
    <3>4. Commit(w, r, c, "materialized", retains, new) /\ UNCHANGED <<conv, consent>>
      BY <2>3
    <3>5. RowTypes' /\ PubTypes' /\ WorkTypes' /\ deliveries' \in Nat /\ faults' \in Nat
          /\ reasons' \in [Conv -> SUBSET (Reasons \X (Row \cup {None}))]
      <4>. HIDE DEF new, retains, wants, appends, c
      <4>. QED  BY <1>1, <3>4, <3>1, <3>2, CommitType
    <3>6. ConvTypes'
      BY <3>3, <3>4, <3>5 DEF TypeOK, ConvTypes
    <3>. QED  BY <3>5, <3>6 DEF TypeOK
  <2>. QED  BY <1>6, <2>2, <2>3 DEF ApplyPostClosure
<1>7. ASSUME c # None, ApplyStop(w, r, c)
      PROVE  TypeOK'
  <2>1. c \in Conv
    BY <1>1, <1>7
  <2> DEFINE wants   == wk[w].route.life = "open"
             appends == wants /\ Fits(c, r)
             new == (IF c \in Silent THEN {<<"stopped_without_answers",
                                              IF appends THEN r ELSE None>>} ELSE {})
                \cup (IF wants /\ ~appends THEN {<<"transcript_full", None>>} ELSE {})
                \cup EditReason(r, appends)
  <2>2. CASE Throws(w)
    BY <1>1, <2>2, ThrowsType
  <2>3. CASE /\ Commit(w, r, c, "materialized", TRUE, new)
             /\ AppendIf(appends, c, r)
             /\ conv' = [conv EXCEPT ![c] = "stopped"]
             /\ consent' = FALSE
    <3>1. new \in SUBSET (Reasons \X (Row \cup {None}))
      BY DEF Reasons, EditReason
    <3>2. "materialized" \in States
      BY DEF States
    <3>3. turns' \in [Conv -> Seq(Turns)]
      BY <2>1, <2>3, AppendType DEF TypeOK, AppendIf
    <3>4. conv' \in [Conv -> {"none", "open", "ended", "stopped"}] /\ consent' \in BOOLEAN
      BY <2>3 DEF TypeOK, ConvTypes
    <3>. HIDE DEF new
    <3>. QED  BY <1>1, <2>3, <3>1, <3>2, <3>3, <3>4, CommitType DEF TypeOK, ConvTypes
  <2>. QED  BY <1>7, <2>2, <2>3 DEF ApplyStop
<1>. QED  BY <1>2, <1>3, <1>4, <1>5, <1>6, <1>7 DEF Apply

\* Materialization keeps every type.
LEMMA MaterializeType ==
  ASSUME TypeOK, Materialize
  PROVE  TypeOK'
<1> USE DEF TypeOK
<1>1. ASSUME NEW w \in Worker, NEW r \in Row, Take(w, r)
      PROVE  TypeOK'
  <2> DEFINE new == [IdleWorker EXCEPT !.pc = "lock", !.target = r]
  <2>1. new \in Workers /\ new.pc = "lock" /\ new.target = r
    BY DEF IdleWorker, Workers, NoRoute, None
  <2>2. wk' = [wk EXCEPT ![w] = new] /\ wk[w].pc = "idle" /\ lock' = lock
    BY <1>1 DEF Take
  <2>3. WorkTypes'
    <3>. HIDE DEF new
    <3>1. wk' \in [Worker -> Workers]
      BY <2>1, <2>2 DEF WorkTypes
    <3>2. wk'[w] = new /\ \A v \in Worker \ {w} : wk'[v] = wk[v]
      BY <2>2 DEF WorkTypes
    <3>. QED  BY <2>1, <2>2, <3>1, <3>2 DEF WorkTypes
  <2>4. RowTypes'
    BY <1>1 DEF Take, RowTypes
  <2>. QED  BY <1>1, <2>3, <2>4, Frame DEF Take, bounds
<1>2. ASSUME NEW w \in Worker, Lock(w)
      PROVE  TypeOK'
  <2> DEFINE new == [wk[w] EXCEPT !.pc = "list"]
  <2>1. new \in Workers /\ new.pc = "list" /\ new.target \in Row
    BY <1>2 DEF Lock, WorkTypes, Workers
  <2>2. wk' = [wk EXCEPT ![w] = new] /\ lock' = w
    BY <1>2 DEF Lock
  <2>3. WorkTypes'
    <3>. HIDE DEF new
    <3>. QED  BY <2>1, <2>2, MoveType
  <2>. QED  BY <1>2, <2>3, Frame DEF Lock, bounds
<1>3. ASSUME NEW w \in Worker, List(w)
      PROVE  TypeOK'
  <2> DEFINE rows == PendingThrough(wk[w].target)
             new == IF Pending(wk[w].target)
                    THEN [wk[w] EXCEPT !.pc = "route", !.todo = rows]
                    ELSE [wk[w] EXCEPT !.pc = "unlock"]
  <2>1. wk[w] \in Workers /\ wk[w].target \in Row
    BY <1>3 DEF List, WorkTypes
  <2>2. rows \subseteq Row
    <3>1. rows \subseteq 1..wk[w].target
      BY DEF PendingThrough, Page
    <3>2. 1..wk[w].target \subseteq Row
      BY <2>1, IngressAssumption DEF Row
    <3>. QED  BY <3>1, <3>2
  <2>3. new \in Workers /\ new.pc \in {"route", "unlock"} /\ new.target \in Row
    <3>. HIDE DEF rows
    <3>. QED  BY <2>1, <2>2 DEF Workers
  <2>4. wk' = [wk EXCEPT ![w] = new] /\ lock' = lock
    BY <1>3 DEF List
  <2>5. WorkTypes'
    <3>. HIDE DEF new
    <3>. QED  BY <2>3, <2>4, MoveType
  <2>. QED  BY <1>3, <2>5, Frame DEF List, bounds
<1>4. ASSUME NEW w \in Worker, NEW r \in Row, Route(w, r)
      PROVE  TypeOK'
  <2>1. CASE wk' = After(w, r)
    <3>1. WorkTypes'
      BY <1>4, <2>1, AfterType DEF Route
    <3>. QED  BY <1>4, <3>1, Frame DEF Route, bounds
  <2>2. ASSUME NEW to \in Routes, wk' = [wk EXCEPT ![w].pc = "apply", ![w].route = to]
        PROVE  TypeOK'
    <3> DEFINE new == [wk[w] EXCEPT !.pc = "apply", !.route = to]
    <3>1. new \in Workers /\ new.pc = "apply" /\ new.target \in Row
      BY <1>4, RouteType DEF Route, WorkTypes, Workers
    <3>2. wk' = [wk EXCEPT ![w] = new] /\ lock' = lock
      BY <1>4, <2>2 DEF Route
    <3>3. WorkTypes'
      <4>. HIDE DEF new
      <4>. QED  BY <3>1, <3>2, MoveType
    <3>. QED  BY <1>4, <3>3, Frame DEF Route, bounds
  <2>. QED  BY <1>4, <2>1, <2>2 DEF Route
<1>5. ASSUME NEW w \in Worker, NEW r \in Row, FlagFull(w, r)
      PROVE  TypeOK'
  <2>1. wk[w].pc = "flag" /\ wk[w].route.conv \in Conv
    BY <1>5 DEF FlagFull, WorkTypes
  <2>2. "transcript_full" \in Reasons
    BY DEF Reasons
  <2>. QED  BY <1>5, <2>1, <2>2, LosesType, FlagType DEF FlagFull
<1>6. ASSUME NEW w \in Worker, Unlock(w)
      PROVE  TypeOK'
  <2>1. WorkTypes'
    BY <1>6, IdleType DEF Unlock
  <2>2. RowTypes'
    BY <1>6 DEF Unlock, RowTypes
  <2>. QED  BY <1>6, <2>1, <2>2, Frame DEF Unlock, bounds
<1>7. ASSUME NEW w \in Worker, Fails(w)
      PROVE  TypeOK'
  <2>1. WorkTypes'
    BY <1>7, IdleType DEF Fails
  <2>2. RowTypes'
    BY <1>7 DEF Fails, RowTypes
  <2>. QED  BY <1>7, <2>1, <2>2, Frame DEF Fails, Fault
<1>8. CASE LoseLock
  <2>1. WorkTypes'
    BY <1>8 DEF LoseLock, WorkTypes
  <2>. QED  BY <1>8, <2>1, Frame DEF LoseLock, Fault
<1>. QED
  BY <1>1, <1>2, <1>3, <1>4, <1>5, <1>6, <1>7, <1>8, ApplyType DEF Materialize, WorkerStep

LEMMA TypeStep ==
  ASSUME TypeOK, [Next]_vars
  PROVE  TypeOK'
<1>1. CASE UNCHANGED vars
  BY <1>1, Frame DEF TypeOK, vars, bounds
<1>2. ASSUME NEW c \in Conv, Close(c) \/ Launch(c)
      PROVE  TypeOK'
  <2>1. ConvTypes'
    BY <1>2 DEF TypeOK, ConvTypes, Close, Launch
  <2>. QED  BY <1>2, <2>1, Frame DEF TypeOK, Close, Launch, bounds
<1>. QED  BY <1>1, <1>2, RecordType, MaterializeType DEF Next

LEMMA TypeInit == Init => TypeOK
<1> SUFFICES ASSUME Init PROVE TypeOK
  OBVIOUS
<1>1. RowTypes
  BY IngressAssumption DEF Init, RowTypes, Observations, States, Words, Msg, Time, None
<1>2. PubTypes
  BY DEF Init, PubTypes, Publications, IdlePub, Publisher, None
<1>3. WorkTypes
  BY IngressAssumption DEF Init, WorkTypes, Workers, IdleWorker, NoRoute, None
<1>4. ConvTypes
  <2>1. <<>> \in Seq(Row)
    OBVIOUS
  <2>. QED  BY <2>1 DEF Init, ConvTypes
<1>. QED  BY <1>1, <1>2, <1>3, <1>4 DEF Init, TypeOK

\* Every variable keeps its type in every behaviour, for any instance.
THEOREM TypeCorrect == Spec => []TypeOK
BY TypeInit, TypeStep, PTL DEF Spec

-----------------------------------------------------------------------------
(* Order.  Why rows are settled in the order they were recorded: what a     *)
(* worker holds of the queue is always a lowest part of it.                 *)

\* Rows are recorded without gaps.
Prefix ==
  \A r \in Row : row[r].state # "absent" =>
    \A q \in 1..(r - 1) : row[q].state # "absent"

\* Whatever is older than a row of a worker's page is settled, or on the page.
Drained ==
  \A w \in Worker : \A r \in wk[w].todo :
    /\ row[r].state # "absent"
    /\ \A q \in 1..(r - 1) : Handled(q) \/ q \in wk[w].todo

OrderInv == TypeOK /\ Prefix /\ HandledInOrder /\ Drained

\* What a step does to the rows and to the pages of the workers.
Quiet == UNCHANGED row /\ \A w \in Worker : wk'[w].todo \in {wk[w].todo, {}}

Recorded == \E r \in Row :
  /\ Free(r)
  /\ row'[r].state = "pending"
  /\ \A q \in Row \ {r} : row'[q] = row[q]
  /\ \A w \in Worker : wk'[w].todo = wk[w].todo

Left(w, r) ==
  /\ At(w, r)
  /\ wk'[w].todo = wk[w].todo \ {r}
  /\ \A v \in Worker \ {w} : wk'[v].todo = wk[v].todo

Skipped == \E w \in Worker, r \in Row : Left(w, r) /\ ~Pending(r) /\ UNCHANGED row

Committed == \E w \in Worker, r \in Row :
  /\ Left(w, r)
  /\ row'[r].state \in {"materialized", "failed", "ignored"}
  /\ \A q \in Row \ {r} : row'[q] = row[q]

Listed == \E w \in Worker :
  /\ UNCHANGED row
  /\ wk[w].target \in Row
  /\ wk'[w].todo = PendingThrough(wk[w].target)
  /\ \A v \in Worker \ {w} : wk'[v].todo = wk[v].todo

\* A worker that leaves its row drops it from its page.
LEMMA AfterLeaves ==
  ASSUME TypeOK, NEW w \in Worker, NEW r \in Row, At(w, r), wk' = After(w, r)
  PROVE  Left(w, r)
BY DEF TypeOK, WorkTypes, Workers, After, Left

LEMMA CommitCommits ==
  ASSUME TypeOK, NEW w \in Worker, NEW r \in Row, At(w, r), NEW c, NEW keep, NEW new,
         NEW state \in {"materialized", "failed", "ignored"},
         Commit(w, r, c, state, keep, new)
  PROVE  Committed
<1>1. Left(w, r)
  BY AfterLeaves DEF Commit
<1>2. row \in [Row -> Observations] /\ row' = [row EXCEPT ![r] = Settled(r, c, state, keep)]
  BY DEF Commit, TypeOK, RowTypes
<1>3. Settled(r, c, state, keep).state = state
  BY <1>2 DEF Settled, Observations
<1>. QED  BY <1>1, <1>2, <1>3 DEF Committed

\* A worker that gives up drops its page.
LEMMA IdleIsQuiet ==
  ASSUME TypeOK, NEW w \in Worker, wk' = [wk EXCEPT ![w] = IdleWorker], UNCHANGED row
  PROVE  Quiet
BY DEF TypeOK, WorkTypes, IdleWorker, Quiet

LEMMA InsertRecords ==
  ASSUME TypeOK, NEW r \in Row, NEW m, NEW edit, NEW words, Insert(r, m, edit, words),
         UNCHANGED wk
  PROVE  Quiet \/ Recorded
<1>1. CASE UNCHANGED row
  BY <1>1 DEF Quiet
<1>2. ASSUME NEW at \in Time, Free(r), row' = [row EXCEPT ![r] = Observation(m, edit, words, at)]
      PROVE  Recorded
  <2>1. Observation(m, edit, words, at).state = "pending"
    BY DEF Observation
  <2>. QED  BY <1>2, <2>1 DEF TypeOK, RowTypes, Recorded
<1>. QED  BY <1>1, <1>2 DEF Insert

\* Every step of a worker that applies a row is one of these.
LEMMA ApplySteps ==
  ASSUME TypeOK, NEW w \in Worker, NEW r \in Row, Apply(w, r) \/ FlagFull(w, r)
  PROVE  Quiet \/ Skipped \/ Committed
<1>1. At(w, r)
  BY DEF Apply, FlagFull
<1>2. CASE Loses(w, r)
  BY <1>1, <1>2, AfterLeaves DEF Loses, Skipped
<1>3. CASE Throws(w)
  BY <1>3, IdleIsQuiet DEF Throws
<1>4. ASSUME NEW c, NEW state \in {"materialized", "failed", "ignored"}, NEW keep, NEW new,
             Commit(w, r, c, state, keep, new)
      PROVE  Committed
  BY <1>1, <1>4, CommitCommits
<1>5. CASE IgnoreUnmatched(w, r)
  BY <1>4, <1>5 DEF IgnoreUnmatched
<1>6. ASSUME NEW c, ApplyOrdinary(w, r, c)
      PROVE  Quiet \/ Committed
  <2>1. CASE wk' = [wk EXCEPT ![w].pc = "flag"] /\ UNCHANGED row
    BY <2>1 DEF TypeOK, WorkTypes, Workers, Quiet
  <2>2. CASE Throws(w)
    BY <2>2, IdleIsQuiet DEF Throws
  <2>3. CASE Commit(w, r, c, "materialized", TRUE, EditReason(r, TRUE))
    BY <1>4, <2>3
  <2>4. \/ Commit(w, r, c, "materialized", TRUE, EditReason(r, TRUE))
        \/ wk' = [wk EXCEPT ![w].pc = "flag"] /\ UNCHANGED row
        \/ Throws(w)
    BY <1>6 DEF ApplyOrdinary
  <2>. QED  BY <2>1, <2>2, <2>3, <2>4
<1>7. ASSUME NEW c, NEW reason, Flag(w, r, c, reason)
      PROVE  Quiet \/ Committed
  BY <1>3, <1>4, <1>7, IdleIsQuiet DEF Flag, Throws
<1>8. ASSUME NEW c, ApplyPostClosure(w, r, c)
      PROVE  Quiet \/ Committed
  BY <1>4, <1>8, IdleIsQuiet DEF ApplyPostClosure, Throws
<1>9. ASSUME NEW c, ApplyStop(w, r, c)
      PROVE  Quiet \/ Committed
  BY <1>4, <1>9, IdleIsQuiet DEF ApplyStop, Throws
<1>. QED
  BY <1>2, <1>5, <1>6, <1>7, <1>8, <1>9 DEF Apply, FlagFull

\* So is every step.
LEMMA Steps ==
  ASSUME TypeOK, [Next]_vars
  PROVE  Quiet \/ Recorded \/ Skipped \/ Committed \/ Listed
<1>1. CASE UNCHANGED <<row, wk>>
  BY <1>1 DEF Quiet
<1>2. ASSUME NEW m \in Msg, NEW words \in Words, Deliver(m, words)
      PROVE  Quiet \/ Recorded
  BY <1>2, InsertRecords DEF Deliver
<1>3. CASE DeliverEdit
  BY <1>3, InsertRecords DEF DeliverEdit
<1>4. ASSUME NEW p \in Publisher, CheckQueued(p) \/ AddJob(p) \/ EnqueueLost(p)
      PROVE  Quiet
  BY <1>1, <1>4 DEF CheckQueued, AddJob, EnqueueLost, Quiet
<1>5. ASSUME NEW r \in Row, Sweep(r)
      PROVE  Quiet
  BY <1>5 DEF Sweep, Quiet
<1>6. ASSUME NEW w \in Worker, NEW r \in Row, Take(w, r)
      PROVE  Quiet
  BY <1>6 DEF Take, TypeOK, WorkTypes, IdleWorker, Quiet
<1>7. ASSUME NEW w \in Worker, Lock(w)
      PROVE  Quiet
  BY <1>7 DEF Lock, TypeOK, WorkTypes, Workers, Quiet
<1>8. ASSUME NEW w \in Worker, List(w)
      PROVE  Quiet \/ Listed
  <2> DEFINE rows == PendingThrough(wk[w].target)
  <2>1. wk \in [Worker -> Workers] /\ wk[w].target \in Row /\ UNCHANGED row
    BY <1>8 DEF List, TypeOK, WorkTypes
  <2>2. CASE wk' = [wk EXCEPT ![w].pc = "unlock"]
    BY <2>1, <2>2 DEF Workers, Quiet
  <2>3. CASE wk' = [wk EXCEPT ![w].pc = "route", ![w].todo = rows]
    <3>. HIDE DEF rows
    <3>1. wk'[w].todo = rows /\ \A v \in Worker \ {w} : wk'[v] = wk[v]
      BY <2>1, <2>3 DEF Workers
    <3>. QED  BY <2>1, <3>1 DEF Listed, rows
  <2>. QED  BY <1>8, <2>2, <2>3 DEF List
<1>9. ASSUME NEW w \in Worker, NEW r \in Row, Route(w, r)
      PROVE  Quiet \/ Skipped
  <2>1. CASE ~Pending(r) /\ wk' = After(w, r)
    BY <1>9, <2>1, AfterLeaves DEF Route, Skipped
  <2>2. ASSUME NEW to \in Routes, wk' = [wk EXCEPT ![w].pc = "apply", ![w].route = to]
        PROVE  Quiet
    BY <1>9, <2>2 DEF Route, TypeOK, WorkTypes, Workers, Quiet
  <2>. QED  BY <1>9, <2>1, <2>2 DEF Route
<1>10. ASSUME NEW w \in Worker, Unlock(w) \/ Fails(w)
       PROVE  Quiet
  BY <1>10, IdleIsQuiet DEF Unlock, Fails
<1>11. CASE LoseLock
  BY <1>11 DEF LoseLock, Quiet
<1>12. ASSUME NEW c \in Conv, Close(c) \/ Launch(c)
       PROVE  Quiet
  BY <1>12 DEF Close, Launch, Quiet
<1>. QED
  BY <1>1, <1>2, <1>3, <1>4, <1>5, <1>6, <1>7, <1>8, <1>9, <1>10, <1>11, <1>12, ApplySteps
  DEF Next, Record, Materialize, WorkerStep, vars

\* A page is a lowest part of what is pending.
LEMMA PageIsLowest ==
  ASSUME NEW S \in SUBSET Nat, IsFiniteSet(S), NEW r \in Page(S), NEW q \in S, q < r
  PROVE  q \in Page(S)
<1> DEFINE Below(x) == {s \in S : s < x}
<1>1. r \in S /\ Cardinality(Below(r)) < BatchSize
  BY DEF Page
<1>2. Below(q) \subseteq Below(r) /\ IsFiniteSet(Below(r))
  <2>1. ASSUME NEW s \in S, s < q
        PROVE  s < r
    <3>1. s \in Nat /\ q \in Nat /\ r \in Nat
      BY <1>1
    <3>. HIDE DEF Below
    <3>. QED  BY <2>1, <3>1
  <2>2. Below(r) \subseteq S
    OBVIOUS
  <2>3. Below(q) \subseteq Below(r)
    BY <2>1
  <2>. QED  BY <2>2, <2>3, FS_Subset
<1>3. Cardinality(Below(q)) <= Cardinality(Below(r))
  BY <1>2, FS_Subset
<1>4. Cardinality(Below(q)) \in Nat /\ Cardinality(Below(r)) \in Nat
  BY <1>2, FS_Subset, FS_CardinalityType
<1>5. Cardinality(Below(q)) < BatchSize
  BY <1>1, <1>3, <1>4, IngressAssumption
<1>. QED  BY <1>5 DEF Page

LEMMA OrderStep ==
  ASSUME OrderInv, [Next]_vars
  PROVE  OrderInv'
<1>1. TypeOK'
  BY TypeStep DEF OrderInv
<1>2. /\ row \in [Row -> Observations] /\ row' \in [Row -> Observations]
      /\ \A w \in Worker : wk[w].todo \subseteq Row
  BY <1>1 DEF OrderInv, TypeOK, RowTypes, WorkTypes, Workers
<1>3. \A r \in Row : r \in Nat /\ 1..(r - 1) \subseteq Row
  BY IngressAssumption DEF Row
<1>4. CASE Quiet
  <2>1. UNCHANGED row /\ \A w \in Worker : wk'[w].todo \in {wk[w].todo, {}}
    BY <1>4 DEF Quiet
  <2>2. Prefix' /\ HandledInOrder'
    BY <2>1 DEF OrderInv, Prefix, HandledInOrder, Handled
  <2>3. Drained'
    BY <2>1 DEF OrderInv, Drained, Handled
  <2>. QED  BY <1>1, <2>2, <2>3 DEF OrderInv
<1>5. CASE Recorded
  <2>1. PICK r \in Row : /\ Free(r)
                         /\ row'[r].state = "pending"
                         /\ \A q \in Row \ {r} : row'[q] = row[q]
                         /\ \A w \in Worker : wk'[w].todo = wk[w].todo
    BY <1>5 DEF Recorded
  <2>2. \A q \in Row : Handled(q) => Handled(q)' /\ q # r
    BY <2>1 DEF Handled, Free
  <2>3. \A q \in Row : Handled(q)' => Handled(q) /\ q # r
    BY <2>1 DEF Handled
  <2>4. Prefix'
    BY <1>2, <1>3, <2>1 DEF OrderInv, Prefix, Free
  <2>5. HandledInOrder'
    BY <1>3, <2>2, <2>3 DEF OrderInv, HandledInOrder
  <2>6. Drained'
    BY <1>2, <1>3, <2>1, <2>2 DEF OrderInv, Drained
  <2>. QED  BY <1>1, <2>4, <2>5, <2>6 DEF OrderInv
<1>6. ASSUME NEW w \in Worker, NEW r \in Row, Left(w, r), Handled(r)',
             \A q \in Row \ {r} : row'[q] = row[q]
      PROVE  Prefix' /\ HandledInOrder' /\ Drained'
  <2>1. r \in wk[w].todo /\ row[r].state # "absent"
        /\ \A q \in 1..(r - 1) : Handled(q)
    <3>1. r \in wk[w].todo /\ \A q \in 1..(r - 1) : q \notin wk[w].todo
      BY <1>3, <1>6 DEF Left, At
    <3>. QED  BY <3>1 DEF OrderInv, Drained
  <2>2. \A q \in Row : Handled(q) => Handled(q)'
    BY <1>6 DEF Handled
  <2>3. \A q \in Row : row'[q].state = "absent" <=> row[q].state = "absent"
    BY <1>6, <2>1 DEF Handled
  <2>4. Prefix'
    BY <1>3, <2>3 DEF OrderInv, Prefix
  <2>5. HandledInOrder'
    <3>1. \A q \in Row : Handled(q)' => q = r \/ Handled(q)
      BY <1>6 DEF Handled
    <3>. QED  BY <1>3, <2>1, <2>2, <3>1 DEF OrderInv, HandledInOrder
  <2>6. Drained'
    <3>1. \A v \in Worker : /\ wk'[v].todo \subseteq wk[v].todo
                            /\ wk[v].todo \subseteq wk'[v].todo \cup {r}
      BY <1>6 DEF Left
    <3>. QED  BY <1>2, <1>3, <1>6, <2>2, <2>3, <3>1 DEF OrderInv, Drained
  <2>. QED  BY <2>4, <2>5, <2>6
<1>7. CASE Skipped
  <2>1. PICK w \in Worker, r \in Row : Left(w, r) /\ ~Pending(r) /\ UNCHANGED row
    BY <1>7 DEF Skipped
  <2>2. Handled(r)'
    BY <1>2, <2>1 DEF OrderInv, Drained, Left, At, Pending, Handled, Observations, States
  <2>. QED  BY <1>1, <1>6, <2>1, <2>2 DEF OrderInv
<1>8. CASE Committed
  <2>1. PICK w \in Worker, r \in Row :
          /\ Left(w, r)
          /\ row'[r].state \in {"materialized", "failed", "ignored"}
          /\ \A q \in Row \ {r} : row'[q] = row[q]
    BY <1>8 DEF Committed
  <2>. QED  BY <1>1, <1>6, <2>1 DEF OrderInv, Handled
<1>9. CASE Listed
  <2>1. PICK w \in Worker :
          /\ UNCHANGED row
          /\ wk[w].target \in Row
          /\ wk'[w].todo = PendingThrough(wk[w].target)
          /\ \A v \in Worker \ {w} : wk'[v].todo = wk[v].todo
    BY <1>9 DEF Listed
  <2> DEFINE S == {q \in 1..wk[w].target : Pending(q)}
  <2>2. S \in SUBSET Nat /\ IsFiniteSet(S) /\ 1..wk[w].target \subseteq Row
    <3>1. wk[w].target \in Nat
      BY <1>3, <2>1
    <3>2. IsFiniteSet(1..wk[w].target)
      BY <3>1, FS_Interval
    <3>. QED  BY <3>1, <3>2, <2>1, FS_Subset, IngressAssumption DEF Row
  <2>3. ASSUME NEW r \in wk'[w].todo
        PROVE  /\ row[r].state # "absent"
               /\ \A q \in 1..(r - 1) : Handled(q) \/ q \in wk'[w].todo
    <3>1. wk'[w].todo = Page(S)
      BY <2>1 DEF PendingThrough
    <3>2. r \in Page(S) /\ r \in S /\ Pending(r)
      BY <2>3, <3>1 DEF Page
    <3>3. ASSUME NEW q \in 1..(r - 1)
          PROVE  Handled(q) \/ q \in Page(S)
      <4>1. r \in Row /\ q \in Row /\ q < r /\ q \in 1..wk[w].target
        BY <1>3, <2>1, <2>2, <3>2, <3>3
      <4>2. row[q].state # "absent"
        BY <3>2, <3>3, <4>1 DEF OrderInv, Prefix, Pending
      <4>3. CASE Pending(q)
        <5>1. q \in S
          BY <4>1, <4>3
        <5>. HIDE DEF S
        <5>. QED  BY <2>2, <3>2, <4>1, <5>1, PageIsLowest
      <4>4. CASE ~Pending(q)
        BY <1>2, <4>1, <4>2, <4>4 DEF Pending, Handled, Observations, States
      <4>. QED  BY <4>3, <4>4
    <3>. QED  BY <3>1, <3>2, <3>3 DEF Pending
  <2>4. Drained'
    <3>1. \A q \in Row : Handled(q)' <=> Handled(q)
      BY <2>1 DEF Handled
    <3>. QED  BY <1>3, <2>1, <2>3, <3>1 DEF OrderInv, Drained, Handled
  <2>. QED  BY <1>1, <2>1, <2>4 DEF OrderInv, Prefix, HandledInOrder, Handled
<1>. QED  BY <1>4, <1>5, <1>7, <1>8, <1>9, <1>1, Steps DEF OrderInv

LEMMA OrderInit == Init => OrderInv
<1> SUFFICES ASSUME Init PROVE OrderInv
  OBVIOUS
<1>1. \A r \in Row : row[r].state = "absent"
  BY DEF Init
<1>2. \A w \in Worker : wk[w].todo = {}
  BY DEF Init, IdleWorker
<1>. QED
  BY <1>1, <1>2, TypeInit DEF OrderInv, Prefix, HandledInOrder, Drained, Handled

\* The rows of a phone are settled in the order they were recorded, with any
\* number of workers, lost locks, crashes and retries.
THEOREM InOrder == Spec => []HandledInOrder
<1>1. Spec => []OrderInv
  BY OrderInit, OrderStep, PTL DEF Spec
<1>2. OrderInv => HandledInOrder
  BY DEF OrderInv
<1>. QED  BY <1>1, <1>2, PTL

-----------------------------------------------------------------------------
(* What is kept.  A worker looks a row up when every older row is settled,  *)
(* so a STOP among them has stopped the conversation it finds.              *)

\* Only settled rows are in a transcript or belong to a conversation.
TurnsAreHandled ==
  /\ \A c \in Conv : \A i \in 1..Len(turns[c]) : Handled(turns[c][i].row)
  /\ \A r \in Row : ~Handled(r) => row[r].conv = None

\* Row s stopped conversation c.
Stops(s, c) ==
  row[s].state = "materialized" /\ kind[row[s].msg] = "stop" /\ row[s].conv = c /\ c # None

\* A stopped conversation stays stopped.
StopsStand == \A s \in Row, c \in Conv : Stops(s, c) => conv[c] = "stopped"

\* A worker knows of every STOP before its row.
RoutesKnowStops ==
  \A w \in Worker :
    /\ wk[w].pc \in {"apply", "flag"} =>
         \A r \in Row, s \in Row : At(w, r) /\ s < r /\ Stops(s, wk[w].route.conv)
                                     => wk[w].route.life = "stopped"
    /\ wk[w].pc = "flag" => wk[w].route.life = "open"

KeepInv ==
  /\ TurnsAreHandled /\ StopsStand /\ RoutesKnowStops
  /\ TranscriptInOrder /\ NothingKeptAfterStop

\* How the lookup of a worker changes.
Looks(w) ==
  \/ /\ wk'[w].todo = wk[w].todo /\ wk'[w].route = wk[w].route /\ wk'[w].pc = wk[w].pc
  \/ wk'[w].pc \notin {"apply", "flag"}
  \/ /\ wk[w].pc = "apply" /\ wk'[w].todo = wk[w].todo /\ wk'[w].route = wk[w].route
     /\ wk'[w].pc = "flag" /\ wk[w].route.life = "open"
  \/ /\ wk'[w].pc = "apply" /\ wk'[w].todo = wk[w].todo /\ wk'[w].route \in Routes

\* What a step does to the rows, the transcripts and the conversations.
Silently ==
  /\ UNCHANGED <<row, turns, kind>>
  /\ \A c \in Conv : conv[c] = "stopped" => conv'[c] = "stopped"
  /\ \A w \in Worker : Looks(w)

Inserted == \E r \in Row :
  /\ Free(r) /\ row'[r].state = "pending" /\ row'[r].conv = None
  /\ \A q \in Row \ {r} : row'[q] = row[q]
  /\ UNCHANGED <<turns, kind, conv, wk>>

Settling(w, r) ==
  LET c == wk[w].route.conv
      stop == kind[row[r].msg] = "stop"
  IN  /\ wk[w].pc \in {"apply", "flag"} /\ At(w, r) /\ Pending(r) /\ UNCHANGED kind
      /\ wk'[w].pc \notin {"apply", "flag"} /\ \A v \in Worker \ {w} : wk'[v] = wk[v]
      /\ \A q \in Row \ {r} : row'[q] = row[q]
      /\ row'[r].msg = row[r].msg /\ row'[r].at = row[r].at /\ row'[r].conv = c
      /\ row'[r].state \in {"materialized", "failed", "ignored"}
      /\ \/ conv' = conv
         \/ c \in Conv /\ conv' = [conv EXCEPT ![c] = "stopped"]
      /\ stop /\ row'[r].state = "materialized" /\ c # None => conv'[c] = "stopped"
      /\ \/ turns' = turns
         \/ c \in Conv /\ \E n \in 0..Len(turns[c]) :
              Behind(c, r, n) /\ turns' = [turns EXCEPT ![c] = WithTurn(c, r, n)]
      /\ ~stop /\ c # None /\ wk[w].route.life = "stopped" => ~row'[r].kept /\ turns' = turns

\* A worker commits what it decided about a row.
LEMMA CommitSettles ==
  ASSUME TypeOK, NEW w \in Worker, NEW r \in Row, wk[w].pc \in {"apply", "flag"},
         At(w, r), Pending(r), NEW keep \in BOOLEAN, NEW new,
         NEW state \in {"materialized", "failed", "ignored"},
         Commit(w, r, wk[w].route.conv, state, keep, new),
         \/ conv' = conv
         \/ /\ wk[w].route.conv \in Conv
            /\ conv' = [conv EXCEPT ![wk[w].route.conv] = "stopped"],
         kind[row[r].msg] = "stop" /\ state = "materialized" /\ wk[w].route.conv # None
           => conv'[wk[w].route.conv] = "stopped",
         \/ turns' = turns
         \/ wk[w].route.conv \in Conv /\ Append1(wk[w].route.conv, r),
         kind[row[r].msg] # "stop" /\ wk[w].route.conv # None /\ wk[w].route.life = "stopped"
           => ~keep /\ turns' = turns
  PROVE  Settling(w, r)
<1> DEFINE c == wk[w].route.conv
           new_row == Settled(r, c, state, keep)
<1>1. row \in [Row -> Observations] /\ wk \in [Worker -> Workers]
  BY DEF TypeOK, RowTypes, WorkTypes
<1>2. /\ row' = [row EXCEPT ![r] = new_row] /\ wk' = After(w, r) /\ UNCHANGED kind
  BY DEF Commit
<1>3. /\ new_row.state = state /\ new_row.conv = c
      /\ new_row.msg = row[r].msg /\ new_row.at = row[r].at
      /\ ~keep => ~new_row.kept
  BY <1>1 DEF Settled, Observations
<1> HIDE DEF new_row
<1>4. /\ row'[r] = new_row /\ \A q \in Row \ {r} : row'[q] = row[q]
  BY <1>1, <1>2
<1>5. wk'[w].pc \notin {"apply", "flag"} /\ \A v \in Worker \ {w} : wk'[v] = wk[v]
  BY <1>1, <1>2 DEF After, Workers
<1>6. \/ turns' = turns
      \/ c \in Conv /\ \E n \in 0..Len(turns[c]) :
           Behind(c, r, n) /\ turns' = [turns EXCEPT ![c] = WithTurn(c, r, n)]
  BY DEF Append1
<1> QED
  BY <1>2, <1>3, <1>4, <1>5, <1>6 DEF Settling

\* A worker that looks away from its row.
LEMMA LooksAway ==
  ASSUME TypeOK, NEW w \in Worker, UNCHANGED <<row, turns, kind, conv>>,
         \/ \E r \in Row : wk' = After(w, r)
         \/ wk' = [wk EXCEPT ![w] = IdleWorker]
         \/ /\ wk[w].pc = "apply" /\ wk[w].route.life = "open"
            /\ wk' = [wk EXCEPT ![w].pc = "flag"]
  PROVE  Silently
<1>1. wk \in [Worker -> Workers]
  BY DEF TypeOK, WorkTypes
<1>2. \A v \in Worker \ {w} : wk'[v] = wk[v]
  BY <1>1 DEF After
<1>3. Looks(w)
  <2>1. ASSUME NEW r \in Row, wk' = After(w, r) PROVE wk'[w].pc \notin {"apply", "flag"}
    BY <1>1, <2>1 DEF After, Workers
  <2>2. CASE wk' = [wk EXCEPT ![w] = IdleWorker]
    BY <1>1, <2>2 DEF Looks, IdleWorker
  <2>3. CASE /\ wk[w].pc = "apply" /\ wk[w].route.life = "open"
             /\ wk' = [wk EXCEPT ![w].pc = "flag"]
    BY <1>1, <2>3 DEF Looks, Workers
  <2> QED
    BY <2>1, <2>2, <2>3 DEF Looks
<1> QED
  BY <1>2, <1>3 DEF Silently, Looks

LEMMA ApplyKeeps ==
  ASSUME TypeOK, RoutesKnowStops, NEW w \in Worker, NEW r \in Row, Apply(w, r) \/ FlagFull(w, r)
  PROVE  Silently \/ Settling(w, r)
<1> DEFINE c == wk[w].route.conv
<1>1. At(w, r) /\ wk[w].pc \in {"apply", "flag"} /\ c \in Conv \cup {None}
  BY DEF Apply, FlagFull, TypeOK, WorkTypes, Workers
<1>2. CASE Loses(w, r)
  BY <1>2, LooksAway DEF Loses, convVars
<1>3. CASE Throws(w)
  BY <1>3, LooksAway DEF Throws, convVars
<1>4. CASE Pending(r) /\ IgnoreUnmatched(w, r)
  <2>1. c = None /\ Commit(w, r, c, "ignored", TRUE, {}) /\ UNCHANGED <<conv, turns>>
    BY <1>4 DEF IgnoreUnmatched
  <2> QED
    BY <1>1, <1>4, <2>1, CommitSettles
<1>5. ASSUME Pending(r), c # None, ApplyOrdinary(w, r, c) PROVE Silently \/ Settling(w, r)
  <2>1. wk[w].route.life = "open" /\ kind[row[r].msg] = "text"
    BY <1>5 DEF ApplyOrdinary
  <2>2. CASE Throws(w)
    BY <1>3, <2>2
  <2>3. CASE Commit(w, r, c, "materialized", TRUE, EditReason(r, TRUE))
             /\ Append1(c, r) /\ UNCHANGED <<conv, consent>>
    BY <1>1, <1>5, <2>1, <2>3, CommitSettles
  <2>4. CASE wk' = [wk EXCEPT ![w].pc = "flag"] /\ UNCHANGED <<kind, row, queue, pub, lock, convVars>>
    <3>1. CASE wk[w].pc = "apply"
      BY <2>1, <2>4, <3>1, LooksAway DEF convVars
    <3>2. CASE wk[w].pc = "flag"
      BY <2>4, <3>2 DEF TypeOK, WorkTypes, Workers, Silently, Looks, convVars
    <3> QED
      BY <1>1, <3>1, <3>2
  <2> QED
    BY <1>5, <2>2, <2>3, <2>4 DEF ApplyOrdinary, bounds
<1>6. ASSUME Pending(r), c # None, wk[w].route.life = "open",
             NEW reason, Flag(w, r, c, reason)
      PROVE  Silently \/ Settling(w, r)
  <2>1. CASE Throws(w)
    BY <1>3, <2>1
  <2>2. CASE Commit(w, r, c, "failed", TRUE, {<<reason, None>>}) /\ UNCHANGED <<conv, turns, consent>>
    BY <1>1, <1>6, <2>2, CommitSettles
  <2> QED
    BY <1>6, <2>1, <2>2 DEF Flag
<1>7. ASSUME Pending(r), c # None, ApplyPostClosure(w, r, c) PROVE Silently \/ Settling(w, r)
  <2> DEFINE retains == wk[w].route.life = "ended"
             wants == retains /\ kind[row[r].msg] = "text"
             appends == wants /\ Fits(c, r)
  <2>1. CASE Throws(w)
    BY <1>3, <2>1
  <2>2. ASSUME NEW new, Commit(w, r, c, "materialized", retains, new),
               AppendIf(appends, c, r), UNCHANGED <<conv, consent>>
        PROVE  Settling(w, r)
    <3>1. kind[row[r].msg] # "stop" /\ (wk[w].route.life = "stopped" => ~retains /\ turns' = turns)
      BY <1>7, <2>2 DEF ApplyPostClosure, AppendIf
    <3>2. turns' = turns \/ (c \in Conv /\ Append1(c, r))
      BY <1>1, <1>7, <2>2 DEF AppendIf
    <3>3. retains \in BOOLEAN
      OBVIOUS
    <3> HIDE DEF retains, appends
    <3> QED
      BY <1>1, <1>7, <2>2, <3>1, <3>2, <3>3, CommitSettles
  <2> QED
    BY <1>7, <2>1, <2>2 DEF ApplyPostClosure
<1>8. ASSUME Pending(r), c # None, ApplyStop(w, r, c) PROVE Silently \/ Settling(w, r)
  <2> DEFINE wants == wk[w].route.life = "open"
             appends == wants /\ Fits(c, r)
  <2>1. CASE Throws(w)
    BY <1>3, <2>1
  <2>2. ASSUME NEW new, Commit(w, r, c, "materialized", TRUE, new),
               AppendIf(appends, c, r),
               conv' = [conv EXCEPT ![c] = "stopped"]
        PROVE  Settling(w, r)
    <3>1. turns' = turns \/ (c \in Conv /\ Append1(c, r))
      BY <1>1, <1>8, <2>2 DEF AppendIf
    <3>2. kind[row[r].msg] = "stop" /\ c \in Conv /\ conv'[c] = "stopped"
      BY <1>1, <1>8, <2>2 DEF ApplyStop, TypeOK, ConvTypes
    <3> HIDE DEF appends
    <3> QED
      BY <1>1, <1>8, <2>2, <3>1, <3>2, CommitSettles
  <2> QED
    BY <1>8, <2>1, <2>2 DEF ApplyStop
<1>9. CASE Apply(w, r)
  BY <1>2, <1>4, <1>5, <1>6, <1>7, <1>8, <1>9 DEF Apply
<1>10. CASE FlagFull(w, r)
  <2>1. wk[w].route.life = "open" /\ c \in Conv /\ c # None
    BY <1>10, IngressAssumption DEF FlagFull, RoutesKnowStops, TypeOK, WorkTypes, Conv, None
  <2> QED
    BY <1>2, <1>6, <1>10, <2>1 DEF FlagFull
<1> QED
  BY <1>9, <1>10

\* Recording keeps the transcripts.
LEMMA InsertKeeps ==
  ASSUME TypeOK, NEW r \in Row, NEW m, NEW edit, NEW words, Insert(r, m, edit, words),
         UNCHANGED <<turns, kind, conv, wk>>
  PROVE  Silently \/ Inserted
<1>1. CASE UNCHANGED row
  BY <1>1 DEF Silently, Looks
<1>2. ASSUME NEW at \in Time, Free(r), row' = [row EXCEPT ![r] = Observation(m, edit, words, at)]
      PROVE  Inserted
  <2>1. /\ Observation(m, edit, words, at).state = "pending"
        /\ Observation(m, edit, words, at).conv = None
    BY DEF Observation
  <2> QED
    BY <1>2, <2>1 DEF TypeOK, RowTypes, Inserted
<1> QED
  BY <1>1, <1>2 DEF Insert

\* The lookup itself.
LEMMA RouteLooks ==
  ASSUME TypeOK, NEW w \in Worker, NEW r \in Row, Route(w, r)
  PROVE  Silently
<1>1. CASE wk' = After(w, r)
  BY <1>1, LooksAway DEF Route, convVars
<1>2. ASSUME NEW to \in Routes, wk' = [wk EXCEPT ![w].pc = "apply", ![w].route = to]
      PROVE  Silently
  <2>1. wk \in [Worker -> Workers]
    BY DEF TypeOK, WorkTypes
  <2>2. wk' = [wk EXCEPT ![w] = [wk[w] EXCEPT !.pc = "apply", !.route = to]]
    BY <1>2
  <2>3. wk'[w].pc = "apply" /\ wk'[w].todo = wk[w].todo /\ wk'[w].route = to
    BY <2>1, <2>2 DEF Workers
  <2>4. \A v \in Worker \ {w} : wk'[v] = wk[v]
    BY <2>1, <2>2
  <2> QED
    BY <1>2, <2>3, <2>4 DEF Route, convVars, Silently, Looks
<1> QED
  BY <1>1, <1>2 DEF Route

\* Every step is one of these.
LEMMA KeepSteps ==
  ASSUME TypeOK, RoutesKnowStops, [Next]_vars
  PROVE  \/ Silently \/ Inserted
         \/ \E w \in Worker, r \in Row : Settling(w, r)
<1> DEFINE Still == UNCHANGED <<row, turns, kind, conv>>
<1>1. ASSUME Still, UNCHANGED wk PROVE Silently
  BY <1>1 DEF Silently, Looks
<1>2. ASSUME NEW m \in Msg, NEW words \in Words, Deliver(m, words)
      PROVE  Silently \/ Inserted
  BY <1>2, InsertKeeps DEF Deliver, convVars
<1>3. CASE DeliverEdit
  BY <1>3, InsertKeeps DEF DeliverEdit, convVars
<1>4. ASSUME NEW p \in Publisher, CheckQueued(p) \/ AddJob(p) \/ EnqueueLost(p)
      PROVE  Silently
  BY <1>1, <1>4 DEF CheckQueued, AddJob, EnqueueLost, convVars
<1>5. ASSUME NEW r \in Row, Sweep(r) PROVE Silently
  BY <1>1, <1>5 DEF Sweep, convVars
<1>6. ASSUME NEW w \in Worker, Still, NEW new, wk' = [wk EXCEPT ![w] = new],
             new.pc \notin {"apply", "flag"}
      PROVE  Silently
  <2>1. wk'[w] = new /\ \A v \in Worker \ {w} : wk'[v] = wk[v]
    BY <1>6 DEF TypeOK, WorkTypes
  <2> QED
    BY <1>6, <2>1 DEF Silently, Looks
<1>7. ASSUME NEW w \in Worker, NEW r \in Row, Take(w, r) PROVE Silently
  <2> DEFINE new == [IdleWorker EXCEPT !.pc = "lock", !.target = r]
  <2>1. new.pc = "lock" /\ Still /\ wk' = [wk EXCEPT ![w] = new]
    BY <1>7 DEF Take, convVars, IdleWorker
  <2> HIDE DEF new
  <2> QED
    BY <1>6, <2>1
<1>8. ASSUME NEW w \in Worker, Lock(w) PROVE Silently
  <2> DEFINE new == [wk[w] EXCEPT !.pc = "list"]
  <2>1. new.pc = "list" /\ Still /\ wk' = [wk EXCEPT ![w] = new]
    BY <1>8 DEF Lock, convVars, TypeOK, WorkTypes, Workers
  <2> HIDE DEF new
  <2> QED
    BY <1>6, <2>1
<1>9. ASSUME NEW w \in Worker, List(w) PROVE Silently
  <2> DEFINE rows == PendingThrough(wk[w].target)
             paged == [wk[w] EXCEPT !.pc = "route", !.todo = rows]
             done == [wk[w] EXCEPT !.pc = "unlock"]
  <2>1. wk[w] \in Workers
    BY DEF TypeOK, WorkTypes
  <2>2. paged.pc = "route" /\ done.pc = "unlock"
    <3> HIDE DEF rows
    <3> QED
      BY <2>1 DEF Workers
  <2>3. Still /\ (wk' = [wk EXCEPT ![w] = paged] \/ wk' = [wk EXCEPT ![w] = done])
    <3> HIDE DEF rows
    <3> QED
      BY <1>9 DEF List, convVars, rows
  <2> HIDE DEF paged, done
  <2> QED
    BY <1>6, <2>2, <2>3
<1>10. ASSUME NEW w \in Worker, NEW r \in Row, Route(w, r) PROVE Silently
  BY <1>10, RouteLooks
<1>11. ASSUME NEW w \in Worker, Unlock(w) \/ Fails(w) PROVE Silently
  BY <1>11, LooksAway DEF Unlock, Fails, convVars
<1>12. CASE LoseLock
  BY <1>1, <1>12 DEF LoseLock, convVars
<1>13. ASSUME NEW c \in Conv, Close(c) \/ Launch(c) PROVE Silently
  BY <1>13 DEF Close, Launch, Silently, Looks, TypeOK, ConvTypes
<1>14. CASE UNCHANGED vars
  BY <1>1, <1>14 DEF vars, convVars
<1> QED
  BY <1>2, <1>3, <1>4, <1>5, <1>7, <1>8, <1>9, <1>10, <1>11, <1>12, <1>13, <1>14, ApplyKeeps
  DEF Next, Record, Materialize, WorkerStep

\* Nothing older than a worker's row is left to settle.
LEMMA OlderIsHandled ==
  ASSUME OrderInv, NEW w \in Worker, NEW r \in Row, At(w, r), NEW q \in Row, q < r
  PROVE  Handled(q)
<1>1. q \in 1..(r - 1) /\ q \notin wk[w].todo
  BY IngressAssumption DEF At, Row
<1> QED
  BY <1>1 DEF OrderInv, Drained, At

\* Nothing younger than a pending row is settled.
LEMMA YoungerIsNot ==
  ASSUME OrderInv, NEW r \in Row, ~Handled(r), NEW q \in Row, Handled(q)
  PROVE  q < r
<1>1. q # r /\ q \in Nat /\ r \in Nat /\ 1 <= r
  BY IngressAssumption DEF Row
<1>2. CASE r < q
  <2>1. r \in 1..(q - 1)
    BY <1>1, <1>2
  <2> QED
    BY <2>1 DEF OrderInv, HandledInOrder
<1> QED
  BY <1>1, <1>2

LEMMA KeepSilent ==
  ASSUME OrderInv, KeepInv, Silently
  PROVE  KeepInv'
<1>1. UNCHANGED <<row, turns, kind>>
  BY DEF Silently
<1>2. TurnsAreHandled' /\ TranscriptInOrder' /\ NothingKeptAfterStop'
  BY <1>1 DEF KeepInv, TurnsAreHandled, TranscriptInOrder, ObservedBefore,
             NothingKeptAfterStop, Handled, Appended
<1>3. \A s \in Row, c \in Conv : Stops(s, c)' <=> Stops(s, c)
  BY <1>1 DEF Stops
<1>4. StopsStand'
  BY <1>3 DEF KeepInv, StopsStand, Silently
<1>5. ASSUME NEW to \in Routes, NEW s \in Row, Stops(s, to.conv)
      PROVE  to.life = "stopped"
  <2>1. conv[to.conv] = "stopped" \/ to.conv \notin Conv
    BY <1>5 DEF KeepInv, StopsStand
  <2> QED
    BY <1>5, <2>1 DEF Routes, NoRoute, Stops
<1>6. ASSUME NEW w \in Worker, wk'[w].pc \in {"apply", "flag"},
             NEW r \in Row, NEW s \in Row, At(w, r)', s < r, Stops(s, wk'[w].route.conv)
      PROVE  wk'[w].route.life = "stopped"
  <2>1. CASE /\ wk'[w].todo = wk[w].todo /\ wk'[w].route = wk[w].route
             /\ wk[w].pc \in {"apply", "flag"}
    BY <1>6, <2>1 DEF KeepInv, RoutesKnowStops, At
  <2>2. CASE wk'[w].route \in Routes
    BY <1>5, <1>6, <2>2
  <2> QED
    BY <1>6, <2>1, <2>2 DEF Silently, Looks
<1>7. ASSUME NEW w \in Worker, wk'[w].pc = "flag" PROVE wk'[w].route.life = "open"
  BY <1>7 DEF Silently, Looks, KeepInv, RoutesKnowStops
<1>8. RoutesKnowStops'
  <2>1. \A w \in Worker, s \in Row : Stops(s, wk[w].route.conv)' <=> Stops(s, wk'[w].route.conv)
    BY <1>1 DEF Stops
  <2> QED
    BY <1>6, <1>7, <2>1 DEF RoutesKnowStops
<1> QED
  BY <1>2, <1>4, <1>8 DEF KeepInv

LEMMA KeepInserted ==
  ASSUME OrderInv, OrderInv', KeepInv, Inserted
  PROVE  KeepInv'
<1>1. PICK n \in Row : /\ Free(n) /\ row'[n].state = "pending" /\ row'[n].conv = None
                       /\ \A q \in Row \ {n} : row'[q] = row[q]
                       /\ UNCHANGED <<turns, kind, conv, wk>>
  BY DEF Inserted
<1>2. row[n].state = "absent" /\ \A q \in Row : Handled(q)' <=> Handled(q)
  BY <1>1 DEF Free, Handled
<1>3. \A s \in Row : \A c : Stops(s, c)' <=> Stops(s, c)
  BY <1>1, <1>2 DEF Stops
<1>4. \A c \in Conv : \A i \in 1..Len(turns[c]) : turns[c][i].row \in Row \ {n}
  <2>1. \A c \in Conv : \A i \in 1..Len(turns[c]) : turns[c][i] \in Turns
    BY DEF OrderInv, TypeOK, ConvTypes
  <2>2. \A c \in Conv : \A i \in 1..Len(turns[c]) : turns[c][i].row \in Row
    BY <2>1 DEF Turns
  <2> QED
    BY <1>2, <2>2 DEF KeepInv, TurnsAreHandled, Handled
<1>5. TurnsAreHandled'
  BY <1>1, <1>2, <1>4 DEF KeepInv, TurnsAreHandled
<1>6. StopsStand'
  BY <1>1, <1>3 DEF KeepInv, StopsStand
<1>7. RoutesKnowStops'
  BY <1>1, <1>3 DEF KeepInv, RoutesKnowStops, At
<1>8. TranscriptInOrder'
  <2>1. \A c \in Conv : \A i, j \in 1..Len(turns[c]) :
          ObservedBefore(turns[c][i].row, turns[c][j].row)
            => ObservedBefore(turns[c][i].row, turns[c][j].row)'
    BY <1>1, <1>4 DEF ObservedBefore
  <2> QED
    BY <1>1, <2>1 DEF KeepInv, TranscriptInOrder
<1>9. NothingKeptAfterStop'
  BY <1>1, <1>2 DEF KeepInv, NothingKeptAfterStop, Appended
<1> QED
  BY <1>5, <1>6, <1>7, <1>8, <1>9 DEF KeepInv

\* A turn behind the first n of a transcript that is in order: whatever is
\* behind it was observed later, and every other row was recorded earlier.
LEMMA WithTurnInOrder ==
  ASSUME OrderInv, KeepInv, NEW c \in Conv, NEW r \in Row, ~Handled(r),
         NEW n \in 0..Len(turns[c]), Behind(c, r, n)
  PROVE  LET new == WithTurn(c, r, n)
         IN  /\ \A i \in 1..Len(new) : new[i].seq \in 1..Len(new)
             /\ \A i, j \in 1..Len(new) :
                  /\ new[i].seq < new[j].seq <=> new[i].row < new[j].row
                  /\ i < j => ObservedBefore(new[i].row, new[j].row)
<1> DEFINE t == turns[c]
           new == WithTurn(c, r, n)
           size == Len(t) + 1
<1>1. /\ new \in Seq(Turns) /\ Len(new) = size
      /\ \A i \in 1..n : i \in 1..Len(t) /\ new[i] = t[i]
      /\ new[n + 1] = [row |-> r, seq |-> size]
      /\ \A i \in (n + 2)..size : i - 1 \in (n + 1)..Len(t) /\ new[i] = t[i - 1]
  BY WithTurnHolds DEF OrderInv, TypeOK
<1>2. Len(t) \in Nat /\ n \in Nat /\ n <= Len(t) /\ t \in Seq(Turns)
  BY DEF OrderInv, TypeOK, ConvTypes
<1>3. \A i \in 1..Len(t) : t[i].row \in Row /\ t[i].seq \in Nat
  <2>1. \A i \in 1..Len(t) : t[i] \in Turns
    BY <1>2
  <2> QED
    BY <2>1 DEF Turns
<1>4. \A q \in Row : q \in Nat /\ row[q].at \in Nat
  BY IngressAssumption DEF Row, Time, OrderInv, TypeOK, RowTypes, Observations
<1>5. \A i \in 1..Len(t) : t[i].row < r
  BY <1>3, YoungerIsNot DEF KeepInv, TurnsAreHandled
<1>6. /\ \A i \in 1..Len(t) : t[i].seq \in 1..Len(t)
      /\ \A i, j \in 1..Len(t) : t[i].seq < t[j].seq <=> t[i].row < t[j].row
      /\ \A i, j \in 1..Len(t) : i < j => ObservedBefore(t[i].row, t[j].row)
  BY DEF KeepInv, TranscriptInOrder
<1>7. /\ \A i \in 1..n : ObservedBefore(t[i].row, r)
      /\ \A i \in (n + 1)..Len(t) : ObservedBefore(r, t[i].row)
  <2>1. ASSUME NEW i \in 1..n PROVE ObservedBefore(t[i].row, r)
    <3>1. i \in 1..Len(t) /\ row[t[i].row].at <= row[r].at
      BY <1>2 DEF Behind
    <3> QED
      BY <1>3, <1>4, <1>5, <3>1 DEF ObservedBefore
  <2>2. ASSUME NEW i \in (n + 1)..Len(t) PROVE ObservedBefore(r, t[i].row)
    BY DEF Behind, ObservedBefore
  <2> QED
    BY <2>1, <2>2
<1> HIDE DEF t, new
\* the place in the old array
<1> DEFINE old(i) == IF i <= n THEN i ELSE i - 1
<1>8. \A i \in 1..size : i # n + 1 => old(i) \in 1..Len(t) /\ new[i] = t[old(i)]
  <2> SUFFICES ASSUME NEW i \in 1..size, i # n + 1
               PROVE  old(i) \in 1..Len(t) /\ new[i] = t[old(i)]
    OBVIOUS
  <2>1. CASE i <= n
    BY <1>1, <1>2, <2>1
  <2>2. CASE ~(i <= n)
    <3>1. i \in (n + 2)..size
      BY <1>2, <2>2
    <3>2. i - 1 \in 1..Len(t) /\ old(i) = i - 1
      BY <1>2, <2>2
    <3> QED
      BY <1>1, <3>1, <3>2
  <2> QED
    BY <2>1, <2>2
<1>9. new[n + 1].row = r /\ new[n + 1].seq = size /\ n + 1 \in 1..size
  BY <1>1, <1>2
<1>10. ASSUME NEW i \in 1..Len(new)
       PROVE  new[i].seq \in 1..Len(new)
  <2>1. i = n + 1 \/ (old(i) \in 1..Len(t) /\ new[i] = t[old(i)])
    BY <1>1, <1>8
  <2> HIDE DEF old
  <2> QED
    BY <1>1, <1>2, <1>6, <1>9, <2>1
<1>11. ASSUME NEW i \in 1..Len(new), NEW j \in 1..Len(new)
       PROVE  new[i].seq < new[j].seq <=> new[i].row < new[j].row
  <2>1. /\ i = n + 1 \/ (old(i) \in 1..Len(t) /\ new[i] = t[old(i)])
        /\ j = n + 1 \/ (old(j) \in 1..Len(t) /\ new[j] = t[old(j)])
    BY <1>1, <1>8
  <2> HIDE DEF old
  <2>2. r \in Nat /\ \A k \in 1..Len(t) : t[k].row \in Nat /\ t[k].seq \in Nat
    BY <1>3, <1>4
  <2>3. \A k \in 1..Len(t) : t[k].row < r /\ ~(r < t[k].row)
                             /\ t[k].seq < size /\ ~(size < t[k].seq)
    BY <1>2, <1>5, <1>6, <2>2
  <2>4. CASE i = n + 1 /\ j = n + 1
    BY <1>9, <1>2, <2>2, <2>4
  <2>5. CASE i = n + 1 /\ j # n + 1
    BY <1>9, <2>1, <2>3, <2>5
  <2>6. CASE i # n + 1 /\ j = n + 1
    BY <1>9, <2>1, <2>3, <2>6
  <2>7. CASE i # n + 1 /\ j # n + 1
    <3>1. PICK k \in 1..Len(t) : new[i] = t[k]
      BY <2>1, <2>7
    <3>2. PICK l \in 1..Len(t) : new[j] = t[l]
      BY <2>1, <2>7
    <3> QED
      BY <1>6, <3>1, <3>2
  <2> QED
    BY <2>4, <2>5, <2>6, <2>7
<1>12. ASSUME NEW i \in 1..Len(new), NEW j \in 1..Len(new), i < j
       PROVE  ObservedBefore(new[i].row, new[j].row)
  <2>1. /\ i # n + 1 => old(i) \in 1..Len(t) /\ new[i] = t[old(i)]
        /\ j # n + 1 => old(j) \in 1..Len(t) /\ new[j] = t[old(j)]
    BY <1>1, <1>8
  <2>2. CASE i # n + 1 /\ j # n + 1
    <3>1. old(i) < old(j)
      BY <1>1, <1>2, <1>12, <2>2
    <3> HIDE DEF old
    <3>2. PICK k \in 1..Len(t) : k = old(i) /\ new[i] = t[k]
      BY <2>1, <2>2
    <3>3. PICK l \in 1..Len(t) : l = old(j) /\ new[j] = t[l]
      BY <2>1, <2>2
    <3>4. k < l
      BY <3>1, <3>2, <3>3
    <3>5. ObservedBefore(t[k].row, t[l].row)
      BY <1>6, <3>4
    <3> QED
      BY <3>2, <3>3, <3>5
  <2>3. CASE i = n + 1
    <3>1. j # n + 1 /\ old(j) \in (n + 1)..Len(t)
      BY <1>1, <1>2, <1>12, <2>3
    <3> HIDE DEF old
    <3> QED
      BY <1>7, <1>9, <2>1, <2>3, <3>1
  <2>4. CASE j = n + 1
    <3>1. i # n + 1 /\ old(i) \in 1..n
      BY <1>1, <1>2, <1>12, <2>4
    <3> HIDE DEF old
    <3> QED
      BY <1>7, <1>9, <2>1, <2>4, <3>1
  <2> QED
    BY <2>2, <2>3, <2>4
<1> QED
  BY <1>10, <1>11, <1>12 DEF new

\* The transcript of a settled row stays in order.
LEMMA SettlingAppends ==
  ASSUME OrderInv, KeepInv, NEW w \in Worker, NEW r \in Row, Settling(w, r)
  PROVE  /\ TranscriptInOrder'
         /\ \A c \in Conv : \A i \in 1..Len(turns'[c]) :
              \/ turns'[c][i].row = r
              \/ \E j \in 1..Len(turns[c]) : turns'[c][i] = turns[c][j]
<1>1. \A q \in Row : row'[q].at = row[q].at
  BY DEF Settling
<1>2. \A q, p \in Row : ObservedBefore(q, p)' <=> ObservedBefore(q, p)
  BY <1>1 DEF ObservedBefore
<1> DEFINE Ordered(t) ==
             /\ \A i \in 1..Len(t) : t[i].seq \in 1..Len(t)
             /\ \A i, j \in 1..Len(t) :
                  /\ t[i].seq < t[j].seq <=> t[i].row < t[j].row
                  /\ i < j => ObservedBefore(t[i].row, t[j].row)
<1>3. \A c \in Conv : Ordered(turns[c])
  BY DEF KeepInv, TranscriptInOrder
<1>4. ASSUME turns' \in [Conv -> Seq(Turns)], \A c \in Conv : Ordered(turns'[c])
      PROVE  TranscriptInOrder'
  <2>1. \A c \in Conv : \A i \in 1..Len(turns'[c]) : turns'[c][i] \in Turns
    BY <1>4
  <2>2. \A c \in Conv : \A i \in 1..Len(turns'[c]) : turns'[c][i].row \in Row
    BY <2>1 DEF Turns
  <2> QED
    BY <1>2, <1>4, <2>2 DEF TranscriptInOrder
<1>5. turns \in [Conv -> Seq(Turns)]
  BY DEF OrderInv, TypeOK, ConvTypes
<1>6. CASE turns' = turns
  BY <1>3, <1>4, <1>5, <1>6
<1>7. ASSUME NEW d \in Conv, NEW n \in 0..Len(turns[d]), Behind(d, r, n),
             turns' = [turns EXCEPT ![d] = WithTurn(d, r, n)]
      PROVE  /\ TranscriptInOrder'
             /\ \A c \in Conv : \A i \in 1..Len(turns'[c]) :
                  \/ turns'[c][i].row = r
                  \/ \E j \in 1..Len(turns[c]) : turns'[c][i] = turns[c][j]
  <2> DEFINE new == WithTurn(d, r, n)
             size == Len(turns[d]) + 1
  <2>1. /\ new \in Seq(Turns) /\ Len(new) = size
        /\ \A i \in 1..n : i \in 1..Len(turns[d]) /\ new[i] = turns[d][i]
        /\ new[n + 1] = [row |-> r, seq |-> size]
        /\ \A i \in (n + 2)..size : i - 1 \in (n + 1)..Len(turns[d]) /\ new[i] = turns[d][i - 1]
    BY WithTurnHolds DEF OrderInv, TypeOK
  <2>2. ~Handled(r)
    BY DEF Settling, Pending, Handled
  <2>3. Ordered(new)
    BY <1>7, <2>2, WithTurnInOrder
  <2> HIDE DEF new, Ordered
  <2>4. turns'[d] = new /\ \A c \in Conv \ {d} : turns'[c] = turns[c]
    BY <1>5, <1>7 DEF new
  <2>5. turns' \in [Conv -> Seq(Turns)]
    BY <1>5, <1>7, <2>1 DEF new
  <2>6. TranscriptInOrder'
    BY <1>3, <1>4, <2>3, <2>4, <2>5
  <2>7. ASSUME NEW i \in 1..Len(new)
        PROVE  new[i].row = r \/ \E j \in 1..Len(turns[d]) : new[i] = turns[d][j]
    <3>1. Len(turns[d]) \in Nat /\ n \in Nat /\ n <= Len(turns[d])
      BY <1>5
    <3>2. i \in 1..n \/ i = n + 1 \/ (i \in (n + 2)..size /\ i - 1 \in 1..Len(turns[d]))
      BY <2>1, <3>1
    <3> QED
      BY <2>1, <3>2
  <2> QED
    BY <2>4, <2>6, <2>7
<1> QED
  BY <1>6, <1>7 DEF Settling

LEMMA KeepSettling ==
  ASSUME OrderInv, OrderInv', KeepInv, NEW w \in Worker, NEW r \in Row, Settling(w, r)
  PROVE  KeepInv'
<1> DEFINE d == wk[w].route.conv
           stop == kind[row[r].msg] = "stop"
<1>1. /\ wk[w].pc \in {"apply", "flag"} /\ At(w, r) /\ Pending(r) /\ UNCHANGED kind
      /\ wk'[w].pc \notin {"apply", "flag"} /\ \A v \in Worker \ {w} : wk'[v] = wk[v]
      /\ \A q \in Row \ {r} : row'[q] = row[q]
      /\ row'[r].msg = row[r].msg /\ row'[r].conv = d
      /\ row'[r].state \in {"materialized", "failed", "ignored"}
      /\ \A c \in Conv : conv[c] = "stopped" => conv'[c] = "stopped"
      /\ stop /\ row'[r].state = "materialized" /\ d # None => conv'[d] = "stopped"
      /\ ~stop /\ d # None /\ wk[w].route.life = "stopped" => ~row'[r].kept /\ turns' = turns
  BY DEF Settling, OrderInv, TypeOK, ConvTypes
<1>2. ~Handled(r) /\ Handled(r)' /\ \A q \in Row \ {r} : Handled(q)' <=> Handled(q)
  BY <1>1 DEF Pending, Handled
<1>3. TurnsAreHandled'
  <2>1. \A c \in Conv : \A i \in 1..Len(turns'[c]) : Handled(turns[c][i].row)'
    <3> SUFFICES ASSUME NEW c \in Conv, NEW i \in 1..Len(turns'[c])
                 PROVE  Handled(turns[c][i].row)'
      OBVIOUS
    <3>1. turns'[c][i].row = r \/ \E j \in 1..Len(turns[c]) : turns'[c][i] = turns[c][j]
      BY SettlingAppends
    <3>2. \A j \in 1..Len(turns[c]) : turns[c][j] \in Turns /\ Handled(turns[c][j].row)
      BY DEF KeepInv, TurnsAreHandled, OrderInv, TypeOK, ConvTypes
    <3>3. turns'[c][i].row \in Row /\ (turns'[c][i].row = r \/ Handled(turns'[c][i].row))
      BY <3>1, <3>2 DEF Turns
    <3>4. row'[turns'[c][i].row].state \in {"materialized", "failed", "ignored"}
      BY <1>1, <3>3 DEF Handled
    <3> QED
      BY <3>4 DEF Handled
  <2>2. \A q \in Row : ~Handled(q)' => row'[q].conv = None
    BY <1>1, <1>2 DEF KeepInv, TurnsAreHandled
  <2> QED
    BY <2>1, <2>2 DEF TurnsAreHandled
<1>4. \A s \in Row : \A c : Stops(s, c)' => Stops(s, c) \/ (s = r /\ c = d /\ stop /\ c # None
                                             /\ row'[r].state = "materialized")
  BY <1>1 DEF Stops
<1>5. StopsStand'
  BY <1>1, <1>4 DEF KeepInv, StopsStand
<1>6. RoutesKnowStops'
  <2>1. ASSUME NEW v \in Worker, wk'[v].pc \in {"apply", "flag"},
               NEW q \in Row, NEW s \in Row, At(v, q)', s < q, Stops(s, wk[v].route.conv)'
        PROVE  wk'[v].route.life = "stopped"
    <3>1. v # w /\ wk'[v] = wk[v] /\ At(v, q)
      BY <1>1, <2>1 DEF At
    <3>2. s # r
      BY <1>2, <2>1, <3>1, OlderIsHandled
    <3>3. Stops(s, wk[v].route.conv)
      BY <1>4, <2>1, <3>1, <3>2
    <3> QED
      BY <2>1, <3>1, <3>3 DEF KeepInv, RoutesKnowStops
  <2>2. ASSUME NEW v \in Worker, wk'[v].pc = "flag" PROVE wk'[v].route.life = "open"
    BY <1>1, <2>2 DEF KeepInv, RoutesKnowStops
  <2> QED
    BY <2>1, <2>2 DEF RoutesKnowStops
<1>7. NothingKeptAfterStop'
  <2> SUFFICES ASSUME NEW s \in Row, NEW q \in Row, Stops(s, row[s].conv)', s < q,
                      row'[q].conv = row'[s].conv, kind'[row'[q].msg] # "stop"
               PROVE  ~row'[q].kept /\ ~Appended(row[s].conv, q)'
    BY DEF NothingKeptAfterStop, Stops
  <2>0. row'[s].conv \in Conv /\ row'[s].conv # None
    BY DEF OrderInv, TypeOK, RowTypes, Observations, Stops
  <2>1. CASE s = r
    <3>1. Handled(q)'
      BY <1>2, <1>3, <2>0 DEF TurnsAreHandled
    <3>2. q # r /\ Handled(q) /\ q < r
      BY <1>2, <2>1, <3>1, YoungerIsNot, IngressAssumption DEF Row
    <3> QED
      BY <2>1, <3>2, IngressAssumption DEF Row
  <2>2. CASE s # r /\ q # r
    <3>1. row'[s] = row[s] /\ row'[q] = row[q]
      BY <1>1, <2>2
    <3>2. ~row[q].kept /\ ~Appended(row[s].conv, q)
      BY <1>1, <3>1 DEF KeepInv, NothingKeptAfterStop, Stops
    <3>3. \A i \in 1..Len(turns'[row[s].conv]) : turns'[row[s].conv][i].row # q
      BY <2>0, <2>2, <3>1, <3>2, SettlingAppends DEF Appended
    <3> QED
      BY <3>1, <3>2, <3>3 DEF Appended
  <2>3. CASE s # r /\ q = r
    <3>1. row'[s] = row[s] /\ row[s].conv = d /\ Stops(s, d)
      BY <1>1, <2>3 DEF Stops
    <3>2. wk[w].route.life = "stopped"
      BY <1>1, <2>3, <3>1 DEF KeepInv, RoutesKnowStops
    <3>3. ~row'[r].kept /\ turns' = turns
      BY <1>1, <2>0, <2>3, <3>1, <3>2
    <3>4. ~Appended(d, r)
      BY <1>2, <2>0, <3>1 DEF KeepInv, TurnsAreHandled, Appended
    <3> QED
      BY <2>3, <3>1, <3>3, <3>4 DEF Appended
  <2> QED
    BY <2>1, <2>2, <2>3
<1> QED
  BY <1>3, <1>5, <1>6, <1>7, SettlingAppends DEF KeepInv

LEMMA KeepInit == Init => KeepInv
BY DEF Init, KeepInv, TurnsAreHandled, StopsStand, Stops, RoutesKnowStops, TranscriptInOrder,
       NothingKeptAfterStop, IdleWorker, Handled

LEMMA KeepStep ==
  ASSUME OrderInv, OrderInv', KeepInv, [Next]_vars
  PROVE  KeepInv'
BY KeepSteps, KeepSilent, KeepInserted, KeepSettling DEF OrderInv, KeepInv

LEMMA Keeps == Spec => [](OrderInv /\ KeepInv)
<1>1. Init => OrderInv /\ KeepInv
  BY OrderInit, KeepInit
<1>2. OrderInv /\ KeepInv /\ [Next]_vars => (OrderInv /\ KeepInv)'
  BY OrderStep, KeepStep
<1> QED
  BY <1>1, <1>2, PTL DEF Spec

\* A transcript holds each of the participant's rows once: its numbers follow
\* the order of recording without a gap, whichever worker appended, and its
\* array the order of observation, by which sortTranscript inserts them.
THEOREM TranscriptOrdered == Spec => []TranscriptInOrder
<1>1. KeepInv => TranscriptInOrder
  BY DEF KeepInv
<1> QED
  BY <1>1, Keeps, PTL

\* No word sent after a STOP is kept, in any interleaving of workers, closures
\* and retries.
THEOREM StopRespected == Spec => []NothingKeptAfterStop
<1>1. KeepInv => NothingKeptAfterStop
  BY DEF KeepInv
<1> QED
  BY <1>1, Keeps, PTL
=============================================================================
