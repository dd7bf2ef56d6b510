---------------------------- MODULE OutboxProofs ----------------------------
(* What the outbox guarantees for any number of workers, rows, events and   *)
(* faults: its types; that a message is offered to the provider at most     *)
(* once and the row never lies about it; that the outbox implements         *)
(* MessageDelivery; and in which order, and on whose authority, a row       *)
(* crosses to the provider.                                                 *)
EXTENDS Outbox, TLAPS

\* The rows an action may retract keep a typed status column.
LEMMA RequeuedType ==
  ASSUME RowTypes, NEW S, NEW new
  PROVE  Requeued(S, new) \in [Row -> Statuses]
BY DEF RowTypes, Requeued, Statuses

\* Inserting a row keeps every column typed.
LEMMA EnqueueType ==
  ASSUME RowTypes, NEW r \in Row, NEW p \in Purposes, NEW doomed,
         NEW t \in Transcripts, Enqueue(r, p, doomed, t)
  PROVE  /\ status' \in [Row -> Statuses]
         /\ purpose' \in [Row -> Purposes]
         /\ late' \subseteq Row
         /\ turns' \in Transcripts
<1>1. status' \in [Row -> Statuses]
  BY RequeuedType DEF Enqueue
<1>2. purpose' \in [Row -> Purposes]
  BY DEF Enqueue, RowTypes
<1>3. late' \subseteq Row
  BY DEF Enqueue, RowTypes
<1>4. turns' \in Transcripts
  BY DEF Enqueue, Transcripts
<1> QED BY <1>1, <1>2, <1>3, <1>4

LEMMA ReadType ==
  ASSUME TalkTypes
  PROVE  Read(turns) \in Transcripts
BY DEF TalkTypes, Transcripts, Read, NoRow

LEMMA RaiseType ==
  ASSUME TalkTypes, RaiseUndelivered
  PROVE  attention' \in Attentions
BY BoundAssumption DEF TalkTypes, Attentions, RaiseUndelivered, CanRaise

LEMMA ParkType ==
  ASSUME RowTypes, TalkTypes, NEW r \in Row, Park(r)
  PROVE  /\ status' \in [Row -> Statuses]
         /\ conv' \in Conversations
         /\ attention' \in Attentions
<1> DEFINE doomed == {q \in Row : Automated(q)} \ (IF conv.life = "stopped" THEN {conv.terminal} ELSE {})
<1>1. Requeued(doomed, {}) \in [Row -> Statuses]
  BY RequeuedType
<1>2. status' = [Requeued(doomed, {}) EXCEPT ![r] = "ambiguous"]
  BY DEF Park
<1>3. status' \in [Row -> Statuses]
  <2> HIDE DEF doomed
  <2> QED BY <1>1, <1>2 DEF Statuses
<1>4. conv' \in Conversations
  BY DEF Park, TalkTypes, Conversations
<1>5. attention' \in Attentions
  BY RaiseType DEF Park
<1> QED BY <1>3, <1>4, <1>5

\* What a guard can decide.
LEMMA VerdictValues ==
  ASSUME NEW r, NEW final
  PROVE  Verdict(r, final) \in {"ready", "release", "refuse"}
BY DEF Verdict

\* A worker at work has a row.
LEMMA BusyHasRow ==
  ASSUME WorkerTypes, NEW w \in Worker, wk[w].pc # "idle"
  PROVE  wk[w].row \in Row
BY DEF WorkerTypes

\* A worker moves to another program counter of its row, or drops it.
LEMMA MoveType ==
  ASSUME WorkerTypes, NEW w \in Worker, wk[w].pc # "idle",
         \/ Finish(w)
         \/ \E pc \in Pcs \ {"idle"} : Goto(w, pc)
  PROVE  WorkerTypes'
<1>1. CASE Finish(w)
  BY <1>1 DEF WorkerTypes, Finish, Pcs, NoRow
<1>2. ASSUME NEW pc \in Pcs \ {"idle"}, Goto(w, pc) PROVE WorkerTypes'
  BY <1>2 DEF WorkerTypes, Goto, Pcs
<1> QED BY <1>1, <1>2

\* Groups of variables an action leaves alone stay typed.
LEMMA Frame ==
  /\ RowTypes /\ UNCHANGED rowVars => RowTypes'
  /\ ProviderTypes /\ UNCHANGED provider => ProviderTypes'
  /\ TalkTypes /\ UNCHANGED talkVars => TalkTypes'
  /\ EnvTypes /\ UNCHANGED envVars => EnvTypes'
  /\ WorkerTypes /\ UNCHANGED wk => WorkerTypes'
<1>1. RowTypes /\ UNCHANGED rowVars => RowTypes'
  BY DEF RowTypes, rowVars
<1>2. ProviderTypes /\ UNCHANGED provider => ProviderTypes'
  BY DEF ProviderTypes, provider
<1>3. TalkTypes /\ UNCHANGED talkVars => TalkTypes'
  BY DEF TalkTypes, talkVars
<1>4. EnvTypes /\ UNCHANGED envVars => EnvTypes'
  BY DEF EnvTypes, envVars
<1>5. WorkerTypes /\ UNCHANGED wk => WorkerTypes'
  BY DEF WorkerTypes
<1> QED BY <1>1, <1>2, <1>3, <1>4, <1>5

\* Every action keeps every variable typed.
LEMMA TypeStep == TypeOK /\ [Next]_vars => TypeOK'
<1> SUFFICES ASSUME TypeOK, [Next]_vars PROVE TypeOK'
  OBVIOUS
<1> USE BoundAssumption, WorkerAssumption
<1>1. ASSUME NEW w \in Worker, NEW r \in Row, Claim(w, r) PROVE TypeOK'
  <2>1. RowTypes'
    BY <1>1 DEF Claim, Statuses, RowTypes, TypeOK, TalkTypes
  <2>2. WorkerTypes'
    BY <1>1 DEF Claim, TypeOK, WorkerTypes, Pcs, Row, NoRow
  <2> QED BY Frame, <1>1, <2>1, <2>2 DEF Claim, TypeOK, bounds
<1>2. ASSUME NEW w \in Worker, FirstGuard(w) PROVE TypeOK'
  <2>1. WorkerTypes'
    BY MoveType, VerdictValues, <1>2 DEF FirstGuard, Pcs, TypeOK
  <2> QED BY Frame, <1>2, <2>1 DEF FirstGuard, TypeOK, bounds
<1>3. ASSUME NEW w \in Worker, SettleClaim(w) PROVE TypeOK'
  <2>1. RowTypes'
    BY <1>3 DEF SettleClaim, Statuses, RowTypes, TypeOK, TalkTypes
  <2>2. WorkerTypes'
    BY MoveType, <1>3 DEF SettleClaim, Pcs, TypeOK
  <2> QED BY Frame, <1>3, <2>1, <2>2 DEF SettleClaim, TypeOK, bounds
<1>4. ASSUME NEW w \in Worker, RecordTurn(w) PROVE TypeOK'
  <2>1. RowTypes'
    BY <1>4 DEF RecordTurn, Statuses, RowTypes, TypeOK, TalkTypes
  <2>2. WorkerTypes'
    BY MoveType, <1>4 DEF RecordTurn, Pcs, TypeOK
  <2>3. TalkTypes'
    BY RaiseType, <1>4 DEF RecordTurn, TypeOK, TalkTypes
  <2> QED BY Frame, <1>4, <2>1, <2>2, <2>3 DEF RecordTurn, TypeOK, bounds
<1>5. ASSUME NEW w \in Worker, AwaitSlot(w) PROVE TypeOK'
  <2>1. RowTypes'
    BY <1>5 DEF AwaitSlot, RowTypes, TypeOK, TalkTypes
  <2>2. WorkerTypes'
    BY MoveType, <1>5 DEF AwaitSlot, Pcs, TypeOK
  <2> QED BY Frame, <1>5, <2>1, <2>2 DEF AwaitSlot, TypeOK, bounds
<1>6. ASSUME NEW w \in Worker, SlotFails(w) PROVE TypeOK'
  <2>1. WorkerTypes'
    BY MoveType, <1>6 DEF SlotFails, Pcs, TypeOK, Fault
  <2> QED BY Frame, <1>6, <2>1 DEF SlotFails, TypeOK, bounds, Fault
<1>7. ASSUME NEW w \in Worker, Prepare(w) PROVE TypeOK'
  <2>1. RowTypes'
    BY <1>7 DEF Prepare, Statuses, RowTypes, TypeOK, TalkTypes
  <2>2. WorkerTypes'
    BY MoveType, <1>7 DEF Prepare, Pcs, TypeOK
  <2> QED BY Frame, <1>7, <2>1, <2>2 DEF Prepare, TypeOK, bounds
<1>8. ASSUME NEW w \in Worker, Enter(w) PROVE TypeOK'
  <2>1. ProviderTypes'
    BY <1>8, BusyHasRow DEF Enter, TypeOK, ProviderTypes
  <2>2. WorkerTypes'
    BY MoveType, <1>8 DEF Enter, Pcs, TypeOK
  <2> QED BY Frame, <1>8, <2>1, <2>2 DEF Enter, TypeOK, bounds
<1>9. ASSUME NEW w \in Worker, Return(w) PROVE TypeOK'
  <2>1. WorkerTypes'
    BY MoveType, <1>9 DEF Return, Pcs, TypeOK
  <2> QED BY Frame, <1>9, <2>1 DEF Return, TypeOK, bounds
<1>10. ASSUME NEW w \in Worker, Settle(w) PROVE TypeOK'
  <2> DEFINE r == wk[w].row
  <2>1. r \in Row
    BY <1>10, BusyHasRow DEF Settle, TypeOK
  <2>2. \/ \E to \in {"sent", "failed"} :
             status' = [status EXCEPT ![r] = to] /\ UNCHANGED <<conv, attention>>
        \/ UNCHANGED <<status, conv, attention>>
        \/ Park(r)
    BY <1>10 DEF Settle
  <2>3. /\ status' \in [Row -> Statuses]
        /\ conv' \in Conversations
        /\ attention' \in Attentions
    BY <2>1, <2>2, ParkType DEF TypeOK, RowTypes, TalkTypes, Statuses
  <2>4. RowTypes'
    BY <1>10, <2>3 DEF Settle, TypeOK, RowTypes
  <2>5. TalkTypes'
    BY <1>10, <2>3 DEF Settle, TypeOK, TalkTypes
  <2>6. WorkerTypes'
    BY MoveType, <1>10 DEF Settle, Pcs, TypeOK
  <2> QED BY Frame, <1>10, <2>4, <2>5, <2>6 DEF Settle, TypeOK, bounds
<1>11. ASSUME NEW r \in Row, Quarantine(r) PROVE TypeOK'
  <2>1. RowTypes'
    BY ParkType, <1>11 DEF Quarantine, RowTypes, TypeOK, TalkTypes
  <2>2. TalkTypes'
    BY ParkType, <1>11 DEF Quarantine, TypeOK, TalkTypes, Conversations, NoRow
  <2> QED BY Frame, <1>11, <2>1, <2>2 DEF Quarantine, TypeOK, bounds
<1>12. ASSUME NEW r \in Row, Expire(r) PROVE TypeOK'
  <2>1. RowTypes'
    BY <1>12 DEF Expire, RowTypes, TypeOK, TalkTypes
  <2> QED BY Frame, <1>12, <2>1 DEF Expire, TypeOK, bounds, Fault
<1>13. ASSUME NEW w \in Worker, Crash(w) PROVE TypeOK'
  <2>1. WorkerTypes'
    BY MoveType, <1>13 DEF Crash, Pcs, TypeOK, Fault
  <2> QED BY Frame, <1>13, <2>1 DEF Crash, TypeOK, bounds, Fault
<1>14. ASSUME AdmitExecution PROVE TypeOK'
  <2>1. RowTypes'
    BY <1>14 DEF AdmitExecution, OldReplies, RowTypes, TypeOK, TalkTypes
  <2> QED BY Frame, <1>14, <2>1 DEF AdmitExecution, TypeOK, bounds
<1>15. ASSUME NEW r \in Row, NEW handoff \in BOOLEAN, ExtractReply(r, handoff) PROVE TypeOK'
  <2>1. RowTypes'
    BY EnqueueType, ReadType, <1>15 DEF ExtractReply, OldReplies, Purposes, RowTypes, TypeOK, TalkTypes
  <2>2. TalkTypes'
    BY EnqueueType, ReadType, <1>15 DEF ExtractReply, Purposes, TypeOK, TalkTypes, Conversations, NoRow
  <2> QED BY Frame, <1>15, <2>1, <2>2 DEF ExtractReply, TypeOK, bounds
<1>16. ASSUME NEW handoff \in BOOLEAN, ExtractSilently(handoff) PROVE TypeOK'
  <2>1. RowTypes'
    BY RequeuedType, ReadType, <1>16 DEF ExtractSilently, OldReplies, RowTypes, TypeOK, TalkTypes
  <2>2. TalkTypes'
    BY ReadType, <1>16 DEF ExtractSilently, TypeOK, TalkTypes, Conversations, NoRow
  <2> QED BY Frame, <1>16, <2>1, <2>2 DEF ExtractSilently, TypeOK, bounds
<1>17. ASSUME NEW r \in Row, ExtractClosing(r) PROVE TypeOK'
  <2>1. RowTypes'
    BY EnqueueType, ReadType, <1>17 DEF ExtractClosing, Purposes, RowTypes, TypeOK, TalkTypes
  <2>2. TalkTypes'
    BY EnqueueType, ReadType, <1>17 DEF ExtractClosing, Purposes, TypeOK, TalkTypes, Conversations, NoRow
  <2> QED BY Frame, <1>17, <2>1, <2>2 DEF ExtractClosing, TypeOK, bounds
<1>18. ASSUME NEW r \in Row, EnqueueDecided(r) PROVE TypeOK'
  <2>1. RowTypes'
    BY EnqueueType, <1>18 DEF EnqueueDecided, Purposes, RowTypes, TypeOK, TalkTypes
  <2>2. TalkTypes'
    BY EnqueueType, <1>18 DEF EnqueueDecided, Purposes, TypeOK, TalkTypes, Conversations, NoRow
  <2>3. EnvTypes'
    BY EnqueueType, <1>18 DEF EnqueueDecided, Purposes, TypeOK, EnvTypes, NoRow
  <2> QED BY Frame, <1>18, <2>1, <2>2, <2>3 DEF EnqueueDecided, TypeOK, bounds
<1>19. ASSUME NEW r \in Row, StaffSends(r) PROVE TypeOK'
  <2>1. RowTypes'
    BY EnqueueType, <1>19 DEF StaffSends, Purposes, RowTypes, TypeOK, TalkTypes
  <2>2. TalkTypes'
    BY EnqueueType, <1>19 DEF StaffSends, Purposes, TypeOK, TalkTypes, Conversations, NoRow
  <2> QED BY Frame, <1>19, <2>1, <2>2 DEF StaffSends, TypeOK, bounds
<1>20. ASSUME NEW p \in {"nudge", "notice", "fallback"}, Decide(p) PROVE TypeOK'
  <2>1. EnvTypes'
    BY <1>20 DEF Decide, TypeOK, EnvTypes, NoRow
  <2> QED BY Frame, <1>20, <2>1 DEF Decide, TypeOK, bounds
<1>21. ASSUME GiveUp PROVE TypeOK'
  <2>1. EnvTypes'
    BY <1>21 DEF GiveUp, TypeOK, EnvTypes, NoRow
  <2> QED BY Frame, <1>21, <2>1 DEF GiveUp, TypeOK, bounds
<1>22. ASSUME TerminalFallback PROVE TypeOK'
  <2>1. RowTypes'
    BY RequeuedType, <1>22 DEF TerminalFallback, RowTypes, TypeOK, TalkTypes
  <2>2. TalkTypes'
    BY <1>22 DEF TerminalFallback, TypeOK, TalkTypes, Conversations, NoRow
  <2>3. EnvTypes'
    BY <1>22 DEF TerminalFallback, TypeOK, EnvTypes, NoRow
  <2> QED BY Frame, <1>22, <2>1, <2>2, <2>3 DEF TerminalFallback, TypeOK, bounds
<1>23. ASSUME InboundArrives PROVE TypeOK'
  <2>1. EnvTypes'
    BY <1>23 DEF InboundArrives, TypeOK, EnvTypes, NoRow
  <2> QED BY Frame, <1>23, <2>1 DEF InboundArrives, TypeOK, bounds, Flip
<1>24. ASSUME MaterializeOrdinary PROVE TypeOK'
  <2>1. RowTypes'
    BY RequeuedType, <1>24 DEF MaterializeOrdinary, OldReplies, RowTypes, TypeOK, TalkTypes
  <2>2. TalkTypes'
    BY <1>24 DEF MaterializeOrdinary, TypeOK, TalkTypes, Transcripts
  <2>3. EnvTypes'
    BY <1>24 DEF MaterializeOrdinary, TypeOK, EnvTypes, NoRow
  <2> QED BY Frame, <1>24, <2>1, <2>2, <2>3 DEF MaterializeOrdinary, TypeOK, bounds
<1>25. ASSUME MaterializeUnreadable PROVE TypeOK'
  <2>1. RowTypes'
    BY EnqueueType, <1>25 DEF MaterializeUnreadable, Purposes, RowTypes, TypeOK, TalkTypes
  <2>2. TalkTypes'
    BY EnqueueType, <1>25 DEF MaterializeUnreadable, Purposes, TypeOK, TalkTypes, Conversations, NoRow
  <2>3. EnvTypes'
    BY EnqueueType, <1>25 DEF MaterializeUnreadable, Purposes, TypeOK, EnvTypes, NoRow
  <2> QED BY Frame, <1>25, <2>1, <2>2, <2>3 DEF MaterializeUnreadable, TypeOK, bounds
<1>26. ASSUME NEW r \in Row, MaterializeStop(r) PROVE TypeOK'
  <2>1. RowTypes'
    BY EnqueueType, <1>26 DEF MaterializeStop, Purposes, RowTypes, TypeOK, TalkTypes
  <2>2. TalkTypes'
    BY EnqueueType, <1>26 DEF MaterializeStop, Purposes, TypeOK, TalkTypes, Conversations, NoRow
  <2>3. EnvTypes'
    BY EnqueueType, <1>26 DEF MaterializeStop, Purposes, TypeOK, EnvTypes, NoRow
  <2> QED BY Frame, <1>26, <2>1, <2>2, <2>3 DEF MaterializeStop, TypeOK, bounds
<1>27. ASSUME TakeOver PROVE TypeOK'
  <2>1. RowTypes'
    BY RequeuedType, <1>27 DEF TakeOver, OldReplies, RowTypes, TypeOK, TalkTypes
  <2>2. TalkTypes'
    BY <1>27 DEF TakeOver, TypeOK, TalkTypes, Conversations, NoRow
  <2> QED BY Frame, <1>27, <2>1, <2>2 DEF TakeOver, TypeOK, bounds, Flip
<1>28. ASSUME ResumeBot PROVE TypeOK'
  <2>1. RowTypes'
    BY <1>28 DEF ResumeBot, OldReplies, RowTypes, TypeOK, TalkTypes
  <2>2. TalkTypes'
    BY <1>28 DEF ResumeBot, TypeOK, TalkTypes, Conversations, NoRow
  <2> QED BY Frame, <1>28, <2>1, <2>2 DEF ResumeBot, TypeOK, bounds
<1>29. ASSUME CloseWithoutCopy PROVE TypeOK'
  <2>1. RowTypes'
    BY RequeuedType, <1>29 DEF CloseWithoutCopy, RowTypes, TypeOK, TalkTypes
  <2>2. TalkTypes'
    BY <1>29 DEF CloseWithoutCopy, TypeOK, TalkTypes, Conversations, NoRow
  <2> QED BY Frame, <1>29, <2>1, <2>2 DEF CloseWithoutCopy, TypeOK, bounds
<1>30. ASSUME PauseCampaign PROVE TypeOK'
  <2>1. EnvTypes'
    BY <1>30 DEF PauseCampaign, TypeOK, EnvTypes, NoRow
  <2> QED BY Frame, <1>30, <2>1 DEF PauseCampaign, TypeOK, bounds, Flip
<1>31. ASSUME ResumeCampaign PROVE TypeOK'
  <2>1. RowTypes'
    BY <1>31 DEF ResumeCampaign, OldReplies, RowTypes, TypeOK, TalkTypes
  <2>2. EnvTypes'
    BY <1>31 DEF ResumeCampaign, TypeOK, EnvTypes, NoRow
  <2> QED BY Frame, <1>31, <2>1, <2>2 DEF ResumeCampaign, TypeOK, bounds
<1>32. ASSUME CloseCampaign PROVE TypeOK'
  <2>1. RowTypes'
    BY RequeuedType, <1>32 DEF CloseCampaign, RowTypes, TypeOK, TalkTypes
  <2>2. EnvTypes'
    BY <1>32 DEF CloseCampaign, TypeOK, EnvTypes, NoRow
  <2> QED BY Frame, <1>32, <2>1, <2>2 DEF CloseCampaign, TypeOK, bounds
<1>33. ASSUME WithdrawConsent PROVE TypeOK'
  <2>1. EnvTypes'
    BY <1>33 DEF WithdrawConsent, TypeOK, EnvTypes, NoRow
  <2> QED BY Frame, <1>33, <2>1 DEF WithdrawConsent, TypeOK, bounds
<1>34. ASSUME NEW r \in Row, ReadObserved(r) PROVE TypeOK'
  <2>1. EnvTypes'
    BY <1>34 DEF ReadObserved, TypeOK, EnvTypes, NoRow
  <2> QED BY Frame, <1>34, <2>1 DEF ReadObserved, TypeOK, bounds, Flip
<1>36. ASSUME NEW w \in Worker, Alert(w) PROVE TypeOK'
  <2>1. TalkTypes'
    BY RaiseType, <1>36 DEF Alert, TypeOK, TalkTypes
  <2>2. WorkerTypes'
    BY MoveType, <1>36 DEF Alert, Pcs, TypeOK
  <2> QED BY Frame, <1>36, <2>1, <2>2 DEF Alert, TypeOK, bounds
<1>37. ASSUME MaterializeFull PROVE TypeOK'
  <2>1. RowTypes'
    BY RequeuedType, <1>37 DEF MaterializeFull, RowTypes, TypeOK
  <2>2. TalkTypes'
    BY <1>37 DEF MaterializeFull, TypeOK, TalkTypes, Conversations
  <2>3. EnvTypes'
    BY <1>37 DEF MaterializeFull, TypeOK, EnvTypes
  <2> QED BY Frame, <1>37, <2>1, <2>2, <2>3 DEF MaterializeFull, TypeOK, bounds
<1>38. ASSUME AttentionGrows \/ ResolveAttention PROVE TypeOK'
  <2>1. attention' \in Attentions
    <3>1. CASE AttentionGrows
      <4>1. attention' = [attention EXCEPT !.raised = attention.raised + 1]
        BY <3>1 DEF AttentionGrows
      <4>2. attention.raised + 1 \in 0..MaxReasons
        BY <3>1 DEF AttentionGrows, TypeOK, TalkTypes, Attentions
      <4> QED BY <4>1, <4>2 DEF TypeOK, TalkTypes, Attentions
    <3>2. CASE ResolveAttention
      BY <3>2 DEF ResolveAttention, TypeOK, TalkTypes, Attentions
    <3> QED BY <1>38, <3>1, <3>2
  <2>2. TalkTypes'
    BY <1>38, <2>1 DEF AttentionGrows, ResolveAttention, TypeOK, TalkTypes
  <2> QED BY Frame, <1>38, <2>2 DEF AttentionGrows, ResolveAttention, TypeOK, bounds
<1>35. ASSUME ApplyObserved PROVE TypeOK'
  <2>1. RowTypes'
    BY <1>35 DEF ApplyObserved, Statuses, RowTypes, TypeOK, TalkTypes
  <2>2. EnvTypes'
    BY <1>35 DEF ApplyObserved, TypeOK, EnvTypes, NoRow
  <2> QED BY Frame, <1>35, <2>1, <2>2 DEF ApplyObserved, TypeOK, bounds
<1>90. ASSUME UNCHANGED vars PROVE TypeOK'
  BY Frame, <1>90 DEF TypeOK, vars, bounds
<1> QED
  BY <1>1, <1>2, <1>3, <1>4, <1>5, <1>6, <1>7, <1>8, <1>9, <1>10, <1>11, <1>12, <1>13, <1>14, <1>15, <1>16, <1>17, <1>18, <1>19, <1>20, <1>21, <1>22, <1>23, <1>24, <1>25, <1>26, <1>27, <1>28, <1>29, <1>30, <1>31, <1>32, <1>33, <1>34, <1>35, <1>36, <1>37, <1>38, <1>90 DEF Next, Dispatch, WorkerStep, Produce, Control

\* The initial states are typed.
LEMMA TypeInit == Init => TypeOK
<1> USE BoundAssumption
<1> SUFFICES ASSUME Init PROVE TypeOK
  OBVIOUS
<1>1. RowTypes
  BY DEF Init, RowTypes, Statuses, Purposes
<1>2. ProviderTypes
  BY DEF Init, ProviderTypes
<1>3. TalkTypes
  BY DEF Init, TalkTypes, Conversations, Transcripts, Attentions, Row, NoRow
<1>4. EnvTypes
  BY DEF Init, EnvTypes
<1>5. WorkerTypes
  BY DEF Init, WorkerTypes, Pcs
<1> QED BY <1>1, <1>2, <1>3, <1>4, <1>5 DEF Init, TypeOK

\* Every variable keeps its type in every reachable state, however many
\* workers dispatch the conversation and however many rows it has.
THEOREM TypeCorrect == Spec => []TypeOK
<1>1. Init => TypeOK
  BY TypeInit
<1>2. TypeOK /\ [Next]_vars => TypeOK'
  BY TypeStep
<1> QED BY <1>1, <1>2, PTL DEF Spec

-----------------------------------------------------------------------------
(* One offer for one message.                                              *)

\* What a producer or an operator does to the queue: rows appear, and rows
\* that cannot have left are retracted.
QueueEdit ==
  /\ \A r \in Row :
       \/ status'[r] = status[r]
       \/ status[r] = "absent" /\ status'[r] = "pending"
       \/ Retractable(r) /\ status'[r] = "cancelled"
  /\ UNCHANGED <<owner, entered, accepted, wk>>

LEMMA RequeuedEdits ==
  ASSUME RowTypes, NEW S, NEW new, \A r \in new : status[r] = "absent",
         status' = Requeued(S, new)
  PROVE  \A r \in Row :
           \/ status'[r] = status[r]
           \/ status[r] = "absent" /\ status'[r] = "pending"
           \/ Retractable(r) /\ status'[r] = "cancelled"
BY DEF RowTypes, Requeued

LEMMA EnqueueEdits ==
  ASSUME RowTypes, NEW r \in Row, NEW p, NEW doomed, NEW t, Enqueue(r, p, doomed, t)
  PROVE  \A q \in Row :
           \/ status'[q] = status[q]
           \/ status[q] = "absent" /\ status'[q] = "pending"
           \/ Retractable(q) /\ status'[q] = "cancelled"
<1>1. status' = Requeued(doomed, {r}) /\ \A q \in {r} : status[q] = "absent"
  BY DEF Enqueue
<1> QED BY <1>1, RequeuedEdits

\* Every producer edits the queue and nothing else of a row's way out.
LEMMA ProduceEdits == TypeOK /\ Produce => QueueEdit
<1> SUFFICES ASSUME TypeOK, Produce PROVE QueueEdit
  OBVIOUS
<1> USE DEF TypeOK, rowVars, provider
<1>1. CASE AdmitExecution
  BY <1>1 DEF AdmitExecution, QueueEdit
<1>2. ASSUME NEW r \in Row, NEW handoff \in BOOLEAN, ExtractReply(r, handoff)
      PROVE QueueEdit
  BY <1>2, EnqueueEdits DEF ExtractReply, QueueEdit
<1>3. ASSUME NEW handoff \in BOOLEAN, ExtractSilently(handoff) PROVE QueueEdit
  <2>1. PICK gone : status' = Requeued(gone, {})
    BY <1>3 DEF ExtractSilently
  <2>2. \A r \in Row : \/ status'[r] = status[r]
                       \/ status[r] = "absent" /\ status'[r] = "pending"
                       \/ Retractable(r) /\ status'[r] = "cancelled"
    BY <2>1, RequeuedEdits
  <2> QED BY <1>3, <2>2 DEF ExtractSilently, QueueEdit
<1>4. ASSUME NEW r \in Row, ExtractClosing(r) PROVE QueueEdit
  BY <1>4, EnqueueEdits DEF ExtractClosing, QueueEdit
<1>5. ASSUME NEW r \in Row, EnqueueDecided(r) PROVE QueueEdit
  BY <1>5, EnqueueEdits DEF EnqueueDecided, QueueEdit
<1>6. ASSUME NEW r \in Row, StaffSends(r) PROVE QueueEdit
  BY <1>6, EnqueueEdits DEF StaffSends, QueueEdit
<1>7. ASSUME NEW p \in {"nudge", "notice", "fallback"}, Decide(p) PROVE QueueEdit
  BY <1>7 DEF Decide, QueueEdit
<1>8. CASE GiveUp
  BY <1>8 DEF GiveUp, QueueEdit
<1>9. CASE TerminalFallback
  BY <1>9, RequeuedEdits DEF TerminalFallback, QueueEdit
<1> QED BY <1>1, <1>2, <1>3, <1>4, <1>5, <1>6, <1>7, <1>8, <1>9 DEF Produce

\* So does everything that happens to the conversation, except that an
\* observed message settles its row.
LEMMA ControlEdits == TypeOK /\ Control => QueueEdit \/ ApplyObserved
<1> SUFFICES ASSUME TypeOK, Control, ~ApplyObserved PROVE QueueEdit
  OBVIOUS
<1> USE DEF TypeOK, rowVars, provider
<1>1. CASE InboundArrives
  BY <1>1 DEF InboundArrives, QueueEdit
<1>2. CASE MaterializeOrdinary
  BY <1>2, RequeuedEdits DEF MaterializeOrdinary, QueueEdit
<1>3. CASE MaterializeUnreadable
  BY <1>3, EnqueueEdits DEF MaterializeUnreadable, QueueEdit
<1>4. ASSUME NEW r \in Row, MaterializeStop(r) PROVE QueueEdit
  BY <1>4, EnqueueEdits DEF MaterializeStop, QueueEdit
<1>5. CASE TakeOver
  BY <1>5, RequeuedEdits DEF TakeOver, QueueEdit
<1>6. CASE ResumeBot
  BY <1>6 DEF ResumeBot, QueueEdit
<1>7. CASE CloseWithoutCopy
  BY <1>7, RequeuedEdits DEF CloseWithoutCopy, QueueEdit
<1>8. CASE PauseCampaign \/ WithdrawConsent
  BY <1>8 DEF PauseCampaign, WithdrawConsent, QueueEdit
<1>9. CASE ResumeCampaign
  BY <1>9 DEF ResumeCampaign, QueueEdit
<1>10. CASE CloseCampaign
  BY <1>10, RequeuedEdits DEF CloseCampaign, QueueEdit
<1>11. ASSUME NEW r \in Row, ReadObserved(r) PROVE QueueEdit
  BY <1>11 DEF ReadObserved, QueueEdit
<1>12. CASE MaterializeFull
  BY <1>12, RequeuedEdits DEF MaterializeFull, QueueEdit
<1>13. CASE AttentionGrows \/ ResolveAttention
  BY <1>13 DEF AttentionGrows, ResolveAttention, QueueEdit
<1> QED BY <1>1, <1>2, <1>3, <1>4, <1>5, <1>6, <1>7, <1>8, <1>9, <1>10, <1>11, <1>12, <1>13 DEF Control

\* Handing the conversation over: the row becomes ambiguous, the rest of the
\* queue is edited.
LEMMA ParkEdits ==
  ASSUME RowTypes, NEW r \in Row, Park(r)
  PROVE  /\ status'[r] = "ambiguous"
         /\ \A q \in Row \ {r} :
              status'[q] = status[q] \/ (Retractable(q) /\ status'[q] = "cancelled")
<1> DEFINE doomed == {q \in Row : Automated(q)} \ (IF conv.life = "stopped" THEN {conv.terminal} ELSE {})
<1>1. status' = [Requeued(doomed, {}) EXCEPT ![r] = "ambiguous"]
  BY DEF Park
<1>2. Requeued(doomed, {}) = [q \in Row |-> IF q \in doomed /\ Retractable(q) THEN "cancelled" ELSE status[q]]
  BY DEF Requeued
<1> HIDE DEF doomed
<1> QED BY <1>1, <1>2

-----------------------------------------------------------------------------
\* The marker stays exclusive while the queue is edited.
LEMMA EditKeepsMarker == TypeOK /\ MarkerIsExclusive /\ QueueEdit => MarkerIsExclusive'
<1> SUFFICES ASSUME TypeOK, MarkerIsExclusive, QueueEdit PROVE MarkerIsExclusive'
  OBVIOUS
<1>1. \A r \in Row : status[r] \in Left => status'[r] = status[r]
  BY DEF QueueEdit, Retractable, Left
<1>2. \A r \in Row : status'[r] = "failed" => status[r] = "failed"
  BY DEF QueueEdit
<1>3. \A w \in Worker : AtProvider(w) => wk[w].row \in Row
  BY DEF AtProvider, TypeOK, WorkerTypes
<1> QED BY <1>1, <1>2, <1>3 DEF QueueEdit, MarkerIsExclusive, AtProvider, Left

\* A step of a worker that is not at the provider and does not get there.
LEMMA QuietStepKeepsMarker ==
  ASSUME TypeOK, MarkerIsExclusive, NEW w \in Worker,
         \A x \in Worker \ {w} : wk'[x] = wk[x],
         ~AtProvider(w)', UNCHANGED <<entered, accepted>>,
         \A r \in Row : \/ status'[r] = status[r] /\ owner'[r] = owner[r]
                        \/ Retractable(r) /\ status'[r] \in {"pending", "claimed", "cancelled"}
  PROVE  MarkerIsExclusive'
<1>1. \A r \in Row : status[r] \in Left => status'[r] = status[r] /\ owner'[r] = owner[r]
  BY DEF Retractable, Left
<1>2. \A r \in Row : status'[r] = "failed" => status[r] = "failed"
  OBVIOUS
<1>3. \A x \in Worker : AtProvider(x) => wk[x].row \in Row
  BY DEF AtProvider, TypeOK, WorkerTypes
<1> QED BY <1>1, <1>2, <1>3 DEF MarkerIsExclusive, AtProvider, Left

LEMMA MarkerStep == TypeOK /\ MarkerIsExclusive /\ ObservedHasLeft /\ [Next]_vars => MarkerIsExclusive'
<1> SUFFICES ASSUME TypeOK, MarkerIsExclusive, ObservedHasLeft, [Next]_vars
             PROVE MarkerIsExclusive'
  OBVIOUS
<1> USE DEF TypeOK
<1>1. ASSUME NEW w \in Worker, NEW r \in Row, Claim(w, r) PROVE MarkerIsExclusive'
  <2>1. ~AtProvider(w)' /\ \A x \in Worker \ {w} : wk'[x] = wk[x]
    BY <1>1 DEF Claim, AtProvider, WorkerTypes
  <2>2. \A q \in Row : \/ status'[q] = status[q] /\ owner'[q] = owner[q]
                       \/ Retractable(q) /\ status'[q] \in {"pending", "claimed", "cancelled"}
    BY <1>1 DEF Claim, Claimable, Retractable, RowTypes
  <2> QED BY <1>1, <2>1, <2>2, QuietStepKeepsMarker DEF Claim, provider
<1>2. ASSUME NEW w \in Worker,
             \/ FirstGuard(w) \/ SettleClaim(w) \/ RecordTurn(w) \/ AwaitSlot(w)
             \/ SlotFails(w) \/ Alert(w)
      PROVE MarkerIsExclusive'
  <2>1. \E pc \in {"idle", "release", "refuse", "record", "slot", "prepare"} :
          wk' = [wk EXCEPT ![w].pc = pc] \/ (pc = "idle" /\ Finish(w))
    <3>1. CASE FirstGuard(w)
      BY <3>1, VerdictValues DEF FirstGuard, Goto
    <3>2. CASE SettleClaim(w) \/ SlotFails(w) \/ Alert(w)
      BY <3>2 DEF SettleClaim, SlotFails, Alert
    <3>3. CASE RecordTurn(w)
      BY <3>3 DEF RecordTurn, Goto
    <3>4. CASE AwaitSlot(w)
      BY <3>4 DEF AwaitSlot, Goto
    <3> QED BY <1>2, <3>1, <3>2, <3>3, <3>4
  <2>2. ~AtProvider(w)' /\ \A x \in Worker \ {w} : wk'[x] = wk[x]
    BY <2>1 DEF AtProvider, WorkerTypes, Finish
  <2>3. \A q \in Row : \/ status'[q] = status[q] /\ owner'[q] = owner[q]
                       \/ Retractable(q) /\ status'[q] \in {"pending", "claimed", "cancelled"}
    BY <1>2 DEF FirstGuard, SettleClaim, RecordTurn, AwaitSlot, SlotFails, Alert, Holds,
                Retractable, RowTypes, rowVars
  <2>4. UNCHANGED <<entered, accepted>>
    BY <1>2 DEF FirstGuard, SettleClaim, RecordTurn, AwaitSlot, SlotFails, Alert, provider
  <2> QED BY <2>2, <2>3, <2>4, QuietStepKeepsMarker
<1>3. ASSUME NEW w \in Worker, Prepare(w) PROVE MarkerIsExclusive'
  <2> DEFINE r == wk[w].row
  <2>1. r \in Row
    BY <1>3, BusyHasRow DEF Prepare
  <2>2. \A x \in Worker \ {w} : wk'[x] = wk[x]
    BY <1>3 DEF Prepare, Goto, Finish, WorkerTypes
  <2>3. CASE Holds(w) /\ Verdict(r, TRUE) = "ready" /\ live[r]
    <3>1. /\ status' = [status EXCEPT ![r] = "attempting"]
          /\ wk' = [wk EXCEPT ![w].pc = "enter"]
          /\ UNCHANGED <<owner, entered, accepted>>
      BY <1>3, <2>3 DEF Prepare, Goto, provider
    <3>2. status[r] = "claimed" /\ owner[r] = w
      BY <2>3 DEF Holds
    <3>3. entered[r] = 0 /\ r \notin accepted
      BY <2>1, <3>2 DEF MarkerIsExclusive, Left
    <3>4. \A x \in Worker : AtProvider(x) => wk[x].row # r
      BY <3>2 DEF MarkerIsExclusive
    <3> QED
      BY <2>1, <2>2, <3>1, <3>2, <3>3, <3>4
      DEF MarkerIsExclusive, AtProvider, Left, WorkerTypes, RowTypes
  <2>4. CASE ~(Holds(w) /\ Verdict(r, TRUE) = "ready" /\ live[r])
    <3>1. Finish(w)
      BY <1>3, <2>4 DEF Prepare
    <3>2. \A q \in Row : \/ status'[q] = status[q]
                         \/ Retractable(q) /\ status'[q] \in {"pending", "cancelled"}
      BY <1>3, <2>1, <2>4, VerdictValues DEF Prepare, Holds, Retractable, RowTypes
    <3>3. ~AtProvider(w)'
      BY <3>1 DEF Finish, AtProvider, WorkerTypes
    <3> QED BY <1>3, <2>2, <3>2, <3>3, QuietStepKeepsMarker DEF Prepare, provider
  <2> QED BY <2>3, <2>4
<1>4. ASSUME NEW w \in Worker, Enter(w) PROVE MarkerIsExclusive'
  <2> DEFINE r == wk[w].row
  <2>1. r \in Row /\ AtProvider(w)
    BY <1>4, BusyHasRow DEF Enter, AtProvider
  <2>2. owner[r] = w /\ status[r] \in {"attempting", "ambiguous", "sent"} /\ entered[r] = 0
    BY <1>4, <2>1 DEF MarkerIsExclusive, Enter
  <2>3. /\ entered' = [entered EXCEPT ![r] = 1]
        /\ accepted' \in {accepted, accepted \cup {r}}
        /\ wk' = [wk EXCEPT ![w].pc = "call"]
        /\ UNCHANGED <<status, owner>>
    BY <1>4, <2>1, <2>2 DEF Enter, Goto, rowVars, ProviderTypes
  <2>4. \A x \in Worker \ {w} : AtProvider(x) => wk[x].row # r
    BY <2>2 DEF MarkerIsExclusive
  <2>5. \A x \in Worker \ {w} : wk'[x] = wk[x]
    BY <2>3 DEF WorkerTypes
  <2>6. wk'[w] = [wk[w] EXCEPT !.pc = "call"] /\ wk'[w].row = r /\ wk'[w].pc = "call"
    BY <2>3 DEF WorkerTypes
  <2> QED
    BY <2>1, <2>2, <2>3, <2>4, <2>5, <2>6
    DEF MarkerIsExclusive, AtProvider, Left, WorkerTypes, ProviderTypes
<1>5. ASSUME NEW w \in Worker, Return(w) PROVE MarkerIsExclusive'
  <2>1. \E pc \in {"unknown", "accepted", "rejected"} :
          /\ wk' = [wk EXCEPT ![w].pc = pc]
          /\ pc = "rejected" => wk[w].row \notin accepted
    BY <1>5 DEF Return, Goto
  <2>2. UNCHANGED <<status, owner, entered, accepted>> /\ AtProvider(w)
    BY <1>5 DEF Return, AtProvider, rowVars, provider
  <2> QED BY <2>1, <2>2 DEF MarkerIsExclusive, AtProvider, WorkerTypes
<1>6. ASSUME NEW w \in Worker, Settle(w) PROVE MarkerIsExclusive'
  <2> DEFINE r == wk[w].row
  <2>1. r \in Row /\ AtProvider(w)
    BY <1>6, BusyHasRow DEF Settle, AtProvider
  <2>2. \A x \in Worker \ {w} : wk'[x] = wk[x] /\ (AtProvider(x) => wk[x].row # r)
    BY <1>6, <2>1 DEF Settle, Finish, Goto, WorkerTypes, MarkerIsExclusive
  <2>3. ~AtProvider(w)' /\ UNCHANGED <<owner, entered, accepted>>
    BY <1>6 DEF Settle, Finish, Goto, AtProvider, WorkerTypes, provider
  <2>4. \A q \in Row \ {r} :
          status'[q] = status[q] \/ (Retractable(q) /\ status'[q] = "cancelled")
    BY <1>6, <2>1, ParkEdits DEF Settle, RowTypes
  <2>5. \/ status'[r] = status[r]
        \/ status'[r] \in {"sent", "ambiguous"} /\ status[r] \in Left
        \/ status'[r] = "failed" /\ status[r] \in Left /\ r \notin accepted
    <3>1. CASE ~HoldsAttempt(w)
      BY <1>6, <3>1 DEF Settle
    <3>2. CASE HoldsAttempt(w) /\ wk[w].pc = "accepted"
      BY <1>6, <2>1, <3>2 DEF Settle, RowTypes, HoldsAttempt, Left
    <3>3. CASE HoldsAttempt(w) /\ wk[w].pc = "rejected"
      BY <1>6, <2>1, <3>3 DEF Settle, RowTypes, HoldsAttempt, Left, MarkerIsExclusive
    <3>4. CASE HoldsAttempt(w) /\ wk[w].pc = "unknown"
      BY <1>6, <2>1, <3>4, ParkEdits DEF Settle, HoldsAttempt, Left
    <3> QED BY <1>6, <3>1, <3>2, <3>3, <3>4 DEF Settle
  <2>6. \A x \in Worker : AtProvider(x) => wk[x].row \in Row
    BY DEF AtProvider, WorkerTypes
  <2> QED
    BY <2>1, <2>2, <2>3, <2>4, <2>5, <2>6
    DEF MarkerIsExclusive, AtProvider, Left, Retractable
<1>7. ASSUME NEW r \in Row, Quarantine(r) PROVE MarkerIsExclusive'
  <2>1. \A q \in Row \ {r} :
          status'[q] = status[q] \/ (Retractable(q) /\ status'[q] = "cancelled")
    BY <1>7, ParkEdits DEF Quarantine, Expired
  <2>2. status'[r] = "ambiguous" /\ status[r] \in {"attempting", "sending"}
    BY <1>7, ParkEdits DEF Quarantine, Expired
  <2>3. \A x \in Worker : AtProvider(x) => wk[x].row \in Row
    BY DEF AtProvider, WorkerTypes
  <2>4. UNCHANGED <<owner, entered, accepted, wk>>
    BY <1>7 DEF Quarantine, provider
  <2> QED BY <2>1, <2>2, <2>3, <2>4 DEF MarkerIsExclusive, AtProvider, Left, Retractable
<1>8. ASSUME NEW r \in Row, Expire(r) PROVE MarkerIsExclusive'
  BY <1>8 DEF Expire, MarkerIsExclusive, AtProvider, provider
<1>9. ASSUME NEW w \in Worker, Crash(w) PROVE MarkerIsExclusive'
  <2>1. ~AtProvider(w)' /\ \A x \in Worker \ {w} : wk'[x] = wk[x]
    BY <1>9 DEF Crash, Finish, AtProvider, WorkerTypes
  <2> QED BY <1>9, <2>1, QuietStepKeepsMarker DEF Crash, rowVars, provider
<1>10. CASE ApplyObserved
  <2>1. seen \in Row /\ status[seen] \in Left \cup {"sending"}
    BY <1>10 DEF ApplyObserved, EnvTypes, ObservedHasLeft
  <2>2. /\ status' = [status EXCEPT ![seen] = "sent"]
        /\ UNCHANGED <<owner, entered, accepted, wk>>
    BY <1>10 DEF ApplyObserved, provider
  <2>3. \A x \in Worker : AtProvider(x) => wk[x].row \in Row
    BY DEF AtProvider, WorkerTypes
  <2> QED BY <2>1, <2>2, <2>3 DEF MarkerIsExclusive, AtProvider, Left, RowTypes
<1>11. CASE QueueEdit
  BY <1>11, EditKeepsMarker
<1>12. CASE UNCHANGED vars
  BY <1>12 DEF vars, rowVars, provider, MarkerIsExclusive, AtProvider
<1> QED
  BY <1>1, <1>2, <1>3, <1>4, <1>5, <1>6, <1>7, <1>8, <1>9, <1>10, <1>11, <1>12,
     ProduceEdits, ControlEdits
  DEF Next, Dispatch, WorkerStep

-----------------------------------------------------------------------------
\* Where the status of a row can go in one transaction.
Move(from, to) ==
  \/ from = to
  \/ from = "absent" /\ to = "pending"
  \/ from \in {"pending", "claimed"} /\ to \in {"pending", "claimed", "cancelled"}
  \/ from = "claimed" /\ to = "attempting"
  \/ from = "attempting" /\ to \in {"sent", "failed", "ambiguous"}
  \/ from = "sending" /\ to = "ambiguous"
  \/ from \in Left \cup {"sending"} /\ to = "sent"

LEMMA StatusMoves ==
  ASSUME TypeOK, ObservedHasLeft, [Next]_vars, NEW r \in Row
  PROVE  Move(status[r], status'[r])
<1> USE DEF TypeOK
<1>1. CASE QueueEdit
  BY <1>1 DEF QueueEdit, Retractable, Move
<1>2. CASE ApplyObserved
  BY <1>2 DEF ApplyObserved, ObservedHasLeft, RowTypes, EnvTypes, Move
<1>3. ASSUME NEW w \in Worker, NEW q \in Row, Claim(w, q)
      PROVE Move(status[r], status'[r])
  BY <1>3 DEF Claim, Claimable, RowTypes, Move
<1>4. ASSUME NEW w \in Worker,
             \/ FirstGuard(w) \/ AwaitSlot(w) \/ SlotFails(w) \/ Enter(w)
             \/ Return(w) \/ Crash(w) \/ Alert(w)
      PROVE Move(status[r], status'[r])
  BY <1>4 DEF FirstGuard, AwaitSlot, SlotFails, Enter, Return, Crash, Alert, rowVars, Move
<1>5. ASSUME NEW w \in Worker, SettleClaim(w) \/ RecordTurn(w)
      PROVE Move(status[r], status'[r])
  BY <1>5 DEF SettleClaim, RecordTurn, Holds, RowTypes, Move
<1>6. ASSUME NEW w \in Worker, Prepare(w) PROVE Move(status[r], status'[r])
  BY <1>6, VerdictValues DEF Prepare, Holds, RowTypes, Move
<1>7. ASSUME NEW w \in Worker, Settle(w) PROVE Move(status[r], status'[r])
  <2>1. wk[w].row \in Row
    BY <1>7, BusyHasRow DEF Settle
  <2>2. CASE ~HoldsAttempt(w)
    BY <1>7, <2>2 DEF Settle, Move
  <2>3. CASE HoldsAttempt(w) /\ wk[w].pc \in {"accepted", "rejected"}
    BY <1>7, <2>1, <2>3 DEF Settle, HoldsAttempt, RowTypes, Move
  <2>4. CASE HoldsAttempt(w) /\ wk[w].pc = "unknown"
    BY <1>7, <2>1, <2>4, ParkEdits DEF Settle, HoldsAttempt, Retractable, Move
  <2> QED BY <1>7, <2>2, <2>3, <2>4 DEF Settle
<1>8. ASSUME NEW q \in Row, Quarantine(q) PROVE Move(status[r], status'[r])
  BY <1>8, ParkEdits DEF Quarantine, Expired, Retractable, Move
<1>9. ASSUME NEW q \in Row, Expire(q) PROVE Move(status[r], status'[r])
  BY <1>9 DEF Expire, Move
<1>10. CASE UNCHANGED vars
  BY <1>10 DEF vars, rowVars, Move
<1> QED
  BY <1>1, <1>2, <1>3, <1>4, <1>5, <1>6, <1>7, <1>8, <1>9, <1>10,
     ProduceEdits, ControlEdits
  DEF Next, Dispatch, WorkerStep

\* The correlated row is remembered or forgotten.
LEMMA SeenMoves ==
  ASSUME [Next]_vars
  PROVE  seen' \in {seen, NoRow} \/ \E r \in Row : ReadObserved(r)
<1>1. CASE Dispatch
  BY <1>1 DEF Dispatch, WorkerStep, Claim, FirstGuard, SettleClaim, RecordTurn, AwaitSlot,
       SlotFails, Prepare, Enter, Return, Settle, Alert, Quarantine, Expire, Crash, envVars
<1>2. CASE Produce
  BY <1>2 DEF Produce, AdmitExecution, ExtractReply, ExtractSilently, ExtractClosing,
       Decide, GiveUp, EnqueueDecided, TerminalFallback, StaffSends, envVars
<1>3. CASE Control
  BY <1>3 DEF Control, InboundArrives, MaterializeOrdinary, MaterializeUnreadable,
       MaterializeFull, AttentionGrows, ResolveAttention,
       MaterializeStop, TakeOver, ResumeBot, CloseWithoutCopy, PauseCampaign,
       ResumeCampaign, CloseCampaign, WithdrawConsent, ApplyObserved, envVars
<1>4. CASE UNCHANGED vars
  BY <1>4 DEF vars, envVars
<1> QED BY <1>1, <1>2, <1>3, <1>4 DEF Next

LEMMA ObservedStep == TypeOK /\ ObservedHasLeft /\ [Next]_vars => ObservedHasLeft'
<1> SUFFICES ASSUME TypeOK, ObservedHasLeft, [Next]_vars, seen' # NoRow
             PROVE  status'[seen'] \in Left \cup {"sending"}
  BY DEF ObservedHasLeft
<1>1. CASE seen' = seen
  <2>1. seen \in Row /\ Move(status[seen], status'[seen])
    BY <1>1, StatusMoves DEF TypeOK, EnvTypes
  <2> QED BY <1>1, <2>1 DEF ObservedHasLeft, Move, Left
<1>2. ASSUME NEW r \in Row, ReadObserved(r) PROVE status'[seen'] \in Left \cup {"sending"}
  BY <1>2 DEF ReadObserved, rowVars, Left
<1> QED BY <1>1, <1>2, SeenMoves

-----------------------------------------------------------------------------
\* The inductive invariant.
OutboxInv == TypeOK /\ MarkerIsExclusive /\ ObservedHasLeft

LEMMA InvInit == Init => OutboxInv
<1> SUFFICES ASSUME Init PROVE OutboxInv
  OBVIOUS
<1>1. MarkerIsExclusive
  BY DEF Init, MarkerIsExclusive, AtProvider
<1>2. ObservedHasLeft
  BY DEF Init, ObservedHasLeft
<1> QED BY <1>1, <1>2, TypeInit DEF OutboxInv

LEMMA InvStep == OutboxInv /\ [Next]_vars => OutboxInv'
BY TypeStep, MarkerStep, ObservedStep DEF OutboxInv

LEMMA InvCorrect == Spec => []OutboxInv
BY InvInit, InvStep, PTL DEF Spec

\* No row is handed to the provider twice, through any interleaving of
\* workers, lease expiries, reclaims, crashes and quarantines.
THEOREM AtMostOnce == Spec => []EnteredAtMostOnce
<1>1. OutboxInv => EnteredAtMostOnce
  BY DEF OutboxInv, MarkerIsExclusive, EnteredAtMostOnce
<1> QED BY <1>1, InvCorrect, PTL

\* A queued or retracted row was never offered, a failed row never taken.
THEOREM Truthful == Spec => []StatusIsTruthful
<1>1. OutboxInv => StatusIsTruthful
  BY DEF OutboxInv, MarkerIsExclusive, StatusIsTruthful, Left
<1> QED BY <1>1, InvCorrect, PTL

-----------------------------------------------------------------------------
LEMMA CallsMove ==
  ASSUME OutboxInv, [Next]_vars
  PROVE  \/ UNCHANGED entered
         \/ /\ UNCHANGED status
            /\ \E r \in Row : /\ status[r] \in Left
                             /\ entered[r] = 0
                             /\ entered' = [entered EXCEPT ![r] = 1]
<1> USE DEF OutboxInv
<1>1. ASSUME NEW w \in Worker, Enter(w)
      PROVE  /\ UNCHANGED status
             /\ \E r \in Row : /\ status[r] \in Left
                              /\ entered[r] = 0
                              /\ entered' = [entered EXCEPT ![r] = 1]
  <2>1. wk[w].row \in Row
    BY <1>1, BusyHasRow DEF Enter, TypeOK
  <2>2. status[wk[w].row] \in Left /\ entered[wk[w].row] = 0
    BY <1>1 DEF Enter, MarkerIsExclusive, AtProvider, Left
  <2>3. entered' = [entered EXCEPT ![wk[w].row] = 1]
    BY <1>1, <2>1, <2>2 DEF Enter, TypeOK, ProviderTypes
  <2>4. UNCHANGED status
    BY <1>1 DEF Enter, rowVars
  <2> QED BY <2>1, <2>2, <2>3, <2>4
<1>2. CASE QueueEdit
  BY <1>2 DEF QueueEdit
<1>3. CASE ApplyObserved
  BY <1>3 DEF ApplyObserved, provider
<1>4. CASE Dispatch /\ ~\E w \in Worker : Enter(w)
  BY <1>4 DEF Dispatch, WorkerStep, Claim, FirstGuard, SettleClaim, RecordTurn, AwaitSlot,
       SlotFails, Prepare, Return, Settle, Alert, Quarantine, Expire, Crash, provider
<1>5. CASE UNCHANGED vars
  BY <1>5 DEF vars, provider
<1> QED BY <1>1, <1>2, <1>3, <1>4, <1>5, ProduceEdits, ControlEdits DEF Next

\* The outbox implements MessageDelivery: a message is retracted only while
\* it cannot have left, offered by at most one call, and settled afterwards.
THEOREM DeliveryCorrect == Spec => DeliveryKept
<1> DEFINE phases == [r \in Row |-> PhaseOf[status[r]]]
<1>1. Init => Delivery!Init
  BY DEF Init, Delivery!Init, PhaseOf
<1>2. OutboxInv /\ [Next]_vars => [Delivery!Next]_<<phases, entered>>
  <2> SUFFICES ASSUME OutboxInv, [Next]_vars
               PROVE  [Delivery!Next]_<<phases, entered>>
    OBVIOUS
  <2>1. \A r \in Row : Move(status[r], status'[r])
    BY StatusMoves DEF OutboxInv
  <2>2. \A r \in Row : status[r] \in Statuses /\ status'[r] \in Statuses
    BY TypeStep DEF OutboxInv, TypeOK, RowTypes
  <2>3. phases' \in [Row -> Delivery!Phases]
    BY <2>2 DEF PhaseOf, Statuses, Delivery!Phases
  <2>4. \A r \in Row : Delivery!MayBecome(phases[r], phases'[r])
    BY <2>1, <2>2 DEF PhaseOf, Statuses, Move, Left, Delivery!MayBecome
  <2>5. CASE UNCHANGED entered
    BY <2>3, <2>4, <2>5 DEF Delivery!Next, Delivery!Advance
  <2>6. ASSUME UNCHANGED status, NEW r \in Row, status[r] \in Left, entered[r] = 0,
               entered' = [entered EXCEPT ![r] = 1]
        PROVE  [Delivery!Next]_<<phases, entered>>
    <3>1. Delivery!MayHaveLeft(r)
      BY <2>6 DEF Delivery!MayHaveLeft, PhaseOf, Left
    <3>2. Delivery!Call(r)
      BY <2>6, <3>1 DEF Delivery!Call
    <3> QED BY <3>2 DEF Delivery!Next
  <2> QED BY <2>5, <2>6, CallsMove
<1> QED BY <1>1, <1>2, InvCorrect, PTL DEF Spec, DeliveryKept, Delivery!Spec

-----------------------------------------------------------------------------
(* What an attempt that cannot be parked waits for.                        *)

\* A list of attention reasons that has no room for the undelivered message
\* never has room again: nothing is taken off it, and the reason that would
\* make the raise unnecessary cannot be put on it.  AttemptIsResolved makes
\* this its one exception.
THEOREM AttentionStaysFull == Spec => [][~CanRaise => ~CanRaise']_vars
<1>1. ASSUME TypeOK, [Next]_vars, ~CanRaise PROVE ~CanRaise'
  <2>1. CASE UNCHANGED attention
    BY <1>1, <2>1 DEF CanRaise
  <2>2. CASE RaiseUndelivered \/ AttentionGrows \/ ResolveAttention
    BY <1>1, <2>2, BoundAssumption
    DEF RaiseUndelivered, AttentionGrows, ResolveAttention, CanRaise, TypeOK, TalkTypes, Attentions
  <2>3. CASE Dispatch
    BY <1>1, <2>1, <2>2, <2>3
    DEF Dispatch, WorkerStep, Claim, FirstGuard, SettleClaim, RecordTurn, AwaitSlot, SlotFails,
        Prepare, Enter, Return, Settle, Alert, Quarantine, Expire, Crash, Park, talkVars
  <2>4. CASE Produce
    BY <2>1, <2>4
    DEF Produce, AdmitExecution, ExtractReply, ExtractSilently, ExtractClosing, Decide, GiveUp,
        EnqueueDecided, TerminalFallback, StaffSends, talkVars
  <2>5. CASE Control
    BY <2>1, <2>2, <2>5
    DEF Control, InboundArrives, MaterializeOrdinary, MaterializeUnreadable, MaterializeFull,
        MaterializeStop, TakeOver, ResumeBot, CloseWithoutCopy, PauseCampaign, ResumeCampaign,
        CloseCampaign, WithdrawConsent, ReadObserved, ApplyObserved, talkVars
  <2>6. CASE UNCHANGED vars
    BY <2>1, <2>6 DEF vars, talkVars
  <2> QED BY <1>1, <2>3, <2>4, <2>5, <2>6 DEF Next
<1>2. TypeOK /\ [Next]_vars => (~CanRaise => ~CanRaise')
  BY <1>1
<1> QED BY <1>2, TypeCorrect, PTL DEF Spec

-----------------------------------------------------------------------------
(* Order and authority at the provider boundary.                           *)

\* What a row is, once it is committed, never changes: its purpose and whether
\* it is the acknowledgement of a STOP.  A row that is committed in front of an
\* existing one is late, for good.
RowsStay ==
  /\ late \subseteq late'
  /\ \A r \in Row : status[r] # "absent" =>
       /\ purpose'[r] = purpose[r]
       /\ IsStopAck(r) => IsStopAck(r)'
       /\ \A q \in 1..(r - 1) :
            status[q] = "absent" => status'[q] = "absent" \/ q \in late'

LEMMA EnqueueKeepsRows ==
  ASSUME RowTypes, NEW p \in Row, NEW kind, NEW doomed, NEW t, Enqueue(p, kind, doomed, t)
  PROVE  /\ late \subseteq late'
         /\ \A r \in Row : status[r] # "absent" =>
              /\ purpose'[r] = purpose[r]
              /\ \A q \in 1..(r - 1) :
                   status[q] = "absent" => status'[q] = "absent" \/ q \in late'
<1>1. late \subseteq late' /\ \A r \in Row : status[r] # "absent" => purpose'[r] = purpose[r]
  BY DEF Enqueue, RowTypes
<1>2. ASSUME NEW r \in Row, status[r] # "absent", NEW q \in 1..(r - 1), status[q] = "absent"
      PROVE  status'[q] = "absent" \/ q \in late'
  <2>1. q \in Row
    BY BoundAssumption DEF Row
  <2>2. CASE q = p
    <3>1. r \in (p + 1)..NRows
      BY <2>2, BoundAssumption DEF Row
    <3> QED BY <1>2, <2>2, <3>1 DEF Enqueue
  <2>3. CASE q # p
    BY <1>2, <2>1, <2>3 DEF Enqueue, Requeued, Retractable
  <2> QED BY <2>2, <2>3
<1> QED BY <1>1, <1>2

\* An action that inserts nothing keeps every committed row.
LEMMA NoInsertKeepsRows ==
  ASSUME RowTypes, UNCHANGED <<purpose, late>>,
         \A q \in Row : status[q] = "absent" => status'[q] = "absent"
  PROVE  /\ late \subseteq late'
         /\ \A r \in Row : status[r] # "absent" =>
              /\ purpose'[r] = purpose[r]
              /\ \A q \in 1..(r - 1) :
                   status[q] = "absent" => status'[q] = "absent" \/ q \in late'
<1>1. \A r \in Row : \A q \in 1..(r - 1) : q \in Row
  BY BoundAssumption DEF Row
<1> QED BY <1>1

\* Nothing is inserted in a step that only edits existing rows.
NoInsert ==
  /\ UNCHANGED <<purpose, late>>
  /\ \A q \in Row : status[q] = "absent" => status'[q] = "absent"

Insert == \E p \in Row : \E kind, doomed, t : Enqueue(p, kind, doomed, t)

LEMMA RequeuedInsertsNot ==
  ASSUME NEW S, status' = Requeued(S, {}), UNCHANGED <<purpose, late>>
  PROVE  NoInsert
BY DEF NoInsert, Requeued, Retractable

\* A step of the dispatchers inserts nothing.
LEMMA DispatchInsertsNot == TypeOK /\ Dispatch => NoInsert
<1> SUFFICES ASSUME TypeOK, Dispatch PROVE NoInsert
  OBVIOUS
<1> USE DEF TypeOK, rowVars
<1>1. ASSUME NEW w \in Worker, NEW r \in Row, Claim(w, r) PROVE NoInsert
  BY <1>1 DEF Claim, Claimable, RowTypes, NoInsert
<1>2. ASSUME NEW w \in Worker,
             \/ FirstGuard(w) \/ AwaitSlot(w) \/ SlotFails(w) \/ Enter(w)
             \/ Return(w) \/ Crash(w) \/ Alert(w)
      PROVE NoInsert
  BY <1>2 DEF FirstGuard, AwaitSlot, SlotFails, Enter, Return, Crash, Alert, NoInsert
<1>3. ASSUME NEW w \in Worker, SettleClaim(w) \/ RecordTurn(w) PROVE NoInsert
  BY <1>3 DEF SettleClaim, RecordTurn, Holds, RowTypes, NoInsert
<1>4. ASSUME NEW w \in Worker, Prepare(w) PROVE NoInsert
  BY <1>4 DEF Prepare, Holds, RowTypes, NoInsert
<1>5. ASSUME NEW w \in Worker, Settle(w) PROVE NoInsert
  <2>1. wk[w].row \in Row
    BY <1>5, BusyHasRow DEF Settle
  <2>2. CASE ~HoldsAttempt(w)
    BY <1>5, <2>2 DEF Settle, NoInsert
  <2>3. CASE HoldsAttempt(w) /\ wk[w].pc \in {"accepted", "rejected"}
    BY <1>5, <2>1, <2>3 DEF Settle, HoldsAttempt, RowTypes, NoInsert
  <2>4. CASE HoldsAttempt(w) /\ wk[w].pc = "unknown"
    BY <1>5, <2>1, <2>4, ParkEdits DEF Settle, HoldsAttempt, Retractable, NoInsert
  <2> QED BY <1>5, <2>2, <2>3, <2>4 DEF Settle
<1>6. ASSUME NEW q \in Row, Quarantine(q) PROVE NoInsert
  BY <1>6, ParkEdits DEF Quarantine, Expired, Retractable, NoInsert
<1>7. ASSUME NEW q \in Row, Expire(q) PROVE NoInsert
  BY <1>7 DEF Expire, NoInsert
<1> QED BY <1>1, <1>2, <1>3, <1>4, <1>5, <1>6, <1>7 DEF Dispatch, WorkerStep

\* Every producer and every event inserts one row or none.
LEMMA EditsInsertOneRow ==
  TypeOK /\ ObservedHasLeft /\ (Produce \/ Control) => NoInsert \/ Insert
<1> SUFFICES ASSUME TypeOK, ObservedHasLeft, Produce \/ Control PROVE NoInsert \/ Insert
  OBVIOUS
<1> USE DEF TypeOK, rowVars
<1>1. CASE \/ AdmitExecution \/ GiveUp \/ InboundArrives \/ ResumeBot \/ PauseCampaign
           \/ ResumeCampaign \/ WithdrawConsent \/ AttentionGrows \/ ResolveAttention
           \/ \E p \in {"nudge", "notice", "fallback"} : Decide(p)
           \/ \E r \in Row : ReadObserved(r)
  BY <1>1 DEF AdmitExecution, GiveUp, InboundArrives, ResumeBot, PauseCampaign,
       ResumeCampaign, WithdrawConsent, Decide, ReadObserved, AttentionGrows,
       ResolveAttention, NoInsert
<1>2. CASE TerminalFallback \/ MaterializeFull
  BY <1>2, RequeuedInsertsNot DEF TerminalFallback, MaterializeFull
<1>3. CASE MaterializeOrdinary
  <2>1. CASE UNCHANGED status
    BY <1>3, <2>1 DEF MaterializeOrdinary, NoInsert
  <2>2. CASE ~UNCHANGED status
    BY <1>3, <2>2, RequeuedInsertsNot DEF MaterializeOrdinary
  <2> QED BY <2>1, <2>2
<1>4. CASE TakeOver \/ CloseWithoutCopy \/ CloseCampaign
  BY <1>4, RequeuedInsertsNot DEF TakeOver, CloseWithoutCopy, CloseCampaign
<1>5. CASE \E handoff \in BOOLEAN : ExtractSilently(handoff)
  <2>1. PICK gone : status' = Requeued(gone, {})
    BY <1>5 DEF ExtractSilently
  <2> QED BY <1>5, <2>1, RequeuedInsertsNot DEF ExtractSilently
<1>6. CASE ApplyObserved
  BY <1>6 DEF ApplyObserved, ObservedHasLeft, Left, EnvTypes, RowTypes, NoInsert
<1>7. ASSUME NEW r \in Row, NEW handoff \in BOOLEAN, ExtractReply(r, handoff) PROVE Insert
  BY <1>7 DEF ExtractReply, Insert
<1>8. ASSUME NEW r \in Row, ExtractClosing(r) \/ EnqueueDecided(r) \/ StaffSends(r) PROVE Insert
  BY <1>8 DEF ExtractClosing, EnqueueDecided, StaffSends, Insert
<1>9. CASE MaterializeUnreadable
  BY <1>9 DEF MaterializeUnreadable, Insert, NoInsert
<1>10. ASSUME NEW r \in Row, MaterializeStop(r) PROVE Insert
  BY <1>10 DEF MaterializeStop, Insert
<1> QED
  BY <1>1, <1>2, <1>3, <1>4, <1>5, <1>6, <1>7, <1>8, <1>9, <1>10 DEF Produce, Control

\* A stop is final: the lifecycle and the terminal row stay what they are.
LEMMA StopStays ==
  ASSUME TypeOK, [Next]_vars, conv.life = "stopped"
  PROVE  conv'.life = "stopped" /\ conv'.terminal = conv.terminal
<1> USE DEF TypeOK, TalkTypes, Conversations, talkVars
<1>1. CASE Dispatch
  BY <1>1 DEF Dispatch, WorkerStep, Claim, FirstGuard, SettleClaim, RecordTurn, AwaitSlot,
       SlotFails, Prepare, Enter, Return, Settle, Alert, Quarantine, Expire, Crash, Park
<1>2. CASE Produce
  BY <1>2 DEF Produce, AdmitExecution, ExtractReply, ExtractSilently, ExtractClosing,
       Decide, GiveUp, EnqueueDecided, TerminalFallback, StaffSends, BotHasTheFloor
<1>3. CASE Control
  BY <1>3 DEF Control, InboundArrives, MaterializeOrdinary, MaterializeUnreadable,
       MaterializeFull, AttentionGrows, ResolveAttention,
       MaterializeStop, TakeOver, ResumeBot, CloseWithoutCopy, PauseCampaign,
       ResumeCampaign, CloseCampaign, WithdrawConsent, ReadObserved, ApplyObserved
<1>4. CASE UNCHANGED vars
  BY <1>4 DEF vars
<1> QED BY <1>1, <1>2, <1>3, <1>4 DEF Next

LEMMA RowsAreStable == TypeOK /\ ObservedHasLeft /\ [Next]_vars => RowsStay
<1> SUFFICES ASSUME TypeOK, ObservedHasLeft, [Next]_vars PROVE RowsStay
  OBVIOUS
<1>1. NoInsert \/ Insert
  <2>1. CASE UNCHANGED vars
    BY <2>1 DEF vars, rowVars, NoInsert
  <2> QED BY <2>1, DispatchInsertsNot, EditsInsertOneRow DEF Next
<1>2. /\ late \subseteq late'
      /\ \A r \in Row : status[r] # "absent" =>
           /\ purpose'[r] = purpose[r]
           /\ \A q \in 1..(r - 1) :
                status[q] = "absent" => status'[q] = "absent" \/ q \in late'
  BY <1>1, EnqueueKeepsRows, NoInsertKeepsRows DEF TypeOK, Insert, NoInsert
<1>3. \A r \in Row : status[r] # "absent" /\ IsStopAck(r) => IsStopAck(r)'
  BY <1>2, StopStays DEF IsStopAck
<1> QED BY <1>2, <1>3 DEF RowsStay

\* A row becomes claimed by a claim and crosses by the prepare transaction.
LEMMA Crossing ==
  ASSUME TypeOK, ObservedHasLeft, [Next]_vars, NEW r \in Row
  PROVE  /\ status'[r] = "claimed" => status[r] = "claimed" \/ \E w \in Worker : Claim(w, r)
         /\ Crosses(r) => Verdict(r, TRUE) = "ready"
<1> DEFINE Goal == /\ status'[r] = "claimed" => status[r] = "claimed" \/ \E w \in Worker : Claim(w, r)
                   /\ Crosses(r) => Verdict(r, TRUE) = "ready"
<1> SUFFICES Goal
  OBVIOUS
<1> USE DEF TypeOK, Crosses
<1>1. CASE QueueEdit
  BY <1>1 DEF QueueEdit, Retractable
<1>2. CASE ApplyObserved
  BY <1>2 DEF ApplyObserved, ObservedHasLeft, RowTypes, EnvTypes
<1>3. ASSUME NEW w \in Worker, NEW q \in Row, Claim(w, q) PROVE Goal
  BY <1>3 DEF Claim, RowTypes
<1>4. ASSUME NEW w \in Worker,
             \/ FirstGuard(w) \/ AwaitSlot(w) \/ SlotFails(w) \/ Enter(w)
             \/ Return(w) \/ Crash(w) \/ Alert(w)
      PROVE Goal
  BY <1>4 DEF FirstGuard, AwaitSlot, SlotFails, Enter, Return, Crash, Alert, rowVars
<1>5. ASSUME NEW w \in Worker, SettleClaim(w) \/ RecordTurn(w) PROVE Goal
  BY <1>5 DEF SettleClaim, RecordTurn, Holds, RowTypes
<1>6. ASSUME NEW w \in Worker, Prepare(w) PROVE Goal
  <2>1. wk[w].row \in Row
    BY <1>6, BusyHasRow DEF Prepare
  <2> QED BY <1>6, <2>1, VerdictValues DEF Prepare, Holds, RowTypes
<1>7. ASSUME NEW w \in Worker, Settle(w) PROVE Goal
  <2>1. wk[w].row \in Row
    BY <1>7, BusyHasRow DEF Settle
  <2>2. CASE ~HoldsAttempt(w)
    BY <1>7, <2>2 DEF Settle
  <2>3. CASE HoldsAttempt(w) /\ wk[w].pc \in {"accepted", "rejected"}
    BY <1>7, <2>1, <2>3 DEF Settle, HoldsAttempt, RowTypes
  <2>4. CASE HoldsAttempt(w) /\ wk[w].pc = "unknown"
    BY <1>7, <2>1, <2>4, ParkEdits DEF Settle, HoldsAttempt, Retractable
  <2> QED BY <1>7, <2>2, <2>3, <2>4 DEF Settle
<1>8. ASSUME NEW q \in Row, Quarantine(q) PROVE Goal
  BY <1>8, ParkEdits DEF Quarantine, Retractable
<1>9. ASSUME NEW q \in Row, Expire(q) PROVE Goal
  BY <1>9 DEF Expire
<1>10. CASE UNCHANGED vars
  BY <1>10 DEF vars, rowVars
<1> QED
  BY <1>1, <1>2, <1>3, <1>4, <1>5, <1>6, <1>7, <1>8, <1>9, <1>10,
     ProduceEdits, ControlEdits
  DEF Next, Dispatch, WorkerStep

\* A claimed row keeps its place: the claim looks at everything older, nothing
\* older becomes unresolved again, and a row committed later in front is late.
LEMMA PlaceStep ==
  TypeOK /\ ObservedHasLeft /\ ClaimKeepsPlace /\ [Next]_vars => ClaimKeepsPlace'
<1> SUFFICES ASSUME TypeOK, ObservedHasLeft, ClaimKeepsPlace, [Next]_vars,
                    NEW r \in Row, status'[r] = "claimed",
                    NEW q \in (1..(r - 1)) \ late', status'[q] \in Blocking
             PROVE  MayPass(r, q)'
  BY DEF ClaimKeepsPlace, Row
<1>1. q \in Row
  BY BoundAssumption DEF Row
<1>2. RowsStay
  BY RowsAreStable
<1>3. ASSUME NEW w \in Worker, Claim(w, r) PROVE MayPass(r, q)'
  <2>1. status'[q] = status[q] /\ purpose' = purpose /\ conv' = conv
    BY <1>3, <1>1 DEF Claim, TypeOK, RowTypes, Row, talkVars
  <2>2. MayPass(r, q)
    BY <1>3, <2>1 DEF Claim, Claimable, MayPass
  <2> QED BY <2>1, <2>2 DEF MayPass, IsStopAck
<1>4. CASE status[r] = "claimed"
  <2>1. status[q] # "absent"
    BY <1>2, <1>4, <1>1 DEF RowsStay, Blocking
  <2>2. Move(status[q], status'[q]) /\ status[q] \in Statuses
    BY <1>1, StatusMoves DEF TypeOK, RowTypes
  <2>3. status[q] \in Blocking
    BY <2>1, <2>2 DEF Move, Blocking, Left, Statuses
  <2>4. MayPass(r, q)
    BY <1>2, <1>4, <2>3 DEF ClaimKeepsPlace, RowsStay
  <2>5. status'[q] = "ambiguous"
    BY <2>2, <2>4 DEF Move, MayPass, Blocking, Left
  <2> QED BY <1>2, <1>4, <2>4, <2>5 DEF MayPass, RowsStay
<1> QED BY <1>3, <1>4, Crossing

\* No row crosses the boundary while a row committed before it, and older, is
\* unresolved; only staff and the STOP acknowledgement pass an ambiguous one.
THEOREM CrossesInOrder == Spec => FifoEntry
<1> DEFINE Place == OutboxInv /\ ClaimKeepsPlace
<1>1. Init => Place
  <2>1. Init => ClaimKeepsPlace
    BY DEF Init, ClaimKeepsPlace
  <2> QED BY <2>1, InvInit
<1>2. Place /\ [Next]_vars => Place'
  BY InvStep, PlaceStep DEF OutboxInv
<1>3. Place => \A r \in Row : Crosses(r) =>
        \A q \in (1..(r - 1)) \ late : (status[q] \in Blocking) => MayPass(r, q)
  BY DEF ClaimKeepsPlace, Crosses
<1> QED BY <1>1, <1>2, <1>3, PTL DEF Spec, FifoEntry

\* What the final guard lets through is what the conversation allows at the
\* moment of the crossing, not at the moment of the claim.
LEMMA ReadyHasAuthority ==
  ASSUME TypeOK, NEW r \in Row, Verdict(r, TRUE) = "ready"
  PROVE  /\ conv.life = "stopped" => r = conv.terminal
         /\ conv.life # "ended"
         /\ (~consent \/ campaign # "launched") => IsStopAck(r)
         /\ conv.mode = "human" => purpose[r] = "staff" \/ r = conv.terminal
         /\ (conv.awaiting /\ conv.life = "open") => purpose[r] = "staff" \/ r = turns.lastBot
<1>1. campaign \in {"launched", "paused", "closed"}
  BY DEF TypeOK, EnvTypes
<1>2. /\ (~consent \/ campaign # "launched") => IsStopAck(r)
      /\ Closed => IsTerminalMessage(r)
      /\ conv.mode = "human" => ~Automated(r) \/ IsTerminalMessage(r)
      /\ conv.awaiting => ~Automated(r) \/ IsTerminalMessage(r) \/ Commitment = r
  BY <1>1 DEF Verdict
<1>3. IsTerminalMessage(r) => conv.life \in {"stopped", "answered"} /\ conv.terminal = r
  BY DEF IsTerminalMessage, IsStopAck
<1> QED BY <1>2, <1>3 DEF Closed, Automated, Commitment

\* After STOP nothing but its acknowledgement crosses; without consent or on a
\* campaign that is not launched the same; under human control only staff and
\* the terminal row; and while a human is awaited the bot says nothing but its
\* latest turn, unless the extraction has read past it.
THEOREM CrossesWithAuthority == Spec => AuthorityAtEntry
<1>1. OutboxInv /\ [Next]_vars => \A r \in Row : Crosses(r) =>
        /\ conv.life = "stopped" => r = conv.terminal
        /\ conv.life # "ended"
        /\ (~consent \/ campaign # "launched") => IsStopAck(r)
        /\ conv.mode = "human" => purpose[r] = "staff" \/ r = conv.terminal
        /\ (conv.awaiting /\ conv.life = "open") => purpose[r] = "staff" \/ r = turns.lastBot
  BY Crossing, ReadyHasAuthority DEF OutboxInv
<1> QED BY <1>1, InvCorrect, PTL DEF Spec, AuthorityAtEntry
=============================================================================
