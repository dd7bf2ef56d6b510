------------------------------- MODULE Outbox -------------------------------
(***************************************************************************)
(* The outbound queue of one feedback conversation: message_outbox rows,   *)
(* the dispatchers that claim them and enter the WhatsApp provider, and    *)
(* the operations that enqueue, retract or park them (post-event-feedback  *)
(* modules outbox, ingress, extraction, inbox, campaign).                  *)
(*                                                                         *)
(* Every database transaction that holds the conversation advisory lock is *)
(* one action.  What a dispatcher does between two transactions is a step  *)
(* of its own, and so is the provider call.                                *)
(*                                                                         *)
(* Simplifications.  One conversation: claims of different conversations   *)
(* share no row.  `held` is left out, no code writes it.  Rows, campaigns  *)
(* and participants are never deleted (foreign keys restrict), so the      *)
(* `finish_failed` refusals of a missing record cannot happen.  The claim  *)
(* token is the worker that made the claim: a worker drops its token       *)
(* before it claims again.  Every producer writes its transcript turn in   *)
(* the transaction that enqueues the row, so the dispatcher's own record   *)
(* step finds it there; a row whose turn finds the transcript full is      *)
(* cancelled by the transaction that inserts it and is left out.  The two  *)
(* closing reasons with copy, `completed` and `declined`, are "answered";  *)
(* `expired` and `cancelled` are "ended".  Of the attention reasons only   *)
(* the one the outbox raises, undelivered_message without an anchor, is    *)
(* told apart; the others only fill the list (AttentionGrows).             *)
(***************************************************************************)
EXTENDS Integers, FiniteSets

CONSTANTS
  Worker,     \* overlapping runs of the dispatch job
  NoWorker,   \* no owner
  NRows,      \* bound: rows the conversation ever enqueues
  MaxReasons, \* FEEDBACK_CONVERSATION_MAX_ATTENTION_REASONS
  MaxFlips,   \* bound: control, campaign and inbound events
  MaxFaults   \* bound: crashes, stalls and limiter failures

ASSUME WorkerAssumption == NoWorker \notin Worker
ASSUME BoundAssumption ==
  /\ NRows \in Nat \ {0}
  /\ MaxReasons \in Nat
  /\ MaxFlips \in Nat
  /\ MaxFaults \in Nat

VARIABLES
  status,    \* row -> message_outbox.status; "absent" before the insert
  purpose,   \* row -> dispatch_context.purpose
  owner,     \* row -> the worker whose claim_token the row carries
  live,      \* row -> claim_expires_at is in the future
  stale,     \* replies whose immutable evidence no longer matches
  late,      \* rows committed after a row with a newer created_at
  entered,   \* row -> number of provider calls made for it
  accepted,  \* rows the provider took
  conv,      \* lifecycle, terminalOutboxId, control.mode, awaitingHuman
  turns,     \* what the transcript says about the latest bot turn
  attention, \* attentionReasons ever raised; is undelivered_message unresolved
  campaign,  \* feedback_campaigns.status
  consent,   \* participants.post_event_feedback_whatsapp_opt_in
  inbound,   \* a durable inbound observation waits for materialization
  plan,      \* an enqueue decided on a snapshot and not yet committed
  seen,      \* row an observed outbound was correlated with, not yet applied
  wk,        \* worker -> program counter and claimed row
  flips, faults

rowVars  == <<status, purpose, owner, live, stale, late>>
provider == <<entered, accepted>>
talkVars == <<conv, turns, attention>>
envVars  == <<campaign, consent, inbound, plan, seen>>
bounds   == <<flips, faults>>
vars == <<rowVars, provider, talkVars, envVars, wk, bounds>>

Row   == 1..NRows          \* in created_at order
NoRow == 0

Statuses == {"absent", "pending", "claimed", "attempting", "ambiguous",
             "sending", "sent", "failed", "cancelled"}
\* campaign_intro and reminder are "nudge"; media and parked notices "notice"
Purposes == {"reply", "closing", "nudge", "notice", "stopAck", "staff"}
Pcs == {"idle", "guard", "release", "refuse", "record", "slot", "prepare",
        "enter", "call", "accepted", "rejected", "unknown", "alert"}

\* FEEDBACK_OUTBOX_FIFO_BLOCKING_STATUSES: can still affect the participant
Blocking == {"pending", "claimed", "attempting", "ambiguous", "sending"}

\* kind: the columns `kind` and transcript actor are derived from the purpose;
\* whatever staff did not write is a turn of the bot, a notice and the
\* acknowledgement of a STOP too
Automated(r)  == purpose[r] # "staff"
Supersedable(r) == purpose[r] \in {"reply", "closing", "nudge"}
BotTurn(p)    == p # "staff"

\* Mutant: a row whose attempt has begun can still be retracted.
RetractableAttempt(r) == status[r] \in {"pending", "claimed", "attempting"}

\* cancellablePreSendOutbox: provider entry is still impossible
Retractable(r) == status[r] \in {"pending", "claimed"}

\* The status column after a transaction that cancels the retractable rows of
\* S and inserts the rows of new.
Requeued(S, new) ==
  [r \in Row |-> IF r \in new THEN "pending"
                 ELSE IF r \in S /\ Retractable(r) THEN "cancelled"
                 ELSE status[r]]

-----------------------------------------------------------------------------
(* What a row is allowed to do now.                                        *)

Closed == conv.life # "open"

\* The acknowledgement the STOP transition named as its terminal row.
IsStopAck(r) ==
  conv.life = "stopped" /\ conv.terminal = r /\ purpose[r] = "stopAck"

\* isPermittedTerminalMessage
IsTerminalMessage(r) ==
  \/ IsStopAck(r)
  \/ conv.life = "answered" /\ conv.terminal = r /\ purpose[r] = "closing"

\* currentAwaitingHumanCommitmentOutboxId: the latest bot turn, whatever it
\* says, if it is newer than the extraction cursor, while the conversation waits
\* for a human.
Commitment == IF conv.awaiting THEN turns.lastBot ELSE NoRow

\* evaluateConversationDispatch and the guards of guardCurrentState, in the
\* order of the code.  "final" is the guard inside the prepare transaction,
\* the only one that compares a reply with its evidence.
Verdict(r, final) ==
  IF ~Closed /\ purpose[r] \in {"closing", "stopAck"} THEN "release"
  ELSE IF campaign = "closed" /\ ~IsStopAck(r) THEN "refuse"
  ELSE IF campaign = "paused" /\ ~IsStopAck(r) THEN "release"
  ELSE IF \/ Closed /\ ~IsTerminalMessage(r)
          \/ conv.mode = "human" /\ Automated(r) /\ ~IsTerminalMessage(r)
          \/ ~consent /\ ~IsStopAck(r)
          \/ conv.awaiting /\ Automated(r) /\ ~IsTerminalMessage(r) /\ Commitment # r
          \/ /\ final /\ purpose[r] = "reply" /\ Commitment # r
             /\ (r \in stale \/ inbound)
       THEN "refuse"
  ELSE "ready"

\* Mutants of Claimable: an attempt whose lease ran out is taken like a claim;
\* every row passes an ambiguous one; the acknowledgement of a STOP is held back
\* with the rest of a campaign that is not launched.
ReclaimsAttempts(r) ==
  /\ status[r] = "pending" \/ (status[r] \in {"claimed", "attempting"} /\ ~live[r])
  /\ campaign = "launched" \/ IsStopAck(r)
  /\ \A q \in 1..(r - 1) : status[q] \notin Blocking

AllPassAmbiguous(r) ==
  /\ status[r] = "pending" \/ (status[r] = "claimed" /\ ~live[r])
  /\ campaign = "launched" \/ IsStopAck(r)
  /\ \A q \in 1..(r - 1) : status[q] \in Blocking => status[q] = "ambiguous"

LaunchedOnly(r) ==
  /\ status[r] = "pending" \/ (status[r] = "claimed" /\ ~live[r])
  /\ campaign = "launched"
  /\ \A q \in 1..(r - 1) :
       status[q] \in Blocking =>
         status[q] = "ambiguous" /\ (purpose[r] = "staff" \/ IsStopAck(r))

\* claimDispatchBatch: launched or the exact terminal row; pending or an
\* expired claim; nothing older still unresolved, except that an explicit
\* staff message and the exact terminal row pass an ambiguity.
Claimable(r) ==
  /\ status[r] = "pending" \/ (status[r] = "claimed" /\ ~live[r])
  /\ campaign = "launched" \/ IsStopAck(r)
  /\ \A q \in 1..(r - 1) :
       status[q] \in Blocking =>
         status[q] = "ambiguous" /\ (purpose[r] = "staff" \/ IsStopAck(r))

\* Mutant: the token alone, without the status.
HoldsToken(w) == owner[wk[w].row] = w

\* The token predicate of release, renew, finish and the send marker.
Holds(w) == status[wk[w].row] = "claimed" /\ owner[wk[w].row] = w

\* activeDispatchAttempt
HoldsAttempt(w) ==
  LET r == wk[w].row
  IN  status[r] = "attempting" /\ owner[r] = w /\ live[r]

Orphaned(r) == \A w \in Worker : wk[w].row # r \/ owner[r] # w

-----------------------------------------------------------------------------
Init ==
  \* launch commits the conversation with its introduction; at cutover the
  \* first row may be one the legacy relay had already handed over
  /\ \E s \in {"pending", "sending"} :
       status = [r \in Row |-> IF r = 1 THEN s ELSE "absent"]
  /\ purpose = [r \in Row |-> "nudge"]
  /\ owner = [r \in Row |-> NoWorker]
  /\ live = [r \in Row |-> FALSE]
  /\ stale = {}
  /\ late = {}
  /\ entered = [r \in Row |-> 0]
  /\ accepted = {}
  /\ conv = [life |-> "open", terminal |-> NoRow, mode |-> "bot",
             awaiting |-> FALSE]
  /\ turns = [lastBot |-> 1, heard |-> FALSE, unread |-> FALSE]
  /\ attention = [raised |-> 0, told |-> FALSE]
  /\ campaign = "launched"
  /\ consent = TRUE
  /\ inbound = FALSE
  /\ plan = "none"
  /\ seen = NoRow
  /\ wk = [w \in Worker |-> [pc |-> "idle", row |-> NoRow]]
  /\ flips = 0
  /\ faults = 0

Flip  == flips < MaxFlips /\ flips' = flips + 1 /\ UNCHANGED faults
Fault == faults < MaxFaults /\ faults' = faults + 1 /\ UNCHANGED flips

Goto(w, pc) == wk' = [wk EXCEPT ![w].pc = pc]
Finish(w)   == wk' = [wk EXCEPT ![w] = [pc |-> "idle", row |-> NoRow]]

-----------------------------------------------------------------------------
(* One dispatch: claim, guard, transcript, slot, prepare, provider, settle. *)

Claim(w, r) ==
  /\ wk[w].pc = "idle"
  /\ Claimable(r)
  /\ status' = [status EXCEPT ![r] = "claimed"]
  /\ owner' = [owner EXCEPT ![r] = w]
  /\ live' = [live EXCEPT ![r] = TRUE]
  /\ wk' = [wk EXCEPT ![w] = [pc |-> "guard", row |-> r]]
  /\ UNCHANGED <<purpose, stale, late, provider, talkVars, envVars, bounds>>

\* The first guard reads without a lock; its settlement is a later write.
FirstGuard(w) ==
  /\ wk[w].pc = "guard"
  /\ LET v == Verdict(wk[w].row, FALSE)
     IN  Goto(w, IF v = "ready" THEN "record" ELSE v)
  /\ UNCHANGED <<rowVars, provider, talkVars, envVars, bounds>>

\* settleClaim: back to pending or cancelled, if the token still owns the row.
SettleClaim(w) ==
  /\ wk[w].pc \in {"release", "refuse"}
  /\ LET r == wk[w].row
         to == IF wk[w].pc = "release" THEN "pending" ELSE "cancelled"
     IN  status' = IF Holds(w) THEN [status EXCEPT ![r] = to] ELSE status
  /\ Finish(w)
  /\ UNCHANGED <<purpose, owner, live, stale, late, provider, talkVars, envVars, bounds>>

\* raiseAttention of undelivered_message does nothing while one is unresolved
\* and throws when the list, which counts resolved reasons too, is full.
CanRaise == attention.told \/ attention.raised < MaxReasons

RaiseUndelivered ==
  /\ CanRaise
  /\ attention' = IF attention.told THEN attention
                  ELSE [raised |-> attention.raised + 1, told |-> TRUE]

\* The turn is already in the transcript, or the body cannot be retained and
\* the claim is finished as cancelled, with a reason for the operator; when the
\* reason finds no room the row stays claimed.  A STOP's own row is cut to
\* length when it is written.
RecordTurn(w) ==
  /\ wk[w].pc = "record"
  /\ LET r == wk[w].row
         full == attention.raised >= MaxReasons
     IN  \/ Goto(w, "slot") /\ UNCHANGED <<status, attention>>
         \/ /\ purpose[r] # "stopAck"
            /\ Finish(w)
            /\ \/ (~Holds(w) \/ full) /\ UNCHANGED <<status, attention>>
               \/ /\ Holds(w)
                  /\ status' = [status EXCEPT ![r] = "cancelled"]
                  /\ UNCHANGED attention \/ RaiseUndelivered
  /\ UNCHANGED <<purpose, owner, live, stale, late, provider, conv, turns, envVars, bounds>>

\* A heartbeat while waiting, or the renewal after the slot was granted.  The
\* token is the fence; an expired lease does not stop the renewal.
AwaitSlot(w) ==
  /\ wk[w].pc = "slot"
  /\ IF Holds(w)
     THEN /\ live' = [live EXCEPT ![wk[w].row] = TRUE]
          /\ Goto(w, "slot") \/ Goto(w, "prepare")
     ELSE /\ Finish(w)
          /\ UNCHANGED live
  /\ UNCHANGED <<status, purpose, owner, stale, late, provider, talkVars, envVars, bounds>>

\* The Redis limiter failed: deferred, the row stays claimed until it expires.
SlotFails(w) ==
  /\ wk[w].pc = "slot"
  /\ Fault
  /\ Finish(w)
  /\ UNCHANGED <<rowVars, provider, talkVars, envVars>>

\* Mutant: the first guard is trusted, nothing is read again.
PrepareUnguarded(w) ==
  /\ wk[w].pc = "prepare"
  /\ IF Holds(w) /\ live[wk[w].row]
     THEN status' = [status EXCEPT ![wk[w].row] = "attempting"] /\ Goto(w, "enter")
     ELSE UNCHANGED status /\ Finish(w)
  /\ UNCHANGED <<purpose, owner, live, stale, late, provider, talkVars, envVars, bounds>>

\* The final guard and the send marker, in one transaction under the phone,
\* conversation and campaign locks.
Prepare(w) ==
  /\ wk[w].pc = "prepare"
  /\ LET r == wk[w].row
         v == Verdict(r, TRUE)
         to == CASE v = "ready"   -> "attempting"
                 [] v = "release" -> "pending"
                 [] OTHER         -> "cancelled"
         marked == Holds(w) /\ v = "ready" /\ live[r]
     IN  /\ IF marked \/ (Holds(w) /\ v # "ready")
            THEN status' = [status EXCEPT ![r] = to]
            ELSE UNCHANGED status
         /\ IF marked THEN Goto(w, "enter") ELSE Finish(w)
  /\ UNCHANGED <<purpose, owner, live, stale, late, provider, talkVars, envVars, bounds>>

\* transport.sendText reaches the provider, which takes the message or not.
Enter(w) ==
  /\ wk[w].pc = "enter"
  /\ entered' = [entered EXCEPT ![wk[w].row] = @ + 1]
  /\ \E took \in BOOLEAN :
       accepted' = IF took THEN accepted \cup {wk[w].row} ELSE accepted
  /\ Goto(w, "call")
  /\ UNCHANGED <<rowVars, talkVars, envVars, bounds>>

\* What the call reports: the truth, or that it does not know (a timeout, a
\* thrown error).
Return(w) ==
  /\ wk[w].pc = "call"
  /\ \/ Goto(w, "unknown")
     \/ Goto(w, IF wk[w].row \in accepted THEN "accepted" ELSE "rejected")
  /\ UNCHANGED <<rowVars, provider, talkVars, envVars, bounds>>

\* parkUncertainDelivery: retract queued automation, except a STOP's own row,
\* hand an open bot conversation to a human and tell the operator.  When the
\* operator cannot be told the transaction rolls back.
Park(r) ==
  LET keep == IF conv.life = "stopped" THEN {conv.terminal} ELSE {}
      doomed == {q \in Row : Automated(q)} \ keep
  IN  /\ RaiseUndelivered
      /\ status' = [Requeued(doomed, {}) EXCEPT ![r] = "ambiguous"]
      /\ conv' = [conv EXCEPT !.awaiting =
                    @ \/ (conv.life = "open" /\ conv.mode = "bot")]

\* finalizeAccepted, finalizeNotAccepted, markAmbiguous: each a compare-and-set
\* on the attempt, which a worker that lost the lease fails.  An unknown result
\* that cannot be parked leaves the row attempting.
Settle(w) ==
  /\ wk[w].pc \in {"accepted", "rejected", "unknown"}
  /\ LET r == wk[w].row
     IN  \/ /\ ~HoldsAttempt(w) \/ (wk[w].pc = "unknown" /\ ~CanRaise)
            /\ UNCHANGED <<status, conv, attention>> /\ Finish(w)
         \/ /\ HoldsAttempt(w) /\ wk[w].pc = "accepted"
            /\ status' = [status EXCEPT ![r] = "sent"]
            /\ UNCHANGED <<conv, attention>> /\ Finish(w)
         \/ /\ HoldsAttempt(w) /\ wk[w].pc = "rejected"
            /\ status' = [status EXCEPT ![r] = "failed"]
            /\ UNCHANGED <<conv, attention>> /\ Goto(w, "alert")
         \/ HoldsAttempt(w) /\ wk[w].pc = "unknown" /\ Park(r) /\ Finish(w)
  /\ UNCHANGED <<purpose, owner, live, stale, late, provider, turns, envVars, bounds>>

\* raiseUndeliveredAttention: a transaction of its own, whose failure is logged.
Alert(w) ==
  /\ wk[w].pc = "alert"
  /\ IF CanRaise THEN RaiseUndelivered ELSE UNCHANGED attention
  /\ Finish(w)
  /\ UNCHANGED <<rowVars, provider, conv, turns, envVars, bounds>>

\* Mutant: only the rows of the legacy relay are quarantined.
QuarantineLegacy(r) ==
  /\ status[r] = "sending"
  /\ Park(r)
  /\ UNCHANGED <<purpose, owner, live, stale, late, provider, turns, envVars, wk, bounds>>

\* What a poll quarantines before it claims: an attempt whose lease ran out, and
\* a row the legacy relay left behind.
Expired(r) ==
  \/ status[r] = "attempting" /\ ~live[r]
  \/ status[r] = "sending"

\* quarantineExpired: the row becomes ambiguous.
Quarantine(r) ==
  /\ Expired(r)
  /\ Park(r)
  /\ UNCHANGED <<purpose, owner, live, stale, late, provider, turns, envVars, wk, bounds>>

\* A quarantine that throws ends the poll before it claims: from then on a claim
\* is only made by a poll that looked before the lease ran out.
PollsFail == ~CanRaise /\ \E r \in Row : Expired(r)

\* A lease runs out: always when nobody works on it any more, and as a fault
\* when the worker that holds it stalls for longer than two minutes.
Expire(r) ==
  /\ status[r] \in {"claimed", "attempting"}
  /\ live[r]
  /\ \/ Orphaned(r) /\ UNCHANGED bounds
     \/ ~Orphaned(r) /\ Fault
  /\ live' = [live EXCEPT ![r] = FALSE]
  /\ UNCHANGED <<status, purpose, owner, stale, late, provider, talkVars, envVars, wk>>

\* The process dies: what it had not written is gone.
Crash(w) ==
  /\ wk[w].pc # "idle"
  /\ Fault
  /\ Finish(w)
  /\ UNCHANGED <<rowVars, provider, talkVars, envVars>>

-----------------------------------------------------------------------------
(* Producers.  created_at is the start of the inserting transaction, so a   *)
(* row may become visible after a row with a newer created_at: any absent   *)
(* row can be the next one committed.                                       *)

\* Insert row r and cancel the retractable rows of `doomed`; t is the transcript
\* state the new turn is appended to.
Enqueue(r, p, doomed, t) ==
  /\ status[r] = "absent"
  /\ status' = Requeued(doomed, {r})
  /\ purpose' = [purpose EXCEPT ![r] = p]
  /\ late' = IF \E q \in (r + 1)..NRows : status[q] # "absent"
             THEN late \cup {r} ELSE late
  /\ turns' = IF BotTurn(p) THEN [t EXCEPT !.lastBot = r, !.heard = FALSE] ELSE t

\* The extraction cursor moves past every participant turn; an older bot turn
\* falls behind it.
Read(t) == [t EXCEPT !.unread = FALSE,
                     !.lastBot = IF t.heard THEN NoRow ELSE @]

\* Every ordinary reply committed so far carries an older generation.
OldReplies == {r \in Row : status[r] # "absent" /\ purpose[r] = "reply"}

BotHasTheFloor == conv.life = "open" /\ conv.mode = "bot" /\ ~conv.awaiting

\* tryClaim of the execution fence: a new epoch, which makes queued replies stale.
AdmitExecution ==
  /\ BotHasTheFloor /\ campaign = "launched"
  /\ stale' = stale \cup OldReplies
  /\ UNCHANGED <<status, purpose, owner, live, late, provider, talkVars, envVars, wk, bounds>>

\* The commit of an extraction whose snapshot is still current: a reply, a
\* reply that hands over, a silent handover, or nothing but the cursor.
ExtractReply(r, handoff) ==
  /\ BotHasTheFloor /\ turns.unread
  /\ ~handoff => ~inbound
  /\ Enqueue(r, "reply", IF handoff THEN {q \in Row : Automated(q)} ELSE {}, Read(turns))
  /\ conv' = [conv EXCEPT !.awaiting = handoff]
  /\ stale' = stale \cup OldReplies
  /\ UNCHANGED <<owner, live, provider, attention, envVars, wk, bounds>>

ExtractSilently(handoff) ==
  /\ BotHasTheFloor /\ turns.unread
  /\ status' = Requeued(IF handoff THEN {q \in Row : Automated(q)} ELSE {}, {})
  /\ turns' = Read(turns)
  /\ conv' = [conv EXCEPT !.awaiting = handoff]
  /\ stale' = stale \cup OldReplies
  /\ UNCHANGED <<purpose, owner, live, late, provider, attention, envVars, wk, bounds>>

\* advanceCursorAndClose with its closing copy: every other queued row goes.
ExtractClosing(r) ==
  /\ BotHasTheFloor /\ turns.unread /\ ~inbound
  /\ Enqueue(r, "closing", Row, Read(turns))
  /\ conv' = [conv EXCEPT !.life = "answered", !.terminal = r]
  /\ UNCHANGED <<owner, live, stale, provider, attention, envVars, wk, bounds>>

\* A reconciliation decides on a snapshot; it enqueues or gives up later.  An
\* inbound message outside the snapshot overtakes a reminder.
Decide(p) ==
  /\ plan = "none"
  /\ BotHasTheFloor
  /\ campaign = "launched"
  /\ p = "nudge" => ~turns.unread /\ consent
  /\ p \in {"notice", "fallback"} => turns.unread
  /\ plan' = IF p = "nudge" /\ inbound THEN "overtaken" ELSE p
  /\ UNCHANGED <<rowVars, provider, talkVars, campaign, consent, inbound, seen, wk, bounds>>

GiveUp ==
  /\ plan # "none"
  /\ plan' = "none"
  /\ UNCHANGED <<rowVars, provider, talkVars, campaign, consent, inbound, seen, wk, bounds>>

\* remindOne and sendParkedNotice take no conversation lock and do not look at
\* the conversation again; the reminder alone checks for newer inbound
\* (hasInboundBeyondSnapshot), materialized or not.
EnqueueDecided(r) ==
  /\ plan \in {"nudge", "notice"}
  /\ Enqueue(r, plan, {}, turns)
  /\ plan' = "none"
  /\ UNCHANGED <<owner, live, stale, provider, conv, attention, campaign, consent, inbound, seen, wk, bounds>>

\* fallback.apply: cancels all automation and hands an open bot conversation
\* to a human, whatever became of the conversation since the run failed.
TerminalFallback ==
  /\ plan = "fallback"
  /\ plan' = "none"
  /\ status' = Requeued({q \in Row : Automated(q)}, {})
  /\ conv' = [conv EXCEPT !.awaiting =
                @ \/ (conv.life = "open" /\ conv.mode = "bot")]
  /\ UNCHANGED <<purpose, owner, live, stale, late, provider, turns, attention, campaign, consent, inbound, seen, wk, bounds>>

StaffSends(r) ==
  /\ campaign = "launched" /\ conv.life = "open" /\ conv.mode = "human"
  /\ Enqueue(r, "staff", {}, turns)
  /\ UNCHANGED <<owner, live, stale, provider, conv, attention, envVars, wk, bounds>>

-----------------------------------------------------------------------------
(* Inbound messages, STOP, operators, the campaign and the participant.     *)

InboundArrives ==
  /\ ~inbound
  /\ Flip
  /\ inbound' = TRUE
  /\ plan' = IF plan = "nudge" THEN "overtaken" ELSE plan
  /\ UNCHANGED <<rowVars, provider, talkVars, campaign, consent, seen, wk>>

\* persistOrdinaryInbound: a turn, new work, and queued questionnaire copy is
\* retracted except the promise of a handover and the terminal row.  A message
\* routed to a conversation that was already closed retracts nothing.
MaterializeOrdinary ==
  /\ inbound
  /\ inbound' = FALSE
  /\ turns' = [turns EXCEPT !.heard = TRUE, !.unread = TRUE]
  /\ stale' = stale \cup OldReplies
  /\ LET keep == {Commitment} \cup (IF Closed THEN {conv.terminal} ELSE {})
     IN  \/ status' = Requeued({q \in Row : Supersedable(q)} \ keep, {})
         \/ Closed /\ UNCHANGED status
  /\ UNCHANGED <<purpose, owner, live, late, provider, conv, attention, campaign, consent, plan, seen, wk, bounds>>

\* flagUnmaterializedInbound for a body the transcript cannot represent: the
\* participant is told, and not while the campaign is paused or closed.  (The
\* dedupe key of the notice allows one per conversation, the model any number.)
MaterializeUnreadable ==
  /\ inbound
  /\ inbound' = FALSE
  /\ \/ UNCHANGED <<status, purpose, late, turns>>
     \/ campaign = "launched" /\ \E r \in Row : Enqueue(r, "notice", {}, turns)
  /\ UNCHANGED <<owner, live, stale, provider, conv, attention, campaign, consent, plan, seen, wk, bounds>>

\* flagUnmaterializedInbound for a transcript without room for the message: no
\* turn, and the conversation, if it is still the bot's, is handed to a human.
\* Every automated row that is queued goes, the terminal one too.
MaterializeFull ==
  /\ inbound
  /\ inbound' = FALSE
  /\ status' = Requeued({q \in Row : Automated(q)}, {})
  /\ conv' = [conv EXCEPT !.awaiting =
                @ \/ (conv.life = "open" /\ conv.mode = "bot")]
  /\ UNCHANGED <<purpose, owner, live, stale, late, provider, turns, attention, campaign, consent, plan, seen, wk, bounds>>

\* stop.apply: the acknowledgement becomes the terminal row of a conversation
\* that is stopped for good, whatever closed it before.
MaterializeStop(r) ==
  /\ inbound
  /\ inbound' = FALSE
  /\ conv.life # "stopped"
  /\ Enqueue(r, "stopAck", Row, turns)
  /\ conv' = [conv EXCEPT !.life = "stopped", !.terminal = r]
  /\ consent' = FALSE
  /\ UNCHANGED <<owner, live, stale, provider, attention, campaign, plan, seen, wk, bounds>>

\* takeOver by staff or by an outbound message we did not send.
TakeOver ==
  /\ conv.life = "open" /\ conv.mode = "bot"
  /\ Flip
  /\ conv' = [conv EXCEPT !.mode = "human", !.awaiting = FALSE]
  /\ stale' = stale \cup OldReplies
  /\ status' = Requeued({q \in Row : Automated(q)}, {})
  /\ UNCHANGED <<purpose, owner, live, late, provider, turns, attention, envVars, wk>>

ResumeBot ==
  /\ conv.life = "open" /\ conv.mode = "human"
  /\ conv' = [conv EXCEPT !.mode = "bot", !.awaiting = FALSE]
  /\ stale' = stale \cup OldReplies
  /\ UNCHANGED <<status, purpose, owner, live, late, provider, turns, attention, envVars, wk, bounds>>

\* Staff close or silent expiry: no closing copy, nothing queued survives.
CloseWithoutCopy ==
  /\ conv.life = "open"
  /\ conv' = [conv EXCEPT !.life = "ended", !.terminal = NoRow]
  /\ status' = Requeued(Row, {})
  /\ UNCHANGED <<purpose, owner, live, stale, late, provider, turns, attention, envVars, wk, bounds>>

PauseCampaign ==
  /\ campaign = "launched"
  /\ Flip
  /\ campaign' = "paused"
  /\ UNCHANGED <<rowVars, provider, talkVars, consent, inbound, plan, seen, wk>>

\* A new resume generation on every open conversation.
ResumeCampaign ==
  /\ campaign = "paused"
  /\ campaign' = "launched"
  /\ stale' = stale \cup OldReplies
  /\ UNCHANGED <<status, purpose, owner, live, late, provider, talkVars, consent, inbound, plan, seen, wk, bounds>>

CloseCampaign ==
  /\ campaign # "closed"
  /\ campaign' = "closed"
  /\ status' = Requeued({r \in Row : ~IsStopAck(r)}, {})
  /\ UNCHANGED <<purpose, owner, live, stale, late, provider, talkVars, consent, inbound, plan, seen, wk, bounds>>

WithdrawConsent ==
  /\ consent
  /\ consent' = FALSE
  /\ UNCHANGED <<rowVars, provider, talkVars, campaign, inbound, plan, seen, wk, bounds>>

\* A reason of another kind, or about another message, joins the list: any of
\* the transactions above that raises one, and the extraction's own.
AttentionGrows ==
  /\ attention.raised < MaxReasons
  /\ attention' = [attention EXCEPT !.raised = @ + 1]
  /\ UNCHANGED <<rowVars, provider, conv, turns, envVars, wk, bounds>>

\* An operator resolves the undelivered message; the reason stays on the list.
ResolveAttention ==
  /\ attention.told
  /\ attention' = [attention EXCEPT !.told = FALSE]
  /\ UNCHANGED <<rowVars, provider, conv, turns, envVars, wk, bounds>>

-----------------------------------------------------------------------------
(* An outbound message observed on the phone and matched by its text with a *)
(* row whose provider entry cannot be ruled out.  The row is read before    *)
(* the transaction; the update trusts that reading.                         *)
ReadObserved(r) ==
  /\ seen = NoRow
  /\ status[r] \in {"attempting", "ambiguous", "sending", "sent"}
  /\ Flip
  /\ seen' = r
  /\ UNCHANGED <<rowVars, provider, talkVars, campaign, consent, inbound, plan, wk>>

ApplyObserved ==
  /\ seen # NoRow
  /\ status' = [status EXCEPT ![seen] = "sent"]
  /\ seen' = NoRow
  /\ UNCHANGED <<purpose, owner, live, stale, late, provider, talkVars, campaign, consent, inbound, plan, wk, bounds>>

-----------------------------------------------------------------------------
WorkerStep(w) ==
  \/ FirstGuard(w) \/ SettleClaim(w) \/ RecordTurn(w) \/ AwaitSlot(w)
  \/ Prepare(w) \/ Enter(w) \/ Return(w) \/ Settle(w) \/ Alert(w)

Dispatch ==
  \/ \E w \in Worker : \E r \in Row : Claim(w, r)
  \/ \E w \in Worker : WorkerStep(w) \/ SlotFails(w) \/ Crash(w)
  \/ \E r \in Row : Quarantine(r) \/ Expire(r)

Produce ==
  \/ AdmitExecution
  \/ \E r \in Row, handoff \in BOOLEAN : ExtractReply(r, handoff)
  \/ \E handoff \in BOOLEAN : ExtractSilently(handoff)
  \/ \E r \in Row : ExtractClosing(r) \/ EnqueueDecided(r) \/ StaffSends(r)
  \/ \E p \in {"nudge", "notice", "fallback"} : Decide(p)
  \/ GiveUp
  \/ TerminalFallback

Control ==
  \/ InboundArrives \/ MaterializeOrdinary
  \/ MaterializeUnreadable \/ MaterializeFull
  \/ \E r \in Row : MaterializeStop(r)
  \/ TakeOver \/ ResumeBot \/ CloseWithoutCopy
  \/ PauseCampaign \/ ResumeCampaign \/ CloseCampaign \/ WithdrawConsent
  \/ \E r \in Row : ReadObserved(r)
  \/ ApplyObserved
  \/ AttentionGrows \/ ResolveAttention

Next == Dispatch \/ Produce \/ Control

Spec == Init /\ [][Next]_vars

\* The poll runs again and again and claims unless its quarantine throws, a
\* worker that is not crashed goes on, and time passes.
FairSpec ==
  /\ Spec
  /\ \A w \in Worker : WF_vars(WorkerStep(w))
  /\ \A w \in Worker : WF_vars(~PollsFail /\ \E r \in Row : Claim(w, r))
  /\ \A r \in Row : WF_vars(Quarantine(r))
  /\ \A r \in Row : WF_vars(Orphaned(r) /\ Expire(r))

-----------------------------------------------------------------------------
RowTypes ==
  /\ status \in [Row -> Statuses]
  /\ purpose \in [Row -> Purposes]
  /\ owner \in [Row -> Worker \cup {NoWorker}]
  /\ live \in [Row -> BOOLEAN]
  /\ stale \subseteq Row
  /\ late \subseteq Row

ProviderTypes ==
  /\ entered \in [Row -> Nat]
  /\ accepted \subseteq Row

Conversations == [life : {"open", "answered", "stopped", "ended"},
                  terminal : Row \cup {NoRow},
                  mode : {"bot", "human"}, awaiting : BOOLEAN]
Transcripts == [lastBot : Row \cup {NoRow}, heard : BOOLEAN, unread : BOOLEAN]

Attentions  == [raised : 0..MaxReasons, told : BOOLEAN]

TalkTypes ==
  /\ conv \in Conversations
  /\ turns \in Transcripts
  /\ attention \in Attentions

EnvTypes ==
  /\ campaign \in {"launched", "paused", "closed"}
  /\ consent \in BOOLEAN
  /\ inbound \in BOOLEAN
  /\ plan \in {"none", "nudge", "overtaken", "notice", "fallback"}
  /\ seen \in Row \cup {NoRow}

WorkerTypes ==
  /\ wk \in [Worker -> [pc : Pcs, row : Row \cup {NoRow}]]
  /\ \A w \in Worker : wk[w].pc = "idle" <=> wk[w].row = NoRow

\* Every variable keeps its type, and a worker at work has a row.
TypeOK ==
  /\ RowTypes
  /\ ProviderTypes
  /\ TalkTypes
  /\ EnvTypes
  /\ WorkerTypes
  /\ flips \in Nat /\ faults \in Nat

\* No row is handed to the provider twice, through any interleaving of
\* workers, lease expiries, reclaims, crashes and quarantines.
EnteredAtMostOnce == \A r \in Row : entered[r] <= 1

\* What the row says agrees with the provider: a cancelled or still queued row
\* was never offered to it, a failed row was never taken by it.
StatusIsTruthful ==
  \A r \in Row :
    /\ status[r] \in {"absent", "pending", "claimed", "cancelled"} => entered[r] = 0
    /\ status[r] = "failed" => r \notin accepted

\* Statuses of a row that may have been offered to the provider by this relay.
Left == {"attempting", "ambiguous", "sent", "failed"}

AtProvider(w) == wk[w].pc \in {"enter", "call", "accepted", "rejected", "unknown"}

\* Why a row is offered once: the send marker is set once, by the token that
\* owns the row, and only that worker stands behind it.  It holds through the
\* expiry of the lease, when the row is already ambiguous and the worker still
\* on its way to the provider.
MarkerIsExclusive ==
  /\ \A r \in Row :
       /\ entered[r] \in {0, 1}
       /\ entered[r] = 1 => status[r] \in Left
       /\ r \in accepted => entered[r] = 1
  /\ \A w \in Worker : AtProvider(w) =>
       /\ owner[wk[w].row] = w
       /\ status[wk[w].row] \in {"attempting", "ambiguous", "sent"}
       /\ wk[w].pc = "enter" => entered[wk[w].row] = 0
       /\ wk[w].pc = "rejected" => wk[w].row \notin accepted
  /\ \A r \in Row : status[r] = "failed" => r \notin accepted

\* A row that was ever correlated with an observed message cannot be retracted.
ObservedHasLeft == seen # NoRow => status[seen] \in Left \cup {"sending"}

\* A claimed row keeps its place: whatever is older and was there before it is
\* resolved, or is an ambiguity it may pass.
MayPass(r, q) == status[q] = "ambiguous" /\ (purpose[r] = "staff" \/ IsStopAck(r))
ClaimKeepsPlace ==
  \A r \in Row : status[r] = "claimed" =>
    \A q \in (1..(r - 1)) \ late : (status[q] \in Blocking) => MayPass(r, q)

\* The row that crosses the provider boundary in this step.
Crosses(r) == status[r] = "claimed" /\ status'[r] = "attempting"

\* No row crosses the boundary while a row committed before it, and older, is
\* unresolved; only staff and the STOP acknowledgement pass an ambiguous one.
FifoEntry ==
  [][\A r \in Row : Crosses(r) =>
       \A q \in (1..(r - 1)) \ late : (status[q] \in Blocking) => MayPass(r, q)]_vars

\* After STOP nothing but its acknowledgement crosses; without consent or on a
\* campaign that is not launched the same; under human control only staff and
\* the terminal row; and while a human is awaited the bot says nothing but its
\* latest turn, unless the extraction has read past it.  That turn is the promise
\* of the handover only as long as nothing was recorded after it
\* (PromiseStaysOwed).
AuthorityAtEntry ==
  [][\A r \in Row : Crosses(r) =>
       /\ conv.life = "stopped" => r = conv.terminal
       /\ conv.life # "ended"
       /\ (~consent \/ campaign # "launched") => IsStopAck(r)
       /\ conv.mode = "human" => purpose[r] = "staff" \/ r = conv.terminal
       /\ (conv.awaiting /\ conv.life = "open") =>
             purpose[r] = "staff" \/ r = turns.lastBot]_vars

\* The outbox keeps the promises of MessageDelivery.
PhaseOf == [absent |-> "unwritten", pending |-> "queued", claimed |-> "queued",
            attempting |-> "offered", sending |-> "offered",
            ambiguous |-> "uncertain", sent |-> "delivered",
            failed |-> "rejected", cancelled |-> "retracted"]

Delivery == INSTANCE MessageDelivery WITH
  Message <- Row,
  phase <- [r \in Row |-> PhaseOf[status[r]]],
  calls <- entered

DeliveryKept == Delivery!Spec

\* The acknowledgement of a STOP stays owed: no later transaction retracts it.
StopAckStaysOwed ==
  [][\A r \in Row : IsStopAck(r) /\ status[r] = "pending" => status'[r] # "cancelled"]_vars

\* The promise of a handover stays owed while the human is awaited.  It does
\* not: a reminder or a notice decided before the handover and recorded after
\* it, or the notice for a media message, becomes the latest bot turn, crosses
\* in its place, and the promise is refused.
PromiseStaysOwed ==
  [][\A r \in Row :
       Commitment = r /\ purpose[r] = "reply" /\ Retractable(r) /\ conv'.awaiting
       => Commitment' = r]_vars

\* A queued STOP acknowledgement does not wait for ever, neither behind an
\* ambiguous message nor because the campaign was paused or closed.  Two things
\* can hold it back: a row that turned up late in front of it, and polls that
\* fail for good on an attempt they cannot park.
StopAckLeavesQueue ==
  \A r \in Row :
    \/ <>[]PollsFail
    \/ IsStopAck(r) ~>
         \/ ~Retractable(r)
         \/ \E q \in late : q < r /\ status[q] \in Blocking

\* Nothing stays with a dead worker: an attempt is settled or quarantined,
\* unless the attention list has no room left for saying so, and then it never
\* will have.
AttemptIsResolved ==
  \A r \in Row : status[r] = "attempting" ~> status[r] # "attempting" \/ ~CanRaise
=============================================================================
