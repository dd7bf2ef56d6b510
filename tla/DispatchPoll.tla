---------------------------- MODULE DispatchPoll ----------------------------
(***************************************************************************)
(* The recurring feedback-outbox job over many conversations: recover      *)
(* expired attempts, claim a wave of at most one message per conversation, *)
(* send the wave on one lane each, and do it again until the wave comes    *)
(* back short, deferred, or the poll limit is reached.  What happens to    *)
(* one message on its lane is the subject of Outbox; here a conversation   *)
(* is the number of messages it still has queued and the state of its      *)
(* oldest one.                                                             *)
(***************************************************************************)
EXTENDS Integers, FiniteSets

CONSTANTS
  NConvs,       \* conversations, in the order of their oldest message
  Queued,       \* messages each of them starts with
  BatchSize,    \* FEEDBACK_OUTBOX_DISPATCH_BATCH_SIZE
  PollLimit,    \* FEEDBACK_OUTBOX_POLL_LIMIT
  Full,         \* conversations whose attention reasons are at capacity and
                \* do not hold an open undelivered_message already
  Broken,       \* conversations whose messages always throw before entry
  MaxFaults     \* bound: crashes, stalls, failed slots, unknown deliveries

ASSUME PollAssumption ==
  /\ NConvs \in Nat \ {0} /\ Queued \in Nat /\ MaxFaults \in Nat
  /\ BatchSize \in Nat \ {0} /\ PollLimit \in Nat \ {0}
  /\ Full \subseteq 1..NConvs /\ Broken \subseteq 1..NConvs

VARIABLES
  left,        \* conversation -> messages not yet sent
  head,        \* conversation -> what became of its oldest message
  live,        \* conversation -> the lease on that message is running
  job,         \* where the poll is: "waiting" for the schedule, ...
  claimed,     \* messages this poll has claimed so far
  wave,        \* conversations claimed by the current batch
  lanes,       \* those whose lane still runs
  deferred,    \* some lane of the batch came back deferred
  recovering,  \* quarantine transactions under way
  faults

vars == <<left, head, live, job, claimed, wave, lanes, deferred, recovering, faults>>

Conv == 1..NConvs

Init ==
  /\ left = [c \in Conv |-> Queued]
  /\ head = [c \in Conv |-> "pending"]
  /\ live = [c \in Conv |-> FALSE]
  /\ job = "waiting"
  /\ claimed = 0
  /\ wave = {}
  /\ lanes = {}
  /\ deferred = FALSE
  /\ recovering = {}
  /\ faults = 0

Fault == faults < MaxFaults /\ faults' = faults + 1

Expired(c) == head[c] = "attempting" /\ ~live[c]

-----------------------------------------------------------------------------
(* Recovery: one transaction per expired attempt, all started together.    *)

StartPoll ==
  /\ job = "waiting"
  /\ job' = "recover"
  /\ claimed' = 0
  /\ recovering' = recovering \cup {c \in Conv : Expired(c)}
  /\ UNCHANGED <<left, head, live, wave, lanes, deferred, faults>>

\* quarantineExpiredDispatchAttempt with parkUncertainDelivery: the attempt is
\* ambiguous and the automation queued behind it is retracted.
QuarantineOne(c) ==
  /\ c \in recovering
  /\ c \notin Full
  /\ recovering' = recovering \ {c}
  /\ IF Expired(c)
     THEN /\ left' = [left EXCEPT ![c] = 0]
          /\ head' = [head EXCEPT ![c] = "pending"]
     ELSE UNCHANGED <<left, head>>
  /\ UNCHANGED <<live, job, claimed, wave, lanes, deferred, faults>>

\* raiseAttention throws and the transaction rolls back.  The promise is
\* returned, not awaited, inside the try: its rejection leaves Promise.all and
\* the whole job fails; the other transactions finish on their own.
QuarantineThrows(c) ==
  /\ c \in recovering
  /\ c \in Full
  /\ recovering' = recovering \ {c}
  /\ job' = IF job = "recover" THEN "waiting" ELSE job
  /\ UNCHANGED <<left, head, live, claimed, wave, lanes, deferred, faults>>

-----------------------------------------------------------------------------
(* One wave.                                                               *)

\* Mutant: a claim that ran out is not claimed again.
ClaimableOnce  == {c \in Conv : left[c] > 0 /\ head[c] = "pending"}

\* FOR UPDATE SKIP LOCKED over the oldest unresolved message of every
\* conversation, oldest first.
Claimable == {c \in Conv : left[c] > 0 /\ (head[c] = "pending" \/
                                          (head[c] = "claimed" /\ ~live[c]))}

Oldest(S, n) ==
  {c \in S : Cardinality({d \in S : d < c}) < n}

ClaimWave ==
  /\ job = "recover"
  /\ recovering = {}
  /\ wave' = Oldest(Claimable, BatchSize)
  /\ lanes' = wave'
  /\ head' = [c \in Conv |-> IF c \in wave' THEN "claimed" ELSE head[c]]
  /\ live' = [c \in Conv |-> c \in wave' \/ live[c]]
  /\ claimed' = claimed + Cardinality(wave')
  /\ deferred' = FALSE
  /\ job' = "send"
  /\ UNCHANGED <<left, recovering, faults>>

\* A lane sends its message, or settles it without sending.
LaneResolves(c) ==
  /\ c \in lanes \ Broken
  /\ lanes' = lanes \ {c}
  /\ left' = [left EXCEPT ![c] = @ - 1]
  /\ head' = [head EXCEPT ![c] = "pending"]
  /\ live' = [live EXCEPT ![c] = FALSE]
  /\ UNCHANGED <<job, claimed, wave, deferred, recovering, faults>>

\* The limiter or the preparation failed: deferred, the claim runs out.
LaneDefers(c) ==
  /\ c \in lanes
  /\ IF c \in Broken THEN UNCHANGED faults ELSE Fault
  /\ lanes' = lanes \ {c}
  /\ deferred' = TRUE
  /\ UNCHANGED <<left, head, live, job, claimed, wave, recovering>>

\* The provider's answer is unknown: parked at once, or, when parking throws,
\* the row stays attempting and the lane reports deferred.
LaneUncertain(c) ==
  /\ c \in lanes \ Broken
  /\ Fault
  /\ lanes' = lanes \ {c}
  /\ IF c \in Full
     THEN /\ head' = [head EXCEPT ![c] = "attempting"]
          /\ deferred' = TRUE
          /\ UNCHANGED <<left, live>>
     ELSE /\ left' = [left EXCEPT ![c] = 0]
          /\ head' = [head EXCEPT ![c] = "pending"]
          /\ live' = [live EXCEPT ![c] = FALSE]
          /\ UNCHANGED deferred
  /\ UNCHANGED <<job, claimed, wave, recovering>>

\* Mutant: a full wave is always followed by another.
WaveEndsUnlimited ==
  /\ job = "send"
  /\ lanes = {}
  /\ IF Cardinality(wave) < BatchSize \/ deferred
     THEN job' = "waiting" /\ UNCHANGED recovering
     ELSE job' = "recover" /\ recovering' = {c \in Conv : Expired(c)}
  /\ wave' = {}
  /\ UNCHANGED <<left, head, live, claimed, lanes, deferred, faults>>

\* Another wave, or the poll ends.
WaveEnds ==
  /\ job = "send"
  /\ lanes = {}
  /\ IF Cardinality(wave) < BatchSize \/ deferred \/ claimed >= PollLimit
     THEN job' = "waiting" /\ UNCHANGED recovering
     ELSE job' = "recover" /\ recovering' = {c \in Conv : Expired(c)}
  /\ wave' = {}
  /\ UNCHANGED <<left, head, live, claimed, lanes, deferred, faults>>

\* The process dies between the send marker and the settlement of some lanes.
Crash(attempted) ==
  /\ job # "waiting"
  /\ attempted \subseteq lanes \ Broken
  /\ Fault
  /\ head' = [c \in Conv |-> IF c \in attempted THEN "attempting" ELSE head[c]]
  /\ job' = "waiting"
  /\ wave' = {} /\ lanes' = {} /\ recovering' = {}
  /\ deferred' = FALSE
  /\ UNCHANGED <<left, live, claimed>>

\* The lease of a message nobody works on runs out.
LeaseExpires(c) ==
  /\ head[c] \in {"claimed", "attempting"} /\ live[c] /\ c \notin lanes
  /\ live' = [live EXCEPT ![c] = FALSE]
  /\ UNCHANGED <<left, head, job, claimed, wave, lanes, deferred, recovering, faults>>

-----------------------------------------------------------------------------
Lane(c) == LaneResolves(c) \/ (c \in Broken /\ LaneDefers(c))

Next ==
  \/ StartPoll \/ ClaimWave \/ WaveEnds
  \/ \E c \in Conv :
       \/ QuarantineOne(c) \/ QuarantineThrows(c)
       \/ LaneResolves(c) \/ LaneDefers(c) \/ LaneUncertain(c)
       \/ LeaseExpires(c)
  \/ \E attempted \in SUBSET lanes : Crash(attempted)

Spec == Init /\ [][Next]_vars

\* The schedule fires again and again, every transaction and lane ends, and
\* leases run out.
FairSpec ==
  /\ Spec
  /\ WF_vars(StartPoll) /\ WF_vars(ClaimWave) /\ WF_vars(WaveEnds)
  /\ \A c \in Conv : /\ WF_vars(QuarantineOne(c) \/ QuarantineThrows(c))
                     /\ WF_vars(Lane(c))
                     /\ WF_vars(LeaseExpires(c))

-----------------------------------------------------------------------------
\* Every variable keeps its type, only claimed conversations have a lane, and
\* only a conversation with something queued is claimed.
TypeOK ==
  /\ left \in [Conv -> 0..Queued]
  /\ head \in [Conv -> {"pending", "claimed", "attempting"}]
  /\ live \in [Conv -> BOOLEAN]
  /\ job \in {"waiting", "recover", "send"}
  /\ claimed \in 0..(PollLimit + BatchSize)
  /\ lanes \subseteq wave /\ wave \subseteq Conv
  /\ deferred \in BOOLEAN
  /\ recovering \subseteq Conv
  /\ faults \in 0..MaxFaults

\* A poll overshoots its limit by less than one wave.
PollIsBounded == claimed < PollLimit + BatchSize

\* However its lanes defer, crash or answer late, a conversation that fails does
\* not keep the others from being served, unless an attempt that cannot be
\* parked is left behind.
FailuresStayApart ==
  \A c \in Conv \ (Full \cup Broken) :
    left[c] > 0 ~> left[c] = 0 \/ \E d \in Full : head[d] = "attempting"

\* The promise of the dispatcher without that exception: one bad conversation
\* never strands the messages of another.
OthersAreServed ==
  \A c \in Conv \ (Full \cup Broken) : left[c] > 0 ~> left[c] = 0
=============================================================================
