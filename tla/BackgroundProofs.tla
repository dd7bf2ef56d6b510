-------------------------- MODULE BackgroundProofs --------------------------
(***************************************************************************)
(* The components of MCBackground that are not proved about in a module of *)
(* their own: the semaphore of provider calls, the dispatch poll, the      *)
(* pacing of the senders, the launch of a campaign and the recovery        *)
(* passes, each for every value of its constants; and the types of all ten *)
(* components together.                                                    *)
(***************************************************************************)
EXTENDS MCBackground, AnalysisProofs, AssistantProofs, EmailProofs, InterviewProofs,
        FiniteSetTheorems, WellFoundedInduction, TLAPS

-----------------------------------------------------------------------------
(* The provider calls.                                                     *)

\* A granted call never outlives its lease, so every call in flight still has its
\* member in the sorted set, and the script counts it.
CallInvariant ==
  /\ CallTypeOK
  /\ CallKeepsSlot
  /\ Cardinality(Slots) <= CallLimit

\* The sets the invariant counts are finite, and no call in flight is without a slot.
LEMMA InFlightHasSlot ==
  ASSUME CallTypeOK, CallKeepsSlot
  PROVE  InFlight \subseteq Slots
<1> SUFFICES ASSUME NEW c \in InFlight PROVE c \in Slots
  OBVIOUS
<1>1. c \in PaidCall /\ lease[c] >= SlotLease - age[c]
  BY DEF CallKeepsSlot, InFlight
<1>2. age[c] \in 0..CallTimeout /\ lease[c] \in 0..SlotLease
  BY <1>1 DEF CallTypeOK
<1> QED
  BY <1>1, <1>2, CallAssumption DEF Slots

LEMMA SlotsAreFinite == IsFiniteSet(Slots) /\ IsFiniteSet(InFlight)
BY CallAssumption, FS_Subset DEF Slots, InFlight

\* Fewer slots, no more of them counted.
LEMMA FewerSlots ==
  ASSUME Cardinality(Slots) <= CallLimit, Slots' \subseteq Slots
  PROVE  Cardinality(Slots)' <= CallLimit
<1>1. Cardinality(Slots') <= Cardinality(Slots)
  BY SlotsAreFinite, FS_Subset
<1>2. Cardinality(Slots) \in Nat /\ Cardinality(Slots') \in Nat
  BY SlotsAreFinite, FS_Subset, FS_CardinalityType
<1> QED
  BY <1>1, <1>2, CallAssumption

LEMMA CallInitOK == CallInit => CallInvariant
<1> SUFFICES ASSUME CallInit PROVE CallInvariant
  OBVIOUS
<1>1. CallTypeOK
  BY CallAssumption DEF CallInit, CallTypeOK
<1>2. InFlight = {} /\ Slots = {}
  BY DEF CallInit, InFlight, Slots
<1>3. Cardinality(Slots) <= CallLimit
  BY <1>2, FS_EmptySet, CallAssumption
<1> QED
  BY <1>1, <1>2, <1>3 DEF CallInvariant, CallKeepsSlot

LEMMA CallStep == CallInvariant /\ [CallNext]_callVars => CallInvariant'
<1> SUFFICES ASSUME CallInvariant, [CallNext]_callVars PROVE CallInvariant'
  OBVIOUS
<1> USE CallAssumption
<1>0. CallTypeOK /\ CallKeepsSlot /\ Cardinality(Slots) <= CallLimit
  BY DEF CallInvariant
<1>1. ASSUME NEW c \in PaidCall, AskSlot(c) PROVE CallInvariant'
  <2>1. CallTypeOK'
    BY <1>0, <1>1 DEF AskSlot, CallTypeOK
  <2>2. CallKeepsSlot'
    BY <1>0, <1>1 DEF AskSlot, CallTypeOK, CallKeepsSlot, InFlight
  <2>3. Slots' \subseteq Slots
    BY <1>1 DEF AskSlot, Slots
  <2> QED
    BY <1>0, <2>1, <2>2, <2>3, FewerSlots DEF CallInvariant
<1>2. ASSUME NEW c \in PaidCall, Acquire(c) PROVE CallInvariant'
  <2>1. CallTypeOK'
    BY <1>0, <1>2 DEF Acquire, CallTypeOK
  <2>2. CallKeepsSlot'
    BY <1>0, <1>2 DEF Acquire, CallTypeOK, CallKeepsSlot, InFlight
  <2>3. Slots' = Slots \cup {c}
    BY <1>0, <1>2 DEF Acquire, CallTypeOK, Slots
  <2>4. /\ IsFiniteSet(Slots) /\ Cardinality(Slots) \in Nat
        /\ Cardinality(Slots \cup {c}) = IF c \in Slots THEN Cardinality(Slots)
                                         ELSE Cardinality(Slots) + 1
    <3>1. IsFiniteSet(Slots)
      BY SlotsAreFinite
    <3> QED
      BY <3>1, FS_AddElement, FS_CardinalityType, Zenon
  <2>5. Cardinality(Slots') <= CallLimit
    BY <1>2, <2>3, <2>4 DEF Acquire
  <2> QED
    BY <2>1, <2>2, <2>5 DEF CallInvariant
<1>3. ASSUME NEW c \in PaidCall, AnswerCall(c) PROVE CallInvariant'
  <2>1. CallTypeOK'
    BY <1>0, <1>3 DEF AnswerCall, CallTypeOK
  <2>2. CallKeepsSlot'
    BY <1>0, <1>3 DEF AnswerCall, CallTypeOK, CallKeepsSlot, InFlight
  <2>3. Slots' \subseteq Slots
    BY <1>3 DEF AnswerCall, Slots
  <2> QED
    BY <1>0, <2>1, <2>2, <2>3, FewerSlots DEF CallInvariant
<1>4. ASSUME NEW c \in PaidCall, ReleaseSlot(c) PROVE CallInvariant'
  <2>1. CallTypeOK'
    BY <1>0, <1>4 DEF ReleaseSlot, CallTypeOK
  <2>2. CallKeepsSlot'
    BY <1>0, <1>4 DEF ReleaseSlot, CallTypeOK, CallKeepsSlot, InFlight
  <2>3. Slots' \subseteq Slots
    BY <1>0, <1>4 DEF ReleaseSlot, Slots, CallTypeOK
  <2> QED
    BY <1>0, <2>1, <2>2, <2>3, FewerSlots DEF CallInvariant
<1>5. ASSUME NEW c \in PaidCall, SlotLost(c) PROVE CallInvariant'
  <2>1. CallTypeOK'
    BY <1>0, <1>5 DEF SlotLost, CallTypeOK
  <2>2. CallKeepsSlot'
    BY <1>0, <1>5 DEF SlotLost, CallTypeOK, CallKeepsSlot, InFlight
  <2>3. Slots' \subseteq Slots
    BY <1>5 DEF SlotLost, Slots
  <2> QED
    BY <1>0, <2>1, <2>2, <2>3, FewerSlots DEF CallInvariant
<1>6. ASSUME CallTick PROVE CallInvariant'
  <2>1. \A c \in PaidCall : lease'[c] = IF lease[c] = 0 THEN 0 ELSE lease[c] - 1
    BY <1>6 DEF CallTick, LeaseLeft
  <2>2. age' \in [PaidCall -> 0..CallTimeout]
    BY <1>0, <1>6 DEF CallTick, CallTypeOK, InFlight
  <2>3. lease' \in [PaidCall -> 0..SlotLease]
    BY <1>0, <1>6 DEF CallTick, CallTypeOK, LeaseLeft
  <2>4. CallTypeOK'
    BY <1>0, <1>6, <2>2, <2>3 DEF CallTick, CallTypeOK
  <2>5. ASSUME NEW c \in InFlight' PROVE lease'[c] >= SlotLease - age'[c]
    <3>1. c \in InFlight /\ c \in PaidCall
      BY <1>6, <2>5 DEF CallTick, InFlight
    <3>2. lease[c] >= SlotLease - age[c] /\ age'[c] = age[c] + 1
      BY <1>0, <1>6, <3>1 DEF CallKeepsSlot, CallTick
    <3>3. lease[c] \in 0..SlotLease /\ age[c] \in 0..CallTimeout
      BY <1>0, <3>1 DEF CallTypeOK
    <3> QED
      BY <2>1, <3>1, <3>2, <3>3
  <2>6. Slots' \subseteq Slots
    BY <1>0, <2>1 DEF Slots, CallTypeOK
  <2> QED
    BY <1>0, <2>4, <2>5, <2>6, FewerSlots DEF CallInvariant, CallKeepsSlot
<1>7. ASSUME UNCHANGED callVars PROVE CallInvariant'
  BY <1>0, <1>7 DEF callVars, CallInvariant, CallTypeOK, CallKeepsSlot, InFlight, Slots
<1> QED
  BY <1>1, <1>2, <1>3, <1>4, <1>5, <1>6, <1>7 DEF CallNext

\* The lease of a call in flight outlives what the call may still take, in every state.
THEOREM CallsInvariant == CallSpec => []CallInvariant
<1>1. CallInit => CallInvariant
  BY CallInitOK
<1>2. CallInvariant /\ [CallNext]_callVars => CallInvariant'
  BY CallStep
<1> QED
  BY <1>1, <1>2, PTL DEF CallSpec

\* The semaphore's variables keep their types.
THEOREM CallsTyped == CallSpec => []CallTypeOK
<1>1. CallInvariant => CallTypeOK
  BY DEF CallInvariant
<1> QED
  BY <1>1, CallsInvariant, PTL

\* Never more provider calls in flight than the limit, for any number of callers and
\* crashes: the script counts every call that still runs.
THEOREM WithinLimit == CallSpec => []CallsWithinLimit
<1>1. CallInvariant => CallsWithinLimit
  <2> SUFFICES ASSUME CallInvariant PROVE Cardinality(InFlight) <= CallLimit
    BY DEF CallsWithinLimit
  <2>1. InFlight \subseteq Slots
    BY InFlightHasSlot DEF CallInvariant
  <2>2. Cardinality(InFlight) <= Cardinality(Slots)
    BY <2>1, SlotsAreFinite, FS_Subset
  <2>3. Cardinality(InFlight) \in Nat /\ Cardinality(Slots) \in Nat
    BY SlotsAreFinite, FS_CardinalityType
  <2> QED
    BY <2>2, <2>3, CallAssumption DEF CallInvariant
<1> QED
  BY <1>1, CallsInvariant, PTL

-----------------------------------------------------------------------------
(* The first n of a finite set of numbers.                                 *)

\* A finite non-empty set of numbers has a greatest element: no set of numbers
\* above one of them is minimal but the empty one.
LEMMA GreatestExists ==
  ASSUME NEW S \in SUBSET Int, IsFiniteSet(S), S # {}
  PROVE  \E m \in S : \A x \in S : x <= m
<1> DEFINE Above(x) == {y \in S : y > x}
           Family == {T \in SUBSET S : \E x \in S : T = Above(x)}
<1>1. IsWellFoundedOn(StrictSubsetOrdering(S), FiniteSubsetsOf(S))
  BY FS_StrictSubsetOrderingWellFounded
<1>2. Family \subseteq FiniteSubsetsOf(S) /\ Family # {}
  <2>1. \A T \in SUBSET S : IsFiniteSet(T)
    BY FS_Subset
  <2>2. \A x \in S : Above(x) \in Family
    OBVIOUS
  <2> QED BY <2>1, <2>2 DEF FiniteSubsetsOf
<1>3. PICK T \in Family : \A U \in Family : <<U, T>> \notin StrictSubsetOrdering(S)
  <2> HIDE DEF Family
  <2> QED BY <1>1, <1>2, WFMin, Zenon
<1>4. PICK m \in S : T = Above(m)
  OBVIOUS
<1>5. ASSUME NEW y \in Above(m) PROVE FALSE
  <2>0. y \in S /\ y \in Int /\ m \in Int /\ y > m
    BY <1>5
  <2>1. Above(y) \in Family /\ Above(y) \subseteq Above(m) /\ Above(y) # Above(m)
    <3>1. Above(y) \in Family
      BY <2>0
    <3>2. \A z \in Above(y) : z \in S /\ z \in Int /\ z > y
      OBVIOUS
    <3>3. ASSUME NEW z \in Above(y) PROVE z \in Above(m)
      <4>1. z \in S /\ z \in Int /\ z > y
        BY <3>2
      <4>2. z > m
        BY <2>0, <4>1
      <4> QED BY <4>1, <4>2
    <3>4. y \notin Above(y) /\ y \in Above(m)
      BY <2>0
    <3> QED BY <3>1, <3>3, <3>4
  <2>2. <<Above(y), T>> \in StrictSubsetOrdering(S)
    BY <1>4, <2>1 DEF StrictSubsetOrdering
  <2> QED BY <1>3, <2>1, <2>2
<1> QED BY <1>5

\* What a claim and a page take: at most n, each of them one of the set.
LEMMA FirstOnes ==
  ASSUME NEW S \in SUBSET Int, IsFiniteSet(S), NEW n \in Nat,
         NEW O, O = {c \in S : Cardinality({d \in S : d < c}) < n}
  PROVE  O \subseteq S /\ IsFiniteSet(O) /\ Cardinality(O) \in 0..n
<1>1. O \subseteq S /\ IsFiniteSet(O) /\ Cardinality(O) \in Nat
  BY FS_Subset, FS_CardinalityType
<1>2. CASE O = {}
  <2>1. Cardinality(O) = 0
    BY <1>2, FS_EmptySet, Zenon
  <2> QED BY <1>1, <2>1
<1>3. CASE O # {}
  <2>1. PICK m \in O : \A x \in O : x <= m
    BY <1>1, <1>3, GreatestExists
  <2>2. O \ {m} \subseteq {d \in S : d < m}
    <3>1. ASSUME NEW x \in O \ {m} PROVE x \in S /\ x < m
      <4>1. x \in S /\ m \in S /\ x # m /\ x <= m
        BY <1>1, <2>1
      <4>2. x \in Int /\ m \in Int
        BY <4>1
      <4> QED BY <4>1, <4>2
    <3> QED BY <3>1
  <2>3. IsFiniteSet({d \in S : d < m}) /\ Cardinality({d \in S : d < m}) \in Nat
    BY FS_Subset, FS_CardinalityType
  <2>4. Cardinality(O \ {m}) <= Cardinality({d \in S : d < m})
    BY <2>2, <2>3, FS_Subset
  <2>5. Cardinality(O \ {m}) = Cardinality(O) - 1
    BY <1>1, <2>1, FS_RemoveElement
  <2>6. Cardinality({d \in S : d < m}) < n
    BY <2>1
  <2> QED BY <1>1, <2>3, <2>4, <2>5, <2>6
<1> QED BY <1>2, <1>3

-----------------------------------------------------------------------------
(* The dispatch poll.                                                      *)

\* A lane works on a claimed message of a conversation that has one, and a poll
\* goes on only below its limit.
PollInvariant ==
  /\ TypeOK
  /\ \A c \in lanes : head[c] = "claimed" /\ left[c] > 0
  /\ job = "recover" => claimed < PollLimit
  /\ PollIsBounded

LEMMA WaveIsBounded ==
  LET batch == Oldest(Claimable, BatchSize)
  IN  /\ batch \subseteq Claimable
      /\ Cardinality(batch) \in 0..BatchSize
<1>1. IsFiniteSet(1..NConvs) /\ Claimable \subseteq 1..NConvs
  BY PollAssumption, FS_Interval DEF Claimable, Conv
<1>2. IsFiniteSet(Claimable)
  BY <1>1, FS_Subset
<1>3. Claimable \in SUBSET Int
  BY <1>1
<1> QED BY <1>2, <1>3, FirstOnes, PollAssumption DEF Oldest

LEMMA PollStarts == Init => PollInvariant
<1> SUFFICES ASSUME Init PROVE PollInvariant
  OBVIOUS
<1>1. left \in [Conv -> 0..Queued] /\ claimed \in 0..(PollLimit + BatchSize)
  BY PollAssumption DEF Init
<1>2. live \in [Conv -> BOOLEAN] /\ deferred \in BOOLEAN
  BY DEF Init
<1>3. faults \in 0..MaxFaults /\ claimed < PollLimit /\ claimed < PollLimit + BatchSize
  BY PollAssumption DEF Init
<1> QED BY <1>1, <1>2, <1>3, Zenon DEF Init, TypeOK, PollInvariant, PollIsBounded

LEMMA PollSteps == PollInvariant /\ [Next]_vars => PollInvariant'
<1> SUFFICES ASSUME PollInvariant, [Next]_vars PROVE PollInvariant'
  OBVIOUS
<1> USE PollAssumption DEF PollInvariant, TypeOK, PollIsBounded
<1>1. CASE StartPoll
  BY <1>1 DEF StartPoll
<1>2. ASSUME NEW c \in Conv, QuarantineOne(c) PROVE PollInvariant'
  BY <1>2 DEF QuarantineOne, Expired
<1>3. ASSUME NEW c \in Conv, QuarantineThrows(c) PROVE PollInvariant'
  BY <1>3 DEF QuarantineThrows
<1>4. CASE ClaimWave
  <2>1. wave' \subseteq Claimable /\ Cardinality(wave') \in 0..BatchSize
    BY <1>4, WaveIsBounded DEF ClaimWave
  <2>2. \A c \in wave' : c \in Conv /\ left[c] > 0
    BY <2>1 DEF Claimable
  <2>3. /\ head' = [c \in Conv |-> IF c \in wave' THEN "claimed" ELSE head[c]]
        /\ lanes' = wave' /\ job' = "send" /\ UNCHANGED <<left, recovering, faults>>
        /\ deferred' = FALSE
    BY <1>4 DEF ClaimWave
  <2>4. claimed' \in 0..(PollLimit + BatchSize) /\ claimed' < PollLimit + BatchSize
    BY <1>4, <2>1 DEF ClaimWave
  <2>5. live' \in [Conv -> BOOLEAN]
    BY <1>4 DEF ClaimWave
  <2>6. head' \in [Conv -> {"pending", "claimed", "attempting"}]
    BY <2>3
  <2>7. \A c \in lanes' : head'[c] = "claimed" /\ left'[c] > 0
    BY <2>2, <2>3
  <2> QED BY <2>2, <2>3, <2>4, <2>5, <2>6, <2>7
<1>5. ASSUME NEW c \in Conv, LaneResolves(c) PROVE PollInvariant'
  BY <1>5 DEF LaneResolves
<1>6. ASSUME NEW c \in Conv, LaneDefers(c) PROVE PollInvariant'
  BY <1>6 DEF LaneDefers, Fault
<1>7. ASSUME NEW c \in Conv, LaneUncertain(c) PROVE PollInvariant'
  <2>1. CASE c \in Full
    BY <1>7, <2>1 DEF LaneUncertain, Fault
  <2>2. CASE c \notin Full
    <3>1. live' \in [Conv -> BOOLEAN] /\ deferred' \in BOOLEAN
      BY <1>7, <2>2 DEF LaneUncertain
    <3>2. left' \in [Conv -> 0..Queued] /\ faults' \in 0..MaxFaults
      BY <1>7, <2>2 DEF LaneUncertain, Fault
    <3>3. \A x \in lanes' : head'[x] = "claimed" /\ left'[x] > 0
      BY <1>7, <2>2 DEF LaneUncertain
    <3> QED BY <1>7, <2>2, <3>1, <3>2, <3>3 DEF LaneUncertain
  <2> QED BY <2>1, <2>2
<1>8. CASE WaveEnds
  BY <1>8 DEF WaveEnds
<1>9. ASSUME NEW begun \in SUBSET lanes, Crash(begun) PROVE PollInvariant'
  <2>1. faults' \in 0..MaxFaults
    BY <1>9 DEF Crash, Fault
  <2>2. head' \in [Conv -> {"pending", "claimed", "attempting"}]
    BY <1>9 DEF Crash
  <2> QED BY <1>9, <2>1, <2>2 DEF Crash
<1>10. ASSUME NEW c \in Conv, LeaseExpires(c) PROVE PollInvariant'
  BY <1>10 DEF LeaseExpires
<1>11. CASE UNCHANGED vars
  BY <1>11 DEF vars
<1> QED
  BY <1>1, <1>2, <1>3, <1>4, <1>5, <1>6, <1>7, <1>8, <1>9, <1>10, <1>11 DEF Next

\* Every variable of the poll keeps its type, and a lane works on a claimed message.
THEOREM PollTyped == Spec => []TypeOK
<1>1. PollInvariant => TypeOK
  BY DEF PollInvariant
<1> QED BY <1>1, PollStarts, PollSteps, PTL DEF Spec

\* A poll overshoots its limit by less than one wave, however many conversations wait
\* and whatever their lanes do.
THEOREM PollBounded == Spec => []PollIsBounded
<1>1. PollInvariant => PollIsBounded
  BY DEF PollInvariant
<1> QED BY <1>1, PollStarts, PollSteps, PTL DEF Spec

-----------------------------------------------------------------------------
(* The pacing of the senders.                                              *)

Waiters == [step : {"idle", "asks", "asleep", "granted"}, until : Nat, jitter : 0..MaxJitter]

\* The boundary lies an interval behind the last slot, whoever took it; before the
\* first slot nobody has sent for as long.
PacerInvariant ==
  /\ PacerTypeOK
  /\ waiter \in [Sender -> Waiters]
  /\ granted + MinInterval <= nextAt \/ (nextAt = 0 /\ granted = 0 /\ MinInterval <= clock)

LEMMA PacerStarts == PacerInit => PacerInvariant
<1> SUFFICES ASSUME PacerInit PROVE PacerInvariant
  OBVIOUS
<1> USE PacerAssumption
<1>1. waiter \in [Sender -> Waiters]
  BY DEF PacerInit, Waiters, NotWaiting
<1>2. PacerTypeOK
  BY DEF PacerInit, PacerTypeOK, NotWaiting
<1> QED BY <1>1, <1>2 DEF PacerInit, PacerInvariant

LEMMA PacerSteps == PacerInvariant /\ [PacerNext]_pacerVars => PacerInvariant'
<1> SUFFICES ASSUME PacerInvariant, [PacerNext]_pacerVars PROVE PacerInvariant'
  OBVIOUS
<1> USE PacerAssumption DEF PacerInvariant
<1>0. /\ clock \in Nat /\ granted \in Nat /\ nextAt \in Nat /\ clock <= MaxClock /\ granted <= clock
      /\ nextAt <= MaxClock + MinInterval + MaxJitter
  BY DEF PacerTypeOK
<1>1. ASSUME NEW s \in Sender, AskTurn(s) PROVE PacerInvariant'
  <2>1. PICK j \in 0..MaxJitter :
          waiter' = [waiter EXCEPT ![s] = [step |-> "asks", until |-> 0, jitter |-> j]]
    BY <1>1 DEF AskTurn, NotWaiting
  <2>2. waiter' \in [Sender -> Waiters]
    BY <2>1 DEF Waiters
  <2>3. \A x \in Sender : waiter'[x].until <= nextAt
    BY <1>0, <2>1 DEF PacerTypeOK
  <2> QED BY <1>0, <1>1, <2>2, <2>3 DEF AskTurn, PacerTypeOK, Waiters
<1>2. ASSUME NEW s \in Sender, WinSlot(s) PROVE PacerInvariant'
  <2>1. CASE nextAt > clock
    <3>1. waiter' = [waiter EXCEPT ![s].step = "asleep", ![s].until = nextAt]
          /\ UNCHANGED <<clock, nextAt, granted>>
      BY <1>2, <2>1 DEF WinSlot, Sleep
    <3>2. waiter' \in [Sender -> Waiters]
      BY <1>0, <3>1 DEF Waiters
    <3>3. \A x \in Sender : waiter'[x].until <= nextAt
      BY <1>0, <3>1 DEF PacerTypeOK, Waiters
    <3> QED BY <1>0, <3>1, <3>2, <3>3 DEF PacerTypeOK, Waiters
  <2>2. CASE ~(nextAt > clock)
    <3>1. /\ waiter' = [waiter EXCEPT ![s].step = "granted"]
          /\ nextAt' = clock + MinInterval + waiter[s].jitter
          /\ granted' = clock /\ clock' = clock
      BY <1>2, <2>2 DEF WinSlot, Grant
    <3>2. waiter' \in [Sender -> Waiters]
      BY <3>1 DEF Waiters
    <3>3. waiter[s].jitter \in 0..MaxJitter
      BY DEF Waiters
    <3>4. \A x \in Sender : waiter'[x].until = waiter[x].until /\ waiter[x].until <= nextAt
                            /\ waiter[x].until \in Nat
      BY <3>1 DEF PacerTypeOK, Waiters
    <3>5. nextAt' \in 0..(MaxClock + MinInterval + MaxJitter) /\ nextAt <= nextAt'
          /\ granted' + MinInterval <= nextAt'
      BY <1>0, <2>2, <3>1, <3>3
    <3>6. \A x \in Sender : waiter'[x].until <= nextAt'
      BY <1>0, <3>4, <3>5
    <3> QED BY <1>0, <3>1, <3>2, <3>5, <3>6 DEF PacerTypeOK, Waiters
  <2> QED BY <2>1, <2>2
<1>3. ASSUME NEW s \in Sender, LeaveTurn(s) PROVE PacerInvariant'
  <2>1. waiter' = [waiter EXCEPT ![s] = [step |-> "idle", until |-> 0, jitter |-> 0]]
    BY <1>3 DEF LeaveTurn, NotWaiting
  <2>2. waiter' \in [Sender -> Waiters]
    BY <2>1 DEF Waiters
  <2>3. \A x \in Sender : waiter'[x].until <= nextAt
    BY <1>0, <2>1 DEF PacerTypeOK
  <2> QED BY <1>0, <1>3, <2>2, <2>3 DEF LeaveTurn, PacerTypeOK, Waiters
<1>4. CASE PacerTick
  BY <1>0, <1>4 DEF PacerTick, PacerTypeOK
<1>5. CASE UNCHANGED pacerVars
  BY <1>5 DEF pacerVars, PacerTypeOK
<1> QED BY <1>1, <1>2, <1>3, <1>4, <1>5 DEF PacerNext

\* The session's slot is never granted twice within the interval, for any number of
\* lanes and replicas, any jitter, and however late each of them wakes.
THEOREM SpacedGrants == PacerSpec => GrantsAreSpaced
<1>1. PacerInvariant /\ [PacerNext]_pacerVars =>
        \A s \in Sender : waiter[s].step # "granted" /\ waiter'[s].step = "granted" =>
          clock >= granted + MinInterval
  <2> SUFFICES ASSUME PacerInvariant, [PacerNext]_pacerVars, NEW s \in Sender,
                      waiter[s].step # "granted", waiter'[s].step = "granted"
               PROVE  clock >= granted + MinInterval
    OBVIOUS
  <2> USE PacerAssumption DEF PacerInvariant
  <2>1. PICK x \in Sender : WinSlot(x) /\ ~(nextAt > clock)
    <3>1. ASSUME NEW x \in Sender, AskTurn(x) \/ LeaveTurn(x) PROVE FALSE
      <4>1. \E j \in Nat : \E step \in {"asks", "idle"} :
              waiter' = [waiter EXCEPT ![x] = [step |-> step, until |-> 0, jitter |-> j]]
        BY <3>1 DEF AskTurn, LeaveTurn, NotWaiting
      <4> QED BY <4>1
    <3>2. CASE PacerTick \/ UNCHANGED pacerVars
      BY <3>2 DEF PacerTick, pacerVars
    <3>3. ASSUME NEW x \in Sender, WinSlot(x), nextAt > clock PROVE FALSE
      <4>1. waiter'[x].step # "granted" /\ \A y \in Sender \ {x} : waiter'[y] = waiter[y]
        BY <3>3 DEF WinSlot, Sleep, Waiters
      <4> QED BY <4>1
    <3> QED BY <3>1, <3>2, <3>3 DEF PacerNext
  <2> QED BY <2>1 DEF PacerTypeOK
<1> QED BY <1>1, PacerStarts, PacerSteps, PTL DEF PacerSpec, GrantsAreSpaced

-----------------------------------------------------------------------------
(* The launch of a campaign.                                               *)

Requests == [step : {"idle", "looks", "creates", "invites", "wakes"}, kind : {"launch", "start"},
             sees : SUBSET Attendee, todo : SUBSET Attendee, clash : SUBSET Attendee]

\* A launch owes each attendee it saw an invitation, unless it is still to come or
\* failed on a phone in use; a closed campaign has nothing queued.
CampaignInvariant ==
  /\ CampaignTypeOK
  /\ ask \in [Manager -> Requests]
  /\ effort \in [requests : Nat, changes : Nat, faults : Nat]
  /\ \A m \in Manager : ask[m].kind = "launch" /\ ask[m].step \in {"invites", "wakes"} =>
       ask[m].sees \subseteq ask[m].todo \cup ask[m].clash \cup Invited
  /\ standing = "closed" => \A a \in Attendee : intro[a] # "queued"

\* What the invariant asks of one request.
SoundRequest(r, invited) ==
  /\ r \in Requests
  /\ r.todo \cup r.clash \subseteq r.sees
  /\ r.kind = "launch" /\ r.step \in {"invites", "wakes"} =>
       r.sees \subseteq r.todo \cup r.clash \cup invited

LEMMA RequestsSound ==
  CampaignInvariant => \A m \in Manager : SoundRequest(ask[m], Invited)
BY DEF CampaignInvariant, CampaignTypeOK, SoundRequest

LEMMA NoRequestSound == \A invited : SoundRequest(NoRequest, invited)
BY DEF NoRequest, SoundRequest, Requests

\* One request moves, or none; conversations begin and end but never disappear.
LEMMA OneRequestMoves ==
  ASSUME CampaignInvariant, Invited \subseteq Invited', ask' \in [Manager -> Requests],
         \A m \in Manager : ask'[m] = ask[m] \/ SoundRequest(ask'[m], Invited')
  PROVE  \A m \in Manager : SoundRequest(ask'[m], Invited')
BY RequestsSound DEF SoundRequest

LEMMA SetRequest ==
  ASSUME CampaignInvariant, Invited \subseteq Invited', NEW m \in Manager, NEW r,
         SetAsk(m, r), SoundRequest(r, Invited')
  PROVE  ask' \in [Manager -> Requests] /\ \A x \in Manager : SoundRequest(ask'[x], Invited')
<1>1. r \in Requests /\ ask \in [Manager -> Requests] /\ ask' = [ask EXCEPT ![m] = r]
  BY DEF SetAsk, SoundRequest, CampaignInvariant
<1>2. ask' \in [Manager -> Requests]
  BY <1>1
<1>3. \A x \in Manager : ask'[x] = ask[x] \/ SoundRequest(ask'[x], Invited')
  BY <1>1
<1> QED BY <1>2, <1>3, OneRequestMoves

\* What is left to show of a step: sets and columns keep their types, the requests are
\* sound, and a closed campaign is quiet.
Columns ==
  /\ eventStatus \in {"scheduled", "finished", "cancelled"}
  /\ standing \in {"none", "launched", "paused", "closed"}
  /\ chat \in [Attendee -> {"none", "open", "ended"}]
  /\ intro \in [Attendee -> {"none", "queued", "sent", "cancelled"}]
  /\ present \subseteq Attendee /\ optedIn \subseteq Attendee
  /\ elsewhere \subseteq Attendee /\ reported \subseteq Attendee

Efforts ==
  /\ effort \in [requests : Nat, changes : Nat, faults : Nat]
  /\ effort.requests <= MaxRequests /\ effort.changes <= MaxChanges
  /\ effort.faults <= MaxLaunchFaults

ClosedIsQuiet == standing = "closed" => \A a \in Attendee : intro[a] # "queued"

RequestTypes == ask \in [Manager -> Requests] /\ \A m \in Manager : SoundRequest(ask[m], Invited)

LEMMA CampaignParts ==
  /\ CampaignInvariant <=> Columns /\ Efforts /\ RequestTypes /\ ClosedIsQuiet
  /\ CampaignInvariant' <=> Columns' /\ Efforts' /\ RequestTypes' /\ ClosedIsQuiet'
BY DEF CampaignInvariant, CampaignTypeOK, Columns, Efforts, RequestTypes, SoundRequest,
       ClosedIsQuiet, Requests

LEMMA EffortCounted ==
  ASSUME Efforts, NEW what \in {"requests", "changes", "faults"}, Spend(what),
         what = "requests" => effort.requests < MaxRequests,
         what = "changes" => effort.changes < MaxChanges,
         what = "faults" => effort.faults < MaxLaunchFaults
  PROVE  Efforts'
BY CampaignAssumption DEF Efforts, Spend

LEMMA CampaignStarts == CampaignInit => CampaignInvariant
<1> SUFFICES ASSUME CampaignInit PROVE CampaignInvariant
  OBVIOUS
<1>1. Columns /\ ClosedIsQuiet
  BY DEF CampaignInit, Columns, ClosedIsQuiet
<1>2. Efforts
  BY CampaignAssumption DEF CampaignInit, Efforts
<1>3. RequestTypes
  <2>1. \A m \in Manager : ask[m] = NoRequest /\ SoundRequest(NoRequest, Invited)
    BY NoRequestSound DEF CampaignInit
  <2> QED BY <2>1 DEF CampaignInit, RequestTypes, SoundRequest
<1> QED BY <1>1, <1>2, <1>3, CampaignParts

\* A request of staff moves on.
RequestSteps(m) ==
  \/ ReadEvent(m) \/ FindCampaign(m) \/ CreateCampaign(m)
  \/ (\E a \in Attendee : StartOne(m, a) \/ Invite(m, a))
  \/ WakeUp(m) \/ Report(m) \/ LaunchFails(m)

\* The request after its step is sound.
LEMMA RequestStays ==
  ASSUME CampaignInvariant, NEW m \in Manager, RequestSteps(m)
  PROVE  Invited \subseteq Invited' /\ \E r : SetAsk(m, r) /\ SoundRequest(r, Invited')
<1>1. CampaignInvariant /\ Columns /\ SoundRequest(ask[m], Invited)
  BY CampaignParts, RequestsSound
<1> DEFINE Quiet == Invited \subseteq Invited' /\ \E r : SetAsk(m, r) /\ SoundRequest(r, Invited')
<1>2. CASE ReadEvent(m)
  <2> DEFINE r == [NoRequest EXCEPT !.step = "looks", !.sees = Eligible]
  <2>1. SetAsk(m, r) /\ Invited' = Invited
    BY <1>2 DEF ReadEvent, Invited
  <2>2. SoundRequest(r, Invited')
    BY <1>1 DEF SoundRequest, NoRequest, Requests, Eligible, Columns
  <2> QED BY <2>1, <2>2
<1>3. CASE FindCampaign(m)
  <2>1. Invited' = Invited
    BY <1>3 DEF FindCampaign, Invited
  <2>2. PICK r : /\ SetAsk(m, r)
                 /\ r \in {[ask[m] EXCEPT !.step = "creates"], NoRequest,
                           [ask[m] EXCEPT !.step = "invites", !.todo = @ \cup ask[m].sees]}
    BY <1>3 DEF FindCampaign
  <2>3. SoundRequest([ask[m] EXCEPT !.step = "creates"], Invited')
    BY <1>1, <2>1 DEF SoundRequest, Requests
  <2>4. SoundRequest([ask[m] EXCEPT !.step = "invites", !.todo = @ \cup ask[m].sees], Invited')
    BY <1>1, <2>1 DEF SoundRequest, Requests
  <2> QED BY <2>1, <2>2, <2>3, <2>4, NoRequestSound
<1>4. CASE CreateCampaign(m)
  <2>1. Invited' = Invited
    BY <1>4 DEF CreateCampaign, Invited
  <2>2. PICK r : /\ SetAsk(m, r)
                 /\ r \in {NoRequest, [ask[m] EXCEPT !.step = "invites", !.todo = ask[m].sees]}
    BY <1>4 DEF CreateCampaign
  <2>3. SoundRequest(r, Invited')
    BY <1>1, <2>2, NoRequestSound DEF SoundRequest, Requests
  <2> QED BY <2>1, <2>2, <2>3
<1>5. ASSUME NEW a \in Attendee, StartOne(m, a) PROVE Quiet
  <2> DEFINE r == [NoRequest EXCEPT !.step = "invites", !.kind = "start",
                                    !.sees = {a}, !.todo = {a}]
  <2>1. SetAsk(m, r) /\ Invited' = Invited
    BY <1>5 DEF StartOne, Invited
  <2>2. SoundRequest(r, Invited')
    BY DEF SoundRequest, NoRequest, Requests
  <2> QED BY <2>1, <2>2
<1>6. ASSUME NEW a \in Attendee, Invite(m, a) PROVE Quiet
  <2>1. Invited \subseteq Invited' /\ Invited \subseteq Attendee
    BY <1>1, <1>6 DEF Invite, Invited, Columns
  <2>2. ask[m].step = "invites" /\ a \in ask[m].todo
    BY <1>6 DEF Invite
  <2>3. \/ SetAsk(m, NoRequest)
        \/ SetAsk(m, Clash(ask[m], a))
        \/ SetAsk(m, [ask[m] EXCEPT !.step = "wakes", !.todo = @ \ {a}]) /\ a \in Invited'
        \/ SetAsk(m, [ask[m] EXCEPT !.todo = @ \ {a}]) /\ a \in Invited'
    BY <1>1, <1>6 DEF Invite, Invited, Columns
  <2>4. SoundRequest(Clash(ask[m], a), Invited')
    <3>1. CASE ask[m].kind = "launch"
      BY <1>1, <2>1, <2>2, <3>1 DEF Clash, SoundRequest, Requests
    <3>2. CASE ask[m].kind # "launch"
      BY <3>2, NoRequestSound DEF Clash
    <3> QED BY <3>1, <3>2
  <2>5. ASSUME a \in Invited', NEW step \in {"invites", "wakes"}
        PROVE  SoundRequest([ask[m] EXCEPT !.step = step, !.todo = @ \ {a}], Invited')
    BY <1>1, <2>1, <2>2, <2>5 DEF SoundRequest, Requests
  <2>6. [ask[m] EXCEPT !.todo = @ \ {a}] = [ask[m] EXCEPT !.step = "invites", !.todo = @ \ {a}]
    BY <1>1, <2>2 DEF SoundRequest, Requests
  <2> QED BY <2>1, <2>3, <2>4, <2>5, <2>6, NoRequestSound
<1>7. CASE WakeUp(m)
  <2>1. Invited' = Invited /\ SetAsk(m, [ask[m] EXCEPT !.step = "invites"])
    BY <1>7 DEF WakeUp, Invited
  <2>2. SoundRequest([ask[m] EXCEPT !.step = "invites"], Invited')
    BY <1>1, <1>7, <2>1 DEF SoundRequest, Requests, WakeUp
  <2> QED BY <2>1, <2>2
<1>8. CASE Report(m) \/ LaunchFails(m)
  <2>1. Invited' = Invited /\ SetAsk(m, NoRequest)
    BY <1>8 DEF Report, LaunchFails, Invited
  <2> QED BY <2>1, NoRequestSound
<1> QED BY <1>2, <1>3, <1>4, <1>5, <1>6, <1>7, <1>8 DEF RequestSteps

LEMMA RequestKeepsColumns ==
  ASSUME CampaignInvariant, NEW m \in Manager, RequestSteps(m)
  PROVE  Columns' /\ Efforts' /\ ClosedIsQuiet'
<1>0. Columns /\ Efforts /\ ClosedIsQuiet /\ ask[m] \in Requests
  BY CampaignParts DEF RequestTypes
<1>1. CASE ReadEvent(m) \/ FindCampaign(m) \/ WakeUp(m) \/ (\E a \in Attendee : StartOne(m, a))
           \/ LaunchFails(m)
  <2>1. Columns' /\ ClosedIsQuiet'
    BY <1>0, <1>1 DEF ReadEvent, FindCampaign, WakeUp, StartOne, LaunchFails, Columns, ClosedIsQuiet
  <2>2. Efforts'
    <3>1. CASE UNCHANGED effort
      BY <1>0, <3>1 DEF Efforts
    <3>2. CASE effort.requests < MaxRequests /\ Spend("requests")
      BY <1>0, <3>2, EffortCounted
    <3>3. CASE effort.faults < MaxLaunchFaults /\ Spend("faults")
      BY <1>0, <3>3, EffortCounted
    <3> QED BY <1>1, <3>1, <3>2, <3>3 DEF ReadEvent, FindCampaign, WakeUp, StartOne, LaunchFails
  <2> QED BY <2>1, <2>2
<1>2. CASE CreateCampaign(m)
  BY <1>0, <1>2 DEF CreateCampaign, Columns, Efforts, ClosedIsQuiet
<1>3. ASSUME NEW a \in Attendee, Invite(m, a) PROVE Columns' /\ Efforts' /\ ClosedIsQuiet'
  BY <1>0, <1>3 DEF Invite, NotClosed, Columns, Efforts, ClosedIsQuiet
<1>4. CASE Report(m)
  <2>1. ask[m].clash \subseteq Attendee
    BY <1>0 DEF Requests
  <2> QED BY <1>0, <1>4, <2>1 DEF Report, Columns, Efforts, ClosedIsQuiet
<1> QED BY <1>1, <1>2, <1>3, <1>4 DEF RequestSteps

\* What happens around the requests.
SurroundingSteps ==
  \/ \E to \in Running : Transition(to)
  \/ CloseCampaign
  \/ \E a \in Attendee :
       \/ DispatchIntro(a) \/ (\E stop \in BOOLEAN : EndConversation(a, stop))
       \/ CorrectAttendance(a) \/ ChangeOptIn(a) \/ PhoneChanges(a)
  \/ EventMoves

LEMMA SurroundingStep == CampaignInvariant /\ SurroundingSteps => CampaignInvariant'
<1> SUFFICES ASSUME CampaignInvariant, SurroundingSteps PROVE CampaignInvariant'
  OBVIOUS
<1>0. Columns /\ Efforts /\ ClosedIsQuiet /\ ask \in [Manager -> Requests]
  BY CampaignParts DEF RequestTypes
<1>1. Invited \subseteq Invited' /\ UNCHANGED ask
  BY <1>0 DEF SurroundingSteps, Transition, CloseCampaign, DispatchIntro, EndConversation,
       CorrectAttendance, ChangeOptIn, PhoneChanges, EventMoves, Invited, Columns
<1>2. RequestTypes'
  BY <1>0, <1>1, OneRequestMoves DEF RequestTypes
<1>3. Columns'
  <2>1. CASE \E to \in Running : Transition(to)
    BY <1>0, <2>1 DEF Transition, Running, Columns
  <2>2. CASE CloseCampaign \/ EventMoves
    BY <1>0, <2>2 DEF CloseCampaign, EventMoves, Columns
  <2>3. ASSUME NEW a \in Attendee, DispatchIntro(a) \/ \E stop \in BOOLEAN : EndConversation(a, stop)
        PROVE Columns'
    BY <1>0, <2>3 DEF DispatchIntro, EndConversation, Columns
  <2>4. ASSUME NEW a \in Attendee, CorrectAttendance(a) \/ ChangeOptIn(a) PROVE Columns'
    BY <1>0, <2>4 DEF CorrectAttendance, ChangeOptIn, Toggle, Columns
  <2>5. ASSUME NEW a \in Attendee, PhoneChanges(a) PROVE Columns'
    BY <1>0, <2>5, CampaignAssumption DEF PhoneChanges, SamePhone, Columns
  <2> QED BY <2>1, <2>2, <2>3, <2>4, <2>5 DEF SurroundingSteps
<1>4. Efforts'
  <2>1. CASE UNCHANGED effort
    BY <1>0, <2>1 DEF Efforts
  <2>2. CASE effort.changes < MaxChanges /\ Spend("changes")
    BY <1>0, <2>2, EffortCounted
  <2> QED BY <2>1, <2>2 DEF SurroundingSteps, Transition, CloseCampaign, DispatchIntro,
            EndConversation, CorrectAttendance, ChangeOptIn, PhoneChanges, EventMoves
<1>5. ClosedIsQuiet'
  <2>1. CASE \E to \in Running : Transition(to)
    BY <2>1 DEF Transition, Running, ClosedIsQuiet
  <2>2. CASE CloseCampaign
    BY <1>0, <2>2 DEF CloseCampaign, ClosedIsQuiet
  <2>3. ASSUME NEW a \in Attendee, DispatchIntro(a) \/ \E stop \in BOOLEAN : EndConversation(a, stop)
        PROVE ClosedIsQuiet'
    BY <1>0, <2>3 DEF DispatchIntro, EndConversation, ClosedIsQuiet, Columns
  <2>4. CASE UNCHANGED <<standing, intro>>
    BY <1>0, <2>4 DEF ClosedIsQuiet
  <2> QED BY <2>1, <2>2, <2>3, <2>4 DEF SurroundingSteps, CorrectAttendance, ChangeOptIn,
            PhoneChanges, EventMoves
<1> QED BY <1>2, <1>3, <1>4, <1>5, CampaignParts

LEMMA CampaignSteps == CampaignInvariant /\ [CampaignNext]_campaignVars => CampaignInvariant'
<1> SUFFICES ASSUME CampaignInvariant, [CampaignNext]_campaignVars PROVE CampaignInvariant'
  OBVIOUS
<1>1. ASSUME NEW m \in Manager, RequestSteps(m) PROVE CampaignInvariant'
  <2>1. RequestTypes'
    BY <1>1, RequestStays, SetRequest DEF RequestTypes
  <2> QED BY <1>1, <2>1, RequestKeepsColumns, CampaignParts
<1>2. CASE UNCHANGED campaignVars
  BY <1>2 DEF campaignVars, CampaignInvariant, CampaignTypeOK, Invited
<1> QED BY <1>1, <1>2, SurroundingStep DEF CampaignNext, RequestSteps, SurroundingSteps

\* Every variable of the campaign keeps its type.
THEOREM CampaignTyped == CampaignSpec => []CampaignTypeOK
<1>1. CampaignInvariant => CampaignTypeOK
  BY DEF CampaignInvariant
<1> QED BY <1>1, CampaignStarts, CampaignSteps, PTL DEF CampaignSpec

\* The kill switch is final, for any number of staff, requests and attendees: the
\* campaign stays closed, nobody is invited any more, and no intro is left in the queue.
THEOREM CloseIsFinal == CampaignSpec => CloseIsTheEnd
<1>1. CampaignInvariant /\ [CampaignNext]_campaignVars =>
        /\ standing = "closed" => standing' = "closed" /\ Invited' = Invited
        /\ standing' = "closed" => \A a \in Attendee : intro'[a] # "queued"
  <2> SUFFICES ASSUME CampaignInvariant, [CampaignNext]_campaignVars
               PROVE  /\ standing = "closed" => standing' = "closed" /\ Invited' = Invited
                      /\ standing' = "closed" => \A a \in Attendee : intro'[a] # "queued"
    OBVIOUS
  <2>1. ClosedIsQuiet' /\ Columns
    BY CampaignSteps, CampaignParts
  <2>2. ASSUME standing = "closed" PROVE standing' = "closed" /\ Invited' = Invited
    <3>1. ASSUME NEW m \in Manager, RequestSteps(m) PROVE standing' = standing /\ chat' = chat
      BY <2>2, <3>1 DEF RequestSteps, ReadEvent, FindCampaign, CreateCampaign, StartOne, Invite,
           NotClosed, WakeUp, Report, LaunchFails
    <3>2. CASE SurroundingSteps
      <4>1. standing' = standing
        BY <2>2, <3>2 DEF SurroundingSteps, Transition, NotClosed, CloseCampaign, Running,
             DispatchIntro, EndConversation, CorrectAttendance, ChangeOptIn, PhoneChanges, EventMoves
      <4>2. \A a \in Attendee : chat'[a] = "none" <=> chat[a] = "none"
        BY <2>1, <3>2 DEF SurroundingSteps, Transition, CloseCampaign, DispatchIntro,
             EndConversation, CorrectAttendance, ChangeOptIn, PhoneChanges, EventMoves, Columns
      <4> QED BY <2>2, <4>1, <4>2 DEF Invited
    <3>3. CASE UNCHANGED campaignVars
      BY <2>2, <3>3 DEF campaignVars, Invited
    <3> QED BY <2>2, <3>1, <3>2, <3>3 DEF CampaignNext, RequestSteps, SurroundingSteps, Invited
  <2> QED BY <2>1, <2>2 DEF ClosedIsQuiet
<1> QED BY <1>1, CampaignStarts, CampaignSteps, PTL DEF CampaignSpec, CloseIsTheEnd

\* A launch that no close and no failure stops leaves nobody out in silence: each of the
\* attendees it read has a conversation in the end, or is reported.
THEOREM LaunchLeavesNobodyOut == CampaignSpec => LaunchAccounts
<1>1. CampaignInvariant /\ [CampaignNext]_campaignVars =>
        \A m \in Manager :
          ask[m].kind = "launch" /\ ask[m].step = "invites" /\ ask'[m].step = "idle" =>
            \/ standing = "closed" \/ effort'.faults > effort.faults
            \/ ask[m].sees \subseteq Invited' \cup reported'
  <2> SUFFICES ASSUME CampaignInvariant, [CampaignNext]_campaignVars, NEW m \in Manager,
                      ask[m].kind = "launch", ask[m].step = "invites", ask'[m].step = "idle",
                      standing # "closed"
               PROVE  \/ effort'.faults > effort.faults
                      \/ ask[m].sees \subseteq Invited' \cup reported'
    OBVIOUS
  <2>1. SoundRequest(ask[m], Invited) /\ Efforts /\ ask \in [Manager -> Requests]
    BY RequestsSound, CampaignParts DEF RequestTypes
  <2>2. CASE Report(m)
    <3>1. ask[m].todo = {} /\ reported' = reported \cup ask[m].clash /\ Invited' = Invited
      BY <2>2 DEF Report, Invited
    <3> QED BY <2>1, <3>1 DEF SoundRequest
  <2>3. CASE LaunchFails(m)
    BY <2>1, <2>3 DEF LaunchFails, Spend, Efforts
  <2>4. ASSUME NEW x \in Manager, RequestSteps(x), x # m PROVE FALSE
    <3>1. PICK r : SetAsk(x, r)
      BY <2>4, RequestStays
    <3> QED BY <2>1, <2>4, <3>1 DEF SetAsk
  <2>5. ASSUME NEW a \in Attendee, Invite(m, a) PROVE FALSE
    <3>1. \/ SetAsk(m, [ask[m] EXCEPT !.todo = @ \ {a}, !.clash = @ \cup {a}])
          \/ SetAsk(m, [ask[m] EXCEPT !.step = "wakes", !.todo = @ \ {a}])
          \/ SetAsk(m, [ask[m] EXCEPT !.todo = @ \ {a}])
      BY <2>5 DEF Invite, NotClosed, Clash
    <3>2. ask'[m].step \in {"invites", "wakes"}
      BY <2>1, <3>1 DEF SetAsk, Requests
    <3> QED BY <3>2
  <2>6. CASE SurroundingSteps \/ UNCHANGED campaignVars
    BY <2>6 DEF SurroundingSteps, Transition, CloseCampaign, DispatchIntro, EndConversation,
         CorrectAttendance, ChangeOptIn, PhoneChanges, EventMoves, campaignVars
  <2>7. ~ReadEvent(m) /\ ~FindCampaign(m) /\ ~CreateCampaign(m) /\ ~WakeUp(m)
        /\ \A a \in Attendee : ~StartOne(m, a)
    BY DEF ReadEvent, FindCampaign, CreateCampaign, WakeUp, StartOne
  <2> QED BY <2>2, <2>3, <2>4, <2>5, <2>6, <2>7 DEF CampaignNext, RequestSteps, SurroundingSteps
<1> QED BY <1>1, CampaignStarts, CampaignSteps, PTL DEF CampaignSpec, LaunchAccounts

-----------------------------------------------------------------------------
(* The recovery passes.                                                    *)

Passes == [step : {"idle", "allocate", "publish"}, page : SUBSET Key, stale : SUBSET Key,
           examined : 0..(ScanLimit + PageSize), tail : BOOLEAN]

\* A pass asks for another page only below its limit; the scan of the ingress reads one.
WithinScan(p) ==
  /\ p.step = "allocate" => p.examined < ScanLimit /\ (scan = "ingress_pending" => p.examined = 0)
  /\ scan # "ingress_pending" => p.examined <= ScanLimit

RecoveryInvariant ==
  /\ RecoveryTypeOK
  /\ \A r \in Replica : WithinScan(pass[r])

\* The greatest and the least key of a page are keys of it.
LEMMA EndsOfPage ==
  ASSUME NEW S \in SUBSET Key, S # {}
  PROVE  Max(S) \in S /\ Min(S) \in S
<1>0. Key \in SUBSET Int /\ Key \subseteq Nat /\ IsFiniteSet(Key)
  BY RecoveryAssumption, FS_Interval DEF Key
<1>1. IsFiniteSet(S) /\ S \in SUBSET Int /\ S \subseteq Nat
  BY <1>0, FS_Subset
<1>2. PICK m \in S : \A x \in S : x <= m
  BY <1>1, GreatestExists
<1>3. \A x \in S : m >= x
  BY <1>1, <1>2
<1>4. Max(S) \in S
  BY <1>3 DEF Max
<1>5. PICK x \in S : \A y \in S : <<y, x>> \notin OpToRel(<, Nat)
  BY <1>1, NatLessThanWellFounded, WFMin, Zenon
<1>6. \A y \in S : ~(y < x)
  BY <1>1, <1>5 DEF OpToRel
<1>7. \A y \in S : x <= y
  BY <1>1, <1>6
<1>8. Min(S) \in S
  BY <1>7 DEF Min
<1> QED BY <1>4, <1>8

LEMMA LesserOfTwo ==
  ASSUME NEW a \in Nat, NEW b \in Nat
  PROVE  Min({a, b}) \in Nat /\ Min({a, b}) <= a /\ Min({a, b}) <= b
<1>1. CASE a <= b
  <2>1. a \in {a, b} /\ \A y \in {a, b} : a <= y
    BY <1>1
  <2>2. Min({a, b}) \in {a, b} /\ \A y \in {a, b} : Min({a, b}) <= y
    BY <2>1 DEF Min
  <2> QED BY <2>2
<1>2. CASE b <= a
  <2>1. b \in {a, b} /\ \A y \in {a, b} : b <= y
    BY <1>2
  <2>2. Min({a, b}) \in {a, b} /\ \A y \in {a, b} : Min({a, b}) <= y
    BY <2>1 DEF Min
  <2> QED BY <2>2
<1> QED BY <1>1, <1>2

\* A page has at most as many rows as were asked for.
LEMMA PageIsBounded ==
  ASSUME NEW S \in SUBSET Key, NEW n \in Nat
  PROVE  Smallest(S, n) \in SUBSET Key /\ Cardinality(Smallest(S, n)) \in 0..n
<1>1. Key \in SUBSET Int /\ IsFiniteSet(Key)
  BY RecoveryAssumption, FS_Interval DEF Key
<1>2. IsFiniteSet(S) /\ S \in SUBSET Int
  BY <1>1, FS_Subset
<1>3. Smallest(S, n) \subseteq S /\ Cardinality(Smallest(S, n)) \in 0..n
  BY <1>2, FirstOnes DEF Smallest
<1> QED BY <1>3

LEMMA PassMoves ==
  ASSUME RecoveryInvariant, NEW r \in Replica, NEW p \in Passes,
         pass' = [pass EXCEPT ![r] = p], UNCHANGED scan, WithinScan(p)
  PROVE  /\ pass' \in [Replica -> Passes]
         /\ \A x \in Replica : WithinScan(pass[x])'
BY DEF RecoveryInvariant, RecoveryTypeOK, WithinScan, Passes

LEMMA NoPassTyped == NoPass \in Passes /\ WithinScan(NoPass)
BY RecoveryAssumption DEF NoPass, Passes, WithinScan

LEMMA RecoveryStarts == RecoveryInit => RecoveryInvariant
<1> SUFFICES ASSUME RecoveryInit PROVE RecoveryInvariant
  OBVIOUS
<1>1. pass \in [Replica -> Passes] /\ \A r \in Replica : WithinScan(pass[r])
  BY NoPassTyped DEF RecoveryInit
<1>2. deaths \in 0..MaxPassCrashes
  BY RecoveryAssumption DEF RecoveryInit
<1> QED BY <1>1, <1>2 DEF RecoveryInit, RecoveryInvariant, RecoveryTypeOK, Passes, WithinScan

LEMMA AllocateStep ==
  ASSUME RecoveryInvariant, NEW r \in Replica, Allocate(r)
  PROVE  RecoveryInvariant'
<1> DEFINE size == IF scan = "ingress_pending" THEN PageSize
                   ELSE Min({PageSize, ScanLimit - pass[r].examined})
           behind == Smallest(After(cursorKey), size)
           page == IF behind = {} /\ pass[r].examined = 0 THEN Smallest(due, size) ELSE behind
<1>0. /\ due \subseteq Key /\ pass \in [Replica -> Passes] /\ pass[r] \in Passes
      /\ pass[r].step = "allocate" /\ WithinScan(pass[r])
      /\ pass[r].examined \in Nat
  <2>1. due \subseteq Key /\ pass \in [Replica -> Passes] /\ WithinScan(pass[r])
    BY DEF RecoveryInvariant, RecoveryTypeOK, Passes
  <2>2. pass[r] \in Passes
    BY <2>1
  <2>3. pass[r].examined \in Nat
    BY <2>2, RecoveryAssumption DEF Passes
  <2> QED BY <2>1, <2>2, <2>3 DEF Allocate
<1>1. size \in Nat /\ size <= PageSize
      /\ (scan # "ingress_pending" => pass[r].examined + size <= ScanLimit)
      /\ (scan = "ingress_pending" => pass[r].examined = 0)
  <2>1. CASE scan = "ingress_pending"
    BY <1>0, <2>1, RecoveryAssumption DEF WithinScan
  <2>2. CASE scan # "ingress_pending"
    <3>1. ScanLimit - pass[r].examined \in Nat
      BY <1>0, RecoveryAssumption DEF WithinScan
    <3>2. size \in Nat /\ size <= PageSize /\ size <= ScanLimit - pass[r].examined
      BY <2>2, <3>1, LesserOfTwo, RecoveryAssumption
    <3> HIDE DEF size
    <3> QED BY <1>0, <2>2, <3>2, RecoveryAssumption
  <2> QED BY <2>1, <2>2
<1>2. page \in SUBSET Key /\ Cardinality(page) \in 0..size
  <2> HIDE DEF size
  <2>1. After(cursorKey) \in SUBSET Key
    BY <1>0 DEF After
  <2> QED BY <1>0, <1>1, <2>1, PageIsBounded
<1>3. UNCHANGED <<scan, due, seenRows, deaths>>
  BY DEF Allocate
<1>4. \/ cursorKey' = {} /\ pass' = [pass EXCEPT ![r] = NoPass]
      \/ /\ page # {} /\ cursorKey' = TailCursor(page, size)
         /\ pass' = [pass EXCEPT ![r].step = "publish", ![r].page = page,
                  ![r].examined = @ + Cardinality(page),
                  ![r].tail = Cardinality(page) < size]
  BY DEF Allocate
<1>5. CASE cursorKey' = {} /\ pass' = [pass EXCEPT ![r] = NoPass]
  <2>1. pass' \in [Replica -> Passes] /\ \A x \in Replica : WithinScan(pass[x])'
    BY <1>3, <1>5, NoPassTyped, PassMoves
  <2> QED BY <1>3, <1>5, <2>1 DEF RecoveryInvariant, RecoveryTypeOK, Passes, WithinScan
<1>6. CASE /\ page # {} /\ cursorKey' = TailCursor(page, size)
           /\ pass' = [pass EXCEPT ![r].step = "publish", ![r].page = page,
                  ![r].examined = @ + Cardinality(page),
                  ![r].tail = Cardinality(page) < size]
  <2> DEFINE p == [pass[r] EXCEPT !.step = "publish", !.page = page,
                     !.examined = @ + Cardinality(page), !.tail = Cardinality(page) < size]
  <2>1. pass' = [pass EXCEPT ![r] = p]
    BY <1>0, <1>6
  <2>2. pass[r].examined + Cardinality(page) \in 0..(ScanLimit + PageSize)
        /\ (scan # "ingress_pending" => pass[r].examined + Cardinality(page) <= ScanLimit)
    <3> HIDE DEF size, page
    <3> QED BY <1>0, <1>1, <1>2, RecoveryAssumption DEF WithinScan
  <2>3. p \in Passes /\ WithinScan(p)
    <3>1. (Cardinality(page) < size) \in BOOLEAN
      OBVIOUS
    <3> HIDE DEF size, page
    <3> QED BY <1>0, <1>2, <2>2, <3>1 DEF Passes, WithinScan
  <2>4. pass' \in [Replica -> Passes] /\ \A x \in Replica : WithinScan(pass[x])'
    <3> HIDE DEF p
    <3> QED BY <1>3, <2>1, <2>3, PassMoves
  <2>5. cursorKey' \in {{}} \cup {{k} : k \in Key}
    <3> HIDE DEF size, page
    <3>1. Max(page) \in Key
      BY <1>2, <1>6, EndsOfPage
    <3> QED BY <1>6, <3>1 DEF TailCursor
  <2> QED BY <1>3, <2>4, <2>5 DEF RecoveryInvariant, RecoveryTypeOK, Passes, WithinScan
<1> QED BY <1>4, <1>5, <1>6

LEMMA RecoverySteps == RecoveryInvariant /\ [RecoveryNext]_recoveryVars => RecoveryInvariant'
<1> SUFFICES ASSUME RecoveryInvariant, [RecoveryNext]_recoveryVars PROVE RecoveryInvariant'
  OBVIOUS
<1>0. RecoveryTypeOK /\ pass \in [Replica -> Passes] /\ \A r \in Replica : WithinScan(pass[r])
  BY DEF RecoveryInvariant, RecoveryTypeOK, Passes
<1>1. ASSUME NEW k \in Key, BecomesDue(k) PROVE RecoveryInvariant'
  <2>1. pass' \in [Replica -> Passes]
    BY <1>0, <1>1 DEF BecomesDue, Passes
  <2>2. \A r \in Replica : pass'[r].step = pass[r].step /\ pass'[r].examined = pass[r].examined
    BY <1>0, <1>1 DEF BecomesDue, Passes
  <2> QED BY <1>0, <1>1, <2>1, <2>2 DEF BecomesDue, RecoveryInvariant, RecoveryTypeOK, Passes, WithinScan
<1>2. ASSUME NEW k \in Key, Served(k) PROVE RecoveryInvariant'
  BY <1>0, <1>2 DEF Served, RecoveryInvariant, RecoveryTypeOK, WithinScan
<1>3. ASSUME NEW r \in Replica, Begin(r) PROVE RecoveryInvariant'
  <2>1. [NoPass EXCEPT !.step = "allocate"] \in Passes /\ WithinScan([NoPass EXCEPT !.step = "allocate"])
    <3> DEFINE p == [NoPass EXCEPT !.step = "allocate"]
    <3>1. NoPass \in Passes /\ NoPass.examined = 0
      BY NoPassTyped DEF NoPass
    <3>2. p \in Passes /\ p.step = "allocate" /\ p.examined = 0
      BY <3>1 DEF Passes
    <3>3. WithinScan(p)
      <4> HIDE DEF p
      <4> QED BY <3>2, RecoveryAssumption DEF WithinScan
    <3> QED BY <3>2, <3>3
  <2>2. pass' \in [Replica -> Passes] /\ \A x \in Replica : WithinScan(pass[x])'
    BY <1>3, <2>1, PassMoves DEF Begin
  <2> QED BY <1>0, <1>3, <2>2 DEF Begin, RecoveryInvariant, RecoveryTypeOK, Passes, WithinScan
<1>4. ASSUME NEW r \in Replica, Publish1(r) PROVE RecoveryInvariant'
  <2> DEFINE k == Min(pass[r].page)
             p == [pass[r] EXCEPT !.page = @ \ {k}, !.stale = @ \ {k}]
  <2>1. k \in Key
    BY <1>0, <1>4, EndsOfPage DEF Publish1, Passes
  <2>2. pass' = [pass EXCEPT ![r] = p]
    BY <1>0, <1>4 DEF Publish1
  <2>3. p \in Passes /\ WithinScan(p)
    BY <1>0 DEF Passes, WithinScan
  <2>4. pass' \in [Replica -> Passes] /\ \A x \in Replica : WithinScan(pass[x])'
    <3> HIDE DEF p
    <3> QED BY <1>4, <2>2, <2>3, PassMoves DEF Publish1
  <2>5. seenRows' \subseteq Key
    BY <1>0, <1>4, <2>1 DEF Publish1, RecoveryTypeOK
  <2> QED BY <1>0, <1>4, <2>4, <2>5 DEF Publish1, RecoveryInvariant, RecoveryTypeOK, Passes, WithinScan
<1>5. ASSUME NEW r \in Replica, EndPage(r) PROVE RecoveryInvariant'
  <2>1. \/ pass' = [pass EXCEPT ![r] = NoPass]
        \/ /\ scan # "ingress_pending" /\ ~(pass[r].examined >= ScanLimit)
           /\ pass' = [pass EXCEPT ![r] = [pass[r] EXCEPT !.step = "allocate"]]
    BY <1>0, <1>5 DEF EndPage
  <2>2. ASSUME scan # "ingress_pending", ~(pass[r].examined >= ScanLimit)
        PROVE  [pass[r] EXCEPT !.step = "allocate"] \in Passes
               /\ WithinScan([pass[r] EXCEPT !.step = "allocate"])
    BY <1>0, <2>2, RecoveryAssumption DEF Passes, WithinScan
  <2>3. pass' \in [Replica -> Passes] /\ \A x \in Replica : WithinScan(pass[x])'
    BY <1>5, <2>1, <2>2, NoPassTyped, PassMoves DEF EndPage
  <2> QED BY <1>0, <1>5, <2>3 DEF EndPage, RecoveryInvariant, RecoveryTypeOK, Passes, WithinScan
<1>6. ASSUME NEW r \in Replica, PassDies(r) PROVE RecoveryInvariant'
  <2>1. pass' \in [Replica -> Passes] /\ \A x \in Replica : WithinScan(pass[x])'
    BY <1>6, NoPassTyped, PassMoves DEF PassDies
  <2>2. deaths' \in 0..MaxPassCrashes
    BY <1>0, <1>6, RecoveryAssumption DEF PassDies, RecoveryTypeOK
  <2> QED BY <1>0, <1>6, <2>1, <2>2 DEF PassDies, RecoveryInvariant, RecoveryTypeOK, Passes, WithinScan
<1>7. CASE UNCHANGED recoveryVars
  BY <1>0, <1>7 DEF recoveryVars, RecoveryInvariant, RecoveryTypeOK, WithinScan
<1> QED
  BY <1>1, <1>2, <1>3, <1>4, <1>5, <1>6, <1>7, AllocateStep DEF RecoveryNext, PassStep

\* The passes keep their types, and one pass never examines more rows than its limit,
\* however many rows are due and however many replicas share the cursor.
THEOREM RecoveryTyped == RecoverySpec => []RecoveryTypeOK
<1>1. RecoveryInvariant => RecoveryTypeOK
  BY DEF RecoveryInvariant
<1> QED BY <1>1, RecoveryStarts, RecoverySteps, PTL DEF RecoverySpec

-----------------------------------------------------------------------------
(* All of them together.                                                   *)

\* The component a behaviour is about keeps its own invariant.
BackgroundInvariant ==
  /\ focus = "interview" => InterviewInvariant
  /\ focus = "summary" => SummaryInvariant
  /\ focus = "topics" => TopicInvariant
  /\ focus = "assistant" => AssistantInvariant
  /\ focus = "recovery" => RecoveryInvariant
  /\ focus = "calls" => CallInvariant
  /\ focus = "poll" => PollInvariant
  /\ focus = "email" => EmailInvariant
  /\ focus = "campaign" => CampaignInvariant
  /\ focus = "pacer" => PacerInvariant

LEMMA BackgroundStarts == BackgroundInit => BackgroundInvariant
BY InterviewStarts, SummaryStarts, TopicStarts, AssistantStarts, RecoveryStarts, CallInitOK,
   PollStarts, EmailInitOK, CampaignStarts, PacerStarts
DEF BackgroundInit, BackgroundInvariant

\* A component that stutters stutters in its own next-state relation.
LEMMA ComponentMoves ==
  ASSUME [BackgroundNext]_backgroundVars
  PROVE  /\ UNCHANGED focus
         /\ focus = "interview" => [InterviewNext]_interviewVars
         /\ focus = "summary" => [SummaryNext]_summaryVars
         /\ focus = "topics" => [TopicNext]_topicVars
         /\ focus = "assistant" => [AssistantNext]_assistantVars
         /\ focus = "recovery" => [RecoveryNext]_recoveryVars
         /\ focus = "calls" => [CallNext]_callVars
         /\ focus = "poll" => [Next]_vars
         /\ focus = "email" => [EmailNext]_emailVars
         /\ focus = "campaign" => [CampaignNext]_campaignVars
         /\ focus = "pacer" => [PacerNext]_pacerVars
BY DEF BackgroundNext, backgroundVars

LEMMA BackgroundSteps ==
  BackgroundInvariant /\ [BackgroundNext]_backgroundVars => BackgroundInvariant'
<1> SUFFICES ASSUME BackgroundInvariant, [BackgroundNext]_backgroundVars
             PROVE  BackgroundInvariant'
  OBVIOUS
<1>1. UNCHANGED focus
  BY ComponentMoves
<1>2. /\ focus = "interview" => InterviewInvariant'
      /\ focus = "summary" => SummaryInvariant'
      /\ focus = "topics" => TopicInvariant'
      /\ focus = "assistant" => AssistantInvariant'
      /\ focus = "recovery" => RecoveryInvariant'
  BY ComponentMoves, InterviewSteps, SummarySteps, TopicSteps, AssistantSteps, RecoverySteps
  DEF BackgroundInvariant
<1>3. /\ focus = "calls" => CallInvariant'
      /\ focus = "poll" => PollInvariant'
      /\ focus = "email" => EmailInvariant'
      /\ focus = "campaign" => CampaignInvariant'
      /\ focus = "pacer" => PacerInvariant'
  BY ComponentMoves, CallStep, PollSteps, EmailSteps, CampaignSteps, PacerSteps
  DEF BackgroundInvariant
<1> QED BY <1>1, <1>2, <1>3 DEF BackgroundInvariant

\* Whichever component moves, every variable of it keeps its type.
THEOREM BackgroundTyped == BackgroundSpec => []BackgroundTypeOK
<1>1. BackgroundInvariant => BackgroundTypeOK
  <2>1. /\ SummaryInvariant => SummaryTypeOK
        /\ TopicInvariant => TopicTypeOK
        /\ RecoveryInvariant => RecoveryTypeOK
        /\ CallInvariant => CallTypeOK
        /\ PollInvariant => TypeOK
        /\ EmailInvariant => EmailTypeOK
        /\ CampaignInvariant => CampaignTypeOK
        /\ PacerInvariant => PacerTypeOK
    BY DEF SummaryInvariant, TopicInvariant, RecoveryInvariant, CallInvariant, PollInvariant,
           EmailInvariant, CampaignInvariant, PacerInvariant
  <2> QED BY <2>1, InterviewTypes, TypedWhileSound DEF BackgroundInvariant, BackgroundTypeOK
<1> QED BY <1>1, BackgroundStarts, BackgroundSteps, PTL DEF BackgroundSpec
=============================================================================
