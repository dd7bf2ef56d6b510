--------------------------- MODULE ProviderCalls ---------------------------
(***************************************************************************)
(* The deployment-wide limit on calls to the model providers: a sorted set *)
(* in Redis whose members are leases.  A caller polls the acquire script   *)
(* until it gets a slot, makes one call that its own timeout ends, and     *)
(* removes its member.  Time is counted in ticks of one minute.            *)
(***************************************************************************)
EXTENDS Integers, FiniteSets

CONSTANTS
  PaidCall,        \* calls the workers want to make
  CallLimit,       \* PROVIDER_CALL_CONCURRENCY_LIMIT
  CallTimeout,     \* the longest timeout of a provider call, in ticks
  SlotLease,       \* PROVIDER_CALL_LEASE_MS, in ticks
  MaxCallCrashes   \* bound: callers that die, releases Redis refuses

ASSUME CallAssumption ==
  /\ IsFiniteSet(PaidCall)
  /\ CallLimit \in Nat \ {0} /\ MaxCallCrashes \in Nat
  /\ CallTimeout \in Nat \ {0} /\ SlotLease \in Nat /\ SlotLease > CallTimeout

VARIABLES
  call,      \* call -> idle, waiting, calling, answered
  age,       \* call -> ticks since its slot was granted
  lease,     \* call -> ticks its member of the sorted set is still good for, 0: absent
  crashes    \* faults so far

callVars == <<call, age, lease, crashes>>

CallInit ==
  /\ call = [c \in PaidCall |-> "idle"]
  /\ age = [c \in PaidCall |-> 0]
  /\ lease = [c \in PaidCall |-> 0]
  /\ crashes = 0

InFlight == {c \in PaidCall : call[c] = "calling"}
Slots    == {c \in PaidCall : lease[c] > 0}

\* A caller has a token of its own for every call, so that it asks again only once
\* the member of the call before is gone.
AskSlot(c) ==
  /\ call[c] = "idle" /\ lease[c] = 0
  /\ call' = [call EXCEPT ![c] = "waiting"]
  /\ UNCHANGED <<age, lease, crashes>>

\* Mutant: the set is counted before and after, not in one script.
AcquireUncounted(c) ==
  /\ call[c] = "waiting" /\ Cardinality(Slots) <= CallLimit
  /\ lease' = [lease EXCEPT ![c] = SlotLease]
  /\ call' = [call EXCEPT ![c] = "calling"] /\ age' = [age EXCEPT ![c] = 0]
  /\ UNCHANGED crashes

\* acquire-provider-slot.lua, then the call: members past their lease are dropped,
\* a full set answers 0 and the caller waits.
Acquire(c) ==
  /\ call[c] = "waiting" /\ Cardinality(Slots) < CallLimit
  /\ lease' = [lease EXCEPT ![c] = SlotLease]
  /\ call' = [call EXCEPT ![c] = "calling"] /\ age' = [age EXCEPT ![c] = 0]
  /\ UNCHANGED crashes

\* The provider answers, or its timeout does.
AnswerCall(c) ==
  /\ call[c] = "calling"
  /\ call' = [call EXCEPT ![c] = "answered"]
  /\ age' = [age EXCEPT ![c] = 0]
  /\ UNCHANGED <<lease, crashes>>

\* finally: the member is removed.
ReleaseSlot(c) ==
  /\ call[c] = "answered"
  /\ lease' = [lease EXCEPT ![c] = 0]
  /\ call' = [call EXCEPT ![c] = "idle"]
  /\ UNCHANGED <<age, crashes>>

\* The process dies, or Redis refuses the removal: the member stays.
SlotLost(c) ==
  /\ call[c] \in {"calling", "answered"} /\ crashes < MaxCallCrashes
  /\ crashes' = crashes + 1
  /\ call' = [call EXCEPT ![c] = "idle"] /\ age' = [age EXCEPT ![c] = 0]
  /\ UNCHANGED lease

\* Mutants of LeaseLeft: a member left behind is never dropped; time runs past zero.
LeaseForever(ttl, c) == IF ttl = 0 THEN 0 ELSE IF call[c] = "idle" THEN ttl ELSE ttl - 1

LeaseOverrun(ttl, c) == ttl - 1

LeaseLeft(ttl, c) == IF ttl = 0 THEN 0 ELSE ttl - 1

\* A minute passes; no call outlives its timeout.
CallTick ==
  /\ \A c \in InFlight : age[c] < CallTimeout
  /\ InFlight \cup Slots # {}
  /\ age' = [c \in PaidCall |-> IF c \in InFlight THEN age[c] + 1 ELSE 0]
  /\ lease' = [c \in PaidCall |-> LeaseLeft(lease[c], c)]
  /\ UNCHANGED <<call, crashes>>

CallNext ==
  \/ \E c \in PaidCall :
       AskSlot(c) \/ Acquire(c) \/ AnswerCall(c) \/ ReleaseSlot(c) \/ SlotLost(c)
  \/ CallTick

CallSpec == CallInit /\ [][CallNext]_callVars

-----------------------------------------------------------------------------
\* Every variable keeps its type.
CallTypeOK ==
  /\ call \in [PaidCall -> {"idle", "waiting", "calling", "answered"}]
  /\ age \in [PaidCall -> 0..CallTimeout]
  /\ lease \in [PaidCall -> 0..SlotLease]
  /\ crashes \in 0..MaxCallCrashes

\* Never more calls in flight than the limit, on all replicas together: a slot is
\* not handed on while the call it was granted for still runs.
CallsWithinLimit == Cardinality(InFlight) <= CallLimit

\* The strengthening: a running call still has its lease, and has used no more of it
\* than its age.
CallKeepsSlot == \A c \in InFlight : lease[c] >= SlotLease - age[c]

\* Slots of dead workers come back: whoever waits finds one free in the end.
SlotComesFree ==
  (\E c \in PaidCall : call[c] = "waiting")
    ~> (Cardinality(Slots) < CallLimit \/ \A c \in PaidCall : call[c] # "waiting")
=============================================================================
