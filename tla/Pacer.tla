------------------------------- MODULE Pacer --------------------------------
(***************************************************************************)
(* The pacing of provider calls on the session all senders share.  Redis   *)
(* keeps the earliest time of the next slot; a sender that comes too early *)
(* is told to sleep, and competes again when it wakes, which a suspended   *)
(* process may do late.  A tick stands for half a second.                  *)
(***************************************************************************)
EXTENDS Naturals

CONSTANTS
  Sender,        \* dispatch lanes of all replicas
  MinInterval,   \* FEEDBACK_SEND_MIN_INTERVAL_MS, in ticks
  MaxJitter,     \* FEEDBACK_SEND_JITTER_MS, in ticks
  MaxClock       \* bound: time

ASSUME PacerAssumption ==
  /\ MinInterval \in Nat \ {0} /\ MaxJitter \in Nat
  /\ MaxClock \in Nat /\ MinInterval <= MaxClock

VARIABLES
  clock,     \* the time of Redis
  nextAt,    \* the key: no slot before it
  waiter,    \* sender -> the call of waitTurn
  granted    \* the time of the last slot

pacerVars == <<clock, nextAt, waiter, granted>>

NotWaiting == [step |-> "idle", until |-> 0, jitter |-> 0]

\* Nobody has sent for a while.
PacerInit ==
  /\ clock = MinInterval /\ nextAt = 0 /\ granted = 0
  /\ waiter = [s \in Sender |-> NotWaiting]

\* The jitter is drawn once per turn.
AskTurn(s) ==
  /\ waiter[s].step = "idle"
  /\ \E j \in 0..MaxJitter :
       waiter' = [waiter EXCEPT ![s] = [NotWaiting EXCEPT !.step = "asks", !.jitter = j]]
  /\ UNCHANGED <<clock, nextAt, granted>>

\* A sender that asks, or whose sleep is over.
Competes(s) ==
  waiter[s].step = "asks" \/ (waiter[s].step = "asleep" /\ waiter[s].until <= clock)

Grant(s) ==
  /\ waiter' = [waiter EXCEPT ![s].step = "granted"]
  /\ granted' = clock

Sleep(s) ==
  /\ waiter' = [waiter EXCEPT ![s].step = "asleep", ![s].until = nextAt]
  /\ UNCHANGED granted

\* Mutant: the slot is promised before the sleep.
WinAhead(s) ==
  /\ Competes(s)
  /\ IF waiter[s].step = "asks" /\ nextAt > clock
       THEN Sleep(s) /\ nextAt' = nextAt + MinInterval + waiter[s].jitter
       ELSE Grant(s) /\ nextAt' = clock + MinInterval + waiter[s].jitter
  /\ UNCHANGED clock

\* One evaluation of the script: the boundary moves only for a sender that wins now.
WinSlot(s) ==
  /\ Competes(s)
  /\ IF nextAt > clock
       THEN Sleep(s) /\ UNCHANGED nextAt
       ELSE Grant(s) /\ nextAt' = clock + MinInterval + waiter[s].jitter
  /\ UNCHANGED clock

\* The sender makes its call; or Redis fails and the turn is rejected.
LeaveTurn(s) ==
  /\ waiter[s].step # "idle"
  /\ waiter' = [waiter EXCEPT ![s] = NotWaiting]
  /\ UNCHANGED <<clock, nextAt, granted>>

PacerTick ==
  /\ clock < MaxClock /\ clock' = clock + 1
  /\ UNCHANGED <<nextAt, waiter, granted>>

PacerNext ==
  \/ \E s \in Sender : AskTurn(s) \/ WinSlot(s) \/ LeaveTurn(s)
  \/ PacerTick

PacerSpec == PacerInit /\ [][PacerNext]_pacerVars

-----------------------------------------------------------------------------
\* Every variable keeps its type.
PacerTypeOK ==
  /\ clock \in 0..MaxClock /\ granted \in 0..clock
  /\ nextAt \in 0..(MaxClock + MinInterval + MaxJitter)
  /\ \A s \in Sender :
       /\ waiter[s].step \in {"idle", "asks", "asleep", "granted"}
       /\ waiter[s].until <= nextAt /\ waiter[s].jitter \in 0..MaxJitter

\* The session's slot is never granted twice within the interval, however long the
\* senders slept and however late they woke.  What a lane does between its grant and
\* its send takes time of its own.
GrantsAreSpaced ==
  [][\A s \in Sender :
       waiter[s].step # "granted" /\ waiter'[s].step = "granted" =>
         clock >= granted + MinInterval]_pacerVars
=============================================================================
