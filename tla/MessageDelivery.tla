--------------------------- MODULE MessageDelivery ---------------------------
(***************************************************************************)
(* What the outbox promises about a message, whatever happens to the       *)
(* dispatchers: a message is written once, retracted only while it cannot  *)
(* have left, handed over by at most one provider call, and afterwards its *)
(* fate is known, or openly unknown.  One database transaction may move    *)
(* several messages.                                                       *)
(***************************************************************************)
EXTENDS Integers

CONSTANT Message

VARIABLES
  phase,  \* message -> how far it got
  calls   \* message -> provider calls made for it

Phases == {"unwritten", "queued", "retracted", "offered", "uncertain",
           "delivered", "rejected"}

Init ==
  /\ phase \in [Message -> {"unwritten", "queued", "offered"}]
  /\ calls = [m \in Message |-> 0]

\* Where a message may go from each phase.  An observation of the phone can
\* settle an uncertain message, and it can overrule a recorded rejection.
MayBecome(from, to) ==
  \/ from = to
  \/ from = "unwritten" /\ to = "queued"
  \/ from = "queued"    /\ to \in {"retracted", "offered"}
  \/ from = "offered"   /\ to \in {"delivered", "rejected", "uncertain"}
  \/ from = "uncertain" /\ to = "delivered"
  \/ from = "rejected"  /\ to = "delivered"

MayHaveLeft(m) == phase[m] \in {"offered", "uncertain", "delivered", "rejected"}

Advance ==
  /\ phase' \in [Message -> Phases]
  /\ \A m \in Message : MayBecome(phase[m], phase'[m])
  /\ UNCHANGED calls

Call(m) ==
  /\ MayHaveLeft(m)
  /\ calls[m] = 0
  /\ calls' = [calls EXCEPT ![m] = 1]
  /\ UNCHANGED phase

Next == Advance \/ \E m \in Message : Call(m)

Spec == Init /\ [][Next]_<<phase, calls>>
=============================================================================
