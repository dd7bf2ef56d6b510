------------------------------ MODULE Campaign ------------------------------
(***************************************************************************)
(* The campaign of one event: staff launch it, start conversations for     *)
(* latecomers, pause, resume and close it.  A launch reads the event, the  *)
(* attendees and the campaign outside of any transaction, creates the      *)
(* campaign, and invites one attendee per transaction under the row lock   *)
(* of the campaign, while attendance, consent, phones and the campaign     *)
(* itself go on changing.  The work revisions are in Reconcile, what is    *)
(* done with a queued intro is in Outbox.                                  *)
(***************************************************************************)
EXTENDS Naturals, FiniteSets

CONSTANTS
  Attendee,          \* participants of the event
  Sharing,           \* those of them with one handset between them
  Manager,           \* requests of staff that may be under way at once
  MaxRequests,       \* bound: launches and starts
  MaxChanges,        \* bound: changes of attendance, consent and phones
  MaxLaunchFaults    \* bound: requests that fail or die

ASSUME CampaignAssumption ==
  /\ IsFiniteSet(Attendee) /\ Sharing \subseteq Attendee
  /\ MaxRequests \in Nat /\ MaxChanges \in Nat /\ MaxLaunchFaults \in Nat

VARIABLES
  eventStatus,  \* events.status
  present,      \* attendees marked as present
  optedIn,      \* participants who agreed to be asked on WhatsApp
  standing,     \* feedback_campaigns.status, none before the row exists
  chat,         \* attendee -> the conversation of this campaign
  intro,        \* attendee -> the outbox row of the intro
  elsewhere,    \* attendees whose phone is in a conversation of another campaign
  ask,          \* manager -> the request under way
  reported,     \* attendees named in an audit entry about a phone conflict
  effort        \* what the bounds count

campaignVars ==
  <<eventStatus, present, optedIn, standing, chat, intro, elsewhere, ask, reported, effort>>

NoRequest ==
  [step |-> "idle", kind |-> "launch", sees |-> {}, todo |-> {}, clash |-> {}]

\* An event is created, attended and only then launched.
CampaignInit ==
  /\ eventStatus = "scheduled" /\ present = Attendee /\ optedIn = Attendee
  /\ standing = "none"
  /\ chat = [a \in Attendee |-> "none"]
  /\ intro = [a \in Attendee |-> "none"]
  /\ elsewhere = {} /\ reported = {}
  /\ ask = [m \in Manager |-> NoRequest]
  /\ effort = [requests |-> 0, changes |-> 0, faults |-> 0]

\* listEligibleAttendeesForEvent.
Eligible == present \cap optedIn

\* The attendees with the phone of a.
SamePhone(a) == IF a \in Sharing THEN Sharing ELSE {a}

\* The partial unique index on the phones of open conversations.
PhoneTaken(a) == a \in elsewhere \/ (\E b \in SamePhone(a) : chat[b] = "open")

Invited == {a \in Attendee : chat[a] # "none"}

Running == {"launched", "paused"}

Spend(what) == effort' = [effort EXCEPT ![what] = @ + 1]

SetAsk(m, r) == ask' = [ask EXCEPT ![m] = r]

-----------------------------------------------------------------------------
\* launch, before any write.  An event that is finished stays so.
ReadEvent(m) ==
  /\ ask[m].step = "idle" /\ effort.requests < MaxRequests
  /\ eventStatus = "finished"
  /\ SetAsk(m, [NoRequest EXCEPT !.step = "looks", !.sees = Eligible])
  /\ Spend("requests")
  /\ UNCHANGED <<eventStatus, present, optedIn, standing, chat, intro, elsewhere, reported>>

FindCampaign(m) ==
  /\ ask[m].step = "looks"
  /\ \/ /\ standing = "none" /\ ask[m].sees # {}
        /\ SetAsk(m, [ask[m] EXCEPT !.step = "creates"])
     \/ /\ standing \in Running
        /\ SetAsk(m, [ask[m] EXCEPT !.step = "invites", !.todo = @ \cup ask[m].sees])
     \/ /\ standing = "closed" \/ (standing = "none" /\ ask[m].sees = {})
        /\ SetAsk(m, NoRequest)
  /\ UNCHANGED <<eventStatus, present, optedIn, standing, chat, intro, elsewhere, reported, effort>>

\* The event has at most one campaign: the second of two launches fails.
CreateCampaign(m) ==
  /\ ask[m].step = "creates"
  /\ IF standing = "none"
       THEN /\ standing' = "launched"
            /\ SetAsk(m, [ask[m] EXCEPT !.step = "invites", !.todo = ask[m].sees])
       ELSE SetAsk(m, NoRequest) /\ UNCHANGED standing
  /\ UNCHANGED <<eventStatus, present, optedIn, chat, intro, elsewhere, reported, effort>>

\* startConversation, for one attendee who was added or became eligible late.
StartOne(m, a) ==
  /\ ask[m].step = "idle" /\ effort.requests < MaxRequests
  /\ standing \in Running /\ a \in Eligible
  /\ SetAsk(m, [NoRequest EXCEPT !.step = "invites", !.kind = "start",
                                  !.sees = {a}, !.todo = {a}])
  /\ Spend("requests")
  /\ UNCHANGED <<eventStatus, present, optedIn, standing, chat, intro, elsewhere, reported>>

\* Mutant: the first phone in use ends the launch.
ClashThrown(r, a) == NoRequest

\* A launch goes on after a phone in use, and remembers whose it was.
Clash(r, a) ==
  IF r.kind = "launch"
    THEN [r EXCEPT !.todo = @ \ {a}, !.clash = @ \cup {a}]
    ELSE NoRequest

\* Mutant: the status is what the launch read before.
OpenUnlocked == TRUE

\* The status as it is under the row lock of the campaign.
NotClosed == standing # "closed"

\* ensureConversationAndIntro, one transaction per attendee: a conversation of this
\* campaign is found again by its id, whatever became of it.
Invite(m, a) ==
  /\ ask[m].step = "invites" /\ a \in ask[m].todo
  /\ \/ ~NotClosed /\ SetAsk(m, NoRequest) /\ UNCHANGED <<chat, intro>>
     \/ /\ NotClosed /\ chat[a] = "none" /\ PhoneTaken(a)
        /\ SetAsk(m, Clash(ask[m], a)) /\ UNCHANGED <<chat, intro>>
     \/ /\ NotClosed /\ chat[a] = "none" /\ ~PhoneTaken(a)
        /\ chat' = [chat EXCEPT ![a] = "open"]
        /\ intro' = [intro EXCEPT ![a] = "queued"]
        /\ SetAsk(m, [ask[m] EXCEPT !.step = "wakes", !.todo = @ \ {a}])
     \/ /\ NotClosed /\ chat[a] = "open"
        /\ SetAsk(m, [ask[m] EXCEPT !.step = "wakes", !.todo = @ \ {a}])
        /\ UNCHANGED <<chat, intro>>
     \/ /\ NotClosed /\ chat[a] = "ended"
        /\ SetAsk(m, [ask[m] EXCEPT !.todo = @ \ {a}])
        /\ UNCHANGED <<chat, intro>>
  /\ UNCHANGED <<eventStatus, present, optedIn, standing, elsewhere, reported, effort>>

\* ensureQueued, after the commit.
WakeUp(m) ==
  /\ ask[m].step = "wakes"
  /\ SetAsk(m, [ask[m] EXCEPT !.step = "invites"])
  /\ UNCHANGED <<eventStatus, present, optedIn, standing, chat, intro, elsewhere, reported, effort>>

\* The end of a request: the conflicts of a launch go into one audit entry.
Report(m) ==
  /\ ask[m].step = "invites" /\ ask[m].todo = {}
  /\ reported' = reported \cup ask[m].clash
  /\ SetAsk(m, NoRequest)
  /\ UNCHANGED <<eventStatus, present, optedIn, standing, chat, intro, elsewhere, effort>>

\* A query or the queue refuses, or the process dies, between two transactions.
LaunchFails(m) ==
  /\ ask[m].step # "idle" /\ effort.faults < MaxLaunchFaults
  /\ SetAsk(m, NoRequest) /\ Spend("faults")
  /\ UNCHANGED <<eventStatus, present, optedIn, standing, chat, intro, elsewhere, reported>>

-----------------------------------------------------------------------------
\* transitionStatus, under the row lock of the campaign.
Transition(to) ==
  /\ NotClosed /\ standing # "none" /\ standing # to
  /\ standing' = to
  /\ UNCHANGED <<eventStatus, present, optedIn, chat, intro, elsewhere, ask, reported, effort>>

\* close cancels what has not been handed to the provider; an acknowledgement of a
\* STOP is not an intro and stays.
CloseCampaign ==
  /\ standing \in Running
  /\ standing' = "closed"
  /\ intro' = [a \in Attendee |-> IF intro[a] = "queued" THEN "cancelled" ELSE intro[a]]
  /\ UNCHANGED <<eventStatus, present, optedIn, chat, elsewhere, ask, reported, effort>>

\* A dispatcher takes the intro across the provider boundary, or refuses it.
DispatchIntro(a) ==
  /\ standing = "launched" /\ intro[a] = "queued"
  /\ \E outcome \in {"sent", "cancelled"} :
       /\ outcome = "sent" => a \in optedIn
       /\ intro' = [intro EXCEPT ![a] = outcome]
  /\ UNCHANGED <<eventStatus, present, optedIn, standing, chat, elsewhere, ask, reported, effort>>

\* A STOP, which withdraws the consent, staff or silence end the conversation, and
\* with it what is queued.
EndConversation(a, stop) ==
  /\ chat[a] = "open"
  /\ chat' = [chat EXCEPT ![a] = "ended"]
  /\ intro' = [intro EXCEPT ![a] = IF @ = "queued" THEN "cancelled" ELSE @]
  /\ optedIn' = IF stop THEN optedIn \ {a} ELSE optedIn
  /\ UNCHANGED <<eventStatus, present, standing, elsewhere, ask, reported, effort>>

\* transitionStatus of the event.
EventMoves ==
  /\ eventStatus = "scheduled" /\ eventStatus' \in {"finished", "cancelled"}
  /\ UNCHANGED <<present, optedIn, standing, chat, intro, elsewhere, ask, reported, effort>>

Toggle(s, a) == IF a \in s THEN s \ {a} ELSE s \cup {a}

\* updateAttendee: corrections are allowed on a finished event.
CorrectAttendance(a) ==
  /\ eventStatus # "cancelled" /\ effort.changes < MaxChanges
  /\ present' = Toggle(present, a) /\ Spend("changes")
  /\ UNCHANGED <<eventStatus, optedIn, standing, chat, intro, elsewhere, ask, reported>>

ChangeOptIn(a) ==
  /\ effort.changes < MaxChanges
  /\ optedIn' = Toggle(optedIn, a) /\ Spend("changes")
  /\ UNCHANGED <<eventStatus, present, standing, chat, intro, elsewhere, ask, reported>>

\* A conversation of another campaign begins or ends on the phone.
PhoneChanges(a) ==
  /\ effort.changes < MaxChanges
  /\ \/ a \in elsewhere /\ elsewhere' = elsewhere \ SamePhone(a)
     \/ ~PhoneTaken(a) /\ elsewhere' = elsewhere \cup SamePhone(a)
  /\ Spend("changes")
  /\ UNCHANGED <<eventStatus, present, optedIn, standing, chat, intro, ask, reported>>

CampaignNext ==
  \/ \E m \in Manager :
       \/ ReadEvent(m) \/ FindCampaign(m) \/ CreateCampaign(m)
       \/ (\E a \in Attendee : StartOne(m, a) \/ Invite(m, a))
       \/ WakeUp(m) \/ Report(m) \/ LaunchFails(m)
  \/ \E to \in Running : Transition(to)
  \/ CloseCampaign
  \/ \E a \in Attendee :
       \/ DispatchIntro(a) \/ (\E stop \in BOOLEAN : EndConversation(a, stop))
       \/ CorrectAttendance(a) \/ ChangeOptIn(a) \/ PhoneChanges(a)
  \/ EventMoves

CampaignSpec == CampaignInit /\ [][CampaignNext]_campaignVars

-----------------------------------------------------------------------------
\* Every variable keeps its type.
CampaignTypeOK ==
  /\ eventStatus \in {"scheduled", "finished", "cancelled"}
  /\ standing \in {"none", "launched", "paused", "closed"}
  /\ chat \in [Attendee -> {"none", "open", "ended"}]
  /\ intro \in [Attendee -> {"none", "queued", "sent", "cancelled"}]
  /\ \A s \in {present, optedIn, elsewhere, reported} : s \subseteq Attendee
  /\ \A m \in Manager :
       /\ ask[m].step \in {"idle", "looks", "creates", "invites", "wakes"}
       /\ ask[m].kind \in {"launch", "start"}
       /\ ask[m].todo \cup ask[m].clash \subseteq ask[m].sees
  /\ effort.requests <= MaxRequests /\ effort.changes <= MaxChanges
  /\ effort.faults <= MaxLaunchFaults

\* The kill switch is final whatever launches, starts and resumes were under way when
\* it was thrown: the campaign stays closed, nobody is invited any more, and no intro
\* is left, or comes back, in the queue.
CloseIsTheEnd ==
  [][/\ standing = "closed" => standing' = "closed" /\ Invited' = Invited
     /\ standing' = "closed" => \A a \in Attendee : intro'[a] # "queued"]_campaignVars

\* A launch that no close and no failure stops leaves nobody out in silence: each of the
\* attendees it read has a conversation in the end, or is reported.  A phone in use
\* costs nobody else the intro.
LaunchAccounts ==
  [][\A m \in Manager :
       ask[m].kind = "launch" /\ ask[m].step = "invites" /\ ask'[m].step = "idle" =>
         \/ standing = "closed" \/ effort'.faults > effort.faults
         \/ ask[m].sees \subseteq Invited' \cup reported']_campaignVars
=============================================================================
