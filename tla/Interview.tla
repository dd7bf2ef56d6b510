----------------------------- MODULE Interview -----------------------------
(***************************************************************************)
(* The questionnaire of one conversation over many extraction runs: what   *)
(* the respondent said, the goals, the answers and what operators decided  *)
(* about them.  A run reads a snapshot, pays for the model, plans a turn   *)
(* against the snapshot and commits in one transaction, while messages     *)
(* arrive and operators correct, withdraw and record answers.              *)
(*                                                                         *)
(* One person is asked about, so a directed answer is there or not; notes  *)
(* and the wording of replies are left out.  What the model returns is     *)
(* chosen freely.  The work revision, the control stamp and the lifecycle  *)
(* are only compared with a run's snapshot: `moved` is the outcome.  The   *)
(* epoch and lock of a run are in Reconcile; a run that lost them is one   *)
(* that commits nothing (LoseRun).                                         *)
(***************************************************************************)
EXTENDS Integers, FiniteSets, FiniteSetsExt

CONSTANTS
  NGoals,          \* goals of the question set, in its order
  Scored,          \* goals answered by a number
  Liking, Avoid,   \* directed goals that contradict each other
  CalmReplies,     \* FEEDBACK_CALM_REPLIES_BEFORE_HOSTILITY_STOP
  MaxVerdicts,     \* bound: goals of which one proposal says something
  MaxTestimony,    \* bound: messages of the respondent
  MaxDecisions,    \* bound: decisions of operators
  MaxLostRuns      \* bound: runs that die or whose generation fails

Goal == 1..NGoals

ASSUME InterviewAssumption ==
  /\ NGoals \in Nat \ {0} /\ CalmReplies \in Nat
  /\ Scored \subseteq Goal /\ Liking \subseteq Goal /\ Avoid \subseteq Goal
  /\ Scored \cap (Liking \cup Avoid) = {} /\ Liking \cap Avoid = {}
  /\ Goal = Scored \cup Liking \cup Avoid
  /\ {MaxVerdicts, MaxTestimony, MaxDecisions, MaxLostRuns} \subseteq Nat

VARIABLES
  arrived,         \* messages recorded by the ingress
  heard,           \* those in the transcript
  cursor,          \* those a run has read
  goals,           \* goal -> pending, asked, skipped, answered
  stored,          \* goal -> stored answer, 0: none
  corrected,       \* goals whose stored answer carries a correction
  staffed,         \* goals whose stored answer an operator recorded
  withdrawn,       \* goals whose slot has a tombstone
  control,         \* bot, awaiting (control.mode is still bot), human
  ended,           \* open, completed, declined, staff
  hostileTurns,    \* runs that were met with hostility
  question,        \* the goal the last message of the bot asks, 0: none
  turn,            \* the extraction run
  paid,            \* runs that entered the provider since the work last moved
  spent            \* decisions and lost runs so far

interviewVars == <<arrived, heard, cursor, goals, stored, corrected, staffed,
                   withdrawn, control, ended, hostileTurns, question, turn, paid, spent>>

Status == {"pending", "asked", "skipped", "answered"}

Value(g) == IF g \in Scored THEN 1..2 ELSE {1}

\* contradictedPostEventFeedbackQuestionKeys.
Contradicted(g) == IF g \in Avoid THEN Liking ELSE IF g \in Liking THEN Avoid ELSE {}

NoTurn == [step |-> "none"]

InterviewInit ==
  /\ arrived = 0 /\ heard = 0 /\ cursor = 0
  /\ goals = [g \in Goal |-> "pending"]
  /\ stored = [g \in Goal |-> 0] /\ corrected = {} /\ staffed = {} /\ withdrawn = {}
  /\ control = "bot" /\ ended = "open" /\ hostileTurns = 0 /\ question = 0
  /\ turn = NoTurn /\ paid = 0
  /\ spent = [decisions |-> 0, lost |-> 0]

\* A new work revision, control stamp or lifecycle: the snapshot is out of date.
Moves ==
  /\ turn' = IF turn = NoTurn THEN NoTurn ELSE [turn EXCEPT !.moved = TRUE]
  /\ paid' = 0

-----------------------------------------------------------------------------
(* The respondent and the operators.                                       *)

ArriveTestimony ==
  /\ arrived < MaxTestimony /\ ended = "open"
  /\ arrived' = arrived + 1
  /\ UNCHANGED <<heard, cursor, goals, stored, corrected, staffed, withdrawn, control, ended,
                 hostileTurns, question, turn, paid, spent>>

HearTestimony ==
  /\ heard < arrived /\ ended = "open"
  /\ heard' = heard + 1
  /\ question' = 0
  /\ Moves
  /\ UNCHANGED <<arrived, cursor, goals, stored, corrected, staffed, withdrawn, control, ended,
                 hostileTurns, spent>>

Decision ==
  /\ spent.decisions < MaxDecisions
  /\ spent' = [spent EXCEPT !.decisions = @ + 1]

TakeOverInterview ==
  /\ control # "human" /\ ended = "open" /\ Decision
  /\ control' = "human"
  /\ Moves
  /\ UNCHANGED <<arrived, heard, cursor, goals, stored, corrected, staffed, withdrawn, ended,
                 hostileTurns, question>>

ResumeInterview ==
  /\ control = "human" /\ ended = "open" /\ Decision
  /\ control' = "bot"
  /\ Moves
  /\ UNCHANGED <<arrived, heard, cursor, goals, stored, corrected, staffed, withdrawn, ended,
                 hostileTurns, question>>

\* Staff close, STOP or expiry.
CloseInterview ==
  /\ ended = "open" /\ Decision
  /\ ended' = "staff"
  /\ Moves
  /\ UNCHANGED <<arrived, heard, cursor, goals, stored, corrected, staffed, withdrawn, control,
                 hostileTurns, question>>

\* Answers are decided about under the conversation lock, whatever the lifecycle,
\* and leave the conversation alone.
Rules ==
  /\ Decision
  /\ UNCHANGED <<arrived, heard, cursor, goals, control, ended, hostileTurns, question,
                 turn, paid>>

\* correctAnswerValue.
CorrectAnswer(g, v) ==
  /\ g \in Scored /\ stored[g] \notin {0, v}
  /\ stored' = [stored EXCEPT ![g] = v]
  /\ corrected' = corrected \cup {g}
  /\ Rules /\ UNCHANGED <<staffed, withdrawn>>

\* withdrawAnswer.
WithdrawAnswer(g) ==
  /\ stored[g] # 0
  /\ stored' = [stored EXCEPT ![g] = 0]
  /\ corrected' = corrected \ {g} /\ staffed' = staffed \ {g}
  /\ withdrawn' = withdrawn \cup {g}
  /\ Rules

\* addStaffAnswer.
RecordAnswer(g) ==
  LET superseded == {h \in Contradicted(g) : stored[h] # 0} IN
  /\ g \notin Scored /\ stored[g] = 0
  /\ stored' = [h \in Goal |-> IF h = g THEN 1 ELSE IF h \in superseded THEN 0 ELSE stored[h]]
  /\ staffed' = (staffed \ superseded) \cup {g}
  /\ withdrawn' = (withdrawn \cup superseded) \ {g}
  /\ Rules /\ UNCHANGED corrected

-----------------------------------------------------------------------------
(* A run.                                                                  *)

\* skipExtractOutcome and the rest of admit, the read of the accepted answers,
\* and assertProviderEntry, which refuses a snapshot that misses a message.
AdmitRun ==
  /\ turn = NoTurn /\ ended = "open" /\ control = "bot" /\ cursor < heard
  /\ arrived = heard
  /\ turn' = [step |-> "asking", moved |-> FALSE, upto |-> heard,
              known |-> stored, frozen |-> corrected]
  /\ paid' = paid + 1
  /\ UNCHANGED <<arrived, heard, cursor, goals, stored, corrected, staffed, withdrawn, control,
                 ended, hostileTurns, question, spent>>

\* The worker dies, loses its claim, or the generation fails (also because a
\* handoff would discard testimony): the job is tried again.
LoseRun ==
  /\ turn # NoTurn /\ spent.lost < MaxLostRuns
  /\ spent' = [spent EXCEPT !.lost = @ + 1]
  /\ turn' = NoTurn
  /\ UNCHANGED <<arrived, heard, cursor, goals, stored, corrected, staffed, withdrawn, control,
                 ended, hostileTurns, question, paid>>

\* What the model says of the goals: which are answered (0 stands for an answer that
\* validation refuses) and which declined; one refusal may decline them all.
Verdict ==
  {v \in [answers : UNION {[K -> 0..2] : K \in SUBSET Goal}, declined : SUBSET Goal] :
     LET said == DOMAIN v.answers IN
     /\ \A g \in said : v.answers[g] \in Value(g) \cup {0}
     /\ said \cap v.declined = {}
     /\ Cardinality(said \cup v.declined) <= MaxVerdicts \/ v.declined = Goal}

\* What the classifier and the model say of the respondent.
Mood == [signal : {"none", "safety", "urgent"}, handoff : BOOLEAN, hostile : BOOLEAN]

\* validateAnswers: a value already known is a repetition, a corrected answer is
\* frozen, otherwise the newest testimony wins.
Valid(v) ==
  {g \in DOMAIN v.answers \ turn.frozen : v.answers[g] \notin {0, turn.known[g]}}

Repeats(v) == \E g \in DOMAIN v.answers : v.answers[g] # 0 /\ v.answers[g] = turn.known[g]

\* resolveGoalStatuses over validateSkippedGoals.
Recorded(v) ==
  [g \in Goal |-> IF turn.known[g] # 0 \/ g \in Valid(v) THEN "answered"
                  ELSE IF g \in v.declined THEN "skipped" ELSE "none"]

\* applyUpdateGoalStatuses with canTransitionGoalStatus: only up, and from skipped
\* back to asked.
Rank == [none |-> -1, pending |-> 0, asked |-> 1, skipped |-> 2, answered |-> 3]

Merged(updates) ==
  [g \in Goal |-> IF \/ Rank[updates[g]] > Rank[goals[g]]
                     \/ goals[g] = "skipped" /\ updates[g] = "asked"
                  THEN updates[g] ELSE goals[g]]

\* Mutant: a question that was asked is no longer owed.
OpenUnasked(updates) ==
  {g \in Goal : (IF updates[g] = "none" THEN goals[g] ELSE updates[g]) = "pending"}

\* nextOpenGoal: by the status of the update, whether or not it would apply.
OpenGoals(updates) ==
  {g \in Goal : (IF updates[g] = "none" THEN goals[g] ELSE updates[g]) \in {"pending", "asked"}}

FirstOf(S) == IF S = {} THEN 0 ELSE Min(S)

\* deriveTurnPolicyFacts.
Facts(v, m) ==
  LET hostile == m.hostile /\ m.signal = "none"
      anything == Valid(v) # {} \/ \E g \in Goal : goals[g] = "answered"
  IN  [recorded |-> Recorded(v),
       anything |-> anything,
       hostile |-> hostile,
       stopping |-> hostile /\ hostileTurns + 1 > CalmReplies,
       handoff |-> m.handoff,
       duty |-> m.handoff \/ m.signal = "urgent",
       calm |-> m.signal = "none",
       closing |-> OpenGoals(Recorded(v)) = {} /\ m.signal = "none" /\ (hostile => anything)]

\* A reply: whether there is one, the goal it asks, whether the model wrote it, and
\* whether the model wanted to go on with a goal.
NoReply(next) == [sent |-> FALSE, asks |-> 0, written |-> FALSE, goesOn |-> next # 0]
Fixed(g, next) == [sent |-> TRUE, asks |-> g, written |-> FALSE, goesOn |-> next # 0]

\* resolveOutbound and chooseOutbound, the first rule that applies, for the goal the
\* model wants next and the words it proposes.
Reply(v, m, f, next, words) ==
  LET open == FirstOf(OpenGoals(f.recorded))
      refused == FirstOf({g \in DOMAIN v.answers : v.answers[g] = 0} \cap OpenGoals(f.recorded))
      progress == DOMAIN v.answers # {} \/ \E g \in Goal : f.recorded[g] = "skipped"
      strays == /\ open # 0 /\ f.calm
                /\ \/ next \notin {0, open}
                   \/ next = 0 /\ words # "none" /\ progress
  IN  IF f.stopping \/ m.handoff THEN Fixed(0, next)
      ELSE IF m.signal = "urgent" THEN NoReply(next)
      ELSE IF f.closing /\ f.anything THEN Fixed(0, next)
      ELSE IF refused # 0 THEN Fixed(refused, next)
      ELSE IF strays THEN Fixed(open, next)
      ELSE IF words # "none"
      THEN [sent |-> TRUE, written |-> TRUE, goesOn |-> next # 0,
            asks |-> IF words = "question" THEN next ELSE 0]
      ELSE IF f.closing THEN Fixed(0, next) ELSE NoReply(next)

Replies(v, m, f) ==
  {Reply(v, m, f, next, words) :
     next \in {0} \cup OpenGoals([g \in Goal |-> "none"]), words \in {"none", "plain", "question"}}

\* withAskedGoal: an answered goal stays answered.
Asked(updates, g) ==
  IF g = 0 \/ updates[g] = "answered" THEN updates ELSE [updates EXCEPT ![g] = "asked"]

\* isWithdrawal: words are sent, nothing is recorded and nothing asked, although the
\* model wanted to go on.
Withdraws(v, f, r, sent) ==
  /\ sent /\ r.asks = 0 /\ r.goesOn
  /\ Valid(v) = {} /\ ~Repeats(v)
  /\ ~f.duty /\ ~f.stopping /\ f.calm

\* decideExtractionTurn, with the reply or without one.
Decide(v, f, r, sent) ==
  LET asking == Asked(f.recorded, IF sent THEN r.asks ELSE 0)
      withdrew == Withdraws(v, f, r, sent)
      final == [g \in Goal |-> IF withdrew /\ g \in OpenGoals(asking) THEN "skipped" ELSE asking[g]]
      closes == /\ OpenGoals(final) = {} /\ f.calm
                /\ ~f.duty /\ ~withdrew /\ ~f.stopping /\ (f.hostile => f.anything)
  IN  [goals |-> Merged(final),
       waits |-> f.duty \/ withdrew \/ f.stopping,
       ends |-> IF ~closes THEN "open" ELSE IF f.anything THEN "completed" ELSE "declined"]

\* FeedbackParticipantReplyPlanner.plan.  A reply the model wrote is rewritten by
\* another paid call, refused when the snapshot is out of date.  The reply is then
\* sent, dropped (the rewrite failed, both wordings of the question are spent) or
\* withheld by the review (no consent; always when the work moved).
Planned(v, f, r, fate) ==
  LET superseded == r.sent /\ r.written /\ (turn.moved \/ arrived > turn.upto)
      candidate == r.sent /\ ~superseded /\ (fate = "dropped" => f.stopping)
      withheld == candidate /\ (turn.moved \/ fate = "withheld")
      sent == candidate /\ ~withheld
      decided == Decide(v, f, r, sent)
  IN  [step |-> "planned", moved |-> turn.moved, upto |-> turn.upto, known |-> turn.known,
       writes |-> [g \in Valid(v) |-> v.answers[g]],
       sent |-> sent, asks |-> IF sent THEN r.asks ELSE 0,
       decided |-> IF (f.closing /\ withheld) \/ superseded
                   THEN [decided EXCEPT !.ends = "open"] ELSE decided,
       silent |-> Decide(v, f, r, FALSE),
       fresh |-> (~f.closing /\ ~f.handoff /\ ~f.stopping) \/ decided.ends # "open",
       hostile |-> f.hostile, superseded |-> superseded]

Plans(v, m) ==
  LET f == Facts(v, m)
  IN  UNION {{Planned(v, f, r, fate) : fate \in IF r.sent THEN {"sent", "dropped", "withheld"}
                                                        ELSE {"sent"}} : r \in Replies(v, m, f)}

PlanTurn ==
  /\ turn.step = "asking"
  /\ turn' \in UNION {Plans(v, m) : v \in Verdict, m \in Mood}
  /\ UNCHANGED <<arrived, heard, cursor, goals, stored, corrected, staffed, withdrawn, control,
                 ended, hostileTurns, question, paid, spent>>

\* Mutants of Written: operators are overruled; what is contradicted stays.
WrittenAnyway(writes) ==
  [g \in Goal |-> IF g \in DOMAIN writes THEN writes[g]
                  ELSE IF DOMAIN writes \cap Contradicted(g) # {} THEN 0 ELSE stored[g]]
WrittenBeside(writes) ==
  [g \in Goal |-> IF g \notin DOMAIN writes \ corrected THEN stored[g]
                  ELSE IF g \in withdrawn THEN 0 ELSE writes[g]]

\* FeedbackExtractionResultsWriter.write in the order of the goals: what a written
\* answer contradicts is deleted first, then the answer is refused by a tombstone
\* or a correction.
Written(writes) ==
  LET later(g) == {h \in DOMAIN writes \cap Contradicted(g) : h > g \/ g \notin DOMAIN writes}
  IN  [g \in Goal |->
         IF g \in corrected THEN stored[g]
         ELSE IF later(g) # {} THEN 0
         ELSE IF g \in DOMAIN writes THEN IF g \in withdrawn THEN 0 ELSE writes[g]
         ELSE stored[g]]

\* commitOn in one transaction under the conversation lock.  A run whose snapshot is
\* out of date keeps its answers and goals, sends nothing and leaves the cursor; one
\* overtaken by a message that is only recorded says nothing and does not close.
CommitRun ==
  LET overtaken == turn.sent /\ turn.fresh /\ arrived > turn.upto
      silenced == turn.moved \/ overtaken
      decision == IF ~silenced THEN turn.decided
                  ELSE IF turn.decided.ends # "open" THEN [turn.silent EXCEPT !.ends = "open"]
                  ELSE turn.silent
      applies == ~turn.moved /\ ~turn.superseded
  IN
  /\ turn.step = "planned"
  /\ stored' = Written(turn.writes)
  /\ staffed' = {g \in staffed \ DOMAIN turn.writes : stored'[g] # 0}
  /\ goals' = decision.goals
  /\ hostileTurns' = IF turn.hostile THEN Min({hostileTurns + 1, CalmReplies + 1}) ELSE hostileTurns
  /\ question' = IF turn.sent /\ ~silenced THEN turn.asks ELSE question
  /\ cursor' = IF applies THEN turn.upto ELSE cursor
  /\ ended' = IF applies THEN decision.ends ELSE ended
  /\ control' = IF applies /\ decision.ends = "open" /\ decision.waits THEN "awaiting" ELSE control
  /\ turn' = NoTurn
  /\ UNCHANGED <<arrived, heard, corrected, withdrawn, paid, spent>>

\* The reply does not fit into the transcript: the transaction is rolled back ...
OverflowRun ==
  /\ turn.step = "planned" /\ turn.sent /\ ~turn.moved
  /\ turn' = [step |-> "braking", moved |-> FALSE]
  /\ UNCHANGED <<arrived, heard, cursor, goals, stored, corrected, staffed, withdrawn, control,
                 ended, hostileTurns, question, paid, spent>>

\* Mutant: the bot is not stopped.
BrakeNothing ==
  /\ turn.step = "braking"
  /\ turn' = NoTurn
  /\ UNCHANGED <<arrived, heard, cursor, goals, stored, corrected, staffed, withdrawn, control,
                 ended, hostileTurns, question, paid, spent>>

\* ... and brakeAfterCapacity stops the bot in another one, unless the work moved.
BrakeRun ==
  /\ turn.step = "braking"
  /\ control' = IF turn.moved THEN control ELSE "awaiting"
  /\ turn' = NoTurn
  /\ UNCHANGED <<arrived, heard, cursor, goals, stored, corrected, staffed, withdrawn, ended,
                 hostileTurns, question, paid, spent>>

InterviewNext ==
  \/ ArriveTestimony \/ HearTestimony
  \/ TakeOverInterview \/ ResumeInterview \/ CloseInterview
  \/ \E g \in Goal : \/ \E v \in Value(g) : CorrectAnswer(g, v)
                    \/ WithdrawAnswer(g) \/ RecordAnswer(g)
  \/ AdmitRun \/ LoseRun
  \/ PlanTurn \/ CommitRun \/ OverflowRun \/ BrakeRun

InterviewSpec == InterviewInit /\ [][InterviewNext]_interviewVars

-----------------------------------------------------------------------------
(* Properties.                                                             *)

InterviewTypeOK ==
  /\ {arrived, heard, cursor} \subseteq 0..MaxTestimony
  /\ cursor <= heard /\ heard <= arrived
  /\ goals \in [Goal -> Status]
  /\ \A g \in Goal : stored[g] \in Value(g) \cup {0}
  /\ corrected \subseteq {g \in Scored : stored[g] # 0} /\ withdrawn \subseteq Goal
  /\ staffed \subseteq {g \in Goal \ Scored : stored[g] # 0}
  /\ control \in {"bot", "awaiting", "human"}
  /\ ended \in {"open", "completed", "declined", "staff"}
  /\ hostileTurns \in 0..(CalmReplies + 1) /\ question \in Goal \cup {0}
  /\ turn # NoTurn => turn.step \in {"asking", "planned", "braking"} /\ turn.moved \in BOOLEAN
  /\ paid \in 0..(1 + MaxLostRuns)
  /\ spent \in [decisions : 0..MaxDecisions, lost : 0..MaxLostRuns]

\* What an operator ruled on stays ruled: no run changes a corrected answer or fills a
\* slot an operator emptied, also when it read the answers before the decision.
OperatorsDecide ==
  [][spent'.decisions = spent.decisions =>
       \A g \in Goal : /\ g \in corrected => stored'[g] = stored[g]
                      /\ g \in withdrawn => stored'[g] = 0]_interviewVars

\* A person is never both liked and avoided, however runs and operators alternate.
NoContradiction ==
  \A g \in Goal, h \in Goal : h \in Contradicted(g) => stored[g] = 0 \/ stored[h] = 0

\* The bot closes a conversation only when it owes nothing: every goal is settled, every
\* message of the transcript was read, it says thank you only if something was answered,
\* and its last words ask nothing (but for a goal whose answer the run found on record).
CloseIsEarned ==
  [][ended = "open" /\ ended' \in {"completed", "declined"} =>
       /\ \A g \in Goal : goals'[g] \in {"skipped", "answered"}
       /\ cursor' = heard' /\ (question' = 0 \/ turn.known[question'] # 0)
       /\ ended' = "completed" => \E g \in Goal : goals'[g] = "answered"]_interviewVars

\* The model is paid once for one state of the conversation: a run ends it, stops the bot,
\* or waits for something new.  Only a run that was lost is paid again.
PaidOnce == paid <= 1 + spent.lost

\* What an operator recorded is not progress of the questionnaire: a goal becomes
\* answered only by a run that accepted an answer of the respondent to it.
RespondentAnswers ==
  [][\A g \in Goal : goals[g] # "answered" /\ goals'[g] = "answered" =>
                    g \in DOMAIN turn.writes]_interviewVars

\* A run takes an answer away only for the contradicting answer it stores.
AnswersAreReplaced ==
  [][spent'.decisions = spent.decisions =>
       \A g \in Goal : stored[g] # 0 /\ stored'[g] = 0 =>
                         \E h \in Contradicted(g) : stored'[h] # 0]_interviewVars
=============================================================================
