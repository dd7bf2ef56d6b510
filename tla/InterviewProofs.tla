--------------------------- MODULE InterviewProofs ---------------------------
(***************************************************************************)
(* The questionnaire, for any set of goals and any number of messages,     *)
(* decisions and lost runs.                                                *)
(***************************************************************************)
EXTENDS Interview, FiniteSetTheorems, WellFoundedInduction, TLAPS

-----------------------------------------------------------------------------
(* Types of the run.                                                       *)

Closings == {"open", "completed", "declined"}

TurnDecision == [goals : [Goal -> Status], waits : BOOLEAN, ends : Closings]

AskingRun ==
  [step : {"asking"}, moved : BOOLEAN, upto : Nat, known : [Goal -> 0..2], frozen : SUBSET Goal]

Writes == {w \in UNION {[K -> 0..2] : K \in SUBSET Goal} : \A g \in DOMAIN w : w[g] \in Value(g)}

PlannedRun ==
  [step : {"planned"}, moved : BOOLEAN, upto : Nat, known : [Goal -> 0..2], writes : Writes,
   sent : BOOLEAN, asks : Goal \cup {0}, decided : TurnDecision, silent : TurnDecision,
   fresh : BOOLEAN, hostile : BOOLEAN, superseded : BOOLEAN]

BrakingRun == [step : {"braking"}, moved : BOOLEAN]

Runs == {NoTurn} \cup AskingRun \cup PlannedRun \cup BrakingRun

FactsOfTurn ==
  [recorded : [Goal -> {"none", "skipped", "answered"}], anything : BOOLEAN, hostile : BOOLEAN,
   stopping : BOOLEAN, handoff : BOOLEAN, duty : BOOLEAN, calm : BOOLEAN, closing : BOOLEAN]

ReplyOfTurn == [sent : BOOLEAN, asks : Goal \cup {0}, written : BOOLEAN, goesOn : BOOLEAN]

-----------------------------------------------------------------------------
(* Operators.                                                              *)

\* The first of a non-empty set of goals is one of them.
LEMMA FirstIsMember ==
  ASSUME NEW S \in SUBSET Goal, S # {}
  PROVE  FirstOf(S) \in S
<1>0. Goal \subseteq Nat
  BY InterviewAssumption DEF Goal
<1>1. PICK x \in S : \A y \in S : <<y, x>> \notin OpToRel(<, Nat)
  BY <1>0, NatLessThanWellFounded, WFMin, Zenon
<1>2. \A y \in S : ~(y < x)
  BY <1>0, <1>1 DEF OpToRel
<1>3. \A y \in S : x <= y
  BY <1>0, <1>2
<1> QED
  BY <1>3 DEF Min, FirstOf

LEMMA FirstTyped ==
  ASSUME NEW S \in SUBSET Goal
  PROVE  FirstOf(S) \in S \cup {0}
BY FirstIsMember DEF FirstOf

\* Contradiction is mutual, and never between a goal and itself or a number.
LEMMA ContradictionIsMutual ==
  ASSUME NEW g \in Goal, NEW h \in Contradicted(g)
  PROVE  h \in Goal /\ g \in Contradicted(h) /\ h # g /\ g \notin Scored /\ h \notin Scored
BY InterviewAssumption DEF Contradicted

\* A goal of which a contradicting answer is written later, or alone.
Overwritten(writes, g) ==
  \E h \in DOMAIN writes \cap Contradicted(g) : h > g \/ g \notin DOMAIN writes

\* What a run writes of one goal.
LEMMA WrittenCases ==
  ASSUME NEW writes, NEW g \in Goal
  PROVE  Written(writes)[g] =
           IF g \in corrected THEN stored[g]
           ELSE IF Overwritten(writes, g) THEN 0
           ELSE IF g \in DOMAIN writes THEN IF g \in withdrawn THEN 0 ELSE writes[g]
           ELSE stored[g]
<1> DEFINE later == {h \in DOMAIN writes \cap Contradicted(g) : h > g \/ g \notin DOMAIN writes}
<1>1. later # {} <=> Overwritten(writes, g)
  BY DEF Overwritten
<1>2. Written(writes)[g] =
         IF g \in corrected THEN stored[g]
         ELSE IF later # {} THEN 0
         ELSE IF g \in DOMAIN writes THEN IF g \in withdrawn THEN 0 ELSE writes[g]
         ELSE stored[g]
  BY DEF Written
<1> QED
  BY <1>1, <1>2, Zenon

\* Goals only rise, but for a skipped one that is asked again.
LEMMA MergedCases ==
  ASSUME goals \in [Goal -> Status],
         NEW updates \in [Goal -> Status \cup {"none"}]
  PROVE  /\ Merged(updates) \in [Goal -> Status]
         /\ \A g \in Goal :
              /\ updates[g] = "answered" \/ goals[g] = "answered" => Merged(updates)[g] = "answered"
              /\ g \notin OpenGoals(updates) => Merged(updates)[g] \in {"skipped", "answered"}
<1>1. \A g \in Goal :
        Merged(updates)[g] = IF \/ Rank[updates[g]] > Rank[goals[g]]
                                \/ goals[g] = "skipped" /\ updates[g] = "asked"
                             THEN updates[g] ELSE goals[g]
  BY DEF Merged
<1>2. /\ Rank["none"] = -1 /\ Rank["pending"] = 0 /\ Rank["asked"] = 1
      /\ Rank["skipped"] = 2 /\ Rank["answered"] = 3
  BY DEF Rank
<1>3. \A g \in Goal : /\ goals[g] \in {"pending", "asked", "skipped", "answered"}
                      /\ updates[g] \in {"none", "pending", "asked", "skipped", "answered"}
  BY DEF Status
<1>4. \A g \in Goal : updates[g] = "none" => ~(Rank[updates[g]] > Rank[goals[g]])
  BY <1>2, <1>3
<1>5. ASSUME NEW g \in Goal PROVE Merged(updates)[g] \in Status
  BY <1>1, <1>3, <1>4 DEF Status
<1>6. Merged(updates) \in [Goal -> Status]
  BY <1>5 DEF Merged
<1>7. ASSUME NEW g \in Goal, updates[g] = "answered" \/ goals[g] = "answered"
      PROVE  Merged(updates)[g] = "answered"
  BY <1>1, <1>2, <1>3, <1>7
<1>8. ASSUME NEW g \in Goal, g \notin OpenGoals(updates)
      PROVE  Merged(updates)[g] \in {"skipped", "answered"}
  <2>1. (IF updates[g] = "none" THEN goals[g] ELSE updates[g]) \in {"skipped", "answered"}
    BY <1>3, <1>8 DEF OpenGoals
  <2> QED
    BY <1>1, <1>2, <1>3, <2>1
<1> QED
  BY <1>6, <1>7, <1>8

-----------------------------------------------------------------------------
(* The facts of a turn.                                                    *)

\* What the proofs below need of the state in which a run plans.
Planning ==
  /\ goals \in [Goal -> Status] /\ turn \in AskingRun
  /\ hostileTurns \in Nat

LEMMA RecordedTyped ==
  ASSUME Planning, NEW v \in Verdict
  PROVE  /\ Recorded(v) \in [Goal -> {"none", "skipped", "answered"}]
         /\ \A g \in Goal : /\ g \in Valid(v) => Recorded(v)[g] = "answered"
                            /\ turn.known[g] # 0 => Recorded(v)[g] = "answered"
                            /\ Recorded(v)[g] = "answered" => g \in Valid(v) \/ turn.known[g] # 0
BY DEF Recorded

LEMMA FactsTyped ==
  ASSUME Planning, NEW v \in Verdict, NEW m \in Mood
  PROVE  Facts(v, m) \in FactsOfTurn
<1> DEFINE hostile == m.hostile /\ m.signal = "none"
           anything == Valid(v) # {} \/ \E g \in Goal : goals[g] = "answered"
           stopping == hostile /\ hostileTurns + 1 > CalmReplies
           duty == m.handoff \/ m.signal = "urgent"
           calm == m.signal = "none"
           closing == OpenGoals(Recorded(v)) = {} /\ m.signal = "none" /\ (hostile => anything)
<1>1. Facts(v, m) = [recorded |-> Recorded(v), anything |-> anything, hostile |-> hostile,
                     stopping |-> stopping, handoff |-> m.handoff, duty |-> duty,
                     calm |-> calm, closing |-> closing]
  BY DEF Facts
<1>2. m.handoff \in BOOLEAN /\ m.hostile \in BOOLEAN
  BY DEF Mood
<1>3. /\ anything \in BOOLEAN /\ hostile \in BOOLEAN /\ stopping \in BOOLEAN
      /\ duty \in BOOLEAN /\ calm \in BOOLEAN /\ closing \in BOOLEAN
  OBVIOUS
<1> HIDE DEF anything, hostile, stopping, duty, calm, closing
<1> QED
  BY <1>1, <1>2, <1>3, RecordedTyped DEF FactsOfTurn

\* What the facts say.
LEMMA FactsOf ==
  ASSUME Planning, NEW v \in Verdict, NEW m \in Mood, NEW f, f = Facts(v, m)
  PROVE  /\ f.recorded = Recorded(v)
         /\ f.anything <=> Valid(v) # {} \/ \E g \in Goal : goals[g] = "answered"
         /\ f.calm <=> m.signal = "none"
         /\ f.duty <=> m.handoff \/ m.signal = "urgent"
         /\ f.closing <=> /\ OpenGoals(f.recorded) = {} /\ f.calm
                          /\ f.hostile => f.anything
<1> DEFINE hostile == m.hostile /\ m.signal = "none"
           anything == Valid(v) # {} \/ \E g \in Goal : goals[g] = "answered"
           stopping == hostile /\ hostileTurns + 1 > CalmReplies
           duty == m.handoff \/ m.signal = "urgent"
           calm == m.signal = "none"
           closing == OpenGoals(Recorded(v)) = {} /\ m.signal = "none" /\ (hostile => anything)
<1>1. f = [recorded |-> Recorded(v), anything |-> anything, hostile |-> hostile,
           stopping |-> stopping, handoff |-> m.handoff, duty |-> duty,
           calm |-> calm, closing |-> closing]
  BY DEF Facts
<1> HIDE DEF anything, hostile, stopping, duty, calm, closing
<1>2. /\ f.recorded = Recorded(v) /\ f.anything = anything /\ f.hostile = hostile
      /\ f.duty = duty /\ f.calm = calm /\ f.closing = closing
  BY <1>1
<1>3. f.closing <=> OpenGoals(Recorded(v)) = {} /\ calm /\ (hostile => anything)
  BY <1>2, Zenon DEF closing, calm
<1>4. f.closing <=> /\ OpenGoals(f.recorded) = {} /\ f.calm
                    /\ f.hostile => f.anything
  BY <1>2, <1>3
<1>5. f.anything <=> Valid(v) # {} \/ \E g \in Goal : goals[g] = "answered"
  BY <1>2, Zenon DEF anything
<1>6. f.calm <=> m.signal = "none"
  BY <1>2, Zenon DEF calm
<1>7. f.duty <=> m.handoff \/ m.signal = "urgent"
  BY <1>2, Zenon DEF duty
<1> QED
  BY <1>2, <1>4, <1>5, <1>6, <1>7, Zenon

-----------------------------------------------------------------------------
(* The reply of a turn.                                                    *)

LEMMA ReplyTyped ==
  ASSUME Planning, NEW v \in Verdict, NEW m \in Mood, NEW f, f = Facts(v, m),
         NEW r \in Replies(v, m, f)
  PROVE  /\ r \in ReplyOfTurn
         /\ r.asks # 0 =>
              \/ r.asks \in OpenGoals(f.recorded)
              \/ ~f.stopping /\ ~f.duty /\ ~(f.closing /\ f.anything)
<1>1. PICK next \in {0} \cup OpenGoals([g \in Goal |-> "none"]),
           words \in {"none", "plain", "question"} : r = Reply(v, m, f, next, words)
  BY DEF Replies
<1> DEFINE open == FirstOf(OpenGoals(f.recorded))
           wrong == {g \in DOMAIN v.answers : v.answers[g] = 0} \cap OpenGoals(f.recorded)
           refused == FirstOf(wrong)
<1>2. OpenGoals(f.recorded) \subseteq Goal /\ next \in Goal \cup {0} /\ wrong \subseteq Goal
  BY DEF OpenGoals
<1>3. open \in OpenGoals(f.recorded) \cup {0}
  BY <1>2, FirstTyped
<1>4. refused \in OpenGoals(f.recorded) \cup {0}
  BY <1>2, FirstTyped
<1>5. f.duty <=> m.handoff \/ m.signal = "urgent"
  BY FactsOf
<1>6. f.closing \in BOOLEAN /\ f.anything \in BOOLEAN /\ f.stopping \in BOOLEAN
  BY FactsTyped DEF FactsOfTurn
<1> DEFINE written == [sent |-> TRUE, written |-> TRUE, goesOn |-> next # 0,
                       asks |-> IF words = "question" THEN next ELSE 0]
<1>7. \/ r = Fixed(0, next) \/ r = NoReply(next)
      \/ refused # 0 /\ r = Fixed(refused, next)
      \/ open # 0 /\ r = Fixed(open, next)
      \/ r = written /\ ~f.stopping /\ ~f.duty /\ ~(f.closing /\ f.anything)
  BY <1>1, <1>5 DEF Reply
<1> HIDE DEF open, wrong, refused
<1>a. ASSUME NEW g \in Goal \cup {0}
      PROVE  Fixed(g, next) \in ReplyOfTurn /\ Fixed(g, next).asks = g
  <2> DEFINE on == next # 0
  <2>1. Fixed(g, next) = [sent |-> TRUE, asks |-> g, written |-> FALSE, goesOn |-> on]
    BY DEF Fixed
  <2>2. on \in BOOLEAN
    OBVIOUS
  <2> HIDE DEF on
  <2> QED
    BY <2>1, <2>2 DEF ReplyOfTurn
<1>b. NoReply(next) \in ReplyOfTurn /\ NoReply(next).asks = 0
  <2> DEFINE on == next # 0
  <2>1. NoReply(next) = [sent |-> FALSE, asks |-> 0, written |-> FALSE, goesOn |-> on]
    BY DEF NoReply
  <2>2. on \in BOOLEAN
    OBVIOUS
  <2> HIDE DEF on
  <2> QED
    BY <2>1, <2>2 DEF ReplyOfTurn
<1>c. written \in ReplyOfTurn
  <2> DEFINE on == next # 0
             asks == IF words = "question" THEN next ELSE 0
  <2>1. written = [sent |-> TRUE, written |-> TRUE, goesOn |-> on, asks |-> asks]
    OBVIOUS
  <2>2. on \in BOOLEAN /\ asks \in Goal \cup {0}
    BY <1>2
  <2> HIDE DEF on, asks, written
  <2> QED
    BY <2>1, <2>2 DEF ReplyOfTurn
<1> HIDE DEF written
<1>8. CASE r = Fixed(0, next) \/ r = NoReply(next)
  BY <1>8, <1>a, <1>b
<1>9. CASE refused # 0 /\ r = Fixed(refused, next)
  BY <1>2, <1>4, <1>9, <1>a
<1>10. CASE open # 0 /\ r = Fixed(open, next)
  BY <1>2, <1>3, <1>10, <1>a
<1>11. CASE r = written /\ ~f.stopping /\ ~f.duty /\ ~(f.closing /\ f.anything)
  BY <1>11, <1>c
<1> QED
  BY <1>7, <1>8, <1>9, <1>10, <1>11

-----------------------------------------------------------------------------
(* The decision of a turn.                                                 *)

Asking(f, r, sent) == Asked(f.recorded, IF sent THEN r.asks ELSE 0)

\* A decision that ends the conversation owes nothing.
Sound(d) ==
  d.ends # "open" =>
    /\ \A g \in Goal : d.goals[g] \in {"skipped", "answered"}
    /\ d.ends = "completed" => \E g \in Goal : d.goals[g] = "answered"

LEMMA AskedCases ==
  ASSUME NEW updates \in [Goal -> {"none", "skipped", "answered"}], NEW a \in Goal \cup {0}
  PROVE  /\ Asked(updates, a) \in [Goal -> {"none", "asked", "skipped", "answered"}]
         /\ \A g \in Goal : Asked(updates, a)[g] = "answered" <=> updates[g] = "answered"
         /\ a # 0 /\ updates[a] # "answered" => a \in OpenGoals(Asked(updates, a))
         /\ a # 0 /\ updates[a] = "answered" => Asked(updates, a) = updates
BY DEF Asked, OpenGoals

LEMMA DecideOf ==
  ASSUME Planning, NEW v \in Verdict, NEW m \in Mood, NEW f, f = Facts(v, m),
         NEW r \in Replies(v, m, f), NEW sent \in BOOLEAN
  PROVE  /\ Decide(v, f, r, sent) \in TurnDecision
         /\ Sound(Decide(v, f, r, sent))
         /\ Decide(v, f, r, sent).ends # "open" =>
              /\ OpenGoals(Asking(f, r, sent)) = {} /\ f.calm /\ ~f.duty /\ ~f.stopping
              /\ f.hostile => f.anything
<1> DEFINE asking == Asking(f, r, sent)
           withdrew == Withdraws(v, f, r, sent)
           final == [g \in Goal |-> IF withdrew /\ g \in OpenGoals(asking) THEN "skipped"
                                    ELSE asking[g]]
           closes == /\ OpenGoals(final) = {} /\ f.calm
                     /\ ~f.duty /\ ~withdrew /\ ~f.stopping /\ (f.hostile => f.anything)
           waits == f.duty \/ withdrew \/ f.stopping
           ends == IF ~closes THEN "open" ELSE IF f.anything THEN "completed" ELSE "declined"
           d == Decide(v, f, r, sent)
<1>1. d = [goals |-> Merged(final), waits |-> waits, ends |-> ends]
  BY DEF Decide, Asking
<1>2. /\ f.recorded \in [Goal -> {"none", "skipped", "answered"}] /\ r.asks \in Goal \cup {0}
      /\ f \in FactsOfTurn
  BY FactsTyped, ReplyTyped DEF FactsOfTurn, ReplyOfTurn
<1>3. /\ asking \in [Goal -> {"none", "asked", "skipped", "answered"}]
      /\ \A g \in Goal : asking[g] = "answered" <=> f.recorded[g] = "answered"
  BY <1>2, AskedCases DEF Asking
<1> HIDE DEF asking
<1>4. final \in [Goal -> {"none", "asked", "skipped", "answered"}]
  BY <1>3
<1>5. /\ Merged(final) \in [Goal -> Status]
      /\ \A g \in Goal :
           /\ final[g] = "answered" \/ goals[g] = "answered" => Merged(final)[g] = "answered"
           /\ g \notin OpenGoals(final) => Merged(final)[g] \in {"skipped", "answered"}
  <2>1. final \in [Goal -> Status \cup {"none"}] /\ goals \in [Goal -> Status]
    BY <1>4 DEF Status, Planning
  <2> HIDE DEF final
  <2> QED
    BY <2>1, MergedCases
<1>6. closes => withdrew = FALSE
  BY DEF Withdraws
<1>7. closes => final = asking
  BY <1>3, <1>6
<1>8. closes => \A g \in Goal : f.recorded[g] = "answered" => final[g] = "answered"
  BY <1>3, <1>7
<1>9. /\ waits \in BOOLEAN /\ ends \in Closings /\ (ends # "open" <=> closes)
      /\ ends = "completed" => f.anything
  BY DEF Closings
<1>10. closes => /\ OpenGoals(final) = {} /\ OpenGoals(asking) = {} /\ f.calm /\ ~f.duty
                 /\ ~f.stopping /\ (f.hostile => f.anything)
  BY <1>7
<1> HIDE DEF final, closes, waits, ends, withdrew, d
<1>11. d.goals = Merged(final) /\ d.ends = ends /\ d \in TurnDecision
  BY <1>1, <1>5, <1>9 DEF TurnDecision
<1>12. ASSUME d.ends # "open" PROVE \A g \in Goal : d.goals[g] \in {"skipped", "answered"}
  BY <1>5, <1>9, <1>10, <1>11, <1>12
<1>13. ASSUME d.ends = "completed" PROVE \E g \in Goal : d.goals[g] = "answered"
  <2>1. PICK g \in Goal : g \in Valid(v) \/ goals[g] = "answered"
    <3>1. f.anything
      BY <1>9, <1>11, <1>13
    <3>2. Valid(v) \subseteq Goal
      BY DEF Valid, Verdict
    <3> QED
      BY <3>1, <3>2, FactsOf
  <2>2. f.recorded[g] = "answered" \/ goals[g] = "answered"
    BY <2>1, FactsOf, RecordedTyped
  <2>3. closes
    BY <1>9, <1>11, <1>13
  <2> QED
    BY <1>5, <1>8, <1>11, <2>2, <2>3
<1>14. d.ends # "open" => /\ OpenGoals(asking) = {} /\ f.calm /\ ~f.duty /\ ~f.stopping
                          /\ f.hostile => f.anything
  BY <1>9, <1>10, <1>11
<1> QED
  BY <1>11, <1>12, <1>13, <1>14 DEF Sound, d, asking

-----------------------------------------------------------------------------
(* The planned turn.                                                       *)

\* What is planned is held back when the work moved, and a plan that ends the
\* conversation asks at most for what is on record.
PlanIsSound(p) ==
  /\ p.sent => ~p.superseded
  /\ p.superseded => p.decided.ends = "open"
  /\ Sound(p.decided) /\ Sound(p.silent)
  /\ p.decided.ends # "open" => p.asks = 0 \/ p.known[p.asks] # 0
  /\ p.superseded /\ ~p.moved => arrived > p.upto

LEMMA WritesTyped ==
  ASSUME Planning, NEW v \in Verdict
  PROVE  [g \in Valid(v) |-> v.answers[g]] \in Writes
<1> DEFINE w == [g \in Valid(v) |-> v.answers[g]]
<1>1. /\ Valid(v) \subseteq DOMAIN v.answers /\ Valid(v) \subseteq Goal
      /\ \A g \in Valid(v) : v.answers[g] \in Value(g)
  BY DEF Valid, Verdict
<1>2. \A g \in Goal : Value(g) \subseteq 0..2
  BY DEF Value
<1>3. w \in [Valid(v) -> 0..2] /\ \A g \in DOMAIN w : w[g] \in Value(g)
  BY <1>1, <1>2
<1> HIDE DEF w
<1>4. w \in UNION {[K -> 0..2] : K \in SUBSET Goal}
  BY <1>1, <1>3
<1> QED
  BY <1>3, <1>4 DEF Writes, w

LEMMA PlannedOf ==
  ASSUME Planning, NEW v \in Verdict, NEW m \in Mood, NEW f, f = Facts(v, m),
         NEW r \in Replies(v, m, f), NEW fate
  PROVE  /\ Planned(v, f, r, fate) \in PlannedRun
         /\ Planned(v, f, r, fate).moved = turn.moved /\ Planned(v, f, r, fate).upto = turn.upto
         /\ PlanIsSound(Planned(v, f, r, fate))
<1> DEFINE superseded == r.sent /\ r.written /\ (turn.moved \/ arrived > turn.upto)
           candidate == r.sent /\ ~superseded /\ (fate = "dropped" => f.stopping)
           withheld == candidate /\ (turn.moved \/ fate = "withheld")
           sent == candidate /\ ~withheld
           decided == Decide(v, f, r, sent)
           chosen == IF (f.closing /\ withheld) \/ superseded
                     THEN [decided EXCEPT !.ends = "open"] ELSE decided
           silent == Decide(v, f, r, FALSE)
           fresh == (~f.closing /\ ~f.handoff /\ ~f.stopping) \/ decided.ends # "open"
           asks == IF sent THEN r.asks ELSE 0
           writes == [g \in Valid(v) |-> v.answers[g]]
           p == Planned(v, f, r, fate)
<1>1. p = [step |-> "planned", moved |-> turn.moved, upto |-> turn.upto, known |-> turn.known,
           writes |-> writes, sent |-> sent, asks |-> asks, decided |-> chosen, silent |-> silent,
           fresh |-> fresh, hostile |-> f.hostile, superseded |-> superseded]
  BY DEF Planned
<1>2. f \in FactsOfTurn /\ r \in ReplyOfTurn /\ turn \in AskingRun
  BY FactsTyped, ReplyTyped DEF Planning
<1>3. superseded \in BOOLEAN /\ sent \in BOOLEAN /\ fresh \in BOOLEAN
  OBVIOUS
<1>4. sent => ~superseded
  OBVIOUS
<1>5. superseded /\ ~turn.moved => arrived > turn.upto
  OBVIOUS
<1>6. /\ decided \in TurnDecision /\ Sound(decided)
      /\ decided.ends # "open" =>
           /\ OpenGoals(Asking(f, r, sent)) = {} /\ f.calm /\ ~f.duty /\ ~f.stopping
           /\ f.hostile => f.anything
  BY <1>3, DecideOf
<1>7. silent \in TurnDecision /\ Sound(silent)
  BY DecideOf
<1>8. /\ chosen \in TurnDecision /\ Sound(chosen) /\ (superseded => chosen.ends = "open")
      /\ chosen.ends # "open" => decided.ends # "open"
  <2>1. CASE (f.closing /\ withheld) \/ superseded
    <3>1. chosen = [decided EXCEPT !.ends = "open"]
      BY <2>1
    <3> HIDE DEF decided, chosen
    <3>2. chosen \in TurnDecision /\ chosen.ends = "open"
      BY <1>6, <3>1 DEF TurnDecision, Closings
    <3> QED
      BY <3>2 DEF Sound
  <2>2. CASE ~((f.closing /\ withheld) \/ superseded)
    <3>1. chosen = decided /\ ~superseded
      BY <2>2
    <3> HIDE DEF decided, chosen, superseded
    <3> QED
      BY <1>6, <3>1
  <2> QED
    BY <2>1, <2>2
<1>9. asks \in Goal \cup {0} /\ writes \in Writes
  BY <1>2, WritesTyped DEF ReplyOfTurn
<1>10. ASSUME decided.ends # "open", asks # 0 PROVE turn.known[asks] # 0
  <2>1. sent /\ asks = r.asks /\ r.asks \in Goal
    BY <1>9, <1>10
  <2>2. OpenGoals(Asked(f.recorded, r.asks)) = {} /\ f.calm /\ ~f.duty /\ ~f.stopping
        /\ (f.hostile => f.anything)
    BY <1>6, <1>10, <2>1 DEF Asking
  <2>3. f.recorded \in [Goal -> {"none", "skipped", "answered"}]
    BY <1>2 DEF FactsOfTurn
  <2>4. f.recorded[r.asks] = "answered" /\ OpenGoals(f.recorded) = {}
    BY <1>10, <2>1, <2>2, <2>3, AskedCases
  <2>5. f.closing /\ ~f.anything
    <3>1. f.closing
      BY <2>2, <2>4, FactsOf
    <3>2. ~(f.closing /\ f.anything)
      BY <1>10, <2>1, <2>2, <2>4, ReplyTyped
    <3> QED
      BY <3>1, <3>2
  <2>6. r.asks \notin Valid(v)
    BY <2>5, FactsOf
  <2> QED
    BY <2>1, <2>4, <2>6, FactsOf, RecordedTyped
<1> HIDE DEF superseded, candidate, withheld, sent, decided, chosen, silent, fresh, asks, writes, p
<1>11. /\ turn.moved \in BOOLEAN /\ turn.upto \in Nat /\ turn.known \in [Goal -> 0..2]
       /\ f.hostile \in BOOLEAN
  BY <1>2 DEF AskingRun, FactsOfTurn
<1>12. p \in PlannedRun
  BY <1>1, <1>3, <1>7, <1>8, <1>9, <1>11 DEF PlannedRun
<1>13. PlanIsSound(p)
  BY <1>1, <1>4, <1>5, <1>7, <1>8, <1>10 DEF PlanIsSound
<1>14. p.moved = turn.moved /\ p.upto = turn.upto
  BY <1>1
<1> QED
  BY <1>12, <1>13, <1>14 DEF p

\* Whatever the model said, the run that planned is a sound plan.
LEMMA PlanTurnPlans ==
  ASSUME Planning, PlanTurn
  PROVE  /\ turn' \in PlannedRun /\ turn'.moved = turn.moved /\ turn'.upto = turn.upto
         /\ PlanIsSound(turn')
<1>1. PICK v \in Verdict, m \in Mood : turn' \in Plans(v, m)
  BY DEF PlanTurn
<1> DEFINE f == Facts(v, m)
<1>2. PICK r \in Replies(v, m, f), fate \in {"sent", "dropped", "withheld"} :
        turn' = Planned(v, f, r, fate)
  BY <1>1 DEF Plans
<1> HIDE DEF f
<1>3. f = Facts(v, m)
  BY DEF f
<1> QED
  BY <1>2, <1>3, PlannedOf

-----------------------------------------------------------------------------
(* The inductive invariant, of the answers and of the run.                 *)

\* A corrected answer and one of an operator are there, a slot an operator emptied
\* is not filled, and nobody is liked and avoided.
AnswersInvariant ==
  /\ stored \in [Goal -> 0..2] /\ \A g \in Goal : stored[g] \in Value(g) \cup {0}
  /\ corrected \subseteq {g \in Scored : stored[g] # 0}
  /\ staffed \subseteq {g \in Goal \ Scored : stored[g] # 0}
  /\ withdrawn \subseteq Goal /\ \A g \in withdrawn : stored[g] = 0
  /\ NoContradiction

RunTyped ==
  /\ arrived \in Nat /\ heard \in Nat /\ cursor \in Nat
  /\ cursor <= heard /\ heard <= arrived /\ arrived <= MaxTestimony
  /\ goals \in [Goal -> Status]
  /\ control \in {"bot", "awaiting", "human"}
  /\ ended \in {"open", "completed", "declined", "staff"}
  /\ hostileTurns \in 0..(CalmReplies + 1) /\ question \in Goal \cup {0}
  /\ turn \in Runs /\ paid \in Nat
  /\ spent \in [decisions : 0..MaxDecisions, lost : 0..MaxLostRuns]

\* A run whose snapshot holds has read the whole transcript; when the work moved,
\* nothing was paid since; and without a run, either there is nothing to admit or
\* every run that was paid was lost.
WorkIsPaidOnce ==
  /\ turn.step # "none" /\ turn.moved => paid = 0
  /\ turn.step \in {"asking", "planned"} /\ ~turn.moved => turn.upto = heard
  /\ turn.step = "none" /\ ended = "open" /\ control = "bot" /\ cursor < heard /\ arrived = heard
       => paid <= spent.lost
  /\ paid <= 1 + spent.lost

\* The last message of the bot asks something only while there is nothing to read.
QuestionWaits ==
  /\ question # 0 => cursor = heard
  /\ turn.step # "none" => question = 0

RunInvariant ==
  /\ RunTyped /\ WorkIsPaidOnce /\ QuestionWaits
  /\ turn.step = "planned" => PlanIsSound(turn)

InterviewInvariant == AnswersInvariant /\ RunInvariant

\* What a run is, by its step.
LEMMA RunByStep ==
  ASSUME turn \in Runs
  PROVE  /\ turn.step \in {"none", "asking", "planned", "braking"}
         /\ turn = NoTurn <=> turn.step = "none"
         /\ turn.step = "asking" <=> turn \in AskingRun
         /\ turn.step = "planned" <=> turn \in PlannedRun
         /\ turn.step = "braking" <=> turn \in BrakingRun
         /\ turn.step # "none" => turn.moved \in BOOLEAN
         /\ turn.step \in {"asking", "planned"} => turn.upto \in Nat
<1>1. CASE turn = NoTurn
  BY <1>1 DEF NoTurn, AskingRun, PlannedRun, BrakingRun
<1>2. CASE turn \in AskingRun
  BY <1>2 DEF NoTurn, AskingRun, PlannedRun, BrakingRun
<1>3. CASE turn \in PlannedRun
  BY <1>3 DEF NoTurn, AskingRun, PlannedRun, BrakingRun
<1>4. CASE turn \in BrakingRun
  BY <1>4 DEF NoTurn, AskingRun, PlannedRun, BrakingRun
<1> QED
  BY <1>1, <1>2, <1>3, <1>4 DEF Runs

LEMMA MovedRun ==
  ASSUME turn \in Runs, Moves
  PROVE  /\ turn' \in Runs /\ turn'.step = turn.step /\ paid' = 0
         /\ turn.step # "none" => turn'.moved = TRUE
         /\ turn.step = "planned" /\ PlanIsSound(turn) => PlanIsSound(turn')
<1>1. CASE turn = NoTurn
  BY <1>1 DEF Moves, Runs, NoTurn
<1>2. CASE turn \in AskingRun
  <2>1. turn' = [turn EXCEPT !.moved = TRUE] /\ paid' = 0
    BY <1>2 DEF Moves, NoTurn, AskingRun
  <2>2. turn' \in AskingRun /\ turn'.moved = TRUE
    BY <1>2, <2>1 DEF AskingRun
  <2> QED
    BY <1>2, <2>1, <2>2 DEF Runs, AskingRun
<1>3. CASE turn \in PlannedRun
  <2>1. turn' = [turn EXCEPT !.moved = TRUE] /\ paid' = 0
    BY <1>3 DEF Moves, NoTurn, PlannedRun
  <2>2. turn' \in PlannedRun /\ turn'.moved = TRUE /\ turn'.step = turn.step
    BY <1>3, <2>1 DEF PlannedRun
  <2>3. /\ turn'.sent = turn.sent /\ turn'.superseded = turn.superseded
        /\ turn'.decided = turn.decided /\ turn'.silent = turn.silent
        /\ turn'.asks = turn.asks /\ turn'.known = turn.known
    BY <1>3, <2>1 DEF PlannedRun
  <2> QED
    BY <2>1, <2>2, <2>3 DEF Runs, PlanIsSound
<1>4. CASE turn \in BrakingRun
  <2>1. turn' = [turn EXCEPT !.moved = TRUE] /\ paid' = 0
    BY <1>4 DEF Moves, NoTurn, BrakingRun
  <2>2. turn' \in BrakingRun /\ turn'.moved = TRUE
    BY <1>4, <2>1 DEF BrakingRun
  <2> QED
    BY <1>4, <2>1, <2>2 DEF Runs, BrakingRun
<1> QED
  BY <1>1, <1>2, <1>3, <1>4 DEF Runs

-----------------------------------------------------------------------------
(* The answers.                                                            *)

\* An operator corrects, withdraws or records an answer.
LEMMA RulingKeepsAnswers ==
  ASSUME AnswersInvariant, NEW g \in Goal,
         (\E v \in Value(g) : CorrectAnswer(g, v)) \/ WithdrawAnswer(g) \/ RecordAnswer(g)
  PROVE  AnswersInvariant'
<1>0. /\ 1 \in Value(g) /\ Value(g) \subseteq 1..2
  BY DEF Value
<1>1. ASSUME NEW v \in Value(g), CorrectAnswer(g, v) PROVE AnswersInvariant'
  <2>1. /\ stored' = [stored EXCEPT ![g] = v] /\ v \in 1..2 /\ g \in Scored /\ stored[g] # 0
        /\ corrected' = corrected \cup {g} /\ UNCHANGED <<staffed, withdrawn>>
    BY <1>0, <1>1 DEF CorrectAnswer
  <2>2. \A h \in Goal : stored'[h] = IF h = g THEN v ELSE stored[h]
    BY <2>1 DEF AnswersInvariant
  <2>3. stored' \in [Goal -> 0..2] /\ \A h \in Goal : stored'[h] \in Value(h) \cup {0}
    BY <2>1, <2>2 DEF AnswersInvariant
  <2>4. NoContradiction'
    BY <2>1, <2>2, ContradictionIsMutual DEF NoContradiction, AnswersInvariant
  <2> QED
    BY <2>1, <2>2, <2>3, <2>4, InterviewAssumption DEF AnswersInvariant
<1>2. ASSUME WithdrawAnswer(g) PROVE AnswersInvariant'
  <2>1. /\ stored' = [stored EXCEPT ![g] = 0] /\ withdrawn' = withdrawn \cup {g}
        /\ corrected' = corrected \ {g} /\ staffed' = staffed \ {g}
    BY <1>2 DEF WithdrawAnswer
  <2>2. \A h \in Goal : stored'[h] = IF h = g THEN 0 ELSE stored[h]
    BY <2>1 DEF AnswersInvariant
  <2>3. stored' \in [Goal -> 0..2] /\ \A h \in Goal : stored'[h] \in Value(h) \cup {0}
    BY <2>1, <2>2 DEF AnswersInvariant
  <2>4. NoContradiction'
    BY <2>2 DEF NoContradiction, AnswersInvariant
  <2> QED
    BY <2>1, <2>2, <2>3, <2>4, InterviewAssumption DEF AnswersInvariant
<1>3. ASSUME RecordAnswer(g) PROVE AnswersInvariant'
  <2> DEFINE superseded == {h \in Contradicted(g) : stored[h] # 0}
  <2>1. /\ stored' = [h \in Goal |-> IF h = g THEN 1 ELSE IF h \in superseded THEN 0 ELSE stored[h]]
        /\ staffed' = (staffed \ superseded) \cup {g}
        /\ withdrawn' = (withdrawn \cup superseded) \ {g}
        /\ corrected' = corrected /\ g \notin Scored
    BY <1>3 DEF RecordAnswer
  <2>2. \A h \in Goal : stored'[h] = IF h = g THEN 1 ELSE IF h \in superseded THEN 0 ELSE stored[h]
    BY <2>1
  <2>3. \A h \in superseded : h \in Goal /\ h # g /\ h \notin Scored
    BY ContradictionIsMutual
  <2>4. stored' \in [Goal -> 0..2] /\ \A h \in Goal : stored'[h] \in Value(h) \cup {0}
    BY <1>0, <2>1, <2>2 DEF AnswersInvariant
  <2>5. ASSUME NEW h \in Goal, NEW k \in Goal, k \in Contradicted(h)
        PROVE  stored'[h] = 0 \/ stored'[k] = 0
    <3>1. CASE h = g
      BY <2>2, <2>5, <3>1, ContradictionIsMutual
    <3>2. CASE k = g
      BY <2>2, <2>5, <3>2, ContradictionIsMutual
    <3>3. CASE h # g /\ k # g
      BY <2>2, <2>5, <3>3 DEF NoContradiction, AnswersInvariant
    <3> QED
      BY <3>1, <3>2, <3>3
  <2>6. NoContradiction'
    BY <2>5 DEF NoContradiction
  <2> HIDE DEF superseded
  <2>7. corrected' \subseteq {h \in Scored : stored'[h] # 0}
    BY <2>1, <2>2, <2>3, InterviewAssumption DEF AnswersInvariant
  <2>8. staffed' \subseteq {h \in Goal \ Scored : stored'[h] # 0}
    BY <2>1, <2>2 DEF AnswersInvariant
  <2>9. withdrawn' \subseteq Goal /\ \A h \in withdrawn' : stored'[h] = 0
    BY <2>1, <2>2, <2>3 DEF AnswersInvariant
  <2> QED
    BY <2>4, <2>6, <2>7, <2>8, <2>9 DEF AnswersInvariant
<1> QED
  BY <1>1, <1>2, <1>3

\* A run writes its answers: what an operator ruled on stays, and of two that
\* contradict each other the later one is left.
LEMMA WrittenStands ==
  ASSUME AnswersInvariant, NEW writes \in Writes, stored' = Written(writes),
         UNCHANGED <<corrected, withdrawn>>
  PROVE  /\ stored' \in [Goal -> 0..2] /\ \A g \in Goal : stored'[g] \in Value(g) \cup {0}
         /\ \A g \in corrected : stored'[g] = stored[g]
         /\ \A g \in withdrawn : stored'[g] = 0
         /\ NoContradiction'
<1>0. /\ DOMAIN writes \subseteq Goal
      /\ \A g \in DOMAIN writes : writes[g] \in Value(g) /\ writes[g] \in 0..2
  BY DEF Writes
<1>1. \A g \in Goal : stored'[g] =
           IF g \in corrected THEN stored[g]
           ELSE IF Overwritten(writes, g) THEN 0
           ELSE IF g \in DOMAIN writes THEN IF g \in withdrawn THEN 0 ELSE writes[g]
           ELSE stored[g]
  BY WrittenCases
<1>2. ASSUME NEW g \in Goal PROVE stored'[g] \in Value(g) \cup {0} /\ stored'[g] \in 0..2
  BY <1>0, <1>1 DEF AnswersInvariant
<1>3. stored' \in [Goal -> 0..2]
  <2>1. stored' = [g \in Goal |-> stored'[g]]
    BY DEF Written
  <2> QED
    BY <1>2, <2>1
<1>4. \A g \in corrected : g \in Goal /\ stored'[g] = stored[g]
  BY <1>1, InterviewAssumption DEF AnswersInvariant
<1>5. \A g \in withdrawn : stored'[g] = 0
  BY <1>1 DEF AnswersInvariant
<1>6. ASSUME NEW g \in Goal, NEW h \in Goal, h \in Contradicted(g)
      PROVE  stored'[g] = 0 \/ stored'[h] = 0
  <2>1. /\ g \in Contradicted(h) /\ h # g /\ g \notin corrected /\ h \notin corrected
        /\ stored[g] = 0 \/ stored[h] = 0
    BY <1>6, ContradictionIsMutual DEF AnswersInvariant, NoContradiction
  <2>2. h > g \/ g > h
    BY <2>1, InterviewAssumption DEF Goal
  <2>3. CASE g \in DOMAIN writes /\ h \in DOMAIN writes
    <3>1. Overwritten(writes, g) \/ Overwritten(writes, h)
      BY <1>6, <2>1, <2>2, <2>3 DEF Overwritten
    <3> QED
      BY <1>1, <2>1, <3>1
  <2>4. CASE g \in DOMAIN writes /\ h \notin DOMAIN writes
    <3>1. Overwritten(writes, h)
      BY <2>1, <2>4 DEF Overwritten
    <3> QED
      BY <1>1, <2>1, <3>1
  <2>5. CASE g \notin DOMAIN writes /\ h \in DOMAIN writes
    <3>1. Overwritten(writes, g)
      BY <1>6, <2>5 DEF Overwritten
    <3> QED
      BY <1>1, <2>1, <3>1
  <2>6. CASE g \notin DOMAIN writes /\ h \notin DOMAIN writes
    BY <1>1, <2>1, <2>6
  <2> QED
    BY <2>3, <2>4, <2>5, <2>6
<1>7. NoContradiction'
  BY <1>6 DEF NoContradiction
<1> QED
  BY <1>2, <1>3, <1>4, <1>5, <1>7

LEMMA CommitKeepsAnswers ==
  ASSUME InterviewInvariant, CommitRun
  PROVE  /\ AnswersInvariant'
         /\ \A g \in corrected : stored'[g] = stored[g]
         /\ \A g \in withdrawn : stored'[g] = 0
<1>1. turn.writes \in Writes
  BY RunByStep DEF InterviewInvariant, RunInvariant, RunTyped, CommitRun, PlannedRun
<1>2. /\ stored' = Written(turn.writes) /\ UNCHANGED <<corrected, withdrawn>>
      /\ staffed' = {g \in staffed \ DOMAIN turn.writes : stored'[g] # 0}
  BY DEF CommitRun
<1>3. /\ stored' \in [Goal -> 0..2] /\ \A g \in Goal : stored'[g] \in Value(g) \cup {0}
      /\ \A g \in corrected : stored'[g] = stored[g]
      /\ \A g \in withdrawn : stored'[g] = 0
      /\ NoContradiction'
  BY <1>1, <1>2, WrittenStands DEF InterviewInvariant
<1> QED
  BY <1>2, <1>3 DEF InterviewInvariant, AnswersInvariant

-----------------------------------------------------------------------------
(* The run.                                                                *)

AnswersUnchanged == UNCHANGED <<stored, corrected, staffed, withdrawn>>

LEMMA AnswersKept ==
  ASSUME AnswersInvariant, AnswersUnchanged
  PROVE  AnswersInvariant'
BY DEF AnswersUnchanged, AnswersInvariant, NoContradiction

\* The work moves: a message is heard, staff take over, resume or close.
MovingSteps == HearTestimony \/ TakeOverInterview \/ ResumeInterview \/ CloseInterview

LEMMA DecisionTyped ==
  ASSUME RunTyped, Decision
  PROVE  /\ spent' \in [decisions : 0..MaxDecisions, lost : 0..MaxLostRuns]
         /\ spent'.lost = spent.lost
BY InterviewAssumption DEF RunTyped, Decision

LEMMA MovingStep == InterviewInvariant /\ MovingSteps => InterviewInvariant'
<1> SUFFICES ASSUME InterviewInvariant, MovingSteps PROVE InterviewInvariant'
  OBVIOUS
<1>0. RunInvariant /\ AnswersInvariant /\ RunTyped
  BY DEF InterviewInvariant, RunInvariant
<1>1. Moves /\ AnswersUnchanged /\ UNCHANGED <<arrived, cursor, goals, hostileTurns>>
  BY DEF MovingSteps, HearTestimony, TakeOverInterview, ResumeInterview, CloseInterview,
     AnswersUnchanged
<1>2. /\ turn' \in Runs /\ turn'.step = turn.step /\ paid' = 0
      /\ turn.step # "none" => turn'.moved = TRUE
      /\ turn.step = "planned" /\ PlanIsSound(turn) => PlanIsSound(turn')
  BY <1>0, <1>1, MovedRun DEF RunTyped
<1>3. /\ spent' \in [decisions : 0..MaxDecisions, lost : 0..MaxLostRuns]
      /\ spent'.lost \in Nat
  BY <1>0, DecisionTyped, InterviewAssumption
  DEF MovingSteps, HearTestimony, TakeOverInterview, ResumeInterview, CloseInterview, RunTyped
<1>4. /\ heard' \in Nat /\ heard <= heard' /\ heard' <= arrived
      /\ \/ heard' = heard /\ question' = question
         \/ question' = 0
      /\ control' \in {"bot", "awaiting", "human"}
      /\ ended' \in {"open", "completed", "declined", "staff"}
  BY <1>0
  DEF MovingSteps, HearTestimony, TakeOverInterview, ResumeInterview, CloseInterview, RunTyped
<1>5. RunTyped'
  BY <1>0, <1>1, <1>2, <1>3, <1>4 DEF RunTyped
<1>6. WorkIsPaidOnce'
  <2>1. turn.step # "none" => turn'.moved
    BY <1>2
  <2> QED
    BY <1>2, <1>3, <2>1 DEF WorkIsPaidOnce
<1>7. QuestionWaits'
  BY <1>0, <1>1, <1>2, <1>4 DEF RunInvariant, QuestionWaits
<1>8. turn'.step = "planned" => PlanIsSound(turn)'
  BY <1>0, <1>1, <1>2 DEF RunInvariant, PlanIsSound
<1> QED
  BY <1>0, <1>1, <1>5, <1>6, <1>7, <1>8, AnswersKept DEF InterviewInvariant, RunInvariant

\* Operators rule on answers; the run does not notice.
LEMMA RulingStep ==
  ASSUME InterviewInvariant, NEW g \in Goal,
         (\E v \in Value(g) : CorrectAnswer(g, v)) \/ WithdrawAnswer(g) \/ RecordAnswer(g)
  PROVE  InterviewInvariant'
<1>1. Rules
  BY DEF CorrectAnswer, WithdrawAnswer, RecordAnswer
<1>2. /\ spent' \in [decisions : 0..MaxDecisions, lost : 0..MaxLostRuns]
      /\ spent'.lost = spent.lost
  BY <1>1, DecisionTyped DEF Rules, InterviewInvariant, RunInvariant
<1>3. UNCHANGED <<arrived, heard, cursor, goals, control, ended, hostileTurns, question, turn, paid>>
  BY <1>1 DEF Rules
<1>4. RunTyped' /\ WorkIsPaidOnce' /\ QuestionWaits'
  BY <1>2, <1>3 DEF InterviewInvariant, RunInvariant, RunTyped, WorkIsPaidOnce, QuestionWaits
<1>5. (turn.step = "planned" => PlanIsSound(turn))'
  BY <1>3 DEF InterviewInvariant, RunInvariant, PlanIsSound
<1>6. AnswersInvariant'
  BY RulingKeepsAnswers DEF InterviewInvariant
<1> QED
  BY <1>4, <1>5, <1>6 DEF InterviewInvariant, RunInvariant

LEMMA ArriveStep == InterviewInvariant /\ ArriveTestimony => InterviewInvariant'
<1> SUFFICES ASSUME InterviewInvariant, ArriveTestimony PROVE InterviewInvariant'
  OBVIOUS
<1>0. RunInvariant /\ AnswersInvariant /\ RunTyped
  BY DEF InterviewInvariant, RunInvariant
<1>1. /\ arrived < MaxTestimony /\ arrived' = arrived + 1 /\ AnswersUnchanged
      /\ UNCHANGED <<heard, cursor, goals, control, ended, hostileTurns, question, turn, paid, spent>>
  BY DEF ArriveTestimony, AnswersUnchanged
<1>2. RunTyped'
  BY <1>0, <1>1, InterviewAssumption DEF RunTyped
<1>3. WorkIsPaidOnce' /\ QuestionWaits'
  BY <1>0, <1>1 DEF RunInvariant, RunTyped, WorkIsPaidOnce, QuestionWaits
<1>4. ASSUME turn.step = "planned" PROVE PlanIsSound(turn)'
  <2>1. turn.upto \in Nat /\ PlanIsSound(turn)
    BY <1>0, <1>4, RunByStep DEF RunInvariant, RunTyped
  <2> QED
    BY <1>0, <1>1, <2>1 DEF PlanIsSound, RunTyped
<1> QED
  BY <1>0, <1>1, <1>2, <1>3, <1>4, AnswersKept DEF InterviewInvariant, RunInvariant

\* A run is admitted when there is something to read and nothing on its way.
LEMMA AdmitStep == InterviewInvariant /\ AdmitRun => InterviewInvariant'
<1> SUFFICES ASSUME InterviewInvariant, AdmitRun PROVE InterviewInvariant'
  OBVIOUS
<1>0. RunInvariant /\ AnswersInvariant /\ RunTyped
  BY DEF InterviewInvariant, RunInvariant
<1>1. /\ turn = NoTurn /\ ended = "open" /\ control = "bot" /\ cursor < heard /\ arrived = heard
      /\ turn' = [step |-> "asking", moved |-> FALSE, upto |-> heard,
                  known |-> stored, frozen |-> corrected]
      /\ paid' = paid + 1 /\ AnswersUnchanged
      /\ UNCHANGED <<arrived, heard, cursor, goals, control, ended, hostileTurns, question, spent>>
  BY DEF AdmitRun, AnswersUnchanged
<1>2. turn' \in AskingRun /\ turn'.step = "asking" /\ turn'.moved = FALSE /\ turn'.upto = heard
  BY <1>0, <1>1, InterviewAssumption DEF RunTyped, AnswersInvariant, AskingRun
<1>3. RunTyped'
  BY <1>0, <1>1, <1>2 DEF RunTyped, Runs
<1>4. paid <= spent.lost
  BY <1>0, <1>1 DEF RunInvariant, WorkIsPaidOnce, NoTurn
<1>5. spent.lost \in Nat
  BY <1>0, InterviewAssumption DEF RunTyped
<1>6. WorkIsPaidOnce'
  BY <1>0, <1>1, <1>2, <1>4, <1>5 DEF WorkIsPaidOnce, RunTyped
<1>7. QuestionWaits'
  BY <1>0, <1>1 DEF RunInvariant, RunTyped, QuestionWaits
<1> QED
  BY <1>0, <1>1, <1>2, <1>3, <1>6, <1>7, AnswersKept DEF InterviewInvariant, RunInvariant

LEMMA LoseStep == InterviewInvariant /\ LoseRun => InterviewInvariant'
<1> SUFFICES ASSUME InterviewInvariant, LoseRun PROVE InterviewInvariant'
  OBVIOUS
<1>0. RunInvariant /\ AnswersInvariant /\ RunTyped
  BY DEF InterviewInvariant, RunInvariant
<1>1. /\ spent.lost < MaxLostRuns /\ spent' = [spent EXCEPT !.lost = @ + 1]
      /\ turn' = NoTurn /\ AnswersUnchanged
      /\ UNCHANGED <<arrived, heard, cursor, goals, control, ended, hostileTurns, question, paid>>
  BY DEF LoseRun, AnswersUnchanged
<1>2. /\ spent' \in [decisions : 0..MaxDecisions, lost : 0..MaxLostRuns]
      /\ spent'.lost = spent.lost + 1 /\ spent.lost \in Nat
  BY <1>0, <1>1, InterviewAssumption DEF RunTyped
<1>3. RunTyped'
  BY <1>0, <1>1, <1>2 DEF RunTyped, Runs
<1>4. WorkIsPaidOnce'
  <2>1. paid <= spent'.lost /\ turn'.step = "none"
    BY <1>0, <1>1, <1>2 DEF RunInvariant, RunTyped, WorkIsPaidOnce, NoTurn
  <2> QED
    BY <1>0, <1>1, <1>2, <2>1 DEF RunTyped, WorkIsPaidOnce
<1>5. QuestionWaits'
  BY <1>0, <1>1 DEF RunInvariant, QuestionWaits, NoTurn
<1>6. turn'.step # "planned"
  BY <1>1 DEF NoTurn
<1> QED
  BY <1>0, <1>1, <1>3, <1>4, <1>5, <1>6, AnswersKept DEF InterviewInvariant, RunInvariant

LEMMA PlanStep == InterviewInvariant /\ PlanTurn => InterviewInvariant'
<1> SUFFICES ASSUME InterviewInvariant, PlanTurn PROVE InterviewInvariant'
  OBVIOUS
<1>0. RunInvariant /\ AnswersInvariant /\ RunTyped
  BY DEF InterviewInvariant, RunInvariant
<1>1. /\ turn.step = "asking" /\ AnswersUnchanged
      /\ UNCHANGED <<arrived, heard, cursor, goals, control, ended, hostileTurns, question, paid, spent>>
  BY DEF PlanTurn, AnswersUnchanged
<1>2. Planning
  BY <1>0, <1>1, RunByStep, InterviewAssumption DEF Planning, RunTyped
<1>3. /\ turn' \in PlannedRun /\ turn'.moved = turn.moved /\ turn'.upto = turn.upto
      /\ PlanIsSound(turn')
  BY <1>2, PlanTurnPlans
<1>4. turn'.step = "planned"
  BY <1>3 DEF PlannedRun
<1>5. RunTyped'
  BY <1>0, <1>1, <1>3 DEF RunTyped, Runs
<1>6. WorkIsPaidOnce' /\ QuestionWaits'
  BY <1>0, <1>1, <1>3, <1>4 DEF RunInvariant, WorkIsPaidOnce, QuestionWaits
<1>7. PlanIsSound(turn)'
  BY <1>1, <1>3 DEF PlanIsSound
<1> QED
  BY <1>0, <1>1, <1>5, <1>6, <1>7, AnswersKept DEF InterviewInvariant, RunInvariant

LEMMA OverflowStep == InterviewInvariant /\ OverflowRun => InterviewInvariant'
<1> SUFFICES ASSUME InterviewInvariant, OverflowRun PROVE InterviewInvariant'
  OBVIOUS
<1>0. RunInvariant /\ AnswersInvariant /\ RunTyped
  BY DEF InterviewInvariant, RunInvariant
<1>1. /\ turn.step = "planned" /\ turn' = [step |-> "braking", moved |-> FALSE]
      /\ AnswersUnchanged
      /\ UNCHANGED <<arrived, heard, cursor, goals, control, ended, hostileTurns, question, paid, spent>>
  BY DEF OverflowRun, AnswersUnchanged
<1>2. turn' \in BrakingRun /\ turn'.step = "braking" /\ turn'.moved = FALSE
  BY <1>1 DEF BrakingRun
<1>3. RunTyped'
  BY <1>0, <1>1, <1>2 DEF RunTyped, Runs
<1>4. WorkIsPaidOnce' /\ QuestionWaits'
  BY <1>0, <1>1, <1>2 DEF RunInvariant, WorkIsPaidOnce, QuestionWaits
<1> QED
  BY <1>0, <1>1, <1>2, <1>3, <1>4, AnswersKept DEF InterviewInvariant, RunInvariant

\* The bot is stopped, unless the work moved and nothing of it was paid.
LEMMA BrakeStep == InterviewInvariant /\ BrakeRun => InterviewInvariant'
<1> SUFFICES ASSUME InterviewInvariant, BrakeRun PROVE InterviewInvariant'
  OBVIOUS
<1>0. RunInvariant /\ AnswersInvariant /\ RunTyped
  BY DEF InterviewInvariant, RunInvariant
<1>1. /\ turn.step = "braking" /\ turn' = NoTurn /\ AnswersUnchanged
      /\ control' = IF turn.moved THEN control ELSE "awaiting"
      /\ UNCHANGED <<arrived, heard, cursor, goals, ended, hostileTurns, question, paid, spent>>
  BY DEF BrakeRun, AnswersUnchanged
<1>2. RunTyped'
  BY <1>0, <1>1 DEF RunTyped, Runs
<1>3. WorkIsPaidOnce'
  <2>1. turn.moved => paid = 0
    BY <1>0, <1>1 DEF RunInvariant, WorkIsPaidOnce
  <2>2. turn'.step = "none" /\ spent.lost \in Nat
    BY <1>0, <1>1, InterviewAssumption DEF NoTurn, RunTyped
  <2> QED
    BY <1>0, <1>1, <2>1, <2>2 DEF RunInvariant, WorkIsPaidOnce
<1>4. QuestionWaits' /\ turn'.step # "planned"
  BY <1>0, <1>1 DEF RunInvariant, QuestionWaits, NoTurn
<1> QED
  BY <1>0, <1>1, <1>2, <1>3, <1>4, AnswersKept DEF InterviewInvariant, RunInvariant

-----------------------------------------------------------------------------
(* A run commits.                                                          *)

LEMMA MinOfTwo ==
  ASSUME NEW a \in Nat, NEW b \in Nat
  PROVE  Min({a, b}) \in {a, b} /\ Min({a, b}) <= a /\ Min({a, b}) <= b
<1>1. \E x \in {a, b} : \A y \in {a, b} : x <= y
  OBVIOUS
<1> QED
  BY <1>1 DEF Min

\* The decision a run commits: the one with the reply, or the one without.
Silenced == turn.moved \/ (turn.sent /\ turn.fresh /\ arrived > turn.upto)
Committed ==
  IF ~Silenced THEN turn.decided
  ELSE IF turn.decided.ends # "open" THEN [turn.silent EXCEPT !.ends = "open"] ELSE turn.silent
Applies == ~turn.moved /\ ~turn.superseded

LEMMA CommittedIsSound ==
  ASSUME InterviewInvariant, turn.step = "planned"
  PROVE  /\ turn \in PlannedRun /\ Committed \in TurnDecision /\ Sound(Committed)
         /\ Committed = turn.decided \/ Silenced
<1>1. turn \in PlannedRun /\ PlanIsSound(turn)
  BY RunByStep DEF InterviewInvariant, RunInvariant, RunTyped
<1>2. /\ turn.decided \in TurnDecision /\ turn.silent \in TurnDecision
      /\ Sound(turn.decided) /\ Sound(turn.silent)
  BY <1>1 DEF PlannedRun, PlanIsSound
<1>3. CASE ~Silenced
  BY <1>1, <1>2, <1>3 DEF Committed
<1>4. CASE Silenced /\ turn.decided.ends # "open"
  <2> DEFINE d == [turn.silent EXCEPT !.ends = "open"]
  <2>1. d \in TurnDecision /\ d.ends = "open"
    BY <1>2 DEF TurnDecision, Closings
  <2>2. Committed = d
    BY <1>4 DEF Committed
  <2> QED
    BY <1>1, <1>4, <2>1, <2>2 DEF Sound
<1>5. CASE Silenced /\ turn.decided.ends = "open"
  BY <1>1, <1>2, <1>5 DEF Committed
<1> QED
  BY <1>3, <1>4, <1>5

\* What the transaction of a run leaves behind.
LEMMA CommitEffects ==
  ASSUME CommitRun
  PROVE  /\ turn.step = "planned" /\ goals' = Committed.goals
         /\ hostileTurns' = IF turn.hostile THEN Min({hostileTurns + 1, CalmReplies + 1})
                            ELSE hostileTurns
         /\ question' = IF turn.sent /\ ~Silenced THEN turn.asks ELSE question
         /\ cursor' = IF Applies THEN turn.upto ELSE cursor
         /\ ended' = IF Applies THEN Committed.ends ELSE ended
         /\ control' = IF Applies /\ Committed.ends = "open" /\ Committed.waits
                       THEN "awaiting" ELSE control
         /\ turn' = NoTurn /\ UNCHANGED <<arrived, heard, paid, spent>>
BY DEF CommitRun, Committed, Silenced, Applies

LEMMA CommitStep == InterviewInvariant /\ CommitRun => InterviewInvariant'
<1> SUFFICES ASSUME InterviewInvariant, CommitRun PROVE InterviewInvariant'
  OBVIOUS
<1>0. RunInvariant /\ AnswersInvariant /\ RunTyped /\ turn.step = "planned"
  BY CommitEffects DEF InterviewInvariant, RunInvariant
<1>1. turn \in PlannedRun /\ Committed \in TurnDecision
  BY <1>0, CommittedIsSound
<1>2. PlanIsSound(turn)
  BY <1>0 DEF RunInvariant
<1>3. /\ turn.moved \in BOOLEAN /\ turn.superseded \in BOOLEAN /\ turn.hostile \in BOOLEAN
      /\ turn.sent \in BOOLEAN /\ turn.asks \in Goal \cup {0} /\ turn.upto \in Nat
      /\ Committed.goals \in [Goal -> Status] /\ Committed.ends \in Closings
  BY <1>1 DEF PlannedRun, TurnDecision
<1>4. hostileTurns' \in 0..(CalmReplies + 1)
  <2>1. hostileTurns \in 0..(CalmReplies + 1) /\ CalmReplies \in Nat
    BY <1>0, InterviewAssumption DEF RunTyped
  <2>2. Min({hostileTurns + 1, CalmReplies + 1}) \in 0..(CalmReplies + 1)
    BY <2>1, MinOfTwo
  <2> QED
    BY <2>1, <2>2, CommitEffects
<1>5. Applies => turn.upto = heard
  BY <1>0 DEF Applies, RunInvariant, WorkIsPaidOnce
<1>6. cursor' = IF Applies THEN heard ELSE cursor
  BY <1>5, CommitEffects
<1>7. RunTyped'
  <2>1. UNCHANGED <<arrived, heard, paid, spent>> /\ turn' = NoTurn /\ goals' \in [Goal -> Status]
    BY <1>3, CommitEffects
  <2>2. cursor' \in Nat /\ cursor' <= heard
    BY <1>0, <1>6 DEF RunTyped
  <2>3. /\ control' \in {"bot", "awaiting", "human"}
        /\ ended' \in {"open", "completed", "declined", "staff"} /\ question' \in Goal \cup {0}
    BY <1>0, <1>3, CommitEffects DEF RunTyped, Closings
  <2> QED
    BY <1>0, <1>4, <2>1, <2>2, <2>3 DEF RunTyped, Runs
<1>8. ~Applies => turn.moved \/ arrived > heard
  BY <1>0, <1>2, <1>3 DEF Applies, RunInvariant, WorkIsPaidOnce, PlanIsSound
<1>9. WorkIsPaidOnce'
  <2>1. turn'.step = "none" /\ UNCHANGED <<arrived, heard, paid, spent>>
    BY CommitEffects DEF NoTurn
  <2>2. paid <= 1 + spent.lost
    BY <1>0 DEF RunInvariant, WorkIsPaidOnce
  <2>3. turn.moved => paid = 0
    BY <1>0 DEF RunInvariant, WorkIsPaidOnce
  <2>4. spent.lost \in Nat
    BY <1>0, InterviewAssumption DEF RunTyped
  <2>5. cursor' < heard' /\ arrived' = heard' => turn.moved
    BY <1>0, <1>6, <1>8, <2>1 DEF RunTyped
  <2> QED
    BY <2>1, <2>2, <2>3, <2>4, <2>5 DEF WorkIsPaidOnce
<1>10. QuestionWaits'
  <2>1. question = 0
    BY <1>0 DEF RunInvariant, QuestionWaits
  <2>2. ~Applies => turn.moved \/ ~turn.sent
    BY <1>2, <1>3 DEF Applies, PlanIsSound
  <2>3. ~Applies => question' = 0
    BY <2>1, <2>2, CommitEffects DEF Silenced
  <2>4. turn'.step = "none" /\ heard' = heard
    BY CommitEffects DEF NoTurn
  <2> QED
    BY <1>6, <2>3, <2>4 DEF QuestionWaits
<1>11. turn'.step # "planned"
  BY CommitEffects DEF NoTurn
<1> QED
  BY <1>0, <1>7, <1>9, <1>10, <1>11, CommitKeepsAnswers DEF InterviewInvariant, RunInvariant

-----------------------------------------------------------------------------
(* The theorems.                                                           *)

LEMMA InterviewStarts == InterviewInit => InterviewInvariant
<1> SUFFICES ASSUME InterviewInit PROVE InterviewInvariant
  OBVIOUS
<1>1. /\ arrived = 0 /\ heard = 0 /\ cursor = 0
      /\ goals = [g \in Goal |-> "pending"]
      /\ stored = [g \in Goal |-> 0] /\ corrected = {} /\ staffed = {} /\ withdrawn = {}
      /\ control = "bot" /\ ended = "open" /\ hostileTurns = 0 /\ question = 0
      /\ turn = NoTurn /\ paid = 0 /\ spent = [decisions |-> 0, lost |-> 0]
  BY DEF InterviewInit
<1>2. AnswersInvariant
  BY <1>1 DEF AnswersInvariant, NoContradiction
<1>3. RunTyped
  BY <1>1, InterviewAssumption DEF RunTyped, Runs, Status
<1>4. WorkIsPaidOnce /\ QuestionWaits /\ turn.step # "planned"
  BY <1>1 DEF WorkIsPaidOnce, QuestionWaits, NoTurn
<1> QED
  BY <1>2, <1>3, <1>4 DEF InterviewInvariant, RunInvariant

LEMMA InterviewStutters ==
  InterviewInvariant /\ UNCHANGED interviewVars => InterviewInvariant'
<1> SUFFICES ASSUME InterviewInvariant, UNCHANGED interviewVars PROVE InterviewInvariant'
  OBVIOUS
<1>1. AnswersUnchanged /\ UNCHANGED <<arrived, heard, cursor, goals, control, ended, hostileTurns,
                                      question, turn, paid, spent>>
  BY DEF interviewVars, AnswersUnchanged
<1>2. AnswersInvariant'
  BY <1>1, AnswersKept DEF InterviewInvariant
<1>3. RunTyped' /\ WorkIsPaidOnce' /\ QuestionWaits'
  BY <1>1 DEF InterviewInvariant, RunInvariant, RunTyped, WorkIsPaidOnce, QuestionWaits
<1>4. (turn.step = "planned" => PlanIsSound(turn))'
  BY <1>1 DEF InterviewInvariant, RunInvariant, PlanIsSound
<1> QED
  BY <1>2, <1>3, <1>4 DEF InterviewInvariant, RunInvariant

LEMMA InterviewSteps ==
  InterviewInvariant /\ [InterviewNext]_interviewVars => InterviewInvariant'
<1> SUFFICES ASSUME InterviewInvariant, [InterviewNext]_interviewVars PROVE InterviewInvariant'
  OBVIOUS
<1>1. CASE ArriveTestimony
  BY <1>1, ArriveStep
<1>2. CASE HearTestimony \/ TakeOverInterview \/ ResumeInterview \/ CloseInterview
  BY <1>2, MovingStep DEF MovingSteps
<1>3. ASSUME NEW g \in Goal,
             (\E v \in Value(g) : CorrectAnswer(g, v)) \/ WithdrawAnswer(g) \/ RecordAnswer(g)
      PROVE  InterviewInvariant'
  BY <1>3, RulingStep
<1>4. CASE AdmitRun
  BY <1>4, AdmitStep
<1>5. CASE LoseRun
  BY <1>5, LoseStep
<1>6. CASE PlanTurn
  BY <1>6, PlanStep
<1>7. CASE CommitRun
  BY <1>7, CommitStep
<1>8. CASE OverflowRun
  BY <1>8, OverflowStep
<1>9. CASE BrakeRun
  BY <1>9, BrakeStep
<1>10. CASE UNCHANGED interviewVars
  BY <1>10, InterviewStutters
<1> QED
  BY <1>1, <1>2, <1>3, <1>4, <1>5, <1>6, <1>7, <1>8, <1>9, <1>10 DEF InterviewNext

\* The inductive invariant holds in every state of the questionnaire.
THEOREM InterviewInvariantHolds == InterviewSpec => []InterviewInvariant
BY InterviewStarts, InterviewSteps, PTL DEF InterviewSpec

LEMMA InterviewTypes == InterviewInvariant => InterviewTypeOK
<1> SUFFICES ASSUME InterviewInvariant PROVE InterviewTypeOK
  OBVIOUS
<1>0. AnswersInvariant /\ RunTyped /\ WorkIsPaidOnce
  BY DEF InterviewInvariant, RunInvariant
<1>1. {arrived, heard, cursor} \subseteq 0..MaxTestimony /\ cursor <= heard /\ heard <= arrived
  BY <1>0, InterviewAssumption DEF RunTyped
<1>2. paid \in 0..(1 + MaxLostRuns)
  BY <1>0, InterviewAssumption DEF RunTyped, WorkIsPaidOnce
<1>3. turn # NoTurn => turn.step \in {"asking", "planned", "braking"} /\ turn.moved \in BOOLEAN
  BY <1>0, RunByStep DEF RunTyped
<1> QED
  BY <1>0, <1>1, <1>2, <1>3 DEF InterviewTypeOK, AnswersInvariant, RunTyped

\* The variables of the questionnaire have their types.
THEOREM InterviewTyped == InterviewSpec => []InterviewTypeOK
BY InterviewTypes, InterviewInvariantHolds, PTL

\* Nobody is liked and avoided: of two answers that contradict each other a run keeps
\* the later one, and staff take back the one a recorded answer contradicts.
THEOREM ContradictionFree == InterviewSpec => []NoContradiction
<1>1. InterviewInvariant => NoContradiction
  BY DEF InterviewInvariant, AnswersInvariant
<1> QED
  BY <1>1, InterviewInvariantHolds, PTL

\* A run that was not lost is the only one that is paid for one state of the work.
THEOREM WorkPaidOnce == InterviewSpec => []PaidOnce
<1>1. InterviewInvariant => PaidOnce
  BY DEF InterviewInvariant, RunInvariant, WorkIsPaidOnce, PaidOnce
<1> QED
  BY <1>1, InterviewInvariantHolds, PTL

\* Only staff decide about an answer they ruled on: of the steps that are not theirs,
\* only the commit of a run writes answers, and it refuses corrections and tombstones.
THEOREM StaffDecide == InterviewSpec => OperatorsDecide
<1> DEFINE Stands == spent'.decisions = spent.decisions =>
                       \A g \in Goal : /\ g \in corrected => stored'[g] = stored[g]
                                      /\ g \in withdrawn => stored'[g] = 0
<1>1. InterviewInvariant /\ [InterviewNext]_interviewVars => Stands
  <2> SUFFICES ASSUME InterviewInvariant, [InterviewNext]_interviewVars,
                      spent'.decisions = spent.decisions
               PROVE  \A g \in Goal : /\ g \in corrected => stored'[g] = stored[g]
                                     /\ g \in withdrawn => stored'[g] = 0
    OBVIOUS
  <2>0. spent \in [decisions : 0..MaxDecisions, lost : 0..MaxLostRuns]
    BY DEF InterviewInvariant, RunInvariant, RunTyped
  <2>1. ~Decision
    BY <2>0, InterviewAssumption DEF Decision
  <2>2. CASE CommitRun
    BY <2>2, CommitKeepsAnswers
  <2>3. CASE UNCHANGED stored
    BY <2>3 DEF InterviewInvariant, AnswersInvariant
  <2>4. CommitRun \/ UNCHANGED stored
    <3>1. ~TakeOverInterview /\ ~ResumeInterview /\ ~CloseInterview
      BY <2>1 DEF TakeOverInterview, ResumeInterview, CloseInterview
    <3>2. ASSUME NEW g \in Goal
          PROVE  ~(\E v \in Value(g) : CorrectAnswer(g, v)) /\ ~WithdrawAnswer(g) /\ ~RecordAnswer(g)
      BY <2>1 DEF CorrectAnswer, WithdrawAnswer, RecordAnswer, Rules
    <3> QED
      BY <3>1, <3>2 DEF InterviewNext, ArriveTestimony, HearTestimony, AdmitRun, LoseRun, PlanTurn,
         OverflowRun, BrakeRun, interviewVars
  <2> QED
    BY <2>2, <2>3, <2>4
<1>2. InterviewSpec => [][Stands]_interviewVars
  BY <1>1, InterviewInvariantHolds, PTL DEF InterviewSpec
<1> QED
  BY <1>2 DEF OperatorsDecide

\* A bot that closes owes nothing: a plan that ends the conversation settles every goal
\* and asks nothing new, and it is applied only to the transcript it has read.
THEOREM CloseEarned == InterviewSpec => CloseIsEarned
<1> DEFINE Earned ==
             ended = "open" /\ ended' \in {"completed", "declined"} =>
               /\ \A g \in Goal : goals'[g] \in {"skipped", "answered"}
               /\ cursor' = heard' /\ (question' = 0 \/ turn.known[question'] # 0)
               /\ ended' = "completed" => \E g \in Goal : goals'[g] = "answered"
<1>1. InterviewInvariant /\ [InterviewNext]_interviewVars => Earned
  <2> SUFFICES ASSUME InterviewInvariant, [InterviewNext]_interviewVars,
                      ended = "open", ended' \in {"completed", "declined"}
               PROVE  /\ \A g \in Goal : goals'[g] \in {"skipped", "answered"}
                      /\ cursor' = heard' /\ (question' = 0 \/ turn.known[question'] # 0)
                      /\ ended' = "completed" => \E g \in Goal : goals'[g] = "answered"
    OBVIOUS
  <2>1. CommitRun
    BY DEF InterviewNext, ArriveTestimony, HearTestimony, TakeOverInterview, ResumeInterview,
       CloseInterview, CorrectAnswer, WithdrawAnswer, RecordAnswer, Rules, AdmitRun, LoseRun,
       PlanTurn, OverflowRun, BrakeRun, interviewVars
  <2>2. Applies /\ ended' = Committed.ends /\ turn.step = "planned" /\ goals' = Committed.goals
    BY <2>1, CommitEffects
  <2>3. Sound(Committed) /\ (Committed = turn.decided \/ Silenced)
    BY <2>2, CommittedIsSound
  <2>4. cursor' = heard'
    <3>1. turn.upto = heard
      BY <2>2 DEF Applies, InterviewInvariant, RunInvariant, WorkIsPaidOnce
    <3> QED
      BY <2>1, <2>2, <3>1, CommitEffects
  <2>5. question' = 0 \/ turn.known[question'] # 0
    <3>1. question = 0 /\ PlanIsSound(turn)
      BY <2>2 DEF InterviewInvariant, RunInvariant, QuestionWaits
    <3>2. CASE Silenced
      BY <2>1, <3>1, <3>2, CommitEffects
    <3>3. CASE ~Silenced
      <4>1. turn.decided.ends # "open"
        BY <2>2, <2>3, <3>3
      <4> QED
        BY <2>1, <3>1, <3>3, <4>1, CommitEffects DEF PlanIsSound
    <3> QED
      BY <3>2, <3>3
  <2> QED
    BY <2>2, <2>3, <2>4, <2>5 DEF Sound
<1>2. InterviewSpec => [][Earned]_interviewVars
  BY <1>1, InterviewInvariantHolds, PTL DEF InterviewSpec
<1> QED
  BY <1>2 DEF CloseIsEarned
=============================================================================
