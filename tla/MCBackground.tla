---------------------------- MODULE MCBackground ----------------------------
(***************************************************************************)
(* Small instances of components that share no state: the questionnaire,   *)
(* the campaign summary, the topic analyses, the assistant, the recovery   *)
(* passes, the limit on provider calls, the dispatch poll, an email, the   *)
(* launch of a campaign and the pacing of the senders.  A behaviour is     *)
(* about one of them, `focus`; the others stay as they begin.              *)
(***************************************************************************)
EXTENDS Interview, Summary, TopicAnalysis, Assistant, Recovery, ProviderCalls, DispatchPoll,
        Email, Campaign, Pacer

CONSTANT Components   \* those a run looks at

VARIABLE focus

backgroundVars ==
  <<focus, interviewVars, summaryVars, topicVars, assistantVars, recoveryVars, callVars, vars,
    emailVars, campaignVars, pacerVars>>

\* Nothing was ever queued.
Unpolled ==
  /\ left = [c \in Conv |-> 0] /\ head = [c \in Conv |-> "pending"]
  /\ live = [c \in Conv |-> FALSE] /\ job = "waiting" /\ claimed = 0
  /\ wave = {} /\ lanes = {} /\ deferred = FALSE /\ recovering = {} /\ faults = 0

BackgroundInit ==
  /\ focus \in Components
  /\ InterviewInit /\ SummaryInit /\ TopicInit /\ AssistantInit /\ RecoveryInit /\ CallInit
  /\ CampaignInit /\ PacerInit /\ EmailInit /\ (focus = "email" \/ configured)
  /\ IF focus = "poll" THEN Init ELSE Unpolled
  /\ focus = "recovery" \/ scan = "summary_auto"

BackgroundNext ==
  /\ UNCHANGED focus
  /\ IF focus = "interview" THEN InterviewNext ELSE UNCHANGED interviewVars
  /\ IF focus = "summary" THEN SummaryNext ELSE UNCHANGED summaryVars
  /\ IF focus = "topics" THEN TopicNext ELSE UNCHANGED topicVars
  /\ IF focus = "assistant" THEN AssistantNext ELSE UNCHANGED assistantVars
  /\ IF focus = "recovery" THEN RecoveryNext ELSE UNCHANGED recoveryVars
  /\ IF focus = "calls" THEN CallNext ELSE UNCHANGED callVars
  /\ IF focus = "poll" THEN Next ELSE UNCHANGED vars
  /\ IF focus = "email" THEN EmailNext ELSE UNCHANGED emailVars
  /\ IF focus = "campaign" THEN CampaignNext ELSE UNCHANGED campaignVars
  /\ IF focus = "pacer" THEN PacerNext ELSE UNCHANGED pacerVars

BackgroundSpec == BackgroundInit /\ [][BackgroundNext]_backgroundVars

\* The component that moves keeps its types; the others are as they began.
BackgroundTypeOK ==
  /\ focus = "interview" => InterviewTypeOK
  /\ focus = "summary" => SummaryTypeOK
  /\ focus = "topics" => TopicTypeOK
  /\ focus = "assistant" => AssistantTypeOK
  /\ focus = "recovery" => RecoveryTypeOK
  /\ focus = "calls" => CallTypeOK
  /\ focus = "poll" => TypeOK
  /\ focus = "email" => EmailTypeOK
  /\ focus = "campaign" => CampaignTypeOK
  /\ focus = "pacer" => PacerTypeOK

\* The maintenance passes come round, BullMQ hands out jobs and finds stalled ones,
\* leases run out, a request or a run that is under way goes on, and a transaction
\* that closes a conversation commits.
SummaryFair ==
  /\ WF_summaryVars(focus = "summary" /\ RecoverPending)
  /\ WF_summaryVars(focus = "summary" /\ LeaseEnds)
  /\ WF_summaryVars(focus = "summary" /\ Stalled)
  /\ WF_summaryVars(focus = "summary" /\ Ask("recovery"))
  /\ \A k \in Caller :
       WF_summaryVars(/\ focus = "summary" /\ caller[k].step # "idle"
                      /\ Ask(k) \/ Request(k) \/ PublishJob(k))
  /\ \A w \in SummaryWorker : WF_summaryVars(focus = "summary" /\ (Claim(w) \/ Run(w)))
  /\ \A c \in SummaryThread : WF_summaryVars(focus = "summary" /\ CommitClose(c))

\* The same of the analyses.  A delayed job is delivered again and again, between
\* the claims of other runs.
TopicFair ==
  /\ WF_topicVars(focus = "topics" /\ LeaseOver)
  /\ \A a \in Analysis :
       /\ WF_topicVars(focus = "topics" /\ RecoverDue(a))
       /\ WF_topicVars(focus = "topics" /\ StalledWakeup(a))
       /\ SF_topicVars(focus = "topics" /\ \E w \in Analyst : Claims(w, a))
  /\ \A w \in Analyst : WF_topicVars(focus = "topics" /\ \E a \in Analysis : Works(w, a))

\* Stale turns are looked for again and again, jobs are handed out and found
\* stalled, and what is under way goes on, but for the requests of the browser.
AssistantFair ==
  /\ WF_assistantVars(focus = "assistant" /\ Acts("recovery"))
  /\ \A t \in Turn :
       /\ WF_assistantVars(focus = "assistant" /\ RecoverTurn(t))
       /\ WF_assistantVars(focus = "assistant" /\ StalledTurn(t))
       /\ WF_assistantVars(focus = "assistant" /\ \E g \in Generator : Take(g, t))
  /\ \A g \in Generator : WF_assistantVars(focus = "assistant" /\ (Acts(g) \/ Executes(g)))

\* Passes begin again and again and go on.
RecoveryFair == \A r \in Replica : WF_recoveryVars(focus = "recovery" /\ PassStep(r))

\* Time passes, and calls end.
CallFair ==
  /\ WF_callVars(focus = "calls" /\ CallTick)
  /\ \A c \in PaidCall : WF_callVars(focus = "calls" /\ (AnswerCall(c) \/ ReleaseSlot(c)))

\* The schedule fires again and again, transactions and lanes end, leases run out.
PollFair ==
  /\ WF_vars(focus = "poll" /\ (StartPoll \/ ClaimWave \/ WaveEnds))
  /\ \A c \in Conv :
       /\ WF_vars(focus = "poll" /\ (QuarantineOne(c) \/ QuarantineThrows(c)))
       /\ WF_vars(focus = "poll" /\ Lane(c))
       /\ WF_vars(focus = "poll" /\ LeaseExpires(c))

\* The relay is scheduled every five seconds, the workers go on, leases and due times pass
\* and stalled jobs are found.
EmailFair ==
  /\ \A r \in Relay : WF_emailVars(focus = "email" /\ Publishing(r))
  /\ \A w \in Courier : WF_emailVars(focus = "email" /\ Delivering(w))
  /\ WF_emailVars(focus = "email" /\ \E w \in Courier : TakeJob(w))
  /\ WF_emailVars(focus = "email" /\ EventDue)
  /\ WF_emailVars(focus = "email" /\ StalledEmail)
  /\ WF_emailVars(focus = "email" /\ EmailDue)

BackgroundFairSpec ==
  /\ BackgroundSpec
  /\ SummaryFair /\ TopicFair /\ AssistantFair /\ RecoveryFair /\ CallFair /\ PollFair /\ EmailFair
=============================================================================
