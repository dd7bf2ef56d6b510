SPECIFICATION BackgroundSpec
CONSTANTS
  Components = {"interview", "summary", "topics", "assistant", "recovery", "calls", "poll", "email", "campaign",
                "pacer"}
  NGoals = 3
  Scored = {1}
  Liking = {2}
  Avoid = {3}
  CalmReplies = 1
  MaxVerdicts = 1
  MaxTestimony = 2
  MaxDecisions = 1
  MaxLostRuns = 1
  SummaryWorker = {w1, w2}
  NoRunner = NoRunner
  SummaryThread = {c1, c2}
  JobAttempts = 1
  MaxSummaryFaults = 1
  Analysis = {a1, a2}
  Analyst = {n1, n2}
  NoAnalyst = NoAnalyst
  Batch = {b1}
  AttemptLimit = 2
  RequestLimit = 1
  WakeupAttempts = 1
  Generator = {g1}
  Browser = {u1}
  MaxTurns = 2
  TurnJobAttempts = 1
  MaxRetries = 2
  MaxAssistantFaults = 0
  Keys = 2
  Poison = {1}
  Replica = {r1, r2}
  PageSize = 1
  ScanLimit = 2
  MaxPassCrashes = 1
  PaidCall = {p1, p2, p3}
  CallLimit = 2
  CallTimeout = 2
  SlotLease = 3
  MaxCallCrashes = 2
  NConvs = 4
  Queued = 2
  BatchSize = 2
  PollLimit = 3
  Full = {1}
  Broken = {2}
  MaxFaults = 1
  Courier = {k1, k2}
  Relay = {q1, q2}
  Unclaimed = Unclaimed
  EmailAttempts = 2
  RetryWindow = 2
  KeyRetention = 3
  MaxHold = 1
  MaxEmailFaults = 1
  Attendee = {g1, g2}
  Sharing = {g1, g2}
  Manager = {m1, m2}
  MaxRequests = 2
  MaxChanges = 1
  MaxLaunchFaults = 1
  Sender = {s1, s2}
  MinInterval = 3
  MaxJitter = 1
  MaxClock = 12
INVARIANTS
  BackgroundTypeOK
  NoContradiction PaidOnce
  FinalSummaryIsComplete OnePayer
  AnalysisIsSound CallsWithinLimit PollIsBounded
  EmailedOnce RowsAgree
PROPERTIES
  OperatorsDecide CloseIsEarned CloseIsTheEnd LaunchAccounts GrantsAreSpaced
  EndsAreFinal
CHECK_DEADLOCK FALSE
