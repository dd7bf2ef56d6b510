SPECIFICATION BackgroundFairSpec
CONSTANTS
  Components = {"summary", "topics", "assistant", "recovery", "calls", "poll", "email"}
  NGoals = 3
  Scored = {1}
  Liking = {2}
  Avoid = {3}
  CalmReplies = 1
  MaxVerdicts = 1
  MaxTestimony = 2
  MaxDecisions = 1
  MaxLostRuns = 1
  SummaryWorker = {w1}
  NoRunner = NoRunner
  SummaryThread = {c1}
  JobAttempts = 2
  MaxSummaryFaults = 1
  Analysis = {a1, a2}
  Analyst = {n1}
  NoAnalyst = NoAnalyst
  Batch = {b1}
  AttemptLimit = 2
  RequestLimit = 1
  WakeupAttempts = 1
  Generator = {g1}
  Browser = {u1}
  MaxTurns = 1
  TurnJobAttempts = 2
  MaxRetries = 2
  MaxAssistantFaults = 1
  Keys = 2
  Poison = {1}
  Replica = {r1, r2}
  PageSize = 1
  ScanLimit = 2
  MaxPassCrashes = 1
  PaidCall = {p1, p2, p3}
  CallLimit = 2
  CallTimeout = 2
  SlotLease = 3
  MaxCallCrashes = 2
  NConvs = 4
  Queued = 2
  BatchSize = 2
  PollLimit = 3
  Full = {1}
  Broken = {2}
  MaxFaults = 1
  Courier = {k1}
  Relay = {q1}
  Unclaimed = Unclaimed
  EmailAttempts = 2
  RetryWindow = 1
  KeyRetention = 2
  MaxHold = 1
  MaxEmailFaults = 1
  Attendee = {g1, g2}
  Sharing = {g1, g2}
  Manager = {m1, m2}
  MaxRequests = 0
  MaxChanges = 0
  MaxLaunchFaults = 0
  Sender = {s1, s2}
  MinInterval = 3
  MaxJitter = 1
  MaxClock = 3
INVARIANTS
  StoresAgree
PROPERTIES
  SummaryIsServed AnalysisEnds TurnSettles DueRowIsExamined SlotComesFree FailuresStayApart
  EmailSettles
CHECK_DEADLOCK FALSE
