SPECIFICATION BackgroundSpec
CONSTANTS
  Components = {"interview"}
  NGoals = 3
  Scored = {1}
  Liking = {2}
  Avoid = {3}
  CalmReplies = 1
  MaxVerdicts = 1
  MaxTestimony = 2
  MaxDecisions = 1
  MaxLostRuns = 1
  SummaryWorker = {w1, w2}
  NoRunner = NoRunner
  SummaryThread = {c1, c2}
  JobAttempts = 1
  MaxSummaryFaults = 1
  Analysis = {a1, a2}
  Analyst = {n1, n2}
  NoAnalyst = NoAnalyst
  Batch = {b1}
  AttemptLimit = 2
  RequestLimit = 1
  WakeupAttempts = 1
  Generator = {g1}
  Browser = {u1}
  MaxTurns = 2
  TurnJobAttempts = 2
  MaxRetries = 1
  MaxAssistantFaults = 1
  Keys = 1
  Poison = {}
  Replica = {r1}
  PageSize = 1
  ScanLimit = 1
  MaxPassCrashes = 0
  PaidCall = {p1, p2, p3}
  CallLimit = 2
  CallTimeout = 2
  SlotLease = 3
  MaxCallCrashes = 2
  NConvs = 1
  Queued = 1
  BatchSize = 1
  PollLimit = 1
  Full = {}
  Broken = {}
  MaxFaults = 0
  Courier = {k1, k2}
  Relay = {q1}
  Unclaimed = Unclaimed
  EmailAttempts = 2
  RetryWindow = 2
  KeyRetention = 2
  MaxHold = 0
  MaxEmailFaults = 0
  Attendee = {g1, g2}
  Sharing = {g1, g2}
  Manager = {m1, m2}
  MaxRequests = 0
  MaxChanges = 0
  MaxLaunchFaults = 0
  Sender = {s1, s2}
  MinInterval = 3
  MaxJitter = 1
  MaxClock = 3
PROPERTY RespondentAnswers
CHECK_DEADLOCK FALSE
