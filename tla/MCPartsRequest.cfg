\* The request for summaries that compression leaves in its result.
SPECIFICATION PartsSpec
CONSTANTS
  alice = alice
  bob = bob
  c1 = c1
  c2 = c2
  plan1 = plan1
  plan2 = plan2
  v1 = v1
  blank = blank
  q1 = q1
  q2 = q2
  s1 = s1
  s2 = s2
  t1 = t1
  t2 = t2
  none = none
  bad = bad
  root = root
  init = init
  PlanRequests <- MCPlanRequests
  Snapshots <- MCSnapshots
  MaxChars = 6
  MaxTokens = 1
  FloorChars = 2
  MinTail = 0
  CharsPerToken = 2
  SimpleTokens = 1
  SimpleChars = 3
  VerifyTokens = 1
  VerifyChars = 4
  VagueChars = 3
  BriefChars = 2
  LongChars = 4
  Chats <- MCChats
  Options <- MCOptions
  Trigger = 7
  Target = 4
  CutMin = 2
  HeadTail = 2
  LongElision = 3
  DedupMin = 3
  MarkSize = 3
  DigestSize = 2
  SummarySizes = {1, 3}
  SummaryLimit = 2
  ShortMin = 2
  Callers = {c1, c2}
  Commands <- MCCommands
  Backends = {"native", "subprocess", "forced"}
  FirstFiles <- MCFiles
  Owners = {alice, bob}
  NoOwner = none
  BadOwner = bad
  Plans = {plan1, plan2}
  NumSteps = 1
  Payloads = {v1, blank}
  Blank = blank
  Lease = 1
  Procs = {q1, q2}
  RootPid = root
  Outside = init
  Protected = {q2}
  MaxBirths = 3
  Clerks = {c1, c2}
  WorkIds = {"w1"}
  WorkOwners = {alice, bob}
  AttemptLimits = {1}
  MaxLines = 3
  Priorities = {0, 1, 2}
  MaxSize = 2
  MaxArrivals = 5
  Servers = {s1, s2}
  NoServer = none
  RunModes <- MCRunModes
  Threads = {t1, t2}
  Main = t1
  Unlocked = none
  Handlers = {"ignored", "called", "default"}
  MaxDrivers = 3
  MaxSignals = 2
CHECK_DEADLOCK FALSE
INVARIANT RequestNamesRemovable
