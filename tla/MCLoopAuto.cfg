SPECIFICATION Spec
CONSTANTS
  w1 = w1
  w2 = w2
  alice = alice
  none = none
  bad = bad
  plan = plan
  blank = blank
  text = text
  nobody = nobody
  Workers = {w1, w2}
  Nobody = nobody
  Owners = {alice}
  NoOwner = none
  BadOwner = bad
  Plans = {plan}
  NumSteps = 3
  Payloads = {blank}
  Blank = blank
  Lease = 1
  Stored0 <- MCStored
  Timeout = 1
  MaxRetries = 1
  MaxIterations = 2
  MaxTime = 2
  MaxFaults = 1
  LastFault = 2
SYMMETRY Symmetry
INVARIANTS TypeOK CompleteIsWhole ReportedIsFinal AlwaysProgress NoOrphan
