\* One fault of every kind: the bundle is settled in the end.
SPECIFICATION FairSpec
CONSTANTS
  w1 = w1
  w2 = w2
  alice = alice
  none = none
  bad = bad
  plan = plan
  blank = blank
  text = text
  nobody = nobody
  Workers = {w1, w2}
  Nobody = nobody
  Owners = {alice}
  NoOwner = none
  BadOwner = bad
  Plans = {plan}
  NumSteps = 2
  Payloads = {blank}
  Blank = blank
  Lease = 1
  Stored0 <- MCFresh
  Timeout = 1
  MaxRetries = 0
  MaxIterations = 2
  MaxTime = 3
  MaxFaults = 1
  LastFault = 1
PROPERTIES EventuallySettled
