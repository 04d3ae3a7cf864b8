\* Timeout equal to the lease, several attempts per claim: a live worker is robbed of its step.
SPECIFICATION PromptSpec
CONSTANTS
  w1 = w1
  w2 = w2
  alice = alice
  none = none
  bad = bad
  plan = plan
  blank = blank
  text = text
  nobody = nobody
  Workers = {w1, w2}
  Nobody = nobody
  Owners = {alice}
  NoOwner = none
  BadOwner = bad
  Plans = {plan}
  NumSteps = 1
  Payloads = {blank}
  Blank = blank
  Lease = 2
  Stored0 <- MCFresh
  Timeout = 2
  MaxRetries = 1
  MaxIterations = 2
  MaxTime = 4
  MaxFaults = 0
  LastFault = 0
SYMMETRY Symmetry
INVARIANTS OneWorkerPerStep
