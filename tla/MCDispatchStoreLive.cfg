\* One step, few calls: what must happen eventually.
SPECIFICATION FairSpec
CONSTANTS
  p1 = p1
  p2 = p2
  alice = alice
  none = none
  bad = bad
  planA = planA
  planB = planB
  blank = blank
  text = text
  free = free
  Procs = {p1, p2}
  Owners = {alice}
  NoOwner = none
  BadOwner = bad
  Plans = {planA, planB}
  NumSteps = 1
  Payloads = {blank, text}
  Blank = blank
  Lease = 0
  Calls <- MCFewCalls
  Legacy <- MCNothing
  MaxTime = 1
  Free = free
PROPERTIES LockReleased CallReturns
