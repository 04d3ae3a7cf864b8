SPECIFICATION Spec
CONSTANTS
  p1 = p1
  p2 = p2
  alice = alice
  none = none
  bad = bad
  planA = planA
  planB = planB
  blank = blank
  text = text
  free = free
  Procs = {p1, p2}
  Owners = {alice}
  NoOwner = none
  BadOwner = bad
  Plans = {planA, planB}
  NumSteps = 2
  Payloads = {blank, text}
  Blank = blank
  Lease = 1
  Calls <- MCCalls
  Legacy <- MCLegacy
  MaxTime = 2
  Free = free
SYMMETRY Symmetry
INVARIANTS TypeOK NoLostUpdate AnswerStands BriefingStands
PROPERTIES Linearizable TerminalFinal FirstBundleWins LeaseRespected
