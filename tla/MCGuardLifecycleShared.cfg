\* Two sessions at the same time, and no faults.
SPECIFICATION Spec
CONSTANTS
  s1 = s1
  s2 = s2
  p1 = p1
  p2 = p2
  none = none
  Clients = {s1, s2}
  Pids = {p1, p2}
  None = none
  Ttl = 1
  Beats <- MCBeats
  MaxFaults = 0
PROPERTIES OnlyOrphansStopped
