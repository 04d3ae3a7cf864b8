\* The Rust engine, on a table in which one writer overtook another.
SPECIFICATION Spec
CONSTANTS
  c1 = c1
  c2 = c2
  i1 = i1
  i2 = i2
  i3 = i3
  i4 = i4
  i5 = i5
  i6 = i6
  i7 = i7
  i8 = i8
  alice = alice
  none = none
  bad = bad
  free = free
  Clients = {c1, c2}
  Items = {i1, i2, i3, i4, i5, i6, i7, i8}
  Owners = {alice, none}
  BadOwner = bad
  Priorities = {0, 1}
  Calls <- MCFewCalls
  Legacy <- MCOvertaken
  Engine = "rust"
  Free = free
  MaxTries = 2
  MaxFaults = 1
PROPERTIES OrderKept
