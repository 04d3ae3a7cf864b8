\* The Rust engine, on new and on old tables.
SPECIFICATION FairSpec
CONSTANTS
  c1 = c1
  c2 = c2
  i1 = i1
  i2 = i2
  i3 = i3
  i4 = i4
  i5 = i5
  i6 = i6
  i7 = i7
  i8 = i8
  alice = alice
  none = none
  bad = bad
  free = free
  Clients = {c1, c2}
  Items = {i1, i2, i3, i4, i5}
  Owners = {alice, none}
  BadOwner = bad
  Priorities = {0, 1}
  Calls <- MCCalls
  Legacy <- MCLegacy
  Engine = "rust"
  Free = free
  MaxTries = 2
  MaxFaults = 1
INVARIANTS TypeOK IndexHolds
PROPERTIES RowsKept HandedOutInOrder EventuallyIndexed
