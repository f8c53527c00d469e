CONSTANTS
  None = None
  a = a
  b = b
  Slots <- Two
  Names <- OneName
  Clients = {a,b}
  Fragments = 1
  Replies = 1
  Lifetime = 2
  MaxTime = 1
  MaxInvitations = 2
  MaxPairings = 2
  MaxFaults = 0
  MaxCrashes = 1
SPECIFICATION Spec
INVARIANTS StoreBoots
CHECK_DEADLOCK FALSE
SYMMETRY Same
