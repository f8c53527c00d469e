CONSTANTS
  None = None
  a = a
  b = b
  Slots <- Two
  Names <- OneName
  Clients = {a,b}
  Fragments = 2
  Replies = 1
  Lifetime = 0
  MaxTime = 1
  MaxInvitations = 2
  MaxPairings = 3
  MaxFaults = 1
  MaxCrashes = 1
SPECIFICATION Spec
INVARIANTS OneOwner RegistryIsDurable PairingsAreEarned
CHECK_DEADLOCK FALSE
SYMMETRY Same
