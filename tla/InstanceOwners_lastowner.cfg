CONSTANTS
  u1 = u1  u2 = u2  s1 = s1  s2 = s2
  Users <- TwoUsers
  InitialOwners <- TwoOwners
  Slots <- TwoSlots
  Kinds <- Changes
  MaxDeaths = 0
SPECIFICATION Spec
INVARIANTS AnOwnerRemains
