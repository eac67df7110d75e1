CONSTANTS
  u1 = u1  u2 = u2  s1 = s1  s2 = s2
  Users <- TwoUsers
  InitialOwners <- OneOwner
  Slots <- TwoSlots
  Kinds <- AllKinds
  MaxDeaths = 0
SPECIFICATION Spec
SYMMETRY SlotSymmetry
VIEW IdleView
INVARIANTS TypeOK CachesNeverInvent
PROPERTIES OnlyOwnersChangeOwners
