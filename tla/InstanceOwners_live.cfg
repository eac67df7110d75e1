CONSTANTS
  u1 = u1  u2 = u2  s1 = s1  s2 = s2
  Users <- TwoUsers
  InitialOwners <- TwoOwners
  Slots <- TwoSlots
  Kinds = {"remove"}
  MaxDeaths = 1
SPECIFICATION FairSpec
PROPERTIES RevocationTakesEffect
