CONSTANTS
  p1 = p1  p2 = p2  o1 = o1  o2 = o2  s1 = s1  s2 = s2
  People <- TwoPeople
  Orgs <- OneOrg
  Slots <- TwoSlots
  Sso = FALSE
  Faults = FALSE
  MaxInvites = 1
SPECIFICATION Spec
INVARIANTS FirstUserOwns
CHECK_DEADLOCK FALSE
