CONSTANTS
  u1 = u1  u2 = u2  s1 = s1  s2 = s2
  Users <- OneUser
  Creator = u1
  Own <- ThreeRoles
  System <- SystemRoles
  Admin = "Admin"
  Member = "Member"
  OrgMember = "OrgMember"
  Slots <- TwoSlots
  Kinds <- AllKinds
  MaxDeaths = 1
SPECIFICATION Spec
SYMMETRY SlotSymmetry
VIEW IdleView
INVARIANTS TypeOK MembersKeepARole SecondRoleIsExplained
