CONSTANTS
  p1 = p1  p2 = p2  o1 = o1  o2 = o2  s1 = s1  s2 = s2
  q1 = q1  q2 = q2
  People <- TwoPeople
  Orgs <- OneOrg
  Slots <- Pair
  Sso = TRUE
  Faults = TRUE
  MaxInvites = 2
  Parts = {"members", "retention", "keys", "audit", "access", "secrets", "prompts", "annotations", "statistics", "comparison", "datasets", "traces", "rules"}
  Jobs = {1, 2}
  LastProject = 2
  RetentionBatch = 1
  MaxSettings = 1
  Experiments <- ThreeExperiments
  Evaluations <- ThreeEvaluations
  NewOnes = {"v1"}
  ProjectOf <- Belongs
  AgeOf <- Ages
  About <- Refers
  Admins <- Pair
  Clients = {"c"}
  MaxKeys = 3
  MaxEvents = 4
  MaxTime = 2
  Tick = 2
  AuditLimit = 1
  Accounts = {"boss", "u"}
  Bosses = {"boss"}
  OwnProjects <- TwoProjects
  pa = pa
  pb = pb
  Licensed = FALSE
  MaxHeld = 2
  Editors <- Pair
  Typed = {"k1"}
  MaxRequests = 3
  MaxRules = 2
  MaxEdits = 2
  OrgRole = "member"
  ProjectRole = "lead"
  Requests <- Pair
  PromptIds = {"u1", "u2"}
  PromptNames = {"greeting", "u1"}
  MaxVersions = 3
  MaxPromptCalls = 3
  Items = {"t1", "t2"}
  TraceSources = {"d1"}
  MaxQueued = 3
  MaxNotes = 2
  MaxQueueCalls = 4
  Readers = {"r"}
  MaxScores = 2
  StreamBatch = 1
  Codes = {"0", "1", "2"}
  Scales <- FourScales
  TextOf <- Digits
  Denominator = 6
  MaxPairs = 3
  DatasetIds = {1}
  RowIds = {11, 12}
  Values = {1, 2}
  Headers <- ThreeHeaders
  MaxRecords = 2
  ImportBatch = 1
  PageLimit = 1
  Backends <- SevenSources
  Spans <- FourSpans
  MaxSpans = 2
SPECIFICATION ServicesSpec
SYMMETRY ServicesSymmetry
INVARIANTS TypeOK OneFirstOwner SeatsWereAskedFor AcceptedWereSeated MembersHaveRoles
INVARIANTS RetentionSafety KeySafety AuditSafety AccessSafety 
INVARIANTS PromptSafety AnnotationSafety StatisticsSafety ComparisonSafety DatasetSafety TraceSafety
CHECK_DEADLOCK FALSE
