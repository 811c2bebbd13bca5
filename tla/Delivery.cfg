SPECIFICATION SpecD
CONSTANTS
  Tests = {"t1", "t2"}
  PackClaims = {"pc"}
  Toolchains <- MCToolchains
  InitTree <- MCTree
  Blocks = {"title"}
  FreshSpec = "s9"
  Versions <- MCVersions
  SpecStatuses = {"draft", "implemented", "replaced"}
  IssueStatuses = {"open", "closed"}
  PlanStatuses = {"active", "completed"}
  Maturities = {"defined", "delivered", "deprecated"}
  MaxEdits = 3
INVARIANTS MergedIsDelivered SweepIsTotal ClosedIsBacked StaleMeansOlder RemedyClosesGap
CHECK_DEADLOCK FALSE
