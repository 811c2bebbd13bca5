SPECIFICATION SpecP
CONSTANTS
  Authored <- MCPlan
  Files = {"b", "c"}
  Types = {"setup", "implementation", "documentation", "nonsense"}
  Names = {"t1"}
  Unknown = "t9"
  MaxEdits = 3
INVARIANTS ParallelIsDisjoint OrderIsKept NeverStuck OrderIsReachability
CHECK_DEADLOCK FALSE
