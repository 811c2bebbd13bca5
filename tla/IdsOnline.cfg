SPECIFICATION Spec
CONSTANTS
  Procs = {"a1", "b"}
  Clones = {"A", "B"}
  CloneOf <- MCCloneOf
  Slugs = {"s", "t"}
  SlugOf <- MCSlugOf
  MaxRetries = 3
  Env = {}
  MaxRuns = 2
  MaxNum = 20
INVARIANT UniqueId
CHECK_DEADLOCK FALSE
