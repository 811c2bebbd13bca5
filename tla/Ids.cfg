SPECIFICATION FairSpec
CONSTANTS
  Procs = {"a1", "a2", "b"}
  Clones = {"A", "B"}
  CloneOf <- MCCloneOf
  Slugs = {"s", "t"}
  SlugOf <- MCSlugOf
  MaxRetries = 1
  Env = {"offline", "lost", "protected", "crash"}
  MaxRuns = 1
  MaxNum = 10
INVARIANTS ReservedOnce TaggedFilesDiffer
PROPERTY ReservationEnds
CHECK_DEADLOCK FALSE
