SPECIFICATION SpecE
CONSTANTS
  BaseEngines <- MCBase
  GrepLike = {"grep"}
  Packs <- MCPacks
  PackOrder <- MCPackOrder
  Specs <- MCSpecs
  Floor = 50
  Facts <- MCFacts
  SourceFiles <- MCFiles
  FirstPacks = {"go", "house", "trace"}
  FirstFacts <- MCFirst
  FirstDue = {"s1"}
  Breakages <- MCBreakages
  Entries <- MCEntries
  MaxEdits = 2
INVARIANTS CleanScanIsReal FailureHidesNothing SweepCoversDiff QuietGreenIsEnforced CoverageHolds ContractsAreTrue SubstantiveMeansCalls
CHECK_DEADLOCK FALSE
