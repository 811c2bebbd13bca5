SPECIFICATION Spec
CONSTANTS
  None = None
  User = User
  Torn = Torn
  Malformed = Malformed
  Recipes = {"svc", "doc"}
  Versions = {1, 2}
  Paths = {"conf", "main"}
  Texts = {"t1", "t2"}
  Anchored <- MCAnchored
  Keys = {"k"}
  Values = {"x"}
  Pieces = {"s"}
  Rules = {"rule"}
  Kind <- MCKind
  Ops <- MCOps
  Enforcement <- MCEnforcement
  InitFiles <- MCInitFiles
  Env = {"fails", "torn", "crash"}
  MaxWorld = 2
  MaxSplices = 3
INVARIANTS
  ClobberIsReported
  EditsAccountedFor
  OutputIsCurrent
  ReapplyIsStable
