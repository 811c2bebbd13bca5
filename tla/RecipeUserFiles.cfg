SPECIFICATION Spec
CONSTANTS
  None = None
  User = User
  Torn = Torn
  Malformed = Malformed
  Recipes = {"svc", "doc"}
  Versions = {1, 2}
  Paths = {"conf", "main"}
  Texts = {"t1", "t2"}
  Anchored <- MCAnchored
  Keys = {"k"}
  Values = {"x"}
  Pieces = {"s"}
  Rules = {"rule"}
  Kind <- MCKind
  Ops <- MCOps
  Enforcement <- MCEnforcement
  InitFiles <- MCInitFiles
  Env = {}
  MaxWorld = 0
  MaxSplices = 3
INVARIANT UserFilesKept
