SPECIFICATION Spec
CONSTANTS
  None = None
  Local = Local
  FileCount = 3
  PackYml = 1
  MetaFiles <- MCMeta
  Contents <- MCContents
  Names = {1, 2}
  Coords = {1, 2}
  Versions <- MCVersions
  Settings = {1, 2}
  Values = {"x", "y"}
  Manifests <- MCManifests
  ValidTrees <- MCValid
  Weakens <- MCWeakens
  Paths = {"p"}
  ScanAvailable = TRUE
  Candidates <- MCCandidates
  Env = {"publish", "edit_source", "fresh_clone"}
  MaxDisturbances = 1
  InitSource <- MCSource
  InitRemote <- MCRemote
  InitConf <- MCConf
INVARIANTS LockedIsValidated ManifestLockAgree NoDrift InstallRestores AddIsReproducible
PROPERTY ImplementsPackStore
