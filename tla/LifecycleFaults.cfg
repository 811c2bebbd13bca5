SPECIFICATION FairSpec
CONSTANTS
  None = None
  Local = Local
  FileCount = 2
  PackYml = 1
  MetaFiles = {}
  Contents <- MCContents
  Names = {1}
  Coords = {1}
  Versions <- MCVersions
  Settings = {1}
  Values = {"x", "y"}
  Manifests <- MCManifests
  ValidTrees <- MCValid
  Weakens = {}
  Paths = {"p", "gone"}
  ScanAvailable = TRUE
  Candidates <- MCCandidates
  Env = {"crash", "fail", "checkout", "edit_installed", "fresh_clone"}
  MaxDisturbances = 3
  InitSource <- MCSource
  InitRemote <- MCRemote
  InitConf <- MCConf
INVARIANTS TypeOK RollbackRestores RemoveIsComplete ReplaceHeals
PROPERTY CommandTerminates
