SPECIFICATION Spec
CONSTANTS
  None = None
  Corrupt = Corrupt
  Findings = {"one", "two", "drift"}
  Attr <- MCAttr
  Files = {"a", "b", "s", "backstop.yml"}
  Rules = {"r", "w", "d", "c", "t", "n", "gone"}
  Packs = {"p", "q", "none"}
  Ids = {1, 2, 3, 4, 5, 6}
  NonWaivable = {"n"}
  KnownRules = {"r", "w", "d", "c", "t", "n"}
  TokenChoices <- RatchetTokens
  RuleSetFiles = {"backstop.yml"}
  Worlds <- RatchetWorlds
  Env = {"edit", "tick", "merge", "publish", "generate", "pull"}
  MaxEdits = 2
  MaxTime = 1
PROPERTY NoNewDebt
INVARIANT TypeOK
