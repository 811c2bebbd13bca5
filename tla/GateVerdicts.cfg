SPECIFICATION Spec
CONSTANTS
  None = None
  Corrupt = Corrupt
  Findings = {"one", "notice", "drift", "uncover", "broken", "build"}
  Attr <- MCAttr
  Files = {"a", "b", "s", "backstop.yml"}
  Rules = {"r", "w", "d", "c", "t", "n", "gone"}
  Packs = {"p", "q", "none"}
  Ids = {1, 2, 3, 4, 5, 6}
  NonWaivable = {"n"}
  KnownRules = {"r", "w", "d", "c", "t", "n"}
  TokenChoices <- VerdictTokens
  RuleSetFiles = {"backstop.yml"}
  Worlds <- VerdictWorlds
  Env = {}
  MaxEdits = 0
  MaxTime = 0
INVARIANTS GreenIsEarned RedIsEarned
