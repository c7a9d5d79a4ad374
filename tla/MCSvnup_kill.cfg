CONSTANTS
  a = a
  b = b
  c = c
  la = la
  lb = lb
  Empty = Empty
  Torn = Torn
  NoText = NoText
  NoRev = NoRev
  BlankRev = BlankRev
  Path <- ConfPaths
  Rev <- FiveRevs
  Repo <- ConfTrees
  Text = {a, b, Empty, la}
  LinkText = {la}
  Scenario = {"term", "kill", "clear", "tolerant", "modify"}
  MaxStops = 2
  MaxMods = 2
SPECIFICATION Spec
INVARIANTS
  TargetPresent
PROPERTIES
  UntrackedKept
