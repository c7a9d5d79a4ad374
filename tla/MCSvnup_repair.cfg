CONSTANTS
  a = a
  b = b
  c = c
  la = la
  lb = lb
  Empty = Empty
  Torn = Torn
  NoText = NoText
  NoRev = NoRev
  BlankRev = BlankRev
  Path <- Paths
  Rev <- Revs
  Repo <- FileTrees
  Text = {a, b, c, Empty, la}
  LinkText = {la}
  Scenario = {"term", "repair", "modify"}
  MaxStops = 2
  MaxMods = 1
SPECIFICATION Spec
INVARIANTS
  Repaired
  NeverRefused
