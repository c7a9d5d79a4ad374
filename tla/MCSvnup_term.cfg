CONSTANTS
  a = a
  b = b
  c = c
  la = la
  lb = lb
  Empty = Empty
  Torn = Torn
  NoText = NoText
  NoRev = NoRev
  BlankRev = BlankRev
  Path <- Paths
  Rev <- FiveRevs
  Repo <- MixedTrees
  Text = {a, b, c, Empty, la, lb}
  LinkText = {la, lb}
  Scenario = {"term", "getfile", "tolerant", "modify", "relocate"}
  MaxStops = 2
  MaxMods = 1
SPECIFICATION Spec
INVARIANTS
  TypeOK
  RecordedTree
  RecordedCache
PROPERTIES
  FixedUp
  Implements
