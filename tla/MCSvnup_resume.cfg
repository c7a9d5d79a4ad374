CONSTANTS
  a = a
  b = b
  c = c
  la = la
  lb = lb
  Empty = Empty
  Torn = Torn
  NoText = NoText
  NoRev = NoRev
  BlankRev = BlankRev
  Path <- Paths
  Rev <- FiveRevs
  Repo <- MixedTrees
  Text = {a, b, Empty, la, lb}
  LinkText = {la, lb}
  Scenario = {"term"}
  MaxStops = 1
  MaxMods = 0
SPECIFICATION Spec
INVARIANTS
  CheckoutResumes
