CONSTANTS
  p1 = p1
  p2 = p2
  p3 = p3
  NoProc = NoProc
  NoRev = NoRev
  Proc <- Procs
  Rev = {1}
  Options = {"-f"}
  Signals = {"term", "kill"}
SPECIFICATION FairSpec
INVARIANTS
  TypeOK
  OneEditor
  NoStaleLock
PROPERTIES
  EndsUnlessHung
