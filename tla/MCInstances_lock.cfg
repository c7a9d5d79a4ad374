CONSTANTS
  p1 = p1
  p2 = p2
  p3 = p3
  NoProc = NoProc
  NoRev = NoRev
  Proc <- Procs
  Rev = {1}
  Options = {}
  Signals = {}
SPECIFICATION Spec
PROPERTIES
  LockRefuses
