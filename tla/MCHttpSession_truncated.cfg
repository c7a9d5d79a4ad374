SPECIFICATION Spec
CONSTANTS
  File = {f}
  NoFile = NoFile
  MaxCuts = 1
  MaxRefusals = 0
INVARIANT SuccessMeansComplete
