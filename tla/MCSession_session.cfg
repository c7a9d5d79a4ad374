CONSTANTS
  f = f
  g = g
  File <- Files
  NoFile = NoFile
  MaxEdit = 1
  MaxCuts = 2
SPECIFICATION FairSpec
INVARIANTS
  TypeOK
  RecordedMeansDone
  NoMutualWait
PROPERTIES
  InStep
  SessionEnds
