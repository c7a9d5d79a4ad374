SPECIFICATION FairSpec
CONSTANTS
  File = {f}
  NoFile = NoFile
  MaxCuts = 1
  MaxRefusals = 1
INVARIANTS TypeOK TakenRight DoneMeansWhole NothingLost MainAddressed
PROPERTIES SessionEnds
