SPECIFICATION FairSpec
CONSTANTS
  Exchanges <- MCExchanges
  Turns = 60
INVARIANTS TypeOK ValuesRight InStep NeverWaits
PROPERTY Understood
