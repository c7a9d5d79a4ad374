CONSTANTS
  Garbage = Garbage
  Radix = 2
  MaxDigits = 5
  MaxShort = 1
  MaxLong = 40
  Misread <- Misreads
  Doc <- Docs
SPECIFICATION Spec
INVARIANTS
  ParsedRight
  NotRefused
  BuiltRight
  InBounds
