SPECIFICATION Spec
CONSTANTS
  NoString = NoString
  Ints <- SomeInts
  Doubles <- SomeDoubles
  Names <- SomeNames
  MaxAvatar = 4
  Others <- SomeItems
  Tails <- SomeTails
INVARIANTS
  TextFitsItsMemory
  ParsesWhatItPrints
  ShowsWhatWasStored
CHECK_DEADLOCK FALSE
