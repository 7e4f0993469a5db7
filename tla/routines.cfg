SPECIFICATION Spec
CONSTANTS
  CodePoints <- BorderCodePoints
  StrayBytes = {128, 255}
  MaxText = 3
  Lanes = 4
  CopyInputs <- SomeArrays
  Unset = Unset
  InputSizes <- SomeSizes
  NotYet = NotYet
  Base = 2
  Passes = 4
  Length = 3
  Tests <- SomeTests
  MaxExpects = 2
INVARIANTS
  StreamDecodes
  CopyIfPacks
  NeighboursSubtracted
  PassesSort
  CasesTallied
CHECK_DEADLOCK FALSE
