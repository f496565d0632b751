SPECIFICATION Spec
CONSTANTS
  s1 = s1
  s2 = s2
  none = none
  Sessions = {s1, s2}
  NoId = none
  Variants = 1
  HandledCap = 1
  Retries = 1
  FaultSets <- SomeFaults
  MaxEvents = 1
  MaxBreaks = 1
SYMMETRY Symmetry
INVARIANTS TypeOK WorkIsStored NoResurrection GivenUpForAReason CompletedIsShown PlainCreationFirst
CHECK_DEADLOCK FALSE
