SPECIFICATION LiveSpec
CONSTANTS
  scheduler = scheduler
  pollNow = pollNow
  m1 = m1
  m2 = m2
  i1 = i1
  i2 = i2
  Scheduler = scheduler
  Others = {pollNow}
  Messages = {m1, m2}
  EmlFiles = {m1}
  Removable = {m2}
  Malformed = {}
  Ids = {i1, i2}
  MessageId <- Distinct
  Providers = {"graph", "gmail"}
  MaxFaults = 1
INVARIANTS TypeOK CursorLeavesNothing
PROPERTIES EveryMessageComesIn
CHECK_DEADLOCK FALSE
