SPECIFICATION PanelsSpec
CONSTANTS
  c1 = c1
  c2 = c2
  Slots <- MCPair
  Variants = 2
  MayEnd = TRUE
  MaxPublished = 2
  Posts <- MCPair
  MaxStaged = 2
  MaxEvents = 2
  MaxFaults = 1
  Sessions <- MCPair
  MaxRevision = 2
  MaxReloads = 1
  Messages <- MCPair
  MaxSteers = 2
  MaxCaptures = 3
  MaxEpoch = 3
  Directories <- MCDirectories
  Rules = {"r", "s"}
  Values = {"v"}
  MaxScans = 3
  MaxFound = 1
  MaxPosts = 3
  MaxLines = 3
  MaxDeductions = 2
  MaxParts = 7
  MaxChanges = 2
  MaxFetches = 2
SYMMETRY Symmetry
INVARIANTS PanelsTypeOK LockedForAReason CountIsTrue NoReloadLoop HiddenIsWatched NoDraftLeft
INVARIANTS NoOrphanPlaceholder NothingTypedIsLost EveryFailureIsReported NoSilentWait NoFrozenShader
INVARIANTS OverlayAgreesWithCli CountIsOfThisScan FormIsWhatIsSeen
PROPERTIES NoReloadOverWork
CHECK_DEADLOCK FALSE
