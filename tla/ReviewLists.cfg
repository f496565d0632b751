SPECIFICATION ListsSpec
CONSTANTS
  MaxChanges = 2
  MaxFetches = 2
PROPERTY NoSwapMidSelection
