SPECIFICATION MCSpec
CONSTANTS
  Width = 6
  Nodes = {n1, n2}
  GenesisSet <- MCGenesisSet
  ActiveLists <- MCRelisted
  EpochLength = 2
  MaxBlock = 3
  Handlers = 1
  Addresses = {1, 2, 3}
  Powers = {0, 1, 2, 3}
  MaxLen = 3
  MaxSlot = 9
INVARIANTS   ScheduleIsProportional QuorumsIntersect
