CONSTANTS
  K = 3
  MaxL2 = 4
  HeapPages = 9
  HeapStart = 5
  HeapEnd = 6
  GicBlocks <- MCGicBlocks
  TrapPages <- MCTrapPages
  UartBlock = 2
  Guests <- MCGuests
  OpPages <- MCOpPages
  Touched <- MCTouched
  Walkers = {1}
  Kinds = {"sw", "s2ap", "map", "unmap"}
  MaxOps = 3
SPECIFICATION Spec
CHECK_DEADLOCK TRUE
INVARIANTS
  WritesKept
  
  TablesDisjoint

  
