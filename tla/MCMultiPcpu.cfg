SPECIFICATION FairSpec
CONSTANTS
  Cpus = {0, 1, 2}
  TicketMod = 4
  Checked = FALSE
  RxBufSize = 4
  Spis = {33, 48}
  SGIs = {1}
  NumLrs = 3
  RingSize = 3
  DrainMax = 3
  Loads <- MCLoads
INVARIANTS
  TicketsInOrder
  ByteInv
  
  StartInv
  WakeInv
PROPERTIES
  ImplementsFifoLock
  LockServed
  CpuOnTaken
  
  RxDrained
CHECK_DEADLOCK FALSE
