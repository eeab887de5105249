SPECIFICATION SpmcFairSpec
CONSTANTS
  SPs = {sp1, sp2}
  OtherIds = {none}
  Clients = {vm1, vm2}
  SpWork = 1
  BootIrqs = TRUE
INVARIANTS
  SpmcInv
PROPERTIES
  AnswerMatches
  PreemptedIffIrq
  NotDisplaced
  Served
