SPECIFICATION Spec
CONSTANTS
  VMs <- MCVMs
  Receivers <- MCReceivers
  BadReceivers <- MCBadReceivers
  MaxPage <- MCMaxPage
  InitialPages <- MCInitialPages
  Descriptors <- MCDescriptors
  MaxShareRanges = 2
  MaxShares = 2
  MaxHandle = 4
INVARIANTS
  IInv
  SingleWriter
  LentIsExclusive
PROPERTIES
  FailedCallsChangeNothing
  
