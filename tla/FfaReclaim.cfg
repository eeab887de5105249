SPECIFICATION Spec
CONSTANTS
  VMs <- MCVMs
  Receivers <- MCReceivers
  BadReceivers <- MCBadReceivers
  MaxPage <- MCMaxPage
  InitialPages <- MCInitialPages
  Descriptors <- MCSinglePages
  MaxShareRanges = 2
  MaxShares = 2
  MaxHandle = 4
PROPERTY
  ReclaimRestores
