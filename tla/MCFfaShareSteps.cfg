SPECIFICATION Spec
CONSTANTS
  CPUs = {1, 2}
  OnePcpu = TRUE
  VM = 1
  Receivers = {1, 5}
  BadReceivers = {}
  MaxPage = 2
  InitialPages = {0, 1}
  Descriptors <- MCDescriptors
  MaxShareRanges = 2
  MaxShares = 2
  MaxHandle = 4
PROPERTIES
  ImplementsFfaMemory
