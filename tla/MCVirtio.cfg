SPECIFICATION FairSpec
CONSTANTS
  MaxDescs = 4
  Ports = {0, 1}
  m0 = m0
  m1 = m1
  Macs = {m0, m1}
  Slots = 3
  TableSize = 1
  Devices <- MCDevices
  Loads <- MCLoads
  QNum <- MCQNum
  QAddr <- MCQAddr
  Programs <- MCPrograms
  HdrLen = 2
  EthLen = 2
  MaxFrame = 3
  Packets <- MCPackets
  Unbinding <- MCUnbinding
  RxChains <- MCRxChains
  DiskSize = 2
  Requests <- MCRequests
  MultiVcpu = {0, 1}
INVARIANTS
  HeadsAccounted
  QueueAddresses
  
  UsedIsSignalled
  
PROPERTIES
  ImplementsLink
  
