SPECIFICATION FairSpec
CONSTANTS
  MaxVcpus = 2
  NumLrs = 1
  SGIs = {1}
  SPIs = {}
PROPERTY
  CpuOnBoots
