SPECIFICATION FairSpec
CONSTANTS
  MaxVcpus = 3
  NumLrs = 1
  SGIs = {1}
  SPIs = {}
PROPERTIES
  NoStarvation
  PendingWakes
