SPECIFICATION Spec
CONSTANTS
  VMs <- MCVMs
  CPUs <- MCCPUs
  VmOf <- MCVmOf
  OnePcpu = TRUE
  SpmcResults <- MCSpmc
INVARIANTS
  MailboxInv
PROPERTIES
  OwnedRxIsStable
