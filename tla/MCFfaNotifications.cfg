SPECIFICATION NotifSpec
CONSTANTS
  MaxEndpoint = 2
  Senders = {1, 2}
  Ids = {0, 1, 63}
  MaxBinds = 2
  MaxListed = 1
INVARIANTS
  NotifInv
  InfoGetLists
