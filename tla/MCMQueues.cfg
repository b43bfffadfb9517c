CONSTANTS
  Clients = {c1, c2, c3}
  Server = server
  Capacity = 5
  ListSize = 2
  Faults = {"stop", "kill"}
SPECIFICATION FairSpec
INVARIANTS
  TypeOK
  OwnInbox
  OneInFlight
PROPERTIES
  CallsReturn
  RpcSpec
