CONSTANTS
  Clients = {c1}
  Server = server
  Faults = {}
SPECIFICATION FairSpec
PROPERTY FlowCompletes
CHECK_DEADLOCK FALSE
