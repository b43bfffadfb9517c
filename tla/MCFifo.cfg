CONSTANTS
  Clients = {c1, c2}
  Server = server
  Faults = {"stop", "kill"}
SPECIFICATION FairSpec
INVARIANTS
  TypeOK
  OneSender
  WholeMessages
PROPERTIES
  CallsReturn
  RpcSpec
\* Clients wait for ever for discarded messages or after a kill.
CHECK_DEADLOCK FALSE
