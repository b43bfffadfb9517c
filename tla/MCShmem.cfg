CONSTANTS
  Clients = {c1, c2}
  Server = server
  Nobody = nobody
  Faults = {"stop", "kill", "die"}
SPECIFICATION FairSpec
INVARIANTS
  TypeOK
  WriteExclusion
  RequestIntact
  SerialOneMessage
PROPERTIES
  CallsReturn
  RpcSpec
\* A client killed between its two semaphores takes the turn with it.
CHECK_DEADLOCK FALSE
