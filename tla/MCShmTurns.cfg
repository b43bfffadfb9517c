CONSTANTS
  Clients = {c1, c2}
  Server = server
  Nobody = nobody
  MaxStops = 1
SPECIFICATION FairSpec
INVARIANTS
  TypeOK
  RequestIntact
  MaxOneMessage
PROPERTIES
  CallsReturn
  RpcSpec
\* A client that died with the turn, or a server that is gone, stops the rest.
CHECK_DEADLOCK FALSE
