CONSTANTS
  Clients = {c1, c2}
  Server = server
  Requests = {5, 8}
  Replies = {9}
  Faults = {"stop", "kill"}
SPECIFICATION FairSpec
INVARIANTS
  TypeOK
  ActsOnce
  RepliesAwaited
PROPERTIES
  CallsReturn
  RpcSpec
\* A missed signal, or a request that was cut off, leaves everybody waiting.
CHECK_DEADLOCK FALSE
