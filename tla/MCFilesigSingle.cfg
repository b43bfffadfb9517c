CONSTANTS
  Clients = {c1, c2}
  Server = server
  Requests = {5, 8}
  Replies = {9}
  Faults = {}
SPECIFICATION Spec
INVARIANT SingleMessage
CHECK_DEADLOCK FALSE
