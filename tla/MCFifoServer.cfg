CONSTANTS
  Clients = {c1}
  Server = server
  Faults = {}
SPECIFICATION Spec
INVARIANT ServerStaysUp
CHECK_DEADLOCK FALSE
