CONSTANTS
  Clients = {c1, c2}
  Server = server
  Nobody = nobody
  Faults = {}
SPECIFICATION Spec
SYMMETRY Symmetry
INVARIANT MaxOneMessage
