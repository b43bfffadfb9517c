CONSTANTS
  Clients = {c1, c2}
  Backlog = 1
  MaxFds = 2
  Movies = 1
  Seats = 2
  Width = 3
  Numbers = {0, 1, 4}
  Codes = {0, 1}
  MaxConns = 3
SPECIFICATION FairSpec
INVARIANTS
  TypeOK
  PrintedOnce
  AnswersFit
  SalesAsked
PROPERTIES
  CallsReturn
  RpcSpec
\* The users may stop calling, and the server may be stopped.
CHECK_DEADLOCK FALSE
