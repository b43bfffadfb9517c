CONSTANTS
  Servers = {s1, s2}
  NMovies = 2
  MaxTickets = 2
SPECIFICATION FairSpec
INVARIANTS
  TypeOK
  TicketsUnique
  SalesRecorded
  MappingInFile
PROPERTIES
  GetFindsIssued
  GetFindsOnlySold
  WaitersServed
  OfficeSpec
