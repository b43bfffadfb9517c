CONSTANTS
  Servers = {s1, s2}
  NMovies = 1
  MaxTickets = 2
SPECIFICATION SignalSpec
SYMMETRY Symmetry
INVARIANT TicketsUnique
