------------------------------ MODULE Database ------------------------------
(***************************************************************************)
(* The ticket database of src/database.c, as the request handlers of       *)
(* src/actions.c use it: a file of movies that every server process maps   *)
(* shared and guards with an fcntl record lock.  Several servers may serve *)
(* the same file, any of them may be killed between two stores, and        *)
(* bin/reset (src/fixtures.c) recreates the file while no server runs.     *)
(***************************************************************************)
EXTENDS Integers, FiniteSets

CONSTANTS Servers,     \* the server processes that open the file
          NMovies,     \* movies in the fixtures file
          MaxTickets   \* MOVIE_MAX_TICKETS

U16 == 65536   \* remaining_tickets is a uint16_t

ASSUME DatabaseAssumption == NMovies \in Nat \ {0} /\ MaxTickets \in 1 .. U16 - 1

Movies == 0 .. NMovies - 1
Seats  == 0 .. MaxTickets - 1

(* The number of the ticket of seat k of movie m.                          *)
Number(m, k) == m * MaxTickets + k + 1
Tickets      == {Number(m, k) : m \in Movies, k \in Seats}

ErrNoSuchMovie   == -1
ErrNoMoreTickets == -3
Null == -1   \* the movie pointer of a lookup that found nothing

(* Arguments of the two requests.  movie_i is unsigned; NMovies stands for *)
(* every index past the last movie.  A ticket code comes from atoi(), so 0 *)
(* is one of them.                                                         *)
MovieArgs == 0 .. NMovies
CodeArgs  == Tickets \cup {0}

VARIABLES
  seat,        \* seat[m][k]: movies[m].tickets[k], 0 while unsold
  remaining,   \* remaining[m]: movies[m].remaining_tickets
  size,        \* whole movies in the file; less than NMovies until reset is done
  count,       \* count[s]: database->count, computed by s when it opened the file
  readers,     \* processes that hold the read lock
  writers,     \* processes that hold the write lock
  pc, arg,     \* where each server is, and the argument of its request
  ticket,      \* ticket[s]: the local `ticket` of db_buy_ticket, or an error
  found,       \* found[s]: the local `movie` of db_get_ticket
  issued       \* history: how many times each ticket was answered to a buyer

file   == <<seat, remaining, size>>
locks  == <<readers, writers>>
locals == <<pc, arg, ticket, found>>
vars   == <<seat, remaining, size, count, readers, writers,
            pc, arg, ticket, found, issued>>

Labels == {"down", "ready", "wlock", "sell", "store", "take", "answer",
           "rlock", "scan", "reply"}

TypeOK ==
  /\ seat \in [Movies -> [Seats -> Tickets \cup {0}]]
  /\ remaining \in [Movies -> 0 .. MaxTickets]
  /\ size \in 0 .. NMovies
  /\ count \in [Servers -> 0 .. NMovies]
  /\ readers \subseteq Servers /\ writers \subseteq Servers
  /\ pc \in [Servers -> Labels]
  /\ arg \in [Servers -> MovieArgs \cup CodeArgs]
  /\ ticket \in [Servers -> Tickets \cup {0, ErrNoSuchMovie, ErrNoMoreTickets}]
  /\ found \in [Servers -> Movies \cup {Null}]
  /\ issued \in [Tickets -> Nat]

Unsold  == [m \in Movies |-> [k \in Seats |-> 0]]
AllFree == [m \in Movies |-> MaxTickets]

Init ==
  /\ seat = Unsold /\ remaining = AllFree /\ size = NMovies
  /\ count = [s \in Servers |-> 0]
  /\ readers = {} /\ writers = {}
  /\ pc = [s \in Servers |-> "down"]
  /\ arg = [s \in Servers |-> 0]
  /\ ticket = [s \in Servers |-> 0]
  /\ found = [s \in Servers |-> Null]
  /\ issued = [t \in Tickets |-> 0]

Goto(s, from, to) == /\ pc[s] = from
                     /\ pc' = [pc EXCEPT ![s] = to]
-----------------------------------------------------------------------------
(* The life of a server process.                                           *)

(* mutant: the number of movies is taken for granted, not from fstat *)
StartFixedCount(s) == /\ Goto(s, "down", "ready")
                      /\ count' = [count EXCEPT ![s] = NMovies]
                      /\ UNCHANGED <<file, locks, arg, ticket, found, issued>>

(* db_open: the file is mapped and its size fixes database->count for the  *)
(* life of the process.                                                    *)
Start(s) == /\ Goto(s, "down", "ready")
            /\ count' = [count EXCEPT ![s] = size]
            /\ UNCHANGED <<file, locks, arg, ticket, found, issued>>

(* SIGINT and SIGTERM run teardown() inside the handler, at any            *)
(* instruction; SIGKILL needs no handler.  db_close, or the kernel, closes *)
(* the file, which drops the process's record lock; stores already made to *)
(* the shared mapping stay.                                                *)
Die(s) ==
  /\ pc[s] # "down"
  /\ pc' = [pc EXCEPT ![s] = "down"]
  /\ count' = [count EXCEPT ![s] = 0]
  /\ arg' = [arg EXCEPT ![s] = 0]
  /\ ticket' = [ticket EXCEPT ![s] = 0]
  /\ found' = [found EXCEPT ![s] = Null]
  /\ readers' = readers \ {s} /\ writers' = writers \ {s}
  /\ UNCHANGED <<file, issued>>
-----------------------------------------------------------------------------
(* db_lock: F_SETLKW waits for every OTHER process's conflicting lock, and *)
(* replaces the lock the caller already holds.                             *)

CanWrite(s) == readers \cup writers \subseteq {s}
CanRead(s)  == writers \subseteq {s}

Buy(s, m) == /\ Goto(s, "ready", "wlock")
             /\ arg' = [arg EXCEPT ![s] = m]
             /\ UNCHANGED <<file, count, locks, ticket, found, issued>>

(* mutant: the lock call returns at once (F_SETLK, result unchecked) *)
WLockNoWait(s) == /\ Goto(s, "wlock", "sell")
                  /\ UNCHANGED <<file, count, locks, arg, ticket, found, issued>>

WLock(s) == /\ CanWrite(s)
            /\ Goto(s, "wlock", "sell")
            /\ readers' = readers \ {s} /\ writers' = writers \cup {s}
            /\ UNCHANGED <<file, count, arg, ticket, found, issued>>

(* In a FILESIG build SIGUSR1 has a handler without SA_RESTART: the signal *)
(* of another client's message ends a waiting F_SETLKW with EINTR, and     *)
(* db_lock does not look at the result.                                    *)
WLockInterrupted(s) == /\ ~CanWrite(s)
                       /\ Goto(s, "wlock", "sell")
                       /\ UNCHANGED <<file, count, locks, arg, ticket, found, issued>>

(* The two early returns of db_buy_ticket.  Neither unlocks.               *)
Refuse(s, code) == /\ Goto(s, "sell", "answer")
                   /\ ticket' = [ticket EXCEPT ![s] = code]
                   /\ UNCHANGED <<file, count, locks, arg, found, issued>>

NoSuchMovie(s) == arg[s] >= count[s] /\ Refuse(s, ErrNoSuchMovie)

NoMoreTickets(s) == /\ arg[s] < count[s]
                    /\ remaining[arg[s]] = 0
                    /\ Refuse(s, ErrNoMoreTickets)

(* mutant: the sold-out test is missing *)
PickTicketUnchecked(s) ==
  /\ arg[s] < count[s]
  /\ Goto(s, "sell", "store")
  /\ ticket' = [ticket EXCEPT ![s] = Number(arg[s], MaxTickets - remaining[arg[s]])]
  /\ UNCHANGED <<file, count, locks, arg, found, issued>>

PickTicket(s) ==
  /\ arg[s] < count[s]
  /\ remaining[arg[s]] # 0
  /\ Goto(s, "sell", "store")
  /\ ticket' = [ticket EXCEPT ![s] = Number(arg[s], MaxTickets - remaining[arg[s]])]
  /\ UNCHANGED <<file, count, locks, arg, found, issued>>

(* mutant: the seat is counted as sold before its ticket is written *)
StoreAfterCount(s) ==
  /\ Goto(s, "store", "take")
  /\ remaining' = [remaining EXCEPT ![arg[s]] = @ - 1]
  /\ UNCHANGED <<seat, size, count, locks, arg, ticket, found, issued>>

(* movie->tickets[MOVIE_MAX_TICKETS - movie->remaining_tickets] = ticket   *)
StoreTicket(s) ==
  /\ Goto(s, "store", "take")
  /\ seat' = [seat EXCEPT ![arg[s]][MaxTickets - remaining[arg[s]]] = ticket[s]]
  /\ UNCHANGED <<remaining, size, count, locks, arg, ticket, found, issued>>

(* mutant: this return, too, forgets the lock *)
TakeKeepsLock(s) ==
  /\ Goto(s, "take", "answer")
  /\ remaining' = [remaining EXCEPT ![arg[s]] = (@ - 1) % U16]
  /\ UNCHANGED <<seat, size, count, locks, arg, ticket, found, issued>>

(* movie->remaining_tickets--, a uint16_t, and db_unlock.                  *)
TakeSeat(s) ==
  /\ Goto(s, "take", "answer")
  /\ remaining' = [remaining EXCEPT ![arg[s]] = (@ - 1) % U16]
  /\ readers' = readers \ {s} /\ writers' = writers \ {s}
  /\ UNCHANGED <<seat, size, count, arg, ticket, found, issued>>

(* res_buy_ticket: a positive ticket is sent to the buyer, anything else   *)
(* as an error.                                                            *)
AnswerBuy(s) ==
  /\ Goto(s, "answer", "ready")
  /\ issued' = IF ticket[s] > 0 THEN [issued EXCEPT ![ticket[s]] = @ + 1] ELSE issued
  /\ ticket' = [ticket EXCEPT ![s] = 0]
  /\ arg' = [arg EXCEPT ![s] = 0]
  /\ UNCHANGED <<file, count, locks, found>>
-----------------------------------------------------------------------------
Get(s, t) == /\ Goto(s, "ready", "rlock")
             /\ arg' = [arg EXCEPT ![s] = t]
             /\ UNCHANGED <<file, count, locks, ticket, found, issued>>

RLock(s) == /\ CanRead(s)
            /\ Goto(s, "rlock", "scan")
            /\ readers' = readers \cup {s} /\ writers' = writers \ {s}
            /\ UNCHANGED <<file, count, arg, ticket, found, issued>>

(* The movies of s's mapping that have t in some seat.                     *)
Holding(s, t) == {m \in 0 .. count[s] - 1 : \E k \in Seats : seat[m][k] = t}

(* mutant: the loop stops before the last movie *)
ScanShort(s) ==
  LET hits == Holding(s, arg[s]) \ {count[s] - 1} IN
  /\ Goto(s, "scan", "reply")
  /\ \/ hits = {} /\ found' = [found EXCEPT ![s] = Null]
     \/ \E m \in hits : found' = [found EXCEPT ![s] = m]
  /\ readers' = readers \ {s} /\ writers' = writers \ {s}
  /\ UNCHANGED <<file, count, arg, ticket, issued>>

(* db_get_ticket: the loops do not stop at the first hit, so the last      *)
(* movie with that ticket is the answer; then db_unlock.                   *)
Scan(s) ==
  LET hits == Holding(s, arg[s]) IN
  /\ Goto(s, "scan", "reply")
  /\ \/ hits = {} /\ found' = [found EXCEPT ![s] = Null]
     \/ \E m \in hits : /\ \A n \in hits : n <= m
                       /\ found' = [found EXCEPT ![s] = m]
  /\ readers' = readers \ {s} /\ writers' = writers \ {s}
  /\ UNCHANGED <<file, count, arg, ticket, issued>>

(* res_get_ticket reads the movie, after the unlock, or answers            *)
(* ErrNoSuchTicket.                                                        *)
AnswerGet(s) == /\ Goto(s, "reply", "ready")
                /\ found' = [found EXCEPT ![s] = Null]
                /\ arg' = [arg EXCEPT ![s] = 0]
                /\ UNCHANGED <<file, count, locks, ticket, issued>>
-----------------------------------------------------------------------------
(* bin/reset, run as the README and test.sh run it: before any server.  It *)
(* takes no lock.  fopen(path, "w") empties the file at once; the movies   *)
(* reach it in blocks of stdio's buffer, the last one in fclose.  A movie  *)
(* that has not reached the file is held as it will be written.            *)

(* mutant: movie_init does not clear the tickets of the seats *)
ResetKeepsTickets == /\ \A s \in Servers : pc[s] = "down"
                     /\ size' = 0
                     /\ remaining' = AllFree
                     /\ issued' = [t \in Tickets |-> 0]
                     /\ UNCHANGED <<seat, count, locks, locals>>

ResetOpen == /\ \A s \in Servers : pc[s] = "down"
             /\ size' = 0
             /\ seat' = Unsold /\ remaining' = AllFree
             /\ issued' = [t \in Tickets |-> 0]
             /\ UNCHANGED <<count, locks, locals>>

(* Some more movies are in the file, whole.  A reset that dies leaves it   *)
(* as it is.                                                               *)
ResetFlush == /\ size < NMovies
              /\ size' \in size + 1 .. NMovies
              /\ UNCHANGED <<seat, remaining, count, locks, locals, issued>>
-----------------------------------------------------------------------------
(* What a server does by itself once a request arrived, lock waits aside.  *)
Work(s) == \/ NoSuchMovie(s) \/ NoMoreTickets(s) \/ PickTicket(s)
           \/ StoreTicket(s) \/ TakeSeat(s) \/ AnswerBuy(s)
           \/ Scan(s) \/ AnswerGet(s)

Next == \/ \E s \in Servers : Start(s) \/ Die(s)
        \/ \E s \in Servers, m \in MovieArgs : Buy(s, m)
        \/ \E s \in Servers, t \in CodeArgs : Get(s, t)
        \/ \E s \in Servers : WLock(s) \/ RLock(s) \/ Work(s)
        \/ ResetOpen \/ ResetFlush

Spec == Init /\ [][Next]_vars

(* A running server is scheduled, and F_SETLKW queues its waiters, so a    *)
(* lock that is free again and again is granted.  Nothing makes a client   *)
(* call, a server die or the operator reset.                               *)
FairSpec == Spec /\ \A s \in Servers : /\ WF_vars(Work(s))
                                       /\ SF_vars(WLock(s))
                                       /\ SF_vars(RLock(s))

(* The FILESIG build, whose lock calls signals interrupt.                  *)
SignalNext == Next \/ \E s \in Servers : WLockInterrupted(s)
SignalSpec == Init /\ [][SignalNext]_vars
-----------------------------------------------------------------------------
(* How many seats of m are counted as sold.                                *)
Sold(m) == MaxTickets - remaining[m]

(* No ticket is ever answered to two buyers, through whatever servers they *)
(* buy and whichever of them die (database.c:115).                         *)
TicketsUnique == \A t \in Tickets : issued[t] <= 1

(* The sold seats are the first Sold(m) of each movie, each with its own   *)
(* ticket in it, and no later seat has one, but for the seat a server is   *)
(* filling or died filling (database.c:121-122).                           *)
SoldSeatsRecorded ==
  \A m \in Movies, k \in Seats :
    /\ k < Sold(m) => seat[m][k] = Number(m, k)
    /\ k = Sold(m) => seat[m][k] \in {0, Number(m, k)}
    /\ k > Sold(m) => seat[m][k] = 0

(* A ticket a buyer has been given is on file, in a seat that is counted   *)
(* as sold: no crash takes it back and no later sale overwrites it.        *)
IssuedRecorded ==
  \A m \in Movies, k \in Seats :
    issued[Number(m, k)] > 0 => k < Sold(m) /\ seat[m][k] = Number(m, k)

(* The file agrees with what was sold and with what was answered.          *)
SalesRecorded == SoldSeatsRecorded /\ IssuedRecorded

(* A running server never reads past the end of the file it mapped, also   *)
(* when it started while bin/reset was rewriting it (database.c:46, 107).  *)
MappingInFile == \A s \in Servers : count[s] <= size

(* db_get_ticket of a ticket somebody bought finds its movie, on every     *)
(* server that opened the file when the movie was in it.                   *)
GetFindsIssued ==
  [][\A s \in Servers, m \in Movies, k \in Seats :
       ( /\ pc[s] = "scan" /\ pc'[s] = "reply" /\ m < count[s]
         /\ arg[s] = Number(m, k) /\ issued[Number(m, k)] > 0 ) => found'[s] = m]_vars

(* db_get_ticket of a positive code finds the movie of that number, and    *)
(* only if that seat was sold since the last reset or is the next to sell, *)
(* which a server may have filled and died.  (Code 0, which atoi makes of  *)
(* any word, matches every unsold seat: database.c:137.)                   *)
GetFindsOnlySold ==
  [][\A s \in Servers, m \in Movies, k \in Seats :
       ( /\ pc[s] = "scan" /\ pc'[s] = "reply"
         /\ arg[s] = Number(m, k) /\ found'[s] # Null ) => found'[s] = m /\ k <= Sold(m)]_vars

(* As long as no purchase is refused, a server that waits for the file's   *)
(* lock gets it: everybody who holds it gives it back.  (A refusal keeps   *)
(* the write lock until that server's next request, database.c:107-113.)   *)
WaitersServed ==
  (\A o \in Servers : [](pc[o] = "answer" => ticket[o] > 0))
    => \A s \in Servers : pc[s] \in {"wlock", "rlock"} ~> pc[s] \notin {"wlock", "rlock"}

(* The database hands out tickets as TicketOffice promises.                *)
Office == INSTANCE TicketOffice WITH allocated <- [m \in Movies |-> Sold(m)]
OfficeSpec == Office!Spec
=============================================================================
