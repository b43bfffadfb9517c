--------------------------- MODULE DatabaseProofs ---------------------------
(***************************************************************************)
(* Theorems about Database, for every number of servers, movies and seats  *)
(* and whichever servers die.                                              *)
(***************************************************************************)
EXTENDS Database, TLAPS

(* The write lock excludes every other lock, and a server sells only while *)
(* it holds it.                                                            *)
LocksOK ==
  /\ \A s \in writers : writers = {s} /\ readers = {}
  /\ \A s \in Servers : pc[s] \in {"sell", "store", "take"} => s \in writers

(* A server that is not running has nothing mapped.                        *)
Closed == \A s \in Servers : pc[s] = "down" => count[s] = 0

(* What a server that is selling a seat knows, and what it has stored.     *)
SaleOK ==
  \A s \in Servers :
    /\ pc[s] \in {"store", "take"} =>
         /\ arg[s] \in Movies
         /\ remaining[arg[s]] > 0
         /\ ticket[s] = Number(arg[s], Sold(arg[s]))
    /\ pc[s] = "take" => seat[arg[s]][Sold(arg[s])] = ticket[s]

(* A ticket on its way to its buyer is of a sold seat, nobody has it yet,  *)
(* and no other server is about to answer it.                              *)
AnswersOK ==
  \A s \in Servers, m \in Movies, k \in Seats :
    pc[s] = "answer" /\ ticket[s] = Number(m, k) =>
      /\ k < Sold(m) /\ issued[Number(m, k)] = 0
      /\ \A o \in Servers \ {s} : pc[o] = "answer" => ticket[o] # ticket[s]

IInv == /\ TypeOK /\ LocksOK /\ MappingInFile /\ Closed /\ SaleOK
        /\ SoldSeatsRecorded /\ AnswersOK /\ IssuedRecorded /\ TicketsUnique
-----------------------------------------------------------------------------
LEMMA Sizes == MaxTickets \in Nat /\ MaxTickets > 0 /\ NMovies \in Nat /\ NMovies > 0
<1>1. U16 \in Int
  BY DEF U16
<1> QED BY <1>1, DatabaseAssumption

(* Multiples of T are at least T apart.                                    *)
LEMMA Multiples ==
  ASSUME NEW T \in Nat, NEW a \in Nat, NEW b \in Nat, a < b
  PROVE  a * T \in Nat /\ b * T \in Nat /\ a * T + T <= b * T
<1>1. PICK d \in Nat : b = a + d + 1
  <2>1. b - a - 1 \in Nat /\ b = a + (b - a - 1) + 1
    OBVIOUS
  <2> QED BY <2>1
<1>2. a * T \in Nat /\ d * T \in Nat
  OBVIOUS
<1>3. (a + d + 1) * T = a * T + d * T + T
  OBVIOUS
<1>4. ASSUME NEW x \in Nat, NEW y \in Nat
      PROVE  x + y + T \in Nat /\ x + T <= x + y + T
  OBVIOUS
<1> QED BY <1>1, <1>2, <1>3, <1>4

LEMMA QuotientUnique ==
  ASSUME NEW T \in Nat, NEW a \in Nat, NEW b \in Nat,
         NEW i \in 0 .. T - 1, NEW j \in 0 .. T - 1, a < b
  PROVE  a * T + i + 1 # b * T + j + 1
<1>1. ASSUME NEW x \in Nat, NEW y \in Nat, x + T <= y
      PROVE  x + i + 1 # y + j + 1
  BY <1>1
<1> QED BY ONLY <1>1, a \in Nat, b \in Nat, T \in Nat, a < b, Multiples

(* Different seats have different ticket numbers: what database.c:115 asks *)
(* of the expression that follows it.                                      *)
LEMMA NumberInjective ==
  ASSUME NEW m \in Movies, NEW n \in Movies, NEW k \in Seats, NEW j \in Seats,
         Number(m, k) = Number(n, j)
  PROVE  m = n /\ k = j
<1>1. /\ MaxTickets \in Nat /\ m \in Nat /\ n \in Nat
      /\ k \in 0 .. MaxTickets - 1 /\ j \in 0 .. MaxTickets - 1
  BY Sizes DEF Movies, Seats
<1>2. m * MaxTickets + k + 1 = n * MaxTickets + j + 1
  BY DEF Number
<1>3. ~(m < n)
  BY <1>1, <1>2, QuotientUnique
<1>4. ~(n < m)
  BY <1>1, <1>2, QuotientUnique
<1>5. m = n
  BY ONLY <1>1, <1>3, <1>4
<1>6. ASSUME NEW x \in Nat, x + k + 1 = x + j + 1
      PROVE  k = j
  BY ONLY <1>1, <1>6
<1>7. m * MaxTickets \in Nat
  BY <1>1
<1> QED BY ONLY <1>2, <1>5, <1>6, <1>7

LEMMA NumberIsTicket ==
  ASSUME NEW m \in Movies, NEW k \in Seats
  PROVE  Number(m, k) \in Tickets /\ Number(m, k) \in Nat /\ Number(m, k) > 0
<1>1. m * MaxTickets \in Nat
  BY Sizes DEF Movies
<1>2. Number(m, k) \in Nat /\ Number(m, k) > 0
  BY <1>1, Sizes DEF Seats, Number
<1> QED BY <1>2 DEF Tickets

LEMMA TicketsNat == Tickets \subseteq Nat \ {0}
BY NumberIsTicket DEF Tickets

LEMMA ArgsNat == MovieArgs \cup CodeArgs \subseteq Nat
BY TicketsNat, Sizes DEF MovieArgs, CodeArgs

(* Counting down a positive number of seats does not wrap.                 *)
LEMMA CountDown == ASSUME NEW r \in 1 .. MaxTickets PROVE (r - 1) % U16 = r - 1
<1>1. U16 \in Int
  BY DEF U16
<1>2. MaxTickets \in Int /\ MaxTickets < U16
  BY <1>1, DatabaseAssumption
<1>3. r \in Int /\ 0 <= r - 1 /\ r - 1 < U16
  BY <1>1, <1>2
<1>4. ASSUME NEW x \in Int, NEW n \in Int, 0 <= x, x < n PROVE x % n = x
  BY <1>4
<1> QED BY <1>1, <1>3, <1>4
-----------------------------------------------------------------------------
LEMMA SoldTyped ==
  ASSUME TypeOK, NEW m \in Movies
  PROVE  remaining[m] \in 0 .. MaxTickets /\ Sold(m) \in Int
<1>1. remaining[m] \in 0 .. MaxTickets
  BY DEF TypeOK
<1>2. MaxTickets \in Int
  BY Sizes
<1> QED BY <1>1, <1>2 DEF Sold

LEMMA SoldIsSeat ==
  ASSUME NEW m \in Movies, remaining[m] \in 0 .. MaxTickets, remaining[m] > 0
  PROVE  Sold(m) \in Seats
<1>1. MaxTickets \in Nat
  BY Sizes
<1>2. \A r \in 0 .. MaxTickets : r > 0 => MaxTickets - r \in 0 .. MaxTickets - 1
  BY <1>1
<1> QED BY <1>2 DEF Sold, Seats

LEMMA SoldAfter ==
  ASSUME NEW n \in Movies, remaining \in [Movies -> 0 .. MaxTickets],
         remaining' = [remaining EXCEPT ![n] = remaining[n] - 1]
  PROVE  \A m \in Movies : Sold(m)' = IF m = n THEN Sold(m) + 1 ELSE Sold(m)
<1> SUFFICES ASSUME NEW m \in Movies
             PROVE  Sold(m)' = IF m = n THEN Sold(m) + 1 ELSE Sold(m)
  OBVIOUS
<1>1. MaxTickets \in Int /\ remaining[m] \in Int
  BY Sizes
<1>2. remaining'[m] = IF m = n THEN remaining[m] - 1 ELSE remaining[m]
  OBVIOUS
<1> QED BY <1>1, <1>2 DEF Sold

LEMMA InvInit == Init => IInv
<1> SUFFICES ASSUME Init PROVE IInv
  OBVIOUS
<1>0. MaxTickets \in Nat /\ NMovies \in Nat /\ NMovies > 0
  BY Sizes
<1>1. TypeOK
  <2>1. seat \in [Movies -> [Seats -> Tickets \cup {0}]]
    BY DEF Init, Unsold
  <2>2. remaining \in [Movies -> 0 .. MaxTickets]
    BY <1>0 DEF Init, AllFree
  <2>3. 0 \in MovieArgs
    BY <1>0 DEF MovieArgs
  <2>4. NMovies \in 0 .. NMovies /\ 0 \in 0 .. NMovies
    BY <1>0
  <2> QED BY <2>1, <2>2, <2>3, <2>4 DEF Init, TypeOK, Labels
<1>2. SoldSeatsRecorded
  <2>1. \A m \in Movies : Sold(m) = 0
    BY <1>0 DEF Init, AllFree, Sold
  <2>2. \A m \in Movies, k \in Seats : k \in Nat /\ seat[m][k] = 0
    BY <1>0 DEF Init, Unsold, Seats
  <2> QED BY <2>1, <2>2 DEF SoldSeatsRecorded
<1>3. IssuedRecorded /\ TicketsUnique /\ MappingInFile
  <2>1. \A t \in Tickets : issued[t] = 0
    BY DEF Init
  <2>2. \A m \in Movies, k \in Seats : issued[Number(m, k)] = 0
    BY <2>1, NumberIsTicket
  <2>3. IssuedRecorded /\ TicketsUnique
    BY <2>1, <2>2 DEF IssuedRecorded, TicketsUnique
  <2>4. MappingInFile
    BY <1>0 DEF Init, MappingInFile
  <2> QED BY <2>3, <2>4
<1>4. LocksOK /\ Closed /\ SaleOK /\ AnswersOK
  BY DEF Init, LocksOK, Closed, SaleOK, AnswersOK
<1> QED BY <1>1, <1>2, <1>3, <1>4 DEF IInv

LEMMA InvStart ==
  ASSUME NEW s \in Servers, IInv, Start(s)
  PROVE  IInv'
<1>1. TypeOK'
  BY DEF IInv, TypeOK, Start, Goto, file, locks, Labels
<1>2. LocksOK'
  BY DEF IInv, LocksOK, TypeOK, Start, Goto, locks
<1>3. MappingInFile' /\ Closed'
  BY DEF IInv, MappingInFile, Closed, TypeOK, Start, Goto, file
<1>4. SaleOK'
  BY DEF IInv, SaleOK, TypeOK, Start, Goto, file, Sold
<1>5. AnswersOK'
  BY DEF IInv, AnswersOK, TypeOK, Start, Goto, file, Sold
<1>6. SoldSeatsRecorded' /\ IssuedRecorded' /\ TicketsUnique'
  BY DEF IInv, Start, file, Sold, SoldSeatsRecorded, IssuedRecorded, TicketsUnique
<1> QED BY <1>1, <1>2, <1>3, <1>4, <1>5, <1>6 DEF IInv

LEMMA InvDie ==
  ASSUME NEW s \in Servers, IInv, Die(s)
  PROVE  IInv'
<1>1. TypeOK'
  BY Sizes DEF IInv, TypeOK, Die, file, locks, Labels, MovieArgs, Null
<1>2. LocksOK'
  BY DEF IInv, LocksOK, TypeOK, Die, locks
<1>3. MappingInFile' /\ Closed'
  BY Sizes DEF IInv, MappingInFile, Closed, TypeOK, Die, file
<1>4. SaleOK'
  BY DEF IInv, SaleOK, TypeOK, Die, file, Sold
<1>5. AnswersOK'
  BY NumberIsTicket DEF IInv, AnswersOK, TypeOK, Die, file, Sold
<1>6. SoldSeatsRecorded' /\ IssuedRecorded' /\ TicketsUnique'
  BY DEF IInv, Die, file, Sold, SoldSeatsRecorded, IssuedRecorded, TicketsUnique
<1> QED BY <1>1, <1>2, <1>3, <1>4, <1>5, <1>6 DEF IInv

LEMMA InvBuy ==
  ASSUME NEW s \in Servers, NEW m \in MovieArgs, IInv, Buy(s, m)
  PROVE  IInv'
<1>1. TypeOK'
  BY DEF IInv, TypeOK, Buy, Goto, file, locks, Labels
<1>2. LocksOK'
  BY DEF IInv, LocksOK, TypeOK, Buy, Goto, locks
<1>3. MappingInFile' /\ Closed'
  BY DEF IInv, MappingInFile, Closed, TypeOK, Buy, Goto, file
<1>4. SaleOK'
  BY DEF IInv, SaleOK, TypeOK, Buy, Goto, file, Sold
<1>5. AnswersOK'
  BY DEF IInv, AnswersOK, TypeOK, Buy, Goto, file, Sold
<1>6. SoldSeatsRecorded' /\ IssuedRecorded' /\ TicketsUnique'
  BY DEF IInv, Buy, file, Sold, SoldSeatsRecorded, IssuedRecorded, TicketsUnique
<1> QED BY <1>1, <1>2, <1>3, <1>4, <1>5, <1>6 DEF IInv

LEMMA InvGet ==
  ASSUME NEW s \in Servers, NEW t \in CodeArgs, IInv, Get(s, t)
  PROVE  IInv'
<1>1. TypeOK'
  BY DEF IInv, TypeOK, Get, Goto, file, locks, Labels
<1>2. LocksOK'
  BY DEF IInv, LocksOK, TypeOK, Get, Goto, locks
<1>3. MappingInFile' /\ Closed'
  BY DEF IInv, MappingInFile, Closed, TypeOK, Get, Goto, file
<1>4. SaleOK'
  BY DEF IInv, SaleOK, TypeOK, Get, Goto, file, Sold
<1>5. AnswersOK'
  BY DEF IInv, AnswersOK, TypeOK, Get, Goto, file, Sold
<1>6. SoldSeatsRecorded' /\ IssuedRecorded' /\ TicketsUnique'
  BY DEF IInv, Get, file, Sold, SoldSeatsRecorded, IssuedRecorded, TicketsUnique
<1> QED BY <1>1, <1>2, <1>3, <1>4, <1>5, <1>6 DEF IInv

LEMMA InvWLock ==
  ASSUME NEW s \in Servers, IInv, WLock(s)
  PROVE  IInv'
<1>1. TypeOK'
  BY DEF IInv, TypeOK, WLock, Goto, file, locks, Labels
<1>2. LocksOK'
  BY DEF IInv, LocksOK, TypeOK, WLock, Goto, locks, CanWrite
<1>3. MappingInFile' /\ Closed'
  BY DEF IInv, MappingInFile, Closed, TypeOK, WLock, Goto, file
<1>4. SaleOK'
  BY DEF IInv, SaleOK, TypeOK, WLock, Goto, file, Sold
<1>5. AnswersOK'
  BY DEF IInv, AnswersOK, TypeOK, WLock, Goto, file, Sold
<1>6. SoldSeatsRecorded' /\ IssuedRecorded' /\ TicketsUnique'
  BY DEF IInv, WLock, file, Sold, SoldSeatsRecorded, IssuedRecorded, TicketsUnique
<1> QED BY <1>1, <1>2, <1>3, <1>4, <1>5, <1>6 DEF IInv

LEMMA InvRLock ==
  ASSUME NEW s \in Servers, IInv, RLock(s)
  PROVE  IInv'
<1>1. TypeOK'
  BY DEF IInv, TypeOK, RLock, Goto, file, locks, Labels
<1>2. LocksOK'
  BY DEF IInv, LocksOK, TypeOK, RLock, Goto, locks, CanRead
<1>3. MappingInFile' /\ Closed'
  BY DEF IInv, MappingInFile, Closed, TypeOK, RLock, Goto, file
<1>4. SaleOK'
  BY DEF IInv, SaleOK, TypeOK, RLock, Goto, file, Sold
<1>5. AnswersOK'
  BY DEF IInv, AnswersOK, TypeOK, RLock, Goto, file, Sold
<1>6. SoldSeatsRecorded' /\ IssuedRecorded' /\ TicketsUnique'
  BY DEF IInv, RLock, file, Sold, SoldSeatsRecorded, IssuedRecorded, TicketsUnique
<1> QED BY <1>1, <1>2, <1>3, <1>4, <1>5, <1>6 DEF IInv

LEMMA InvNoSuchMovie ==
  ASSUME NEW s \in Servers, IInv, NoSuchMovie(s)
  PROVE  IInv'
<1>1. TypeOK'
  BY DEF IInv, TypeOK, NoSuchMovie, Refuse, Goto, file, locks, Labels, ErrNoSuchMovie
<1>2. LocksOK'
  BY DEF IInv, LocksOK, TypeOK, NoSuchMovie, Refuse, Goto, locks
<1>3. MappingInFile' /\ Closed'
  BY DEF IInv, MappingInFile, Closed, TypeOK, NoSuchMovie, Refuse, Goto, file
<1>4. SaleOK'
  BY DEF IInv, SaleOK, TypeOK, NoSuchMovie, Refuse, Goto, file, Sold
<1>5. AnswersOK'
  BY NumberIsTicket DEF IInv, AnswersOK, TypeOK, NoSuchMovie, Refuse, Goto, file, Sold, ErrNoSuchMovie
<1>6. SoldSeatsRecorded' /\ IssuedRecorded' /\ TicketsUnique'
  BY DEF IInv, NoSuchMovie, Refuse, file, Sold, SoldSeatsRecorded, IssuedRecorded, TicketsUnique
<1> QED BY <1>1, <1>2, <1>3, <1>4, <1>5, <1>6 DEF IInv

LEMMA InvNoMoreTickets ==
  ASSUME NEW s \in Servers, IInv, NoMoreTickets(s)
  PROVE  IInv'
<1>1. TypeOK'
  BY DEF IInv, TypeOK, NoMoreTickets, Refuse, Goto, file, locks, Labels, ErrNoMoreTickets
<1>2. LocksOK'
  BY DEF IInv, LocksOK, TypeOK, NoMoreTickets, Refuse, Goto, locks
<1>3. MappingInFile' /\ Closed'
  BY DEF IInv, MappingInFile, Closed, TypeOK, NoMoreTickets, Refuse, Goto, file
<1>4. SaleOK'
  BY DEF IInv, SaleOK, TypeOK, NoMoreTickets, Refuse, Goto, file, Sold
<1>5. AnswersOK'
  BY NumberIsTicket DEF IInv, AnswersOK, TypeOK, NoMoreTickets, Refuse, Goto, file, Sold, ErrNoMoreTickets
<1>6. SoldSeatsRecorded' /\ IssuedRecorded' /\ TicketsUnique'
  BY DEF IInv, NoMoreTickets, Refuse, file, Sold, SoldSeatsRecorded, IssuedRecorded, TicketsUnique
<1> QED BY <1>1, <1>2, <1>3, <1>4, <1>5, <1>6 DEF IInv

LEMMA InvPickTicket ==
  ASSUME NEW s \in Servers, IInv, PickTicket(s)
  PROVE  IInv'
<1>1. /\ arg[s] \in Movies
      /\ remaining[arg[s]] \in 0 .. MaxTickets /\ remaining[arg[s]] > 0
  <2>1. arg[s] \in Nat /\ count[s] \in 0 .. NMovies /\ arg[s] < count[s]
    BY ArgsNat DEF IInv, TypeOK, PickTicket
  <2>2. arg[s] \in Movies
    BY <2>1, Sizes DEF Movies
  <2>3. remaining[arg[s]] \in 0 .. MaxTickets /\ remaining[arg[s]] # 0
    BY <2>2 DEF IInv, TypeOK, PickTicket
  <2>4. MaxTickets \in Nat
    BY Sizes
  <2>5. \A r \in 0 .. MaxTickets : r # 0 => r > 0
    BY <2>4
  <2> QED BY <2>2, <2>3, <2>5
<1>2. Sold(arg[s]) \in Seats
  BY <1>1, SoldIsSeat
<1>3. TypeOK'
  <2>1. Number(arg[s], MaxTickets - remaining[arg[s]]) \in Tickets
    BY <1>1, <1>2, NumberIsTicket DEF Sold
  <2> QED BY <2>1 DEF IInv, TypeOK, PickTicket, Goto, file, locks, Labels
<1>4. LocksOK'
  BY DEF IInv, LocksOK, TypeOK, PickTicket, Goto, locks
<1>5. MappingInFile' /\ Closed'
  BY DEF IInv, MappingInFile, Closed, TypeOK, PickTicket, Goto, file
<1>6. SaleOK'
  BY <1>1 DEF IInv, SaleOK, TypeOK, PickTicket, Goto, file, Sold
<1>7. AnswersOK'
  BY DEF IInv, AnswersOK, TypeOK, PickTicket, Goto, file, Sold
<1>8. SoldSeatsRecorded' /\ IssuedRecorded' /\ TicketsUnique'
  BY DEF IInv, PickTicket, file, Sold, SoldSeatsRecorded, IssuedRecorded, TicketsUnique
<1> QED BY <1>1, <1>2, <1>3, <1>4, <1>5, <1>6, <1>7, <1>8 DEF IInv

LEMMA InvStoreTicket ==
  ASSUME NEW s \in Servers, IInv, StoreTicket(s)
  PROVE  IInv'
<1>1. /\ arg[s] \in Movies /\ remaining[arg[s]] \in 0 .. MaxTickets /\ remaining[arg[s]] > 0
      /\ ticket[s] = Number(arg[s], Sold(arg[s]))
  BY DEF IInv, TypeOK, SaleOK, StoreTicket, Goto
<1>2. Sold(arg[s]) \in Seats
  BY <1>1, SoldIsSeat
<1>3. TypeOK'
  BY <1>1, <1>2, NumberIsTicket DEF IInv, TypeOK, StoreTicket, Goto, locks, Labels, Sold
<1>4. LocksOK' /\ MappingInFile' /\ Closed'
  BY DEF IInv, LocksOK, MappingInFile, Closed, TypeOK, StoreTicket, Goto, locks
<1>5. SaleOK'
  BY <1>1, <1>2 DEF IInv, SaleOK, LocksOK, TypeOK, StoreTicket, Goto, Sold
<1>6. SoldSeatsRecorded'
  BY <1>1, <1>2 DEF IInv, SoldSeatsRecorded, TypeOK, StoreTicket, Sold
<1>7. AnswersOK'
  BY DEF IInv, AnswersOK, TypeOK, StoreTicket, Goto, Sold
<1>8. IssuedRecorded'
  <2> SUFFICES ASSUME NEW m \in Movies, NEW k \in Seats, issued'[Number(m, k)] > 0
               PROVE  k < Sold(m)' /\ seat'[m][k] = Number(m, k)
    BY DEF IssuedRecorded
  <2>1. k < Sold(m) /\ seat[m][k] = Number(m, k)
    BY DEF IInv, IssuedRecorded, StoreTicket
  <2>2. Sold(m)' = Sold(m)
    BY DEF StoreTicket, Sold
  <2>3. ~(m = arg[s] /\ k = Sold(arg[s]))
    BY <2>1, <1>2 DEF Seats
  <2> QED BY <2>1, <2>2, <2>3 DEF IInv, TypeOK, StoreTicket, Sold
<1>9. TicketsUnique'
  BY DEF IInv, TicketsUnique, StoreTicket
<1> QED BY <1>1, <1>2, <1>3, <1>4, <1>5, <1>6, <1>7, <1>8, <1>9 DEF IInv

LEMMA InvTakeSeat ==
  ASSUME NEW s \in Servers, IInv, TakeSeat(s)
  PROVE  IInv'
<1>1. /\ arg[s] \in Movies /\ remaining[arg[s]] \in 0 .. MaxTickets /\ remaining[arg[s]] > 0
      /\ ticket[s] = Number(arg[s], Sold(arg[s]))
  BY DEF IInv, TypeOK, SaleOK, TakeSeat, Goto
<1>2. Sold(arg[s]) \in Seats
  BY <1>1, SoldIsSeat
<1>3. seat[arg[s]][Sold(arg[s])] = ticket[s]
  BY DEF IInv, SaleOK, TakeSeat, Goto
<1>4. remaining' = [remaining EXCEPT ![arg[s]] = remaining[arg[s]] - 1]
  <2>1. \A r \in 0 .. MaxTickets : r > 0 => r \in 1 .. MaxTickets
    BY Sizes
  <2>2. remaining[arg[s]] \in 1 .. MaxTickets
    BY <1>1, <2>1
  <2> QED BY <2>2, CountDown DEF TakeSeat
<1>5. \A m \in Movies : Sold(m)' = IF m = arg[s] THEN Sold(m) + 1 ELSE Sold(m)
  BY <1>1, <1>4, SoldAfter DEF IInv, TypeOK
<1>6. TypeOK'
  <2>1. remaining[arg[s]] - 1 \in 0 .. MaxTickets
    BY <1>1, Sizes
  <2> QED BY <2>1, <1>1, <1>4 DEF IInv, TypeOK, TakeSeat, Goto, Labels
<1>7. LocksOK' /\ MappingInFile' /\ Closed'
  BY DEF IInv, LocksOK, MappingInFile, Closed, TypeOK, TakeSeat, Goto
<1>8. SaleOK'
  BY DEF IInv, SaleOK, LocksOK, TypeOK, TakeSeat, Goto
<1>9. SoldSeatsRecorded'
  <2>1. seat' = seat
    BY DEF TakeSeat
  <2>2. Sold(arg[s]) \in Int /\ \A k \in Seats : k \in Int
    BY <1>2 DEF Seats
  <2> SUFFICES ASSUME NEW m \in Movies, NEW k \in Seats
               PROVE  /\ k < Sold(m)' => seat[m][k] = Number(m, k)
                      /\ k = Sold(m)' => seat[m][k] \in {0, Number(m, k)}
                      /\ k > Sold(m)' => seat[m][k] = 0
    BY <2>1 DEF SoldSeatsRecorded
  <2>3. CASE m # arg[s]
    BY <2>3, <1>5 DEF IInv, SoldSeatsRecorded
  <2>4. CASE m = arg[s]
    <3>1. Sold(m)' = Sold(m) + 1
      BY <2>4, <1>5
    <3>2. Sold(m) \in Int /\ k \in Int
      BY <2>2, <2>4
    <3>3. /\ k < Sold(m) + 1 => seat[m][k] = Number(m, k)
          /\ k >= Sold(m) + 1 => seat[m][k] = 0
      BY <2>4, <3>2, <1>1, <1>3 DEF IInv, SoldSeatsRecorded
    <3>4. ASSUME NEW x \in Int, NEW y \in Int
          PROVE  (x = y + 1 => x >= y + 1) /\ (x > y + 1 => x >= y + 1)
      OBVIOUS
    <3> QED BY <3>1, <3>2, <3>3, <3>4
  <2> QED BY <2>3, <2>4
<1>10. AnswersOK'
  <2>1. issued[ticket[s]] = 0
    BY <1>1, <1>2, NumberIsTicket, TicketsNat DEF IInv, TypeOK, SaleOK, IssuedRecorded, TakeSeat, Goto, Seats, Sold
  <2> SUFFICES ASSUME NEW o \in Servers, NEW m \in Movies, NEW k \in Seats,
                      pc'[o] = "answer", ticket'[o] = Number(m, k)
               PROVE  /\ k < Sold(m)' /\ issued'[Number(m, k)] = 0
                      /\ \A p \in Servers \ {o} : pc'[p] = "answer" => ticket'[p] # ticket'[o]
    BY DEF AnswersOK
  <2>2. ticket' = ticket /\ issued' = issued
    BY DEF TakeSeat
  <2>3. CASE o = s
    <3>1. m = arg[s] /\ k = Sold(arg[s])
      BY <2>2, <2>3, <1>1, <1>2, NumberInjective
    <3>2. k < Sold(m)'
      BY <3>1, <1>1, <1>2, <1>5 DEF Seats
    <3>3. ASSUME NEW p \in Servers \ {s}, pc[p] = "answer", ticket[p] = ticket[s]
          PROVE  FALSE
      <4>1. Sold(arg[s]) < Sold(arg[s])
        BY <3>3, <1>1, <1>2 DEF IInv, AnswersOK
      <4> QED BY <4>1, <1>2 DEF Seats
    <3> QED BY <2>1, <2>2, <2>3, <3>1, <3>2, <3>3, <1>1 DEF IInv, TypeOK, TakeSeat, Goto
  <2>4. CASE o # s
    <3>1. pc[o] = "answer"
      BY <2>4 DEF IInv, TypeOK, TakeSeat, Goto
    <3>2. /\ k < Sold(m) /\ issued[Number(m, k)] = 0
          /\ \A p \in Servers \ {o} : pc[p] = "answer" => ticket[p] # ticket[o]
      BY <3>1, <2>2 DEF IInv, AnswersOK
    <3>3. k < Sold(m)'
      BY <3>2, <1>2, <1>5 DEF Seats
    <3>4. ticket[s] # ticket[o]
      <4>1. SUFFICES ASSUME ticket[s] = ticket[o] PROVE FALSE
        OBVIOUS
      <4>2. Number(m, k) = Number(arg[s], Sold(arg[s]))
        BY <4>1, <2>2, <1>1
      <4>3. m = arg[s] /\ k = Sold(arg[s])
        BY <4>2, <1>1, <1>2, NumberInjective
      <4> QED BY <4>3, <3>2, <1>2 DEF Seats
    <3> QED BY <2>2, <3>2, <3>3, <3>4 DEF IInv, TypeOK, TakeSeat, Goto
  <2> QED BY <2>3, <2>4
<1>11. IssuedRecorded'
  <2> SUFFICES ASSUME NEW m \in Movies, NEW k \in Seats, issued'[Number(m, k)] > 0
               PROVE  k < Sold(m)' /\ seat'[m][k] = Number(m, k)
    BY DEF IssuedRecorded
  <2>1. k < Sold(m) /\ seat'[m][k] = Number(m, k)
    BY DEF IInv, IssuedRecorded, TakeSeat
  <2> QED BY <2>1, <1>2, <1>5 DEF Seats
<1>12. TicketsUnique'
  BY DEF IInv, TicketsUnique, TakeSeat
<1> QED BY <1>1, <1>2, <1>3, <1>4, <1>5, <1>6, <1>7, <1>8, <1>9, <1>10, <1>11, <1>12 DEF IInv

LEMMA InvAnswerBuy ==
  ASSUME NEW s \in Servers, IInv, AnswerBuy(s)
  PROVE  IInv'
<1>1. TypeOK'
  <2>1. ticket[s] > 0 => ticket[s] \in Tickets
    BY DEF IInv, TypeOK, ErrNoSuchMovie, ErrNoMoreTickets
  <2>2. issued' \in [Tickets -> Nat]
    BY <2>1 DEF IInv, TypeOK, AnswerBuy
  <2>3. 0 \in MovieArgs
    BY Sizes DEF MovieArgs
  <2> QED BY <2>2, <2>3 DEF IInv, TypeOK, AnswerBuy, Goto, file, locks, Labels
<1>2. LocksOK' /\ MappingInFile' /\ Closed'
  BY DEF IInv, LocksOK, MappingInFile, Closed, TypeOK, AnswerBuy, Goto, file, locks
<1>3. SaleOK'
  BY DEF IInv, SaleOK, TypeOK, AnswerBuy, Goto, file, Sold
<1>4. SoldSeatsRecorded'
  BY DEF IInv, SoldSeatsRecorded, AnswerBuy, file, Sold
<1>5. AnswersOK'
  BY DEF IInv, AnswersOK, TypeOK, AnswerBuy, Goto, file, Sold
<1>6. IssuedRecorded'
  BY DEF IInv, IssuedRecorded, AnswersOK, SoldSeatsRecorded, TypeOK, AnswerBuy, Goto, file, Sold
<1>7. TicketsUnique'
  <2>1. ticket[s] > 0 => \E m \in Movies, k \in Seats : ticket[s] = Number(m, k)
    BY DEF IInv, TypeOK, ErrNoSuchMovie, ErrNoMoreTickets, Tickets
  <2>2. ticket[s] > 0 => issued[ticket[s]] = 0
    BY <2>1 DEF IInv, AnswersOK, AnswerBuy, Goto
  <2> QED BY <2>2 DEF IInv, TypeOK, TicketsUnique, AnswerBuy
<1> QED BY <1>1, <1>2, <1>3, <1>4, <1>5, <1>6, <1>7 DEF IInv

LEMMA InvScan ==
  ASSUME NEW s \in Servers, IInv, Scan(s)
  PROVE  IInv'
<1>1. TypeOK'
  <2>1. Holding(s, arg[s]) \subseteq Movies
    BY Sizes DEF IInv, TypeOK, Movies, Holding
  <2> QED BY <2>1 DEF IInv, TypeOK, Scan, Goto, file, locks, Labels
<1>2. LocksOK'
  BY DEF IInv, LocksOK, TypeOK, Scan, Goto, locks
<1>3. MappingInFile' /\ Closed'
  BY DEF IInv, MappingInFile, Closed, TypeOK, Scan, Goto, file
<1>4. SaleOK'
  BY DEF IInv, SaleOK, TypeOK, Scan, Goto, file, Sold
<1>5. AnswersOK'
  BY DEF IInv, AnswersOK, TypeOK, Scan, Goto, file, Sold
<1>6. SoldSeatsRecorded' /\ IssuedRecorded' /\ TicketsUnique'
  BY DEF IInv, Scan, file, Sold, SoldSeatsRecorded, IssuedRecorded, TicketsUnique
<1> QED BY <1>1, <1>2, <1>3, <1>4, <1>5, <1>6 DEF IInv

LEMMA InvAnswerGet ==
  ASSUME NEW s \in Servers, IInv, AnswerGet(s)
  PROVE  IInv'
<1>1. TypeOK'
  BY Sizes DEF IInv, TypeOK, AnswerGet, Goto, file, locks, Labels, Null, MovieArgs
<1>2. LocksOK'
  BY DEF IInv, LocksOK, TypeOK, AnswerGet, Goto, locks
<1>3. MappingInFile' /\ Closed'
  BY DEF IInv, MappingInFile, Closed, TypeOK, AnswerGet, Goto, file
<1>4. SaleOK'
  BY DEF IInv, SaleOK, TypeOK, AnswerGet, Goto, file, Sold
<1>5. AnswersOK'
  BY DEF IInv, AnswersOK, TypeOK, AnswerGet, Goto, file, Sold
<1>6. SoldSeatsRecorded' /\ IssuedRecorded' /\ TicketsUnique'
  BY DEF IInv, AnswerGet, file, Sold, SoldSeatsRecorded, IssuedRecorded, TicketsUnique
<1> QED BY <1>1, <1>2, <1>3, <1>4, <1>5, <1>6 DEF IInv

LEMMA InvResetOpen ==
  ASSUME IInv, ResetOpen
  PROVE  IInv'
<1>1. TypeOK'
  <2>1. remaining' \in [Movies -> 0 .. MaxTickets] /\ size' \in 0 .. NMovies
    BY Sizes DEF ResetOpen, AllFree
  <2>2. seat' \in [Movies -> [Seats -> Tickets \cup {0}]] /\ issued' \in [Tickets -> Nat]
    BY DEF ResetOpen, Unsold
  <2> QED BY <2>1, <2>2 DEF IInv, TypeOK, ResetOpen, locks, locals
<1>2. MappingInFile' /\ Closed'
  BY DEF IInv, MappingInFile, Closed, TypeOK, ResetOpen, locals
<1>3. LocksOK'
  BY DEF IInv, LocksOK, ResetOpen, locks, locals
<1>4. SaleOK' /\ AnswersOK'
  BY DEF IInv, SaleOK, AnswersOK, ResetOpen, locals
<1>5. SoldSeatsRecorded'
  <2>1. \A m \in Movies : Sold(m)' = 0
    BY Sizes DEF ResetOpen, AllFree, Sold
  <2>2. \A m \in Movies, k \in Seats : k \in Nat /\ seat'[m][k] = 0
    BY Sizes DEF ResetOpen, Unsold, Seats
  <2> QED BY <2>1, <2>2 DEF SoldSeatsRecorded
<1>6. IssuedRecorded' /\ TicketsUnique'
  BY NumberIsTicket DEF IInv, ResetOpen, IssuedRecorded, TicketsUnique
<1> QED BY <1>1, <1>2, <1>3, <1>4, <1>5, <1>6 DEF IInv

LEMMA InvResetFlush ==
  ASSUME IInv, ResetFlush
  PROVE  IInv'
<1>1. TypeOK' /\ MappingInFile'
  <2>1. size \in Nat /\ size' \in Nat /\ size < size' /\ size' <= NMovies
    BY Sizes DEF IInv, TypeOK, ResetFlush
  <2>2. \A s \in Servers : count[s] \in Nat /\ count[s] <= size
    BY Sizes DEF IInv, TypeOK, MappingInFile
  <2>3. MappingInFile'
    BY <2>1, <2>2 DEF ResetFlush, MappingInFile
  <2> QED BY <2>1, <2>3, Sizes DEF IInv, TypeOK, ResetFlush, locks, locals
<1>2. LocksOK' /\ Closed'
  BY DEF IInv, LocksOK, Closed, ResetFlush, locks, locals
<1>3. SaleOK' /\ AnswersOK'
  BY DEF IInv, SaleOK, AnswersOK, ResetFlush, locals, Sold
<1>4. SoldSeatsRecorded' /\ IssuedRecorded' /\ TicketsUnique'
  BY DEF IInv, ResetFlush, Sold, SoldSeatsRecorded, IssuedRecorded, TicketsUnique
<1> QED BY <1>1, <1>2, <1>3, <1>4 DEF IInv

LEMMA InvNext == IInv /\ [Next]_vars => IInv'
<1> SUFFICES ASSUME IInv, [Next]_vars PROVE IInv'
  OBVIOUS
<1>1. ASSUME NEW s \in Servers, Start(s) PROVE IInv'
  BY <1>1, InvStart
<1>2. ASSUME NEW s \in Servers, Die(s) PROVE IInv'
  BY <1>2, InvDie
<1>3. ASSUME NEW s \in Servers, NEW m \in MovieArgs, Buy(s, m) PROVE IInv'
  BY <1>3, InvBuy
<1>4. ASSUME NEW s \in Servers, NEW t \in CodeArgs, Get(s, t) PROVE IInv'
  BY <1>4, InvGet
<1>5. ASSUME NEW s \in Servers, WLock(s) PROVE IInv'
  BY <1>5, InvWLock
<1>6. ASSUME NEW s \in Servers, RLock(s) PROVE IInv'
  BY <1>6, InvRLock
<1>7. ASSUME NEW s \in Servers, NoSuchMovie(s) PROVE IInv'
  BY <1>7, InvNoSuchMovie
<1>8. ASSUME NEW s \in Servers, NoMoreTickets(s) PROVE IInv'
  BY <1>8, InvNoMoreTickets
<1>9. ASSUME NEW s \in Servers, PickTicket(s) PROVE IInv'
  BY <1>9, InvPickTicket
<1>10. ASSUME NEW s \in Servers, StoreTicket(s) PROVE IInv'
  BY <1>10, InvStoreTicket
<1>11. ASSUME NEW s \in Servers, TakeSeat(s) PROVE IInv'
  BY <1>11, InvTakeSeat
<1>12. ASSUME NEW s \in Servers, AnswerBuy(s) PROVE IInv'
  BY <1>12, InvAnswerBuy
<1>13. ASSUME NEW s \in Servers, Scan(s) PROVE IInv'
  BY <1>13, InvScan
<1>14. ASSUME NEW s \in Servers, AnswerGet(s) PROVE IInv'
  BY <1>14, InvAnswerGet
<1>15. CASE ResetOpen
  BY <1>15, InvResetOpen
<1>16. CASE ResetFlush
  BY <1>16, InvResetFlush
<1>17. CASE UNCHANGED vars
  BY <1>17 DEF IInv, TypeOK, LocksOK, MappingInFile, Closed, SaleOK, SoldSeatsRecorded,
               AnswersOK, IssuedRecorded, TicketsUnique, Sold, vars
<1> QED BY <1>1, <1>2, <1>3, <1>4, <1>5, <1>6, <1>7, <1>8,
           <1>9, <1>10, <1>11, <1>12, <1>13, <1>14, <1>15, <1>16, <1>17 DEF Next, Work

(* The invariant holds whatever the servers, clients and crashes do.       *)
THEOREM Invariance == Spec => []IInv
<1>1. Init => IInv
  BY InvInit
<1>2. IInv /\ [Next]_vars => IInv'
  BY InvNext
<1> QED BY <1>1, <1>2, PTL DEF Spec

(* Every variable keeps its type, however many servers there are.          *)
THEOREM TypeCorrect == Spec => []TypeOK
<1>1. IInv => TypeOK
  BY DEF IInv
<1> QED BY <1>1, Invariance, PTL

(* No ticket is ever answered to two buyers (database.c:115).              *)
THEOREM Uniqueness == Spec => []TicketsUnique
<1>1. IInv => TicketsUnique
  BY DEF IInv
<1> QED BY <1>1, Invariance, PTL

(* What the file says is sold is what was sold, after any crash.           *)
THEOREM Records == Spec => []SalesRecorded
<1>1. IInv => SalesRecorded
  BY DEF IInv, SalesRecorded
<1> QED BY <1>1, Invariance, PTL

(* No server reads past the end of the file it mapped.                     *)
THEOREM MappingSafe == Spec => []MappingInFile
<1>1. IInv => MappingInFile
  BY DEF IInv
<1> QED BY <1>1, Invariance, PTL
-----------------------------------------------------------------------------
(* A seat never holds another seat's ticket.                               *)
LEMMA OwnTicket ==
  ASSUME IInv, NEW m \in Movies, NEW k \in Seats
  PROVE  seat[m][k] \in {0, Number(m, k)}
<1>1. k \in Int /\ Sold(m) \in Int
  <2>1. k \in Int
    BY DEF Seats
  <2>2. TypeOK
    BY DEF IInv
  <2> QED BY <2>1, <2>2, SoldTyped
<1>2. k < Sold(m) \/ k = Sold(m) \/ k > Sold(m)
  BY <1>1
<1> QED BY <1>2 DEF IInv, SoldSeatsRecorded

(* A lookup of a ticket can only hit that ticket's movie.                  *)
LEMMA HitsOwnMovie ==
  ASSUME IInv, NEW s \in Servers, NEW m \in Movies, NEW k \in Seats,
         NEW n \in Holding(s, Number(m, k))
  PROVE  n = m /\ seat[m][k] = Number(m, k)
<1>1. n \in Movies
  <2>1. n \in 0 .. count[s] - 1 /\ count[s] \in 0 .. NMovies
    BY DEF IInv, TypeOK, Holding
  <2> QED BY <2>1, Sizes DEF Movies
<1>2. PICK j \in Seats : seat[n][j] = Number(m, k)
  BY DEF Holding
<1>3. Number(n, j) = Number(m, k)
  BY <1>1, <1>2, OwnTicket, NumberIsTicket
<1> QED BY <1>1, <1>2, <1>3, NumberInjective

GetStep ==
  \A s \in Servers, m \in Movies, k \in Seats :
    pc[s] = "scan" /\ pc'[s] = "reply" /\ arg[s] = Number(m, k) =>
      /\ m < count[s] /\ issued[Number(m, k)] > 0 => found'[s] = m
      /\ found'[s] # Null => found'[s] = m /\ k <= Sold(m)

LEMMA GetStepHolds == IInv /\ [Next]_vars => GetStep
<1> SUFFICES ASSUME IInv, [Next]_vars,
                    NEW s \in Servers, NEW m \in Movies, NEW k \in Seats,
                    pc[s] = "scan", pc'[s] = "reply", arg[s] = Number(m, k)
             PROVE  /\ m < count[s] /\ issued[Number(m, k)] > 0 => found'[s] = m
                    /\ found'[s] # Null => found'[s] = m /\ k <= Sold(m)
  BY DEF GetStep
<1>1. Scan(s)
  BY DEF Next, Work, vars, IInv, TypeOK, Start, Die, Buy, Get, WLock, RLock, NoSuchMovie,
         NoMoreTickets, Refuse, PickTicket, StoreTicket, TakeSeat, AnswerBuy, Scan,
         AnswerGet, ResetOpen, ResetFlush, Goto, locals
<1>2. Holding(s, Number(m, k)) \subseteq {m}
  BY HitsOwnMovie
<1>3. \/ Holding(s, Number(m, k)) = {} /\ found'[s] = Null
      \/ m \in Holding(s, Number(m, k)) /\ found'[s] = m
  BY <1>1, <1>2 DEF Scan, IInv, TypeOK
<1>4. ASSUME m < count[s], issued[Number(m, k)] > 0 PROVE m \in Holding(s, Number(m, k))
  <2>1. seat[m][k] = Number(m, k)
    BY <1>4 DEF IInv, IssuedRecorded
  <2>2. m \in 0 .. count[s] - 1
    BY <1>4, Sizes DEF IInv, TypeOK, Movies
  <2> QED BY <2>1, <2>2 DEF Holding
<1>5. ASSUME m \in Holding(s, Number(m, k)) PROVE k <= Sold(m)
  <2>1. seat[m][k] # 0
    BY <1>5, HitsOwnMovie, NumberIsTicket
  <2>2. k \in Int
    BY DEF Seats
  <2>3. Sold(m) \in Int
    BY SoldTyped DEF IInv
  <2> QED BY <2>1, <2>2, <2>3 DEF IInv, SoldSeatsRecorded
<1> QED BY <1>3, <1>4, <1>5

(* A ticket somebody bought is found, with its movie, by every later       *)
(* lookup (db_get_ticket, database.c:129-144).                             *)
THEOREM LookupsFind == Spec => GetFindsIssued
<1>1. IInv /\ [Next]_vars =>
        [\A s \in Servers, m \in Movies, k \in Seats :
           ( /\ pc[s] = "scan" /\ pc'[s] = "reply" /\ m < count[s]
             /\ arg[s] = Number(m, k) /\ issued[Number(m, k)] > 0 ) => found'[s] = m]_vars
  BY GetStepHolds DEF GetStep
<1> QED BY <1>1, Invariance, PTL DEF Spec, GetFindsIssued

(* A number that is found was sold before, and for the movie it is found   *)
(* with (database.c:135-140).                                              *)
THEOREM LookupsFindOnlySold == Spec => GetFindsOnlySold
<1>1. IInv /\ [Next]_vars =>
        [\A s \in Servers, m \in Movies, k \in Seats :
           ( /\ pc[s] = "scan" /\ pc'[s] = "reply"
             /\ arg[s] = Number(m, k) /\ found'[s] # Null ) => found'[s] = m /\ k <= Sold(m)]_vars
  BY GetStepHolds DEF GetStep
<1> QED BY <1>1, Invariance, PTL DEF Spec, GetFindsOnlySold
-----------------------------------------------------------------------------
LEMMA OfficeInit == Init => Office!Init
<1> SUFFICES ASSUME Init PROVE Office!Init
  OBVIOUS
<1>1. [m \in Movies |-> Sold(m)] = [m \in Movies |-> 0]
  <2>1. MaxTickets \in Int
    BY Sizes
  <2>2. \A m \in Movies : Sold(m) = 0
    BY <2>1 DEF Init, AllFree, Sold
  <2> QED BY <2>2
<1>2. Office!Movies = Movies /\ Office!Tickets = Tickets
  BY DEF Office!Movies, Movies, Office!Tickets, Tickets, Office!Seats, Seats, Office!Number, Number
<1>3. issued = [t \in Tickets |-> 0]
  BY DEF Init
<1> QED BY <1>1, <1>2, <1>3 DEF Office!Init

(* Only counting a seat, answering a buyer and resetting can be seen from  *)
(* the office's counter.                                                   *)
LEMMA OfficeStep ==
  IInv /\ [Next]_vars => [Office!Next]_<<[m \in Movies |-> Sold(m)], issued>>
<1> SUFFICES ASSUME IInv, [Next]_vars
             PROVE  [Office!Next]_<<[m \in Movies |-> Sold(m)], issued>>
  OBVIOUS
<1>0. ASSUME UNCHANGED <<remaining, issued>>
      PROVE  UNCHANGED <<[m \in Movies |-> Sold(m)], issued>>
  BY <1>0 DEF Sold
<1>1. ASSUME NEW s \in Servers, TakeSeat(s) PROVE Office!Allocate(arg[s]) /\ arg[s] \in Office!Movies
  <2>1. /\ arg[s] \in Movies /\ remaining[arg[s]] \in 0 .. MaxTickets /\ remaining[arg[s]] > 0
    BY <1>1 DEF IInv, TypeOK, SaleOK, TakeSeat, Goto
  <2>2. remaining[arg[s]] \in 1 .. MaxTickets
    <3>1. \A r \in 0 .. MaxTickets : r > 0 => r \in 1 .. MaxTickets
      BY Sizes
    <3> QED BY <2>1, <3>1
  <2>3. remaining' = [remaining EXCEPT ![arg[s]] = remaining[arg[s]] - 1]
    BY <2>2, CountDown, <1>1 DEF TakeSeat
  <2>4. Sold(arg[s]) < MaxTickets
    BY <2>2, Sizes DEF Sold
  <2>5. \A m \in Movies : Sold(m)' = IF m = arg[s] THEN Sold(m) + 1 ELSE Sold(m)
    BY <2>1, <2>3, SoldAfter DEF IInv, TypeOK
  <2>6. [m \in Movies |-> Sold(m)]' = [[m \in Movies |-> Sold(m)] EXCEPT ![arg[s]] = @ + 1]
    BY <2>1, <2>5
  <2>7. issued' = issued
    BY <1>1 DEF TakeSeat
  <2> QED BY <2>1, <2>4, <2>6, <2>7 DEF Office!Allocate, Office!Movies, Movies
<1>2. ASSUME NEW s \in Servers, AnswerBuy(s), ticket[s] > 0
      PROVE  \E m \in Movies, k \in Seats : Office!HandOut(m, k)
  <2>1. PICK m \in Movies, k \in Seats : ticket[s] = Number(m, k)
    BY <1>2 DEF IInv, TypeOK, ErrNoSuchMovie, ErrNoMoreTickets, Tickets
  <2>2. k < Sold(m) /\ issued[Number(m, k)] = 0
    BY <1>2, <2>1 DEF IInv, AnswersOK, AnswerBuy, Goto
  <2>3. issued' = [issued EXCEPT ![Number(m, k)] = 1]
    BY <1>2, <2>1, <2>2 DEF AnswerBuy
  <2>4. UNCHANGED [n \in Movies |-> Sold(n)]
    BY <1>2 DEF AnswerBuy, file, Sold
  <2>5. Office!HandOut(m, k)
    BY <2>1, <2>2, <2>3, <2>4 DEF Office!HandOut, Office!Number, Number
  <2> QED BY <2>5
<1>3. ASSUME NEW s \in Servers, AnswerBuy(s), ~(ticket[s] > 0)
      PROVE  UNCHANGED <<[m \in Movies |-> Sold(m)], issued>>
  BY <1>0, <1>3 DEF AnswerBuy, file
<1>4. CASE ResetOpen
  <2>1. [m \in Movies |-> Sold(m)]' = [m \in Movies |-> 0]
    BY <1>4, Sizes DEF ResetOpen, AllFree, Sold
  <2> QED BY <1>4, <2>1 DEF ResetOpen, Office!Next, Office!Renew, Office!Movies, Movies,
             Office!Tickets, Tickets, Office!Number, Number, Office!Seats, Seats
<1>5. CASE ResetFlush \/ UNCHANGED vars
  BY <1>0, <1>5 DEF ResetFlush, vars
<1>6. ASSUME NEW s \in Servers, Start(s) PROVE UNCHANGED <<remaining, issued>>
  BY <1>6 DEF Start, file
<1>7. ASSUME NEW s \in Servers, Die(s) PROVE UNCHANGED <<remaining, issued>>
  BY <1>7 DEF Die, file
<1>8. ASSUME NEW s \in Servers, NEW m \in MovieArgs, Buy(s, m) PROVE UNCHANGED <<remaining, issued>>
  BY <1>8 DEF Buy, file
<1>9. ASSUME NEW s \in Servers, NEW t \in CodeArgs, Get(s, t) PROVE UNCHANGED <<remaining, issued>>
  BY <1>9 DEF Get, file
<1>10. ASSUME NEW s \in Servers, WLock(s) PROVE UNCHANGED <<remaining, issued>>
  BY <1>10 DEF WLock, file
<1>11. ASSUME NEW s \in Servers, RLock(s) PROVE UNCHANGED <<remaining, issued>>
  BY <1>11 DEF RLock, file
<1>12. ASSUME NEW s \in Servers, NoSuchMovie(s) PROVE UNCHANGED <<remaining, issued>>
  BY <1>12 DEF NoSuchMovie, file, Refuse
<1>13. ASSUME NEW s \in Servers, NoMoreTickets(s) PROVE UNCHANGED <<remaining, issued>>
  BY <1>13 DEF NoMoreTickets, file, Refuse
<1>14. ASSUME NEW s \in Servers, PickTicket(s) PROVE UNCHANGED <<remaining, issued>>
  BY <1>14 DEF PickTicket, file
<1>15. ASSUME NEW s \in Servers, StoreTicket(s) PROVE UNCHANGED <<remaining, issued>>
  BY <1>15 DEF StoreTicket, file
<1>16. ASSUME NEW s \in Servers, Scan(s) PROVE UNCHANGED <<remaining, issued>>
  BY <1>16 DEF Scan, file
<1>17. ASSUME NEW s \in Servers, AnswerGet(s) PROVE UNCHANGED <<remaining, issued>>
  BY <1>17 DEF AnswerGet, file
<1> QED BY <1>0, <1>1, <1>2, <1>3, <1>4, <1>5, <1>6, <1>7, <1>8, <1>9, <1>10, <1>11, <1>12, <1>13, <1>14, <1>15, <1>16, <1>17 DEF Next, Work, Office!Next,
           Office!Movies, Office!Seats, Movies, Seats

(* The database implements the office: seats are allocated one by one, and *)
(* a ticket is handed out once and only after its seat was allocated.      *)
THEOREM Implements == Spec => OfficeSpec
<1>1. Init => Office!Init
  BY OfficeInit
<1>2. IInv /\ [Next]_vars => [Office!Next]_<<[m \in Movies |-> Sold(m)], issued>>
  BY OfficeStep
<1> QED BY <1>1, <1>2, Invariance, PTL DEF Spec, OfficeSpec, Office!Spec
=============================================================================
