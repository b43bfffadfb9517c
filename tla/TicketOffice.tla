---------------------------- MODULE TicketOffice ----------------------------
(***************************************************************************)
(* What the ticket database promises, whoever opens it and whoever dies.   *)
(*                                                                         *)
(* Each movie has MaxTickets seats, allocated in order.  The ticket of     *)
(* seat k of movie m is the number Number(m, k).  A ticket may be handed   *)
(* out only after its seat was allocated, and at most once; a seat whose   *)
(* server dies before answering stays allocated and is never handed out.   *)
(* Renew is the operator creating a new database.                          *)
(***************************************************************************)
EXTENDS Integers

CONSTANTS NMovies,     \* movies in the fixtures file
          MaxTickets   \* MOVIE_MAX_TICKETS, the seats of one movie

Movies == 0 .. NMovies - 1
Seats  == 0 .. MaxTickets - 1

Number(m, k) == m * MaxTickets + k + 1
Tickets      == {Number(m, k) : m \in Movies, k \in Seats}

VARIABLES allocated,   \* allocated[m]: how many seats of m are taken
          issued       \* issued[t]: how many times ticket t was handed out

Init == /\ allocated = [m \in Movies |-> 0]
        /\ issued = [t \in Tickets |-> 0]

Allocate(m) == /\ allocated[m] < MaxTickets
               /\ allocated' = [allocated EXCEPT ![m] = @ + 1]
               /\ UNCHANGED issued

HandOut(m, k) == /\ k < allocated[m]
                 /\ issued[Number(m, k)] = 0
                 /\ issued' = [issued EXCEPT ![Number(m, k)] = 1]
                 /\ UNCHANGED allocated

Renew == /\ allocated' = [m \in Movies |-> 0]
         /\ issued' = [t \in Tickets |-> 0]

Next == \/ \E m \in Movies : Allocate(m)
        \/ \E m \in Movies, k \in Seats : HandOut(m, k)
        \/ Renew

Spec == Init /\ [][Next]_<<allocated, issued>>
=============================================================================
