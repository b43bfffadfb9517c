------------------------------ MODULE Service ------------------------------
(***************************************************************************)
(* The ticket office as its users see it: the client program from its      *)
(* command line to what it prints (src/exe/client.c, src/actions.c), the   *)
(* server's loop and dispatch (src/exe/server.c), and the database, over   *)
(* the socket transport.  A database call is one step here; module         *)
(* Database has its stores and its lock.                                   *)
(***************************************************************************)
EXTENDS Sockets, FiniteSetsExt

CONSTANTS Movies,     \* how many movies the database has
          Seats,      \* seats of a movie
          Width,      \* 2^16: the values of the uint16_t movie_i
          Numbers,    \* the movie numbers that users type
          Codes,      \* and the ticket codes
          MaxConns    \* bound: connections in one behaviour

ASSUME ServiceAssumption ==
  /\ Movies \in Nat \ {0} /\ Seats \in Nat \ {0} /\ Width \in Nat /\ Movies < Width
  /\ Numbers \subseteq Nat /\ Codes \subseteq Nat /\ MaxConns \in Nat

ErrNoSuchMovie == -1
ErrNoSuchTicket == -2
ErrNoMoreTickets == -3

Ticket(m, k) == m * Seats + k
Tickets      == 1 .. Movies * Seats
MovieOf(t)   == (t - 1) \div Seats

(* What a user types, and what req_* makes of it.                          *)
Commands == {[action |-> "list", arg |-> 0]}
            \cup [action : {"buy"}, arg : Numbers] \cup [action : {"get"}, arg : Codes]

(* mutant: movies are numbered from 0 *)
RequestFromZero(command) ==
  IF command.action = "buy" THEN [command EXCEPT !.arg = @ % Width] ELSE command

Request(command) ==
  IF command.action = "buy" THEN [command EXCEPT !.arg = (@ - 1) % Width] ELSE command

(* The request for a seat of movie m.                                      *)
Purchase(m) == [action |-> "buy", arg |-> m]

(* What the server finds in memory that no request was read into.          *)
Bad     == [action |-> "bad", arg |-> 0]
Garbage == {Request(command) : command \in Commands} \cup {Bad}

Nobody == "nobody"

VARIABLES
  sold,        \* sold[m]: how many seats of movie m are sold
  spc, skt,    \* the server: where it is, and its current connection, 0 for none
  msg, reply,  \*   the request it works on, and the answer
  whose,       \*   (history) and the client whose request it is
  cpc, typed,  \* the clients: where they are, and their commands
  stage, got,  \* history: each client's call, and whose reply its last one returned
  printed,     \* history: how often each ticket was printed
  knew,        \* history: clients that ask for a ticket printed before they asked
  told,        \* history: what was printed since the last call began, to which
               \*   command, and by a client in knew or not
  asked,       \* history: how many requests to buy a seat of each movie were sent
  garbage      \* history: the server worked on a request that nobody sent

sockets == <<conn, accepted>>
server  == <<spc, skt, msg, reply, whose>>
client  == <<cpc, typed>>
history == <<stage, got, printed, knew, told, asked, garbage>>
vars    == <<sockets, sold, server, client, history>>

Silence == [type |-> "none", value |-> 0]
Replies == [type : {"list", "ticket", "movie", "error", "none"}, value : Int]

TypeOK ==
  /\ accepted \in 0 .. Len(conn) /\ accepted <= MaxFds
  /\ Len(conn) - accepted <= Backlog + 1
  /\ sold \in [0 .. Movies - 1 -> 0 .. Seats]
  /\ spc \in {"accept", "read", "act", "length", "content", "down"} /\ skt \in 0 .. MaxFds
  /\ msg \in Garbage /\ reply \in Replies /\ whose \in Clients \cup {Nobody}
  /\ cpc \in [Clients -> {"idle", "length", "content", "wait"}]
  /\ typed \in [Clients -> Commands]
  /\ stage \in [Clients -> {"idle", "asked", "served"}]
  /\ got \in [Clients -> Clients \cup {Nobody}]
  /\ printed \in [Tickets -> Nat] /\ knew \subseteq Clients
  /\ told \in [command : Commands, answer : Replies, known : BOOLEAN]
  /\ asked \in [0 .. Movies - 1 -> Nat] /\ garbage \in BOOLEAN

Idle   == [action |-> "list", arg |-> 0]
NotYet == [command |-> Idle, answer |-> Silence, known |-> FALSE]

Init ==
  /\ Listen
  /\ sold = [m \in 0 .. Movies - 1 |-> 0]
  /\ spc = "accept" /\ skt = 0 /\ msg = Bad /\ reply = Silence /\ whose = Nobody
  /\ cpc = [c \in Clients |-> "idle"] /\ typed = [c \in Clients |-> Idle]
  /\ stage = [c \in Clients |-> "idle"] /\ got = [c \in Clients |-> Nobody]
  /\ printed = [t \in Tickets |-> 0] /\ knew = {} /\ told = NotYet
  /\ asked = [m \in 0 .. Movies - 1 |-> 0] /\ garbage = FALSE
-----------------------------------------------------------------------------
(* The server's ipc_recv.                                                  *)

SAccept == /\ spc = "accept" /\ spc' = "read"
           /\ Accept /\ skt' = accepted'
           /\ UNCHANGED <<sold, msg, reply, whose, client, history>>

(* accept fails at once when there is no descriptor left.                  *)
SAcceptFails == /\ spc = "accept" /\ spc' = "read"
                /\ NoDescriptor /\ skt' = 0
                /\ UNCHANGED <<sockets, sold, msg, reply, whose, client, history>>

(* mutant: the request is read from whichever connection has one *)
SReadOther == /\ spc = "read" /\ spc' = "act"
              /\ skt # 0
              /\ \E i \in skt .. Len(conn) :
                   /\ Complete(i, "up")
                   /\ msg' = conn[i].up[2].request /\ whose' = conn[i].up[2].of
                   /\ Consume(i, "up")
              /\ UNCHANGED <<sold, skt, reply, client, history>>

SRead == /\ spc = "read" /\ spc' = "act"
         /\ skt # 0 /\ Complete(skt, "up")
         /\ msg' = conn[skt].up[2].request /\ whose' = conn[skt].up[2].of
         /\ Consume(skt, "up")
         /\ UNCHANGED <<sold, skt, reply, client, history>>

(* No connection, or one whose client left before it had sent a request.   *)
SReadNothing == /\ spc = "read" /\ spc' = "act"
                /\ \/ skt = 0
                   \/ skt # 0 /\ ~conn[skt].open /\ ~Complete(skt, "up")
                /\ msg' \in Garbage /\ whose' = Nobody
                /\ garbage' = TRUE
                /\ UNCHANGED <<sockets, sold, skt, reply, client, stage, got, printed, knew, told, asked>>
-----------------------------------------------------------------------------
(* The dispatch, res_* and the server's ipc_send.                          *)

(* What res_error sends and han_error prints.                              *)
Error(code) == [type |-> "error", value |-> code]

(* mutant: the last seat is never missed *)
SaleUnchecked(m) ==
  IF m >= Movies THEN [reply |-> Error(ErrNoSuchMovie), sold |-> sold]
  ELSE [reply |-> [type |-> "ticket", value |-> Ticket(m, sold[m] + 1)],
        sold |-> [sold EXCEPT ![m] = @ + 1]]

(* mutant: the seat stays free *)
SaleOfNothing(m) ==
  IF m >= Movies THEN [reply |-> Error(ErrNoSuchMovie), sold |-> sold]
  ELSE [reply |-> [type |-> "ticket", value |-> Ticket(m, sold[m] + 1)], sold |-> sold]

(* mutant: two seats for one ticket *)
SaleOfTwo(m) ==
  IF m >= Movies THEN [reply |-> Error(ErrNoSuchMovie), sold |-> sold]
  ELSE IF sold[m] + 1 >= Seats THEN [reply |-> Error(ErrNoMoreTickets), sold |-> sold]
  ELSE [reply |-> [type |-> "ticket", value |-> Ticket(m, sold[m] + 1)],
        sold |-> [sold EXCEPT ![m] = @ + 2]]

(* db_buy_ticket and res_buy_ticket.                                       *)
Sale(m) ==
  IF m >= Movies THEN [reply |-> Error(ErrNoSuchMovie), sold |-> sold]
  ELSE IF sold[m] = Seats THEN [reply |-> Error(ErrNoMoreTickets), sold |-> sold]
  ELSE [reply |-> [type |-> "ticket", value |-> Ticket(m, sold[m] + 1)],
        sold |-> [sold EXCEPT ![m] = @ + 1]]

(* The code that seat k of movie m holds: a free seat holds 0.             *)
Code(m, k) == IF k <= sold[m] THEN Ticket(m, k) ELSE 0

Found(t) == {m \in 0 .. Movies - 1 : \E k \in 1 .. Seats : Code(m, k) = t}

(* db_get_ticket and res_get_ticket: the last movie with a seat of code t. *)
Lookup(t) == IF Found(t) = {} THEN Error(ErrNoSuchTicket)
             ELSE [type |-> "movie", value |-> Max(Found(t))]

(* Acting twice on one call is no step of Rpc.                             *)
Acted(c) == IF stage[c] = "asked" THEN "served" ELSE "again"

(* The server answers the request of whose, on connection skt; if that is  *)
(* closed, its call is over.                                               *)
Respond(answer) == /\ spc' = "length" /\ reply' = answer
                   /\ stage' = [c \in Clients |->
                        IF skt # 0 /\ conn[skt].open /\ whose = c THEN Acted(c) ELSE stage[c]]
                   /\ UNCHANGED <<got, printed, knew, told, asked, garbage>>

SAct == /\ spc = "act"
        /\ \/ /\ msg.action = "list" /\ Respond([type |-> "list", value |-> Movies])
              /\ UNCHANGED sold
           \/ /\ msg.action = "buy" /\ Respond(Sale(msg.arg).reply)
              /\ sold' = Sale(msg.arg).sold
           \/ /\ msg.action = "get" /\ Respond(Lookup(msg.arg))
              /\ UNCHANGED sold
           \/ /\ msg.action \notin {"list", "buy", "get"}
              /\ spc' = "accept"
              /\ UNCHANGED <<sold, reply, history>>
        /\ msg' = Bad
        /\ UNCHANGED <<sockets, skt, whose, client>>

(* A write without a connection fails, and nobody looks; what is written   *)
(* to one that the client closed is dropped.                               *)
SWrite(part) == IF skt = 0 THEN UNCHANGED sockets
                ELSE IF ~conn[skt].open THEN UNCHANGED sockets
                ELSE Write(skt, "down", part)

SSendLength == /\ spc = "length" /\ spc' = "content"
               /\ SWrite("length")
               /\ UNCHANGED <<sold, skt, msg, reply, whose, client, history>>

SSendContent == /\ spc = "content" /\ spc' = "accept"
                /\ SWrite([reply |-> reply, of |-> whose])
                /\ reply' = Silence /\ whose' = Nobody
                /\ UNCHANGED <<sold, skt, msg, client, history>>

(* The second write to a client that is gone: SIGPIPE ends the server; or  *)
(* SIGINT does, at any instruction.                                        *)
SDie == /\ spc' = "down" /\ skt' = 0 /\ msg' = Bad /\ reply' = Silence /\ whose' = Nobody
        /\ UNCHANGED <<sockets, sold, client, history>>
SigPipe == spc = "content" /\ skt # 0 /\ ~conn[skt].open /\ SDie
Stop    == spc # "down" /\ SDie
-----------------------------------------------------------------------------
(* The client.                                                             *)

CGoto(c, from, to) == cpc[c] = from /\ cpc' = [cpc EXCEPT ![c] = to]

CConnect(c, command) ==
  /\ CGoto(c, "idle", "length")
  /\ spc # "down" /\ Len(conn) < MaxConns
  /\ Dial(c)
  /\ typed' = [typed EXCEPT ![c] = command]
  /\ stage' = [stage EXCEPT ![c] = "asked"]
  /\ told' = NotYet
  /\ knew' = IF /\ command.action = "get" /\ command.arg \in Tickets
                /\ printed[command.arg] > 0
             THEN knew \cup {c} ELSE knew
  /\ UNCHANGED <<sold, server, got, printed, asked, garbage>>

CSendLength(c) == /\ CGoto(c, "length", "content")
                  /\ Write(Mine(c), "up", "length")
                  /\ UNCHANGED <<sold, server, typed, history>>

CSendContent(c) == /\ CGoto(c, "content", "wait")
                   /\ Write(Mine(c), "up", [request |-> Request(typed[c]), of |-> c])
                   /\ asked' = [m \in 0 .. Movies - 1 |->
                        asked[m] + (IF Request(typed[c]) = Purchase(m) THEN 1 ELSE 0)]
                   /\ UNCHANGED <<sold, server, typed, stage, got, printed, knew, told, garbage>>

CEnd(c) == /\ cpc' = [cpc EXCEPT ![c] = "idle"]
           /\ typed' = [typed EXCEPT ![c] = Idle]
           /\ stage' = [stage EXCEPT ![c] = "idle"]
           /\ knew' = knew \ {c}
           /\ Hangup(Mine(c))
           /\ UNCHANGED <<sold, server, asked, garbage>>

(* han_buy_ticket prints ticket t.                                         *)
Shows(answer, t) == answer = [type |-> "ticket", value |-> t]

(* han_*, ipc_close.                                                       *)
CHandle(c) ==
  /\ cpc[c] = "wait" /\ Complete(Mine(c), "down")
  /\ LET answer == conn[Mine(c)].down[2] IN
       /\ told' = [command |-> typed[c], answer |-> answer.reply, known |-> c \in knew]
       /\ printed' = [t \in Tickets |-> printed[t] + (IF Shows(answer.reply, t) THEN 1 ELSE 0)]
       /\ got' = [got EXCEPT ![c] = answer.of]
  /\ CEnd(c)

(* The connection ends before the reply: ipc_recv returns an empty buffer, *)
(* and nothing is printed.                                                 *)
CServerGone(c) == /\ cpc[c] # "idle" /\ spc = "down" /\ ~Complete(Mine(c), "down")
                  /\ CEnd(c) /\ UNCHANGED <<got, told, printed>>

(* The client is killed; or it was called with too few arguments, which    *)
(* main checks after ipc_connect.                                          *)
CKill(c) == cpc[c] # "idle" /\ CEnd(c) /\ UNCHANGED <<got, told, printed>>
-----------------------------------------------------------------------------
ServerStep == \/ SAccept \/ SAcceptFails \/ SRead \/ SReadNothing \/ SAct
              \/ SSendLength \/ SSendContent \/ SigPipe
ClientStep(c) == CSendLength(c) \/ CSendContent(c) \/ CHandle(c) \/ CServerGone(c)

Next == \/ ServerStep \/ Stop
        \/ \E c \in Clients : \/ ClientStep(c) \/ CKill(c)
                              \/ \E command \in Commands : CConnect(c, command)

Spec == Init /\ [][Next]_vars

(* Both programs are scheduled; nothing makes a user call.                 *)
FairSpec == Spec /\ WF_vars(ServerStep) /\ \A c \in Clients : WF_vars(ClientStep(c))
-----------------------------------------------------------------------------
(* A ticket is printed for one buyer only (database.c:115).                *)
PrintedOnce == \A t \in Tickets : printed[t] <= 1

(* What a client prints is true of the database and answers its command,   *)
(* for movie numbers that fit in 16 bits: the ticket is for the movie that *)
(* was typed and is sold, a refusal is justified, and a ticket that was    *)
(* printed before somebody asks for it is found.  The code 0 is what free  *)
(* seats hold: some movie is printed for it, until every seat is sold.     *)
Sold(t) == t \in Tickets /\ t - MovieOf(t) * Seats <= sold[MovieOf(t)]

SoldOut == \A m \in 0 .. Movies - 1 : sold[m] = Seats

Fits(command, answer, known) ==
  \/ command.action = "list" /\ answer.type = "list" /\ answer.value = Movies
  \/ /\ command.action = "buy"
     /\ \/ answer.type = "ticket" /\ Sold(answer.value) /\ MovieOf(answer.value) = command.arg - 1
        \/ answer = Error(ErrNoSuchMovie) /\ command.arg \notin 1 .. Movies
        \/ /\ answer = Error(ErrNoMoreTickets) /\ command.arg \in 1 .. Movies
           /\ sold[command.arg - 1] = Seats
  \/ /\ command.action = "get"
     /\ \/ answer.type = "movie" /\ Sold(command.arg) /\ MovieOf(command.arg) = answer.value
        \/ answer.type = "movie" /\ command.arg = 0 /\ answer.value \in 0 .. Movies - 1
        \/ answer = Error(ErrNoSuchTicket) /\ ~known /\ (command.arg = 0 => SoldOut)

AnswersFit ==
  told.answer # Silence /\ told.command.arg <= Width
    => Fits(told.command, told.answer, told.known)

(* Seats are sold to those who ask: of no movie more than were asked for,  *)
(* as long as the server read every request it worked on.                  *)
SalesAsked == ~garbage => \A m \in 0 .. Movies - 1 : sold[m] <= asked[m]

(* A call comes back, also when the server is stopped or another client is *)
(* killed, for as long as the server has descriptors.                      *)
CallsReturn == \A c \in Clients : cpc[c] # "idle" ~> cpc[c] = "idle" \/ Len(conn) > MaxFds

(* A client gets the reply to its own request, on its own connection.      *)
Calls   == INSTANCE Rpc
RpcSpec == Calls!Spec
=============================================================================
