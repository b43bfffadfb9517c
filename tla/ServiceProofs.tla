--------------------------- MODULE ServiceProofs ---------------------------
(***************************************************************************)
(* Theorems about the ticket office over sockets, for any number of        *)
(* clients, movies, seats and descriptors, whoever is stopped or killed.   *)
(***************************************************************************)
EXTENDS Service, SequenceTheorems, FiniteSetTheorems, WellFoundedInduction, TLAPS

(* What may be in a connection: a length and a content, or a part of them. *)
Asks       == {<<>>, <<"length">>} \cup
              {<<"length", x>> : x \in [request : Garbage, of : Clients]}
Answers    == {<<>>, <<"length">>} \cup
              {<<"length", x>> : x \in [reply : Replies, of : Clients \cup {Nobody}]}
Connection == [client : Clients, up : Asks, down : Answers, open : BOOLEAN]

ConnOK == conn \in Seq(Connection) /\ skt \in {0, accepted}

(* A client that is in a call has one open connection, its latest.         *)
CallsOK ==
  /\ \A c \in Clients : cpc[c] # "idle" => \E i \in DOMAIN conn : conn[i].client = c /\ conn[i].open
  /\ \A c \in Clients : cpc[c] = "idle" <=> stage[c] = "idle"
  /\ \A i \in DOMAIN conn : conn[i].open =>
       /\ cpc[conn[i].client] # "idle"
       /\ \A j \in DOMAIN conn : conn[j].client = conn[i].client => j <= i

(* What an open connection holds of the request of its client.             *)
RequestsOK ==
  \A i \in DOMAIN conn : conn[i].open =>
    /\ cpc[conn[i].client] = "length" => conn[i].up = <<>>
    /\ cpc[conn[i].client] = "content" => conn[i].up = <<"length">>
    /\ cpc[conn[i].client] = "wait" =>
         conn[i].up \in {<<>>, <<"length", [request |-> Request(typed[conn[i].client]),
                                            of |-> conn[i].client]>>}

(* With the seats in s sold, an answer fits a command, and a refusal names *)
(* a movie that there is: what Fits says, of any s.                        *)
OnSale(s, t) == t \in Tickets /\ t - MovieOf(t) * Seats <= s[MovieOf(t)]

Apt(s, command, answer, known) ==
  command.arg <= Width =>
    \/ /\ command.action = "list" /\ answer.type = "list" /\ answer.value = Movies
    \/ /\ command.action = "buy" /\ answer.type = "ticket"
       /\ OnSale(s, answer.value) /\ MovieOf(answer.value) = command.arg - 1
    \/ /\ command.action = "buy" /\ answer = Error(ErrNoSuchMovie)
       /\ command.arg \notin 1 .. Movies
    \/ /\ command.action = "buy" /\ answer = Error(ErrNoMoreTickets)
       /\ command.arg - 1 \in 0 .. Movies - 1 /\ s[command.arg - 1] = Seats
    \/ /\ command.action = "get" /\ answer.type = "movie"
       /\ OnSale(s, command.arg) /\ MovieOf(command.arg) = answer.value
    \/ /\ command.action = "get" /\ answer.type = "movie"
       /\ command.arg = 0 /\ answer.value \in 0 .. Movies - 1
    \/ /\ command.action = "get" /\ answer = Error(ErrNoSuchTicket) /\ ~known
       /\ command.arg = 0 => \A m \in 0 .. Movies - 1 : s[m] = Seats

(* The request that the server works on, and its reply, belong to the      *)
(* client of the current connection if that is open.                       *)
ServerOK ==
  /\ spc \notin {"length", "content"} => reply = Silence
  /\ skt # 0 /\ conn[skt].open =>
       /\ spc = "act" => whose = conn[skt].client /\ msg = Request(typed[conn[skt].client])
       /\ spc \in {"length", "content"} =>
            /\ whose = conn[skt].client /\ stage[conn[skt].client] = "served"
            /\ Apt(sold, typed[conn[skt].client], reply, conn[skt].client \in knew)
  /\ \A i \in DOMAIN conn :
       conn[i].open /\ (i > accepted \/ (i = skt /\ spc \in {"read", "act"}))
         => stage[conn[i].client] = "asked"

(* What a connection holds of a reply.                                     *)
RepliesOK ==
  \A i \in DOMAIN conn :
    /\ conn[i].down # <<>> => conn[i].open /\ i <= accepted
    /\ i = skt /\ spc \in {"read", "act", "length"} => conn[i].down = <<>>
    /\ i = skt /\ spc = "content" /\ conn[i].open => conn[i].down = <<"length">>
    /\ Complete(i, "down") =>
         /\ conn[i].down[2].of = conn[i].client /\ stage[conn[i].client] = "served"
         /\ Apt(sold, typed[conn[i].client], conn[i].down[2].reply, conn[i].client \in knew)

KnewOK == \A c \in knew : /\ cpc[c] # "idle"
                          /\ typed[c].action = "get" /\ OnSale(sold, typed[c].arg)

ToldOK == told.answer # Silence => Apt(sold, told.command, told.answer, told.known)

(* A ticket that was sold is in one place at most: with the server, in one *)
(* connection, or printed.                                                 *)
Carries(i, t) == Complete(i, "down") /\ Shows(conn[i].down[2].reply, t)

TicketsOK ==
  \A t \in Tickets :
    /\ printed[t] <= 1
    /\ printed[t] > 0 => OnSale(sold, t) /\ ~Shows(reply, t) /\ \A i \in DOMAIN conn : ~Carries(i, t)
    /\ Shows(reply, t) => OnSale(sold, t) /\ \A i \in DOMAIN conn : ~Carries(i, t)
    /\ \A i \in DOMAIN conn : Carries(i, t) =>
         OnSale(sold, t) /\ \A j \in DOMAIN conn : Carries(j, t) => j = i

IInv == /\ TypeOK /\ ConnOK /\ CallsOK /\ RequestsOK /\ ServerOK /\ RepliesOK
        /\ KnewOK /\ ToldOK /\ TicketsOK
-----------------------------------------------------------------------------
(* Numbers of tickets.                                                     *)
LEMMA DivMod ==
  ASSUME NEW S \in Nat \ {0}, NEW x \in Int
  PROVE  /\ x \div S \in Int /\ x % S \in 0 .. S - 1
         /\ x = (S * (x \div S)) + (x % S)
OBVIOUS

LEMMA Quotient ==
  ASSUME NEW S \in Nat \ {0}, NEW m \in Int, NEW r \in 0 .. S - 1
  PROVE  (m * S + r) \div S = m
OBVIOUS

LEMMA Remainder ==
  ASSUME NEW S \in Nat \ {0}
  PROVE  (0 - 1) % S = S - 1 /\ \A r \in 0 .. S - 1 : r % S = r
OBVIOUS

LEMMA ProductFits ==
  ASSUME NEW M \in Nat, NEW S \in Nat, NEW m \in 0 .. M - 1
  PROVE  m * S \in Nat /\ M * S \in Nat /\ m * S + S <= M * S
<1>1. PICK d \in Nat : M = m + d + 1
  <2>1. M - m - 1 \in Nat /\ M = m + (M - m - 1) + 1
    OBVIOUS
  <2> QED BY <2>1
<1>2. m * S \in Nat /\ d * S \in Nat
  BY <1>1
<1>3. (m + d + 1) * S = m * S + d * S + S
  BY <1>1
<1>4. ASSUME NEW x \in Nat, NEW y \in Nat
      PROVE  x + y + S \in Nat /\ x + S <= x + y + S
  OBVIOUS
<1> QED BY <1>1, <1>2, <1>3, <1>4

LEMMA TicketFacts ==
  ASSUME NEW m \in 0 .. Movies - 1, NEW k \in 1 .. Seats
  PROVE  /\ Ticket(m, k) \in Tickets /\ Ticket(m, k) \in Nat
         /\ MovieOf(Ticket(m, k)) = m /\ Ticket(m, k) - m * Seats = k
<1>1. Movies \in Nat /\ Seats \in Nat \ {0} /\ m \in Nat /\ k - 1 \in 0 .. Seats - 1
  BY ServiceAssumption
<1>2. m * Seats \in Nat /\ Movies * Seats \in Nat /\ m * Seats + Seats <= Movies * Seats
  BY <1>1, ProductFits
<1>3. ASSUME NEW x \in Nat, NEW y \in Nat, x + Seats <= y
      PROVE  x + k \in 1 .. y /\ x + k - 1 = x + (k - 1) /\ x + k - x = k /\ x + k \in Nat
  BY <1>1, <1>3
<1>4. (m * Seats + (k - 1)) \div Seats = m
  BY <1>1, Quotient
<1> QED BY <1>2, <1>3, <1>4 DEF Ticket, Tickets, MovieOf

LEMMA TicketOfSeat ==
  ASSUME NEW t \in Tickets
  PROVE  /\ t \in Nat /\ MovieOf(t) \in 0 .. Movies - 1
         /\ t - MovieOf(t) * Seats \in 1 .. Seats
         /\ t = Ticket(MovieOf(t), t - MovieOf(t) * Seats)
<1> DEFINE m == MovieOf(t)
           r == (t - 1) % Seats
<1>1. Movies \in Nat /\ Seats \in Nat \ {0} /\ Movies * Seats \in Nat
  BY ServiceAssumption
<1>2. t \in Nat /\ t - 1 \in Int /\ t >= 1 /\ t <= Movies * Seats
  BY <1>1 DEF Tickets
<1>3. m \in Int /\ r \in 0 .. Seats - 1 /\ t - 1 = (Seats * m) + r
  BY <1>1, <1>2, DivMod DEF MovieOf
<1>4. Seats * m = m * Seats /\ m * Seats \in Int
  BY <1>1, <1>3
<1>5. m >= 0
  <2>1. SUFFICES ASSUME m < 0 PROVE FALSE
    BY <1>3
  <2>2. m * Seats + Seats <= 0
    <3>1. -m - 1 \in Nat
      BY <1>3, <2>1
    <3>2. (-m - 1) * Seats \in Nat
      BY <1>1, <3>1
    <3>3. (-m - 1) * Seats = -(m * Seats + Seats)
      BY <1>1, <1>3
    <3> QED BY <1>1, <1>4, <3>2, <3>3
  <2> QED BY <1>1, <1>2, <1>3, <1>4, <2>2
<1>6. m < Movies
  <2>1. SUFFICES ASSUME m >= Movies PROVE FALSE
    BY <1>1, <1>3
  <2>2. m * Seats >= Movies * Seats
    <3>1. m - Movies \in Nat
      BY <1>1, <1>3, <2>1
    <3>2. (m - Movies) * Seats \in Nat
      BY <1>1, <3>1
    <3>3. (m - Movies) * Seats = m * Seats - Movies * Seats
      BY <1>1, <1>3
    <3> QED BY <1>1, <1>4, <3>2, <3>3
  <2> QED BY <1>1, <1>2, <1>3, <1>4, <2>2
<1>7. m \in 0 .. Movies - 1
  BY <1>1, <1>3, <1>5, <1>6
<1>8. ASSUME NEW x \in Int, t - 1 = x + r
      PROVE  t - x \in 1 .. Seats /\ t = x + (t - x)
  BY <1>1, <1>2, <1>3, <1>8
<1>9. t - m * Seats \in 1 .. Seats /\ t = m * Seats + (t - m * Seats)
  BY <1>3, <1>4, <1>8
<1> QED BY <1>2, <1>7, <1>9 DEF Ticket
-----------------------------------------------------------------------------
(* Commands and requests.                                                  *)
LEMMA CommandTypes ==
  ASSUME NEW command \in Commands
  PROVE  /\ command.action \in {"list", "buy", "get"} /\ command.arg \in Nat
         /\ command = [action |-> command.action, arg |-> command.arg]
         /\ Request(command) \in Garbage
<1>1. Numbers \subseteq Nat /\ Codes \subseteq Nat
  BY ServiceAssumption
<1> QED BY <1>1 DEF Commands, Garbage

LEMMA RequestFacts ==
  ASSUME NEW command \in Commands
  PROVE  /\ Request(command).action = command.action
         /\ command.action # "buy" => Request(command).arg = command.arg
         /\ command.action = "buy" => Request(command).arg = (command.arg - 1) % Width
         /\ command.action = "buy" => Request(command).arg \in 0 .. Width - 1
<1>1. Width \in Nat \ {0}
  BY ServiceAssumption
<1>2. command.arg - 1 \in Int
  BY CommandTypes
<1>3. (command.arg - 1) % Width \in 0 .. Width - 1
  BY <1>1, <1>2, DivMod
<1> QED BY <1>3, CommandTypes DEF Request

LEMMA GarbageFacts ==
  ASSUME NEW m \in Garbage
  PROVE  m.action = "buy" => m.arg \in 0 .. Width - 1
<1>1. CASE m = Bad
  BY <1>1 DEF Bad
<1>2. CASE \E command \in Commands : m = Request(command)
  BY <1>2, RequestFacts
<1> QED BY <1>1, <1>2 DEF Garbage

LEMMA GarbageShape ==
  ASSUME NEW m \in Garbage
  PROVE  m = [action |-> m.action, arg |-> m.arg]
<1>1. CASE m = Bad
  BY <1>1 DEF Bad
<1>2. CASE \E command \in Commands : m = Request(command)
  <2>1. PICK command \in Commands : m = Request(command)
    BY <1>2
  <2>2. command = [action |-> command.action, arg |-> command.arg]
    BY CommandTypes
  <2> QED BY <2>1, <2>2 DEF Request
<1> QED BY <1>1, <1>2 DEF Garbage

LEMMA IdleTypes ==
  /\ Idle \in Commands /\ Bad \in Garbage /\ Silence \in Replies
  /\ NotYet \in [command : Commands, answer : Replies, known : BOOLEAN]
  /\ NotYet.answer = Silence
  /\ \A code \in Int : Error(code) \in Replies
  /\ ErrNoSuchMovie \in Int /\ ErrNoSuchTicket \in Int /\ ErrNoMoreTickets \in Int
<1>1. Idle \in Commands /\ Bad \in Garbage
  BY DEF Idle, Commands, Garbage
<1>2. Silence \in Replies /\ \A code \in Int : Error(code) \in Replies
  BY DEF Silence, Replies, Error
<1> QED BY <1>1, <1>2 DEF NotYet, ErrNoSuchMovie, ErrNoSuchTicket, ErrNoMoreTickets
-----------------------------------------------------------------------------
(* Connections.                                                            *)
LEMMA AppendToNone == ASSUME NEW x PROVE Append(<<>>, x) = <<x>>
OBVIOUS

LEMMA AppendToOne == ASSUME NEW x, NEW y PROVE Append(<<x>>, y) = <<x, y>>
<1>0. PICK S : S = {x, y}
  OBVIOUS
<1>1. <<x>> \in Seq(S) /\ <<x, y>> \in Seq(S) /\ y \in S
  BY <1>0
<1>2. Append(<<x>>, y) \in Seq(S) /\ Len(Append(<<x>>, y)) = 2
      /\ Append(<<x>>, y)[1] = x /\ Append(<<x>>, y)[2] = y
  BY <1>1, AppendProperties
<1>3. Len(<<x, y>>) = 2 /\ <<x, y>>[1] = x /\ <<x, y>>[2] = y
  OBVIOUS
<1>4. \A i \in 1 .. Len(<<x, y>>) : Append(<<x>>, y)[i] = <<x, y>>[i]
  BY <1>2, <1>3
<1> QED BY ONLY <1>1, <1>2, <1>3, <1>4, SeqEqual

LEMMA WayTypes ==
  /\ \A s \in Answers : Len(s) = 2 =>
       /\ s = <<"length", s[2]>> /\ s[2] = [reply |-> s[2].reply, of |-> s[2].of]
       /\ s[2].reply \in Replies /\ s[2].of \in Clients \cup {Nobody}
  /\ \A s \in Asks : Len(s) = 2 =>
       /\ s = <<"length", s[2]>> /\ s[2].request \in Garbage /\ s[2].of \in Clients
  /\ {<<>>, <<"length">>} \subseteq Answers \cap Asks
  /\ \A r \in Replies, o \in Clients \cup {Nobody} :
       <<"length", [reply |-> r, of |-> o]>> \in Answers
  /\ \A r \in Garbage, o \in Clients : <<"length", [request |-> r, of |-> o]>> \in Asks
<1>1. \A s \in Answers : Len(s) = 2 =>
       /\ s = <<"length", s[2]>> /\ s[2] = [reply |-> s[2].reply, of |-> s[2].of]
       /\ s[2].reply \in Replies /\ s[2].of \in Clients \cup {Nobody}
  BY DEF Answers
<1>2. \A s \in Asks : Len(s) = 2 =>
       /\ s = <<"length", s[2]>> /\ s[2].request \in Garbage /\ s[2].of \in Clients
  BY DEF Asks
<1>3. {<<>>, <<"length">>} \subseteq Answers \cap Asks
  BY DEF Answers, Asks
<1>4. \A r \in Replies, o \in Clients \cup {Nobody} :
       <<"length", [reply |-> r, of |-> o]>> \in Answers
  BY DEF Answers
<1>5. \A r \in Garbage, o \in Clients : <<"length", [request |-> r, of |-> o]>> \in Asks
  BY DEF Asks
<1> QED BY <1>1, <1>2, <1>3, <1>4, <1>5

LEMMA ConnTypes ==
  ASSUME ConnOK, NEW i \in DOMAIN conn
  PROVE  /\ Len(conn) \in Nat /\ DOMAIN conn = 1 .. Len(conn) /\ i \in Nat
         /\ conn[i].client \in Clients /\ conn[i].up \in Asks /\ conn[i].down \in Answers
         /\ conn[i].open \in BOOLEAN
         /\ conn[i] = [client |-> conn[i].client, up |-> conn[i].up,
                       down |-> conn[i].down, open |-> conn[i].open]
<1>1. Len(conn) \in Nat /\ DOMAIN conn = 1 .. Len(conn) /\ conn[i] \in Connection
  BY LenProperties, ElementOfSeq DEF ConnOK
<1> QED BY <1>1 DEF Connection

(* Connection i has other contents now, and the others have the same.      *)
Becomes(i, u, d, o) ==
  /\ conn' \in Seq(Connection) /\ Len(conn') = Len(conn) /\ DOMAIN conn' = DOMAIN conn
  /\ conn'[i].client = conn[i].client /\ conn'[i].up = u /\ conn'[i].down = d /\ conn'[i].open = o
  /\ \A j \in DOMAIN conn : j # i => conn'[j] = conn[j]

LEMMA Put ==
  ASSUME ConnOK, NEW i \in DOMAIN conn, NEW r \in Connection, r.client = conn[i].client,
         conn' = [conn EXCEPT ![i] = r]
  PROVE  Becomes(i, r.up, r.down, r.open)
<1>1. conn \in Seq(Connection) /\ i \in 1 .. Len(conn)
  BY ConnTypes DEF ConnOK
<1>2. conn' \in Seq(Connection) /\ Len(conn') = Len(conn) /\ conn'[i] = r
      /\ \A j \in 1 .. Len(conn) : j # i => conn'[j] = conn[j]
  BY <1>1, ExceptSeq
<1>3. DOMAIN conn' = DOMAIN conn
  OBVIOUS
<1> QED BY <1>2, <1>3, ConnTypes DEF Becomes

LEMMA NewWay ==
  ASSUME NEW r \in Connection
  PROVE  /\ \A x \in Asks : LET s == [r EXCEPT !["up"] = x]
                            IN  /\ s \in Connection /\ s.client = r.client /\ s.up = x
                                /\ s.down = r.down /\ s.open = r.open
         /\ \A x \in Answers : LET s == [r EXCEPT !["down"] = x]
                               IN  /\ s \in Connection /\ s.client = r.client /\ s.up = r.up
                                   /\ s.down = x /\ s.open = r.open
BY DEF Connection

LEMMA WriteUp ==
  ASSUME ConnOK, NEW i \in DOMAIN conn, NEW part, NEW x \in Asks,
         Append(conn[i].up, part) = x, Write(i, "up", part)
  PROVE  Becomes(i, x, conn[i].down, conn[i].open) /\ accepted' = accepted
<1>1. conn' = [conn EXCEPT ![i] = [conn[i] EXCEPT !["up"] = x]]
  BY DEF Write
<1>2. conn[i] \in Connection /\ accepted' = accepted
  BY ConnTypes DEF Connection, Write
<1>3. PICK r : r = [conn[i] EXCEPT !["up"] = x]
  OBVIOUS
<1>4. /\ r \in Connection /\ r.client = conn[i].client
      /\ r.up = x /\ r.down = conn[i].down /\ r.open = conn[i].open
  BY <1>2, <1>3, NewWay
<1>5. conn' = [conn EXCEPT ![i] = r]
  BY ONLY <1>1, <1>3
<1> QED BY ONLY ConnOK, i \in DOMAIN conn, <1>2, <1>4, <1>5, Put

LEMMA WriteDown ==
  ASSUME ConnOK, NEW i \in DOMAIN conn, NEW part, NEW x \in Answers,
         Append(conn[i].down, part) = x, Write(i, "down", part)
  PROVE  Becomes(i, conn[i].up, x, conn[i].open) /\ accepted' = accepted
<1>1. conn' = [conn EXCEPT ![i] = [conn[i] EXCEPT !["down"] = x]]
  BY DEF Write
<1>2. conn[i] \in Connection /\ accepted' = accepted
  BY ConnTypes DEF Connection, Write
<1>3. PICK r : r = [conn[i] EXCEPT !["down"] = x]
  OBVIOUS
<1>4. /\ r \in Connection /\ r.client = conn[i].client
      /\ r.up = conn[i].up /\ r.down = x /\ r.open = conn[i].open
  BY <1>2, <1>3, NewWay
<1>5. conn' = [conn EXCEPT ![i] = r]
  BY ONLY <1>1, <1>3
<1> QED BY ONLY ConnOK, i \in DOMAIN conn, <1>2, <1>4, <1>5, Put

LEMMA ConsumeUp ==
  ASSUME ConnOK, NEW i \in DOMAIN conn, Consume(i, "up")
  PROVE  Becomes(i, <<>>, conn[i].down, conn[i].open) /\ accepted' = accepted
<1>1. conn' = [conn EXCEPT ![i] = [conn[i] EXCEPT !["up"] = <<>>]]
  BY DEF Consume
<1>2. conn[i] \in Connection /\ accepted' = accepted /\ <<>> \in Asks
  BY ConnTypes DEF Connection, Consume, Asks
<1>3. PICK r : r = [conn[i] EXCEPT !["up"] = <<>>]
  OBVIOUS
<1>4. /\ r \in Connection /\ r.client = conn[i].client
      /\ r.up = <<>> /\ r.down = conn[i].down /\ r.open = conn[i].open
  BY <1>2, <1>3, NewWay
<1>5. conn' = [conn EXCEPT ![i] = r]
  BY ONLY <1>1, <1>3
<1> QED BY ONLY ConnOK, i \in DOMAIN conn, <1>2, <1>4, <1>5, Put

LEMMA HangupCloses ==
  ASSUME ConnOK, NEW i \in DOMAIN conn, Hangup(i)
  PROVE  Becomes(i, conn[i].up, <<>>, FALSE) /\ accepted' = accepted
<1> DEFINE r == [[conn[i] EXCEPT !.open = FALSE] EXCEPT !.down = <<>>]
<1>1. conn' = [conn EXCEPT ![i] = r]
  BY DEF Hangup
<1>2. conn[i] \in Connection /\ accepted' = accepted /\ <<>> \in Answers
  BY ConnTypes DEF Connection, Hangup, Answers
<1>3. ASSUME NEW q \in Connection, NEW e \in BOOLEAN
      PROVE  LET s == [[q EXCEPT !.open = e] EXCEPT !.down = <<>>]
             IN  /\ s \in Connection /\ s.client = q.client /\ s.up = q.up
                 /\ s.down = <<>> /\ s.open = e
  BY <1>2 DEF Connection
<1>4. /\ r \in Connection /\ r.client = conn[i].client /\ r.up = conn[i].up
      /\ r.down = <<>> /\ r.open = FALSE
  BY ONLY <1>2, <1>3
<1> HIDE DEF r
<1> QED BY ONLY ConnOK, i \in DOMAIN conn, <1>1, <1>2, <1>4, Put

LEMMA DialAdds ==
  ASSUME ConnOK, NEW c \in Clients, Dial(c)
  PROVE  /\ conn' \in Seq(Connection) /\ Len(conn') = Len(conn) + 1 /\ Len(conn) \in Nat
         /\ DOMAIN conn' = 1 .. Len(conn) + 1 /\ DOMAIN conn = 1 .. Len(conn)
         /\ conn'[Len(conn) + 1] = New(c)
         /\ \A j \in DOMAIN conn : conn'[j] = conn[j]
         /\ accepted' = accepted /\ Len(conn) - accepted <= Backlog
<1>1. New(c) \in Connection
  BY WayTypes DEF New, Connection
<1>2. conn \in Seq(Connection) /\ conn' = Append(conn, New(c))
  BY DEF ConnOK, Dial
<1>3. DOMAIN conn = 1 .. Len(conn) /\ Len(conn) \in Nat
  BY <1>2, LenProperties
<1> QED BY <1>1, <1>2, <1>3, AppendProperties DEF Dial
-----------------------------------------------------------------------------
(* A client that is in a call finds its open connection.                   *)
LEMMA OneOpen ==
  ASSUME ConnOK, CallsOK, NEW i \in DOMAIN conn, NEW j \in DOMAIN conn,
         conn[i].open, conn[j].open, conn[i].client = conn[j].client
  PROVE  i = j
<1>1. i \in Nat /\ j \in Nat
  BY ConnTypes
<1>2. i <= j /\ j <= i
  BY DEF CallsOK
<1> QED BY <1>1, <1>2

LEMMA MineIs ==
  ASSUME ConnOK, CallsOK, NEW i \in DOMAIN conn, conn[i].open
  PROVE  Mine(conn[i].client) = i
<1> DEFINE c == conn[i].client
           P(x) == conn[x].client = c /\ \A j \in DOMAIN conn : conn[j].client = c => j <= x
<1>1. P(i)
  BY DEF CallsOK
<1>2. ASSUME NEW x \in DOMAIN conn, P(x) PROVE x = i
  <2>1. x \in Nat /\ i \in Nat
    BY ConnTypes
  <2>2. x <= i /\ i <= x
    BY <1>1, <1>2
  <2> QED BY <2>1, <2>2
<1>3. Mine(c) = CHOOSE x \in DOMAIN conn : P(x)
  BY DEF Mine
<1> HIDE DEF P
<1>4. P(CHOOSE x \in DOMAIN conn : P(x)) /\ (CHOOSE x \in DOMAIN conn : P(x)) \in DOMAIN conn
  BY <1>1
<1> QED BY <1>2, <1>3, <1>4

LEMMA MineOpen ==
  ASSUME ConnOK, CallsOK, NEW c \in Clients, cpc[c] # "idle"
  PROVE  Mine(c) \in DOMAIN conn /\ conn[Mine(c)].client = c /\ conn[Mine(c)].open
<1>1. PICK i \in DOMAIN conn : conn[i].client = c /\ conn[i].open
  BY DEF CallsOK
<1>2. Mine(c) = i
  BY <1>1, MineIs
<1> QED BY <1>1, <1>2

(* The server's connection is the last one that it accepted.               *)
LEMMA Current ==
  ASSUME TypeOK, ConnOK
  PROVE  /\ Len(conn) \in Nat /\ DOMAIN conn = 1 .. Len(conn)
         /\ accepted \in Nat /\ accepted <= Len(conn)
         /\ skt # 0 => skt \in DOMAIN conn /\ skt = accepted
<1>1. Len(conn) \in Nat /\ DOMAIN conn = 1 .. Len(conn)
  BY LenProperties DEF ConnOK
<1>2. accepted \in 0 .. Len(conn)
  BY DEF TypeOK
<1> QED BY <1>1, <1>2 DEF ConnOK

LEMMA TypedCommand == ASSUME TypeOK, NEW c \in Clients PROVE typed[c] \in Commands
BY DEF TypeOK
-----------------------------------------------------------------------------
(* What a step keeps if it leaves what is named alone.                     *)
LEMMA CallsKept ==
  ASSUME CallsOK, DOMAIN conn' = DOMAIN conn,
         \A j \in DOMAIN conn : conn'[j].client = conn[j].client /\ conn'[j].open = conn[j].open,
         \A c \in Clients : (cpc'[c] = "idle" <=> cpc[c] = "idle")
                            /\ (stage'[c] = "idle" <=> stage[c] = "idle"),
         \A j \in DOMAIN conn : conn[j].client \in Clients
  PROVE  CallsOK'
<1>1. \A c \in Clients : cpc'[c] # "idle" => \E i \in DOMAIN conn' : conn'[i].client = c /\ conn'[i].open
  BY DEF CallsOK
<1>2. \A c \in Clients : cpc'[c] = "idle" <=> stage'[c] = "idle"
  BY DEF CallsOK
<1>3. ASSUME NEW i \in DOMAIN conn', conn'[i].open
      PROVE  /\ cpc'[conn'[i].client] # "idle"
             /\ \A j \in DOMAIN conn' : conn'[j].client = conn'[i].client => j <= i
  BY <1>3 DEF CallsOK
<1> QED BY <1>1, <1>2, <1>3 DEF CallsOK

LEMMA RequestsKept ==
  ASSUME RequestsOK, DOMAIN conn' = DOMAIN conn, UNCHANGED <<cpc, typed>>,
         \A j \in DOMAIN conn : /\ conn'[j].client = conn[j].client /\ conn'[j].open = conn[j].open
                                /\ conn'[j].up = conn[j].up
  PROVE  RequestsOK'
BY DEF RequestsOK

LEMMA ToldKept == ASSUME ToldOK, UNCHANGED <<told, sold>> PROVE ToldOK'
BY DEF ToldOK

LEMMA KnewKept == ASSUME KnewOK, UNCHANGED <<cpc, knew, typed, sold>> PROVE KnewOK'
BY DEF KnewOK

(* Tickets stay where they are.                                            *)
LEMMA TicketsKept ==
  ASSUME TicketsOK, UNCHANGED <<printed, reply, sold>>, DOMAIN conn' = DOMAIN conn,
         \A j \in DOMAIN conn : /\ Len(conn'[j].down) = 2 => conn'[j].down = conn[j].down
  PROVE  TicketsOK'
<1>1. \A j \in DOMAIN conn, t \in Tickets : Carries(j, t)' => Carries(j, t)
  BY DEF Carries, Complete
<1> QED BY <1>1 DEF TicketsOK

LEMMA SameConn ==
  ASSUME conn' = conn
  PROVE  /\ DOMAIN conn' = DOMAIN conn
         /\ \A j \in DOMAIN conn : /\ conn'[j].client = conn[j].client /\ conn'[j].open = conn[j].open
                                   /\ conn'[j].up = conn[j].up /\ conn'[j].down = conn[j].down
OBVIOUS

LEMMA InvInit == Init => IInv
<1> SUFFICES ASSUME Init PROVE IInv
  OBVIOUS
<1>1. conn = <<>> /\ accepted = 0 /\ Len(conn) = 0 /\ DOMAIN conn = {} /\ conn \in Seq(Connection)
  BY DEF Init, Listen
<1>2. TypeOK
  <2>1. /\ accepted \in 0 .. Len(conn) /\ accepted <= MaxFds /\ Len(conn) - accepted <= Backlog + 1
        /\ skt \in 0 .. MaxFds
    BY <1>1, SocketsAssumption DEF Init
  <2>2. sold \in [0 .. Movies - 1 -> 0 .. Seats]
    BY ServiceAssumption DEF Init
  <2> QED BY <2>1, <2>2, IdleTypes DEF Init, TypeOK
<1>3. ConnOK /\ CallsOK /\ RequestsOK /\ RepliesOK /\ KnewOK /\ ToldOK
  BY <1>1, IdleTypes DEF Init, ConnOK, CallsOK, RequestsOK, RepliesOK, KnewOK, ToldOK
<1>4. ServerOK
  BY <1>1 DEF Init, ServerOK
<1>5. TicketsOK
  <2>1. \A t \in Tickets : printed[t] = 0 /\ ~Shows(reply, t)
    BY DEF Init, Shows, Silence
  <2> QED BY <1>1, <2>1 DEF TicketsOK
<1> QED BY <1>2, <1>3, <1>4, <1>5 DEF IInv
-----------------------------------------------------------------------------
(* The server.                                                             *)
LEMMA InvAccept ==
  ASSUME IInv, SAccept PROVE IInv'
<1>0. /\ TypeOK /\ ConnOK /\ CallsOK /\ RequestsOK /\ ServerOK /\ RepliesOK
      /\ KnewOK /\ ToldOK /\ TicketsOK
  BY DEF IInv
<1>1. /\ spc = "accept" /\ spc' = "read" /\ skt' = accepted' /\ accepted' = accepted + 1
      /\ accepted < MaxFds /\ accepted < Len(conn) /\ conn' = conn
      /\ UNCHANGED <<sold, msg, reply, whose, cpc, typed, stage, got, printed, knew, told, asked, garbage>>
  BY DEF SAccept, Accept, client, history
<1>2. /\ Len(conn) \in Nat /\ DOMAIN conn = 1 .. Len(conn) /\ accepted \in Nat /\ MaxFds \in Nat
      /\ Backlog \in Nat
  BY <1>0, Current, SocketsAssumption
<1>3. TypeOK'
  <2>1. /\ accepted' \in 0 .. Len(conn') /\ accepted' <= MaxFds
        /\ Len(conn') - accepted' <= Backlog + 1 /\ skt' \in 0 .. MaxFds
    BY <1>0, <1>1, <1>2 DEF TypeOK
  <2> QED BY <1>0, <1>1, <2>1 DEF TypeOK
<1>4. ConnOK'
  BY <1>0, <1>1 DEF ConnOK
<1>5. CallsOK' /\ RequestsOK' /\ KnewOK' /\ ToldOK' /\ TicketsOK'
  BY <1>0, <1>1, SameConn, ConnTypes, CallsKept, RequestsKept, KnewKept, ToldKept, TicketsKept
<1>6. ServerOK'
  <2>1. ASSUME NEW i \in DOMAIN conn, i > accepted' \/ i = skt' PROVE i > accepted
    BY <1>1, <1>2, <2>1
  <2> QED BY <1>0, <1>1, <2>1 DEF ServerOK
<1>7. RepliesOK'
  <2>1. ASSUME NEW i \in DOMAIN conn
        PROVE  (i <= accepted => i <= accepted') /\ (i = skt' => ~(i <= accepted))
    BY <1>1, <1>2
  <2> QED BY <1>0, <1>1, <2>1 DEF RepliesOK, Complete
<1> QED BY <1>3, <1>4, <1>5, <1>6, <1>7 DEF IInv

(* The server works on nothing that somebody sent.                         *)
LEMMA Unowned ==
  ASSUME IInv, conn' = conn,
         UNCHANGED <<accepted, sold, cpc, typed, stage, printed, knew, told>>,
         skt' = 0 \/ (skt' = skt /\ ~conn[skt].open), reply' \in {Silence, reply},
         spc' \notin {"length", "content"} => reply' = Silence
  PROVE  /\ ConnOK' /\ CallsOK' /\ RequestsOK' /\ KnewOK' /\ ToldOK' /\ TicketsOK'
         /\ ServerOK' /\ RepliesOK'
<1>0. /\ TypeOK /\ ConnOK /\ CallsOK /\ RequestsOK /\ ServerOK /\ RepliesOK
      /\ KnewOK /\ ToldOK /\ TicketsOK
  BY DEF IInv
<1>1. ConnOK' /\ CallsOK' /\ RequestsOK' /\ KnewOK' /\ ToldOK'
  <2>1. ConnOK'
    BY <1>0 DEF ConnOK
  <2> QED BY <2>1, <1>0, SameConn, ConnTypes, CallsKept, RequestsKept, KnewKept, ToldKept
<1>2. TicketsOK'
  <2>1. CASE reply' = reply
    BY <2>1, <1>0, SameConn, TicketsKept
  <2>2. CASE reply' = Silence
    <3>1. \A t \in Tickets : ~Shows(reply', t)
      BY <2>2 DEF Shows, Silence
    <3>2. \A j \in DOMAIN conn, t \in Tickets : Carries(j, t)' <=> Carries(j, t)
      BY DEF Carries, Complete
    <3> QED BY <1>0, <3>1, <3>2 DEF TicketsOK
  <2> QED BY <2>1, <2>2
<1>3. \A i \in DOMAIN conn : i # 0
  BY <1>0, Current
<1>4. ServerOK'
  BY <1>0, <1>3 DEF ServerOK
<1>5. RepliesOK'
  <2> SUFFICES ASSUME NEW i \in DOMAIN conn'
      PROVE /\ conn'[i].down # <<>> => conn'[i].open /\ i <= accepted'
            /\ i = skt' /\ spc' \in {"read", "act", "length"} => conn'[i].down = <<>>
            /\ i = skt' /\ spc' = "content" /\ conn'[i].open => conn'[i].down = <<"length">>
            /\ Complete(i, "down")' =>
                 /\ conn'[i].down[2].of = conn'[i].client /\ stage'[conn'[i].client] = "served"
                 /\ Apt(sold', typed'[conn'[i].client], conn'[i].down[2].reply, conn'[i].client \in knew')
    BY DEF RepliesOK
  <2>1. Complete(i, "down")' <=> Complete(i, "down")
    BY DEF Complete
  <2>2. i = skt' => ~conn[i].open /\ conn[i].down = <<>>
    BY <1>0, <1>3 DEF RepliesOK
  <2> QED BY <1>0, <2>1, <2>2 DEF RepliesOK
<1> QED BY <1>1, <1>2, <1>4, <1>5

LEMMA InvAcceptFails ==
  ASSUME IInv, SAcceptFails PROVE IInv'
<1>0. TypeOK /\ ServerOK
  BY DEF IInv
<1>1. /\ spc = "accept" /\ spc' = "read" /\ skt' = 0 /\ conn' = conn
      /\ UNCHANGED <<accepted, sold, msg, reply, whose, cpc, typed, stage, got, printed, knew, told, asked, garbage>>
  BY DEF SAcceptFails, sockets, client, history
<1>2. TypeOK'
  BY <1>0, <1>1, SocketsAssumption DEF TypeOK
<1>3. reply' = Silence
  BY <1>0, <1>1 DEF ServerOK
<1> QED BY <1>1, <1>2, <1>3, Unowned DEF IInv

LEMMA InvReadNothing ==
  ASSUME IInv, SReadNothing PROVE IInv'
<1>0. TypeOK /\ ServerOK /\ ConnOK
  BY DEF IInv
<1>1. /\ spc = "read" /\ spc' = "act" /\ conn' = conn /\ skt' = skt
      /\ skt = 0 \/ ~conn[skt].open
      /\ msg' \in Garbage /\ whose' = Nobody /\ garbage' = TRUE
      /\ UNCHANGED <<accepted, sold, reply, cpc, typed, stage, got, printed, knew, told, asked>>
  BY DEF SReadNothing, sockets, client
<1>2. TypeOK'
  BY <1>0, <1>1 DEF TypeOK
<1>3. reply' = Silence
  BY <1>0, <1>1 DEF ServerOK
<1> QED BY <1>1, <1>2, <1>3, Unowned DEF IInv

LEMMA InvDie ==
  ASSUME IInv, SDie PROVE IInv'
<1>0. TypeOK
  BY DEF IInv
<1>1. /\ spc' = "down" /\ skt' = 0 /\ msg' = Bad /\ reply' = Silence /\ whose' = Nobody
      /\ conn' = conn
      /\ UNCHANGED <<accepted, sold, cpc, typed, stage, got, printed, knew, told, asked, garbage>>
  BY DEF SDie, sockets, client, history
<1>2. TypeOK'
  BY <1>0, <1>1, IdleTypes, SocketsAssumption DEF TypeOK
<1> QED BY <1>1, <1>2, Unowned DEF IInv

LEMMA InvRead ==
  ASSUME IInv, SRead PROVE IInv'
<1>0. /\ TypeOK /\ ConnOK /\ CallsOK /\ RequestsOK /\ ServerOK /\ RepliesOK
      /\ KnewOK /\ ToldOK /\ TicketsOK
  BY DEF IInv
<1>1. /\ spc = "read" /\ spc' = "act" /\ skt # 0 /\ skt' = skt /\ Complete(skt, "up")
      /\ msg' = conn[skt].up[2].request /\ whose' = conn[skt].up[2].of
      /\ Consume(skt, "up")
      /\ UNCHANGED <<sold, reply, cpc, typed, stage, got, printed, knew, told, asked, garbage>>
  BY DEF SRead, client, history
<1>2. skt \in DOMAIN conn
  BY <1>0, <1>1, Current
<1>3. Becomes(skt, <<>>, conn[skt].down, conn[skt].open) /\ accepted' = accepted
  BY <1>0, <1>1, <1>2, ConsumeUp
<1>4. /\ DOMAIN conn' = DOMAIN conn /\ Len(conn') = Len(conn) /\ conn' \in Seq(Connection)
      /\ conn'[skt].up = <<>> /\ \A j \in DOMAIN conn : j # skt => conn'[j].up = conn[j].up
      /\ \A j \in DOMAIN conn : /\ conn'[j].client = conn[j].client /\ conn'[j].open = conn[j].open
                                /\ conn'[j].down = conn[j].down
  BY <1>3 DEF Becomes
<1>5. Len(conn[skt].up) = 2 /\ conn[skt].up \in Asks
  BY <1>0, <1>1, <1>2, ConnTypes DEF Complete
<1>6. msg' \in Garbage /\ whose' \in Clients
  BY <1>1, <1>5, WayTypes
<1>7. TypeOK'
  BY <1>0, <1>1, <1>3, <1>4, <1>6 DEF TypeOK
<1>8. ConnOK'
  BY <1>0, <1>1, <1>3, <1>4 DEF ConnOK
<1>9. CallsOK' /\ KnewOK' /\ ToldOK' /\ TicketsOK'
  BY <1>0, <1>1, <1>4, ConnTypes, CallsKept, KnewKept, ToldKept, TicketsKept
<1>10. conn[skt].open => msg' = Request(typed[conn[skt].client]) /\ whose' = conn[skt].client
  <2> SUFFICES ASSUME conn[skt].open
               PROVE  msg' = Request(typed[conn[skt].client]) /\ whose' = conn[skt].client
    OBVIOUS
  <2>1. cpc[conn[skt].client] = "wait"
    <3>1. cpc[conn[skt].client] \in {"length", "content", "wait"}
      BY <1>0, <1>2, ConnTypes DEF CallsOK, TypeOK
    <3> QED BY <1>0, <1>2, <1>5, <3>1 DEF RequestsOK
  <2>2. conn[skt].up \in {<<>>, <<"length", [request |-> Request(typed[conn[skt].client]),
                                            of |-> conn[skt].client]>>}
    BY <1>0, <1>2, <2>1 DEF RequestsOK
  <2> QED BY <1>1, <1>5, <2>2
<1>11. RequestsOK'
  <2> SUFFICES ASSUME NEW i \in DOMAIN conn', conn'[i].open
      PROVE /\ cpc'[conn'[i].client] = "length" => conn'[i].up = <<>>
            /\ cpc'[conn'[i].client] = "content" => conn'[i].up = <<"length">>
            /\ cpc'[conn'[i].client] = "wait" =>
                 conn'[i].up \in {<<>>, <<"length", [request |-> Request(typed'[conn'[i].client]),
                                                     of |-> conn'[i].client]>>}
    BY DEF RequestsOK
  <2>1. CASE i # skt
    BY <1>0, <1>1, <1>4, <2>1 DEF RequestsOK
  <2>2. CASE i = skt
    <3>0. conn[skt].open
      BY <1>2, <1>4, <2>2
    <3>1. Len(<<"length">>) = 1
      OBVIOUS
    <3>2. conn[skt].up # <<"length">>
      BY <1>5, <3>1
    <3>3. cpc[conn[skt].client] # "content"
      BY <1>0, <1>2, <3>0, <3>2 DEF RequestsOK
    <3> QED BY <1>1, <1>4, <2>2, <3>3
  <2> QED BY <2>1, <2>2
<1>12. ServerOK'
  BY <1>0, <1>1, <1>2, <1>3, <1>4, <1>10 DEF ServerOK
<1>13. RepliesOK'
  BY <1>0, <1>1, <1>3, <1>4 DEF RepliesOK, Complete
<1> QED BY <1>7, <1>8, <1>9, <1>11, <1>12, <1>13 DEF IInv

(* What a reply to a request is, and what it sells.                        *)
LEMMA SaleTypes ==
  ASSUME TypeOK, NEW m \in 0 .. Width - 1
  PROVE  \/ /\ Sale(m).sold = sold
            /\ Sale(m).reply \in {Error(ErrNoSuchMovie), Error(ErrNoMoreTickets)}
            /\ Sale(m).reply = Error(ErrNoSuchMovie) => m \notin 0 .. Movies - 1
            /\ Sale(m).reply = Error(ErrNoMoreTickets) => m \in 0 .. Movies - 1 /\ sold[m] = Seats
         \/ /\ m \in 0 .. Movies - 1 /\ sold[m] \in 0 .. Seats /\ sold[m] + 1 \in 1 .. Seats
            /\ Sale(m).sold = [sold EXCEPT ![m] = sold[m] + 1]
            /\ Sale(m).reply = [type |-> "ticket", value |-> Ticket(m, sold[m] + 1)]
<1>1. Movies \in Nat /\ Seats \in Nat /\ Width \in Nat
  BY ServiceAssumption
<1>2. CASE m >= Movies
  <2>1. Sale(m) = [reply |-> Error(ErrNoSuchMovie), sold |-> sold]
    BY <1>2 DEF Sale
  <2>2. m \notin 0 .. Movies - 1
    BY <1>1, <1>2
  <2>3. Error(ErrNoSuchMovie) # Error(ErrNoMoreTickets)
    BY DEF Error, ErrNoSuchMovie, ErrNoMoreTickets
  <2> QED BY <2>1, <2>2, <2>3
<1>3. CASE ~(m >= Movies) /\ sold[m] = Seats
  <2>1. Sale(m) = [reply |-> Error(ErrNoMoreTickets), sold |-> sold]
    BY <1>3 DEF Sale
  <2>2. m \in 0 .. Movies - 1
    BY <1>1, <1>3
  <2>3. Error(ErrNoSuchMovie) # Error(ErrNoMoreTickets)
    BY DEF Error, ErrNoSuchMovie, ErrNoMoreTickets
  <2> QED BY <1>3, <2>1, <2>2, <2>3
<1>4. CASE ~(m >= Movies) /\ sold[m] # Seats
  <2>1. Sale(m) = [reply |-> [type |-> "ticket", value |-> Ticket(m, sold[m] + 1)],
                   sold |-> [sold EXCEPT ![m] = sold[m] + 1]]
    BY <1>4 DEF Sale
  <2>2. m \in 0 .. Movies - 1
    BY <1>1, <1>4
  <2>3. sold[m] \in 0 .. Seats
    BY <2>2 DEF TypeOK
  <2>4. sold[m] + 1 \in 1 .. Seats
    BY <1>1, <1>4, <2>3
  <2> QED BY <2>1, <2>2, <2>3, <2>4
<1> QED BY <1>2, <1>3, <1>4

(* Ticket t becomes sold, and no other one.                                *)
Sells(t) ==
  /\ t \in Tickets /\ ~OnSale(sold, t) /\ OnSale(sold', t)
  /\ sold' \in [0 .. Movies - 1 -> 0 .. Seats]
  /\ \A x \in Tickets : OnSale(sold, x) => OnSale(sold', x)
  /\ \A m \in 0 .. Movies - 1 : sold[m] = Seats => sold'[m] = Seats

LEMMA SaleSells ==
  ASSUME TypeOK, NEW m \in 0 .. Movies - 1, sold[m] + 1 \in 1 .. Seats,
         sold' = [sold EXCEPT ![m] = sold[m] + 1]
  PROVE  Sells(Ticket(m, sold[m] + 1)) /\ MovieOf(Ticket(m, sold[m] + 1)) = m
<1>1. Seats \in Nat /\ sold \in [0 .. Movies - 1 -> 0 .. Seats]
  BY ServiceAssumption DEF TypeOK
<1>2. PICK t : t = Ticket(m, sold[m] + 1)
  OBVIOUS
<1>3. t \in Tickets /\ MovieOf(t) = m /\ t - m * Seats = sold[m] + 1
  BY <1>2, TicketFacts
<1>4. sold' \in [0 .. Movies - 1 -> 0 .. Seats] /\ sold'[m] = sold[m] + 1
      /\ \A n \in 0 .. Movies - 1 : sold[n] \in 0 .. Seats /\ (n # m => sold'[n] = sold[n])
  BY <1>1
<1>5. ~OnSale(sold, t) /\ OnSale(sold', t)
  <2>1. sold[m] \in Int /\ sold'[m] = sold[m] + 1
    BY <1>4
  <2>2. ~(sold[m] + 1 <= sold[m]) /\ sold[m] + 1 <= sold'[m]
    BY <2>1
  <2> QED BY <1>3, <2>2 DEF OnSale
<1>6. ASSUME NEW x \in Tickets, OnSale(sold, x) PROVE OnSale(sold', x)
  <2>1. MovieOf(x) \in 0 .. Movies - 1 /\ x - MovieOf(x) * Seats \in Int
    BY TicketOfSeat
  <2>2. sold[MovieOf(x)] \in Int /\ sold'[MovieOf(x)] \in Int /\ sold[MovieOf(x)] <= sold'[MovieOf(x)]
    BY <1>1, <1>4, <2>1
  <2> QED BY <1>6, <2>1, <2>2 DEF OnSale
<1>7. \A n \in 0 .. Movies - 1 : sold[n] = Seats => sold'[n] = Seats
  BY <1>1, <1>4
<1> QED BY <1>2, <1>3, <1>4, <1>5, <1>6, <1>7 DEF Sells

(* Selling refutes nothing that a client was told.                         *)
LEMMA AptKept ==
  ASSUME \A x \in Tickets : OnSale(sold, x) => OnSale(sold', x),
         \A m \in 0 .. Movies - 1 : sold[m] = Seats => sold'[m] = Seats,
         NEW command, NEW answer, NEW known, Apt(sold, command, answer, known)
  PROVE  Apt(sold', command, answer, known)
<1>1. \A x : OnSale(sold, x) => OnSale(sold', x)
  BY DEF OnSale
<1> QED BY <1>1 DEF Apt

(* What a lookup finds is the greatest movie of a set, which exists.       *)
LEMMA LastMovie ==
  ASSUME NEW S, S \subseteq 0 .. Movies - 1, S # {}
  PROVE  Max(S) \in S
<1> DEFINE T == {Movies - m : m \in S}
           Less == OpToRel(<, Nat)
<1>1. Movies \in Nat /\ T \subseteq Nat /\ T # {}
  <2>1. Movies \in Nat
    BY ServiceAssumption
  <2>2. \A m \in S : Movies - m \in Nat
    BY <2>1
  <2> QED BY <2>1, <2>2
<1>2. IsWellFoundedOn(Less, Nat)
  BY NatLessThanWellFounded
<1>3. \E x \in T : \A y \in T : <<y, x>> \notin Less
  <2> HIDE DEF T, Less
  <2> QED BY <1>1, <1>2, WFMin
<1>4. PICK x \in T : \A y \in T : <<y, x>> \notin Less
  BY <1>3
<1>5. PICK m \in S : x = Movies - m
  BY <1>4
<1>6. \A n \in S : m >= n
  <2> SUFFICES ASSUME NEW n \in S PROVE m >= n
    OBVIOUS
  <2>1. Movies - n \in Nat /\ x \in Nat /\ <<Movies - n, x>> \notin Less
    BY <1>1, <1>4
  <2>2. ~(Movies - n < x)
    BY <2>1 DEF OpToRel
  <2> QED BY <1>1, <1>5, <2>2
<1> QED BY <1>6 DEF Max

(* A ticket's code is held by one seat, if that is sold; 0 by the others.  *)
LEMMA FoundTicket ==
  ASSUME TypeOK, NEW t \in Nat, t # 0
  PROVE  IF OnSale(sold, t) THEN Found(t) = {MovieOf(t)} ELSE Found(t) = {}
<1>1. ASSUME NEW m \in 0 .. Movies - 1, NEW k \in 1 .. Seats, Code(m, k) = t
      PROVE  OnSale(sold, t) /\ m = MovieOf(t)
  <2>1. k <= sold[m] /\ t = Ticket(m, k)
    BY <1>1 DEF Code
  <2> QED BY <2>1, TicketFacts DEF OnSale
<1>2. ASSUME OnSale(sold, t)
      PROVE  MovieOf(t) \in Found(t)
  BY <1>2, TicketOfSeat DEF OnSale, Found, Code
<1>3. \A m \in Found(t) : OnSale(sold, t) /\ m = MovieOf(t)
  BY <1>1 DEF Found
<1> QED BY <1>2, <1>3

LEMMA FoundFree ==
  ASSUME TypeOK, Found(0) = {} PROVE \A m \in 0 .. Movies - 1 : sold[m] = Seats
<1> SUFFICES ASSUME NEW m \in 0 .. Movies - 1 PROVE sold[m] = Seats
  OBVIOUS
<1>1. Seats \in Nat \ {0} /\ sold[m] \in 0 .. Seats
  BY ServiceAssumption DEF TypeOK
<1>2. Seats \in 1 .. Seats /\ Code(m, Seats) # 0
  BY <1>1 DEF Found
<1> QED BY <1>1, <1>2 DEF Code

LEMMA LookupTypes ==
  ASSUME NEW t
  PROVE  \/ Found(t) = {} /\ Lookup(t) = Error(ErrNoSuchTicket)
         \/ /\ Found(t) # {} /\ Max(Found(t)) \in Found(t) /\ Max(Found(t)) \in 0 .. Movies - 1
            /\ Lookup(t) = [type |-> "movie", value |-> Max(Found(t))]
<1>1. Found(t) \subseteq 0 .. Movies - 1
  BY DEF Found
<1> QED BY <1>1, LastMovie DEF Lookup

(* The answer to a request fits its command.                               *)
LEMMA LookupApt ==
  ASSUME TypeOK, NEW command \in Commands, command.action = "get", NEW known \in BOOLEAN,
         known => OnSale(sold, command.arg)
  PROVE  Apt(sold, command, Lookup(command.arg), known)
<1>0. PICK t \in Nat : t = command.arg
  BY CommandTypes
<1>1. PICK last : last = Max(Found(t))
  OBVIOUS
<1>2. \/ Found(t) = {} /\ Lookup(t) = Error(ErrNoSuchTicket)
      \/ /\ last \in Found(t) /\ last \in 0 .. Movies - 1
         /\ Lookup(t) = [type |-> "movie", value |-> last]
  BY <1>1, LookupTypes
<1>3. CASE t = 0
  <2>1. ~OnSale(sold, t)
    BY <1>3, ServiceAssumption DEF OnSale, Tickets
  <2>2. CASE Found(t) = {} /\ Lookup(t) = Error(ErrNoSuchTicket)
    BY <1>0, <1>3, <2>1, <2>2, FoundFree DEF Apt
  <2>3. CASE last \in 0 .. Movies - 1 /\ Lookup(t) = [type |-> "movie", value |-> last]
    BY <1>0, <1>3, <2>3 DEF Apt
  <2> QED BY <1>2, <2>2, <2>3
<1>4. CASE t # 0 /\ OnSale(sold, t)
  <2>1. Found(t) = {MovieOf(t)}
    BY <1>4, FoundTicket
  <2>2. Lookup(t) = [type |-> "movie", value |-> MovieOf(t)]
    BY <1>2, <2>1
  <2> QED BY <1>0, <1>4, <2>2 DEF Apt
<1>5. CASE t # 0 /\ ~OnSale(sold, t)
  <2>1. Lookup(t) = Error(ErrNoSuchTicket)
    BY <1>2, <1>5, FoundTicket
  <2> QED BY <1>0, <1>5, <2>1 DEF Apt
<1> QED BY <1>3, <1>4, <1>5

(* The server acts for a client whose call nobody has acted on.            *)
LEMMA ActsForAsked ==
  ASSUME IInv, spc = "act", NEW c \in Clients, skt # 0, conn[skt].open, whose = c
  PROVE  stage[c] = "asked"
<1>1. ConnOK /\ TypeOK /\ ServerOK
  BY DEF IInv
<1>2. skt \in DOMAIN conn /\ conn[skt].client = c
  BY <1>1, Current DEF ServerOK
<1> QED BY <1>1, <1>2 DEF ServerOK

LEMMA SaleApt ==
  ASSUME TypeOK, NEW command \in Commands, command.action = "buy", NEW known \in BOOLEAN,
         NEW m, m = Request(command).arg, sold' = Sale(m).sold
  PROVE  Apt(sold', command, Sale(m).reply, known)
<1>1. SUFFICES ASSUME command.arg <= Width
               PROVE  Apt(sold', command, Sale(m).reply, known)
  BY DEF Apt
<1>2. Movies \in Nat \ {0} /\ Width \in Nat \ {0} /\ Movies < Width /\ command.arg \in Nat
  BY ServiceAssumption, CommandTypes
<1>3. m = (command.arg - 1) % Width /\ m \in 0 .. Width - 1
  BY RequestFacts
<1>4. m = command.arg - 1 \/ (command.arg \notin 1 .. Movies /\ m \notin 0 .. Movies - 1)
  <2>1. CASE command.arg = 0
    <3>1. m = Width - 1
      <4>1. command.arg - 1 = 0 - 1
        BY <2>1
      <4> QED BY ONLY <4>1, <1>2, <1>3, Remainder
    <3>2. m \notin 0 .. Movies - 1
      BY ONLY <1>2, <3>1
    <3>3. command.arg \notin 1 .. Movies
      BY ONLY <1>2, <2>1
    <3> QED BY <3>2, <3>3
  <2>2. CASE command.arg # 0
    <3>1. PICK x : x = command.arg - 1
      OBVIOUS
    <3>2. x \in 0 .. Width - 1
      BY ONLY <1>1, <1>2, <2>2, <3>1
    <3>3. x % Width = x
      BY ONLY <1>2, <3>2, Remainder
    <3> QED BY <1>3, <3>1, <3>3
  <2> QED BY <2>1, <2>2
<1> DEFINE R == Sale(m).reply
           W == Sale(m).sold
<1>8. PICK r, w : r = R /\ w = W
  OBVIOUS
<1>9. \/ /\ w = sold
         /\ r \in {Error(ErrNoSuchMovie), Error(ErrNoMoreTickets)}
         /\ r = Error(ErrNoSuchMovie) => m \notin 0 .. Movies - 1
         /\ r = Error(ErrNoMoreTickets) => m \in 0 .. Movies - 1 /\ sold[m] = Seats
      \/ /\ m \in 0 .. Movies - 1 /\ sold[m] \in 0 .. Seats /\ sold[m] + 1 \in 1 .. Seats
         /\ w = [sold EXCEPT ![m] = sold[m] + 1]
         /\ r = [type |-> "ticket", value |-> Ticket(m, sold[m] + 1)]
  BY <1>3, <1>8, SaleTypes
<1>5. CASE r = Error(ErrNoSuchMovie)
  <2>0. \A v : Error(ErrNoSuchMovie) # [type |-> "ticket", value |-> v]
    BY DEF Error
  <2>1. m \notin 0 .. Movies - 1
    BY <1>5, <1>9, <2>0
  <2>2. command.arg \notin 1 .. Movies
    <3>1. SUFFICES ASSUME command.arg \in 1 .. Movies PROVE FALSE
      OBVIOUS
    <3>2. m = command.arg - 1
      BY <1>4, <3>1
    <3> QED BY ONLY <1>2, <2>1, <3>1, <3>2
  <2> QED BY <1>5, <1>8, <2>2 DEF Apt
<1>6. CASE w = sold /\ r = Error(ErrNoMoreTickets) /\ m \in 0 .. Movies - 1 /\ sold[m] = Seats
  BY <1>4, <1>6, <1>8 DEF Apt
<1>7. CASE /\ m \in 0 .. Movies - 1 /\ sold[m] \in 0 .. Seats /\ sold[m] + 1 \in 1 .. Seats
           /\ w = [sold EXCEPT ![m] = sold[m] + 1]
           /\ r = [type |-> "ticket", value |-> Ticket(m, sold[m] + 1)]
  <2>1. PICK t : t = Ticket(m, sold[m] + 1)
    OBVIOUS
  <2>2. MovieOf(t) = m /\ OnSale(sold', t)
    BY <1>7, <1>8, <2>1, SaleSells DEF Sells
  <2>3. m = command.arg - 1
    BY <1>4, <1>7
  <2> QED BY <1>7, <1>8, <2>1, <2>2, <2>3 DEF Apt
<1> QED BY <1>5, <1>6, <1>7, <1>9
-----------------------------------------------------------------------------
(* The server answers, and may have sold the ticket that it answers with.  *)
LEMMA Responds ==
  ASSUME IInv, spc = "act", NEW r \in Replies, Respond(r), msg' = Bad,
         UNCHANGED <<conn, accepted, skt, whose, cpc, typed>>,
         sold' \in [0 .. Movies - 1 -> 0 .. Seats],
         \A x \in Tickets : OnSale(sold, x) => OnSale(sold', x),
         \A m \in 0 .. Movies - 1 : sold[m] = Seats => sold'[m] = Seats,
         \A t \in Tickets : Shows(r, t) => ~OnSale(sold, t) /\ OnSale(sold', t),
         skt # 0 /\ conn[skt].open =>
           Apt(sold', typed[conn[skt].client], r, conn[skt].client \in knew)
  PROVE  IInv'
<1>0. /\ TypeOK /\ ConnOK /\ CallsOK /\ RequestsOK /\ ServerOK /\ RepliesOK
      /\ KnewOK /\ ToldOK /\ TicketsOK
  BY DEF IInv
<1>1. /\ spc' = "length" /\ reply' = r
      /\ \A c \in Clients : stage'[c] =
           IF skt # 0 /\ conn[skt].open /\ whose = c THEN "served" ELSE stage[c]
      /\ stage' \in [Clients -> {"idle", "asked", "served"}]
      /\ UNCHANGED <<got, printed, knew, told, asked, garbage>>
  BY <1>0, ActsForAsked DEF Respond, TypeOK, Acted
<1>2. \A i \in DOMAIN conn : conn[i].client \in Clients
  BY <1>0, ConnTypes
<1>3. TypeOK'
  BY <1>0, <1>1, IdleTypes DEF TypeOK
<1>4. ConnOK'
  BY <1>0 DEF ConnOK
<1>5. CallsOK' /\ RequestsOK'
  <2>1. \A c \in Clients : stage'[c] = "idle" <=> stage[c] = "idle"
    BY <1>1, ActsForAsked
  <2> QED BY <2>1, <1>0, <1>2, SameConn, CallsKept, RequestsKept
<1>6. KnewOK' /\ ToldOK'
  <2>1. KnewOK'
    <3>1. \A x : OnSale(sold, x) => OnSale(sold', x)
      BY DEF OnSale
    <3> QED BY <1>0, <1>1, <3>1 DEF KnewOK
  <2>2. ToldOK'
    BY <1>0, <1>1, AptKept DEF ToldOK
  <2> QED BY <2>1, <2>2
<1>7. TicketsOK'
  <2>1. \A i \in DOMAIN conn, t \in Tickets : Carries(i, t)' <=> Carries(i, t)
    BY DEF Carries, Complete
  <2> QED BY <1>0, <1>1, <2>1 DEF TicketsOK
<1>8. ServerOK'
  <2>1. ASSUME skt # 0, conn[skt].open
        PROVE  whose = conn[skt].client /\ stage'[conn[skt].client] = "served"
    <3>1. skt \in DOMAIN conn /\ conn[skt].client \in Clients
      BY <1>0, <1>2, <2>1, Current
    <3>2. whose = conn[skt].client
      BY <1>0, <2>1, <3>1 DEF ServerOK
    <3> QED BY <1>1, <2>1, <3>1, <3>2
  <2>2. ASSUME NEW i \in DOMAIN conn, conn[i].open, i > accepted
        PROVE  stage'[conn[i].client] = "asked"
    <3>1. stage[conn[i].client] = "asked"
      BY <1>0, <2>2 DEF ServerOK
    <3>2. Mine(conn[i].client) = i
      BY <1>0, <2>2, MineIs
    <3>3. i # skt
      <4>1. accepted \in Nat /\ i \in Nat /\ (skt # 0 => skt = accepted)
        BY <1>0, Current
      <4> QED BY <2>2, <4>1
    <3>4. skt # 0 /\ conn[skt].open => whose # conn[i].client
      <4> SUFFICES ASSUME skt # 0, conn[skt].open, whose = conn[i].client PROVE FALSE
        OBVIOUS
      <4>1. skt \in DOMAIN conn /\ whose = conn[skt].client
        BY <1>0, Current DEF ServerOK
      <4> QED BY <1>0, <3>2, <3>3, <4>1, MineIs
    <3> QED BY <1>1, <1>2, <3>1, <3>4
  <2> QED BY <1>1, <2>1, <2>2 DEF ServerOK
<1>9. RepliesOK'
  <2> SUFFICES ASSUME NEW i \in DOMAIN conn
      PROVE /\ conn[i].down # <<>> => conn[i].open /\ i <= accepted
            /\ i = skt => conn[i].down = <<>>
            /\ Complete(i, "down") =>
                 /\ conn[i].down[2].of = conn[i].client /\ stage'[conn[i].client] = "served"
                 /\ Apt(sold', typed[conn[i].client], conn[i].down[2].reply, conn[i].client \in knew)
    BY <1>1 DEF RepliesOK, Complete
  <2>1. (conn[i].down # <<>> => conn[i].open /\ i <= accepted) /\ (i = skt => conn[i].down = <<>>)
    BY <1>0 DEF RepliesOK
  <2>2. ASSUME Complete(i, "down")
        PROVE  /\ conn[i].down[2].of = conn[i].client /\ stage[conn[i].client] = "served"
               /\ Apt(sold, typed[conn[i].client], conn[i].down[2].reply, conn[i].client \in knew)
    BY <1>0, <2>2 DEF RepliesOK
  <2> QED BY <1>1, <1>2, <2>1, <2>2, AptKept
<1> QED BY <1>3, <1>4, <1>5, <1>6, <1>7, <1>8, <1>9 DEF IInv

LEMMA InvAct ==
  ASSUME IInv, SAct PROVE IInv'
<1>0. TypeOK /\ ConnOK /\ ServerOK /\ KnewOK
  BY DEF IInv
<1>1. spc = "act" /\ msg' = Bad /\ UNCHANGED <<conn, accepted, skt, whose, cpc, typed>>
  BY DEF SAct, sockets, client
<1>2. msg \in Garbage /\ sold \in [0 .. Movies - 1 -> 0 .. Seats] /\ Movies \in Int
  BY <1>0, ServiceAssumption DEF TypeOK
<1>3. ASSUME skt # 0, conn[skt].open
      PROVE  /\ conn[skt].client \in Clients /\ typed[conn[skt].client] \in Commands
             /\ msg = Request(typed[conn[skt].client])
             /\ msg.action = typed[conn[skt].client].action
  <2>1. skt \in DOMAIN conn
    BY <1>0, <1>3, Current
  <2>2. conn[skt].client \in Clients /\ typed[conn[skt].client] \in Commands
    BY <1>0, <2>1, ConnTypes, TypedCommand
  <2>3. msg = Request(typed[conn[skt].client])
    BY <1>0, <1>1, <1>3, <2>1 DEF ServerOK
  <2> QED BY <2>2, <2>3, RequestFacts
<1>4. CASE msg.action = "list" /\ Respond([type |-> "list", value |-> Movies]) /\ sold' = sold
  <2> DEFINE r == [type |-> "list", value |-> Movies]
  <2>1. r \in Replies /\ \A t \in Tickets : ~Shows(r, t)
    BY <1>2 DEF Replies, Shows
  <2>2. ASSUME skt # 0, conn[skt].open
        PROVE  Apt(sold', typed[conn[skt].client], r, conn[skt].client \in knew)
    BY <1>3, <1>4, <2>2 DEF Apt
  <2> HIDE DEF r
  <2>3. Respond(r)
    BY <1>4 DEF r
  <2> QED BY <1>1, <1>2, <1>4, <2>1, <2>2, <2>3, Responds
<1>5. CASE msg.action = "get" /\ Respond(Lookup(msg.arg)) /\ sold' = sold
  <2>1. PICK r : r = Lookup(msg.arg)
    OBVIOUS
  <2>2. r \in Replies /\ \A t \in Tickets : ~Shows(r, t)
    <3>1. PICK last : last = Max(Found(msg.arg))
      OBVIOUS
    <3>2. CASE r = Error(ErrNoSuchTicket)
      BY <3>2, IdleTypes DEF Error, Shows
    <3>3. CASE r = [type |-> "movie", value |-> last] /\ last \in 0 .. Movies - 1
      BY <1>2, <3>3 DEF Replies, Shows
    <3> QED BY <2>1, <3>1, <3>2, <3>3, LookupTypes
  <2>3. ASSUME skt # 0, conn[skt].open
        PROVE  Apt(sold', typed[conn[skt].client], r, conn[skt].client \in knew)
    <3>1. PICK c \in Clients, command \in Commands : c = conn[skt].client /\ command = typed[c]
      BY <1>3, <2>3
    <3>2. command.action = "get" /\ msg.arg = command.arg
      BY <1>3, <1>5, <2>3, <3>1, RequestFacts
    <3>3. c \in knew => OnSale(sold, command.arg)
      BY <1>0, <3>1 DEF KnewOK
    <3>4. Apt(sold, command, Lookup(command.arg), c \in knew)
      <4>0. (c \in knew) \in BOOLEAN
        OBVIOUS
      <4>1. PICK known \in BOOLEAN : known = (c \in knew)
        BY <4>0, Zenon
      <4> QED BY <1>0, <3>2, <3>3, <4>1, LookupApt
    <3> QED BY <1>5, <2>1, <3>1, <3>2, <3>4
  <2> QED BY <1>1, <1>2, <1>5, <2>1, <2>2, <2>3, Responds
<1>6. CASE msg.action = "buy" /\ Respond(Sale(msg.arg).reply) /\ sold' = Sale(msg.arg).sold
  <2>1. PICK m, r, w : m = msg.arg /\ r = Sale(msg.arg).reply /\ w = Sale(msg.arg).sold
    OBVIOUS
  <2>2. m \in 0 .. Width - 1
    BY <1>2, <1>6, <2>1, GarbageFacts
  <2>3. \/ w = sold /\ r \in {Error(ErrNoSuchMovie), Error(ErrNoMoreTickets)}
        \/ /\ m \in 0 .. Movies - 1 /\ sold[m] + 1 \in 1 .. Seats
           /\ w = [sold EXCEPT ![m] = sold[m] + 1]
           /\ r = [type |-> "ticket", value |-> Ticket(m, sold[m] + 1)]
    BY <1>0, <2>1, <2>2, SaleTypes
  <2>4. ASSUME skt # 0, conn[skt].open
        PROVE  Apt(sold', typed[conn[skt].client], r, conn[skt].client \in knew)
    <3>1. PICK c \in Clients, command \in Commands : c = conn[skt].client /\ command = typed[c]
      BY <1>3, <2>4
    <3>2. command.action = "buy" /\ m = Request(command).arg
      BY <1>3, <1>6, <2>1, <2>4, <3>1
    <3>0. (c \in knew) \in BOOLEAN
      OBVIOUS
    <3>3. PICK known \in BOOLEAN : known = (c \in knew)
      BY <3>0, Zenon
    <3>4. sold' = Sale(m).sold
      BY <1>6, <2>1
    <3>5. Apt(sold', command, Sale(m).reply, known)
      BY <1>0, <3>2, <3>4, SaleApt
    <3> QED BY <2>1, <3>1, <3>3, <3>5
  <2>5. CASE w = sold /\ r \in {Error(ErrNoSuchMovie), Error(ErrNoMoreTickets)}
    <3>1. r \in Replies /\ \A t \in Tickets : ~Shows(r, t)
      BY <2>5, IdleTypes DEF Error, Shows
    <3> QED BY <1>1, <1>2, <1>6, <2>1, <2>4, <2>5, <3>1, Responds
  <2>6. CASE /\ m \in 0 .. Movies - 1 /\ sold[m] + 1 \in 1 .. Seats
             /\ w = [sold EXCEPT ![m] = sold[m] + 1]
             /\ r = [type |-> "ticket", value |-> Ticket(m, sold[m] + 1)]
    <3>1. PICK x : x = Ticket(m, sold[m] + 1)
      OBVIOUS
    <3>2. sold' = [sold EXCEPT ![m] = sold[m] + 1]
      BY <1>6, <2>1, <2>6
    <3>3. Sells(x)
      BY <1>0, <2>6, <3>1, <3>2, SaleSells
    <3>4. x \in Int
      BY <2>6, <3>1, TicketFacts
    <3>5. r \in Replies /\ \A t \in Tickets : Shows(r, t) => t = x
      BY <2>6, <3>1, <3>4 DEF Replies, Shows
    <3>6. Respond(r)
      BY <1>6, <2>1
    <3> QED BY <1>1, <2>4, <3>3, <3>5, <3>6, Responds DEF Sells
  <2> QED BY <2>3, <2>5, <2>6
<1>7. CASE /\ msg.action \notin {"list", "buy", "get"} /\ spc' = "accept"
           /\ UNCHANGED <<sold, reply, history>>
  <2>1. UNCHANGED <<stage, got, printed, knew, told, asked, garbage>> /\ reply' = reply
    BY <1>7 DEF history
  <2>2. skt = 0 \/ ~conn[skt].open
    BY <1>3, <1>7, CommandTypes
  <2>3. TypeOK'
    BY <1>0, <1>1, <1>7, <2>1, IdleTypes DEF TypeOK
  <2>4. reply' = Silence
    BY <1>0, <1>1, <2>1 DEF ServerOK
  <2> QED BY <1>1, <1>7, <2>1, <2>2, <2>3, <2>4, Unowned DEF IInv
<1> QED BY <1>4, <1>5, <1>6, <1>7 DEF SAct
(* The server sends the two parts of its answer.                           *)
LEMMA Writes ==
  ASSUME ConnOK, TypeOK, NEW part, SWrite(part)
  PROVE  \/ /\ conn' = conn /\ accepted' = accepted
            /\ skt = 0 \/ ~conn[skt].open
         \/ skt \in DOMAIN conn /\ skt = accepted /\ conn[skt].open /\ Write(skt, "down", part)
BY Current DEF SWrite, sockets

LEMMA InvSendLength ==
  ASSUME IInv, SSendLength PROVE IInv'
<1>0. /\ TypeOK /\ ConnOK /\ CallsOK /\ RequestsOK /\ ServerOK /\ RepliesOK
      /\ KnewOK /\ ToldOK /\ TicketsOK
  BY DEF IInv
<1>1. /\ spc = "length" /\ spc' = "content" /\ SWrite("length")
      /\ UNCHANGED <<skt, sold, msg, reply, whose, cpc, typed, stage, got, printed, knew, told, asked, garbage>>
  BY DEF SSendLength, client, history
<1>2. CASE conn' = conn /\ accepted' = accepted /\ (skt = 0 \/ ~conn[skt].open)
  <2>1. TypeOK'
    BY <1>0, <1>1, <1>2 DEF TypeOK
  <2> QED BY <1>1, <1>2, <2>1, Unowned DEF IInv
<1>3. CASE skt \in DOMAIN conn /\ skt = accepted /\ conn[skt].open /\ Write(skt, "down", "length")
  <2>1. conn[skt].down = <<>>
    BY <1>0, <1>1, <1>3 DEF RepliesOK
  <2>2. Append(conn[skt].down, "length") = <<"length">> /\ <<"length">> \in Answers
    BY <2>1, AppendToNone, WayTypes
  <2>3. Becomes(skt, conn[skt].up, <<"length">>, conn[skt].open) /\ accepted' = accepted
    BY <1>0, <1>3, <2>2, WriteDown
  <2>4. /\ DOMAIN conn' = DOMAIN conn /\ Len(conn') = Len(conn) /\ conn' \in Seq(Connection)
        /\ conn'[skt].down = <<"length">> /\ \A j \in DOMAIN conn : j # skt => conn'[j].down = conn[j].down
        /\ \A j \in DOMAIN conn : /\ conn'[j].client = conn[j].client /\ conn'[j].open = conn[j].open
                                  /\ conn'[j].up = conn[j].up
    BY <2>3 DEF Becomes
  <2>5. Len(<<"length">>) = 1
    OBVIOUS
  <2>6. TypeOK' /\ ConnOK'
    BY <1>0, <1>1, <2>3, <2>4 DEF TypeOK, ConnOK
  <2>7. CallsOK' /\ RequestsOK' /\ KnewOK' /\ ToldOK'
    BY <1>0, <1>1, <2>4, ConnTypes, CallsKept, RequestsKept, KnewKept, ToldKept
  <2>8. TicketsOK'
    <3>1. \A j \in DOMAIN conn : Len(conn'[j].down) = 2 => conn'[j].down = conn[j].down
      BY <2>4, <2>5
    <3> QED BY <1>0, <1>1, <2>4, <3>1, TicketsKept
  <2>9. ServerOK'
    BY <1>0, <1>1, <1>3, <2>3, <2>4 DEF ServerOK
  <2>10. RepliesOK'
    <3>1. skt <= accepted
      BY <1>0, <1>3, Current
    <3> QED BY <1>0, <1>1, <1>3, <2>3, <2>4, <2>5, <3>1 DEF RepliesOK, Complete
  <2> QED BY <2>6, <2>7, <2>8, <2>9, <2>10 DEF IInv
<1> QED BY <1>0, <1>1, <1>2, <1>3, Writes

LEMMA InvSendContent ==
  ASSUME IInv, SSendContent PROVE IInv'
<1>0. /\ TypeOK /\ ConnOK /\ CallsOK /\ RequestsOK /\ ServerOK /\ RepliesOK
      /\ KnewOK /\ ToldOK /\ TicketsOK
  BY DEF IInv
<1> DEFINE answer == [reply |-> reply, of |-> whose]
<1>1. /\ spc = "content" /\ spc' = "accept" /\ SWrite(answer) /\ reply' = Silence /\ whose' = Nobody
      /\ UNCHANGED <<skt, sold, msg, cpc, typed, stage, got, printed, knew, told, asked, garbage>>
  BY DEF SSendContent, client, history
<1> HIDE DEF answer
<1>2. CASE conn' = conn /\ accepted' = accepted /\ (skt = 0 \/ ~conn[skt].open)
  <2>1. TypeOK'
    BY <1>0, <1>1, <1>2, IdleTypes DEF TypeOK
  <2> QED BY <1>1, <1>2, <2>1, Unowned DEF IInv
<1>3. CASE skt \in DOMAIN conn /\ skt = accepted /\ conn[skt].open /\ Write(skt, "down", answer)
  <2>1. conn[skt].down = <<"length">>
    BY <1>0, <1>1, <1>3 DEF RepliesOK
  <2>2. Append(conn[skt].down, answer) = <<"length", answer>> /\ <<"length", answer>> \in Answers
    <3>1. Append(conn[skt].down, answer) = <<"length", answer>>
      BY <2>1, AppendToOne
    <3>2. reply \in Replies /\ whose \in Clients \cup {Nobody}
      BY <1>0 DEF TypeOK
    <3> QED BY <3>1, <3>2, WayTypes DEF answer
  <2>3. Becomes(skt, conn[skt].up, <<"length", answer>>, conn[skt].open) /\ accepted' = accepted
    BY <1>0, <1>3, <2>2, WriteDown
  <2>4. /\ DOMAIN conn' = DOMAIN conn /\ Len(conn') = Len(conn) /\ conn' \in Seq(Connection)
        /\ conn'[skt].down = <<"length", answer>>
        /\ \A j \in DOMAIN conn : j # skt => conn'[j].down = conn[j].down
        /\ \A j \in DOMAIN conn : /\ conn'[j].client = conn[j].client /\ conn'[j].open = conn[j].open
                                  /\ conn'[j].up = conn[j].up
    BY <2>3 DEF Becomes
  <2>5. /\ Len(<<"length">>) = 1 /\ <<"length", answer>>[2] = answer
        /\ Len(<<"length", answer>>) = 2
        /\ answer.reply = reply /\ answer.of = whose
    BY DEF answer
  <2>6. TypeOK' /\ ConnOK'
    BY <1>0, <1>1, <2>3, <2>4, IdleTypes DEF TypeOK, ConnOK
  <2>7. CallsOK' /\ RequestsOK' /\ KnewOK' /\ ToldOK'
    BY <1>0, <1>1, <2>4, ConnTypes, CallsKept, RequestsKept, KnewKept, ToldKept
  <2>8. TicketsOK'
    <3>1. \A t \in Tickets : ~Shows(reply', t)
      BY <1>1 DEF Shows, Silence
    <3>2. \A j \in DOMAIN conn, t \in Tickets : j # skt => (Carries(j, t)' <=> Carries(j, t))
      BY <2>4 DEF Carries, Complete
    <3>3. \A t \in Tickets : ~Carries(skt, t) /\ (Carries(skt, t)' <=> Shows(reply, t))
      <4>1. skt' = skt /\ conn'[skt].down = <<"length", answer>> /\ conn[skt].down = <<"length">>
        BY <1>1, <2>1, <2>4
      <4>2. ~Complete(skt, "down")
        BY <2>5, <4>1 DEF Complete
      <4>3. Complete(skt, "down")' /\ (conn'[skt'].down)[2].reply = reply
        BY <2>5, <4>1 DEF Complete
      <4> QED BY <4>2, <4>3 DEF Carries, Shows
    <3> QED BY <1>0, <1>1, <1>3, <2>4, <3>1, <3>2, <3>3 DEF TicketsOK
  <2>9. ServerOK'
    BY <1>0, <1>1, <1>3, <2>3, <2>4 DEF ServerOK
  <2>10. RepliesOK'
    <3> SUFFICES ASSUME NEW i \in DOMAIN conn
        PROVE /\ conn'[i].down # <<>> => conn[i].open /\ i <= accepted
              /\ Complete(i, "down")' =>
                   /\ conn'[i].down[2].of = conn[i].client /\ stage[conn[i].client] = "served"
                   /\ Apt(sold, typed[conn[i].client], conn'[i].down[2].reply, conn[i].client \in knew)
      BY <1>1, <2>3, <2>4 DEF RepliesOK
    <3>1. CASE i = skt
      <4>1. /\ whose = conn[skt].client /\ stage[conn[skt].client] = "served"
            /\ Apt(sold, typed[conn[skt].client], reply, conn[skt].client \in knew)
        BY <1>0, <1>1, <1>3, <2>1, <3>1, Current DEF ServerOK
      <4>2. skt <= accepted
        BY <1>0, <1>3, Current
      <4> QED BY <1>3, <2>4, <2>5, <3>1, <4>1, <4>2
    <3>2. CASE i # skt
      BY <1>0, <2>4, <3>2 DEF RepliesOK, Complete
    <3> QED BY <3>1, <3>2
  <2> QED BY <2>6, <2>7, <2>8, <2>9, <2>10 DEF IInv
<1> QED BY <1>0, <1>1, <1>2, <1>3, Writes
-----------------------------------------------------------------------------
(* The clients.                                                            *)
LEMMA EmptyWay == ASSUME NEW i, conn'[i].down = <<>> PROVE ~Complete(i, "down")'
<1>1. Len(<<>>) = 0
  OBVIOUS
<1>2. Len(conn'[i].down) # 2
  BY <1>1
<1> QED BY <1>2 DEF Complete

LEMMA InvConnect ==
  ASSUME IInv, NEW c \in Clients, NEW command \in Commands, CConnect(c, command)
  PROVE  IInv'
<1>0. /\ TypeOK /\ ConnOK /\ CallsOK /\ RequestsOK /\ ServerOK /\ RepliesOK
      /\ KnewOK /\ ToldOK /\ TicketsOK
  BY DEF IInv
<1>1. /\ cpc[c] = "idle" /\ cpc' = [cpc EXCEPT ![c] = "length"]
      /\ typed' = [typed EXCEPT ![c] = command] /\ stage' = [stage EXCEPT ![c] = "asked"]
      /\ told' = NotYet
      /\ UNCHANGED <<sold, spc, skt, msg, reply, whose, got, printed, asked, garbage>>
  BY DEF CConnect, CGoto, server
<1>2. /\ \A d : d # c => (d \in knew' <=> d \in knew)
      /\ c \in knew' /\ c \notin knew =>
           command.action = "get" /\ command.arg \in Tickets /\ printed[command.arg] > 0
      /\ knew' \subseteq Clients
  BY <1>0 DEF CConnect, TypeOK
<1>3. /\ Len(conn) \in Nat /\ DOMAIN conn = 1 .. Len(conn) /\ accepted \in Nat
      /\ accepted <= Len(conn) /\ (skt # 0 => skt \in DOMAIN conn /\ skt = accepted)
  BY <1>0, Current
<1>4. PICK n \in Nat : n = Len(conn) + 1
  BY <1>3
<1>5. /\ conn' \in Seq(Connection) /\ Len(conn') = n /\ DOMAIN conn' = 1 .. n
      /\ accepted' = accepted /\ Len(conn) - accepted <= Backlog
      /\ conn'[n].client = c /\ conn'[n].up = <<>> /\ conn'[n].down = <<>> /\ conn'[n].open
      /\ \A j \in DOMAIN conn : conn'[j] = conn[j]
  <2>1. Dial(c)
    BY DEF CConnect
  <2>2. /\ conn' \in Seq(Connection) /\ Len(conn') = n /\ DOMAIN conn' = 1 .. n
        /\ accepted' = accepted /\ Len(conn) - accepted <= Backlog /\ conn'[n] = New(c)
        /\ \A j \in DOMAIN conn : conn'[j] = conn[j]
    BY <1>0, <1>4, <2>1, DialAdds
  <2>3. New(c).client = c /\ New(c).up = <<>> /\ New(c).down = <<>> /\ New(c).open
    BY DEF New
  <2> QED BY <2>2, <2>3
<1>6. /\ n \in DOMAIN conn' /\ n \notin DOMAIN conn /\ n # skt
      /\ \A j \in DOMAIN conn' : j \in DOMAIN conn \/ j = n
      /\ \A j \in DOMAIN conn : j \in DOMAIN conn' /\ j <= n
  BY <1>3, <1>4, <1>5
<1>7. \A d \in Clients : d # c => cpc'[d] = cpc[d] /\ typed'[d] = typed[d] /\ stage'[d] = stage[d]
  BY <1>0, <1>1 DEF TypeOK
<1>8. cpc'[c] = "length" /\ typed'[c] = command /\ stage'[c] = "asked"
  BY <1>0, <1>1 DEF TypeOK
<1>9. \A j \in DOMAIN conn : conn[j].client \in Clients /\ (conn[j].open => conn[j].client # c)
  BY <1>0, <1>1, ConnTypes DEF CallsOK
<1>10. TypeOK'
  <2>1. /\ accepted' \in 0 .. Len(conn') /\ accepted' <= MaxFds /\ Len(conn') - accepted' <= Backlog + 1
    BY <1>0, <1>3, <1>4, <1>5, SocketsAssumption DEF TypeOK
  <2>2. /\ cpc' \in [Clients -> {"idle", "length", "content", "wait"}]
        /\ typed' \in [Clients -> Commands] /\ stage' \in [Clients -> {"idle", "asked", "served"}]
    BY <1>0, <1>1 DEF TypeOK
  <2> QED BY <1>0, <1>1, <1>2, <2>1, <2>2, IdleTypes DEF TypeOK
<1>11. ConnOK'
  BY <1>0, <1>1, <1>5 DEF ConnOK
<1>12. CallsOK'
  <2>1. ASSUME NEW d \in Clients, cpc'[d] # "idle"
        PROVE  \E i \in DOMAIN conn' : conn'[i].client = d /\ conn'[i].open
    <3>1. CASE d = c
      BY <1>5, <1>6, <3>1
    <3>2. CASE d # c
      <4>1. PICK i \in DOMAIN conn : conn[i].client = d /\ conn[i].open
        BY <1>0, <1>7, <2>1, <3>2 DEF CallsOK
      <4> QED BY <1>5, <1>6, <4>1
    <3> QED BY <3>1, <3>2
  <2>2. \A d \in Clients : cpc'[d] = "idle" <=> stage'[d] = "idle"
    BY <1>0, <1>7, <1>8 DEF CallsOK
  <2>3. ASSUME NEW i \in DOMAIN conn', conn'[i].open
        PROVE  /\ cpc'[conn'[i].client] # "idle"
               /\ \A j \in DOMAIN conn' : conn'[j].client = conn'[i].client => j <= i
    <3>1. CASE i = n
      <4>1. \A j \in DOMAIN conn' : j <= n
        BY <1>4, <1>5
      <4> QED BY <1>5, <1>8, <3>1, <4>1
    <3>2. CASE i \in DOMAIN conn
      <4>1. /\ conn[i].open /\ conn[i].client # c /\ conn[i].client \in Clients
            /\ cpc[conn[i].client] # "idle"
            /\ \A j \in DOMAIN conn : conn[j].client = conn[i].client => j <= i
        BY <1>0, <1>5, <1>9, <2>3, <3>2 DEF CallsOK
      <4> QED BY <1>5, <1>6, <1>7, <3>2, <4>1
    <3> QED BY <1>6, <3>1, <3>2
  <2> QED BY <2>1, <2>2, <2>3 DEF CallsOK
<1>13. RequestsOK'
  <2> SUFFICES ASSUME NEW i \in DOMAIN conn', conn'[i].open
      PROVE /\ cpc'[conn'[i].client] = "length" => conn'[i].up = <<>>
            /\ cpc'[conn'[i].client] = "content" => conn'[i].up = <<"length">>
            /\ cpc'[conn'[i].client] = "wait" =>
                 conn'[i].up \in {<<>>, <<"length", [request |-> Request(typed'[conn'[i].client]),
                                                     of |-> conn'[i].client]>>}
    BY DEF RequestsOK
  <2>1. CASE i = n
    BY <1>5, <1>8, <2>1
  <2>2. CASE i \in DOMAIN conn
    BY <1>0, <1>5, <1>7, <1>9, <2>2 DEF RequestsOK
  <2> QED BY <1>6, <2>1, <2>2
<1>14. ServerOK'
  <2>1. ASSUME skt # 0, conn'[skt].open
        PROVE /\ spc = "act" => whose = conn[skt].client /\ msg = Request(typed'[conn[skt].client])
              /\ spc \in {"length", "content"} =>
                   /\ whose = conn[skt].client /\ stage'[conn[skt].client] = "served"
                   /\ Apt(sold, typed'[conn[skt].client], reply, conn[skt].client \in knew')
    <3>1. skt \in DOMAIN conn /\ conn[skt].open /\ conn[skt].client \in Clients \ {c}
      BY <1>3, <1>5, <1>9, <2>1
    <3> QED BY <1>0, <1>2, <1>7, <2>1, <3>1 DEF ServerOK
  <2>2. ASSUME NEW i \in DOMAIN conn', conn'[i].open,
               i > accepted \/ (i = skt /\ spc \in {"read", "act"})
        PROVE  stage'[conn'[i].client] = "asked"
    <3>1. CASE i = n
      BY <1>5, <1>8, <3>1
    <3>2. CASE i \in DOMAIN conn
      BY <1>0, <1>5, <1>7, <1>9, <2>2, <3>2 DEF ServerOK
    <3> QED BY <1>6, <3>1, <3>2
  <2>3. skt # 0 => conn'[skt] = conn[skt]
    BY <1>3, <1>5
  <2> QED BY <1>0, <1>1, <1>5, <2>1, <2>2, <2>3 DEF ServerOK
<1>15. RepliesOK'
  <2> SUFFICES ASSUME NEW i \in DOMAIN conn'
      PROVE /\ conn'[i].down # <<>> => conn'[i].open /\ i <= accepted
            /\ i = skt /\ spc \in {"read", "act", "length"} => conn'[i].down = <<>>
            /\ i = skt /\ spc = "content" /\ conn'[i].open => conn'[i].down = <<"length">>
            /\ Complete(i, "down")' =>
                 /\ conn'[i].down[2].of = conn'[i].client /\ stage'[conn'[i].client] = "served"
                 /\ Apt(sold, typed'[conn'[i].client], conn'[i].down[2].reply, conn'[i].client \in knew')
    BY <1>1, <1>5 DEF RepliesOK
  <2>1. CASE i = n
    <3>1. ~Complete(i, "down")'
      BY <1>5, <2>1, EmptyWay
    <3> QED BY <1>5, <1>6, <2>1, <3>1
  <2>2. CASE i \in DOMAIN conn
    <3>1. conn'[i] = conn[i]
      BY <1>5, <2>2
    <3>2. Complete(i, "down")' => Complete(i, "down") /\ conn[i].open
      <4>1. Complete(i, "down")' => Complete(i, "down")
        BY <3>1 DEF Complete
      <4>2. Complete(i, "down") => conn[i].down # <<>>
        BY DEF Complete
      <4> QED BY <1>0, <2>2, <4>1, <4>2 DEF RepliesOK
    <3> QED BY <1>0, <1>2, <1>7, <1>9, <2>2, <3>1, <3>2 DEF RepliesOK
  <2> QED BY <1>6, <2>1, <2>2
<1>16. KnewOK'
  <2> SUFFICES ASSUME NEW d \in knew'
               PROVE  cpc'[d] # "idle" /\ typed'[d].action = "get" /\ OnSale(sold, typed'[d].arg)
    BY <1>1 DEF KnewOK
  <2>1. CASE d = c
    <3>1. c \notin knew
      BY <1>0, <1>1 DEF KnewOK
    <3>2. command.action = "get" /\ command.arg \in Tickets /\ printed[command.arg] > 0
      BY <1>2, <2>1, <3>1
    <3> QED BY <1>0, <1>8, <2>1, <3>2 DEF TicketsOK
  <2>2. CASE d # c
    BY <1>0, <1>2, <1>7, <2>2 DEF KnewOK
  <2> QED BY <2>1, <2>2
<1>17. ToldOK'
  BY <1>1, IdleTypes DEF ToldOK
<1>18. TicketsOK'
  <2>1. \A t \in Tickets : ~Carries(n, t)'
    <3>1. ~Complete(n, "down")'
      BY <1>5, EmptyWay
    <3> QED BY <3>1 DEF Carries
  <2>2. \A j \in DOMAIN conn, t \in Tickets : Carries(j, t)' <=> Carries(j, t)
    BY <1>5 DEF Carries, Complete
  <2> QED BY <1>0, <1>1, <1>6, <2>1, <2>2 DEF TicketsOK
<1> QED BY <1>10, <1>11, <1>12, <1>13, <1>14, <1>15, <1>16, <1>17, <1>18 DEF IInv

(* A client that is in a call writes part of its request.                  *)
LEMMA Sends ==
  ASSUME IInv, NEW c \in Clients, NEW to \in {"content", "wait"},
         cpc[c] # "idle", cpc' = [cpc EXCEPT ![c] = to],
         NEW part, NEW x \in Asks, Append(conn[Mine(c)].up, part) = x, Write(Mine(c), "up", part),
         to = "content" => x = <<"length">>,
         to = "wait" => x = <<"length", [request |-> Request(typed[c]), of |-> c]>>,
         UNCHANGED <<sold, spc, skt, msg, reply, whose, typed, stage, got, printed, knew, told, garbage>>,
         asked' \in [0 .. Movies - 1 -> Nat]
  PROVE  IInv'
<1>0. /\ TypeOK /\ ConnOK /\ CallsOK /\ RequestsOK /\ ServerOK /\ RepliesOK
      /\ KnewOK /\ ToldOK /\ TicketsOK
  BY DEF IInv
<1>1. PICK i \in DOMAIN conn : i = Mine(c) /\ conn[i].client = c /\ conn[i].open
  BY <1>0, MineOpen
<1>2. Becomes(i, x, conn[i].down, conn[i].open) /\ accepted' = accepted
  BY <1>0, <1>1, WriteUp
<1>3. /\ DOMAIN conn' = DOMAIN conn /\ Len(conn') = Len(conn) /\ conn' \in Seq(Connection)
      /\ conn'[i].up = x /\ \A j \in DOMAIN conn : j # i => conn'[j].up = conn[j].up
      /\ \A j \in DOMAIN conn : /\ conn'[j].client = conn[j].client /\ conn'[j].open = conn[j].open
                                /\ conn'[j].down = conn[j].down
  BY <1>2 DEF Becomes
<1>4. cpc'[c] = to /\ \A d \in Clients : d # c => cpc'[d] = cpc[d]
  BY <1>0 DEF TypeOK
<1>5. \A j \in DOMAIN conn : conn[j].client \in Clients
  BY <1>0, ConnTypes
<1>6. TypeOK' /\ ConnOK'
  BY <1>0, <1>2, <1>3 DEF TypeOK, ConnOK
<1>7. \A d \in Clients : cpc'[d] = "idle" <=> cpc[d] = "idle"
  BY <1>4
<1>8. CallsOK' /\ ToldOK' /\ TicketsOK'
  BY <1>0, <1>3, <1>5, <1>7, CallsKept, ToldKept, TicketsKept
<1>9. KnewOK'
  BY <1>0, <1>7 DEF KnewOK, TypeOK
<1>10. RequestsOK'
  <2> SUFFICES ASSUME NEW j \in DOMAIN conn, conn[j].open
      PROVE /\ cpc'[conn[j].client] = "length" => conn'[j].up = <<>>
            /\ cpc'[conn[j].client] = "content" => conn'[j].up = <<"length">>
            /\ cpc'[conn[j].client] = "wait" =>
                 conn'[j].up \in {<<>>, <<"length", [request |-> Request(typed[conn[j].client]),
                                                     of |-> conn[j].client]>>}
    BY <1>3 DEF RequestsOK
  <2>1. CASE j = i
    BY <1>1, <1>3, <1>4, <2>1
  <2>2. CASE j # i
    <3>1. conn[j].client # c
      BY <1>0, <1>1, <2>2, OneOpen
    <3> QED BY <1>0, <1>3, <1>4, <1>5, <2>2, <3>1 DEF RequestsOK
  <2> QED BY <2>1, <2>2
<1>11. ServerOK'
  BY <1>0, <1>2, <1>3, Current DEF ServerOK
<1>12. RepliesOK'
  BY <1>0, <1>2, <1>3 DEF RepliesOK, Complete
<1> QED BY <1>6, <1>8, <1>9, <1>10, <1>11, <1>12 DEF IInv

LEMMA InvCSendLength ==
  ASSUME IInv, NEW c \in Clients, CSendLength(c) PROVE IInv'
<1>0. TypeOK /\ ConnOK /\ CallsOK /\ RequestsOK
  BY DEF IInv
<1>1. /\ cpc[c] = "length" /\ cpc' = [cpc EXCEPT ![c] = "content"]
      /\ Write(Mine(c), "up", "length")
      /\ UNCHANGED <<sold, spc, skt, msg, reply, whose, typed, stage, got, printed, knew, told, asked, garbage>>
  BY DEF CSendLength, CGoto, server, history
<1>2. conn[Mine(c)].up = <<>>
  BY <1>0, <1>1, MineOpen DEF RequestsOK
<1>3. Append(conn[Mine(c)].up, "length") = <<"length">> /\ <<"length">> \in Asks
  BY <1>2, AppendToNone, WayTypes
<1>4. asked' \in [0 .. Movies - 1 -> Nat]
  BY <1>0, <1>1 DEF TypeOK
<1> QED BY <1>1, <1>3, <1>4, Sends

LEMMA InvCSendContent ==
  ASSUME IInv, NEW c \in Clients, CSendContent(c) PROVE IInv'
<1>0. TypeOK /\ ConnOK /\ CallsOK /\ RequestsOK
  BY DEF IInv
<1> DEFINE part == [request |-> Request(typed[c]), of |-> c]
<1>1. /\ cpc[c] = "content" /\ cpc' = [cpc EXCEPT ![c] = "wait"]
      /\ Write(Mine(c), "up", part)
      /\ asked' = [m \in 0 .. Movies - 1 |-> asked[m] + (IF Request(typed[c]) = Purchase(m) THEN 1 ELSE 0)]
      /\ UNCHANGED <<sold, spc, skt, msg, reply, whose, typed, stage, got, printed, knew, told, garbage>>
  BY DEF CSendContent, CGoto, server
<1>2. conn[Mine(c)].up = <<"length">>
  BY <1>0, <1>1, MineOpen DEF RequestsOK
<1>3. <<"length", part>> \in Asks
  BY <1>0, TypedCommand, CommandTypes, WayTypes
<1>4. asked' \in [0 .. Movies - 1 -> Nat]
  BY <1>0, <1>1 DEF TypeOK
<1>5. part = [request |-> Request(typed[c]), of |-> c]
  OBVIOUS
<1> HIDE DEF part
<1>6. Append(conn[Mine(c)].up, part) = <<"length", part>>
  BY <1>2, AppendToOne
<1> QED BY <1>1, <1>3, <1>4, <1>5, <1>6, Sends

(* A call ends, and may have printed the ticket of its reply.              *)
LEMMA Ends ==
  ASSUME IInv, NEW c \in Clients, cpc[c] # "idle", CEnd(c),
         got' \in [Clients -> Clients \cup {Nobody}], printed' \in [Tickets -> Nat],
         told' \in [command : Commands, answer : Replies, known : BOOLEAN], ToldOK',
         \A t \in Tickets : \/ printed'[t] = printed[t]
                            \/ printed'[t] = printed[t] + 1 /\ Carries(Mine(c), t)
  PROVE  IInv'
<1>0. /\ TypeOK /\ ConnOK /\ CallsOK /\ RequestsOK /\ ServerOK /\ RepliesOK
      /\ KnewOK /\ TicketsOK
  BY DEF IInv
<1>1. /\ cpc' = [cpc EXCEPT ![c] = "idle"] /\ typed' = [typed EXCEPT ![c] = Idle]
      /\ stage' = [stage EXCEPT ![c] = "idle"] /\ knew' = knew \ {c} /\ Hangup(Mine(c))
      /\ UNCHANGED <<sold, spc, skt, msg, reply, whose, asked, garbage>>
  BY DEF CEnd, server
<1>2. PICK i \in DOMAIN conn : i = Mine(c) /\ conn[i].client = c /\ conn[i].open
  BY <1>0, MineOpen
<1>3. Becomes(i, conn[i].up, <<>>, FALSE) /\ accepted' = accepted
  BY <1>0, <1>1, <1>2, HangupCloses
<1>4. /\ DOMAIN conn' = DOMAIN conn /\ Len(conn') = Len(conn) /\ conn' \in Seq(Connection)
      /\ conn'[i].down = <<>> /\ ~conn'[i].open
      /\ \A j \in DOMAIN conn : j # i => conn'[j] = conn[j]
      /\ \A j \in DOMAIN conn : conn'[j].client = conn[j].client
  BY <1>3 DEF Becomes
<1>5. \A d \in Clients : d # c => /\ cpc'[d] = cpc[d] /\ typed'[d] = typed[d] /\ stage'[d] = stage[d]
                                  /\ (d \in knew' <=> d \in knew)
  BY <1>0, <1>1 DEF TypeOK
<1>6. cpc'[c] = "idle" /\ stage'[c] = "idle"
  BY <1>0, <1>1 DEF TypeOK
<1>7. \A j \in DOMAIN conn : conn[j].client \in Clients /\ (j # i /\ conn[j].open => conn[j].client # c)
  BY <1>0, <1>2, ConnTypes, OneOpen
<1>8. TypeOK' /\ ConnOK'
  <2>1. /\ cpc' \in [Clients -> {"idle", "length", "content", "wait"}]
        /\ typed' \in [Clients -> Commands] /\ stage' \in [Clients -> {"idle", "asked", "served"}]
        /\ knew' \subseteq Clients
    BY <1>0, <1>1, IdleTypes DEF TypeOK
  <2>2. ConnOK'
    BY <1>0, <1>1, <1>3, <1>4 DEF ConnOK
  <2> QED BY <1>0, <1>1, <1>3, <1>4, <2>1, <2>2 DEF TypeOK
<1>9. CallsOK'
  <2>1. ASSUME NEW d \in Clients, cpc'[d] # "idle"
        PROVE  \E j \in DOMAIN conn' : conn'[j].client = d /\ conn'[j].open
    <3>1. d # c /\ cpc[d] # "idle"
      BY <1>5, <1>6, <2>1
    <3>2. PICK j \in DOMAIN conn : conn[j].client = d /\ conn[j].open
      BY <1>0, <3>1 DEF CallsOK
    <3> QED BY <1>2, <1>4, <3>1, <3>2
  <2>2. \A d \in Clients : cpc'[d] = "idle" <=> stage'[d] = "idle"
    BY <1>0, <1>5, <1>6 DEF CallsOK
  <2>3. ASSUME NEW j \in DOMAIN conn', conn'[j].open
        PROVE  /\ cpc'[conn'[j].client] # "idle"
               /\ \A k \in DOMAIN conn' : conn'[k].client = conn'[j].client => k <= j
    BY <1>0, <1>4, <1>5, <1>7, <2>3 DEF CallsOK
  <2> QED BY <2>1, <2>2, <2>3 DEF CallsOK
<1>10. RequestsOK'
  <2> SUFFICES ASSUME NEW j \in DOMAIN conn', conn'[j].open
      PROVE /\ cpc'[conn'[j].client] = "length" => conn'[j].up = <<>>
            /\ cpc'[conn'[j].client] = "content" => conn'[j].up = <<"length">>
            /\ cpc'[conn'[j].client] = "wait" =>
                 conn'[j].up \in {<<>>, <<"length", [request |-> Request(typed'[conn'[j].client]),
                                                     of |-> conn'[j].client]>>}
    BY DEF RequestsOK
  <2>1. j \in DOMAIN conn /\ j # i /\ conn'[j] = conn[j]
    BY <1>4
  <2> QED BY <1>0, <1>5, <1>7, <2>1 DEF RequestsOK
<1>11. ServerOK'
  <2>1. ASSUME skt # 0, conn'[skt].open
        PROVE /\ conn'[skt] = conn[skt]
              /\ spc = "act" => whose = conn[skt].client /\ msg = Request(typed'[conn[skt].client])
              /\ spc \in {"length", "content"} =>
                   /\ whose = conn[skt].client /\ stage'[conn[skt].client] = "served"
                   /\ Apt(sold, typed'[conn[skt].client], reply, conn[skt].client \in knew')
    <3>1. skt \in DOMAIN conn
      BY <1>0, <2>1, Current
    <3>2. skt # i /\ conn'[skt] = conn[skt] /\ conn[skt].open /\ conn[skt].client \in Clients \ {c}
      BY <1>4, <1>7, <2>1, <3>1
    <3> QED BY <1>0, <1>5, <2>1, <3>2 DEF ServerOK
  <2>2. ASSUME NEW j \in DOMAIN conn, conn'[j].open,
               j > accepted \/ (j = skt /\ spc \in {"read", "act"})
        PROVE  stage'[conn'[j].client] = "asked"
    <3>1. j # i /\ conn'[j] = conn[j] /\ conn[j].open /\ conn[j].client \in Clients \ {c}
      BY <1>4, <1>7, <2>2
    <3> QED BY <1>0, <1>5, <2>2, <3>1 DEF ServerOK
  <2> QED BY <1>0, <1>1, <1>3, <1>4, <2>1, <2>2 DEF ServerOK
<1>12. RepliesOK'
  <2> SUFFICES ASSUME NEW j \in DOMAIN conn
      PROVE /\ conn'[j].down # <<>> => conn'[j].open /\ j <= accepted
            /\ j = skt /\ spc \in {"read", "act", "length"} => conn'[j].down = <<>>
            /\ j = skt /\ spc = "content" /\ conn'[j].open => conn'[j].down = <<"length">>
            /\ Complete(j, "down")' =>
                 /\ conn'[j].down[2].of = conn'[j].client /\ stage'[conn'[j].client] = "served"
                 /\ Apt(sold, typed'[conn'[j].client], conn'[j].down[2].reply, conn'[j].client \in knew')
    BY <1>1, <1>3, <1>4 DEF RepliesOK
  <2>1. CASE j = i
    <3>0. conn'[j].down = <<>> /\ ~conn'[j].open
      BY <1>4, <2>1
    <3>1. ~Complete(j, "down")'
      BY <3>0, EmptyWay
    <3> QED BY <3>0, <3>1
  <2>2. CASE j # i
    <3>1. conn'[j] = conn[j]
      BY <1>4, <2>2
    <3>2. Complete(j, "down")' => Complete(j, "down") /\ conn[j].open
      <4>1. Complete(j, "down")' => Complete(j, "down")
        BY <3>1 DEF Complete
      <4>2. Complete(j, "down") => conn[j].down # <<>>
        BY DEF Complete
      <4> QED BY <1>0, <4>1, <4>2 DEF RepliesOK
    <3> QED BY <1>0, <1>5, <1>7, <2>2, <3>1, <3>2 DEF RepliesOK
  <2> QED BY <2>1, <2>2
<1>13. KnewOK'
  BY <1>0, <1>1, <1>5 DEF KnewOK, TypeOK
<1>14. TicketsOK'
  <2>1. \A t \in Tickets : ~Carries(i, t)'
    <3>1. ~Complete(i, "down")'
      BY <1>4, EmptyWay
    <3> QED BY <3>1 DEF Carries
  <2>2. \A j \in DOMAIN conn, t \in Tickets : j # i => (Carries(j, t)' <=> Carries(j, t))
    BY <1>4 DEF Carries, Complete
  <2> SUFFICES ASSUME NEW t \in Tickets
      PROVE /\ printed'[t] <= 1
            /\ printed'[t] > 0 => /\ OnSale(sold, t) /\ ~Shows(reply, t)
                                  /\ \A j \in DOMAIN conn : ~Carries(j, t)'
            /\ Shows(reply, t) => OnSale(sold, t) /\ \A j \in DOMAIN conn : ~Carries(j, t)'
            /\ \A j \in DOMAIN conn : Carries(j, t)' =>
                 OnSale(sold, t) /\ \A k \in DOMAIN conn : Carries(k, t)' => k = j
    BY <1>1, <1>4 DEF TicketsOK
  <2>3. /\ printed[t] \in Nat /\ printed[t] <= 1
        /\ printed[t] > 0 => OnSale(sold, t) /\ ~Shows(reply, t) /\ \A j \in DOMAIN conn : ~Carries(j, t)
        /\ Shows(reply, t) => OnSale(sold, t) /\ \A j \in DOMAIN conn : ~Carries(j, t)
        /\ \A j \in DOMAIN conn : Carries(j, t) =>
             OnSale(sold, t) /\ \A k \in DOMAIN conn : Carries(k, t) => k = j
    BY <1>0 DEF TicketsOK, TypeOK
  <2>4. CASE printed'[t] = printed[t]
    BY <2>1, <2>2, <2>3, <2>4
  <2>5. CASE printed'[t] = printed[t] + 1 /\ Carries(i, t)
    <3>1. printed[t] = 0
      BY <2>3, <2>5
    <3> QED BY <2>1, <2>2, <2>3, <2>5, <3>1
  <2> QED BY <1>2, <2>4, <2>5
<1> QED BY <1>8, <1>9, <1>10, <1>11, <1>12, <1>13, <1>14 DEF IInv

LEMMA InvHandle ==
  ASSUME IInv, NEW c \in Clients, CHandle(c) PROVE IInv'
<1>0. TypeOK /\ ConnOK /\ CallsOK /\ RepliesOK
  BY DEF IInv
<1>1. cpc[c] = "wait" /\ Complete(Mine(c), "down") /\ CEnd(c)
  BY DEF CHandle
<1>2. PICK i \in DOMAIN conn : i = Mine(c) /\ conn[i].client = c /\ conn[i].open
  BY <1>0, <1>1, MineOpen
<1>3. PICK r, o : r = conn[i].down[2].reply /\ o = conn[i].down[2].of
  OBVIOUS
<1>4. r \in Replies /\ o \in Clients \cup {Nobody}
  BY <1>0, <1>1, <1>2, <1>3, ConnTypes, WayTypes DEF Complete
<1>5. /\ told' = [command |-> typed[c], answer |-> r, known |-> c \in knew]
      /\ printed' = [t \in Tickets |-> printed[t] + (IF Shows(r, t) THEN 1 ELSE 0)]
      /\ got' = [got EXCEPT ![c] = o]
  BY <1>2, <1>3 DEF CHandle
<1>6. Apt(sold, typed[c], r, c \in knew)
  BY <1>0, <1>1, <1>2, <1>3 DEF RepliesOK
<1>7. sold' = sold
  BY <1>1 DEF CEnd
<1>8. told' \in [command : Commands, answer : Replies, known : BOOLEAN] /\ ToldOK'
  <2>1. told'.command = typed[c] /\ told'.answer = r /\ told'.known = (c \in knew)
    BY <1>5
  <2>2. ToldOK'
    BY <1>6, <1>7, <2>1 DEF ToldOK
  <2>3. typed[c] \in Commands
    BY <1>0, TypedCommand
  <2> QED BY <1>4, <1>5, <2>2, <2>3
<1>9. got' \in [Clients -> Clients \cup {Nobody}]
  BY <1>0, <1>4, <1>5 DEF TypeOK
<1>10. printed' \in [Tickets -> Nat]
       /\ \A t \in Tickets : printed'[t] = printed[t] + (IF Shows(r, t) THEN 1 ELSE 0)
  BY <1>0, <1>5 DEF TypeOK
<1>11. ASSUME NEW t \in Tickets
       PROVE  printed'[t] = printed[t] \/ (printed'[t] = printed[t] + 1 /\ Carries(Mine(c), t))
  <2>1. Shows(r, t) => Carries(Mine(c), t)
    BY <1>1, <1>2, <1>3 DEF Carries
  <2>2. printed[t] \in Nat
    BY <1>0 DEF TypeOK
  <2> QED BY <1>10, <2>1, <2>2
<1> QED BY <1>1, <1>8, <1>9, <1>10, <1>11, Ends

LEMMA InvGone ==
  ASSUME IInv, NEW c \in Clients, CServerGone(c) \/ CKill(c) PROVE IInv'
<1>0. TypeOK /\ ToldOK
  BY DEF IInv
<1>1. cpc[c] # "idle" /\ CEnd(c) /\ UNCHANGED <<got, told, printed>>
  BY DEF CServerGone, CKill
<1>2. ToldOK'
  BY <1>0, <1>1, ToldKept DEF CEnd
<1> QED BY <1>0, <1>1, <1>2, Ends DEF TypeOK
LEMMA InvStutter ==
  ASSUME IInv, UNCHANGED vars PROVE IInv'
<1>0. /\ TypeOK /\ ConnOK /\ CallsOK /\ RequestsOK /\ ServerOK /\ RepliesOK
      /\ KnewOK /\ ToldOK /\ TicketsOK
  BY DEF IInv
<1>1. /\ UNCHANGED <<conn, accepted, sold, spc, skt, msg, reply, whose, cpc, typed>>
      /\ UNCHANGED <<stage, got, printed, knew, told, asked, garbage>>
  BY DEF vars, sockets, server, client, history
<1>2. TypeOK' /\ ConnOK'
  BY <1>0, <1>1 DEF TypeOK, ConnOK
<1>3. CallsOK' /\ RequestsOK' /\ KnewOK' /\ ToldOK' /\ TicketsOK'
  BY <1>0, <1>1, SameConn, ConnTypes, CallsKept, RequestsKept, KnewKept, ToldKept, TicketsKept
<1>4. ServerOK'
  BY <1>0, <1>1 DEF ServerOK
<1>5. RepliesOK'
  BY <1>0, <1>1 DEF RepliesOK, Complete
<1> QED BY <1>2, <1>3, <1>4, <1>5 DEF IInv

LEMMA InvNext == IInv /\ [Next]_vars => IInv'
<1> SUFFICES ASSUME IInv, [Next]_vars PROVE IInv'
  OBVIOUS
<1>1. CASE ServerStep
  BY <1>1, InvAccept, InvAcceptFails, InvRead, InvReadNothing, InvAct, InvSendLength,
     InvSendContent, InvDie DEF ServerStep, SigPipe
<1>2. CASE Stop
  BY <1>2, InvDie DEF Stop
<1>3. CASE \E c \in Clients : \/ ClientStep(c) \/ CKill(c)
                              \/ \E command \in Commands : CConnect(c, command)
  BY <1>3, InvConnect, InvCSendLength, InvCSendContent, InvHandle, InvGone DEF ClientStep
<1>4. CASE UNCHANGED vars
  BY <1>4, InvStutter
<1> QED BY <1>1, <1>2, <1>3, <1>4 DEF Next

(* The inductive invariant: whose request and whose reply each connection  *)
(* holds, and where each ticket that was sold is.                          *)
THEOREM Invariance == Spec => []IInv
<1>1. Init => IInv
  BY InvInit
<1>2. IInv /\ [Next]_vars => IInv'
  BY InvNext
<1> QED BY <1>1, <1>2, PTL DEF Spec

(* Every variable keeps its type.                                          *)
THEOREM TypeCorrect == Spec => []TypeOK
<1>1. IInv => TypeOK
  BY DEF IInv
<1> QED BY <1>1, Invariance, PTL

(* A ticket is printed for one buyer only, in one call (database.c:115):   *)
(* whoever is killed, and whatever the server answers when it read         *)
(* nothing.                                                                *)
THEOREM OneBuyer == Spec => []PrintedOnce
<1>1. IInv => PrintedOnce
  BY DEF IInv, TicketsOK, PrintedOnce
<1> QED BY <1>1, Invariance, PTL

(* What a client prints is true of the database and answers its command,   *)
(* for every movie number that fits in 16 bits: no client prints what the  *)
(* server made of a request that nobody sent.  For code 0, which free      *)
(* seats hold, some movie is printed while there are any (database.c:137). *)
THEOREM TrueAnswers == Spec => []AnswersFit
<1>1. IInv => AnswersFit
  <2> SUFFICES ASSUME IInv, told.answer # Silence, told.command.arg <= Width
               PROVE  Fits(told.command, told.answer, told.known)
    BY DEF AnswersFit
  <2>1. told.command \in Commands /\ Apt(sold, told.command, told.answer, told.known)
    BY DEF IInv, ToldOK, TypeOK
  <2>2. PICK command, answer, known :
          command = told.command /\ answer = told.answer /\ known = told.known
    OBVIOUS
  <2>3. command.arg \in Nat /\ command.arg <= Width /\ Apt(sold, command, answer, known)
    BY <2>1, <2>2, CommandTypes
  <2>4. \A t : OnSale(sold, t) => Sold(t)
    BY DEF OnSale, Sold
  <2>5. command.arg - 1 \in 0 .. Movies - 1 => command.arg \in 1 .. Movies
    BY <2>3, ServiceAssumption
  <2>6. Fits(command, answer, known)
    BY <2>3, <2>4, <2>5 DEF Apt, Fits, SoldOut
  <2> QED BY <2>2, <2>6
<1> QED BY <1>1, Invariance, PTL
-----------------------------------------------------------------------------
(* The refinement of Rpc, step by step.                                    *)
LEMMA RefinesInit == Init => Calls!Init
BY DEF Init, Calls!Init, Calls!NoReply, Nobody

LEMMA ActServes ==
  ASSUME IInv, SAct PROVE [Calls!Next]_<<stage, got>>
<1>0. TypeOK /\ spc = "act"
  BY DEF IInv, SAct
<1>1. CASE \E r : Respond(r)
  <2>1. /\ stage' = [c \in Clients |->
             IF skt # 0 /\ conn[skt].open /\ whose = c THEN Acted(c) ELSE stage[c]]
        /\ got' = got
    BY <1>1 DEF Respond
  <2>2. ASSUME NEW c \in Clients, skt # 0, conn[skt].open, whose = c
        PROVE  [Calls!Next]_<<stage, got>>
    <3>1. stage[c] = "asked"
      BY <1>0, <2>2, ActsForAsked
    <3>2. stage' = [stage EXCEPT ![c] = "served"]
      BY <1>0, <2>1, <2>2, <3>1 DEF TypeOK, Acted
    <3> QED BY <2>1, <3>1, <3>2 DEF Calls!Next, Calls!Serve, Calls!Move
  <2>3. CASE ~\E c \in Clients : skt # 0 /\ conn[skt].open /\ whose = c
    <3>1. stage' = stage
      BY <1>0, <2>1, <2>3 DEF TypeOK
    <3> QED BY <2>1, <3>1
  <2> QED BY <2>2, <2>3
<1>2. CASE UNCHANGED history
  BY <1>2 DEF history
<1> QED BY <1>1, <1>2 DEF SAct

LEMMA HandleReturns ==
  ASSUME IInv, NEW c \in Clients, CHandle(c) PROVE Calls!Return(c)
<1>0. ConnOK /\ CallsOK /\ RepliesOK
  BY DEF IInv
<1>1. cpc[c] = "wait" /\ Complete(Mine(c), "down") /\ stage' = [stage EXCEPT ![c] = "idle"]
      /\ got' = [got EXCEPT ![c] = conn[Mine(c)].down[2].of]
  BY DEF CHandle, CEnd
<1>2. Mine(c) \in DOMAIN conn /\ conn[Mine(c)].client = c
  BY <1>0, <1>1, MineOpen
<1>3. conn[Mine(c)].down[2].of = c /\ stage[c] = "served"
  BY <1>0, <1>1, <1>2 DEF RepliesOK
<1> QED BY <1>1, <1>3 DEF Calls!Return, Calls!Move

LEMMA RefinesNext == IInv /\ [Next]_vars => [Calls!Next]_<<stage, got>>
<1> SUFFICES ASSUME IInv, [Next]_vars PROVE [Calls!Next]_<<stage, got>>
  OBVIOUS
<1>1. CASE ServerStep
  <2>1. CASE SAct
    BY <2>1, ActServes
  <2>2. CASE ~SAct
    BY <1>1, <2>2 DEF ServerStep, SAccept, SAcceptFails, SRead, SReadNothing, SSendLength,
       SSendContent, SigPipe, SDie, history
  <2> QED BY <2>1, <2>2
<1>2. CASE Stop
  BY <1>2 DEF Stop, SDie, history
<1>3. ASSUME NEW c \in Clients, CSendLength(c) \/ CSendContent(c)
      PROVE  UNCHANGED <<stage, got>>
  BY <1>3 DEF CSendLength, CSendContent, history
<1>4. ASSUME NEW c \in Clients, CHandle(c) PROVE Calls!Next
  BY <1>4, HandleReturns DEF Calls!Next
<1>5. ASSUME NEW c \in Clients, CServerGone(c) \/ CKill(c) PROVE Calls!Next
  <2>1. cpc[c] # "idle" /\ stage' = [stage EXCEPT ![c] = "idle"] /\ got' = got
    BY <1>5 DEF CServerGone, CKill, CEnd
  <2>2. stage[c] # "idle"
    BY <2>1 DEF IInv, CallsOK
  <2> QED BY <2>1, <2>2 DEF Calls!Next, Calls!Abort
<1>6. ASSUME NEW c \in Clients, NEW command \in Commands, CConnect(c, command) PROVE Calls!Next
  <2>1. cpc[c] = "idle" /\ stage' = [stage EXCEPT ![c] = "asked"] /\ got' = got
    BY <1>6 DEF CConnect, CGoto
  <2>2. stage[c] = "idle"
    BY <2>1 DEF IInv, CallsOK
  <2> QED BY <2>1, <2>2 DEF Calls!Next, Calls!Call, Calls!Move
<1>7. CASE UNCHANGED vars
  BY <1>7 DEF vars, history
<1> QED BY <1>1, <1>2, <1>3, <1>4, <1>5, <1>6, <1>7 DEF Next, ClientStep

(* Over sockets a client gets the reply to its own request, on its own     *)
(* connection, however many clients were killed before: the program        *)
(* implements Rpc.                                                         *)
THEOREM Refinement == Spec => RpcSpec
<1>1. Init => Calls!Init
  BY RefinesInit
<1>2. IInv /\ [Next]_vars => [Calls!Next]_<<stage, got>>
  BY RefinesNext
<1> QED BY <1>1, <1>2, Invariance, PTL DEF Spec, RpcSpec, Calls!Spec
-----------------------------------------------------------------------------
(* The requests for a seat of movie m that nobody has read, and the one    *)
(* that the server works on.                                               *)
Due(m)     == {i \in DOMAIN conn : Complete(i, "up") /\ conn[i].up[2].request = Purchase(m)}
Working(m) == IF spc = "act" /\ msg = Purchase(m) THEN 1 ELSE 0

SalesOK ==
  ~garbage => \A m \in 0 .. Movies - 1 : sold[m] + Cardinality(Due(m)) + Working(m) <= asked[m]

LEMMA DueFinite ==
  ASSUME ConnOK, NEW m
  PROVE  IsFiniteSet(Due(m)) /\ Cardinality(Due(m)) \in Nat
<1>1. DOMAIN conn = 1 .. Len(conn) /\ Len(conn) \in Nat
  BY LenProperties DEF ConnOK
<1>2. IsFiniteSet(1 .. Len(conn))
  BY <1>1, FS_Interval
<1>3. Due(m) \in SUBSET (1 .. Len(conn))
  BY <1>1 DEF Due
<1>4. IsFiniteSet(Due(m))
  BY <1>2, <1>3, FS_Subset
<1> QED BY <1>4, FS_CardinalityType

LEMMA Counts ==
  ASSUME TypeOK, NEW m \in 0 .. Movies - 1
  PROVE  sold[m] \in Nat /\ asked[m] \in Nat /\ Working(m) \in {0, 1}
BY ServiceAssumption DEF TypeOK, Working

(* Nothing is sold, asked or taken up, and the requests stay.              *)
LEMMA SalesKept ==
  ASSUME IInv, SalesOK, garbage' = garbage, sold' = sold, asked' = asked,
         \A m \in 0 .. Movies - 1 : Due(m)' = Due(m) /\ (Working(m)' = 0 \/ Working(m)' = Working(m))
  PROVE  SalesOK'
<1> SUFFICES ASSUME ~garbage, NEW m \in 0 .. Movies - 1
             PROVE  sold[m] + Cardinality(Due(m)) + Working(m)' <= asked[m]
  BY DEF SalesOK
<1>1. sold[m] \in Nat /\ asked[m] \in Nat /\ Working(m) \in {0, 1} /\ Cardinality(Due(m)) \in Nat
  BY Counts, DueFinite DEF IInv
<1>2. sold[m] + Cardinality(Due(m)) + Working(m) <= asked[m]
  BY DEF SalesOK
<1>3. Working(m)' = 0 \/ Working(m)' = Working(m)
  OBVIOUS
<1> QED BY <1>1, <1>2, <1>3

LEMMA SameDue ==
  ASSUME DOMAIN conn' = DOMAIN conn, \A i \in DOMAIN conn : conn'[i].up = conn[i].up, NEW m
  PROVE  Due(m)' = Due(m)
BY DEF Due, Complete

LEMMA Idles ==
  ASSUME NEW m
  PROVE  /\ spc' # "act" => Working(m)' = 0
         /\ UNCHANGED <<spc, msg>> => Working(m)' = Working(m)
BY DEF Working

LEMMA SalesServer ==
  ASSUME IInv, SalesOK, SAccept \/ SAcceptFails \/ SSendLength \/ SSendContent \/ SDie
  PROVE  SalesOK'
<1>0. TypeOK /\ ConnOK
  BY DEF IInv
<1>1. spc' # "act" /\ UNCHANGED <<sold, asked, garbage>>
  BY DEF SAccept, SAcceptFails, SSendLength, SSendContent, SDie, history
<1>2. \/ conn' = conn
      \/ /\ skt \in DOMAIN conn
         /\ \E part : conn' = [conn EXCEPT ![skt]["down"] = Append(@, part)]
  BY <1>0, Writes DEF SAccept, SAcceptFails, SSendLength, SSendContent, SDie, Accept, sockets, Write
<1>3. DOMAIN conn' = DOMAIN conn /\ \A i \in DOMAIN conn : conn'[i].up = conn[i].up
  <2>1. CASE conn' = conn
    BY <2>1
  <2>2. ASSUME skt \in DOMAIN conn, NEW part, conn' = [conn EXCEPT ![skt]["down"] = Append(@, part)]
        PROVE  DOMAIN conn' = DOMAIN conn /\ \A i \in DOMAIN conn : conn'[i].up = conn[i].up
    <3>1. \A i \in DOMAIN conn : conn[i] = [client |-> conn[i].client, up |-> conn[i].up,
                                            down |-> conn[i].down, open |-> conn[i].open]
      BY <1>0, ConnTypes
    <3>2. /\ DOMAIN conn' = DOMAIN conn /\ \A i \in DOMAIN conn : i # skt => conn'[i] = conn[i]
          /\ conn'[skt] = [conn[skt] EXCEPT !["down"] = Append(@, part)]
      BY <2>2
    <3> QED BY <2>2, <3>1, <3>2
  <2> QED BY <1>2, <2>1, <2>2
<1> QED BY <1>1, <1>3, SameDue, Idles, SalesKept

(* The server takes up a request.                                          *)
LEMMA SalesRead ==
  ASSUME IInv, SalesOK, SRead
  PROVE  SalesOK'
<1>0. TypeOK /\ ConnOK
  BY DEF IInv
<1>1. /\ spc = "read" /\ spc' = "act" /\ skt # 0 /\ Complete(skt, "up")
      /\ msg' = conn[skt].up[2].request /\ Consume(skt, "up")
      /\ UNCHANGED <<sold, asked, garbage>>
  BY DEF SRead, history
<1>2. skt \in DOMAIN conn
  BY <1>0, <1>1, Current
<1>3. /\ DOMAIN conn' = DOMAIN conn /\ conn'[skt].up = <<>>
      /\ \A i \in DOMAIN conn : i # skt => conn'[i] = conn[i]
  BY <1>0, <1>1, <1>2, ConsumeUp DEF Becomes
<1> SUFFICES ASSUME ~garbage, NEW m \in 0 .. Movies - 1
             PROVE  sold[m] + Cardinality(Due(m)') + Working(m)' <= asked[m]
  BY <1>1 DEF SalesOK
<1>4. Due(m)' = Due(m) \ {skt}
  <2>1. Len(<<>>) # 2
    OBVIOUS
  <2>2. skt \notin Due(m)'
    BY <1>3, <2>1 DEF Due, Complete
  <2>3. ASSUME NEW i \in DOMAIN conn, i # skt
        PROVE  i \in Due(m)' <=> i \in Due(m)
    BY <1>3, <2>3 DEF Due, Complete
  <2>4. Due(m)' \subseteq DOMAIN conn /\ Due(m) \subseteq DOMAIN conn
    BY <1>3 DEF Due
  <2> QED BY <2>2, <2>3, <2>4
<1>5. Working(m) = 0 /\ Working(m)' = IF skt \in Due(m) THEN 1 ELSE 0
  BY <1>1, <1>2 DEF Working, Due
<1>6. /\ IsFiniteSet(Due(m)) /\ Cardinality(Due(m)) \in Nat
      /\ Cardinality(Due(m) \ {skt}) = IF skt \in Due(m) THEN Cardinality(Due(m)) - 1
                                       ELSE Cardinality(Due(m))
  BY <1>0, DueFinite, FS_RemoveElement
<1>7. sold[m] \in Nat /\ asked[m] \in Nat
  BY <1>0, Counts
<1>8. sold[m] + Cardinality(Due(m)) + Working(m) <= asked[m]
  BY DEF SalesOK
<1> QED BY <1>4, <1>5, <1>6, <1>7, <1>8

(* It sells for the request at most one seat, and of the movie asked for.  *)
LEMMA SalesAct ==
  ASSUME IInv, SalesOK, SAct
  PROVE  SalesOK'
<1>0. TypeOK /\ ConnOK
  BY DEF IInv
<1>1. /\ spc = "act" /\ spc' # "act" /\ UNCHANGED <<conn, asked, garbage>>
  BY DEF SAct, Respond, sockets, history
<1> SUFFICES ASSUME ~garbage, NEW m \in 0 .. Movies - 1
             PROVE  sold'[m] + Cardinality(Due(m)') + Working(m)' <= asked[m]
  BY <1>1 DEF SalesOK
<1>2. Due(m)' = Due(m) /\ Working(m)' = 0
  BY <1>1, SameDue, Idles
<1>3. sold'[m] = sold[m] \/ (Working(m) = 1 /\ sold'[m] = sold[m] + 1)
  <2>1. CASE msg.action = "buy" /\ sold' = Sale(msg.arg).sold
    <3>1. PICK n : n = msg.arg
      OBVIOUS
    <3>2. n \in 0 .. Width - 1 /\ msg \in Garbage
      BY <1>0, <2>1, <3>1, GarbageFacts DEF TypeOK
    <3>3. \/ sold' = sold
          \/ n \in 0 .. Movies - 1 /\ sold' = [sold EXCEPT ![n] = sold[n] + 1]
      BY <1>0, <2>1, <3>1, <3>2, SaleTypes
    <3>4. n = m => msg = Purchase(m)
      <4>1. msg = [action |-> msg.action, arg |-> msg.arg]
        BY <3>2, GarbageShape
      <4> QED BY <2>1, <3>1, <4>1 DEF Purchase
    <3>5. DOMAIN sold = 0 .. Movies - 1
      BY <1>0 DEF TypeOK
    <3>6. \/ sold'[m] = sold[m]
          \/ n = m /\ sold'[m] = sold[m] + 1
      BY <3>3, <3>5
    <3>7. n = m => Working(m) = 1
      BY <1>1, <3>4 DEF Working
    <3> QED BY <3>6, <3>7
  <2>2. CASE sold' = sold
    BY <2>2
  <2> QED BY <2>1, <2>2 DEF SAct
<1>4. sold[m] \in Nat /\ asked[m] \in Nat /\ Working(m) \in {0, 1} /\ Cardinality(Due(m)) \in Nat
  BY <1>0, Counts, DueFinite
<1>5. sold[m] + Cardinality(Due(m)) + Working(m) <= asked[m]
  BY DEF SalesOK
<1> QED BY <1>2, <1>3, <1>4, <1>5

(* A client asks.                                                          *)
LEMMA SalesSend ==
  ASSUME IInv, SalesOK, NEW c \in Clients, CSendContent(c)
  PROVE  SalesOK'
<1>0. TypeOK /\ ConnOK /\ CallsOK /\ RequestsOK
  BY DEF IInv
<1>1. PICK x : x = Request(typed[c])
  OBVIOUS
<1>2. PICK part : part = [request |-> x, of |-> c]
  OBVIOUS
<1>3. /\ cpc[c] = "content" /\ Write(Mine(c), "up", part)
      /\ asked' = [m \in 0 .. Movies - 1 |-> asked[m] + (IF x = Purchase(m) THEN 1 ELSE 0)]
      /\ UNCHANGED <<sold, spc, msg, garbage>>
  BY <1>1, <1>2 DEF CSendContent, CGoto, server
<1>4. PICK i \in DOMAIN conn : i = Mine(c) /\ conn[i].client = c /\ conn[i].open
  BY <1>0, <1>3, MineOpen
<1>5. conn[i].up = <<"length">>
  BY <1>0, <1>3, <1>4 DEF RequestsOK
<1>6. Append(conn[i].up, part) = <<"length", part>> /\ <<"length", part>> \in Asks
  <2>1. <<"length", part>> \in Asks
    BY <1>0, <1>1, <1>2, TypedCommand, CommandTypes, WayTypes
  <2> QED BY <1>5, <2>1, AppendToOne
<1>7. /\ DOMAIN conn' = DOMAIN conn /\ conn'[i].up = <<"length", part>>
      /\ \A j \in DOMAIN conn : j # i => conn'[j] = conn[j]
  BY <1>0, <1>3, <1>4, <1>6, WriteUp DEF Becomes
<1> SUFFICES ASSUME ~garbage, NEW m \in 0 .. Movies - 1
             PROVE  sold[m] + Cardinality(Due(m)') + Working(m)' <= asked'[m]
  BY <1>3 DEF SalesOK
<1>8. i \notin Due(m)
  <2>1. Len(<<"length">>) # 2
    OBVIOUS
  <2> QED BY <1>5, <2>1 DEF Due, Complete
<1>9. Due(m)' = IF x = Purchase(m) THEN Due(m) \cup {i} ELSE Due(m)
  <2>1. Len(<<"length", part>>) = 2 /\ <<"length", part>>[2] = part
    OBVIOUS
  <2>2. Complete(i, "up")' /\ conn'[i].up[2].request = x
    BY <1>2, <1>7, <2>1 DEF Complete
  <2>3. i \in Due(m)' <=> x = Purchase(m)
    BY <1>7, <2>2 DEF Due
  <2>4. \A j \in DOMAIN conn : j # i => (j \in Due(m)' <=> j \in Due(m))
    BY <1>7 DEF Due, Complete
  <2>5. Due(m)' \subseteq DOMAIN conn /\ Due(m) \subseteq DOMAIN conn
    BY <1>7 DEF Due
  <2> QED BY <1>8, <2>3, <2>4, <2>5
<1>10. /\ IsFiniteSet(Due(m)) /\ Cardinality(Due(m)) \in Nat
       /\ Cardinality(Due(m) \cup {i}) = Cardinality(Due(m)) + 1
  BY <1>0, <1>8, DueFinite, FS_AddElement
<1>11. sold[m] \in Nat /\ asked[m] \in Nat /\ Working(m) \in {0, 1} /\ Working(m)' = Working(m)
  BY <1>0, <1>3, Counts, Idles
<1>12. sold[m] + Cardinality(Due(m)) + Working(m) <= asked[m]
  BY DEF SalesOK
<1>13. asked'[m] = asked[m] + (IF x = Purchase(m) THEN 1 ELSE 0)
  BY <1>3
<1> QED BY <1>9, <1>10, <1>11, <1>12, <1>13

(* What else a client does asks for nothing.                               *)
LEMMA SalesClient ==
  ASSUME IInv, SalesOK, NEW c \in Clients,
         \/ CSendLength(c) \/ CHandle(c) \/ CServerGone(c) \/ CKill(c)
         \/ \E command \in Commands : CConnect(c, command)
  PROVE  SalesOK'
<1>0. TypeOK /\ ConnOK /\ CallsOK /\ RequestsOK
  BY DEF IInv
<1>1. UNCHANGED <<sold, spc, msg, asked, garbage>>
  BY DEF CSendLength, CHandle, CServerGone, CKill, CConnect, CEnd, server, history
<1>2. \A m : Due(m)' = Due(m)
  <2>1. CASE CSendLength(c)
    <3>1. PICK i \in DOMAIN conn : i = Mine(c) /\ conn[i].client = c /\ conn[i].open
      BY <1>0, <2>1, MineOpen DEF CSendLength, CGoto
    <3>2. conn[i].up = <<>> /\ Write(i, "up", "length")
      BY <1>0, <2>1, <3>1 DEF CSendLength, CGoto, RequestsOK
    <3>3. Append(conn[i].up, "length") = <<"length">> /\ <<"length">> \in Asks
      BY <3>2, AppendToNone, WayTypes
    <3>4. /\ DOMAIN conn' = DOMAIN conn /\ conn'[i].up = <<"length">>
          /\ \A j \in DOMAIN conn : j # i => conn'[j] = conn[j]
      BY <1>0, <3>2, <3>3, WriteUp DEF Becomes
    <3>5. Len(<<"length">>) # 2 /\ Len(<<>>) # 2
      OBVIOUS
    <3>6. ~Complete(i, "up") /\ ~Complete(i, "up")'
      BY <3>2, <3>4, <3>5 DEF Complete
    <3> QED BY <3>4, <3>6 DEF Due, Complete
  <2>2. CASE CHandle(c) \/ CServerGone(c) \/ CKill(c)
    <3>1. cpc[c] # "idle" /\ Hangup(Mine(c))
      BY <2>2 DEF CHandle, CServerGone, CKill, CEnd
    <3>2. PICK i \in DOMAIN conn : i = Mine(c) /\ conn[i].client = c /\ conn[i].open
      BY <1>0, <3>1, MineOpen
    <3>3. /\ DOMAIN conn' = DOMAIN conn
          /\ \A j \in DOMAIN conn : conn'[j].up = conn[j].up
      BY <1>0, <3>1, <3>2, HangupCloses DEF Becomes
    <3> QED BY <3>3, SameDue
  <2>3. CASE \E command \in Commands : CConnect(c, command)
    <3>1. Dial(c)
      BY <2>3 DEF CConnect
    <3>2. PICK n : n = Len(conn) + 1
      OBVIOUS
    <3>3. /\ DOMAIN conn' = DOMAIN conn \cup {n} /\ n \notin DOMAIN conn
          /\ conn'[n] = New(c) /\ \A j \in DOMAIN conn : conn'[j] = conn[j]
      <4>1. /\ Len(conn) \in Nat /\ DOMAIN conn' = 1 .. n /\ DOMAIN conn = 1 .. Len(conn)
            /\ conn'[n] = New(c) /\ \A j \in DOMAIN conn : conn'[j] = conn[j]
        BY <1>0, <3>1, <3>2, DialAdds
      <4>2. 1 .. n = (1 .. Len(conn)) \cup {n} /\ n \notin 1 .. Len(conn)
        BY <3>2, <4>1
      <4> QED BY <4>1, <4>2
    <3>4. ~Complete(n, "up")'
      <4>1. conn'[n].up = <<>> /\ Len(<<>>) # 2
        BY <3>3 DEF New
      <4> QED BY <4>1 DEF Complete
    <3> QED BY <3>3, <3>4 DEF Due, Complete
  <2> QED BY <2>1, <2>2, <2>3
<1> QED BY <1>1, <1>2, Idles, SalesKept

(* No more seats of a movie are sold than were asked for, whoever dies     *)
(* after asking, as long as the server read every request that it worked   *)
(* on (sockets.c:77-81).                                                   *)
THEOREM SoldOnRequest == Spec => []SalesAsked
<1>1. Init => SalesOK
  <2> SUFFICES ASSUME Init, NEW m \in 0 .. Movies - 1
               PROVE  sold[m] + Cardinality(Due(m)) + Working(m) <= asked[m]
    BY DEF SalesOK
  <2>1. Due(m) = {} /\ Working(m) = 0 /\ sold[m] = 0 /\ asked[m] = 0
    BY DEF Init, Listen, Due, Working
  <2> QED BY <2>1, FS_EmptySet
<1>2. IInv /\ SalesOK /\ [Next]_vars => SalesOK'
  <2> SUFFICES ASSUME IInv, SalesOK, [Next]_vars PROVE SalesOK'
    OBVIOUS
  <2>1. CASE ServerStep \/ Stop
    <3>1. CASE SReadNothing
      BY <3>1 DEF SReadNothing, SalesOK
    <3> QED BY <2>1, <3>1, SalesServer, SalesRead, SalesAct DEF ServerStep, SigPipe, Stop
  <2>2. CASE \E c \in Clients : \/ ClientStep(c) \/ CKill(c)
                                \/ \E command \in Commands : CConnect(c, command)
    BY <2>2, SalesClient, SalesSend DEF ClientStep
  <2>3. CASE UNCHANGED vars
    <3>1. UNCHANGED <<conn, sold, spc, msg, asked, garbage>>
      BY <2>3 DEF vars, sockets, server, history
    <3> QED BY <3>1, SameDue, Idles, SalesKept
  <2> QED BY <2>1, <2>2, <2>3 DEF Next
<1>3. IInv /\ SalesOK => SalesAsked
  <2> SUFFICES ASSUME IInv, SalesOK, ~garbage, NEW m \in 0 .. Movies - 1
               PROVE  sold[m] <= asked[m]
    BY DEF SalesAsked
  <2>1. sold[m] \in Nat /\ asked[m] \in Nat /\ Working(m) \in {0, 1} /\ Cardinality(Due(m)) \in Nat
    BY Counts, DueFinite DEF IInv
  <2>2. sold[m] + Cardinality(Due(m)) + Working(m) <= asked[m]
    BY DEF SalesOK
  <2> QED BY <2>1, <2>2
<1> QED BY <1>1, <1>2, <1>3, Invariance, PTL DEF Spec
-----------------------------------------------------------------------------
(***************************************************************************)
(* The server has one connection at a time and reads from it before it     *)
(* accepts the next (sockets.c:69-81): can it wait for a client that waits *)
(* too?                                                                    *)
(***************************************************************************)

(* A request that was sent and that the server has not read is there.      *)
Serving(i) == i = skt /\ spc \in {"read", "act", "length", "content"}
Unread(i)  == i > accepted \/ (Serving(i) /\ spc = "read")

AsksOK == \A i \in DOMAIN conn :
            conn[i].open /\ cpc[conn[i].client] = "wait" /\ Unread(i) => Complete(i, "up")

(* So is the reply of a call that the server is done with, if the client   *)
(* still waits for it.                                                     *)
AnswersOK == \A i \in DOMAIN conn :
               conn[i].open /\ i <= accepted /\ ~Serving(i) => Complete(i, "down")

PlacesOK == spc # "down" => AsksOK /\ AnswersOK

LInv == IInv /\ PlacesOK

(* A process that waits neither in accept nor in read has a step to take.  *)
ServerGoes ==
  \/ spc \in {"act", "length", "content"}
  \/ spc = "accept" /\ (accepted < Len(conn) \/ NoDescriptor)
  \/ spc = "read" /\ (skt = 0 \/ (skt # 0 /\ (~conn[skt].open \/ Complete(skt, "up"))))

ClientGoes(c) == cpc[c] \in {"length", "content"} \/ (cpc[c] = "wait" /\ Complete(Mine(c), "down"))

NoStandstill == spc # "down" =>
  \A c \in Clients : cpc[c] # "idle" =>
    \/ ServerGoes \/ ClientGoes(c)
    \/ spc = "read" /\ skt # 0 /\ ClientGoes(conn[skt].client)

(* The connections stay as they are, or change where nobody looks.         *)
LEMMA PlacesKept ==
  ASSUME TypeOK, ConnOK, PlacesOK, spc # "down", DOMAIN conn' = DOMAIN conn,
         UNCHANGED <<cpc, accepted>>,
         \A j \in DOMAIN conn : conn'[j].client = conn[j].client /\ conn'[j].open = conn[j].open,
         \A j \in DOMAIN conn : conn[j].open /\ Unread(j)' => Unread(j) /\ conn'[j].up = conn[j].up,
         \A j \in DOMAIN conn : conn[j].open /\ j <= accepted /\ ~Serving(j)' =>
           Complete(j, "down")' \/ (~Serving(j) /\ conn'[j].down = conn[j].down)
  PROVE  PlacesOK'
<1>1. AsksOK'
  BY DEF PlacesOK, AsksOK, Complete
<1>2. AnswersOK'
  BY DEF PlacesOK, AnswersOK, Complete
<1> QED BY <1>1, <1>2 DEF PlacesOK

LEMMA PlacesAccept == ASSUME IInv, PlacesOK, SAccept PROVE PlacesOK'
<1>0. TypeOK /\ ConnOK
  BY DEF IInv
<1>1. /\ spc = "accept" /\ spc' = "read" /\ accepted' = accepted + 1 /\ skt' = accepted'
      /\ conn' = conn /\ cpc' = cpc
  BY DEF SAccept, Accept, client
<1>2. accepted \in Nat /\ \A i \in DOMAIN conn : i \in Nat
  BY <1>0, Current, ConnTypes
<1>3. \A i \in DOMAIN conn : Unread(i)' => i > accepted
  BY <1>1, <1>2 DEF Unread, Serving
<1>4. \A i \in DOMAIN conn : i <= accepted' /\ ~Serving(i)' => i <= accepted /\ ~Serving(i)
  BY <1>1, <1>2 DEF Serving
<1> QED BY <1>1, <1>3, <1>4 DEF PlacesOK, AsksOK, AnswersOK, Complete, Unread

LEMMA PlacesFails == ASSUME IInv, PlacesOK, SAcceptFails PROVE PlacesOK'
<1>0. TypeOK /\ ConnOK
  BY DEF IInv
<1>1. /\ spc = "accept" /\ spc' = "read" /\ skt' = 0 /\ UNCHANGED <<conn, accepted, cpc>>
  BY DEF SAcceptFails, client, sockets
<1>2. \A i \in DOMAIN conn : i # 0 /\ ~Serving(i) /\ ~Serving(i)' /\ (Unread(i)' <=> Unread(i))
  BY <1>0, <1>1, ConnTypes DEF Serving, Unread
<1> QED BY <1>0, <1>1, <1>2, SameConn, PlacesKept

LEMMA PlacesRead == ASSUME IInv, PlacesOK, SRead \/ SReadNothing PROVE PlacesOK'
<1>0. TypeOK /\ ConnOK
  BY DEF IInv
<1>1. spc = "read" /\ spc' = "act" /\ skt' = skt /\ cpc' = cpc /\ accepted' = accepted
  BY DEF SRead, SReadNothing, Consume, client, sockets
<1>2. /\ DOMAIN conn' = DOMAIN conn
      /\ \A j \in DOMAIN conn : /\ conn'[j].client = conn[j].client /\ conn'[j].open = conn[j].open
                                /\ conn'[j].down = conn[j].down
                                /\ j # skt => conn'[j].up = conn[j].up
  <2>1. CASE SRead
    <3>1. skt \in DOMAIN conn /\ Consume(skt, "up")
      BY <1>0, <2>1, Current DEF SRead
    <3>2. Becomes(skt, <<>>, conn[skt].down, conn[skt].open)
      BY <1>0, <3>1, ConsumeUp
    <3> QED BY <3>2 DEF Becomes
  <2>2. CASE SReadNothing
    BY <2>2 DEF SReadNothing, sockets
  <2> QED BY <2>1, <2>2
<1>3. \A j \in DOMAIN conn : Unread(j)' => j > accepted /\ j # skt
  BY <1>0, <1>1, Current, ConnTypes DEF Unread, Serving
<1>4. \A j \in DOMAIN conn : Serving(j)' <=> Serving(j)
  BY <1>1 DEF Serving
<1> QED BY <1>0, <1>1, <1>2, <1>3, <1>4, PlacesKept DEF Unread

LEMMA PlacesAct == ASSUME IInv, PlacesOK, SAct PROVE PlacesOK'
<1>0. TypeOK /\ ConnOK /\ ServerOK
  BY DEF IInv
<1>1. spc = "act" /\ UNCHANGED <<conn, accepted, skt, cpc>>
  BY DEF SAct, client, sockets
<1>2. spc' \in {"length", "accept"} /\ (spc' = "accept" => msg.action \notin {"list", "buy", "get"})
  BY DEF SAct, Respond
<1>3. ASSUME skt # 0, conn[skt].open PROVE spc' = "length"
  <2>1. skt \in DOMAIN conn /\ conn[skt].client \in Clients /\ msg = Request(typed[conn[skt].client])
    BY <1>0, <1>1, <1>3, Current, ConnTypes DEF ServerOK
  <2>2. PICK command \in Commands : msg = Request(command)
    BY <1>0, <2>1, TypedCommand
  <2> QED BY <1>2, <2>2, RequestFacts, CommandTypes
<1>4. \A j \in DOMAIN conn : /\ j # 0 /\ (Unread(j)' => Unread(j))
                             /\ conn[j].open /\ ~Serving(j)' => ~Serving(j)
  BY <1>0, <1>1, <1>2, <1>3, ConnTypes DEF Unread, Serving
<1> QED BY <1>0, <1>1, <1>4, SameConn, PlacesKept

LEMMA PlacesSend == ASSUME IInv, PlacesOK, SSendLength \/ SSendContent PROVE PlacesOK'
<1>0. TypeOK /\ ConnOK /\ RepliesOK
  BY DEF IInv
<1>1. /\ spc \in {"length", "content"} /\ spc' \in {"content", "accept"}
      /\ (spc = "length" <=> spc' = "content")
      /\ UNCHANGED <<skt, cpc>>
  BY DEF SSendLength, SSendContent, client
<1>2. \A j \in DOMAIN conn : /\ j # 0 /\ (Unread(j)' /\ accepted' = accepted => Unread(j))
                             /\ ~Serving(j)' => (j = skt /\ spc = "content") \/ ~Serving(j)
  BY <1>0, <1>1, ConnTypes DEF Unread, Serving
<1>3. PICK part : /\ SWrite(part)
                  /\ spc = "length" => part = "length"
                  /\ spc = "content" => part = [reply |-> reply, of |-> whose]
  BY DEF SSendLength, SSendContent
<1>4. CASE conn' = conn /\ accepted' = accepted /\ (skt = 0 \/ ~conn[skt].open)
  <2>1. \A j \in DOMAIN conn : conn[j].open => j # skt
    BY <1>2, <1>4
  <2> QED BY <1>0, <1>1, <1>2, <1>4, <2>1, SameConn, PlacesKept
<1>5. CASE skt \in DOMAIN conn /\ skt = accepted /\ conn[skt].open /\ Write(skt, "down", part)
  <2>1. PICK x \in Answers : Append(conn[skt].down, part) = x /\ (spc = "content" => Len(x) = 2)
    <3>1. CASE spc = "length"
      <4>1. conn[skt].down = <<>> /\ part = "length"
        BY <1>0, <1>3, <1>5, <3>1 DEF RepliesOK
      <4> QED BY <3>1, <4>1, AppendToNone, WayTypes
    <3>2. CASE spc = "content"
      <4>1. conn[skt].down = <<"length">>
        BY <1>0, <1>5, <3>2 DEF RepliesOK
      <4>2. Append(conn[skt].down, part) = <<"length", part>>
        BY <4>1, AppendToOne
      <4>3. reply \in Replies /\ whose \in Clients \cup {Nobody}
        BY <1>0 DEF TypeOK
      <4>4. <<"length", part>> \in Answers /\ Len(<<"length", part>>) = 2
        BY <1>3, <3>2, <4>3, WayTypes
      <4> QED BY <4>2, <4>4
    <3> QED BY <1>1, <3>1, <3>2
  <2>2. Becomes(skt, conn[skt].up, x, conn[skt].open) /\ accepted' = accepted
    BY <1>0, <1>5, <2>1, WriteDown
  <2>3. /\ DOMAIN conn' = DOMAIN conn /\ conn'[skt].down = x
        /\ \A j \in DOMAIN conn : /\ conn'[j].client = conn[j].client /\ conn'[j].open = conn[j].open
                                  /\ conn'[j].up = conn[j].up
                                  /\ j # skt => conn'[j].down = conn[j].down
    BY <2>2 DEF Becomes
  <2>4. spc = "content" => Complete(skt, "down")'
    BY <1>1, <2>1, <2>3 DEF Complete
  <2>5. \A j \in DOMAIN conn : ~Serving(j)' =>
          Complete(j, "down")' \/ (~Serving(j) /\ conn'[j].down = conn[j].down)
    BY <1>1, <1>2, <2>3, <2>4 DEF Serving
  <2> QED BY <1>0, <1>1, <1>2, <2>2, <2>3, <2>5, PlacesKept
<1> QED BY <1>0, <1>3, <1>4, <1>5, Writes

LEMMA PlacesConnect ==
  ASSUME IInv, PlacesOK, NEW c \in Clients, NEW command \in Commands, CConnect(c, command)
  PROVE  PlacesOK'
<1>0. TypeOK /\ ConnOK /\ CallsOK
  BY DEF IInv
<1>1. /\ cpc[c] = "idle" /\ cpc'[c] = "length" /\ \A d \in Clients : d # c => cpc'[d] = cpc[d]
      /\ spc # "down" /\ UNCHANGED <<spc, skt>>
  BY <1>0 DEF CConnect, CGoto, TypeOK, server
<1>2. /\ Len(conn) \in Nat /\ accepted \in Nat /\ accepted <= Len(conn)
      /\ DOMAIN conn = 1 .. Len(conn) /\ DOMAIN conn' = 1 .. Len(conn) + 1
      /\ conn'[Len(conn) + 1] = New(c) /\ accepted' = accepted
      /\ \A j \in DOMAIN conn : conn'[j] = conn[j]
  BY <1>0, Current, DialAdds DEF CConnect
<1>3. ASSUME NEW j \in DOMAIN conn', conn'[j].open
      PROVE  /\ cpc'[conn'[j].client] = "wait" /\ Unread(j)' => Complete(j, "up")'
             /\ j <= accepted' /\ ~Serving(j)' => Complete(j, "down")'
  <2>1. CASE j = Len(conn) + 1
    <3>1. conn'[j].client = c /\ ~(j <= accepted')
      BY <1>2, <2>1 DEF New
    <3> QED BY <1>1, <3>1
  <2>2. CASE j \in DOMAIN conn
    <3>1. conn'[j] = conn[j] /\ conn[j].client \in Clients /\ conn[j].client # c
      BY <1>0, <1>1, <1>2, <1>3, <2>2, ConnTypes DEF CallsOK
    <3>2. (Unread(j)' <=> Unread(j)) /\ (Serving(j)' <=> Serving(j))
      BY <1>1, <1>2 DEF Unread, Serving
    <3> QED BY <1>1, <1>2, <1>3, <2>2, <3>1, <3>2 DEF PlacesOK, AsksOK, AnswersOK, Complete
  <2> QED BY <1>2, <2>1, <2>2
<1> QED BY <1>3 DEF PlacesOK, AsksOK, AnswersOK

(* The connection of c has other contents now, or is closed.               *)
LEMMA PlacesClient ==
  ASSUME IInv, PlacesOK, NEW c \in Clients, cpc[c] # "idle", UNCHANGED <<spc, skt>>,
         NEW to \in {"idle", "content", "wait"}, cpc' = [cpc EXCEPT ![c] = to],
         NEW u, NEW d, NEW o, Becomes(Mine(c), u, d, o) /\ accepted' = accepted,
         o => d = conn[Mine(c)].down, o /\ to = "wait" => Len(u) = 2
  PROVE  PlacesOK'
<1>0. TypeOK /\ ConnOK /\ CallsOK
  BY DEF IInv
<1>1. PICK i \in DOMAIN conn : i = Mine(c) /\ conn[i].client = c /\ conn[i].open
  BY <1>0, MineOpen
<1>2. cpc'[c] = to /\ \A e \in Clients : e # c => cpc'[e] = cpc[e]
  BY <1>0 DEF TypeOK
<1>3. /\ DOMAIN conn' = DOMAIN conn /\ conn'[i].client = c /\ conn'[i].up = u /\ conn'[i].down = d
      /\ conn'[i].open = o /\ \A j \in DOMAIN conn : j # i => conn'[j] = conn[j]
  BY <1>1 DEF Becomes
<1>4. \A j : (Unread(j)' <=> Unread(j)) /\ (Serving(j)' <=> Serving(j))
  BY DEF Unread, Serving
<1>5. ASSUME spc # "down", NEW j \in DOMAIN conn, conn'[j].open
      PROVE  /\ cpc'[conn'[j].client] = "wait" /\ Unread(j) => Complete(j, "up")'
             /\ j <= accepted /\ ~Serving(j) => Complete(j, "down")'
  <2>1. CASE j = i
    <3>1. cpc'[conn'[j].client] = "wait" => Complete(j, "up")'
      BY <1>1, <1>2, <1>3, <1>5, <2>1 DEF Complete
    <3>2. conn'[j].down = conn[j].down
      BY <1>1, <1>3, <1>5, <2>1
    <3> QED BY <1>1, <1>5, <2>1, <3>1, <3>2 DEF PlacesOK, AnswersOK, Complete
  <2>2. CASE j # i
    <3>1. conn'[j] = conn[j] /\ conn[j].client \in Clients /\ conn[j].open
      BY <1>0, <1>3, <1>5, <2>2, ConnTypes
    <3>2. conn[j].client # c
      BY <1>0, <1>1, <2>2, <3>1, OneOpen
    <3> QED BY <1>2, <1>5, <3>1, <3>2 DEF PlacesOK, AsksOK, AnswersOK, Complete
  <2> QED BY <2>1, <2>2
<1> QED BY <1>3, <1>4, <1>5 DEF PlacesOK, AsksOK, AnswersOK

LEMMA PlacesNext == IInv /\ PlacesOK /\ [Next]_vars => PlacesOK'
<1> SUFFICES ASSUME IInv, PlacesOK, [Next]_vars PROVE PlacesOK'
  OBVIOUS
<1>0. TypeOK /\ ConnOK /\ CallsOK /\ RequestsOK
  BY DEF IInv
<1>1. CASE ServerStep \/ Stop
  <2>1. ASSUME SDie PROVE PlacesOK'
    BY <2>1 DEF SDie, PlacesOK
  <2> QED BY <1>1, <2>1, PlacesAccept, PlacesFails, PlacesRead, PlacesAct, PlacesSend
          DEF ServerStep, SigPipe, Stop
<1>2. ASSUME NEW c \in Clients, CEnd(c), cpc[c] # "idle" PROVE PlacesOK'
  <2>1. Mine(c) \in DOMAIN conn
    BY <1>0, <1>2, MineOpen
  <2>2. Becomes(Mine(c), conn[Mine(c)].up, <<>>, FALSE) /\ accepted' = accepted
    BY <1>0, <1>2, <2>1, HangupCloses DEF CEnd
  <2>3. UNCHANGED <<spc, skt>> /\ cpc' = [cpc EXCEPT ![c] = "idle"]
    BY <1>2 DEF CEnd, server
  <2> QED BY <1>2, <2>2, <2>3, PlacesClient
<1>3. ASSUME NEW c \in Clients, CSendLength(c) PROVE PlacesOK'
  <2>1. /\ cpc[c] = "length" /\ cpc' = [cpc EXCEPT ![c] = "content"] /\ UNCHANGED <<spc, skt>>
        /\ Write(Mine(c), "up", "length")
    BY <1>3 DEF CSendLength, CGoto, server
  <2>2. Mine(c) \in DOMAIN conn /\ conn[Mine(c)].up = <<>>
    BY <1>0, <2>1, MineOpen DEF RequestsOK
  <2>3. Append(conn[Mine(c)].up, "length") = <<"length">> /\ <<"length">> \in Asks
    BY <2>2, AppendToNone, WayTypes
  <2>4. Becomes(Mine(c), <<"length">>, conn[Mine(c)].down, conn[Mine(c)].open) /\ accepted' = accepted
    BY <1>0, <2>1, <2>2, <2>3, WriteUp
  <2> QED BY <2>1, <2>4, PlacesClient
<1>4. ASSUME NEW c \in Clients, CSendContent(c) PROVE PlacesOK'
  <2>1. PICK part : part = [request |-> Request(typed[c]), of |-> c]
    OBVIOUS
  <2>2. /\ cpc[c] = "content" /\ cpc' = [cpc EXCEPT ![c] = "wait"] /\ UNCHANGED <<spc, skt>>
        /\ Write(Mine(c), "up", part)
    BY <1>4, <2>1 DEF CSendContent, CGoto, server
  <2>3. Mine(c) \in DOMAIN conn /\ conn[Mine(c)].up = <<"length">>
    BY <1>0, <2>2, MineOpen DEF RequestsOK
  <2>4. Append(conn[Mine(c)].up, part) = <<"length", part>>
    BY <2>3, AppendToOne
  <2>5. <<"length", part>> \in Asks /\ Len(<<"length", part>>) = 2
    BY <1>0, <2>1, TypedCommand, CommandTypes, WayTypes
  <2>6. Becomes(Mine(c), <<"length", part>>, conn[Mine(c)].down, conn[Mine(c)].open)
        /\ accepted' = accepted
    BY <1>0, <2>2, <2>3, <2>4, <2>5, WriteUp
  <2> QED BY <2>2, <2>5, <2>6, PlacesClient
<1>5. CASE UNCHANGED vars
  BY <1>5 DEF vars, sockets, server, client, PlacesOK, AsksOK, AnswersOK, Serving, Unread, Complete
<1>6. ASSUME NEW c \in Clients, ClientStep(c) \/ CKill(c) PROVE PlacesOK'
  BY <1>2, <1>3, <1>4, <1>6 DEF ClientStep, CHandle, CServerGone, CKill
<1> QED BY <1>1, <1>5, <1>6, PlacesConnect DEF Next

(* While the server runs, a client that is in a call has a step to take,   *)
(* or the server has, or the server waits for the request of another       *)
(* client that has: they never wait for each other, whoever was killed and *)
(* however many calls meet (sockets.c:69-81).                              *)
THEOREM SomebodyRuns == Spec => []NoStandstill
<1>1. Init => PlacesOK
  BY DEF Init, Listen, PlacesOK, AsksOK, AnswersOK
<1>2. LInv => NoStandstill
  <2> SUFFICES ASSUME LInv, spc # "down", NEW c \in Clients, cpc[c] # "idle",
                      ~ServerGoes, ~ClientGoes(c)
               PROVE  spc = "read" /\ skt # 0 /\ ClientGoes(conn[skt].client)
    BY DEF NoStandstill
  <2>0. /\ TypeOK /\ ConnOK /\ CallsOK /\ AsksOK /\ AnswersOK
        /\ \A d \in Clients : cpc[d] \in {"idle", "length", "content", "wait"}
        /\ spc \in {"accept", "read", "act", "length", "content", "down"}
    BY DEF LInv, IInv, PlacesOK, TypeOK
  <2>1. PICK i \in DOMAIN conn : i = Mine(c) /\ conn[i].client = c /\ conn[i].open
    BY <2>0, MineOpen
  <2>2. ~Complete(i, "down")
    BY <2>0, <2>1 DEF ClientGoes
  <2>3. CASE spc = "accept"
    <3>1. ~(accepted < Len(conn)) /\ ~Serving(i)
      BY <2>3 DEF ServerGoes, Serving
    <3>2. i <= accepted
      BY <2>0, <2>1, <3>1, Current, ConnTypes
    <3> QED BY <2>0, <2>1, <2>2, <3>1, <3>2 DEF AnswersOK
  <2>4. CASE spc = "read"
    <3>1. skt # 0 /\ conn[skt].open /\ ~Complete(skt, "up")
      BY <2>4 DEF ServerGoes
    <3>2. skt \in DOMAIN conn /\ conn[skt].client \in Clients /\ cpc[conn[skt].client] # "idle"
      BY <2>0, <3>1, Current, ConnTypes DEF CallsOK
    <3>3. cpc[conn[skt].client] # "wait"
      BY <2>0, <2>4, <3>1, <3>2 DEF AsksOK, Unread, Serving
    <3> QED BY <2>0, <2>4, <3>1, <3>2, <3>3 DEF ClientGoes
  <2> QED BY <2>0, <2>3, <2>4 DEF ServerGoes
<1> QED BY <1>1, <1>2, PlacesNext, Invariance, PTL DEF Spec, LInv
=============================================================================
