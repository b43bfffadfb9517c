------------------------------ MODULE FifoProofs ------------------------------
(***************************************************************************)
(* Theorems about the named pipe transport, for any number of clients that *)
(* run at once, when the server is stopped or a process is killed.         *)
(***************************************************************************)
EXTENDS Fifo, SequenceTheorems, TLAPS

Hd(p, c) == [part |-> "header", from |-> p, of |-> c]
Ct(p, c) == [part |-> "content", from |-> p, of |-> c]

Up      == pc[Server] # "down"
Early   == pc[Server] \in {"create", "semget", "setval"}
Sending == {"getlock", "acquire", "open", "header", "content", "release", "close"}

(* What each process has read.                                             *)
ReadOK ==
  /\ pc[Server] # "idle"
  /\ Early \/ pc[Server] \in {"inbox", "readHeader", "down"} => read[Server] = <<>>
  /\ pc[Server] = "readContent" => \E c \in Clients : read[Server] = <<Hd(c, c)>>
  /\ pc[Server] \in {"closeInbox", "act"} \cup Sending =>
       \E c \in Clients : read[Server] = <<Hd(c, c), Ct(c, c)>>
  /\ \A c \in Clients :
       /\ pc[c] \in {"idle", "inbox", "readHeader", "readContent", "closeInbox", "act"} \cup Sending
       /\ pc[c] \in {"idle", "inbox", "readHeader"} \cup Sending => read[c] = <<>>
       /\ pc[c] = "readContent" => read[c] = <<Hd(Server, c)>>
       /\ pc[c] \in {"closeInbox", "act"} => read[c] = <<Hd(Server, c), Ct(Server, c)>>

(* Who holds the semaphore of q's inbox.                                   *)
Holds(p, q) == /\ pc[p] \in {"open", "header", "content", "release"} /\ p \notin stale
               /\ Peer(p) = q

SemOK ==
  /\ \A p, q \in Processes : Holds(p, q) => /\ sem[q] = 0
                                            /\ \A r \in Processes : Holds(r, q) => r = p
  /\ Early => sem[Server] \in {NoSet, 0} /\ \A c \in Clients : pc[c] \in {"idle", "getlock", "acquire"}
  /\ pc[Server] = "create" => Server \notin fifo /\ \A c \in Clients : pc[c] = "idle"
  /\ pc[Server] \notin {"create", "down"} => Server \in fifo
  /\ Server \in stale => pc[Server] \in {"release", "down"}
  /\ Up => stale \subseteq {Server}
  /\ \A c \in gone \cap Clients : pc[c] = "idle"

Reading == {"readHeader", "readContent", "closeInbox"}

UsersOK ==
  /\ Up => \A c \in Clients : pc[c] \in {"header", "content", "release", "close"} => c \in users[Server]
  /\ pc[Server] \in Reading => Server \in users[Server]
  /\ Early => users[Server] = {}
  /\ \A c \in Clients : /\ users[c] \subseteq {Server, c}
                        /\ c \in users[c] <=> pc[c] \in Reading
                        /\ ~Up => Server \notin users[c]
  /\ \A c \in Clients \ gone :
       pc[Server] \in {"header", "content"} /\ Peer(Server) = c => Server \in users[c]
  /\ \A q \in Processes : users[q] = {} => data[q] = <<>>

(* The server's inbox holds whole requests, and at most one that is not    *)
(* finished, by the client that holds the semaphore.                       *)
Last(s)    == s[Len(s)]
Unfinished == IF data[Server] = <<>> THEN pc[Server] = "readContent"
                                     ELSE Last(data[Server]).part = "header"
Pending(c) == IF data[Server] = <<>> THEN read[Server] = <<Hd(c, c)>>
                                     ELSE Last(data[Server]) = Hd(c, c)

Stream(s) ==
  /\ \A i \in DOMAIN s : \E c \in Clients : s[i] \in {Hd(c, c), Ct(c, c)}
  /\ \A i \in DOMAIN s : i # 1 => IF s[i].part = "header" THEN s[i - 1].part = "content"
                                  ELSE s[i - 1] = Hd(s[i].of, s[i].of)
StreamOK ==
  Up => /\ Stream(data[Server])
        /\ data[Server] # <<>> =>
             IF pc[Server] = "readContent" THEN \E c \in Clients : /\ read[Server] = <<Hd(c, c)>>
                                                                   /\ data[Server][1] = Ct(c, c)
                                           ELSE data[Server][1].part = "header"
        /\ Unfinished => sem[Server] = 0 /\ \A c \in Clients : Holds(c, Server) => pc[c] = "content"
        /\ \A c \in Clients : pc[c] = "content" => Unfinished /\ Pending(c)

(* Where the request of a client is.                                       *)
Queued(c)  == \E i \in DOMAIN data[Server] : data[Server][i] = Hd(c, c)
Serving(c) == /\ pc[Server] \in {"readContent", "closeInbox", "act"}
                               \cup {"getlock", "acquire", "open", "header", "content"}
              /\ read[Server][1].from = c
Begun(c)   == data[c] # <<>> \/ pc[c] \in {"readContent", "closeInbox", "act"}

RequestOK ==
  Up => \A c \in Clients \ gone :
    /\ pc[c] \in {"idle", "getlock", "acquire", "open", "header"} => ~Queued(c) /\ ~Serving(c)
    /\ \A i, j \in DOMAIN data[Server] :
         data[Server][i] = Hd(c, c) /\ data[Server][j] = Hd(c, c) => i = j
    /\ Serving(c) => ~Queued(c)
    /\ Begun(c) => ~Queued(c) /\ (Serving(c) => pc[Server] = "content")
    /\ pc[c] \in {"closeInbox", "act"} => ~Serving(c)
    /\ pc[Server] = "release" /\ Server \notin stale /\ Peer(Server) = c => pc[c] # "idle"

(* What is in the inbox of a client.                                       *)
Halfway(c) == pc[Server] = "content" /\ Peer(Server) = c

InboxOK ==
  \A c \in Clients \ gone :
    /\ pc[c] \in {"idle", "getlock", "acquire", "open", "header"} => data[c] = <<>>
    /\ IF pc[c] = "readContent" THEN data[c] \in {<<>>, <<Ct(Server, c)>>}
       ELSE data[c] \in {<<>>, <<Hd(Server, c)>>, <<Hd(Server, c), Ct(Server, c)>>}
    /\ Up /\ Halfway(c) => data[c] = IF pc[c] = "readContent" THEN <<>> ELSE <<Hd(Server, c)>>
    /\ Up /\ ~Halfway(c) => IF pc[c] = "readContent" THEN data[c] = <<Ct(Server, c)>>
                            ELSE data[c] # <<Hd(Server, c)>>

StageOK ==
  \A c \in Clients :
    /\ stage[c] = "idle" <=> pc[c] = "idle"
    /\ c \notin gone /\ Begun(c) => stage[c] = "served"
    /\ c \notin gone /\ Serving(c) /\ pc[Server] \in {"getlock", "acquire", "open", "header", "content"}
         => stage[c] = "served"

(* Nobody has acted on a request that the server has still to act on.      *)
ToAct == {"readContent", "closeInbox", "act"}

AskedOK ==
  Up => \A c \in Clients \ gone :
    /\ pc[c] \in {"getlock", "acquire", "open", "header"} => stage[c] = "asked"
    /\ Queued(c) => stage[c] = "asked"
    /\ pc[Server] \in ToAct /\ Serving(c) => stage[c] = "asked"

IInv == /\ TypeOK /\ ReadOK /\ SemOK /\ UsersOK /\ StreamOK /\ RequestOK /\ InboxOK /\ StageOK
FInv == IInv /\ AskedOK
-----------------------------------------------------------------------------
LEMMA Parts ==
  /\ \A p \in Processes, c \in Clients : Hd(p, c) \in Part /\ Ct(p, c) \in Part
  /\ \A c \in Clients : c # Server /\ c \in Processes
  /\ Server \in Processes
BY FifoAssumption DEF Part, Hd, Ct, Processes

(* Messages of two parts, and inboxes of at most two.                      *)
LEMMA Sequences2 ==
  ASSUME NEW x, NEW y
  PROVE  /\ Len(<<x>>) = 1 /\ <<x>>[1] = x /\ DOMAIN <<x>> = {1} /\ <<x>> # <<>>
         /\ Len(<<x, y>>) = 2 /\ <<x, y>>[1] = x /\ <<x, y>>[2] = y /\ <<x, y>> # <<>>
         /\ Head(<<x>>) = x /\ Tail(<<x>>) = <<>> /\ Head(<<x, y>>) = x /\ Tail(<<x, y>>) = <<y>>
         /\ Append(<<>>, x) = <<x>> /\ Append(<<x>>, y) = <<x, y>>
         /\ <<x>> # <<x, y>> /\ Len(<<>>) = 0 /\ DOMAIN <<>> = {}
<1>1. /\ Len(<<x>>) = 1 /\ <<x>>[1] = x /\ Len(<<>>) = 0
      /\ Len(<<x, y>>) = 2 /\ <<x, y>>[1] = x /\ <<x, y>>[2] = y
  OBVIOUS
<1>2. DOMAIN <<x>> = {1} /\ DOMAIN <<>> = {} /\ <<x>> # <<>> /\ <<x, y>> # <<>> /\ <<x>> # <<x, y>>
  BY <1>1
<1>3. Head(<<x>>) = x /\ Tail(<<x>>) = <<>> /\ Head(<<x, y>>) = x /\ Tail(<<x, y>>) = <<y>>
  OBVIOUS
<1>4. Append(<<>>, x) = <<x>> /\ Append(<<x>>, y) = <<x, y>>
  <2>1. <<>> \in Seq({x, y}) /\ <<x>> \in Seq({x, y}) /\ <<x, y>> \in Seq({x, y})
    OBVIOUS
  <2>2. /\ Append(<<>>, x) \in Seq({x, y}) /\ Append(<<x>>, y) \in Seq({x, y})
        /\ Len(Append(<<>>, x)) = 1 /\ Append(<<>>, x)[1] = x
        /\ Len(Append(<<x>>, y)) = 2 /\ Append(<<x>>, y)[1] = x /\ Append(<<x>>, y)[2] = y
    BY <1>1, <2>1, AppendProperties
  <2>3. \A s, t \in Seq({x, y}) : Len(s) = Len(t) /\ (\A i \in 1 .. Len(s) : s[i] = t[i]) => s = t
    BY SeqEqual
  <2>4. Append(<<>>, x) = <<x>>
    BY <1>1, <2>1, <2>2, <2>3
  <2>5. \A i \in 1 .. 2 : i = 1 \/ i = 2
    OBVIOUS
  <2>6. Append(<<x>>, y) = <<x, y>>
    BY <1>1, <2>1, <2>2, <2>3, <2>5
  <2> QED BY <2>4, <2>6
<1> QED BY <1>1, <1>2, <1>3, <1>4

LEMMA PartFields ==
  ASSUME NEW p, NEW c, NEW d
  PROVE  /\ Hd(p, c).part = "header" /\ Hd(p, c).from = p /\ Hd(p, c).of = c
         /\ Ct(p, c).part = "content" /\ Ct(p, c).from = p /\ Ct(p, c).of = c
         /\ Hd(p, c) # Ct(p, d)
         /\ (Hd(p, c) = Hd(p, d) => c = d) /\ (Ct(p, c) = Ct(p, d) => c = d)
BY DEF Hd, Ct

LEMMA Replies ==
  ASSUME NEW p, NEW c
  PROVE  /\ Head(<<Hd(p, c)>>) = Hd(p, c) /\ Tail(<<Hd(p, c)>>) = <<>>
         /\ Head(<<Ct(p, c)>>) = Ct(p, c) /\ Tail(<<Ct(p, c)>>) = <<>>
         /\ Head(<<Hd(p, c), Ct(p, c)>>) = Hd(p, c) /\ Tail(<<Hd(p, c), Ct(p, c)>>) = <<Ct(p, c)>>
         /\ Append(<<>>, Hd(p, c)) = <<Hd(p, c)>> /\ Append(<<Hd(p, c)>>, Ct(p, c)) = <<Hd(p, c), Ct(p, c)>>
         /\ <<Hd(p, c)>> # <<>> /\ <<Ct(p, c)>> # <<>> /\ <<Hd(p, c), Ct(p, c)>> # <<>>
         /\ <<Hd(p, c)>> # <<Hd(p, c), Ct(p, c)>> /\ <<Hd(p, c)>> # <<Ct(p, c)>>
<1>1. \A x, y : /\ Head(<<x>>) = x /\ Tail(<<x>>) = <<>> /\ Head(<<x, y>>) = x /\ Tail(<<x, y>>) = <<y>>
               /\ Append(<<>>, x) = <<x>> /\ Append(<<x>>, y) = <<x, y>>
               /\ <<x>> # <<>> /\ <<x, y>> # <<>> /\ <<x>> # <<x, y>>
  <2> TAKE x, y
  <2> QED BY Sequences2
<1>2. Hd(p, c) # Ct(p, c)
  BY PartFields
<1>3. <<Hd(p, c)>> # <<Ct(p, c)>>
  BY <1>2
<1> QED BY <1>1, <1>3

LEMMA Requests ==
  \A c, d \in Clients :
    /\ Hd(c, c) # Ct(d, d) /\ (Hd(c, c) = Hd(d, d) => c = d) /\ (Ct(c, c) = Ct(d, d) => c = d)
    /\ Hd(c, c).part = "header" /\ Hd(c, c).part # "content" /\ Hd(c, c).of = c
    /\ Ct(c, c).part = "content" /\ Ct(c, c).part # "header" /\ Ct(c, c).of = c
BY DEF Hd, Ct

LEMMA InvInit == Init => IInv
<1> SUFFICES ASSUME Init PROVE IInv
  OBVIOUS
<1> USE DEF Init
<1>1. TypeOK
  BY DEF TypeOK, Labels
<1>2. pc[Server] = "create" /\ \A c \in Clients : pc[c] = "idle"
  BY Parts
<1>3. ReadOK
  BY <1>2, Parts DEF ReadOK, Sending, Early
<1>4. SemOK
  BY <1>2, Parts DEF SemOK, Holds, Early, Up, NoSet, Processes
<1>5. UsersOK
  BY <1>2, Parts DEF UsersOK, Early, Reading, Up
<1>6. data[Server] = <<>> /\ DOMAIN data[Server] = {} /\ \A c \in Clients : data[c] = <<>>
  BY Parts
<1>7. StreamOK
  BY <1>2, <1>6 DEF StreamOK, Stream, Unfinished
<1>8. RequestOK
  BY <1>2, <1>6 DEF RequestOK, Queued, Serving, Begun
<1>9. InboxOK
  <2> SUFFICES ASSUME NEW c \in Clients PROVE data[c] = <<>> /\ ~Halfway(c) /\ pc[c] = "idle" /\ <<>> # <<Hd(Server, c)>>
    BY DEF InboxOK
  <2> QED BY <1>2, <1>6, Sequences2 DEF Halfway
<1>10. StageOK
  BY <1>2, <1>6 DEF StageOK, Begun, Serving
<1> QED BY <1>1, <1>3, <1>4, <1>5, <1>7, <1>8, <1>9, <1>10 DEF IInv

LEMMA TypeInv == IInv => TypeOK
BY DEF IInv

(* Whom each process writes to.                                            *)
LEMMA Peers ==
  ASSUME IInv
  PROVE  /\ \A c \in Clients : Peer(c) = Server /\ Subject(c) = c
         /\ pc[Server] \in {"closeInbox", "act"} \cup Sending =>
              /\ Peer(Server) \in Clients /\ Subject(Server) = Peer(Server)
              /\ read[Server] = <<Hd(Peer(Server), Peer(Server)), Ct(Peer(Server), Peer(Server))>>
         /\ \A p \in Processes : pc[p] \in Sending => Peer(p) \in Processes /\ Subject(p) \in Clients
<1>1. \A c \in Clients : Peer(c) = Server /\ Subject(c) = c
  BY Parts DEF Peer, Subject
<1>2. ASSUME pc[Server] \in {"closeInbox", "act"} \cup Sending
      PROVE  /\ Peer(Server) \in Clients /\ Subject(Server) = Peer(Server)
             /\ read[Server] = <<Hd(Peer(Server), Peer(Server)), Ct(Peer(Server), Peer(Server))>>
  <2>1. PICK d \in Clients : read[Server] = <<Hd(d, d), Ct(d, d)>>
    BY <1>2 DEF IInv, ReadOK
  <2>2. Peer(Server) = d /\ Subject(Server) = d
    BY <2>1, Sequences2, PartFields DEF Peer, Subject
  <2> QED BY <2>1, <2>2
<1> QED BY <1>1, <1>2, Parts DEF Processes

(* The server acts for a client whose call nobody has acted on, or for one *)
(* that was killed.                                                        *)
LEMMA ServesAsked ==
  ASSUME IInv, AskedOK, Serve
  PROVE  /\ Peer(Server) \in Clients
         /\ Peer(Server) \in gone => stage[Peer(Server)] = "idle" /\ stage' = stage
         /\ Peer(Server) \notin gone =>
              stage[Peer(Server)] = "asked" /\ stage' = [stage EXCEPT ![Peer(Server)] = "served"]
<1>1. /\ pc[Server] = "act" /\ Peer(Server) \in Clients
      /\ stage' = [stage EXCEPT ![Peer(Server)] = Acted(Peer(Server))]
      /\ stage \in [Clients -> {"idle", "asked", "served"}]
  BY Peers DEF Serve, Goto, IInv, TypeOK
<1>2. ASSUME Peer(Server) \in gone PROVE stage[Peer(Server)] = "idle"
  BY <1>1, <1>2 DEF IInv, StageOK, SemOK
<1>3. ASSUME Peer(Server) \notin gone PROVE stage[Peer(Server)] = "asked"
  <2>1. Up /\ Serving(Peer(Server))
    BY <1>1, Peers, Sequences2, PartFields DEF Up, Serving, Peer
  <2> QED BY <1>1, <1>3, <2>1 DEF AskedOK, ToAct
<1> QED BY <1>1, <1>2, <1>3 DEF Acted
-----------------------------------------------------------------------------
LEMMA UsedTypes ==
  ASSUME NEW byNow \in [Processes -> SUBSET Processes], Used(byNow), TypeOK
  PROVE  /\ users' \in [Processes -> SUBSET Processes] /\ data' \in [Processes -> Seq(Part)]
         /\ lost' \subseteq Clients
BY DEF Used, TypeOK

LEMMA RemoveTypes ==
  ASSUME NEW p \in Processes, Remove(p), TypeOK
  PROVE  sem' \in [Processes -> {NoSet, 0, 1}] /\ stale' \subseteq Processes /\ fifo' \subseteq Processes
BY DEF Remove, Handles, TypeOK

(* A message that has been freed.                                          *)
LEMMA Freed ==
  ASSUME TypeOK, NEW p \in Processes
  PROVE  [read EXCEPT ![p] = <<>>] \in [Processes -> Seq(Part)]
<1>1. <<>> \in Seq(Part)
  OBVIOUS
<1> QED BY <1>1 DEF TypeOK

LEMMA TypeNext == FInv /\ [Next]_vars => TypeOK'
<1> SUFFICES ASSUME IInv, AskedOK, [Next]_vars PROVE TypeOK'
  BY DEF FInv
<1> USE DEF Goto, pipes, locks, history, Labels, TypeOK
<1>1. TypeOK
  BY DEF IInv
<1>2. \A p \in Processes : pc[p] \in Sending => Peer(p) \in Processes /\ Subject(p) \in Clients
  BY Peers
<1>3. \A p \in Processes : {"getlock", "acquire", "open", "header", "content", "release", "close"} \subseteq Sending
  BY DEF Sending
<1>4. ASSUME NEW p \in Processes, Step(p) \/ Acquire(p) \/ Kill(p) PROVE TypeOK'
  <2>1. CASE Getlock(p)
    BY <1>1, <1>2, <1>3, <2>1 DEF Getlock, NoSet
  <2>2. CASE Acquire(p)
    BY <1>1, <1>2, <1>3, <2>2 DEF Acquire, NoSet
  <2>3. CASE Open(p)
    BY <1>1, <1>2, <1>3, <2>3 DEF Open
  <2>4. CASE WriteHeader(p) \/ WriteContent(p)
    <3>1. /\ pc[p] \in Sending /\ pc' \in [Processes -> Labels]
          /\ UNCHANGED <<fifo, users, lost, sem, stale, read, gone, stage, got>>
      BY <1>1, <2>4 DEF WriteHeader, WriteContent, Write, Sending
    <3>2. PICK x \in Part : data' = IF p \in users[Peer(p)] THEN [data EXCEPT ![Peer(p)] = Append(@, x)] ELSE data
      BY <1>2, <2>4, <3>1 DEF WriteHeader, WriteContent, Write, Part
    <3>3. data' \in [Processes -> Seq(Part)]
      BY <1>1, <1>2, <3>1, <3>2
    <3> QED BY <1>1, <3>1, <3>3
  <2>5. CASE Release(p)
    <3>1. sem[Peer(p)] = 0
      BY <1>2, <1>3, <2>5 DEF Release, IInv, SemOK, Holds
    <3> QED BY <1>1, <1>2, <1>3, <2>5, <3>1 DEF Release, NoSet
  <2>6. CASE Close(p)
    <3>1. Peer(p) \in Processes
      BY <1>2, <1>3, <2>6 DEF Close
    <3>2. [users EXCEPT ![Peer(p)] = @ \ {p}] \in [Processes -> SUBSET Processes]
      BY <1>1, <3>1
    <3> QED BY <1>1, <2>6, <3>2, UsedTypes, Freed DEF Close, CloseOne
  <2>7. CASE OpenInbox(p)
    BY <1>1, <2>7 DEF OpenInbox
  <2>8. CASE ReadHeader(p) \/ ReadContent(p)
    <3>1. /\ data[p] \in Seq(Part) /\ data[p] # <<>>
          /\ read' = [read EXCEPT ![p] = Append(@, Head(data[p]))]
          /\ data' = [data EXCEPT ![p] = Tail(@)]
          /\ UNCHANGED <<fifo, users, lost, sem, stale, gone, stage, got>>
          /\ pc' \in [Processes -> Labels]
      BY <1>1, <2>8 DEF ReadHeader, ReadContent, Read
    <3>2. Head(data[p]) \in Part /\ Tail(data[p]) \in Seq(Part)
      BY <3>1, HeadTailProperties
    <3>3. Append(read[p], Head(data[p])) \in Seq(Part)
      BY <1>1, <3>2, AppendProperties
    <3> QED BY <1>1, <3>1, <3>2, <3>3
  <2>9. CASE CloseInbox(p)
    <3>1. [users EXCEPT ![p] = @ \ {p}] \in [Processes -> SUBSET Processes]
      BY <1>1
    <3> QED BY <1>1, <2>9, <3>1, UsedTypes DEF CloseInbox, CloseOne
  <2>10. CASE Fail(p) \/ Kill(p)
    <3>1. Exit(p) /\ gone' \subseteq Processes
      BY <1>1, <2>10 DEF Fail, Kill
    <3>2. [q \in Processes |-> users[q] \ {p}] \in [Processes -> SUBSET Processes]
      BY <1>1
    <3>3. users' \in [Processes -> SUBSET Processes] /\ data' \in [Processes -> Seq(Part)] /\ lost' \subseteq Clients
      BY <1>1, <3>1, <3>2, UsedTypes DEF Exit, CloseAll
    <3> QED BY <1>1, <3>1, <3>3, Freed DEF Exit
  <2> QED BY <1>4, <2>1, <2>2, <2>3, <2>4, <2>5, <2>6, <2>7, <2>8, <2>9, <2>10 DEF Step
<1>5. CASE ServerStep
  <2>1. CASE Mkfifo \/ Semget \/ Setval
    <3>1. CASE Mkfifo
      BY <1>1, <3>1, Parts DEF Mkfifo
    <3>2. CASE Semget
      BY <1>1, <3>2, Parts DEF Semget, NoSet
    <3>3. CASE Setval
      BY <1>1, <3>3, Parts DEF Setval
    <3> QED BY <2>1, <3>1, <3>2, <3>3
  <2>2. CASE Serve
    BY <1>1, <2>2, Parts, ServesAsked DEF Serve
  <2> QED BY <1>5, <2>1, <2>2 DEF ServerStep
<1>6. CASE Stop
  <2>1. [q \in Processes |-> IF q = Server THEN {} ELSE users[q] \ {Server}] \in [Processes -> SUBSET Processes]
    BY <1>1
  <2>2. users' \in [Processes -> SUBSET Processes] /\ data' \in [Processes -> Seq(Part)] /\ lost' \subseteq Clients
    BY <1>1, <1>6, <2>1, UsedTypes DEF Stop
  <2>3. sem' \in [Processes -> {NoSet, 0, 1}] /\ stale' \subseteq Processes /\ fifo' \subseteq Processes
    BY <1>1, <1>6, RemoveTypes, Parts DEF Stop
  <2> QED BY <1>1, <1>6, <2>2, <2>3, Freed, Parts DEF Stop
<1>7. ASSUME NEW c \in Clients, Connect(c) PROVE TypeOK'
  BY <1>1, <1>7, Parts DEF Connect
<1>8. ASSUME NEW c \in Clients, Handle(c) PROVE TypeOK'
  <2>1. [users EXCEPT ![c] = {}] \in [Processes -> SUBSET Processes]
    BY <1>1
  <2>2. users' \in [Processes -> SUBSET Processes] /\ data' \in [Processes -> Seq(Part)] /\ lost' \subseteq Clients
    BY <1>1, <1>8, <2>1, UsedTypes DEF Handle
  <2>3. sem' \in [Processes -> {NoSet, 0, 1}] /\ stale' \subseteq Processes /\ fifo' \subseteq Processes
    BY <1>1, <1>8, RemoveTypes, Parts DEF Handle
  <2>4. read[c] = <<Hd(Server, c), Ct(Server, c)>>
    BY <1>8 DEF IInv, ReadOK, Handle
  <2>5. read[c][2].of = c
    BY <2>4, Sequences2, PartFields
  <2>6. read' \in [Processes -> Seq(Part)]
    BY <1>1, <1>8, Freed, Parts DEF Handle
  <2> QED BY <1>1, <1>8, <2>2, <2>3, <2>5, <2>6, Parts DEF Handle
<1>9. CASE UNCHANGED vars
  BY <1>1, <1>9 DEF vars
<1> QED BY <1>4, <1>5, <1>6, <1>7, <1>8, <1>9 DEF Next
-----------------------------------------------------------------------------
(* A client sends its request.                                             *)
LEMMA GetlockClient ==
  ASSUME IInv, NEW c \in Clients, Getlock(c), TypeOK'
  PROVE  IInv'
<1>0. TypeOK /\ ReadOK /\ SemOK /\ UsersOK /\ StreamOK /\ RequestOK /\ InboxOK /\ StageOK
  BY DEF IInv
<1>1. /\ pc[c] = "getlock" /\ pc' = [pc EXCEPT ![c] = "acquire"]
      /\ sem' = [sem EXCEPT ![Server] = IF @ = NoSet THEN 0 ELSE @] /\ stale' = stale \ {c}
      /\ UNCHANGED <<fifo, data, users, lost, read, gone, stage, got>>
      /\ c # Server /\ c \in Processes /\ Server \in Processes
  BY Peers, Parts DEF Getlock, Goto, pipes, locks, history
<1>2. pc[Server] # "create" /\ sem[Server] # 1 => sem'[Server] = 0
  BY <1>0, <1>1 DEF SemOK, TypeOK, NoSet
<1> USE <1>1, <1>2
<1>3. ReadOK'
  BY <1>0, Parts DEF ReadOK, TypeOK, Early, Sending
<1>4. SemOK'
  BY <1>0, Parts DEF SemOK, TypeOK, Holds, Peer, Up, Early, NoSet
<1>5. UsersOK'
  BY <1>0, Parts DEF UsersOK, TypeOK, Early, Reading, Up, Peer
<1>6. StreamOK'
  BY <1>0, Parts DEF StreamOK, TypeOK, Unfinished, Pending, Holds, Up, Stream, Peer
<1>7. RequestOK'
  BY <1>0, Parts DEF RequestOK, TypeOK, Queued, Serving, Begun, Up, Peer
<1>8. InboxOK'
  BY <1>0, Parts DEF InboxOK, TypeOK, Halfway, Up, Peer
<1>9. StageOK'
  BY <1>0, Parts DEF StageOK, TypeOK, Begun, Serving
<1> QED BY <1>3, <1>4, <1>5, <1>6, <1>7, <1>8, <1>9 DEF IInv

LEMMA AcquireClient ==
  ASSUME IInv, NEW c \in Clients, Acquire(c), TypeOK'
  PROVE  IInv'
<1>0. TypeOK /\ ReadOK /\ SemOK /\ UsersOK /\ StreamOK /\ RequestOK /\ InboxOK /\ StageOK
  BY DEF IInv
<1>1. /\ pc[c] = "acquire" /\ pc' = [pc EXCEPT ![c] = "open"] /\ c \notin stale
      /\ sem[Server] > 0 /\ sem' = [sem EXCEPT ![Server] = @ - 1]
      /\ UNCHANGED <<stale, fifo, data, users, lost, read, gone, stage, got>>
      /\ c # Server /\ c \in Processes /\ Server \in Processes
  BY Peers, Parts DEF Acquire, Goto, pipes, locks, history
<1>2. sem[Server] = 1 /\ sem'[Server] = 0 /\ ~Early /\ \A p \in Processes : ~Holds(p, Server)
  BY <1>0, <1>1 DEF SemOK, TypeOK, NoSet
<1> USE <1>1, <1>2
<1>3. ReadOK'
  BY <1>0, Parts DEF ReadOK, TypeOK, Early, Sending
<1>4. SemOK'
  <2>1. \A p, q \in Processes : Holds(p, q)' => (Holds(p, q) /\ q # Server) \/ (p = c /\ q = Server)
    BY <1>0, <1>2 DEF TypeOK, Holds, Peer
  <2>2. \A p, q \in Processes : Holds(p, q)' => /\ sem'[q] = 0
                                                /\ \A r \in Processes : Holds(r, q)' => r = p
    BY <1>0, <2>1 DEF SemOK, TypeOK
  <2> QED BY <1>0, <2>2, Parts DEF SemOK, TypeOK, Up, Early, NoSet
<1>5. UsersOK'
  BY <1>0, Parts DEF UsersOK, TypeOK, Early, Reading, Up, Peer
<1>6. StreamOK'
  BY <1>0, Parts DEF StreamOK, TypeOK, Unfinished, Pending, Holds, Up, Stream, Peer
<1>7. RequestOK'
  BY <1>0, Parts DEF RequestOK, TypeOK, Queued, Serving, Begun, Up, Peer
<1>8. InboxOK'
  BY <1>0, Parts DEF InboxOK, TypeOK, Halfway, Up, Peer
<1>9. StageOK'
  BY <1>0, Parts DEF StageOK, TypeOK, Begun, Serving
<1> QED BY <1>3, <1>4, <1>5, <1>6, <1>7, <1>8, <1>9 DEF IInv

LEMMA OpenClient ==
  ASSUME IInv, NEW c \in Clients, Open(c), TypeOK'
  PROVE  IInv'
<1>0. TypeOK /\ ReadOK /\ SemOK /\ UsersOK /\ StreamOK /\ RequestOK /\ InboxOK /\ StageOK
  BY DEF IInv
<1>1. /\ pc[c] = "open" /\ pc' = [pc EXCEPT ![c] = "header"]
      /\ users' = [users EXCEPT ![Server] = @ \cup {c}]
      /\ UNCHANGED <<sem, stale, fifo, data, lost, read, gone, stage, got>>
      /\ c # Server /\ c \in Processes /\ Server \in Processes
  BY Peers, Parts DEF Open, Goto, pipes, locks, history
<1>2. ~Early /\ pc'[Server] = pc[Server]
  <2>1. pc'[Server] = pc[Server]
    BY <1>0, <1>1 DEF TypeOK
  <2>2. ~Early
    BY <1>0, <1>1 DEF SemOK
  <2> QED BY <2>1, <2>2
<1> USE <1>1, <1>2
<1>3. ReadOK'
  BY <1>0, Parts DEF ReadOK, TypeOK, Early, Sending
<1>4. SemOK'
  BY <1>0, Parts DEF SemOK, TypeOK, Holds, Peer, Up, Early, NoSet
<1>5. UsersOK'
  BY <1>0, Parts DEF UsersOK, TypeOK, Early, Reading, Up, Peer
<1>6. StreamOK'
  <2>1. /\ Unfinished' <=> Unfinished
        /\ \A d \in Clients : Pending(d)' <=> Pending(d)
    BY DEF Unfinished, Pending
  <2>2. \A d \in Clients : d # c => pc'[d] = pc[d]
    BY <1>0 DEF TypeOK
  <2>3. pc'[c] = "header" /\ (Up /\ Holds(c, Server) => ~Unfinished)
    BY <1>0 DEF StreamOK, TypeOK
  <2>4. \A d \in Clients : Holds(d, Server)' <=> Holds(d, Server)
    BY <1>0, <2>2, Parts DEF TypeOK, Holds, Peer
  <2> QED BY <1>0, <2>1, <2>2, <2>3, <2>4, Parts DEF StreamOK, Up
<1>7. RequestOK'
  BY <1>0, Parts DEF RequestOK, TypeOK, Queued, Serving, Begun, Up, Peer
<1>8. InboxOK'
  BY <1>0, Parts DEF InboxOK, TypeOK, Halfway, Up, Peer
<1>9. StageOK'
  BY <1>0, Parts DEF StageOK, TypeOK, Begun, Serving
<1> QED BY <1>3, <1>4, <1>5, <1>6, <1>7, <1>8, <1>9 DEF IInv

LEMMA ReleaseClient ==
  ASSUME IInv, NEW c \in Clients, Release(c), TypeOK'
  PROVE  IInv'
<1>0. TypeOK /\ ReadOK /\ SemOK /\ UsersOK /\ StreamOK /\ RequestOK /\ InboxOK /\ StageOK
  BY DEF IInv
<1>1. /\ pc[c] = "release" /\ pc' = [pc EXCEPT ![c] = "close"] /\ c \notin stale
      /\ sem' = [sem EXCEPT ![Server] = @ + 1]
      /\ UNCHANGED <<stale, fifo, data, users, lost, read, gone, stage, got>>
      /\ c # Server /\ c \in Processes /\ Server \in Processes
  BY Peers, Parts DEF Release, Goto, pipes, locks, history
<1>a. Holds(c, Server)
  BY <1>1 DEF Holds, Peer
<1>b. sem[Server] = 0 /\ ~Early
  BY <1>0, <1>1, <1>a DEF SemOK
<1>c. Up => ~Unfinished
  BY <1>0, <1>1, <1>a DEF StreamOK
<1>2. sem[Server] = 0 /\ sem'[Server] = 1 /\ ~Early /\ (Up => ~Unfinished)
  BY <1>0, <1>1, <1>b, <1>c DEF TypeOK
<1> USE <1>1, <1>2
<1>3. ReadOK'
  BY <1>0, Parts DEF ReadOK, TypeOK, Early, Sending
<1>4. SemOK'
  BY <1>0, Parts DEF SemOK, TypeOK, Holds, Peer, Up, Early, NoSet
<1>5. UsersOK'
  BY <1>0, Parts DEF UsersOK, TypeOK, Early, Reading, Up, Peer
<1>6. StreamOK'
  BY <1>0, Parts DEF StreamOK, TypeOK, Unfinished, Pending, Holds, Up, Stream, Peer
<1>7. RequestOK'
  BY <1>0, Parts DEF RequestOK, TypeOK, Queued, Serving, Begun, Up, Peer
<1>8. InboxOK'
  BY <1>0, Parts DEF InboxOK, TypeOK, Halfway, Up, Peer
<1>9. StageOK'
  BY <1>0, Parts DEF StageOK, TypeOK, Begun, Serving
<1> QED BY <1>3, <1>4, <1>5, <1>6, <1>7, <1>8, <1>9 DEF IInv

LEMMA OpenInboxClient ==
  ASSUME IInv, NEW c \in Clients, OpenInbox(c), TypeOK'
  PROVE  IInv'
<1>0. TypeOK /\ ReadOK /\ SemOK /\ UsersOK /\ StreamOK /\ RequestOK /\ InboxOK /\ StageOK
  BY DEF IInv
<1>1. /\ pc[c] = "inbox" /\ pc' = [pc EXCEPT ![c] = "readHeader"]
      /\ users' = [users EXCEPT ![c] = @ \cup {c}]
      /\ UNCHANGED <<sem, stale, fifo, data, lost, read, gone, stage, got>>
      /\ c # Server /\ c \in Processes /\ Server \in Processes
  BY Peers, Parts DEF OpenInbox, Goto, pipes, locks, history
<1> USE <1>1
<1>3. ReadOK'
  BY <1>0, Parts DEF ReadOK, TypeOK, Early, Sending
<1>4. SemOK'
  BY <1>0, Parts DEF SemOK, TypeOK, Holds, Peer, Up, Early, NoSet
<1>5. UsersOK'
  BY <1>0, Parts DEF UsersOK, TypeOK, Early, Reading, Up, Peer
<1>6. StreamOK'
  BY <1>0, Parts DEF StreamOK, TypeOK, Unfinished, Pending, Holds, Up, Stream, Peer
<1>7. RequestOK'
  BY <1>0, Parts DEF RequestOK, TypeOK, Queued, Serving, Begun, Up, Peer
<1>8. InboxOK'
  BY <1>0, Parts DEF InboxOK, TypeOK, Halfway, Up, Peer
<1>9. StageOK'
  BY <1>0, Parts DEF StageOK, TypeOK, Begun, Serving
<1> QED BY <1>3, <1>4, <1>5, <1>6, <1>7, <1>8, <1>9 DEF IInv

-----------------------------------------------------------------------------
(* What a write adds to a stream of parts, and what a read takes from it.  *)
LEMMA Appended ==
  ASSUME NEW s \in Seq(Part), NEW x \in Part
  PROVE  /\ Append(s, x) # <<>> /\ DOMAIN s = 1 .. Len(s) /\ Len(s) \in Nat
         /\ DOMAIN Append(s, x) = 1 .. (Len(s) + 1) /\ Len(Append(s, x)) = Len(s) + 1
         /\ \A i \in DOMAIN s : i \in DOMAIN Append(s, x) /\ i # Len(s) + 1 /\ Append(s, x)[i] = s[i]
         /\ \A i \in DOMAIN Append(s, x) : i \in DOMAIN s \/ i = Len(s) + 1
         /\ Append(s, x)[Len(s) + 1] = x /\ Last(Append(s, x)) = x
         /\ s # <<>> => Append(s, x)[1] = s[1]
         /\ s = <<>> => Append(s, x)[1] = x
<1>1. DOMAIN s = 1 .. Len(s) /\ Len(s) \in Nat
  OBVIOUS
<1>2. /\ Append(s, x) \in Seq(Part) /\ Append(s, x) # <<>> /\ Len(Append(s, x)) = Len(s) + 1
      /\ \A i \in 1 .. Len(s) : Append(s, x)[i] = s[i]
      /\ Append(s, x)[Len(s) + 1] = x
  BY AppendProperties
<1>3. DOMAIN Append(s, x) = 1 .. (Len(s) + 1)
  BY <1>2
<1>4. s # <<>> => 1 \in 1 .. Len(s)
  BY <1>1, EmptySeq
<1>5. s = <<>> => Len(s) + 1 = 1
  OBVIOUS
<1> QED BY <1>1, <1>2, <1>3, <1>4, <1>5 DEF Last

LEMMA Taken ==
  ASSUME NEW s \in Seq(Part), s # <<>>
  PROVE  /\ Head(s) = s[1] /\ DOMAIN s = 1 .. Len(s) /\ Len(s) \in Nat \ {0} /\ 1 \in DOMAIN s
         /\ DOMAIN Tail(s) = 1 .. (Len(s) - 1) /\ Len(Tail(s)) = Len(s) - 1
         /\ \A i \in DOMAIN Tail(s) : i + 1 \in DOMAIN s /\ i + 1 # 1 /\ Tail(s)[i] = s[i + 1]
         /\ Tail(s) = <<>> => Last(s) = s[1]
         /\ Tail(s) # <<>> => Last(Tail(s)) = Last(s) /\ Tail(s)[1] = s[2] /\ 2 \in DOMAIN s
<1>1. Len(s) \in Nat \ {0} /\ DOMAIN s = 1 .. Len(s) /\ Head(s) = s[1]
  BY EmptySeq
<1>2. /\ Tail(s) \in Seq(Part) /\ Len(Tail(s)) = Len(s) - 1
      /\ \A i \in 1 .. Len(Tail(s)) : Tail(s)[i] = s[i + 1]
  BY HeadTailProperties
<1>3. DOMAIN Tail(s) = 1 .. (Len(s) - 1)
  BY <1>2
<1>4. Tail(s) = <<>> => Len(s) = 1
  <2>1. Len(<<>>) = 0
    OBVIOUS
  <2> DEFINE t == Tail(s)
  <2>2. t = <<>> => Len(t) = 0
    BY <2>1
  <2> QED BY <1>1, <1>2, <2>2
<1>5. Tail(s) # <<>> => Len(s) - 1 \in 1 .. (Len(s) - 1) /\ 1 \in 1 .. (Len(s) - 1) /\ 2 \in DOMAIN s
  BY <1>1, <1>2, EmptySeq
<1>6. Tail(s) # <<>> => Last(Tail(s)) = Last(s) /\ Tail(s)[1] = s[2]
  <2> SUFFICES ASSUME Tail(s) # <<>> PROVE Last(Tail(s)) = Last(s) /\ Tail(s)[1] = s[2]
    OBVIOUS
  <2>1. Tail(s)[Len(s) - 1] = s[Len(s) - 1 + 1] /\ Tail(s)[1] = s[1 + 1]
    BY <1>2, <1>5
  <2>2. Len(s) - 1 + 1 = Len(s) /\ 1 + 1 = 2
    BY <1>1
  <2> QED BY <1>2, <2>1, <2>2 DEF Last
<1> QED BY <1>1, <1>2, <1>3, <1>4, <1>5, <1>6 DEF Last

LEMMA StreamHeader ==
  ASSUME NEW s \in Seq(Part), Stream(s), NEW c \in Clients, s # <<>> => Last(s).part # "header"
  PROVE  Stream(Append(s, Hd(c, c)))
<1>1. Hd(c, c) \in Part
  BY Parts
<1> DEFINE t == Append(s, Hd(c, c))
<1>2. ASSUME NEW i \in DOMAIN t
      PROVE  /\ \E d \in Clients : t[i] \in {Hd(d, d), Ct(d, d)}
             /\ i # 1 => IF t[i].part = "header" THEN t[i - 1].part = "content"
                                               ELSE t[i - 1] = Hd(t[i].of, t[i].of)
  <2>1. CASE i \in DOMAIN s
    <3>1. t[i] = s[i] /\ (i # 1 => i - 1 \in DOMAIN s)
      BY <1>1, <2>1, Appended
    <3>2. i # 1 => t[i - 1] = s[i - 1]
      BY <1>1, <3>1, Appended
    <3> QED BY <2>1, <3>1, <3>2 DEF Stream
  <2>2. CASE i = Len(s) + 1
    <3>1. t[i] = Hd(c, c)
      BY <1>1, <2>2, Appended
    <3>2. i # 1 => s # <<>> /\ Len(s) \in DOMAIN s /\ i - 1 = Len(s)
      BY <1>1, <2>2, Appended
    <3>3. i # 1 => t[i - 1] = Last(s)
      BY <1>1, <3>2, Appended DEF Last
    <3>4. i # 1 => \E d \in Clients : Last(s) \in {Hd(d, d), Ct(d, d)}
      BY <3>2 DEF Stream, Last
    <3>5. i # 1 => t[i - 1].part = "content"
      BY <3>2, <3>3, <3>4, PartFields
    <3> QED BY <3>1, <3>5, PartFields
  <2> QED BY <1>1, <2>1, <2>2, Appended
<1> QED BY <1>2 DEF Stream

LEMMA StreamContent ==
  ASSUME NEW s \in Seq(Part), Stream(s), NEW c \in Clients, s # <<>> => Last(s) = Hd(c, c)
  PROVE  Stream(Append(s, Ct(c, c)))
<1>1. Ct(c, c) \in Part
  BY Parts
<1> DEFINE t == Append(s, Ct(c, c))
<1>2. ASSUME NEW i \in DOMAIN t
      PROVE  /\ \E d \in Clients : t[i] \in {Hd(d, d), Ct(d, d)}
             /\ i # 1 => IF t[i].part = "header" THEN t[i - 1].part = "content"
                                               ELSE t[i - 1] = Hd(t[i].of, t[i].of)
  <2>1. CASE i \in DOMAIN s
    <3>1. t[i] = s[i] /\ (i # 1 => i - 1 \in DOMAIN s)
      BY <1>1, <2>1, Appended
    <3>2. i # 1 => t[i - 1] = s[i - 1]
      BY <1>1, <3>1, Appended
    <3> QED BY <2>1, <3>1, <3>2 DEF Stream
  <2>2. CASE i = Len(s) + 1
    <3>1. t[i] = Ct(c, c)
      BY <1>1, <2>2, Appended
    <3>2. i # 1 => s # <<>> /\ Len(s) \in DOMAIN s /\ i - 1 = Len(s)
      BY <1>1, <2>2, Appended
    <3>3. i # 1 => t[i - 1] = Hd(c, c)
      BY <1>1, <3>2, Appended DEF Last
    <3> QED BY <3>1, <3>3, PartFields
  <2> QED BY <1>1, <2>1, <2>2, Appended
<1> QED BY <1>2 DEF Stream

LEMMA StreamTail ==
  ASSUME NEW s \in Seq(Part), Stream(s), s # <<>>
  PROVE  Stream(Tail(s))
<1> DEFINE t == Tail(s)
<1>1. ASSUME NEW i \in DOMAIN t
      PROVE  /\ \E d \in Clients : t[i] \in {Hd(d, d), Ct(d, d)}
             /\ i # 1 => IF t[i].part = "header" THEN t[i - 1].part = "content"
                                               ELSE t[i - 1] = Hd(t[i].of, t[i].of)
  <2>1. i + 1 \in DOMAIN s /\ i + 1 # 1 /\ t[i] = s[i + 1] /\ i \in Int
    BY Taken
  <2>2. i # 1 => i - 1 \in DOMAIN t /\ i - 1 + 1 = i
    BY Taken
  <2>3. i # 1 => t[i - 1] = s[i + 1 - 1]
    BY <2>1, <2>2, Taken
  <2> QED BY <2>1, <2>3 DEF Stream
<1> QED BY <1>1 DEF Stream
-----------------------------------------------------------------------------
(* A client that goes on inside its call leaves the inboxes as they were.  *)
LEMMA InboxKept ==
  ASSUME InboxOK, NEW c \in Clients, gone' = gone, pc'[Server] = pc[Server],
         \A d \in Clients : data'[d] = data[d] /\ (Halfway(d)' <=> Halfway(d)),
         \A d \in Clients \ {c} : pc'[d] = pc[d],
         pc[c] # "readContent",
         pc'[c] \notin {"readContent", "idle", "getlock", "acquire", "open", "header"}
  PROVE  InboxOK'
<1>1. \A d \in Clients : /\ pc'[d] = "readContent" <=> pc[d] = "readContent"
                         /\ pc'[d] \in {"idle", "getlock", "acquire", "open", "header"} => pc'[d] = pc[d]
  OBVIOUS
<1>2. Up' <=> Up
  BY DEF Up
<1> QED BY <1>1, <1>2 DEF InboxOK

LEMMA WriteHeaderClient ==
  ASSUME IInv, NEW c \in Clients, WriteHeader(c), TypeOK'
  PROVE  IInv'
<1>0. TypeOK /\ ReadOK /\ SemOK /\ UsersOK /\ StreamOK /\ RequestOK /\ InboxOK /\ StageOK
  BY DEF IInv
<1>1. /\ pc[c] = "header" /\ pc' = [pc EXCEPT ![c] = "content"]
      /\ UNCHANGED <<fifo, users, lost, sem, stale, read, gone, stage, got>>
      /\ c # Server /\ c \in Processes /\ Server \in Processes
  BY Parts DEF WriteHeader, Write, Goto, locks, history
<1>2. data' = IF c \in users[Server] THEN [data EXCEPT ![Server] = Append(@, Hd(c, c))] ELSE data
  BY Peers DEF WriteHeader, Write, Hd
<1>3. /\ Hd(c, c) \in Part /\ data[Server] \in Seq(Part) /\ c \notin gone
      /\ \A d \in Clients : data'[d] = data[d]
  BY <1>0, <1>1, <1>2, Parts DEF SemOK, TypeOK
<1>4. Up => Holds(c, Server) /\ \A d \in Clients : pc[d] = "content" \/ Holds(d, Server) => d = c
  BY <1>0, <1>1, Parts DEF SemOK, Holds, Peer
<1>5. Up => c \in users[Server] /\ data'[Server] = Append(data[Server], Hd(c, c))
  BY <1>0, <1>1, <1>2 DEF UsersOK, TypeOK
<1>6. users[Server] = {} => data'[Server] = data[Server]
  BY <1>2
<1>10. Up => /\ data'[Server] # <<>> /\ Last(data'[Server]) = Hd(c, c)
             /\ \A i \in DOMAIN data[Server] : i \in DOMAIN data'[Server] /\ data'[Server][i] = data[Server][i]
             /\ \A i \in DOMAIN data'[Server] :
                  i \in DOMAIN data[Server] \/ (i = Len(data[Server]) + 1 /\ data'[Server][i] = Hd(c, c))
             /\ data[Server] # <<>> => data'[Server][1] = data[Server][1]
             /\ data[Server] = <<>> => data'[Server][1] = Hd(c, c)
  <2>1. PICK s \in Seq(Part) : s = data[Server]
    BY <1>3
  <2>2. PICK x \in Part : x = Hd(c, c)
    BY <1>3
  <2>3. SUFFICES ASSUME Up, data'[Server] = Append(s, x) PROVE <1>10!2
    BY <1>5, <2>1, <2>2
  <2> QED BY <2>1, <2>2, <2>3, Appended
<1>11. \A p, q \in Processes : Holds(p, q)' <=> Holds(p, q)
  BY <1>0, <1>1 DEF Holds, Peer, TypeOK
<1>7. Up => Stream(data'[Server])
  BY <1>0, <1>1, <1>3, <1>4, <1>5, StreamHeader DEF StreamOK, Unfinished
<1>8. Up /\ data[Server] = <<>> => pc[Server] # "readContent"
  BY <1>0, <1>1, <1>4 DEF StreamOK, Unfinished
<1>9. Up /\ data[Server] # <<>> => Last(data[Server]).part # "header"
  BY <1>0, <1>1, <1>4 DEF StreamOK, Unfinished
<1> USE <1>1
<1>20. ReadOK'
  BY <1>0, Parts DEF ReadOK, TypeOK, Early, Sending
<1>21. SemOK'
  BY <1>0, <1>11, Parts DEF SemOK, TypeOK, Up, Early
<1>22. UsersOK'
  BY <1>0, <1>3, <1>6, Parts DEF UsersOK, TypeOK, Early, Reading, Up, Peer, Processes
<1>23. StreamOK'
  <2> SUFFICES ASSUME Up PROVE StreamOK'
    BY DEF StreamOK, Up
  <2>1. Unfinished' /\ Pending(c)' /\ data'[Server] # <<>>
    BY <1>10, Requests DEF Unfinished, Pending
  <2>2. sem'[Server] = 0 /\ \A d \in Clients : Holds(d, Server)' => pc'[d] = "content"
    BY <1>0, <1>4, <1>11, Parts DEF SemOK, TypeOK
  <2>3. \A d \in Clients : pc'[d] = "content" => d = c
    BY <1>0, <1>4 DEF TypeOK
  <2>4. IF pc'[Server] = "readContent"
        THEN \E d \in Clients : read'[Server] = <<Hd(d, d)>> /\ data'[Server][1] = Ct(d, d)
        ELSE data'[Server][1].part = "header"
    BY <1>0, <1>10, <1>8, <1>9, Requests DEF TypeOK, StreamOK, Unfinished
  <2> QED BY <1>7, <2>1, <2>2, <2>3, <2>4 DEF StreamOK
<1>24. RequestOK'
  <2> SUFFICES ASSUME Up PROVE RequestOK'
    BY DEF RequestOK, Up
  <2>1. \A d \in Clients : d # c => /\ Queued(d)' <=> Queued(d)
                                    /\ pc'[d] = pc[d]
    BY <1>0, <1>10, Requests DEF TypeOK, Queued
  <2>2. \A d \in Clients : (Serving(d)' <=> Serving(d)) /\ (d # c => (Begun(d)' <=> Begun(d)))
    BY <1>0, <1>3, Parts DEF TypeOK, Serving, Begun
  <2>3. ~Queued(c) /\ ~Serving(c) /\ ~Begun(c)'
    BY <1>0, <1>3 DEF RequestOK, InboxOK, Begun, TypeOK
  <2>4. ASSUME NEW d \in Clients \ gone, NEW i \in DOMAIN data'[Server], NEW j \in DOMAIN data'[Server],
               data'[Server][i] = Hd(d, d), data'[Server][j] = Hd(d, d)
        PROVE  i = j
    <3>1. CASE d = c
      BY <1>10, <2>3, <2>4, <3>1 DEF Queued
    <3>2. CASE d # c
      BY <1>0, <1>10, <2>4, <3>2, Requests DEF RequestOK
    <3> QED BY <3>1, <3>2
  <2>5. pc'[c] = "content" /\ UNCHANGED <<pc[Server], stale, gone, read>>
    BY <1>0 DEF TypeOK
  <2> QED BY <1>0, <2>1, <2>2, <2>3, <2>4, <2>5 DEF RequestOK, Peer, Up
<1>25. InboxOK'
  BY <1>0, <1>3, Parts, InboxKept DEF TypeOK, Up, Halfway, Peer
<1>26. StageOK'
  BY <1>0, <1>3, Parts DEF StageOK, TypeOK, Begun, Serving
<1> QED BY <1>20, <1>21, <1>22, <1>23, <1>24, <1>25, <1>26 DEF IInv

LEMMA WriteContentClient ==
  ASSUME IInv, NEW c \in Clients, WriteContent(c), TypeOK'
  PROVE  IInv'
<1>0. TypeOK /\ ReadOK /\ SemOK /\ UsersOK /\ StreamOK /\ RequestOK /\ InboxOK /\ StageOK
  BY DEF IInv
<1>1. /\ pc[c] = "content" /\ pc' = [pc EXCEPT ![c] = "release"]
      /\ UNCHANGED <<fifo, users, lost, sem, stale, read, gone, stage, got>>
      /\ c # Server /\ c \in Processes /\ Server \in Processes
  BY Parts DEF WriteContent, Write, Goto, locks, history
<1>2. data' = IF c \in users[Server] THEN [data EXCEPT ![Server] = Append(@, Ct(c, c))] ELSE data
  BY Peers DEF WriteContent, Write, Ct
<1>3. /\ Ct(c, c) \in Part /\ data[Server] \in Seq(Part) /\ c \notin gone
      /\ \A d \in Clients : data'[d] = data[d]
  BY <1>0, <1>1, <1>2, Parts DEF SemOK, TypeOK
<1>4. Up => Holds(c, Server) /\ \A d \in Clients : pc[d] = "content" \/ Holds(d, Server) => d = c
  BY <1>0, <1>1, Parts DEF SemOK, Holds, Peer
<1>5. Up => c \in users[Server] /\ data'[Server] = Append(data[Server], Ct(c, c))
  BY <1>0, <1>1, <1>2 DEF UsersOK, TypeOK
<1>6. users[Server] = {} => data'[Server] = data[Server]
  BY <1>2
<1>10. Up => /\ data'[Server] # <<>> /\ Last(data'[Server]) = Ct(c, c)
             /\ \A i \in DOMAIN data[Server] : i \in DOMAIN data'[Server] /\ data'[Server][i] = data[Server][i]
             /\ \A i \in DOMAIN data'[Server] :
                  i \in DOMAIN data[Server] \/ (i = Len(data[Server]) + 1 /\ data'[Server][i] = Ct(c, c))
             /\ data[Server] # <<>> => data'[Server][1] = data[Server][1]
             /\ data[Server] = <<>> => data'[Server][1] = Ct(c, c)
  <2>1. PICK s \in Seq(Part) : s = data[Server]
    BY <1>3
  <2>2. PICK x \in Part : x = Ct(c, c)
    BY <1>3
  <2>3. SUFFICES ASSUME Up, data'[Server] = Append(s, x) PROVE <1>10!2
    BY <1>5, <2>1, <2>2
  <2> QED BY <2>1, <2>2, <2>3, Appended
<1>11. \A p, q \in Processes : Holds(p, q)' <=> Holds(p, q)
  BY <1>0, <1>1 DEF Holds, Peer, TypeOK
<1>8. Up => Unfinished /\ Pending(c)
  BY <1>0, <1>1 DEF StreamOK
<1>7. Up => Stream(data'[Server])
  BY <1>0, <1>3, <1>5, <1>8, StreamContent DEF StreamOK, Pending
<1> USE <1>1
<1>20. ReadOK'
  BY <1>0, Parts DEF ReadOK, TypeOK, Early, Sending
<1>21. SemOK'
  BY <1>0, <1>11, Parts DEF SemOK, TypeOK, Up, Early
<1>22. UsersOK'
  BY <1>0, <1>3, <1>6, Parts DEF UsersOK, TypeOK, Early, Reading, Up, Peer, Processes
<1>23. StreamOK'
  <2> SUFFICES ASSUME Up PROVE StreamOK'
    BY DEF StreamOK, Up
  <2>1. ~Unfinished' /\ data'[Server] # <<>>
    BY <1>10, Requests DEF Unfinished
  <2>2. \A d \in Clients : pc'[d] # "content"
    BY <1>0, <1>4 DEF TypeOK
  <2>3. IF pc'[Server] = "readContent"
        THEN \E d \in Clients : read'[Server] = <<Hd(d, d)>> /\ data'[Server][1] = Ct(d, d)
        ELSE data'[Server][1].part = "header"
    BY <1>0, <1>10, <1>8, Requests DEF TypeOK, StreamOK, Pending, Unfinished
  <2> QED BY <1>7, <2>1, <2>2, <2>3 DEF StreamOK
<1>24. RequestOK'
  <2> SUFFICES ASSUME Up PROVE RequestOK'
    BY DEF RequestOK, Up
  <2>1. \A d \in Clients : /\ Queued(d)' <=> Queued(d)
                           /\ d # c => pc'[d] = pc[d]
    BY <1>0, <1>10, Requests DEF TypeOK, Queued
  <2>2. \A d \in Clients : (Serving(d)' <=> Serving(d)) /\ (Begun(d)' <=> Begun(d))
    BY <1>0, <1>3, Parts DEF TypeOK, Serving, Begun
  <2>3. ASSUME NEW d \in Clients \ gone, NEW i \in DOMAIN data'[Server], NEW j \in DOMAIN data'[Server],
               data'[Server][i] = Hd(d, d), data'[Server][j] = Hd(d, d)
        PROVE  i = j
    BY <1>0, <1>10, <2>3, Requests DEF RequestOK
  <2>4. pc'[c] = "release" /\ UNCHANGED <<pc[Server], stale, gone, read>>
    BY <1>0 DEF TypeOK
  <2>5. Peer(Server)' = Peer(Server) /\ (pc[Server] = "release" => pc'[Server] = "release")
    BY <2>4 DEF Peer
  <2> SUFFICES ASSUME NEW d \in Clients \ gone'
               PROVE  /\ pc'[d] \in {"idle", "getlock", "acquire", "open", "header"} => ~Queued(d)' /\ ~Serving(d)'
                      /\ Serving(d)' => ~Queued(d)'
                      /\ Begun(d)' => ~Queued(d)' /\ (Serving(d)' => pc'[Server] = "content")
                      /\ pc'[d] \in {"closeInbox", "act"} => ~Serving(d)'
                      /\ pc'[Server] = "release" /\ Server \notin stale' /\ Peer(Server)' = d => pc'[d] # "idle"
    BY <2>3 DEF RequestOK
  <2>6. CASE d = c
    BY <1>0, <2>1, <2>2, <2>4, <2>5, <2>6 DEF RequestOK
  <2>7. CASE d # c
    BY <1>0, <2>1, <2>2, <2>4, <2>5, <2>7 DEF RequestOK
  <2> QED BY <2>6, <2>7
<1>25. InboxOK'
  BY <1>0, <1>3, Parts, InboxKept DEF TypeOK, Up, Halfway, Peer
<1>26. StageOK'
  BY <1>0, <1>3, Parts DEF StageOK, TypeOK, Begun, Serving
<1> QED BY <1>20, <1>21, <1>22, <1>23, <1>24, <1>25, <1>26 DEF IInv

-----------------------------------------------------------------------------
(* A client's use of the server's inbox ends, and of its own.              *)
LEMMA UsedFacts ==
  ASSUME NEW byNow \in [Processes -> SUBSET Processes], Used(byNow)
  PROVE  /\ \A q \in Processes : users'[q] = byNow[q] /\ data'[q] = IF byNow[q] = {} THEN <<>> ELSE data[q]
BY DEF Used

(* Nobody was reading or writing an inbox whose contents were discarded.   *)
LEMMA Discarded ==
  UsersOK /\ data[Server] = <<>> /\ users[Server] = {} => StreamOK
<1> SUFFICES ASSUME UsersOK, data[Server] = <<>>, users[Server] = {}, Up PROVE StreamOK
  BY DEF StreamOK
<1>1. DOMAIN data[Server] = {}
  OBVIOUS
<1>2. Stream(data[Server])
  BY <1>1 DEF Stream
<1>3. ~Unfinished /\ \A c \in Clients : pc[c] # "content"
  BY DEF UsersOK, Unfinished, Reading
<1> QED BY <1>2, <1>3 DEF StreamOK

LEMMA DiscardedNext ==
  (UsersOK /\ data[Server] = <<>> /\ users[Server] = {})' => StreamOK'
BY Discarded, PTL

LEMMA CloseClient ==
  ASSUME IInv, NEW c \in Clients, Close(c), TypeOK'
  PROVE  IInv'
<1>0. TypeOK /\ ReadOK /\ SemOK /\ UsersOK /\ StreamOK /\ RequestOK /\ InboxOK /\ StageOK
  BY DEF IInv
<1>1. /\ pc[c] = "close" /\ pc' = [pc EXCEPT ![c] = "inbox"]
      /\ UNCHANGED <<fifo, sem, stale, read, gone, stage, got>>
      /\ c # Server /\ c \in Processes /\ Server \in Processes
      /\ Used([users EXCEPT ![Server] = @ \ {c}])
  BY Peers, Parts DEF Close, CloseOne, Goto, locks, history
<1>2. [users EXCEPT ![Server] = @ \ {c}] \in [Processes -> SUBSET Processes]
  BY <1>0 DEF TypeOK
<1>3. /\ users' = [users EXCEPT ![Server] = @ \ {c}]
      /\ \A q \in Processes : users'[q] = {} => data'[q] = <<>>
      /\ \A q \in Processes : users'[q] # {} => data'[q] = data[q]
  BY <1>0, <1>1, <1>2, UsedFacts DEF Used, TypeOK
<1>4. \A d \in Clients : users'[d] = users[d] /\ data'[d] = data[d]
  <2> SUFFICES ASSUME NEW d \in Clients PROVE users'[d] = users[d] /\ data'[d] = data[d]
    OBVIOUS
  <2>1. d \in Processes /\ d # Server /\ users'[d] = users[d]
    BY <1>0, <1>3, Parts DEF TypeOK
  <2>2. users[d] = {} => data[d] = <<>>
    BY <1>0, <2>1 DEF UsersOK
  <2> QED BY <1>3, <2>1, <2>2
<1>5. \A d \in Clients : (Queued(d)' => Queued(d)) /\ (Serving(d)' <=> Serving(d)) /\ (Begun(d)' <=> Begun(d))
  <2>1. data'[Server] = <<>> \/ data'[Server] = data[Server]
    BY <1>1, <1>3
  <2> QED BY <1>0, <1>1, <1>4, <2>1 DEF TypeOK, Queued, Serving, Begun
<1> USE <1>1
<1>6. ReadOK'
  BY <1>0, Parts DEF ReadOK, TypeOK, Early, Sending
<1>7. SemOK'
  BY <1>0, Parts DEF SemOK, TypeOK, Holds, Peer, Up, Early, NoSet
<1>8. UsersOK'
  <2>1. /\ pc'[c] = "inbox" /\ \A p \in Processes \ {c} : pc'[p] = pc[p]
        /\ users'[Server] = users[Server] \ {c} /\ Peer(Server)' = Peer(Server)
    BY <1>0, <1>3 DEF TypeOK, Peer
  <2>2. /\ \A d \in Clients \ {c} : pc'[d] = pc[d]
        /\ pc'[Server] = pc[Server]
    BY <2>1, Parts
  <2> QED BY <1>0, <1>3, <1>4, <2>1, <2>2, Parts DEF UsersOK, Early, Reading, Up
<1>9. StreamOK'
  <2>1. CASE users'[Server] = {}
    BY <1>3, <1>8, <2>1, DiscardedNext
  <2>2. CASE users'[Server] # {}
    <3>1. data'[Server] = data[Server] /\ pc'[Server] = pc[Server]
      BY <1>0, <1>3, <2>2 DEF TypeOK
    <3>2. (Unfinished' <=> Unfinished) /\ \A d \in Clients : /\ Pending(d)' <=> Pending(d)
                                                             /\ Holds(d, Server)' <=> Holds(d, Server)
                                                             /\ d # c => pc'[d] = pc[d]
      BY <1>0, <3>1, Parts DEF TypeOK, Unfinished, Pending, Holds, Peer
    <3> QED BY <1>0, <3>1, <3>2, Parts DEF StreamOK, TypeOK, Up
  <2> QED BY <2>1, <2>2
<1>10. RequestOK'
  <2>1. data'[Server] = <<>> \/ data'[Server] = data[Server]
    BY <1>3
  <2> QED BY <1>0, <1>5, <2>1, Parts DEF RequestOK, TypeOK, Up, Peer
<1>11. InboxOK'
  BY <1>0, <1>4, Parts, InboxKept DEF TypeOK, Up, Halfway, Peer
<1>12. StageOK'
  BY <1>0, <1>5, Parts DEF StageOK, TypeOK
<1> QED BY <1>6, <1>7, <1>8, <1>9, <1>10, <1>11, <1>12 DEF IInv
-----------------------------------------------------------------------------
(* A client reads its reply.                                               *)
LEMMA ReadHeaderClient ==
  ASSUME IInv, NEW c \in Clients, ReadHeader(c), TypeOK'
  PROVE  IInv'
<1>0. TypeOK /\ ReadOK /\ SemOK /\ UsersOK /\ StreamOK /\ RequestOK /\ InboxOK /\ StageOK
  BY DEF IInv
<1>1. /\ pc[c] = "readHeader" /\ pc' = [pc EXCEPT ![c] = "readContent"] /\ data[c] # <<>>
      /\ read' = [read EXCEPT ![c] = Append(@, Head(data[c]))] /\ data' = [data EXCEPT ![c] = Tail(@)]
      /\ UNCHANGED <<fifo, users, lost, sem, stale, gone, stage, got>>
      /\ c # Server /\ c \in Processes /\ Server \in Processes
  BY Parts DEF ReadHeader, Read, Goto, locks, history
<1>2. read[c] = <<>> /\ c \notin gone /\ c \in users[c]
  BY <1>0, <1>1 DEF ReadOK, SemOK, UsersOK, Reading
<1>3. data[c] \in {<<Hd(Server, c)>>, <<Hd(Server, c), Ct(Server, c)>>}
  BY <1>0, <1>1, <1>2 DEF InboxOK
<1>4. read'[c] = <<Hd(Server, c)>>
  BY <1>0, <1>1, <1>2, <1>3, Replies DEF TypeOK
<1>5. /\ data[c] = <<Hd(Server, c)>> => data'[c] = <<>>
      /\ data[c] = <<Hd(Server, c), Ct(Server, c)>> => data'[c] = <<Ct(Server, c)>>
      /\ <<Hd(Server, c)>> # <<Hd(Server, c), Ct(Server, c)>>
  <2>1. data'[c] = Tail(data[c])
    BY <1>0, <1>1 DEF TypeOK
  <2> QED BY <2>1, Replies
<1>6. /\ \A p \in Processes : p # c => data'[p] = data[p] /\ read'[p] = read[p] /\ pc'[p] = pc[p]
      /\ pc'[c] = "readContent"
  BY <1>0, <1>1 DEF TypeOK
<1>7. \A p \in Processes : Peer(p)' = Peer(p)
  BY <1>1, <1>6 DEF Peer
<1>8. \A d \in Clients : /\ Queued(d)' <=> Queued(d)
                         /\ Serving(d)' <=> Serving(d)
                         /\ Begun(d)' <=> Begun(d)
                         /\ Halfway(d)' <=> Halfway(d)
  BY <1>1, <1>6, <1>7, Parts DEF Queued, Serving, Begun, Halfway
<1>9. ReadOK'
  BY <1>0, <1>1, <1>4, <1>6, Parts DEF ReadOK, Early, Sending
<1>10. SemOK'
  BY <1>0, <1>1, <1>6, <1>7, Parts DEF SemOK, Holds, Up, Early
<1>11. UsersOK'
  BY <1>0, <1>1, <1>2, <1>6, <1>7, Parts DEF UsersOK, Early, Reading, Up
<1>12. StreamOK'
  BY <1>0, <1>1, <1>6, <1>7, Parts DEF StreamOK, Unfinished, Pending, Holds, Up
<1>13. RequestOK'
  BY <1>0, <1>1, <1>6, <1>7, <1>8, Parts DEF RequestOK, Up
<1>14. InboxOK'
  <2>1. ~Up' <=> ~Up
    BY <1>1, <1>6 DEF Up
  <2>2. ASSUME NEW d \in Clients \ gone, d # c
        PROVE  data'[d] = data[d] /\ pc'[d] = pc[d] /\ (Halfway(d)' <=> Halfway(d))
    BY <1>6, <1>8, <2>2, Parts
  <2>3. Up /\ Halfway(c) => data[c] = <<Hd(Server, c)>> /\ data'[c] = <<>>
    BY <1>0, <1>1, <1>2, <1>5 DEF InboxOK
  <2>4. Up /\ ~Halfway(c) => data[c] # <<Hd(Server, c)>> /\ data'[c] = <<Ct(Server, c)>>
    BY <1>0, <1>1, <1>2, <1>3, <1>5 DEF InboxOK
  <2>5. data'[c] \in {<<>>, <<Ct(Server, c)>>}
    BY <1>3, <1>5
  <2>6. gone' = gone /\ pc'[c] = "readContent" /\ (Halfway(c)' <=> Halfway(c))
    BY <1>1, <1>6, <1>8
  <2> QED BY <1>0, <2>1, <2>2, <2>3, <2>4, <2>5, <2>6 DEF InboxOK
<1>15. StageOK'
  BY <1>0, <1>1, <1>6, <1>8, Parts DEF StageOK
<1> QED BY <1>9, <1>10, <1>11, <1>12, <1>13, <1>14, <1>15 DEF IInv

LEMMA ReadContentClient ==
  ASSUME IInv, NEW c \in Clients, ReadContent(c), TypeOK'
  PROVE  IInv'
<1>0. TypeOK /\ ReadOK /\ SemOK /\ UsersOK /\ StreamOK /\ RequestOK /\ InboxOK /\ StageOK
  BY DEF IInv
<1>1. /\ pc[c] = "readContent" /\ pc' = [pc EXCEPT ![c] = "closeInbox"] /\ data[c] # <<>>
      /\ read' = [read EXCEPT ![c] = Append(@, Head(data[c]))] /\ data' = [data EXCEPT ![c] = Tail(@)]
      /\ UNCHANGED <<fifo, users, lost, sem, stale, gone, stage, got>>
      /\ c # Server /\ c \in Processes /\ Server \in Processes
  BY Parts DEF ReadContent, Read, Goto, locks, history
<1>2. read[c] = <<Hd(Server, c)>> /\ c \notin gone /\ c \in users[c]
  BY <1>0, <1>1 DEF ReadOK, SemOK, UsersOK, Reading
<1>3. data[c] = <<Ct(Server, c)>>
  BY <1>0, <1>1, <1>2 DEF InboxOK
<1>4. read'[c] = <<Hd(Server, c), Ct(Server, c)>> /\ data'[c] = <<>>
  BY <1>0, <1>1, <1>2, <1>3, Replies DEF TypeOK
<1>5. Up => ~Serving(c) /\ ~Halfway(c)
  <2> SUFFICES ASSUME Up PROVE ~Serving(c) /\ ~Halfway(c)
    OBVIOUS
  <2>1. ~Halfway(c)
    BY <1>0, <1>1, <1>2 DEF InboxOK
  <2>2. Begun(c)
    BY <1>1 DEF Begun
  <2> QED BY <1>0, <1>2, <2>1, <2>2 DEF RequestOK, Serving, Halfway, Peer
<1>6. /\ \A p \in Processes : p # c => data'[p] = data[p] /\ read'[p] = read[p] /\ pc'[p] = pc[p]
      /\ pc'[c] = "closeInbox"
  BY <1>0, <1>1 DEF TypeOK
<1>7. \A p \in Processes : Peer(p)' = Peer(p)
  BY <1>1, <1>6 DEF Peer
<1>8. \A d \in Clients : /\ Queued(d)' <=> Queued(d)
                         /\ Serving(d)' <=> Serving(d)
                         /\ Begun(d)' <=> Begun(d)
                         /\ Halfway(d)' <=> Halfway(d)
  BY <1>1, <1>6, <1>7, Parts DEF Queued, Serving, Begun, Halfway
<1>9. ReadOK'
  BY <1>0, <1>1, <1>4, <1>6, Parts DEF ReadOK, Early, Sending
<1>10. SemOK'
  BY <1>0, <1>1, <1>6, <1>7, Parts DEF SemOK, Holds, Up, Early
<1>11. UsersOK'
  BY <1>0, <1>1, <1>2, <1>6, <1>7, Parts DEF UsersOK, Early, Reading, Up
<1>12. StreamOK'
  BY <1>0, <1>1, <1>6, <1>7, Parts DEF StreamOK, Unfinished, Pending, Holds, Up
<1>13. RequestOK'
  BY <1>0, <1>1, <1>5, <1>6, <1>7, <1>8, Parts DEF RequestOK, Up
<1>14. InboxOK'
  BY <1>0, <1>1, <1>2, <1>4, <1>5, <1>6, <1>8, Sequences2, Parts DEF InboxOK, Up
<1>15. StageOK'
  BY <1>0, <1>1, <1>6, <1>8, Parts DEF StageOK
<1> QED BY <1>9, <1>10, <1>11, <1>12, <1>13, <1>14, <1>15 DEF IInv

LEMMA CloseInboxClient ==
  ASSUME IInv, NEW c \in Clients, CloseInbox(c), TypeOK'
  PROVE  IInv'
<1>0. TypeOK /\ ReadOK /\ SemOK /\ UsersOK /\ StreamOK /\ RequestOK /\ InboxOK /\ StageOK
  BY DEF IInv
<1>1. /\ pc[c] = "closeInbox" /\ pc' = [pc EXCEPT ![c] = "act"]
      /\ UNCHANGED <<fifo, sem, stale, read, gone, stage, got>>
      /\ c # Server /\ c \in Processes /\ Server \in Processes
      /\ Used([users EXCEPT ![c] = @ \ {c}])
  BY Parts DEF CloseInbox, CloseOne, Goto, locks, history
<1>2. [users EXCEPT ![c] = @ \ {c}] \in [Processes -> SUBSET Processes]
  BY <1>0 DEF TypeOK
<1>3. /\ users' = [users EXCEPT ![c] = @ \ {c}]
      /\ \A q \in Processes : users'[q] = {} => data'[q] = <<>>
      /\ \A q \in Processes : users'[q] # {} => data'[q] = data[q]
  BY <1>0, <1>1, <1>2, UsedFacts DEF Used, TypeOK
<1>4. /\ \A p \in Processes : p # c => users'[p] = users[p] /\ data'[p] = data[p] /\ pc'[p] = pc[p]
      /\ pc'[c] = "act" /\ users'[c] = users[c] \ {c}
      /\ data'[c] = <<>> \/ data'[c] = data[c]
  <2>1. /\ \A p \in Processes : p # c => users'[p] = users[p] /\ pc'[p] = pc[p]
        /\ pc'[c] = "act" /\ users'[c] = users[c] \ {c}
    BY <1>0, <1>1, <1>3 DEF TypeOK
  <2>2. \A p \in Processes : p # c => data'[p] = data[p]
    BY <1>0, <1>3, <2>1 DEF UsersOK
  <2> QED BY <1>1, <1>3, <2>1, <2>2
<1>5. Up => ~Serving(c) /\ ~Halfway(c)
  BY <1>0, <1>1 DEF RequestOK, SemOK, Serving, Halfway, Peer
<1>6. \A d \in Clients : /\ Queued(d)' <=> Queued(d)
                         /\ Serving(d)' <=> Serving(d)
                         /\ Begun(d)' <=> Begun(d)
                         /\ Halfway(d)' <=> Halfway(d)
  BY <1>1, <1>4, Parts DEF Queued, Serving, Begun, Halfway, Peer
<1>7. ReadOK'
  BY <1>0, <1>1, <1>4, Parts DEF ReadOK, Early, Sending
<1>8. SemOK'
  BY <1>0, <1>1, <1>4, Parts DEF SemOK, Holds, Peer, Up, Early
<1>9. UsersOK'
  BY <1>0, <1>1, <1>3, <1>4, <1>5, Parts DEF UsersOK, Early, Reading, Up, Peer, Serving
<1>10. StreamOK'
  BY <1>0, <1>1, <1>4, Parts DEF StreamOK, Unfinished, Pending, Holds, Peer, Up
<1>11. RequestOK'
  BY <1>0, <1>1, <1>4, <1>6, Parts DEF RequestOK, Peer, Up
<1>12. InboxOK'
  BY <1>0, <1>1, <1>4, <1>5, <1>6, Sequences2, Parts DEF InboxOK, Up
<1>13. StageOK'
  BY <1>0, <1>1, <1>4, <1>6, Parts DEF StageOK
<1> QED BY <1>7, <1>8, <1>9, <1>10, <1>11, <1>12, <1>13 DEF IInv
-----------------------------------------------------------------------------
(* A client starts, ends, fails or is killed.                              *)
LEMMA ConnectClient ==
  ASSUME IInv, NEW c \in Clients, Connect(c), TypeOK'
  PROVE  IInv'
<1>0. TypeOK /\ ReadOK /\ SemOK /\ UsersOK /\ StreamOK /\ RequestOK /\ InboxOK /\ StageOK
  BY DEF IInv
<1>1. /\ pc[c] = "idle" /\ pc' = [pc EXCEPT ![c] = "getlock"] /\ Server \in fifo /\ c \notin gone
      /\ fifo' = fifo \cup {c} /\ sem' = [sem EXCEPT ![c] = 1] /\ stage' = [stage EXCEPT ![c] = "asked"]
      /\ UNCHANGED <<data, users, lost, stale, read, gone, got>>
      /\ c # Server /\ c \in Processes /\ Server \in Processes
  BY Parts DEF Connect, Goto
<1>2. /\ \A p \in Processes : p # c => sem'[p] = sem[p] /\ pc'[p] = pc[p]
      /\ \A d \in Clients : d # c => stage'[d] = stage[d]
      /\ sem'[c] = 1 /\ pc'[c] = "getlock" /\ stage'[c] = "asked" /\ pc'[Server] = pc[Server]
  BY <1>0, <1>1 DEF TypeOK
<1>3. \A p \in Processes : ~Holds(p, c)
  <2>1. \A d \in Clients : Peer(d) # c
    BY <1>1, Parts DEF Peer
  <2>2. CASE Up
    <3>1. ~Serving(c) /\ ~(pc[Server] = "release" /\ Server \notin stale /\ Peer(Server) = c)
      BY <1>0, <1>1, <2>2 DEF RequestOK
    <3> QED BY <2>1, <3>1 DEF Serving, Holds, Peer, Processes
  <2>3. CASE ~Up
    BY <2>1, <2>3 DEF Holds, Up, Processes
  <2> QED BY <2>2, <2>3
<1>4. \A p, q \in Processes : Holds(p, q)' <=> Holds(p, q)
  BY <1>1, <1>2 DEF Holds, Peer
<1>5. \A d \in Clients : /\ Queued(d)' <=> Queued(d)
                         /\ Serving(d)' <=> Serving(d)
                         /\ Begun(d)' <=> Begun(d)
                         /\ Halfway(d)' <=> Halfway(d)
  BY <1>1, <1>2, Parts DEF Queued, Serving, Begun, Halfway, Peer
<1>6. ReadOK'
  BY <1>0, <1>1, <1>2, Parts DEF ReadOK, Early, Sending
<1>7. SemOK'
  <2>1. \A p, q \in Processes : Holds(p, q)' => sem'[q] = 0 /\ \A r \in Processes : Holds(r, q)' => r = p
    BY <1>0, <1>2, <1>3, <1>4 DEF SemOK
  <2> QED BY <1>0, <1>1, <1>2, <2>1, Parts DEF SemOK, Up, Early
<1>8. UsersOK'
  BY <1>0, <1>1, <1>2, Parts DEF UsersOK, Early, Reading, Up, Peer
<1>9. StreamOK'
  BY <1>0, <1>1, <1>2, <1>4, Parts DEF StreamOK, Unfinished, Pending, Up
<1>10. RequestOK'
  BY <1>0, <1>1, <1>2, <1>5, Parts DEF RequestOK, Peer, Up
<1>11. InboxOK'
  BY <1>0, <1>1, <1>2, <1>5, Parts DEF InboxOK, Up
<1>12. StageOK'
  BY <1>0, <1>1, <1>2, <1>5, Parts DEF StageOK, InboxOK, Begun, RequestOK, Serving, Up
<1> QED BY <1>6, <1>7, <1>8, <1>9, <1>10, <1>11, <1>12 DEF IInv

LEMMA HandleClient ==
  ASSUME IInv, NEW c \in Clients, Handle(c), TypeOK'
  PROVE  IInv'
<1>0. TypeOK /\ ReadOK /\ SemOK /\ UsersOK /\ StreamOK /\ RequestOK /\ InboxOK /\ StageOK
  BY DEF IInv
<1>1. /\ pc[c] = "act" /\ pc' = [pc EXCEPT ![c] = "idle"]
      /\ stage' = [stage EXCEPT ![c] = "idle"] /\ read' = [read EXCEPT ![c] = <<>>]
      /\ sem' = [sem EXCEPT ![c] = NoSet] /\ stale' = (stale \ {c}) \cup Handles(c) /\ fifo' = fifo \ {c}
      /\ UNCHANGED gone /\ c # Server /\ c \in Processes /\ Server \in Processes
      /\ Used([users EXCEPT ![c] = {}])
  BY Parts DEF Handle, Remove, Goto
<1>2. [users EXCEPT ![c] = {}] \in [Processes -> SUBSET Processes]
  BY <1>0 DEF TypeOK
<1>3. /\ \A p \in Processes : p # c => /\ users'[p] = users[p] /\ pc'[p] = pc[p]
                                       /\ read'[p] = read[p] /\ sem'[p] = sem[p]
      /\ pc'[c] = "idle" /\ users'[c] = {} /\ data'[c] = <<>> /\ read'[c] = <<>> /\ stage'[c] = "idle"
      /\ \A d \in Clients : d # c => stage'[d] = stage[d]
  BY <1>0, <1>1, <1>2, UsedFacts DEF Used, TypeOK
<1>4. \A p \in Processes : p # c => data'[p] = data[p]
  <2> SUFFICES ASSUME NEW p \in Processes, p # c PROVE data'[p] = data[p]
    OBVIOUS
  <2>1. users'[p] = users[p] /\ data'[p] = IF users'[p] = {} THEN <<>> ELSE data[p]
    <3> DEFINE byNow == [users EXCEPT ![c] = {}]
    <3>1. byNow \in [Processes -> SUBSET Processes] /\ Used(byNow)
      BY <1>1, <1>2
    <3> HIDE DEF byNow
    <3>2. users'[p] = byNow[p] /\ data'[p] = IF byNow[p] = {} THEN <<>> ELSE data[p]
      BY <3>1, UsedFacts
    <3> QED BY <1>3, <3>2
  <2>2. users[p] = {} => data[p] = <<>>
    BY <1>0 DEF UsersOK
  <2> QED BY <2>1, <2>2
<1>5. Up => ~Serving(c) /\ ~Halfway(c) /\ ~Queued(c) /\ c \notin gone
  BY <1>0, <1>1 DEF RequestOK, SemOK, Serving, Halfway, Peer, Begun
<1>6. stale' \subseteq stale \cup {Server} /\ (Server \in stale => Server \in stale')
  BY <1>1, Parts DEF Handles, Peer, Processes
<1>7. Server \in stale' /\ Server \notin stale =>
        Peer(Server) = c /\ pc[Server] \in {"acquire", "open", "header", "content", "release"}
  BY <1>1 DEF Handles
<1>8. Server \in stale' => pc[Server] \in {"release", "down"}
  BY <1>0, <1>5, <1>7, Parts DEF SemOK, Serving, Peer, Up
<1>9. Peer(Server)' = Peer(Server) /\ pc'[Server] = pc[Server]
  BY <1>1, <1>3 DEF Peer
<1>10. ~Holds(Server, c)'
  BY <1>1, <1>9, Parts DEF Holds, Handles
<1>11. \A p, q \in Processes : Holds(p, q)' => Holds(p, q) /\ q # c
  BY <1>1, <1>3, <1>6, <1>9, <1>10, Parts DEF Holds, Peer, Processes, Handles
<1>12. \A d \in Clients : /\ Queued(d)' <=> Queued(d)
                          /\ Serving(d)' <=> Serving(d)
                          /\ d # c => (Begun(d)' <=> Begun(d))
                          /\ Halfway(d)' <=> Halfway(d)
  BY <1>1, <1>3, <1>4, <1>9, Parts DEF Queued, Serving, Begun, Halfway
<1>13. ~Begun(c)'
  BY <1>3 DEF Begun
<1>14. ReadOK'
  BY <1>0, <1>1, <1>3, Parts DEF ReadOK, Early, Sending
<1>15. SemOK'
  <2>1. \A p, q \in Processes : Holds(p, q)' => sem'[q] = 0 /\ \A r \in Processes : Holds(r, q)' => r = p
    BY <1>0, <1>3, <1>11 DEF SemOK
  <2> QED BY <1>0, <1>1, <1>3, <1>6, <1>8, <1>9, <2>1, Parts DEF SemOK, Up, Early
<1>16. UsersOK'
  BY <1>0, <1>1, <1>3, <1>4, <1>5, <1>9, Parts DEF UsersOK, Early, Reading, Up, Serving, Peer, Processes
<1>17. StreamOK'
  <2>1. \A d \in Clients : Holds(d, Server)' => Holds(d, Server) /\ d # c
    BY <1>3, <1>11, Parts DEF Holds
  <2> QED BY <1>0, <1>1, <1>3, <1>4, <1>9, <2>1, Parts DEF StreamOK, Unfinished, Pending, Up
<1>18. RequestOK'
  <2>1. pc[Server] = "release" /\ Server \notin stale' => Peer(Server) # c
    BY <1>1, Parts DEF Handles
  <2> QED BY <1>0, <1>1, <1>3, <1>4, <1>5, <1>6, <1>9, <1>12, <1>13, <2>1, Parts DEF RequestOK, Up
<1>19. InboxOK'
  BY <1>0, <1>1, <1>3, <1>4, <1>5, <1>9, <1>12, Sequences2, Parts DEF InboxOK, Up
<1>20. StageOK'
  BY <1>0, <1>1, <1>3, <1>5, <1>9, <1>12, <1>13, Parts DEF StageOK, Serving, Up
<1> QED BY <1>14, <1>15, <1>16, <1>17, <1>18, <1>19, <1>20 DEF IInv
(* What an exit changes; a client fails only when the server is down.      *)
LEMMA ExitClient ==
  ASSUME IInv, NEW c \in Clients, Exit(c), TypeOK', gone' \in {gone, {c}},
         gone' = gone => ~Up /\ users[c] \subseteq {c},
         gone' # gone => gone = {}
  PROVE  IInv'
<1>0. TypeOK /\ ReadOK /\ SemOK /\ UsersOK /\ StreamOK /\ RequestOK /\ InboxOK /\ StageOK
  BY DEF IInv
<1>1. /\ pc' = [pc EXCEPT ![c] = "idle"] /\ read' = [read EXCEPT ![c] = <<>>]
      /\ stage' = [d \in Clients |-> IF d = c THEN "idle" ELSE stage[d]]
      /\ UNCHANGED <<fifo, sem, stale>> /\ c # Server /\ c \in Processes /\ Server \in Processes
      /\ Used([q \in Processes |-> users[q] \ {c}])
  BY Parts DEF Exit, CloseAll, locks
<1>2. [q \in Processes |-> users[q] \ {c}] \in [Processes -> SUBSET Processes]
  BY <1>0 DEF TypeOK
<1>3. /\ \A p \in Processes : p # c => pc'[p] = pc[p] /\ read'[p] = read[p]
      /\ \A d \in Clients : d # c => stage'[d] = stage[d]
      /\ pc'[c] = "idle" /\ read'[c] = <<>> /\ stage'[c] = "idle"
      /\ \A p \in Processes : /\ users'[p] = users[p] \ {c}
                              /\ users'[p] = {} => data'[p] = <<>>
                              /\ users'[p] # {} => data'[p] = data[p]
  <2>1. /\ pc \in [Processes -> Labels] /\ stage \in [Clients -> {"idle", "asked", "served"}]
        /\ DOMAIN read = Processes
    BY <1>0 DEF TypeOK
  <2>2. \A p \in Processes : p # c => pc'[p] = pc[p] /\ read'[p] = read[p]
    BY <1>1, <2>1
  <2>3. \A d \in Clients : d # c => stage'[d] = stage[d]
    BY <1>1
  <2>4. pc'[c] = "idle" /\ read'[c] = <<>> /\ stage'[c] = "idle"
    BY <1>1, <2>1
  <2>5. \A p \in Processes : /\ users'[p] = users[p] \ {c}
                             /\ users'[p] = {} => data'[p] = <<>>
                             /\ users'[p] # {} => data'[p] = data[p]
    BY <1>1, <1>2, UsedFacts
  <2> QED BY <2>2, <2>3, <2>4, <2>5
<1>4. /\ \A d \in Clients : d # c => users'[d] = users[d] /\ data'[d] = data[d]
      /\ gone' = gone => data'[c] = <<>>
  <2>1. \A d \in Clients : d # c => users'[d] = users[d] /\ data'[d] = data[d]
    <3> SUFFICES ASSUME NEW d \in Clients, d # c PROVE users'[d] = users[d] /\ data'[d] = data[d]
      OBVIOUS
    <3>1. d \in Processes /\ users[d] \subseteq {Server, d} /\ users'[d] = users[d] \ {c}
      BY <1>0, <1>3, Parts DEF UsersOK
    <3>2. users'[d] = users[d]
      BY <1>1, <3>1
    <3> QED BY <1>0, <1>3, <3>1, <3>2 DEF UsersOK
  <2>2. gone' = gone => users'[c] = {}
    BY <1>1, <1>3
  <2> QED BY <1>1, <1>3, <2>1, <2>2
<1>5. Clients \ gone' \subseteq Clients \ gone /\ (Up => Clients \ gone' \subseteq Clients \ {c})
  OBVIOUS
<1>6. Peer(Server)' = Peer(Server) /\ pc'[Server] = pc[Server]
  BY <1>1, <1>3 DEF Peer
<1>7. \A p, q \in Processes : Holds(p, q)' => Holds(p, q) /\ p # c
  BY <1>1, <1>3, <1>6, Parts DEF Holds, Peer, Processes
<1>8. \A d \in Clients : /\ Queued(d)' => Queued(d)
                         /\ Serving(d)' <=> Serving(d)
                         /\ d # c => (Begun(d)' <=> Begun(d))
                         /\ Halfway(d)' <=> Halfway(d)
  <2>1. data'[Server] = <<>> \/ data'[Server] = data[Server]
    BY <1>1, <1>3
  <2> QED BY <1>1, <1>3, <1>4, <1>6, <2>1, Parts DEF Queued, Serving, Begun, Halfway
<1>9. c \notin gone' => ~Begun(c)'
  BY <1>3, <1>4 DEF Begun
<1>10. ReadOK'
  BY <1>0, <1>1, <1>3, Parts DEF ReadOK, Early, Sending
<1>11. SemOK'
  <2>1. \A p, q \in Processes : Holds(p, q)' => sem'[q] = 0 /\ \A r \in Processes : Holds(r, q)' => r = p
    BY <1>0, <1>1, <1>7 DEF SemOK
  <2> QED BY <1>0, <1>1, <1>3, <1>6, <2>1, Parts DEF SemOK, Up, Early
<1>12. UsersOK'
  BY <1>0, <1>1, <1>3, <1>4, <1>5, <1>6, Parts DEF UsersOK, Early, Reading, Up, Processes
<1>13. StreamOK'
  <2>1. CASE users'[Server] = {}
    BY <1>1, <1>3, <1>12, <2>1, DiscardedNext
  <2>2. CASE users'[Server] # {}
    <3>1. data'[Server] = data[Server]
      BY <1>1, <1>3, <2>2
    <3> QED BY <1>0, <1>1, <1>3, <1>6, <1>7, <3>1, Parts DEF StreamOK, Unfinished, Pending, Up
  <2> QED BY <2>1, <2>2
<1>14. RequestOK'
  <2>1. data'[Server] = <<>> \/ data'[Server] = data[Server]
    BY <1>1, <1>3
  <2> SUFFICES ASSUME Up PROVE RequestOK'
    BY <1>6 DEF RequestOK, Up
  <2> QED BY <1>0, <1>1, <1>3, <1>5, <1>6, <1>8, <2>1, Parts DEF RequestOK, Up
<1>15. InboxOK'
  BY <1>0, <1>1, <1>3, <1>4, <1>5, <1>6, <1>8, Sequences2, Parts DEF InboxOK, Up
<1>16. StageOK'
  BY <1>0, <1>1, <1>3, <1>5, <1>6, <1>8, <1>9, Parts DEF StageOK, Up
<1> QED BY <1>10, <1>11, <1>12, <1>13, <1>14, <1>15, <1>16 DEF IInv

LEMMA FailClient ==
  ASSUME IInv, NEW c \in Clients, Fail(c), TypeOK'
  PROVE  IInv'
<1>1. ~Up
  BY Peers, Parts DEF Fail, IInv, SemOK, Up
<1>2. users[c] \subseteq {c}
  BY <1>1 DEF IInv, UsersOK
<1>3. Exit(c) /\ gone' = gone
  BY DEF Fail
<1> QED BY <1>1, <1>2, <1>3, ExitClient

LEMMA KillClient ==
  ASSUME IInv, NEW c \in Clients, Kill(c), TypeOK'
  PROVE  IInv'
<1>1. Exit(c) /\ gone' = {c} /\ gone = {}
  BY DEF Kill
<1> QED BY <1>1, ExitClient
-----------------------------------------------------------------------------
(* The server creates its inbox.                                           *)
LEMMA MkfifoServer ==
  ASSUME IInv, Mkfifo, TypeOK'
  PROVE  IInv'
<1>0. TypeOK /\ ReadOK /\ SemOK /\ UsersOK /\ StreamOK /\ RequestOK /\ InboxOK /\ StageOK
  BY DEF IInv
<1>1. /\ pc[Server] = "create" /\ fifo' = fifo \cup {Server}
      /\ UNCHANGED <<data, users, lost, sem, stale, read, gone, stage, got>>
      /\ pc'[Server] = "semget" /\ \A c \in Clients : pc'[c] = pc[c]
  BY <1>0, Parts DEF Mkfifo, Goto, locks, history, TypeOK
<1>2. \A p, q \in Processes : Holds(p, q)' <=> Holds(p, q)
  BY <1>1 DEF Holds, Peer, Processes
<1> USE <1>1
<1>3. ReadOK'
  BY <1>0 DEF ReadOK, Early, Sending
<1>4. SemOK'
  BY <1>0, <1>2 DEF SemOK, Up, Early
<1>5. UsersOK'
  BY <1>0 DEF UsersOK, Early, Reading, Up, Peer
<1>6. StreamOK'
  BY <1>0, <1>2, Parts DEF StreamOK, Unfinished, Pending, Up
<1>7. RequestOK'
  BY <1>0 DEF RequestOK, Queued, Serving, Begun, Up, Peer
<1>8. InboxOK'
  BY <1>0 DEF InboxOK, Halfway, Up, Peer
<1>9. StageOK'
  BY <1>0 DEF StageOK, Begun, Serving
<1> QED BY <1>3, <1>4, <1>5, <1>6, <1>7, <1>8, <1>9 DEF IInv

LEMMA SemgetServer ==
  ASSUME IInv, Semget, TypeOK'
  PROVE  IInv'
<1>0. TypeOK /\ ReadOK /\ SemOK /\ UsersOK /\ StreamOK /\ RequestOK /\ InboxOK /\ StageOK
  BY DEF IInv
<1>1. /\ pc[Server] = "semget" /\ sem' = [sem EXCEPT ![Server] = IF @ = NoSet THEN 0 ELSE @]
      /\ UNCHANGED <<fifo, data, users, lost, stale, read, gone, stage, got>>
      /\ pc'[Server] = "setval" /\ \A c \in Clients : pc'[c] = pc[c]
  BY <1>0, Parts DEF Semget, Goto, pipes, history, TypeOK
<1>2. /\ \A p, q \in Processes : Holds(p, q)' <=> Holds(p, q)
      /\ \A q \in Processes : q # Server => sem'[q] = sem[q]
      /\ sem'[Server] = 0
  BY <1>0, <1>1, Parts DEF Holds, Peer, Processes, TypeOK, SemOK, Early
<1> USE <1>1
<1>3. ReadOK'
  BY <1>0 DEF ReadOK, Early, Sending
<1>4. SemOK'
  BY <1>0, <1>2 DEF SemOK, Up, Early
<1>5. UsersOK'
  BY <1>0 DEF UsersOK, Early, Reading, Up, Peer
<1>6. StreamOK'
  BY <1>0, <1>2, Parts DEF StreamOK, Unfinished, Pending, Up
<1>7. RequestOK'
  BY <1>0 DEF RequestOK, Queued, Serving, Begun, Up, Peer
<1>8. InboxOK'
  BY <1>0 DEF InboxOK, Halfway, Up, Peer
<1>9. StageOK'
  BY <1>0 DEF StageOK, Begun, Serving
<1> QED BY <1>3, <1>4, <1>5, <1>6, <1>7, <1>8, <1>9 DEF IInv

LEMMA SetvalServer ==
  ASSUME IInv, Setval, TypeOK'
  PROVE  IInv'
<1>0. TypeOK /\ ReadOK /\ SemOK /\ UsersOK /\ StreamOK /\ RequestOK /\ InboxOK /\ StageOK
  BY DEF IInv
<1>1. /\ pc[Server] = "setval" /\ sem' = [sem EXCEPT ![Server] = 1]
      /\ UNCHANGED <<fifo, data, users, lost, stale, read, gone, stage, got>>
      /\ pc'[Server] = "inbox" /\ \A c \in Clients : pc'[c] = pc[c]
  BY <1>0, Parts DEF Setval, Goto, pipes, history, TypeOK
<1>2. /\ \A p, q \in Processes : ~Holds(p, q) /\ ~Holds(p, q)'
      /\ \A c \in Clients : pc[c] # "content"
  BY <1>0, <1>1, Parts DEF Holds, Processes, SemOK, Early
<1>3. data[Server] = <<>> /\ ~Unfinished'
  BY <1>0, <1>1, Parts DEF UsersOK, Early, Unfinished
<1> USE <1>1
<1>4. ReadOK'
  BY <1>0 DEF ReadOK, Early, Sending
<1>5. SemOK'
  BY <1>0, <1>2 DEF SemOK, Up, Early
<1>6. UsersOK'
  BY <1>0 DEF UsersOK, Early, Reading, Up, Peer
<1>7. StreamOK'
  BY <1>0, <1>2, <1>3, Parts DEF StreamOK, Up
<1>8. RequestOK'
  BY <1>0 DEF RequestOK, Queued, Serving, Begun, Up, Peer
<1>9. InboxOK'
  BY <1>0 DEF InboxOK, Halfway, Up, Peer
<1>10. StageOK'
  BY <1>0 DEF StageOK, Begun, Serving
<1> QED BY <1>4, <1>5, <1>6, <1>7, <1>8, <1>9, <1>10 DEF IInv
-----------------------------------------------------------------------------
(* The server acts on a request and sends the reply.                       *)
LEMMA ServeServer ==
  ASSUME IInv, AskedOK, Serve, TypeOK'
  PROVE  IInv'
<1>0. TypeOK /\ ReadOK /\ SemOK /\ UsersOK /\ StreamOK /\ RequestOK /\ InboxOK /\ StageOK
  BY DEF IInv
<1>1. /\ pc[Server] = "act" /\ Peer(Server) \in Clients
      /\ UNCHANGED <<fifo, data, users, lost, sem, stale, read, gone, got>>
      /\ pc'[Server] = "getlock" /\ \A c \in Clients : pc'[c] = pc[c]
  BY <1>0, Parts, Peers DEF Serve, Goto, pipes, locks, TypeOK
<1>2. /\ \A p, q \in Processes : Holds(p, q)' <=> Holds(p, q)
      /\ \A c \in Clients : (stage'[c] = "idle" <=> stage[c] = "idle") /\ (stage[c] = "served" => stage'[c] = "served")
      /\ stage[Peer(Server)] # "idle" => stage'[Peer(Server)] = "served"
  BY <1>0, <1>1, ServesAsked DEF Holds, Peer, Processes, TypeOK
<1>3. \A c \in Clients \ gone : Serving(c) => stage'[c] = "served"
  BY <1>0, <1>1, <1>2 DEF RequestOK, StageOK, Serving, Up, Peer
<1> USE <1>1
<1>4. ReadOK'
  BY <1>0 DEF ReadOK, Early, Sending
<1>5. SemOK'
  BY <1>0, <1>2 DEF SemOK, Up, Early
<1>6. UsersOK'
  BY <1>0 DEF UsersOK, Early, Reading, Up, Peer
<1>7. StreamOK'
  BY <1>0, <1>2, Parts DEF StreamOK, Unfinished, Pending, Up
<1>8. RequestOK'
  BY <1>0 DEF RequestOK, Queued, Serving, Begun, Up, Peer
<1>9. InboxOK'
  BY <1>0 DEF InboxOK, Halfway, Up, Peer
<1>10. StageOK'
  BY <1>0, <1>2, <1>3 DEF StageOK, Begun, Serving
<1> QED BY <1>4, <1>5, <1>6, <1>7, <1>8, <1>9, <1>10 DEF IInv

LEMMA GetlockServer ==
  ASSUME IInv, Getlock(Server), TypeOK'
  PROVE  IInv'
<1>0. TypeOK /\ ReadOK /\ SemOK /\ UsersOK /\ StreamOK /\ RequestOK /\ InboxOK /\ StageOK
  BY DEF IInv
<1>1. /\ pc[Server] = "getlock" /\ Peer(Server) \in Clients /\ stale' = stale \ {Server}
      /\ sem' = [sem EXCEPT ![Peer(Server)] = IF @ = NoSet THEN 0 ELSE @]
      /\ UNCHANGED <<fifo, data, users, lost, read, gone, stage, got>>
      /\ pc'[Server] = "acquire" /\ \A c \in Clients : pc'[c] = pc[c]
  BY <1>0, Parts, Peers DEF Getlock, Goto, pipes, history, TypeOK, Sending
<1>2. /\ \A p, q \in Processes : Holds(p, q)' <=> Holds(p, q)
      /\ sem'[Server] = sem[Server] /\ \A q \in Processes : sem[q] = 0 => sem'[q] = 0
  BY <1>0, <1>1, Parts DEF Holds, Peer, Processes, TypeOK, NoSet
<1> USE <1>1
<1>4. ReadOK'
  BY <1>0 DEF ReadOK, Early, Sending
<1>5. SemOK'
  BY <1>0, <1>2 DEF SemOK, Up, Early
<1>6. UsersOK'
  BY <1>0 DEF UsersOK, Early, Reading, Up, Peer
<1>7. StreamOK'
  BY <1>0, <1>2, Parts DEF StreamOK, Unfinished, Pending, Up
<1>8. RequestOK'
  BY <1>0 DEF RequestOK, Queued, Serving, Begun, Up, Peer
<1>9. InboxOK'
  BY <1>0 DEF InboxOK, Halfway, Up, Peer
<1>10. StageOK'
  BY <1>0 DEF StageOK, Begun, Serving
<1> QED BY <1>4, <1>5, <1>6, <1>7, <1>8, <1>9, <1>10 DEF IInv

LEMMA AcquireServer ==
  ASSUME IInv, Acquire(Server), TypeOK'
  PROVE  IInv'
<1>0. TypeOK /\ ReadOK /\ SemOK /\ UsersOK /\ StreamOK /\ RequestOK /\ InboxOK /\ StageOK
  BY DEF IInv
<1>1. /\ pc[Server] = "acquire" /\ Peer(Server) \in Clients /\ sem[Peer(Server)] > 0
      /\ sem' = [sem EXCEPT ![Peer(Server)] = @ - 1]
      /\ UNCHANGED <<fifo, data, users, lost, stale, read, gone, stage, got>>
      /\ pc'[Server] = "open" /\ \A c \in Clients : pc'[c] = pc[c]
  BY <1>0, Parts, Peers DEF Acquire, Goto, pipes, history, TypeOK, Sending
<1>2. /\ \A p, q \in Processes : Holds(p, q)' => Holds(p, q) \/ (p = Server /\ q = Peer(Server))
      /\ \A q \in Processes : q # Peer(Server) => sem'[q] = sem[q]
      /\ sem'[Peer(Server)] = 0 /\ sem'[Server] = sem[Server]
  BY <1>0, <1>1, Parts DEF Holds, Peer, Processes, TypeOK, NoSet
<1>3. /\ \A p \in Processes : ~Holds(p, Peer(Server))
      /\ \A d \in Clients : Holds(d, Server)' <=> Holds(d, Server)
  BY <1>0, <1>1, Parts DEF SemOK, Holds, Peer, Processes
<1> USE <1>1
<1>4. ReadOK'
  BY <1>0 DEF ReadOK, Early, Sending
<1>5. SemOK'
  <2>1. \A p, q \in Processes : Holds(p, q)' => sem'[q] = 0 /\ \A s \in Processes : Holds(s, q)' => s = p
    BY <1>0, <1>2, <1>3 DEF SemOK
  <2> QED BY <1>0, <1>2, <2>1 DEF SemOK, Up, Early
<1>6. UsersOK'
  BY <1>0 DEF UsersOK, Early, Reading, Up, Peer
<1>7. StreamOK'
  BY <1>0, <1>2, <1>3, Parts DEF StreamOK, Unfinished, Pending, Up
<1>8. RequestOK'
  BY <1>0 DEF RequestOK, Queued, Serving, Begun, Up, Peer
<1>9. InboxOK'
  BY <1>0 DEF InboxOK, Halfway, Up, Peer
<1>10. StageOK'
  BY <1>0 DEF StageOK, Begun, Serving
<1> QED BY <1>4, <1>5, <1>6, <1>7, <1>8, <1>9, <1>10 DEF IInv
LEMMA OpenServer ==
  ASSUME IInv, Open(Server), TypeOK'
  PROVE  IInv'
<1>0. TypeOK /\ ReadOK /\ SemOK /\ UsersOK /\ StreamOK /\ RequestOK /\ InboxOK /\ StageOK
  BY DEF IInv
<1>1. /\ pc[Server] = "open" /\ Peer(Server) \in Clients
      /\ users' = [users EXCEPT ![Peer(Server)] = @ \cup {Server}]
      /\ UNCHANGED <<fifo, data, lost, sem, stale, read, gone, stage, got>>
      /\ pc'[Server] = "header" /\ \A c \in Clients : pc'[c] = pc[c]
  BY <1>0, Parts, Peers DEF Open, Goto, locks, history, TypeOK, Sending
<1>2. /\ \A p, q \in Processes : Holds(p, q)' <=> Holds(p, q)
      /\ users'[Server] = users[Server]
      /\ \A c \in Clients : users'[c] = IF c = Peer(Server) THEN users[c] \cup {Server} ELSE users[c]
  BY <1>0, <1>1, Parts DEF Holds, Peer, Processes, TypeOK
<1> USE <1>1
<1>4. ReadOK'
  BY <1>0 DEF ReadOK, Early, Sending
<1>5. SemOK'
  BY <1>0, <1>2 DEF SemOK, Up, Early
<1>6. UsersOK'
  <2>1. \A q \in Processes : users'[q] = {} => users[q] = {}
    BY <1>0, <1>2 DEF Processes
  <2>2. ASSUME NEW c \in Clients
        PROVE  /\ users'[c] \subseteq {Server, c}
               /\ c \in users'[c] <=> pc'[c] \in Reading
               /\ Peer(Server) = c => Server \in users'[c]
    <3>1. users[c] \subseteq {Server, c} /\ (c \in users[c] <=> pc[c] \in Reading) /\ c # Server
      BY <1>0, Parts DEF UsersOK
    <3> QED BY <1>1, <1>2, <3>1
  <2>3. Peer(Server)' = Peer(Server) /\ Up /\ Up' /\ ~Early' /\ pc'[Server] \notin Reading
    BY DEF Peer, Up, Early, Reading
  <2>4. \A q \in Processes : users'[q] = {} => data'[q] = <<>>
    BY <1>0, <2>1 DEF UsersOK
  <2> QED BY <1>0, <1>2, <2>2, <2>3, <2>4 DEF UsersOK
<1>7. StreamOK'
  BY <1>0, <1>2, Parts DEF StreamOK, Unfinished, Pending, Up
<1>8. RequestOK'
  BY <1>0 DEF RequestOK, Queued, Serving, Begun, Up, Peer
<1>9. InboxOK'
  BY <1>0 DEF InboxOK, Halfway, Up, Peer
<1>10. StageOK'
  BY <1>0 DEF StageOK, Begun, Serving
<1> QED BY <1>4, <1>5, <1>6, <1>7, <1>8, <1>9, <1>10 DEF IInv

LEMMA WriteHeaderServer ==
  ASSUME IInv, WriteHeader(Server), TypeOK'
  PROVE  IInv'
<1>0. TypeOK /\ ReadOK /\ SemOK /\ UsersOK /\ StreamOK /\ RequestOK /\ InboxOK /\ StageOK
  BY DEF IInv
<1>1. /\ pc[Server] = "header" /\ Peer(Server) \in Clients /\ Subject(Server) = Peer(Server)
      /\ data' = IF Server \in users[Peer(Server)]
                 THEN [data EXCEPT ![Peer(Server)] = Append(@, Hd(Server, Peer(Server)))]
                 ELSE data
      /\ UNCHANGED <<fifo, users, lost, sem, stale, read, gone, stage, got>>
      /\ pc'[Server] = "content" /\ \A c \in Clients : pc'[c] = pc[c]
  BY <1>0, Parts, Peers DEF WriteHeader, Write, Goto, locks, history, TypeOK, Sending, Hd
<1> DEFINE r == Peer(Server)
<1>2. /\ \A p, q \in Processes : Holds(p, q)' <=> Holds(p, q)
      /\ Peer(Server)' = r
      /\ data'[Server] = data[Server] /\ \A c \in Clients : c # r => data'[c] = data[c]
      /\ \A q \in Processes : users[q] = {} => data'[q] = data[q]
  BY <1>0, <1>1, Parts DEF Holds, Peer, Processes, TypeOK
<1>3. r \notin gone => /\ Serving(r) /\ ~Queued(r) /\ ~Begun(r) /\ stage[r] = "served"
                       /\ pc[r] \notin {"idle", "getlock", "acquire", "open", "header"}
                       /\ data[r] = <<>> /\ Server \in users[r]
  BY <1>0, <1>1 DEF RequestOK, StageOK, UsersOK, Serving, Begun, Up, Peer
<1>4. r \notin gone => data'[r] = <<Hd(Server, r)>>
  <2> SUFFICES ASSUME r \notin gone PROVE data'[r] = <<Hd(Server, r)>>
    OBVIOUS
  <2>1. data'[r] = Append(data[r], Hd(Server, r))
    BY <1>0, <1>1, <1>3, Parts DEF TypeOK
  <2> QED BY <1>3, <2>1, Replies
<1>5. \A c \in Clients : /\ Queued(c)' <=> Queued(c)
                         /\ Serving(c)' <=> Serving(c)
                         /\ c # r => (Begun(c)' <=> Begun(c)) /\ ~Halfway(c)' /\ ~Halfway(c)
                         /\ Serving(c) => c = r
  BY <1>1, <1>2 DEF Queued, Serving, Begun, Halfway, Peer
<1>6. ReadOK'
  BY <1>0, <1>1 DEF ReadOK, Early, Sending
<1>7. SemOK'
  BY <1>0, <1>1, <1>2 DEF SemOK, Up, Early
<1>8. UsersOK'
  BY <1>0, <1>1, <1>2 DEF UsersOK, Early, Reading, Up, Peer
<1>9. StreamOK'
  BY <1>0, <1>1, <1>2, Parts DEF StreamOK, Unfinished, Pending, Up
<1>10. RequestOK'
  BY <1>0, <1>1, <1>2, <1>3, <1>5 DEF RequestOK, Up
<1>11. InboxOK'
  <2> SUFFICES ASSUME NEW c \in Clients \ gone
               PROVE  /\ pc'[c] \in {"idle", "getlock", "acquire", "open", "header"} => data'[c] = <<>>
                      /\ IF pc'[c] = "readContent" THEN data'[c] \in {<<>>, <<Ct(Server, c)>>}
                         ELSE data'[c] \in {<<>>, <<Hd(Server, c)>>, <<Hd(Server, c), Ct(Server, c)>>}
                      /\ Up' /\ Halfway(c)' => data'[c] = IF pc'[c] = "readContent" THEN <<>> ELSE <<Hd(Server, c)>>
                      /\ Up' /\ ~Halfway(c)' => IF pc'[c] = "readContent" THEN data'[c] = <<Ct(Server, c)>>
                                              ELSE data'[c] # <<Hd(Server, c)>>
    BY <1>1 DEF InboxOK
  <2>1. CASE c # r
    BY <1>0, <1>1, <1>2, <1>5, <2>1 DEF InboxOK, Up
  <2>2. CASE c = r
    BY <1>1, <1>3, <1>4, <1>5, <2>2, Replies DEF Up, Begun, Halfway, Peer
  <2> QED BY <2>1, <2>2
<1>12. StageOK'
  BY <1>0, <1>1, <1>3, <1>5 DEF StageOK
<1> QED BY <1>6, <1>7, <1>8, <1>9, <1>10, <1>11, <1>12 DEF IInv

LEMMA WriteContentServer ==
  ASSUME IInv, WriteContent(Server), TypeOK'
  PROVE  IInv'
<1>0. TypeOK /\ ReadOK /\ SemOK /\ UsersOK /\ StreamOK /\ RequestOK /\ InboxOK /\ StageOK
  BY DEF IInv
<1>1. /\ pc[Server] = "content" /\ Peer(Server) \in Clients /\ Subject(Server) = Peer(Server)
      /\ data' = IF Server \in users[Peer(Server)]
                 THEN [data EXCEPT ![Peer(Server)] = Append(@, Ct(Server, Peer(Server)))]
                 ELSE data
      /\ UNCHANGED <<fifo, users, lost, sem, stale, read, gone, stage, got>>
      /\ pc'[Server] = "release" /\ \A c \in Clients : pc'[c] = pc[c]
  BY <1>0, Parts, Peers DEF WriteContent, Write, Goto, locks, history, TypeOK, Sending, Ct
<1> DEFINE r == Peer(Server)
<1>2. /\ \A p, q \in Processes : Holds(p, q)' <=> Holds(p, q)
      /\ Peer(Server)' = r
      /\ data'[Server] = data[Server] /\ \A c \in Clients : c # r => data'[c] = data[c]
      /\ \A q \in Processes : users[q] = {} => data'[q] = data[q]
  BY <1>0, <1>1, Parts DEF Holds, Peer, Processes, TypeOK
<1>3. r \notin gone => /\ Serving(r) /\ ~Queued(r) /\ stage[r] = "served"
                       /\ pc[r] \notin {"idle", "getlock", "acquire", "open", "header", "closeInbox", "act"}
                       /\ Server \in users[r]
  BY <1>0, <1>1 DEF RequestOK, StageOK, UsersOK, Serving, Begun, Up, Peer
<1>4. r \notin gone => data[r] = IF pc[r] = "readContent" THEN <<>> ELSE <<Hd(Server, r)>>
  BY <1>0, <1>1 DEF InboxOK, Halfway, Up
<1>5. r \notin gone => data'[r] = IF pc[r] = "readContent" THEN <<Ct(Server, r)>>
                                                         ELSE <<Hd(Server, r), Ct(Server, r)>>
  <2> SUFFICES ASSUME r \notin gone PROVE <1>5!2
    OBVIOUS
  <2>1. data'[r] = Append(data[r], Ct(Server, r))
    BY <1>0, <1>1, <1>3, Parts DEF TypeOK
  <2>2. Append(<<>>, Ct(Server, r)) = <<Ct(Server, r)>>
    BY Sequences2
  <2> QED BY <1>4, <2>1, <2>2, Replies
<1>6. \A c \in Clients : /\ Queued(c)' <=> Queued(c)
                         /\ ~Serving(c)' /\ ~Halfway(c)'
                         /\ c # r => (Begun(c)' <=> Begun(c)) /\ ~Halfway(c)
                         /\ Serving(c) => c = r
  BY <1>1, <1>2 DEF Queued, Serving, Begun, Halfway, Peer
<1>7. ReadOK'
  BY <1>0, <1>1 DEF ReadOK, Early, Sending
<1>8. SemOK'
  BY <1>0, <1>1, <1>2 DEF SemOK, Up, Early
<1>9. UsersOK'
  <2>1. \A c \in Clients : Server \in users[c] => Up
    BY <1>0 DEF UsersOK
  <2>2. pc'[Server] = "release" /\ Up' /\ users' = users /\ gone' = gone
    BY <1>1 DEF Up
  <2>3. \A q \in Processes : users'[q] = {} => data'[q] = <<>>
    BY <1>0, <1>2, <2>2 DEF UsersOK
  <2>4. \A c \in Clients : pc'[c] = pc[c]
    BY <1>1
  <2>5. Up /\ pc[Server] \notin Reading /\ users[Server] = users'[Server]
    BY <1>1 DEF Up, Reading
  <2> QED BY <1>0, <2>2, <2>3, <2>4, <2>5 DEF UsersOK, Early, Reading
<1>10. StreamOK'
  BY <1>0, <1>1, <1>2, Parts DEF StreamOK, Unfinished, Pending, Up
<1>11. RequestOK'
  BY <1>0, <1>1, <1>2, <1>3, <1>6 DEF RequestOK, Up
<1>12. InboxOK'
  <2> SUFFICES ASSUME NEW c \in Clients \ gone
               PROVE  /\ pc'[c] \in {"idle", "getlock", "acquire", "open", "header"} => data'[c] = <<>>
                      /\ IF pc'[c] = "readContent" THEN data'[c] \in {<<>>, <<Ct(Server, c)>>}
                         ELSE data'[c] \in {<<>>, <<Hd(Server, c)>>, <<Hd(Server, c), Ct(Server, c)>>}
                      /\ Up' /\ Halfway(c)' => data'[c] = IF pc'[c] = "readContent" THEN <<>> ELSE <<Hd(Server, c)>>
                      /\ Up' /\ ~Halfway(c)' => IF pc'[c] = "readContent" THEN data'[c] = <<Ct(Server, c)>>
                                              ELSE data'[c] # <<Hd(Server, c)>>
    BY <1>1 DEF InboxOK
  <2>1. CASE c # r
    BY <1>0, <1>1, <1>2, <1>6, <2>1 DEF InboxOK, Up
  <2>2. CASE c = r
    <3>1. c \notin gone /\ pc'[c] = pc[c] /\ ~Halfway(c)'
      BY <1>1, <1>6
    <3>2. <<Hd(Server, c)>> # <<Hd(Server, c), Ct(Server, c)>>
      BY Replies
    <3> QED BY <1>3, <1>5, <2>2, <3>1, <3>2
  <2> QED BY <2>1, <2>2
<1>13. StageOK'
  BY <1>0, <1>1, <1>3, <1>6 DEF StageOK
<1> QED BY <1>7, <1>8, <1>9, <1>10, <1>11, <1>12, <1>13 DEF IInv

LEMMA ReleaseServer ==
  ASSUME IInv, Release(Server), TypeOK'
  PROVE  IInv'
<1>0. TypeOK /\ ReadOK /\ SemOK /\ UsersOK /\ StreamOK /\ RequestOK /\ InboxOK /\ StageOK
  BY DEF IInv
<1>1. /\ pc[Server] = "release" /\ Peer(Server) \in Clients /\ Server \notin stale
      /\ sem' = [sem EXCEPT ![Peer(Server)] = @ + 1]
      /\ UNCHANGED <<fifo, data, users, lost, stale, read, gone, stage, got>>
      /\ pc'[Server] = "close" /\ \A c \in Clients : pc'[c] = pc[c]
  BY <1>0, Parts, Peers DEF Release, Goto, pipes, history, TypeOK, Sending
<1>2. /\ \A p, q \in Processes : Holds(p, q)' => Holds(p, q) /\ p # Server
      /\ \A q \in Processes : q # Peer(Server) => sem'[q] = sem[q]
      /\ sem'[Server] = sem[Server]
      /\ \A d \in Clients : Holds(d, Server)' <=> Holds(d, Server)
      /\ Holds(Server, Peer(Server))
  BY <1>0, <1>1, Parts DEF Holds, Peer, Processes, TypeOK
<1>3. \A p \in Processes : Holds(p, Peer(Server)) => p = Server
  BY <1>0, <1>1, <1>2, Parts DEF SemOK
<1> USE <1>1
<1>4. ReadOK'
  BY <1>0 DEF ReadOK, Early, Sending
<1>5. SemOK'
  <2>1. \A p, q \in Processes : Holds(p, q)' => sem'[q] = 0 /\ \A s \in Processes : Holds(s, q)' => s = p
    BY <1>0, <1>2, <1>3 DEF SemOK
  <2> QED BY <1>0, <1>2, <2>1 DEF SemOK, Up, Early
<1>6. UsersOK'
  BY <1>0 DEF UsersOK, Early, Reading, Up, Peer
<1>7. StreamOK'
  BY <1>0, <1>2, <1>3, Parts DEF StreamOK, Unfinished, Pending, Up
<1>8. RequestOK'
  BY <1>0 DEF RequestOK, Queued, Serving, Begun, Up, Peer
<1>9. InboxOK'
  BY <1>0 DEF InboxOK, Halfway, Up, Peer
<1>10. StageOK'
  BY <1>0 DEF StageOK, Begun, Serving
<1> QED BY <1>4, <1>5, <1>6, <1>7, <1>8, <1>9, <1>10 DEF IInv
LEMMA CloseServer ==
  ASSUME IInv, Close(Server), TypeOK'
  PROVE  IInv'
<1>0. TypeOK /\ ReadOK /\ SemOK /\ UsersOK /\ StreamOK /\ RequestOK /\ InboxOK /\ StageOK
  BY DEF IInv
<1>1. PICK r \in Clients :
        /\ r = Peer(Server) /\ pc[Server] = "close" /\ read'[Server] = <<>>
        /\ \A c \in Clients : read'[c] = read[c] /\ pc'[c] = pc[c]
        /\ UNCHANGED <<fifo, sem, stale, gone, stage, got>>
        /\ pc'[Server] = "inbox" /\ Used([users EXCEPT ![r] = @ \ {Server}])
  BY <1>0, Parts, Peers DEF Close, CloseOne, Goto, locks, history, TypeOK, Sending
<1>2. [users EXCEPT ![r] = @ \ {Server}] \in [Processes -> SUBSET Processes]
  BY <1>0, Parts DEF TypeOK
<1>3. /\ users'[Server] = users[Server]
      /\ \A c \in Clients : users'[c] = IF c = r THEN users[c] \ {Server} ELSE users[c]
      /\ \A q \in Processes : /\ users'[q] = {} => data'[q] = <<>>
                              /\ users'[q] # {} => data'[q] = data[q]
  <2> DEFINE byNow == [users EXCEPT ![r] = @ \ {Server}]
  <2>1. \A q \in Processes : users'[q] = byNow[q] /\ data'[q] = IF byNow[q] = {} THEN <<>> ELSE data[q]
    BY <1>1, <1>2, UsedFacts
  <2>2. byNow[Server] = users[Server] /\ \A c \in Clients : byNow[c] = IF c = r THEN users[c] \ {Server} ELSE users[c]
    BY <1>0, Parts DEF TypeOK
  <2> HIDE DEF byNow
  <2> QED BY <2>1, <2>2, Parts
<1>4. /\ data'[Server] = data[Server] /\ \A c \in Clients : c # r => data'[c] = data[c]
      /\ data'[r] = data[r] \/ (data'[r] = <<>> /\ r \notin users'[r])
  BY <1>0, <1>3, Parts DEF UsersOK
<1>5. r \notin users'[r] => pc[r] \notin Reading
  BY <1>0, <1>1, <1>3, Parts DEF UsersOK
<1>6. \A p, q \in Processes : Holds(p, q)' => Holds(p, q)
  BY <1>1, Parts DEF Holds, Peer, Processes
<1>7. \A c \in Clients : /\ Queued(c)' <=> Queued(c)
                         /\ ~Serving(c)' /\ ~Serving(c) /\ ~Halfway(c)' /\ ~Halfway(c)
                         /\ Begun(c)' => Begun(c)
                         /\ Holds(c, Server)' <=> Holds(c, Server)
  BY <1>1, <1>4, Parts DEF Queued, Serving, Begun, Halfway, Peer, Holds
<1>8. ReadOK'
  BY <1>0, <1>1 DEF ReadOK, Early, Sending
<1>9. SemOK'
  <2>1. \A p, q \in Processes : Holds(p, q)' => sem'[q] = 0 /\ \A s \in Processes : Holds(s, q)' => s = p
    BY <1>0, <1>1, <1>6 DEF SemOK
  <2> QED BY <1>0, <1>1, <2>1 DEF SemOK, Up, Early
<1>10. UsersOK'
  <2>1. ASSUME NEW c \in Clients
        PROVE  users'[c] \subseteq {Server, c} /\ (c \in users'[c] <=> pc'[c] \in Reading)
    <3>1. users[c] \subseteq {Server, c} /\ (c \in users[c] <=> pc[c] \in Reading) /\ c # Server
      BY <1>0, Parts DEF UsersOK
    <3> QED BY <1>1, <1>3, <3>1
  <2>2. Up /\ Up' /\ ~Early' /\ pc'[Server] \notin Reading
    BY <1>1 DEF Up, Early, Reading
  <2> QED BY <1>0, <1>1, <1>3, <2>1, <2>2 DEF UsersOK
<1>11. StreamOK'
  BY <1>0, <1>1, <1>4, <1>7, Parts DEF StreamOK, Unfinished, Pending, Up
<1>12. RequestOK'
  BY <1>0, <1>1, <1>4, <1>7 DEF RequestOK, Up
<1>13. InboxOK'
  BY <1>0, <1>1, <1>4, <1>5, <1>7, Sequences2 DEF InboxOK, Up, Reading
<1>14. StageOK'
  BY <1>0, <1>1, <1>7 DEF StageOK
<1> QED BY <1>8, <1>9, <1>10, <1>11, <1>12, <1>13, <1>14 DEF IInv
-----------------------------------------------------------------------------
(* The server reads a request.                                             *)
LEMMA OpenInboxServer ==
  ASSUME IInv, OpenInbox(Server), TypeOK'
  PROVE  IInv'
<1>0. TypeOK /\ ReadOK /\ SemOK /\ UsersOK /\ StreamOK /\ RequestOK /\ InboxOK /\ StageOK
  BY DEF IInv
<1>1. /\ pc[Server] = "inbox"
      /\ UNCHANGED <<fifo, data, lost, sem, stale, read, gone, stage, got>>
      /\ pc'[Server] = "readHeader" /\ \A c \in Clients : pc'[c] = pc[c] /\ users'[c] = users[c]
      /\ users'[Server] = users[Server] \cup {Server}
  BY <1>0, Parts DEF OpenInbox, Goto, locks, history, TypeOK
<1>2. \A p, q \in Processes : Holds(p, q)' <=> Holds(p, q)
  BY <1>1, Parts DEF Holds, Peer, Processes
<1> USE <1>1
<1>4. ReadOK'
  BY <1>0 DEF ReadOK, Early, Sending
<1>5. SemOK'
  BY <1>0, <1>2 DEF SemOK, Up, Early
<1>6. UsersOK'
  BY <1>0, Parts DEF UsersOK, Early, Reading, Up, Peer, Processes
<1>7. StreamOK'
  BY <1>0, <1>2, Parts DEF StreamOK, Unfinished, Pending, Up
<1>8. RequestOK'
  BY <1>0 DEF RequestOK, Queued, Serving, Begun, Up, Peer
<1>9. InboxOK'
  BY <1>0 DEF InboxOK, Halfway, Up, Peer
<1>10. StageOK'
  BY <1>0 DEF StageOK, Begun, Serving
<1> QED BY <1>4, <1>5, <1>6, <1>7, <1>8, <1>9, <1>10 DEF IInv

LEMMA ReadHeaderServer ==
  ASSUME IInv, ReadHeader(Server), TypeOK'
  PROVE  IInv'
<1>0. TypeOK /\ ReadOK /\ SemOK /\ UsersOK /\ StreamOK /\ RequestOK /\ InboxOK /\ StageOK
  BY DEF IInv
<1>1. /\ pc[Server] = "readHeader" /\ data[Server] # <<>>
      /\ read'[Server] = Append(read[Server], Head(data[Server])) /\ data'[Server] = Tail(data[Server])
      /\ UNCHANGED <<fifo, users, lost, sem, stale, gone, stage, got>>
      /\ pc'[Server] = "readContent"
      /\ \A c \in Clients : pc'[c] = pc[c] /\ data'[c] = data[c] /\ read'[c] = read[c]
  BY <1>0, Parts DEF ReadHeader, Read, Goto, locks, history, TypeOK
<1>2. PICK s \in Seq(Part) : s = data[Server]
  BY <1>0, Parts DEF TypeOK
<1>3. Up /\ Stream(s) /\ s # <<>> /\ s[1].part = "header" /\ Up'
  BY <1>0, <1>1, <1>2 DEF StreamOK, Up
<1>4. PICK d \in Clients : s[1] = Hd(d, d)
  <2>1. \E d \in Clients : s[1] \in {Hd(d, d), Ct(d, d)}
    BY <1>2, <1>3, Taken DEF Stream
  <2> QED BY <1>3, <2>1, Requests
<1>5. read'[Server] = <<Hd(d, d)>>
  <2>1. read[Server] = <<>> /\ Head(s) = Hd(d, d)
    BY <1>0, <1>1, <1>3, <1>4, Taken DEF ReadOK
  <2> QED BY <1>1, <1>2, <2>1, Replies
<1>6. /\ data'[Server] = Tail(s) /\ Stream(Tail(s))
      /\ \A i \in DOMAIN Tail(s) : i + 1 \in DOMAIN s /\ i + 1 # 1 /\ Tail(s)[i] = s[i + 1]
      /\ 1 \in DOMAIN s
      /\ Tail(s) = <<>> => Last(s) = Hd(d, d)
      /\ Tail(s) # <<>> => Last(Tail(s)) = Last(s) /\ Tail(s)[1] = s[2] /\ 2 \in DOMAIN s
  BY <1>1, <1>2, <1>3, <1>4, StreamTail, Taken
<1>7. Tail(s) # <<>> => Tail(s)[1] = Ct(d, d)
  <2> SUFFICES ASSUME Tail(s) # <<>> PROVE s[2] = Ct(d, d)
    BY <1>6
  <2>1. PICK e \in Clients : s[2] \in {Hd(e, e), Ct(e, e)}
    BY <1>3, <1>6 DEF Stream
  <2>2. IF s[2].part = "header" THEN s[2 - 1].part = "content" ELSE s[2 - 1] = Hd(s[2].of, s[2].of)
    BY <1>3, <1>6 DEF Stream
  <2>3. s[2 - 1] = Hd(d, d)
    BY <1>4
  <2> QED BY <2>1, <2>2, <2>3, Requests
<1>8. /\ Unfinished' <=> Unfinished
      /\ \A c \in Clients : Pending(c) => Pending(c)'
  <2>1. CASE Tail(s) = <<>>
    <3>1. Last(data[Server]) = Hd(d, d) /\ data[Server] # <<>> /\ data'[Server] = <<>>
      BY <1>2, <1>3, <1>6, <2>1
    <3>2. Unfinished /\ Unfinished'
      <4>1. Last(data[Server]).part = "header"
        BY <3>1, Requests
      <4> QED BY <1>1, <3>1, <4>1 DEF Unfinished
    <3>3. ASSUME NEW c \in Clients, Pending(c) PROVE Pending(c)'
      <4>1. c = d
        BY <3>1, <3>3, Requests DEF Pending
      <4> QED BY <1>5, <3>1, <4>1 DEF Pending
    <3> QED BY <3>2, <3>3
  <2>2. CASE Tail(s) # <<>>
    <3>1. data[Server] # <<>> /\ data'[Server] # <<>> /\ Last(data'[Server]) = Last(data[Server])
      BY <1>1, <1>2, <1>6, <2>2
    <3> QED BY <3>1 DEF Unfinished, Pending
  <2> QED BY <2>1, <2>2
<1>9. \A c \in Clients : Serving(c)' <=> c = d
  <2>1. read'[Server][1].from = d
    BY <1>5, Sequences2, PartFields
  <2> QED BY <1>1, <2>1 DEF Serving
<1>10. \A c \in Clients : Queued(c)' => Queued(c)
  BY <1>2, <1>6 DEF Queued
<1>11. Queued(d) /\ (d \notin gone => ~Queued(d)')
  <2>1. Queued(d)
    BY <1>2, <1>4, <1>6 DEF Queued
  <2>2. ASSUME d \notin gone PROVE ~Queued(d)'
    <3>1. \A i, j \in DOMAIN s : s[i] = Hd(d, d) /\ s[j] = Hd(d, d) => i = j
      BY <1>0, <1>2, <1>3, <2>2 DEF RequestOK
    <3> QED BY <1>4, <1>6, <3>1 DEF Queued
  <2> QED BY <2>1, <2>2
<1>12. \A c \in Clients : (Begun(c)' <=> Begun(c)) /\ ~Halfway(c)' /\ ~Halfway(c)
  BY <1>1 DEF Begun, Halfway
<1>13. /\ \A p, q \in Processes : Holds(p, q)' => Holds(p, q)
       /\ \A c \in Clients : Holds(c, Server)' <=> Holds(c, Server)
  BY <1>1, Parts DEF Holds, Peer, Processes
<1>14. ReadOK'
  <2>1. \A c \in Clients : pc'[c] = pc[c] /\ read'[c] = read[c]
    BY <1>1
  <2>2. pc'[Server] = "readContent" /\ \E c \in Clients : read'[Server] = <<Hd(c, c)>>
    BY <1>1, <1>5
  <2> QED BY <1>0, <2>1, <2>2 DEF ReadOK, Early, Sending
<1>15. SemOK'
  <2>1. \A p, q \in Processes : Holds(p, q)' => sem'[q] = 0 /\ \A r \in Processes : Holds(r, q)' => r = p
    BY <1>0, <1>1, <1>13 DEF SemOK
  <2> QED BY <1>0, <1>1, <2>1 DEF SemOK, Up, Early
<1>16. UsersOK'
  <2>1. Server \in users[Server]
    BY <1>0, <1>1 DEF UsersOK, Reading
  <2>2. \A q \in Processes : users'[q] = {} => data'[q] = <<>>
    BY <1>0, <1>1, <2>1 DEF UsersOK, Processes
  <2> QED BY <1>0, <1>1, <2>1, <2>2 DEF UsersOK, Early, Reading, Up
<1>17. StreamOK'
  BY <1>0, <1>1, <1>3, <1>5, <1>6, <1>7, <1>8, <1>13 DEF StreamOK, Up
<1>18. RequestOK'
  <2>1. \A c \in Clients \ gone, i, j \in DOMAIN Tail(s) : Tail(s)[i] = Hd(c, c) /\ Tail(s)[j] = Hd(c, c) => i = j
    <3> SUFFICES ASSUME NEW c \in Clients \ gone, NEW i \in DOMAIN Tail(s), NEW j \in DOMAIN Tail(s),
                        Tail(s)[i] = Hd(c, c), Tail(s)[j] = Hd(c, c)
                 PROVE  i = j
      OBVIOUS
    <3>1. i + 1 = j + 1
      BY <1>0, <1>2, <1>3, <1>6 DEF RequestOK
    <3>2. i \in Int /\ j \in Int
      BY <1>3, Taken
    <3> QED BY <3>1, <3>2
  <2> SUFFICES ASSUME NEW c \in Clients \ gone
               PROVE  /\ pc'[c] \in {"idle", "getlock", "acquire", "open", "header"} => ~Queued(c)' /\ ~Serving(c)'
                      /\ Serving(c)' => ~Queued(c)'
                      /\ Begun(c)' => ~Queued(c)' /\ (Serving(c)' => pc'[Server] = "content")
                      /\ pc'[c] \in {"closeInbox", "act"} => ~Serving(c)'
                      /\ pc'[Server] # "release"
    <3>1. \A c \in Clients \ gone, i, j \in DOMAIN data'[Server] :
             data'[Server][i] = Hd(c, c) /\ data'[Server][j] = Hd(c, c) => i = j
      BY <1>6, <2>1
    <3>2. pc'[Server] # "release" /\ gone' = gone
      BY <1>1
    <3> QED BY <3>1, <3>2 DEF RequestOK
  <2>2. CASE c = d
    <3>1. Queued(c) /\ ~Queued(c)' /\ pc'[c] = pc[c]
      BY <1>1, <1>11, <2>2
    <3>2. ~Begun(c) /\ pc[c] \notin {"idle", "getlock", "acquire", "open", "header"}
      BY <1>0, <1>3, <3>1 DEF RequestOK
    <3> QED BY <1>1, <1>12, <3>1, <3>2 DEF Begun
  <2>3. CASE c # d
    BY <1>0, <1>1, <1>3, <1>9, <1>10, <1>12, <2>3 DEF RequestOK
  <2> QED BY <2>2, <2>3
<1>19. InboxOK'
  BY <1>0, <1>1, <1>12 DEF InboxOK, Up
<1>20. StageOK'
  BY <1>0, <1>1, <1>12 DEF StageOK
<1> QED BY <1>14, <1>15, <1>16, <1>17, <1>18, <1>19, <1>20 DEF IInv
LEMMA ReadContentServer ==
  ASSUME IInv, ReadContent(Server), TypeOK'
  PROVE  IInv'
<1>0. TypeOK /\ ReadOK /\ SemOK /\ UsersOK /\ StreamOK /\ RequestOK /\ InboxOK /\ StageOK
  BY DEF IInv
<1>1. /\ pc[Server] = "readContent" /\ data[Server] # <<>>
      /\ read'[Server] = Append(read[Server], Head(data[Server])) /\ data'[Server] = Tail(data[Server])
      /\ UNCHANGED <<fifo, users, lost, sem, stale, gone, stage, got>>
      /\ pc'[Server] = "closeInbox"
      /\ \A c \in Clients : pc'[c] = pc[c] /\ data'[c] = data[c] /\ read'[c] = read[c]
  BY <1>0, Parts DEF ReadContent, Read, Goto, locks, history, TypeOK
<1>2. PICK s \in Seq(Part) : s = data[Server]
  BY <1>0, Parts DEF TypeOK
<1>3. Up /\ Stream(s) /\ s # <<>> /\ Up'
  BY <1>0, <1>1, <1>2 DEF StreamOK, Up
<1>4. PICK d \in Clients : read[Server] = <<Hd(d, d)>> /\ s[1] = Ct(d, d)
  BY <1>0, <1>1, <1>2, <1>3 DEF StreamOK
<1>5. read'[Server] = <<Hd(d, d), Ct(d, d)>>
  <2>1. Head(s) = Ct(d, d)
    BY <1>3, <1>4, Taken
  <2> QED BY <1>1, <1>2, <1>4, <2>1, Replies
<1>6. /\ data'[Server] = Tail(s) /\ Stream(Tail(s))
      /\ \A i \in DOMAIN Tail(s) : i + 1 \in DOMAIN s /\ i + 1 # 1 /\ Tail(s)[i] = s[i + 1]
      /\ Tail(s) = <<>> => Last(s) = Ct(d, d)
      /\ Tail(s) # <<>> => Last(Tail(s)) = Last(s) /\ Tail(s)[1] = s[2] /\ 2 \in DOMAIN s
  BY <1>1, <1>2, <1>3, <1>4, StreamTail, Taken
<1>7. Tail(s) # <<>> => Tail(s)[1].part = "header"
  <2> SUFFICES ASSUME Tail(s) # <<>>, s[2].part # "header" PROVE FALSE
    BY <1>6
  <2>1. PICK e \in Clients : s[2] \in {Hd(e, e), Ct(e, e)}
    BY <1>3, <1>6 DEF Stream
  <2>2. s[2 - 1] = Hd(s[2].of, s[2].of)
    BY <1>3, <1>6 DEF Stream
  <2>3. s[2 - 1] = Ct(d, d) /\ s[2].of = e
    BY <1>4, <2>1, Requests
  <2>4. Hd(e, e) = Ct(d, d)
    BY <2>2, <2>3
  <2> QED BY <2>4, Requests
<1>8. /\ Unfinished' <=> Unfinished
      /\ \A c \in Clients : Unfinished /\ Pending(c) => Pending(c)'
  <2>1. CASE Tail(s) = <<>>
    <3>1. Last(data[Server]) = Ct(d, d) /\ data[Server] # <<>> /\ data'[Server] = <<>>
      BY <1>2, <1>3, <1>6, <2>1
    <3> QED BY <1>1, <3>1, Requests DEF Unfinished
  <2>2. CASE Tail(s) # <<>>
    <3>1. data[Server] # <<>> /\ data'[Server] # <<>> /\ Last(data'[Server]) = Last(data[Server])
      BY <1>1, <1>2, <1>6, <2>2
    <3> QED BY <3>1 DEF Unfinished, Pending
  <2> QED BY <2>1, <2>2
<1>9. \A c \in Clients : Serving(c)' <=> Serving(c)
  <2>1. read'[Server][1].from = d /\ read[Server][1].from = d
    BY <1>4, <1>5, Sequences2, PartFields
  <2> QED BY <1>1, <2>1 DEF Serving
<1>10. \A c \in Clients : Queued(c)' => Queued(c)
  BY <1>2, <1>6 DEF Queued
<1>11. \A c \in Clients : (Begun(c)' <=> Begun(c)) /\ ~Halfway(c)' /\ ~Halfway(c)
  BY <1>1 DEF Begun, Halfway
<1>12. /\ \A p, q \in Processes : Holds(p, q)' => Holds(p, q)
       /\ \A c \in Clients : Holds(c, Server)' <=> Holds(c, Server)
  BY <1>1, Parts DEF Holds, Peer, Processes
<1>13. ReadOK'
  <2>1. \A c \in Clients : pc'[c] = pc[c] /\ read'[c] = read[c]
    BY <1>1
  <2>2. pc'[Server] = "closeInbox" /\ \E c \in Clients : read'[Server] = <<Hd(c, c), Ct(c, c)>>
    BY <1>1, <1>5
  <2> QED BY <1>0, <2>1, <2>2 DEF ReadOK, Early, Sending
<1>14. SemOK'
  <2>1. \A p, q \in Processes : Holds(p, q)' => sem'[q] = 0 /\ \A r \in Processes : Holds(r, q)' => r = p
    BY <1>0, <1>1, <1>12 DEF SemOK
  <2> QED BY <1>0, <1>1, <2>1 DEF SemOK, Up, Early
<1>15. UsersOK'
  <2>1. Server \in users[Server]
    BY <1>0, <1>1 DEF UsersOK, Reading
  <2>2. \A q \in Processes : users'[q] = {} => data'[q] = <<>>
    BY <1>0, <1>1, <2>1 DEF UsersOK, Processes
  <2> QED BY <1>0, <1>1, <2>1, <2>2 DEF UsersOK, Early, Reading, Up
<1>16. StreamOK'
  BY <1>0, <1>1, <1>3, <1>6, <1>7, <1>8, <1>12 DEF StreamOK, Up
<1>17. RequestOK'
  <2>1. \A c \in Clients \ gone, i, j \in DOMAIN Tail(s) : Tail(s)[i] = Hd(c, c) /\ Tail(s)[j] = Hd(c, c) => i = j
    <3> SUFFICES ASSUME NEW c \in Clients \ gone, NEW i \in DOMAIN Tail(s), NEW j \in DOMAIN Tail(s),
                        Tail(s)[i] = Hd(c, c), Tail(s)[j] = Hd(c, c)
                 PROVE  i = j
      OBVIOUS
    <3>1. i + 1 = j + 1
      BY <1>0, <1>2, <1>3, <1>6 DEF RequestOK
    <3>2. i \in Int /\ j \in Int
      BY <1>3, Taken
    <3> QED BY <3>1, <3>2
  <2> SUFFICES ASSUME NEW c \in Clients \ gone
               PROVE  /\ pc'[c] \in {"idle", "getlock", "acquire", "open", "header"} => ~Queued(c)' /\ ~Serving(c)'
                      /\ Serving(c)' => ~Queued(c)'
                      /\ Begun(c)' => ~Queued(c)' /\ (Serving(c)' => pc'[Server] = "content")
                      /\ pc'[c] \in {"closeInbox", "act"} => ~Serving(c)'
    <3>1. \A c \in Clients \ gone, i, j \in DOMAIN data'[Server] :
             data'[Server][i] = Hd(c, c) /\ data'[Server][j] = Hd(c, c) => i = j
      BY <1>6, <2>1
    <3>2. pc'[Server] # "release" /\ gone' = gone
      BY <1>1
    <3> QED BY <3>1, <3>2 DEF RequestOK
  <2> QED BY <1>0, <1>1, <1>3, <1>9, <1>10, <1>11 DEF RequestOK
<1>18. InboxOK'
  BY <1>0, <1>1, <1>11 DEF InboxOK, Up
<1>19. StageOK'
  BY <1>0, <1>1, <1>11 DEF StageOK
<1> QED BY <1>13, <1>14, <1>15, <1>16, <1>17, <1>18, <1>19 DEF IInv

LEMMA CloseInboxServer ==
  ASSUME IInv, CloseInbox(Server), TypeOK'
  PROVE  IInv'
<1>0. TypeOK /\ ReadOK /\ SemOK /\ UsersOK /\ StreamOK /\ RequestOK /\ InboxOK /\ StageOK
  BY DEF IInv
<1>1. /\ pc[Server] = "closeInbox" /\ pc'[Server] = "act" /\ \A c \in Clients : pc'[c] = pc[c]
      /\ UNCHANGED <<fifo, sem, stale, read, gone, stage, got>>
      /\ Used([users EXCEPT ![Server] = @ \ {Server}])
  BY <1>0, Parts DEF CloseInbox, CloseOne, Goto, locks, history, TypeOK
<1>2. [users EXCEPT ![Server] = @ \ {Server}] \in [Processes -> SUBSET Processes]
  BY <1>0 DEF TypeOK
<1>3. /\ users'[Server] = users[Server] \ {Server} /\ \A c \in Clients : users'[c] = users[c]
      /\ \A q \in Processes : /\ users'[q] = {} => data'[q] = <<>>
                              /\ users'[q] # {} => data'[q] = data[q]
  <2> DEFINE byNow == [users EXCEPT ![Server] = @ \ {Server}]
  <2>1. \A q \in Processes : users'[q] = byNow[q] /\ data'[q] = IF byNow[q] = {} THEN <<>> ELSE data[q]
    BY <1>1, <1>2, UsedFacts
  <2>2. byNow[Server] = users[Server] \ {Server} /\ \A c \in Clients : byNow[c] = users[c]
    BY <1>0, Parts DEF TypeOK
  <2> HIDE DEF byNow
  <2> QED BY <2>1, <2>2, Parts
<1>4. \A c \in Clients : data'[c] = data[c]
  BY <1>0, <1>3, Parts DEF UsersOK
<1>5. /\ data'[Server] = <<>> \/ data'[Server] = data[Server]
      /\ \A p, q \in Processes : Holds(p, q)' => Holds(p, q)
      /\ \A c \in Clients : Holds(c, Server)' <=> Holds(c, Server)
  BY <1>1, <1>3, Parts DEF Holds, Peer, Processes
<1>6. \A c \in Clients : /\ Queued(c)' => Queued(c)
                         /\ Serving(c)' <=> Serving(c)
                         /\ Begun(c)' <=> Begun(c)
                         /\ ~Halfway(c)' /\ ~Halfway(c)
  BY <1>1, <1>4, <1>5 DEF Queued, Serving, Begun, Halfway
<1>7. Up /\ Up' /\ ~Early' /\ pc'[Server] \notin Reading
  BY <1>1 DEF Up, Early, Reading
<1>8. ReadOK'
  BY <1>0, <1>1 DEF ReadOK, Early, Sending
<1>9. SemOK'
  <2>1. \A p, q \in Processes : Holds(p, q)' => sem'[q] = 0 /\ \A r \in Processes : Holds(r, q)' => r = p
    BY <1>0, <1>1, <1>5 DEF SemOK
  <2> QED BY <1>0, <1>1, <1>7, <2>1 DEF SemOK
<1>10. UsersOK'
  BY <1>0, <1>1, <1>3, <1>7, Parts DEF UsersOK
<1>11. StreamOK'
  <2>1. CASE users'[Server] = {}
    BY <1>3, <1>10, <2>1, Parts, DiscardedNext
  <2>2. CASE users'[Server] # {}
    <3>1. data'[Server] = data[Server]
      BY <1>3, <2>2, Parts
    <3> QED BY <1>0, <1>1, <1>5, <1>7, <3>1 DEF StreamOK, Unfinished, Pending
  <2> QED BY <2>1, <2>2
<1>12. RequestOK'
  BY <1>0, <1>1, <1>5, <1>6, <1>7 DEF RequestOK
<1>13. InboxOK'
  BY <1>0, <1>1, <1>4, <1>6 DEF InboxOK, Up
<1>14. StageOK'
  BY <1>0, <1>1, <1>6 DEF StageOK
<1> QED BY <1>8, <1>9, <1>10, <1>11, <1>12, <1>13, <1>14 DEF IInv
-----------------------------------------------------------------------------
(* The server stops, fails or is killed.                                   *)
LEMMA ServerDown ==
  ASSUME IInv, TypeOK', pc' = [pc EXCEPT ![Server] = "down"], read' = [read EXCEPT ![Server] = <<>>],
         stage' = stage, Clients \ gone' = Clients \ gone,
         \A p, q \in Processes : Holds(p, q)' => Holds(p, q) /\ sem'[q] = sem[q],
         \A c \in Clients : users'[c] = users[c] \ {Server},
         \A q \in Processes : /\ users'[q] = {} => data'[q] = <<>>
                              /\ users'[q] # {} => data'[q] = data[q]
  PROVE  IInv'
<1>0. TypeOK /\ ReadOK /\ SemOK /\ UsersOK /\ StreamOK /\ RequestOK /\ InboxOK /\ StageOK
  BY DEF IInv
<1>1. /\ pc'[Server] = "down" /\ read'[Server] = <<>>
      /\ \A c \in Clients : pc'[c] = pc[c] /\ read'[c] = read[c]
  BY <1>0, Parts DEF TypeOK
<1>2. ~Up' /\ ~Early' /\ pc'[Server] \notin Reading
  BY <1>1 DEF Up, Early, Reading
<1>3. \A c \in Clients : /\ data'[c] = data[c] \/ data'[c] = <<>>
                         /\ Begun(c)' => Begun(c)
                         /\ c \in gone' <=> c \in gone
  BY <1>1, Parts DEF Begun
<1>4. ReadOK'
  BY <1>0, <1>1, <1>2 DEF ReadOK, Sending
<1>5. SemOK'
  BY <1>0, <1>1, <1>2, <1>3 DEF SemOK
<1>6. UsersOK'
  BY <1>0, <1>1, <1>2, Parts DEF UsersOK
<1>7. StreamOK' /\ RequestOK'
  BY <1>2 DEF StreamOK, RequestOK
<1>8. InboxOK'
  BY <1>0, <1>1, <1>2, <1>3 DEF InboxOK
<1>9. StageOK'
  BY <1>0, <1>1, <1>3 DEF StageOK
<1> QED BY <1>4, <1>5, <1>6, <1>7, <1>8, <1>9 DEF IInv

LEMMA StopServer ==
  ASSUME IInv, Stop, TypeOK'
  PROVE  IInv'
<1> DEFINE byNow == [q \in Processes |-> IF q = Server THEN {} ELSE users[q] \ {Server}]
<1>1. /\ pc' = [pc EXCEPT ![Server] = "down"] /\ read' = [read EXCEPT ![Server] = <<>>]
      /\ sem' = [sem EXCEPT ![Server] = NoSet] /\ stale' = (stale \ {Server}) \cup Handles(Server)
      /\ UNCHANGED <<gone, stage>> /\ Used(byNow)
  BY DEF Stop, Remove, history
<1>2. byNow \in [Processes -> SUBSET Processes] /\ TypeOK
  BY DEF IInv, TypeOK
<1>3. \A q \in Processes : users'[q] = byNow[q] /\ data'[q] = IF byNow[q] = {} THEN <<>> ELSE data[q]
  BY <1>1, <1>2, UsedFacts
<1>4. \A c \in Clients : users'[c] = users[c] \ {Server}
  BY <1>3, Parts
<1>5. ASSUME NEW p \in Processes, NEW q \in Processes, Holds(p, q)'
      PROVE  Holds(p, q) /\ sem'[q] = sem[q]
  <2>1. p # Server
    BY <1>1, <1>2, <1>5, Parts DEF Holds, TypeOK
  <2>2. pc'[p] = pc[p] /\ Peer(p) = Server /\ q = Server
    BY <1>1, <1>2, <1>5, <2>1 DEF Holds, Peer, TypeOK
  <2>3. p \in Handles(Server)
    BY <1>5, <2>1, <2>2 DEF Holds, Handles
  <2> QED BY <1>1, <1>5, <2>3 DEF Holds
<1> HIDE DEF byNow
<1>6. \A q \in Processes : (users'[q] = {} => data'[q] = <<>>) /\ (users'[q] # {} => data'[q] = data[q])
  BY <1>3
<1> QED BY <1>1, <1>4, <1>5, <1>6, ServerDown

LEMMA ExitServer ==
  ASSUME IInv, Exit(Server), gone' = gone \/ (gone' = {Server} /\ gone = {}), TypeOK'
  PROVE  IInv'
<1> DEFINE byNow == [q \in Processes |-> users[q] \ {Server}]
<1>1. /\ pc' = [pc EXCEPT ![Server] = "down"] /\ read' = [read EXCEPT ![Server] = <<>>]
      /\ stage' = [c \in Clients |-> IF c = Server THEN "idle" ELSE stage[c]]
      /\ UNCHANGED <<sem, stale>> /\ Used(byNow)
  BY DEF Exit, CloseAll, locks
<1>2. byNow \in [Processes -> SUBSET Processes] /\ TypeOK
  BY DEF IInv, TypeOK
<1>3. \A q \in Processes : users'[q] = byNow[q] /\ data'[q] = IF byNow[q] = {} THEN <<>> ELSE data[q]
  BY <1>1, <1>2, UsedFacts
<1>4. (\A c \in Clients : users'[c] = users[c] \ {Server}) /\ stage' = stage /\ Clients \ gone' = Clients \ gone
  BY <1>1, <1>2, <1>3, Parts DEF TypeOK
<1>5. \A p, q \in Processes : Holds(p, q)' => Holds(p, q) /\ sem'[q] = sem[q]
  BY <1>1, <1>2, Parts DEF Holds, Peer, TypeOK
<1> HIDE DEF byNow
<1>6. \A q \in Processes : (users'[q] = {} => data'[q] = <<>>) /\ (users'[q] # {} => data'[q] = data[q])
  BY <1>3
<1> QED BY <1>1, <1>4, <1>5, <1>6, ServerDown
-----------------------------------------------------------------------------
LEMMA InvNext == FInv /\ [Next]_vars => IInv'
<1> SUFFICES ASSUME IInv, AskedOK, [Next]_vars PROVE IInv'
  BY DEF FInv
<1>1. TypeOK'
  BY TypeNext DEF FInv
<1>2. ASSUME NEW c \in Clients, Step(c) \/ Acquire(c) \/ Kill(c) PROVE IInv'
  BY <1>1, <1>2, GetlockClient, AcquireClient, OpenClient, WriteHeaderClient, WriteContentClient, ReleaseClient,
     CloseClient, OpenInboxClient, ReadHeaderClient, ReadContentClient, CloseInboxClient, FailClient, KillClient
  DEF Step
<1>3. ASSUME Step(Server) \/ Acquire(Server) \/ Kill(Server) PROVE IInv'
  <2>1. CASE Fail(Server) \/ Kill(Server)
    BY <1>1, <2>1, ExitServer DEF Fail, Kill
  <2> QED BY <1>1, <1>3, <2>1, GetlockServer, AcquireServer, OpenServer, WriteHeaderServer, WriteContentServer,
             ReleaseServer, CloseServer, OpenInboxServer, ReadHeaderServer, ReadContentServer, CloseInboxServer
          DEF Step
<1>4. CASE ServerStep \/ Stop
  BY <1>1, <1>4, MkfifoServer, SemgetServer, SetvalServer, ServeServer, StopServer DEF ServerStep
<1>5. ASSUME NEW c \in Clients, Connect(c) \/ Handle(c) PROVE IInv'
  BY <1>1, <1>5, ConnectClient, HandleClient
<1>6. CASE UNCHANGED vars
  <2> USE <1>6 DEF vars
  <2>1. ReadOK' /\ SemOK'
    BY DEF IInv, ReadOK, SemOK, Early, Holds, Peer, Up
  <2>2. UsersOK' /\ StreamOK'
    BY DEF IInv, UsersOK, StreamOK, Stream, Early, Holds, Peer, Up, Unfinished, Pending
  <2>3. RequestOK'
    BY DEF IInv, RequestOK, Queued, Serving, Begun, Peer, Up
  <2>4. InboxOK'
    BY DEF IInv, InboxOK, Halfway, Peer, Up
  <2>5. StageOK'
    BY DEF IInv, StageOK, Serving, Begun
  <2> QED BY <1>1, <2>1, <2>2, <2>3, <2>4, <2>5 DEF IInv
<1> QED BY <1>2, <1>3, <1>4, <1>5, <1>6 DEF Next, Processes

(* A header comes to the server's inbox by a write.                        *)
LEMMA QueuedNext ==
  ASSUME IInv, [Next]_vars, NEW c \in Clients, Queued(c)'
  PROVE  Queued(c) \/ WriteHeader(c)
<1>0. /\ TypeOK /\ Server \in Processes /\ data[Server] \in Seq(Part)
      /\ \A d \in Clients : d # Server /\ d \in Processes
  BY Parts DEF IInv, TypeOK
<1>1. CASE data'[Server] \in {<<>>, data[Server]}
  <2>1. data'[Server] = data[Server]
    <3>1. DOMAIN <<>> = {}
      OBVIOUS
    <3> QED BY <1>1, <3>1 DEF Queued
  <2> QED BY <2>1 DEF Queued
<1>2. ASSUME NEW byNow, Used(byNow) PROVE data'[Server] \in {<<>>, data[Server]}
  BY <1>0, <1>2 DEF Used
<1>3. ASSUME NEW d \in Clients, WriteHeader(d) \/ WriteContent(d) PROVE Queued(c) \/ WriteHeader(c)
  <2>1. PICK x \in {Hd(d, d), Ct(d, d)} :
          /\ x = Hd(d, d) => WriteHeader(d)
          /\ data'[Server] \in {data[Server], Append(data[Server], x)}
    BY <1>0, <1>3, Peers, Requests DEF WriteHeader, WriteContent, Write, Hd, Ct, TypeOK
  <2>2. CASE data'[Server] = Append(data[Server], x)
    <3>1. x \in Part
      BY Parts
    <3>2. PICK i \in DOMAIN Append(data[Server], x) : Append(data[Server], x)[i] = Hd(c, c)
      BY <2>2 DEF Queued
    <3>3. CASE i \in DOMAIN data[Server]
      BY <1>0, <3>1, <3>2, <3>3, Appended DEF Queued
    <3>4. CASE i \notin DOMAIN data[Server]
      <4>1. x = Hd(c, c)
        BY <1>0, <3>1, <3>2, <3>4, Appended
      <4> QED BY <2>1, <4>1, Requests
    <3> QED BY <3>3, <3>4
  <2> QED BY <1>1, <2>1, <2>2
<1>4. CASE WriteHeader(Server) \/ WriteContent(Server)
  <2>1. Peer(Server) \in Clients
    BY <1>4, Peers DEF WriteHeader, WriteContent, Goto, Sending
  <2>2. data'[Server] = data[Server]
    BY <1>0, <1>4, <2>1 DEF WriteHeader, WriteContent, Write, TypeOK
  <2> QED BY <1>1, <2>2
<1>5. ASSUME NEW p \in Processes, ReadHeader(p) \/ ReadContent(p) PROVE Queued(c)
  <2>1. CASE p = Server
    <3>1. data[Server] # <<>> /\ data'[Server] = Tail(data[Server])
      BY <1>0, <1>5, <2>1 DEF ReadHeader, ReadContent, Read, TypeOK
    <3>2. PICK i \in DOMAIN Tail(data[Server]) : Tail(data[Server])[i] = Hd(c, c)
      BY <3>1 DEF Queued
    <3> QED BY <1>0, <3>1, <3>2, Taken DEF Queued
  <2>2. CASE p # Server
    <3>1. data'[Server] = data[Server]
      BY <1>0, <1>5, <2>2 DEF ReadHeader, ReadContent, Read, TypeOK
    <3> QED BY <3>1 DEF Queued
  <2> QED BY <2>1, <2>2
<1>6. ASSUME NEW p \in Processes, Close(p) \/ CloseInbox(p) \/ Fail(p) \/ Kill(p)
      PROVE  data'[Server] \in {<<>>, data[Server]}
  BY <1>2, <1>6 DEF Close, CloseInbox, CloseOne, Fail, Kill, Exit, CloseAll
<1>7. ASSUME NEW p \in Processes, Getlock(p) \/ Acquire(p) \/ Open(p) \/ Release(p) \/ OpenInbox(p)
      PROVE  data' = data
  BY <1>7 DEF Getlock, Acquire, Open, Release, OpenInbox, pipes
<1>8. ASSUME NEW d \in Clients, Connect(d) \/ Handle(d) PROVE data'[Server] \in {<<>>, data[Server]}
  BY <1>2, <1>8 DEF Connect, Handle
<1>9. CASE ServerStep \/ Stop \/ UNCHANGED vars
  <2>1. data'[Server] \in {<<>>, data[Server]}
    BY <1>2, <1>9 DEF ServerStep, Mkfifo, Semget, Setval, Serve, pipes, Stop, vars
  <2> QED BY <1>1, <2>1
<1> QED BY <1>1, <1>3, <1>4, <1>5, <1>6, <1>7, <1>8, <1>9 DEF Next, Step, Processes

(* The server gets a request to act on by reading its header.              *)
LEMMA ServingNext ==
  ASSUME IInv, [Next]_vars, NEW c \in Clients, pc'[Server] \in ToAct, Serving(c)'
  PROVE  (pc[Server] \in ToAct /\ Serving(c)) \/ (ReadHeader(Server) /\ Queued(c))
<1>0. /\ TypeOK /\ ReadOK /\ StreamOK /\ Server \in Processes /\ data[Server] \in Seq(Part)
      /\ \A d \in Clients : d # Server /\ d \in Processes
  BY Parts DEF IInv, TypeOK
<1>1. CASE pc'[Server] = pc[Server] /\ read'[Server] = read[Server]
  BY <1>1 DEF Serving, ToAct
<1>2. CASE ReadHeader(Server)
  <2>1. /\ pc[Server] = "readHeader" /\ data[Server] # <<>>
        /\ read'[Server] = Append(read[Server], Head(data[Server]))
    BY <1>0, <1>2 DEF ReadHeader, Read, Goto, TypeOK
  <2>2. PICK d \in Clients : data[Server][1] \in {Hd(d, d), Ct(d, d)}
    BY <1>0, <2>1, Taken DEF StreamOK, Stream, Up
  <2>3. data[Server][1] = Hd(d, d)
    BY <1>0, <2>1, <2>2, Requests DEF StreamOK, Up
  <2>4. read'[Server] = <<Hd(d, d)>>
    <3>1. read[Server] = <<>> /\ Head(data[Server]) = Hd(d, d)
      BY <1>0, <2>1, <2>3, Taken DEF ReadOK
    <3> QED BY <2>1, <3>1, Replies
  <2>5. d = c
    BY <2>4, Sequences2, PartFields DEF Serving
  <2> QED BY <1>0, <1>2, <2>1, <2>3, <2>5, Taken DEF Queued
<1>3. CASE ReadContent(Server)
  <2>1. /\ pc[Server] = "readContent" /\ data[Server] # <<>>
        /\ read'[Server] = Append(read[Server], Head(data[Server]))
    BY <1>0, <1>3 DEF ReadContent, Read, Goto, TypeOK
  <2>2. read[Server] \in Seq(Part) /\ read[Server] # <<>> /\ Head(data[Server]) \in Part
    BY <1>0, <2>1, Sequences2, HeadTailProperties DEF ReadOK, TypeOK
  <2>3. read'[Server][1] = read[Server][1]
    BY <2>1, <2>2, Appended
  <2> QED BY <2>1, <2>3 DEF Serving, ToAct
<1>4. CASE CloseInbox(Server)
  BY <1>4 DEF CloseInbox, Goto, Serving, ToAct
<1>5. ASSUME NEW p \in Processes \ {Server}, Step(p) \/ Acquire(p) \/ Kill(p)
      PROVE  pc'[Server] = pc[Server] /\ read'[Server] = read[Server]
  <2>1. CASE Fail(p) \/ Kill(p)
    BY <1>0, <1>5, <2>1 DEF Fail, Kill, Exit, TypeOK
  <2> QED BY <1>0, <1>5, <2>1 DEF Step, Getlock, Acquire, Open, WriteHeader, WriteContent, Write, Release,
             Close, OpenInbox, ReadHeader, ReadContent, Read, CloseInbox, Goto, locks, TypeOK
<1>6. CASE Step(Server) \/ Acquire(Server) \/ Kill(Server)
  <2>1. ~Kill(Server) /\ ~Fail(Server)
    BY <1>0 DEF Kill, Fail, Exit, TypeOK, ToAct
  <2>2. \/ ReadHeader(Server) \/ ReadContent(Server) \/ CloseInbox(Server)
    BY <1>0, <1>6, <2>1 DEF Step, Getlock, Acquire, Open, WriteHeader, WriteContent, Release, Close,
       OpenInbox, Goto, TypeOK, ToAct
  <2> QED BY <1>2, <1>3, <1>4, <2>2
<1>7. ASSUME NEW d \in Clients, Connect(d) \/ Handle(d)
      PROVE  pc'[Server] = pc[Server] /\ read'[Server] = read[Server]
  BY <1>0, <1>7 DEF Connect, Handle, Goto, TypeOK
<1>8. CASE ServerStep \/ Stop
  BY <1>0, <1>8 DEF ServerStep, Mkfifo, Semget, Setval, Serve, Stop, Goto, TypeOK, ToAct
<1>9. CASE UNCHANGED vars
  BY <1>1, <1>9 DEF vars
<1> QED BY <1>1, <1>5, <1>6, <1>7, <1>8, <1>9 DEF Next

(* While the server runs, no call of a client fails.                       *)
LEMMA ClientsGoOn == ASSUME IInv, Up, NEW c \in Clients PROVE ~Fail(c)
<1> SUFFICES ASSUME Fail(c) PROVE FALSE
  OBVIOUS
<1>1. ReadOK /\ SemOK /\ c # Server /\ c \in Processes /\ Peer(c) = Server
  BY Parts, Peers DEF IInv
<1>2. pc[c] = "open" /\ Server \notin fifo
  BY <1>1 DEF Fail, SemOK
<1>3. pc[Server] = "create"
  BY <1>1, <1>2 DEF SemOK, Up
<1> QED BY <1>1, <1>2, <1>3 DEF SemOK

(* A step after which the server is not down, and one by which c was not   *)
(* killed.                                                                 *)
LEMMA ServerStays ==
  ASSUME IInv, [Next]_vars, Up' PROVE Up /\ ~Stop
<1>0. TypeOK /\ Server \in Processes /\ pc[Server] # "idle"
  BY Parts DEF IInv, ReadOK
<1>1. ~Stop
  BY <1>0 DEF Stop, Up, TypeOK
<1>2. ASSUME pc[Server] = "down" PROVE pc'[Server] = "down"
  <2>1. ASSUME NEW p \in Processes, Step(p) \/ Acquire(p) \/ Kill(p) PROVE pc'[Server] = "down"
    <3>1. CASE Fail(p) \/ Kill(p)
      BY <1>0, <1>2, <3>1 DEF Fail, Kill, Exit, TypeOK
    <3> QED BY <1>0, <1>2, <2>1, <3>1 DEF Step, Getlock, Acquire, Open, WriteHeader, WriteContent, Write,
               Release, Close, OpenInbox, ReadHeader, ReadContent, Read, CloseInbox, Goto, TypeOK
  <2>2. ASSUME NEW d \in Clients, Connect(d) \/ Handle(d) PROVE pc'[Server] = "down"
    BY <1>0, <1>2, <2>2, Parts DEF Connect, Handle, Goto, TypeOK
  <2>3. CASE ServerStep \/ UNCHANGED vars
    BY <1>2, <2>3 DEF ServerStep, Mkfifo, Semget, Setval, Serve, Goto, vars
  <2> QED BY <1>1, <1>2, <2>1, <2>2, <2>3 DEF Next
<1> QED BY <1>1, <1>2 DEF Up

LEMMA GoneStays ==
  ASSUME [Next]_vars PROVE gone \subseteq gone'
<1>1. ASSUME NEW p \in Processes, Step(p) \/ Acquire(p) \/ Kill(p) PROVE gone \subseteq gone'
  BY <1>1 DEF Step, Getlock, Acquire, Open, WriteHeader, WriteContent, Write, Release, Close, OpenInbox,
     ReadHeader, ReadContent, Read, CloseInbox, Fail, Kill
<1>2. ASSUME NEW d \in Clients, Connect(d) \/ Handle(d) PROVE gone \subseteq gone'
  BY <1>2 DEF Connect, Handle
<1>3. CASE ServerStep \/ Stop \/ UNCHANGED vars
  BY <1>3 DEF ServerStep, Mkfifo, Semget, Setval, Serve, Stop, vars
<1> QED BY <1>1, <1>2, <1>3 DEF Next

(* A client before its request was sent, and the stage of its call.        *)
LEMMA CallingNext ==
  ASSUME IInv, [Next]_vars, NEW c \in Clients, ~Connect(c),
         pc'[c] \in {"getlock", "acquire", "open", "header"}
  PROVE  pc[c] \in {"getlock", "acquire", "open", "header"}
<1>0. TypeOK /\ ReadOK /\ c \in Processes /\ c # Server
  BY Parts DEF IInv
<1>1. ASSUME NEW p \in Processes, Step(p) \/ Acquire(p) \/ Kill(p)
      PROVE  pc[c] \in {"getlock", "acquire", "open", "header"}
  <2>1. CASE Fail(p) \/ Kill(p)
    BY <1>0, <2>1 DEF Fail, Kill, Exit, TypeOK
  <2> QED BY <1>0, <1>1, <2>1 DEF Step, Getlock, Acquire, Open, WriteHeader, WriteContent, Release, Close,
             OpenInbox, ReadHeader, ReadContent, CloseInbox, Goto, TypeOK
<1>2. ASSUME NEW d \in Clients, Connect(d) \/ Handle(d)
      PROVE  pc[c] \in {"getlock", "acquire", "open", "header"}
  BY <1>0, <1>2 DEF Connect, Handle, Goto, TypeOK
<1>3. CASE ServerStep \/ Stop \/ UNCHANGED vars
  BY <1>0, <1>3 DEF ServerStep, Mkfifo, Semget, Setval, Serve, Stop, Goto, vars, TypeOK
<1> QED BY <1>1, <1>2, <1>3 DEF Next

LEMMA StageNext ==
  ASSUME TypeOK, [Next]_vars, NEW c \in Clients, c # Server,
         ~Connect(c), ~Handle(c), ~Fail(c), ~Kill(c), ~Serve
  PROVE  stage'[c] = stage[c]
<1>1. ASSUME NEW p \in Processes, Step(p) \/ Acquire(p) \/ Kill(p) PROVE stage'[c] = stage[c]
  <2>1. CASE Fail(p) \/ Kill(p)
    BY <2>1 DEF Fail, Kill, Exit
  <2> QED BY <1>1, <2>1 DEF Step, Getlock, Acquire, Open, WriteHeader, WriteContent, Write, Release, Close,
             OpenInbox, ReadHeader, ReadContent, Read, CloseInbox, history
<1>2. ASSUME NEW d \in Clients, Connect(d) \/ Handle(d) PROVE stage'[c] = stage[c]
  BY <1>2 DEF Connect, Handle, TypeOK
<1>3. CASE ServerStep \/ Stop \/ UNCHANGED vars
  BY <1>3 DEF ServerStep, Mkfifo, Semget, Setval, Stop, history, vars
<1> QED BY <1>1, <1>2, <1>3 DEF Next

(* Nobody acts twice on a call.                                            *)
LEMMA AskedNext ==
  FInv /\ IInv' /\ [Next]_vars => AskedOK'
<1> SUFFICES ASSUME IInv, AskedOK, IInv', [Next]_vars, Up', NEW c \in Clients, c \notin gone',
                    \/ pc'[c] \in {"getlock", "acquire", "open", "header"}
                    \/ Queued(c)' \/ (pc'[Server] \in ToAct /\ Serving(c)')
             PROVE  stage'[c] = "asked"
  BY DEF FInv, AskedOK
<1>0. /\ TypeOK /\ SemOK /\ RequestOK /\ RequestOK' /\ Server \in Processes
      /\ \A d \in Clients : d # Server /\ d \in Processes
  BY Parts DEF IInv
<1>1. CASE Connect(c)
  BY <1>0, <1>1 DEF Connect, TypeOK
<1>2. ~Handle(c)
  <2> SUFFICES ASSUME Handle(c) PROVE FALSE
    OBVIOUS
  <2>1. pc'[c] = "idle"
    BY <1>0 DEF Handle, Goto, TypeOK
  <2> QED BY <1>0, <2>1 DEF RequestOK
<1>3. Up /\ c \notin gone /\ ~Stop /\ ~Fail(c) /\ ~Kill(c)
  <2>1. Up /\ ~Stop
    BY <1>0, ServerStays
  <2>2. c \notin gone /\ ~Kill(c)
    BY <1>0, GoneStays DEF Kill
  <2> QED BY <2>1, <2>2, ClientsGoOn
<1>4. CASE ~Connect(c)
  <2>1. stage[c] = "asked"
    <3>1. CASE pc'[c] \in {"getlock", "acquire", "open", "header"}
      <4>1. pc[c] \in {"getlock", "acquire", "open", "header"}
        BY <1>2, <1>3, <1>4, <3>1, CallingNext
      <4> QED BY <1>3, <4>1 DEF AskedOK
    <3>2. CASE Queued(c)'
      <4>1. Queued(c) \/ pc[c] = "header"
        BY <3>2, QueuedNext DEF WriteHeader, Goto
      <4> QED BY <1>3, <4>1 DEF AskedOK
    <3>3. CASE pc'[Server] \in ToAct /\ Serving(c)'
      BY <1>3, <3>3, ServingNext DEF AskedOK
    <3> QED BY <3>1, <3>2, <3>3
  <2>2. CASE Serve
    <3>1. c # Peer(Server)
      <4> SUFFICES ASSUME c = Peer(Server) PROVE FALSE
        OBVIOUS
      <4>1. Serving(c) /\ pc[Server] = "act" /\ pc' = [pc EXCEPT ![Server] = "getlock"] /\ data' = data
        BY <2>2, Peers DEF Serving, Peer, Serve, Goto, pipes
      <4>2. pc'[Server] \notin ToAct /\ pc'[c] = pc[c] /\ (Queued(c)' <=> Queued(c))
        BY <1>0, <4>1 DEF TypeOK, ToAct, Queued
      <4>3. ~Queued(c) /\ pc[c] \notin {"getlock", "acquire", "open", "header"}
        BY <1>0, <1>3, <4>1 DEF RequestOK
      <4>4. ~Queued(c)' /\ pc'[c] \notin {"getlock", "acquire", "open", "header"}
        BY <4>2, <4>3
      <4> QED BY <4>2, <4>4
    <3> QED BY <1>0, <2>1, <2>2, <3>1, ServesAsked DEF TypeOK
  <2>3. CASE ~Serve
    <3>1. stage'[c] = stage[c]
      BY <1>0, <1>2, <1>3, <1>4, <2>3, StageNext
    <3> QED BY <2>1, <3>1
  <2> QED BY <2>2, <2>3
<1> QED BY <1>1, <1>4

(* What every process has read, what is in every inbox, who has it open,   *)
(* who holds its semaphore, and how far each call is.                      *)
THEOREM Invariance == Spec => []FInv
<1>1. Init => FInv
  <2>1. Init => AskedOK
    <3> SUFFICES ASSUME Init PROVE AskedOK
      OBVIOUS
    <3>1. DOMAIN data[Server] = {} /\ pc[Server] = "create" /\ \A c \in Clients : pc[c] = "idle"
      BY Parts DEF Init
    <3> QED BY <3>1 DEF AskedOK, Queued, ToAct
  <2> QED BY <2>1, InvInit DEF FInv
<1>2. FInv /\ [Next]_vars => FInv'
  BY InvNext, AskedNext DEF FInv
<1> QED BY <1>1, <1>2, PTL DEF Spec

(* Every variable keeps its type.                                          *)
THEOREM TypeCorrect == Spec => []TypeOK
<1>1. IInv => TypeOK
  BY DEF IInv
<1> QED BY <1>1, Invariance, PTL DEF FInv

(* Two processes never write to one inbox at once, whoever creates its     *)
(* semaphore, and after any stop, failure or kill (fifo.c:29, 79).         *)
THEOREM Exclusion == Spec => []OneSender
<1>1. IInv => OneSender
  <2> SUFFICES ASSUME IInv, NEW p \in Processes, NEW q \in Processes,
                      {pc[p], pc[q]} \subseteq {"open", "header", "content", "release"},
                      {p, q} \cap stale = {}, Peer(p) = Peer(q)
               PROVE  p = q
    BY DEF OneSender
  <2>1. Holds(p, Peer(p)) /\ Holds(q, Peer(p))
    BY DEF Holds
  <2>2. Peer(p) \in Processes
    BY Peers DEF Sending
  <2> QED BY <2>1, <2>2 DEF IInv, SemOK
<1> QED BY <1>1, Invariance, PTL DEF FInv

(* What a process reads is the header and the content of one message that  *)
(* was sent to it (fifo.c:143-160).                                        *)
THEOREM WholeReads == Spec => []WholeMessages
<1>1. ASSUME IInv PROVE WholeMessages
  <2>1. ASSUME NEW p \in Processes, NEW q \in Processes, NEW c \in Clients,
               read[p] \in {<<>>, <<Hd(q, c)>>, <<Hd(q, c), Ct(q, c)>>},
               IF p = Server THEN q = c ELSE q = Server /\ c = p
        PROVE  /\ read[p] # <<>> => read[p][1].part = "header"
               /\ Len(read[p]) = 2 =>
                    /\ read[p][2] = [read[p][1] EXCEPT !.part = "content"]
                    /\ IF p = Server THEN read[p][1].from = read[p][1].of
                                     ELSE read[p][1].from = Server /\ read[p][1].of = p
    <3>1. [Hd(q, c) EXCEPT !.part = "content"] = Ct(q, c)
      BY DEF Hd, Ct
    <3>2. /\ Len(<<>>) # 2 /\ Len(<<Hd(q, c)>>) # 2
          /\ <<Hd(q, c)>>[1] = Hd(q, c) /\ <<Hd(q, c), Ct(q, c)>>[1] = Hd(q, c)
          /\ <<Hd(q, c), Ct(q, c)>>[2] = Ct(q, c)
      BY Sequences2
    <3>3. CASE read[p] = <<>>
      BY <3>2, <3>3
    <3>4. CASE read[p] = <<Hd(q, c)>>
      BY <3>2, <3>4, PartFields
    <3>5. CASE read[p] = <<Hd(q, c), Ct(q, c)>>
      <4>1. read[p][1] = Hd(q, c) /\ read[p][2] = Ct(q, c)
        BY <3>2, <3>5
      <4> QED BY <2>1, <3>1, <4>1, PartFields
    <3> QED BY <2>1, <3>3, <3>4, <3>5
  <2>2. \A c \in Clients : read[c] \in {<<>>, <<Hd(Server, c)>>, <<Hd(Server, c), Ct(Server, c)>>}
    BY <1>1 DEF IInv, ReadOK
  <2>3. \/ read[Server] = <<>>
        \/ \E c \in Clients : read[Server] \in {<<>>, <<Hd(c, c)>>, <<Hd(c, c), Ct(c, c)>>}
    BY <1>1, Parts DEF IInv, ReadOK, TypeOK, Labels, Early, Sending
  <2>4. CASE read[Server] = <<>>
    <3>1. Len(<<>>) # 2
      OBVIOUS
    <3> QED BY <2>1, <2>2, <2>4, <3>1, Parts DEF WholeMessages, Processes
  <2>5. CASE \E c \in Clients : read[Server] \in {<<>>, <<Hd(c, c)>>, <<Hd(c, c), Ct(c, c)>>}
    BY <2>1, <2>2, <2>5, Parts DEF WholeMessages, Processes
  <2> QED BY <2>3, <2>4, <2>5
<1> QED BY <1>1, Invariance, PTL DEF FInv
-----------------------------------------------------------------------------
(* The steps of a call, as Rpc has them.                                   *)
LEMMA ExitRefines ==
  ASSUME IInv, NEW p \in Processes, Exit(p), pc[p] \notin {"idle", "down"}
  PROVE  [Calls!Next]_<<stage, got>>
<1>1. stage' = [c \in Clients |-> IF c = p THEN "idle" ELSE stage[c]] /\ got' = got
  BY DEF Exit
<1>2. TypeOK /\ StageOK
  BY DEF IInv
<1>3. CASE p \in Clients
  <2>1. stage[p] # "idle" /\ stage' = [stage EXCEPT ![p] = "idle"]
    BY <1>1, <1>2, <1>3 DEF StageOK, TypeOK
  <2> QED BY <1>1, <1>3, <2>1 DEF Calls!Next, Calls!Abort
<1>4. CASE p = Server
  BY <1>1, <1>2, <1>4, Parts DEF TypeOK
<1> QED BY <1>3, <1>4 DEF Processes

LEMMA ConnectRefines ==
  ASSUME IInv, NEW c \in Clients, Connect(c)
  PROVE  Calls!Next
<1>1. stage[c] = "idle"
  BY DEF IInv, StageOK, Connect, Goto
<1> QED BY <1>1 DEF Connect, Calls!Next, Calls!Call, Calls!Move

LEMMA ServeRefines ==
  ASSUME IInv, AskedOK, Serve
  PROVE  [Calls!Next]_<<stage, got>>
<1>1. got' = got
  BY DEF Serve
<1> QED BY <1>1, ServesAsked DEF Calls!Next, Calls!Serve, Calls!Move

(* A client that returns has read the reply to its own request.            *)
LEMMA HandleRefines ==
  ASSUME IInv, NEW c \in Clients, Handle(c)
  PROVE  Calls!Next
<1>1. pc[c] = "act" /\ c \notin gone
  BY DEF Handle, Goto, IInv, SemOK
<1>2. stage[c] = "served"
  BY <1>1 DEF IInv, StageOK, Begun
<1>3. read[c] = <<Hd(Server, c), Ct(Server, c)>>
  BY <1>1 DEF IInv, ReadOK
<1>4. read[c][2].from = Server /\ read[c][2].of = c
  BY <1>3, Sequences2, PartFields
<1>5. got' = [got EXCEPT ![c] = c] /\ stage' = [stage EXCEPT ![c] = "idle"]
  BY <1>4 DEF Handle
<1> QED BY <1>2, <1>5 DEF Calls!Next, Calls!Return, Calls!Move

(* The client program gets the reply to its own request, of a request the  *)
(* server acted on once, whoever stops, fails or is killed                 *)
(* (actions.h:10-15).                                                      *)
THEOREM Refinement == Spec => RpcSpec
<1>1. Init => Calls!Init
  BY DEF Init, Calls!Init, Calls!NoReply
<1>2. ASSUME IInv, AskedOK, [Next]_vars PROVE [Calls!Next]_<<stage, got>>
  <2>1. CASE UNCHANGED <<stage, got>>
    BY <2>1
  <2>2. ASSUME NEW p \in Processes, Fail(p) \/ Kill(p) PROVE [Calls!Next]_<<stage, got>>
    <3>1. Exit(p) /\ pc[p] \notin {"idle", "down"}
      BY <2>2 DEF Fail, Kill
    <3> QED BY <1>2, <3>1, ExitRefines
  <2>3. ASSUME NEW c \in Clients, Connect(c) \/ Handle(c) PROVE Calls!Next
    BY <1>2, <2>3, ConnectRefines, HandleRefines
  <2>4. CASE Serve
    BY <1>2, <2>4, ServeRefines
  <2>5. ASSUME NEW p \in Processes, Step(p) \/ Acquire(p), ~Fail(p) PROVE UNCHANGED <<stage, got>>
    BY <2>5 DEF Step, Getlock, Acquire, Open, WriteHeader, WriteContent, Write, Release, Close, OpenInbox,
       ReadHeader, ReadContent, Read, CloseInbox, history
  <2>6. CASE Mkfifo \/ Semget \/ Setval \/ Stop
    BY <2>6 DEF Mkfifo, Semget, Setval, Stop, history
  <2> QED BY <1>2, <2>1, <2>2, <2>3, <2>4, <2>5, <2>6 DEF Next, ServerStep, vars
<1> QED BY <1>1, <1>2, Invariance, PTL DEF Spec, FInv, RpcSpec, Calls!Spec
-----------------------------------------------------------------------------
(***************************************************************************)
(* A process waits for a semaphore or for a message: can all of them wait? *)
(***************************************************************************)

(* A semaphore that was created has the value 1 or a holder that runs.     *)
LocksKept ==
  Up /\ gone = {} =>
    /\ ~Early => sem[Server] = 1 \/ \E c \in Clients : Holds(c, Server)
    /\ \A c \in Clients : pc[c] # "idle" => sem[c] = 1 \/ Holds(Server, c)

(* A request that was written, and the reply to it, is somewhere until it  *)
(* is discarded.                                                           *)
Sent(c)      == pc[c] \in {"content", "release", "close", "inbox", "readHeader"}
Somewhere(c) == Queued(c) \/ Serving(c) \/ data[c] # <<>>
MessagesKept == Up /\ gone = {} => \A c \in Clients \ lost : Sent(c) => Somewhere(c)

LInv == IInv /\ LocksKept /\ MessagesKept

(* p has a step to take: it waits for no semaphore and no message.         *)
CanGo(p) == /\ pc[p] \notin {"idle", "down"}
            /\ pc[p] = "acquire" => p \in stale \/ sem[Peer(p)] > 0
            /\ pc[p] \in {"readHeader", "readContent"} => data[p] # <<>>

NoStandstill ==
  Up /\ gone = {} /\ (\E c \in Clients \ lost : pc[c] # "idle") =>
    \E p \in Processes : CanGo(p)

(* A step after which the server runs and nobody was killed.               *)
LEMMA StillUp ==
  ASSUME IInv, [Next]_vars, Up', gone' = {}
  PROVE  /\ Up /\ gone = {} /\ ~Stop
         /\ \A p \in Processes : ~Kill(p) /\ ~Fail(p)
<1>0. TypeOK /\ Server \in Processes /\ \A c \in Clients : c \in Processes /\ c # Server
  BY Parts DEF IInv
<1>1. \A p \in Processes : ~Kill(p)
  BY DEF Kill
<1>2. ~Stop
  BY <1>0 DEF Stop, TypeOK, Up
<1>3. ~Fail(Server)
  BY <1>0 DEF Fail, Exit, TypeOK, Up
<1>4. Up
  <2>1. ASSUME NEW p \in Processes, NEW a, NEW b, a # "down", Goto(p, a, b) PROVE Up
    BY <1>0, <2>1 DEF Goto, TypeOK, Up
  <2>2. ASSUME NEW p \in Processes, Step(p) \/ Acquire(p) PROVE Up
    <3>1. CASE Fail(p)
      BY <1>0, <1>3, <3>1 DEF Fail, Exit, TypeOK, Up
    <3>2. CASE ~Fail(p)
      BY <2>1, <2>2, <3>2 DEF Step, Acquire, Getlock, Open, WriteHeader, WriteContent, Release, Close,
         OpenInbox, ReadHeader, ReadContent, CloseInbox
    <3> QED BY <3>1, <3>2
  <2>3. ASSUME NEW c \in Clients, Connect(c) \/ Handle(c) PROVE Up
    BY <1>0, <2>1, <2>3 DEF Connect, Handle
  <2>4. CASE ServerStep
    BY <1>0, <2>1, <2>4 DEF ServerStep, Mkfifo, Semget, Setval, Serve
  <2>5. CASE UNCHANGED vars
    BY <2>5 DEF vars, Up
  <2> QED BY <1>1, <1>2, <2>2, <2>3, <2>4, <2>5 DEF Next
<1>5. gone = {}
  <2>1. ASSUME NEW p \in Processes, Step(p) \/ Acquire(p) PROVE gone' = gone
    BY <2>1 DEF Step, Acquire, Getlock, Open, WriteHeader, Write, WriteContent, Release, Close,
       OpenInbox, ReadHeader, Read, ReadContent, CloseInbox, Fail
  <2> QED BY <1>1, <1>2, <2>1 DEF Next, ServerStep, Mkfifo, Semget, Setval, Serve, Connect, Handle, vars
<1>6. \A c \in Clients : ~Fail(c)
  BY <1>4, ClientsGoOn
<1> QED BY <1>1, <1>2, <1>3, <1>4, <1>5, <1>6 DEF Processes
-----------------------------------------------------------------------------
(* Semaphores.                                                             *)

(* A step that changes no semaphore and keeps its holders.                 *)
LEMMA SameLocks ==
  ASSUME LocksKept, Up, gone = {}, sem' = sem, Early => Early',
         \A p, q \in Processes : Holds(p, q) => Holds(p, q)',
         \A c \in Clients : pc[c] = "idle" => pc'[c] = "idle"
  PROVE  LocksKept'
BY Parts DEF LocksKept

LEMMA LocksClient ==
  ASSUME IInv, LocksKept, Up, gone = {}, NEW d \in Clients, Step(d) \/ Acquire(d), ~Fail(d)
  PROVE  LocksKept'
<1>0. /\ TypeOK /\ ReadOK /\ SemOK /\ d # Server /\ d \in Processes /\ Server \in Processes
      /\ Peer(d) = Server /\ d \notin stale
      /\ \A c \in Clients : c \in Processes /\ c # Server /\ Peer(c) = Server
  BY Parts, Peers DEF IInv, SemOK
<1>1. \A p, q \in Processes : Holds(p, q) => sem[q] = 0
  BY <1>0 DEF SemOK
<1>2. CASE Getlock(d)
  <2>1. /\ pc[d] = "getlock" /\ pc'[d] = "acquire" /\ \A p \in Processes \ {d} : pc'[p] = pc[p]
        /\ sem' = [sem EXCEPT ![Server] = IF @ = NoSet THEN 0 ELSE @]
        /\ stale' = stale \ {d} /\ read' = read
    BY <1>0, <1>2 DEF Getlock, Goto, TypeOK
  <2>2. \A p, q \in Processes : Holds(p, q) => Holds(p, q)'
    BY <2>1 DEF Holds, Peer
  <2>3. /\ sem[Server] = 1 => sem'[Server] = 1
        /\ \A c \in Clients : sem'[c] = sem[c]
    BY <1>0, <2>1 DEF TypeOK, NoSet
  <2>4. /\ Early' <=> Early
        /\ \A c \in Clients : pc'[c] # "idle" => pc[c] # "idle"
    BY <1>0, <2>1 DEF Early
  <2> QED BY <1>0, <2>2, <2>3, <2>4 DEF LocksKept
<1>3. CASE Acquire(d)
  <2>1. /\ pc[d] = "acquire" /\ pc'[d] = "open" /\ \A p \in Processes \ {d} : pc'[p] = pc[p]
        /\ sem' = [sem EXCEPT ![Server] = @ - 1] /\ stale' = stale /\ read' = read
    BY <1>0, <1>3 DEF Acquire, Goto, TypeOK
  <2>2. Holds(d, Server)'
    BY <1>0, <2>1 DEF Holds, Peer
  <2>3. \A p, q \in Processes : Holds(p, q) => Holds(p, q)'
    BY <2>1 DEF Holds, Peer
  <2>4. /\ \A c \in Clients : sem'[c] = sem[c]
        /\ \A c \in Clients : pc'[c] # "idle" => pc[c] # "idle"
    BY <1>0, <2>1 DEF TypeOK
  <2> QED BY <1>0, <2>2, <2>3, <2>4 DEF LocksKept
<1>4. CASE Release(d)
  <2>1. /\ pc[d] = "release" /\ pc'[d] = "close" /\ \A p \in Processes \ {d} : pc'[p] = pc[p]
        /\ sem' = [sem EXCEPT ![Server] = @ + 1] /\ stale' = stale /\ read' = read
    BY <1>0, <1>4 DEF Release, Goto, TypeOK
  <2>2. sem[Server] = 0
    BY <1>0, <1>1, <2>1 DEF Holds
  <2>3. sem'[Server] = 1 /\ \A c \in Clients : sem'[c] = sem[c]
    BY <1>0, <2>1, <2>2 DEF TypeOK
  <2>4. /\ \A c \in Clients : Holds(Server, c) => Holds(Server, c)'
        /\ \A c \in Clients : pc'[c] # "idle" => pc[c] # "idle"
    BY <1>0, <2>1 DEF Holds, Peer
  <2> QED BY <2>3, <2>4 DEF LocksKept
<1>5. CASE ~Getlock(d) /\ ~Acquire(d) /\ ~Release(d)
  <2>1. /\ sem' = sem /\ stale' = stale /\ pc[d] # "idle"
        /\ \A p \in Processes \ {d} : pc'[p] = pc[p] /\ read'[p] = read[p]
        /\ pc[d] \in {"open", "header", "content", "release"} =>
             pc'[d] \in {"open", "header", "content", "release"}
    BY <1>0, <1>5 DEF Step, Open, WriteHeader, WriteContent, Write, Close, OpenInbox, ReadHeader, ReadContent,
       Read, CloseInbox, Goto, locks, TypeOK
  <2>2. \A p, q \in Processes : Holds(p, q) => Holds(p, q)'
    BY <1>0, <2>1 DEF Holds, Peer
  <2>3. Early' <=> Early
    BY <1>0, <2>1 DEF Early
  <2> QED BY <1>0, <2>1, <2>2, <2>3, SameLocks
<1> QED BY <1>2, <1>3, <1>4, <1>5

LEMMA LocksServer ==
  ASSUME IInv, LocksKept, Up, gone = {}, Step(Server) \/ Acquire(Server) \/ ServerStep, ~Fail(Server)
  PROVE  LocksKept'
<1>0. /\ TypeOK /\ ReadOK /\ SemOK /\ Server \in Processes
      /\ \A c \in Clients : c \in Processes /\ c # Server /\ Peer(c) = Server /\ c \notin stale
  BY Parts, Peers DEF IInv, SemOK
<1>1. \A p, q \in Processes : Holds(p, q) => sem[q] = 0
  BY <1>0 DEF SemOK
<1>2. pc[Server] \in Sending => Peer(Server) \in Clients
  BY Peers
<1>3. /\ \A c \in Clients : pc'[c] = pc[c] /\ read'[c] = read[c] /\ (c \in stale' => c \in stale)
      /\ pc[Server] \notin {"create", "semget", "setval"} => pc'[Server] \notin {"create", "semget", "setval"}
  BY <1>0 DEF Step, Acquire, Getlock, Open, WriteHeader, WriteContent, Write, Release, Close, OpenInbox,
     ReadHeader, ReadContent, Read, CloseInbox, ServerStep, Mkfifo, Semget, Setval, Serve, Goto, locks, TypeOK
<1>4. \A c \in Clients : Holds(c, Server) => Holds(c, Server)'
  BY <1>0, <1>3 DEF Holds, Peer
<1>5. CASE Getlock(Server)
  <2>1. /\ pc[Server] = "getlock" /\ ~Early
        /\ sem' = [sem EXCEPT ![Peer(Server)] = IF @ = NoSet THEN 0 ELSE @]
    BY <1>5 DEF Getlock, Goto, Early
  <2>2. \A c \in Clients : ~Holds(Server, c)
    BY <2>1 DEF Holds
  <2>3. /\ sem'[Server] = sem[Server]
        /\ \A c \in Clients : sem[c] = 1 => sem'[c] = 1
    BY <1>0, <1>2, <2>1 DEF TypeOK, NoSet, Sending
  <2> QED BY <1>3, <1>4, <2>1, <2>2, <2>3 DEF LocksKept
<1>6. CASE Acquire(Server)
  <2>1. /\ pc[Server] = "acquire" /\ pc'[Server] = "open" /\ ~Early /\ Server \notin stale'
        /\ sem' = [sem EXCEPT ![Peer(Server)] = @ - 1] /\ read' = read
    BY <1>0, <1>6 DEF Acquire, Goto, Early, TypeOK
  <2>2. \A c \in Clients : ~Holds(Server, c) /\ (c = Peer(Server) => Holds(Server, c)')
    BY <2>1 DEF Holds, Peer
  <2>3. /\ sem'[Server] = sem[Server]
        /\ \A c \in Clients : c # Peer(Server) => sem'[c] = sem[c]
    BY <1>0, <1>2, <2>1 DEF TypeOK, Sending
  <2> QED BY <1>3, <1>4, <2>1, <2>2, <2>3 DEF LocksKept
<1>7. CASE Release(Server)
  <2>1. /\ pc[Server] = "release" /\ ~Early /\ Server \notin stale
        /\ sem' = [sem EXCEPT ![Peer(Server)] = @ + 1]
    BY <1>0, <1>7 DEF Release, Goto, Early
  <2>2. \A c \in Clients : Holds(Server, c) <=> c = Peer(Server)
    BY <2>1 DEF Holds
  <2>3. /\ sem'[Server] = sem[Server]
        /\ \A c \in Clients : IF c = Peer(Server) THEN sem'[c] = 1 ELSE sem'[c] = sem[c]
    BY <1>0, <1>1, <1>2, <2>1, <2>2 DEF TypeOK, Sending
  <2> QED BY <1>3, <1>4, <2>1, <2>2, <2>3 DEF LocksKept
<1>8. CASE Mkfifo \/ Semget \/ Setval
  <2>1. pc[Server] \in {"create", "semget", "setval"} /\ \A c \in Clients : sem'[c] = sem[c]
    BY <1>0, <1>8 DEF Mkfifo, Semget, Setval, locks, Goto, TypeOK
  <2>2. \A c \in Clients : ~Holds(Server, c)
    BY <2>1 DEF Holds
  <2>3. Early' \/ sem'[Server] = 1
    BY <1>0, <1>8 DEF Mkfifo, Semget, Setval, Goto, TypeOK, Early
  <2> QED BY <1>3, <2>1, <2>2, <2>3 DEF LocksKept
<1>9. CASE /\ ~Getlock(Server) /\ ~Acquire(Server) /\ ~Release(Server)
           /\ ~Mkfifo /\ ~Semget /\ ~Setval
  <2>1. /\ sem' = sem /\ stale' = stale
        /\ pc[Server] \notin {"create", "semget", "setval"}
        /\ pc[Server] \in {"open", "header", "content", "release"} =>
             pc'[Server] \in {"open", "header", "content", "release"} /\ read' = read
    BY <1>0, <1>9 DEF Step, Open, WriteHeader, WriteContent, Write, Close, OpenInbox, ReadHeader, ReadContent,
       Read, CloseInbox, ServerStep, Serve, Goto, locks, TypeOK
  <2>2. \A c \in Clients : Holds(Server, c) => Holds(Server, c)'
    BY <2>1 DEF Holds, Peer
  <2>3. \A p, q \in Processes : Holds(p, q) => Holds(p, q)'
    <3>1. \A q \in Processes : Holds(Server, q) => q \in Clients
      BY <1>2 DEF Holds, Sending
    <3>2. \A c \in Clients, q \in Processes : Holds(c, q) => q = Server
      BY <1>0 DEF Holds
    <3> QED BY <1>4, <2>2, <3>1, <3>2 DEF Processes
  <2> QED BY <1>3, <2>1, <2>3, SameLocks DEF Early
<1> QED BY <1>5, <1>6, <1>7, <1>8, <1>9

LEMMA LocksNext == IInv /\ LocksKept /\ [Next]_vars => LocksKept'
<1> SUFFICES ASSUME IInv, LocksKept, [Next]_vars, Up', gone' = {} PROVE LocksKept'
  BY DEF LocksKept
<1>0. /\ Up /\ gone = {} /\ ~Stop /\ \A p \in Processes : ~Kill(p) /\ ~Fail(p)
      /\ TypeOK /\ SemOK /\ Server \in Processes
      /\ \A c \in Clients : c \in Processes /\ c # Server /\ Peer(c) = Server
  BY StillUp, Parts, Peers DEF IInv
<1>1. ASSUME NEW c \in Clients, Connect(c) PROVE LocksKept'
  <2>1. /\ \A p \in Processes \ {c} : pc'[p] = pc[p]
        /\ sem' = [sem EXCEPT ![c] = 1] /\ stale' = stale /\ read' = read /\ pc[c] = "idle"
    BY <1>0, <1>1 DEF Connect, Goto, TypeOK
  <2>2. \A p, q \in Processes : Holds(p, q) => Holds(p, q)'
    BY <2>1 DEF Holds, Peer
  <2>3. /\ sem'[c] = 1 /\ sem'[Server] = sem[Server]
        /\ \A d \in Clients \ {c} : sem'[d] = sem[d] /\ pc'[d] = pc[d]
    BY <1>0, <2>1 DEF TypeOK
  <2>4. Early' <=> Early
    BY <1>0, <2>1 DEF Early
  <2> QED BY <1>0, <2>2, <2>3, <2>4 DEF LocksKept
<1>2. ASSUME NEW c \in Clients, Handle(c) PROVE LocksKept'
  <2>1. /\ pc[c] = "act" /\ pc'[c] = "idle" /\ \A p \in Processes \ {c} : pc'[p] = pc[p]
        /\ sem' = [sem EXCEPT ![c] = NoSet] /\ stale' = (stale \ {c}) \cup Handles(c)
        /\ \A p \in Processes \ {c} : read'[p] = read[p]
    BY <1>0, <1>2 DEF Handle, Goto, Remove, TypeOK
  <2>2. \A p, q \in Processes : Holds(p, q) /\ q # c => Holds(p, q)'
    BY <1>0, <2>1 DEF Holds, Peer, Handles
  <2>3. /\ sem'[Server] = sem[Server]
        /\ \A d \in Clients \ {c} : sem'[d] = sem[d] /\ pc'[d] = pc[d]
    BY <1>0, <2>1 DEF TypeOK
  <2>4. Early' <=> Early
    BY <1>0, <2>1 DEF Early
  <2> QED BY <1>0, <2>1, <2>2, <2>3, <2>4 DEF LocksKept
<1>3. CASE UNCHANGED vars
  <2>1. UNCHANGED <<pc, sem, stale, read>>
    BY <1>3 DEF vars
  <2> QED BY <1>0, <2>1, SameLocks DEF Early, Holds, Peer
<1>4. ASSUME NEW p \in Processes, Step(p) \/ Acquire(p) PROVE LocksKept'
  BY <1>0, <1>4, LocksClient, LocksServer DEF Processes
<1>5. CASE ServerStep
  BY <1>0, <1>5, LocksServer
<1> QED BY <1>0, <1>1, <1>2, <1>3, <1>4, <1>5 DEF Next
-----------------------------------------------------------------------------
(* Messages.                                                               *)

(* What a close does not discard stays where it is.                        *)
LEMMA UsedKeeps ==
  ASSUME IInv, gone = {}, NEW c \in Clients, NEW byNow \in [Processes -> SUBSET Processes],
         Used(byNow), c \notin lost'
  PROVE  (Queued(c) => Queued(c)') /\ (data[c] # <<>> => data'[c] # <<>>)
<1>0. TypeOK /\ InboxOK /\ c \in Processes /\ Server \in Processes
  BY Parts DEF IInv
<1>1. \A q \in Processes : byNow[q] # {} => data'[q] = data[q]
  BY UsedFacts
<1>2. ASSUME NEW q \in Processes, NEW i \in DOMAIN data[q], data[q][i].of = c PROVE byNow[q] # {}
  <2>1. i \in 1 .. Len(data[q])
    BY <1>0 DEF TypeOK
  <2> QED BY <1>2, <2>1 DEF Used
<1>3. ASSUME Queued(c) PROVE Queued(c)'
  <2>1. PICK i \in DOMAIN data[Server] : data[Server][i] = Hd(c, c)
    BY <1>3 DEF Queued
  <2>2. data[Server][i].of = c
    BY <2>1 DEF Hd
  <2> QED BY <1>0, <1>1, <1>2, <2>1, <2>2 DEF Queued
<1>4. ASSUME data[c] # <<>> PROVE data'[c] # <<>>
  <2>1. data[c] \in {<<Hd(Server, c)>>, <<Ct(Server, c)>>, <<Hd(Server, c), Ct(Server, c)>>}
    BY <1>0, <1>4 DEF InboxOK
  <2>2. 1 \in DOMAIN data[c] /\ data[c][1] \in {Hd(Server, c), Ct(Server, c)}
    BY <2>1, Sequences2
  <2>3. data[c][1].of = c
    BY <2>2 DEF Hd, Ct
  <2> QED BY <1>0, <1>1, <1>2, <1>4, <2>2, <2>3
<1> QED BY <1>3, <1>4

(* A part is added to the inbox of q.                                      *)
LEMMA Written ==
  ASSUME TypeOK, NEW q \in Processes, NEW x \in Part, data' = [data EXCEPT ![q] = Append(@, x)]
  PROVE  /\ \A c \in Clients : /\ Queued(c) => Queued(c)'
                               /\ data[c] # <<>> => data'[c] # <<>>
         /\ data'[q] # <<>>
         /\ q = Server => \A c \in Clients : x = Hd(c, c) => Queued(c)'
<1>0. data[q] \in Seq(Part) /\ Server \in Processes /\ \A c \in Clients : c \in Processes
  BY Parts DEF TypeOK
<1>1. data'[q] = Append(data[q], x) /\ \A r \in Processes \ {q} : data'[r] = data[r]
  BY DEF TypeOK
<1>2. /\ data'[q] # <<>>
      /\ \A i \in DOMAIN data[q] : i \in DOMAIN data'[q] /\ data'[q][i] = data[q][i]
      /\ Len(data[q]) + 1 \in DOMAIN data'[q] /\ data'[q][Len(data[q]) + 1] = x
  <2>1. Len(data[q]) \in Nat /\ DOMAIN Append(data[q], x) = 1 .. (Len(data[q]) + 1)
    BY <1>0, Appended
  <2>2. Len(data[q]) + 1 \in 1 .. (Len(data[q]) + 1)
    BY <2>1
  <2> QED BY <1>0, <1>1, <2>1, <2>2, Appended
<1>3. ASSUME NEW c \in Clients, Queued(c) PROVE Queued(c)'
  <2>1. PICK i \in DOMAIN data[Server] : data[Server][i] = Hd(c, c)
    BY <1>3 DEF Queued
  <2>2. i \in DOMAIN data'[Server] /\ data'[Server][i] = Hd(c, c)
    BY <1>0, <1>1, <1>2, <2>1
  <2> QED BY <2>2 DEF Queued
<1>4. ASSUME q = Server, NEW c \in Clients, x = Hd(c, c) PROVE Queued(c)'
  BY <1>2, <1>4 DEF Queued
<1> QED BY <1>0, <1>1, <1>2, <1>3, <1>4

(* A part that is no header of c's request is taken out of an inbox.       *)
LEMMA ReadPast ==
  ASSUME TypeOK, data[Server] # <<>>, data'[Server] = Tail(data[Server]),
         NEW c \in Clients, Queued(c), data[Server][1] # Hd(c, c)
  PROVE  Queued(c)'
<1>0. data[Server] \in Seq(Part)
  BY Parts DEF TypeOK
<1>1. PICK i \in DOMAIN data[Server] : data[Server][i] = Hd(c, c)
  BY DEF Queued
<1>2. Len(data[Server]) \in Nat \ {0} /\ i \in 1 .. Len(data[Server]) /\ i # 1
  BY <1>0, <1>1, Taken
<1>3. i - 1 \in 1 .. (Len(data[Server]) - 1) /\ i - 1 + 1 = i
  BY <1>2
<1>4. i - 1 \in DOMAIN data'[Server] /\ data'[Server][i - 1] = data[Server][i - 1 + 1]
  BY <1>0, <1>3, Taken
<1>5. data'[Server][i - 1] = Hd(c, c)
  BY <1>1, <1>3, <1>4
<1> QED BY <1>4, <1>5 DEF Queued

(* A step that changes no inbox.                                           *)
LEMMA SameMessages ==
  ASSUME MessagesKept, Up, gone = {}, data' = data, lost' = lost,
         \A c \in Clients : Sent(c)' => Sent(c),
         \A c \in Clients : Serving(c) => Serving(c)'
  PROVE  MessagesKept'
<1> SUFFICES ASSUME NEW c \in Clients \ lost', Sent(c)' PROVE Somewhere(c)'
  BY DEF MessagesKept
<1>1. Somewhere(c)
  BY DEF MessagesKept
<1>2. Queued(c)' <=> Queued(c)
  BY DEF Queued
<1> QED BY <1>1, <1>2 DEF Somewhere

LEMMA MessagesClient ==
  ASSUME IInv, MessagesKept, Up, gone = {}, NEW d \in Clients, Step(d) \/ Acquire(d) \/ Connect(d) \/ Handle(d),
         ~Fail(d)
  PROVE  MessagesKept'
<1> SUFFICES ASSUME NEW c \in Clients, c \notin lost', Sent(c)' PROVE Somewhere(c)'
  BY DEF MessagesKept
<1>0. /\ TypeOK /\ UsersOK /\ InboxOK /\ d # Server /\ d \in Processes /\ Server \in Processes
      /\ \A e \in Clients : e \in Processes /\ e # Server /\ Peer(e) = Server /\ Subject(e) = e
  BY Parts, Peers DEF IInv
<1>1. /\ \A p \in Processes \ {d} : pc'[p] = pc[p] /\ read'[p] = read[p]
      /\ Serving(c)' <=> Serving(c)
  <2>1. \A p \in Processes \ {d} : pc'[p] = pc[p]
    BY <1>0 DEF Step, Acquire, Connect, Handle, Getlock, Open, WriteHeader, WriteContent, Release, Close,
       OpenInbox, ReadHeader, ReadContent, CloseInbox, Goto, TypeOK
  <2>2. \A p \in Processes \ {d} : read'[p] = read[p]
    BY <1>0 DEF Step, Acquire, Connect, Handle, Getlock, Open, WriteHeader, WriteContent, Write, Release, Close,
       OpenInbox, ReadHeader, Read, ReadContent, CloseInbox, TypeOK
  <2> QED BY <1>0, <2>1, <2>2 DEF Serving
<1>2. lost \subseteq lost'
  BY DEF Step, Acquire, Connect, Handle, Getlock, Open, WriteHeader, WriteContent, Write, Release, Close,
     CloseOne, Used, OpenInbox, ReadHeader, Read, ReadContent, CloseInbox, pipes
<1>3. Sent(c) => Somewhere(c)
  BY <1>2 DEF MessagesKept
<1>4. CASE WriteHeader(d)
  <2>1. /\ pc[d] = "header" /\ pc'[d] = "content" /\ d \in users[Server]
        /\ data' = [data EXCEPT ![Server] = Append(@, Hd(d, d))]
    BY <1>0, <1>4 DEF WriteHeader, Write, Goto, UsersOK, TypeOK, Hd
  <2>2. Hd(d, d) \in Part
    BY <1>0, Parts
  <2>3. (Queued(c) => Queued(c)') /\ (data[c] # <<>> => data'[c] # <<>>) /\ (c = d => Queued(c)')
    BY <1>0, <2>1, <2>2, Written
  <2>4. c # d => Sent(c)
    BY <1>0, <1>1 DEF Sent
  <2> QED BY <1>1, <1>3, <2>3, <2>4 DEF Somewhere
<1>5. CASE WriteContent(d)
  <2>1. /\ pc[d] = "content" /\ d \in users[Server]
        /\ data' = [data EXCEPT ![Server] = Append(@, Ct(d, d))]
    BY <1>0, <1>5 DEF WriteContent, Write, Goto, UsersOK, TypeOK, Ct
  <2>2. Ct(d, d) \in Part
    BY <1>0, Parts
  <2>3. (Queued(c) => Queued(c)') /\ (data[c] # <<>> => data'[c] # <<>>)
    BY <1>0, <2>1, <2>2, Written
  <2>4. Sent(c)
    BY <1>0, <1>1, <2>1 DEF Sent
  <2> QED BY <1>1, <1>3, <2>3, <2>4 DEF Somewhere
<1>6. CASE ReadHeader(d) \/ ReadContent(d)
  <2>1. /\ pc'[d] \in {"readContent", "closeInbox"}
        /\ \A p \in Processes \ {d} : data'[p] = data[p]
    BY <1>0, <1>6 DEF ReadHeader, ReadContent, Read, Goto, TypeOK
  <2>2. c # d /\ Sent(c)
    BY <1>0, <1>1, <2>1 DEF Sent
  <2>3. data'[c] = data[c] /\ (Queued(c) => Queued(c)')
    BY <1>0, <2>1, <2>2 DEF Queued
  <2> QED BY <1>1, <1>3, <2>2, <2>3 DEF Somewhere
<1>7. CASE Close(d) \/ CloseInbox(d) \/ Handle(d)
  <2>1. \E byNow \in [Processes -> SUBSET Processes] : Used(byNow)
    <3>1. /\ [users EXCEPT ![Peer(d)] = @ \ {d}] \in [Processes -> SUBSET Processes]
          /\ [users EXCEPT ![d] = @ \ {d}] \in [Processes -> SUBSET Processes]
          /\ [users EXCEPT ![d] = {}] \in [Processes -> SUBSET Processes]
      BY <1>0 DEF TypeOK
    <3> QED BY <1>7, <3>1 DEF Close, CloseInbox, Handle, CloseOne
  <2>2. (Queued(c) => Queued(c)') /\ (data[c] # <<>> => data'[c] # <<>>)
    BY <2>1, UsedKeeps
  <2>3. Sent(c)
    <3>1. (pc[d] = "close" /\ pc'[d] = "inbox") \/ pc'[d] \in {"act", "idle"}
      BY <1>0, <1>7 DEF Close, CloseInbox, Handle, Goto, TypeOK
    <3> QED BY <1>0, <1>1, <3>1 DEF Sent
  <2> QED BY <1>1, <1>3, <2>2, <2>3 DEF Somewhere
<1>8. CASE Getlock(d) \/ Acquire(d) \/ Open(d) \/ Release(d) \/ OpenInbox(d) \/ Connect(d)
  <2>1. data' = data
    BY <1>8 DEF Getlock, Acquire, Open, Release, OpenInbox, Connect, pipes
  <2>2. Sent(c)
    <3>1. (pc[d] = "release" /\ pc'[d] = "close") \/ (pc[d] = "inbox" /\ pc'[d] = "readHeader")
          \/ pc'[d] \in {"acquire", "open", "header", "getlock"}
      BY <1>0, <1>8 DEF Getlock, Acquire, Open, Release, OpenInbox, Connect, Goto, TypeOK
    <3> QED BY <1>0, <1>1, <3>1 DEF Sent
  <2>3. Queued(c)' <=> Queued(c)
    BY <2>1 DEF Queued
  <2> QED BY <1>1, <1>3, <2>1, <2>2, <2>3 DEF Somewhere
<1> QED BY <1>4, <1>5, <1>6, <1>7, <1>8 DEF Step

LEMMA MessagesServer ==
  ASSUME IInv, MessagesKept, Up, gone = {}, Step(Server) \/ Acquire(Server) \/ ServerStep, ~Fail(Server)
  PROVE  MessagesKept'
<1> SUFFICES ASSUME NEW c \in Clients, c \notin lost', Sent(c)' PROVE Somewhere(c)'
  BY DEF MessagesKept
<1>0. /\ TypeOK /\ ReadOK /\ UsersOK /\ StreamOK /\ InboxOK /\ Server \in Processes
      /\ \A e \in Clients : e \in Processes /\ e # Server
  BY Parts DEF IInv
<1>1. \A e \in Clients : pc'[e] = pc[e]
  BY <1>0 DEF Step, Acquire, Getlock, Open, WriteHeader, WriteContent, Release, Close, OpenInbox,
     ReadHeader, ReadContent, CloseInbox, ServerStep, Mkfifo, Semget, Setval, Serve, Goto, TypeOK
<1>2. lost \subseteq lost'
  BY DEF Step, Acquire, Getlock, Open, WriteHeader, WriteContent, Write, Release, Close, CloseOne, Used, OpenInbox,
     ReadHeader, Read, ReadContent, CloseInbox, ServerStep, Mkfifo, Semget, Setval, Serve, pipes
<1>3. Somewhere(c)
  BY <1>1, <1>2 DEF MessagesKept, Sent
<1>4. CASE WriteHeader(Server) \/ WriteContent(Server)
  <2>1. pc[Server] \in {"header", "content"}
    BY <1>4 DEF WriteHeader, WriteContent, Goto
  <2>2. PICK d \in Clients : /\ Peer(Server) = d /\ Subject(Server) = d
                             /\ read[Server] = <<Hd(d, d), Ct(d, d)>>
    BY <2>1, Peers DEF Sending
  <2>3. Server \in users[d]
    BY <1>0, <2>1, <2>2 DEF UsersOK
  <2>4. PICK x \in Part : data' = [data EXCEPT ![d] = Append(@, x)]
    <3>1. Hd(Server, d) \in Part /\ Ct(Server, d) \in Part
      BY <1>0, Parts
    <3>2. \/ data' = [data EXCEPT ![d] = Append(@, Hd(Server, d))]
          \/ data' = [data EXCEPT ![d] = Append(@, Ct(Server, d))]
      BY <1>4, <2>2, <2>3 DEF WriteHeader, WriteContent, Write, Hd, Ct
    <3> QED BY <3>1, <3>2
  <2>5. /\ Queued(c) => Queued(c)'
        /\ data[c] # <<>> => data'[c] # <<>>
        /\ data'[d] # <<>>
    BY <1>0, <2>4, Written
  <2>6. Serving(c) => c = d
    BY <2>2 DEF Serving, Peer
  <2>7. CASE c = d
    BY <2>5, <2>7 DEF Somewhere
  <2>8. CASE c # d
    BY <1>3, <2>5, <2>6, <2>8 DEF Somewhere
  <2> QED BY <2>7, <2>8
<1>5. CASE ReadHeader(Server)
  <2>1. /\ pc[Server] = "readHeader" /\ pc'[Server] = "readContent" /\ data[Server] # <<>>
        /\ read'[Server] = Append(read[Server], Head(data[Server])) /\ data'[Server] = Tail(data[Server])
        /\ data'[c] = data[c]
    BY <1>0, <1>5 DEF ReadHeader, Read, Goto, TypeOK
  <2>2. read[Server] = <<>> /\ Head(data[Server]) = data[Server][1] /\ data[Server] \in Seq(Part)
    BY <1>0, <2>1, Taken DEF ReadOK, TypeOK
  <2>3. ~Serving(c)
    BY <2>1 DEF Serving
  <2>4. ASSUME data[Server][1] = Hd(c, c) PROVE Serving(c)'
    <3>1. read'[Server] = <<Hd(c, c)>>
      BY <2>1, <2>2, <2>4, Sequences2
    <3>2. read'[Server][1].from = c
      BY <3>1, Sequences2 DEF Hd
    <3> QED BY <2>1, <3>2 DEF Serving
  <2>5. ASSUME data[Server][1] # Hd(c, c), Queued(c) PROVE Queued(c)'
    BY <1>0, <2>1, <2>5, ReadPast
  <2> QED BY <1>3, <2>1, <2>3, <2>4, <2>5 DEF Somewhere
<1>6. CASE ReadContent(Server)
  <2>1. /\ pc[Server] = "readContent" /\ pc'[Server] = "closeInbox" /\ data[Server] # <<>>
        /\ read'[Server] = Append(read[Server], Head(data[Server])) /\ data'[Server] = Tail(data[Server])
        /\ data'[c] = data[c]
    BY <1>0, <1>6 DEF ReadContent, Read, Goto, TypeOK
  <2>2. PICK d \in Clients : read[Server] = <<Hd(d, d)>> /\ data[Server][1] = Ct(d, d)
    BY <1>0, <2>1 DEF StreamOK
  <2>3. data[Server][1] # Hd(c, c)
    BY <2>2 DEF Hd, Ct
  <2>4. Queued(c) => Queued(c)'
    BY <1>0, <2>1, <2>3, ReadPast
  <2>5. read'[Server][1] = read[Server][1]
    <3>1. data[Server] \in Seq(Part) /\ Head(data[Server]) = Ct(d, d)
      BY <1>0, <2>1, <2>2, Taken DEF TypeOK
    <3>2. read'[Server] = <<Hd(d, d), Ct(d, d)>>
      BY <2>1, <2>2, <3>1, Replies
    <3>3. read'[Server][1] = Hd(d, d)
      BY <3>2, Sequences2
    <3>4. read[Server][1] = Hd(d, d)
      BY <2>2, Sequences2
    <3> QED BY <3>3, <3>4
  <2>6. Serving(c) => Serving(c)'
    BY <2>1, <2>5 DEF Serving
  <2> QED BY <1>3, <2>1, <2>4, <2>6 DEF Somewhere
<1>7. CASE Close(Server) \/ CloseInbox(Server)
  <2>1. \E byNow \in [Processes -> SUBSET Processes] : Used(byNow)
    <3>1. /\ [users EXCEPT ![Peer(Server)] = @ \ {Server}] \in [Processes -> SUBSET Processes]
          /\ [users EXCEPT ![Server] = @ \ {Server}] \in [Processes -> SUBSET Processes]
      BY <1>0 DEF TypeOK
    <3> QED BY <1>7, <3>1 DEF Close, CloseInbox, CloseOne
  <2>2. (Queued(c) => Queued(c)') /\ (data[c] # <<>> => data'[c] # <<>>)
    BY <2>1, UsedKeeps
  <2>3. Serving(c) => Serving(c)'
    <3>1. CASE Close(Server)
      BY <3>1 DEF Close, Goto, Serving
    <3>2. CASE CloseInbox(Server)
      <4>1. pc'[Server] = "act" /\ read' = read
        BY <1>0, <3>2 DEF CloseInbox, Goto, TypeOK
      <4> QED BY <4>1 DEF Serving
    <3> QED BY <1>7, <3>1, <3>2
  <2> QED BY <1>3, <2>2, <2>3 DEF Somewhere
<1>8. CASE \/ Getlock(Server) \/ Acquire(Server) \/ Open(Server) \/ Release(Server) \/ OpenInbox(Server)
           \/ ServerStep
  <2>1. data' = data /\ read' = read
    BY <1>8 DEF Getlock, Acquire, Open, Release, OpenInbox, ServerStep, Mkfifo, Semget, Setval, Serve, pipes
  <2>2. Serving(c) => Serving(c)'
    <3>1. \/ pc[Server] \in {"release", "inbox", "create", "semget", "setval"}
          \/ pc'[Server] \in {"getlock", "acquire", "open", "header"}
      BY <1>0, <1>8 DEF Getlock, Acquire, Open, Release, OpenInbox, ServerStep, Mkfifo, Semget, Setval, Serve,
         Goto, TypeOK
    <3> QED BY <2>1, <3>1 DEF Serving
  <2>3. Queued(c)' <=> Queued(c)
    BY <2>1 DEF Queued
  <2> QED BY <1>3, <2>1, <2>2, <2>3 DEF Somewhere
<1> QED BY <1>4, <1>5, <1>6, <1>7, <1>8 DEF Step

LEMMA MessagesNext == IInv /\ MessagesKept /\ [Next]_vars => MessagesKept'
<1> SUFFICES ASSUME IInv, MessagesKept, [Next]_vars, Up', gone' = {} PROVE MessagesKept'
  BY DEF MessagesKept
<1>1. Up /\ gone = {} /\ ~Stop /\ \A p \in Processes : ~Kill(p) /\ ~Fail(p)
  BY StillUp
<1>2. CASE UNCHANGED vars
  BY <1>1, <1>2, SameMessages DEF vars, Sent, Serving
<1>3. ASSUME NEW p \in Processes, Step(p) \/ Acquire(p) PROVE MessagesKept'
  BY <1>1, <1>3, MessagesClient, MessagesServer DEF Processes
<1>4. ASSUME NEW c \in Clients, Connect(c) \/ Handle(c) PROVE MessagesKept'
  BY <1>1, <1>4, Parts, MessagesClient
<1>5. CASE ServerStep
  BY <1>1, <1>5, Parts, MessagesServer
<1> QED BY <1>1, <1>2, <1>3, <1>4, <1>5 DEF Next
-----------------------------------------------------------------------------
LEMMA LInvariance == Spec => []LInv
<1>1. Init => LocksKept /\ MessagesKept
  BY Parts DEF Init, LocksKept, MessagesKept, Early, Sent
<1> QED BY <1>1, LocksNext, MessagesNext, Invariance, PTL DEF Spec, FInv, LInv

(* While the server runs and nobody was killed, whenever a client is in a  *)
(* call about which no message was discarded, some process has a step to   *)
(* take: the semaphores and the inboxes never make all of them wait for    *)
(* each other, however many calls meet (fifo.c:79, 129-138, 143-160).      *)
THEOREM SomebodyRuns == Spec => []NoStandstill
<1>1. LInv => NoStandstill
  <2> SUFFICES ASSUME LInv, Up, gone = {}, NEW c \in Clients \ lost, pc[c] # "idle",
                      \A p \in Processes : ~CanGo(p)
               PROVE  FALSE
    BY DEF NoStandstill
  <2>0. /\ TypeOK /\ ReadOK /\ SemOK /\ StreamOK /\ RequestOK /\ InboxOK /\ Server \in Processes
        /\ \A d \in Clients : d \in Processes /\ d # Server /\ Peer(d) = Server
    BY Parts, Peers DEF LInv, IInv
  <2>1. pc[Server] \in {"acquire", "readHeader", "readContent"}
    BY <2>0 DEF CanGo, ReadOK, Up
  <2>2. sem[Server] = 1
    <3>1. ASSUME NEW d \in Clients, Holds(d, Server) PROVE CanGo(d)
      BY <3>1 DEF Holds, CanGo
    <3> QED BY <2>0, <2>1, <3>1 DEF LInv, LocksKept, Early
  <2>3. pc[Server] # "readContent"
    <3> SUFFICES ASSUME pc[Server] = "readContent" PROVE FALSE
      OBVIOUS
    <3>1. data[Server] = <<>>
      BY <2>0 DEF CanGo
    <3>2. Unfinished
      BY <3>1 DEF Unfinished
    <3> QED BY <2>0, <2>2, <3>2 DEF StreamOK
  <2>4. pc[Server] # "acquire"
    <3> SUFFICES ASSUME pc[Server] = "acquire" PROVE FALSE
      OBVIOUS
    <3>1. PICK d \in Clients : d = Peer(Server)
      BY Peers DEF LInv, Sending
    <3>2. ~(sem[d] > 0)
      BY <2>0, <3>1 DEF CanGo
    <3>3. pc[d] = "idle"
      BY <3>2 DEF LInv, LocksKept, Holds
    <3>4. Serving(d)
      BY <3>1 DEF Serving, Peer
    <3> QED BY <2>0, <3>3, <3>4 DEF RequestOK
  <2>5. pc[Server] = "readHeader" /\ data[Server] = <<>>
    BY <2>0, <2>1, <2>3, <2>4 DEF CanGo
  <2>6. pc[c] # "acquire"
    BY <2>0, <2>2 DEF CanGo
  <2>7. pc[c] \in {"readHeader", "readContent"} /\ data[c] = <<>>
    BY <2>0, <2>6 DEF CanGo, ReadOK, Sending
  <2>8. pc[c] # "readContent"
    BY <2>0, <2>5, <2>7, Sequences2 DEF InboxOK, Halfway
  <2>9. Somewhere(c)
    BY <2>7, <2>8 DEF LInv, MessagesKept, Sent
  <2>10. ~Queued(c) /\ ~Serving(c)
    BY <2>5, Sequences2 DEF Queued, Serving
  <2> QED BY <2>7, <2>9, <2>10 DEF Somewhere
<1> QED BY <1>1, LInvariance, PTL
=============================================================================
