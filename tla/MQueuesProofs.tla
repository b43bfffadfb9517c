--------------------------- MODULE MQueuesProofs ---------------------------
(***************************************************************************)
(* Theorems about the message queue transport, for any number of clients,  *)
(* any capacity, and whichever process is stopped or killed.               *)
(***************************************************************************)
EXTENDS MQueues, SequenceTheorems, FiniteSetTheorems, TLAPS

(* What the server works on is a request, or the reply to one.             *)
MsgOK ==
  /\ spc = "serve" => \E c \in Clients : msg = Req(c)
  /\ spc = "send" => \E c \in Clients, n \in {1, ListSize} : msg = Res(c, n)

TInv == TypeOK /\ MsgOK /\ OwnInbox

(* Where the message of client c is.                                       *)
Queued(c)  == \E i \in 1 .. Len(inbox[Server]) : inbox[Server][i] = Req(c)
Busy(c)    == spc \in {"serve", "send"} /\ msg.of = c
Replied(c) == Len(inbox[c]) > 0

(* The call of a client is one message, in one place.                      *)
Single(c) ==
  /\ \A i, j \in 1 .. Len(inbox[Server]) :
       inbox[Server][i] = Req(c) /\ inbox[Server][j] = Req(c) => i = j
  /\ Len(inbox[c]) <= 1

Apart(c) ==
  ~(Queued(c) /\ Busy(c)) /\ ~(Queued(c) /\ Replied(c)) /\ ~(Busy(c) /\ Replied(c))

(* Where it is agrees with how far the client and the call are, unless the *)
(* client was killed.                                                      *)
Pending(c) ==
  /\ Queued(c) \/ Busy(c) \/ Replied(c) => cpc[c] = "recv" /\ attached[c]
  /\ Queued(c) \/ (Busy(c) /\ spc = "serve") => stage[c] = "asked"
  /\ Replied(c) \/ (Busy(c) /\ spc = "send") => stage[c] = "served"
  /\ cpc[c] = "recv" /\ attached[c] /\ ~ServerKilled => Queued(c) \/ Busy(c) \/ Replied(c)

CallInv == /\ \A c \in Clients : Single(c) /\ Apart(c)
           /\ \A c \in Clients \ gone : Pending(c)

Stages ==
  \A c \in Clients : /\ cpc[c] = "idle" <=> stage[c] = "idle"
                     /\ cpc[c] = "send" => stage[c] = "asked"
                     /\ c \in gone => cpc[c] = "idle"

IInv == TInv /\ CallInv /\ Stages /\ (~killed => gone = {})
-----------------------------------------------------------------------------
LEMMA MessageTypes ==
  /\ Server \in Ids /\ Clients \subseteq Ids /\ Server \notin Clients
  /\ \A c \in Clients : Req(c) \in Message /\ \A n \in {1, ListSize} : Res(c, n) \in Message
  /\ \A m \in Message : m.size \in Int
BY MQueuesAssumption DEF Ids, Message, Req, Res

LEMMA MessageFields ==
  /\ \A c, d : Req(c) = Req(d) => c = d
  /\ \A c : Req(c).of = c /\ Req(c).sender = c /\ Req(c).size = 1
  /\ \A c, n : Res(c, n).of = c /\ Res(c, n).size = n /\ Owner(Res(c, n)) = c
<1>1. \A c : Req(c).of = c /\ Req(c).sender = c /\ Req(c).size = 1
  BY DEF Req
<1>2. \A c, d : Req(c) = Req(d) => c = d
  BY <1>1
<1>3. \A c, n : Res(c, n).of = c /\ Res(c, n).size = n /\ Owner(Res(c, n)) = c
  BY DEF Res, Owner
<1> QED BY <1>1, <1>2, <1>3

(* msgsnd adds its message behind the others of its type.                  *)
LEMMA Posting ==
  ASSUME TypeOK, NEW to \in Ids, NEW m \in Message, msgsnd(to, m)
  PROVE  /\ inbox' \in [Ids -> Seq(Message)] /\ used' \in Int /\ used' <= Capacity
         /\ \A i \in Ids \ {to} : inbox'[i] = inbox[i]
         /\ Len(inbox'[to]) = Len(inbox[to]) + 1
         /\ \A k \in 1 .. Len(inbox[to]) : inbox'[to][k] = inbox[to][k]
         /\ inbox'[to][Len(inbox[to]) + 1] = m
         /\ Len(inbox[to]) \in Nat
<1>1. inbox' = [inbox EXCEPT ![to] = Append(inbox[to], m)] /\ inbox[to] \in Seq(Message)
  BY DEF msgsnd, TypeOK
<1>2. used' \in Int /\ used' <= Capacity
  BY MessageTypes, MQueuesAssumption DEF msgsnd, TypeOK
<1>3. /\ Append(inbox[to], m) \in Seq(Message)
      /\ Len(Append(inbox[to], m)) = Len(inbox[to]) + 1
      /\ \A k \in 1 .. Len(inbox[to]) : Append(inbox[to], m)[k] = inbox[to][k]
      /\ Append(inbox[to], m)[Len(inbox[to]) + 1] = m
  BY <1>1, AppendProperties
<1>4. inbox'[to] = Append(inbox[to], m) /\ \A i \in Ids \ {to} : inbox'[i] = inbox[i]
  BY <1>1 DEF TypeOK
<1>5. inbox' \in [Ids -> Seq(Message)]
  BY <1>1, <1>3 DEF TypeOK
<1>6. Len(inbox[to]) \in Nat
  BY <1>1, LenProperties
<1> QED BY <1>2, <1>3, <1>4, <1>5, <1>6

(* msgrcv takes the first one of its type.                                 *)
LEMMA Taking ==
  ASSUME TypeOK, NEW type \in Ids, msgrcv(type)
  PROVE  /\ inbox' \in [Ids -> Seq(Message)] /\ used' \in Int /\ used' <= used
         /\ \A i \in Ids \ {type} : inbox'[i] = inbox[i]
         /\ Len(inbox[type]) \in Nat \ {0} /\ Len(inbox'[type]) = Len(inbox[type]) - 1
         /\ \A k \in 1 .. Len(inbox'[type]) : inbox'[type][k] = inbox[type][k + 1]
         /\ Head(inbox[type]) = inbox[type][1] /\ Head(inbox[type]) \in Message
<1>1. inbox' = [inbox EXCEPT ![type] = Tail(inbox[type])] /\ inbox[type] \in Seq(Message)
  BY DEF msgrcv, TypeOK
<1>2. inbox[type] # <<>>
  BY DEF msgrcv
<1>3. /\ Head(inbox[type]) \in Message
      /\ Tail(inbox[type]) \in Seq(Message)
      /\ Len(Tail(inbox[type])) = Len(inbox[type]) - 1
      /\ \A k \in 1 .. Len(Tail(inbox[type])) : Tail(inbox[type])[k] = inbox[type][k + 1]
  BY <1>1, <1>2, HeadTailProperties
<1>4. Len(inbox[type]) \in Nat \ {0}
  BY <1>1, <1>2, EmptySeq
<1>5. Head(inbox[type]) = inbox[type][1]
  <2>1. \A q \in Seq(Message) : q # <<>> => Head(q) = q[1]
    OBVIOUS
  <2> QED BY <1>1, <1>2, <2>1
<1>6. used' \in Int /\ used' <= used
  <2>1. \A m \in Message : m.size \in Nat
    BY MQueuesAssumption DEF Message
  <2> QED BY <1>3, <2>1 DEF msgrcv, TypeOK
<1>7. inbox'[type] = Tail(inbox[type]) /\ \A i \in Ids \ {type} : inbox'[i] = inbox[i]
  BY <1>1 DEF TypeOK
<1>8. inbox' \in [Ids -> Seq(Message)]
  BY <1>1, <1>3 DEF TypeOK
<1> QED BY <1>3, <1>4, <1>5, <1>6, <1>7, <1>8

LEMMA EmptyQueue ==
  ASSUME NEW i \in Ids
  PROVE  Empty \in [Ids -> Seq(Message)] /\ Empty[i] = <<>> /\ Len(Empty[i]) = 0
BY EmptySeq DEF Empty
-----------------------------------------------------------------------------
LEMMA TypeInit == Init => TInv
<1> SUFFICES ASSUME Init PROVE TInv
  OBVIOUS
<1>1. inbox = Empty /\ used = 0 /\ spc = "recv" /\ msg = <<>>
  BY DEF Init
<1>2. inbox \in [Ids -> Seq(Message)] /\ \A i \in Ids : inbox[i] = <<>> /\ Len(inbox[i]) = 0
  <2>1. Server \in Ids
    BY MessageTypes
  <2> QED BY <1>1, <2>1, EmptyQueue
<1>3. TypeOK
  <2>1. inbox \in [Ids -> Seq(Message)] /\ used \in Int /\ used <= Capacity
    BY <1>1, <1>2, MQueuesAssumption
  <2>2. msg \in Message \cup {<<>>} /\ spc \in {"down", "recv", "serve", "send"}
    BY <1>1
  <2> QED BY <2>1, <2>2 DEF Init, TypeOK
<1>4. OwnInbox
  BY <1>2, MessageTypes DEF OwnInbox
<1> QED BY <1>1, <1>3, <1>4 DEF TInv, MsgOK

LEMMA TypeNext == TInv /\ [Next]_vars => TInv'
<1> SUFFICES ASSUME TInv, [Next]_vars PROVE TInv'
  OBVIOUS
<1> USE MessageTypes
<1>0. TypeOK /\ MsgOK /\ OwnInbox
  BY DEF TInv
<1>1. CASE SRecv
  <2>1. msgrcv(Server)
    BY <1>1 DEF SRecv
  <2>2. /\ inbox' \in [Ids -> Seq(Message)] /\ used' \in Int /\ used' <= used
        /\ \A i \in Ids \ {Server} : inbox'[i] = inbox[i]
        /\ Len(inbox[Server]) \in Nat \ {0} /\ Len(inbox'[Server]) = Len(inbox[Server]) - 1
        /\ \A k \in 1 .. Len(inbox'[Server]) : inbox'[Server][k] = inbox[Server][k + 1]
        /\ Head(inbox[Server]) = inbox[Server][1] /\ Head(inbox[Server]) \in Message
    BY <1>0, <2>1, Taking
  <2>3. /\ 1 \in 1 .. Len(inbox[Server])
        /\ \A k \in 1 .. Len(inbox'[Server]) : k + 1 \in 1 .. Len(inbox[Server])
    BY <2>2
  <2>4. \E c \in Clients : Head(inbox[Server]) = Req(c)
    BY <1>0, <2>2, <2>3 DEF OwnInbox
  <2>5. OwnInbox'
    <3>1. \A i \in 1 .. Len(inbox'[Server]) : \E c \in Clients : inbox'[Server][i] = Req(c)
      <4> TAKE i \in 1 .. Len(inbox'[Server])
      <4>1. inbox'[Server][i] = inbox[Server][i + 1]
        BY <2>2
      <4>2. i + 1 \in 1 .. Len(inbox[Server])
        BY <2>3
      <4> QED BY <1>0, <4>1, <4>2 DEF OwnInbox
    <3>2. \A c \in Clients : inbox'[c] = inbox[c]
      BY <2>2
    <3> QED BY <1>0, <3>1, <3>2 DEF OwnInbox
  <2>6. MsgOK'
    BY <1>1, <2>4 DEF SRecv, MsgOK
  <2>7. TypeOK'
    BY <1>0, <1>1, <2>2, MQueuesAssumption DEF SRecv, TypeOK, faulty
  <2> QED BY <2>5, <2>6, <2>7 DEF TInv
<1>2. CASE SServe
  <2>1. PICK c \in Clients : msg = Req(c)
    BY <1>0, <1>2 DEF SServe, MsgOK
  <2>2. msg.sender = c
    BY <2>1, MessageFields
  <2>3. PICK n \in {1, ListSize} : msg' = Res(c, n)
    BY <1>2, <2>2 DEF SServe
  <2>4. stage' \in [Clients -> {"idle", "asked", "served", "again"}]
    <3>1. stage' = [stage EXCEPT ![c] = Acted(c)]
      BY <1>2, <2>2 DEF SServe
    <3>2. Acted(c) \in {"idle", "asked", "served", "again"}
      BY <1>0 DEF Acted, TypeOK
    <3> QED BY <1>0, <3>1, <3>2 DEF TypeOK
  <2>5. OwnInbox' /\ MsgOK'
    BY <1>0, <1>2, <2>3 DEF SServe, OwnInbox, MsgOK, queue
  <2>6. TypeOK'
    <3>1. msg' \in Message /\ spc' = "send"
      BY <1>2, <2>3 DEF SServe
    <3> QED BY <1>0, <1>2, <2>4, <3>1 DEF SServe, TypeOK, queue, faulty
  <2> QED BY <2>5, <2>6 DEF TInv
<1>3. CASE SSend
  <2>1. PICK c \in Clients, n \in {1, ListSize} : msg = Res(c, n)
    BY <1>0, <1>3 DEF SSend, MsgOK
  <2>2. msgsnd(c, Res(c, n))
    BY <1>3, <2>1, MessageFields DEF SSend
  <2>3. /\ inbox' \in [Ids -> Seq(Message)] /\ used' \in Int /\ used' <= Capacity
        /\ \A i \in Ids \ {c} : inbox'[i] = inbox[i]
        /\ Len(inbox'[c]) = Len(inbox[c]) + 1
        /\ \A k \in 1 .. Len(inbox[c]) : inbox'[c][k] = inbox[c][k]
        /\ inbox'[c][Len(inbox[c]) + 1] = Res(c, n)
        /\ Len(inbox[c]) \in Nat
    BY <1>0, <2>2, Posting
  <2>4. \A k \in 1 .. Len(inbox'[c]) : k \in 1 .. Len(inbox[c]) \/ k = Len(inbox[c]) + 1
    BY <2>3
  <2>5. OwnInbox'
    <3>1. inbox'[Server] = inbox[Server] /\ \A d \in Clients : d # c => inbox'[d] = inbox[d]
      BY <2>3, MQueuesAssumption DEF Ids
    <3>2. \A k \in 1 .. Len(inbox'[c]) : \E m \in {1, ListSize} : inbox'[c][k] = Res(c, m)
      <4> TAKE k \in 1 .. Len(inbox'[c])
      <4>1. CASE k \in 1 .. Len(inbox[c])
        BY <1>0, <2>3, <4>1 DEF OwnInbox
      <4>2. CASE k = Len(inbox[c]) + 1
        BY <2>3, <4>2
      <4> QED BY <2>4, <4>1, <4>2
    <3> QED BY <1>0, <3>1, <3>2 DEF OwnInbox
  <2>6. TypeOK' /\ MsgOK'
    BY <1>0, <1>3, <2>3 DEF SSend, TypeOK, MsgOK, faulty
  <2> QED BY <2>5, <2>6 DEF TInv
<1>4. CASE SStop
  <2>1. inbox' \in [Ids -> Seq(Message)] /\ \A i \in Ids : Len(inbox'[i]) = 0
    BY <1>4, EmptyQueue DEF SStop
  <2> QED BY <1>0, <1>4, <2>1, MQueuesAssumption DEF SStop, TInv, TypeOK, MsgOK, OwnInbox, faulty
<1>5. CASE SKill
  BY <1>0, <1>5 DEF SKill, TInv, TypeOK, MsgOK, OwnInbox, queue
<1>6. CASE SListen
  BY <1>0, <1>6 DEF SListen, TInv, TypeOK, MsgOK, OwnInbox, faulty, queue
<1>7. ASSUME NEW c \in Clients, Connect(c) PROVE TInv'
  BY <1>0, <1>7 DEF Connect, TInv, TypeOK, MsgOK, OwnInbox, faulty, queue, server
<1>8. ASSUME NEW c \in Clients, CSend(c) PROVE TInv'
  <2>1. msgsnd(Server, Req(c))
    BY <1>8 DEF CSend
  <2>2. /\ inbox' \in [Ids -> Seq(Message)] /\ used' \in Int /\ used' <= Capacity
        /\ \A i \in Ids \ {Server} : inbox'[i] = inbox[i]
        /\ Len(inbox'[Server]) = Len(inbox[Server]) + 1
        /\ \A k \in 1 .. Len(inbox[Server]) : inbox'[Server][k] = inbox[Server][k]
        /\ inbox'[Server][Len(inbox[Server]) + 1] = Req(c)
        /\ Len(inbox[Server]) \in Nat
    BY <1>0, <2>1, Posting
  <2>3. \A k \in 1 .. Len(inbox'[Server]) :
          k \in 1 .. Len(inbox[Server]) \/ k = Len(inbox[Server]) + 1
    BY <2>2
  <2>4. OwnInbox'
    <3>1. \A d \in Clients : inbox'[d] = inbox[d]
      BY <2>2, MQueuesAssumption DEF Ids
    <3>2. \A k \in 1 .. Len(inbox'[Server]) : \E d \in Clients : inbox'[Server][k] = Req(d)
      <4> TAKE k \in 1 .. Len(inbox'[Server])
      <4>1. CASE k \in 1 .. Len(inbox[Server])
        BY <1>0, <2>2, <4>1 DEF OwnInbox
      <4>2. CASE k = Len(inbox[Server]) + 1
        BY <1>8, <2>2, <4>2
      <4> QED BY <2>3, <4>1, <4>2
    <3> QED BY <1>0, <3>1, <3>2 DEF OwnInbox
  <2>5. TypeOK' /\ MsgOK'
    BY <1>0, <1>8, <2>2 DEF CSend, TypeOK, MsgOK, server, faulty
  <2> QED BY <2>4, <2>5 DEF TInv
<1>9. ASSUME NEW c \in Clients, CRecv(c) PROVE TInv'
  <2>1. msgrcv(c) /\ c \in Ids
    BY <1>9 DEF CRecv
  <2>2. /\ inbox' \in [Ids -> Seq(Message)] /\ used' \in Int /\ used' <= used
        /\ \A i \in Ids \ {c} : inbox'[i] = inbox[i]
        /\ Len(inbox[c]) \in Nat \ {0} /\ Len(inbox'[c]) = Len(inbox[c]) - 1
        /\ \A k \in 1 .. Len(inbox'[c]) : inbox'[c][k] = inbox[c][k + 1]
        /\ Head(inbox[c]) = inbox[c][1]
    BY <1>0, <2>1, Taking
  <2>3. /\ 1 \in 1 .. Len(inbox[c])
        /\ \A k \in 1 .. Len(inbox'[c]) : k + 1 \in 1 .. Len(inbox[c])
    BY <2>2
  <2>4. PICK n \in {1, ListSize} : Head(inbox[c]) = Res(c, n)
    BY <1>0, <2>2, <2>3 DEF OwnInbox
  <2>5. got' = [got EXCEPT ![c] = c]
    <3>1. Owner(Head(inbox[c])) = c
      BY <2>4, MessageFields
    <3> QED BY <1>9, <3>1 DEF CRecv
  <2>6. OwnInbox'
    <3>1. \A i \in 1 .. Len(inbox'[c]) : \E k \in {1, ListSize} : inbox'[c][i] = Res(c, k)
      <4> TAKE i \in 1 .. Len(inbox'[c])
      <4>1. inbox'[c][i] = inbox[c][i + 1]
        BY <2>2
      <4>2. i + 1 \in 1 .. Len(inbox[c])
        BY <2>3
      <4> QED BY <1>0, <4>1, <4>2 DEF OwnInbox
    <3>2. \A d \in Ids \ {c} : inbox'[d] = inbox[d]
      BY <2>2
    <3> QED BY <1>0, <3>1, <3>2 DEF OwnInbox
  <2>7. TypeOK' /\ MsgOK'
    BY <1>0, <1>9, <2>2, <2>5, MQueuesAssumption DEF CRecv, TypeOK, MsgOK, server, faulty
  <2> QED BY <2>6, <2>7 DEF TInv
<1>10. ASSUME NEW c \in Clients, CFail(c) PROVE TInv'
  BY <1>0, <1>10 DEF CFail, TInv, TypeOK, MsgOK, OwnInbox, faulty, queue, server
<1>11. ASSUME NEW c \in Clients, CKill(c) PROVE TInv'
  BY <1>0, <1>11 DEF CKill, TInv, TypeOK, MsgOK, OwnInbox, queue, server
<1>12. CASE UNCHANGED vars
  BY <1>0, <1>12 DEF vars, TInv, TypeOK, MsgOK, OwnInbox
<1> QED BY <1>1, <1>2, <1>3, <1>4, <1>5, <1>6, <1>7, <1>8, <1>9, <1>10, <1>11, <1>12 DEF Next

(* The types, and no more units in the queue than it holds.                *)
THEOREM TypeCorrect == Spec => []TypeOK
<1>1. TInv => TypeOK
  BY DEF TInv
<1> QED BY <1>1, TypeInit, TypeNext, PTL DEF Spec

(* A request is only ever in the server's inbox, a reply in that of the    *)
(* client that asked.                                                      *)
THEOREM Addressing == Spec => []OwnInbox
<1>1. TInv => OwnInbox
  BY DEF TInv
<1> QED BY <1>1, TypeInit, TypeNext, PTL DEF Spec
-----------------------------------------------------------------------------
LEMMA StagesNext == IInv /\ [Next]_vars => Stages' /\ (~killed' => gone' = {})
<1> SUFFICES ASSUME IInv, [Next]_vars PROVE Stages' /\ (~killed' => gone' = {})
  OBVIOUS
<1>0. TypeOK /\ MsgOK /\ Stages /\ CallInv /\ (~killed => gone = {})
  BY DEF IInv, TInv
<1>1. CASE SServe
  <2>1. PICK c \in Clients : msg = Req(c)
    BY <1>0, <1>1 DEF SServe, MsgOK
  <2>2. msg.sender = c /\ msg.of = c
    BY <2>1, MessageFields
  <2>3. stage' = [stage EXCEPT ![c] = Acted(c)]
    BY <1>1, <2>2 DEF SServe
  <2>4. c \notin gone => cpc[c] = "recv" /\ stage[c] = "asked"
    BY <1>0, <1>1, <2>2 DEF CallInv, Pending, Busy, SServe
  <2>5. c \in gone => cpc[c] = "idle" /\ stage[c] = "idle" /\ Acted(c) = "idle"
    BY <1>0 DEF Stages, Acted
  <2>6. c \notin gone => Acted(c) = "served"
    BY <2>4 DEF Acted
  <2>7. stage'[c] = Acted(c) /\ \A d \in Clients : d # c => stage'[d] = stage[d]
    BY <1>0, <2>3 DEF TypeOK
  <2>8. cpc' = cpc /\ gone' = gone /\ killed' = killed
    BY <1>1 DEF SServe, faulty
  <2> QED BY <1>0, <2>4, <2>5, <2>6, <2>7, <2>8 DEF Stages
<1>2. CASE SRecv \/ SSend \/ SStop \/ SListen
  BY <1>0, <1>2 DEF SRecv, SSend, SStop, SListen, Stages, faulty
<1>3. CASE SKill
  BY <1>0, <1>3 DEF SKill, Stages
<1>4. ASSUME NEW c \in Clients, Connect(c) \/ CSend(c) \/ CRecv(c) \/ CFail(c)
      PROVE  Stages' /\ (~killed' => gone' = {})
  BY <1>0, <1>4 DEF Connect, CSend, CRecv, CFail, Stages, TypeOK, faulty
<1>5. ASSUME NEW c \in Clients, CKill(c) PROVE Stages' /\ (~killed' => gone' = {})
  BY <1>0, <1>5 DEF CKill, Stages, TypeOK
<1>6. CASE UNCHANGED vars
  BY <1>0, <1>6 DEF vars, Stages
<1> QED BY <1>1, <1>2, <1>3, <1>4, <1>5, <1>6 DEF Next

(* What Taking and Posting say of the place of a call's message.           *)
LEMMA TakingRequest ==
  ASSUME TypeOK, NEW c \in Clients, NEW d \in Clients, CallInv,
         msgrcv(Server), Head(inbox[Server]) = Req(c)
  PROVE  /\ \A i, j \in 1 .. Len(inbox'[Server]) :
              inbox'[Server][i] = Req(d) /\ inbox'[Server][j] = Req(d) => i = j
         /\ Queued(d)' <=> Queued(d) /\ d # c
         /\ Queued(c)
         /\ inbox'[d] = inbox[d]
<1>1. /\ Len(inbox[Server]) \in Nat \ {0} /\ Len(inbox'[Server]) = Len(inbox[Server]) - 1
      /\ \A k \in 1 .. Len(inbox'[Server]) : inbox'[Server][k] = inbox[Server][k + 1]
      /\ inbox[Server][1] = Req(c)
      /\ \A i \in Ids \ {Server} : inbox'[i] = inbox[i]
  BY Taking, MessageTypes
<1>2. inbox'[d] = inbox[d]
  BY <1>1, MessageTypes
<1>3. \A k \in 1 .. Len(inbox'[Server]) : k + 1 \in 1 .. Len(inbox[Server]) /\ k + 1 # 1
  BY <1>1
<1>4. \A k \in 1 .. Len(inbox[Server]) : k # 1 => k - 1 \in 1 .. Len(inbox'[Server]) /\ (k - 1) + 1 = k
  BY <1>1
<1>5. 1 \in 1 .. Len(inbox[Server])
  BY <1>1
<1>6. Queued(c)
  BY <1>1, <1>5 DEF Queued
<1>7. \A i, j \in 1 .. Len(inbox[Server]) :
        inbox[Server][i] = Req(d) /\ inbox[Server][j] = Req(d) => i = j
  BY DEF CallInv, Single
<1>8. ASSUME NEW i \in 1 .. Len(inbox'[Server]), NEW j \in 1 .. Len(inbox'[Server]),
             inbox'[Server][i] = Req(d), inbox'[Server][j] = Req(d)
      PROVE  i = j
  <2>1. inbox[Server][i + 1] = Req(d) /\ inbox[Server][j + 1] = Req(d)
    BY <1>1, <1>8
  <2>2. i + 1 = j + 1
    BY <2>1, <1>3, <1>7
  <2> QED BY <2>2
<1>9. ASSUME Queued(d)' PROVE Queued(d) /\ d # c
  <2>1. PICK k \in 1 .. Len(inbox'[Server]) : inbox'[Server][k] = Req(d)
    BY <1>9 DEF Queued
  <2>2. inbox[Server][k + 1] = Req(d) /\ k + 1 \in 1 .. Len(inbox[Server]) /\ k + 1 # 1
    BY <2>1, <1>1, <1>3
  <2>3. d # c
    BY <2>2, <1>1, <1>5, <1>7
  <2>4. Queued(d)
    BY <2>2 DEF Queued
  <2> QED BY <2>3, <2>4
<1>10. ASSUME Queued(d), d # c PROVE Queued(d)'
  <2>1. PICK k \in 1 .. Len(inbox[Server]) : inbox[Server][k] = Req(d)
    BY <1>10 DEF Queued
  <2>2. k # 1
    BY <2>1, <1>1, <1>10, MessageFields
  <2>3. k - 1 \in 1 .. Len(inbox'[Server]) /\ inbox'[Server][k - 1] = Req(d)
    BY <2>1, <2>2, <1>1, <1>4
  <2> QED BY <2>3 DEF Queued
<1> QED BY <1>2, <1>6, <1>8, <1>9, <1>10

LEMMA PostingRequest ==
  ASSUME TypeOK, NEW c \in Clients, NEW d \in Clients, CallInv,
         msgsnd(Server, Req(c)), d = c => ~Queued(c)
  PROVE  /\ \A i, j \in 1 .. Len(inbox'[Server]) :
              inbox'[Server][i] = Req(d) /\ inbox'[Server][j] = Req(d) => i = j
         /\ Queued(d)' <=> Queued(d) \/ d = c
         /\ inbox'[d] = inbox[d]
<1> DEFINE n == Len(inbox[Server])
<1>1. /\ n \in Nat /\ Len(inbox'[Server]) = n + 1
      /\ \A k \in 1 .. n : inbox'[Server][k] = inbox[Server][k]
      /\ inbox'[Server][n + 1] = Req(c)
      /\ \A i \in Ids \ {Server} : inbox'[i] = inbox[i]
  BY Posting, MessageTypes
<1>2. inbox'[d] = inbox[d]
  BY <1>1, MessageTypes
<1> HIDE DEF n
<1>3. /\ \A k \in 1 .. Len(inbox'[Server]) : k \in 1 .. n \/ k = n + 1
      /\ \A k \in 1 .. n : k \in 1 .. Len(inbox'[Server])
      /\ n + 1 \in 1 .. Len(inbox'[Server])
  BY <1>1
<1>4. \A i, j \in 1 .. n : inbox[Server][i] = Req(d) /\ inbox[Server][j] = Req(d) => i = j
  BY DEF CallInv, Single, n
<1>5. \A k \in 1 .. n : inbox[Server][k] = Req(d) => d # c
  BY DEF Queued, n
<1>6. ASSUME NEW i \in 1 .. Len(inbox'[Server]), NEW j \in 1 .. Len(inbox'[Server]),
             inbox'[Server][i] = Req(d), inbox'[Server][j] = Req(d)
      PROVE  i = j
  <2>1. CASE d = c
    BY <2>1, <1>1, <1>3, <1>5, <1>6
  <2>2. CASE d # c
    BY <2>2, <1>1, <1>3, <1>4, <1>6, MessageFields
  <2> QED BY <2>1, <2>2
<1>7. ASSUME Queued(d)', d # c PROVE Queued(d)
  <2>1. PICK k \in 1 .. Len(inbox'[Server]) : inbox'[Server][k] = Req(d)
    BY <1>7 DEF Queued
  <2>2. k \in 1 .. n /\ inbox[Server][k] = Req(d)
    BY <2>1, <1>1, <1>3, <1>7, MessageFields
  <2> QED BY <2>2 DEF Queued, n
<1>8. ASSUME Queued(d) PROVE Queued(d)'
  <2>1. PICK k \in 1 .. n : inbox[Server][k] = Req(d)
    BY <1>8 DEF Queued, n
  <2>2. k \in 1 .. Len(inbox'[Server]) /\ inbox'[Server][k] = Req(d)
    BY <2>1, <1>1, <1>3
  <2> QED BY <2>2 DEF Queued
<1>9. d = c => Queued(d)'
  BY <1>1, <1>3 DEF Queued
<1> QED BY <1>2, <1>6, <1>7, <1>8, <1>9

(* A step that moves no message of d, and does nothing to its call.        *)
LEMMA Untouched ==
  ASSUME NEW d, Single(d) /\ Apart(d) /\ Pending(d),
         inbox'[Server] = inbox[Server], inbox'[d] = inbox[d],
         spc' = spc, msg' = msg \/ spc \notin {"serve", "send"},
         cpc'[d] = cpc[d], attached'[d] = attached[d], stage'[d] = stage[d],
         ~ServerKilled' => ~ServerKilled
  PROVE  (Single(d) /\ Apart(d) /\ Pending(d))'
<1>1. (Queued(d)' <=> Queued(d)) /\ (Busy(d)' <=> Busy(d)) /\ (Replied(d)' <=> Replied(d))
  BY DEF Queued, Busy, Replied
<1> QED BY <1>1 DEF Single, Apart, Pending

LEMMA CallNext ==
  ASSUME IInv, [Next]_vars, NEW d \in Clients, d \notin gone'
  PROVE  (Single(d) /\ Apart(d) /\ Pending(d))'
<1>0. TypeOK /\ MsgOK /\ OwnInbox /\ Stages /\ CallInv /\ (~killed => gone = {})
  BY DEF IInv, TInv
<1>a. gone \subseteq gone'
  BY DEF Next, SRecv, SServe, SSend, SStop, SKill, SListen, Connect, CSend, CRecv, CFail,
         CKill, faulty, vars
<1>b. d \notin gone /\ Single(d) /\ Apart(d) /\ Pending(d)
  BY <1>0, <1>a DEF CallInv
<1>1. CASE SRecv
  <2>1. msgrcv(Server) /\ msg' = Head(inbox[Server]) /\ spc = "recv" /\ spc' = "serve"
    BY <1>1 DEF SRecv
  <2>2. PICK c \in Clients : Head(inbox[Server]) = Req(c)
    <3>1. /\ Len(inbox[Server]) \in Nat \ {0}
          /\ Head(inbox[Server]) = inbox[Server][1]
      BY <1>0, <2>1, Taking, MessageTypes
    <3>2. 1 \in 1 .. Len(inbox[Server])
      BY <3>1
    <3> QED BY <1>0, <3>1, <3>2 DEF OwnInbox
  <2>3. /\ \A i, j \in 1 .. Len(inbox'[Server]) :
             inbox'[Server][i] = Req(d) /\ inbox'[Server][j] = Req(d) => i = j
        /\ Queued(d)' <=> Queued(d) /\ d # c
        /\ Queued(c)
        /\ inbox'[d] = inbox[d]
    BY <1>0, <1>b, <2>1, <2>2, TakingRequest
  <2>4. (Busy(d)' <=> d = c) /\ ~Busy(d) /\ (Replied(d)' <=> Replied(d))
    BY <2>1, <2>2, <2>3, MessageFields DEF Busy, Replied
  <2>5. Single(d)'
    BY <1>b, <2>3 DEF Single
  <2>6. Apart(d)'
    BY <1>b, <2>3, <2>4 DEF Apart
  <2>7. cpc' = cpc /\ attached' = attached /\ stage' = stage /\ ServerKilled' = ServerKilled
    BY <1>1 DEF SRecv, faulty, ServerKilled
  <2> QED BY <1>b, <2>1, <2>3, <2>4, <2>5, <2>6, <2>7 DEF Pending
<1>2. CASE SServe
  <2>1. PICK c \in Clients : msg = Req(c)
    BY <1>0, <1>2 DEF SServe, MsgOK
  <2>2. msg.sender = c /\ msg.of = c
    BY <2>1, MessageFields
  <2>3. msg'.of = c
    BY <1>2, <2>2, MessageFields DEF SServe
  <2>4. (Queued(d)' <=> Queued(d)) /\ (Busy(d)' <=> Busy(d)) /\ (Replied(d)' <=> Replied(d))
    BY <1>2, <2>2, <2>3 DEF SServe, queue, Queued, Busy, Replied
  <2>5. Busy(d) <=> d = c
    BY <1>2, <2>2 DEF SServe, Busy
  <2>6. /\ d = c => stage'[d] = "served"
        /\ d # c => stage'[d] = stage[d]
    <3>1. stage' = [stage EXCEPT ![c] = Acted(c)]
      BY <1>2, <2>2 DEF SServe
    <3>2. d = c => stage[d] = "asked"
      BY <1>2, <1>b, <2>5 DEF SServe, Pending
    <3> QED BY <1>0, <3>1, <3>2 DEF TypeOK, Acted
  <2>7. Single(d)' /\ Apart(d)'
    BY <1>2, <1>b, <2>4 DEF Single, Apart, SServe, queue
  <2>8. /\ cpc' = cpc /\ attached' = attached /\ ServerKilled' = ServerKilled
        /\ spc = "serve" /\ spc' = "send"
    BY <1>2 DEF SServe, faulty, ServerKilled
  <2>9. ~Queued(d) \/ d # c
    BY <1>b, <2>5 DEF Apart
  <2>10. ~Replied(d) \/ d # c
    BY <1>b, <2>5 DEF Apart
  <2> QED BY <1>b, <2>4, <2>5, <2>6, <2>7, <2>8, <2>9, <2>10 DEF Pending
<1>3. CASE SSend
  <2>1. PICK c \in Clients, n \in {1, ListSize} : msg = Res(c, n)
    BY <1>0, <1>3 DEF SSend, MsgOK
  <2>2. msg.of = c /\ msgsnd(c, Res(c, n)) /\ spc = "send" /\ spc' = "recv"
    BY <1>3, <2>1, MessageFields DEF SSend
  <2>3. /\ \A i \in Ids \ {c} : inbox'[i] = inbox[i]
        /\ Len(inbox'[c]) = Len(inbox[c]) + 1 /\ Len(inbox[c]) \in Nat
    BY <1>0, <2>2, Posting, MessageTypes
  <2>4. inbox'[Server] = inbox[Server] /\ (d # c => inbox'[d] = inbox[d])
    BY <2>3, MessageTypes
  <2>5. (Busy(d) <=> d = c) /\ ~Busy(d)'
    BY <2>2 DEF Busy
  <2>6. (Queued(d)' <=> Queued(d)) /\ (d # c => (Replied(d)' <=> Replied(d)))
    BY <2>4 DEF Queued, Replied
  <2>7. d = c => Len(inbox[d]) = 0 /\ Len(inbox'[d]) = 1 /\ Replied(d)' /\ ~Queued(d)
    <3>1. d = c => ~Replied(d) /\ ~Queued(d)
      BY <1>b, <2>5 DEF Apart
    <3>2. ASSUME d = c PROVE Len(inbox[d]) = 0 /\ Len(inbox'[d]) = 1
      <4>1. Len(inbox[d]) \in Nat /\ ~(Len(inbox[d]) > 0)
        BY <2>3, <3>1, <3>2 DEF Replied
      <4>2. Len(inbox'[d]) = Len(inbox[d]) + 1
        BY <2>3, <3>2
      <4> QED BY <4>1, <4>2
    <3>3. Len(inbox'[d]) = 1 => Replied(d)'
      BY DEF Replied
    <3> QED BY <3>1, <3>2, <3>3
  <2>8. Single(d)'
    <3>1. Len(inbox'[d]) <= 1
      <4>1. d # c => Len(inbox'[d]) <= 1
        BY <1>b, <2>4 DEF Single
      <4>2. ASSUME d = c PROVE Len(inbox'[d]) <= 1
        <5>1. Len(inbox'[d]) = 1
          BY <2>7, <4>2
        <5>2. \A x : x = 1 => x <= 1
          OBVIOUS
        <5> QED BY <5>1, <5>2
      <4> QED BY <4>1, <4>2
    <3> QED BY <1>b, <2>4, <3>1 DEF Single
  <2>9. cpc' = cpc /\ attached' = attached /\ stage' = stage /\ ServerKilled' = ServerKilled
    BY <1>3 DEF SSend, faulty, ServerKilled
  <2>10. Apart(d)'
    BY <1>b, <2>5, <2>6, <2>7 DEF Apart
  <2> QED BY <1>b, <2>2, <2>5, <2>6, <2>7, <2>8, <2>9, <2>10 DEF Pending
<1>4. CASE SStop
  <2>1. Len(inbox'[Server]) = 0 /\ Len(inbox'[d]) = 0 /\ spc' = "down" /\ ~attached'[d]
    BY <1>4, EmptyQueue, MessageTypes DEF SStop
  <2>2. ~Queued(d)' /\ ~Busy(d)' /\ ~Replied(d)'
    BY <2>1 DEF Queued, Busy, Replied
  <2> QED BY <2>1, <2>2 DEF Single, Apart, Pending
<1>5. CASE SKill
  <2>1. spc' = "down" /\ inbox' = inbox /\ cpc' = cpc /\ attached' = attached /\ stage' = stage
    BY <1>5 DEF SKill, queue
  <2>2. ServerKilled'
    BY <1>0, <1>5 DEF SKill, ServerKilled
  <2>3. (Queued(d)' <=> Queued(d)) /\ ~Busy(d)' /\ (Replied(d)' <=> Replied(d))
    BY <2>1 DEF Queued, Busy, Replied
  <2> QED BY <1>b, <2>1, <2>2, <2>3 DEF Single, Apart, Pending
<1>6. CASE SListen
  <2>1. spc = "down" /\ spc' = "recv" /\ inbox' = inbox /\ cpc' = cpc /\ attached' = attached
        /\ stage' = stage /\ ServerKilled' = ServerKilled
    BY <1>6 DEF SListen, queue, faulty, ServerKilled
  <2>2. (Queued(d)' <=> Queued(d)) /\ ~Busy(d) /\ ~Busy(d)' /\ (Replied(d)' <=> Replied(d))
    BY <2>1 DEF Queued, Busy, Replied
  <2> QED BY <1>b, <2>1, <2>2 DEF Single, Apart, Pending
<1>7. ASSUME NEW c \in Clients, Connect(c) PROVE (Single(d) /\ Apart(d) /\ Pending(d))'
  <2>1. inbox' = inbox /\ spc' = spc /\ msg' = msg /\ ServerKilled' = ServerKilled
    BY <1>7 DEF Connect, queue, server, faulty, ServerKilled
  <2>2. CASE d # c
    BY <1>0, <1>7, <1>b, <2>1, <2>2, Untouched DEF Connect, TypeOK
  <2>3. CASE d = c
    <3>1. ~Queued(d) /\ ~Busy(d) /\ ~Replied(d)
      BY <1>7, <1>b, <2>3 DEF Connect, Pending
    <3>2. ~Queued(d)' /\ ~Busy(d)' /\ ~Replied(d)' /\ Single(d)'
      BY <1>b, <2>1, <3>1 DEF Queued, Busy, Replied, Single
    <3>3. cpc'[d] = "send"
      BY <1>0, <1>7, <2>3 DEF Connect, TypeOK
    <3> QED BY <3>2, <3>3 DEF Apart, Pending
  <2> QED BY <2>2, <2>3
<1>8. ASSUME NEW c \in Clients, CSend(c) PROVE (Single(d) /\ Apart(d) /\ Pending(d))'
  <2>1. /\ msgsnd(Server, Req(c)) /\ spc' = spc /\ msg' = msg /\ stage' = stage
        /\ attached' = attached /\ ServerKilled' = ServerKilled
        /\ cpc[c] = "send" /\ attached[c] /\ cpc' = [cpc EXCEPT ![c] = "recv"]
    BY <1>8 DEF CSend, server, faulty, ServerKilled
  <2>2. d = c => ~Queued(d) /\ ~Busy(d) /\ ~Replied(d) /\ stage[d] = "asked"
    BY <1>0, <1>b, <2>1 DEF Pending, Stages
  <2>3. /\ \A i, j \in 1 .. Len(inbox'[Server]) :
             inbox'[Server][i] = Req(d) /\ inbox'[Server][j] = Req(d) => i = j
        /\ Queued(d)' <=> Queued(d) \/ d = c
        /\ inbox'[d] = inbox[d]
    BY <1>0, <1>b, <2>1, <2>2, PostingRequest
  <2>4. (Busy(d)' <=> Busy(d)) /\ (Replied(d)' <=> Replied(d))
    BY <2>1, <2>3 DEF Busy, Replied
  <2>5. cpc'[d] = IF d = c THEN "recv" ELSE cpc[d]
    BY <1>0, <2>1 DEF TypeOK
  <2>6. Single(d)'
    BY <1>b, <2>3 DEF Single
  <2>7. Apart(d)'
    BY <1>b, <2>2, <2>3, <2>4 DEF Apart
  <2> QED BY <1>b, <2>1, <2>2, <2>3, <2>4, <2>5, <2>6, <2>7 DEF Pending
<1>9. ASSUME NEW c \in Clients, CRecv(c) PROVE (Single(d) /\ Apart(d) /\ Pending(d))'
  <2>1. /\ msgrcv(c) /\ spc' = spc /\ msg' = msg /\ attached' = attached
        /\ ServerKilled' = ServerKilled /\ cpc[c] = "recv"
        /\ cpc' = [cpc EXCEPT ![c] = "idle"] /\ stage' = [stage EXCEPT ![c] = "idle"]
    BY <1>9 DEF CRecv, server, faulty, ServerKilled
  <2>2. /\ \A i \in Ids \ {c} : inbox'[i] = inbox[i]
        /\ Len(inbox[c]) \in Nat \ {0} /\ Len(inbox'[c]) = Len(inbox[c]) - 1
    BY <1>0, <2>1, Taking, MessageTypes
  <2>3. inbox'[Server] = inbox[Server]
    BY <2>2, MessageTypes
  <2>4. CASE d # c
    <3>1. inbox'[d] = inbox[d]
      BY <2>2, <2>4, MessageTypes
    <3> QED BY <1>0, <1>b, <2>1, <2>3, <2>4, <3>1, Untouched DEF TypeOK
  <2>5. CASE d = c
    <3>1. Replied(d) /\ ~Queued(d) /\ ~Busy(d)
      BY <1>b, <2>2, <2>5 DEF Replied, Apart
    <3>2. Len(inbox'[d]) = 0
      BY <1>b, <2>2, <2>5 DEF Single
    <3>3. ~Queued(d)' /\ ~Busy(d)' /\ ~Replied(d)'
      BY <2>1, <2>3, <3>1, <3>2 DEF Queued, Busy, Replied
    <3>4. Single(d)'
      BY <1>b, <2>3, <3>2 DEF Single
    <3>5. cpc'[d] = "idle"
      BY <1>0, <2>1, <2>5 DEF TypeOK
    <3> QED BY <3>3, <3>4, <3>5 DEF Apart, Pending
  <2> QED BY <2>4, <2>5
<1>10. ASSUME NEW c \in Clients, CFail(c) PROVE (Single(d) /\ Apart(d) /\ Pending(d))'
  <2>1. inbox' = inbox /\ spc' = spc /\ msg' = msg /\ ServerKilled' = ServerKilled
    BY <1>10 DEF CFail, queue, server, faulty, ServerKilled
  <2>2. CASE d # c
    BY <1>0, <1>10, <1>b, <2>1, <2>2, Untouched DEF CFail, TypeOK
  <2>3. CASE d = c
    <3>1. ~Queued(d) /\ ~Busy(d) /\ ~Replied(d)
      BY <1>10, <1>b, <2>3 DEF CFail, Pending
    <3>2. ~Queued(d)' /\ ~Busy(d)' /\ ~Replied(d)' /\ Single(d)'
      BY <1>b, <2>1, <3>1 DEF Queued, Busy, Replied, Single
    <3>3. cpc'[d] = "idle"
      BY <1>0, <1>10, <2>3 DEF CFail, TypeOK
    <3> QED BY <3>2, <3>3 DEF Apart, Pending
  <2> QED BY <2>2, <2>3
<1>11. ASSUME NEW c \in Clients, CKill(c) PROVE (Single(d) /\ Apart(d) /\ Pending(d))'
  <2>1. inbox' = inbox /\ spc' = spc /\ msg' = msg /\ attached' = attached /\ d # c
    BY <1>11 DEF CKill, queue, server
  <2>2. ~ServerKilled
    BY <1>11 DEF CKill, ServerKilled
  <2>3. cpc'[d] = cpc[d] /\ stage'[d] = stage[d]
    BY <1>0, <1>11, <2>1 DEF CKill, TypeOK
  <2> QED BY <1>b, <2>1, <2>2, <2>3, Untouched
<1>12. CASE UNCHANGED vars
  <2>1. inbox' = inbox /\ spc' = spc /\ msg' = msg /\ attached' = attached /\ cpc' = cpc
        /\ stage' = stage /\ ServerKilled' = ServerKilled
    BY <1>12 DEF vars, ServerKilled
  <2> QED BY <1>b, <2>1, Untouched
<1> QED BY <1>1, <1>2, <1>3, <1>4, <1>5, <1>6, <1>7, <1>8, <1>9, <1>10, <1>11, <1>12 DEF Next

(* What a killed client left in the queue stays as it is, but that the     *)
(* server answers its request.                                             *)
LEMMA LeftNext ==
  ASSUME IInv, [Next]_vars, NEW d \in Clients, d \in gone'
  PROVE  (Single(d) /\ Apart(d))'
<1>0. TypeOK /\ MsgOK /\ OwnInbox /\ Stages /\ CallInv
  BY DEF IInv, TInv
<1>a. Single(d) /\ Apart(d)
  BY <1>0 DEF CallInv
<1>b. ASSUME inbox'[Server] = inbox[Server], inbox'[d] = inbox[d], Busy(d)' => Busy(d)
      PROVE  (Single(d) /\ Apart(d))'
  <2>1. (Queued(d)' <=> Queued(d)) /\ (Replied(d)' <=> Replied(d))
    BY <1>b DEF Queued, Replied
  <2> QED BY <1>a, <1>b, <2>1 DEF Single, Apart
<1>1. CASE SRecv
  <2>1. msgrcv(Server) /\ msg' = Head(inbox[Server]) /\ spc = "recv" /\ spc' = "serve"
    BY <1>1 DEF SRecv
  <2>2. PICK c \in Clients : Head(inbox[Server]) = Req(c)
    <3>1. /\ Len(inbox[Server]) \in Nat \ {0}
          /\ Head(inbox[Server]) = inbox[Server][1]
      BY <1>0, <2>1, Taking, MessageTypes
    <3>2. 1 \in 1 .. Len(inbox[Server])
      BY <3>1
    <3> QED BY <1>0, <3>1, <3>2 DEF OwnInbox
  <2>3. /\ \A i, j \in 1 .. Len(inbox'[Server]) :
             inbox'[Server][i] = Req(d) /\ inbox'[Server][j] = Req(d) => i = j
        /\ Queued(d)' <=> Queued(d) /\ d # c
        /\ Queued(c)
        /\ inbox'[d] = inbox[d]
    BY <1>0, <2>1, <2>2, TakingRequest
  <2>4. (Busy(d)' <=> d = c) /\ (Replied(d)' <=> Replied(d))
    BY <2>1, <2>2, <2>3, MessageFields DEF Busy, Replied
  <2>5. Single(d)'
    BY <1>a, <2>3 DEF Single
  <2>6. Apart(d)'
    BY <1>a, <2>3, <2>4 DEF Apart
  <2> QED BY <2>5, <2>6
<1>2. CASE SServe
  <2>1. PICK c \in Clients : msg = Req(c)
    BY <1>0, <1>2 DEF SServe, MsgOK
  <2>2. msg.sender = c /\ msg.of = c
    BY <2>1, MessageFields
  <2>3. msg'.of = c
    BY <1>2, <2>2, MessageFields DEF SServe
  <2>4. inbox' = inbox /\ (Busy(d)' => Busy(d))
    BY <1>2, <2>2, <2>3 DEF SServe, queue, Busy
  <2> QED BY <1>b, <2>4
<1>3. CASE SSend
  <2>1. PICK c \in Clients, n \in {1, ListSize} : msg = Res(c, n)
    BY <1>0, <1>3 DEF SSend, MsgOK
  <2>2. msg.of = c /\ msgsnd(c, Res(c, n)) /\ spc = "send" /\ spc' = "recv"
    BY <1>3, <2>1, MessageFields DEF SSend
  <2>3. /\ \A i \in Ids \ {c} : inbox'[i] = inbox[i]
        /\ Len(inbox'[c]) = Len(inbox[c]) + 1 /\ Len(inbox[c]) \in Nat
    BY <1>0, <2>2, Posting, MessageTypes
  <2>4. inbox'[Server] = inbox[Server] /\ (d # c => inbox'[d] = inbox[d])
    BY <2>3, MessageTypes
  <2>5. (Busy(d) <=> d = c) /\ ~Busy(d)'
    BY <2>2 DEF Busy
  <2>6. CASE d # c
    BY <1>b, <2>4, <2>5, <2>6
  <2>7. CASE d = c
    <3>1. ~Queued(d) /\ ~Replied(d)
      BY <1>a, <2>5, <2>7 DEF Apart
    <3>2. ~Queued(d)'
      BY <2>4, <3>1 DEF Queued
    <3>3. Len(inbox'[d]) <= 1
      <4>1. Len(inbox[d]) \in Nat /\ ~(Len(inbox[d]) > 0)
        BY <2>3, <2>7, <3>1 DEF Replied
      <4>2. Len(inbox'[d]) = Len(inbox[d]) + 1
        BY <2>3, <2>7
      <4> QED BY <4>1, <4>2
    <3>4. Single(d)'
      BY <1>a, <2>4, <3>3 DEF Single
    <3>5. Apart(d)'
      BY <2>5, <3>2 DEF Apart
    <3> QED BY <3>4, <3>5
  <2> QED BY <2>6, <2>7
<1>4. CASE SStop
  <2>1. Len(inbox'[Server]) = 0 /\ Len(inbox'[d]) = 0
    BY <1>4, EmptyQueue, MessageTypes DEF SStop
  <2>2. ~Queued(d)' /\ ~Replied(d)'
    BY <2>1 DEF Queued, Replied
  <2> QED BY <2>1, <2>2 DEF Single, Apart
<1>5. CASE SKill \/ SListen
  <2>1. inbox' = inbox /\ ~Busy(d)'
    BY <1>5 DEF SKill, SListen, queue, Busy
  <2> QED BY <1>b, <2>1
<1>6. ASSUME NEW c \in Clients, CSend(c) \/ CRecv(c) PROVE (Single(d) /\ Apart(d))'
  <2>1. gone' = gone /\ spc' = spc /\ msg' = msg /\ cpc[c] # "idle"
    BY <1>6 DEF CSend, CRecv, faulty, server
  <2>2. c # d
    BY <1>0, <2>1 DEF Stages
  <2>3. Busy(d)' <=> Busy(d)
    BY <2>1 DEF Busy
  <2>4. CASE CSend(c)
    <3>1. msgsnd(Server, Req(c))
      BY <2>4 DEF CSend
    <3>2. /\ \A i, j \in 1 .. Len(inbox'[Server]) :
               inbox'[Server][i] = Req(d) /\ inbox'[Server][j] = Req(d) => i = j
          /\ Queued(d)' <=> Queued(d) \/ d = c
          /\ inbox'[d] = inbox[d]
      BY <1>0, <2>2, <3>1, PostingRequest
    <3>3. Replied(d)' <=> Replied(d)
      BY <3>2 DEF Replied
    <3>4. Single(d)'
      BY <1>a, <3>2 DEF Single
    <3>5. Apart(d)'
      BY <1>a, <2>2, <2>3, <3>2, <3>3 DEF Apart
    <3> QED BY <3>4, <3>5
  <2>5. CASE CRecv(c)
    <3>1. msgrcv(c)
      BY <2>5 DEF CRecv
    <3>2. \A i \in Ids \ {c} : inbox'[i] = inbox[i]
      BY <1>0, <3>1, Taking, MessageTypes
    <3>3. inbox'[Server] = inbox[Server] /\ inbox'[d] = inbox[d]
      BY <2>2, <3>2, MessageTypes
    <3> QED BY <1>b, <2>3, <3>3
  <2> QED BY <1>6, <2>4, <2>5
<1>7. CASE \/ UNCHANGED vars
           \/ \E c \in Clients : Connect(c) \/ CFail(c) \/ CKill(c)
  <2>1. inbox' = inbox /\ (Busy(d)' <=> Busy(d))
    BY <1>7 DEF Connect, CFail, CKill, vars, queue, server, Busy
  <2> QED BY <1>b, <2>1
<1> QED BY <1>1, <1>2, <1>3, <1>4, <1>5, <1>6, <1>7 DEF Next

LEMMA InvInit == Init => IInv
<1> SUFFICES ASSUME Init PROVE IInv
  OBVIOUS
<1>1. inbox = Empty /\ spc = "recv" /\ gone = {} /\ cpc = [c \in Clients |-> "idle"]
      /\ stage = [c \in Clients |-> "idle"]
  BY DEF Init
<1>2. \A i \in Ids : Len(inbox[i]) = 0
  BY <1>1, EmptyQueue
<1>3. ASSUME NEW c \in Clients PROVE Single(c) /\ Apart(c) /\ Pending(c)
  <2>1. Len(inbox[Server]) = 0 /\ Len(inbox[c]) = 0 /\ cpc[c] = "idle"
    BY <1>1, <1>2, MessageTypes
  <2>2. ~Queued(c) /\ ~Busy(c) /\ ~Replied(c)
    BY <1>1, <2>1 DEF Queued, Busy, Replied
  <2> QED BY <2>1, <2>2 DEF Single, Apart, Pending
<1> QED BY <1>1, <1>3, TypeInit DEF IInv, CallInv, Stages

LEMMA InvNext == IInv /\ [Next]_vars => IInv'
<1> SUFFICES ASSUME IInv, [Next]_vars PROVE IInv'
  OBVIOUS
<1>1. ASSUME NEW d \in Clients PROVE (Single(d) /\ Apart(d))'
  BY CallNext, LeftNext
<1>2. ASSUME NEW d \in Clients, d \notin gone' PROVE Pending(d)'
  BY <1>2, CallNext
<1>3. CallInv'
  BY <1>1, <1>2 DEF CallInv
<1> QED BY <1>3, TypeNext, StagesNext DEF IInv

(* A call that waits is one message: queued, being served, or answered.    *)
THEOREM Conservation == Spec => []OneInFlight
<1>1. IInv => OneInFlight
  <2> SUFFICES ASSUME IInv, NEW c \in Clients \ gone
               PROVE  /\ InFlight(c) <= 1
                      /\ cpc[c] = "recv" /\ attached[c] /\ ~ServerKilled => InFlight(c) = 1
                      /\ cpc[c] = "send" => InFlight(c) = 0
    BY DEF OneInFlight
  <2> DEFINE places == {i \in 1 .. Len(inbox[Server]) : inbox[Server][i].of = c}
  <2>1. OwnInbox /\ TypeOK /\ Single(c) /\ Apart(c) /\ Pending(c)
    BY DEF IInv, TInv, CallInv
  <2>2. \A i \in 1 .. Len(inbox[Server]) : inbox[Server][i].of = c <=> inbox[Server][i] = Req(c)
    BY <2>1, MessageFields DEF OwnInbox
  <2>3. IF Queued(c) THEN Cardinality(places) = 1 ELSE Cardinality(places) = 0
    <3>1. CASE Queued(c)
      <4>1. PICK i \in 1 .. Len(inbox[Server]) : inbox[Server][i] = Req(c)
        BY <3>1 DEF Queued
      <4>2. places = {i}
        BY <2>1, <2>2, <4>1 DEF Single
      <4> QED BY <3>1, <4>2, FS_Singleton
    <3>2. CASE ~Queued(c)
      <4>1. places = {}
        BY <2>2, <3>2 DEF Queued
      <4> QED BY <3>2, <4>1, FS_EmptySet
    <3> QED BY <3>1, <3>2
  <2>4. IF Replied(c) THEN Len(inbox[c]) = 1 ELSE Len(inbox[c]) = 0
    <3>1. Len(inbox[c]) \in Nat
      BY <2>1, MessageTypes, LenProperties DEF TypeOK
    <3>2. Len(inbox[c]) <= 1
      BY <2>1 DEF Single
    <3>3. Replied(c) <=> Len(inbox[c]) > 0
      BY DEF Replied
    <3>4. \A x \in Nat : x <= 1 => IF x > 0 THEN x = 1 ELSE x = 0
      OBVIOUS
    <3>5. IF Len(inbox[c]) > 0 THEN Len(inbox[c]) = 1 ELSE Len(inbox[c]) = 0
      BY <3>1, <3>2, <3>4
    <3> QED BY <3>3, <3>5
  <2>5. InFlight(c) = Cardinality(places) + (IF Busy(c) THEN 1 ELSE 0) + Len(inbox[c])
    BY DEF InFlight, Busy
  <2> HIDE DEF places
  <2>6. (cpc[c] = "recv" /\ attached[c] /\ ~ServerKilled => Queued(c) \/ Busy(c) \/ Replied(c))
        /\ (Queued(c) \/ Busy(c) \/ Replied(c) => cpc[c] = "recv")
    BY <2>1 DEF Pending
  <2>7. CASE Queued(c)
    <3>1. ~Busy(c) /\ ~Replied(c)
      BY <2>1, <2>7 DEF Apart
    <3>2. InFlight(c) = 1
      BY <2>3, <2>4, <2>5, <2>7, <3>1
    <3> QED BY <2>6, <2>7, <3>2
  <2>8. CASE ~Queued(c) /\ Busy(c)
    <3>1. ~Replied(c)
      BY <2>1, <2>8 DEF Apart
    <3>2. InFlight(c) = 1
      BY <2>3, <2>4, <2>5, <2>8, <3>1
    <3> QED BY <2>6, <2>8, <3>2
  <2>9. CASE ~Queued(c) /\ ~Busy(c)
    <3>1. IF Replied(c) THEN InFlight(c) = 1 ELSE InFlight(c) = 0
      BY <2>3, <2>4, <2>5, <2>9
    <3> QED BY <2>6, <2>9, <3>1
  <2> QED BY <2>7, <2>8, <2>9
<1> QED BY <1>1, InvInit, InvNext, PTL DEF Spec

(* Whatever is stopped or killed, what Rpc promises holds: each client gets *)
(* the reply to its own request, which the server acted on once.           *)
THEOREM Implements == Spec => RpcSpec
<1>1. Init => Calls!Init
  BY DEF Init, Calls!Init, Calls!NoReply
<1>2. IInv /\ [Next]_vars => [Calls!Next]_<<stage, got>>
  <2> SUFFICES ASSUME IInv, [Next]_vars, <<stage, got>>' # <<stage, got>>
               PROVE  Calls!Next
    OBVIOUS
  <2>0. TypeOK /\ MsgOK /\ OwnInbox /\ Stages /\ CallInv
    BY DEF IInv, TInv
  <2>1. CASE SServe
    <3>1. PICK c \in Clients : msg = Req(c)
      BY <2>0, <2>1 DEF SServe, MsgOK
    <3>2. msg.sender = c
      BY <3>1, MessageFields
    <3>3. got' = got /\ stage' = [stage EXCEPT ![c] = Acted(c)]
      BY <2>1, <3>2 DEF SServe
    <3>4. c \notin gone => stage[c] = "asked"
      BY <2>0, <2>1, <3>1, MessageFields DEF CallInv, Pending, Busy, SServe
    <3>5. c \notin gone
      <4>1. c \in gone => stage[c] = "idle"
        BY <2>0 DEF Stages
      <4>2. c \in gone => stage' = stage
        BY <2>0, <3>3, <4>1 DEF Acted, TypeOK
      <4> QED BY <3>3, <4>2
    <3>6. Acted(c) = "served" /\ stage[c] = "asked"
      BY <3>4, <3>5 DEF Acted
    <3> QED BY <3>3, <3>6 DEF Calls!Next, Calls!Serve, Calls!Move
  <2>2. ASSUME NEW c \in Clients, Connect(c) PROVE Calls!Next
    <3>1. stage[c] = "idle"
      BY <2>0, <2>2 DEF Connect, Stages
    <3> QED BY <2>2, <3>1 DEF Connect, Calls!Next, Calls!Call, Calls!Move
  <2>3. ASSUME NEW c \in Clients, CRecv(c) PROVE Calls!Next
    <3>1. msgrcv(c) /\ c \in Ids
      BY <2>3 DEF CRecv, Ids
    <3>2. Len(inbox[c]) \in Nat \ {0} /\ Head(inbox[c]) = inbox[c][1]
      BY <2>0, <3>1, Taking
    <3>3. 1 \in 1 .. Len(inbox[c]) /\ Replied(c)
      BY <3>2 DEF Replied
    <3>4. Owner(Head(inbox[c])) = c
      BY <2>0, <3>2, <3>3, MessageFields DEF OwnInbox
    <3>5. c \notin gone
      BY <2>0, <2>3 DEF CRecv, Stages
    <3>6. stage[c] = "served"
      BY <2>0, <3>3, <3>5 DEF CallInv, Pending
    <3> QED BY <2>3, <3>4, <3>6 DEF CRecv, Calls!Next, Calls!Return, Calls!Move
  <2>4. ASSUME NEW c \in Clients, CFail(c) \/ CKill(c) PROVE Calls!Next
    <3>1. stage[c] # "idle"
      BY <2>0, <2>4 DEF CFail, CKill, Stages
    <3> QED BY <2>4, <3>1 DEF CFail, CKill, Calls!Next, Calls!Abort
  <2>5. CASE \/ SRecv \/ SSend \/ SStop \/ SKill \/ SListen \/ UNCHANGED vars
             \/ \E c \in Clients : CSend(c)
    BY <2>5 DEF SRecv, SSend, SStop, SKill, SListen, CSend, vars
  <2> QED BY <2>1, <2>2, <2>3, <2>4, <2>5 DEF Next
<1> QED BY <1>1, <1>2, InvInit, InvNext, PTL DEF Spec, RpcSpec, Calls!Spec
-----------------------------------------------------------------------------
(***************************************************************************)
(* The queue is bounded, and the server that posts replies to it is the    *)
(* one that makes room by taking requests: can they all wait for room?     *)
(***************************************************************************)

(* The clients with a request in the queue, those with a reply there, and  *)
(* those whose reply there is a list.                                      *)
Asking   == {c \in Clients : Queued(c)}
Answered == {c \in Clients : Replied(c)}
Listed   == {c \in Answered : inbox[c][1].size = ListSize}

(* The units filled are those of the calls: a unit for each message, and   *)
(* what a list takes beyond it.                                            *)
Accounts == used = Cardinality(Asking) + Cardinality(Answered)
                   + (ListSize - 1) * Cardinality(Listed)

AInv == IInv /\ Accounts /\ \A c, d \in gone : c = d

(* Room for the list reply a killed client left, a request of each client  *)
(* but that one and the one being served, and a list reply to that one.    *)
Enough == IsFiniteSet(Clients) /\ Capacity >= 2 * ListSize + Cardinality(Clients) - 2

(* Somebody waits for room in the queue.                                   *)
Full(n) == used + n > Capacity
Crowded == \/ spc = "send" /\ Full(msg.size)
           \/ spc = "recv" /\ \E c \in Clients : cpc[c] = "send" /\ attached[c] /\ Full(1)

(* ... and somebody can take a message out of it.                          *)
Relieved == \/ spc = "recv" /\ inbox[Server] # <<>>
            \/ \E c \in Clients : cpc[c] = "recv" /\ attached[c] /\ inbox[c] # <<>>

NoStandstill == Crowded => Relieved
-----------------------------------------------------------------------------
LEMMA CallsCounted ==
  ASSUME IsFiniteSet(Clients)
  PROVE  /\ IsFiniteSet(Asking) /\ IsFiniteSet(Answered) /\ IsFiniteSet(Listed)
         /\ Cardinality(Asking) \in Nat /\ Cardinality(Answered) \in Nat
         /\ Cardinality(Listed) \in Nat
<1>1. IsFiniteSet(Asking) /\ IsFiniteSet(Answered)
  BY FS_Subset DEF Asking, Answered
<1>2. IsFiniteSet(Listed)
  BY <1>1, FS_Subset DEF Listed
<1> QED BY <1>1, <1>2, FS_CardinalityType

LEMMA AccountsInit ==
  ASSUME IsFiniteSet(Clients), Init
  PROVE  Accounts
<1>1. inbox = Empty /\ used = 0
  BY DEF Init
<1>2. Len(inbox[Server]) = 0 /\ \A c \in Clients : Len(inbox[c]) = 0
  BY <1>1, EmptyQueue, MessageTypes
<1>3. Asking = {} /\ Answered = {}
  BY <1>2 DEF Asking, Answered, Queued, Replied
<1>4. Listed = {}
  BY <1>3 DEF Listed
<1> QED BY <1>1, <1>3, <1>4, FS_EmptySet, MQueuesAssumption DEF Accounts

(* A step that leaves the queue as it is.                                  *)
LEMMA SameAccounts ==
  ASSUME Accounts, inbox' = inbox, used' = used
  PROVE  Accounts'
<1>1. Asking' = Asking
  BY DEF Asking, Queued
<1>2. Answered' = Answered
  BY DEF Answered, Replied
<1>3. Listed' = Listed
  BY <1>2 DEF Listed
<1> QED BY <1>1, <1>2, <1>3 DEF Accounts

(* A step that takes or posts a request leaves the replies as they are.    *)
LEMMA SameReplies ==
  ASSUME \A d \in Clients : inbox'[d] = inbox[d]
  PROVE  Answered' = Answered /\ Listed' = Listed
<1>1. Answered' = Answered
  BY DEF Answered, Replied
<1>2. \A d \in Answered : inbox'[d] = inbox[d]
  BY DEF Answered
<1> QED BY <1>1, <1>2 DEF Listed

(* The one reply to client c, from what it is made of.                     *)
LEMMA OneReply ==
  ASSUME TypeOK, OwnInbox, NEW c \in Clients, Single(c), inbox[c] # <<>>
  PROVE  /\ c \in Answered /\ Len(inbox[c]) = 1
         /\ Head(inbox[c]) = inbox[c][1]
         /\ \E n \in {1, ListSize} : inbox[c][1] = Res(c, n)
<1>1. inbox[c] \in Seq(Message)
  BY MessageTypes DEF TypeOK
<1>2. Len(inbox[c]) \in Nat \ {0}
  BY <1>1, EmptySeq
<1>3. Len(inbox[c]) = 1 /\ Replied(c)
  <2>1. Len(inbox[c]) <= 1
    BY DEF Single
  <2>2. Len(inbox[c]) > 0
    BY <1>2
  <2>3. \A x \in Nat \ {0} : x <= 1 => x = 1
    OBVIOUS
  <2>4. Len(inbox[c]) = 1
    BY <1>2, <2>1, <2>3
  <2> QED BY <2>2, <2>4 DEF Replied
<1>4. 1 \in 1 .. Len(inbox[c])
  BY <1>2
<1>5. Head(inbox[c]) = inbox[c][1]
  BY <1>1
<1> QED BY <1>3, <1>4, <1>5 DEF OwnInbox, Answered

LEMMA AccountsNext ==
  ASSUME IsFiniteSet(Clients), IInv, Accounts, [Next]_vars
  PROVE  Accounts'
<1>0. TypeOK /\ MsgOK /\ OwnInbox /\ Stages /\ CallInv /\ Accounts
  BY DEF IInv, TInv
<1>a. used \in Int /\ ListSize \in Nat \ {0}
  BY <1>0, MQueuesAssumption DEF TypeOK
<1>b. \A c \in Clients : Single(c) /\ Apart(c)
  BY <1>0 DEF CallInv
<1>1. CASE SRecv
  <2>1. msgrcv(Server)
    BY <1>1 DEF SRecv
  <2>2. PICK c \in Clients : Head(inbox[Server]) = Req(c)
    <3>1. /\ Len(inbox[Server]) \in Nat \ {0}
          /\ Head(inbox[Server]) = inbox[Server][1]
      BY <1>0, <2>1, Taking, MessageTypes
    <3>2. 1 \in 1 .. Len(inbox[Server])
      BY <3>1
    <3> QED BY <1>0, <3>1, <3>2 DEF OwnInbox
  <2>3. ASSUME NEW d \in Clients
        PROVE  (Queued(d)' <=> Queued(d) /\ d # c) /\ Queued(c) /\ inbox'[d] = inbox[d]
    BY <1>0, <2>1, <2>2, TakingRequest
  <2>4. used' = used - 1
    BY <2>1, <2>2, MessageFields DEF msgrcv
  <2>5. Asking' = Asking \ {c} /\ c \in Asking
    BY <2>3 DEF Asking
  <2>6. Answered' = Answered /\ Listed' = Listed
    BY <2>3, SameReplies
  <2>7. Cardinality(Asking \ {c}) = Cardinality(Asking) - 1
    BY <2>5, CallsCounted, FS_RemoveElement
  <2> QED BY <1>0, <1>a, <2>4, <2>5, <2>6, <2>7, CallsCounted DEF Accounts
<1>2. CASE SSend
  <2>1. PICK c \in Clients, n \in {1, ListSize} : msg = Res(c, n)
    BY <1>0, <1>2 DEF SSend, MsgOK
  <2>2. msg.of = c /\ msgsnd(c, Res(c, n)) /\ spc = "send"
    BY <1>2, <2>1, MessageFields DEF SSend
  <2>3. /\ \A i \in Ids \ {c} : inbox'[i] = inbox[i]
        /\ Len(inbox'[c]) = Len(inbox[c]) + 1 /\ Len(inbox[c]) \in Nat
        /\ inbox'[c][Len(inbox[c]) + 1] = Res(c, n)
    BY <1>0, <2>2, Posting, MessageTypes
  <2>4. used' = used + n
    BY <2>2, MessageFields DEF msgsnd
  <2>5. ~Replied(c)
    BY <1>b, <2>2 DEF Apart, Busy
  <2>6. Len(inbox[c]) = 0 /\ Len(inbox'[c]) = 1 /\ inbox'[c][1] = Res(c, n)
    <3>1. Len(inbox[c]) = 0
      BY <2>3, <2>5 DEF Replied
    <3> QED BY <2>3, <3>1
  <2>7. inbox'[Server] = inbox[Server] /\ \A d \in Clients : d # c => inbox'[d] = inbox[d]
    BY <2>3, MessageTypes
  <2>8. Asking' = Asking
    BY <2>7 DEF Asking, Queued
  <2>9. Answered' = Answered \cup {c} /\ c \notin Answered
    <3>1. Replied(c)'
      BY <2>6 DEF Replied
    <3>2. \A d \in Clients : d # c => (Replied(d)' <=> Replied(d))
      BY <2>7 DEF Replied
    <3> QED BY <2>5, <3>1, <3>2 DEF Answered
  <2>10. /\ n = ListSize => Listed' = Listed \cup {c}
         /\ n # ListSize => Listed' = Listed
         /\ c \notin Listed
    <3>1. inbox'[c][1].size = n
      BY <2>6, MessageFields
    <3>2. \A d \in Answered : d # c /\ inbox'[d] = inbox[d]
      BY <2>7, <2>9 DEF Answered
    <3> QED BY <2>9, <3>1, <3>2 DEF Listed
  <2>11. Cardinality(Answered') = Cardinality(Answered) + 1
    BY <2>9, CallsCounted, FS_AddElement
  <2>12. CASE n = ListSize
    <3>1. Cardinality(Listed') = Cardinality(Listed) + 1
      BY <2>10, <2>12, CallsCounted, FS_AddElement
    <3>2. \A k \in Nat : (ListSize - 1) * (k + 1) = (ListSize - 1) * k + ListSize - 1
      BY <1>a
    <3>3. (ListSize - 1) * (Cardinality(Listed) + 1)
            = (ListSize - 1) * Cardinality(Listed) + ListSize - 1
      BY <3>2, CallsCounted
    <3>4. (ListSize - 1) * Cardinality(Listed) \in Int
      BY <1>a, CallsCounted
    <3> DEFINE extra == (ListSize - 1) * Cardinality(Listed)
               extraP == (ListSize - 1) * Cardinality(Listed')
    <3>5. extraP = extra + ListSize - 1 /\ extra \in Int
      BY <3>1, <3>3, <3>4
    <3>6. used = Cardinality(Asking) + Cardinality(Answered) + extra
      BY <1>0 DEF Accounts
    <3>7. Accounts' <=> used' = Cardinality(Asking') + Cardinality(Answered') + extraP
      BY DEF Accounts
    <3> HIDE DEF extra, extraP
    <3> QED BY <1>a, <2>4, <2>8, <2>11, <2>12, <3>5, <3>6, <3>7, CallsCounted
  <2>13. CASE n # ListSize
    BY <1>0, <1>a, <2>4, <2>8, <2>10, <2>11, <2>13, CallsCounted DEF Accounts
  <2> QED BY <2>12, <2>13
<1>3. CASE SStop
  <2>1. used' = 0 /\ Len(inbox'[Server]) = 0 /\ \A d \in Clients : Len(inbox'[d]) = 0
    BY <1>3, EmptyQueue, MessageTypes DEF SStop
  <2>2. Asking' = {} /\ Answered' = {}
    BY <2>1 DEF Asking, Answered, Queued, Replied
  <2>3. Listed' = {}
    BY <2>2 DEF Listed
  <2>4. (ListSize - 1) * 0 = 0
    BY <1>a
  <2> QED BY <2>1, <2>2, <2>3, <2>4, FS_EmptySet DEF Accounts
<1>4. ASSUME NEW c \in Clients, CSend(c) PROVE Accounts'
  <2>1. msgsnd(Server, Req(c)) /\ cpc[c] = "send"
    BY <1>4 DEF CSend
  <2>2. ~Queued(c)
    <3>1. c \notin gone
      BY <1>0, <2>1 DEF Stages
    <3> QED BY <1>0, <2>1, <3>1 DEF CallInv, Pending
  <2>3. ASSUME NEW d \in Clients
        PROVE  (Queued(d)' <=> Queued(d) \/ d = c) /\ inbox'[d] = inbox[d]
    BY <1>0, <2>1, <2>2, PostingRequest
  <2>4. used' = used + 1
    BY <2>1, MessageFields DEF msgsnd
  <2>5. Asking' = Asking \cup {c} /\ c \notin Asking
    BY <2>2, <2>3 DEF Asking
  <2>6. Answered' = Answered /\ Listed' = Listed
    BY <2>3, SameReplies
  <2>7. Cardinality(Asking \cup {c}) = Cardinality(Asking) + 1
    BY <2>5, CallsCounted, FS_AddElement
  <2> QED BY <1>0, <1>a, <2>4, <2>5, <2>6, <2>7, CallsCounted DEF Accounts
<1>5. ASSUME NEW c \in Clients, CRecv(c) PROVE Accounts'
  <2>1. msgrcv(c) /\ inbox[c] # <<>>
    BY <1>5 DEF CRecv, msgrcv
  <2>2. /\ c \in Answered /\ Len(inbox[c]) = 1 /\ Head(inbox[c]) = inbox[c][1]
        /\ \E n \in {1, ListSize} : inbox[c][1] = Res(c, n)
    BY <1>0, <1>b, <2>1, OneReply
  <2>3. PICK n \in {1, ListSize} : inbox[c][1] = Res(c, n)
    BY <2>2
  <2>4. used' = used - n
    BY <2>1, <2>2, <2>3, MessageFields DEF msgrcv
  <2>5. Len(inbox'[c]) = 0 /\ inbox'[Server] = inbox[Server]
        /\ \A d \in Clients : d # c => inbox'[d] = inbox[d]
    <3>1. /\ \A i \in Ids \ {c} : inbox'[i] = inbox[i]
          /\ Len(inbox'[c]) = Len(inbox[c]) - 1
      BY <1>0, <2>1, Taking, MessageTypes
    <3> QED BY <2>2, <3>1, MessageTypes
  <2>6. Asking' = Asking
    BY <2>5 DEF Asking, Queued
  <2>7. Answered' = Answered \ {c}
    BY <2>5 DEF Answered, Replied
  <2>8. /\ Listed' = Listed \ {c}
        /\ c \in Listed <=> n = ListSize
    <3>1. inbox[c][1].size = n
      BY <2>3, MessageFields
    <3>2. \A d \in Answered' : d # c /\ inbox'[d] = inbox[d]
      BY <2>5, <2>7 DEF Answered
    <3> QED BY <2>2, <2>7, <3>1, <3>2 DEF Listed
  <2>9. Cardinality(Answered') = Cardinality(Answered) - 1
    BY <2>2, <2>7, CallsCounted, FS_RemoveElement
  <2>10. CASE n = ListSize
    <3>1. Cardinality(Listed') = Cardinality(Listed) - 1
      BY <2>8, <2>10, CallsCounted, FS_RemoveElement
    <3>2. \A k \in Int : (ListSize - 1) * (k - 1) = (ListSize - 1) * k - (ListSize - 1)
      BY <1>a
    <3>3. (ListSize - 1) * (Cardinality(Listed) - 1)
            = (ListSize - 1) * Cardinality(Listed) - (ListSize - 1)
      BY <3>2, CallsCounted
    <3>4. (ListSize - 1) * Cardinality(Listed) \in Int
      BY <1>a, CallsCounted
    <3> DEFINE extra == (ListSize - 1) * Cardinality(Listed)
               extraP == (ListSize - 1) * Cardinality(Listed')
    <3>5. extraP = extra - (ListSize - 1) /\ extra \in Int
      BY <3>1, <3>3, <3>4
    <3>6. used = Cardinality(Asking) + Cardinality(Answered) + extra
      BY <1>0 DEF Accounts
    <3>7. Accounts' <=> used' = Cardinality(Asking') + Cardinality(Answered') + extraP
      BY DEF Accounts
    <3> HIDE DEF extra, extraP
    <3> QED BY <1>a, <2>4, <2>6, <2>9, <2>10, <3>5, <3>6, <3>7, CallsCounted
  <2>11. CASE n # ListSize
    <3>1. Listed' = Listed /\ n = 1
      BY <2>8, <2>11
    <3> QED BY <1>0, <1>a, <2>4, <2>6, <2>9, <3>1, CallsCounted DEF Accounts
  <2> QED BY <2>10, <2>11
<1>6. CASE \/ SServe \/ SKill \/ SListen \/ UNCHANGED vars
           \/ \E c \in Clients : Connect(c) \/ CFail(c) \/ CKill(c)
  <2>1. inbox' = inbox /\ used' = used
    BY <1>6 DEF SServe, SKill, SListen, Connect, CFail, CKill, vars, queue
  <2> QED BY <1>0, <2>1, SameAccounts
<1> QED BY <1>1, <1>2, <1>3, <1>4, <1>5, <1>6 DEF Next

LEMMA AccountsInv ==
  ASSUME IsFiniteSet(Clients)
  PROVE  (Init => AInv) /\ (AInv /\ [Next]_vars => AInv')
<1>1. Init => AInv
  BY InvInit, AccountsInit DEF AInv, Init
<1>2. ASSUME AInv, [Next]_vars PROVE AInv'
  <2>1. IInv' /\ Accounts'
    BY <1>2, InvNext, AccountsNext DEF AInv
  <2>2. (\A c, d \in gone : c = d) /\ (~killed => gone = {})
    BY <1>2 DEF AInv, IInv
  <2>3. gone' = gone \/ \E c \in Clients : ~killed /\ gone' = gone \cup {c}
    BY <1>2 DEF Next, SRecv, SServe, SSend, SStop, SKill, SListen, Connect, CSend, CRecv,
                CFail, CKill, faulty, vars
  <2> QED BY <2>1, <2>2, <2>3 DEF AInv
<1> QED BY <1>1, <1>2

(* With room for all calls at once the queue never stands still: when the  *)
(* server waits for room to post a reply, or a client to post a request    *)
(* while the server waits for one, there is a request the server can take, *)
(* or a client that waits for the reply the queue holds, whatever was      *)
(* stopped or killed before.                                               *)
THEOREM RoomAppears == Enough => (Spec => []NoStandstill)
<1> SUFFICES ASSUME Enough PROVE Spec => []NoStandstill
  OBVIOUS
<1>1. AInv => NoStandstill
  <2> SUFFICES ASSUME AInv, ~Relieved PROVE ~Crowded
    BY DEF NoStandstill
  <2>0. TypeOK /\ MsgOK /\ OwnInbox /\ Stages /\ CallInv /\ Accounts
    BY DEF AInv, IInv, TInv
  <2>1. IsFiniteSet(Clients) /\ Cardinality(Clients) \in Nat /\ ListSize \in Nat \ {0}
        /\ Capacity \in Nat /\ Capacity >= 2 * ListSize + Cardinality(Clients) - 2
        /\ used \in Int
    BY <2>0, FS_CardinalityType, MQueuesAssumption DEF Enough, TypeOK
  <2>2. Answered \subseteq gone
    <3> SUFFICES ASSUME NEW d \in Answered, d \notin gone PROVE FALSE
      OBVIOUS
    <3>1. d \in Clients /\ Replied(d)
      BY DEF Answered
    <3>2. cpc[d] = "recv" /\ attached[d]
      BY <2>0, <3>1 DEF CallInv, Pending
    <3>3. inbox[d] # <<>>
      BY <3>1, EmptySeq DEF Replied
    <3> QED BY <3>1, <3>2, <3>3 DEF Relieved
  <2>3. (\E g \in Clients : Answered = {g}) \/ Answered = {}
    BY <2>2 DEF AInv, Answered
  <2>4. Listed \subseteq Answered
    BY DEF Listed
  <2>5. (Answered = {} => used = Cardinality(Asking))
        /\ (Answered # {} => used <= Cardinality(Asking) + ListSize)
    <3>1. CASE Answered = {}
      <4>1. Listed = {} /\ Cardinality(Listed) = 0 /\ Cardinality(Answered) = 0
        BY <2>4, <3>1, FS_EmptySet
      <4>2. (ListSize - 1) * 0 = 0
        BY <2>1
      <4> QED BY <2>0, <2>1, <3>1, <4>1, <4>2, CallsCounted DEF Accounts
    <3>2. CASE Answered # {}
      <4>1. PICK g \in Clients : Answered = {g}
        BY <2>3, <3>2
      <4>2. Cardinality(Answered) = 1
        BY <4>1, FS_Singleton
      <4>3. Listed = {} \/ Listed = {g}
        BY <2>4, <4>1
      <4>4. Cardinality(Listed) = 0 \/ Cardinality(Listed) = 1
        BY <4>3, FS_EmptySet, FS_Singleton
      <4>5. (ListSize - 1) * 0 = 0 /\ (ListSize - 1) * 1 = ListSize - 1
        BY <2>1
      <4>6. \/ (ListSize - 1) * Cardinality(Listed) = 0
            \/ (ListSize - 1) * Cardinality(Listed) = ListSize - 1
        BY <4>4, <4>5
      <4> QED BY <2>0, <2>1, <3>2, <4>2, <4>6, CallsCounted DEF Accounts
    <3> QED BY <3>1, <3>2
  <2>6. ASSUME NEW c \in Clients, c \notin Asking, c \notin Answered
        PROVE  /\ Answered = {} => Cardinality(Asking) + 1 <= Cardinality(Clients)
               /\ Answered # {} => Cardinality(Asking) + 2 <= Cardinality(Clients)
    <3>1. Asking \subseteq Clients \ {c}
      BY <2>6 DEF Asking
    <3>2. IsFiniteSet(Clients \ {c}) /\ Cardinality(Clients \ {c}) = Cardinality(Clients) - 1
      BY <2>1, FS_RemoveElement
    <3>3. Cardinality(Asking) + 1 <= Cardinality(Clients)
      <4>1. Cardinality(Asking) <= Cardinality(Clients \ {c})
        BY <3>1, <3>2, FS_Subset
      <4> QED BY <2>1, <3>2, <4>1, CallsCounted
    <3>4. ASSUME Answered # {} PROVE Cardinality(Asking) + 2 <= Cardinality(Clients)
      <4>1. PICK g \in Clients : Answered = {g}
        BY <2>3, <3>4
      <4>2. Replied(g) /\ g # c
        BY <2>6, <4>1 DEF Answered
      <4>3. ~Queued(g)
        BY <2>0, <4>2 DEF CallInv, Apart
      <4>4. Asking \subseteq (Clients \ {c}) \ {g}
        BY <3>1, <4>3 DEF Asking
      <4>5. /\ IsFiniteSet((Clients \ {c}) \ {g})
            /\ Cardinality((Clients \ {c}) \ {g}) = Cardinality(Clients \ {c}) - 1
        BY <3>2, <4>2, FS_RemoveElement
      <4>6. Cardinality(Asking) <= Cardinality((Clients \ {c}) \ {g})
        BY <4>4, <4>5, FS_Subset
      <4> QED BY <2>1, <3>2, <4>5, <4>6, CallsCounted
    <3> QED BY <3>3, <3>4
  <2>7. CASE spc = "send"
    <3>1. PICK c \in Clients, n \in {1, ListSize} : msg = Res(c, n)
      BY <2>0, <2>7 DEF MsgOK
    <3>2. msg.of = c /\ msg.size = n
      BY <3>1, MessageFields
    <3>3. Busy(c)
      BY <2>7, <3>2 DEF Busy
    <3>4. c \notin Asking /\ c \notin Answered
      BY <2>0, <3>3 DEF CallInv, Apart, Asking, Answered
    <3>5. /\ Answered = {} => Cardinality(Asking) + 1 <= Cardinality(Clients)
          /\ Answered # {} => Cardinality(Asking) + 2 <= Cardinality(Clients)
      BY <2>6, <3>4
    <3>6. used + n <= Capacity
      <4>1. n \in Nat /\ n <= ListSize
        BY <2>1
      <4>2. used + ListSize <= 2 * ListSize + Cardinality(Clients) - 2
        BY <2>1, <2>5, <3>5, CallsCounted
      <4> QED BY <2>1, <4>1, <4>2
    <3> QED BY <2>1, <2>7, <3>2, <3>6 DEF Crowded, Full
  <2>8. CASE spc = "recv"
    <3> SUFFICES ASSUME NEW c \in Clients, cpc[c] = "send" PROVE ~Full(1)
      BY <2>8 DEF Crowded
    <3>1. inbox[Server] = <<>>
      BY <2>8 DEF Relieved
    <3>2. Asking = {}
      BY <3>1, EmptySeq DEF Asking, Queued
    <3>3. c \notin gone /\ c \notin Asking /\ c \notin Answered
      BY <2>0, <2>2, <3>2 DEF Stages
    <3>4. /\ Answered = {} => Cardinality(Asking) + 1 <= Cardinality(Clients)
          /\ Answered # {} => Cardinality(Asking) + 2 <= Cardinality(Clients)
      BY <2>6, <3>3
    <3>5. Cardinality(Asking) = 0
      BY <3>2, FS_EmptySet
    <3>6. used + 1 <= Capacity
      <4>1. used + 1 <= 2 * ListSize + Cardinality(Clients) - 2
        BY <2>1, <2>5, <3>4, <3>5
      <4> QED BY <2>1, <4>1
    <3> QED BY <2>1, <3>6 DEF Full
  <2> QED BY <2>7, <2>8 DEF Crowded
<1>2. IsFiniteSet(Clients)
  BY DEF Enough
<1>3. (Init => AInv) /\ (AInv /\ [Next]_vars => AInv')
  BY <1>2, AccountsInv
<1> QED BY <1>1, <1>3, PTL DEF Spec
=============================================================================
