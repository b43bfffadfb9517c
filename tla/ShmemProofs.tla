---------------------------- MODULE ShmemProofs ----------------------------
(***************************************************************************)
(* Theorems about the shared memory transport, for any number of clients   *)
(* that run at once, whoever is stopped, started again or killed.          *)
(***************************************************************************)
EXTENDS Shmem, FiniteSetTheorems, TLAPS

HasTurn(c) == attached[c] /\ cpc[c] \in {"write", "fill", "emit"}

(* The turn is in one place: with the server, with one client that may     *)
(* write, or in one of the two semaphores that pass it on.                 *)
Turn ==
  /\ sem["CLIENT_CAN_WRITE"] \in {0, 1} /\ sem["SERVER_CAN_READ"] \in {0, 1}
  /\ sem["CLIENT_CAN_WRITE"] = 1 => sem["SERVER_CAN_READ"] = 0
  /\ sem["CLIENT_CAN_WRITE"] = 1 \/ sem["SERVER_CAN_READ"] = 1 => spc = "await"
  /\ \A c \in Clients : HasTurn(c) =>
       /\ sem["CLIENT_CAN_WRITE"] = 0 /\ sem["SERVER_CAN_READ"] = 0 /\ spc = "await"
       /\ \A d \in Clients : HasTurn(d) => d = c

Request(c) == [sender |-> c, content |-> Req(c)]

(* What whoever has the turn finds in the segment.                         *)
Delivery ==
  /\ \A c \in Clients : cpc[c] = "fill" => memory = [sender |-> c, content |-> Torn]
  /\ \A c \in Clients : attached[c] /\ cpc[c] = "emit" => memory = Request(c)
  /\ sem["SERVER_CAN_READ"] = 1 \/ spc = "copy" => \E c \in Clients : memory = Request(c)
  /\ spc = "serve" => \E c \in Clients : msg = Request(c)

(* No client writes that a removed semaphore let in.                       *)
NoStrays == \A c \in Clients : Writing(c) => attached[c]

DInv == OneTurn => Turn /\ NoStrays /\ Delivery
-----------------------------------------------------------------------------
LEMMA ContentTypes ==
  /\ Torn \in Contents /\ Empty \in Messages
  /\ \A c \in Clients : Req(c) \in Contents /\ Res(c) \in Contents
  /\ \A x \in Contents : x.kind = "req" => x.of \in Clients
<1>1. Torn \in Contents /\ \A c \in Clients : Req(c) \in Contents /\ Res(c) \in Contents
  BY DEF Contents
<1>2. Empty \in Messages
  BY <1>1 DEF Messages, Empty
<1>3. \A x \in Contents : x.kind = "req" => x.of \in Clients
  BY DEF Contents, Req, Res, Torn
<1> QED BY <1>1, <1>2, <1>3

LEMMA MessageTypes ==
  ASSUME NEW m \in Messages
  PROVE  /\ m.sender \in Clients \cup {Server, Nobody} /\ m.content \in Contents
         /\ \A x \in Contents : [m EXCEPT !.content = x] \in Messages
         /\ \A x \in Contents : [m EXCEPT !.content = x] = [sender |-> m.sender, content |-> x]
BY DEF Messages

LEMMA TypeInit == Init => TypeOK
<1> SUFFICES ASSUME Init PROVE TypeOK
  OBVIOUS
<1>1. sem \in [Semaphores -> Nat]
  BY DEF Init, Closed
<1> QED BY <1>1, ContentTypes DEF Init, TypeOK, ServerLabels, ClientLabels

LEMMA TypeNext == TypeOK /\ [Next]_vars => TypeOK'
<1> SUFFICES ASSUME TypeOK, [Next]_vars PROVE TypeOK'
  OBVIOUS
<1>1. CASE SOpen
  BY <1>1 DEF SOpen, emit, ServerGoto, history, faults, TypeOK, Semaphores, ServerLabels, ClientLabels
<1>2. CASE SAwait
  BY <1>2 DEF SAwait, await, ServerGoto, history, faults, TypeOK, Semaphores, ServerLabels, ClientLabels
<1>3. CASE SCopy
  BY <1>3 DEF SCopy, ServerGoto, history, faults, TypeOK, Semaphores, ServerLabels, ClientLabels
<1>4. CASE SServe
  BY <1>4, ContentTypes, MessageTypes DEF SServe, Acted, ServerGoto, faults, TypeOK, Semaphores, ServerLabels, ClientLabels
<1>5. CASE SBadReq
  BY <1>5 DEF SBadReq, ServerGoto, history, faults, TypeOK, Semaphores, ServerLabels, ClientLabels
<1>6. CASE SWrite
  BY <1>6, ContentTypes DEF SWrite, ServerGoto, history, faults, TypeOK, Semaphores, ServerLabels, ClientLabels, Messages
<1>7. CASE SFill
  BY <1>7, ContentTypes, MessageTypes DEF SFill, ServerGoto, history, faults, TypeOK, Semaphores, ServerLabels, ClientLabels, Reply
<1>8. CASE SEmit
  BY <1>8 DEF SEmit, emit, ServerGoto, history, faults, TypeOK, Semaphores, ServerLabels, ClientLabels
<1>9. CASE SListen
  BY <1>9 DEF SListen, ServerGoto, history, faults, TypeOK, Semaphores, ServerLabels, ClientLabels
<1>10. ASSUME NEW c \in Clients, Connect(c) PROVE TypeOK'
  BY <1>10 DEF Connect, ClientGoto, server, faults, TypeOK, Semaphores, ServerLabels, ClientLabels, Callers
<1>11. ASSUME NEW c \in Clients, CAwaitWrite(c) PROVE TypeOK'
  BY <1>11 DEF CAwaitWrite, await, ClientGoto, server, history, faults, TypeOK, Semaphores, ServerLabels, ClientLabels
<1>12. ASSUME NEW c \in Clients, CWrite(c) PROVE TypeOK'
  BY <1>12, ContentTypes DEF CWrite, ClientGoto, server, history, faults, TypeOK, Semaphores, ServerLabels, ClientLabels, Messages
<1>13. ASSUME NEW c \in Clients, CFill(c) PROVE TypeOK'
  BY <1>13, ContentTypes, MessageTypes DEF CFill, ClientGoto, server, history, faults, TypeOK, Semaphores, ServerLabels, ClientLabels
<1>14. ASSUME NEW c \in Clients, CEmit(c) PROVE TypeOK'
  BY <1>14 DEF CEmit, emit, ClientGoto, server, history, faults, TypeOK, Semaphores, ServerLabels, ClientLabels
<1>15. ASSUME NEW c \in Clients, CAwaitRead(c) PROVE TypeOK'
  BY <1>15 DEF CAwaitRead, await, ClientGoto, server, history, faults, TypeOK, Semaphores, ServerLabels, ClientLabels
<1>16. ASSUME NEW c \in Clients, CCopy(c) PROVE TypeOK'
  BY <1>16, ContentTypes, MessageTypes DEF CCopy, CEnd, server, faults, TypeOK, Semaphores, ServerLabels, ClientLabels
<1>17. ASSUME NEW c \in Clients, CFail(c) PROVE TypeOK'
  BY <1>17 DEF CFail, CEnd, server, faults, TypeOK, Semaphores, ServerLabels, ClientLabels
<1>18. ASSUME NEW c \in Clients, CDie(c) PROVE TypeOK'
  BY <1>18 DEF CDie, CEnd, server, TypeOK, Semaphores, ServerLabels, ClientLabels
<1>19. CASE SStop
  BY <1>19, ContentTypes DEF SStop, Down, history, Closed, TypeOK, Semaphores, ServerLabels
<1>20. CASE SKill
  BY <1>20, ContentTypes DEF SKill, Down, Callers, TypeOK, Semaphores, ServerLabels
<1>21. CASE UNCHANGED vars
  BY <1>21 DEF vars, TypeOK
<1> QED BY <1>1, <1>2, <1>3, <1>4, <1>5, <1>6, <1>7, <1>8, <1>9, <1>10, <1>11,
           <1>12, <1>13, <1>14, <1>15, <1>16, <1>17, <1>18, <1>19, <1>20, <1>21
       DEF Next, ServerStep, ClientStep

(* Every variable keeps its type.                                          *)
THEOREM TypeCorrect == Spec => []TypeOK
BY TypeInit, TypeNext, PTL DEF Spec
-----------------------------------------------------------------------------
LEMMA InvariantInit == Init => DInv
BY DEF Init, DInv, Turn, HasTurn, NoStrays, Writing, Delivery, Closed, Semaphores

(* A SIGINT that finds no client in its memcpy leaves nothing behind.      *)
LEMMA StopRestores == SStop /\ OneTurn' => Turn' /\ NoStrays' /\ Delivery'
BY DEF SStop, OneTurn, Down, Closed, Semaphores, history, Turn, HasTurn, NoStrays, Writing, Delivery

(* No other step makes a second turn, without its being recorded.          *)
LEMMA TurnKept ==
  ASSUME [Next]_vars, ~SStop, OneTurn'
  PROVE  OneTurn /\ ~SKill
<1>1. ~SKill
  BY DEF OneTurn, SKill
<1>2. UNCHANGED strayed /\ (UNCHANGED dead \/ (dead' = "client" /\ dead = "nobody"))
  BY <1>1 DEF Next, ServerStep, ClientStep, vars, faults, SOpen, SAwait, SCopy, SServe, SBadReq, SWrite,
     SFill, SEmit, SListen, Connect, CAwaitWrite, CWrite, CFill, CEmit, CAwaitRead, CCopy, CFail, CDie
<1> QED BY <1>1, <1>2 DEF OneTurn

LEMMA TurnNext ==
  ASSUME TypeOK, Turn, NoStrays, [Next]_vars, ~SStop, ~SKill
  PROVE  Turn' /\ NoStrays'
<1>1. CASE SOpen
  BY <1>1 DEF SOpen, emit, ServerGoto, history, faults, TypeOK, Turn, HasTurn, NoStrays, Writing, Semaphores
<1>2. CASE SAwait
  BY <1>2 DEF SAwait, await, ServerGoto, history, faults, TypeOK, Turn, HasTurn, NoStrays, Writing, Semaphores
<1>3. CASE SCopy
  BY <1>3 DEF SCopy, ServerGoto, history, faults, TypeOK, Turn, HasTurn, NoStrays, Writing, Semaphores
<1>4. CASE SServe
  BY <1>4 DEF SServe, ServerGoto, faults, TypeOK, Turn, HasTurn, NoStrays, Writing, Semaphores
<1>5. CASE SBadReq
  BY <1>5 DEF SBadReq, ServerGoto, history, faults, TypeOK, Turn, HasTurn, NoStrays, Writing, Semaphores
<1>6. CASE SWrite
  BY <1>6 DEF SWrite, ServerGoto, history, faults, TypeOK, Turn, HasTurn, NoStrays, Writing, Semaphores
<1>7. CASE SFill
  BY <1>7 DEF SFill, ServerGoto, history, faults, TypeOK, Turn, HasTurn, NoStrays, Writing, Semaphores
<1>8. CASE SEmit
  BY <1>8 DEF SEmit, emit, ServerGoto, history, faults, TypeOK, Turn, HasTurn, NoStrays, Writing, Semaphores
<1>9. CASE SListen
  BY <1>9 DEF SListen, ServerGoto, history, faults, TypeOK, Turn, HasTurn, NoStrays, Writing, Semaphores
<1>10. ASSUME NEW c \in Clients, Connect(c) PROVE Turn' /\ NoStrays'
  BY <1>10 DEF Connect, ClientGoto, server, faults, TypeOK, Turn, HasTurn, NoStrays, Writing, Semaphores
<1>11. ASSUME NEW c \in Clients, CAwaitWrite(c) PROVE Turn' /\ NoStrays'
  BY <1>11 DEF CAwaitWrite, await, ClientGoto, server, history, faults, TypeOK, Turn, HasTurn, NoStrays, Writing, Semaphores
<1>12. ASSUME NEW c \in Clients, CWrite(c) PROVE Turn' /\ NoStrays'
  BY <1>12 DEF CWrite, ClientGoto, server, history, faults, TypeOK, Turn, HasTurn, NoStrays, Writing, Semaphores
<1>13. ASSUME NEW c \in Clients, CFill(c) PROVE Turn' /\ NoStrays'
  BY <1>13 DEF CFill, ClientGoto, server, history, faults, TypeOK, Turn, HasTurn, NoStrays, Writing, Semaphores
<1>14. ASSUME NEW c \in Clients, CEmit(c) PROVE Turn' /\ NoStrays'
  BY <1>14 DEF CEmit, emit, ClientGoto, server, history, faults, TypeOK, Turn, HasTurn, NoStrays, Writing, Semaphores
<1>15. ASSUME NEW c \in Clients, CAwaitRead(c) PROVE Turn' /\ NoStrays'
  BY <1>15 DEF CAwaitRead, await, ClientGoto, server, history, faults, TypeOK, Turn, HasTurn, NoStrays, Writing, Semaphores
<1>16. ASSUME NEW c \in Clients, CCopy(c) PROVE Turn' /\ NoStrays'
  BY <1>16 DEF CCopy, CEnd, server, faults, TypeOK, Turn, HasTurn, NoStrays, Writing, Semaphores
<1>17. ASSUME NEW c \in Clients, CFail(c) PROVE Turn' /\ NoStrays'
  BY <1>17 DEF CFail, CEnd, server, faults, TypeOK, Turn, HasTurn, NoStrays, Writing, Semaphores
<1>18. ASSUME NEW c \in Clients, CDie(c) PROVE Turn' /\ NoStrays'
  BY <1>18 DEF CDie, CEnd, server, TypeOK, Turn, HasTurn, NoStrays, Writing, Semaphores
<1>19. CASE UNCHANGED vars
  BY <1>19 DEF vars, Turn, HasTurn, NoStrays, Writing
<1> QED BY <1>1, <1>2, <1>3, <1>4, <1>5, <1>6, <1>7, <1>8, <1>9, <1>10, <1>11,
           <1>12, <1>13, <1>14, <1>15, <1>16, <1>17, <1>18, <1>19
       DEF Next, ServerStep, ClientStep

LEMMA DeliveryNext ==
  ASSUME TypeOK, Turn, NoStrays, Delivery, [Next]_vars, ~SStop, ~SKill
  PROVE  Delivery'
<1>1. CASE SOpen
  BY <1>1 DEF SOpen, emit, ServerGoto, history, faults, TypeOK, Turn, HasTurn, NoStrays, Writing, Delivery, Request, Semaphores
<1>2. CASE SAwait
  BY <1>2 DEF SAwait, await, ServerGoto, history, faults, TypeOK, Turn, HasTurn, NoStrays, Writing, Delivery, Request, Semaphores
<1>3. CASE SCopy
  BY <1>3 DEF SCopy, ServerGoto, history, faults, TypeOK, Turn, HasTurn, NoStrays, Writing, Delivery, Request, Semaphores
<1>4. CASE SServe
  BY <1>4 DEF SServe, ServerGoto, faults, TypeOK, Turn, HasTurn, NoStrays, Writing, Delivery, Request, Semaphores
<1>5. CASE SBadReq
  BY <1>5 DEF SBadReq, ServerGoto, history, faults, TypeOK, Turn, HasTurn, NoStrays, Writing, Delivery, Request, Semaphores
<1>6. CASE SWrite
  BY <1>6 DEF SWrite, ServerGoto, history, faults, TypeOK, Turn, HasTurn, NoStrays, Writing, Delivery, Request, Semaphores
<1>7. CASE SFill
  BY <1>7 DEF SFill, ServerGoto, history, faults, TypeOK, Turn, HasTurn, NoStrays, Writing, Delivery, Request, Semaphores
<1>8. CASE SEmit
  BY <1>8 DEF SEmit, emit, ServerGoto, history, faults, TypeOK, Turn, HasTurn, NoStrays, Writing, Delivery, Request, Semaphores
<1>9. CASE SListen
  BY <1>9 DEF SListen, ServerGoto, history, faults, TypeOK, Turn, HasTurn, NoStrays, Writing, Delivery, Request, Semaphores
<1>10. ASSUME NEW c \in Clients, Connect(c) PROVE Delivery'
  BY <1>10 DEF Connect, ClientGoto, server, faults, TypeOK, Turn, HasTurn, NoStrays, Writing, Delivery, Request, Semaphores
<1>11. ASSUME NEW c \in Clients, CAwaitWrite(c) PROVE Delivery'
  BY <1>11 DEF CAwaitWrite, await, ClientGoto, server, history, faults, TypeOK, Turn, HasTurn, NoStrays, Writing, Delivery, Request, Semaphores
<1>12. ASSUME NEW c \in Clients, CWrite(c) PROVE Delivery'
  BY <1>12 DEF CWrite, ClientGoto, server, history, faults, TypeOK, Turn, HasTurn, NoStrays, Writing, Delivery, Request, Semaphores
<1>13. ASSUME NEW c \in Clients, CFill(c) PROVE Delivery'
  BY <1>13 DEF CFill, ClientGoto, server, history, faults, TypeOK, Turn, HasTurn, NoStrays, Writing, Delivery, Request, Semaphores
<1>14. ASSUME NEW c \in Clients, CEmit(c) PROVE Delivery'
  BY <1>14 DEF CEmit, emit, ClientGoto, server, history, faults, TypeOK, Turn, HasTurn, NoStrays, Writing, Delivery, Request, Semaphores
<1>15. ASSUME NEW c \in Clients, CAwaitRead(c) PROVE Delivery'
  BY <1>15 DEF CAwaitRead, await, ClientGoto, server, history, faults, TypeOK, Turn, HasTurn, NoStrays, Writing, Delivery, Request, Semaphores
<1>16. ASSUME NEW c \in Clients, CCopy(c) PROVE Delivery'
  BY <1>16 DEF CCopy, CEnd, server, faults, TypeOK, Turn, HasTurn, NoStrays, Writing, Delivery, Request, Semaphores
<1>17. ASSUME NEW c \in Clients, CFail(c) PROVE Delivery'
  BY <1>17 DEF CFail, CEnd, server, faults, TypeOK, Turn, HasTurn, NoStrays, Writing, Delivery, Request, Semaphores
<1>18. ASSUME NEW c \in Clients, CDie(c) PROVE Delivery'
  BY <1>18 DEF CDie, CEnd, server, TypeOK, Turn, HasTurn, NoStrays, Writing, Delivery, Request, Semaphores
<1>19. CASE UNCHANGED vars
  BY <1>19 DEF vars, Delivery
<1> QED BY <1>1, <1>2, <1>3, <1>4, <1>5, <1>6, <1>7, <1>8, <1>9, <1>10, <1>11,
           <1>12, <1>13, <1>14, <1>15, <1>16, <1>17, <1>18, <1>19
       DEF Next, ServerStep, ClientStep

LEMMA Invariance == Spec => []DInv
<1>1. ASSUME TypeOK, DInv, [Next]_vars PROVE DInv'
  <2> SUFFICES ASSUME OneTurn' PROVE Turn' /\ NoStrays' /\ Delivery'
    BY DEF DInv
  <2>1. CASE SStop
    BY <2>1, StopRestores
  <2>2. CASE ~SStop
    BY <1>1, <2>2, TurnKept, TurnNext, DeliveryNext DEF DInv
  <2> QED BY <2>1, <2>2
<1> QED BY <1>1, InvariantInit, TypeCorrect, PTL DEF Spec

(* One process at a time uses the segment, readers of replies aside.       *)
THEOREM Exclusion == Spec => []WriteExclusion
<1>1. DInv => WriteExclusion
  BY DEF DInv, Turn, HasTurn, NoStrays, Writing, WriteExclusion, Owners
<1> QED BY <1>1, Invariance, PTL

(* The server reads whole requests, each under its sender's name.          *)
THEOREM RequestsArrive == Spec => []RequestIntact
<1>1. DInv => RequestIntact
  BY DEF DInv, Delivery, Request, RequestIntact
<1> QED BY <1>1, Invariance, PTL
-----------------------------------------------------------------------------
(* A call that meets no other.                                             *)
Waiting == {c \in Clients : attached[c] /\ cpc[c] = "cr"}
Working == spc \in {"copy", "serve", "write", "fill", "emit"}

Owed    == sem["SERVER_CAN_READ"] + sem["CLIENT_CAN_READ"] + (IF Working THEN 1 ELSE 0)

(* Every client that waits for a reply has a request or a reply under way, *)
(* and there are no others.                                                *)
Accounts ==
  ~Harmed => IsFiniteSet(Waiting) /\ Cardinality(Waiting) = Owed

(* Of two calls that met, both are marked; and nobody else is.             *)
Meetings == /\ disturbed \subseteq Callers
            /\ \A c, d \in Callers : c # d => c \in disturbed
            /\ \A c \in Clients : cpc[c] = "idle" <=> stage[c] = "idle"

(* How far the call of c is.                                               *)
Asked(c)    == stage[c] = "asked" /\ memory = Request(c)
Answered(c) == stage[c] = "served" /\ memory.content = Res(c)

Progress(c) ==
  /\ cpc[c] \in {"cw", "write", "fill", "emit"} => stage[c] = "asked"
  /\ cpc[c] = "cr" =>
       /\ sem["SERVER_CAN_READ"] > 0 \/ spc = "copy" => Asked(c)
       /\ spc = "serve" => stage[c] = "asked" /\ msg = Request(c)
       /\ spc \in {"write", "fill"} => stage[c] = "served" /\ msg = Request(c)
       /\ sem["CLIENT_CAN_READ"] > 0 \/ spc = "emit" => Answered(c)

(* The server reads no request, and none waits for it.                     *)
Unasked == ~Working /\ sem["SERVER_CAN_READ"] = 0

(* A call that met no other has seen no harm either, unless it was in its  *)
(* memcpy when the server stopped; then nobody asks the next one.          *)
Lone ==
  \A c \in Callers \ disturbed :
    /\ dead = "nobody"
    /\ strayed => ~attached[c] /\ cpc[c] \in {"write", "fill", "emit"}
    /\ attached[c] => Progress(c)
    /\ ~attached[c] => Unasked
    /\ cpc[c] = "copy" => Answered(c)

CInv == TypeOK /\ DInv /\ Accounts /\ Meetings /\ Lone
-----------------------------------------------------------------------------
(* Without harm no step adds to what is owed but CEmit, and none takes     *)
(* from it but CAwaitRead.                                                 *)
LEMMA OwedTypes ==
  ASSUME TypeOK
  PROVE  /\ sem["SERVER_CAN_READ"] \in Nat /\ sem["CLIENT_CAN_READ"] \in Nat
         /\ Owed \in Nat
BY DEF TypeOK, Semaphores, Owed

LEMMA OwedServer ==
  ASSUME TypeOK, DInv, ~Harmed, ServerStep \/ SListen
  PROVE  Waiting' = Waiting /\ Owed' = Owed
<1> USE DEF ServerGoto, history, faults, TypeOK, Semaphores, Owed, Working
<1>1. UNCHANGED <<attached, cpc>>
  BY DEF ServerStep, SOpen, SAwait, SCopy, SServe, SBadReq, SWrite, SFill, SEmit, SListen
<1>2. Waiting' = Waiting
  BY <1>1 DEF Waiting
<1> SUFFICES Owed' = Owed
  BY <1>2
<1>3. CASE SOpen
  BY <1>3 DEF SOpen, emit
<1>4. CASE SAwait
  BY <1>4 DEF SAwait, await
<1>5. CASE SCopy \/ SServe \/ SWrite \/ SFill
  BY <1>5 DEF SCopy, SServe, SWrite, SFill
<1>6. CASE SBadReq
  <2>1. spc = "serve" /\ msg.content.kind # "req"
    BY <1>6 DEF SBadReq
  <2>2. OneTurn
    BY DEF OneTurn, Harmed
  <2> QED BY <2>1, <2>2 DEF DInv, Delivery, Request, Req
<1>7. CASE SEmit
  BY <1>7 DEF SEmit, emit
<1>8. CASE SListen
  BY <1>8 DEF SListen
<1> QED BY <1>3, <1>4, <1>5, <1>6, <1>7, <1>8 DEF ServerStep

LEMMA OwedClient ==
  ASSUME TypeOK, NEW c \in Clients
  PROVE  /\ Connect(c) \/ CAwaitWrite(c) \/ CWrite(c) \/ CFill(c) \/ CCopy(c) \/ CFail(c)
              => Waiting' = Waiting /\ Owed' = Owed
         /\ CEmit(c) => c \notin Waiting /\ Waiting' = Waiting \cup {c} /\ Owed' = Owed + 1
         /\ CAwaitRead(c) => c \in Waiting /\ Waiting' = Waiting \ {c} /\ Owed' = Owed - 1
<1>1. ASSUME Connect(c) PROVE Waiting' = Waiting /\ Owed' = Owed
  <2>1. /\ cpc' = [cpc EXCEPT ![c] = "cw"] /\ cpc[c] = "idle" /\ attached' = [attached EXCEPT ![c] = TRUE]
        /\ UNCHANGED <<sem, spc>>
    BY <1>1 DEF Connect, ClientGoto, server
  <2> QED BY <2>1 DEF Waiting, Owed, Working, TypeOK
<1>2. ASSUME CAwaitWrite(c) PROVE Waiting' = Waiting /\ Owed' = Owed
  <2>1. /\ cpc' = [cpc EXCEPT ![c] = "write"] /\ cpc[c] = "cw"
        /\ sem' = [sem EXCEPT !["CLIENT_CAN_WRITE"] = @ - 1] /\ UNCHANGED <<attached, spc>>
    BY <1>2 DEF CAwaitWrite, ClientGoto, server, await
  <2> QED BY <2>1 DEF Waiting, Owed, Working, TypeOK, Semaphores
<1>3. ASSUME CWrite(c) \/ CFill(c) PROVE Waiting' = Waiting /\ Owed' = Owed
  <2>1. /\ cpc' = [cpc EXCEPT ![c] = "fill"] \/ cpc' = [cpc EXCEPT ![c] = "emit"]
        /\ cpc[c] # "cr" /\ UNCHANGED <<sem, attached, spc>>
    BY <1>3 DEF CWrite, CFill, ClientGoto, server
  <2> QED BY <2>1 DEF Waiting, Owed, Working, TypeOK
<1>4. ASSUME CCopy(c) \/ CFail(c) PROVE Waiting' = Waiting /\ Owed' = Owed
  <2>1. /\ cpc' = [cpc EXCEPT ![c] = "idle"] /\ (cpc[c] = "copy" \/ ~attached[c])
        /\ UNCHANGED <<sem, attached, spc>>
    BY <1>4 DEF CCopy, CFail, CEnd, server
  <2> QED BY <2>1 DEF Waiting, Owed, Working, TypeOK
<1>5. ASSUME CEmit(c) PROVE c \notin Waiting /\ Waiting' = Waiting \cup {c} /\ Owed' = Owed + 1
  <2>1. /\ cpc' = [cpc EXCEPT ![c] = "cr"] /\ cpc[c] = "emit" /\ attached[c]
        /\ sem' = [sem EXCEPT !["SERVER_CAN_READ"] = @ + 1] /\ UNCHANGED <<attached, spc>>
    BY <1>5 DEF CEmit, ClientGoto, server, history, emit
  <2>2. c \notin Waiting /\ Waiting' = Waiting \cup {c}
    BY <2>1 DEF Waiting, TypeOK
  <2>3. Owed' = Owed + 1
    BY <2>1 DEF Owed, Working, TypeOK, Semaphores
  <2> QED BY <2>2, <2>3
<1>6. ASSUME CAwaitRead(c) PROVE c \in Waiting /\ Waiting' = Waiting \ {c} /\ Owed' = Owed - 1
  <2>1. /\ cpc' = [cpc EXCEPT ![c] = "copy"] /\ cpc[c] = "cr" /\ attached[c]
        /\ sem' = [sem EXCEPT !["CLIENT_CAN_READ"] = @ - 1] /\ UNCHANGED <<attached, spc>>
    BY <1>6 DEF CAwaitRead, ClientGoto, server, history, await
  <2>2. c \in Waiting /\ Waiting' = Waiting \ {c}
    BY <2>1 DEF Waiting, TypeOK
  <2>3. Owed' = Owed - 1
    BY <2>1 DEF Owed, Working, TypeOK, Semaphores
  <2> QED BY <2>2, <2>3
<1> QED BY <1>1, <1>2, <1>3, <1>4, <1>5, <1>6

(* Harm ends with the semaphores only.                                     *)
LEMMA HarmKept ==
  ASSUME [Next]_vars, ~SStop, ~Harmed'
  PROVE  /\ ~Harmed /\ ~SKill /\ \A c \in Clients : ~CDie(c)
<1>1. ~SKill /\ \A c \in Clients : ~CDie(c)
  BY DEF Harmed, SKill, CDie
<1>2. UNCHANGED <<dead, strayed>>
  BY <1>1 DEF Next, ServerStep, ClientStep, vars, faults, SOpen, SAwait, SCopy, SServe, SBadReq, SWrite,
     SFill, SEmit, SListen, Connect, CAwaitWrite, CWrite, CFill, CEmit, CAwaitRead, CCopy, CFail
<1> QED BY <1>1, <1>2 DEF Harmed

LEMMA AccountsNext ==
  ASSUME TypeOK, DInv, Accounts, [Next]_vars
  PROVE  Accounts'
<1> SUFFICES ASSUME ~Harmed' PROVE IsFiniteSet(Waiting') /\ Cardinality(Waiting') = Owed'
  BY DEF Accounts
<1>1. CASE SStop
  <2>1. Waiting' = {} /\ Owed' = 0
    BY <1>1 DEF SStop, Down, Closed, Semaphores, Waiting, Owed, Working
  <2> QED BY <2>1, FS_EmptySet
<1>2. CASE ~SStop
  <2>1. ~Harmed /\ ~SKill /\ \A c \in Clients : ~CDie(c)
    BY <1>2, HarmKept
  <2>2. IsFiniteSet(Waiting) /\ Cardinality(Waiting) = Owed /\ Owed \in Nat
    BY <2>1, OwedTypes DEF Accounts
  <2>3. CASE Waiting' = Waiting /\ Owed' = Owed
    BY <2>2, <2>3
  <2>4. ASSUME NEW c \in Clients, CEmit(c)
        PROVE  IsFiniteSet(Waiting') /\ Cardinality(Waiting') = Owed'
    BY <2>2, <2>4, OwedClient, FS_AddElement
  <2>5. ASSUME NEW c \in Clients, CAwaitRead(c)
        PROVE  IsFiniteSet(Waiting') /\ Cardinality(Waiting') = Owed'
    BY <2>2, <2>5, OwedClient, FS_RemoveElement
  <2>6. CASE UNCHANGED vars
    <3>1. Waiting' = Waiting /\ Owed' = Owed
      BY <2>6 DEF vars, Waiting, Owed, Working
    <3> QED BY <2>3, <3>1
  <2> QED BY <1>2, <2>1, <2>3, <2>4, <2>5, <2>6, OwedServer, OwedClient DEF Next, ClientStep
<1> QED BY <1>1, <1>2
-----------------------------------------------------------------------------
LEMMA EndMeetings == ASSUME TypeOK, Meetings, NEW c \in Clients, CEnd(c) PROVE Meetings'
<1>1. /\ \A d \in Clients : d # c => cpc'[d] = cpc[d] /\ stage'[d] = stage[d]
      /\ cpc'[c] = "idle" /\ stage'[c] = "idle" /\ disturbed' = disturbed \ {c}
  BY DEF CEnd, TypeOK
<1> QED BY <1>1 DEF Meetings, Callers

LEMMA MeetingsNext ==
  ASSUME TypeOK, Meetings, [Next]_vars PROVE Meetings'
<1>1. CASE UNCHANGED <<cpc, stage, disturbed>>
  BY <1>1 DEF Meetings, Callers
<1>2. CASE SServe
  <2>1. UNCHANGED <<cpc, disturbed>> /\ \A d \in Clients : stage'[d] = "idle" <=> stage[d] = "idle"
    BY <1>2 DEF SServe, Acted, TypeOK
  <2> QED BY <2>1 DEF Meetings, Callers
<1>3. CASE SKill
  <2>1. UNCHANGED <<cpc, stage>> /\ disturbed' = disturbed \cup Callers
    BY <1>3 DEF SKill
  <2> QED BY <2>1 DEF Meetings, Callers
<1>4. ASSUME NEW c \in Clients, Connect(c) PROVE Meetings'
  <2>1. /\ \A d \in Clients : d # c => cpc'[d] = cpc[d] /\ stage'[d] = stage[d]
        /\ cpc'[c] = "cw" /\ stage'[c] = "asked"
        /\ IF Callers = {} /\ ~Harmed THEN disturbed' = disturbed
                                      ELSE disturbed' = disturbed \cup Callers \cup {c}
    BY <1>4 DEF Connect, ClientGoto, TypeOK
  <2>2. Callers' = Callers \cup {c}
    BY <2>1 DEF Callers
  <2>3. disturbed' \subseteq Callers' /\ \A d, e \in Callers' : d # e => d \in disturbed'
    BY <2>1, <2>2 DEF Meetings
  <2>4. \A d \in Clients : cpc'[d] = "idle" <=> stage'[d] = "idle"
    BY <2>1 DEF Meetings
  <2> QED BY <2>3, <2>4 DEF Meetings
<1>5. ASSUME NEW c \in Clients, CAwaitWrite(c) \/ CWrite(c) \/ CFill(c) \/ CEmit(c) \/ CAwaitRead(c)
      PROVE  Meetings'
  <2>1. UNCHANGED <<stage, disturbed>> /\ \A d \in Clients : cpc'[d] = "idle" <=> cpc[d] = "idle"
    BY <1>5 DEF CAwaitWrite, CWrite, CFill, CEmit, CAwaitRead, ClientGoto, history, TypeOK
  <2> QED BY <2>1 DEF Meetings, Callers
<1>6. ASSUME NEW c \in Clients, CCopy(c) \/ CFail(c) \/ CDie(c) PROVE Meetings'
  BY <1>6, EndMeetings DEF CCopy, CFail, CDie
<1>7. CASE SOpen \/ SAwait \/ SCopy \/ SBadReq \/ SWrite \/ SFill \/ SEmit \/ SStop \/ SListen \/ UNCHANGED vars
  <2>1. UNCHANGED <<cpc, stage, disturbed>>
    BY <1>7 DEF SOpen, SAwait, SCopy, SBadReq, SWrite, SFill, SEmit, SStop, SListen, vars, history
  <2> QED BY <1>1, <2>1
<1> QED BY <1>2, <1>3, <1>4, <1>5, <1>6, <1>7 DEF Next, ServerStep, ClientStep

(* Steps of other clients mark a call, or are steps of a call that marked  *)
(* it before.                                                              *)
LEMMA LoneSteps ==
  ASSUME TypeOK, Meetings, [Next]_vars, NEW c \in Callers' \ disturbed'
  PROVE  \/ Connect(c) /\ Callers = {} /\ ~Harmed
         \/ /\ c \in Callers \ disturbed
            /\ \/ ServerStep \/ SListen \/ SStop \/ UNCHANGED vars
               \/ CAwaitWrite(c) \/ CWrite(c) \/ CFill(c) \/ CEmit(c) \/ CAwaitRead(c)
<1>0. c \in Clients /\ cpc'[c] # "idle"
  BY DEF Callers
<1>1. CASE ServerStep \/ SListen \/ SStop \/ UNCHANGED vars
  <2>1. UNCHANGED <<cpc, disturbed>>
    BY <1>1 DEF ServerStep, SOpen, SAwait, SCopy, SServe, SBadReq, SWrite, SFill, SEmit, SListen,
       SStop, history, vars
  <2> QED BY <1>1, <2>1 DEF Callers
<1>2. CASE SKill
  BY <1>2 DEF SKill, Callers
<1>3. ASSUME NEW d \in Clients, Connect(d)
      PROVE  d = c /\ Callers = {} /\ ~Harmed
  <2>1. /\ \A e \in Clients : e # d => cpc'[e] = cpc[e]
        /\ IF Callers = {} /\ ~Harmed THEN disturbed' = disturbed
                                      ELSE disturbed' = disturbed \cup Callers \cup {d}
    BY <1>3 DEF Connect, ClientGoto, TypeOK
  <2> QED BY <1>0, <2>1 DEF Callers
<1>4. ASSUME NEW d \in Clients,
             CAwaitWrite(d) \/ CWrite(d) \/ CFill(d) \/ CEmit(d) \/ CAwaitRead(d)
      PROVE  d = c /\ c \in Callers \ disturbed
  <2>1. /\ \A e \in Clients : e # d => cpc'[e] = cpc[e]
        /\ d \in Callers /\ disturbed' = disturbed
    BY <1>4 DEF CAwaitWrite, CWrite, CFill, CEmit, CAwaitRead, ClientGoto, history, TypeOK, Callers
  <2> QED BY <1>0, <2>1 DEF Callers, Meetings
<1>5. ASSUME NEW d \in Clients, CCopy(d) \/ CFail(d) \/ CDie(d)
      PROVE  FALSE
  <2>1. /\ \A e \in Clients : e # d => cpc'[e] = cpc[e]
        /\ cpc'[d] = "idle" /\ d \in Callers /\ disturbed' = disturbed \ {d}
    BY <1>5 DEF CCopy, CFail, CDie, CEnd, TypeOK, Callers
  <2> QED BY <1>0, <2>1 DEF Callers, Meetings
<1> QED BY <1>1, <1>2, <1>3, <1>4, <1>5 DEF Next, ClientStep

(* All that is owed is owed to a call that met no other.                   *)
LEMMA LoneOwed ==
  ASSUME CInv, NEW c \in Callers \ disturbed, attached[c] \/ cpc[c] = "copy"
  PROVE  /\ ~Harmed /\ Turn /\ NoStrays /\ Delivery
         /\ cpc[c] # "cr" =>
              sem["SERVER_CAN_READ"] = 0 /\ sem["CLIENT_CAN_READ"] = 0 /\ ~Working
         /\ cpc[c] = "cr" =>
              /\ Working => sem["SERVER_CAN_READ"] = 0 /\ sem["CLIENT_CAN_READ"] = 0
              /\ sem["SERVER_CAN_READ"] > 0 =>
                   sem["SERVER_CAN_READ"] = 1 /\ sem["CLIENT_CAN_READ"] = 0
              /\ sem["CLIENT_CAN_READ"] > 0 => sem["SERVER_CAN_READ"] = 0
<1>1. ~Harmed
  BY DEF CInv, Lone, Harmed
<1>2. Turn /\ NoStrays /\ Delivery
  BY <1>1 DEF CInv, DInv, OneTurn, Harmed
<1>3. Waiting \subseteq {c}
  BY DEF CInv, Meetings, Waiting, Callers
<1>4. /\ Cardinality(Waiting) = Owed
      /\ sem["SERVER_CAN_READ"] \in Nat /\ sem["CLIENT_CAN_READ"] \in Nat
  BY <1>1, OwedTypes DEF CInv, Accounts
<1>5. cpc[c] # "cr" => Cardinality(Waiting) = 0
  <2>1. cpc[c] # "cr" => Waiting = {}
    BY <1>3 DEF Waiting
  <2> QED BY <2>1, FS_EmptySet
<1>6. Cardinality(Waiting) \in {0, 1}
  <2>1. Waiting = {} \/ Waiting = {c}
    BY <1>3
  <2> QED BY <2>1, FS_EmptySet, FS_Singleton
<1> QED BY <1>1, <1>2, <1>4, <1>5, <1>6 DEF Owed

LEMMA LoneServer ==
  ASSUME CInv, NEW c \in Callers \ disturbed, ServerStep \/ SListen
  PROVE  /\ UNCHANGED <<dead, strayed, attached, cpc>>
         /\ attached[c] => Progress(c)'
         /\ ~attached[c] => Unasked'
         /\ cpc[c] = "copy" => Answered(c)'
<1> USE DEF ServerGoto, history, faults, Working
<1>1. /\ TypeOK /\ (cpc[c] = "copy" => Answered(c)) /\ (attached[c] => Progress(c))
      /\ (~attached[c] => Unasked) /\ c \in Clients /\ sem \in [Semaphores -> Nat]
  BY DEF CInv, Lone, Callers, TypeOK
<1>2. UNCHANGED <<dead, strayed, attached, cpc>>
  BY DEF ServerStep, SOpen, SAwait, SCopy, SServe, SBadReq, SWrite, SFill, SEmit, SListen
<1>5. CASE ~attached[c]
  <2>1. sem["SERVER_CAN_READ"] = 0 /\ ~Working
    BY <1>1, <1>5 DEF Unasked
  <2>2. SOpen \/ SListen
    BY <2>1 DEF ServerStep, SAwait, await, SCopy, SServe, SBadReq, SWrite, SFill, SEmit
  <2> QED BY <1>1, <1>2, <1>5, <2>1, <2>2 DEF SOpen, SListen, emit, Unasked, Answered, Semaphores
<1>3. CASE attached[c] /\ cpc[c] # "cr"
  <2>1. sem["SERVER_CAN_READ"] = 0 /\ ~Working
    BY <1>3, LoneOwed
  <2>2. UNCHANGED <<memory, stage>>
    BY <2>1 DEF ServerStep, SOpen, SAwait, await, SCopy, SServe, SBadReq, SWrite, SFill, SEmit, SListen
  <2> QED BY <1>1, <1>2, <1>3, <2>2 DEF Progress, Answered
<1>4. CASE attached[c] /\ cpc[c] = "cr"
  <2>1. /\ Working => sem["SERVER_CAN_READ"] = 0 /\ sem["CLIENT_CAN_READ"] = 0
        /\ sem["SERVER_CAN_READ"] > 0 => sem["SERVER_CAN_READ"] = 1 /\ sem["CLIENT_CAN_READ"] = 0
        /\ sem["CLIENT_CAN_READ"] > 0 => sem["SERVER_CAN_READ"] = 0
    BY <1>4, LoneOwed
  <2>2. /\ sem["SERVER_CAN_READ"] > 0 \/ spc = "copy" => Asked(c)
        /\ spc = "serve" => stage[c] = "asked" /\ msg = Request(c)
        /\ spc \in {"write", "fill"} => stage[c] = "served" /\ msg = Request(c)
        /\ sem["CLIENT_CAN_READ"] > 0 \/ spc = "emit" => Answered(c)
    BY <1>1, <1>4 DEF Progress
  <2> SUFFICES /\ sem'["SERVER_CAN_READ"] > 0 \/ spc' = "copy" => Asked(c)'
               /\ spc' = "serve" => stage'[c] = "asked" /\ msg' = Request(c)
               /\ spc' \in {"write", "fill"} => stage'[c] = "served" /\ msg' = Request(c)
               /\ sem'["CLIENT_CAN_READ"] > 0 \/ spc' = "emit" => Answered(c)'
    BY <1>2, <1>4 DEF Progress, Request
  <2>3. CASE SOpen
    BY <1>1, <2>1, <2>2, <2>3 DEF SOpen, emit, Asked, Answered, Semaphores
  <2>4. CASE SAwait
    BY <1>1, <2>1, <2>2, <2>4 DEF SAwait, await, Asked, Answered, Semaphores
  <2>5. CASE SCopy
    BY <1>1, <2>1, <2>2, <2>5 DEF SCopy, Asked, Answered
  <2>6. CASE SServe
    <3>1. msg.content = Req(c) /\ stage[c] = "asked"
      BY <2>2, <2>6 DEF SServe, Request
    <3>2. stage'[c] = "served"
      BY <1>1, <2>6, <3>1 DEF SServe, Acted
    <3> QED BY <1>1, <2>1, <2>2, <2>6, <3>2 DEF SServe, Asked, Answered
  <2>7. CASE SBadReq
    <3>1. msg.content.kind = "req"
      BY <2>2, <2>7 DEF SBadReq, Request, Req
    <3> QED BY <2>7, <3>1 DEF SBadReq
  <2>8. CASE SWrite
    BY <1>1, <2>1, <2>2, <2>8 DEF SWrite
  <2>9. CASE SFill
    <3>1. Reply = Res(c)
      BY <2>2, <2>9 DEF SFill, Request, Req, Reply
    <3>2. memory'.content = Res(c)
      <4>1. memory \in Messages /\ Res(c) \in Contents
        BY <1>1, ContentTypes DEF TypeOK
      <4>2. memory' = [sender |-> memory.sender, content |-> Res(c)]
        BY <2>9, <3>1, <4>1, MessageTypes DEF SFill
      <4> QED BY <4>2
    <3> QED BY <1>1, <2>1, <2>2, <2>9, <3>2 DEF SFill, Answered
  <2>10. CASE SEmit
    BY <1>1, <2>1, <2>2, <2>10 DEF SEmit, emit, Asked, Answered, Semaphores
  <2>11. CASE SListen
    BY <1>1, <2>1, <2>2, <2>11 DEF SListen, Asked, Answered
  <2> QED BY <2>3, <2>4, <2>5, <2>6, <2>7, <2>8, <2>9, <2>10, <2>11 DEF ServerStep
<1> QED BY <1>2, <1>3, <1>4, <1>5

LEMMA LoneNext ==
  ASSUME CInv, [Next]_vars PROVE Lone'
<1>0. TypeOK /\ Meetings /\ Lone
  BY DEF CInv
<1> SUFFICES ASSUME NEW c \in Callers' \ disturbed'
             PROVE  /\ dead' = "nobody"
                    /\ strayed' => ~attached'[c] /\ cpc'[c] \in {"write", "fill", "emit"}
                    /\ attached'[c] => Progress(c)'
                    /\ ~attached'[c] => Unasked'
                    /\ cpc'[c] = "copy" => Answered(c)'
  BY DEF Lone
<1>1. CASE Connect(c) /\ Callers = {} /\ ~Harmed
  <2>1. c \in Clients
    BY DEF Callers
  <2>2. cpc'[c] = "cw" /\ stage'[c] = "asked" /\ attached'[c] /\ UNCHANGED <<dead, strayed>>
    BY <1>0, <1>1, <2>1 DEF Connect, ClientGoto, faults, TypeOK
  <2> QED BY <1>1, <2>2 DEF Harmed, Progress
<1>2. CASE c \in Callers \ disturbed
  <2>0. c \in Clients
    BY <1>2 DEF Callers
  <2>1. /\ dead = "nobody"
        /\ strayed => ~attached[c] /\ cpc[c] \in {"write", "fill", "emit"}
        /\ attached[c] => Progress(c)
        /\ ~attached[c] => Unasked
        /\ cpc[c] = "copy" => Answered(c)
    BY <1>0, <1>2 DEF Lone
  <2>2. CASE ServerStep \/ SListen
    BY <1>2, <2>1, <2>2, LoneServer
  <2>3. CASE SStop
    <3>1. /\ dead' = "nobody" /\ (strayed' <=> \E d \in Clients : Writing(d)) /\ ~attached'[c]
          /\ UNCHANGED <<cpc, memory, stage>> /\ Unasked'
      BY <2>0, <2>3 DEF SStop, Down, Closed, Semaphores, history, Unasked, Working
    <3>2. ASSUME NEW d \in Clients, Writing(d) PROVE d = c
      BY <1>0, <1>2, <3>2 DEF Meetings, Callers, Writing
    <3> QED BY <2>1, <3>1, <3>2 DEF Writing, Answered
  <2>4. CASE CAwaitWrite(c)
    <3>1. /\ cpc'[c] = "write" /\ attached[c] /\ cpc[c] = "cw"
          /\ UNCHANGED <<dead, strayed, attached, stage>>
      BY <1>0, <2>0, <2>4 DEF CAwaitWrite, ClientGoto, faults, history, TypeOK
    <3> QED BY <2>1, <3>1 DEF Progress
  <2>5. CASE CWrite(c) \/ CFill(c)
    <3>1. /\ cpc'[c] \in {"fill", "emit"} /\ cpc[c] \in {"write", "fill"}
          /\ UNCHANGED <<dead, strayed, attached, stage, sem, spc>>
      BY <1>0, <2>0, <2>5 DEF CWrite, CFill, ClientGoto, server, faults, history, TypeOK
    <3> QED BY <2>1, <3>1 DEF Progress, Unasked, Working
  <2>6. CASE CEmit(c)
    <3>1. /\ cpc'[c] = "cr" /\ attached[c] /\ cpc[c] = "emit" /\ sem' = [sem EXCEPT !["SERVER_CAN_READ"] = @ + 1]
          /\ UNCHANGED <<dead, strayed, attached, stage, memory, spc, msg>>
      BY <1>0, <2>0, <2>6 DEF CEmit, ClientGoto, emit, server, faults, history, TypeOK
    <3>2. /\ Delivery /\ sem["CLIENT_CAN_READ"] = 0 /\ ~Working
      BY <1>2, <3>1, LoneOwed
    <3>3. stage[c] = "asked" /\ memory = Request(c)
      BY <2>0, <2>1, <3>1, <3>2 DEF Delivery, Progress
    <3>4. Asked(c)'
      BY <3>1, <3>3 DEF Asked, Request
    <3>5. sem'["CLIENT_CAN_READ"] = 0
      BY <1>0, <3>1, <3>2 DEF TypeOK, Semaphores
    <3> QED BY <2>1, <3>1, <3>2, <3>4, <3>5 DEF Progress, Working
  <2>7. CASE CAwaitRead(c)
    <3>1. /\ cpc'[c] = "copy" /\ attached[c] /\ cpc[c] = "cr" /\ sem["CLIENT_CAN_READ"] > 0
          /\ UNCHANGED <<dead, strayed, attached, stage, memory>>
      BY <1>0, <2>0, <2>7 DEF CAwaitRead, ClientGoto, await, faults, history, TypeOK
    <3>2. Answered(c)
      BY <2>1, <3>1 DEF Progress
    <3> QED BY <2>1, <3>1, <3>2 DEF Progress, Answered
  <2>8. CASE UNCHANGED vars
    BY <2>1, <2>8 DEF vars, Progress, Asked, Answered, Unasked, Working
  <2> QED BY <1>0, <1>2, <2>2, <2>3, <2>4, <2>5, <2>6, <2>7, <2>8, LoneSteps DEF Connect, ClientGoto, Callers
<1> QED BY <1>0, <1>1, <1>2, LoneSteps

(* Who waits, who met whom, and how far each lone call is.                 *)
LEMMA CallsInvariance == Spec => []CInv
<1>1. Init => Accounts /\ Meetings /\ Lone
  <2> SUFFICES ASSUME Init PROVE Accounts /\ Meetings /\ Lone
    OBVIOUS
  <2>1. Callers = {} /\ Waiting = {} /\ Owed = 0
    BY DEF Init, Callers, Waiting, Owed, Closed, Semaphores, Working
  <2> QED BY <2>1, FS_EmptySet DEF Init, Accounts, Meetings, Lone
<1>2. CInv /\ [Next]_vars => (Accounts /\ Meetings /\ Lone)'
  BY AccountsNext, MeetingsNext, LoneNext DEF CInv
<1> QED BY <1>1, <1>2, TypeCorrect, Invariance, PTL DEF Spec, CInv

(* While no call has met another and nobody did harm, there is one message *)
(* at most in memory (shmem.c:132): nothing that earlier calls left stays  *)
(* in the semaphores.                                                      *)
THEOREM OneMessage == Spec => []SerialOneMessage
<1>1. ASSUME CInv, disturbed = {}, ~Harmed PROVE Unread <= 1
  <2> DEFINE Holders == {c \in Clients : cpc[c] \in {"fill", "emit", "copy"}}
             n == sem["SERVER_CAN_READ"] + sem["CLIENT_CAN_READ"]
  <2>0. /\ n \in Nat /\ Cardinality(Waiting) = Owed
        /\ Owed = n + (IF Working THEN 1 ELSE 0)
    BY <1>1, OwedTypes DEF CInv, Accounts, Owed
  <2>1. \A c, d \in Callers : c = d
    BY <1>1 DEF CInv, Meetings
  <2>2. Holders \subseteq Callers /\ Waiting \subseteq Callers /\ Holders \cap Waiting = {}
    BY DEF Callers, Waiting
  <2>3. Holders = {} \/ Waiting = {}
    BY <2>1, <2>2
  <2>4. \A S : S \subseteq Callers => Cardinality(S) \in {0, 1} /\ (S = {} => Cardinality(S) = 0)
    <3>1. \A S : S \subseteq Callers => S = {} \/ \E c : S = {c}
      BY <2>1
    <3> QED BY <3>1, FS_EmptySet, FS_Singleton
  <2>5. /\ Cardinality(Holders) \in {0, 1} /\ Cardinality(Waiting) \in {0, 1}
        /\ Cardinality(Holders) = 0 \/ Cardinality(Waiting) = 0
    BY <2>2, <2>3, <2>4
  <2>6. PICK h : h = Cardinality(Holders)
    OBVIOUS
  <2>7. /\ Unread = h + (IF spc \in {"copy", "fill", "emit"} THEN 1 ELSE 0)
                      + sem["SERVER_CAN_READ"] + sem["CLIENT_CAN_READ"]
        /\ sem["SERVER_CAN_READ"] \in Nat /\ sem["CLIENT_CAN_READ"] \in Nat
    BY <1>1, <2>6, OwedTypes DEF Unread, CInv
  <2> QED BY <2>0, <2>5, <2>6, <2>7 DEF Working
<1>2. CInv => SerialOneMessage
  BY <1>1 DEF SerialOneMessage, MaxOneMessage
<1> QED BY <1>2, CallsInvariance, PTL
-----------------------------------------------------------------------------
(***************************************************************************)
(* Server and clients wait for each other by turns: can the turn, or what  *)
(* a client waits for, be with nobody who runs?                            *)
(***************************************************************************)

(* A server that waits for a request has given its turn away.              *)
TurnThere ==
  ~Harmed /\ spc = "await" => \/ sem["CLIENT_CAN_WRITE"] > 0 \/ sem["SERVER_CAN_READ"] > 0
                              \/ \E c \in Clients : HasTurn(c)

(* c waits for a semaphore that is not positive.                           *)
Stuck(c) == attached[c] /\ \/ cpc[c] = "cw" /\ sem["CLIENT_CAN_WRITE"] = 0
                           \/ cpc[c] = "cr" /\ sem["CLIENT_CAN_READ"] = 0

(* The server has a step to take, or a client that has the turn.           *)
Running == spc # "await" \/ sem["SERVER_CAN_READ"] > 0 \/ \E c \in Clients : HasTurn(c)

NoStandstill == ~Harmed /\ spc # "down" /\ (\E c \in Clients : Stuck(c)) => Running

LEMMA TurnThereNext ==
  ASSUME TypeOK, TurnThere, [Next]_vars PROVE TurnThere'
<1> SUFFICES ASSUME ~Harmed', spc' = "await"
             PROVE  \/ sem'["CLIENT_CAN_WRITE"] > 0 \/ sem'["SERVER_CAN_READ"] > 0
                    \/ \E c \in Clients : HasTurn(c)'
  BY DEF TurnThere
<1>1. ~SStop
  BY DEF SStop, Down
<1>2. ~Harmed /\ ~SKill /\ \A c \in Clients : ~CDie(c)
  BY <1>1, HarmKept
<1>3. CASE SOpen
  BY <1>3 DEF SOpen, emit, TypeOK, Semaphores
<1>4. CASE spc = "await"
  <2>1. /\ ~SOpen /\ ~SAwait /\ ~SCopy /\ ~SServe /\ ~SBadReq /\ ~SWrite /\ ~SFill /\ ~SEmit
        /\ ~SListen
    BY <1>4 DEF SOpen, SAwait, SCopy, SServe, SBadReq, SWrite, SFill, SEmit, SListen, ServerGoto
  <2>2. \/ sem["CLIENT_CAN_WRITE"] > 0 \/ sem["SERVER_CAN_READ"] > 0
        \/ \E c \in Clients : HasTurn(c)
    BY <1>2, <1>4 DEF TurnThere
  <2>3. ASSUME NEW c \in Clients, Connect(c) \/ CWrite(c) \/ CFill(c) \/ CCopy(c) \/ CFail(c)
        PROVE  sem' = sem /\ \A d \in Clients : HasTurn(d) => HasTurn(d)'
    BY <2>3 DEF Connect, CWrite, CFill, CCopy, CFail, CEnd, ClientGoto, HasTurn, TypeOK
  <2>4. ASSUME NEW c \in Clients, CAwaitWrite(c) PROVE HasTurn(c)'
    BY <2>4 DEF CAwaitWrite, ClientGoto, HasTurn, TypeOK
  <2>5. ASSUME NEW c \in Clients, CEmit(c) PROVE sem'["SERVER_CAN_READ"] > 0
    BY <2>5 DEF CEmit, emit, TypeOK, Semaphores
  <2>6. ASSUME NEW c \in Clients, CAwaitRead(c)
        PROVE  /\ sem'["CLIENT_CAN_WRITE"] = sem["CLIENT_CAN_WRITE"]
               /\ sem'["SERVER_CAN_READ"] = sem["SERVER_CAN_READ"]
               /\ \A d \in Clients : HasTurn(d) => HasTurn(d)'
    BY <2>6 DEF CAwaitRead, await, ClientGoto, HasTurn, TypeOK, Semaphores
  <2>7. CASE UNCHANGED vars
    BY <2>2, <2>7 DEF vars, HasTurn
  <2> QED BY <1>1, <1>2, <2>1, <2>2, <2>3, <2>4, <2>5, <2>6, <2>7 DEF Next, ServerStep, ClientStep
<1>5. CASE spc # "await" /\ ~SOpen
  BY <1>1, <1>2, <1>5 DEF Next, ServerStep, ClientStep, vars, server, SAwait, SCopy, SServe, SBadReq,
     SWrite, SFill, SEmit, SListen, ServerGoto, Connect, CAwaitWrite, CAwaitRead, CWrite, CFill,
     CEmit, CCopy, CFail
<1> QED BY <1>3, <1>4, <1>5

(* While there is a server and nobody did harm, whenever a client waits    *)
(* for its turn or its reply, the server or a client that has the turn     *)
(* runs: they never all wait for each other, however many calls met.       *)
THEOREM SomebodyRuns == Spec => []NoStandstill
<1>1. Init => TurnThere
  BY DEF Init, TurnThere
<1>2. ASSUME CInv, TurnThere PROVE NoStandstill
  <2> SUFFICES ASSUME ~Harmed, NEW c \in Clients, Stuck(c), ~Running PROVE FALSE
    BY DEF NoStandstill
  <2>1. spc = "await" /\ ~(sem["SERVER_CAN_READ"] > 0) /\ \A d \in Clients : ~HasTurn(d)
    BY DEF Running
  <2>2. sem["CLIENT_CAN_WRITE"] > 0
    BY <1>2, <2>1 DEF TurnThere
  <2>3. cpc[c] = "cr" /\ sem["CLIENT_CAN_READ"] = 0 /\ c \in Waiting
    BY <2>2 DEF Stuck, Waiting
  <2>4. sem["SERVER_CAN_READ"] = 0
    BY <1>2, <2>1, OwedTypes DEF CInv
  <2>5. IsFiniteSet(Waiting) /\ Cardinality(Waiting) = 0
    BY <1>2, <2>1, <2>3, <2>4 DEF CInv, Accounts, Owed, Working
  <2> QED BY <2>3, <2>5, FS_EmptySet
<1> QED BY <1>1, <1>2, TurnThereNext, CallsInvariance, TypeCorrect, PTL DEF Spec
-----------------------------------------------------------------------------
(* The refinement of Rpc, step by step.  Whose reply the last call of each *)
(* client returned is what Rpc calls got.                                  *)
LEMMA RefinesInit == Init => Calls!Init
BY DEF Init, Calls!Init, Calls!NoReply, Owner, Torn

returned == [c \in Clients |-> Owner(got[c])]

(* The call of a client that met no other is acted on where it is asked.   *)
LEMMA ServesLone ==
  ASSUME CInv, spc = "serve", NEW c \in Callers \ disturbed, msg.content = Req(c)
  PROVE  stage[c] = "asked"
<1>1. Working /\ attached[c]
  BY DEF Working, CInv, Lone, Unasked
<1>2. cpc[c] = "cr"
  BY <1>1, LoneOwed
<1> QED BY <1>1, <1>2 DEF CInv, Lone, Progress

LEMMA ServeServes ==
  ASSUME CInv, SServe PROVE [Calls!Next]_<<stage, returned>>
<1>0. TypeOK /\ Meetings /\ spc = "serve"
  BY DEF CInv, SServe, ServerGoto
<1>1. /\ stage' = [c \in Clients |-> IF msg.content = Req(c) THEN Acted(c) ELSE stage[c]]
      /\ returned' = returned
  BY DEF SServe, returned
<1>2. ASSUME NEW c \in Clients, msg.content = Req(c), Acted(c) # stage[c]
      PROVE  stage[c] = "asked"
  <2>1. stage[c] = "asked" \/ c \in Callers \ disturbed
    BY <1>0, <1>2 DEF Acted, Meetings, Callers
  <2> QED BY <1>0, <1>2, <2>1, ServesLone
<1>3. CASE \E c \in Clients : msg.content = Req(c) /\ Acted(c) # stage[c]
  <2>1. PICK c \in Clients : msg.content = Req(c) /\ Acted(c) # stage[c]
    BY <1>3
  <2>2. stage[c] = "asked"
    BY <1>2, <2>1
  <2>3. \A d \in Clients : msg.content = Req(d) => d = c
    BY <2>1 DEF Req
  <2>4. stage' = [stage EXCEPT ![c] = "served"]
    BY <1>0, <1>1, <2>1, <2>2, <2>3 DEF TypeOK, Acted
  <2> QED BY <1>1, <2>2, <2>4 DEF returned, Calls!Next, Calls!Serve, Calls!Move
<1>4. CASE ~\E c \in Clients : msg.content = Req(c) /\ Acted(c) # stage[c]
  <2>1. stage' = stage
    BY <1>0, <1>1, <1>4 DEF TypeOK
  <2> QED BY <1>1, <2>1
<1> QED BY <1>3, <1>4

LEMMA CopyReturns ==
  ASSUME CInv, NEW c \in Clients, CCopy(c) PROVE Calls!Return(c) \/ Calls!Abort(c)
<1>1. /\ cpc[c] = "copy" /\ stage' = [stage EXCEPT ![c] = "idle"]
      /\ got' = IF c \in disturbed THEN got ELSE [got EXCEPT ![c] = memory.content]
  BY DEF CCopy, CEnd
<1>2. CASE c \in disturbed
  <2>1. stage[c] # "idle" /\ returned' = returned
    BY <1>1, <1>2 DEF CInv, Meetings, returned
  <2> QED BY <1>1, <2>1 DEF Calls!Abort, returned
<1>3. CASE c \notin disturbed
  <2>1. stage[c] = "served" /\ memory.content = Res(c)
    BY <1>1, <1>3 DEF CInv, Lone, Callers, Answered
  <2>2. returned' = [returned EXCEPT ![c] = c]
    <3>1. got' = [got EXCEPT ![c] = Res(c)] /\ got \in [Clients -> Contents]
      BY <1>1, <1>3, <2>1 DEF CInv, TypeOK
    <3>2. Owner(Res(c)) = c
      BY DEF Owner, Res
    <3> QED BY <3>1, <3>2 DEF returned
  <2> QED BY <1>1, <2>1, <2>2 DEF Calls!Return, Calls!Move, returned
<1> QED BY <1>2, <1>3

LEMMA RefinesNext == CInv /\ [Next]_vars => [Calls!Next]_<<stage, returned>>
<1> SUFFICES ASSUME CInv, [Next]_vars PROVE [Calls!Next]_<<stage, returned>>
  OBVIOUS
<1>0. TypeOK /\ Meetings
  BY DEF CInv
<1>1. CASE UNCHANGED <<stage, got>>
  BY <1>1 DEF returned
<1>2. CASE SServe
  BY <1>2, ServeServes
<1>3. ASSUME NEW c \in Clients, Connect(c) PROVE Calls!Next
  <2>1. stage[c] = "idle" /\ stage' = [stage EXCEPT ![c] = "asked"] /\ got' = got
    BY <1>0, <1>3 DEF Connect, ClientGoto, Meetings
  <2> QED BY <2>1 DEF Calls!Next, Calls!Call, Calls!Move
<1>4. ASSUME NEW c \in Clients, CCopy(c) PROVE Calls!Next
  BY <1>4, CopyReturns DEF Calls!Next
<1>5. ASSUME NEW c \in Clients, CFail(c) \/ CDie(c) PROVE Calls!Next
  <2>1. stage[c] # "idle" /\ stage' = [stage EXCEPT ![c] = "idle"] /\ got' = got
    BY <1>0, <1>5 DEF CFail, CDie, CEnd, Meetings
  <2> QED BY <2>1 DEF Calls!Next, Calls!Abort
<1>6. CASE \/ SOpen \/ SAwait \/ SCopy \/ SBadReq \/ SWrite \/ SFill \/ SEmit \/ SStop \/ SKill
           \/ SListen \/ UNCHANGED vars
           \/ \E c \in Clients : CAwaitWrite(c) \/ CAwaitRead(c) \/ CWrite(c) \/ CFill(c) \/ CEmit(c)
  <2>1. UNCHANGED <<stage, got>>
    BY <1>6 DEF SOpen, SAwait, SCopy, SBadReq, SWrite, SFill, SEmit, SStop, SKill, SListen, vars,
       CAwaitWrite, CAwaitRead, CWrite, CFill, CEmit, history
  <2> QED BY <1>1, <2>1
<1> QED BY <1>2, <1>3, <1>4, <1>5, <1>6 DEF Next, ServerStep, ClientStep

(* A call that meets no other gets the reply to its request, which the     *)
(* server acted on once: the transport implements Rpc.                     *)
THEOREM Refinement == Spec => RpcSpec
<1>1. Init => Calls!Init
  BY RefinesInit
<1>2. CInv /\ [Next]_vars => [Calls!Next]_<<stage, [c \in Clients |-> Owner(got[c])]>>
  BY RefinesNext DEF returned
<1> QED BY <1>1, <1>2, CallsInvariance, PTL DEF Spec, RpcSpec, Calls!Spec
=============================================================================
