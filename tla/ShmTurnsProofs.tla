--------------------------- MODULE ShmTurnsProofs ---------------------------
(***************************************************************************)
(* Theorems about the turn-taking prototypes, both of them, for any number *)
(* of clients that run at once and any number of stops of the server,      *)
(* whoever is killed.                                                      *)
(***************************************************************************)
EXTENDS ShmTurns, FiniteSetTheorems, TLAPS

(* The steps of both sides, of the server, and of a client.                *)
Transfer(p) == \/ SendWait(p) \/ Write(p) \/ Fill(p) \/ SendPost(p)
               \/ RecvWait(p) \/ Copy(p) \/ RecvPost(p)
ServerAct == \/ SetVal \/ PostTurn \/ Serve \/ Unlink \/ CloseMutex \/ FreeMemory
             \/ SListen \/ SStop \/ SKill
ClientAct(c) == \/ Connect(c) \/ GetMemory(c) \/ OpenMutex(c)
                \/ Handle(c) \/ Fail(c) \/ Die(c)

(* The objects behind the two names are of the same age, but in the step   *)
(* of shmposix.c between the removals; shmsystemv.c keeps its segment.     *)
Aligned ==
  /\ step # 0 => pc[Server] = IF build = "posix" THEN "close" ELSE "init"
  /\ build = "posix" =>
       /\ pc[Server] = "free" => current["mutex"] = current["memory"] + 1
       /\ pc[Server] # "free" => current["mutex"] = current["memory"]
  /\ build = "systemv" =>
       /\ current["memory"] = 0 /\ pc[Server] # "free"
       /\ \A c \in Clients : handle[c].memory = 0
  /\ pc[Server] = "close" => current["mutex"] < MaxStops

TInv == TypeOK /\ Aligned

(* Who has taken the turn of the k-th semaphores and not yet passed it on, *)
(* and which client's call they serve.                                     *)
Holding   == {"write", "fill", "spost", "copy", "rpost"}
Has(p, k) == pc[p] \in Holding /\ Object(p, "mutex") = k
InCall    == Holding \cup {"recv"}
Busy(c, k)   == pc[c] \in InCall /\ handle[c].mutex = k
Untouched(k) == \A i \in Semaphores : sem[k][i] = 0

(* The turn is in one of the four semaphores, or with one process; while a *)
(* client is in a call, no other one is.                                   *)
Turn(k) ==
  /\ \A i \in Semaphores : sem[k][i] \in {0, 1}
  /\ \A i, j \in Semaphores : sem[k][i] = 1 /\ sem[k][j] = 1 => i = j
  /\ \A p \in Processes : Has(p, k) =>
       Untouched(k) /\ \A q \in Processes : Has(q, k) => q = p
  /\ \A c \in Clients : Busy(c, k) =>
       sem[k]["CLIENT_WRITE"] = 0 /\ \A d \in Clients : Busy(d, k) => d = c

(* Nobody used semaphores the server has not yet given their turn.         *)
Starting == pc[Server] \in {"free", "down"} \/ (pc[Server] = "init" /\ step = 0)

Fresh ==
  /\ \A k \in Objects : k > current["mutex"] => Untouched(k)
  /\ \A c \in Clients : /\ handle[c].mutex <= current["mutex"]
                         /\ handle[c].memory <= current["mutex"]
  /\ Starting => /\ Untouched(current["mutex"])
                 /\ \A c \in Clients : ~Busy(c, current["mutex"])

(* Between reading and writing, the server has its turn in a semaphore.    *)
OwnTurn == pc[Server] \in {"serve", "send"} => sem[current["mutex"]]["SERVER_WRITE"] = 1

(* A client has both objects of one server, and with System V, in its      *)
(* memcpy, those of the present one.                                       *)
Paired ==
  /\ \A c \in Clients :
       build = "posix" /\ pc[c] \in InCall \cup {"send"} => handle[c].memory = handle[c].mutex
  /\ \A c \in Clients :
       build = "systemv" /\ pc[c] \in {"write", "fill", "copy"}
         => handle[c].mutex = current["mutex"]

TurnInv == (\A k \in Objects : Turn(k)) /\ Fresh /\ OwnTurn /\ Paired

(* The segment that goes with the k-th semaphores, and whether they live.  *)
Seg(k)  == IF build = "posix" THEN k ELSE 0
Live(k) == build = "systemv" => k = current["mutex"]

(* If anybody is in a call, it is c, and it waits for its reply; with the  *)
(* present server it is there, unless somebody died.                       *)
Alive(c, k) == harm = "none" /\ k = current["mutex"] => Busy(c, k)
Waits(c, k) == Alive(c, k) /\ \A d \in Clients : Busy(d, k) => d = c /\ pc[d] = "recv"
Asked(k)    == \A d \in Clients : Busy(d, k) => stage[d] = "asked"
Served(k)   == \A d \in Clients : Busy(d, k) => stage[d] = "served"

(* Where the request is, and where the reply.                              *)
Asking(k) ==
  /\ \A c \in Clients : Busy(c, k) /\ pc[c] = "spost" => memory[Seg(k)] = Req(c)
  /\ sem[k]["SERVER_READ"] = 1 \/ (Has(Server, k) /\ pc[Server] = "copy") =>
       (\E c \in Clients : memory[Seg(k)] = Req(c) /\ Waits(c, k)) /\ Asked(k)

Working ==
  /\ pc[Server] \in {"rpost", "serve", "send", "write", "fill"} =>
       \E c \in Clients : local[Server] = Req(c) /\ Waits(c, current["mutex"])
  /\ pc[Server] \in {"rpost", "serve"} => Asked(current["mutex"])

Answering(k) ==
  /\ sem[k]["CLIENT_READ"] = 1 \/ (Has(Server, k) /\ pc[Server] = "spost") =>
       (\E c \in Clients : memory[Seg(k)] = Res(c) /\ Waits(c, k)) /\ Served(k)
  /\ \A c \in Clients : Busy(c, k) /\ pc[c] = "copy" => memory[Seg(k)] = Res(c)

Answered ==
  /\ pc[Server] \in {"send", "write", "fill"} => Served(current["mutex"])
  /\ \A c \in Clients : pc[c] \in {"copy", "rpost", "handle"} => stage[c] = "served"
  /\ \A c \in Clients : pc[c] \in {"rpost", "handle"} => local[c] = Res(c)

(* What was not sent was not served.                                       *)
Unsent == \A c \in Clients :
  pc[c] \in {"open", "mutex", "sem2", "sem3", "sem4", "send", "write", "fill", "spost"}
    => stage[c] = "asked"

Stages == \A c \in Clients : stage[c] = "idle" <=> pc[c] = "idle"

CallInv ==
  /\ \A k \in Objects : Live(k) => Asking(k) /\ Answering(k)
  /\ Working /\ Answered /\ Unsent

IInv == TInv /\ Stages /\ (OneTurn => TurnInv /\ CallInv)
-----------------------------------------------------------------------------
LEMMA StepCases ==
  ASSUME [Next]_vars
  PROVE  \/ UNCHANGED vars
         \/ /\ OneTurn
            /\ \/ \E p \in Processes : Transfer(p)
               \/ ServerAct
               \/ \E c \in Clients : ClientAct(c)
<1>1. \A c \in Clients : c \in Processes
  BY DEF Processes
<1>2. \A p \in Processes : p # Server => p \in Clients
  BY DEF Processes
<1> QED BY <1>1, <1>2 DEF Next, Run, ServerStep, Transfer, ServerAct, ClientAct

LEMMA ContentTypes ==
  /\ Torn \in Contents
  /\ \A c \in Clients : Req(c) \in Contents /\ Res(c) \in Contents
  /\ \A c \in Clients : Req(c).of = c /\ Res(c).of = c /\ Req(c) # Torn /\ Res(c) # Torn
  /\ \A c, d \in Clients : Req(c) # Res(d)
BY DEF Contents, Req, Res, Torn

LEMMA ObjectTypes ==
  ASSUME TypeOK
  PROVE  /\ 0 \in Objects
         /\ \A n \in Names : current[n] \in Objects
         /\ \A c \in Clients, n \in Names : handle[c][n] \in Objects
         /\ \A p \in Processes, n \in Names : Object(p, n) \in Objects
         /\ \A c \in Clients : c # Server
         /\ "mutex" \in Names /\ "memory" \in Names
         /\ \A k \in Objects : k \in Int /\ k >= 0 /\ k <= MaxStops
BY TurnsAssumption DEF TypeOK, Object, Processes, Objects, Names

(* What the server acts on is the request of a call that waits for its     *)
(* reply, once; or nobody waits for it any more.                           *)
LEMMA ServeOnce ==
  ASSUME TypeOK, OneTurn, Working, Serve
  PROVE  \E c \in Clients :
           /\ local[Server] = Req(c) /\ Waits(c, current["mutex"])
           /\ \/ /\ Busy(c, current["mutex"]) /\ stage[c] = "asked"
                 /\ stage' = [stage EXCEPT ![c] = "served"]
              \/ ~Busy(c, current["mutex"]) /\ stage' = stage
<1>1. PICK c \in Clients : local[Server] = Req(c) /\ Waits(c, current["mutex"])
  BY DEF Serve, Goto, Working
<1>2. \A d \in Clients : local[Server] = Req(d) <=> d = c
  BY <1>1, ContentTypes
<1>3. stage' = [stage EXCEPT ![c] = Acted(c)]
  BY <1>2 DEF Serve, TypeOK
<1>4. CASE Busy(c, current["mutex"])
  <2>1. Awaits(c)
    BY <1>1, <1>4 DEF Waits, Busy, Awaits
  <2>2. stage[c] = "asked"
    BY <1>4 DEF Working, Asked, Serve, Goto
  <2> QED BY <1>1, <1>3, <1>4, <2>1, <2>2 DEF Acted
<1>5. CASE ~Busy(c, current["mutex"])
  <2>1. ~Awaits(c)
    BY <1>5 DEF Busy, Awaits, InCall
  <2>2. harm = "lost"
    BY <1>1, <1>5 DEF Waits, Alive, OneTurn, TypeOK
  <2>3. stage' = stage
    BY <1>3, <2>1, <2>2 DEF Acted, TypeOK
  <2> QED BY <1>1, <1>5, <2>3
<1> QED BY <1>4, <1>5

(* What a post and a wait do to the values of the semaphores.              *)
LEMMA Posting ==
  ASSUME TypeOK, NEW p \in Processes, NEW i \in Semaphores, inc(p, i)
  PROVE  /\ sem' \in [Objects -> [Semaphores -> Nat]]
         /\ sem'[Object(p, "mutex")][i] = sem[Object(p, "mutex")][i] + 1
         /\ \A k \in Objects, j \in Semaphores :
              k # Object(p, "mutex") \/ j # i => sem'[k][j] = sem[k][j]
<1>1. Object(p, "mutex") \in Objects
  BY ObjectTypes
<1>2. sem[Object(p, "mutex")][i] \in Nat
  BY <1>1 DEF TypeOK
<1> QED BY <1>1, <1>2 DEF TypeOK, inc

LEMMA Waiting ==
  ASSUME TypeOK, NEW p \in Processes, NEW i \in Semaphores, dec(p, i)
  PROVE  /\ sem' \in [Objects -> [Semaphores -> Nat]]
         /\ sem[Object(p, "mutex")][i] > 0
         /\ sem'[Object(p, "mutex")][i] = sem[Object(p, "mutex")][i] - 1
         /\ \A k \in Objects, j \in Semaphores :
              k # Object(p, "mutex") \/ j # i => sem'[k][j] = sem[k][j]
<1>1. Object(p, "mutex") \in Objects
  BY ObjectTypes
<1>2. sem[Object(p, "mutex")][i] \in Nat /\ sem[Object(p, "mutex")][i] > 0
  BY <1>1 DEF TypeOK, dec
<1> QED BY <1>1, <1>2 DEF TypeOK, dec

LEMMA Setting ==
  ASSUME TypeOK, SetVal
  PROVE  LET i == Order[step + 1]
             v == IF i = "CLIENT_WRITE" THEN 1 ELSE 0
         IN  /\ i \in Semaphores
             /\ i = "CLIENT_WRITE" <=> step = 0
             /\ step' = (IF step = 3 THEN 0 ELSE step + 1) /\ step \in {0, 1, 2, 3}
             /\ sem' \in [Objects -> [Semaphores -> Nat]]
             /\ sem'[current["mutex"]][i] = v
             /\ \A k \in Objects, j \in Semaphores :
                  k # current["mutex"] \/ j # i => sem'[k][j] = sem[k][j]
<1> DEFINE i == Order[step + 1]
           v == IF i = "CLIENT_WRITE" THEN 1 ELSE 0
<1>1. step \in {0, 1, 2, 3}
  BY DEF TypeOK
<1>2. i \in Semaphores /\ (i = "CLIENT_WRITE" <=> step = 0)
  BY <1>1 DEF Order, Semaphores
<1>3. step' = (step + 1) % 4
  BY DEF SetVal
<1>4. step' = (IF step = 3 THEN 0 ELSE step + 1)
  BY <1>1, <1>3
<1>5. current["mutex"] \in Objects
  BY ObjectTypes
<1>6. sem' = [sem EXCEPT ![current["mutex"]][i] = v]
  BY DEF SetVal
<1>7. v \in Nat
  OBVIOUS
<1>8. /\ sem' \in [Objects -> [Semaphores -> Nat]]
      /\ sem'[current["mutex"]][i] = v
      /\ \A k \in Objects, j \in Semaphores :
           k # current["mutex"] \/ j # i => sem'[k][j] = sem[k][j]
  <2> HIDE DEF i, v
  <2> QED BY <1>2, <1>5, <1>6, <1>7 DEF TypeOK
<1> QED BY <1>1, <1>2, <1>4, <1>8

LEMMA TypeInit == Init => TInv
<1> SUFFICES ASSUME Init PROVE TInv
  OBVIOUS
<1>1. 0 \in Objects
  BY TurnsAssumption DEF Objects
<1>2. TypeOK
  BY <1>1, ContentTypes DEF Init, TypeOK, ServerLabels, ClientLabels
<1>3. Aligned
  BY <1>1 DEF Init, Aligned, Names, Processes
<1> QED BY <1>2, <1>3 DEF TInv

LEMMA TypeRun ==
  ASSUME TypeOK, Working, NEW p \in Processes, Transfer(p)
  PROVE  TypeOK'
<1>0. /\ \A l \in ServerLabels \cup ClientLabels :
           pc' = [pc EXCEPT ![p] = l] => pc' \in [Processes -> ServerLabels \cup ClientLabels]
      /\ {"send", "write", "fill", "spost", "recv", "copy", "rpost", "serve", "handle"}
           \subseteq ServerLabels \cup ClientLabels
      /\ {"CLIENT_WRITE", "SERVER_READ", "CLIENT_READ", "SERVER_WRITE"} \subseteq Semaphores
  BY DEF TypeOK, ServerLabels, ClientLabels, Semaphores
<1>1. CASE SendWait(p)
  BY <1>0, <1>1, Waiting DEF SendWait, Goto, objects, history, TypeOK
<1>2. CASE Write(p)
  BY <1>0, <1>2, ObjectTypes, ContentTypes DEF Write, Goto, objects, history, TypeOK
<1>3. CASE Fill(p)
  <2>1. Message(p) \in Contents
    BY <1>3, ContentTypes DEF Fill, Goto, Working, Message, Processes
  <2> QED BY <1>0, <1>3, <2>1, ObjectTypes DEF Fill, Goto, objects, history, TypeOK
<1>4. CASE SendPost(p)
  BY <1>0, <1>4, Posting DEF SendPost, Goto, objects, history, TypeOK
<1>5. CASE RecvWait(p)
  BY <1>0, <1>5, Waiting DEF RecvWait, Goto, objects, history, TypeOK
<1>6. CASE Copy(p)
  BY <1>0, <1>6, ObjectTypes DEF Copy, Goto, objects, history, TypeOK
<1>7. CASE RecvPost(p)
  BY <1>0, <1>7, Posting DEF RecvPost, Goto, objects, history, TypeOK
<1> QED BY <1>1, <1>2, <1>3, <1>4, <1>5, <1>6, <1>7 DEF Transfer

LEMMA TypeServer ==
  ASSUME TypeOK, Aligned, OneTurn, Working, ServerAct
  PROVE  TypeOK'
<1>0. /\ {"init", "down", "recv", "send", "close", "free"} \subseteq ServerLabels \cup ClientLabels
      /\ Server \in Processes /\ "CLIENT_WRITE" \in Semaphores
      /\ Lost \in {"none", "lost", "doubled"}
  BY DEF ServerLabels, ClientLabels, Processes, Semaphores, Lost, TypeOK
<1>1. CASE SetVal
  <2>1. step' \in 0 .. 3 /\ sem' \in [Objects -> [Semaphores -> Nat]]
    BY <1>1, Setting
  <2>2. pc' \in [Processes -> ServerLabels \cup ClientLabels] /\ harm' \in {"none", "lost", "doubled"}
    BY <1>0, <1>1 DEF SetVal, TypeOK
  <2> QED BY <1>1, <2>1, <2>2 DEF SetVal, objects, TypeOK
<1>2. CASE PostTurn
  BY <1>0, <1>2, Posting DEF PostTurn, Goto, objects, history, TypeOK
<1>3. CASE Serve
  <2>1. stage' \in [Clients -> {"idle", "asked", "served"}]
    BY <1>3, ServeOnce DEF TypeOK
  <2> QED BY <1>0, <1>3, <2>1 DEF Serve, Goto, objects, TypeOK
<1>4. CASE CloseMutex
  <2>1. current["mutex"] + 1 \in Objects
    BY <1>4, ObjectTypes, TurnsAssumption DEF CloseMutex, Goto, Aligned, Objects
  <2> QED BY <1>0, <1>4, <2>1, ObjectTypes DEF CloseMutex, Goto, TypeOK
<1>5. CASE FreeMemory
  <2>1. current["memory"] + 1 \in Objects
    BY <1>5, ObjectTypes DEF FreeMemory, Goto, Aligned, TypeOK
  <2> QED BY <1>0, <1>5, <2>1, ObjectTypes DEF FreeMemory, Goto, history, TypeOK
<1>6. CASE SListen
  BY <1>0, <1>6 DEF SListen, Goto, objects, history, TypeOK
<1>7. CASE SStop
  BY <1>0, <1>7, ContentTypes DEF SStop, objects, history, TypeOK
<1>8. CASE SKill
  BY <1>0, <1>8, ContentTypes DEF SKill, objects, TypeOK
<1>9. CASE Unlink
  <2>1. step' \in 0 .. 3
    BY <1>9 DEF Unlink, TypeOK
  <2> QED BY <1>0, <1>9, <2>1 DEF Unlink, Goto, objects, history, TypeOK
<1> QED BY <1>1, <1>2, <1>3, <1>4, <1>5, <1>6, <1>7, <1>8, <1>9 DEF ServerAct

(* What a client opens exists; it opens one name after the other.          *)
LEMMA Opens ==
  ASSUME TypeOK, Aligned, NEW c \in Clients, OpenMutex(c)
  PROVE  \E j \in 1 .. 4 :
           /\ pc[c] \in {"mutex", "sem2", "sem3", "sem4"}
           /\ pc' = [pc EXCEPT ![c] = pc'[c]] /\ pc'[c] \in {"sem2", "sem3", "sem4", "send"}
           /\ handle' = [handle EXCEPT ![c].mutex = Behind(j)]
           /\ Behind(j) \in Objects /\ handle' \in [Clients -> [Names -> Objects]]
           /\ handle'[c].mutex = Behind(j) /\ \A d \in Clients : handle'[d].memory = handle[d].memory
           /\ harm' = IF build = "posix" /\ handle[c].memory # Behind(j) THEN "doubled" ELSE harm
           /\ UNCHANGED <<objects, sem, memory, step, local, stage, got>>
           /\ build = "systemv" => Behind(j) = current["mutex"]
<1>1. c \in Processes
  BY DEF Processes
<1>2. PICK j \in 1 .. 4 :
        /\ Goto(c, Opening[j], IF build = "posix" THEN Opening[j + 1] ELSE "send")
        /\ handle' = [handle EXCEPT ![c].mutex = Behind(j)]
        /\ harm' = IF build = "posix" /\ handle[c].memory # Behind(j) THEN "doubled" ELSE harm
        /\ UNCHANGED <<objects, sem, memory, step, local, stage, got>>
  BY DEF OpenMutex
<1>3. j \in {1, 2, 3, 4}
  OBVIOUS
<1>4. /\ Opening[j] \in {"mutex", "sem2", "sem3", "sem4"}
      /\ Opening[j + 1] \in {"sem2", "sem3", "sem4", "send"}
  BY <1>3 DEF Opening
<1>5. /\ pc[c] \in {"mutex", "sem2", "sem3", "sem4"}
      /\ pc' = [pc EXCEPT ![c] = pc'[c]] /\ pc'[c] \in {"sem2", "sem3", "sem4", "send"}
  BY <1>1, <1>2, <1>4 DEF Goto, TypeOK
<1>6. current["mutex"] \in Objects /\ (pc[Server] = "close" => current["mutex"] + 1 \in Objects)
  BY ObjectTypes, TurnsAssumption DEF Aligned, Objects
<1>7. Behind(j) \in Objects
  BY <1>6 DEF Behind
<1>9. /\ handle' \in [Clients -> [Names -> Objects]] /\ handle'[c].mutex = Behind(j)
      /\ \A d \in Clients : handle'[d].memory = handle[d].memory
  <2> HIDE DEF Behind
  <2> QED BY <1>2, <1>7 DEF TypeOK, Names
<1>8. build = "systemv" => Behind(j) = current["mutex"]
  <2>1. build = "systemv" /\ pc[Server] = "close" => step = 0
    BY DEF Aligned
  <2> QED BY <1>3, <2>1 DEF Behind
<1> QED BY <1>2, <1>5, <1>7, <1>8, <1>9

LEMMA TypeClient ==
  ASSUME TypeOK, Aligned, NEW c \in Clients, ClientAct(c)
  PROVE  TypeOK'
<1>0. /\ {"idle", "open", "mutex", "sem2", "sem3", "sem4", "send"} \subseteq ServerLabels \cup ClientLabels
      /\ c \in Processes
      /\ Lost \in {"none", "lost", "doubled"}
  BY DEF ServerLabels, ClientLabels, Processes, Lost, TypeOK
<1>1. CASE Connect(c)
  BY <1>0, <1>1 DEF Connect, Goto, objects, TypeOK
<1>2. CASE GetMemory(c)
  BY <1>0, <1>2, ObjectTypes DEF GetMemory, Goto, objects, history, TypeOK
<1>3. CASE OpenMutex(c)
  <2>1. PICK j \in 1 .. 4 :
          /\ pc' = [pc EXCEPT ![c] = pc'[c]] /\ pc'[c] \in {"sem2", "sem3", "sem4", "send"}
          /\ handle' \in [Clients -> [Names -> Objects]]
          /\ harm' = IF build = "posix" /\ handle[c].memory # Behind(j) THEN "doubled" ELSE harm
          /\ UNCHANGED <<objects, sem, memory, step, local, stage, got>>
    BY <1>3, Opens
  <2>2. pc' \in [Processes -> ServerLabels \cup ClientLabels] /\ harm' \in {"none", "lost", "doubled"}
    BY <1>0, <2>1 DEF TypeOK
  <2> QED BY <2>1, <2>2 DEF objects, TypeOK
<1>4. CASE Handle(c) \/ Fail(c) \/ Die(c)
  <2>1. CEnd(c) /\ harm' \in {"none", "lost", "doubled"} /\ got' \in [Clients -> Contents]
    BY <1>0, <1>4 DEF Handle, Fail, Die, TypeOK
  <2> QED BY <1>0, <2>1, ContentTypes DEF CEnd, objects, TypeOK
<1> QED BY <1>1, <1>2, <1>3, <1>4 DEF ClientAct

LEMMA TypeNext ==
  ASSUME TypeOK, Aligned, OneTurn => Working, [Next]_vars
  PROVE  TypeOK'
<1>1. CASE UNCHANGED vars
  BY <1>1 DEF vars, TypeOK
<1> QED BY <1>1, StepCases, TypeRun, TypeServer, TypeClient

LEMMA AlignedNext ==
  ASSUME TypeOK, Aligned, [Next]_vars
  PROVE  Aligned'
<1>0. /\ Server \in Processes /\ \A c \in Clients : c # Server
      /\ \A p \in Processes : p \in Clients \/ p = Server
  BY TurnsAssumption DEF Processes
<1>1. CASE UNCHANGED vars
  BY <1>1 DEF vars, Aligned
<1>2. ASSUME NEW p \in Processes, Transfer(p)
      PROVE  Aligned'
  BY <1>0, <1>2 DEF Transfer, SendWait, Write, Fill, SendPost, RecvWait, Copy, RecvPost, Goto,
     objects, history, Aligned, TypeOK
<1>3. CASE PostTurn \/ Serve \/ Unlink \/ SListen \/ SStop \/ SKill
  BY <1>0, <1>3 DEF PostTurn, Serve, Unlink, SListen, SStop, SKill, Running, Goto, objects,
     history,
     Aligned, TypeOK
<1>7. CASE SetVal
  <2>1. /\ pc[Server] = "init" /\ build = "systemv" /\ UNCHANGED <<build, current, handle>>
        /\ pc'[Server] = IF step = 3 THEN "recv" ELSE "init"
        /\ step = 3 => step' = 0
    BY <1>0, <1>7, Setting DEF SetVal, objects, TypeOK
  <2> QED BY <2>1 DEF Aligned
<1>4. CASE CloseMutex
  BY <1>0, <1>4, ObjectTypes DEF CloseMutex, Goto, Aligned, TypeOK
<1>5. CASE FreeMemory
  BY <1>0, <1>5, ObjectTypes DEF FreeMemory, Goto, Aligned, TypeOK
<1>6. ASSUME NEW c \in Clients, ClientAct(c)
      PROVE  Aligned'
  <2>1. UNCHANGED objects /\ pc'[Server] = pc[Server] /\ step' = step
    <3>1. CASE OpenMutex(c)
      BY <1>0, <3>1, Opens DEF TypeOK
    <3>2. CASE ~OpenMutex(c)
      BY <1>0, <1>6, <3>2 DEF ClientAct, Connect, GetMemory, Handle, Fail, Die, CEnd, Goto,
         history, TypeOK
    <3> QED BY <3>1, <3>2
  <2>2. \A d \in Clients : handle'[d].memory \in {handle[d].memory, current["memory"]}
    <3>1. CASE GetMemory(c)
      BY <3>1, ObjectTypes DEF GetMemory, TypeOK
    <3>2. CASE OpenMutex(c)
      BY <3>2, Opens
    <3>3. CASE Connect(c) \/ Handle(c) \/ Fail(c) \/ Die(c)
      BY <3>3 DEF Connect, Handle, Fail, Die, CEnd
    <3> QED BY <1>6, <3>1, <3>2, <3>3 DEF ClientAct
  <2> QED BY <2>1, <2>2 DEF Aligned, objects
<1> QED BY <1>1, <1>2, <1>3, <1>4, <1>5, <1>6, <1>7, StepCases DEF ServerAct
-----------------------------------------------------------------------------
(* One process moves: what that means for who has which turn.              *)
LEMMA Moving ==
  ASSUME TypeOK, NEW p \in Processes, NEW to \in ServerLabels \cup ClientLabels,
         pc' = [pc EXCEPT ![p] = to], UNCHANGED <<current, handle>>
  PROVE  /\ pc'[p] = to /\ \A q \in Processes : q # p => pc'[q] = pc[q]
         /\ \A q \in Processes, n \in Names : Object(q, n)' = Object(q, n)
         /\ \A k \in Objects : Has(p, k)' <=> to \in Holding /\ Object(p, "mutex") = k
         /\ \A k \in Objects, q \in Processes : q # p => (Has(q, k)' <=> Has(q, k))
         /\ p \in Clients => \A k \in Objects : Busy(p, k)' <=> to \in InCall /\ Object(p, "mutex") = k
         /\ \A k \in Objects, c \in Clients : c # p => (Busy(c, k)' <=> Busy(c, k))
<1>1. pc'[p] = to /\ \A q \in Processes : q # p => pc'[q] = pc[q]
  BY DEF TypeOK
<1>2. \A c \in Clients : c \in Processes /\ c # Server
  BY TurnsAssumption DEF Processes
<1>3. \A q \in Processes, n \in Names : Object(q, n)' = Object(q, n)
  BY DEF Object
<1>4. \A c \in Clients : Object(c, "mutex") = handle[c].mutex
  BY <1>2 DEF Object
<1>5. \A k \in Objects : Has(p, k)' <=> to \in Holding /\ Object(p, "mutex") = k
  BY <1>1, <1>3, ObjectTypes DEF Has
<1>6. \A k \in Objects, q \in Processes : q # p => (Has(q, k)' <=> Has(q, k))
  BY <1>1, <1>3, ObjectTypes DEF Has
<1>7. p \in Clients => \A k \in Objects : Busy(p, k)' <=> to \in InCall /\ Object(p, "mutex") = k
  BY <1>1, <1>4 DEF Busy
<1>8. \A k \in Objects, c \in Clients : c # p => (Busy(c, k)' <=> Busy(c, k))
  BY <1>1, <1>2 DEF Busy
<1> QED BY <1>1, <1>3, <1>5, <1>6, <1>7, <1>8

(* Who has a turn is in a call.                                            *)
LEMMA HasBusy == \A c \in Clients, k \in Objects : Has(c, k) => Busy(c, k)
BY TurnsAssumption DEF Has, Busy, Holding, InCall, Object

(* A wait that ends takes the turn from the semaphore.                     *)
LEMMA TakingTurn ==
  ASSUME TypeOK, NEW p \in Processes, NEW i \in Semaphores, NEW to \in Holding,
         to \in ServerLabels \cup ClientLabels,
         dec(p, i), pc' = [pc EXCEPT ![p] = to], UNCHANGED <<current, handle>>,
         \A k \in Objects : Turn(k),
         p \in Clients => Busy(p, Object(p, "mutex")) \/ i = "CLIENT_WRITE"
  PROVE  \A k \in Objects : Turn(k)'
<1> PICK m \in Objects : m = Object(p, "mutex")
  BY ObjectTypes
<1>0. "CLIENT_WRITE" \in Semaphores
  BY DEF Semaphores
<1>1. sem[m][i] \in {0, 1} /\ sem[m][i] \in Nat
  BY <1>0 DEF Turn, TypeOK
<1>2. sem[m][i] = 1
  BY <1>1, Waiting
<1>3. /\ \A j \in Semaphores : sem'[m][j] = 0
      /\ \A k \in Objects, j \in Semaphores : k # m => sem'[k][j] = sem[k][j]
  BY <1>0, <1>1, <1>2, Waiting DEF Turn
<1>4. \A q \in Processes : ~Has(q, m)
  BY <1>0, <1>2 DEF Turn, Untouched
<1>5. \A q \in Processes : Has(q, m)' => q = p
  BY <1>0, <1>4, Moving
<1>6. p \in Clients => \A c \in Clients : Busy(c, m)' => c = p
  <2> SUFFICES ASSUME p \in Clients, NEW c \in Clients, Busy(c, m)', c # p PROVE FALSE
    OBVIOUS
  <2>1. Busy(c, m)
    BY Moving
  <2>2. sem[m]["CLIENT_WRITE"] = 0 /\ ~Busy(p, m)
    BY <2>1 DEF Turn
  <2> QED BY <1>2, <2>2
<1>7. ASSUME NEW k \in Objects PROVE Turn(k)'
  <2>1. CASE k = m
    <3>1. Untouched(m)'
      BY <1>3 DEF Untouched
    <3>2. \A c \in Clients : Busy(c, m)' => \A d \in Clients : Busy(d, m)' => d = c
      <4>1. CASE p \in Clients
        BY <4>1, <1>6
      <4>2. CASE p \notin Clients
        <5>1. \A c \in Clients : Busy(c, m)' <=> Busy(c, m)
          BY <4>2, Moving
        <5> QED BY <5>1 DEF Turn
      <4> QED BY <4>1, <4>2
    <3>3. \A j, l \in Semaphores : sem'[m][j] = 0 /\ sem'[m][l] = 0
      BY <1>3
    <3> QED BY <2>1, <1>0, <1>5, <3>1, <3>2, <3>3 DEF Turn
  <2>2. CASE k # m
    <3>1. \A q \in Processes : Has(q, k)' <=> Has(q, k)
      BY <2>2, <1>0, Moving DEF Has
    <3>2. \A c \in Clients : Busy(c, k)' => Busy(c, k)
      BY <2>2, <1>0, Moving DEF Processes
    <3> QED BY <2>2, <1>0, <1>3, <3>1, <3>2 DEF Turn, Untouched
  <2> QED BY <2>1, <2>2
<1> QED BY <1>7

(* A post of who has the turn puts it into the semaphore.                  *)
LEMMA PassingTurn ==
  ASSUME TypeOK, NEW p \in Processes, NEW i \in Semaphores, NEW to \in ServerLabels \cup ClientLabels,
         inc(p, i), pc' = [pc EXCEPT ![p] = to], UNCHANGED <<current, handle>>,
         \A k \in Objects : Turn(k),
         Has(p, Object(p, "mutex")), to \notin Holding,
         i = "CLIENT_WRITE" => p \in Clients /\ to \notin InCall
  PROVE  \A k \in Objects : Turn(k)'
<1> PICK m \in Objects : m = Object(p, "mutex")
  BY ObjectTypes
<1>1. \A j \in Semaphores : sem[m][j] = 0
  BY DEF Turn, Untouched
<1>2. /\ sem'[m][i] = 1
      /\ \A j \in Semaphores : j # i => sem'[m][j] = 0
      /\ \A k \in Objects, j \in Semaphores : k # m => sem'[k][j] = sem[k][j]
  BY <1>1, Posting
<1>3. \A q \in Processes : ~Has(q, m)'
  BY Moving DEF Turn
<1>4. \A k \in Objects, c \in Clients : Busy(c, k)' => Busy(c, k)
  <2> SUFFICES ASSUME NEW k \in Objects, NEW c \in Clients, Busy(c, k)' PROVE Busy(c, k)
    OBVIOUS
  <2>1. CASE c = p
    <3>1. k = m
      BY <2>1, Moving
    <3> QED BY <2>1, <3>1, HasBusy
  <2>2. CASE c # p
    BY <2>2, Moving
  <2> QED BY <2>1, <2>2
<1>5. "CLIENT_WRITE" \in Semaphores
  BY DEF Semaphores
<1>6. Turn(m)'
  <2>1. \A c \in Clients : Busy(c, m)' => \A d \in Clients : Busy(d, m)' => d = c
    BY <1>4 DEF Turn
  <2>2. ASSUME NEW c \in Clients, Busy(c, m)' PROVE sem'[m]["CLIENT_WRITE"] = 0
    <3>1. CASE i = "CLIENT_WRITE"
      <4>1. p \in Clients /\ ~Busy(p, m)'
        BY <3>1, Moving
      <4>2. Busy(c, m) /\ Busy(p, m) /\ c # p
        BY <2>2, <4>1, <1>4, HasBusy
      <4> QED BY <4>1, <4>2 DEF Turn
    <3>2. CASE i # "CLIENT_WRITE"
      BY <3>2, <1>2, <1>5
    <3> QED BY <3>1, <3>2
  <2>3. \A j \in Semaphores : sem'[m][j] \in {0, 1} /\ (sem'[m][j] = 1 => j = i)
    BY <1>2
  <2> QED BY <1>3, <2>1, <2>2, <2>3 DEF Turn
<1>7. ASSUME NEW k \in Objects, k # m PROVE Turn(k)'
  <2>1. \A q \in Processes : Has(q, k)' <=> Has(q, k)
    BY <1>7, Moving DEF Has
  <2> QED BY <1>2, <1>4, <1>5, <1>7, <2>1 DEF Turn, Untouched
<1> QED BY <1>6, <1>7

LEMMA KeepingTurn ==
  ASSUME UNCHANGED sem,
         \A k \in Objects, p \in Processes : Has(p, k)' => Has(p, k),
         \A k \in Objects, c \in Clients : Busy(c, k)' => Busy(c, k),
         \A k \in Objects : Turn(k)
  PROVE  \A k \in Objects : Turn(k)'
BY DEF Turn, Untouched

(* The steps of both sides pass the turn on and never double it.           *)
LEMMA TurnTransfer ==
  ASSUME TInv, TurnInv, NEW p \in Processes, Transfer(p)
  PROVE  \A k \in Objects : Turn(k)'
<1>0. /\ TypeOK /\ \A k \in Objects : Turn(k)
      /\ {"CLIENT_WRITE", "SERVER_READ", "CLIENT_READ", "SERVER_WRITE"} \subseteq Semaphores
      /\ Object(p, "mutex") \in Objects
      /\ InCall \cup {"serve", "handle"} \subseteq ServerLabels \cup ClientLabels
  BY ObjectTypes DEF TInv, TurnInv, Semaphores, InCall, Holding, ServerLabels, ClientLabels
<1>1. CASE SendWait(p)
  <2>1. PICK i \in Semaphores : dec(p, i) /\ (p \in Clients => i = "CLIENT_WRITE")
    BY <1>0, <1>1, TurnsAssumption DEF SendWait
  <2> QED BY <1>0, <1>1, <2>1, TakingTurn DEF SendWait, Goto, objects, Holding, InCall
<1>2. CASE RecvWait(p)
  <2>1. PICK i \in Semaphores : dec(p, i)
    BY <1>0, <1>2 DEF RecvWait
  <2>2. p \in Clients => Busy(p, Object(p, "mutex"))
    BY <1>2, TurnsAssumption DEF RecvWait, Goto, Busy, InCall, Object
  <2> QED BY <1>0, <1>2, <2>1, <2>2, TakingTurn DEF RecvWait, Goto, objects, Holding, InCall
<1>3. CASE SendPost(p)
  <2>1. PICK i \in Semaphores : inc(p, i) /\ i # "CLIENT_WRITE"
    BY <1>0, <1>3 DEF SendPost
  <2> QED BY <1>0, <1>3, <2>1, PassingTurn DEF SendPost, Goto, objects, Has, Holding, InCall
<1>4. CASE RecvPost(p)
  <2>1. PICK i \in Semaphores : inc(p, i) /\ (p = Server => i # "CLIENT_WRITE")
    BY <1>0, <1>4 DEF RecvPost
  <2> QED BY <1>0, <1>4, <2>1, PassingTurn DEF RecvPost, Goto, objects, Has, Holding, InCall, Processes
<1>5. CASE Write(p) \/ Fill(p) \/ Copy(p)
  <2>1. PICK to \in Holding : pc' = [pc EXCEPT ![p] = to] /\ pc[p] \in Holding
    BY <1>5 DEF Write, Fill, Copy, Goto, Holding
  <2>2. UNCHANGED <<sem, current, handle>>
    BY <1>5 DEF Write, Fill, Copy, objects
  <2>3. Has(p, Object(p, "mutex"))
    BY <2>1 DEF Has
  <2>4. to \in ServerLabels \cup ClientLabels
    BY <1>0 DEF InCall
  <2>5. \A k \in Objects, q \in Processes : Has(q, k)' => Has(q, k)
    BY <1>0, <2>1, <2>2, <2>3, <2>4, Moving
  <2>6. \A k \in Objects, c \in Clients : Busy(c, k)' => Busy(c, k)
    <3> SUFFICES ASSUME NEW k \in Objects, NEW c \in Clients, Busy(c, k)' PROVE Busy(c, k)
      OBVIOUS
    <3>1. CASE c = p
      <4>1. k = Object(p, "mutex")
        BY <1>0, <2>1, <2>2, <2>4, <3>1, Moving
      <4> QED BY <2>3, <3>1, <4>1, HasBusy
    <3>2. CASE c # p
      BY <1>0, <2>1, <2>2, <2>4, <3>2, Moving
    <3> QED BY <3>1, <3>2
  <2> QED BY <1>0, <2>2, <2>5, <2>6, KeepingTurn
<1> QED BY <1>1, <1>2, <1>3, <1>4, <1>5 DEF Transfer

(* A transfer posts to, or takes from, the semaphores of its process, and  *)
(* each process only those of its side.                                    *)
LEMMA TransferFrame ==
  ASSUME TypeOK, NEW p \in Processes, Transfer(p)
  PROVE  /\ UNCHANGED <<build, current, step, handle, stage, got, harm>>
         /\ \A k \in Objects, j \in Semaphores : k # Object(p, "mutex") => sem'[k][j] = sem[k][j]
         /\ p # Server => \A k \in Objects : sem'[k]["SERVER_WRITE"] = sem[k]["SERVER_WRITE"]
         /\ pc[p] \in InCall \cup {"send"} /\ pc'[p] \in InCall \cup {"serve", "handle"}
         /\ pc' = [pc EXCEPT ![p] = pc'[p]]
         /\ pc[p] = "send" => dec(p, IF p = Server THEN "SERVER_WRITE" ELSE "CLIENT_WRITE")
<1>0. {"CLIENT_WRITE", "SERVER_READ", "CLIENT_READ", "SERVER_WRITE"} \subseteq Semaphores
  BY DEF Semaphores
<1>1. UNCHANGED <<build, current, step, handle, stage, got, harm>>
  BY DEF Transfer, SendWait, Write, Fill, SendPost, RecvWait, Copy, RecvPost, objects, history
<1>2. /\ pc[p] \in InCall \cup {"send"} /\ pc'[p] \in InCall \cup {"serve", "handle"}
      /\ pc' = [pc EXCEPT ![p] = pc'[p]]
  BY DEF Transfer, SendWait, Write, Fill, SendPost, RecvWait, Copy, RecvPost, Goto, InCall,
     Holding,
     TypeOK
<1>3. CASE Write(p) \/ Fill(p) \/ Copy(p)
  BY <1>1, <1>2, <1>3 DEF Write, Fill, Copy, Goto
<1>4. CASE \/ SendWait(p) \/ RecvWait(p)
  <2>1. PICK i \in Semaphores : dec(p, i) /\ (p # Server => i # "SERVER_WRITE")
    BY <1>0, <1>4 DEF SendWait, RecvWait
  <2> QED BY <1>0, <1>1, <1>2, <1>4, <2>1, Waiting DEF SendWait, RecvWait, Goto
<1>5. CASE \/ SendPost(p) \/ RecvPost(p)
  <2>1. PICK i \in Semaphores : inc(p, i) /\ (p # Server => i # "SERVER_WRITE")
    BY <1>0, <1>5 DEF SendPost, RecvPost
  <2> QED BY <1>0, <1>1, <1>2, <1>5, <2>1, Posting DEF SendPost, RecvPost, Goto
<1> QED BY <1>3, <1>4, <1>5 DEF Transfer

LEMMA FreshTransfer ==
  ASSUME TInv, TurnInv, NEW p \in Processes, Transfer(p)
  PROVE  Fresh'
<1>0. /\ TypeOK /\ Fresh /\ UNCHANGED <<build, current, step, handle>>
      /\ current["mutex"] \in Objects /\ Object(p, "mutex") \in Objects
      /\ pc'[p] \in ServerLabels \cup ClientLabels
  BY TransferFrame, ObjectTypes DEF TInv, TurnInv, InCall, Holding, ServerLabels, ClientLabels
<1>1. Object(p, "mutex") <= current["mutex"]
  BY <1>0, ObjectTypes DEF Object, Processes, Fresh
<1>2. \A k \in Objects : k > current["mutex"] => Untouched(k)'
  BY <1>0, <1>1, TransferFrame, ObjectTypes DEF Fresh, Untouched
<1>3. ASSUME Starting' PROVE Untouched(current["mutex"])' /\ \A c \in Clients : ~Busy(c, current["mutex"])'
  <2>1. p # Server
    BY <1>0, <1>3, TransferFrame DEF Starting, InCall, Holding
  <2>2. Server \in Processes /\ p \in Clients
    BY <2>1 DEF Processes
  <2>3. Starting
    BY <1>0, <1>3, <2>1, <2>2, TransferFrame, Moving DEF Starting
  <2>4. Object(p, "mutex") # current["mutex"]
    <3> SUFFICES ASSUME Object(p, "mutex") = current["mutex"] PROVE FALSE
      OBVIOUS
    <3>1. ~Busy(p, current["mutex"]) /\ sem[current["mutex"]]["CLIENT_WRITE"] = 0
      BY <1>0, <2>2, <2>3 DEF Fresh, Untouched, Semaphores
    <3>2. pc[p] = "send"
      BY <1>0, <2>1, <2>2, <3>1, TransferFrame DEF Busy, Object
    <3>3. dec(p, "CLIENT_WRITE")
      BY <1>0, <2>1, <3>2, TransferFrame
    <3> QED BY <1>0, <3>1, <3>3, Waiting DEF Semaphores
  <2>5. Untouched(current["mutex"]) /\ \A c \in Clients : ~Busy(c, current["mutex"])
    BY <1>0, <2>3 DEF Fresh
  <2>6. Untouched(current["mutex"])'
    BY <1>0, <2>4, <2>5, TransferFrame DEF Untouched
  <2>7. ASSUME NEW c \in Clients PROVE ~Busy(c, current["mutex"])'
    <3>1. CASE c = p
      BY <1>0, <2>1, <2>4, <3>1 DEF Busy, Object
    <3>2. CASE c # p
      BY <1>0, <2>5, <3>2, TransferFrame DEF Busy, TypeOK, Processes
    <3> QED BY <3>1, <3>2
  <2> QED BY <2>6, <2>7
<1> QED BY <1>0, <1>2, <1>3 DEF Fresh

LEMMA OwnTurnTransfer ==
  ASSUME TInv, TurnInv, NEW p \in Processes, Transfer(p)
  PROVE  OwnTurn'
<1>0. /\ TypeOK /\ OwnTurn /\ UNCHANGED <<build, current, handle>>
      /\ current["mutex"] \in Objects /\ Server \in Processes /\ "SERVER_WRITE" \in Semaphores
  BY TransferFrame, ObjectTypes DEF TInv, TurnInv, Processes, Semaphores
<1>1. CASE p # Server
  <2>1. pc'[Server] = pc[Server]
    BY <1>0, <1>1, TransferFrame DEF TypeOK
  <2>2. sem'[current["mutex"]]["SERVER_WRITE"] = sem[current["mutex"]]["SERVER_WRITE"]
    BY <1>0, <1>1, TransferFrame
  <2> QED BY <1>0, <2>1, <2>2 DEF OwnTurn
<1>2. CASE p = Server /\ pc'[Server] \in {"serve", "send"}
  <2>1. RecvPost(Server)
    BY <1>0, <1>2 DEF Transfer, SendWait, Write, Fill, SendPost, RecvWait, Copy, Goto, TypeOK
  <2>2. Has(Server, current["mutex"]) /\ inc(Server, "SERVER_WRITE") /\ Object(Server, "mutex") = current["mutex"]
    BY <2>1 DEF RecvPost, Goto, Has, Holding, Object
  <2>3. sem[current["mutex"]]["SERVER_WRITE"] = 0
    BY <1>0, <2>2 DEF TurnInv, Turn, Untouched
  <2>4. sem'[current["mutex"]]["SERVER_WRITE"] = 1
    BY <1>0, <2>2, <2>3, Posting
  <2> QED BY <1>0, <2>4 DEF OwnTurn
<1>3. CASE p = Server /\ pc'[Server] \notin {"serve", "send"}
  BY <1>3 DEF OwnTurn
<1> QED BY <1>1, <1>2, <1>3

LEMMA PairedTransfer ==
  ASSUME TInv, TurnInv, NEW p \in Processes, Transfer(p)
  PROVE  Paired'
<1>0. /\ TypeOK /\ Paired /\ UNCHANGED <<build, current, handle>>
      /\ \A c \in Clients : c \in Processes /\ c # Server
  BY TransferFrame, ObjectTypes DEF TInv, TurnInv, Processes
<1>1. ASSUME NEW c \in Clients, c # p
      PROVE  pc'[c] = pc[c]
  BY <1>0, <1>1, TransferFrame DEF TypeOK
<1>2. p \in Clients => pc[p] \in InCall \cup {"send"}
  BY TransferFrame DEF TInv
<1>3. ASSUME p \in Clients, build = "systemv", pc'[p] \in {"write", "fill", "copy"}
      PROVE  handle[p].mutex = current["mutex"]
  <2>1. CASE Write(p) \/ Fill(p) \/ SendPost(p) \/ Copy(p) \/ RecvPost(p)
    BY <1>0, <1>3, <2>1 DEF Write, Fill, SendPost, Copy, RecvPost, Goto, Paired, TypeOK
  <2>2. CASE SendWait(p) \/ RecvWait(p)
    <3>1. Usable(p)
      BY <2>2 DEF SendWait, RecvWait, dec
    <3> QED BY <1>0, <1>3, <3>1 DEF Usable, Object
  <2> QED BY <2>1, <2>2 DEF Transfer
<1> QED BY <1>0, <1>1, <1>2, <1>3 DEF Paired

LEMMA SetValTurn ==
  ASSUME TInv, TurnInv, SetVal
  PROVE  TurnInv'
<1>0. /\ TypeOK /\ \A k \in Objects : Turn(k)
      /\ Server \in Processes /\ current["mutex"] \in Objects /\ "CLIENT_WRITE" \in Semaphores
      /\ UNCHANGED <<build, current, handle>> /\ build = "systemv"
  BY ObjectTypes DEF TInv, TurnInv, SetVal, objects, Processes, Semaphores
<1>1. PICK to \in {"init", "recv"} :
        /\ pc' = [pc EXCEPT ![Server] = to] /\ pc[Server] = "init"
        /\ step = 3 => to = "recv"
  BY DEF SetVal
<1>2. to \in ServerLabels \cup ClientLabels
  BY DEF ServerLabels, ClientLabels
<1>3. \A k \in Objects, q \in Processes : Has(q, k)' => Has(q, k)
  <2>1. to \notin Holding
    BY DEF Holding
  <2> QED BY <1>0, <1>1, <1>2, <2>1, Moving
<1>4. \A k \in Objects, c \in Clients : Busy(c, k)' <=> Busy(c, k)
  BY <1>0, <1>1, <1>2, ObjectTypes, Moving
<1>5. PICK i \in Semaphores :
        /\ i = "CLIENT_WRITE" <=> step = 0
        /\ sem'[current["mutex"]][i] = (IF i = "CLIENT_WRITE" THEN 1 ELSE 0)
        /\ \A k \in Objects, j \in Semaphores :
             k # current["mutex"] \/ j # i => sem'[k][j] = sem[k][j]
  BY <1>0, Setting
<1>6. ASSUME NEW k \in Objects, k # current["mutex"] PROVE Turn(k)' /\ (Untouched(k) => Untouched(k)')
  BY <1>0, <1>3, <1>4, <1>5, <1>6 DEF Turn, Untouched
<1>7. Turn(current["mutex"])'
  <2> PICK m \in Objects : m = current["mutex"]
    BY <1>0
  <2>1. CASE step = 0
    <3>1. Untouched(m) /\ (\A c \in Clients : ~Busy(c, m)) /\ (\A q \in Processes : ~Has(q, m))
      <4>1. Untouched(m) /\ \A c \in Clients : ~Busy(c, m)
        BY <1>1, <2>1 DEF TurnInv, Fresh, Starting
      <4>2. ~Has(Server, m)
        BY <1>1 DEF Has, Holding
      <4> QED BY <4>1, <4>2, HasBusy DEF Processes
    <3>2. \A j \in Semaphores : sem'[m][j] = IF j = i THEN 1 ELSE 0
      BY <1>5, <2>1, <3>1 DEF Untouched
    <3>3. Turn(m)'
      BY <1>3, <1>4, <3>1, <3>2 DEF Turn
    <3> QED BY <1>0, <3>3
  <2>2. CASE step # 0
    <3>1. /\ sem'[m][i] = 0 /\ \A j \in Semaphores : j # i => sem'[m][j] = sem[m][j]
      BY <1>5, <2>2
    <3>2. Untouched(m) => Untouched(m)'
      BY <3>1 DEF Untouched
    <3>3. Turn(m)'
      BY <1>0, <1>3, <1>4, <3>1, <3>2 DEF Turn
    <3> QED BY <1>0, <3>3
  <2> QED BY <2>1, <2>2
<1>8. \A k \in Objects : Turn(k)'
  BY <1>0, <1>6, <1>7
<1>9. Fresh'
  <2>1. ~Starting'
    BY <1>0, <1>1, Setting DEF Starting, TypeOK
  <2>2. \A k \in Objects : k > current["mutex"] => k # current["mutex"]
    BY <1>0, ObjectTypes
  <2> QED BY <1>0, <1>6, <2>1, <2>2 DEF Fresh, TurnInv
<1>10. OwnTurn' /\ Paired'
  <2>1. pc'[Server] = to /\ \A c \in Clients : pc'[c] = pc[c]
    BY <1>0, <1>1, ObjectTypes DEF TypeOK
  <2> QED BY <1>0, <2>1 DEF OwnTurn, Paired, TurnInv
<1> QED BY <1>8, <1>9, <1>10 DEF TurnInv

LEMMA PostTurnTurn ==
  ASSUME TInv, TurnInv, PostTurn
  PROVE  TurnInv'
<1>0. /\ TypeOK /\ \A k \in Objects : Turn(k)
      /\ Server \in Processes /\ "CLIENT_WRITE" \in Semaphores
      /\ UNCHANGED <<build, current, handle, step>>
      /\ "recv" \in ServerLabels \cup ClientLabels /\ "recv" \notin Holding
      /\ pc' = [pc EXCEPT ![Server] = "recv"] /\ pc[Server] = "init"
  BY DEF TInv, TurnInv, PostTurn, Goto, objects, Processes, Semaphores, ServerLabels,
     ClientLabels, Holding
<1> PICK m \in Objects : m = current["mutex"]
  BY <1>0, ObjectTypes
<1>1. Untouched(m) /\ \A c \in Clients : ~Busy(c, m)
  BY <1>0 DEF TInv, Aligned, TurnInv, Fresh, Starting, PostTurn
<1>2. ~Has(Server, m)
  BY <1>0 DEF Has, Holding
<1>3. \A q \in Processes : ~Has(q, m)
  BY <1>1, <1>2, HasBusy DEF Processes
<1>4. \A k \in Objects, q \in Processes : Has(q, k)' => Has(q, k)
  BY <1>0, Moving
<1>5. \A k \in Objects, c \in Clients : Busy(c, k)' <=> Busy(c, k)
  BY <1>0, ObjectTypes, Moving
<1>6. /\ \A j \in Semaphores : sem'[m][j] = IF j = "CLIENT_WRITE" THEN 1 ELSE 0
      /\ \A k \in Objects, j \in Semaphores : k # m => sem'[k][j] = sem[k][j]
  <2>1. inc(Server, "CLIENT_WRITE") /\ Object(Server, "mutex") = m
    BY DEF PostTurn, Object
  <2> QED BY <1>0, <1>1, <2>1, Posting DEF Untouched
<1>7. Turn(m)'
  BY <1>1, <1>3, <1>4, <1>5, <1>6 DEF Turn
<1>8. ASSUME NEW k \in Objects, k # m PROVE Turn(k)' /\ (Untouched(k) => Untouched(k)')
  BY <1>0, <1>4, <1>5, <1>6, <1>8 DEF Turn, Untouched
<1>9. pc'[Server] = "recv" /\ \A c \in Clients : pc'[c] = pc[c]
  BY <1>0, ObjectTypes DEF TypeOK
<1>10. Fresh'
  <2>1. ~Starting'
    BY <1>9 DEF Starting
  <2>2. \A k \in Objects : k > current["mutex"] => k # m
    BY <1>0, ObjectTypes
  <2> QED BY <1>0, <1>8, <2>1, <2>2 DEF Fresh, TurnInv
<1>11. OwnTurn' /\ Paired'
  BY <1>0, <1>9 DEF OwnTurn, Paired, TurnInv
<1> QED BY <1>7, <1>8, <1>10, <1>11 DEF TurnInv

(* A server that is stopped, started or serves leaves the semaphores alone. *)
LEMMA ServerTurn ==
  ASSUME TInv, TurnInv, Serve \/ Unlink \/ FreeMemory \/ SListen \/ SStop
  PROVE  TurnInv'
<1>0. /\ TypeOK /\ \A k \in Objects : Turn(k)
      /\ Server \in Processes
      /\ UNCHANGED <<build, sem, handle>> /\ current'["mutex"] = current["mutex"]
      /\ \A c \in Clients : pc'[c] = pc[c]
      /\ pc'[Server] \in {"send", "down", "init", "close"}
  BY ObjectTypes DEF TInv, TurnInv, Serve, Unlink, FreeMemory, SListen, SStop, Goto, objects, history,
     Processes, TypeOK
<1>1. \A k \in Objects, q \in Processes : Has(q, k)' => Has(q, k)
  BY <1>0 DEF Has, Holding, Object, Processes
<1>2. \A k \in Objects, c \in Clients : Busy(c, k)' <=> Busy(c, k)
  BY <1>0 DEF Busy
<1>3. \A k \in Objects : Turn(k)'
  BY <1>0, <1>1, <1>2, KeepingTurn
<1>4. Starting' => Starting
  BY <1>0 DEF Starting, Serve, Unlink, FreeMemory, SListen, SStop, Goto, TypeOK
<1>5. Fresh'
  BY <1>0, <1>2, <1>4, ObjectTypes DEF Fresh, TurnInv, Untouched
<1>6. OwnTurn' /\ Paired'
  <2>1. pc'[Server] = "send" => pc[Server] = "serve"
    BY <1>0 DEF Serve, Unlink, FreeMemory, SListen, SStop, Goto, TypeOK
  <2> QED BY <1>0, <2>1 DEF OwnTurn, Paired, TurnInv
<1> QED BY <1>3, <1>5, <1>6 DEF TurnInv

LEMMA CloseTurn ==
  ASSUME TInv, TurnInv, CloseMutex, OneTurn'
  PROVE  TurnInv'
<1>0. /\ TypeOK /\ \A k \in Objects : Turn(k)
      /\ Server \in Processes
      /\ UNCHANGED <<build, sem, handle>>
      /\ current["mutex"] \in Objects /\ current'["mutex"] = current["mutex"] + 1
      /\ current'["mutex"] \in Objects
      /\ \A c \in Clients : pc'[c] = pc[c]
      /\ pc'[Server] \in {"free", "down"}
  <2>1. current["mutex"] \in Objects /\ current["mutex"] + 1 \in Objects
    BY ObjectTypes, TurnsAssumption DEF TInv, CloseMutex, Goto, Aligned, Objects
  <2>2. current' = [current EXCEPT !["mutex"] = current["mutex"] + 1] /\ UNCHANGED <<build, sem, handle>>
    BY DEF CloseMutex
  <2>3. current'["mutex"] = current["mutex"] + 1
    BY <2>2 DEF TInv, TypeOK, Names
  <2>4. Server \in Processes /\ \A c \in Clients : c # Server
    BY TurnsAssumption DEF Processes
  <2>5. pc'[Server] \in {"free", "down"} /\ \A c \in Clients : pc'[c] = pc[c]
    BY <2>4 DEF TInv, CloseMutex, Goto, TypeOK
  <2> QED BY <2>1, <2>2, <2>3, <2>4, <2>5 DEF TInv, TurnInv
<1>1. \A k \in Objects, q \in Processes : Has(q, k)' => Has(q, k)
  BY <1>0 DEF Has, Holding, Object, Processes
<1>2. \A k \in Objects, c \in Clients : Busy(c, k)' <=> Busy(c, k)
  BY <1>0 DEF Busy
<1>3. \A k \in Objects : Turn(k)'
  BY <1>0, <1>1, <1>2, KeepingTurn
<1>4. Fresh'
  <2>1. \A k \in Objects : k > current["mutex"] => Untouched(k)'
    BY <1>0 DEF TurnInv, Fresh, Untouched
  <2>2. \A c \in Clients : /\ handle[c].mutex <= current["mutex"] /\ handle[c].mutex \in Objects
                           /\ handle[c].memory <= current["mutex"] /\ handle[c].memory \in Objects
    BY <1>0, ObjectTypes DEF TurnInv, Fresh
  <2>3. \A c \in Clients : /\ handle[c].mutex <= current'["mutex"] /\ handle[c].mutex # current'["mutex"]
                           /\ handle[c].memory <= current'["mutex"]
    BY <1>0, <2>2, ObjectTypes
  <2>4. \A c \in Clients : ~Busy(c, current["mutex"])'
    BY <1>0, <2>3 DEF Busy
  <2>5. \A k \in Objects : k > current'["mutex"] => Untouched(k)'
    BY <1>0, <2>1, ObjectTypes
  <2>6. Untouched(current["mutex"])'
    BY <1>0, ObjectTypes DEF TurnInv, Fresh, Untouched
  <2> QED BY <1>0, <2>3, <2>4, <2>5, <2>6 DEF TurnInv, Fresh
<1>5. OwnTurn' /\ Paired'
  <2>1. build = "systemv" => \A c \in Clients : pc[c] \notin {"write", "fill", "copy"}
    BY DEF CloseMutex, OneTurn, Copying
  <2> QED BY <1>0, <2>1 DEF OwnTurn, Paired, TurnInv
<1> QED BY <1>3, <1>4, <1>5 DEF TurnInv

(* What the steps of a client outside a transfer change.                   *)
LEMMA ClientFrame ==
  ASSUME TInv, NEW c \in Clients, ClientAct(c)
  PROVE  /\ UNCHANGED <<build, current, sem, memory, step>>
         /\ pc'[c] \in {"idle", "open", "mutex", "sem2", "sem3", "sem4", "send"}
         /\ \A p \in Processes : p # c => pc'[p] = pc[p] /\ local'[p] = local[p]
         /\ \A d \in Clients : d # c => stage'[d] = stage[d] /\ handle'[d] = handle[d]
         /\ ~OpenMutex(c) => \A d \in Clients : handle'[d].mutex = handle[d].mutex
         /\ \A d \in Clients : handle'[d].memory \in {handle[d].memory, current["memory"]}
         /\ OpenMutex(c) /\ OneTurn' =>
              /\ handle'[c].memory = handle[c].memory
              /\ handle'[c].mutex = IF build = "posix" THEN handle[c].memory ELSE current["mutex"]
<1>1. c \in Processes /\ TypeOK /\ Aligned
  BY DEF Processes, TInv
<1>2. CASE GetMemory(c)
  <2>1. ~OpenMutex(c)
    BY <1>1, <1>2, Opens DEF GetMemory, Goto, TypeOK
  <2> QED BY <1>1, <1>2, <2>1, ObjectTypes DEF GetMemory, Goto, objects, history, TypeOK
<1>3. CASE OpenMutex(c)
  <2>1. PICK j \in 1 .. 4 :
          /\ pc' = [pc EXCEPT ![c] = pc'[c]] /\ pc'[c] \in {"sem2", "sem3", "sem4", "send"}
          /\ handle' = [handle EXCEPT ![c].mutex = Behind(j)]
          /\ handle'[c].mutex = Behind(j) /\ \A d \in Clients : handle'[d].memory = handle[d].memory
          /\ harm' = IF build = "posix" /\ handle[c].memory # Behind(j) THEN "doubled" ELSE harm
          /\ UNCHANGED <<objects, sem, memory, step, local, stage, got>>
          /\ build = "systemv" => Behind(j) = current["mutex"]
    BY <1>1, <1>3, Opens
  <2>2. /\ UNCHANGED <<build, current, sem, memory, step>>
        /\ pc'[c] \in {"idle", "open", "mutex", "sem2", "sem3", "sem4", "send"}
        /\ \A p \in Processes : p # c => pc'[p] = pc[p] /\ local'[p] = local[p]
    BY <1>1, <2>1 DEF objects, TypeOK
  <2>3. \A d \in Clients : d # c => stage'[d] = stage[d] /\ handle'[d] = handle[d]
    BY <2>1
  <2>4. OneTurn' => handle'[c].mutex = IF build = "posix" THEN handle[c].memory ELSE current["mutex"]
    BY <1>1, <2>1 DEF OneTurn, TypeOK
  <2> QED BY <1>3, <2>1, <2>2, <2>3, <2>4
<1>4. CASE Connect(c)
  <2>1. ~OpenMutex(c)
    BY <1>1, <1>4, Opens DEF Connect, Goto, TypeOK
  <2> QED BY <1>1, <1>4, <2>1, ObjectTypes DEF Connect, Goto, objects, TypeOK
<1>5. CASE Handle(c) \/ Fail(c) \/ Die(c)
  <2>1. CEnd(c)
    BY <1>5 DEF Handle, Fail, Die
  <2>2. ~OpenMutex(c)
    BY <1>1, <2>1, Opens DEF CEnd, TypeOK
  <2> QED BY <1>1, <2>1, <2>2 DEF CEnd, objects, TypeOK
<1> QED BY <1>2, <1>3, <1>4, <1>5 DEF ClientAct

LEMMA ClientBusy ==
  ASSUME TInv, NEW c \in Clients, ClientAct(c)
  PROVE  /\ \A k \in Objects : ~Busy(c, k)'
         /\ \A k \in Objects, d \in Clients : Busy(d, k)' => Busy(d, k) /\ pc'[d] = pc[d] /\ d # c
         /\ \A k \in Objects, q \in Processes : Has(q, k)' => Has(q, k)
<1>1. c # Server /\ Server \in Processes /\ \A d \in Clients : d \in Processes /\ d # Server
  BY TurnsAssumption DEF Processes
<1>2. \A k \in Objects : ~Busy(c, k)' /\ ~Has(c, k)'
  BY ClientFrame DEF Busy, Has, InCall, Holding
<1>3. \A k \in Objects, d \in Clients : d # c => (Busy(d, k)' <=> Busy(d, k)) /\ pc'[d] = pc[d]
  BY <1>1, ClientFrame DEF Busy
<1>4. \A k \in Objects, q \in Processes : q # c => (Has(q, k)' <=> Has(q, k))
  BY <1>1, ClientFrame DEF Has, Object, Processes
<1> QED BY <1>2, <1>3, <1>4

(* A call that dies on the present semaphores may take their turn along.   *)
LEMMA ClientHarm ==
  ASSUME TInv, NEW c \in Clients, ClientAct(c), harm' = "none"
  PROVE  harm = "none" /\ ~Busy(c, current["mutex"])
<1>1. CASE Die(c)
  BY <1>1 DEF Die, Lost, HasTurn, Busy, InCall, Holding
<1>2. CASE Fail(c)
  BY <1>2, TurnsAssumption DEF Fail, Usable, Object, Busy, Processes
<1>3. CASE OpenMutex(c)
  BY <1>3, Opens DEF TInv, Busy, InCall, Holding
<1>4. CASE Connect(c) \/ GetMemory(c) \/ Handle(c)
  BY <1>4 DEF Connect, GetMemory, Handle, history, Goto, Busy, InCall, Holding
<1> QED BY <1>1, <1>2, <1>3, <1>4 DEF ClientAct

LEMMA ClientTurn ==
  ASSUME TInv, TurnInv, OneTurn', NEW c \in Clients, ClientAct(c)
  PROVE  TurnInv'
<1>0. /\ TypeOK /\ \A k \in Objects : Turn(k)
      /\ c # Server /\ Server \in Processes /\ current["mutex"] \in Objects
      /\ UNCHANGED <<build, current, sem, step>> /\ pc'[Server] = pc[Server]
  BY TurnsAssumption, ClientFrame, ObjectTypes DEF TInv, TurnInv, Processes
<1>1. \A k \in Objects : Turn(k)'
  BY <1>0, ClientBusy, KeepingTurn
<1>2. Fresh'
  <2>1. \A d \in Clients : handle'[d].mutex <= current["mutex"]
    <3>1. CASE OpenMutex(c)
      BY <1>0, <3>1, ClientFrame, ObjectTypes DEF TurnInv, Fresh
    <3>2. CASE ~OpenMutex(c)
      BY <1>0, <3>2, ClientFrame DEF TurnInv, Fresh
    <3> QED BY <3>1, <3>2
  <2>3. \A d \in Clients : handle'[d].memory <= current["mutex"]
    <3>1. current["memory"] <= current["mutex"]
      BY <1>0, ObjectTypes DEF TInv, Aligned, TypeOK
    <3> QED BY <1>0, <3>1, ClientFrame DEF TurnInv, Fresh
  <2>2. \A d \in Clients : Busy(d, current["mutex"])' => Busy(d, current["mutex"])
    BY <1>0, ClientBusy
  <2> QED BY <1>0, <2>1, <2>2, <2>3 DEF TurnInv, Fresh, Starting, Untouched
<1>3. OwnTurn'
  BY <1>0 DEF TurnInv, OwnTurn
<1>4. Paired'
  <2>1. ASSUME build = "posix", pc'[c] = "send" PROVE handle'[c].memory = handle'[c].mutex
    <3>1. OpenMutex(c)
      BY <1>0, <2>1 DEF ClientAct, Connect, GetMemory, Handle, Fail, Die, CEnd, Goto, TypeOK,
         Processes
    <3> QED BY <2>1, <3>1, ClientFrame
  <2>2. pc'[c] \notin InCall
    BY <1>0, ClientFrame DEF InCall, Holding
  <2>3. \A d \in Clients : d # c => pc'[d] = pc[d] /\ handle'[d] = handle[d]
    BY <1>0, ClientFrame DEF Processes
  <2> QED BY <1>0, <2>1, <2>2, <2>3 DEF TurnInv, Paired, InCall, Holding
<1> QED BY <1>1, <1>2, <1>3, <1>4 DEF TurnInv

LEMMA TurnNext ==
  ASSUME TInv, TurnInv, [Next]_vars, OneTurn'
  PROVE  TurnInv'
<1>1. CASE UNCHANGED vars
  BY <1>1 DEF vars, TurnInv, Turn, Has, Busy, Object, Untouched, Fresh, Starting, OwnTurn, Paired
<1>2. ASSUME NEW p \in Processes, Transfer(p) PROVE TurnInv'
  BY <1>2, TurnTransfer, FreshTransfer, OwnTurnTransfer, PairedTransfer DEF TurnInv
<1>3. CASE ServerAct
  <2>1. ~SKill
    BY DEF SKill, OneTurn
  <2> QED BY <1>3, <2>1, SetValTurn, PostTurnTurn, ServerTurn, CloseTurn DEF ServerAct
<1> QED BY <1>1, <1>2, <1>3, StepCases, ClientTurn
-----------------------------------------------------------------------------
LEMMA StagesNext ==
  ASSUME TInv, Stages, OneTurn => Working, [Next]_vars
  PROVE  Stages'
<1>0. TypeOK /\ \A c \in Clients : c # Server /\ c \in Processes
  BY TurnsAssumption DEF TInv, Processes
<1>1. CASE UNCHANGED vars
  BY <1>1 DEF vars, Stages
<1>2. ASSUME NEW p \in Processes, Transfer(p) PROVE Stages'
  <2>1. pc[p] # "idle" /\ pc'[p] # "idle" /\ stage' = stage
    BY <1>0, <1>2, TransferFrame DEF InCall, Holding
  <2>2. \A q \in Processes : q # p => pc'[q] = pc[q]
    BY <1>0, <1>2, TransferFrame DEF TypeOK
  <2> QED BY <1>0, <2>1, <2>2 DEF Stages
<1>3. CASE OneTurn /\ ServerAct
  <2>1. \A c \in Clients : pc'[c] = pc[c]
    BY <1>0, <1>3 DEF ServerAct, SetVal, PostTurn, Serve, Unlink, CloseMutex, FreeMemory, SListen,
       SStop, SKill, Goto, TypeOK
  <2>2. CASE Serve
    BY <1>0, <1>3, <2>1, <2>2, ServeOnce DEF Stages, TypeOK
  <2>3. CASE ~Serve
    <3>1. stage' = stage
      BY <1>3, <2>3 DEF ServerAct, SetVal, PostTurn, Unlink, CloseMutex, FreeMemory, SListen, SStop,
         SKill, history
    <3> QED BY <2>1, <3>1 DEF Stages
  <2> QED BY <2>2, <2>3
<1>4. ASSUME NEW c \in Clients, ClientAct(c) PROVE Stages'
  <2>1. stage'[c] = "idle" <=> pc'[c] = "idle"
    <3>1. CASE OpenMutex(c)
      BY <1>0, <3>1, Opens DEF TInv, Stages
    <3>2. CASE ~OpenMutex(c)
      BY <1>0, <1>4, <3>2 DEF ClientAct, Connect, GetMemory, Handle, Fail, Die, CEnd, Goto,
         history, TypeOK, Stages
    <3> QED BY <3>1, <3>2
  <2>2. \A d \in Clients : d # c => stage'[d] = stage[d] /\ pc'[d] = pc[d]
    BY <1>0, <1>4, ClientFrame
  <2> QED BY <2>1, <2>2 DEF Stages
<1> QED BY <1>1, <1>2, <1>3, <1>4, StepCases

(* Who makes a transfer does it on living semaphores and on the segment    *)
(* that goes with them, and no other.                                      *)
LEMMA TransferLive ==
  ASSUME TInv, TurnInv, NEW p \in Processes, Transfer(p)
  PROVE  /\ Live(Object(p, "mutex")) /\ Object(p, "memory") = Seg(Object(p, "mutex"))
         /\ \A k \in Objects : Live(k) /\ k # Object(p, "mutex") => Seg(k) # Object(p, "memory")
         /\ \A k \in Objects : Live(k)' <=> Live(k)
<1>0. /\ TypeOK /\ Aligned /\ Paired
      /\ pc[p] \in InCall \cup {"send"} /\ UNCHANGED <<build, current>>
      /\ build \in {"systemv", "posix"}
  BY TransferFrame DEF TInv, TurnInv, TypeOK
<1>1. Object(p, "memory") = Seg(Object(p, "mutex"))
  BY <1>0 DEF Object, Seg, Aligned, Paired, Processes, InCall, Holding
<1>2. Live(Object(p, "mutex"))
  <2>1. CASE p = Server
    BY <2>1 DEF Live, Object
  <2>2. CASE p \in Clients /\ (Write(p) \/ Fill(p) \/ Copy(p))
    BY <1>0, <2>2, TurnsAssumption DEF Write, Fill, Copy, Goto, Paired, Live, Object
  <2>3. CASE SendWait(p) \/ SendPost(p) \/ RecvWait(p) \/ RecvPost(p)
    <3>1. Usable(p)
      BY <2>3 DEF SendWait, SendPost, RecvWait, RecvPost, dec, inc
    <3> QED BY <3>1 DEF Usable, Live
  <2> QED BY <2>1, <2>2, <2>3 DEF Transfer, Processes
<1>3. \A k \in Objects : Live(k) /\ k # Object(p, "mutex") => Seg(k) # Object(p, "memory")
  BY <1>0, <1>1, <1>2 DEF Live, Seg
<1> QED BY <1>0, <1>1, <1>2, <1>3 DEF Live

LEMMA TransferMemory ==
  ASSUME TypeOK, NEW p \in Processes, Transfer(p)
  PROVE  /\ \A k \in Objects : k # Object(p, "memory") => memory'[k] = memory[k]
         /\ ~Write(p) /\ ~Fill(p) => memory' = memory
         /\ \A q \in Processes : q # p => local'[q] = local[q]
         /\ ~Copy(p) => local' = local
BY DEF Transfer, SendWait, Write, Fill, SendPost, RecvWait, Copy, RecvPost, TypeOK

(* Who is where in its call, after a transfer of p.                        *)
LEMMA TransferBusy ==
  ASSUME TypeOK, NEW p \in Processes, Transfer(p)
  PROVE  /\ \A k \in Objects, c \in Clients :
              c # p => (Busy(c, k)' <=> Busy(c, k)) /\ pc'[c] = pc[c]
         /\ p \in Clients => \A k \in Objects :
              Busy(p, k)' <=> pc'[p] \in InCall /\ Object(p, "mutex") = k
         /\ \A k \in Objects : k # Object(p, "mutex") => (Has(Server, k)' <=> Has(Server, k))
         /\ p # Server => pc'[Server] = pc[Server]
<1>1. PICK to \in ServerLabels \cup ClientLabels : pc' = [pc EXCEPT ![p] = to]
  BY TransferFrame DEF InCall, Holding, ServerLabels, ClientLabels
<1>2. UNCHANGED <<current, handle>>
  BY TransferFrame
<1> QED BY <1>1, <1>2, Moving DEF Has, Processes, TypeOK

(* A transfer touches nothing of the other living semaphores.              *)
LEMMA Elsewhere ==
  ASSUME TInv, TurnInv, NEW p \in Processes, Transfer(p), NEW k \in Objects,
         k # Object(p, "mutex"), Live(k), Asking(k), Answering(k)
  PROVE  Asking(k)' /\ Answering(k)'
<1>0. /\ TypeOK /\ UNCHANGED <<build, current, stage, harm>> /\ Object(p, "mutex") \in Objects
      /\ {"SERVER_READ", "CLIENT_READ"} \subseteq Semaphores
      /\ \A j \in Semaphores : sem'[k][j] = sem[k][j]
  BY TransferFrame, ObjectTypes DEF TInv, Semaphores
<1>1. Seg(k)' = Seg(k) /\ memory'[Seg(k)] = memory[Seg(k)]
  <2>1. Seg(k) \in Objects
    BY <1>0, ObjectTypes DEF Seg
  <2> QED BY <1>0, <2>1, TransferLive, TransferMemory DEF Seg
<1>2. \A c \in Clients : (Busy(c, k)' <=> Busy(c, k)) /\ (Busy(c, k) => pc'[c] = pc[c])
  <2>1. p \in Clients => ~Busy(p, k) /\ ~Busy(p, k)'
    BY <1>0, TransferBusy, TurnsAssumption DEF Busy, Object
  <2> QED BY <1>0, <2>1, TransferBusy
<1>3. Has(Server, k)' => Has(Server, k) /\ pc'[Server] = pc[Server]
  <2>1. p = Server => ~Has(Server, k)
    BY DEF Has
  <2> QED BY <1>0, <2>1, TransferBusy
<1>4. \A c \in Clients : Waits(c, k) => Waits(c, k)'
  BY <1>0, <1>2 DEF Waits, Alive
<1>5. (Served(k) => Served(k)') /\ (Asked(k) => Asked(k)')
  BY <1>0, <1>2 DEF Served, Asked
<1>6. Asking(k)'
  BY <1>0, <1>1, <1>2, <1>3, <1>4, <1>5 DEF Asking
<1>7. Answering(k)'
  BY <1>0, <1>1, <1>2, <1>3, <1>4, <1>5 DEF Answering
<1> QED BY <1>6, <1>7

(* While a client makes a transfer no other client is in a call on the     *)
(* same semaphores, and the server waits.                                  *)
LEMMA ClientAlone ==
  ASSUME TInv, TurnInv, NEW p \in Clients, Transfer(p)
  PROVE  /\ \A c \in Clients : c # p => ~Busy(c, Object(p, "mutex"))
         /\ pc[Server] \in {"copy", "rpost", "serve", "send", "write", "fill", "spost"}
              => Object(p, "mutex") # current["mutex"]
<1> PICK m \in Objects : m = Object(p, "mutex")
  BY ObjectTypes DEF TInv, Processes
<1>0. /\ TypeOK /\ Turn(m) /\ p \in Processes /\ p # Server /\ Server \in Processes
      /\ {"CLIENT_WRITE", "SERVER_READ", "CLIENT_READ", "SERVER_WRITE"} \subseteq Semaphores
  BY TurnsAssumption DEF TInv, TurnInv, Processes, Semaphores
<1>1. \/ Has(p, m)
      \/ \E i \in {"CLIENT_WRITE", "CLIENT_READ"} :
           sem[m][i] = 1 /\ (Busy(p, m) \/ i = "CLIENT_WRITE")
  <2>1. CASE SendWait(p)
    <3>1. dec(p, "CLIENT_WRITE")
      BY <1>0, <2>1 DEF SendWait
    <3> QED BY <1>0, <3>1, Waiting DEF Turn
  <2>2. CASE RecvWait(p)
    <3>1. dec(p, "CLIENT_READ")
      BY <1>0, <2>2 DEF RecvWait
    <3>2. Busy(p, m)
      BY <1>0, <2>2 DEF RecvWait, Goto, Busy, InCall, Object
    <3> QED BY <1>0, <3>1, <3>2, Waiting DEF Turn
  <2>3. CASE Write(p) \/ Fill(p) \/ SendPost(p) \/ Copy(p) \/ RecvPost(p)
    BY <2>3 DEF Write, Fill, SendPost, Copy, RecvPost, Goto, Has, Holding
  <2> QED BY <2>1, <2>2, <2>3 DEF Transfer
<1>2. \A c \in Clients : c # p => ~Busy(c, m)
  BY <1>0, <1>1, HasBusy DEF Turn
<1>3. ASSUME pc[Server] \in {"copy", "rpost", "serve", "send", "write", "fill", "spost"},
             m = current["mutex"]
      PROVE  FALSE
  <2>1. CASE pc[Server] \in {"serve", "send"}
    <3>1. sem[m]["SERVER_WRITE"] = 1
      BY <1>3, <2>1 DEF TurnInv, OwnTurn
    <3>2. ~Has(p, m)
      BY <1>0, <3>1 DEF Turn, Untouched
    <3> QED BY <1>0, <1>1, <3>1, <3>2 DEF Turn
  <2>2. CASE pc[Server] \notin {"serve", "send"}
    <3>1. Has(Server, m)
      BY <1>3, <2>2 DEF Has, Holding, Object
    <3> QED BY <1>0, <1>1, <3>1 DEF Turn, Untouched
  <2> QED BY <2>1, <2>2
<1> QED BY <1>2, <1>3

LEMMA ClientTransfer ==
  ASSUME TInv, TurnInv, Stages, CallInv, NEW p \in Clients, Transfer(p)
  PROVE  CallInv'
<1> PICK m \in Objects : m = Object(p, "mutex")
  BY ObjectTypes DEF TInv, Processes
<1>0. /\ TypeOK /\ Turn(m) /\ p \in Processes /\ p # Server /\ Server \in Processes
      /\ {"CLIENT_WRITE", "SERVER_READ", "CLIENT_READ", "SERVER_WRITE"} \subseteq Semaphores
      /\ UNCHANGED <<build, current, stage, harm>> /\ pc'[Server] = pc[Server]
      /\ Live(m) /\ Asking(m) /\ Answering(m) /\ Working /\ Answered /\ Unsent
      /\ local'[Server] = local[Server]
  BY TurnsAssumption, TransferFrame, TransferBusy, TransferLive, TransferMemory
     DEF TInv, TurnInv, CallInv, Processes, Semaphores
<1>1. \A k \in Objects : Live(k)' /\ k # m => Asking(k)' /\ Answering(k)'
  BY <1>0, TransferLive, Elsewhere DEF CallInv
<1>2. \A c \in Clients : c # p => ~Busy(c, m)' /\ pc'[c] = pc[c] /\ local'[c] = local[c]
  BY <1>0, ClientAlone, TransferBusy, TransferMemory DEF Processes
<1>3. \A i \in Semaphores :
        sem'[m][i] = 1 => \/ i = "SERVER_READ" /\ SendPost(p)
                          \/ i = "CLIENT_WRITE" /\ RecvPost(p)
  <2>1. CASE SendWait(p) \/ RecvWait(p)
    <3>1. PICK i \in Semaphores : dec(p, i)
      BY <1>0, <2>1 DEF SendWait, RecvWait
    <3> QED BY <1>0, <3>1, Waiting DEF Turn
  <2>2. CASE Write(p) \/ Fill(p) \/ Copy(p)
    <3>1. Has(p, m) /\ sem' = sem
      BY <2>2 DEF Write, Fill, Copy, Goto, Has, Holding
    <3> QED BY <1>0, <3>1 DEF Turn, Untouched
  <2>3. CASE SendPost(p) \/ RecvPost(p)
    <3>1. PICK i \in Semaphores : /\ inc(p, i)
                                  /\ \/ i = "SERVER_READ" /\ SendPost(p)
                                     \/ i = "CLIENT_WRITE" /\ RecvPost(p)
      BY <1>0, <2>3 DEF SendPost, RecvPost
    <3>2. Has(p, m)
      BY <2>3 DEF SendPost, RecvPost, Goto, Has, Holding
    <3> QED BY <1>0, <3>1, <3>2, Posting DEF Turn, Untouched
  <2> QED BY <2>1, <2>2, <2>3 DEF Transfer
<1>4. ~(Has(Server, m)' /\ pc'[Server] \in {"copy", "spost"})
  BY <1>0, ClientAlone, TransferFrame DEF Has, Object
<1>5. Asking(m)'
  <2>1. ASSUME Busy(p, m)', pc'[p] = "spost" PROVE memory'[Seg(m)] = Req(p)
    <3>1. Fill(p)
      BY <1>0, <2>1 DEF Transfer, SendWait, Write, SendPost, RecvWait, Copy, RecvPost, Goto,
         TypeOK
    <3>2. Seg(m) = Object(p, "memory") /\ Seg(m) \in Objects
      BY <1>0, TransferLive, ObjectTypes
    <3> QED BY <1>0, <3>1, <3>2 DEF Fill, Message, TypeOK
  <2>2. ASSUME sem'[m]["SERVER_READ"] = 1 PROVE memory'[Seg(m)] = Req(p) /\ Waits(p, m)' /\ Asked(m)'
    <3>1. SendPost(p)
      BY <1>0, <1>3, <2>2
    <3>2. memory' = memory /\ pc'[p] = "recv"
      BY <1>0, <3>1 DEF SendPost, Goto, TypeOK
    <3>3. Busy(p, m) /\ pc[p] = "spost"
      BY <1>0, <3>1 DEF SendPost, Goto, Busy, InCall, Holding, Object
    <3>4. Busy(p, m)'
      BY <1>0, <3>2, TransferBusy DEF InCall
    <3>5. stage[p] = "asked"
      BY <1>0, <3>3 DEF Unsent
    <3> QED BY <1>0, <1>2, <3>2, <3>3, <3>4, <3>5 DEF Asking, Waits, Alive, Asked
  <2>3. Seg(m)' = Seg(m)
    BY <1>0 DEF Seg
  <2> QED BY <1>2, <1>4, <2>1, <2>2, <2>3 DEF Asking
<1>6. pc'[p] = "copy" => memory'[Seg(m)] = Res(p) /\ stage[p] = "served"
  <2> SUFFICES ASSUME pc'[p] = "copy" PROVE memory'[Seg(m)] = Res(p) /\ stage[p] = "served"
    OBVIOUS
  <2>1. RecvWait(p)
    BY <1>0 DEF Transfer, SendWait, Write, SendPost, Fill, Copy, RecvPost, Goto, TypeOK
  <2>2. dec(p, "CLIENT_READ") /\ memory' = memory /\ Busy(p, m)
    BY <1>0, <2>1 DEF RecvWait, Goto, Busy, InCall, Object
  <2>3. sem[m]["CLIENT_READ"] = 1
    BY <1>0, <2>2, Waiting DEF Turn
  <2> QED BY <1>0, <2>2, <2>3 DEF Answering, Waits, Served
<1>7. Answering(m)'
  <2>1. Seg(m)' = Seg(m)
    BY <1>0 DEF Seg
  <2> QED BY <1>0, <1>2, <1>3, <1>4, <1>6, <2>1 DEF Answering
<1>8. pc[Server] \in {"rpost", "serve", "send", "write", "fill"} =>
        \A c \in Clients : Busy(c, current["mutex"])' => Busy(c, current["mutex"]) /\ pc'[c] = pc[c]
  <2> SUFFICES ASSUME pc[Server] \in {"rpost", "serve", "send", "write", "fill"},
                      NEW c \in Clients, Busy(c, current["mutex"])'
               PROVE  Busy(c, current["mutex"]) /\ pc'[c] = pc[c]
    OBVIOUS
  <2>1. m # current["mutex"] /\ current["mutex"] \in Objects /\ UNCHANGED current
    BY <1>0, ClientAlone, ObjectTypes
  <2>2. c # p
    BY <1>0, <2>1, TransferBusy, TransferFrame
  <2> QED BY <1>0, <2>1, <2>2, TransferBusy
<1>9. Working'
  <2>1. pc[Server] \in {"rpost", "serve", "send", "write", "fill"} =>
          \A c \in Clients : Busy(c, current["mutex"]) => Busy(c, current["mutex"])'
    <3> SUFFICES ASSUME pc[Server] \in {"rpost", "serve", "send", "write", "fill"},
                        NEW c \in Clients, Busy(c, current["mutex"])
                 PROVE  Busy(c, current["mutex"])'
      OBVIOUS
    <3>1. m # current["mutex"] /\ current["mutex"] \in Objects /\ UNCHANGED current
      BY <1>0, ClientAlone, ObjectTypes
    <3>2. c # p
      BY <1>0, <3>1 DEF Busy, Object
    <3> QED BY <1>0, <3>1, <3>2, TransferBusy
  <2> QED BY <1>0, <1>8, <2>1 DEF Working, Waits, Alive, Asked
<1>11. Unsent'
  <2>1. pc'[p] \in {"write", "fill", "spost"} => stage[p] = "asked"
    BY <1>0 DEF Transfer, SendWait, Write, Fill, SendPost, RecvWait, Copy, RecvPost, Goto, TypeOK,
       Unsent
  <2>2. pc'[p] \notin {"open", "mutex", "sem2", "sem3", "sem4", "send"}
    BY <1>0, TransferFrame DEF InCall, Holding
  <2> QED BY <1>0, <1>2, <2>1, <2>2 DEF Unsent
<1>10. Answered'
  <2>1. ASSUME pc'[p] \in {"copy", "rpost", "handle"}
        PROVE  stage[p] = "served" /\ (pc'[p] # "copy" => local'[p] = Res(p))
    <3>1. CASE pc'[p] = "copy"
      BY <1>6, <3>1
    <3>2. CASE pc'[p] = "rpost"
      <4>1. Copy(p)
        BY <1>0, <3>2 DEF Transfer, SendWait, Write, SendPost, RecvWait, Fill, RecvPost, Goto,
           TypeOK
      <4>2. Busy(p, m) /\ pc[p] = "copy"
        BY <1>0, <4>1 DEF Copy, Goto, Busy, InCall, Holding, Object
      <4>3. memory[Object(p, "memory")] = Res(p)
        BY <1>0, <4>2, TransferLive DEF Answering
      <4>4. local'[p] = memory[Object(p, "memory")]
        BY <1>0, <4>1 DEF Copy, TypeOK
      <4> QED BY <1>0, <4>2, <4>3, <4>4 DEF Answered
    <3>3. CASE pc'[p] = "handle"
      <4>1. RecvPost(p)
        BY <1>0, <3>3 DEF Transfer, SendWait, Write, SendPost, RecvWait, Fill, Copy, Goto, TypeOK
      <4> QED BY <1>0, <4>1 DEF RecvPost, Goto, Answered
    <3> QED BY <2>1, <3>1, <3>2, <3>3
  <2>2. pc'[Server] \in {"send", "write", "fill"} => Served(current["mutex"])'
    BY <1>0, <1>8 DEF Answered, Served
  <2> QED BY <1>0, <1>2, <2>1, <2>2 DEF Answered
<1> QED BY <1>0, <1>1, <1>5, <1>7, <1>9, <1>10, <1>11 DEF CallInv

LEMMA ServerTransfer ==
  ASSUME TInv, TurnInv, Stages, CallInv, Transfer(Server)
  PROVE  CallInv'
<1> PICK m \in Objects : m = current["mutex"]
  BY ObjectTypes DEF TInv
<1>0. /\ TypeOK /\ Turn(m) /\ Server \in Processes /\ Object(Server, "mutex") = m
      /\ {"CLIENT_WRITE", "SERVER_READ", "CLIENT_READ", "SERVER_WRITE"} \subseteq Semaphores
      /\ UNCHANGED <<build, current, stage, handle, harm>>
      /\ Live(m) /\ Asking(m) /\ Answering(m) /\ Working /\ Answered /\ Unsent
      /\ \A c \in Clients : c # Server
  BY TurnsAssumption, TransferFrame, TransferLive DEF TInv, TurnInv, CallInv, Processes,
     Semaphores, Object
<1>1. \A k \in Objects : Live(k)' /\ k # m => Asking(k)' /\ Answering(k)'
  BY <1>0, TransferLive, Elsewhere DEF CallInv
<1>2. \A c \in Clients : (Busy(c, m)' <=> Busy(c, m)) /\ pc'[c] = pc[c] /\ local'[c] = local[c]
  BY <1>0, TransferBusy, TransferMemory DEF Processes
<1>3. /\ \A c \in Clients : Waits(c, m)' <=> Waits(c, m)
      /\ (Served(m)' <=> Served(m)) /\ (Asked(m)' <=> Asked(m))
      /\ Unsent'
  BY <1>0, <1>2 DEF Waits, Alive, Served, Asked, Unsent
<1>4. Seg(m)' = Seg(m) /\ Seg(m) = Object(Server, "memory") /\ Seg(m) \in Objects
  BY <1>0, TransferLive, ObjectTypes DEF Seg
<1>5. Has(Server, m) => \A c \in Clients : ~Has(c, m)
  BY <1>0 DEF Turn, Processes
<1>6. \A c \in Clients : Busy(c, m) /\ pc[c] \in {"spost", "copy"} => Has(c, m)
  BY <1>0 DEF Busy, Has, Holding, Object
<1>7. pc[Server] \in Holding => Has(Server, m)
  BY <1>0 DEF Has
<1>8. \A c \in Clients : pc'[c] \in {"copy", "rpost", "handle"}
        => stage'[c] = "served" /\ (pc'[c] # "copy" => local'[c] = Res(c))
  BY <1>0, <1>2 DEF Answered
<1>9. CASE Write(Server) \/ Fill(Server)
  <2>1. Has(Server, m) /\ sem' = sem
    BY <1>7, <1>9 DEF Write, Fill, Goto, Holding
  <2>2. \A j \in Semaphores : sem'[m][j] = 0
    BY <1>0, <2>1 DEF Turn, Untouched
  <2>3. \A c \in Clients : ~(Busy(c, m) /\ pc[c] \in {"spost", "copy"})
    BY <1>5, <1>6, <2>1
  <2>4. PICK c \in Clients : local[Server] = Req(c) /\ Waits(c, m)
    BY <1>0, <1>9 DEF Write, Fill, Goto, Working
  <2>5. Served(m) /\ local' = local
    BY <1>0, <1>9 DEF Write, Fill, Goto, Answered
  <2>6. pc'[Server] = "fill" \/ (pc'[Server] = "spost" /\ memory'[Seg(m)] = Res(c))
    <3>1. CASE Write(Server)
      BY <1>0, <3>1 DEF Write, Goto, TypeOK
    <3>2. CASE Fill(Server)
      BY <1>0, <1>4, <2>4, <3>2, ContentTypes DEF Fill, Message, Goto, TypeOK
    <3> QED BY <1>9, <3>1, <3>2
  <2>7. Asking(m)'
    BY <1>0, <1>2, <2>2, <2>3, <2>6 DEF Asking
  <2>8. Answering(m)'
    BY <1>0, <1>2, <1>3, <1>4, <2>2, <2>3, <2>4, <2>5, <2>6 DEF Answering
  <2>9. Working' /\ Answered'
    BY <1>0, <1>3, <1>8, <2>4, <2>5, <2>6 DEF Working, Answered
  <2> QED BY <1>0, <1>1, <1>3, <2>7, <2>8, <2>9 DEF CallInv
<1>10. CASE \/ SendWait(Server) \/ SendPost(Server) \/ RecvWait(Server) \/ Copy(Server) \/ RecvPost(Server)
  <2>1. memory' = memory
    BY <1>10 DEF SendWait, SendPost, RecvWait, Copy, RecvPost
  <2>2. /\ (sem'[m]["SERVER_READ"] = 1 \/ pc'[Server] = "copy") => sem[m]["SERVER_READ"] = 1
        /\ (sem'[m]["CLIENT_READ"] = 1 \/ pc'[Server] = "spost")
              => (sem[m]["CLIENT_READ"] = 1 \/ pc[Server] = "spost")
    <3>1. CASE SendWait(Server) \/ RecvWait(Server)
      <4>1. PICK i \in Semaphores : dec(Server, i) /\ (pc'[Server] = "copy" => i = "SERVER_READ")
        BY <1>0, <3>1 DEF SendWait, RecvWait, Goto, TypeOK
      <4>2. sem[m][i] = 1 /\ \A j \in Semaphores : sem'[m][j] = 0
        BY <1>0, <4>1, Waiting DEF Turn
      <4>3. pc'[Server] # "spost"
        BY <1>0, <3>1 DEF SendWait, RecvWait, Goto, TypeOK
      <4> QED BY <1>0, <4>1, <4>2, <4>3
    <3>2. CASE SendPost(Server)
      <4>1. inc(Server, "CLIENT_READ") /\ pc[Server] = "spost" /\ pc'[Server] = "recv"
        BY <1>0, <3>2 DEF SendPost, Goto, TypeOK
      <4>2. sem'[m]["SERVER_READ"] = sem[m]["SERVER_READ"]
        BY <1>0, <4>1, Posting
      <4> QED BY <4>1, <4>2
    <3>3. CASE RecvPost(Server)
      <4>1. inc(Server, "SERVER_WRITE") /\ pc'[Server] = "serve"
        BY <1>0, <3>3 DEF RecvPost, Goto, TypeOK
      <4>2. sem'[m]["SERVER_READ"] = sem[m]["SERVER_READ"] /\ sem'[m]["CLIENT_READ"] = sem[m]["CLIENT_READ"]
        BY <1>0, <4>1, Posting
      <4> QED BY <4>1, <4>2
    <3>4. CASE Copy(Server)
      BY <1>0, <3>4 DEF Copy, Goto, TypeOK
    <3> QED BY <1>10, <3>1, <3>2, <3>3, <3>4
  <2>3. Asking(m)'
    <3>1. \A c \in Clients : Busy(c, m)' /\ pc'[c] = "spost" => memory'[Seg(m)] = Req(c)
      BY <1>0, <1>2, <2>1 DEF Asking
    <3>2. ASSUME sem'[m]["SERVER_READ"] = 1 \/ pc'[Server] = "copy"
          PROVE  (\E c \in Clients : memory'[Seg(m)] = Req(c) /\ Waits(c, m)') /\ Asked(m)'
      <4>1. PICK c \in Clients : memory[Seg(m)] = Req(c) /\ Waits(c, m) /\ Asked(m)
        <5>1. sem[m]["SERVER_READ"] = 1
          BY <2>2, <3>2
        <5>2. Asking(m)
          BY <1>0
        <5> QED BY <5>1, <5>2 DEF Asking
      <4>2. Waits(c, m)' /\ memory'[Seg(m)] = Req(c) /\ Asked(m)'
        BY <1>3, <2>1, <4>1
      <4> QED BY <4>2
    <3> QED BY <1>4, <3>1, <3>2 DEF Asking
  <2>4. Answering(m)'
    <3>1. pc[Server] = "spost" => Has(Server, m)
      BY <1>7 DEF Holding
    <3>2. \A c \in Clients : Busy(c, m)' /\ pc'[c] = "copy" => memory'[Seg(m)] = Res(c)
      BY <1>0, <1>2, <2>1 DEF Answering
    <3>3. ASSUME sem'[m]["CLIENT_READ"] = 1 \/ pc'[Server] = "spost"
          PROVE  (\E c \in Clients : memory'[Seg(m)] = Res(c) /\ Waits(c, m)') /\ Served(m)'
      <4>1. PICK c \in Clients : memory[Seg(m)] = Res(c) /\ Waits(c, m) /\ Served(m)
        <5>1. sem[m]["CLIENT_READ"] = 1 \/ (Has(Server, m) /\ pc[Server] = "spost")
          BY <2>2, <3>1, <3>3
        <5>2. Answering(m)
          BY <1>0
        <5> QED BY <5>1, <5>2 DEF Answering
      <4>2. Waits(c, m)' /\ Served(m)' /\ memory'[Seg(m)] = Res(c)
        BY <1>3, <2>1, <4>1
      <4> QED BY <4>2
    <3> QED BY <1>4, <3>2, <3>3 DEF Answering
  <2>5. Working' /\ Answered'
    <3>1. CASE Copy(Server)
      <4>1. pc[Server] = "copy" /\ pc'[Server] = "rpost" /\ local'[Server] = memory[Seg(m)]
        BY <1>0, <1>4, <3>1 DEF Copy, Goto, TypeOK
      <4>2. Has(Server, m)
        BY <1>7, <4>1 DEF Holding
      <4> QED BY <1>0, <1>3, <1>8, <4>1, <4>2 DEF Asking, Working, Answered
    <3>2. CASE ~Copy(Server)
      <4>1. /\ local' = local
            /\ pc'[Server] \in {"rpost", "serve", "send", "write", "fill"}
                 => pc[Server] \in {"rpost", "serve", "send", "write", "fill"}
            /\ pc'[Server] \in {"send", "write", "fill"} => pc[Server] \in {"send", "write", "fill"}
            /\ pc'[Server] \in {"rpost", "serve"} => pc[Server] \in {"rpost", "serve"}
        BY <1>0, <1>10, <3>2 DEF SendWait, SendPost, RecvWait, RecvPost, Goto, TypeOK
      <4> QED BY <1>0, <1>3, <1>8, <4>1 DEF Working, Answered
    <3> QED BY <3>1, <3>2
  <2> QED BY <1>0, <1>1, <1>3, <2>3, <2>4, <2>5 DEF CallInv
<1> QED BY <1>9, <1>10 DEF Transfer

(* A step of the server between its messages writes and posts none.        *)
LEMMA Quiet ==
  ASSUME TypeOK, NEW k \in Objects, Asking(k), Answering(k),
         UNCHANGED <<build, memory, handle>>, \A c \in Clients : pc'[c] = pc[c],
         pc'[Server] \notin {"copy", "spost"},
         \A i \in {"SERVER_READ", "CLIENT_READ"} : sem'[k][i] = 1 => sem[k][i] = 1,
         Served(k) => Served(k)', Asked(k) => Asked(k)',
         harm' = "none" => harm = "none", k = current'["mutex"] => k = current["mutex"]
  PROVE  Asking(k)' /\ Answering(k)'
<1>1. Seg(k)' = Seg(k)
  BY DEF Seg
<1>2. \A c \in Clients : Busy(c, k)' <=> Busy(c, k)
  BY DEF Busy
<1>3. \A c \in Clients : Waits(c, k) => Waits(c, k)'
  BY <1>2 DEF Waits, Alive
<1>4. Asking(k)'
  BY <1>1, <1>2, <1>3 DEF Asking
<1>5. Answering(k)'
  BY <1>1, <1>2, <1>3 DEF Answering
<1> QED BY <1>4, <1>5

LEMMA ServerCall ==
  ASSUME TInv, TurnInv, Stages, CallInv, ServerAct, OneTurn, OneTurn'
  PROVE  CallInv'
<1>0. /\ TypeOK /\ Server \in Processes /\ current["mutex"] \in Objects
      /\ {"CLIENT_WRITE", "SERVER_READ", "CLIENT_READ"} \subseteq Semaphores
      /\ \A k \in Objects : Live(k) => Asking(k) /\ Answering(k)
      /\ Working /\ Answered /\ Unsent /\ ~SKill /\ OneTurn
      /\ \A c \in Clients : c # Server /\ c \in Processes
  BY ObjectTypes DEF TInv, CallInv, Processes, Semaphores, SKill, OneTurn
<1>1. /\ UNCHANGED <<build, memory, handle>>
      /\ \A c \in Clients : pc'[c] = pc[c] /\ local'[c] = local[c]
      /\ pc'[Server] \in {"init", "recv", "send", "down", "free", "close"}
      /\ pc'[Server] = "send" <=> Serve
  BY <1>0 DEF ServerAct, SetVal, PostTurn, Serve, Unlink, CloseMutex, FreeMemory, SListen, SStop, Goto,
     objects,
     history, TypeOK
<1>2. \A k \in Objects : \A i \in {"SERVER_READ", "CLIENT_READ"} : sem'[k][i] = 1 => sem[k][i] = 1
  <2>1. CASE SetVal
    BY <1>0, <2>1, Setting
  <2>2. CASE PostTurn
    BY <1>0, <2>2, Posting DEF PostTurn
  <2>3. CASE Serve \/ Unlink \/ CloseMutex \/ FreeMemory \/ SListen \/ SStop
    BY <2>3 DEF Serve, Unlink, CloseMutex, FreeMemory, SListen, SStop
  <2> QED BY <1>0, <2>1, <2>2, <2>3 DEF ServerAct
<1>3. CASE Serve
  <2> PICK m \in Objects : m = current["mutex"]
    BY <1>0
  <2>0. UNCHANGED <<objects, sem, local, harm>> /\ pc[Server] = "serve" /\ pc'[Server] = "send"
    BY <1>1, <1>3 DEF Serve, Goto
  <2>1. PICK c \in Clients :
          /\ local[Server] = Req(c) /\ Waits(c, m)
          /\ \/ Busy(c, m) /\ stage[c] = "asked" /\ stage' = [stage EXCEPT ![c] = "served"]
             \/ ~Busy(c, m) /\ stage' = stage
    BY <1>0, <1>3, ServeOnce
  <2>2. \A k \in Objects, d \in Clients : Busy(d, k)' <=> Busy(d, k)
    BY <1>1 DEF Busy
  <2>3. \A k \in Objects, d \in Clients : Waits(d, k) => Waits(d, k)'
    BY <1>1, <2>0, <2>2 DEF Waits, Alive, objects
  <2>4. \A d \in Clients : stage[d] = "served" => stage'[d] = "served"
    BY <1>0, <2>1 DEF TypeOK
  <2>5. \A d \in Clients : stage'[d] # stage[d] => d = c
    BY <1>0, <2>1 DEF TypeOK
  <2>6. Served(m)'
    BY <1>0, <2>1, <2>2 DEF Served, Waits, TypeOK
  <2>7. ASSUME NEW k \in Objects, Live(k)' PROVE Asking(k)' /\ Answering(k)'
    <3>1. Live(k) /\ Seg(k)' = Seg(k)
      BY <1>1, <2>0, <2>7 DEF Live, Seg, objects
    <3>2. Asking(k) /\ Answering(k)
      BY <1>0, <3>1
    <3>3. (Served(k) => Served(k)')
      BY <2>2, <2>4 DEF Served
    <3>4. Answering(k)'
      BY <1>1, <2>0, <2>2, <2>3, <3>1, <3>2, <3>3 DEF Answering
    <3>5. sem[k]["SERVER_READ"] = 1 => Asked(k)'
      <4> SUFFICES ASSUME sem[k]["SERVER_READ"] = 1 PROVE Asked(k)'
        OBVIOUS
      <4>1. Asked(k)
        BY <3>2 DEF Asking
      <4>2. k # m
        BY <1>0, <2>0 DEF TurnInv, OwnTurn, Turn, Semaphores
      <4>3. Busy(c, k) => stage' = stage
        BY <2>1, <4>2 DEF Busy
      <4> QED BY <2>2, <2>5, <4>1, <4>3 DEF Asked
    <3>6. Asking(k)'
      BY <1>1, <2>0, <2>2, <2>3, <3>1, <3>2, <3>5 DEF Asking
    <3> QED BY <3>4, <3>6
  <2>8. Working' /\ Answered'
    <3>1. Waits(c, m)' /\ local'[Server] = Req(c) /\ current'["mutex"] = m
      BY <2>0, <2>1, <2>3 DEF objects
    <3>2. \A d \in Clients : pc'[d] = pc[d] /\ local'[d] = local[d]
      BY <1>1
    <3> QED BY <1>0, <2>0, <2>4, <2>6, <3>1, <3>2 DEF Working, Answered
  <2>9. Unsent'
    <3>1. stage'[c] # stage[c] => pc[c] = "recv"
      BY <2>1 DEF Waits
    <3> QED BY <1>0, <1>1, <2>5, <3>1 DEF Unsent
  <2> QED BY <2>7, <2>8, <2>9 DEF CallInv
<1>4. CASE ~Serve
  <2>1. stage' = stage /\ (harm' = "none" => harm = "none")
    <3>1. CASE SetVal
      BY <3>1 DEF SetVal, Lost
    <3>2. CASE CloseMutex
      BY <3>2 DEF CloseMutex
    <3>3. CASE PostTurn \/ Unlink \/ FreeMemory \/ SListen \/ SStop
      BY <3>3 DEF PostTurn, Unlink, FreeMemory, SListen, SStop, history
    <3> QED BY <1>0, <1>4, <3>1, <3>2, <3>3 DEF ServerAct
  <2>2. \A k \in Objects : /\ \A c \in Clients : Busy(c, k)' <=> Busy(c, k)
                          /\ (Served(k) => Served(k)') /\ (Asked(k) => Asked(k)')
    BY <1>1, <2>1 DEF Busy, Served, Asked
  <2>3. ASSUME NEW k \in Objects, Live(k)' PROVE Asking(k)' /\ Answering(k)'
    <3>1. CASE current'["mutex"] = current["mutex"]
      <4>1. Live(k)
        BY <1>1, <2>3, <3>1 DEF Live
      <4> QED BY <1>0, <1>1, <1>2, <2>1, <2>2, <3>1, <4>1, Quiet
    <3>2. CASE current'["mutex"] # current["mutex"]
      <4>1. CloseMutex
        BY <1>0, <1>4, <3>2, ObjectTypes DEF ServerAct, SetVal, PostTurn, Unlink, FreeMemory, SListen,
           SStop, objects, TypeOK
      <4>2. current["mutex"] \in Int /\ current'["mutex"] = current["mutex"] + 1
        BY <1>0, <4>1, ObjectTypes DEF CloseMutex, TypeOK
      <4>3. CASE k = current["mutex"] + 1
        <5>1. sem' = sem /\ Untouched(k)
          <6>1. k > current["mutex"]
            BY <4>2, <4>3
          <6> QED BY <4>1, <6>1 DEF CloseMutex, TurnInv, Fresh
        <5>2. \A c \in Clients : handle[c].mutex <= current["mutex"] /\ handle[c].mutex \in Objects
          BY <1>0, ObjectTypes DEF TurnInv, Fresh
        <5>3. \A c \in Clients : ~Busy(c, k)
          BY <1>0, <4>3, <5>2, ObjectTypes DEF Busy
        <5>4. sem'[k]["SERVER_READ"] = 0 /\ sem'[k]["CLIENT_READ"] = 0
          BY <1>0, <5>1 DEF Untouched
        <5>5. Asking(k)'
          BY <1>1, <2>2, <5>3, <5>4 DEF Asking
        <5>6. Answering(k)'
          BY <1>1, <2>2, <5>3, <5>4 DEF Answering
        <5> QED BY <5>5, <5>6
      <4>4. CASE k # current["mutex"] + 1
        <5>1. Live(k)
          BY <1>1, <2>3, <4>2, <4>4 DEF Live
        <5> QED BY <1>0, <1>1, <1>2, <2>1, <2>2, <4>2, <4>4, <5>1, Quiet
      <4> QED BY <4>3, <4>4
    <3> QED BY <3>1, <3>2
  <2>4. Working' /\ Answered' /\ Unsent'
    BY <1>0, <1>1, <1>4, <2>1 DEF Working, Answered, Unsent
  <2> QED BY <2>3, <2>4 DEF CallInv
<1> QED BY <1>3, <1>4

LEMMA ClientCall ==
  ASSUME TInv, TurnInv, Stages, CallInv, NEW c \in Clients, ClientAct(c)
  PROVE  CallInv'
<1>0. /\ TypeOK /\ c # Server /\ Server \in Processes /\ current["mutex"] \in Objects
      /\ UNCHANGED <<build, current, sem, memory>>
      /\ pc'[Server] = pc[Server] /\ local'[Server] = local[Server]
      /\ \A d \in Clients : d \in Processes
  BY TurnsAssumption, ClientFrame, ObjectTypes DEF TInv, Processes
<1>1. \A d \in Clients : d # c => /\ stage'[d] = stage[d] /\ pc'[d] = pc[d]
                                  /\ local'[d] = local[d]
  BY <1>0, ClientFrame
<1>2. \A k \in Objects, d \in Clients : Waits(d, k) => Waits(d, k)'
  <2>1. ASSUME NEW k \in Objects, NEW d \in Clients, Alive(d, k) PROVE Alive(d, k)'
    <3> SUFFICES ASSUME harm' = "none", k = current["mutex"] PROVE Busy(d, k)'
      BY <1>0 DEF Alive
    <3>1. harm = "none" /\ ~Busy(c, k)
      BY ClientHarm
    <3>2. Busy(d, k) /\ d # c
      BY <2>1, <3>1 DEF Alive
    <3> QED BY <1>1, <3>2, ClientFrame DEF Busy
  <2> QED BY <1>0, <2>1, ClientBusy DEF Waits
<1>3. \A k \in Objects : (Served(k) => Served(k)') /\ (Asked(k) => Asked(k)')
  BY <1>0, <1>1, ClientBusy DEF Served, Asked
<1>4. ASSUME NEW k \in Objects, Live(k)' PROVE Asking(k)' /\ Answering(k)'
  <2>1. Live(k) /\ Asking(k) /\ Answering(k) /\ Seg(k)' = Seg(k)
    BY <1>0, <1>4 DEF Live, Seg, CallInv
  <2>2. Has(Server, k)' => Has(Server, k)
    BY <1>0, ClientBusy
  <2>3. \A d \in Clients : Busy(d, k)' => Busy(d, k) /\ pc'[d] = pc[d]
    BY <1>0, ClientBusy
  <2>4. Asking(k)'
    BY <1>0, <1>2, <1>3, <2>1, <2>2, <2>3 DEF Asking
  <2>5. Answering(k)'
    BY <1>0, <1>2, <1>3, <2>1, <2>2, <2>3 DEF Answering
  <2> QED BY <2>4, <2>5
<1>5. Working'
  BY <1>0, <1>2, <1>3 DEF Working, CallInv
<1>7. Unsent'
  <2>1. pc'[c] # "idle" => stage'[c] = "asked"
    <3>1. CASE OpenMutex(c)
      <4>1. pc[c] \in {"mutex", "sem2", "sem3", "sem4"} /\ stage' = stage
        BY <1>0, <3>1, Opens DEF TInv
      <4> QED BY <4>1 DEF CallInv, Unsent
    <3>2. CASE GetMemory(c)
      BY <3>2 DEF GetMemory, Goto, history, CallInv, Unsent
    <3>3. CASE Connect(c)
      BY <1>0, <3>3 DEF Connect, TypeOK
    <3>4. CASE Handle(c) \/ Fail(c) \/ Die(c)
      BY <1>0, <3>4 DEF Handle, Fail, Die, CEnd, TypeOK
    <3> QED BY <3>1, <3>2, <3>3, <3>4 DEF ClientAct
  <2> QED BY <1>0, <1>1, <2>1 DEF Unsent, CallInv
<1>6. Answered'
  <2>1. pc'[c] \notin {"copy", "rpost", "handle"}
    BY <1>0, ClientFrame
  <2> QED BY <1>0, <1>1, <1>3, <2>1 DEF Answered, CallInv
<1> QED BY <1>4, <1>5, <1>6, <1>7 DEF CallInv

LEMMA CallNext ==
  ASSUME TInv, TurnInv, Stages, CallInv, [Next]_vars, OneTurn'
  PROVE  CallInv'
<1>1. CASE UNCHANGED vars
  BY <1>1 DEF vars, CallInv, Asking, Answering, Working, Answered, Unsent, Waits, Alive, Asked,
     Served, Busy, Has, Object, Live, Seg
<1>2. ASSUME NEW p \in Processes, Transfer(p) PROVE CallInv'
  BY <1>2, ClientTransfer, ServerTransfer DEF Processes
<1> QED BY <1>1, <1>2, StepCases, ServerCall, ClientCall
-----------------------------------------------------------------------------
LEMMA InvInit == Init => IInv
<1> SUFFICES ASSUME Init PROVE IInv
  OBVIOUS
<1>1. TInv /\ TypeOK
  BY TypeInit DEF TInv
<1>2. \A c \in Clients : pc[c] = "idle" /\ c # Server
  BY TurnsAssumption DEF Init, Processes
<1>3. pc[Server] = "down" /\ \A k \in Objects : \A i \in Semaphores : sem[k][i] = 0
  BY DEF Init, Processes
<1>4. Stages
  BY <1>2 DEF Stages, Init
<1>5. \A k \in Objects : (\A p \in Processes : ~Has(p, k)) /\ (\A c \in Clients : ~Busy(c, k)) /\ Untouched(k)
  BY <1>2, <1>3 DEF Has, Busy, Holding, InCall, Untouched, Processes
<1>6. \A k \in Objects : Turn(k)
  BY <1>5 DEF Turn, Untouched
<1>7. TurnInv
  BY <1>1, <1>2, <1>3, <1>5, <1>6, ObjectTypes DEF TurnInv, Fresh, OwnTurn, Paired, Init,
     InCall, Holding
<1>8. \A k \in Objects : Asking(k) /\ Answering(k)
  BY <1>3, <1>5 DEF Asking, Answering, Semaphores
<1>9. CallInv
  BY <1>2, <1>3, <1>8 DEF CallInv, Working, Answered, Unsent
<1> QED BY <1>1, <1>4, <1>7, <1>9 DEF IInv

LEMMA InvNext == IInv /\ [Next]_vars => IInv'
<1> SUFFICES ASSUME IInv, [Next]_vars PROVE IInv'
  OBVIOUS
<1>1. TInv /\ Stages /\ TypeOK /\ Aligned
  BY DEF IInv, TInv
<1>2. CASE UNCHANGED vars
  <2>0. OneTurn => Working
    BY DEF IInv, CallInv
  <2>1. TInv' /\ (OneTurn' <=> OneTurn)
    BY <1>1, <1>2, AlignedNext DEF TInv, TypeOK, vars, OneTurn
  <2>2. OneTurn' => TurnInv' /\ CallInv'
    BY <1>1, <2>1, TurnNext, CallNext DEF IInv
  <2> QED BY <1>1, <2>0, <2>1, <2>2, StagesNext DEF IInv
<1>3. CASE OneTurn
  <2>1. TurnInv /\ CallInv
    BY <1>3 DEF IInv
  <2>2. Working
    BY <2>1 DEF CallInv
  <2>3. TInv'
    BY <1>1, <2>2, TypeNext, AlignedNext DEF TInv
  <2> QED BY <1>1, <2>1, <2>2, <2>3, StagesNext, TurnNext, CallNext DEF IInv
<1> QED BY <1>2, <1>3, StepCases

LEMMA Invariance == Spec => []IInv
BY InvInit, InvNext, PTL DEF Spec

(* Every variable keeps its type, in both prototypes.                      *)
THEOREM TypeCorrect == Spec => []TypeOK
<1>1. IInv => TypeOK
  BY DEF IInv, TInv
<1> QED BY <1>1, Invariance, PTL

(* The server acts on whole requests of clients only, whatever was stopped *)
(* or killed before, until there may be two turns or a client holds        *)
(* objects of two servers (OneTurn).                                       *)
THEOREM RequestsArrive == Spec => []RequestIntact
<1>1. IInv => RequestIntact
  BY DEF IInv, CallInv, Working, RequestIntact
<1> QED BY <1>1, Invariance, PTL

(* One message is in memory at a time, however many clients call at once   *)
(* and open or lose their semaphores one by one, while OneTurn holds.      *)
THEOREM OneMessage == Spec => []MaxOneMessage
<1>1. ASSUME IInv PROVE MaxOneMessage
  <2> SUFFICES ASSUME OneTurn, NEW k \in Objects PROVE Unread(k) <= 1
    BY DEF MaxOneMessage
  <2>1. Turn(k) /\ TypeOK
    BY <1>1 DEF IInv, TInv, TurnInv
  <2> DEFINE users == {p \in Processes : pc[p] \in {"write", "fill", "spost", "copy"}
                                         /\ Object(p, "mutex") = k}
  <2>2. \A p \in users : p \in Processes /\ Has(p, k)
    BY DEF Has, Holding
  <2>3. {"SERVER_READ", "CLIENT_READ"} \subseteq Semaphores
    BY DEF Semaphores
  <2>4. Unread(k) = Cardinality(users) + sem[k]["SERVER_READ"] + sem[k]["CLIENT_READ"]
    BY DEF Unread
  <2>5. CASE users = {}
    <3>1. Cardinality(users) = 0
      BY <2>5, FS_EmptySet
    <3>2. /\ sem[k]["SERVER_READ"] \in {0, 1} /\ sem[k]["CLIENT_READ"] \in {0, 1}
          /\ ~(sem[k]["SERVER_READ"] = 1 /\ sem[k]["CLIENT_READ"] = 1)
      BY <2>1, <2>3 DEF Turn
    <3> HIDE DEF users
    <3> QED BY <2>4, <3>1, <3>2
  <2>6. CASE users # {}
    <3>1. PICK p \in users : TRUE
      BY <2>6
    <3>2. users = {p}
      BY <2>1, <2>2, <3>1 DEF Turn
    <3>3. Cardinality(users) = 1
      BY <3>2, FS_Singleton
    <3>4. sem[k]["SERVER_READ"] = 0 /\ sem[k]["CLIENT_READ"] = 0
      BY <2>1, <2>2, <2>3, <3>1 DEF Turn, Untouched
    <3> HIDE DEF users
    <3> QED BY <2>4, <3>3, <3>4
  <2> QED BY <2>5, <2>6
<1> QED BY <1>1, Invariance, PTL

(* Calls that run at once do not mix: each client gets the reply to its    *)
(* own request, which the server acted on once, while OneTurn holds: the   *)
(* model ends after it.                                                    *)
THEOREM Implements == Spec => RpcSpec
<1>1. Init => Calls!Init
  BY DEF Init, Calls!Init, Calls!NoReply, Owner, Torn
<1>2. IInv /\ [Next]_vars => [Calls!Next]_<<stage, [c \in Clients |-> Owner(got[c])]>>
  <2> SUFFICES ASSUME IInv, [Next]_vars,
                      ~(stage' = stage /\ got' = got)
               PROVE  Calls!Next
    OBVIOUS
  <2>0. TypeOK /\ Stages /\ \A c \in Clients : c # Server /\ c \in Processes
    BY TurnsAssumption DEF IInv, TInv, Processes
  <2>1. CASE Serve
    <3>1. OneTurn
      BY <2>1, StepCases DEF vars
    <3>2. Working
      BY <3>1 DEF IInv, CallInv
    <3>4. got' = got
      BY <2>1 DEF Serve
    <3>5. PICK c \in Clients : stage[c] = "asked" /\ stage' = [stage EXCEPT ![c] = "served"]
      BY <2>0, <2>1, <3>1, <3>2, <3>4, ServeOnce
    <3> QED BY <3>4, <3>5 DEF Calls!Next, Calls!Serve, Calls!Move
  <2>2. ASSUME NEW c \in Clients, Connect(c) PROVE Calls!Next
    <3>1. stage[c] = "idle"
      BY <2>0, <2>2 DEF Connect, Goto, Stages
    <3> QED BY <2>2, <3>1 DEF Connect, Calls!Next, Calls!Call, Calls!Move
  <2>3. ASSUME NEW c \in Clients, Handle(c) PROVE Calls!Next
    <3>1. OneTurn
      BY <2>3, StepCases DEF vars
    <3>2. stage[c] = "served" /\ local[c] = Res(c)
      BY <2>3, <3>1 DEF Handle, IInv, CallInv, Answered
    <3>3. got' = [got EXCEPT ![c] = Res(c)] /\ stage' = [stage EXCEPT ![c] = "idle"]
      BY <2>3, <3>2 DEF Handle, CEnd
    <3>4. Owner(Res(c)) = c
      BY DEF Owner, Res
    <3>5. [d \in Clients |-> Owner(got[d])]' = [[d \in Clients |-> Owner(got[d])] EXCEPT ![c] = c]
      BY <2>0, <3>3, <3>4 DEF TypeOK
    <3> QED BY <3>2, <3>3, <3>5 DEF Calls!Next, Calls!Return, Calls!Move
  <2>4. ASSUME NEW c \in Clients, Fail(c) \/ Die(c) PROVE Calls!Next
    <3>1. stage[c] # "idle" /\ got' = got /\ stage' = [stage EXCEPT ![c] = "idle"]
      BY <2>0, <2>4 DEF Fail, Die, CEnd, Stages
    <3> QED BY <3>1 DEF Calls!Next, Calls!Abort
  <2>5. CASE \/ UNCHANGED vars \/ \E p \in Processes : Transfer(p)
             \/ SetVal \/ PostTurn \/ Unlink \/ CloseMutex \/ FreeMemory \/ SListen \/ SStop \/ SKill
             \/ \E c \in Clients : GetMemory(c) \/ OpenMutex(c)
    <3>1. stage' = stage /\ got' = got
      BY <2>0, <2>5, TransferFrame DEF SetVal, PostTurn, Unlink, CloseMutex, FreeMemory, SListen, SStop,
         SKill,
         GetMemory, OpenMutex, vars, history
    <3> QED BY <3>1
  <2> QED BY <2>1, <2>2, <2>3, <2>4, <2>5, StepCases DEF ServerAct, ClientAct
<1> QED BY <1>1, <1>2, Invariance, PTL DEF Spec, RpcSpec, Calls!Spec
-----------------------------------------------------------------------------
(***************************************************************************)
(* A process waits for its turn, for a request or for a reply: can all of  *)
(* them wait?                                                              *)
(***************************************************************************)

(* The server has given the present semaphores their turn.                 *)
Begun == Running \/ (pc[Server] = "init" /\ step > 0)

(* Unless it was lost, the turn is there; and while a client waits for its *)
(* reply, the turn is on its way to the server, with it, or on its way     *)
(* back.                                                                   *)
Kept         == \/ sem[current["mutex"]]["CLIENT_WRITE"] = 1
                \/ \E c \in Clients : Busy(c, current["mutex"])
Underway     == \/ sem[current["mutex"]]["SERVER_READ"] = 1
                \/ sem[current["mutex"]]["CLIENT_READ"] = 1
                \/ pc[Server] \in Holding \cup {"serve", "send"}
Expecting(c) == Busy(c, current["mutex"]) /\ pc[c] = "recv"
TurnThere ==
  harm = "none" /\ Begun => Kept /\ \A c \in Clients : Expecting(c) => Underway

Places == pc[Server] # "idle" /\ \A c \in Clients : pc[c] # "down"

LInv == IInv /\ Places /\ TurnThere

(* p has a step to take: it waits for no semaphore.                        *)
Awaited(p) == IF pc[p] = "send" THEN IF p = Server THEN "SERVER_WRITE" ELSE "CLIENT_WRITE"
                                ELSE IF p = Server THEN "SERVER_READ" ELSE "CLIENT_READ"
CanGo(p) == /\ pc[p] \notin {"idle", "down"}
            /\ pc[p] \in {"send", "recv"} => sem[Object(p, "mutex")][Awaited(p)] > 0

NoStandstill ==
  ( /\ harm = "none" /\ Running
    /\ \E c \in Clients : pc[c] # "idle" /\ handle[c].mutex = current["mutex"] ) =>
    \E p \in Processes : CanGo(p)

LEMMA PlacesNext ==
  ASSUME TInv, Places, OneTurn => TurnInv, [Next]_vars
  PROVE  Places'
<1>0. TypeOK /\ Server \in Processes /\ \A c \in Clients : c \in Processes /\ c # Server
  BY TurnsAssumption DEF TInv, Processes
<1>1. CASE UNCHANGED vars
  BY <1>1 DEF vars, Places
<1>2. ASSUME NEW p \in Processes, Transfer(p) PROVE Places'
  <2>1. /\ pc' = [pc EXCEPT ![p] = pc'[p]] /\ step' = step
        /\ pc'[p] \in InCall \cup {"serve", "handle"} /\ pc[p] # "init"
    BY <1>0, <1>2, TransferFrame DEF InCall, Holding
  <2>2. \A q \in Processes \ {p} : pc'[q] = pc[q]
    BY <1>0, <2>1 DEF TypeOK
  <2> QED BY <1>0, <2>1, <2>2 DEF Places, InCall, Holding
<1>3. ASSUME NEW c \in Clients, ClientAct(c) PROVE Places'
  BY <1>0, <1>3, ClientFrame DEF Places
<1>4. CASE OneTurn /\ ServerAct
  <2>1. (\A c \in Clients : pc'[c] = pc[c]) /\ pc'[Server] # "idle"
    BY <1>0, <1>4 DEF ServerAct, SetVal, PostTurn, Serve, Unlink, CloseMutex, FreeMemory, SListen, SStop,
       SKill, Goto, TypeOK
  <2> QED BY <2>1 DEF Places
<1> QED BY <1>1, <1>2, <1>3, <1>4, StepCases

(* A step that changes neither the present semaphores nor who is in a call *)
(* on them, nor where the server is.                                       *)
LEMMA TurnKept ==
  ASSUME TurnThere, harm' = "none" => harm = "none", Begun' => Begun,
         UNCHANGED <<sem, current>>,
         \A c \in Clients : Busy(c, current["mutex"])' <=> Busy(c, current["mutex"]),
         \A c \in Clients : Busy(c, current["mutex"]) => pc'[c] = pc[c],
         pc[Server] \in Holding \cup {"serve", "send"} => pc'[Server] \in Holding \cup {"serve", "send"}
  PROVE  TurnThere'
<1>1. Kept => Kept'
  BY DEF Kept
<1>2. Underway => Underway'
  BY DEF Underway
<1>3. \A c \in Clients : Expecting(c)' => Expecting(c)
  BY DEF Expecting
<1> QED BY <1>1, <1>2, <1>3 DEF TurnThere

LEMMA TurnThereClient ==
  ASSUME TInv, TurnInv, TurnThere, NEW p \in Clients, Transfer(p)
  PROVE  TurnThere'
<1> SUFFICES ASSUME harm' = "none", Begun' PROVE Kept' /\ \A c \in Clients : Expecting(c)' => Underway'
  BY DEF TurnThere
<1> PICK m \in Objects : m = current["mutex"]
  BY ObjectTypes DEF TInv
<1>0. /\ TypeOK /\ Turn(m) /\ p \in Processes /\ p # Server /\ Server \in Processes
      /\ current' = current /\ current'["mutex"] = m
      /\ {"CLIENT_WRITE", "SERVER_READ", "CLIENT_READ", "SERVER_WRITE"} \subseteq Semaphores
      /\ Object(p, "mutex") = handle[p].mutex
      /\ handle' = handle /\ harm' = harm /\ step' = step
  BY TurnsAssumption, TransferFrame DEF TInv, TurnInv, Processes, Semaphores, Object
<1>1. pc'[Server] = pc[Server] /\ \A d \in Clients \ {p} : pc'[d] = pc[d] /\ (Busy(d, m)' <=> Busy(d, m))
  <2>1. \A q \in Processes \ {p} : pc'[q] = pc[q]
    BY <1>0, TransferFrame DEF TypeOK
  <2> QED BY <1>0, <2>1 DEF Busy, Processes
<1>2. Kept /\ \A c \in Clients : Expecting(c) => Underway
  <2>1. Begun
    BY <1>0, <1>1 DEF Begun, Running
  <2> QED BY <1>0, <2>1 DEF TurnThere
<1>3. CASE handle[p].mutex # m
  <2>1. ~Busy(p, m) /\ ~Busy(p, m)'
    BY <1>0, <1>3 DEF Busy
  <2>2. \A i \in Semaphores : sem'[m][i] = sem[m][i]
    BY <1>0, <1>3, TransferFrame
  <2>3. Kept'
    BY <1>0, <1>1, <1>2, <2>1, <2>2 DEF Kept
  <2>4. Underway => Underway'
    BY <1>0, <1>1, <2>2 DEF Underway
  <2>5. \A c \in Clients : Expecting(c)' => Expecting(c)
    BY <1>0, <1>1, <2>1 DEF Expecting
  <2> QED BY <1>2, <2>3, <2>4, <2>5
<1>4. CASE handle[p].mutex = m
  <2>1. pc'[p] \in InCall => Busy(p, m)'
    BY <1>0, <1>4 DEF Busy
  <2>2. Busy(p, m) => \A d \in Clients : Busy(d, m) => d = p
    BY <1>0 DEF Turn
  <2>3. CASE SendWait(p)
    <3>1. pc'[p] = "write" /\ sem[m]["CLIENT_WRITE"] > 0
      BY <1>0, <1>4, <2>3, Waiting DEF SendWait, Goto, TypeOK
    <3>2. \A d \in Clients : ~Busy(d, m)
      BY <1>0, <3>1 DEF Turn
    <3>3. Kept'
      BY <1>0, <2>1, <3>1 DEF Kept, InCall, Holding
    <3>4. \A c \in Clients : ~Expecting(c)'
      BY <1>0, <1>1, <3>1, <3>2 DEF Expecting
    <3> QED BY <3>3, <3>4
  <2>4. CASE Write(p) \/ Fill(p) \/ Copy(p) \/ RecvWait(p)
    <3>1. pc[p] \in InCall /\ pc'[p] \in Holding
      BY <1>0, <2>4 DEF Write, Fill, Copy, RecvWait, Goto, InCall, Holding, TypeOK
    <3>2. Busy(p, m) /\ Busy(p, m)' /\ pc'[p] # "recv"
      BY <1>0, <1>4, <3>1 DEF Busy, InCall, Holding
    <3>3. \A c \in Clients : ~Expecting(c)'
      BY <1>0, <1>1, <2>2, <3>2 DEF Expecting
    <3> QED BY <1>0, <3>2, <3>3 DEF Kept
  <2>5. CASE SendPost(p)
    <3>1. pc[p] = "spost" /\ pc'[p] = "recv" /\ inc(p, "SERVER_READ")
      BY <1>0, <2>5 DEF SendPost, Goto, TypeOK
    <3>2. Has(p, m)
      BY <1>0, <1>4, <3>1 DEF Has, Holding
    <3>3. sem[m]["SERVER_READ"] = 0
      BY <1>0, <3>2 DEF Turn, Untouched
    <3>4. sem'[m]["SERVER_READ"] = 1
      BY <1>0, <1>4, <3>1, <3>3, Posting
    <3>5. Underway'
      BY <1>0, <3>4 DEF Underway
    <3> QED BY <1>0, <2>1, <3>1, <3>5 DEF Kept, InCall
  <2>6. CASE RecvPost(p)
    <3>1. pc[p] = "rpost" /\ pc'[p] = "handle" /\ inc(p, "CLIENT_WRITE")
      BY <1>0, <2>6 DEF RecvPost, Goto, TypeOK
    <3>2. Has(p, m) /\ Busy(p, m)
      BY <1>0, <1>4, <3>1 DEF Has, Holding, Busy, InCall
    <3>3. sem[m]["CLIENT_WRITE"] = 0
      BY <1>0, <3>2 DEF Turn, Untouched
    <3>4. sem'[m]["CLIENT_WRITE"] = 1
      BY <1>0, <1>4, <3>1, <3>3, Posting
    <3>5. \A c \in Clients : ~Expecting(c)'
      BY <1>0, <1>1, <2>2, <3>1, <3>2 DEF Expecting
    <3> QED BY <1>0, <3>4, <3>5 DEF Kept
  <2> QED BY <2>3, <2>4, <2>5, <2>6 DEF Transfer
<1> QED BY <1>3, <1>4

LEMMA TurnThereServer ==
  ASSUME TInv, TurnInv, TurnThere, Transfer(Server)
  PROVE  TurnThere'
<1> SUFFICES ASSUME harm' = "none", Begun' PROVE Kept' /\ \A c \in Clients : Expecting(c)' => Underway'
  BY DEF TurnThere
<1> PICK m \in Objects : m = current["mutex"]
  BY ObjectTypes DEF TInv
<1>0. /\ TypeOK /\ Turn(m) /\ Server \in Processes /\ Object(Server, "mutex") = m
      /\ current' = current /\ current'["mutex"] = m
      /\ {"CLIENT_WRITE", "SERVER_READ", "CLIENT_READ", "SERVER_WRITE"} \subseteq Semaphores
      /\ handle' = handle /\ harm' = harm
      /\ pc[Server] \in InCall \cup {"send"}
  BY TransferFrame DEF TInv, TurnInv, Processes, Semaphores, Object
<1>1. \A d \in Clients : pc'[d] = pc[d] /\ (Busy(d, m)' <=> Busy(d, m)) /\ (Expecting(d)' <=> Expecting(d))
  <2>1. \A q \in Processes \ {Server} : pc'[q] = pc[q]
    BY <1>0, TransferFrame DEF TypeOK
  <2>2. \A d \in Clients : pc'[d] = pc[d]
    BY <2>1, TurnsAssumption DEF Processes
  <2> QED BY <1>0, <2>2 DEF Busy, Expecting
<1>2. Kept /\ \A c \in Clients : Expecting(c) => Underway
  <2>1. Begun
    BY <1>0 DEF Begun, Running, InCall, Holding
  <2> QED BY <1>0, <2>1 DEF TurnThere
<1>3. sem'[m]["CLIENT_WRITE"] = sem[m]["CLIENT_WRITE"]
  <2>1. CASE SendWait(Server) \/ RecvWait(Server)
    <3>1. PICK i \in Semaphores : dec(Server, i) /\ i # "CLIENT_WRITE"
      BY <1>0, <2>1 DEF SendWait, RecvWait
    <3> QED BY <1>0, <3>1, Waiting
  <2>2. CASE SendPost(Server) \/ RecvPost(Server)
    <3>1. PICK i \in Semaphores : inc(Server, i) /\ i # "CLIENT_WRITE"
      BY <1>0, <2>2 DEF SendPost, RecvPost
    <3> QED BY <1>0, <3>1, Posting
  <2>3. CASE Write(Server) \/ Fill(Server) \/ Copy(Server)
    BY <2>3 DEF Write, Fill, Copy
  <2> QED BY <2>1, <2>2, <2>3 DEF Transfer
<1>4. Kept'
  BY <1>0, <1>1, <1>2, <1>3 DEF Kept
<1>5. Underway'
  <2>1. CASE ~SendPost(Server)
    <3>1. pc'[Server] \in Holding \cup {"serve", "send"}
      BY <1>0, <2>1 DEF Transfer, SendWait, Write, Fill, RecvWait, Copy, RecvPost, Goto, Holding, TypeOK
    <3> QED BY <3>1 DEF Underway
  <2>2. CASE SendPost(Server)
    <3>1. pc[Server] = "spost" /\ inc(Server, "CLIENT_READ")
      BY <2>2 DEF SendPost, Goto
    <3>2. sem[m]["CLIENT_READ"] = 0
      BY <1>0, <3>1 DEF Turn, Untouched, Has, Holding
    <3>3. sem'[m]["CLIENT_READ"] = 1
      BY <1>0, <3>1, <3>2, Posting
    <3> QED BY <1>0, <3>3 DEF Underway
  <2> QED BY <2>1, <2>2
<1> QED BY <1>4, <1>5

LEMMA TurnThereAct ==
  ASSUME TInv, TurnInv, Places, TurnThere, OneTurn, ServerAct
  PROVE  TurnThere'
<1> SUFFICES ASSUME harm' = "none", Begun' PROVE Kept' /\ \A c \in Clients : Expecting(c)' => Underway'
  BY DEF TurnThere
<1> PICK m \in Objects : m = current["mutex"]
  BY ObjectTypes DEF TInv
<1>0. /\ TypeOK /\ Fresh /\ Server \in Processes /\ Object(Server, "mutex") = m
      /\ {"CLIENT_WRITE", "SERVER_READ", "CLIENT_READ", "SERVER_WRITE"} \subseteq Semaphores
  BY DEF TInv, TurnInv, Processes, Semaphores, Object
<1>1. /\ \A d \in Clients : pc'[d] = pc[d]
      /\ handle' = handle /\ current' = current
      /\ ~SStop /\ ~SKill /\ ~Unlink /\ ~CloseMutex /\ ~FreeMemory /\ ~SListen
  <2>1. \A d \in Clients : pc'[d] = pc[d]
    BY <1>0, TurnsAssumption DEF ServerAct, SetVal, PostTurn, Serve, Unlink, CloseMutex, FreeMemory, SListen,
       SStop, SKill, Goto, TypeOK, Processes
  <2>2. ~SStop /\ ~SKill /\ ~Unlink /\ ~CloseMutex /\ ~FreeMemory
    BY <1>0 DEF SStop, SKill, Unlink, CloseMutex, FreeMemory, Goto, Begun, Running, TypeOK
  <2>3. ~SListen
    BY <1>0 DEF SListen, Goto, Begun, Running, TypeOK, TInv, Aligned
  <2> QED BY <2>1, <2>2, <2>3 DEF ServerAct, SetVal, PostTurn, Serve, objects
<1>2. \A d \in Clients : (Busy(d, m)' <=> Busy(d, m)) /\ (Expecting(d)' <=> Expecting(d))
  BY <1>1 DEF Busy, Expecting
<1>3. CASE Serve
  <2>1. /\ sem' = sem /\ harm' = harm /\ Begun
        /\ pc[Server] = "serve" /\ pc'[Server] = "send"
    BY <1>0, <1>3 DEF Serve, objects, Goto, Begun, Running, TypeOK
  <2>2. Kept /\ Underway'
    BY <2>1 DEF TurnThere, Underway
  <2> QED BY <1>1, <1>2, <2>1, <2>2 DEF Kept
<1>4. CASE PostTurn \/ (SetVal /\ step = 0)
  <2>1. Untouched(m) /\ \A c \in Clients : ~Busy(c, m)
    <3>1. Starting
      BY <1>0, <1>4 DEF Starting, PostTurn, SetVal, Goto, TInv, Aligned
    <3> QED BY <1>0, <3>1 DEF Fresh
  <2>2. sem'[m]["CLIENT_WRITE"] = 1
    <3>1. CASE PostTurn
      <4>1. inc(Server, "CLIENT_WRITE") /\ sem[m]["CLIENT_WRITE"] = 0
        BY <1>0, <2>1, <3>1 DEF PostTurn, Untouched
      <4> QED BY <1>0, <4>1, Posting
    <3>2. CASE SetVal /\ step = 0
      BY <1>0, <3>2, Setting
    <3> QED BY <1>4, <3>1, <3>2
  <2> QED BY <1>1, <1>2, <2>1, <2>2 DEF Kept, Expecting
<1>5. CASE SetVal /\ step # 0
  <2>1. pc[Server] = "init" /\ Begun
    BY <1>0, <1>5 DEF SetVal, Begun, TypeOK
  <2>2. Order[step + 1] \in Semaphores /\ Order[step + 1] # "CLIENT_WRITE"
    BY <1>0, <1>5, Setting
  <2>3. harm = "none" /\ ~(sem[m][Order[step + 1]] > 0)
    <3>1. harm' = IF sem[m][Order[step + 1]] > 0 THEN Lost ELSE harm
      BY <1>5, <2>2 DEF SetVal
    <3> QED BY <3>1 DEF Lost
  <2>4. \A j \in Semaphores : sem'[m][j] = sem[m][j]
    <3>1. sem[m][Order[step + 1]] = 0
      BY <1>0, <2>2, <2>3 DEF TypeOK
    <3> QED BY <1>0, <1>5, <2>2, <3>1, Setting
  <2>5. Kept /\ \A c \in Clients : Expecting(c) => Underway
    BY <2>1, <2>3 DEF TurnThere
  <2>6. Underway => Underway'
    BY <1>0, <1>1, <2>1, <2>4 DEF Underway, Holding
  <2> QED BY <1>0, <1>1, <1>2, <2>4, <2>5, <2>6 DEF Kept
<1> QED BY <1>1, <1>3, <1>4, <1>5 DEF ServerAct

LEMMA TurnThereOwn ==
  ASSUME TInv, TurnThere, NEW c \in Clients, ClientAct(c)
  PROVE  TurnThere'
<1>0. TypeOK /\ c \in Processes /\ c # Server /\ Server \in Processes
  BY TurnsAssumption DEF TInv, Processes
<1>1. UNCHANGED <<current, sem, step>> /\ pc'[Server] = pc[Server]
  BY <1>0, ClientFrame
<1>2. harm' = "none" => harm = "none" /\ ~Busy(c, current["mutex"])
  BY ClientHarm
<1>3. \A d \in Clients \ {c} : pc'[d] = pc[d] /\ handle'[d] = handle[d]
  BY <1>0, ClientFrame DEF Processes
<1>4. ~Busy(c, current["mutex"])'
  BY <1>0, <1>1, ClientBusy, ObjectTypes
<1>5. harm' = "none" => \A d \in Clients : /\ Busy(d, current["mutex"])' <=> Busy(d, current["mutex"])
                                           /\ Busy(d, current["mutex"]) => pc'[d] = pc[d]
  BY <1>1, <1>2, <1>3, <1>4 DEF Busy
<1>6. Begun' <=> Begun
  BY <1>1 DEF Begun, Running
<1>7. harm' # "none" => TurnThere'
  BY DEF TurnThere
<1> QED BY <1>1, <1>2, <1>5, <1>6, <1>7, TurnKept

LEMMA LInvariance == Spec => []LInv
<1>1. Init => Places /\ TurnThere
  BY TurnsAssumption DEF Init, Places, TurnThere, Begun, Running, Processes
<1>2. LInv /\ [Next]_vars => Places' /\ TurnThere'
  <2> SUFFICES ASSUME LInv, [Next]_vars PROVE Places' /\ TurnThere'
    OBVIOUS
  <2>0. TInv /\ Places /\ TurnThere /\ (OneTurn => TurnInv)
    BY DEF LInv, IInv
  <2>1. Places'
    BY <2>0, PlacesNext
  <2>2. CASE UNCHANGED vars
    BY <2>0, <2>1, <2>2, TurnKept DEF vars, Begun, Running, Busy
  <2>3. CASE OneTurn
    <3>1. ASSUME NEW p \in Processes, Transfer(p) PROVE TurnThere'
      BY <2>0, <2>3, <3>1, TurnThereClient, TurnThereServer DEF Processes
    <3>2. ASSUME ServerAct PROVE TurnThere'
      BY <2>0, <2>3, <3>2, TurnThereAct
    <3>3. ASSUME NEW c \in Clients, ClientAct(c) PROVE TurnThere'
      BY <2>0, <3>3, TurnThereOwn
    <3> QED BY <2>1, <2>2, <3>1, <3>2, <3>3, StepCases
  <2> QED BY <2>1, <2>2, <2>3, StepCases
<1> QED BY <1>1, <1>2, InvInit, InvNext, PTL DEF Spec, LInv

(* Unless a turn was lost, whenever a client is in a call of the present   *)
(* server, that server or a client has a step to take: in neither          *)
(* prototype do the four semaphores make all processes wait for each       *)
(* other, however many calls meet (shmsystemv.c and shmposix.c, ipc_send   *)
(* and ipc_recv).                                                          *)
THEOREM SomebodyRuns == Spec => []NoStandstill
<1>1. LInv => NoStandstill
  <2> SUFFICES ASSUME LInv, harm = "none", Running, NEW c \in Clients, pc[c] # "idle",
                      handle[c].mutex = current["mutex"], \A p \in Processes : ~CanGo(p)
               PROVE  FALSE
    BY DEF NoStandstill
  <2> PICK m \in Objects : m = current["mutex"]
    BY ObjectTypes DEF LInv, IInv, TInv
  <2>0. /\ Turn(m) /\ OwnTurn /\ Places /\ TurnThere /\ Begun
        /\ Server \in Processes /\ Object(Server, "mutex") = m
        /\ \A d \in Clients : d \in Processes /\ d # Server /\ Object(d, "mutex") = handle[d].mutex
        /\ {"CLIENT_WRITE", "SERVER_READ", "CLIENT_READ", "SERVER_WRITE"} \subseteq Semaphores
    BY TurnsAssumption DEF LInv, IInv, OneTurn, TurnInv, Begun, Processes, Object, Semaphores
  <2>1. pc[Server] = "recv" /\ ~(sem[m]["SERVER_READ"] > 0)
    BY <2>0 DEF CanGo, Awaited, OwnTurn, Places, Running
  <2>2. \A d \in Clients : ~Busy(d, m)
    <3> SUFFICES ASSUME NEW d \in Clients, Busy(d, m) PROVE FALSE
      OBVIOUS
    <3>1. pc[d] = "recv" /\ ~(sem[m]["CLIENT_READ"] > 0)
      BY <2>0 DEF CanGo, Awaited, Busy, InCall, Holding
    <3>2. Underway
      BY <2>0, <3>1 DEF TurnThere, Expecting
    <3> QED BY <2>1, <3>1, <3>2 DEF Underway, Holding
  <2>3. sem[m]["CLIENT_WRITE"] = 1
    BY <2>0, <2>2 DEF TurnThere, Kept
  <2>4. pc[c] = "recv"
    BY <2>0, <2>3 DEF CanGo, Awaited, Places
  <2> QED BY <2>2, <2>4 DEF Busy, InCall
<1> QED BY <1>1, LInvariance, PTL
=============================================================================
