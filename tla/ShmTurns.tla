------------------------------- MODULE ShmTurns -------------------------------
(***************************************************************************)
(* The shared memory prototypes src/ipc/shmsystemv.c and                   *)
(* src/ipc/shmposix.c, which no build includes: one message of memory and  *)
(* four semaphores with which a client writes, the server reads, the       *)
(* server writes and the client reads, in this order, before the next      *)
(* client writes.  Both files run the same protocol on other objects: a    *)
(* System V set, which fails when it is removed, or named POSIX            *)
(* semaphores, which go on without their names.                            *)
(*                                                                         *)
(* They are modelled under the loops of src/exe, like Shmem.  An object    *)
(* that is created under a name for the first time, or again after its     *)
(* name was removed, is empty: a name is a counter of its objects.  POSIX  *)
(* semaphores are opened and removed one by one, a System V set at once.   *)
(***************************************************************************)
EXTENDS Integers, Sequences, FiniteSets

CONSTANTS Clients, Server, Nobody,  \* processes; nobody wrote the memory yet
          MaxStops                  \* bound: how often the server is stopped

ASSUME TurnsAssumption ==
  Server \notin Clients /\ Nobody \notin Clients /\ MaxStops \in Nat

Semaphores == {"CLIENT_WRITE", "SERVER_READ", "CLIENT_READ", "SERVER_WRITE"}
Order      == <<"CLIENT_WRITE", "SERVER_READ", "CLIENT_READ", "SERVER_WRITE">>
Names      == {"mutex", "memory"}
Objects    == 0 .. MaxStops
Processes  == Clients \cup {Server}

Req(c)   == [kind |-> "req", of |-> c]
Res(c)   == [kind |-> "res", of |-> c]
Torn     == [kind |-> "torn", of |-> Nobody]
Contents == {Req(c) : c \in Clients} \cup {Res(c) : c \in Clients} \cup {Torn}

VARIABLES
  build,      \* which of the two files
  current,    \* current[n]: the object behind name n
  sem,        \* sem[k]: the values of the k-th four semaphores
  memory,     \* memory[k]: the content of the k-th segment
  pc, step,   \* where each process is; how far the server is in init_mutex, close_mutex
  handle,     \* handle[c][n]: the object client c opened as n (the last semaphore)
  local,      \* local[p]: the message p's last ipc_recv copied
  stage, got, \* history: the call of each client and what the last one returned
  harm        \* history: whether the turn may be lost, or may be two turns

objects == <<build, current>>
history == <<stage, got, harm>>
vars    == <<build, current, sem, memory, pc, step, handle, local, stage, got, harm>>

ServerLabels == {"down", "init", "recv", "copy", "rpost", "serve",
                 "send", "write", "fill", "spost", "close", "free"}
ClientLabels == {"idle", "open", "mutex", "sem2", "sem3", "sem4", "send", "write", "fill", "spost",
                 "recv", "copy", "rpost", "handle"}

TypeOK ==
  /\ build \in {"systemv", "posix"} /\ current \in [Names -> Objects]
  /\ sem \in [Objects -> [Semaphores -> Nat]] /\ memory \in [Objects -> Contents]
  /\ pc \in [Processes -> ServerLabels \cup ClientLabels]
  /\ step \in 0 .. 3
  /\ handle \in [Clients -> [Names -> Objects]]
  /\ local \in [Processes -> Contents]
  /\ stage \in [Clients -> {"idle", "asked", "served"}]
  /\ got \in [Clients -> Contents] /\ harm \in {"none", "lost", "doubled"}

(* The segment of a System V build was left by whoever used it last.       *)
Init ==
  /\ build \in {"systemv", "posix"} /\ current = [n \in Names |-> 0]
  /\ sem = [k \in Objects |-> [i \in Semaphores |-> 0]]
  /\ memory = [k \in Objects |-> Torn]
  /\ pc = [p \in Processes |-> IF p = Server THEN "down" ELSE "idle"]
  /\ step = 0
  /\ handle = [c \in Clients |-> [n \in Names |-> 0]]
  /\ local = [p \in Processes |-> Torn]
  /\ stage = [c \in Clients |-> "idle"] /\ got = [c \in Clients |-> Torn]
  /\ harm = "none"

(* Only the server removes objects: while it runs, its own are current.    *)
Object(p, n) == IF p = Server THEN current[n] ELSE handle[p][n]

Lost == IF harm = "none" THEN "lost" ELSE harm

Goto(p, from, to) == pc[p] = from /\ pc' = [pc EXCEPT ![p] = to]

(* semop fails on a removed set; sem_wait never fails on a removed name.   *)
Usable(p) == build = "systemv" => Object(p, "mutex") = current["mutex"]

inc(p, i) == /\ Usable(p)
             /\ sem' = [sem EXCEPT ![Object(p, "mutex")][i] = @ + 1]

(* mutant: the wait does not wait *)
decUnchecked(p, i) == /\ Usable(p)
                      /\ sem' = [sem EXCEPT ![Object(p, "mutex")][i] = @ - 1]

(* mutant: the wait does not take the turn *)
decNothing(p, i) == /\ Usable(p) /\ sem[Object(p, "mutex")][i] > 0
                    /\ UNCHANGED sem

dec(p, i) == /\ Usable(p) /\ sem[Object(p, "mutex")][i] > 0
             /\ sem' = [sem EXCEPT ![Object(p, "mutex")][i] = @ - 1]
-----------------------------------------------------------------------------
(* ipc_send and ipc_recv, which client and server share.                   *)

SendWait(p) == /\ Goto(p, "send", "write")
               /\ dec(p, IF p = Server THEN "SERVER_WRITE" ELSE "CLIENT_WRITE")
               /\ UNCHANGED <<objects, memory, step, handle, local, history>>

Write(p) == /\ Goto(p, "write", "fill")
            /\ memory' = [memory EXCEPT ![Object(p, "memory")] = Torn]
            /\ UNCHANGED <<objects, sem, step, handle, local, history>>

Message(p) == IF p = Server THEN Res(local[Server].of) ELSE Req(p)

Fill(p) == /\ Goto(p, "fill", "spost")
           /\ memory' = [memory EXCEPT ![Object(p, "memory")] = Message(p)]
           /\ UNCHANGED <<objects, sem, step, handle, local, history>>

SendPost(p) == /\ Goto(p, "spost", "recv")
               /\ inc(p, IF p = Server THEN "CLIENT_READ" ELSE "SERVER_READ")
               /\ UNCHANGED <<objects, memory, step, handle, local, history>>

RecvWait(p) == /\ Goto(p, "recv", "copy")
               /\ dec(p, IF p = Server THEN "SERVER_READ" ELSE "CLIENT_READ")
               /\ UNCHANGED <<objects, memory, step, handle, local, history>>

Copy(p) == /\ Goto(p, "copy", "rpost")
           /\ local' = [local EXCEPT ![p] = memory[Object(p, "memory")]]
           /\ UNCHANGED <<objects, sem, memory, step, handle, history>>

(* mutant: the server's turn to write is not given *)
RecvPostNothing(p) == /\ Goto(p, "rpost", IF p = Server THEN "serve" ELSE "handle")
                      /\ UNCHANGED <<objects, sem, memory, step, handle, local, history>>

RecvPost(p) == /\ Goto(p, "rpost", IF p = Server THEN "serve" ELSE "handle")
               /\ inc(p, IF p = Server THEN "SERVER_WRITE" ELSE "CLIENT_WRITE")
               /\ UNCHANGED <<objects, memory, step, handle, local, history>>
-----------------------------------------------------------------------------
(* The server.                                                             *)

SListen == /\ Goto(Server, "down", "init")
           /\ UNCHANGED <<objects, sem, memory, step, handle, local, history>>

(* shmposix.c: the values, of a set that may exist, are kept.              *)
PostTurn == /\ build = "posix" /\ Goto(Server, "init", "recv")
            /\ inc(Server, "CLIENT_WRITE")
            /\ UNCHANGED <<objects, memory, step, handle, local, history>>

(* shmsystemv.c: init_mutex sets the values, one by one.  Who waits already *)
(* may have passed the first when the others are reset.                    *)
SetVal ==
  LET i == Order[step + 1]
      k == current["mutex"]
      v == IF i = "CLIENT_WRITE" THEN 1 ELSE 0
  IN  /\ build = "systemv" /\ pc[Server] = "init"
      /\ sem' = [sem EXCEPT ![k][i] = v]
      /\ step' = (step + 1) % 4
      /\ pc' = [pc EXCEPT ![Server] = IF step = 3 THEN "recv" ELSE @]
      /\ harm' = IF sem[k][i] > v THEN Lost ELSE harm
      /\ UNCHANGED <<objects, memory, handle, local, stage, got>>

(* The request is that of a call that waits for its reply, unless a client *)
(* died: c then stands for the next program that calls, if for any.        *)
Awaits(c) == pc[c] = "recv" /\ handle[c].mutex = current["mutex"]

Acted(c) == IF Awaits(c) /\ stage[c] = "asked" THEN "served"
            ELSE IF ~Awaits(c) /\ harm = "lost" THEN stage[c] ELSE "again"

Serve == /\ Goto(Server, "serve", "send")
         /\ stage' = [c \in Clients |-> IF local[Server] = Req(c) THEN Acted(c) ELSE stage[c]]
         /\ UNCHANGED <<objects, sem, memory, step, handle, local, got, harm>>

Running == pc[Server] \notin {"down", "init", "close", "free"}

(* SIGINT or SIGTERM, at any instruction after ipc_listen: ipc_close.      *)
SStop == /\ Running /\ current["mutex"] < MaxStops
         /\ pc' = [pc EXCEPT ![Server] = "close"] /\ local' = [local EXCEPT ![Server] = Torn]
         /\ UNCHANGED <<objects, sem, memory, step, handle, history>>

(* A client that is in its memcpy goes on, in memory the next server may   *)
(* share.                                                                  *)
Copying(c) == pc[c] \in {"write", "fill", "copy"}

(* shmposix.c: close_mutex removes the names of three semaphores ...       *)
Unlink == /\ build = "posix" /\ step < 3 /\ Goto(Server, "close", "close")
          /\ step' = step + 1
          /\ UNCHANGED <<objects, sem, memory, handle, local, history>>

(* ... and of the fourth, or the System V set; then free_memory: the name  *)
(* of the POSIX segment is removed, the System V segment only detached.    *)
CloseMutex == /\ Goto(Server, "close", IF build = "posix" THEN "free" ELSE "down")
              /\ build = "posix" => step = 3
              /\ step' = 0
              /\ current' = [current EXCEPT !["mutex"] = @ + 1]
              /\ harm' = IF build = "systemv" /\ \E c \in Clients : Copying(c)
                         THEN "doubled" ELSE harm
              /\ UNCHANGED <<build, sem, memory, handle, local, stage, got>>

FreeMemory == /\ Goto(Server, "free", "down")
              /\ current' = [current EXCEPT !["memory"] = @ + 1]
              /\ UNCHANGED <<build, sem, memory, step, handle, local, history>>

(* SIGKILL leaves the objects as they are, and the next server adds a turn. *)
SKill == /\ Running
         /\ pc' = [pc EXCEPT ![Server] = "down"] /\ local' = [local EXCEPT ![Server] = Torn]
         /\ harm' = "doubled"
         /\ UNCHANGED <<objects, sem, memory, step, handle, stage, got>>
-----------------------------------------------------------------------------
(* A client.                                                               *)

Connect(c) == /\ Goto(c, "idle", "open")
              /\ stage' = [stage EXCEPT ![c] = "asked"]
              /\ UNCHANGED <<objects, sem, memory, step, handle, local, got, harm>>

(* ipc_connect: the names may change their objects between its two calls.  *)
GetMemory(c) == /\ Goto(c, "open", "mutex")
                /\ handle' = [handle EXCEPT ![c].memory = current["memory"]]
                /\ UNCHANGED <<objects, sem, memory, step, local, history>>

(* The object behind the name of the j-th semaphore.                       *)
Behind(j) == IF pc[Server] = "close" /\ j <= step THEN current["mutex"] + 1
             ELSE current["mutex"]

(* The names may also change theirs between the four sem_open of a client, *)
(* whose objects are then of two servers.                                  *)
Opening == <<"mutex", "sem2", "sem3", "sem4", "send">>

OpenMutex(c) ==
  \E j \in 1 .. 4 :
    /\ Goto(c, Opening[j], IF build = "posix" THEN Opening[j + 1] ELSE "send")
    /\ handle' = [handle EXCEPT ![c].mutex = Behind(j)]
    /\ harm' = IF build = "posix" /\ handle[c].memory # Behind(j) THEN "doubled" ELSE harm
    /\ UNCHANGED <<objects, sem, memory, step, local, stage, got>>

CEnd(c) == /\ pc' = [pc EXCEPT ![c] = "idle"]
           /\ stage' = [stage EXCEPT ![c] = "idle"]
           /\ local' = [local EXCEPT ![c] = Torn]
           /\ UNCHANGED <<objects, sem, memory, step, handle>>

Handle(c) == /\ pc[c] = "handle" /\ CEnd(c)
             /\ got' = [got EXCEPT ![c] = local[c]]
             /\ UNCHANGED harm

(* semop on a removed set: fatal().                                        *)
Fail(c) == /\ build = "systemv" /\ pc[c] \in {"send", "spost", "recv", "rpost"}
           /\ ~Usable(c)
           /\ CEnd(c) /\ UNCHANGED <<got, harm>>

(* Turns of semaphores that lost their names are nobody's loss.            *)
HasTurn(c) == /\ pc[c] \in {"write", "fill", "spost", "recv", "copy", "rpost"}
              /\ handle[c].mutex = current["mutex"]

(* SIGKILL, or SIGINT: handle_signal only exits in a client.               *)
Die(c) == /\ pc[c] # "idle" /\ CEnd(c)
          /\ harm' = IF HasTurn(c) THEN Lost ELSE harm
          /\ UNCHANGED got
-----------------------------------------------------------------------------
ServerStep == SetVal \/ PostTurn \/ Serve \/ Unlink \/ CloseMutex \/ FreeMemory

(* Every wait but a client's for its turn has one process that waits.      *)
Run(p) == \/ Write(p) \/ Fill(p) \/ SendPost(p) \/ RecvWait(p) \/ Copy(p) \/ RecvPost(p)
          \/ p = Server /\ (SendWait(p) \/ ServerStep)
          \/ p # Server /\ (GetMemory(p) \/ OpenMutex(p) \/ Handle(p) \/ Fail(p))

(* There is one turn, unless a server was killed, or stopped while a client *)
(* was in a memcpy, or a client opened the memory and four semaphores of    *)
(* two servers.  Nothing is claimed of what happens then, and the model     *)
(* ends.                                                                   *)
OneTurn == harm # "doubled"

Next == /\ OneTurn
        /\ \/ \E p \in Processes : Run(p)
           \/ SListen \/ SStop \/ SKill
           \/ \E c \in Clients : Connect(c) \/ SendWait(c) \/ Die(c)

Spec == Init /\ [][Next]_vars

(* semop queues its waiters; sem_wait does not.                            *)
FairSpec == /\ Spec /\ \A p \in Processes : WF_vars(Run(p))
            /\ \A c \in Clients : SF_vars(build = "systemv" /\ SendWait(c))
-----------------------------------------------------------------------------
(* The server acts on whole requests only; what its loop does with anything *)
(* else is therefore left out.                                             *)
RequestIntact ==
  OneTurn /\ pc[Server] = "serve" => \E c \in Clients : local[Server] = Req(c)

(* Messages somebody may write or read, or that wait for their reader.     *)
Unread(k) ==
  Cardinality({p \in Processes : pc[p] \in {"write", "fill", "spost", "copy"}
                                 /\ Object(p, "mutex") = k})
  + sem[k]["SERVER_READ"] + sem[k]["CLIENT_READ"]

(* The four semaphores keep what shmem.c:132 says of its three: one message *)
(* at a time, however many clients call at once; and nobody writes while    *)
(* somebody reads.                                                         *)
MaxOneMessage == OneTurn => \A k \in Objects : Unread(k) <= 1

(* A call returns or fails.  In shmposix.c a client may wait for ever for  *)
(* its turn, while others call, or on objects that lost their names.       *)
CallsReturn ==
  \A c \in Clients :
    pc[c] # "idle" ~> \/ pc[c] = "idle" \/ pc[Server] = "down" \/ harm # "none"
                      \/ build = "posix" /\ (pc[c] = "send" \/ handle[c] # current)

(* Calls that run at once implement Rpc, too.                              *)
Owner(content) == IF content.kind = "res" THEN content.of ELSE "nobody"
Calls   == INSTANCE Rpc WITH got <- [c \in Clients |-> Owner(got[c])]
RpcSpec == Calls!Spec
=============================================================================
