-------------------------------- MODULE Shmem --------------------------------
(***************************************************************************)
(* The shared memory transport (src/ipc/shmem.c, make IPC=SHMEM): one      *)
(* segment that holds one message, and three System V semaphores, under    *)
(* the loops of src/exe/server.c and src/exe/client.c.                     *)
(*                                                                         *)
(* A message is abstracted to its kind and the client it is about; Torn is *)
(* what a reader finds while a memcpy into the segment is in progress.     *)
(***************************************************************************)
EXTENDS Integers, FiniteSets

CONSTANTS Clients,   \* client programs; each runs one call after another
          Server,    \* the sender of a reply
          Nobody,    \* the sender in a segment nobody wrote yet
          Faults     \* "stop": the server gets SIGINT; "kill": the server is killed;
                     \* "die": a client is killed, or interrupted from the terminal.
                     \* A server that went down may be started again.

ASSUME ShmemAssumption ==
  /\ Server \notin Clients /\ Nobody \notin Clients
  /\ Faults \subseteq {"stop", "kill", "die"}

Req(c)   == [kind |-> "req", of |-> c]
Res(c)   == [kind |-> "res", of |-> c]
Torn     == [kind |-> "torn", of |-> Nobody]
Contents == {Req(c) : c \in Clients} \cup {Res(c) : c \in Clients} \cup {Torn}
Messages == [sender : Clients \cup {Server, Nobody}, content : Contents]

VARIABLES
  sem,        \* the values of the three semaphores behind the server's key
  memory,     \* the message in the segment
  spc, msg,   \* the server: where it is, and the local copy of its ipc_recv
  cpc,        \* where each client is
  attached,   \* attached[c]: c's semaphore set is still the one behind the key
  stage, got, \* history: the call of each client and what its last one returned
  disturbed,  \* history: clients whose call met another one, or some harm
  dead,       \* history: who was killed since the semaphores were created
  strayed     \* history: the last SIGINT came while some client was in its memcpy

server  == <<spc, msg>>
faults  == <<dead, strayed>>
history == <<stage, got, disturbed>>
vars    == <<sem, memory, spc, msg, cpc, attached, stage, got, disturbed, dead, strayed>>

Semaphores   == {"CLIENT_CAN_WRITE", "SERVER_CAN_READ", "CLIENT_CAN_READ"}
ServerLabels == {"down", "open", "await", "copy", "serve", "write", "fill", "emit"}
ClientLabels == {"idle", "cw", "write", "fill", "emit", "cr", "copy"}

TypeOK ==
  /\ sem \in [Semaphores -> Nat]
  /\ memory \in Messages /\ msg \in Messages
  /\ spc \in ServerLabels /\ cpc \in [Clients -> ClientLabels]
  /\ attached \in [Clients -> BOOLEAN]
  /\ stage \in [Clients -> {"idle", "asked", "served", "again"}]
  /\ got \in [Clients -> Contents]
  /\ disturbed \subseteq Clients
  /\ dead \in {"nobody", "client", "server"} /\ strayed \in BOOLEAN

Closed == [i \in Semaphores |-> 0]
Empty  == [sender |-> Nobody, content |-> Torn]

(* The server has just opened a new set: its values start at 0.            *)
Init ==
  /\ sem = Closed /\ memory = Empty
  /\ spc = "open" /\ msg = Empty
  /\ cpc = [c \in Clients |-> "idle"]
  /\ attached = [c \in Clients |-> FALSE]
  /\ stage = [c \in Clients |-> "idle"] /\ got = [c \in Clients |-> Torn]
  /\ disturbed = {} /\ dead = "nobody" /\ strayed = FALSE

emit(i)  == sem' = [sem EXCEPT ![i] = @ + 1]

(* mutant: a semop that does not wait (the value goes below 0)             *)
awaitUnchecked(i) == sem' = [sem EXCEPT ![i] = @ - 1]

await(i) == sem[i] > 0 /\ sem' = [sem EXCEPT ![i] = @ - 1]

ServerGoto(from, to) == spc = from /\ spc' = to
ClientGoto(c, from, to) == cpc[c] = from /\ cpc' = [cpc EXCEPT ![c] = to]
-----------------------------------------------------------------------------
(* The server's loop: ipc_recv, the request's action, ipc_send.            *)

SOpen == /\ ServerGoto("open", "await")
         /\ emit("CLIENT_CAN_WRITE")
         /\ UNCHANGED <<memory, msg, cpc, attached, history, faults>>

(* mutant: the wake-up is not consumed *)
SAwaitPeek == /\ ServerGoto("await", "copy")
              /\ sem["SERVER_CAN_READ"] > 0
              /\ UNCHANGED <<sem, memory, msg, cpc, attached, history, faults>>

SAwait == /\ ServerGoto("await", "copy")
          /\ await("SERVER_CAN_READ")
          /\ UNCHANGED <<memory, msg, cpc, attached, history, faults>>

SCopy == /\ ServerGoto("copy", "serve")
         /\ msg' = memory
         /\ UNCHANGED <<sem, memory, cpc, attached, history, faults>>

(* Acting twice on a call that meets no other is no step of Rpc.  For the  *)
(* others, it may be the request of an earlier call of the same client.    *)
Acted(c) == IF stage[c] = "asked" THEN "served"
            ELSE IF stage[c] = "idle" \/ c \in disturbed THEN stage[c] ELSE "again"

(* res_movie_list, res_buy_ticket or res_get_ticket acts on the request,   *)
(* or on whatever looks like one.                                          *)
SServe == /\ ServerGoto("serve", "write")
          /\ stage' = [c \in Clients |-> IF msg.content = Req(c) THEN Acted(c) ELSE stage[c]]
          /\ UNCHANGED <<sem, memory, msg, cpc, attached, got, disturbed, faults>>

(* The type of what was read is none of the three: no reply.               *)
SBadReq == /\ ServerGoto("serve", "open")
           /\ msg.content.kind # "req"
           /\ UNCHANGED <<sem, memory, msg, cpc, attached, history, faults>>

(* ipc_send does not look at its recipient.                                *)
SWrite == /\ ServerGoto("write", "fill")
          /\ memory' = [sender |-> Server, content |-> Torn]
          /\ UNCHANGED <<sem, msg, cpc, attached, history, faults>>

(* A reply to what was no request is about nobody.                         *)
Reply == IF msg.content.kind = "req" THEN Res(msg.content.of) ELSE Torn

SFill == /\ ServerGoto("fill", "emit")
         /\ memory' = [memory EXCEPT !.content = Reply]
         /\ UNCHANGED <<sem, msg, cpc, attached, history, faults>>

(* mutant: the reply wakes up a writer instead of the reader *)
SEmitWrongSemaphore == /\ ServerGoto("emit", "open")
                       /\ emit("CLIENT_CAN_WRITE")
                       /\ UNCHANGED <<memory, msg, cpc, attached, history, faults>>

(* The server does not wait for the reply to be read.                      *)
SEmit == /\ ServerGoto("emit", "open")
         /\ emit("CLIENT_CAN_READ")
         /\ UNCHANGED <<memory, msg, cpc, attached, history, faults>>

(* The semaphores or the segment hold what no running process accounts for. *)
Harmed  == dead # "nobody" \/ strayed
Callers == {c \in Clients : cpc[c] # "idle"}

Down == /\ spc # "down"
        /\ spc' = "down" /\ msg' = Empty

Writing(c) == cpc[c] \in {"write", "fill"}

(* mutant: the exit handler leaves the semaphores as they are *)
SStopKeepsSet == /\ "stop" \in Faults /\ Down
                 /\ dead' = "nobody" /\ strayed' = \E c \in Clients : Writing(c)
                 /\ UNCHANGED <<sem, attached, memory, cpc, history>>

(* SIGINT or SIGTERM, at any instruction: ipc_close removes the semaphore  *)
(* set, and the next semget under the key creates one with values 0.  The  *)
(* segment is only detached: a client that is in its memcpy goes on.       *)
SStop == /\ "stop" \in Faults /\ Down
         /\ sem' = Closed
         /\ attached' = [c \in Clients |-> FALSE]
         /\ dead' = "nobody" /\ strayed' = \E c \in Clients : Writing(c)
         /\ UNCHANGED <<memory, cpc, history>>

(* SIGKILL leaves the semaphores as they are.                              *)
(* Bound: one process is killed in the life of a semaphore set.            *)
SKill == /\ "kill" \in Faults /\ dead = "nobody" /\ Down
         /\ dead' = "server" /\ disturbed' = disturbed \cup Callers
         /\ UNCHANGED <<sem, attached, memory, cpc, stage, got, strayed>>

(* ipc_listen: the set may already exist, from clients that came first or  *)
(* from a server that was killed.                                          *)
SListen == /\ ServerGoto("down", "open")
           /\ UNCHANGED <<sem, memory, msg, cpc, attached, history, faults>>
-----------------------------------------------------------------------------
(* A client: ipc_connect, ipc_send, ipc_recv.                              *)

Connect(c) ==
  /\ ClientGoto(c, "idle", "cw")
  /\ attached' = [attached EXCEPT ![c] = TRUE]
  /\ stage' = [stage EXCEPT ![c] = "asked"]
  /\ disturbed' = IF Callers = {} /\ ~Harmed THEN disturbed
                  ELSE disturbed \cup Callers \cup {c}
  /\ UNCHANGED <<sem, memory, server, got, faults>>

CAwaitWrite(c) == /\ attached[c] /\ ClientGoto(c, "cw", "write")
                  /\ await("CLIENT_CAN_WRITE")
                  /\ UNCHANGED <<memory, server, attached, history, faults>>

CWrite(c) == /\ ClientGoto(c, "write", "fill")
             /\ memory' = [sender |-> c, content |-> Torn]
             /\ UNCHANGED <<sem, server, attached, history, faults>>

CFill(c) == /\ ClientGoto(c, "fill", "emit")
            /\ memory' = [memory EXCEPT !.content = Req(c)]
            /\ UNCHANGED <<sem, server, attached, history, faults>>

CEmit(c) == /\ attached[c] /\ ClientGoto(c, "emit", "cr")
            /\ emit("SERVER_CAN_READ")
            /\ UNCHANGED <<memory, server, attached, history, faults>>

(* mutant: the client reads without waiting *)
CAwaitReadNothing(c) ==
  /\ attached[c] /\ ClientGoto(c, "cr", "copy")
  /\ UNCHANGED <<sem, memory, server, attached, history, faults>>

(* mutant: the client waits for the reply and leaves the wake-up *)
CAwaitReadPeek(c) ==
  /\ attached[c] /\ ClientGoto(c, "cr", "copy")
  /\ sem["CLIENT_CAN_READ"] > 0
  /\ UNCHANGED <<sem, memory, server, attached, history, faults>>

CAwaitRead(c) == /\ attached[c] /\ ClientGoto(c, "cr", "copy")
                 /\ await("CLIENT_CAN_READ")
                 /\ UNCHANGED <<memory, server, attached, history, faults>>

CEnd(c) == /\ cpc' = [cpc EXCEPT ![c] = "idle"]
           /\ stage' = [stage EXCEPT ![c] = "idle"]
           /\ disturbed' = disturbed \ {c}

(* The client handles whatever the segment holds, and exits.  What a call  *)
(* that was disturbed returns is not recorded in got.                      *)
CCopy(c) == /\ cpc[c] = "copy" /\ CEnd(c)
            /\ got' = IF c \in disturbed THEN got ELSE [got EXCEPT ![c] = memory.content]
            /\ UNCHANGED <<sem, memory, server, attached, faults>>

(* semop on a removed set fails, or is woken up to fail, and check() exits. *)
CFail(c) == /\ ~attached[c] /\ cpc[c] \in {"cw", "emit", "cr"} /\ CEnd(c)
            /\ UNCHANGED <<sem, memory, server, attached, got, faults>>

(* No semaphore operation has SEM_UNDO: what the client took stays taken.  *)
CDie(c) == /\ "die" \in Faults /\ cpc[c] # "idle" /\ CEnd(c)
           /\ dead = "nobody" /\ dead' = "client"
           /\ UNCHANGED <<sem, memory, server, attached, got, strayed>>
-----------------------------------------------------------------------------
ServerStep == SOpen \/ SAwait \/ SCopy \/ SServe \/ SBadReq
              \/ SWrite \/ SFill \/ SEmit

ClientStep(c) == CWrite(c) \/ CFill(c) \/ CEmit(c) \/ CCopy(c) \/ CFail(c)

Next == \/ ServerStep \/ SStop \/ SKill \/ SListen
        \/ \E c \in Clients : \/ Connect(c) \/ CAwaitWrite(c) \/ CAwaitRead(c)
                              \/ ClientStep(c) \/ CDie(c)

Spec == Init /\ [][Next]_vars

(* Running processes are scheduled, and semop queues its waiters: one      *)
(* whose semaphore is positive again and again is woken up.                *)
FairSpec == /\ Spec /\ WF_vars(ServerStep)
            /\ \A c \in Clients : /\ WF_vars(ClientStep(c))
                                  /\ SF_vars(CAwaitWrite(c)) /\ SF_vars(CAwaitRead(c))
-----------------------------------------------------------------------------
(* Who is between its await and the end of its memcpy into or, for the     *)
(* server, out of the segment.                                             *)
Owners == {c \in Clients : Writing(c)}
          \cup (IF spc \in {"copy", "write", "fill"} THEN {Server} ELSE {})

(* There is one turn to write, unless a server was killed, which leaves    *)
(* its turn to the next one, or stopped in the middle of a client's        *)
(* memcpy.  The next SIGINT, which removes the semaphores, ends both.      *)
OneTurn == dead # "server" /\ ~strayed

(* With one turn, nobody writes the segment while another process writes   *)
(* it or the server reads it, whoever was stopped, started again or died   *)
(* before.  (Nothing protects a client that reads: shmem.c:118, 126.)      *)
WriteExclusion == OneTurn => \A p, q \in Owners : p = q

(* What the server copies out is a complete request, written by the client *)
(* whose name is in the header: never a reply, never a mixture, and not    *)
(* what a former server's clients left in the segment.                     *)
RequestIntact ==
  OneTurn /\ spc = "serve" => \E c \in Clients : msg = [sender |-> c, content |-> Req(c)]

(* Messages somebody has begun to write, or that wait for their reader.    *)
Unread == Cardinality({c \in Clients : cpc[c] \in {"fill", "emit", "copy"}})
          + (IF spc \in {"copy", "fill", "emit"} THEN 1 ELSE 0)
          + sem["SERVER_CAN_READ"] + sem["CLIENT_CAN_READ"]

(* "Given the lock scheme, max 1 message is in memory at any time"         *)
(* (shmem.c:132).                                                          *)
MaxOneMessage == Unread <= 1

(* It is so while calls meet no other call, and is so again after calls    *)
(* that did: nothing they left stays in the semaphores.                    *)
SerialOneMessage == disturbed = {} /\ ~Harmed => MaxOneMessage

(* A call comes back, with a reply or with an error, unless the server is  *)
(* down, somebody was killed (what a killed process took is lost), or      *)
(* there may be two turns.                                                 *)
CallsReturn ==
  \A c \in Clients :
    cpc[c] # "idle" ~> cpc[c] = "idle" \/ spc = "down" \/ Harmed

(* A call that meets no other gets what Rpc promises: the reply to its     *)
(* request, which the server acted on once.                                *)
Owner(content) == IF content.kind = "res" THEN content.of ELSE "nobody"
Calls   == INSTANCE Rpc WITH got <- [c \in Clients |-> Owner(got[c])]
RpcSpec == Calls!Spec
=============================================================================
