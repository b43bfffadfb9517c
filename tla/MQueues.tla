------------------------------- MODULE MQueues -------------------------------
(***************************************************************************)
(* The message queue transport (src/ipc/mqueues.c, make IPC=MQUEUES): one  *)
(* System V queue, bounded in bytes, that holds the requests (type 1) and  *)
(* the replies (type: the client's process id), under the loops of         *)
(* src/exe/server.c and src/exe/client.c.                                  *)
(*                                                                         *)
(* msgrcv takes the oldest message of one type, so the queue is a sequence *)
(* per type and the number of units it fills.                              *)
(***************************************************************************)
EXTENDS Integers, Sequences, FiniteSets

CONSTANTS Clients,     \* clients, named by their process id
          Server,      \* the id of the server, 1
          Capacity,    \* units the queue holds (msg_qbytes)
          ListSize,    \* units of a list reply; any other message takes 1
          Faults       \* "stop": the server gets SIGINT; "kill": one process is killed

(* The 16-bit id of a client is neither 0, which msgsnd refuses, nor the   *)
(* server's, and no two clients that run share it.                         *)
ASSUME MQueuesAssumption ==
  /\ Server \notin Clients
  /\ ListSize \in Nat \ {0} /\ Capacity \in Nat /\ ListSize <= Capacity
  /\ Faults \subseteq {"stop", "kill"}

Ids == Clients \cup {Server}

Message == [sender : Ids, kind : {"req", "res"}, of : Clients, size : {1, ListSize}]
Req(c)    == [sender |-> c, kind |-> "req", of |-> c, size |-> 1]
Res(c, n) == [sender |-> Server, kind |-> "res", of |-> c, size |-> n]

VARIABLES
  inbox,      \* inbox[i]: the queued messages of type i, oldest first
  used,       \* units the queued messages fill
  spc, msg,   \* the server: where it is, and its current request or reply
  cpc,        \* where each client is
  attached,   \* attached[c]: c's queue still exists
  gone,       \* ids of killed clients
  killed,     \* a process was killed
  stage, got  \* history: each client's call, and whose reply its last one returned

queue   == <<inbox, used>>
server  == <<spc, msg>>
faulty  == <<gone, killed>>
vars    == <<inbox, used, spc, msg, cpc, attached, gone, killed, stage, got>>

TypeOK ==
  /\ inbox \in [Ids -> Seq(Message)] /\ used \in Int /\ used <= Capacity
  /\ spc \in {"down", "recv", "serve", "send"} /\ msg \in Message \cup {<<>>}
  /\ cpc \in [Clients -> {"idle", "send", "recv"}]
  /\ attached \in [Clients -> BOOLEAN]
  /\ gone \subseteq Clients /\ killed \in BOOLEAN
  /\ stage \in [Clients -> {"idle", "asked", "served", "again"}]
  /\ got \in [Clients -> Clients \cup {"nobody"}]

Empty == [i \in Ids |-> <<>>]

Init ==
  /\ inbox = Empty /\ used = 0
  /\ spc = "recv" /\ msg = <<>>
  /\ cpc = [c \in Clients |-> "idle"]
  /\ attached = [c \in Clients |-> FALSE]
  /\ gone = {} /\ killed = FALSE
  /\ stage = [c \in Clients |-> "idle"] /\ got = [c \in Clients |-> "nobody"]

(* Whose reply m is.                                                       *)
Owner(m) == IF m.kind = "res" THEN m.of ELSE "nobody"

(* msgsnd: waits for room.                                                 *)
msgsnd(to, m) == /\ used + m.size <= Capacity
                 /\ used' = used + m.size
                 /\ inbox' = [inbox EXCEPT ![to] = Append(@, m)]

(* msgrcv: waits for a message of its type.                                *)
msgrcv(type) == /\ inbox[type] # <<>>
                /\ used' = used - Head(inbox[type]).size
                /\ inbox' = [inbox EXCEPT ![type] = Tail(@)]

-----------------------------------------------------------------------------
(* The server: ipc_recv, the action of the request, ipc_send to the sender *)
(* of the request.                                                         *)

SRecv == /\ spc = "recv" /\ spc' = "serve"
         /\ msgrcv(Server)
         /\ msg' = Head(inbox[Server])
         /\ UNCHANGED <<cpc, attached, faulty, stage, got>>

(* Acting twice on one call is no step of Rpc; a killed client's is over.  *)
Acted(c) == IF stage[c] = "asked" THEN "served"
            ELSE IF c \in gone THEN stage[c] ELSE "again"

SServe == /\ spc = "serve" /\ spc' = "send"
          /\ \E n \in {1, ListSize} : msg' = Res(msg.sender, n)
          /\ stage' = [stage EXCEPT ![msg.sender] = Acted(msg.sender)]
          /\ UNCHANGED <<queue, cpc, attached, faulty, got>>

(* mutant: the reply is posted as if it were for the server itself *)
SSendToServer == /\ spc = "send" /\ spc' = "recv"
                 /\ msgsnd(Server, msg)
                 /\ msg' = <<>>
                 /\ UNCHANGED <<cpc, attached, faulty, stage, got>>

(* mutant: the reply of the request before is posted again *)
SSendTwice == /\ spc = "send" /\ spc' = "recv"
              /\ used' = used + 2 * msg.size
              /\ inbox' = [inbox EXCEPT ![msg.of] = @ \o <<msg, msg>>]
              /\ msg' = <<>>
              /\ UNCHANGED <<cpc, attached, faulty, stage, got>>

SSend == /\ spc = "send" /\ spc' = "recv"
         /\ msgsnd(msg.of, msg)
         /\ msg' = <<>>
         /\ UNCHANGED <<cpc, attached, faulty, stage, got>>

(* mutant: the exit handler leaves the queue *)
SStopKeepsQueue == /\ "stop" \in Faults /\ spc # "down"
                   /\ spc' = "down" /\ msg' = <<>>
                   /\ UNCHANGED <<queue, attached, cpc, faulty, stage, got>>

(* SIGINT, SIGTERM: ipc_close removes the queue; whoever waits on it fails. *)
SStop == /\ "stop" \in Faults /\ spc # "down"
         /\ spc' = "down" /\ msg' = <<>>
         /\ inbox' = Empty /\ used' = 0
         /\ attached' = [c \in Clients |-> FALSE]
         /\ UNCHANGED <<cpc, faulty, stage, got>>

(* SIGKILL: the queue stays, and the request in progress is lost.  Bound:  *)
(* one kill, of a client or of the server.                                 *)
SKill == /\ "kill" \in Faults /\ ~killed /\ spc # "down"
         /\ spc' = "down" /\ msg' = <<>>
         /\ killed' = TRUE
         /\ UNCHANGED <<queue, cpc, attached, gone, stage, got>>

(* ipc_listen: msgget finds the queue under the key, or creates it.        *)
SListen == /\ spc = "down" /\ spc' = "recv"
           /\ UNCHANGED <<queue, msg, cpc, attached, faulty, stage, got>>
-----------------------------------------------------------------------------
(* A client: ipc_connect, ipc_send, ipc_recv.                              *)

(* mutant: a client gets the id of a killed one *)
ConnectReused(c) == /\ cpc[c] = "idle"
                    /\ cpc' = [cpc EXCEPT ![c] = "send"]
                    /\ attached' = [attached EXCEPT ![c] = TRUE]
                    /\ stage' = [stage EXCEPT ![c] = "asked"]
                    /\ UNCHANGED <<queue, server, faulty, got>>

(* Bound: the id of a killed client is not given out again.  (The kernel   *)
(* does so after running through all the others.)                          *)
Connect(c) == /\ cpc[c] = "idle" /\ c \notin gone
              /\ cpc' = [cpc EXCEPT ![c] = "send"]
              /\ attached' = [attached EXCEPT ![c] = TRUE]
              /\ stage' = [stage EXCEPT ![c] = "asked"]
              /\ UNCHANGED <<queue, server, faulty, got>>

CSend(c) == /\ cpc[c] = "send" /\ attached[c]
            /\ msgsnd(Server, Req(c))
            /\ cpc' = [cpc EXCEPT ![c] = "recv"]
            /\ UNCHANGED <<server, attached, faulty, stage, got>>

CRecv(c) == /\ cpc[c] = "recv" /\ attached[c]
            /\ msgrcv(c)
            /\ got' = [got EXCEPT ![c] = Owner(Head(inbox[c]))]
            /\ cpc' = [cpc EXCEPT ![c] = "idle"]
            /\ stage' = [stage EXCEPT ![c] = "idle"]
            /\ UNCHANGED <<server, attached, faulty>>

(* The queue is gone: msgsnd or msgrcv fails, and check() exits.           *)
CFail(c) == /\ cpc[c] # "idle" /\ ~attached[c]
            /\ cpc' = [cpc EXCEPT ![c] = "idle"]
            /\ stage' = [stage EXCEPT ![c] = "idle"]
            /\ UNCHANGED <<queue, server, attached, faulty, got>>

(* What a killed client has queued, and its reply, stay in the queue.      *)
CKill(c) == /\ "kill" \in Faults /\ ~killed /\ cpc[c] # "idle"
            /\ cpc' = [cpc EXCEPT ![c] = "idle"]
            /\ stage' = [stage EXCEPT ![c] = "idle"]
            /\ gone' = gone \cup {c} /\ killed' = TRUE
            /\ UNCHANGED <<queue, server, attached, got>>
-----------------------------------------------------------------------------
Next == \/ SRecv \/ SServe \/ SSend \/ SStop \/ SKill \/ SListen
        \/ \E c \in Clients : Connect(c) \/ CSend(c) \/ CRecv(c) \/ CFail(c) \/ CKill(c)

Spec == Init /\ [][Next]_vars

(* Running processes are scheduled.  The kernel wakes every waiting sender *)
(* when room appears, and a client that retries is eventually first.       *)
FairSpec == /\ Spec
            /\ WF_vars(SRecv \/ SServe) /\ SF_vars(SSend)
            /\ \A c \in Clients : SF_vars(CSend(c)) /\ WF_vars(CRecv(c)) /\ WF_vars(CFail(c))
-----------------------------------------------------------------------------
(* Requests wait under the server's id and a reply under the id of the     *)
(* client that asked for it, never the other way round.                    *)
OwnInbox ==
  /\ \A i \in 1 .. Len(inbox[Server]) : \E c \in Clients : inbox[Server][i] = Req(c)
  /\ \A c \in Clients : \A i \in 1 .. Len(inbox[c]) :
       \E n \in {1, ListSize} : inbox[c][i] = Res(c, n)

(* The messages about client c: its request, queued or being served, and   *)
(* its reply, unsent or queued.                                            *)
InFlight(c) == Cardinality({i \in 1 .. Len(inbox[Server]) : inbox[Server][i].of = c})
               + (IF spc \in {"serve", "send"} /\ msg.of = c THEN 1 ELSE 0)
               + Len(inbox[c])

(* The one process that was killed is the server.                          *)
ServerKilled == killed /\ gone = {}

(* A call that waits for its reply is exactly one message, unless the      *)
(* server was killed with it: none is lost or doubled, and a call never    *)
(* finds one from before.                                                  *)
OneInFlight ==
  \A c \in Clients \ gone :
    /\ InFlight(c) <= 1
    /\ cpc[c] = "recv" /\ attached[c] /\ ~ServerKilled => InFlight(c) = 1
    /\ cpc[c] = "send" => InFlight(c) = 0

(* A call comes back, with a reply or with an error, whatever other client *)
(* is killed, unless the server is down or was killed.                     *)
CallsReturn == \A c \in Clients :
                 cpc[c] # "idle" ~> cpc[c] = "idle" \/ spc = "down" \/ ServerKilled

(* The queue gives every client what Rpc promises, however many call: the  *)
(* reply to its own request, which the server acted on once.               *)
Calls   == INSTANCE Rpc
RpcSpec == Calls!Spec
=============================================================================
