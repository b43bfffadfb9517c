------------------------------ MODULE Sockets ------------------------------
(***************************************************************************)
(* The socket transport (src/ipc/sockets.c, make IPC=SOCKETS): one TCP     *)
(* connection per call, whose descriptor in the server is the "sender" a   *)
(* reply goes to.  Module Service runs the two programs over it.           *)
(*                                                                         *)
(* The server never closes a connection.  ipc_recv looks at no result:     *)
(* without a connection or after its end it returns what its memory held.  *)
(***************************************************************************)
EXTENDS Integers, Sequences

CONSTANTS Clients,
          Backlog,   \* the argument of listen: who may wait to be accepted
          MaxFds     \* how many connections the server has descriptors for

ASSUME SocketsAssumption == Backlog \in Nat /\ MaxFds \in Nat

VARIABLES conn,      \* all connections, in the order in which they were made
          accepted   \* how many of them the server has accepted

(* Each direction of a connection holds what was written and not yet read; *)
(* a message is its length and its content.                                *)
New(c) == [client |-> c, up |-> <<>>, down |-> <<>>, open |-> TRUE]

Listen == conn = <<>> /\ accepted = 0

(* The connection of c's current call.                                     *)
Mine(c) == CHOOSE i \in DOMAIN conn :
             /\ conn[i].client = c
             /\ \A j \in DOMAIN conn : conn[j].client = c => j <= i

(* ipc_connect: the kernel connects before the server accepts.             *)
Dial(c) == /\ Len(conn) - accepted <= Backlog
           /\ conn' = Append(conn, New(c))
           /\ UNCHANGED accepted

(* ipc_send is two of these.                                               *)
Write(i, way, part) == /\ conn' = [conn EXCEPT ![i][way] = Append(@, part)]
                       /\ UNCHANGED accepted

(* ipc_recv: accept in the server, then the two reads.                     *)
Accept == /\ accepted < MaxFds /\ accepted < Len(conn)
          /\ accepted' = accepted + 1
          /\ UNCHANGED conn

NoDescriptor == accepted = MaxFds

Complete(i, way) == Len(conn[i][way]) = 2

Consume(i, way) == conn' = [conn EXCEPT ![i][way] = <<>>] /\ UNCHANGED accepted

(* The client's ipc_close, or its exit; what it did not read is gone.      *)
Hangup(i) == /\ conn' = [conn EXCEPT ![i].open = FALSE, ![i].down = <<>>]
             /\ UNCHANGED accepted
=============================================================================
