-------------------------------- MODULE Fifo --------------------------------
(***************************************************************************)
(* The named pipe transport (src/ipc/fifo.c, make IPC=FIFOS): every        *)
(* process has a FIFO as its inbox and a semaphore that its senders take   *)
(* in turn.  Server and clients run the same ipc_send and ipc_recv.        *)
(*                                                                         *)
(* A FIFO has contents only while somebody has it open: the last close     *)
(* discards them, and both functions open it, use it and close it.         *)
(***************************************************************************)
EXTENDS Integers, Sequences, FiniteSets

CONSTANTS Clients,   \* clients, named by their process id
          Server,    \* the process id of the server
          Faults     \* "stop": the server gets SIGINT; "kill": a process is killed

(* Running clients and the server have different 16-bit ids.               *)
ASSUME FifoAssumption == Server \notin Clients /\ Faults \subseteq {"stop", "kill"}

Processes == Clients \cup {Server}

(* A message is two writes: who sent it and how long it is, and a content, *)
(* which is about client `of'.  (A content above PIPE_BUF is not modelled: *)
(* its write and its read could be split.)                                 *)
Part == [part : {"header", "content"}, from : Processes, of : Clients]

NoSet == -1   \* the value of a semaphore set that does not exist

VARIABLES
  pc,         \* where each process is
  fifo,       \* the processes whose FIFO has a name in the directory
  data,       \* data[p]: the parts in p's inbox, oldest first
  users,      \* users[p]: who has p's inbox open
  sem,        \* sem[p]: the semaphore of p's inbox
  stale,      \* processes whose semaphore handle is of a removed set
  read,       \* read[p]: the parts p has read in its current ipc_recv
  gone,       \* killed processes
  lost,       \* history: clients some message about whom was discarded
  stage, got  \* history: each client's call, and whose reply its last one returned

pipes   == <<fifo, data, users, lost>>
locks   == <<sem, stale>>
history == <<stage, got>>
vars    == <<pc, fifo, data, users, sem, stale, read, gone, lost, stage, got>>

Labels == {"idle", "down", "create", "semget", "setval",
           "getlock", "acquire", "open", "header", "content", "release", "close",
           "inbox", "readHeader", "readContent", "closeInbox", "act"}

TypeOK ==
  /\ pc \in [Processes -> Labels]
  /\ fifo \subseteq Processes /\ data \in [Processes -> Seq(Part)]
  /\ users \in [Processes -> SUBSET Processes]
  /\ sem \in [Processes -> {NoSet, 0, 1}] /\ stale \subseteq Processes
  /\ read \in [Processes -> Seq(Part)]
  /\ gone \subseteq Processes /\ lost \subseteq Clients
  /\ stage \in [Clients -> {"idle", "asked", "served"}]
  /\ got \in [Clients -> Clients \cup {"nobody"}]

Init ==
  /\ pc = [p \in Processes |-> IF p = Server THEN "create" ELSE "idle"]
  /\ fifo = {} /\ data = [p \in Processes |-> <<>>] /\ users = [p \in Processes |-> {}]
  /\ sem = [p \in Processes |-> NoSet] /\ stale = {}
  /\ read = [p \in Processes |-> <<>>]
  /\ gone = {} /\ lost = {}
  /\ stage = [c \in Clients |-> "idle"] /\ got = [c \in Clients |-> "nobody"]

(* Whom p writes to: a client to the server, the server to the sender in   *)
(* the header it read.  And whom the content is about.                     *)
Peer(p)    == IF p = Server THEN read[p][1].from ELSE Server
Subject(p) == IF p = Server THEN read[p][2].of ELSE p

Goto(p, from, to) == pc[p] = from /\ pc' = [pc EXCEPT ![p] = to]

(* p's use of some inboxes ends.  One that nobody has open keeps no data.  *)
Used(byNow) ==
  /\ users' = byNow
  /\ data' = [q \in Processes |-> IF byNow[q] = {} THEN <<>> ELSE data[q]]
  /\ lost' = lost \cup {c \in Clients : \E q \in Processes :
                 byNow[q] = {} /\ \E i \in 1 .. Len(data[q]) : data[q][i].of = c}

CloseOne(p, q) == Used([users EXCEPT ![q] = @ \ {p}])
CloseAll(p)    == Used([q \in Processes |-> users[q] \ {p}])

(* Who has looked up the semaphore of q's inbox and not released it yet.   *)
Handles(q) == {p \in Processes \ {q} :
                 pc[p] \in {"acquire", "open", "header", "content", "release"} /\ Peer(p) = q}

(* ipc_close: the semaphore, the inbox and its lock file are removed.      *)
Remove(p) == /\ sem' = [sem EXCEPT ![p] = NoSet]
             /\ stale' = (stale \ {p}) \cup Handles(p)
             /\ fifo' = fifo \ {p}
-----------------------------------------------------------------------------
(* ipc_send.                                                               *)

(* mutant: getlock, not ipc_create, sets the semaphore to 1 *)
GetlockSets(p) == /\ Goto(p, "getlock", "acquire")
                  /\ sem' = [sem EXCEPT ![Peer(p)] = 1]
                  /\ stale' = stale \ {p}
                  /\ UNCHANGED <<pipes, read, gone, history>>

(* getlock: semget finds the semaphore or creates one with value 0.        *)
Getlock(p) == /\ Goto(p, "getlock", "acquire")
              /\ sem' = [sem EXCEPT ![Peer(p)] = IF @ = NoSet THEN 0 ELSE @]
              /\ stale' = stale \ {p}
              /\ UNCHANGED <<pipes, read, gone, history>>

(* mutant: the semaphore is not waited for *)
AcquireNothing(p) == /\ Goto(p, "acquire", "open")
                     /\ UNCHANGED <<pipes, locks, read, gone, history>>

Acquire(p) == /\ Goto(p, "acquire", "open")
              /\ p \notin stale /\ sem[Peer(p)] > 0
              /\ sem' = [sem EXCEPT ![Peer(p)] = @ - 1]
              /\ UNCHANGED <<pipes, stale, read, gone, history>>

Open(p) == /\ Goto(p, "open", "header")
           /\ Peer(p) \in fifo
           /\ users' = [users EXCEPT ![Peer(p)] = @ \cup {p}]
           /\ UNCHANGED <<fifo, data, lost, locks, read, gone, history>>

(* A write into a FIFO that lost its name since reaches nobody.            *)
Write(p, part) ==
  /\ data' = IF p \in users[Peer(p)]
             THEN [data EXCEPT ![Peer(p)] =
                     Append(@, [part |-> part, from |-> p, of |-> Subject(p)])]
             ELSE data
  /\ UNCHANGED <<fifo, users, lost, locks, read, gone, history>>

WriteHeader(p)  == Goto(p, "header", "content") /\ Write(p, "header")
WriteContent(p) == Goto(p, "content", "release") /\ Write(p, "content")

(* mutant: the semaphore is not given back *)
ReleaseNothing(p) == /\ Goto(p, "release", "close")
                     /\ UNCHANGED <<pipes, locks, read, gone, history>>

Release(p) == /\ Goto(p, "release", "close")
              /\ p \notin stale
              /\ sem' = [sem EXCEPT ![Peer(p)] = @ + 1]
              /\ UNCHANGED <<pipes, stale, read, gone, history>>

(* The server frees the request it answered.                               *)
Close(p) == /\ Goto(p, "close", "inbox")
            /\ CloseOne(p, Peer(p))
            /\ read' = IF p = Server THEN [read EXCEPT ![p] = <<>>] ELSE read
            /\ UNCHANGED <<fifo, locks, gone, history>>
-----------------------------------------------------------------------------
(* ipc_recv.                                                               *)

OpenInbox(p) == /\ Goto(p, "inbox", "readHeader")
                /\ users' = [users EXCEPT ![p] = @ \cup {p}]
                /\ UNCHANGED <<fifo, data, lost, locks, read, gone, history>>

(* read() waits for a part.                                                *)
Read(p) == /\ data[p] # <<>>
           /\ read' = [read EXCEPT ![p] = Append(@, Head(data[p]))]
           /\ data' = [data EXCEPT ![p] = Tail(@)]
           /\ UNCHANGED <<fifo, users, lost, locks, gone, history>>

ReadHeader(p)  == Goto(p, "readHeader", "readContent") /\ Read(p)
ReadContent(p) == Goto(p, "readContent", "closeInbox") /\ Read(p)

CloseInbox(p) == /\ Goto(p, "closeInbox", "act")
                 /\ CloseOne(p, p)
                 /\ UNCHANGED <<fifo, locks, read, gone, history>>
-----------------------------------------------------------------------------
(* The server: ipc_create in three steps, then its loop.                   *)

Mkfifo == /\ Goto(Server, "create", "semget")
          /\ fifo' = fifo \cup {Server}
          /\ UNCHANGED <<data, users, lost, locks, read, gone, history>>

Semget == /\ Goto(Server, "semget", "setval")
          /\ sem' = [sem EXCEPT ![Server] = IF @ = NoSet THEN 0 ELSE @]
          /\ UNCHANGED <<pipes, stale, read, gone, history>>

Setval == /\ Goto(Server, "setval", "inbox")
          /\ sem' = [sem EXCEPT ![Server] = 1]
          /\ UNCHANGED <<pipes, stale, read, gone, history>>

(* Acting twice on one call is no step of Rpc; a killed client's is over.  *)
Acted(c) == IF stage[c] = "asked" THEN "served"
            ELSE IF c \in gone THEN "idle" ELSE "again"

Serve == /\ Goto(Server, "act", "getlock")
         /\ stage' = [stage EXCEPT ![Subject(Server)] = Acted(Subject(Server))]
         /\ UNCHANGED <<pipes, locks, read, gone, got>>

(* SIGINT, SIGTERM, at any instruction after ipc_create: ipc_close, exit.  *)
Stop == /\ "stop" \in Faults /\ pc[Server] \notin {"create", "semget", "setval", "down"}
        /\ pc' = [pc EXCEPT ![Server] = "down"]
        /\ Remove(Server)
        /\ Used([q \in Processes |-> IF q = Server THEN {} ELSE users[q] \ {Server}])
        /\ read' = [read EXCEPT ![Server] = <<>>]
        /\ UNCHANGED <<gone, history>>
-----------------------------------------------------------------------------
(* A client: ipc_connect and ipc_create, ipc_send, ipc_recv, its handler   *)
(* and ipc_close.                                                          *)

(* Bound: the id of a killed client is not given out again.  Nobody looks  *)
(* up the semaphore of a client before it has sent its request.            *)
Connect(c) == /\ Goto(c, "idle", "getlock")
              /\ Server \in fifo /\ c \notin gone
              /\ fifo' = fifo \cup {c}
              /\ sem' = [sem EXCEPT ![c] = 1]
              /\ stage' = [stage EXCEPT ![c] = "asked"]
              /\ UNCHANGED <<data, users, lost, stale, read, gone, got>>

Handle(c) == /\ Goto(c, "act", "idle")
             /\ got' = [got EXCEPT ![c] =
                          IF read[c][2].from = Server THEN read[c][2].of ELSE "nobody"]
             /\ stage' = [stage EXCEPT ![c] = "idle"]
             /\ Remove(c)
             /\ Used([users EXCEPT ![c] = {}])
             /\ read' = [read EXCEPT ![c] = <<>>]
             /\ UNCHANGED gone

(* The kernel closes what the process had open; its inbox and its          *)
(* semaphores stay, and one it had acquired stays taken.                   *)
Exit(p) == /\ pc' = [pc EXCEPT ![p] = IF p = Server THEN "down" ELSE "idle"]
           /\ stage' = [c \in Clients |-> IF c = p THEN "idle" ELSE stage[c]]
           /\ CloseAll(p)
           /\ read' = [read EXCEPT ![p] = <<>>]
           /\ UNCHANGED <<fifo, locks, got>>

(* The semaphore was removed, or the inbox: check() exits.                 *)
Fail(p) == /\ \/ pc[p] \in {"acquire", "release"} /\ p \in stale
              \/ pc[p] = "open" /\ Peer(p) \notin fifo
           /\ Exit(p) /\ UNCHANGED gone

(* Bound: one process is killed.                                           *)
Kill(p) == /\ "kill" \in Faults /\ gone = {} /\ pc[p] \notin {"idle", "down"}
           /\ Exit(p) /\ gone' = {p}
-----------------------------------------------------------------------------
Step(p) == \/ Getlock(p) \/ Open(p) \/ WriteHeader(p) \/ WriteContent(p) \/ Release(p)
           \/ Close(p) \/ OpenInbox(p) \/ ReadHeader(p) \/ ReadContent(p) \/ CloseInbox(p)
           \/ Fail(p)

ServerStep == Mkfifo \/ Semget \/ Setval \/ Serve

Next == \/ ServerStep \/ Stop
        \/ \E p \in Processes : Step(p) \/ Acquire(p) \/ Kill(p)
        \/ \E c \in Clients : Connect(c) \/ Handle(c)

Spec == Init /\ [][Next]_vars

(* Running processes are scheduled, and semop queues its waiters.          *)
FairSpec == /\ Spec /\ WF_vars(ServerStep)
            /\ \A p \in Processes : WF_vars(Step(p)) /\ SF_vars(Acquire(p))
            /\ \A c \in Clients : WF_vars(Handle(c))
-----------------------------------------------------------------------------
(* Between acquire and release there is one sender to an inbox, from the   *)
(* moment its semaphore is created, whoever creates it (fifo.c:29, 79).    *)
OneSender ==
  \A p, q \in Processes :
    ( /\ {pc[p], pc[q]} \subseteq {"open", "header", "content", "release"}
      /\ {p, q} \cap stale = {} /\ Peer(p) = Peer(q) ) => p = q

(* A process takes the header and the content of one message out of its    *)
(* inbox, one that was sent to it, however many clients send and die.      *)
WholeMessages ==
  \A p \in Processes :
    /\ read[p] # <<>> => read[p][1].part = "header"
    /\ Len(read[p]) = 2 =>
         /\ read[p][2] = [read[p][1] EXCEPT !.part = "content"]
         /\ IF p = Server THEN read[p][1].from = read[p][1].of
                          ELSE read[p][1].from = Server /\ read[p][1].of = p

(* A call comes back if no message about it was discarded, no client was   *)
(* killed and the server runs: nothing else can stop it, in particular no  *)
(* other client whose message was discarded.                               *)
CallsReturn ==
  \A c \in Clients : pc[c] # "idle" ~>
    pc[c] = "idle" \/ c \in lost \/ gone # {} \/ pc[Server] = "down"

(* What a client gets is the reply to its own request, which the server    *)
(* acted on once.                                                          *)
Calls   == INSTANCE Rpc
RpcSpec == Calls!Spec

(* client -> request(), server -> response(), client -> handler(): the     *)
(* flow at the top of inc/actions.h, with nobody stopped or killed.        *)
FlowCompletes == \A c \in Clients : pc[c] # "idle" ~> pc[c] = "idle" \/ pc[Server] = "down"

(* The server runs until somebody stops it: test.sh stops it after three   *)
(* calls, and fails if it is gone or exits with a code other than 0.       *)
ServerStaysUp == pc[Server] # "down"
=============================================================================
