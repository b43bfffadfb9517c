------------------------------ MODULE Filesig ------------------------------
(***************************************************************************)
(* The file and signal transport (src/ipc/filesig.c, make IPC=FILESIG):    *)
(* every process has a file as its inbox, which others append to and it    *)
(* reads from the end, and is told of a message with SIGUSR1.              *)
(*                                                                         *)
(* stdio buffers a message until fclose, which appends it with one write   *)
(* after the lock was released.  Each fseek from the end looks at the      *)
(* length of the file anew; the length for ftruncate is the one that       *)
(* fsize() found before the lock, less the message that was read.  A       *)
(* request of list, buy or get has 5, 8 or 12 bytes, so that an offset may *)
(* fall into another message, or before the file: then ftruncate fails,    *)
(* and the request will be read again.  That is not followed: the model    *)
(* ends where something else than one message is read or cut (garbled).    *)
(***************************************************************************)
EXTENDS Integers, Sequences, SequencesExt

CONSTANTS Clients,   \* clients, named by their process id
          Server,    \* the process id of the server
          Requests,  \* the lengths of requests
          Replies,   \* the lengths of replies
          Faults     \* "stop": the server gets SIGINT; "kill": a process is killed

(* Running clients and the server have different 16-bit ids.               *)
ASSUME FilesigAssumption == /\ Server \notin Clients /\ Faults \subseteq {"stop", "kill"}
                            /\ Requests # {} /\ Replies # {}

Processes == Clients \cup {Server}

(* Who sent a message, whose request it is or answers, and how long it is. *)
Message == [from : Processes, of : Clients, length : Requests \cup Replies]
Nothing == [from |-> Server, of |-> "nobody", length |-> 0]

VARIABLES
  pc,            \* where each process is
  names,         \* the processes whose inbox file is in the directory
  file,          \* file[p]: the messages in p's inbox, oldest first
  lock,          \* lock[p]: the owners of the record lock on p's inbox
  size,          \* size[p]: what fsize() told p
  msg,           \* msg[p]: the message p is reading or has read
  gone,          \* killed processes
  stage, got,    \* history: each client's call, and whose reply its last one returned
  overlapped,    \* history: clients whose call met another client's
  missed,        \* history: processes signalled between fsize() and pause()
  garbled        \* history: whether something else than one message was read or cut

inboxes == <<names, file, lock>>
history == <<stage, got, overlapped>>
vars    == <<pc, names, file, lock, size, msg, gone, stage, got, overlapped, missed, garbled>>

Labels == {"idle", "down", "open", "wlock", "fill", "flush", "notify", "inbox", "stat",
           "empty", "pause", "rlock", "header", "content", "truncate", "close", "act"}

TypeOK ==
  /\ pc \in [Processes -> Labels]
  /\ names \subseteq Processes /\ file \in [Processes -> Seq(Message)]
  /\ lock \in [Processes -> SUBSET Processes]
  /\ size \in [Processes -> Nat] /\ \A c \in Clients : size[c] <= 1
  /\ msg \in [Processes -> [from : Processes, of : Clients \cup {"nobody"},
                            length : Requests \cup Replies \cup {0}]]
  /\ gone \subseteq Processes /\ overlapped \subseteq Clients /\ missed \subseteq Processes
  /\ garbled \in BOOLEAN
  /\ stage \in [Clients -> {"idle", "asked", "served"}]
  /\ got \in [Clients -> Clients \cup {"nobody"}]

Init ==
  /\ pc = [p \in Processes |-> IF p = Server THEN "inbox" ELSE "idle"]
  /\ names = {} /\ file = [p \in Processes |-> <<>>] /\ lock = [p \in Processes |-> {}]
  /\ size = [p \in Processes |-> 0] /\ msg = [p \in Processes |-> Nothing]
  /\ gone = {} /\ overlapped = {} /\ missed = {} /\ garbled = FALSE
  /\ stage = [c \in Clients |-> "idle"] /\ got = [c \in Clients |-> "nobody"]

(* Whom p writes to, and whose request its message is or answers.          *)
Peer(p)    == IF p = Server THEN msg[p].from ELSE Server
Subject(p) == IF p = Server THEN msg[p].of ELSE p

Goto(p, from, to) == ~garbled /\ pc[p] = from /\ pc' = [pc EXCEPT ![p] = to]

(* The length of a message matters when it is in the file.                 *)
Lengths(p) == IF p = Server THEN Replies ELSE Requests
Delivered(p, n) ==
  [file EXCEPT ![Peer(p)] = Append(@, [from |-> p, of |-> Subject(p), length |-> n])]

(* p waits in fcntl for the lock of an inbox that somebody else owns.      *)
Blocked(p) == \/ pc[p] = "wlock" /\ lock[Peer(p)] \ {p} # {}
              \/ pc[p] = "rlock" /\ lock[p] \ {p} # {}
-----------------------------------------------------------------------------
(* ipc_send.                                                               *)

(* fopen "a" makes the file if there is none.                              *)
Open(p) == /\ Goto(p, "open", "wlock")
           /\ names' = names \cup {Peer(p)}
           /\ UNCHANGED <<file, lock, size, msg, gone, history, missed, garbled>>

WLock(p) == /\ Goto(p, "wlock", "fill")
            /\ ~Blocked(p)
            /\ lock' = [lock EXCEPT ![Peer(p)] = @ \cup {p}]
            /\ UNCHANGED <<names, file, size, msg, gone, history, missed, garbled>>

(* The message is in the buffer, and the lock is given back.               *)
Fill(p) == /\ Goto(p, "fill", "flush")
           /\ lock' = [lock EXCEPT ![Peer(p)] = @ \ {p}]
           /\ UNCHANGED <<names, file, size, msg, gone, history, missed, garbled>>

Flush(p) == /\ Goto(p, "flush", "notify")
            /\ \E n \in Lengths(p) : file' = Delivered(p, n)
            /\ UNCHANGED <<names, lock, size, msg, gone, history, missed, garbled>>

(* The signal ends a pause(), and a wait for a lock without the lock.      *)
Woken(q) == IF pc[q] = "pause" THEN {"stat"}
            ELSE IF Blocked(q) THEN {pc[q], IF pc[q] = "wlock" THEN "fill" ELSE "header"}
            ELSE {pc[q]}

(* The server frees the request it answered.                               *)
Notify(p) == /\ ~garbled /\ pc[p] = "notify"
             /\ \E label \in Woken(Peer(p)) :
                  pc' = [pc EXCEPT ![p] = "inbox", ![Peer(p)] = label]
             /\ missed' = IF pc[Peer(p)] = "empty" THEN missed \cup {Peer(p)} ELSE missed
             /\ msg' = [msg EXCEPT ![p] = Nothing]
             /\ UNCHANGED <<inboxes, size, gone, history, garbled>>
-----------------------------------------------------------------------------
(* ipc_recv.                                                               *)

(* mutant: pause() comes before the first look at the inbox *)
OpenInboxPauses(p) == /\ Goto(p, "inbox", "pause")
                      /\ names' = names \cup {p}
                      /\ UNCHANGED <<file, lock, size, msg, gone, history, missed, garbled>>

OpenInbox(p) == /\ Goto(p, "inbox", "stat")
                /\ names' = names \cup {p}
                /\ UNCHANGED <<file, lock, size, msg, gone, history, missed, garbled>>

Stat(p) == /\ Goto(p, "stat", IF file[p] = <<>> THEN "empty" ELSE "rlock")
           /\ size' = [size EXCEPT ![p] = Len(file[p])]
           /\ missed' = missed \ {p}
           /\ UNCHANGED <<inboxes, msg, gone, history, garbled>>

Pause(p) == /\ Goto(p, "empty", "pause")
            /\ UNCHANGED <<inboxes, size, msg, gone, history, missed, garbled>>

RLock(p) == /\ Goto(p, "rlock", "header")
            /\ ~Blocked(p)
            /\ lock' = [lock EXCEPT ![p] = @ \cup {p}]
            /\ UNCHANGED <<names, file, size, msg, gone, history, missed, garbled>>

Headed(p) == LET last == Last(file[p])
             IN  [from |-> last.from, of |-> msg[p].of, length |-> last.length]

ReadHeader(p) == /\ Goto(p, "header", "content")
                 /\ msg' = [msg EXCEPT ![p] = Headed(p)]
                 /\ UNCHANGED <<inboxes, size, gone, history, missed, garbled>>

(* The length in the header tells where the content starts.                *)
ReadContent(p) == /\ Goto(p, "content", "truncate")
                  /\ msg' = [msg EXCEPT ![p].of = Last(file[p]).of]
                  /\ garbled' = (Last(file[p]).length # msg[p].length)
                  /\ UNCHANGED <<inboxes, size, gone, history, missed>>

(* mutant: the message stays in the inbox *)
TruncateNothing(p) == /\ Goto(p, "truncate", "close")
                      /\ UNCHANGED <<inboxes, size, msg, gone, history, missed, garbled>>

(* mutant: the inbox is cut to the size it has now, less the message *)
TruncateLast(p) == /\ Goto(p, "truncate", "close")
                   /\ file' = [file EXCEPT ![p] = Front(@)]
                   /\ UNCHANGED <<names, lock, size, msg, gone, history, missed, garbled>>

(* The cut is where a message starts if the one that ended at the length   *)
(* fsize() found is as long as the one that was read.  Otherwise it falls  *)
(* into a message, or ftruncate fails and the inbox stays as it is.        *)
Aligned(p) == file[p][size[p]].length = msg[p].length

Truncate(p) == /\ Goto(p, "truncate", "close")
               /\ garbled' = ~Aligned(p)
               /\ file' = IF Aligned(p) THEN [file EXCEPT ![p] = SubSeq(@, 1, size[p] - 1)]
                          ELSE file
               /\ UNCHANGED <<names, lock, size, msg, gone, history, missed>>

CloseInbox(p) == /\ Goto(p, "close", "act")
                 /\ lock' = [lock EXCEPT ![p] = @ \ {p}]
                 /\ size' = [size EXCEPT ![p] = 0]
                 /\ UNCHANGED <<names, file, msg, gone, history, missed, garbled>>
-----------------------------------------------------------------------------
(* The two programs.                                                       *)

(* Every lock of a process that ends is given back.                        *)
Unlocked(p) == [q \in Processes |-> lock[q] \ {p}]

(* Who was killed has no call that could be served twice.                  *)
Acted(c) == IF c \in gone THEN stage[c]
            ELSE IF stage[c] = "asked" THEN "served" ELSE "again"

Serve == /\ Goto(Server, "act", "open")
         /\ stage' = [stage EXCEPT ![Subject(Server)] = Acted(Subject(Server))]
         /\ UNCHANGED <<inboxes, size, msg, gone, got, overlapped, missed, garbled>>

(* SIGINT, SIGTERM, at any instruction: ipc_close removes the inbox, and   *)
(* exit() writes out a reply that is in the buffer.  (Bound: the signal    *)
(* does not come between the three fwrites of one reply.)                  *)
Stop == /\ "stop" \in Faults /\ ~garbled /\ pc[Server] # "down"
        /\ pc' = [pc EXCEPT ![Server] = "down"]
        /\ names' = names \ {Server}
        /\ \E n \in Replies :
             file' = [(IF pc[Server] = "flush" THEN Delivered(Server, n) ELSE file)
                        EXCEPT ![Server] = <<>>]
        /\ lock' = [Unlocked(Server) EXCEPT ![Server] = {}]
        /\ size' = [size EXCEPT ![Server] = 0] /\ msg' = [msg EXCEPT ![Server] = Nothing]
        /\ missed' = missed \ {Server}
        /\ UNCHANGED <<gone, history, garbled>>

(* Clients that may have a request in the system: a killed one, for good.  *)
Active == {c \in Clients : pc[c] # "idle" \/ c \in gone}

(* Bound: the id of a killed client is not given out again.                *)
Connect(c) == /\ Goto(c, "idle", "open")
              /\ Server \in names /\ c \notin gone
              /\ stage' = [stage EXCEPT ![c] = "asked"]
              /\ overlapped' = IF Active = {} THEN overlapped
                               ELSE overlapped \cup Active \cup {c}
              /\ UNCHANGED <<inboxes, size, msg, gone, got, missed, garbled>>

(* han_*, ipc_close.  What a call that met another one returned is not     *)
(* recorded in got.                                                        *)
Handle(c) == /\ Goto(c, "act", "idle")
             /\ got' = IF c \in overlapped THEN got ELSE [got EXCEPT ![c] = msg[c].of]
             /\ stage' = [stage EXCEPT ![c] = "idle"]
             /\ overlapped' = overlapped \ {c}
             /\ names' = names \ {c} /\ file' = [file EXCEPT ![c] = <<>>]
             /\ msg' = [msg EXCEPT ![c] = Nothing]
             /\ UNCHANGED <<lock, size, gone, missed, garbled>>

(* Its inbox stays, also the server's: who knows it goes on sending to it. *)
(* Bound: one process is killed.                                           *)
Kill(p) == /\ "kill" \in Faults /\ ~garbled /\ gone = {} /\ pc[p] \notin {"idle", "down"}
           /\ pc' = [pc EXCEPT ![p] = IF p = Server THEN "down" ELSE "idle"]
           /\ gone' = {p}
           /\ stage' = [c \in Clients |-> IF c = p THEN "idle" ELSE stage[c]]
           /\ lock' = Unlocked(p)
           /\ size' = [size EXCEPT ![p] = 0] /\ msg' = [msg EXCEPT ![p] = Nothing]
           /\ missed' = missed \ {p}
           /\ UNCHANGED <<names, file, got, overlapped, garbled>>
-----------------------------------------------------------------------------
Step(p) == \/ Open(p) \/ Fill(p) \/ Flush(p) \/ Notify(p)
           \/ OpenInbox(p) \/ Stat(p) \/ Pause(p)
           \/ ReadHeader(p) \/ ReadContent(p) \/ Truncate(p) \/ CloseInbox(p)

Next == \/ Serve \/ Stop
        \/ \E p \in Processes : Step(p) \/ WLock(p) \/ RLock(p) \/ Kill(p)
        \/ \E c \in Clients : Connect(c) \/ Handle(c)

Spec == Init /\ [][Next]_vars

(* Running processes are scheduled, and record locks queue their waiters.  *)
FairSpec == /\ Spec /\ WF_vars(Serve)
            /\ \A p \in Processes : WF_vars(Step(p)) /\ SF_vars(WLock(p)) /\ SF_vars(RLock(p))
            /\ \A c \in Clients : WF_vars(Handle(c))
-----------------------------------------------------------------------------
(* "This allows recv() to read a single message and truncate the file"     *)
(* (filesig.c:131-133): what ftruncate is about to cut off is the one      *)
(* message that was read.                                                  *)
SingleMessage ==
  \A p \in Processes :
    pc[p] = "truncate" => SubSeq(file[p], size[p], Len(file[p])) = <<msg[p]>>

(* The server acts on a request once, whatever is appended while it reads, *)
(* as long as it cuts its inbox between messages: all it can have read is  *)
(* at or after the length it cuts the inbox to.                            *)
ActsOnce == ~garbled /\ pc[Server] = "act" =>
              \/ msg[Server].of \in gone
              \/ stage[msg[Server].of] = "asked"

(* There is at most one reply to a client, and only while it waits for it: *)
(* none is left for its next call; as long as the server cuts its inbox    *)
(* between messages, as above.                                             *)
Replying(c) == /\ pc[Server] \in {"open", "wlock", "fill", "flush"}
               /\ msg[Server].from = c
Waiting(c)  == pc[c] \in {"open", "wlock", "fill", "flush", "notify", "inbox", "stat",
                          "empty", "pause", "rlock", "header", "content", "truncate"}
RepliesAwaited ==
  ~garbled => \A c \in Clients \ gone :
    Len(file[c]) + (IF Replying(c) THEN 1 ELSE 0) <= (IF Waiting(c) THEN 1 ELSE 0)

(* A call that meets no other comes back, unless the server is down, a     *)
(* signal came between fsize() and pause(), or the inbox is garbled; also  *)
(* after calls that met others and came back, whatever they left in the    *)
(* inboxes.                                                                *)
CallsReturn ==
  \A c \in Clients : pc[c] # "idle" ~>
    pc[c] = "idle" \/ c \in overlapped \/ pc[Server] = "down" \/ missed # {} \/ garbled

(* A call that meets no other gets the reply to its own request; of those  *)
(* that do, the server acts on each once at most, as above.                *)
Calls   == INSTANCE Rpc
RpcSpec == Calls!Spec
=============================================================================
