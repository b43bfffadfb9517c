----------------------------- MODULE FilesigProofs -----------------------------
(***************************************************************************)
(* Theorems about the file and signal transport, for any number of clients *)
(* that run at once, when the server is stopped or a process is killed, as *)
(* long as what is read and cut is one message (~garbled).                 *)
(***************************************************************************)
EXTENDS Filesig, TLAPS

(* What is read of a message so far.                                       *)
Reading == [from : Processes, of : Clients \cup {"nobody"}, length : Requests \cup Replies \cup {0}]

(* A request of c is in the server's inbox, or the server has read it, in  *)
(* part at least: the header of one can go with the content of another.    *)
Queued(c) == \E i \in DOMAIN file[Server] : file[Server][i].of = c
Header(c)  == pc[Server] \in {"content", "truncate", "close", "act"} /\ msg[Server].from = c
Content(c) == pc[Server] \in {"truncate", "close", "act"} /\ msg[Server].of = c
Taken(c)   == Header(c) \/ Content(c)

(* The client has sent its request and waits for the reply.                *)
Sent(c) == pc[c] \in {"notify", "inbox", "stat", "empty", "pause", "rlock", "header",
                      "content", "truncate"}

(* What the server has measured and read.                                  *)
ServerOK ==
  /\ pc[Server] # "idle"
  /\ \A i \in DOMAIN file[Server] : file[Server][i].from = file[Server][i].of
  /\ pc[Server] \in {"rlock", "header", "content", "truncate"} =>
       1 <= size[Server] /\ size[Server] <= Len(file[Server])
  /\ pc[Server] \in {"content", "truncate", "close", "act", "open", "wlock", "fill", "flush", "notify"} =>
       msg[Server].from \in Clients
  /\ pc[Server] \in {"truncate", "close", "act", "open", "wlock", "fill", "flush"} =>
       msg[Server].of \in Clients

(* What is read is at or after the length that the inbox is cut to.        *)
CutOK ==
  pc[Server] \in {"content", "truncate"} =>
    \A c \in Clients \ gone : \A i \in DOMAIN file[Server] :
      Taken(c) /\ file[Server][i].of = c => size[Server] <= i

(* There is at most one request of a client or one reply to it, after it   *)
(* sent the request and until it cuts the reply from its inbox.            *)
RequestOK ==
  \A c \in Clients \ gone :
    /\ Queued(c) \/ Taken(c) => Sent(c) /\ file[c] = <<>>
    /\ \A i, j \in DOMAIN file[Server] :
         file[Server][i].of = c /\ file[Server][j].of = c => i = j
    /\ Taken(c) /\ pc[Server] \in {"close", "act"} => ~Queued(c)
ReplyOK ==
  \A c \in Clients \ gone :
    /\ Replying(c) => Sent(c) /\ file[c] = <<>> /\ ~Queued(c)
    /\ file[c] # <<>> => Sent(c) /\ Len(file[c]) = 1
    /\ pc[c] \in {"rlock", "header", "content", "truncate"} => file[c] # <<>> /\ size[c] = 1

(* A request that may still be read was not acted on.                      *)
StageOK ==
  \A c \in Clients :
    /\ stage[c] = "idle" <=> pc[c] = "idle"
    /\ c \in gone => pc[c] = "idle"
    /\ c \notin gone /\ (pc[c] \in {"open", "wlock", "fill", "flush"} \/ Queued(c) \/ Content(c))
         => stage[c] = "asked"

(* A call that has met no other is alone, and its reply is its own.        *)
Undisturbed(c) == pc[c] # "idle" /\ c \notin overlapped
AloneOK ==
  \A c \in Clients : Undisturbed(c) => \A d \in Clients \ {c} : pc[d] = "idle" /\ d \notin gone
OwnReplyOK ==
  \A c \in Clients : Undisturbed(c) =>
    /\ Replying(c) => msg[Server].of = c /\ stage[c] = "served"
    /\ file[c] # <<>> => file[c][1].of = c /\ stage[c] = "served"
    /\ pc[c] \in {"truncate", "close", "act"} => msg[c].of = c /\ stage[c] = "served"

IInv == /\ TypeOK /\ ServerOK /\ CutOK /\ RequestOK /\ ReplyOK /\ StageOK
        /\ AloneOK /\ OwnReplyOK
-----------------------------------------------------------------------------
(* What an inbox holds after a message is appended, and after it is cut.   *)
LEMMA Appending ==
  ASSUME NEW s \in Seq(Message), NEW m \in Message
  PROVE  /\ Append(s, m) \in Seq(Message) /\ Len(Append(s, m)) = Len(s) + 1
         /\ Append(s, m) # <<>> /\ Append(s, m)[Len(s) + 1] = m
         /\ DOMAIN Append(s, m) = DOMAIN s \cup {Len(s) + 1}
         /\ \A i \in DOMAIN s : Append(s, m)[i] = s[i] /\ i # Len(s) + 1
  OBVIOUS

LEMMA Cutting ==
  ASSUME NEW s \in Seq(Message), NEW n \in Nat, 1 <= n, n <= Len(s)
  PROVE  /\ SubSeq(s, 1, n - 1) \in Seq(Message) /\ Len(SubSeq(s, 1, n - 1)) = n - 1
         /\ \A i \in DOMAIN SubSeq(s, 1, n - 1) :
              i \in DOMAIN s /\ i < n /\ SubSeq(s, 1, n - 1)[i] = s[i]
         /\ n = 1 => SubSeq(s, 1, n - 1) = <<>>
  OBVIOUS

LEMMA AtMostOne ==
  ASSUME NEW s \in Seq(Message)
  PROVE  /\ Len(s) \in Nat
         /\ s = <<>> \/ Len(s) = 1 => Len(s) <= 1
         /\ s = <<>> <=> Len(s) = 0
  OBVIOUS

LEMMA Lasts ==
  ASSUME NEW s \in Seq(Message), s # <<>>
  PROVE  Len(s) \in DOMAIN s /\ Last(s) = s[Len(s)] /\ Last(s) \in Message /\ 1 <= Len(s)
  BY DEF Last

(* Clients and server are different, and whom a process writes to.         *)
LEMMA Peers ==
  ASSUME TypeOK, ServerOK
  PROVE  /\ Server \in Processes /\ Server \notin Clients /\ Clients \subseteq Processes
         /\ \A c \in Clients : Peer(c) = Server /\ Subject(c) = c
         /\ Peer(Server) = msg[Server].from /\ Subject(Server) = msg[Server].of
         /\ \A p \in Processes : pc[p] \in {"open", "wlock", "fill", "flush", "notify"} =>
              Peer(p) \in Processes /\ Peer(p) # p /\ (p = Server => Peer(p) \in Clients)
         /\ \A p \in Processes : pc[p] \in {"open", "wlock", "fill", "flush"} => Subject(p) \in Clients
  BY FilesigAssumption DEF TypeOK, ServerOK, Peer, Subject, Processes

(* Of a wake-up the woken process is as far as before.                     *)
Alike(a, b) == \/ a = b
               \/ {a, b} \subseteq {"open", "wlock", "fill", "flush"}
               \/ {a, b} \subseteq {"inbox", "stat", "empty", "pause"}
               \/ {a, b} \subseteq {"rlock", "header"}

LEMMA Wakes ==
  ASSUME TypeOK, NEW q \in Processes, NEW label \in Woken(q)
  PROVE  Alike(pc[q], label) /\ label \in Labels
  BY DEF TypeOK, Woken, Alike, Labels, Blocked
-----------------------------------------------------------------------------
(* Types.                                                                  *)

LEMMA OpenTypes == ASSUME TypeOK, ServerOK, NEW p \in Processes, Open(p) PROVE TypeOK'
<1>1. Peer(p) \in Processes
  BY Peers DEF Open, Goto
<1>2. names' \subseteq Processes /\ pc' \in [Processes -> Labels]
  BY <1>1 DEF TypeOK, Open, Goto, Labels
<1> QED BY <1>2 DEF TypeOK, Open, history

LEMMA WLockTypes == ASSUME TypeOK, ServerOK, NEW p \in Processes, WLock(p) PROVE TypeOK'
<1>1. Peer(p) \in Processes
  BY Peers DEF WLock, Goto
<1>2. lock' \in [Processes -> SUBSET Processes]
  BY <1>1 DEF TypeOK, WLock
<1>3. pc' \in [Processes -> Labels]
  BY DEF TypeOK, WLock, Goto, Labels
<1> QED BY <1>2, <1>3 DEF TypeOK, WLock, history

LEMMA FillTypes == ASSUME TypeOK, ServerOK, NEW p \in Processes, Fill(p) PROVE TypeOK'
  BY Peers DEF TypeOK, Fill, Goto, Labels, history

LEMMA FlushTypes == ASSUME TypeOK, ServerOK, NEW p \in Processes, Flush(p) PROVE TypeOK'
<1>1. PICK n \in Lengths(p) : file' = Delivered(p, n)
  BY DEF Flush
<1>2. Peer(p) \in Processes /\ [from |-> p, of |-> Subject(p), length |-> n] \in Message
  BY Peers DEF Flush, Goto, Message, Lengths
<1>3. file' \in [Processes -> Seq(Message)]
  BY <1>1, <1>2, Appending DEF TypeOK, Delivered
<1> QED BY <1>3 DEF TypeOK, Flush, Goto, Labels, history

LEMMA NotifyTypes == ASSUME TypeOK, ServerOK, NEW p \in Processes, Notify(p) PROVE TypeOK'
<1>1. Peer(p) \in Processes /\ Nothing \in Reading
  BY Peers DEF Notify, Nothing, Reading
<1>2. pc' \in [Processes -> Labels]
  <2>1. PICK label \in Woken(Peer(p)) : pc' = [pc EXCEPT ![p] = "inbox", ![Peer(p)] = label]
    BY DEF Notify
  <2>2. label \in Labels /\ "inbox" \in Labels
    BY <1>1, Wakes DEF Labels
  <2> QED BY <2>1, <2>2 DEF TypeOK
<1>3. msg' \in [Processes -> Reading] /\ missed' \subseteq Processes
  BY <1>1 DEF TypeOK, Notify, Reading
<1> QED BY <1>2, <1>3 DEF TypeOK, Notify, Reading, inboxes, history

LEMMA InboxTypes == ASSUME TypeOK, NEW p \in Processes, OpenInbox(p) PROVE TypeOK'
  BY DEF TypeOK, OpenInbox, Goto, Labels, history

LEMMA StatTypes == ASSUME TypeOK, ReplyOK, StageOK, NEW p \in Processes, Stat(p) PROVE TypeOK'
<1>1. Len(file[p]) \in Nat /\ (p \in Clients => Len(file[p]) <= 1)
  <2>1. file[p] \in Seq(Message)
    BY DEF TypeOK
  <2>2. p \in Clients => file[p] = <<>> \/ Len(file[p]) = 1
    BY DEF ReplyOK, StageOK, Stat, Goto
  <2> QED BY <2>1, <2>2, AtMostOne
<1>2. size' \in [Processes -> Nat] /\ \A c \in Clients : size'[c] <= 1
  <2>1. size \in [Processes -> Nat] /\ size' = [size EXCEPT ![p] = Len(file[p])]
    BY DEF TypeOK, Stat
  <2>2. \A c \in Clients : size[c] <= 1 /\ c \in Processes
    BY DEF TypeOK, Processes
  <2> QED BY <1>1, <2>1, <2>2
<1> QED BY <1>2 DEF TypeOK, Stat, Goto, Labels, inboxes, history

LEMMA PauseTypes == ASSUME TypeOK, NEW p \in Processes, Pause(p) PROVE TypeOK'
  BY DEF TypeOK, Pause, Goto, Labels, inboxes, history

LEMMA RLockTypes == ASSUME TypeOK, NEW p \in Processes, RLock(p) PROVE TypeOK'
  BY DEF TypeOK, RLock, Goto, Labels, history

(* Who reads has something to read.                                        *)
LEMMA Readable ==
  ASSUME TypeOK, ServerOK, ReplyOK, StageOK,
         NEW p \in Processes, pc[p] \in {"rlock", "header", "content", "truncate"}
  PROVE  /\ file[p] # <<>> /\ 1 <= size[p] /\ size[p] <= Len(file[p]) /\ size[p] \in Nat
         /\ file[p] \in Seq(Message) /\ Len(file[p]) \in DOMAIN file[p]
         /\ Last(file[p]) = file[p][Len(file[p])] /\ Last(file[p]) \in Message
<1>1. file[p] \in Seq(Message) /\ size[p] \in Nat
  BY DEF TypeOK
<1>2. file[p] # <<>> /\ 1 <= size[p] /\ size[p] <= Len(file[p])
  BY <1>1 DEF ServerOK, ReplyOK, StageOK, Processes
<1> QED BY <1>1, <1>2, Lasts

LEMMA HeaderTypes == ASSUME TypeOK, ServerOK, ReplyOK, StageOK, NEW p \in Processes, ReadHeader(p) PROVE TypeOK'
<1>1. Last(file[p]).from \in Processes /\ Last(file[p]).length \in Requests \cup Replies
  BY Readable DEF ReadHeader, Goto, Message
<1>2. msg \in [Processes -> Reading] /\ Headed(p) \in Reading
  BY <1>1 DEF TypeOK, Headed, Reading
<1>3. msg' \in [Processes -> Reading]
  BY <1>2 DEF ReadHeader
<1>4. pc' \in [Processes -> Labels]
  BY DEF TypeOK, ReadHeader, Goto, Labels
<1>5. UNCHANGED <<names, file, lock, size, gone, stage, got, overlapped, missed, garbled>>
  BY DEF ReadHeader, inboxes, history
<1> QED BY <1>3, <1>4, <1>5 DEF TypeOK, Reading

LEMMA ContentTypes == ASSUME TypeOK, ServerOK, ReplyOK, StageOK, NEW p \in Processes, ReadContent(p) PROVE TypeOK'
<1>1. Last(file[p]).of \in Clients
  BY Readable DEF ReadContent, Goto, Message
<1>2. pc' \in [Processes -> Labels] /\ garbled' \in BOOLEAN
  BY DEF TypeOK, ReadContent, Goto, Labels
<1>3. msg \in [Processes -> Reading]
  BY DEF TypeOK, Reading
<1>4. msg' \in [Processes -> Reading]
  BY <1>1, <1>3 DEF ReadContent, Reading
<1> QED BY <1>2, <1>4 DEF TypeOK, Reading, ReadContent, inboxes, history

LEMMA TruncateTypes == ASSUME TypeOK, ServerOK, ReplyOK, StageOK, NEW p \in Processes, Truncate(p) PROVE TypeOK'
<1>1. SubSeq(file[p], 1, size[p] - 1) \in Seq(Message)
  BY Readable, Cutting DEF Truncate, Goto
<1>2. file' \in [Processes -> Seq(Message)] /\ garbled' \in BOOLEAN
  BY <1>1 DEF TypeOK, Truncate, Aligned
<1> QED BY <1>2 DEF TypeOK, Truncate, Goto, Labels, history

LEMMA CloseTypes == ASSUME TypeOK, NEW p \in Processes, CloseInbox(p) PROVE TypeOK'
  BY DEF TypeOK, CloseInbox, Goto, Labels, history

LEMMA ServeTypes == ASSUME TypeOK, ServerOK, StageOK, Serve PROVE TypeOK'
<1>1. Server \in Processes /\ Subject(Server) \in Clients /\ Subject(Server) = msg[Server].of
  BY Peers DEF ServerOK, Serve, Goto
<1>2. Acted(Subject(Server)) \in {"idle", "asked", "served"}
  BY <1>1 DEF TypeOK, Acted, StageOK, Content, Serve, Goto
<1> QED BY <1>1, <1>2 DEF TypeOK, Serve, Goto, Labels, inboxes

LEMMA StopTypes == ASSUME TypeOK, ServerOK, Stop PROVE TypeOK'
<1>1. Server \in Processes /\ Nothing \in Reading
  BY Peers DEF Nothing, Reading
<1>0. PICK n \in Replies :
        file' = [(IF pc[Server] = "flush" THEN Delivered(Server, n) ELSE file) EXCEPT ![Server] = <<>>]
  BY DEF Stop
<1>2. pc[Server] = "flush" => /\ Peer(Server) \in Processes
                              /\ [from |-> Server, of |-> Subject(Server), length |-> n] \in Message
  BY Peers DEF Message
<1>3. pc[Server] = "flush" => Delivered(Server, n) \in [Processes -> Seq(Message)]
  BY <1>2, Appending DEF TypeOK, Delivered
<1> DEFINE f == IF pc[Server] = "flush" THEN Delivered(Server, n) ELSE file
<1>4. file' \in [Processes -> Seq(Message)]
  <2>1. f \in [Processes -> Seq(Message)]
    BY <1>3 DEF TypeOK
  <2>2. file' = [f EXCEPT ![Server] = <<>>]
    BY <1>0
  <2>3. <<>> \in Seq(Message)
    OBVIOUS
  <2> HIDE DEF f
  <2> QED BY <2>1, <2>2, <2>3
<1>5. lock' \in [Processes -> SUBSET Processes]
  BY DEF TypeOK, Stop, Unlocked
<1>6. size' \in [Processes -> Nat] /\ \A c \in Clients : size'[c] <= 1
  BY <1>1 DEF TypeOK, Stop
<1> QED BY <1>1, <1>4, <1>5, <1>6 DEF TypeOK, Stop, Labels, Reading, history

LEMMA ConnectTypes == ASSUME TypeOK, ServerOK, NEW c \in Clients, Connect(c) PROVE TypeOK'
  BY Peers DEF TypeOK, Connect, Goto, Labels, inboxes, Active

LEMMA HandleTypes == ASSUME TypeOK, ServerOK, NEW c \in Clients, Handle(c) PROVE TypeOK'
<1>1. c \in Processes /\ msg[c].of \in Clients \cup {"nobody"}
      /\ Nothing \in Reading
  BY Peers DEF TypeOK, Nothing, Reading
<1> QED BY <1>1 DEF TypeOK, Handle, Goto, Labels, Reading

LEMMA KillTypes == ASSUME TypeOK, ServerOK, NEW p \in Processes, Kill(p) PROVE TypeOK'
<1>1. Nothing \in Reading
  BY Peers DEF Nothing, Reading
<1>2. lock' \in [Processes -> SUBSET Processes]
  BY DEF TypeOK, Kill, Unlocked
<1>3. stage' \in [Clients -> {"idle", "asked", "served"}]
  BY DEF TypeOK, Kill
<1>4. size' \in [Processes -> Nat] /\ \A c \in Clients : size'[c] <= 1
  BY DEF TypeOK, Kill, Processes
<1>5. pc' \in [Processes -> Labels]
  BY DEF TypeOK, Kill, Labels
<1>6. msg' \in [Processes -> Reading]
      /\ gone' \subseteq Processes /\ missed' \subseteq Processes
  BY <1>1 DEF TypeOK, Kill, Reading
<1> QED BY <1>2, <1>3, <1>4, <1>5, <1>6 DEF TypeOK, Kill, Reading
-----------------------------------------------------------------------------
(* Steps that read and write nothing.                                      *)

LEMMA Quiet ==
  ASSUME IInv, TypeOK',
         \A p \in Processes : \/ Alike(pc[p], pc'[p]) /\ msg'[p] = msg[p]
                              \/ pc[p] = "notify" /\ pc'[p] = "inbox",
         file' = file, size' = size, gone' = gone, stage' = stage, overlapped' = overlapped
  PROVE  IInv'
<1>0. /\ TypeOK /\ ServerOK /\ CutOK /\ RequestOK /\ ReplyOK /\ StageOK /\ AloneOK /\ OwnReplyOK
      /\ Server \in Processes /\ \A c \in Clients : c \in Processes
  BY DEF IInv, Processes
<1>1. \A p \in Processes :
        /\ pc'[p] \in {"open", "wlock", "fill", "flush"} <=> pc[p] \in {"open", "wlock", "fill", "flush"}
        /\ pc'[p] \in {"rlock", "header"} <=> pc[p] \in {"rlock", "header"}
        /\ \A a \in {"idle", "content", "truncate", "close", "act"} : pc'[p] = a <=> pc[p] = a
        /\ pc'[p] \in {"inbox", "stat", "empty", "pause"} =>
             pc[p] \in {"notify", "inbox", "stat", "empty", "pause"}
        /\ pc[p] \in {"notify", "inbox", "stat", "empty", "pause"} =>
             pc'[p] \in {"notify", "inbox", "stat", "empty", "pause"}
        /\ pc'[p] = "notify" => pc[p] = "notify"
        /\ pc'[p] \in {"content", "truncate", "close", "act", "open", "wlock", "fill", "flush", "notify"} => msg'[p] = msg[p]
  BY DEF Alike
<1>2. \A c \in Clients :
        /\ Queued(c)' <=> Queued(c)
        /\ Header(c)' <=> Header(c)
        /\ Content(c)' <=> Content(c)
        /\ Taken(c)' <=> Taken(c)
        /\ Sent(c)' <=> Sent(c)
        /\ Replying(c)' <=> Replying(c)
        /\ Undisturbed(c)' <=> Undisturbed(c)
  BY <1>0, <1>1 DEF Queued, Header, Content, Taken, Sent, Replying, Undisturbed
<1>3. ServerOK'
  BY <1>0, <1>1 DEF ServerOK
<1>4. CutOK'
  BY <1>0, <1>1, <1>2 DEF CutOK
<1>5. RequestOK'
  BY <1>0, <1>1, <1>2 DEF RequestOK
<1>6. ReplyOK'
  BY <1>0, <1>1, <1>2 DEF ReplyOK
<1>7. StageOK'
  BY <1>0, <1>1, <1>2 DEF StageOK
<1>8. AloneOK'
  BY <1>0, <1>1, <1>2 DEF AloneOK
<1>9. OwnReplyOK'
  <2>1. \A c \in Clients : Replying(c) => msg'[Server] = msg[Server]
    BY <1>0, <1>1 DEF Replying
  <2> QED BY <1>0, <1>1, <1>2, <2>1 DEF OwnReplyOK
<1> QED BY <1>3, <1>4, <1>5, <1>6, <1>7, <1>8, <1>9 DEF IInv

LEMMA QuietSteps ==
  ASSUME IInv, NEW p \in Processes,
         Open(p) \/ WLock(p) \/ Fill(p) \/ OpenInbox(p) \/ Pause(p) \/ RLock(p)
  PROVE  IInv'
<1>0. TypeOK /\ ServerOK
  BY DEF IInv
<1>1. TypeOK'
  BY <1>0, OpenTypes, WLockTypes, FillTypes, InboxTypes, PauseTypes, RLockTypes
<1>2. \E a, b \in Labels : Goto(p, a, b) /\ Alike(a, b)
  BY DEF Open, WLock, Fill, OpenInbox, Pause, RLock, Alike, Labels
<1>3. \A q \in Processes : Alike(pc[q], pc'[q])
  BY <1>0, <1>2 DEF Goto, TypeOK, Alike
<1>4. UNCHANGED <<msg, gone, stage, overlapped, size, file>>
  BY DEF Open, WLock, Fill, OpenInbox, Pause, RLock, history, inboxes
<1> QED BY <1>1, <1>3, <1>4, Quiet

LEMMA NotifySteps ==
  ASSUME IInv, NEW p \in Processes, Notify(p)
  PROVE  IInv'
<1>0. TypeOK /\ ServerOK
  BY DEF IInv
<1>1. TypeOK'
  BY <1>0, NotifyTypes
<1>2. Peer(p) \in Processes /\ Peer(p) # p
  BY <1>0, Peers DEF Notify
<1>3. PICK label \in Woken(Peer(p)) : pc' = [pc EXCEPT ![p] = "inbox", ![Peer(p)] = label]
  BY DEF Notify
<1>4. Alike(pc[Peer(p)], label)
  BY <1>0, <1>2, Wakes
<1>5. \A q \in Processes : \/ Alike(pc[q], pc'[q]) /\ msg'[q] = msg[q]
                           \/ pc[q] = "notify" /\ pc'[q] = "inbox"
  BY <1>0, <1>2, <1>3, <1>4 DEF Notify, TypeOK, Alike
<1>6. UNCHANGED <<gone, stage, overlapped, size, file>>
  BY DEF Notify, history, inboxes
<1> QED BY <1>1, <1>5, <1>6, Quiet
-----------------------------------------------------------------------------
(* What a client does to read its reply.                                   *)

LEMMA ClientReads ==
  ASSUME IInv, TypeOK', NEW p \in Clients,
         \A q \in Processes \ {p} :
           pc'[q] = pc[q] /\ msg'[q] = msg[q] /\ size'[q] = size[q] /\ file'[q] = file[q],
         gone' = gone, stage' = stage, overlapped' = overlapped,
         {pc[p], pc'[p]} \cap {"idle", "open", "wlock", "fill", "flush"} = {},
         \/ file'[p] = file[p] /\ (Sent(p)' <=> Sent(p))
         \/ file[p] # <<>> /\ file'[p] = <<>>,
         pc'[p] \in {"rlock", "header", "content", "truncate"} => file'[p] # <<>> /\ size'[p] = 1,
         Undisturbed(p) /\ pc'[p] \in {"truncate", "close", "act"}
           => msg'[p].of = p /\ stage[p] = "served"
  PROVE  IInv'
<1>0. /\ TypeOK /\ ServerOK /\ CutOK /\ RequestOK /\ ReplyOK /\ StageOK /\ AloneOK /\ OwnReplyOK
      /\ Server \in Processes \ {p} /\ \A c \in Clients \ {p} : c \in Processes \ {p}
  BY FilesigAssumption DEF IInv, Processes
<1>1. /\ pc'[Server] = pc[Server] /\ msg'[Server] = msg[Server]
      /\ size'[Server] = size[Server] /\ file'[Server] = file[Server]
      /\ \A c \in Clients \ {p} :
           pc'[c] = pc[c] /\ msg'[c] = msg[c] /\ size'[c] = size[c] /\ file'[c] = file[c]
      /\ pc[p] # "idle" /\ pc'[p] # "idle" /\ p \notin gone
  BY <1>0 DEF StageOK
<1>2. \A c \in Clients :
        /\ Queued(c)' <=> Queued(c)
        /\ Content(c)' <=> Content(c)
        /\ Taken(c)' <=> Taken(c)
        /\ Replying(c)' <=> Replying(c)
        /\ Undisturbed(c)' <=> Undisturbed(c)
        /\ c # p => (Sent(c)' <=> Sent(c))
  BY <1>1 DEF Queued, Header, Content, Taken, Sent, Replying, Undisturbed
<1>3. file[p] # <<>> => ~Queued(p) /\ ~Taken(p) /\ ~Replying(p)
  BY <1>0, <1>1 DEF RequestOK, ReplyOK
<1>4. ServerOK'
  BY <1>0, <1>1 DEF ServerOK
<1>5. CutOK'
  BY <1>0, <1>1, <1>2 DEF CutOK
<1>6. RequestOK'
  BY <1>0, <1>1, <1>2, <1>3 DEF RequestOK
<1>7. ReplyOK'
  BY <1>0, <1>1, <1>2, <1>3 DEF ReplyOK
<1>8. StageOK'
  <2>1. \A c \in Clients : stage'[c] = stage[c] /\ (pc'[c] = "idle" <=> pc[c] = "idle")
    BY <1>0, <1>1
  <2>2. \A c \in Clients : pc'[c] \in {"open", "wlock", "fill", "flush"} => pc'[c] = pc[c]
    BY <1>0, <1>1
  <2> QED BY <1>0, <1>2, <2>1, <2>2 DEF StageOK
<1>9. AloneOK'
  BY <1>0, <1>1, <1>2 DEF AloneOK
<1>10. OwnReplyOK'
  BY <1>0, <1>1, <1>2, <1>3 DEF OwnReplyOK
<1> QED BY <1>4, <1>5, <1>6, <1>7, <1>8, <1>9, <1>10 DEF IInv

LEMMA ClientReadSteps ==
  ASSUME IInv, NEW p \in Clients,
         Stat(p) \/ ReadHeader(p) \/ ReadContent(p) \/ Truncate(p) \/ CloseInbox(p),
         ~garbled'
  PROVE  IInv'
<1>0. /\ TypeOK /\ ServerOK /\ ReplyOK /\ StageOK /\ OwnReplyOK /\ p \in Processes
      /\ pc \in [Processes -> Labels] /\ file \in [Processes -> Seq(Message)]
      /\ size \in [Processes -> Nat]
      /\ msg \in [Processes -> Reading]
  BY DEF IInv, TypeOK, Reading, Processes
<1>1. TypeOK'
  BY <1>0, StatTypes, HeaderTypes, ContentTypes, TruncateTypes, CloseTypes
<1>2. pc[p] # "idle" /\ p \notin gone
  BY <1>0 DEF StageOK, Stat, ReadHeader, ReadContent, Truncate, CloseInbox, Goto
<1>3. file[p] \in Seq(Message) /\ (file[p] # <<>> => Len(file[p]) = 1)
  BY <1>0, <1>2 DEF ReplyOK
<1>4. UNCHANGED <<gone, stage, overlapped>>
  BY DEF Stat, ReadHeader, ReadContent, Truncate, CloseInbox, history
<1>5. CASE Stat(p)
  <2>1. /\ pc' = [pc EXCEPT ![p] = IF file[p] = <<>> THEN "empty" ELSE "rlock"] /\ pc[p] = "stat"
        /\ size' = [size EXCEPT ![p] = Len(file[p])] /\ file' = file /\ msg' = msg
    BY <1>5 DEF Stat, Goto, inboxes
  <2>2. pc'[p] \in {"empty", "rlock"} /\ (pc'[p] = "rlock" => file'[p] # <<>> /\ size'[p] = 1)
    BY <1>0, <1>3, <2>1
  <2>3. Sent(p) /\ Sent(p)'
    BY <2>1, <2>2 DEF Sent
  <2> QED BY <1>0, <1>1, <1>4, <2>1, <2>2, <2>3, ClientReads
<1>6. CASE ReadHeader(p)
  <2>1. /\ pc' = [pc EXCEPT ![p] = "content"] /\ pc[p] = "header"
        /\ msg' = [msg EXCEPT ![p] = Headed(p)]
        /\ file' = file /\ size' = size
    BY <1>6 DEF ReadHeader, Goto, inboxes
  <2>2. pc'[p] = "content" /\ file'[p] # <<>> /\ size'[p] = 1
    BY <1>0, <1>2, <2>1 DEF ReplyOK
  <2>3. Sent(p) /\ Sent(p)'
    BY <2>1, <2>2 DEF Sent
  <2> QED BY <1>0, <1>1, <1>4, <2>1, <2>2, <2>3, ClientReads
<1>7. CASE ReadContent(p)
  <2>1. /\ pc' = [pc EXCEPT ![p] = "truncate"] /\ pc[p] = "content"
        /\ msg' = [msg EXCEPT ![p].of = Last(file[p]).of] /\ file' = file /\ size' = size
    BY <1>7 DEF ReadContent, Goto, inboxes
  <2>2. pc'[p] = "truncate" /\ file'[p] # <<>> /\ size'[p] = 1
    BY <1>0, <1>2, <2>1 DEF ReplyOK
  <2>3. Sent(p) /\ Sent(p)'
    BY <2>1, <2>2 DEF Sent
  <2>4. msg'[p].of = file[p][1].of
    BY <1>0, <1>3, <2>1, <2>2, Lasts
  <2>5. Undisturbed(p) => msg'[p].of = p /\ stage[p] = "served"
    BY <1>0, <2>1, <2>2, <2>4 DEF OwnReplyOK
  <2> QED BY <1>0, <1>1, <1>4, <2>1, <2>2, <2>3, <2>5, ClientReads
<1>8. CASE Truncate(p)
  <2>1. /\ pc' = [pc EXCEPT ![p] = "close"] /\ pc[p] = "truncate"
        /\ file' = [file EXCEPT ![p] = SubSeq(@, 1, size[p] - 1)] /\ msg' = msg /\ size' = size
    BY <1>8 DEF Truncate, Aligned, Goto
  <2>2. file[p] # <<>> /\ size[p] = 1
    BY <1>0, <1>2, <2>1 DEF ReplyOK
  <2>3. pc'[p] = "close" /\ file'[p] = <<>>
    BY <1>0, <1>3, <2>1, <2>2, Cutting
  <2>4. Undisturbed(p) => msg'[p].of = p /\ stage[p] = "served"
    BY <1>0, <2>1 DEF OwnReplyOK
  <2> QED BY <1>0, <1>1, <1>4, <2>1, <2>2, <2>3, <2>4, ClientReads
<1>9. CASE CloseInbox(p)
  <2>1. /\ pc' = [pc EXCEPT ![p] = "act"] /\ pc[p] = "close"
        /\ size' = [size EXCEPT ![p] = 0] /\ msg' = msg /\ file' = file
    BY <1>9 DEF CloseInbox, Goto
  <2>2. pc'[p] = "act"
    BY <1>0, <2>1
  <2>3. ~Sent(p) /\ ~Sent(p)'
    BY <2>1, <2>2 DEF Sent
  <2>4. Undisturbed(p) => msg'[p].of = p /\ stage[p] = "served"
    BY <1>0, <2>1 DEF OwnReplyOK
  <2> QED BY <1>0, <1>1, <1>4, <2>1, <2>2, <2>3, <2>4, ClientReads
<1> QED BY <1>5, <1>6, <1>7, <1>8, <1>9
-----------------------------------------------------------------------------
(* What the server does to read a request.                                 *)

LEMMA ServerReads ==
  ASSUME IInv, TypeOK', ServerOK', CutOK',
         \A c \in Clients :
           pc'[c] = pc[c] /\ msg'[c] = msg[c] /\ size'[c] = size[c] /\ file'[c] = file[c],
         gone' = gone, stage' = stage, overlapped' = overlapped,
         {pc[Server], pc'[Server]} \cap {"open", "wlock", "fill", "flush"} = {},
         \A i \in DOMAIN file'[Server] : i \in DOMAIN file[Server] /\ file'[Server][i] = file[Server][i],
         \A c \in Clients \ gone :
           /\ Content(c)' => Content(c) \/ Queued(c)
           /\ Taken(c)' => Taken(c) \/ Queued(c)
           /\ Taken(c)' /\ pc'[Server] \in {"close", "act"} => ~Queued(c)'
  PROVE  IInv'
<1>0. RequestOK /\ ReplyOK /\ StageOK /\ AloneOK /\ OwnReplyOK
  BY DEF IInv
<1>2. \A c \in Clients :
        /\ Queued(c)' => Queued(c)
        /\ ~Replying(c)' /\ ~Replying(c)
        /\ Undisturbed(c)' <=> Undisturbed(c)
        /\ Sent(c)' <=> Sent(c)
  BY DEF Queued, Sent, Replying, Undisturbed
<1>6. RequestOK'
  BY <1>0, <1>2 DEF RequestOK
<1>7. ReplyOK'
  BY <1>0, <1>2 DEF ReplyOK
<1>8. StageOK'
  BY <1>0, <1>2 DEF StageOK
<1>9. AloneOK'
  BY <1>0, <1>2 DEF AloneOK
<1>10. OwnReplyOK'
  BY <1>0, <1>2 DEF OwnReplyOK
<1> QED BY <1>6, <1>7, <1>8, <1>9, <1>10 DEF IInv

LEMMA ServerReadSteps ==
  ASSUME IInv,
         \/ Stat(Server) \/ ReadHeader(Server) \/ ReadContent(Server)
         \/ Truncate(Server) \/ CloseInbox(Server),
         ~garbled'
  PROVE  IInv'
<1>0. /\ TypeOK /\ ServerOK /\ CutOK /\ RequestOK /\ ReplyOK /\ StageOK
      /\ Server \in Processes /\ \A c \in Clients : c \in Processes /\ c # Server
      /\ pc \in [Processes -> Labels] /\ file \in [Processes -> Seq(Message)]
      /\ size \in [Processes -> Nat]
      /\ msg \in [Processes -> Reading]
  BY FilesigAssumption DEF IInv, TypeOK, Reading, Processes
<1>1. TypeOK'
  BY <1>0, StatTypes, HeaderTypes, ContentTypes, TruncateTypes, CloseTypes
<1>2. \A c \in Clients :
        pc'[c] = pc[c] /\ msg'[c] = msg[c] /\ size'[c] = size[c] /\ file'[c] = file[c]
  BY <1>0 DEF Stat, ReadHeader, ReadContent, Truncate, CloseInbox, Goto, inboxes
<1>3. UNCHANGED <<gone, stage, overlapped>>
  BY DEF Stat, ReadHeader, ReadContent, Truncate, CloseInbox, history
<1>4. file[Server] \in Seq(Message) /\ size[Server] \in Nat
  BY <1>0
<1>5. CASE Stat(Server)
  <2>1. /\ pc[Server] = "stat" /\ pc'[Server] \in {"empty", "rlock"}
        /\ pc'[Server] = "rlock" => file[Server] # <<>>
        /\ size'[Server] = Len(file[Server]) /\ file' = file /\ msg' = msg
    BY <1>5, <1>0 DEF Stat, Goto, inboxes
  <2>2. pc'[Server] = "rlock" => 1 <= Len(file[Server]) /\ Len(file[Server]) <= Len(file[Server])
    BY <2>1, <1>4, Lasts
  <2>3. ServerOK' /\ CutOK'
    BY <1>0, <2>1, <2>2 DEF ServerOK, CutOK
  <2>4. \A c \in Clients : ~Content(c)' /\ ~Taken(c)'
    BY <2>1 DEF Content, Header, Taken
  <2> QED BY <1>1, <1>2, <1>3, <2>1, <2>3, <2>4, ServerReads
<1>6. CASE ReadHeader(Server)
  <2>1. /\ pc[Server] = "header" /\ pc'[Server] = "content"
        /\ msg'[Server].from = Last(file[Server]).from /\ file' = file /\ size' = size
    BY <1>6, <1>0 DEF ReadHeader, Headed, Goto, inboxes
  <2> DEFINE n == Len(file[Server])
  <2>2. /\ n \in DOMAIN file[Server] /\ Last(file[Server]) = file[Server][n]
        /\ 1 <= size[Server] /\ size[Server] <= n
        /\ Last(file[Server]) \in Message
    BY <1>0, <2>1, Readable
  <2>3. /\ msg'[Server].from = file[Server][n].of /\ msg'[Server].from \in Clients
    BY <1>0, <2>1, <2>2 DEF ServerOK, Message
  <2> HIDE DEF n
  <2>4. \A c \in Clients : ~Content(c)' /\ (Taken(c)' => c = file[Server][n].of /\ Queued(c))
    BY <2>1, <2>2, <2>3 DEF Content, Header, Taken, Queued
  <2>5. ServerOK'
    BY <1>0, <2>1, <2>2, <2>3 DEF ServerOK, n
  <2>6. CutOK'
    BY <1>0, <1>3, <2>1, <2>2, <2>4 DEF CutOK, RequestOK
  <2> QED BY <1>1, <1>2, <1>3, <2>1, <2>4, <2>5, <2>6, ServerReads
<1>7. CASE ReadContent(Server)
  <2>1. /\ pc[Server] = "content" /\ pc'[Server] = "truncate"
        /\ msg'[Server].of = Last(file[Server]).of /\ msg'[Server].from = msg[Server].from
        /\ file' = file /\ size' = size
    BY <1>7, <1>0 DEF ReadContent, Goto, inboxes
  <2> DEFINE n == Len(file[Server])
  <2>2. /\ n \in DOMAIN file[Server] /\ Last(file[Server]) = file[Server][n]
        /\ 1 <= size[Server] /\ size[Server] <= n
        /\ Last(file[Server]) \in Message
    BY <1>0, <2>1, Readable
  <2>3. /\ msg'[Server].of = file[Server][n].of /\ msg'[Server].of \in Clients
    BY <1>0, <2>1, <2>2 DEF Message
  <2> HIDE DEF n
  <2>4. \A c \in Clients :
          /\ Content(c)' => c = file[Server][n].of /\ Queued(c)
          /\ Taken(c)' => Taken(c) \/ (c = file[Server][n].of /\ Queued(c))
    <3> TAKE c \in Clients
    <3>1. Content(c)' => c = file[Server][n].of /\ Queued(c)
      BY <2>1, <2>2, <2>3 DEF Content, Queued
    <3>2. Header(c)' => Header(c)
      BY <2>1 DEF Header
    <3> QED BY <3>1, <3>2 DEF Taken
  <2>5. ServerOK'
    BY <1>0, <2>1, <2>2, <2>3 DEF ServerOK, n
  <2>6. CutOK'
    BY <1>0, <1>3, <2>1, <2>2, <2>4 DEF CutOK, RequestOK
  <2> QED BY <1>1, <1>2, <1>3, <2>1, <2>4, <2>5, <2>6, ServerReads
<1>8. CASE Truncate(Server)
  <2>1. /\ pc[Server] = "truncate" /\ pc'[Server] = "close" /\ msg' = msg /\ size' = size
        /\ file'[Server] = SubSeq(file[Server], 1, size[Server] - 1)
    BY <1>8, <1>0 DEF Truncate, Aligned, Goto
  <2>2. \A i \in DOMAIN file'[Server] :
          i \in DOMAIN file[Server] /\ i < size[Server] /\ file'[Server][i] = file[Server][i]
    BY <1>0, <1>4, <2>1, Cutting DEF ServerOK
  <2>3. \A c \in Clients : (Taken(c)' <=> Taken(c)) /\ (Content(c)' <=> Content(c))
    BY <2>1 DEF Content, Header, Taken
  <2>4. ServerOK'
    BY <1>0, <2>1, <2>2 DEF ServerOK
  <2>5. CutOK'
    BY <2>1 DEF CutOK
  <2>6. ASSUME NEW c \in Clients \ gone, Taken(c) PROVE ~Queued(c)'
    <3>1. \A i \in DOMAIN file[Server] : file[Server][i].of = c => size[Server] <= i
      BY <1>0, <2>1, <2>6 DEF CutOK
    <3>2. \A i \in DOMAIN file[Server] : i < size[Server] => ~(size[Server] <= i)
      BY <1>4
    <3> QED BY <2>2, <3>1, <3>2 DEF Queued
  <2> QED BY <1>1, <1>2, <1>3, <2>1, <2>2, <2>3, <2>4, <2>5, <2>6, ServerReads
<1>9. CASE CloseInbox(Server)
  <2>1. /\ pc[Server] = "close" /\ pc'[Server] = "act" /\ msg' = msg /\ file' = file
    BY <1>9, <1>0 DEF CloseInbox, Goto
  <2>2. \A c \in Clients :
          (Taken(c)' <=> Taken(c)) /\ (Content(c)' <=> Content(c)) /\ (Queued(c)' <=> Queued(c))
    BY <2>1 DEF Content, Header, Taken, Queued
  <2>3. ServerOK'
    BY <1>0, <2>1 DEF ServerOK
  <2>4. CutOK'
    BY <2>1 DEF CutOK
  <2>5. \A c \in Clients \ gone : Taken(c) => ~Queued(c)
    BY <1>0, <2>1 DEF RequestOK
  <2> QED BY <1>1, <1>2, <1>3, <2>1, <2>2, <2>3, <2>4, <2>5, ServerReads
<1> QED BY <1>5, <1>6, <1>7, <1>8, <1>9

LEMMA ServeStep ==
  ASSUME IInv, Serve PROVE IInv'
<1>0. /\ TypeOK /\ ServerOK /\ CutOK /\ RequestOK /\ ReplyOK /\ StageOK /\ AloneOK /\ OwnReplyOK
      /\ Server \in Processes /\ \A c \in Clients : c \in Processes /\ c # Server
      /\ pc \in [Processes -> Labels] /\ stage \in [Clients -> {"idle", "asked", "served"}]
  BY FilesigAssumption DEF IInv, TypeOK, Processes
<1>1. /\ pc[Server] = "act" /\ pc'[Server] = "open" /\ \A c \in Clients : pc'[c] = pc[c]
      /\ UNCHANGED <<file, size, msg, gone, overlapped>>
  BY <1>0 DEF Serve, Goto, inboxes
<1> DEFINE d == msg[Server].of
<1>2. d \in Clients /\ msg[Server].from \in Clients /\ Content(d)
  BY <1>0, <1>1 DEF ServerOK, Content
<1>3. \A c \in Clients : stage'[c] = IF c = d /\ stage[c] = "asked" /\ c \notin gone
                                      THEN "served" ELSE stage[c]
  <2>1. d \in gone \/ stage[d] = "asked"
    BY <1>0, <1>2 DEF StageOK
  <2> QED BY <1>0, <1>2, <2>1 DEF Serve, Subject, Acted
<1> HIDE DEF d
<1>4. \A c \in Clients :
        /\ ~Taken(c)' /\ ~Content(c)'
        /\ ~Replying(c)
        /\ Replying(c)' => Header(c) /\ Taken(c)
        /\ Queued(c)' <=> Queued(c)
        /\ Sent(c)' <=> Sent(c)
        /\ Undisturbed(c)' <=> Undisturbed(c)
  BY <1>1 DEF Taken, Header, Content, Queued, Replying, Sent, Undisturbed
<1>5. d \notin gone => Sent(d) /\ ~Queued(d) /\ stage[d] = "asked"
  BY <1>0, <1>1, <1>2 DEF RequestOK, StageOK, Taken
<1>6. TypeOK'
  BY <1>0, ServeTypes
<1>7. ServerOK'
  BY <1>0, <1>1 DEF ServerOK
<1>8. CutOK'
  BY <1>1 DEF CutOK
<1>9. RequestOK'
  BY <1>0, <1>1, <1>4 DEF RequestOK
<1>10. ReplyOK'
  BY <1>0, <1>1, <1>4 DEF ReplyOK, RequestOK
<1>11. StageOK'
  BY <1>0, <1>1, <1>3, <1>4, <1>5 DEF StageOK, Sent
<1>12. AloneOK'
  BY <1>0, <1>1, <1>4 DEF AloneOK
<1>13. OwnReplyOK'
  <2>1. ASSUME NEW c \in Clients, Undisturbed(c), Replying(c)'
        PROVE  c = d /\ stage'[c] = "served"
    <3>1. c \notin gone /\ Header(c) /\ Taken(c)
      BY <1>0, <1>4, <2>1 DEF StageOK, Undisturbed
    <3>2. c = d
      BY <1>0, <1>2, <1>5, <2>1 DEF AloneOK, Sent
    <3> QED BY <1>3, <1>5, <3>1, <3>2
  <2>2. \A c \in Clients : stage[c] = "served" => stage'[c] = "served"
    BY <1>3
  <2> QED BY <1>0, <1>1, <1>4, <2>1, <2>2 DEF OwnReplyOK, d
<1> QED BY <1>6, <1>7, <1>8, <1>9, <1>10, <1>11, <1>12, <1>13 DEF IInv
-----------------------------------------------------------------------------
(* A message that arrives in an inbox.                                     *)

LEMMA RequestStep ==
  ASSUME IInv, NEW p \in Clients, Flush(p) PROVE IInv'
<1>0. /\ TypeOK /\ ServerOK /\ CutOK /\ RequestOK /\ ReplyOK /\ StageOK /\ AloneOK /\ OwnReplyOK
      /\ Server \in Processes /\ \A c \in Clients : c \in Processes /\ c # Server
      /\ pc \in [Processes -> Labels] /\ file \in [Processes -> Seq(Message)]
      /\ size \in [Processes -> Nat]
  BY FilesigAssumption DEF IInv, TypeOK, Processes
<1>1. /\ pc[p] = "flush" /\ pc'[p] = "notify" /\ \A q \in Processes \ {p} : pc'[q] = pc[q]
      /\ \E k \in Requests :
           file' = [file EXCEPT ![Server] = Append(@, [from |-> p, of |-> p, length |-> k])]
      /\ UNCHANGED <<size, msg, gone, stage, overlapped>>
  <2>1. Peer(p) = Server /\ Subject(p) = p
    BY <1>0, Peers
  <2>2. pc[p] = "flush" /\ pc' = [pc EXCEPT ![p] = "notify"]
    BY DEF Flush, Goto
  <2>3. \E k \in Requests :
          file' = [file EXCEPT ![Server] = Append(@, [from |-> p, of |-> p, length |-> k])]
    BY <1>0, <2>1 DEF Flush, Delivered, Lengths
  <2>4. UNCHANGED <<size, msg, gone, stage, overlapped>>
    BY DEF Flush, history
  <2> QED BY <1>0, <2>2, <2>3, <2>4
<1> DEFINE n == Len(file[Server]) + 1
<1> PICK k \in Requests :
           file' = [file EXCEPT ![Server] = Append(@, [from |-> p, of |-> p, length |-> k])]
  BY <1>1
<1>2. /\ file[Server] \in Seq(Message) /\ [from |-> p, of |-> p, length |-> k] \in Message
      /\ file'[Server] = Append(file[Server], [from |-> p, of |-> p, length |-> k])
      /\ \A c \in Clients : file'[c] = file[c] /\ pc'[Server] = pc[Server]
      /\ size[Server] \in Nat
  BY <1>0, <1>1 DEF Message
<1>3. /\ Len(file'[Server]) = n /\ n \in Nat /\ Len(file[Server]) \in Nat /\ Len(file[Server]) < n
      /\ DOMAIN file'[Server] = DOMAIN file[Server] \cup {n}
      /\ file'[Server][n].of = p /\ file'[Server][n].from = p
      /\ \A i \in DOMAIN file[Server] : file'[Server][i] = file[Server][i] /\ i # n
  BY <1>2, Appending, AtMostOne
<1> HIDE DEF n
<1>4. p \notin gone /\ ~Sent(p) /\ Sent(p)'
  BY <1>0, <1>1 DEF StageOK, Sent
<1>5. ~Queued(p) /\ ~Taken(p) /\ ~Replying(p) /\ file[p] = <<>> /\ stage[p] = "asked"
  BY <1>0, <1>1, <1>4 DEF RequestOK, ReplyOK, StageOK
<1>6. \A c \in Clients :
        /\ Taken(c)' <=> Taken(c)
        /\ Content(c)' <=> Content(c)
        /\ Replying(c)' <=> Replying(c)
        /\ Queued(c)' <=> Queued(c) \/ c = p
        /\ c # p => (Sent(c)' <=> Sent(c))
        /\ Undisturbed(c)' <=> Undisturbed(c)
        /\ pc'[c] = "idle" <=> pc[c] = "idle"
  BY <1>0, <1>1, <1>2, <1>3 DEF Taken, Header, Content, Queued, Replying, Sent, Undisturbed
<1>7. TypeOK'
  BY <1>0, FlushTypes
<1>8. ServerOK'
  <2>1. \A i \in DOMAIN file'[Server] : file'[Server][i].from = file'[Server][i].of
    BY <1>0, <1>3 DEF ServerOK
  <2>2. size[Server] <= Len(file[Server]) => size[Server] <= n
    BY <1>2, <1>3
  <2> QED BY <1>0, <1>1, <1>2, <1>3, <2>1, <2>2 DEF ServerOK
<1>9. CutOK'
  BY <1>0, <1>1, <1>2, <1>3, <1>5, <1>6 DEF CutOK
<1>10. RequestOK'
  <2>1. \A i \in DOMAIN file[Server] : file[Server][i].of # p
    BY <1>5 DEF Queued
  <2>2. \A c \in Clients \ gone : \A i, j \in DOMAIN file'[Server] :
          file'[Server][i].of = c /\ file'[Server][j].of = c => i = j
    BY <1>0, <1>3, <2>1 DEF RequestOK
  <2>3. pc'[Server] = pc[Server] /\ gone' = gone /\ \A c \in Clients : file'[c] = file[c]
    BY <1>1, <1>2
  <2> SUFFICES ASSUME NEW c \in Clients \ gone
               PROVE  /\ Queued(c)' \/ Taken(c)' => Sent(c)' /\ file'[c] = <<>>
                      /\ Taken(c)' /\ pc'[Server] \in {"close", "act"} => ~Queued(c)'
    BY <2>2, <2>3 DEF RequestOK
  <2>4. CASE c = p
    BY <1>4, <1>5, <1>6, <2>3, <2>4
  <2>5. CASE c # p
    <3>1. (Queued(c)' <=> Queued(c)) /\ (Taken(c)' <=> Taken(c)) /\ (Sent(c)' <=> Sent(c))
      BY <1>6, <2>5
    <3> QED BY <1>0, <2>3, <3>1 DEF RequestOK
  <2> QED BY <2>4, <2>5
<1>11. ReplyOK'
  BY <1>0, <1>1, <1>2, <1>4, <1>5, <1>6 DEF ReplyOK
<1>12. StageOK'
  BY <1>0, <1>1, <1>5, <1>6 DEF StageOK
<1>13. AloneOK'
  BY <1>0, <1>1, <1>6 DEF AloneOK
<1>14. OwnReplyOK'
  BY <1>0, <1>1, <1>2, <1>6 DEF OwnReplyOK
<1> QED BY <1>7, <1>8, <1>9, <1>10, <1>11, <1>12, <1>13, <1>14 DEF IInv

(* The server's reply to c, which it writes out at the end of ipc_send or  *)
(* at its exit.                                                            *)
LEMMA ReplyArrives ==
  ASSUME IInv, pc[Server] = "flush", NEW c \in Clients, NEW n \in Replies
  PROVE  LET f == Delivered(Server, n)
         IN  /\ f[Server] = file[Server]
             /\ c # msg[Server].from => f[c] = file[c]
             /\ c = msg[Server].from /\ c \notin gone =>
                  /\ f[c] # <<>> /\ Len(f[c]) = 1 /\ f[c][1].of = msg[Server].of
                  /\ Sent(c) /\ ~Queued(c) /\ file[c] = <<>>
                  /\ Undisturbed(c) => msg[Server].of = c /\ stage[c] = "served"
<1> DEFINE m == [from |-> Server, of |-> msg[Server].of, length |-> n]
           d == msg[Server].from
<1>1. /\ d \in Clients /\ d \in Processes /\ d # Server /\ c # Server /\ m \in Message
      /\ c \in Processes /\ Server \in Processes
      /\ file \in [Processes -> Seq(Message)]
  BY FilesigAssumption DEF IInv, TypeOK, ServerOK, Processes, Message
<1>2. Delivered(Server, n) = [file EXCEPT ![d] = Append(@, m)]
  BY DEF Delivered, Peer, Subject
<1>3. Replying(d) /\ m.of = msg[Server].of
  BY DEF Replying
<1> HIDE DEF m, d
<1>4. d \notin gone => /\ Sent(d) /\ ~Queued(d) /\ file[d] = <<>>
                       /\ Undisturbed(d) => msg[Server].of = d /\ stage[d] = "served"
  BY <1>1, <1>3 DEF IInv, ReplyOK, OwnReplyOK
<1>5. <<>> \in Seq(Message) /\ Len(<<>>) = 0
  OBVIOUS
<1>6. Append(<<>>, m) # <<>> /\ Len(Append(<<>>, m)) = 1 /\ Append(<<>>, m)[1] = m
  BY <1>1, <1>5, Appending
<1> QED BY <1>1, <1>2, <1>3, <1>4, <1>6 DEF d

(* ipc_send of the server ends, or the server does.                        *)
LEMMA ServerLeaves ==
  ASSUME IInv, TypeOK', ServerOK', CutOK',
         pc'[Server] \in {"notify", "down"},
         \A c \in Clients : pc'[c] = pc[c] /\ msg'[c] = msg[c] /\ size'[c] = size[c],
         gone' = gone, stage' = stage, overlapped' = overlapped,
         file'[Server] \in {file[Server], <<>>},
         NEW n \in Replies,
         \A c \in Clients : file'[c] = IF pc[Server] = "flush" THEN Delivered(Server, n)[c] ELSE file[c]
  PROVE  IInv'
<1>0. RequestOK /\ ReplyOK /\ StageOK /\ AloneOK /\ OwnReplyOK
  BY DEF IInv
<1>1. \A c \in Clients :
        /\ ~Taken(c)' /\ ~Content(c)' /\ ~Replying(c)'
        /\ Queued(c)' => Queued(c)
        /\ Undisturbed(c)' <=> Undisturbed(c)
        /\ Sent(c)' <=> Sent(c)
  BY DEF Taken, Header, Content, Replying, Queued, Undisturbed, Sent
<1>2. \A c \in Clients \ gone :
        \/ file'[c] = file[c]
        \/ /\ file[c] = <<>> /\ file'[c] # <<>> /\ Len(file'[c]) = 1
           /\ Sent(c) /\ ~Queued(c)
           /\ Undisturbed(c) => file'[c][1].of = c /\ stage[c] = "served"
  BY ReplyArrives
<1>3. \A i \in DOMAIN file'[Server] : i \in DOMAIN file[Server] /\ file'[Server][i] = file[Server][i]
  OBVIOUS
<1>6. RequestOK'
  BY <1>0, <1>1, <1>2, <1>3 DEF RequestOK
<1>7. ReplyOK'
  BY <1>0, <1>1, <1>2 DEF ReplyOK
<1>8. StageOK'
  BY <1>0, <1>1 DEF StageOK
<1>9. AloneOK'
  BY <1>0, <1>1 DEF AloneOK
<1>10. OwnReplyOK'
  <2>1. \A c \in Clients : Undisturbed(c) => c \notin gone
    BY <1>0 DEF StageOK, Undisturbed
  <2> QED BY <1>0, <1>1, <1>2, <2>1 DEF OwnReplyOK
<1> QED BY <1>6, <1>7, <1>8, <1>9, <1>10 DEF IInv

LEMMA ReplyStep ==
  ASSUME IInv, Flush(Server) PROVE IInv'
<1>0. /\ TypeOK /\ ServerOK /\ CutOK
      /\ Server \in Processes /\ \A c \in Clients : c \in Processes /\ c # Server
      /\ pc \in [Processes -> Labels]
  BY FilesigAssumption DEF IInv, TypeOK, Processes
<1>1. /\ pc[Server] = "flush" /\ pc'[Server] = "notify" /\ \A c \in Clients : pc'[c] = pc[c]
      /\ UNCHANGED <<size, msg, gone, stage, overlapped>>
  BY <1>0 DEF Flush, Goto, history
<1> PICK n \in Replies : file' = Delivered(Server, n)
  BY DEF Flush, Lengths
<1>2. file'[Server] = file[Server]
  <2>1. msg[Server].from \in Clients
    BY <1>0, <1>1 DEF ServerOK
  <2> QED BY <1>1, <2>1, ReplyArrives
<1>3. TypeOK'
  BY <1>0, FlushTypes
<1>4. ServerOK' /\ CutOK'
  BY <1>0, <1>1, <1>2 DEF ServerOK, CutOK
<1> QED BY <1>1, <1>2, <1>3, <1>4, ServerLeaves

LEMMA StopStep ==
  ASSUME IInv, Stop PROVE IInv'
<1>0. /\ TypeOK /\ ServerOK
      /\ Server \in Processes /\ \A c \in Clients : c \in Processes /\ c # Server
      /\ pc \in [Processes -> Labels] /\ size \in [Processes -> Nat]
      /\ file \in [Processes -> Seq(Message)]
      /\ msg \in [Processes -> Reading]
  BY FilesigAssumption DEF IInv, TypeOK, Reading, Processes
<1>1. /\ pc'[Server] = "down"
      /\ \A c \in Clients : pc'[c] = pc[c] /\ msg'[c] = msg[c] /\ size'[c] = size[c]
      /\ UNCHANGED <<gone, stage, overlapped>>
  BY <1>0 DEF Stop, history
<1> PICK n \in Replies :
      file' = [(IF pc[Server] = "flush" THEN Delivered(Server, n) ELSE file) EXCEPT ![Server] = <<>>]
  BY DEF Stop
<1> DEFINE f == IF pc[Server] = "flush" THEN Delivered(Server, n) ELSE file
<1>2. file' = [f EXCEPT ![Server] = <<>>] /\ f \in [Processes -> Seq(Message)]
  <2>1. pc[Server] = "flush" => /\ Peer(Server) \in Processes
                                /\ [from |-> Server, of |-> Subject(Server), length |-> n] \in Message
    BY <1>0, Peers DEF Message
  <2>2. pc[Server] = "flush" => Delivered(Server, n) \in [Processes -> Seq(Message)]
    BY <1>0, <2>1, Appending DEF Delivered
  <2> QED BY <1>0, <2>2
<1> HIDE DEF f
<1>3. file'[Server] = <<>> /\ \A c \in Clients : file'[c] = f[c]
  BY <1>0, <1>2
<1>4. TypeOK'
  BY <1>0, StopTypes
<1>5. ServerOK' /\ CutOK'
  BY <1>1, <1>3 DEF ServerOK, CutOK
<1> QED BY <1>1, <1>3, <1>4, <1>5, ServerLeaves DEF f
-----------------------------------------------------------------------------
(* Calls begin and end.                                                    *)

LEMMA ConnectStep ==
  ASSUME IInv, NEW p \in Clients, Connect(p) PROVE IInv'
<1>0. /\ TypeOK /\ ServerOK /\ CutOK /\ RequestOK /\ ReplyOK /\ StageOK /\ AloneOK /\ OwnReplyOK
      /\ Server \in Processes /\ \A c \in Clients : c \in Processes /\ c # Server
      /\ pc \in [Processes -> Labels] /\ stage \in [Clients -> {"idle", "asked", "served"}]
  BY FilesigAssumption DEF IInv, TypeOK, Processes
<1>1. /\ pc[p] = "idle" /\ pc'[p] = "open" /\ pc'[Server] = pc[Server]
      /\ stage'[p] = "asked" /\ p \notin gone
      /\ \A c \in Clients \ {p} : pc'[c] = pc[c] /\ stage'[c] = stage[c]
      /\ UNCHANGED <<file, size, msg, gone>>
  BY <1>0 DEF Connect, Goto, inboxes
<1>2. ~Sent(p) /\ ~Sent(p)' /\ ~Queued(p) /\ ~Taken(p) /\ ~Replying(p) /\ file[p] = <<>>
  BY <1>0, <1>1 DEF Sent, RequestOK, ReplyOK
<1>3. \A c \in Clients :
        /\ Taken(c)' <=> Taken(c)
        /\ Content(c)' <=> Content(c)
        /\ Replying(c)' <=> Replying(c)
        /\ Queued(c)' <=> Queued(c)
        /\ Sent(c)' <=> Sent(c)
  BY <1>1, <1>2 DEF Taken, Header, Content, Queued, Replying, Sent
<1>4. \/ overlapped' = overlapped /\ \A c \in Clients : pc[c] = "idle" /\ c \notin gone
      \/ p \in overlapped' /\ \A c \in Clients : pc[c] # "idle" \/ c \in overlapped => c \in overlapped'
  BY DEF Connect, Active
<1>5. \A c \in Clients : Undisturbed(c)' =>
        c = p /\ \A d \in Clients \ {p} : pc[d] = "idle" /\ d \notin gone
  BY <1>1, <1>4 DEF Undisturbed
<1>6. TypeOK'
  BY <1>0, ConnectTypes
<1>7. ServerOK'
  BY <1>0, <1>1 DEF ServerOK
<1>8. CutOK'
  BY <1>0, <1>1, <1>3 DEF CutOK
<1>9. RequestOK'
  BY <1>0, <1>1, <1>3 DEF RequestOK
<1>10. ReplyOK'
  BY <1>0, <1>1, <1>3 DEF ReplyOK
<1>11. StageOK'
  BY <1>0, <1>1, <1>3 DEF StageOK
<1>12. AloneOK'
  BY <1>1, <1>5 DEF AloneOK
<1>13. OwnReplyOK'
  BY <1>1, <1>2, <1>3, <1>5 DEF OwnReplyOK
<1> QED BY <1>6, <1>7, <1>8, <1>9, <1>10, <1>11, <1>12, <1>13 DEF IInv

LEMMA HandleStep ==
  ASSUME IInv, NEW p \in Clients, Handle(p) PROVE IInv'
<1>0. /\ TypeOK /\ ServerOK /\ CutOK /\ RequestOK /\ ReplyOK /\ StageOK /\ AloneOK /\ OwnReplyOK
      /\ Server \in Processes /\ \A c \in Clients : c \in Processes /\ c # Server
      /\ pc \in [Processes -> Labels] /\ stage \in [Clients -> {"idle", "asked", "served"}]
      /\ file \in [Processes -> Seq(Message)]
      /\ msg \in [Processes -> Reading]
  BY FilesigAssumption DEF IInv, TypeOK, Reading, Processes
<1>1. /\ pc[p] = "act" /\ pc'[p] = "idle" /\ pc'[Server] = pc[Server]
      /\ stage'[p] = "idle" /\ file'[p] = <<>>
      /\ file'[Server] = file[Server] /\ msg'[Server] = msg[Server]
      /\ overlapped' = overlapped \ {p}
      /\ \A c \in Clients \ {p} :
           /\ pc'[c] = pc[c] /\ stage'[c] = stage[c]
           /\ file'[c] = file[c] /\ msg'[c] = msg[c]
      /\ UNCHANGED <<size, gone>>
  BY <1>0 DEF Handle, Goto
<1>2. ~Sent(p) /\ ~Sent(p)' /\ p \notin gone
  BY <1>0, <1>1 DEF Sent, StageOK
<1>3. ~Queued(p) /\ ~Taken(p) /\ ~Content(p) /\ ~Replying(p)
  BY <1>0, <1>2 DEF RequestOK, ReplyOK, Taken
<1>4. \A c \in Clients :
        /\ Taken(c)' <=> Taken(c)
        /\ Content(c)' <=> Content(c)
        /\ Replying(c)' <=> Replying(c)
        /\ Queued(c)' <=> Queued(c)
        /\ Sent(c)' <=> Sent(c)
        /\ Undisturbed(c)' => c # p /\ Undisturbed(c)
  BY <1>1, <1>2 DEF Taken, Header, Content, Queued, Replying, Sent, Undisturbed
<1>5. TypeOK'
  BY <1>0, HandleTypes
<1>6. ServerOK'
  BY <1>0, <1>1 DEF ServerOK
<1>7. CutOK'
  BY <1>0, <1>1, <1>4 DEF CutOK
<1>8. RequestOK'
  <2>1. \A c \in Clients : Queued(c) \/ Taken(c) => file'[c] = file[c]
    BY <1>1, <1>3
  <2>2. gone' = gone /\ pc'[Server] = pc[Server] /\ file'[Server] = file[Server]
    BY <1>1
  <2> QED BY <1>0, <1>4, <2>1, <2>2 DEF RequestOK
<1>9. ReplyOK'
  BY <1>0, <1>1, <1>3, <1>4 DEF ReplyOK
<1>10. StageOK'
  <2> SUFFICES ASSUME NEW c \in Clients
               PROVE  /\ stage'[c] = "idle" <=> pc'[c] = "idle"
                      /\ c \in gone' => pc'[c] = "idle"
                      /\ c \notin gone' /\ ( \/ pc'[c] \in {"open", "wlock", "fill", "flush"}
                                            \/ Queued(c)' \/ Content(c)' )
                           => stage'[c] = "asked"
    BY DEF StageOK
  <2>1. CASE c = p
    BY <1>1, <1>2, <1>3, <1>4, <2>1
  <2>2. CASE c # p
    <3>1. pc'[c] = pc[c] /\ stage'[c] = stage[c] /\ gone' = gone
      BY <1>1, <2>2
    <3>2. (Queued(c)' <=> Queued(c)) /\ (Content(c)' <=> Content(c))
      BY <1>4
    <3> QED BY <1>0, <3>1, <3>2 DEF StageOK
  <2> QED BY <2>1, <2>2
<1>11. AloneOK'
  BY <1>0, <1>1, <1>4 DEF AloneOK
<1>12. OwnReplyOK'
  BY <1>0, <1>1, <1>4 DEF OwnReplyOK
<1> QED BY <1>5, <1>6, <1>7, <1>8, <1>9, <1>10, <1>11, <1>12 DEF IInv

LEMMA KillStep ==
  ASSUME IInv, NEW p \in Processes, Kill(p) PROVE IInv'
<1>0. /\ TypeOK /\ ServerOK /\ CutOK /\ RequestOK /\ ReplyOK /\ StageOK /\ AloneOK /\ OwnReplyOK
      /\ Server \in Processes /\ \A c \in Clients : c \in Processes /\ c # Server
      /\ pc \in [Processes -> Labels] /\ size \in [Processes -> Nat]
      /\ msg \in [Processes -> Reading]
  BY FilesigAssumption DEF IInv, TypeOK, Reading, Processes
<1>1. /\ pc[p] # "idle" /\ pc'[p] = (IF p = Server THEN "down" ELSE "idle")
      /\ \A q \in Processes \ {p} : pc'[q] = pc[q] /\ size'[q] = size[q] /\ msg'[q] = msg[q]
      /\ \A c \in Clients : stage'[c] = IF c = p THEN "idle" ELSE stage[c]
      /\ gone = {} /\ gone' = {p} /\ UNCHANGED <<file, overlapped>>
  BY <1>0 DEF Kill
<1>2. \A c \in Clients \ {p} :
        /\ pc'[c] = pc[c] /\ size'[c] = size[c] /\ msg'[c] = msg[c] /\ stage'[c] = stage[c]
        /\ Sent(c)' <=> Sent(c)
        /\ Undisturbed(c)' <=> Undisturbed(c)
  BY <1>0, <1>1 DEF Sent, Undisturbed
<1>3. p \in Clients => ~Undisturbed(p)'
  BY <1>0, <1>1 DEF Undisturbed
<1>4. \/ /\ pc'[Server] = pc[Server] /\ msg'[Server] = msg[Server] /\ size'[Server] = size[Server]
         /\ p \in Clients
      \/ pc'[Server] = "down" /\ p = Server
  BY <1>0, <1>1 DEF Processes
<1>5. \A c \in Clients :
        /\ Taken(c)' => Taken(c)
        /\ Content(c)' => Content(c)
        /\ Replying(c)' => Replying(c) /\ msg'[Server] = msg[Server]
        /\ Queued(c)' <=> Queued(c)
  BY <1>1, <1>4 DEF Taken, Header, Content, Queued, Replying
<1>6. TypeOK'
  BY <1>0, KillTypes
<1>7. ServerOK'
  BY <1>0, <1>1, <1>4 DEF ServerOK
<1>8. CutOK'
  BY <1>0, <1>1, <1>4, <1>5 DEF CutOK
<1>9. RequestOK'
  BY <1>0, <1>1, <1>2, <1>4, <1>5 DEF RequestOK
<1>10. ReplyOK'
  BY <1>0, <1>1, <1>2, <1>5 DEF ReplyOK
<1>11. StageOK'
  BY <1>0, <1>1, <1>2, <1>5 DEF StageOK
<1>12. AloneOK'
  BY <1>0, <1>1, <1>2, <1>3 DEF AloneOK, Undisturbed
<1>13. OwnReplyOK'
  BY <1>0, <1>1, <1>2, <1>3, <1>5 DEF OwnReplyOK
<1> QED BY <1>6, <1>7, <1>8, <1>9, <1>10, <1>11, <1>12, <1>13 DEF IInv
-----------------------------------------------------------------------------
LEMMA StepsIntact == ASSUME Next PROVE ~garbled
  BY DEF Next, Step, Open, WLock, Fill, Flush, Notify, OpenInbox, Stat, Pause, RLock, ReadHeader,
         ReadContent, Truncate, CloseInbox, Serve, Stop, Connect, Handle, Kill, Goto

LEMMA Steps == ASSUME IInv, Next PROVE TypeOK' /\ (garbled' \/ IInv')
<1>0. TypeOK /\ ServerOK /\ ReplyOK /\ StageOK
  BY DEF IInv
<1>1. CASE Serve
  BY <1>1, ServeStep DEF IInv
<1>2. CASE Stop
  BY <1>2, StopStep DEF IInv
<1>3. ASSUME NEW p \in Processes, Step(p) \/ WLock(p) \/ RLock(p) \/ Kill(p)
      PROVE  TypeOK' /\ (garbled' \/ IInv')
  <2>1. CASE Open(p) \/ WLock(p) \/ Fill(p) \/ OpenInbox(p) \/ Pause(p) \/ RLock(p)
    BY <2>1, QuietSteps DEF IInv
  <2>2. CASE Flush(p)
    BY <2>2, RequestStep, ReplyStep DEF Processes, IInv
  <2>3. CASE Notify(p)
    BY <2>3, NotifySteps DEF IInv
  <2>4. CASE Stat(p) \/ ReadHeader(p) \/ ReadContent(p) \/ Truncate(p) \/ CloseInbox(p)
    <3>1. TypeOK'
      BY <1>0, <2>4, StatTypes, HeaderTypes, ContentTypes, TruncateTypes, CloseTypes
    <3>2. ~garbled' => IInv'
      BY <2>4, ClientReadSteps, ServerReadSteps DEF Processes
    <3>3. garbled' \in BOOLEAN
      BY <3>1 DEF TypeOK
    <3> QED BY <3>1, <3>2, <3>3
  <2>5. CASE Kill(p)
    BY <2>5, KillStep DEF IInv
  <2> QED BY <1>3, <2>1, <2>2, <2>3, <2>4, <2>5 DEF Step
<1>4. ASSUME NEW c \in Clients, Connect(c) \/ Handle(c) PROVE IInv'
  BY <1>4, ConnectStep, HandleStep
<1> QED BY <1>1, <1>2, <1>3, <1>4 DEF Next, IInv

(* The types, and what the processes have reached as long as the server    *)
(* has read whole messages and cut its inbox between two of them.          *)
FInv == TypeOK /\ (garbled \/ IInv)

THEOREM Invariance == Spec => []FInv
<1>1. Init => FInv
  <2> SUFFICES ASSUME Init PROVE IInv
    BY DEF FInv, IInv
  <2>1. /\ Server \in Processes /\ \A c \in Clients : c \in Processes /\ c # Server
        /\ Nothing \in Reading
    BY FilesigAssumption DEF Processes, Nothing, Reading
  <2>2. TypeOK
    <3>1. file \in [Processes -> Seq(Message)] /\ msg \in [Processes -> Reading]
      BY <2>1 DEF Init
    <3>2. /\ names \subseteq Processes /\ lock \in [Processes -> SUBSET Processes]
          /\ size \in [Processes -> Nat] /\ \A c \in Clients : size[c] <= 1
      BY <2>1 DEF Init
    <3>3. /\ pc \in [Processes -> Labels] /\ stage \in [Clients -> {"idle", "asked", "served"}]
          /\ got \in [Clients -> Clients \cup {"nobody"}] /\ garbled \in BOOLEAN
          /\ gone \subseteq Processes /\ overlapped \subseteq Clients /\ missed \subseteq Processes
      BY DEF Init, Labels
    <3> QED BY <3>1, <3>2, <3>3 DEF TypeOK, Reading
  <2>3. /\ pc[Server] = "inbox" /\ \A c \in Clients : pc[c] = "idle" /\ stage[c] = "idle"
        /\ \A p \in Processes : file[p] = <<>>
        /\ gone = {} /\ overlapped = {}
    BY <2>1 DEF Init
  <2>4. \A c \in Clients : ~Taken(c) /\ ~Content(c) /\ ~Replying(c) /\ ~Queued(c)
    BY <2>1, <2>3 DEF Taken, Header, Content, Replying, Queued
  <2>5. ServerOK
    BY <2>1, <2>3 DEF ServerOK
  <2>6. CutOK /\ RequestOK
    BY <2>1, <2>3, <2>4 DEF CutOK, RequestOK
  <2>7. ReplyOK /\ StageOK
    BY <2>1, <2>3, <2>4 DEF ReplyOK, StageOK
  <2>8. AloneOK /\ OwnReplyOK
    BY <2>3 DEF AloneOK, OwnReplyOK, Undisturbed
  <2> QED BY <2>2, <2>5, <2>6, <2>7, <2>8 DEF IInv
<1>2. FInv /\ [Next]_vars => FInv'
  <2> SUFFICES ASSUME FInv, [Next]_vars PROVE FInv'
    OBVIOUS
  <2>1. CASE UNCHANGED vars
    <3>1. UNCHANGED <<pc, names, file, lock, size, msg, gone, overlapped, missed, stage, got, garbled>>
      BY <2>1 DEF vars, history
    <3>2. \A c \in Clients : /\ Queued(c)' <=> Queued(c)
                             /\ Taken(c)' <=> Taken(c)
                             /\ Content(c)' <=> Content(c)
                             /\ Replying(c)' <=> Replying(c)
                             /\ Sent(c)' <=> Sent(c)
                             /\ Undisturbed(c)' <=> Undisturbed(c)
      BY <3>1 DEF Taken, Header, Content, Queued, Replying, Sent, Undisturbed
    <3>3. TypeOK'
      BY <3>1 DEF FInv, TypeOK
    <3>4. CASE IInv
      <4>1. ServerOK' /\ CutOK' /\ RequestOK'
        BY <3>1, <3>2, <3>4 DEF IInv, ServerOK, CutOK, RequestOK
      <4>2. ReplyOK' /\ StageOK'
        BY <3>1, <3>2, <3>4 DEF IInv, ReplyOK, StageOK
      <4>3. AloneOK' /\ OwnReplyOK'
        BY <3>1, <3>2, <3>4 DEF IInv, AloneOK, OwnReplyOK
      <4> QED BY <3>3, <4>1, <4>2, <4>3 DEF IInv, FInv
    <3> QED BY <3>1, <3>3, <3>4 DEF FInv
  <2>2. CASE Next
    <3>1. IInv
      BY <2>2, StepsIntact DEF FInv
    <3>2. TypeOK' /\ (garbled' \/ IInv')
      BY <2>2, <3>1, Steps
    <3> QED BY <3>2 DEF FInv
  <2> QED BY <2>1, <2>2
<1> QED BY <1>1, <1>2, PTL DEF Spec

(* Every variable keeps its type; until the server's inbox is garbled, no  *)
(* client finds more than one message in its own.                          *)
THEOREM TypeCorrect == Spec => []TypeOK
<1>1. FInv => TypeOK
  BY DEF FInv
<1> QED BY <1>1, Invariance, PTL

(* What is in the server's inbox, and what it reads, has the length of a   *)
(* request; what a client reads is the one reply in its inbox.             *)
LengthOK ==
  /\ \A i \in DOMAIN file[Server] : file[Server][i].length \in Requests
  /\ pc[Server] \in {"content", "truncate"} => msg[Server].length \in Requests
  /\ \A c \in Clients : pc[c] \in {"content", "truncate"} => msg[c].length = file[c][1].length

LEMMA LengthSame ==
  ASSUME TypeOK, LengthOK,
         \A p \in Processes : file'[p] = file[p] \/ (p = Server /\ file'[p] = <<>>),
         \A p \in Processes : pc'[p] \in {"content", "truncate"} => pc'[p] = pc[p] /\ msg'[p] = msg[p]
  PROVE  LengthOK'
  BY FilesigAssumption DEF LengthOK, Processes

LEMMA LengthNext ==
  ASSUME IInv, LengthOK, Next
  PROVE  LengthOK'
<1>0. /\ TypeOK /\ ServerOK /\ ReplyOK /\ StageOK /\ Server \in Processes
      /\ \A c \in Clients : c \in Processes /\ c # Server
      /\ pc \in [Processes -> Labels] /\ file \in [Processes -> Seq(Message)]
  BY FilesigAssumption DEF IInv, TypeOK, Processes
<1>1. ASSUME NEW p \in Processes, Open(p) \/ WLock(p) \/ Fill(p) \/ OpenInbox(p) \/ Stat(p) \/ Pause(p)
                                  \/ RLock(p) \/ CloseInbox(p)
      PROVE  LengthOK'
  <2>1. file' = file /\ msg' = msg
    BY <1>1 DEF Open, WLock, Fill, OpenInbox, Stat, Pause, RLock, CloseInbox, inboxes
  <2>2. \A q \in Processes : pc'[q] \in {"content", "truncate"} => pc'[q] = pc[q]
    BY <1>0, <1>1 DEF Open, WLock, Fill, OpenInbox, Stat, Pause, RLock, CloseInbox, Goto
  <2> QED BY <1>0, <2>1, <2>2, LengthSame
<1>2. ASSUME NEW p \in Processes, Notify(p) PROVE LengthOK'
  <2>1. PICK label \in Woken(Peer(p)) : pc' = [pc EXCEPT ![p] = "inbox", ![Peer(p)] = label]
    BY <1>2 DEF Notify
  <2>2. file' = file /\ Peer(p) \in Processes /\ Peer(p) # p /\ \A q \in Processes \ {p} : msg'[q] = msg[q]
    BY <1>0, <1>2, Peers DEF Notify, inboxes, TypeOK
  <2>3. Alike(pc[Peer(p)], label)
    BY <1>0, <2>2, Wakes
  <2>4. \A q \in Processes : pc'[q] \in {"content", "truncate"} => q # p /\ pc'[q] = pc[q]
    BY <1>0, <2>1, <2>2, <2>3 DEF Alike
  <2> QED BY <1>0, <2>2, <2>4, LengthSame
<1>3. ASSUME NEW p \in Clients, Flush(p) PROVE LengthOK'
  <2>1. PICK n \in Requests : file' = Delivered(p, n)
    BY <1>0, <1>3 DEF Flush, Lengths
  <2> DEFINE m == [from |-> p, of |-> p, length |-> n]
  <2>2. file' = [file EXCEPT ![Server] = Append(@, m)] /\ m \in Message
    BY <1>0, <2>1, Peers DEF Delivered, Message
  <2>3. m.length \in Requests
    OBVIOUS
  <2> HIDE DEF m
  <2>4. file'[Server] = Append(file[Server], m) /\ \A c \in Clients : file'[c] = file[c]
    BY <1>0, <2>2
  <2>5. \A i \in DOMAIN file'[Server] : file'[Server][i].length \in Requests
    BY <1>0, <2>2, <2>3, <2>4, Appending DEF LengthOK
  <2>6. msg' = msg /\ \A q \in Processes : pc'[q] \in {"content", "truncate"} => pc'[q] = pc[q]
    BY <1>0, <1>3 DEF Flush, Goto
  <2> QED BY <1>0, <2>4, <2>5, <2>6 DEF LengthOK
<1>4. ASSUME pc[Server] = "flush", NEW n \in Replies, NEW c \in Clients, pc[c] \in {"content", "truncate"}
      PROVE  Delivered(Server, n)[c] = file[c]
  <2>1. c \notin gone /\ file[c] # <<>>
    BY <1>0, <1>4 DEF StageOK, ReplyOK
  <2>2. ~Replying(c)
    BY <1>0, <2>1 DEF ReplyOK
  <2> QED BY <1>0, <1>4, <2>2 DEF Delivered, Peer, Replying
<1>5. CASE Flush(Server)
  <2>1. PICK n \in Replies : file' = Delivered(Server, n)
    BY <1>5 DEF Flush, Lengths
  <2>2. /\ pc[Server] = "flush" /\ msg' = msg
        /\ \A q \in Processes : pc'[q] \in {"content", "truncate"} => pc'[q] = pc[q]
    BY <1>0, <1>5 DEF Flush, Goto
  <2>3. file'[Server] = file[Server]
    BY <1>0, <2>1, <2>2 DEF Delivered, Peer, ServerOK
  <2> QED BY <1>0, <1>4, <2>1, <2>2, <2>3 DEF LengthOK
<1>6. CASE Stop
  <2>1. PICK n \in Replies :
          file' = [(IF pc[Server] = "flush" THEN Delivered(Server, n) ELSE file) EXCEPT ![Server] = <<>>]
    BY <1>6 DEF Stop
  <2>2. /\ \A c \in Clients : pc'[c] = pc[c] /\ msg'[c] = msg[c]
        /\ pc'[Server] = "down"
    BY <1>0, <1>6 DEF Stop, TypeOK
  <2>3. file'[Server] = <<>> /\ \A c \in Clients : pc[c] \in {"content", "truncate"} => file'[c] = file[c]
    BY <1>0, <1>4, <2>1 DEF Delivered
  <2> QED BY <1>0, <2>2, <2>3 DEF LengthOK
<1>7. ASSUME NEW p \in Processes, ReadHeader(p) PROVE LengthOK'
  <2>1. /\ pc[p] = "header" /\ file' = file /\ msg' = [msg EXCEPT ![p] = Headed(p)]
        /\ \A q \in Processes \ {p} : pc'[q] = pc[q] /\ msg'[q] = msg[q]
    BY <1>0, <1>7 DEF ReadHeader, Goto, inboxes, TypeOK
  <2>2. msg'[p].length = file[p][Len(file[p])].length /\ Len(file[p]) \in DOMAIN file[p]
    BY <1>0, <2>1, Readable DEF Headed, TypeOK
  <2>3. p \in Clients => Len(file[p]) = 1
    BY <1>0, <2>1 DEF ReplyOK, StageOK
  <2> QED BY <1>0, <2>1, <2>2, <2>3 DEF LengthOK
<1>8. ASSUME NEW p \in Processes, ReadContent(p) PROVE LengthOK'
  <2>1. /\ pc[p] = "content" /\ file' = file
        /\ \A q \in Processes : msg'[q].length = msg[q].length
        /\ \A q \in Processes \ {p} : pc'[q] = pc[q]
    BY <1>0, <1>8 DEF ReadContent, Goto, inboxes, TypeOK
  <2> QED BY <1>0, <2>1 DEF LengthOK
<1>9. ASSUME NEW p \in Processes, Truncate(p) PROVE LengthOK'
  <2>1. /\ pc'[p] = "close" /\ msg' = msg /\ \A q \in Processes \ {p} : pc'[q] = pc[q] /\ file'[q] = file[q]
        /\ pc[p] = "truncate"
    BY <1>0, <1>9 DEF Truncate, Goto
  <2>2. file'[p] \in {file[p], SubSeq(file[p], 1, size[p] - 1)}
    BY <1>0, <1>9 DEF Truncate
  <2>3. \A i \in DOMAIN file'[p] : i \in DOMAIN file[p] /\ file'[p][i] = file[p][i]
    <3>1. file[p] \in Seq(Message) /\ size[p] \in Nat /\ 1 <= size[p] /\ size[p] <= Len(file[p])
      BY <1>0, <2>1, Readable
    <3>2. CASE file'[p] = file[p]
      BY <3>2
    <3>3. CASE file'[p] = SubSeq(file[p], 1, size[p] - 1)
      BY <3>1, <3>3, Cutting
    <3> QED BY <2>2, <3>2, <3>3
  <2> QED BY <1>0, <2>1, <2>3 DEF LengthOK
<1>10. ASSUME \A q \in Processes : pc'[q] \in {"content", "truncate"} => pc'[q] = pc[q] /\ msg'[q] = msg[q],
              file' = file
       PROVE  LengthOK'
  BY <1>0, <1>10, LengthSame
<1>11. CASE Serve
  <2>1. \A q \in Processes : pc'[q] \in {"content", "truncate"} => pc'[q] = pc[q] /\ msg'[q] = msg[q]
    BY <1>0, <1>11 DEF Serve, Goto
  <2> QED BY <1>10, <1>11, <2>1 DEF Serve, inboxes
<1>12. ASSUME NEW c \in Clients, Connect(c) PROVE LengthOK'
  <2>1. \A q \in Processes : pc'[q] \in {"content", "truncate"} => pc'[q] = pc[q] /\ msg'[q] = msg[q]
    BY <1>0, <1>12 DEF Connect, Goto
  <2> QED BY <1>10, <1>12, <2>1 DEF Connect, inboxes
<1>13. ASSUME NEW c \in Clients, Handle(c) PROVE LengthOK'
  <2>1. /\ pc'[c] = "idle" /\ file'[Server] = file[Server]
        /\ \A q \in Processes \ {c} : pc'[q] = pc[q] /\ msg'[q] = msg[q] /\ file'[q] = file[q]
    BY <1>0, <1>13 DEF Handle, Goto, TypeOK
  <2> QED BY <1>0, <2>1 DEF LengthOK
<1>14. ASSUME NEW p \in Processes, Kill(p) PROVE LengthOK'
  <2>1. /\ file' = file /\ pc'[p] \in {"down", "idle"}
        /\ \A q \in Processes \ {p} : pc'[q] = pc[q] /\ msg'[q] = msg[q]
    BY <1>0, <1>14 DEF Kill, TypeOK
  <2> QED BY <1>10, <2>1
<1> QED BY <1>1, <1>2, <1>3, <1>5, <1>6, <1>7, <1>8, <1>9, <1>11, <1>12, <1>13, <1>14 DEF Next, Step, Processes

(* A message that was read, or cut, in part takes requests of different    *)
(* lengths, list, buy or get, in the server's inbox (filesig.c:172-183).   *)
THEOREM OneLength ==
  ASSUME NEW n, Requests = {n}
  PROVE  Spec => []~garbled
<1>1. Init => LengthOK /\ ~garbled
  <2> SUFFICES ASSUME Init PROVE LengthOK /\ ~garbled
    OBVIOUS
  <2>1. /\ file[Server] = <<>> /\ ~garbled
        /\ \A p \in Processes : pc[p] \in {"inbox", "idle"}
    BY DEF Init, Processes
  <2> QED BY <2>1 DEF LengthOK, Processes
<1>2. FInv /\ LengthOK /\ ~garbled /\ [Next]_vars => LengthOK' /\ ~garbled'
  <2> SUFFICES ASSUME IInv, LengthOK, ~garbled, [Next]_vars PROVE LengthOK' /\ ~garbled'
    BY DEF FInv
  <2>0. TypeOK /\ ServerOK /\ ReplyOK /\ StageOK
    BY DEF IInv
  <2>1. CASE UNCHANGED vars
    BY <2>1 DEF vars, LengthOK
  <2>2. CASE Next
    <3>1. LengthOK'
      BY <2>2, LengthNext
    <3>2. ASSUME NEW p \in Processes, pc[p] \in {"content", "truncate"}
          PROVE  /\ Last(file[p]).length = msg[p].length
                 /\ file[p][size[p]].length = msg[p].length
      <4>1. /\ Last(file[p]) = file[p][Len(file[p])] /\ Len(file[p]) \in DOMAIN file[p]
            /\ size[p] \in DOMAIN file[p]
        BY <2>0, <3>2, Readable
      <4>2. CASE p \in Clients
        <5>1. Len(file[p]) = 1 /\ size[p] = 1
          BY <2>0, <3>2, <4>2 DEF ReplyOK, StageOK
        <5> QED BY <3>2, <4>1, <4>2, <5>1 DEF LengthOK
      <4>3. CASE p = Server
        BY <3>2, <4>1, <4>3 DEF LengthOK
      <4> QED BY <4>2, <4>3 DEF Processes
    <3>3. ASSUME NEW p \in Processes, ReadContent(p) \/ Truncate(p) PROVE ~garbled'
      <4>1. pc[p] \in {"content", "truncate"}
        BY <3>3 DEF ReadContent, Truncate, Goto
      <4> QED BY <3>2, <3>3, <4>1 DEF ReadContent, Truncate, Aligned
    <3>4. garbled' = garbled \/ \E p \in Processes : ReadContent(p) \/ Truncate(p)
      BY <2>2 DEF Next, Step, Open, WLock, Fill, Flush, Notify, OpenInbox, Stat, Pause, RLock, ReadHeader,
                  CloseInbox, Serve, Stop, Connect, Handle, Kill
    <3> QED BY <3>1, <3>3, <3>4
  <2> QED BY <2>1, <2>2
<1> QED BY <1>1, <1>2, Invariance, PTL DEF Spec

(* Until its inbox is garbled, the server acts on a request once, whatever *)
(* is appended while it reads and whichever call's header goes with whose  *)
(* content (filesig.c:157-183).                                            *)
THEOREM ActedOnce == Spec => []ActsOnce
<1>1. FInv => ActsOnce
  <2> SUFFICES ASSUME IInv, pc[Server] = "act", msg[Server].of \notin gone
               PROVE  stage[msg[Server].of] = "asked"
    BY DEF FInv, ActsOnce
  <2>1. msg[Server].of \in Clients /\ Content(msg[Server].of)
    BY DEF IInv, ServerOK, Content
  <2> QED BY <2>1 DEF IInv, StageOK
<1> QED BY <1>1, Invariance, PTL

(* A reply is for a client that waits for it, so none is left for its next *)
(* call, until the server's inbox is garbled (filesig.c:182-183).          *)
THEOREM NoneLeft == Spec => []RepliesAwaited
<1>1. FInv => RepliesAwaited
  <2> SUFFICES ASSUME IInv, NEW c \in Clients \ gone
               PROVE  Len(file[c]) + (IF Replying(c) THEN 1 ELSE 0) <= (IF Waiting(c) THEN 1 ELSE 0)
    BY DEF FInv, RepliesAwaited
  <2>1. Sent(c) => Waiting(c)
    BY DEF Sent, Waiting
  <2>2. /\ Replying(c) => Sent(c) /\ file[c] = <<>>
        /\ file[c] # <<>> => Sent(c) /\ Len(file[c]) = 1
    BY DEF IInv, ReplyOK
  <2>3. file[c] \in Seq(Message)
    BY DEF IInv, TypeOK, Processes
  <2>4. Len(file[c]) \in Nat /\ (file[c] = <<>> => Len(file[c]) = 0)
    BY <2>3, AtMostOne
  <2>5. CASE Replying(c)
    BY <2>1, <2>2, <2>4, <2>5
  <2>6. CASE ~Replying(c) /\ file[c] # <<>>
    <3>1. Waiting(c) /\ Len(file[c]) = 1
      BY <2>1, <2>2, <2>6
    <3> QED BY <2>6, <3>1
  <2>7. CASE ~Replying(c) /\ file[c] = <<>>
    BY <2>4, <2>7
  <2> QED BY <2>5, <2>6, <2>7
<1> QED BY <1>1, Invariance, PTL

(* Calls that meet no other get the reply to their own request, and those  *)
(* that do are acted on once at most, until the server's inbox is garbled  *)
(* (actions.h:10-15).                                                      *)
THEOREM Refinement == Spec => RpcSpec
<1>1. Init => Calls!Init
  BY DEF Init, Calls!Init, Calls!NoReply
<1>2. ASSUME IInv, [Next]_vars PROVE [Calls!Next]_<<stage, got>>
  <2>0. /\ TypeOK /\ ServerOK /\ StageOK /\ OwnReplyOK
        /\ stage \in [Clients -> {"idle", "asked", "served"}] /\ got \in [Clients -> Clients \cup {"nobody"}]
    BY <1>2 DEF IInv, TypeOK
  <2>1. CASE UNCHANGED <<stage, got>>
    BY <2>1
  <2>2. CASE Serve
    <3>1. msg[Server].of \in Clients
      BY <2>0, <2>2 DEF Serve, Goto, ServerOK
    <3>2. stage' = [stage EXCEPT ![msg[Server].of] = Acted(msg[Server].of)] /\ got' = got
      BY <2>2 DEF Serve, Subject
    <3>3. CASE msg[Server].of \in gone
      BY <2>0, <3>1, <3>2, <3>3 DEF Acted
    <3>4. CASE msg[Server].of \notin gone
      <4>1. stage[msg[Server].of] = "asked"
        BY <2>0, <2>2, <3>1, <3>4 DEF StageOK, Content, Serve, Goto
      <4> QED BY <3>1, <3>2, <3>4, <4>1 DEF Acted, Calls!Next, Calls!Serve, Calls!Move
    <3> QED BY <3>3, <3>4
  <2>3. ASSUME NEW p \in Processes, Kill(p) PROVE [Calls!Next]_<<stage, got>>
    <3>1. /\ stage' = [c \in Clients |-> IF c = p THEN "idle" ELSE stage[c]] /\ got' = got
          /\ pc[p] # "idle"
      BY <2>3 DEF Kill
    <3>2. CASE p \in Clients
      <4>1. stage[p] # "idle" /\ stage' = [stage EXCEPT ![p] = "idle"]
        BY <2>0, <3>1, <3>2 DEF StageOK
      <4> QED BY <3>1, <3>2, <4>1 DEF Calls!Next, Calls!Abort
    <3>3. CASE p \notin Clients
      BY <2>0, <3>1, <3>3
    <3> QED BY <3>2, <3>3
  <2>4. ASSUME NEW c \in Clients, Connect(c) PROVE [Calls!Next]_<<stage, got>>
    <3>1. stage[c] = "idle" /\ stage' = [stage EXCEPT ![c] = "asked"] /\ got' = got
      BY <2>0, <2>4 DEF Connect, Goto, StageOK
    <3> QED BY <3>1 DEF Calls!Next, Calls!Call, Calls!Move
  <2>5. ASSUME NEW c \in Clients, Handle(c) PROVE [Calls!Next]_<<stage, got>>
    <3>1. stage' = [stage EXCEPT ![c] = "idle"] /\ pc[c] = "act"
      BY <2>5 DEF Handle, Goto
    <3>2. CASE c \in overlapped
      <4>1. stage[c] # "idle" /\ got' = got
        BY <2>0, <2>5, <3>1, <3>2 DEF Handle, StageOK
      <4> QED BY <3>1, <4>1 DEF Calls!Next, Calls!Abort
    <3>3. CASE c \notin overlapped
      <4>1. msg[c].of = c /\ stage[c] = "served"
        BY <2>0, <3>1, <3>3 DEF OwnReplyOK, Undisturbed
      <4>2. got' = [got EXCEPT ![c] = c]
        BY <2>5, <3>3, <4>1 DEF Handle
      <4> QED BY <3>1, <4>1, <4>2 DEF Calls!Next, Calls!Return, Calls!Move
    <3> QED BY <3>2, <3>3
  <2> QED
    <3>1. CASE UNCHANGED vars
      BY <2>1, <3>1 DEF vars, history
    <3>2. CASE Stop
      BY <2>1, <3>2 DEF Stop, history
    <3>3. ASSUME NEW p \in Processes, Step(p) \/ WLock(p) \/ RLock(p) PROVE UNCHANGED <<stage, got>>
      BY <3>3 DEF Step, Open, WLock, Fill, Flush, Notify, OpenInbox, Stat, Pause, RLock, ReadHeader,
                  ReadContent, Truncate, CloseInbox, history
    <3> QED BY <1>2, <2>1, <2>2, <2>3, <2>4, <2>5, <3>1, <3>2, <3>3 DEF Next
<1>3. FInv /\ [Next]_vars => [Calls!Next]_<<stage, got>>
  <2>1. CASE UNCHANGED vars
    BY <2>1 DEF vars, history
  <2>2. CASE Next
    BY <1>2, <2>2, StepsIntact DEF FInv
  <2> QED BY <2>1, <2>2
<1> QED BY <1>1, <1>3, Invariance, PTL DEF Spec, RpcSpec, Calls!Spec
-----------------------------------------------------------------------------
(***************************************************************************)
(* A process sleeps until a signal says that its inbox has a message, and  *)
(* waits for record locks: can it sleep beside a message, and can all wait *)
(* for each other?                                                         *)
(***************************************************************************)
Up == pc[Server] # "down"

(* A lock is owned by a process that is about to write or to read.         *)
Owns(p, q) == \/ pc[p] = "fill" /\ Peer(p) = q
              \/ pc[p] \in {"header", "content", "truncate", "close"} /\ p = q
LocksOwned == \A q \in Processes : \A p \in lock[q] : Owns(p, q)

(* A process that sleeps, or has found its inbox empty and will, is told   *)
(* of what comes in, unless the signal comes in between.                   *)
Dozing(p) == pc[p] \in {"empty", "pause"} /\ file[p] # <<>>
Told(p)   == \E q \in Processes : pc[q] = "notify" /\ Peer(q) = p
SignalsCome ==
  Up /\ gone = {} => \A p \in Processes : Dozing(p) => p \in missed \/ Told(p)

(* The message of a call that met no other is somewhere.                   *)
Somewhere(c) == Queued(c) \/ Taken(c) \/ Replying(c) \/ file[c] # <<>>
MessageKept ==
  Up /\ gone = {} => \A c \in Clients : Undisturbed(c) /\ Sent(c) => Somewhere(c)

(* Only the server exits by itself. *)
ClientsUp == \A c \in Clients : pc[c] # "down"

(* A server that was killed is down.                                       *)
KilledDown == Server \in gone => ~Up

WInv == IInv /\ LocksOwned /\ SignalsCome /\ MessageKept /\ ClientsUp /\ KilledDown

(* A process that neither sleeps nor waits for a lock has a step to take.  *)
CanGo(p) == /\ pc[p] \notin {"idle", "down", "pause"}
            /\ pc[p] \in {"wlock", "rlock"} => ~Blocked(p)

NoStandstill ==
  Up /\ missed = {} /\ (\E c \in Clients : Undisturbed(c)) =>
    \E p \in Processes : CanGo(p)
-----------------------------------------------------------------------------
(* Owners go on, and keep their locks.                                     *)
Owners == {"fill", "header", "content", "truncate", "close"}

LEMMA SameLocks ==
  ASSUME TypeOK, LocksOwned, lock' = lock,
         \A r \in Processes : pc[r] \in Owners =>
           \/ pc'[r] = pc[r] /\ (r = Server /\ pc[r] = "fill" => msg'[r] = msg[r])
           \/ {pc[r], pc'[r]} \subseteq {"header", "content", "truncate", "close"}
  PROVE  LocksOwned'
<1> SUFFICES ASSUME NEW q \in Processes, NEW r \in lock[q] PROVE Owns(r, q)'
  BY DEF LocksOwned
<1>1. Owns(r, q) /\ r \in Processes
  BY DEF LocksOwned, TypeOK
<1>2. pc[r] = "fill" /\ pc'[r] = "fill" => Peer(r)' = Peer(r)
  BY <1>1 DEF Peer, Owners
<1> QED BY <1>1, <1>2 DEF Owns, Owners

LEMMA LocksNext ==
  ASSUME TypeOK, ServerOK, LocksOwned, [Next]_vars
  PROVE  LocksOwned'
<1>0. Server \in Processes /\ \A c \in Clients : c \in Processes /\ c # Server
  BY FilesigAssumption DEF Processes
<1>1. ASSUME NEW p \in Processes,
             Open(p) \/ Flush(p) \/ OpenInbox(p) \/ Stat(p) \/ Pause(p) \/ ReadHeader(p)
               \/ ReadContent(p) \/ Truncate(p)
      PROVE  LocksOwned'
  <2>1. lock' = lock
    BY <1>1 DEF Open, Flush, OpenInbox, Stat, Pause, ReadHeader, ReadContent, Truncate, inboxes
  <2>2. \E a, b \in Labels : /\ Goto(p, a, b)
                             /\ a \in Owners => {a, b} \subseteq {"header", "content", "truncate", "close"}
    BY <1>1 DEF Open, Flush, OpenInbox, Stat, Pause, ReadHeader, ReadContent, Truncate, Owners, Labels
  <2>3. \A r \in Processes \ {p} : pc'[r] = pc[r] /\ msg'[r] = msg[r]
    <3>1. \A r \in Processes \ {p} : msg'[r] = msg[r]
      BY <1>1 DEF Open, Flush, OpenInbox, Stat, Pause, ReadHeader, ReadContent, Truncate, TypeOK
    <3> QED BY <2>2, <3>1 DEF Goto, TypeOK
  <2>4. pc[p] \in Owners => {pc[p], pc'[p]} \subseteq {"header", "content", "truncate", "close"}
    BY <2>2 DEF Goto, TypeOK
  <2> QED BY <2>1, <2>3, <2>4, SameLocks
<1>2. ASSUME NEW p \in Processes, WLock(p) \/ Fill(p) PROVE LocksOwned'
  <2>1. Peer(p) \in Processes /\ msg' = msg
    BY <1>2, Peers DEF WLock, Fill, Goto
  <2>2. \A r \in Processes : Peer(r)' = Peer(r)
    BY <2>1 DEF Peer
  <2>3. \A r \in Processes \ {p} : pc'[r] = pc[r]
    BY <1>2 DEF WLock, Fill, Goto, TypeOK
  <2>4. CASE WLock(p)
    <3>1. pc[p] = "wlock" /\ pc'[p] = "fill" /\ lock' = [lock EXCEPT ![Peer(p)] = @ \cup {p}]
      BY <2>4 DEF WLock, Goto, TypeOK
    <3> SUFFICES ASSUME NEW q \in Processes, NEW r \in lock'[q] PROVE Owns(r, q)'
      BY DEF LocksOwned
    <3>2. r \in lock[q] \/ (r = p /\ q = Peer(p))
      BY <2>1, <3>1 DEF TypeOK
    <3>3. CASE r \in lock[q]
      <4>1. Owns(r, q) /\ r \in Processes
        BY <3>3 DEF LocksOwned, TypeOK
      <4>2. r # p
        BY <3>1, <4>1 DEF Owns
      <4> QED BY <2>2, <2>3, <4>1, <4>2 DEF Owns
    <3>4. CASE r = p /\ q = Peer(p)
      BY <2>2, <3>1, <3>4 DEF Owns
    <3> QED BY <3>2, <3>3, <3>4
  <2>5. CASE Fill(p)
    <3>1. pc[p] = "fill" /\ lock' = [lock EXCEPT ![Peer(p)] = @ \ {p}]
      BY <2>5 DEF Fill, Goto
    <3> SUFFICES ASSUME NEW q \in Processes, NEW r \in lock'[q] PROVE Owns(r, q)'
      BY DEF LocksOwned
    <3>2. r \in lock[q] /\ (q = Peer(p) => r # p)
      BY <2>1, <3>1 DEF TypeOK
    <3>3. Owns(r, q) /\ r \in Processes
      BY <3>2 DEF LocksOwned, TypeOK
    <3>4. r # p
      BY <3>1, <3>2, <3>3 DEF Owns
    <3> QED BY <2>2, <2>3, <3>3, <3>4 DEF Owns
  <2> QED BY <1>2, <2>4, <2>5
<1>3. ASSUME NEW p \in Processes, RLock(p) \/ CloseInbox(p) PROVE LocksOwned'
  <2>1. msg' = msg
    BY <1>3 DEF RLock, CloseInbox
  <2>2. \A r \in Processes : Peer(r)' = Peer(r)
    BY <2>1 DEF Peer
  <2>3. \A r \in Processes \ {p} : pc'[r] = pc[r]
    BY <1>3 DEF RLock, CloseInbox, Goto, TypeOK
  <2>4. CASE RLock(p)
    <3>1. pc[p] = "rlock" /\ pc'[p] = "header" /\ lock' = [lock EXCEPT ![p] = @ \cup {p}]
      BY <2>4 DEF RLock, Goto, TypeOK
    <3> SUFFICES ASSUME NEW q \in Processes, NEW r \in lock'[q] PROVE Owns(r, q)'
      BY DEF LocksOwned
    <3>2. r \in lock[q] \/ (r = p /\ q = p)
      BY <3>1 DEF TypeOK
    <3>3. CASE r \in lock[q]
      <4>1. Owns(r, q) /\ r \in Processes
        BY <3>3 DEF LocksOwned, TypeOK
      <4>2. r # p
        BY <3>1, <4>1 DEF Owns
      <4> QED BY <2>2, <2>3, <4>1, <4>2 DEF Owns
    <3>4. CASE r = p /\ q = p
      BY <3>1, <3>4 DEF Owns
    <3> QED BY <3>2, <3>3, <3>4
  <2>5. CASE CloseInbox(p)
    <3>1. pc[p] = "close" /\ lock' = [lock EXCEPT ![p] = @ \ {p}]
      BY <2>5 DEF CloseInbox, Goto
    <3> SUFFICES ASSUME NEW q \in Processes, NEW r \in lock'[q] PROVE Owns(r, q)'
      BY DEF LocksOwned
    <3>2. r \in lock[q] /\ (q = p => r # p)
      BY <3>1 DEF TypeOK
    <3>3. Owns(r, q) /\ r \in Processes
      BY <3>2 DEF LocksOwned, TypeOK
    <3>4. r # p
      BY <3>1, <3>2, <3>3 DEF Owns
    <3> QED BY <2>2, <2>3, <3>3, <3>4 DEF Owns
  <2> QED BY <1>3, <2>4, <2>5
<1>4. ASSUME NEW p \in Processes, Notify(p) PROVE LocksOwned'
  <2>1. PICK label \in Woken(Peer(p)) : pc' = [pc EXCEPT ![p] = "inbox", ![Peer(p)] = label]
    BY <1>4 DEF Notify
  <2>2. pc[p] = "notify" /\ lock' = lock /\ \A r \in Processes \ {p} : msg'[r] = msg[r]
    BY <1>4 DEF Notify, inboxes, TypeOK
  <2>3. \A r \in Processes \ {p} : pc[r] \in {"fill", "header", "content", "truncate", "close"} => pc'[r] = pc[r]
    BY <2>1 DEF Woken, Blocked, TypeOK
  <2> QED BY <2>2, <2>3, SameLocks DEF Owners
<1>5. CASE Serve
  <2>1. lock' = lock /\ msg' = msg /\ pc[Server] = "act" /\ \A r \in Processes \ {Server} : pc'[r] = pc[r]
    BY <1>5 DEF Serve, Goto, inboxes, TypeOK
  <2> QED BY <2>1, SameLocks DEF Owners
<1>6. ASSUME NEW c \in Clients, Connect(c) \/ Handle(c) PROVE LocksOwned'
  <2>1. /\ lock' = lock /\ pc[c] \in {"idle", "act"} /\ msg'[Server] = msg[Server]
        /\ \A r \in Processes \ {c} : pc'[r] = pc[r]
    BY <1>0, <1>6 DEF Connect, Handle, Goto, inboxes, TypeOK
  <2> QED BY <2>1, SameLocks DEF Owners
<1>7. ASSUME NEW p \in Processes,
             \A q \in Processes : lock'[q] \subseteq lock[q] \ {p},
             \A r \in Processes \ {p} : pc'[r] = pc[r] /\ msg'[r] = msg[r]
      PROVE  LocksOwned'
  <2> SUFFICES ASSUME NEW q \in Processes, NEW r \in lock'[q] PROVE Owns(r, q)'
    BY DEF LocksOwned
  <2>1. r \in lock[q] /\ r # p
    BY <1>7
  <2>2. Owns(r, q) /\ r \in Processes
    BY <2>1 DEF LocksOwned, TypeOK
  <2>3. pc'[r] = pc[r] /\ msg'[r] = msg[r]
    BY <1>7, <2>1, <2>2
  <2>4. Peer(r)' = Peer(r)
    BY <2>3 DEF Peer
  <2> QED BY <2>2, <2>3, <2>4 DEF Owns
<1>8. CASE Stop
  <2>1. \A q \in Processes : lock'[q] \subseteq lock[q] \ {Server}
    BY <1>8 DEF Stop, Unlocked, TypeOK
  <2>2. \A r \in Processes \ {Server} : pc'[r] = pc[r] /\ msg'[r] = msg[r]
    BY <1>8 DEF Stop, TypeOK
  <2> QED BY <1>0, <1>7, <2>1, <2>2
<1>9. ASSUME NEW p \in Processes, Kill(p) PROVE LocksOwned'
  <2>1. \A q \in Processes : lock'[q] \subseteq lock[q] \ {p}
    BY <1>9 DEF Kill, Unlocked, TypeOK
  <2>2. \A r \in Processes \ {p} : pc'[r] = pc[r] /\ msg'[r] = msg[r]
    BY <1>9 DEF Kill, TypeOK
  <2> QED BY <1>7, <2>1, <2>2
<1>10. CASE UNCHANGED vars
  BY <1>10, SameLocks DEF vars
<1> QED BY <1>1, <1>2, <1>3, <1>4, <1>5, <1>6, <1>8, <1>9, <1>10 DEF Next, Step
-----------------------------------------------------------------------------
(* Without Stop and Kill the server stays up and nobody is gone.           *)
LEMMA UpKept ==
  ASSUME TypeOK, [Next]_vars, Up', gone' = {}
  PROVE  Up /\ gone = {} /\ ~Stop /\ \A p \in Processes : ~Kill(p)
<1>0. Server \in Processes
  BY DEF Processes
<1>1. ~Stop
  BY <1>0 DEF Stop, Up, TypeOK
<1>2. \A p \in Processes : ~Kill(p)
  BY DEF Kill
<1>3. gone' = gone
  BY <1>1, <1>2 DEF Next, Step, vars, Serve, Open, WLock, Fill, Flush, Notify, OpenInbox, Stat, Pause,
     RLock, ReadHeader, ReadContent, Truncate, CloseInbox, Connect, Handle
<1>4. Up
  <2> SUFFICES ASSUME pc[Server] = "down" PROVE FALSE
    BY DEF Up
  <2>1. ASSUME NEW p \in Processes, NEW a, NEW b, a # "down", Goto(p, a, b) PROVE pc'[Server] = "down"
    BY <1>0, <2>1 DEF Goto, TypeOK
  <2>2. ASSUME NEW p \in Processes, Step(p) \/ WLock(p) \/ RLock(p), ~Notify(p)
        PROVE  pc'[Server] = "down"
    <3>1. \E a, b : a # "down" /\ Goto(p, a, b)
      BY <2>2 DEF Step, Open, WLock, Fill, Flush, OpenInbox, Stat, Pause, RLock, ReadHeader,
         ReadContent, Truncate, CloseInbox
    <3> QED BY <2>1, <3>1
  <2>3. ASSUME NEW p \in Processes, Notify(p) PROVE pc'[Server] = "down"
    <3>1. PICK label \in Woken(Peer(p)) : pc' = [pc EXCEPT ![p] = "inbox", ![Peer(p)] = label]
      BY <2>3 DEF Notify
    <3>2. p # Server /\ (Peer(p) = Server => label = "down")
      BY <2>3 DEF Notify, Woken, Blocked
    <3> QED BY <1>0, <3>1, <3>2 DEF TypeOK
  <2>4. ASSUME NEW c \in Clients, Connect(c) \/ Handle(c) PROVE pc'[Server] = "down"
    BY <1>0, <2>1, <2>4 DEF Connect, Handle, Processes
  <2>5. ~Serve
    BY DEF Serve, Goto
  <2>6. UNCHANGED vars => pc'[Server] = "down"
    BY DEF vars
  <2> QED BY <1>1, <1>2, <2>2, <2>3, <2>4, <2>5, <2>6 DEF Next, Up
<1> QED BY <1>1, <1>2, <1>3, <1>4
-----------------------------------------------------------------------------
(* What keeps a process that dozes beside a message told, or missed.       *)
LEMMA StillTold ==
  ASSUME TypeOK, NEW r \in Processes,
         Dozing(r) => r \in missed \/ Told(r),
         Dozing(r)' => Dozing(r) /\ (r \in missed => r \in missed'),
         \A q \in Processes : pc[q] = "notify" => pc'[q] = "notify" /\ msg'[q] = msg[q]
  PROVE  Dozing(r)' => r \in missed' \/ Told(r)'
<1> SUFFICES ASSUME Dozing(r)', r \notin missed' PROVE Told(r)'
  OBVIOUS
<1>1. PICK q \in Processes : pc[q] = "notify" /\ Peer(q) = r
  BY DEF Told
<1>2. pc'[q] = "notify" /\ Peer(q)' = Peer(q)
  BY <1>1 DEF Peer
<1> QED BY <1>1, <1>2 DEF Told

LEMMA SignalsNext ==
  ASSUME TypeOK, ServerOK, SignalsCome, [Next]_vars
  PROVE  SignalsCome'
<1> SUFFICES ASSUME Up', gone' = {}, NEW r \in Processes
             PROVE  Dozing(r)' => r \in missed' \/ Told(r)'
  BY DEF SignalsCome
<1>0. Server \in Processes /\ \A c \in Clients : c \in Processes /\ c # Server
  BY FilesigAssumption DEF Processes
<1>a. Up /\ gone = {} /\ ~Stop /\ \A p \in Processes : ~Kill(p)
  BY UpKept
<1>b. Dozing(r) => r \in missed \/ Told(r)
  BY <1>a DEF SignalsCome
<1>1. ASSUME NEW p \in Processes,
             Open(p) \/ WLock(p) \/ Fill(p) \/ OpenInbox(p) \/ Pause(p) \/ RLock(p) \/ ReadHeader(p)
               \/ ReadContent(p) \/ Truncate(p) \/ CloseInbox(p) \/ Stat(p)
      PROVE  Dozing(r)' => r \in missed' \/ Told(r)'
  <2>1. pc[p] # "notify" /\ \A q \in Processes \ {p} : pc'[q] = pc[q] /\ msg'[q] = msg[q]
    BY <1>1 DEF Open, WLock, Fill, OpenInbox, Pause, RLock, ReadHeader, ReadContent, Truncate,
                CloseInbox, Stat, Goto, TypeOK
  <2>2. CASE r # p
    <3>1. file'[r] = file[r] /\ (r \in missed => r \in missed')
      BY <1>1, <2>2 DEF Open, WLock, Fill, OpenInbox, Pause, RLock, ReadHeader, ReadContent, Truncate,
                CloseInbox, Stat, inboxes, TypeOK
    <3>2. Dozing(r)' => Dozing(r)
      BY <2>1, <2>2, <3>1 DEF Dozing
    <3> QED BY <1>b, <2>1, <3>1, <3>2, StillTold
  <2>3. CASE r = p
    <3>1. CASE Pause(p)
      <4>1. file' = file /\ missed' = missed /\ pc[p] = "empty"
        BY <3>1 DEF Pause, Goto, inboxes
      <4>2. Dozing(r)' => Dozing(r)
        BY <2>3, <4>1 DEF Dozing
      <4> QED BY <1>b, <2>1, <4>1, <4>2, StillTold
    <3>2. CASE Stat(p)
      <4>1. file' = file /\ pc'[p] = IF file[p] = <<>> THEN "empty" ELSE "rlock"
        BY <3>2 DEF Stat, Goto, inboxes, TypeOK
      <4> QED BY <2>3, <4>1 DEF Dozing
    <3>3. CASE ~Pause(p) /\ ~Stat(p)
      <4>1. pc'[p] \notin {"empty", "pause"}
        BY <1>1, <3>3 DEF Open, WLock, Fill, OpenInbox, RLock, ReadHeader, ReadContent, Truncate,
                CloseInbox, Goto, TypeOK
      <4> QED BY <2>3, <4>1 DEF Dozing
    <3> QED BY <3>1, <3>2, <3>3
  <2> QED BY <2>2, <2>3
<1>2. ASSUME NEW p \in Processes, Flush(p) PROVE Dozing(r)' => r \in missed' \/ Told(r)'
  <2>1. /\ pc[p] = "flush" /\ pc'[p] = "notify" /\ missed' = missed /\ msg' = msg
        /\ \A q \in Processes \ {p} : pc'[q] = pc[q]
    BY <1>2 DEF Flush, Goto, TypeOK
  <2>2. CASE r = Peer(p)
    <3>1. Peer(p)' = Peer(p)
      BY <2>1 DEF Peer
    <3> QED BY <2>1, <2>2, <3>1 DEF Told
  <2>3. CASE r # Peer(p)
    <3>1. file'[r] = file[r]
      BY <1>2, <2>3 DEF Flush, Delivered, TypeOK
    <3>2. Dozing(r)' => Dozing(r)
      BY <2>1, <3>1 DEF Dozing
    <3> QED BY <1>b, <2>1, <3>2, StillTold
  <2> QED BY <2>2, <2>3
<1>3. ASSUME NEW p \in Processes, Notify(p) PROVE Dozing(r)' => r \in missed' \/ Told(r)'
  <2>1. PICK label \in Woken(Peer(p)) : pc' = [pc EXCEPT ![p] = "inbox", ![Peer(p)] = label]
    BY <1>3 DEF Notify
  <2>2. /\ pc[p] = "notify" /\ file' = file /\ Peer(p) \in Processes /\ Peer(p) # p
        /\ missed' = IF pc[Peer(p)] = "empty" THEN missed \cup {Peer(p)} ELSE missed
        /\ \A q \in Processes \ {p} : msg'[q] = msg[q]
    BY <1>3, Peers DEF Notify, inboxes, TypeOK
  <2>3. /\ pc'[p] = "inbox" /\ pc'[Peer(p)] = label
        /\ \A q \in Processes \ {p, Peer(p)} : pc'[q] = pc[q]
    BY <2>1, <2>2 DEF TypeOK
  <2>4. /\ label = "pause" => FALSE
        /\ label = "empty" => pc[Peer(p)] = "empty"
        /\ pc[Peer(p)] = "notify" => label = "notify"
    BY DEF Woken, Blocked
  <2>5. CASE r = Peer(p)
    BY <2>2, <2>3, <2>4, <2>5 DEF Dozing
  <2>6. CASE r = p
    BY <2>3, <2>6 DEF Dozing
  <2>7. CASE r # p /\ r # Peer(p)
    <3> SUFFICES ASSUME Dozing(r)', r \notin missed' PROVE Told(r)'
      OBVIOUS
    <3>1. Dozing(r) /\ r \notin missed
      BY <2>2, <2>3, <2>7 DEF Dozing
    <3>2. PICK q \in Processes : pc[q] = "notify" /\ Peer(q) = r
      BY <1>b, <3>1 DEF Told
    <3>3. q # p
      BY <2>7, <3>2
    <3>4. pc'[q] = "notify" /\ msg'[q] = msg[q]
      BY <2>2, <2>3, <2>4, <3>2, <3>3
    <3>5. Peer(q)' = r
      BY <3>2, <3>4 DEF Peer
    <3> QED BY <3>4, <3>5 DEF Told
  <2> QED BY <2>5, <2>6, <2>7
<1>4. ASSUME NEW p \in Processes, Goto(p, "act", "open") \/ Goto(p, "idle", "open") \/ Goto(p, "act", "idle"),
             missed' = missed, \A q \in Processes \ {p} : file'[q] = file[q] /\ msg'[q] = msg[q]
      PROVE  Dozing(r)' => r \in missed' \/ Told(r)'
  <2>1. /\ pc[p] # "notify" /\ pc'[p] \notin {"empty", "pause"}
        /\ \A q \in Processes \ {p} : pc'[q] = pc[q]
    BY <1>4 DEF Goto, TypeOK
  <2>2. Dozing(r)' => Dozing(r)
    BY <1>4, <2>1 DEF Dozing
  <2> QED BY <1>4, <1>b, <2>1, <2>2, StillTold
<1>5. CASE Serve
  BY <1>0, <1>4, <1>5 DEF Serve, inboxes
<1>6. ASSUME NEW c \in Clients, Connect(c) \/ Handle(c) PROVE Dozing(r)' => r \in missed' \/ Told(r)'
  <2>1. /\ Goto(c, "idle", "open") \/ Goto(c, "act", "idle")
        /\ missed' = missed /\ \A q \in Processes \ {c} : file'[q] = file[q] /\ msg'[q] = msg[q]
    BY <1>6 DEF Connect, Handle, inboxes, TypeOK
  <2> QED BY <1>0, <1>4, <2>1
<1>7. CASE UNCHANGED vars
  <2>1. pc' = pc /\ msg' = msg /\ file' = file /\ missed' = missed
    BY <1>7 DEF vars, inboxes
  <2>2. Dozing(r)' => Dozing(r)
    BY <2>1 DEF Dozing
  <2> QED BY <1>b, <2>1, <2>2, StillTold
<1> QED BY <1>a, <1>1, <1>2, <1>3, <1>5, <1>6, <1>7 DEF Next, Step
-----------------------------------------------------------------------------
(* While a call is alone, the server works on nothing but its request.     *)
LEMMA AloneServed ==
  ASSUME IInv, gone = {}, NEW c \in Clients, Undisturbed(c)
  PROVE  /\ pc[Server] \in {"content", "truncate", "close", "act"} => Header(c)
         /\ pc[Server] \in {"open", "wlock", "fill", "flush"} => Replying(c)
         /\ \A d \in Clients \ {c} : pc[d] = "idle"
<1>0. ServerOK /\ RequestOK /\ ReplyOK /\ AloneOK
  BY DEF IInv
<1>1. \A d \in Clients \ {c} : pc[d] = "idle" /\ ~Sent(d)
  BY <1>0 DEF AloneOK, Sent
<1>2. ASSUME pc[Server] \in {"content", "truncate", "close", "act"} PROVE Header(c)
  <2>1. msg[Server].from \in Clients /\ Header(msg[Server].from)
    BY <1>0, <1>2 DEF ServerOK, Header
  <2>2. Sent(msg[Server].from)
    BY <1>0, <2>1 DEF RequestOK, Taken
  <2> QED BY <1>1, <2>1, <2>2
<1>3. ASSUME pc[Server] \in {"open", "wlock", "fill", "flush"} PROVE Replying(c)
  <2>1. msg[Server].from \in Clients /\ Replying(msg[Server].from)
    BY <1>0, <1>3 DEF ServerOK, Replying
  <2>2. Sent(msg[Server].from)
    BY <1>0, <2>1 DEF ReplyOK
  <2> QED BY <1>1, <2>1, <2>2
<1> QED BY <1>1, <1>2, <1>3

LEMMA MessageNext ==
  ASSUME IInv, MessageKept, [Next]_vars
  PROVE  MessageKept'
<1> SUFFICES ASSUME Up', gone' = {}, NEW c \in Clients, Undisturbed(c)', Sent(c)'
             PROVE  Somewhere(c)'
  BY DEF MessageKept
<1>0. /\ TypeOK /\ ServerOK /\ Server \in Processes
      /\ \A d \in Clients : d \in Processes /\ d # Server
  BY FilesigAssumption DEF IInv, Processes
<1>a. Up /\ gone = {} /\ ~Stop /\ \A p \in Processes : ~Kill(p)
  BY <1>0, UpKept
<1>b. Undisturbed(c) => /\ Sent(c) => Somewhere(c)
                        /\ pc[Server] \in {"content", "truncate", "close", "act"} => Header(c)
                        /\ pc[Server] \in {"open", "wlock", "fill", "flush"} => Replying(c)
                        /\ \A d \in Clients \ {c} : pc[d] = "idle"
  BY <1>a, AloneServed DEF MessageKept
<1>1. ASSUME NEW d \in Clients, Connect(d) PROVE FALSE
  <2>1. /\ pc' = [pc EXCEPT ![d] = "open"] /\ pc[d] = "idle"
        /\ overlapped' = IF Active = {} THEN overlapped ELSE overlapped \cup Active \cup {d}
    BY <1>1 DEF Connect, Goto
  <2>2. d # c
    BY <1>0, <2>1 DEF Sent, TypeOK
  <2>3. pc'[c] = pc[c]
    BY <1>0, <2>1, <2>2 DEF TypeOK
  <2>4. c \in Active
    BY <2>3 DEF Active, Undisturbed
  <2> QED BY <2>1, <2>4 DEF Undisturbed
<1>2. ASSUME NEW d \in Clients, Handle(d) PROVE FALSE
  <2>1. /\ pc' = [pc EXCEPT ![d] = "idle"] /\ pc[d] = "act" /\ overlapped' = overlapped \ {d}
    BY <1>2 DEF Handle, Goto
  <2>2. d # c
    BY <1>0, <2>1 DEF Sent, TypeOK
  <2>3. Undisturbed(c)
    BY <1>0, <2>1, <2>2 DEF Undisturbed, TypeOK
  <2> QED BY <1>b, <2>1, <2>2, <2>3
<1>3. CASE Serve
  <2>1. /\ pc[Server] = "act" /\ pc'[Server] = "open" /\ pc'[c] = pc[c] /\ msg' = msg
        /\ overlapped' = overlapped
    BY <1>0, <1>3 DEF Serve, Goto, TypeOK
  <2>2. Undisturbed(c)
    BY <2>1 DEF Undisturbed
  <2>3. Header(c)
    BY <1>b, <2>1, <2>2
  <2>4. Replying(c)'
    BY <2>1, <2>3 DEF Header, Replying
  <2> QED BY <2>4 DEF Somewhere
<1>4. ASSUME NEW p \in Processes, Step(p) \/ WLock(p) \/ RLock(p) PROVE Somewhere(c)'
  <2>0. overlapped' = overlapped
    BY <1>4 DEF Step, Open, WLock, Fill, Flush, Notify, OpenInbox, Stat, Pause, RLock, ReadHeader,
       ReadContent, Truncate, CloseInbox, history
  <2>1. pc[c] # "idle"
    <3> SUFFICES ASSUME pc[c] = "idle" PROVE pc'[c] = "idle"
      BY DEF Undisturbed
    <3>1. CASE Notify(p)
      <4>1. PICK label \in Woken(Peer(p)) : pc' = [pc EXCEPT ![p] = "inbox", ![Peer(p)] = label]
        BY <3>1 DEF Notify
      <4>2. p # c /\ (Peer(p) = c => label = "idle")
        BY <3>1 DEF Notify, Woken, Blocked
      <4> QED BY <1>0, <4>1, <4>2 DEF TypeOK
    <3>2. CASE ~Notify(p)
      <4>1. \E a, b : a # "idle" /\ Goto(p, a, b)
        BY <1>4, <3>2 DEF Step, Open, WLock, Fill, Flush, OpenInbox, Stat, Pause, RLock, ReadHeader,
           ReadContent, Truncate, CloseInbox
      <4> QED BY <1>0, <4>1 DEF Goto, TypeOK
    <3> QED BY <3>1, <3>2
  <2>2. Undisturbed(c)
    BY <2>0, <2>1 DEF Undisturbed
  <2>3. /\ Sent(c) => Somewhere(c)
        /\ pc[Server] \in {"content", "truncate", "close", "act"} => Header(c)
        /\ pc[Server] \in {"open", "wlock", "fill", "flush"} => Replying(c)
        /\ \A d \in Clients \ {c} : pc[d] = "idle"
    BY <1>b, <2>2
  <2>4. p = c \/ p = Server
    <3>1. pc[p] # "idle"
      BY <1>4 DEF Step, Open, WLock, Fill, Flush, Notify, OpenInbox, Stat, Pause, RLock, ReadHeader,
         ReadContent, Truncate, CloseInbox, Goto
    <3> QED BY <2>3, <3>1 DEF Processes
  <2>5. CASE Flush(p)
    <3>1. pc[p] = "flush" /\ msg' = msg
      BY <2>5 DEF Flush, Goto
    <3> PICK n \in Lengths(p) : file' = Delivered(p, n)
      BY <2>5 DEF Flush
    <3>2. CASE p = c
      <4>1. file[Server] \in Seq(Message) /\ [from |-> c, of |-> c, length |-> n] \in Message
        BY <1>0, <3>2 DEF TypeOK, Message, Lengths
      <4>2. file'[Server] = Append(file[Server], [from |-> c, of |-> c, length |-> n])
        BY <1>0, <3>1, <3>2 DEF Delivered, Peer, Subject, TypeOK
      <4>3. /\ file'[Server][Len(file[Server]) + 1] = [from |-> c, of |-> c, length |-> n]
            /\ Len(file[Server]) + 1 \in DOMAIN file'[Server]
        BY <4>1, <4>2, Appending
      <4>4. Queued(c)'
        BY <4>3 DEF Queued
      <4> QED BY <4>4 DEF Somewhere
    <3>3. CASE p = Server
      <4>1. Replying(c)
        BY <2>3, <3>1, <3>3
      <4>2. /\ Peer(Server) = c /\ file[c] \in Seq(Message)
            /\ [from |-> Server, of |-> Subject(Server), length |-> n] \in Message
        BY <1>0, <3>1, <3>3, <4>1, Peers DEF Replying, Peer, TypeOK, Message, Lengths
      <4>3. file'[c] = Append(file[c], [from |-> Server, of |-> Subject(Server), length |-> n])
        BY <1>0, <3>1, <3>3, <4>2 DEF Delivered, TypeOK
      <4>4. file'[c] # <<>>
        BY <4>2, <4>3, Appending
      <4> QED BY <4>4 DEF Somewhere
    <3> QED BY <2>4, <3>2, <3>3
  <2>6. CASE Truncate(p)
    <3>1. /\ pc[p] = "truncate" /\ pc'[p] = "close" /\ msg' = msg
          /\ \A q \in Processes \ {p} : pc'[q] = pc[q]
      BY <1>0, <2>6 DEF Truncate, Goto, TypeOK
    <3>2. p = Server
      BY <2>4, <3>1 DEF Sent
    <3>3. Header(c)'
      BY <2>3, <3>1, <3>2 DEF Header
    <3> QED BY <3>3 DEF Somewhere, Taken
  <2>7. CASE Notify(p)
    <3>1. PICK label \in Woken(Peer(p)) : pc' = [pc EXCEPT ![p] = "inbox", ![Peer(p)] = label]
      BY <2>7 DEF Notify
    <3>2. /\ pc[p] = "notify" /\ file' = file /\ Peer(p) \in Processes /\ Peer(p) # p
          /\ \A q \in Processes \ {p} : msg'[q] = msg[q]
      BY <1>0, <2>7, Peers DEF Notify, inboxes, TypeOK
    <3>3. \A q \in Processes \ {p} : Alike(pc[q], pc'[q])
      <4>1. Alike(pc[Peer(p)], label)
        BY <1>0, <3>2, Wakes
      <4> QED BY <1>0, <3>1, <3>2, <4>1 DEF Alike, TypeOK
    <3>4. pc'[p] = "inbox"
      BY <1>0, <3>1, <3>2 DEF TypeOK
    <3>5. Sent(c)
      BY <1>0, <3>2, <3>3, <3>4 DEF Sent, Alike
    <3>6. Somewhere(c)
      BY <2>3, <3>5
    <3>7. Queued(c)' <=> Queued(c)
      BY <3>2 DEF Queued
    <3>8. (Taken(c) => Taken(c)') /\ (Replying(c) => Replying(c)')
      BY <1>0, <3>2, <3>3 DEF Taken, Header, Content, Replying, Alike
    <3> QED BY <3>2, <3>6, <3>7, <3>8 DEF Somewhere
  <2>8. CASE ~Flush(p) /\ ~Truncate(p) /\ ~Notify(p)
    <3>1. file' = file /\ \A q \in Processes \ {p} : pc'[q] = pc[q] /\ msg'[q] = msg[q]
      BY <1>0, <1>4, <2>8 DEF Step, Open, WLock, Fill, OpenInbox, Stat, Pause, RLock, ReadHeader,
         ReadContent, CloseInbox, Goto, inboxes, TypeOK
    <3>2. Sent(c)
      <4>1. p = c => Sent(c)
        BY <1>0, <1>4, <2>8 DEF Step, Open, WLock, Fill, OpenInbox, Stat, Pause, RLock, ReadHeader,
           ReadContent, CloseInbox, Goto, Sent, TypeOK
      <4> QED BY <1>0, <3>1, <4>1 DEF Sent
    <3>3. Somewhere(c)
      BY <2>3, <3>2
    <3>4. Queued(c)' <=> Queued(c)
      BY <3>1 DEF Queued
    <3>5. (Header(c) => Header(c)') /\ (Replying(c) => Replying(c)')
      <4>1. CASE p = Server
        BY <1>0, <1>4, <2>8, <4>1 DEF Step, Open, WLock, Fill, OpenInbox, Stat, Pause, RLock, ReadHeader,
           ReadContent, CloseInbox, Goto, Header, Replying, TypeOK
      <4>2. CASE p # Server
        BY <1>0, <3>1, <4>2 DEF Header, Replying
      <4> QED BY <4>1, <4>2
    <3>6. Taken(c) => Header(c)
      BY <2>3 DEF Taken, Content
    <3> QED BY <3>1, <3>3, <3>4, <3>5, <3>6 DEF Somewhere, Taken
  <2> QED BY <2>5, <2>6, <2>7, <2>8
<1>5. CASE UNCHANGED vars
  <2>1. pc' = pc /\ msg' = msg /\ file' = file /\ overlapped' = overlapped
    BY <1>5 DEF vars, inboxes, history
  <2>2. Undisturbed(c) /\ Sent(c)
    BY <2>1 DEF Undisturbed, Sent
  <2> QED BY <1>b, <2>1, <2>2 DEF Somewhere, Queued, Taken, Header, Content, Replying
<1> QED BY <1>a, <1>1, <1>2, <1>3, <1>4, <1>5 DEF Next
-----------------------------------------------------------------------------
LEMMA WaitInvariance == Spec => [](garbled \/ WInv)
<1>0. Server \in Processes /\ \A c \in Clients : c \in Processes /\ c # Server
  BY FilesigAssumption DEF Processes
<1>1. Init => LocksOwned /\ SignalsCome /\ MessageKept /\ ClientsUp /\ KilledDown
  <2> SUFFICES ASSUME Init
               PROVE  LocksOwned /\ SignalsCome /\ MessageKept /\ ClientsUp /\ KilledDown
    OBVIOUS
  <2>1. /\ \A p \in Processes : file[p] = <<>> /\ lock[p] = {}
        /\ gone = {} /\ \A c \in Clients : pc[c] = "idle"
    BY <1>0 DEF Init
  <2> QED BY <2>1 DEF LocksOwned, SignalsCome, Dozing, MessageKept, Undisturbed, ClientsUp, KilledDown
<1>2. IInv /\ [Next]_vars /\ ClientsUp => ClientsUp'
  <2> SUFFICES ASSUME IInv, [Next]_vars, NEW c \in Clients, pc[c] # "down" PROVE pc'[c] # "down"
    BY DEF ClientsUp
  <2>0. TypeOK /\ ServerOK
    BY DEF IInv
  <2>1. ASSUME NEW p \in Processes, NEW a, NEW b, b # "down", Goto(p, a, b) PROVE pc'[c] # "down"
    BY <1>0, <2>0, <2>1 DEF Goto, TypeOK
  <2>2. ASSUME NEW p \in Processes, Step(p) \/ WLock(p) \/ RLock(p), ~Notify(p)
        PROVE  pc'[c] # "down"
    <3>1. \E a, b : b # "down" /\ Goto(p, a, b)
      BY <2>2 DEF Step, Open, WLock, Fill, Flush, OpenInbox, Stat, Pause, RLock, ReadHeader,
         ReadContent, Truncate, CloseInbox
    <3> QED BY <2>1, <3>1
  <2>3. ASSUME NEW p \in Processes, Notify(p) PROVE pc'[c] # "down"
    <3>1. PICK label \in Woken(Peer(p)) : pc' = [pc EXCEPT ![p] = "inbox", ![Peer(p)] = label]
      BY <2>3 DEF Notify
    <3>2. Peer(p) = c => label # "down"
      BY DEF Woken
    <3> QED BY <1>0, <2>0, <3>1, <3>2 DEF TypeOK
  <2>4. ASSUME NEW p \in Processes, Kill(p) PROVE pc'[c] # "down"
    BY <1>0, <2>0, <2>4 DEF Kill, TypeOK
  <2>5. CASE Serve
    BY <1>0, <2>1, <2>5 DEF Serve
  <2>6. CASE Stop
    BY <1>0, <2>0, <2>6 DEF Stop, TypeOK
  <2>7. ASSUME NEW d \in Clients, Connect(d) \/ Handle(d) PROVE pc'[c] # "down"
    BY <1>0, <2>1, <2>7 DEF Connect, Handle
  <2>8. CASE UNCHANGED vars
    BY <2>8 DEF vars
  <2> QED BY <2>2, <2>3, <2>4, <2>5, <2>6, <2>7, <2>8 DEF Next
<1>3. IInv /\ LocksOwned /\ SignalsCome /\ MessageKept /\ [Next]_vars => (LocksOwned /\ SignalsCome /\ MessageKept)'
  BY LocksNext, SignalsNext, MessageNext DEF IInv
<1>4. IInv /\ [Next]_vars /\ KilledDown => KilledDown'
  <2> SUFFICES ASSUME IInv, [Next]_vars, KilledDown, Server \in gone' PROVE pc'[Server] = "down"
    BY DEF KilledDown, Up
  <2>0. TypeOK /\ ServerOK
    BY DEF IInv
  <2>1. ASSUME NEW p \in Processes, Kill(p) PROVE pc'[Server] = "down"
    BY <1>0, <2>0, <2>1 DEF Kill, TypeOK
  <2>2. CASE gone' = gone
    <3>1. pc[Server] = "down"
      BY <2>2 DEF KilledDown, Up
    <3>2. ASSUME NEW p \in Processes, Step(p) \/ WLock(p) \/ RLock(p), ~Notify(p)
          PROVE  pc'[Server] = "down"
      <4>1. pc[p] # "down" /\ \E b : pc' = [pc EXCEPT ![p] = b]
        BY <3>2 DEF Step, Open, WLock, Fill, Flush, OpenInbox, Stat, Pause, RLock, ReadHeader,
           ReadContent, Truncate, CloseInbox, Goto
      <4> QED BY <1>0, <2>0, <3>1, <4>1 DEF TypeOK
    <3>3. ASSUME NEW p \in Processes, Notify(p) PROVE pc'[Server] = "down"
      <4>1. PICK label \in Woken(Peer(p)) : pc' = [pc EXCEPT ![p] = "inbox", ![Peer(p)] = label]
        BY <3>3 DEF Notify
      <4>2. Peer(p) = Server => label = "down"
        BY <3>1, <4>1 DEF Woken, Blocked
      <4>3. p # Server
        BY <3>1, <3>3 DEF Notify
      <4> QED BY <1>0, <2>0, <3>1, <4>1, <4>2, <4>3 DEF TypeOK
    <3>4. ASSUME NEW d \in Clients, Connect(d) \/ Handle(d) PROVE pc'[Server] = "down"
      BY <1>0, <2>0, <3>1, <3>4 DEF Connect, Handle, Goto, TypeOK
    <3>5. CASE Serve \/ Stop \/ UNCHANGED vars
      BY <1>0, <2>0, <3>1, <3>5 DEF Serve, Stop, Goto, vars, TypeOK
    <3> QED BY <2>1, <3>2, <3>3, <3>4, <3>5 DEF Next
  <2>3. gone' = gone \/ \E p \in Processes : Kill(p)
    BY DEF Next, Step, Open, WLock, Fill, Flush, Notify, OpenInbox, Stat, Pause, RLock, ReadHeader,
       ReadContent, Truncate, CloseInbox, Serve, Stop, Connect, Handle, vars
  <2> QED BY <2>1, <2>2, <2>3
<1>5. FInv /\ FInv' /\ (garbled \/ WInv) /\ [Next]_vars => (garbled \/ WInv)'
  <2>1. CASE garbled
    <3>1. ~Next
      BY <2>1, StepsIntact
    <3>2. UNCHANGED vars => garbled'
      BY <2>1 DEF vars
    <3> QED BY <3>1, <3>2
  <2>2. CASE ~garbled
    BY <1>2, <1>3, <1>4, <2>2 DEF FInv, WInv
  <2> QED BY <2>1, <2>2
<1>6. Init /\ FInv => garbled \/ WInv
  BY <1>1 DEF FInv, WInv
<1> QED BY <1>5, <1>6, Invariance, PTL DEF Spec

(* The only signal that is lost is one that comes between fsize() and      *)
(* pause() (filesig.c:157-158): otherwise whoever sleeps beside a message  *)
(* is about to be told, however many calls meet.                           *)
THEOREM SignalsArrive == Spec => [](garbled \/ SignalsCome)
<1>1. garbled \/ WInv => garbled \/ SignalsCome
  BY DEF WInv
<1> QED BY <1>1, WaitInvariance, PTL

(* While the server runs and no signal was lost, a call that met no other  *)
(* is never in the company of processes that all sleep or wait for locks.  *)
THEOREM SomebodyRuns == Spec => [](garbled \/ NoStandstill)
<1>1. garbled \/ WInv => garbled \/ NoStandstill
  <2> SUFFICES ASSUME WInv, Up, missed = {}, NEW c \in Clients, Undisturbed(c),
                      \A p \in Processes : ~CanGo(p)
               PROVE  FALSE
    BY DEF NoStandstill
  <2>0. /\ TypeOK /\ ServerOK /\ Server \in Processes /\ c \in Processes /\ pc[c] \notin {"idle", "down"}
        /\ pc[Server] \notin {"idle", "down"}
    BY DEF WInv, ClientsUp, IInv, Processes, Undisturbed, Up, ServerOK
  <2>1. gone = {}
    <3>1. Server \notin gone /\ c \notin gone /\ \A d \in Clients \ {c} : d \notin gone
      BY <2>0 DEF WInv, IInv, KilledDown, AloneOK, StageOK, Undisturbed
    <3> QED BY <2>0, <3>1 DEF TypeOK, Processes
  <2>2. \A p \in Processes : ~Blocked(p)
    <3> SUFFICES ASSUME NEW p \in Processes, Blocked(p) PROVE FALSE
      OBVIOUS
    <3>1. PICK q \in Processes : lock[q] \ {p} # {}
      <4>1. CASE pc[p] = "wlock" /\ lock[Peer(p)] \ {p} # {}
        BY <2>0, <4>1, Peers
      <4>2. CASE pc[p] = "rlock" /\ lock[p] \ {p} # {}
        BY <4>2
      <4> QED BY <4>1, <4>2 DEF Blocked
    <3>2. PICK r \in lock[q] : Owns(r, q)
      BY <3>1 DEF WInv, LocksOwned
    <3>3. r \in Processes
      BY <2>0, <3>2 DEF TypeOK
    <3>4. CanGo(r)
      BY <3>2 DEF Owns, CanGo
    <3> QED BY <3>3, <3>4
  <2>3. pc[c] = "pause" /\ pc[Server] = "pause"
    BY <2>0, <2>2 DEF CanGo
  <2>4. \A p \in Processes : ~Dozing(p)
    <3> SUFFICES ASSUME NEW p \in Processes, Dozing(p) PROVE FALSE
      OBVIOUS
    <3>1. PICK q \in Processes : pc[q] = "notify"
      BY <2>1 DEF WInv, SignalsCome, Told
    <3> QED BY <3>1 DEF CanGo
  <2>5. file[c] = <<>> /\ file[Server] = <<>>
    BY <2>0, <2>3, <2>4 DEF Dozing
  <2>6. ~Queued(c) /\ ~Taken(c) /\ ~Replying(c)
    BY <2>3, <2>5 DEF Queued, Taken, Header, Content, Replying
  <2>7. Somewhere(c)
    BY <2>3, <2>1 DEF WInv, MessageKept, Sent
  <2> QED BY <2>5, <2>6, <2>7 DEF Somewhere
<1> QED BY <1>1, WaitInvariance, PTL
=============================================================================
