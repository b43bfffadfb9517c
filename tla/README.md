# Verification of the ticket office

TLA+ models, TLC runs and TLAPS proofs about the program in `src/`: a cinema
ticket office in C, a course exercise on inter-process communication. `bin/reset`
creates a database file of movies, `bin/server` serves it, `bin/client` lists the
movies, buys a ticket or looks one up. The two talk through one of five
transports, chosen when they are compiled (`make IPC=FILESIG | SOCKETS | SHMEM |
MQUEUES | FIFOS`), all behind the five functions of `inc/ipc.h`.

Paths below are relative to the repository.

## The system

| Component | State | Operations | What makes it correct |
|---|---|---|---|
| Ticket database, `src/database.c` | the mapped file (per movie: 20 seats, how many remain), the `fcntl` lock, each server's `count` | `db_open`, `db_close`, `db_buy_ticket`, `db_get_ticket` | a ticket is answered once; what was answered is on file and found again; nobody waits for ever for the lock |
| Creating the database, `src/fixtures.c`, `src/exe/reset.c` | the same file | `fixtures_read` | a server never reads past what it found in the file, also in the middle of a reset |
| Requests and replies, `src/actions.c` | none | `req_*` (client), `res_*` (server), `han_*` (client) | arguments arrive as typed; every request gets one reply |
| Server, `src/exe/server.c` | the request it works on | loop: `ipc_recv`, `res_*`, `ipc_send`; SIGINT and SIGTERM run `teardown` at any instruction | answers each request once; leaves waiting clients released when it stops |
| Client, `src/exe/client.c` | one call per process | `ipc_connect`, `req_*`, `ipc_recv`, `han_*` | gets the reply to its own request, or an error |
| SHMEM, `src/ipc/shmem.c` | a 2048-byte segment with one message, three semaphores | send, receive, connect, listen, close | one writer at a time; whole messages; the right reader |
| MQUEUES, `src/ipc/mqueues.c` | one bounded System V queue for both directions | the same | addressing by type; no message lost or doubled; no deadlock when it is full |
| FIFOS, `src/ipc/fifo.c` | per process an inbox FIFO, a lock file, a semaphore | the same | messages of several senders do not mix; none is lost |
| FILESIG, `src/ipc/filesig.c` | per process an inbox file read from its end, SIGUSR1 | the same | no message lost by truncation, no wake-up missed |
| SOCKETS, `src/ipc/sockets.c` | a listening socket, a connection per call | the same | the reply goes to the connection the request came from |
| Prototypes, `src/ipc/shmsystemv.c`, `shmposix.c` | a segment with one message, four semaphores: of System V, which fail once removed, or POSIX, which lose only their names | the same; no build names them, but both compile behind `inc/ipc.h` | one message at a time, also with several clients; the reply to one's own request |

`src/exe/test.c` and `test.sh` only drive the rest; `src/utils.c` matters for
`check()`, the exit of every call that fails. `src/ipc/Pipes` and `src/ipc/socket` hold
drafts that are no programs (see "Not modelled").

Hard here are: several servers on one file (the path "db" is fixed in `setup`, the
address is not); processes that die between two stores or two semaphore
operations; handlers that run `teardown` anywhere; several clients at one server;
clients that die with a message in the system; bounded queues. `PROJECT.json`
lists these hazards line by line, with the properties that cover each. A hazard that does
go wrong in the code, and that properties can only except, has none, and a note that says so.

## The modules

    TicketOffice  <--implements--  Database   <--about--  DatabaseProofs
    Rpc           <--implements--  Shmem      <--about--  ShmemProofs
    Rpc           <--implements--  ShmTurns   <--about--  ShmTurnsProofs
    Rpc           <--implements--  MQueues    <--about--  MQueuesProofs
    Rpc           <--implements--  Fifo       <--about--  FifoProofs
    Rpc           <--implements--  Filesig    <--about--  FilesigProofs  (calls that meet no other)
    Rpc           <--implements--  Service    <--about--  ServiceProofs
                                   Service  --extends-->  Sockets

`MCDatabase`, `MCShmem`, `MCShmTurns`, `MCMQueues`, `MCFifo`, `MCFilesig` and `MCService`
instantiate them for TLC. Operators whose
comment begins with `mutant:` are faulty versions of the definition after them; no
specification uses them. With one of them in place of its original, TLC finds
each property of the runs violated (`PROJECT.json`, "mutants").

### Database

State: `seat` and `remaining` are the arrays and counters of the mapped file,
`size` its length in movies, `count[s]` the length server `s` saw in `db_open`.
`readers` and `writers` are the owners of the record lock. `pc`, `arg`, `ticket`
and `found` are the locals of the request each server works on, and `issued`, a
history, counts the replies that carried each ticket.

A purchase is the steps `Buy` (the request), `WLock`, then `NoSuchMovie`,
`NoMoreTickets` or `PickTicket`, `StoreTicket`, `TakeSeat`, `AnswerBuy`: one step
per access to shared memory, because a server can die (`Die`) between any two and
the mapping keeps the stores. The refusals do not unlock, as in the code. A
lookup is `Get`, `RLock`, `Scan`, `AnswerGet`; the scan is one step because the
read lock covers it and only lock holders write (which the proofs establish).
`bin/reset` begins while no server runs, which is how `README.md` and `test.sh` use
it. `fopen(path, "w")` empties the file at once (`ResetOpen`), and the movies arrive
as stdio's buffer fills and in `fclose` (`ResetFlush`, any number of whole movies at a time):
`size` is less than `NMovies` until the last block, a server may start between
two of them, and a reset that dies leaves the file as it is. What has not reached the file
is held as it will be written. Movie names and times are left out. The
arithmetic of ticket numbers and the 16-bit counter are kept.

`TicketOffice` is what the database promises: seats are allocated in order, a
ticket is handed out at most once and only after its seat was allocated, an
operator may start over.

### Rpc, Shmem

`Rpc` is what `inc/ipc.h` promises to the two programs: `Call`, `Serve`, `Return`
(with the reply to one's own request), or `Abort`. The server acts once: in every
transport, acting again on a call that was acted on sets its `stage` to `again` (`Acted`),
which is no step of `Rpc`, so `RpcSpec` fails if it can happen. Not counted are requests
of clients that were killed, whose call is over, in `Shmem` also those of calls
that met others, and in `Service` those whose client has left.

`Shmem` has the three semaphores and one message of memory; an `ipc_send` is four
steps (wait, header, content, signal) and an `ipc_recv` two or three, for the
server (`S...`) and each client (`C...`). A half-written message is `Torn`.

Three faults are in the model. `SStop` is SIGINT at any instruction: the semaphores
are removed, waiting clients fail (`CFail`), and those that are in the middle of a
copy go on, into a segment that survives and that the next server uses; `strayed`
records that there was one. `SKill` is SIGKILL: the semaphores survive too, and the next
server's `ipc_listen` (`SListen`, `SOpen`) adds a second turn to them. `CDie` kills a
client anywhere; what it took from a semaphore stays taken. `dead` and `strayed` say
what was done to the present semaphores: the next SIGINT, which removes
them, ends it. `disturbed` holds the clients whose call met another call or such
harm, so that `SerialOneMessage` and `Rpc` can be stated about the others.

### ShmTurns

Both prototypes are one module, since they run the same protocol; the variable
`build`, which never changes, says which file it is, and the differences are in the guards:
`Usable` (a removed System V semaphore fails its waiters, a POSIX one is only
unlinked and goes on), `SetVal` (`init_mutex` sets the four values one after the
other) against `PostTurn` (the POSIX server posts once), and `FreeMemory` (only the POSIX
segment loses its name, so only there the next server gets a new one). `current[n]`
numbers the objects that were behind a name, `handle[c]` is what `c` opened.
POSIX names are handled one by one: `ipc_connect` opens the memory (`GetMemory`) and then the
four semaphores (`OpenMutex`, four times), `close_mutex` removes the names in the same
order (`Unlink` three times, `CloseMutex`), and any step of one may come between those of the other.
`Behind` says which semaphore a name gives at that moment; an `O_CREAT` after its removal makes the one
the next server will find.
`harm` records that the turn may be lost (a client died with it, or
`init_mutex` overwrote it) or that there may be two: a killed server, a client that
was in its `memcpy` when the server was stopped, and a client that has opened the memory and
semaphores, or semaphores among themselves, of two servers. In the last case it can pass an old
`CLIENT_WRITE`, write a segment that nobody reads, and take the next server's reply to somebody else. The code
has no defence, so nothing is claimed then and the model ends.

### MQueues

One bounded queue. `msgrcv` takes the oldest message of a type, so it is a
sequence per type (`inbox`) and the room in use (`used`). Sizes are in units: a
request or a short reply takes 1, a list reply `ListSize`. Both `msgsnd` and
`msgrcv` wait, and both fail when `SStop` removes the queue. `SKill` leaves the
queue and its messages, so does `CKill`. `stage` and `got` are the history that
`Rpc` talks about. The server acts on a call again only if it was not the call of a killed client.

### Fifo

`data[p]` is what is in the FIFO of process `p`, `users[p]` who has it open: when
nobody has, the contents are gone (`Used`), and `lost` remembers whom they were
about. `sem[p]` is the semaphore that `p`'s senders take; `getlock` creates one with
value 0 for whoever looks it up first, `ipc_create` sets it to 1 afterwards, and
`stale` says who holds the identifier of one that was removed. Server and clients
run the same steps `Getlock` ... `Close` and `OpenInbox` ... `CloseInbox`, as they run
the same functions. A client's `ipc_create` is one step (`Connect`), because nobody
knows of its inbox before it sends; the server's is three, because clients only
need the FIFO's name to start sending. `Fail` is `check()`, `Kill` ends any process,
the server too, and leaves the inbox and the semaphores behind.

### Filesig

`file[p]` is the inbox of `p`, each message with its length (`Requests`, `Replies`), `lock[p]`
the owners of its record lock. The steps
follow stdio: the message is buffered and the lock given back (`Fill`) before `fclose`
writes it (`Flush`), and the receiver measures the file three times: `Stat`,
`ReadHeader`, `ReadContent`. `Truncate` cuts the inbox to the length `Stat` found less that of
the message that was read. Requests of `list`, `buy` and `get` have 5, 8 and 12 bytes: if a
longer one was appended meanwhile, the length is negative or inside a message
(`Aligned`), and a header may give the length of another message than the one whose content
is read. Then `ftruncate` fails, and the request is read and acted on again, or the inbox holds
parts of messages. `garbled` records it and the model ends there: what is checked and
proved is what holds until then, and `OneLength` proves that it cannot happen if all requests
have one length. `Notify` is the signal: it ends a `pause()`, ends the wait
for a lock without the lock (`Woken`), and is of no use between `fsize()` and
`pause()`, which `missed` records. `exit()` in the server's handler writes out a reply
that is in the buffer (`Stop`). What a call that met another one (`overlapped`) returned
is not recorded in `got`, so that `Rpc` is about the others. `Kill` ends any process,
the server too, without running `exit()`: a buffered message is lost with it, an
inbox stays, and the kernel releases its locks.

### Sockets, Service

`Sockets` is the transport: the connections in order, what is under way in both
directions, and how many the server has accepted, none of which it ever closes.
`Service` runs the two programs over it: what a user types (`Commands`), what `req_*`
sends (`Request`, with the cut to 16 bits), the dispatch (`SAct`), the database, the
reply, what `han_*` prints (`told`, `printed`). `Lookup` compares the code with every seat (`Code`) and
answers the last movie that has it, as `db_get_ticket` does; free seats hold 0, so `get 0`, or any word, shows
a movie until every seat is sold. A database call is one step, since there
is one server and `Database` is about the rest. When the server reads from no
connection or from one whose client has left, it works on any request or on none
(`SReadNothing`): the code leaves the length and the content uninitialised. A client
may leave at any step: it was killed, or had too few arguments, which `main` checks
after connecting. `asked[m]` counts the requests for a seat of movie `m` that were
sent, for `SalesAsked`. The second write to a client that has left ends the server
(`SigPipe`); over a network it may also go through.

## The runs

| Run | Instance | Shows |
|---|---|---|
| `database` | 2 servers, 2 movies with 2 seats | all invariants, both lookup properties, a file that is reset block by block, `WaitersServed`, and that `Database` implements `TicketOffice` |
| `database_signal` | 2 servers, 1 movie with 2 seats, `SignalSpec` | **violated**: `TicketsUnique` in a FILESIG build |
| `shmem` | 2 clients at once, server stopped or killed and started again, one process killed per semaphore set | one writer and whole requests while there is one turn, one message in memory while calls meet no other, calls return, `Rpc` is implemented by the calls that meet no other |
| `shmem_one_message` | 2 clients at once, no fault | **violated**: `MaxOneMessage` |
| `turns` | both prototypes, 2 clients at once, server stopped once and started again while names are opened and removed one by one, any process killed | while there is one turn and nobody holds objects of two servers: one message in memory although calls overlap, whole requests, calls return, `Rpc` is implemented |
| `mqueues` | 3 clients at once, list replies of 2 units, capacity 5, server stopped or one process killed | addressing, one message per call, calls return, `Rpc` is implemented |
| `fifo` | 2 clients at once, server stopped anywhere, one process killed | one sender to an inbox, whole messages, `Rpc` is implemented; only calls whose own message was discarded hang |
| `fifo_flow` | 1 client, no fault | **violated**: `FlowCompletes` |
| `fifo_server` | 1 client, no fault | **violated**: `ServerStaysUp` |
| `filesig` | 2 clients at once, requests of 5 and 8 bytes, server stopped anywhere, one process killed | until the inbox is garbled, requests are acted on once and replies are awaited; calls that meet no other return with their reply |
| `filesig_single` | 2 clients at once, requests of 5 and 8 bytes, no fault | **violated**: `SingleMessage` |
| `service` | 2 users, 3 connections, 2 descriptors, 1 movie with 2 seats, codes 0 and 1, 16 bits scaled down to 3 values | tickets are printed once, what is printed is true and answers the command, no movie sells more seats than were asked for, calls return, `Rpc` is implemented |

Bounds. Two servers are enough for every conflict on the lock, two seats for a
movie that is partly sold, two movies for a lookup that must tell them apart and
for numbers that could collide; an index past the last movie and code 0 are among
the arguments. In `Shmem` the values of the semaphores grow with the processes that
are killed, hence one kill in the life of a semaphore set; stops, and with them sets, are not
bounded. In `ShmTurns` one stop (`MaxStops`) gives two generations of objects, which is
what a client can tell apart; the model ends where a second turn becomes possible,
which `Shmem` follows up and the prototypes do not prevent either. A signal does not arrive
before `ipc_listen` has set up the handler. In `MQueues` three clients are the fewest for which
the queue can be filled by requests and a leftover reply while a third call waits,
and `Capacity` is the smallest with which all calls return: the assumption in
`MCMQueues` computes it. With one unit less TLC shows three processes that wait
for each other: the server for room to post a list, the clients for replies.
In `Fifo` and `Filesig` two clients are enough for every race at an inbox, one killed
process for a semaphore that stays taken, a request without its sender, or a
server that leaves without cleaning up; two lengths give a longer and a shorter message
for every cut of `Filesig`. `Service` has
one connection more than the server has descriptors; its users type a list, the
movies 0, 1 and one that the cut to 16 bits turns into 1, and the ticket codes 0 and 1.

Fairness. A process that can run does (`WF`). A process that waits for a lock, a
semaphore or room in the queue is assumed to get it when it is available again
and again (`SF`): Linux queues the waiters of record locks and System V semaphores in
order, and wakes every sender when a queue has room. `sem_wait` queues nobody: in the
POSIX prototype a client that waits for its turn while others call has no such
promise, and `CallsReturn` does not claim one. Nothing makes a
client call, a process die, or a server come back. Deadlock is checked in
`database` and `mqueues`; in the others it is not, since the system
really stops there: after a killed process (`shmem`, `turns`, `fifo`), a discarded
message or a missed signal (`fifo`, `filesig`), or when the server is down and nobody
can call (`service`).

What is stated under a condition, and why: `WaitersServed` says that waiters get
the lock as long as no purchase is refused, because a refusal keeps the lock
(`src/database.c:107-113`) until that server's next request. In `Shmem`,
`WriteExclusion` and `RequestIntact` hold while there is one turn (`OneTurn`): a killed
server leaves its turn beside the next one's, and a client that was stopped upon in
its `memcpy` writes without one; both end with the next SIGINT. In `ShmTurns` everything is said
while `OneTurn` holds, in `Filesig` until the inbox is garbled (see above). `CallsReturn`
excepts states in which the server is down; for `Shmem` and `ShmTurns` a killed process,
which may have had the turn, and for POSIX the wait for the turn and handles of objects without
names, which nobody posts to; for
`MQueues` a killed server, whose request in progress is lost with it. In `Fifo` it
excepts a client some message about whom was discarded (so a discarded message of one
client never stops another) and states after a kill; in `Filesig` calls that met
another one and states in which a signal was missed or the inbox is garbled; in `Service` connections beyond
the server's descriptors. `SalesAsked` is about servers that never worked on
uninitialised memory, `AnswersFit` about movie numbers up to 65536.
So the kept lock, the killed holder of a turn or semaphore, the missed signal and, for its own
calls, the leak of descriptors are in the models, but no property says that they do harm; the
first three are hazards without a property in `PROJECT.json`.

### Where the code does not do what it says

* `src/database.c:115` relies on ticket numbers being unique. `db_lock` does not look at the
  result of `fcntl(F_SETLKW)`, and in a FILESIG build the wait is interrupted by
  the signal of any client's next message (`src/ipc/filesig.c:25`, no
  `SA_RESTART`). Run `database_signal`: a server goes on without the lock while
  another holds it, and the same ticket is answered twice.
* `src/ipc/shmem.c:132`: "Given the lock scheme, max 1 message is in memory at any
  time". The server does not wait for its reply to be read and its next
  `ipc_recv` lets the next client write. Run `shmem_one_message`: with two clients
  a request is written over an unread reply. With one client at a time the comment
  is right (`SerialOneMessage` in `shmem`), and the four semaphores of the prototypes make it right
  for any number of clients (`turns`).
* `inc/actions.h:13-15` gives the flow request, response, handler. In a FIFOS build
  sender and receiver open the FIFO for each message and its last close discards the
  contents (`src/ipc/fifo.c:139`). Run `fifo_flow`: a request that is written while the
  server has its inbox closed is gone, and so is a reply; the client waits for ever.
* `test.sh:20-25` calls three times and then stops a server it takes to be running. In
  a FIFOS build the client's `ipc_close` removes the semaphore of its inbox
  (`src/ipc/fifo.c:111`), and if the server has not yet released it (`:138`), `check()`
  ends the server. Run `fifo_server`.
* `src/ipc/filesig.c:131-133`: reading from the end "allows recv() to read a single
  message and truncate the file". The lock does not cover the write, and the size is
  taken before the lock. Run `filesig_single`: a second message is cut off with the
  one that was read, or its content is read under the other's header. If the second one is
  longer than all that was counted, `ftruncate(size - message_size)` (`:183`) fails and it is
  acted on twice.

## The proofs

TLAPS proves every safety invariant, action property and refinement that the passing
runs check, for every value of the constants that satisfies the assumptions:
`DatabaseAssumption`: at least one movie, between 1 and 65535 seats; `ShmemAssumption`,
`TurnsAssumption`, `MQueuesAssumption`, `FifoAssumption`, `FilesigAssumption`: ids are
distinct, a queue fits a list reply, and the faults are among those the module
describes (nothing is assumed of the lengths of messages in `Filesig`, but that there are some); `ServiceAssumption` and `SocketsAssumption`: at least one movie and one seat,
fewer movies than `uint16_t` has values, and natural numbers for the rest. So the number of
servers, clients, movies, connections and descriptors is any. The faults are those of the
models: in `Database` any number of killed servers and of resets; in `Shmem` any number of
stops and one kill in the life of each semaphore set; in `ShmTurns` any number of stops
(`MaxStops`) until there may be two turns or a client holds objects of two servers; in `MQueues` any number of stops and one killed
process; in `Fifo` and `Filesig` one stop of the server and one killed process; in `Service`
one stop of the server and any number of killed clients.

Each invariant named `IInv`, `CInv`, `DInv`, `TurnInv`, `CallInv`, `AInv`, `LInv` or `WInv` is an
inductive strengthening, and so is `FInv` of `Fifo` and `Filesig`; TLC checked what it says before it was
proved.

* `DatabaseProofs`: `TypeCorrect`, `Uniqueness`, `Records`, `MappingSafe`,
  `LookupsFind`, `LookupsFindOnlySold`, `Implements`. `TicketsUnique` is not inductive: that the ticket
  in a server's hands was not answered before depends on the lock, on how far the
  seat's sale has got and on its number. `IInv` therefore says, beside the types:
  a writer excludes everybody else, and a server in `sell`, `store` or `take` is
  the writer; the sold seats are a prefix, each holding its own number, and the
  next seat holds its number or 0; a server's ticket is the number of the seat it
  is selling, and once sold, no two servers hold the same ticket nor one that was
  issued. What makes numbers different for different seats is `NumberInjective`.
  `Records` is `SalesRecorded`: sold seats and issued tickets are both on file.
* `ShmemProofs`: `TypeCorrect`, `Exclusion`, `RequestsArrive`, `OneMessage` and `Refinement`,
  with a server that is stopped, killed and started again at any time and clients killed in any number of semaphore sets.
  While there is one turn (`OneTurn`), the invariant `Turn` says that it is in one place:
  with the server, with one client between its wait and its signal, or in one of the two
  semaphores that pass it on; `NoStrays` that nobody writes whom a removed semaphore let in,
  and `Delivery` what the one who has the turn finds in the segment. A client's death can lose
  the turn and never doubles it; a SIGINT sets everything right (`StopRestores`) unless it meets
  a client in its `memcpy`. `CInv` adds what the last two theorems need. `Accounts` counts:
  without harm, as many clients wait for a reply as there are requests and replies in the
  semaphores or with the server, so that the last client that waits finds its own.
  `Meetings` says that calls that overlap are both in `disturbed`, and `Lone`, for a call that
  met no other, how far it is, what is in the segment then, and that no harm was done to its
  semaphores: so the request the server acts on was not acted on before (`ServesLone`).
* `ShmTurnsProofs`: `TypeCorrect`, `RequestsArrive`, `OneMessage` and `Implements`, for both
  prototypes at once. `TurnInv` says that each generation of semaphores has one turn, in a
  semaphore or with a process, and one client at most between its first wait and its last
  post (`Turn`); that nobody has used the semaphores the server is about to set (`Fresh`); and that
  who copies has the segment that goes with its semaphores (`Paired`, `Aligned`): a client that has
  opened some of them has those of one server, or `OneTurn` is false. `CallInv`
  follows the message: request in the segment, request with the server, reply in the segment,
  reply with the client, and that the only client in a call, if it still lives, is the
  one the message is about (`Waits`). Even the types need this: the server's reply is about
  a client only because what it read was a request.
* `MQueuesProofs`: `TypeCorrect`, `Addressing`, `Conservation`, `Implements`. The
  invariant says of every client that was not killed that its call is in at most
  one place (`Queued`, `Busy` or `Replied`), at most once in it (`Single`,
  `Apart`), and that the place agrees with the state of the client and of the
  call (`Pending`): what the server acts on was asked and not yet served. The lemmas `Posting` and `Taking` describe the queue operations once
  for all actions.

* `FifoProofs`: `TypeCorrect`, `Exclusion`, `WholeReads`, `Refinement`. `WholeMessages` looks at
  one process; why it holds is spread over all of them. `SemOK` says that the value of a
  semaphore is 0 while somebody holds it, that there is one holder, and that only the server
  can be left with the identifier of one that was removed. `UsersOK` relates who has a FIFO open to the
  steps of the processes, and says that a FIFO which nobody has open is empty. `StreamOK` is about the
  server's inbox: headers and contents alternate, and if the last message is not finished, its
  sender is the one that holds the semaphore. `RequestOK` and `InboxOK` say that the request of a
  client is in one place and once, and that a client's inbox holds a part of one reply at
  most; `StageOK` that a reply is found only after the request was served, `AskedOK` that a request is found only
  before. A client that was killed is
  excepted: its pipe ends close, and what is about it may be anywhere.
* `FilesigProofs`: `TypeCorrect`, `OneLength`, `ActedOnce`, `NoneLeft`, `Refinement`. The invariant `FInv` is the
  types and, until `garbled`, `IInv`; with requests of one length it is never garbled (`OneLength`). Since the inbox grows while
  the server reads it, the message that is cut off need not be the one that was read. `CutOK` says that
  what the server has read lies at or after the length it cuts to, so that nothing is acted on
  and then read again, although something that was never read may be cut off: this is where a
  failing `ftruncate` would break it. `RequestOK` and
  `ReplyOK` say that the call of a live client is at most one request or one reply, and never both;
  `ServerOK` what the server has measured; `StageOK` that what can still be read was not acted on.
  `AloneOK` and `OwnReplyOK` are about calls that met no other: they are alone, so header and content
  are of the same request and the reply is their own.
* `ServiceProofs`: `TypeCorrect`, `OneBuyer`, `TrueAnswers`, `SoldOnRequest`, `Refinement`. `CallsOK`
  gives a client in a call exactly one open connection, the latest of its own; `RequestsOK`, `ServerOK` and
  `RepliesOK` say what is in it at each stage, and that the answer the server has written fits the
  command (`Apt`). An answer stays true because seats are only ever sold (`KnewOK` and `ToldOK`
  are the same of what is known and what was printed). `TicketsOK` says that a ticket that was
  sold is with the server, in one connection or printed, in one place at most. `SoldOnRequest`
  has its own invariant, `SalesOK`: for each movie, the seats sold, the requests for a seat that nobody has
  read (`Due`) and the one the server works on are together no more than were sent.

### Nobody waits for everybody

That calls come back (`CallsReturn`) is about fairness and stays with TLC. What makes it hold is a
safety property that a few clients do not show for all: the processes of a transport never all
wait for each other. `SomebodyRuns`, in the proofs of five transports, says so for any number of
clients and of calls that meet; `RoomAppears` says it of the sixth, the message queue, where what is
waited for is room. Each names the steps that need no waiting (`CanGo`, `Running`,
`Relieved`, `ServerGoes`, `ClientGoes`); TLC found those steps enabled wherever these say so.

| Module | Excepted | Why somebody runs |
|---|---|---|
| `ShmemProofs` | no server, or `Harmed`: a process was killed, or a writer strayed into the segment of a stopped server | `TurnThere`: a server that waits for a request has given the turn away. `Accounts`: with no client between its semaphores and no request, nobody waits for a reply |
| `ShmTurnsProofs` | no server, or the client's is gone; `harm`: the turn was lost or doubled, or a client holds objects of two servers | `TurnThere`, in `LInv`: the turn is in `CLIENT_WRITE` or a client is in a call; if that one waits for its reply, the request or the reply is on its way (`Underway`) |
| `MQueuesProofs` | nothing, if `Enough` | `Accounts`, in `AInv`: the units filled are exactly those of the requests and replies of calls. A queue with no room for the server's list, while every client waits for a reply that is not there, would hold the replies to killed clients and requests only |
| `FifoProofs` | the server is down, a process was killed, messages that were discarded (`lost`) | `LocksKept`: each semaphore that exists is 1 or its holder runs. `MessagesKept`: a message is with its sender, in the pipe or with its reader |
| `FilesigProofs` | the server is down, the inbox is garbled, signals that were missed, calls that met another one or a killed client | `LocksOwned`: who owns a lock neither sleeps nor waits. `SignalsCome`, which is `SignalsArrive`: who sleeps beside a message is about to be told. `MessageKept`: the message of such a call is somewhere |
| `ServiceProofs` | the server is down: the clients then see the end of their connections | `AsksOK`: the request of a client that waits is in its connection until the server has read it. `AnswersOK`: a connection that the server is done with, and that its client has not left, holds the reply. So the server can only wait in `read` for a client that has not sent its request, and that one runs |

`Enough` is `Capacity >= 2 * ListSize + |Clients| - 2`, and it is sharp: with a unit less TLC
finds a standstill. `MCMQueues` has exactly that room. The exceptions of the four modules that have
semaphores or locks are needed, too: without any one of them TLC finds a client that waits while
nobody runs, as in the counterexample of `FlowCompletes`, where a message was discarded. With no
descriptors left, the server of `Service` goes on without serving anybody: `CallsReturn`
excepts this, and `SomebodyRuns` says nothing of who is served.

Only model-checked: the liveness properties `WaitersServed` and `CallsReturn`, because fairness
and ENABLED are out of the prover's reach. The violations are TLC's counterexamples.

## Not modelled

Process ids that are reused or cut to 16 bits onto each other, onto 0 or onto the
server's 1 (the assumptions exclude them); lists too large for the segment, for the
largest message of a queue, for a pipe or for `uint16_t`; what follows after a FILESIG inbox was
cut inside a message or not at all, or after a client of a prototype opened objects of two servers; a signal
between the `fwrite`s of one message; a restart of the
FIFOS, FILESIG or SOCKETS server (it has a new process id or finds its port taken for a
while, so that the waiting clients never reach it); `bin/reset` begun under a running server;
printing and the format of the fixtures.

`src/ipc/Pipes` and `src/ipc/socket` cannot be modelled faithfully, since they are no
programs: `Pipes/serverPipe.c` calls `u_buy_ticket`, which is defined nowhere, so it does not
link and what its server does with a request is unknown; `socket/socketsrv.c` and
`socketcli.c` do not compile (their `message_t` and `ipc_recv` conflict with those of
`inc/ipc.h`). `src/exe/test.c` and `test.sh` have no state of their own.

## Plan

1. `TicketOffice`, `Database`; `Rpc`, `Shmem` with killed and restarted servers; `ShmTurns`;
   `MQueues`; `Fifo`; `Filesig`; `Sockets` and `Service`. Done.
2. The proofs of every safety property and refinement of the passing runs, and that the
   processes of no transport all wait for each other. Done.
3. What could still be stated for every instance: in `Service`, that a server which is not stopped
   keeps the connections in the order of the accept queue; in `Filesig`, how many messages one
   cut can lose.
