# Frame_GameServer: TLA+ models, model checking and proofs

The repository holds a small IOCP server library in C++ (`ServerCore`), a game server and a
console client built on it (`GameServer`, `GameClient`), and a C# client (`ClientCSharp`) that
speaks the same protocol. This directory models the parts of them that are hard to get right and
hard to test, checks the models with TLC and proves their main theorems with TLAPS.

1. Inventory of the system
2. The modules, and how they correspond to the code
3. Runs, bounds, and what they show
4. Fairness
5. Where the code disagrees with its comments
6. What is proved, and along which argument
7. Only model-checked, and not modelled
8. Plan

## 1. Inventory

A **packet** is `[size:2][id:2][protobuf]`. `size` counts the header too.

| component | state | operations | talks to |
|---|---|---|---|
| Session, sending (`Session.cpp`) | `sendQueue`, `sendRegistered`, `rwLock`, `sendEvent.owner`, `sendEvent.sendBuffers` | `Send`, `RegisterSend`, `ProcessSend` | called by packet handlers; `WSASend`; completions from IocpCore |
| Session and PacketSession, receiving | `recvBuffer`, `recvEvent.owner` | `RegisterRecv`, `ProcessRecv`, `OnRecv` | `WSARecv`; calls `OnRecvPacket` of ClientSession and ServerSession |
| RecvBuffer | `readPos`, `writePos` | `OnRead`, `OnWrite`, `Clear` | owned by a session |
| SendBufferManager, SendBufferChunk, SendBuffer | the pool, one thread-local chunk per thread, `open` and `usedsize` of each chunk | `Open`, `Close`, `Pop`, `PushGlobal` | `MakeSendBuffer` opens; the last `shared_ptr` to go recycles |
| Session, life cycle | `isConnected`, the four events and their `owner` | `Connect`, `ProcessConnect`, `Disconnect`, `RegisterDisconnect`, `ProcessDisconnect`, `HandleError` | Service, SessionManager, IocpCore |
| IocpCore | the completion port | `Register`, `ObserveIO` | five workers in GameServer, one in GameClient |
| Listener | three AcceptEvents, each with its next session | `StartAccept`, `RegisterAccept`, `ProcessAccept` | Service (`CreateSession`), Session (`ProcessConnect`) |
| Service | `sessions`, `sessionCount` | `CreateSession`, `AddSession`, `RemoveSession` | Session |
| PacketHandler, ServerPacketHandler | the handler table, the player map, the id counter | `HandlePacket`, `Handle_LoginRequest`, `AddPlayer` | ClientSession (`OnRecvPacket`); Session (`Send`) |
| SessionManager (GameServer) | the set of connected ClientSessions | `Add`, `Remove`, `Broadcast` | ClientSession; `Broadcast` has no caller |
| C# Session, ServerSession | `sendQueue`, `bufferList`, `lockObj`, `disconnected`, the socket, `recvBuffer` | `Connect`, `Send`, `Disconnect`, `Clear`, the four register and process methods | .NET sockets, whose callbacks come on pool threads or inside the call that starts the operation |
| C# ClientService | the connect event | `Connect`, `RegisterConnect`, `OnConnectCompleted` | Session (`Connect`, `OnConnected`) |
| C# PacketQueue, PacketHandler | the queue of messages, the handler dictionaries | `Push`, `Pop`, `PopAll`, `HandlePacket` | `OnRecvPacket`; nothing pushes or pops today |

Rooms are data without behaviour (`RoomManager` is commented out), `SocketHelper` wraps single
Winsock calls, and the `*.pb.*` files are generated.

**What is hard.** Every worker may pick up any completion, so consecutive steps of one session run
on different threads. A session has at most one overlapped receive and at most one overlapped send
at a time; the receive path relies on that alone, the send path on an atomic flag and a lock that is
not held everywhere. The operating system can refuse an operation on the spot, fail it later, or
complete it before the call that started it has returned. Buffers and sessions live as long as
somebody has a `shared_ptr` to them, and the somebody is often an OVERLAPPED. TCP cuts a stream of
packets where it likes. Sizes are `uint16` in some places and `int` in others.

**What makes each part correct.**

- *Sending*: buffers leave in the order they were pushed, each once; none waits for ever while the
  connection is healthy; the batch and the session survive until the kernel is done with them.
- *Receiving*: each packet is dispatched once, in order, complete, and when its last byte is there.
- *Send buffer memory*: nothing overwrites a buffer on its way out, and no chunk is lost or handed
  out twice.
- *Life cycle*: one connect and one disconnect notification per session, and an owner for each
  operation in flight.
- *Dispatch and login*: every login has a player of its own, and the client is told that player's id
  when it is in the list.
- *C# session*: as for sending; one end however many completions fail, and nothing left in the lists
  behind it.

The hazards list in `PROJECT.json` names the lines where each of these can fail.

## 2. The modules

| module | what it is |
|---|---|
| `SendStream` | abstract: one ordered stream of buffers, which may lose some after a fault and any order once the queue is torn |
| `SessionSend` | the send path of one session, shared by `Threads` |
| `PacketStream` | abstract: a stream of packets, each dispatched once it has arrived, until a fault |
| `RecvBuffer` | operators: the two cursors, and the two versions of `Clear` |
| `CppRecv`, `CsRecv` | the receive paths in C++ and C#, on one session each |
| `SendBufferPool` | chunks, buffers, the pool and `MakeSendBuffer`, for several threads |
| `LifeCycle` | abstract: what the service and the application are promised about each session |
| `SessionLife` | the sessions of a server or a client from accept or connect to removal, with Listener, Service, SessionManager and IocpCore |
| `CsSession` | the C# session from connect to disconnect, with its send path and ClientService |
| `Login` | the packet table, `Handle_LoginRequest`, the id counter and the player list, for several sessions |
| `MC...` | the values TLC needs: symmetry sets, all streams of up to three packets |
| `...Proofs` | theorems |

Definitions called *Mutant* in their comment are versions of the definition below them with a
plausible bug. No specification uses them; they record which bug each property detects.

### SessionSend

Each thread has a program counter, and one action is one stretch of code that other threads cannot
see half done. `Send` checks `isConnected`; `LockForPush`, `Push` and `Exchange` are the block under
`rwLock`; the thread whose exchange returned false goes on to `RegisterSend` without the lock.
`ProcessSend` is the completion, on any idle thread; `LockForCheck` takes the lock, `GiveBack` returns
the token if the queue is empty, `SendMore` enters `RegisterSend` with the lock held. `RegisterSend`
is shared by both: `RegisterSendRefused` is its early return, `DrainOne` one turn of its loop,
`PostAccepted` and `PostRefused` the two outcomes of `WSASend` (accepted includes
`WSA_IO_PENDING`), `ReleaseAfterFailure` the rest of the error branch.

Buffers are the numbers of their pushes. `wire` is history: what the kernel has taken.
`overlapped` is history: two calls of `Send` have been under way at the same time.
`conn` distinguishes a session not yet connected from one disconnected, since nothing ever raises
`isConnected` a second time.

*The data race.* A pop of the winner inside another caller's push is undefined behaviour on
`std::queue`. `torn` remembers that it has happened during the push in progress, and `PushOutcomes`
lists the queues that can come out of the two unsynchronised updates of MSVC's deque, which keeps one
`shared_ptr` per block and counts elements and offset separately: the push is lost or takes the place of
an earlier one, or a stale slot joins the queue. `pop` destroys a `shared_ptr` without erasing it, so a stale slot
(`Stale`) may still hold the pointer of a buffer that has gone through it, and `DrainOne` takes it like any
other: the buffer goes out a second time, and a reference is dropped that nobody holds. `Crash` is the end this can
come to, in the pop itself or at any later line. `raced`, history, lets the properties say what still holds then.

### RecvBuffer, CppRecv and CsRecv

The stream is the sequence `ends` of the positions where its packets end; bytes have no other
content. `consumed` is the stream position of `ReadPos()`, so a cursor's place in the stream can be
compared with its place in the buffer. A receive (`ProcessRecv`) delivers any number of bytes that is
free in the buffer. One turn of the packet loop is one action (`OnRecvPacket`), and the end of the
loop with `OnRead`, `Clear` and the next `RegisterRecv` is one action (`FinishRecv`): while the loop
runs no receive is outstanding, so nobody else touches the buffer.

In `CppRecv`, `len` is the argument `ProcessRecv` passes, the size of the last receive, and `TooShort`
is the comparison of an `int` with `sizeof` as the compiler does it, which a negative difference never
satisfies. A turn reads whatever size stands in the header, any `uint16` (here up to `BufferSize`), since nobody checks
it against the packet or the header: `misled`, history, records a size that is wrong. `OnRecvPacket` is a turn at the start of
the next packet, `OnRecvStray` a turn anywhere else: behind what was received, where the buffer, never zeroed,
holds packets dispatched before, or inside a packet. It hands those bytes to `OnRecvPacket`, once more or
in pieces (`stray`), and goes on by the size it reads there. The loop may come out of that again, stand still on a size
of 0 (`"spinning"`), or read behind the buffer (`"outside"`). `cut` is history: a packet was dispatched before its last byte had come. `midPacket`, history
too, is the usual way into this: a receive has ended inside a packet. In `CsRecv` the loop looks at all unread bytes and at the
packet's own size, and `HandlerThrows` is the exception caught at the end of `ProcessRecv`. It leaves
the session connected with no receive pending (`"deaf"`), and so does an exception of `ReceiveAsync` in `FinishRecv`.

### SendBufferPool

One thread runs `MakeSendBuffer`, `TakeChunk`/`InitChunk` when its chunk has no room, `OpenBuffer`,
`Write` and `Close`. Sizes are modulo `ChunkSize` as `uint16` are modulo 2^16, the two constants being
equal in the code. A size that wraps makes `Write` pass the end of its buffer (`overrun`, history); behind the end of the
chunk lies other memory of the process, and `Smash` lets the pool, the chunks and the buffers be anything after that. A chunk's references are counted from the state: the threads whose `local` it is
and its `Holders`. Whoever drops the last one (a session that lets a buffer go in `Release`, or a
thread that moves on to another chunk in `TakeChunk`) runs the deleter, whose `Push` is a step of its
own (`PushGlobal`). `memory` is history: the live buffer that last wrote each byte. `NeverNull` is
about the null pointer `MakeSendBuffer` would dereference.

### SessionLife

A behaviour is that of a server, whose `StartAccept` has armed its events (`InitServer`), or of a client, whose
`ClientService::Start` is about to connect its one session (`InitClient`); behind `ProcessConnect` they run
the same code. The workers share everything here, so their program counters are stacks: a worker's `task` is the
session it is in and what is left of the calls it has made, one entry per stretch of code, named after
the function. A handler called in the middle of another puts its entries in front. `Handlers` says what
each completion makes a session do, `ConnectEntries` and `AcceptEntries` what an accept does. The
`Register` functions check `isConnected`, set the event's `owner` and are accepted (a completion is to
come, `inFlight`) or refused; behind a refusal `HandleError` disconnects for some errors only
(`Refused`), and then `RecvRefused` or `SendRefused` clears the owner. The send path is reduced to its
token and to whether something is queued; `SessionSend` has its detail.

References are sets: `owner` of each event, `armed` of an AcceptEvent, the two lists, and the tasks.
A session nothing refers to is gone, and its name is `Free` for the next `CreateSession`, so a trace
contains sessions that end and new ones that take their place. `RegisterDisconnect` follows the test in the
code, where `TRUE` of `DisconnectEx` takes the error branch: `misread` and `abandoned` record the two ways in
which it goes wrong, `deaf` a refused receive that `HandleError` only prints. `crash` says what ended the process:
the null owner dereferenced in `IocpCore::ObserveIO`, or `Listener::RegisterAccept`
(`RegisterAcceptNull`): the null session of `CreateSession`, or the stack used up by calling itself again after each
refused `AcceptEx`. Refusals that end in an accepted one are a single step.

The port does not tell a failed completion from a good one, so a CONNECT completion leads to `ConnectEntries`
whether the connection exists or not. The session is then listed and its first `WSARecv` is refused; with an
error `HandleError` passes over that leaves a session which is connected for the program only (`deaf`).

`LifeCycle` is what all this amounts to for the service and the application: the flag, the two lists and the calls
each session got, without workers, events or references. `SessionLife` implements it with `isConnected`,
`Service::sessions`, `SessionManager::sessions` and the history `calls` in their places; giving an object's name to
the next one is a step of it (`Renew`), allowed only before the first step of a session and behind its last.
The C# session does not: its first receive is registered before `OnConnected`, and when that receive fails at once
`OnDisconnected` comes first. `EndsOnce` of `CsSession` is what it keeps.

### CsSession

A thread's `todo` is what is left of the calls it is in, as in `SessionLife`. .NET runs a completion on a pool
thread, or, when the operation completes at once, lets the caller run the handler itself: those entries go in
front of the caller's (`ContinueInTry`), under the lock the caller holds and inside its `try`, whose end is the entry
`EndTry`. `lockObj` is re-entrant, so a nested handler takes and leaves no lock of its own; only a completion
on a pool thread has `Lock` and `Unlock` in its entries. `Shutdown` may throw (`ShutdownThrows`): the entries up
to the innermost `EndTry` are dropped, `Close` and `Clear` among them, and without one the process ends.

`OnConnectCompleted` makes the socket visible to `Send`, and `AttachHandlers`, a step of its own, subscribes to the
completions (`attached`) and registers the first receive.

`bufferList` is the token of this path: `Send` calls `RegisterSend` only when it is empty, and `SendDone` empties
it and looks at the queue under the same lock. It stays full for good in two ways, which `stranded` records:
`NoSendAsync`, when there is no socket yet (`Send` before `Connect`) or a closed one, whose exception is caught, and
`SendUnheard`, when a send posted between those two steps completes before the handler is there. `handed`
and `wire` are history, the batch is with the socket. The receive path is reduced to whether a
receive is pending and what its completion leads to; `CsRecv` has the detail. `Send` with a list of buffers,
which nobody calls, enqueues them under one lock and is several sends in a row here.

### Login

A session's packets are handled one at a time (`OneReceive` of `SessionLife`), so a session has one place
in `Handle_LoginRequest` (`at`): the id has been taken (`fetch_add`), the player is about to be added under
the manager's mutex, the reply is about to be sent. Between these steps other sessions, the send path and
disconnects do theirs. The send path is what `SessionSend` shows it to be, one stream in order. `players`
maps ids to sessions; nobody calls `RemovePlayer`, so a player stays when its session is freed
(`link`), and a second login of a session makes a second player. Ids are modulo `IdCount` as the counter is
modulo 2^32. Three ways to end the process are part of it (`crash`): an id without a handler, since nobody fills the
table's default entries; a reply that could not be serialized, whose null buffer `RegisterSend` dereferences,
on whatever thread has the token; and a reply, as long as the name it repeats, whose packet size wraps, which `Reply` writes
over other memory. A reply after the disconnect may be queued or dropped, as `Send`'s test came before or behind.

## 3. Runs

| run | instance | distinct states | result |
|---|---|---|---|
| `send_concurrent` | 3 threads, 3 calls, fair | 61,067 | six invariants, the refinement and three liveness properties hold |
| `send_winner` | 2 threads, 2 calls | few | violated, section 5 |
| `cpp_recv` | header 4, BUFFER_SIZE 6, two of them; packets of 4, 5 and 6 bytes, any size field, fair | 1,162,415 | three invariants and the refinement hold |
| `cpp_recv_cut`, `cpp_recv_left` | the same | few | violated, section 5 |
| `cs_recv` | buffer 7, size field 2, packets of 4, 5 and 7 bytes, fair | 5,170 | three invariants and the refinement hold |
| `send_buffer_pool` | 2 threads, 4 chunks, 3 buffers, chunks of 4 | 18,177 (up to symmetry) | five invariants hold |
| `send_buffer_wrap` | 1 thread, chunks of 4, header 2, a message of 3 | few | violated, section 5 |
| `session_life` | 2 workers, 3 sessions, 1 accept event; server and client | 757,266 (up to symmetry) | six invariants and the refinement hold |
| `session_life_live` | 2 workers, 2 sessions, 1 accept event, fair | 30,082 | both liveness properties hold |
| `cs_session` | 3 threads, 3 buffers, fair | 203,843 | three invariants, the refinement and the liveness property hold |
| `login` | 3 sessions, 4 ids, 5 logins | 1,809,795 (up to symmetry) | three invariants hold |

*Sending.* `MaxSends` bounds the calls of `Send`. Three threads are what the interesting cases take:
one draining without the lock, one inside push, one at the completion; three calls let a second batch
form while the first is in flight and a third caller find the token just returned. `ExactStream` and
`NoStrandedBuffer` state their exceptions: `raced`, possible only once two calls have overlapped, and `postFailed`,
since the error branch of `RegisterSend` gives the token back at `Session.cpp:228` without looking at
`sendQueue`, where a buffer pushed meanwhile then stays until somebody calls `Send` again.
`BatchRetained` says which pointers the event holds, not that the buffers behind them are alive, which after a race they need not be:
`Crash`. `ImplementsStream` promises nothing about what waits once `raced` holds (`Tear` of `SendStream`), a lost,
repeated or made-up buffer included.
`SerialSendsAreSafe` is about the callers GameServer has today: a session's `Send` is called only by
`Handle_LoginRequest`, from the one receive the session has. `SessionManager::Broadcast`
exists and is not called; its first caller would end that.

*Receiving.* Streams have up to three packets, of the smallest size (a bare header), the largest
(one whole BUFFER_SIZE, for C# the whole buffer) and one between, so that a cut can fall into a
header, into a body, or on a boundary, rests of every length are left over, and the C++ buffer, twice
BUFFER_SIZE instead of ten times, reaches both branches of `Clear`. The C++ loop is right until a
receive ends inside a packet or a size field is wrong, and `PacketStream` has that as its `fault`: `ImplementsPacketStream`
promises every packet before it, once, in order and whole, and nothing behind it, where packets come again, in pieces or not
at all. `Aligned` lasts longer, over every cut, until the loop has passed what was received; `BufferSound` has no
exception, since `OnRead` refuses what is not there.

*Memory.* Two threads, because a chunk of one is released by the other; four chunks, because
with three buffers no more can be in use; messages of 1 byte (two buffers per chunk) and of 6, which
does not fit `uint16` and takes the path on which `SerializePartialToArray` fails. No size wraps with its header here, so
nothing is written past a buffer; `send_buffer_wrap` is the run for that. The three buffers
are a bound on what is alive at once: a thread starts only when one is left (`BufferLeft`).

*Life.* Two workers are enough for two of the three completions of one session to be handled at once, or
one of them during an accept. Three session objects let two be connected while a third is armed, and let names
be reused. The code has three accept events that do not share anything but the service, so one is checked. An
accept is served only if a session object is left to arm the event with (`SessionLeft`), and a receive sends one
reply at most; both are bounds of the model. What each property excludes is part of its statement:
`CompletionsFindSession` says that only the misread success of `DisconnectEx` loses an owner that is still
needed, `ConnectedIsServed` that only a refused receive passed over by `HandleError` leaves a connected session
without one, and `Unlisted` that only a failed `DisconnectEx`, or the crash, leaves a session listed.
`OneReceive` is what `CppRecv` (one path per session), `Login` (one handler per session) and `SerialSendsAreSafe`
take for granted. `ImplementsLifeCycle` has no exception: neither a misread nor an abandoned disconnect, nor the
crash, takes a session out of the order, it only stops short. A client has one session, so the client's behaviours need no more.

*C# session.* Three threads: one in a failed send under the lock, one in a failed receive, one in `Send`.
Three buffers let two wait behind the first, so that a batch has more than one. `OneSend`,
`ImplementsStream` and `EventuallySent` exclude a batch that is stranded, by a `Send` before `Connect` has come to its
end or by a closed socket, and a session that has ended, and nothing else.
`EndsOnce` says that `bufferList` is empty behind `Clear`: a `RegisterSend` that saw the session connected cannot
fill it later, since it holds the lock from its check to the end of `SendAsync`, unless an exception
of `Shutdown` has skipped `Clear` (`aborted`).

*Login.* Three sessions let two be inside the handler while a third has logged in. The counter starts at 1,
so the fourth of the ids is 0, and the fifth login gets an id in use and replaces another
session's player: the properties are about the first round of the counter (`FirstRound`), and the run goes on behind it
to check the types. That the replacement happens after 2^32 logins is a limit of the program.

No run turns the deadlock check off. A finished execution stutters (`Finished`): all calls used, the
path stopped, the process dead, every session gone, or no session object left for another accept.

## 4. Fairness

`SessionSend`: weak fairness of each thread's `Step`, as the operating system runs every thread
(taking `rwLock` needs no more, since its holder never waits for another thread and in these instances
gives it back), and of `Completion`, as the kernel completes each overlapped operation and one of the
workers waits in `GetQueuedCompletionStatus` in a loop. Calls of `Send`, connecting and disconnecting
are not fair.

`CppRecv`, `CsRecv`: weak fairness of the loop and of `ProcessRecv`. The second says that what the
peer sent arrives while the connection is open; it is used to show that a complete packet is dispatched
(`WF_vars(Dispatch)` of `PacketStream`), never that the peer sends. `SendBufferPool` has no liveness.

`SessionLife`: weak fairness of each worker's `Step`, and strong fairness of each completion (`ObserveIO` on
any worker). It is strong because a completion is enabled only while some worker is idle, and the port hands
out its packets in order, so that none can be passed over again and again. That a pending receive completes is
part of it; it is harmless, since disconnecting completes it in any case and neither property needs the peer to
act. Accepting is not fair: no client need come.

`CsSession`: weak fairness of each thread's `Step`. A thread that waits for `lockObj` may be passed over
when others keep taking it, but callers are bounded here, and no liveness property needs more. Strong
fairness of `ProcessSend` on some thread: a pending send completes, and it is strong because the completion is
enabled only while a thread is idle, and the pool serves its completions in turn. Receives, connecting and calls of
`Send` are not fair. `Login` has no liveness.

## 5. Where the code disagrees with its comments

- `OnlyWinnerTouchesQueue` (`Session.cpp:163`). The comment on the winner's branch says only the
  chosen thread is active there, but the lock went at line 155 and another `Send` can be pushing.
- `DispatchedWhole` (`PacketSession.cpp:45`). The comments describe packets passed on by start and
  size; a packet whose tail has not arrived is passed on with them too, and processing it drives
  `processLen` past `len`, after which the loop goes on over whatever the buffer held before.
- `NoPacketLeftBehind` (`Session.cpp:63`). After a rest of one to three bytes the loop is given too small a
  length, so a packet that is complete waits for the next receive instead of the next turn.
- `WritesFit` (`PacketHandler.h:45`). `packetSize` is `dataSize` plus four only up to 65531 bytes.

The two about receiving are about peers whose size fields are right. For the last two of the list the theorems `CppNothingLeft` and `PoolWritesFit` say
when the comments are right: until a receive ends inside a packet, and as long as `dataSize` plus the header does not pass `uint16`.

## 6. Proofs

`tlapm` checks every theorem of the seven modules below for all values of the constants under the
`ASSUME`s of the modelled component, which TLC evaluates in the runs.

**SessionSendProofs.** Assumptions: `NoThread` is not a thread and `MaxSends` is a natural number;
any number of threads. `NoStrandedBuffer` is not inductive: one has to know who holds the token.
The strengthening `ControlInv` is the conjunction of

- `LockInv`: which program counters imply holding `rwLock`, and that only they do;
- `OneSender` itself, the exclusiveness of the token;
- `OwnerInv`: `sendEvent.owner` and the batch, by who owns the event;
- `HistoryInv`: what `torn`, `raced` and the stale slots say of each other;
- `SerialInv`: until two calls overlap at most one thread is inside `Send`, and none has raced;
- `WinnerInv`: what is in the queue when the winner is about to drain;
- `NoStrandedBuffer`.

`PostsCarryBuffers` (no `WSASend` without a buffer, whose completion of 0 bytes would disconnect the session)
is proved only; the runs check what implies it. `StreamInv` adds the sequence equation of `ExactStream`. The step lemma goes action by action. The
theorems: `TypeCorrect`, `TokenExclusive`, `NoLostWakeup`, `PostsCarryBuffers`, `SerialSafety`,
`BatchSafe`, `StreamExact`, and `SendIsStream`: every step is a step of `SendStream` or a stutter. `StreamMap` takes the
actions one by one: `Waiting`, the backlog, loses a first part to the wire or to a refused post and grows at its end;
the steps that meet a push in the queue, and `Crash`, are `Tear`, which asks of the queue only its type.

**CppRecvProofs.** Assumptions: the sizes of buffer and header are positive where they have to be, and the peer's bytes are
packets of at least a header, in the order of their numbers. Of the size fields nothing is assumed. `RecvInv` adds to `TypeOK`,
`Aligned` and the two parts of `BufferSound` that `len` bytes of the last receive are in the buffer (`LenInData`)
and that consumed bytes had arrived (`ConsumedThere`). `OnRead` looks after the buffer whatever the loop has done, so
`CppBufferSound` needs no exception; `CppAligned` holds until a size was wrong or stray bytes were dispatched. `WholeInv` says
that until a receive ends inside a packet (`midPacket`) or a size is wrong (`misled`) nothing stray is dispatched, the last
receive begins and ends on boundaries and the buffer is empty when a receive is posted. From it follow `CppWholeSafe`,
`CppNothingLeft` (no packet is left behind in the buffer before that) and, for the safety part of
`PacketStream`, `CppFramingSafe`.

**CsRecvProofs.** The same without any assumption on the cuts: `RecvInv` is `TypeOK`, `Aligned`,
the first part of `BufferSound`, that processed bytes are in the buffer, and that what is left over when a receive is
posted is less than a packet. The last is why a receive is never posted without room (`CsBufferSound`), for every
capacity. `CsFramingSafe` is the refinement of the safety part of `PacketStream`.

**LoginProofs.** Assumptions: at least two ids, a bound on logins that is a natural number, and a null buffer that
is no number; any number of sessions. `OnePlayerPerLogin` speaks only of workers that are about to add a player. The invariant
`Numbering` adds where the counter stands: as long as it has not gone round it is the number of the next login,
the ids of the pending adds are among those handed out and differ, and the players are exactly the others.
`ReplyReady` adds for the replies that a worker about to reply has its player in the list as its own
and has not told its id yet. Both are implications of `FirstRound`, which once false stays so.
From them follow `LoginOnePlayer` and `LoginReplies`.

**SendBufferPoolProofs.** Assumptions: a header fits into a chunk, message sizes are natural numbers, null chunk and
null buffer are none; any number of threads, chunks and buffers, any chunk size. The invariant `PoolInv` adds to `TypeOK`

- `Places`: a chunk is at one index of the pool, or local to one thread, or in the deleter one thread runs;
- `Made`: those chunks, and the ones live buffers are in, are among those created;
- `Recycled`: no live buffer is in a chunk that is in the pool, in a deleter, or popped and not yet reset;
- `Opened`: what a thread has open is the room behind `usedsize` of its own chunk, and a chunk is open for no other;
- `Cut`: closed buffers end below `usedsize`, their bytes are as written, and so are those about to be closed.

Every step keeps `PoolInv` that does not write past its buffer, and `overrun` stays once it is set (`OverrunStays`), so the
theorems `PoolTypeCorrect`, `PoolChunkInOnePlace`, `PoolBytesKept`, `PoolNeverNull` and `PoolNoChunkLost` say that each
invariant holds as long as `WritesFit` does. After a size that wraps nothing is claimed, as `Smash` leaves nothing to claim.
`Recycled` is why `Init` may set `usedsize` back to 0, `OpenForOne` (a part of `Opened`) why `Open` finds the chunk closed, and the step of
`Write` (`WriteEffect`) needs that everything sent lies below the mark. `PoolWritesFit` closes the circle: when
`dataSize` plus the header wraps for no message, `WritesFit` holds for ever. It needs `Opened` to know that the open buffer
is the one of this message.

**CsSessionProofs.** Assumptions: `NoThread` is not a thread and `MaxSends` is a natural number; any number of threads and buffers. A
thread's `todo` is a stack of calls, and what a property says of an entry is only inductive with what may lie
under it: `Orderly` lists for each entry what can come behind it. With it the proofs speak of the set `Due` of entries
a thread has left, and the lemmas `Turn` and `TurnOn` say what each action does to it. The inductive invariant `Inv` is
`TypeOK`, `Orderly` and

- `LockInv`: who holds `lockObj` has its release due, and nothing of the send path is due without it;
- `SendInv`: one send at a time, from the `RegisterSend` that found the session connected to its `SendDone`;
- `WireInv`, `BatchInv`: `bufferList` is the end of the wire once it is handed over, and who will empty it, or that the
  batch is stranded, for want of a socket or of a handler for its completion;
- `CloseInv`, `EmptyInv`: one thread is inside `Disconnect`, and what it leaves;
- `ReportInv`, `EndInv`, `StartInv`: each callback comes at most once, with the calls behind it that prevent a second one.

From it follow `CsSessionTypeCorrect`, `CsOneSend`, `CsEndsOnce`, and `CsIsStream`, the refinement of `SendStream`.

**SessionLifeProofs.** Assumption: `NoSession` and `NoAccept` are no session and no AcceptEvent; any number of workers, sessions
and AcceptEvents. `todo` is treated as in CsSessionProofs, with `On(w, s, e)` for an entry `e` that worker `w` has left
in session `s`; `Advances` and `Starts` say what an action does to one worker and that the others stay where they are.
`Inv` is `TypeOK`, `Orderly` and

- `AcceptInv`: outstanding accepts have a session each, and only a server has any;
- `AloneInv`: until `OnConnected` has returned one accept, one completion or one worker has the session, and nothing else
  is under way in it. Without it a receive could meet a session that is being connected;
- `RecvInv`, `SendInv`: one worker has the receive (the send) of a session, or a completion is to come;
- `OwnerInv`: an owner is cleared only while nothing is pending on its event, but for a misread `DisconnectEx`;
- `LifeInv`: a session is connected once, one worker has its end, and which of its calls are still behind it;
- `ListInv`: the service lists a session from `AddSession` to `RemoveSession`, and counts what it lists;
- `CallsInv`: what the application has been told, by where the session stands, and when it lists the session;
- `ServedInv`: a connected session has a receive pending, or a worker that will register one or disconnect.

TLC found all of it to hold on the instance of `session_life` before it was proved. From it follow all
six invariants of that run: `LifeTypeCorrect`, `LifeCompletionsFindSession`, `LifeOneReceive`,
`LifeCountMatches`, `LifeListedWhileConnected`, `LifeConnectedIsServed`. For the refinement of `LifeCycle`
(`LifeIsCycle`) `ToldInv` relates the lists to the calls: a session told of its connect only is listed, one in the
application's list has been told so, and who is about to unlist a session has told of the disconnect or will. `Opening`
and `Closing` then say what the connecting and the disconnecting worker find at each entry, which are the guards of the
abstract actions.

## 7. Only model-checked, and not modelled

Checked by TLC only: liveness under fairness, which the prover does not handle. These are `EventuallySent` of `SessionSend` and of
`CsSession`, `TokenReturns`, `CallsReturn`, `Unlisted`, `Rearmed`, and the fairness of `PacketStream` in the two
`ImplementsPacketStream`, of which `CppFramingSafe` and `CsFramingSafe` prove the rest. Every other property of a passing run is a
theorem, those of the pool with the hypothesis `WritesFit`, which no size of `send_buffer_pool` breaks.

Some hazards in `PROJECT.json` have no property, and their notes say why: the model shows what happens there (a size field of
0, the token kept after `RegisterSend` finds the session down, a stranded batch), and the properties name it as their exception.

Not modelled: the order of memory accesses (atomics are sequentially consistent here, as they are in the code
by default), the contents of packets, `OnSend`, log output, thread exit, failures of `StartAccept` and of
`Service::Start`, after which the program ends, and `CloseSocket` and `CloseService` at exit. Without behaviour to
model: `PacketQueue` and the dispatch of the C# client (`UnityThreadHandler`, the only way into the queue, is
never set, nobody calls `Pop` or `PopAll`, and the handlers print), the handlers of GameClient, Rooms, `SocketHelper`,
and the generated and third-party protobuf code, which is nearly all of the repository's lines.

## 8. Plan

In order of importance; all ten are done.

1. `SendStream`, `SessionSend` and its proofs: the only place where threads share a session's state.
2. `PacketStream`, `RecvBuffer`, `CppRecv` and its proofs.
3. `CsRecv` and its proofs, against the same abstract stream.
4. `SendBufferPool` and its proofs.
5. `SessionLife`, with `Listener`, `Service`, `SessionManager` and `IocpCore::ObserveIO`.
6. The client's side of `SessionLife`, with a `ConnectEx` that is refused or fails.
7. `CsSession`, against the abstract stream of `SessionSend`.
8. `Login` and its proofs.
9. Proofs about `CsSession` and `SessionLife`, and the refinement of `SendStream` by `SessionSend`.
10. `LifeCycle`, the abstract life cycle that `SessionLife` implements for both sides.
