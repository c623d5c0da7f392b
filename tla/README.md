# LunaSysMgrIpc in TLA+

Specifications, model-checking runs and proofs for the IPC library in `src/`.
Two processes are joined by a local stream socket and each has a `PIpcChannel`
at its end. Paths below are relative to the repository; `PIpcChannel.cpp:251`
means that line of `src/ipc/PIpcChannel.cpp`.

## 1. Inventory

| Component | State | Operations | Talks to |
|---|---|---|---|
| **PIpcChannel** | descriptor, two socket sources (main and nested context), outgoing queue, queue of the other threads with its mutex, incoming list and its idle dispatcher, nested loop with id, reply and timeout of the current call, `m_blockedOnWrite`, `m_inNestedLoop`, `m_remoteIsSuspended`, the partial messages | `sendAsyncMessage`, `queueAsyncMessage`, `sendSyncMessage`, `sendSyncSuspendMessage`, `sendReply`, `setRemoteIsSuspended`, the socket, idle, timeout and async-caller callbacks | the peer's channel over the socket; the listener by callback; GLib |
| **PIpcSocketSource** | watched conditions of one `GSource` | create, set condition, check, dispatch | GLib's poll, the channel's callback |
| **PIpcAsyncCaller** | a pipe, a mutex, a source on the read end | `call` from any thread, `callback` in the main loop | `asyncCallerDispatch` |
| **PIpcMessage** | header: routing, type, flags, id; the process-wide id counter | constructors, flag setters | the channel; Pickle for the payload |
| **PIpcServer / PIpcClient** | listening socket; deferred connect | accept and read the client's name; connect and send it | create the two channels |
| **PIpcBuffer / PIpcMutex** | a shared memory segment with robust mutexes; a nesting count per process | create, attach, resize, lock, try, unlock | the other process through shared memory |
| **Pickle, PIpcMessageUtils** | a growing byte buffer and a read position | typed writes and reads, tuples | message payloads |
| PIpcMessageMacros, tuple, basictypes | none at run time | generate message classes | - |

What makes them hard:

* **One thread, many frames.** `sendSyncMessage` runs a nested main loop, so the
  channel's callbacks run below a call that has not returned; request handlers
  run there too and may call again. State set before the loop is read after it.
* **Two sources, one socket.** Only the source of the loop that polls matters,
  and `m_blockedOnWrite` moves between them.
* **Ordering.** Replies, requests and asynchronous messages share the socket, but
  what is read in a nested loop is sorted out and partly put off.
* **Failure.** Either process may go at any moment; closing is noticed by a
  write, a read, or a HUP, in whichever loop runs.
* **Timeouts.** An answer may come after its call gave up.
* **Suspension.** A request can make the process that answers it stop itself.
* **Other threads** queue messages and wake the main thread through a pipe.

What makes each correct: the *channel* delivers asynchronous messages in order
and at most once, answers each call by its own reply or ends it for a reason,
forgets no output, no buffered message and no disconnection, and does not
deadlock when both ends call. The *async caller* loses no wake-up. *Framing*
reassembles the messages whatever the sizes of the reads and writes. The
*handshake* gives both ends a channel or neither. The *shared buffer* has one
holder at a time and survives the death of one. *Pickle* reads what was written.
`PROJECT.json` lists the hazards by line, with the properties that cover them.

## 2. Modules

| Module | What it is |
|---|---|
| `Channel` | both channels, both main threads, the socket: the state machine |
| `AsyncLink` | abstract: a FIFO per direction that may only lose undelivered messages when an end goes down |
| `ChannelProperties` | type invariant, safety, refinement of `AsyncLink`, liveness, the claims of comments, the inductive invariant |
| `MCChannel` | values of the constants for the runs |
| `ChannelProofs` | machine-checked proofs about `Channel`: types, and whose task each piece of work is |
| `CallProofs` | the same about its synchronous calls |
| `LinkProofs` | the same that it implements `AsyncLink` |
| `AsyncCaller` | the threads of a process, the queue of the other threads, the wake-up pipe and the drain; its properties |
| `Mailbox` | abstract: a box that any thread puts messages into and the main thread empties |
| `MCAsyncCaller` | symmetry for the runs of `AsyncCaller` |
| `AsyncCallerProofs` | machine-checked proofs about `AsyncCaller` |
| `Framing` | one direction of a connection in bytes: `processOneOutgoingMessage` and `processIncomingMessages` call by call; implements `Mailbox` |
| `FramingProofs` | machine-checked proofs about `Framing` |
| `Handshake` | clients, a server and its listening socket, from `connect` to the channel |
| `HandshakeProofs` | machine-checked proofs about `Handshake` |
| `SharedMemory` | `PIpcBuffer` and `PIpcMutex`: segments, counted locks, processes that end |
| `SharedMemoryProofs` | machine-checked proofs about `SharedMemory` |
| `Pickle` | a message from the arguments of a call to those of the handler and back |
| `MCPickle` | the messages for the runs of `Pickle` |
| `PickleProofs` | machine-checked proofs about `Pickle` |

The modules meet at their borders. `Channel` takes three things for granted, and
a module of its own shows each: that messages travel whole and in order
(`Framing` implements `Mailbox`), that a queued message of another thread wakes
the main thread (`AsyncCaller` implements `Mailbox` too), and that both ends
begin at the same byte (`ChannelBegins` of `Handshake`).

### How Channel corresponds to the code

`ch[e]` is a record with one field per field of `PIpcChannel` that control
depends on (named after it without `m_`), plus the process state, the stack of
the main thread and the id counter. `sock[e]` holds the messages written to the
socket and not yet read by `e`. `got` and `told` are history: what the listener
received, and how often it heard of a disconnection.

A *stack frame* says where main-thread code is suspended: in `socketCallback`'s
read loop (`read`), in a dispatch loop (`dispatch` when the reader called it,
`idle` when the idle source did), in a handler (`async`, `sync`) or in
`g_main_loop_run` (`call`). One action runs from one such point to the next, in
which no other process, thread or application code can be observed; every
private method it calls is an operator applied inside it. In particular a
flush (`processOutgoingMessages`) is part of each action that ends in one, with
all its outcomes: everything written, a full socket (`WouldBlock`), a failed
write (`Disconnected`).

| Code | Action or operator |
|---|---|
| `sendAsyncMessage`, `queueAsyncMessage` | `SendAsync`, `QueueAsyncMessage` |
| `sendSyncMessage` up to `g_main_loop_run`; after it | `SendSync`; `CallReturn` |
| `sendSyncSuspendMessage` | `SendSync` with kind `suspend` |
| `socketCallback`, by condition | `SocketHup`, `SocketOut`, `SocketIn` |
| `processIncomingMessages`, `readFromSocket` | `ReadMessage`, `ReadNothing`, `ReadEndOfStream`, `ReadClosed` |
| `handleIncomingMessageIn...Mode`, `handleIncomingSyncMessage` | operators of the same names, `SyncHandlerReturn` |
| `dispatchIncomingAsyncMessages` and its callback | `Idle`, `DispatchMessage`, `DispatchDisconnect`, `DispatchDone`, `AsyncHandlerReturn` |
| `nestedLoopTimeoutCallback` | `Timeout` |
| `asyncCallerDispatch` | `AsyncCallerDispatch` |
| `disconnected` | `Disconnected` |
| destruction, exit or death of the process | `Exit` |

Abstractions, each with its reason:

* A message is its kind and id. Payload, type and routing do not influence
  control. The kinds stand for the flags and for how the application uses the
  message; `deferred` is a request whose handler replies later.
* A message is one unit; `Framing` cuts it into header and payload bytes. A socket holds at most `SockCap` whole messages in a
  direction; `Accepted` lets a flush write more when the reader is running at the
  same time.
* A wake-up of the asynchronous caller is not lost: `AsyncCallerDispatch` is
  enabled while the other threads' queue is not empty. `AsyncCaller` shows what
  lies behind that (`Awake`, `ImplementsMailbox`).
* Replies and disconnect messages take no id of their own; the code gives them
  one and overwrites or ignores it.
* A handler sets its reply as its last act, as `PIpcMessageWithReply::Dispatch`
  does. It makes no calls inside `onDisconnected`.
* A listener is always set.
* `recv` at the end of the stream leaves `errno` unchanged and the code looks at
  it: `ReadEndOfStream` takes every outcome.
* `PIpcSocketSource` reports what poll saw before: `SocketIn` does not require
  that the peer is still there. When it is seen to be gone, HUP comes first.
* When calls nest, `m_nestedSocketSource` is overwritten and the first source
  leaks; only the last is in the model. `calls` nests calls (`MaxDepth = 2`), the other
  runs do not; the theorems say which properties hold at any depth.
* Deleting a channel inside its own nested loop is undefined behaviour and left
  out; `Exit` stands for deletion elsewhere and for the end of the process.

### How AsyncCaller corresponds to the code

Here several threads run at once, so an action is what one thread does between
two points another can notice: `pc[t]` names the line it stands at. `Channel`
sees the whole of `queueAsyncMessage` as one step; this module takes it apart.

| Code | Action |
|---|---|
| `queueAsyncMessage`: entry, lock, push and unlock | `QueueAsyncMessage`, `LockQueue`, `PushMessage` |
| `PIpcAsyncCallerBase::call`: lock, write and unlock | `LockPipe`; `Write`, or `Interrupted` when a signal ends a write that waits |
| `PIpcAsyncCallerBase::callback` | `Callback` |
| `asyncCallerDispatch`: lock, loop, unlock | `LockDrain`, `MoveOne`, `UnlockDrain` |
| the nested loop of `sendSyncMessage` | `EnterNested`, `LeaveNested` |

A message is its thread and its number; a byte in the pipe is a count. The flush
that ends `asyncCallerDispatch` is in `Channel`; here `outgoing` records what was
moved, in order. The pipe belongs to the main context, so nobody reads it while
`nested` holds. Not modelled: destruction while threads still call, and a pipe
that could not be created (the constructor ignores that error).

### How Framing corresponds to the code

One direction of a connection; the other is the same with the ends exchanged.
An action is one call of `send` or `recv` with the code behind it, since the
other process may run, or end, between two of them.

| Code | Action |
|---|---|
| `sendAsyncMessage`, also the queueing part of the other senders | `Send` |
| `processOneOutgoingMessage` with `writeToSocket`: header, payload, EAGAIN | `SendLength`, `SendPayload`, `WouldBlock` |
| `socketCallback`, G_IO_OUT | `SocketOut` |
| `processIncomingMessages` with `readFromSocket`: header, payload | `ReadLength`, `ReadPayload` |
| EAGAIN; end of the stream | `ReadAgain`; `EndOfStream` |
| `socketCallback`, G_IO_IN; G_IO_HUP | `SocketIn`; `WriterHup`, `ReaderHup` |
| a signal in poll | `Interrupted` |
| destruction, exit or death | `CloseWriter`, `CloseReader` |

A byte is its message and its place in the frame, so mixing up two bytes is
visible; what a length byte says matters only when all four are read
(`Spelled`). `errno` is a variable: at the end of the stream `recv` returns 0 and
leaves `errno` alone, and the code decides by it. Handlers and nested loops are
in `Channel`; a payload has at least its header, so its size is never 0.

### How Handshake corresponds to the code

| Code | Action |
|---|---|
| `PIpcClient::init`: `connect`; its failure, without a server or by a signal while it waits | `Connect`; `Refused`, `ConnectInterrupted` |
| the loop of `send` with the name, its failure | `SendName`, `NameFails` |
| the client's channel writes; the server's reads | `SendFrame`; `ReadChannel` |
| `PIpcServer` constructor, destructor, death | `Start`, `Stop`, `Crash` |
| the destructor's `unlink` of a path that a newer server has bound | `StopOlder` |
| `socketCallback`: `accept`, each `recv`, the channel | `Accept`, `Recv` |
| EINTR in it; the end of the stream in it | `RecvInterrupted`; `RecvEnd` |

Both sockets block, and both loops run inside a callback of a main loop: while
`serving` is a client the server does nothing else. A client connects once, as in
the code, so a connection is its client's name.

### How SharedMemory corresponds to the code

| Code | Action |
|---|---|
| `create` with `shmget`, `shmat` and `IPC_RMID` | `Create` |
| `attach` | `Attach` |
| destructors | `Delete` |
| `lock`, `lock2`: counted, waiting, returned | `LockAgain`, `Lock`, `Locked` |
| `tryLock` and its second | `LockAgain`, `TryLock` |
| `unlock`, `unlock2`; `PIpcMutex::unlock` | `Unlock`; `UnlockMutex` |
| a process ends | `End` |

The mutexes are external: they are shared and robust, as their attributes say.
`End` gives up what the process owned. That is the kernel's doing, by a list that
runs through the locks themselves; after a destructor has unmapped a locked one
the list is broken, and any part of the locks may be left (`GivenUp`).
`UsableData` is the rounding of the code, applied to an address that differs from
process to process.

### How Pickle corresponds to the code

| Code | Action or operator |
|---|---|
| `alignInt`, `lengthOf`, `hasRoomFor`, `updateIter`, `writeBytes` | operators of these names |
| the write and read functions | `WriteParam`, `ReadParam` |
| message constructor | `Construct` (`Call`) |
| `ParamTraits` of tuples | `ParamLength`, `Write`, `Read` with `ReadOrder` |
| `Dispatch` of an asynchronous message | `Dispatch`, `Drop` |
| `Dispatch` with a reply, and its failure | `Handle`, `Refuse` |
| `handleIncomingSyncMessage` when the listener gives no reply | `PutOff` |
| `sendSyncMessage` and its `ReadParam` | `Return` |
| `sendSyncMessage` timed out or disconnected; the reply that comes later | `GiveUp`; `Ignore` |

Capacity and position count bytes; contents are words, each a part of an
argument. A word that is no length may be read as any (`LengthsAt`), since the
two processes may have been built with different definitions of a message.

## 3. Runs

All constants are in the `.cfg` files. Deadlock is not checked anywhere: event
loops may be idle for good once the quotas are used, a message ends its trip, and
a process may end or wait for itself.

| Run | Question | Result |
|---|---|---|
| `calls` | Both ends call each other with timeouts over a socket for one message, handlers call in turn, the client's calls suspend the server, the client may exit. Is every waiting call answerable (`NoOrphanCall`) and answered by its own reply (`OwnReply`), are output (`OutputWatched`) and buffered messages (`DispatcherScheduled`) never forgotten, is none handed to a blocked receiver (`BufferedWhileBlocked`), does a process stop with output left only behind a full socket (`StopsOnlyWhenBlocked`)? | holds, 3 072 000 states |
| `link` | Two threads of the client send around its calls, the server sends back, both may exit. Do the channels implement `AsyncLink`, and is no disconnection forgotten (`DisconnectScheduled`)? | holds, 910 000 states |
| `progress` | Both ends call each other, with and without timeouts; requests suspend the server, which nobody need continue, or are answered later or never; the client may exit. Do calls end for a reason (`ReturnsForAReason`) and leave no timer (`NoStaleTimer`), do they return (`CallsReturn`), are messages delivered (`Delivered`) and disconnections announced (`Announced`)? | holds, 89 000 states |
| `wakeup` | Three threads, the main thread among them, queue two messages each over a pipe for one byte, around nested loops and interrupted writes. Is the queue used by one thread at a time (`NoRace`), is no wake-up lost (`Awake`), do each thread's messages arrive complete, once, in order (`InOrder`)? | holds, 78 000 states up to symmetry |
| `mailbox` | Two other threads queue. Do they, the pipe and the drain implement `Mailbox`, which is emptied in the end, and does every `queueAsyncMessage` return? | holds, 4 000 states |
| `framing` | Every `send` and `recv` moves any number of bytes, sockets are full and empty, either end closes anywhere. Are both ends at the same place of the stream (`Contiguous`), does it carry whole messages in order (`CarriesMessages`), does each arrive, is closing noticed? | holds, 24 000 states |
| `handshake` | Two clients and a backlog of one; names in pieces, signals, stopped and ended clients, servers that stop, crash and start again. Do both channels begin at the same byte (`ChannelBegins`), is nobody cut off (`NotCutOff`), is every client told (`EveryClientHears`) and served (`EveryClientIsServed`)? | holds, 24 000 states |
| `memory` | Two processes, a buffer with two locks, a mutex, nesting of 2, ends anywhere. Do the locks exclude (`Exclusive`), is each owned by somebody who counts it (`Accounted`), do they survive their owners (`StaysUsable`, `EndUnblocks`), has the data one place inside the segment (`DataFits`)? | holds, 62 000 states |
| `pickle` | Asynchronous messages of every pair of types, some longer, and synchronous ones; both processes of one build or of two. Does what is written fit exactly (`Fits`), do reads stay inside (`InBounds`), is it read back (`Faithful`), is a caller told true only if its request was handled (`TellsIfHandled`), whoever gives up or puts a reply off? | holds, 84 000 states |

The bounds: in the runs of `Channel` (`Quota` 1 to 3, `SockCap` 1, `MaxDepth` 1 or 2)
two messages per end are the least with which calls cross, a late answer meets a
second call, and a message is buffered behind a request; one place in the socket
makes nearly every flush meet a full one, which is where the branches are. The
third message of the client in `link` gives each of its two threads and a call
one message. In `calls` a request's handler may call inside its own thread's call, and
the peer's handler of that call again; a third level would take a third message.
`progress` gives the server one message, since a search for cycles costs more: its
call crosses the client's, and the client's second call meets the late answer to
the first. A process that may exit may do so in any state. In `wakeup` and
`mailbox` one byte fills the pipe, so a second message always meets a full pipe
unless the main loop came first, and two messages per thread show order and
messages that share a byte. Symmetry exchanges the two other threads and is used
only where invariants are checked. In `framing` the header has its 4 bytes and
the socket holds 5, so that frames of 5 and 7 bytes are cut in either part, three
messages are in a socket or around it, and sizes differ so that taking one for
another shows. In `handshake` a name of two bytes is cut or not, and a byte
behind it is there to be read by mistake; the second client is the one that
waits. In `memory` a page of 8 with a header of 6 and an object of 3 makes each
rounding matter, with a buffer smaller and one larger than a page. In `pickle`
strings have up to 5 bytes, one beyond a word. Every action of every
specification fires in the passing runs.

### Where the code departs from its comments

Each of these runs checks one statement of a comment and finds a behaviour
against it.

| Run | Statement | What happens |
|---|---|---|
| `full_socket` | a full socket is an ordinary "EAGAIN scenario" (`PIpcChannel.cpp:404`) | `sendSyncMessage` flushes before `m_nestedSocketSource` exists; `writeToSocket` dereferences it |
| `unblock` | "Setting this flag causes the receiver to be unblocked and the message to be dispatched immediately" (`PIpcMessage.h:62-64`) | the channel reads no such flag: the message waits in `m_incomingAsyncMessages` (`PIpcChannel.cpp:583`) until the call has returned |
| `eight` | "it is important to read them in the order in which they were added to the Pickle" (`src/base/pickle.h`) | a tuple of eight is read with its eighth element before its seventh |

### Limits that the properties state

Some things the code does not promise. They are in the models, and the
properties say under which condition they hold:

* `ReturnsForAReason` and `NoStaleTimer` hold for `MaxDepth = 1`. When a
  handler calls inside a call, the end of the inner one clears `m_inNestedLoop`
  and quits the loop of the outer one, which returns without its reply, although
  "the Send() call doesn't return until a reply comes back"
  (`PIpcMessageMacros.h:20`).
* `BufferedWhileBlocked` holds at any depth and is about nested mode: while the
  flag is set, no asynchronous message reaches the listener above the innermost
  call. Once an inner call has cleared the flag, messages are dispatched again
  although the outer call has not returned.
* A process that stops itself for a suspend request may leave its reply behind.
  `StopsOnlyWhenBlocked` says when: its flush has just filled the socket, or
  `m_blockedOnWrite` was set before and OUT not seen since. In the second case the
  flush returns at once (`PIpcChannel.cpp:369`) although the peer may have made
  room, and the process stops with a reply it could have written. So `CallsReturn`
  excepts a call without a timeout whose peer has stopped: it waits for SIGCONT.
* `PostReturns` holds for the threads in `Posters` of `mailbox`, which leaves the
  main thread out: if that queues while the pipe is full, it waits with the mutex
  held for room only it can make, and all others wait behind it.
* A request whose handler replies later gets an error reply at once, whatever the
  comment in `PIpcMessageMacros.h:29` promises.
* After a handler has closed the socket the reader goes on once more, with
  descriptor -1 (`PIpcChannel.cpp:495`).
* `EndIsNoticed` and those of `Handshake` except the state where `recv` returned 0
  with EINTR, or in the server also EAGAIN, left in `errno` by an earlier call:
  the code then reads again for ever (`Spinning`).
* `EveryClientHears` and `EveryClientIsServed` except a client
  that is stopped within its name: the server waits for it in its main loop
  (`Stuck`).
* `Accounted` and `EndUnblocks` except locks that a destructor left locked
  (`lost`): a buffer deleted while its lock is counted twice, a mutex deleted while
  it is locked.
* `Faithful` is proved for messages of up to seven arguments (`FewArguments`); the
  macros for eight give a message no identifier, and run `eight` shows that their
  last two arguments are swapped.
* `TellsIfHandled` goes one way. A caller is told false also when it timed out, or
  lost the connection, before or after its request was handled, and when the handler
  put off its reply. And it is about the handler: a caller whose results cannot be
  read, which needs processes of different builds, is told true all the same
  (`PIpcChannel.h:66`).
* An older server's destructor may unlink the name of a newer one (`StopOlder`),
  which then listens where nobody finds it. Clients are refused and told so
  (`EveryClientHears`); the newer server learns nothing.
* A process that locks a `PIpcMutex` twice waits for itself, as does one that waits
  for a lock whose owner never unlocks it: `EndUnblocks` promises something only
  when the owner is gone.

### Fairness

`FairSpec` assumes weak fairness of each main thread (`MainThread`: the code
that runs without a decision of the application, including the return of its
handlers, and poll reporting a ready source) and of expiring timers. That is
what the scheduler and GLib give: a ready source of a polling loop is
dispatched. Applications need not send, handlers may or may not reply, nothing
exits, and nobody need send SIGCONT. No strong fairness is needed, since an
enabled handler stays enabled until the main thread takes a step.

`AsyncCaller`'s `FairSpec` assumes that threads are scheduled (a started
`queueAsyncMessage` goes on when it can), that the drain goes on, and that a
nested loop ends, which is `CallsReturn` of `Channel`. The callback is strongly
fair: nested loops disable it again and again, but a pass of the main loop
dispatches every source it found ready, also after another source of that pass
ran a nested loop. A mutex is granted under weak fairness only; that is
enough, since every thread queues a bounded number of messages. Nothing makes a
thread queue, and no signal need arrive.

`Framing`'s `FairSpec`: a sender in its write loop and a receiver in its read loop
go on, and the main loops dispatch a ready source. A full socket is not waited for
(the sender's step is then `WouldBlock`), so weak fairness is enough.
`Handshake`'s: the server's callback and a client that is not stopped go on when
their call can return; starting, stopping, signals and SIGCONT may never come.
`SharedMemory`'s: a process waiting for a lock that stays free gets it; unlocking
is up to the application, so nothing more than `EndUnblocks` can be promised.

## 4. Proofs

`ChannelProofs` proves, for every value of the constants that satisfies
`EndsAssumption` and `BoundsAssumption` (in particular any quota, any capacity
and any depth of nested calls):

* `TypeCorrect`: `Spec => []TypeOK`.
* `SchedulingCorrect`: `Spec => []Scheduled`.
* from it `OutputIsWatched`, `DispatcherIsScheduled` and
  `DisconnectIsScheduled`: three of the invariants the runs check;
* `StopsWhenBlocked`: the action property `StopsOnlyWhenBlocked`.

Why the detour: the three speak about moments when a thread polls, and say
nothing about the steps between. `Scheduled` says, at every
point of the code, whose task each piece of work is. Per channel (`ChannelOK`):

1. `NestedModeOK`: a nested loop that has not been quit means nested mode and a
   live connection, and nested mode means a call is on the stack. So the mode
   flag tells, in a poll, which source is watched.
2. `WatchOK`: a channel that met a full socket has OUT set on the source of the
   mode it is in.
3. `FlushedOK`: output is left only behind a full socket.
4. `IncomingOK`: buffered messages are under a dispatch loop on the stack, or in
   nested mode (the return of the call sees to them), or the idle source is
   attached; and the idle pointer is not yet spent.
5. `AnnounceOK`: until the listener is told, the disconnect message is first and
   its dispatcher attached.

The proof follows the code: lemmas about each private method (`DisconnectedOK`,
`FlushOK`, `HandleIncomingOK`, `EnterNestedLoopOK`, `CallReturnOK`, ...), then
one step per action in `ScheduledNext`. A flush keeps parts 1, 4 and 5
(`RestOK`) and establishes 2 and 3, whatever the socket took (`FlushCases`).
`StopsWhenBlocked` takes the one action that stops a process and looks at the
outcomes of its flush: output stays behind a flush that did not try, as the channel was
blocked before, or that filled the socket (`FlushFillsSocket`); part 3 says that the
channel is blocked afterwards.

Part 1 holds at any depth although the mode flag is wrong after an inner call:
the flag can be false inside a call, never true outside one.

`CallProofs` proves, under the same two assumptions:

* `CallsAreServed`: `Spec => []Calls`, the invariant of the synchronous calls.
* from it, at any depth, `NoCallIsOrphaned`, `RepliesAreOwn` and
  `BlockedReceiversBuffer` (`NoOrphanCall`, `OwnReply`, `BufferedWhileBlocked`);
* with the hypothesis `MaxDepth <= 1`, `CallsEndForAReason` and `TimersEndWithCalls`
  (`ReturnsForAReason`, `NoStaleTimer`). They are false at depth 2, as section 3 says.

`NoOrphanCall` speaks about one moment, the poll of a waiting caller, and only about
the current call. `Calls` follows a request wherever it is. Between two live ends
(`CallsServed`):

1. `AnswerOK`: while the current call has no reply, its request or the answer to it
   is in exactly one place: the caller's output, either socket buffer, a handler's
   frame on the peer's stack, or the peer's output.
2. `FreshOK`: nothing is in any of these places for an id the caller has not given
   yet. So a new call begins with the one request it sends.

And per channel (`CallsOK`): in nested mode the current call is the innermost one
(`CurrentOK`); only a reply to it is kept, and ends the loop (`ReplyOK`); other
threads queue asynchronous messages only (`OthersOK`); the frame below a frame is
that of its caller (`CallersOK`). While calls do not nest, also (`ShallowOK`): a
dispatching reader has no call below it, there is one call and it is in nested mode,
the only timer is its own, and a loop that was quit was quit for a reason.

The proof counts (`RequestOrAnswer` is a sum of cardinalities). Its lemmas say how
the counts of a sequence change when it is cut, joined and shortened, and that a
step which moves a message from one place to the next leaves the sum as it is
(`Balanced`), whatever a flush wrote. None of this
depends on how deep the calls nest.

`BlockedReceiversBuffer` rests on a second invariant (`Blocked`): in nested mode only
readers and handlers of requests are above the innermost call on the stack. A reader
in nested mode hands over requests only, the idle source is of the main context and
is not dispatched in a nested loop, and the mode is entered with the call on top.

`LinkProofs` proves, again at any depth, `LinkIsImplemented`: `Spec =>
ImplementsLink`. The invariant (`LinkIsNumbered`) says: what is delivered or on the
link, and what the sender's other threads still hold, is distinct and older than the
next id (`NumbersOK`), since `AsyncLink` accepts a message only if it is new; a live
channel holds only messages to deliver (`KindsOK`); one that lost its socket delivers
nothing before its listener is told (`LateOK`). The last is the delicate part. When
a dispatch loop meets the disconnect message it ends, but messages are left behind it
and an outer loop, under whose handler a call was made, could go on with them. It does not:
a `dispatch` frame was called by a reader (`CallersOK`, which is why it holds at any
depth), and a reader that comes back to a closed socket fails and puts the
disconnect message first once more. Each action has a lemma that it is a step of the
link or changes nothing of it. The queue of the link is `Async` of several sequences,
and `Async` is shown to be a homomorphism; the induction this takes comes from
the library's theorem that finite sets are well-founded under inclusion
(`LeastNumber`, `Induction`), since the induction theorems themselves cannot be
cited.

`AsyncCallerProofs` proves, for any threads, quota and capacity of the pipe that
satisfy `ThreadsAssumption` and `SizesAssumption`:

* `TypesHold`, `QueueIsExclusive`, `NoWakeupIsLost`, `MessagesKeepOrder`:
  `TypeOK`, `NoRace`, `Awake` and `InOrder`, the invariants of run `wakeup`;
* `ImplementsSafeMailbox`: `Spec => Box!SafeSpec`, the safety half of
  `ImplementsMailbox`.

All follow from `Wakeup` (`WakeupCorrect`). It adds to `TypeOK` and `Awake`:
`Held`, a thread at the queue owns its mutex; `WithinQuota`, without which a
pushed message might not be a letter of the mailbox; and `Numbered`, which
bounds the numbers in `outgoing \o otherThread` by the threads' counts, so that
a pushed message is larger than its predecessors and new to the mailbox. Moving a
message leaves that concatenation as it is (`MoveKeepsOrder`); pushing one
appends to it (`PushKeepsOrder`, `PushNumbers`). `Awake` needs that the pipe has
room for at least one byte: a write that a signal ends leaves a full pipe.

`FramingProofs` proves, for any header, sizes of payloads, number of messages and
capacity of the socket that satisfy `FramingAssumption`: `TypesHold`,
`StreamIsContiguous` and `StreamCarriesMessages`, that is `TypeOK`, `Contiguous`
and `CarriesMessages`, all the safety properties of run `framing`. They follow from `Inv`
(`FramingCorrect`), whose heart is `StreamOK` about `Flight`, the bytes that were
sent and are in no message handed over (read in part, or in the socket):

1. `OnStream`: `Flight` begins with the first byte of the next message to hand
   over, each byte is followed by its successor, and behind the first byte of a
   frame stand the others at their distance. `Contiguous` does not say the last, and
   by the neighbours alone it would take an induction to see that the first bytes of
   the stream are the frame of one message.
2. `EndsBefore`: `Flight` ends just before the byte that the sender's counters name.

A call of `send` adds a piece behind the end (`ExtendStream`); a call of `recv`
moves bytes within `Flight` and changes nothing of it (`LengthKeeps`,
`PayloadKeeps`), until the last byte of a frame takes the frame off
(`TakeFrame`, `WholeFrame`). `SenderOK` and `ReceiverOK` tie the counters to the
messages: the length that was read is that of the message it belongs to.

`HandshakeProofs` proves, for any clients, backlog and lengths that satisfy
`HandshakeAssumption`: `TypesHold`, `ChannelsBeginTogether` and `NobodyIsCutOff`,
that is `TypeOK`, `ChannelBegins` and `NotCutOff`. The invariant (`HandshakeCorrect`) adds
`ReadsWritten`, without which what a channel finds in the socket could be negative,
and `NameFirst`: while the server reads a name it has nothing from behind it.

`SharedMemoryProofs` proves, for any processes, segments, nesting and sizes that
satisfy `SegmentsAssumption` and `LayoutAssumption`: `TypesHold`,
`LocksExclude`, `LocksAreAccounted`, `LocksStayUsable` and `DataHasItsPlace`, that is
`TypeOK`, `Exclusive`, `Accounted`, `StaysUsable` and `DataFits`, all the
invariants of run `memory`. They follow from `Inv` (`MemoryCorrect`), which adds
what those leave open between the steps: `Held`, a count above 0 is that of a
running process that owns the lock and has not lost it, from which exclusion
follows, as a lock has one owner; `Forgotten`, a lock that a destructor left
locked still has its owner while that runs; `Waiting`, only running processes wait;
`Consistent`, a lock that has an owner was made consistent, so that no unlock
spoils it; and `Placed`, the data of every object begins at the second page of the
segment. `DataOnSecondPage` proves of the rounding that the address of the
mapping drops out of it.

`PickleProofs` proves, for any messages, definitions and length of strings that satisfy
`PickleAssumption`: `WritesFit`, `ReadsStayInside`, `CallersAreTold` and, if no message has
more than seven arguments (`FewArguments`), `ArgumentsArrive`, that is `Fits`, `InBounds`,
`TellsIfHandled` and `Faithful`. The invariant (`PickleCorrect`) is about the place of
each argument: argument `n` begins where the lengths of the rest say, counted from the
end (`Offset`), and fills the words that are its own (`Stored`). Writing adds the
next one and disturbs none before it (`WriteParamOK`); the position is behind the last
one written (`WritingOK`). Reading any type at a stored argument gives something inside
the payload (`ReadParamOK`), reading the right type gives the argument (`ReadBack`);
so a reader of the same build stands at the beginning of the next argument
(`ReadBackOK`). That the parts add up to the capacity is a sum over a sequence,
proved by the same induction as in `LinkProofs` (`LengthOfFirst`, `LengthOfRest`).

So every invariant and every safety property of a passing run is a theorem. Only
model-checked is what must happen in the end, since liveness under fairness is outside
what the prover handles: `CallsReturn`, `Delivered` and `Announced` of `Channel`, the
liveness half of `ImplementsMailbox` and `PostReturns` of `AsyncCaller`,
`EveryMessageArrives` and `EndIsNoticed` of `Framing`, `EveryClientHears` and
`EveryClientIsServed` of `Handshake`, `EndUnblocks` of `SharedMemory`. Nor are there
theorems behind the three violated comments, which are single behaviours.

## 5. Not modelled, and what is left

Not modelled:

* undefined behaviour that begins outside the modules' state: deleting a channel
  in a handler inside its own nested loop, deleting a client before its source
  fires, destroying an asynchronous caller while threads call it, two threads of a
  process sharing the counts of one `PIpcBuffer`;
* the wrap of the 32-bit message id, which takes 2^31 messages during one call;
* failures that end the process at once or change nothing: a pipe or socket that
  cannot be created or bound, `fcntl`, a failing `accept`, allocation;
* plain data: the keys of the transition and of the resized buffer, routing ids,
  `setListener`;
* in `Pickle`, `readSize`, `readData` and the traits of pairs, which are made of
  the same parts, and `WriteReplyParams` (`PIpcMessageUtils.h:594-622`), by which a
  handler that put off its reply would write the results later: nothing in `src/`
  calls it, and the caller has been answered with an error by then;
* `tuple.h` and `PIpcMessageMacros.h` beyond arities, order and calls, and
  `basictypes.h`: templates and macros without a run-time state of their own;
  build and packaging files.

Left to do:

1. The composition of `AsyncCaller` with `Channel`, in which `Awake` justifies
   `AsyncCallerDispatch` directly.
2. A weaker form of `ReturnsForAReason` and `NoStaleTimer` that nested calls keep, so
   that something is known of every call's end at any depth.
