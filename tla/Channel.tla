------------------------------- MODULE Channel -------------------------------
(***************************************************************************)
(* The two PIpcChannel objects at the ends of one connection               *)
(* (src/ipc/PIpcChannel.cpp), the kernel's socket between them, and the    *)
(* GLib main loops that call them.                                         *)
(*                                                                         *)
(* Each end is one process.  Everything but queueAsyncMessage happens on   *)
(* its main thread, whose call stack is a variable: the callbacks of the   *)
(* channel call the application, the application calls sendSyncMessage,    *)
(* and sendSyncMessage runs a nested main loop that calls the channel back *)
(* again.  One action is a piece of main-thread code between two points    *)
(* where the other process, another thread or the application can be       *)
(* noticed.  A message is one unit: how it is cut into bytes is left out,  *)
(* a message is on the socket once its last byte is written.               *)
(***************************************************************************)
EXTENDS Naturals, Sequences, FiniteSets

CONSTANTS
  Client, Server,   \* the two ends of the connection
  Sends,            \* Sends[e]: the kinds of message the application of e sends
  Quota,            \* Quota[e]: how many messages the application of e creates
  Timed,            \* whether sendSyncMessage gets timeoutMs > 0 (TRUE) or not
  MaxDepth,         \* how many sendSyncMessage calls of an end may be nested
  SockCap,          \* how many messages the socket buffers in one direction
  Failing           \* the ends whose process may exit or delete its channel

Ends == {Client, Server}
Peer(e) == IF e = Client THEN Server ELSE Client

AsyncKinds == {"async", "unblock", "thread"}   \* "thread": by queueAsyncMessage
SyncKinds  == {"sync", "suspend", "deferred"}  \* "deferred": replied to later
ReplyKinds == {"reply", "error"}

ASSUME EndsAssumption == Client # Server
ASSUME BoundsAssumption ==
  /\ Sends \in [Ends -> SUBSET (AsyncKinds \cup SyncKinds)]
  /\ Quota \in [Ends -> Nat]
  /\ Timed \subseteq BOOLEAN
  /\ MaxDepth \in Nat
  /\ SockCap \in Nat \ {0}
  /\ Failing \subseteq Ends

(***************************************************************************)
(* A message is its kind (type and flags) and the id the sender gave it.   *)
(* A reply carries the id of the request it answers.  Gone is the message  *)
(* disconnected() puts in the channel's own incoming list; it never        *)
(* travels.                                                                *)
(***************************************************************************)
Messages == [kind : AsyncKinds \cup SyncKinds \cup ReplyKinds, id : Nat]
NoMsg == [kind |-> "none", id |-> 0]
Gone  == [kind |-> "disconnect", id |-> 0]

(***************************************************************************)
(* A frame of the main thread's stack, the innermost one first:            *)
(*   "read"      the do-while of socketCallback                            *)
(*   "dispatch"  dispatchIncomingAsyncMessages called by the reader        *)
(*   "idle"      dispatchIncomingAsyncMessages called by the idle source   *)
(*   "async"     the listener handles an asynchronous message              *)
(*   "sync"      the listener handles a synchronous request                *)
(*   "call"      sendSyncMessage in g_main_loop_run                        *)
(***************************************************************************)
Frames == [at : {"read", "dispatch", "idle", "async", "sync", "call"},
           msg : Messages \cup {NoMsg}]

Watch == {"none", "in", "inout"}  \* no source; IN|HUP; IN|OUT|HUP

Channels ==
  [proc : {"run", "stopped", "spinning", "crashed", "exited"},
   fd : BOOLEAN,                    \* m_socketFd >= 0
   outgoing : Seq(Messages),        \* m_outgoingMessages
   otherThread : Seq(Messages),     \* m_otherThreadOutgoingMessages
   blockedOnWrite : BOOLEAN,
   socketSource : Watch,
   inNestedLoop : BOOLEAN,
   nestedSocketSource : Watch,
   nestedMainLoop : {"running", "quitting", "stopped"},
   currSyncMessageId : Nat,
   currSyncReply : Messages \cup {NoMsg},
   nestedTimeoutSource : Nat,       \* the call that created it, or 0
   timers : SUBSET Nat,             \* the timeouts attached to the nested context
   syncCallTimedOut : BOOLEAN,
   incomingAsync : Seq(Messages \cup {Gone}),   \* m_incomingAsyncMessages
   dispatcherSrc : {"none", "attached", "spent"},
   replyForIncoming : BOOLEAN,      \* m_replyForIncomingSyncMessage # 0
   remoteIsSuspended : BOOLEAN,
   stack : Seq(Frames),
   nextId : Nat]                    \* PIpcMessage's s_nextMessageId

VARIABLES
  ch,    \* ch[e]: the channel of end e, with the thread that runs it
  sock,  \* sock[e]: the messages written to the socket that e has not read
  got,   \* got[e]: the asynchronous messages handed to e's listener, in order
  told   \* told[e]: how many times e's listener was told of the disconnection

vars == <<ch, sock, got, told>>

\* The constructor and init(): non-blocking socket, a source for IN and HUP.
NewChannel ==
  [proc |-> "run", fd |-> TRUE, outgoing |-> <<>>, otherThread |-> <<>>,
   blockedOnWrite |-> FALSE, socketSource |-> "in", inNestedLoop |-> FALSE,
   nestedSocketSource |-> "none", nestedMainLoop |-> "stopped",
   currSyncMessageId |-> 0, currSyncReply |-> NoMsg, nestedTimeoutSource |-> 0,
   timers |-> {}, syncCallTimedOut |-> FALSE, incomingAsync |-> <<>>,
   dispatcherSrc |-> "none", replyForIncoming |-> FALSE,
   remoteIsSuspended |-> FALSE, stack |-> <<>>, nextId |-> 1]

\* The process is gone, or the channel deleted: the kernel closed the socket.
Ended(how) == [NewChannel EXCEPT !.proc = how, !.fd = FALSE,
                                 !.socketSource = "none"]

Init ==
  /\ ch = [e \in Ends |-> NewChannel]
  /\ sock = [e \in Ends |-> <<>>]
  /\ got = [e \in Ends |-> <<>>]
  /\ told = [e \in Ends |-> 0]
-----------------------------------------------------------------------------
(***************************************************************************)
(* The stack.                                                              *)
(***************************************************************************)
At(c) == IF c.stack = <<>> THEN "loop" ELSE Head(c.stack).at

Push(c, at, m) == [c EXCEPT !.stack = <<[at |-> at, msg |-> m]>> \o @]

Pop(c) == [c EXCEPT !.stack = Tail(@)]

Depth(c) == Cardinality({i \in DOMAIN c.stack : c.stack[i].at = "call"})

\* The main thread is in a poll of the main loop, or of the nested one.  A
\* timeout callback leaves the nested loop "quitting": the socket source can
\* still be dispatched in that same pass, because it was attached later.
InPoll(c) ==
  /\ c.proc = "run"
  /\ At(c) \in {"loop", "call"}
  /\ At(c) = "call" => c.nestedMainLoop # "stopped"

\* The source over the socket that this poll watches.
WatchedSource(c) ==
  IF At(c) = "loop" THEN c.socketSource ELSE c.nestedSocketSource

\* The application runs: from another source of the main loop, or in a
\* callback of the listener.  A handler of a synchronous request sets the
\* reply last (PIpcMessageWithReply::Dispatch).
InApplication(c) ==
  /\ c.proc = "run"
  /\ At(c) \in {"loop", "async", "sync"}
  /\ At(c) = "sync" => ~c.replyForIncoming

\* The last pass of the nested loop is over once its socket source ran.
LastSourceOfPass(c) ==
  [c EXCEPT !.nestedMainLoop = IF @ = "quitting" THEN "stopped" ELSE @]
-----------------------------------------------------------------------------
(***************************************************************************)
(* The private methods, as functions of the channel.                       *)
(***************************************************************************)
\* Faulty variant: the list is filled and nobody scheduled to look at it.
NoDispatcher(c) == c

AttachDispatcher(c) ==
  [c EXCEPT !.dispatcherSrc = IF @ = "none" THEN "attached" ELSE @]

\* Faulty variant: a disconnection does not end the call.
StayInNestedLoop(c) == c

QuitNestedLoop(c) ==
  [c EXCEPT !.nestedMainLoop = IF c.inNestedLoop THEN "stopped" ELSE @]

\* Faulty variant: the disconnect message queues behind the others.
PushBackGone(c) == [c EXCEPT !.incomingAsync = Append(@, Gone)]

\* Faulty variant: the message is not marked as the disconnect message.
PushFrontUnmarked(c) == [c EXCEPT !.incomingAsync = <<NoMsg>> \o @]

PushFrontGone(c) == [c EXCEPT !.incomingAsync = <<Gone>> \o @]

Disconnected(c) ==
  AttachDispatcher(PushFrontGone(QuitNestedLoop(
    [c EXCEPT !.fd = FALSE, !.socketSource = "none"])))

\* Faulty variant: OUT is always watched for in the main loop.
WouldBlockInMainLoop(c) ==
  [c EXCEPT !.blockedOnWrite = TRUE, !.socketSource = "inout"]

\* writeToSocket on EAGAIN: the source to watch for OUT is the nested one in a
\* nested loop; before sendSyncMessage has created it, that is a null pointer.
WouldBlock(c) ==
  IF c.inNestedLoop
  THEN IF c.nestedSocketSource = "none"
       THEN Ended("crashed")
       ELSE [c EXCEPT !.blockedOnWrite = TRUE, !.nestedSocketSource = "inout"]
  ELSE [c EXCEPT !.blockedOnWrite = TRUE, !.socketSource = "inout"]

\* processOneOutgoingMessage repeated: n messages leave, then the queue is
\* empty or the socket is full.
WriteMessages(c, n) ==
  LET d == [c EXCEPT !.outgoing = SubSeq(@, n + 1, Len(@))]
  IN  [ch   |-> IF n < Len(c.outgoing) THEN WouldBlock(d) ELSE d,
       sent |-> SubSeq(c.outgoing, 1, n)]

\* How many of len messages the socket takes when it has room for some: no more
\* than that, unless the other process reads while they are being written.
Accepted(len, room, reading) ==
  {n \in 0 .. len : \/ n = len /\ n <= room
                    \/ n = room
                    \/ n > room /\ reading}

\* The outcomes of processOutgoingMessages; other is the channel of the peer.
\* A write to a socket whose other end is closed fails.
ProcessOutgoing(c, room, other) ==
  IF ~c.fd \/ c.blockedOnWrite \/ c.outgoing = <<>>
  THEN {[ch |-> c, sent |-> <<>>]}
  ELSE IF ~other.fd
  THEN {[ch |-> Disconnected(c), sent |-> <<>>]}
  ELSE {WriteMessages(c, n) :
          n \in Accepted(Len(c.outgoing), room, other.proc = "run")}

Room(e) == IF Len(sock[e]) < SockCap THEN SockCap - Len(sock[e]) ELSE 0

\* The outcomes for end e when its channel has become c.
Flush(e, c) == ProcessOutgoing(c, Room(Peer(e)), ch[Peer(e)])

\* End e takes the outcome o of a flush.
Take(e, o) ==
  /\ ch' = [ch EXCEPT ![e] = o.ch]
  /\ sock' = [sock EXCEPT ![Peer(e)] = @ \o o.sent]

HandleIncomingSyncMessage(c, m) ==
  Push([c EXCEPT !.replyForIncoming = FALSE], "sync", m)

\* Faulty variant: any reply will do.
TakeAnyReply(c, m) ==
  [c EXCEPT !.currSyncReply = m, !.nestedMainLoop = "stopped"]

\* Faulty variant: any reply ends the nested loop, ours is kept.
QuitForAnyReply(c, m) ==
  [c EXCEPT !.currSyncReply = IF m.id = c.currSyncMessageId THEN m ELSE @,
            !.nestedMainLoop = "stopped"]

\* In the nested loop: a reply to another call is dropped.
TakeReply(c, m) ==
  IF m.id = c.currSyncMessageId
  THEN [c EXCEPT !.currSyncReply = m, !.nestedMainLoop = "stopped"]
  ELSE c

QueueIncoming(c, m) == [c EXCEPT !.incomingAsync = Append(@, m)]

\* Faulty variant: a blocked receiver buffers requests too.
NestedModeBuffersAll(c, m) ==
  IF m.kind \in ReplyKinds THEN TakeReply(c, m) ELSE QueueIncoming(c, m)

\* Faulty variant: a blocked receiver dispatches at once.
NestedModeDispatches(c, m) ==
  IF m.kind \in SyncKinds THEN HandleIncomingSyncMessage(c, m)
  ELSE IF m.kind \in ReplyKinds THEN TakeReply(c, m)
  ELSE Push(QueueIncoming(c, m), "dispatch", NoMsg)

HandleIncomingMessageInNestedMode(c, m) ==
  IF m.kind \in SyncKinds THEN HandleIncomingSyncMessage(c, m)
  ELSE IF m.kind \in ReplyKinds THEN TakeReply(c, m)
  ELSE QueueIncoming(c, m)

HandleIncomingMessageInNormalMode(c, m) ==
  IF m.kind \in SyncKinds THEN HandleIncomingSyncMessage(c, m)
  ELSE IF m.kind \in ReplyKinds THEN c
  ELSE Push(QueueIncoming(c, m), "dispatch", NoMsg)
-----------------------------------------------------------------------------
(***************************************************************************)
(* The application's calls.                                                *)
(***************************************************************************)
MayCreate(e, k) == k \in Sends[e] /\ ch[e].nextId <= Quota[e]

NewMessage(c, k) == [kind |-> k, id |-> c.nextId]

\* The application creates a message of kind k and gives it to the main
\* thread's queue.
Enqueue(c, k) == [c EXCEPT !.outgoing = Append(@, NewMessage(c, k)),
                           !.nextId = @ + 1]

\* sendAsyncMessage on the creating thread.
SendAsync(e, k) ==
  /\ k \in {"async", "unblock"} /\ MayCreate(e, k)
  /\ InApplication(ch[e])
  /\ \E o \in Flush(e, Enqueue(ch[e], k)) : Take(e, o)
  /\ UNCHANGED <<got, told>>

\* queueAsyncMessage on any other thread, at any moment.
QueueAsyncMessage(e) ==
  /\ MayCreate(e, "thread")
  /\ ch[e].proc \in {"run", "spinning"}
  /\ ch' = [ch EXCEPT ![e].otherThread = Append(@, NewMessage(ch[e], "thread")),
                      ![e].nextId = @ + 1]
  /\ UNCHANGED <<sock, got, told>>

\* sendSyncMessage after the flush: the sources of the nested loop, or, when
\* the flush found the connection gone, the early return.
StartNestedLoop(c, m, timed) ==
  [c EXCEPT !.syncCallTimedOut = FALSE,
            !.nestedTimeoutSource = IF timed THEN m.id ELSE @,
            !.timers = IF timed THEN @ \cup {m.id} ELSE @,
            !.nestedSocketSource = IF c.blockedOnWrite THEN "inout" ELSE "in",
            !.nestedMainLoop = "running"]

AbandonCall(c, m) ==
  [c EXCEPT !.inNestedLoop = FALSE, !.currSyncMessageId = 0,
            !.currSyncReply = NoMsg,
            !.remoteIsSuspended = (c.proc = "run" /\ m.kind = "suspend")]

EnterNestedLoop(c, m, timed) ==
  IF c.fd THEN Push(StartNestedLoop(c, m, timed), "call", m)
          ELSE AbandonCall(c, m)

\* sendSyncMessage, and sendSyncSuspendMessage for kind "suspend".  The request
\* is flushed before the source of the nested loop exists.
SendSync(e, k, timed) ==
  /\ k \in SyncKinds /\ MayCreate(e, k)
  /\ InApplication(ch[e])
  /\ Depth(ch[e]) < MaxDepth
  /\ ~ch[e].remoteIsSuspended
  /\ LET m == NewMessage(ch[e], k)
         c == [Enqueue(ch[e], k) EXCEPT !.inNestedLoop = TRUE,
                                        !.currSyncMessageId = m.id,
                                        !.currSyncReply = NoMsg]
     IN  \E o \in Flush(e, c) :
           Take(e, [o EXCEPT !.ch = EnterNestedLoop(@, m, timed)])
  /\ UNCHANGED <<got, told>>

\* sendReply by the handler of a request.
SendReply(e) ==
  /\ InApplication(ch[e]) /\ At(ch[e]) = "sync"
  /\ Head(ch[e].stack).msg.kind # "deferred"
  /\ ch' = [ch EXCEPT ![e].replyForIncoming = TRUE]
  /\ UNCHANGED <<sock, got, told>>

\* setRemoteIsSuspended(false).
ClearRemoteIsSuspended(e) ==
  /\ InApplication(ch[e]) /\ ch[e].remoteIsSuspended
  /\ ch' = [ch EXCEPT ![e].remoteIsSuspended = FALSE]
  /\ UNCHANGED <<sock, got, told>>
-----------------------------------------------------------------------------
(***************************************************************************)
(* The sources of the two main contexts.                                   *)
(***************************************************************************)
\* Faulty variant: front() without pop().
CopyOtherThread(c) == [c EXCEPT !.outgoing = @ \o c.otherThread]

\* asyncCallerDispatch: the other threads' messages join the queue.
DrainOtherThread(c) == [c EXCEPT !.outgoing = @ \o c.otherThread,
                                 !.otherThread = <<>>]

AsyncCallerDispatch(e) ==
  /\ InPoll(ch[e]) /\ At(ch[e]) = "loop"
  /\ ch[e].otherThread # <<>>
  /\ \E o \in Flush(e, DrainOtherThread(ch[e])) : Take(e, o)
  /\ UNCHANGED <<got, told>>

\* socketCallback with HUP, which comes first: unread messages are lost.
SocketHup(e) ==
  /\ InPoll(ch[e]) /\ WatchedSource(ch[e]) # "none" /\ ch[e].fd
  /\ ~ch[Peer(e)].fd
  /\ ch' = [ch EXCEPT ![e] = Disconnected(LastSourceOfPass(@))]
  /\ UNCHANGED <<sock, got, told>>

\* socketCallback with OUT: the OUT watch of the dispatched source goes.
SocketOut(e) ==
  /\ InPoll(ch[e]) /\ WatchedSource(ch[e]) = "inout" /\ ch[e].fd
  /\ ch[Peer(e)].fd /\ Room(Peer(e)) > 0
  /\ LET d == [LastSourceOfPass(ch[e]) EXCEPT !.blockedOnWrite = FALSE]
         c == IF At(d) = "loop" THEN [d EXCEPT !.socketSource = "in"]
                                ELSE [d EXCEPT !.nestedSocketSource = "in"]
     IN  \E o \in Flush(e, c) : Take(e, o)
  /\ UNCHANGED <<got, told>>

\* socketCallback with IN alone, when poll returned: since then the peer may
\* have closed its end.
SocketIn(e) ==
  /\ InPoll(ch[e]) /\ WatchedSource(ch[e]) # "none" /\ ch[e].fd
  /\ sock[e] # <<>>
  /\ ch' = [ch EXCEPT ![e] = Push(LastSourceOfPass(@), "read", NoMsg)]
  /\ UNCHANGED <<sock, got, told>>

\* The idle source of m_incomingAsyncMessagesDispatcherSrc.
Idle(e) ==
  /\ InPoll(ch[e]) /\ At(ch[e]) = "loop"
  /\ ch[e].dispatcherSrc = "attached"
  /\ ch' = [ch EXCEPT ![e] = Push(@, "idle", NoMsg)]
  /\ UNCHANGED <<sock, got, told>>

\* nestedLoopTimeoutCallback for the timeout of call t: it destroys the source
\* m_nestedTimeoutSource points to, and GLib the one that fired.
NestedLoopTimeout(c, t) ==
  [c EXCEPT !.timers = @ \ {t, c.nestedTimeoutSource},
            !.nestedTimeoutSource = 0,
            !.syncCallTimedOut = TRUE,
            !.nestedMainLoop = "quitting"]

Timeout(e, t) ==
  /\ InPoll(ch[e]) /\ At(ch[e]) = "call"
  /\ t \in ch[e].timers
  /\ ch' = [ch EXCEPT ![e] = NestedLoopTimeout(@, t)]
  /\ UNCHANGED <<sock, got, told>>
-----------------------------------------------------------------------------
(***************************************************************************)
(* The rest of the main thread's code, from the innermost frame on.        *)
(***************************************************************************)
Runs(e, at) == ch[e].proc = "run" /\ At(ch[e]) = at

\* processIncomingMessages reads a whole message.
ReadMessage(e) ==
  /\ Runs(e, "read") /\ ch[e].fd
  /\ sock[e] # <<>>
  /\ sock' = [sock EXCEPT ![e] = Tail(@)]
  /\ ch' = [ch EXCEPT ![e] =
              IF @.inNestedLoop
              THEN HandleIncomingMessageInNestedMode(@, Head(sock[e]))
              ELSE HandleIncomingMessageInNormalMode(@, Head(sock[e]))]
  /\ UNCHANGED <<got, told>>

\* readFromSocket finds nothing (EAGAIN): back to the event loop.
ReadNothing(e) ==
  /\ Runs(e, "read") /\ ch[e].fd
  /\ sock[e] = <<>> /\ ch[Peer(e)].fd
  /\ ch' = [ch EXCEPT ![e] = Pop(@)]
  /\ UNCHANGED <<sock, got, told>>

\* At the end of the stream recv returns 0 and leaves errno as it was, and
\* readFromSocket looks at errno: EAGAIN is taken for "nothing yet", EINTR is
\* retried for ever, any other value is an error.
ReadEndOfStream(e) ==
  /\ Runs(e, "read") /\ ch[e].fd
  /\ sock[e] = <<>> /\ ~ch[Peer(e)].fd
  /\ \E c \in {Pop(ch[e]), [ch[e] EXCEPT !.proc = "spinning"],
               Disconnected(Pop(ch[e]))} :
        ch' = [ch EXCEPT ![e] = c]
  /\ UNCHANGED <<sock, got, told>>

\* processIncomingMessages is called again although the message it handled made
\* the channel disconnect: recv fails on descriptor -1.
ReadClosed(e) ==
  /\ Runs(e, "read") /\ ~ch[e].fd
  /\ ch' = [ch EXCEPT ![e] = Disconnected(Pop(@))]
  /\ UNCHANGED <<sock, got, told>>

\* The loop of dispatchIncomingAsyncMessages.
Dispatching(e) == Runs(e, "dispatch") \/ Runs(e, "idle")

PopIncoming(c) == [c EXCEPT !.incomingAsync = Tail(@)]

\* The loop ends; the idle callback leaves its source pointer as src.
EndDispatch(c, src) ==
  [Pop(c) EXCEPT !.dispatcherSrc = IF At(c) = "idle" THEN src ELSE @]

DispatchMessage(e) ==
  /\ Dispatching(e)
  /\ ch[e].incomingAsync # <<>> /\ Head(ch[e].incomingAsync) # Gone
  /\ ch' = [ch EXCEPT ![e] =
              Push(PopIncoming(@), "async", Head(@.incomingAsync))]
  /\ got' = [got EXCEPT ![e] = Append(@, Head(ch[e].incomingAsync))]
  /\ UNCHANGED <<sock, told>>

\* onDisconnected.  The idle callback then keeps its pointer to the source that
\* GLib removes.
DispatchDisconnect(e) ==
  /\ Dispatching(e)
  /\ ch[e].incomingAsync # <<>> /\ Head(ch[e].incomingAsync) = Gone
  /\ ch' = [ch EXCEPT ![e] = EndDispatch(PopIncoming(@), "spent")]
  /\ told' = [told EXCEPT ![e] = @ + 1]
  /\ UNCHANGED <<sock, got>>

DispatchDone(e) ==
  /\ Dispatching(e)
  /\ ch[e].incomingAsync = <<>>
  /\ ch' = [ch EXCEPT ![e] = EndDispatch(@, "none")]
  /\ UNCHANGED <<sock, got, told>>

\* The listener returns from onMessageReceived for an asynchronous message.
AsyncHandlerReturn(e) ==
  /\ Runs(e, "async")
  /\ ch' = [ch EXCEPT ![e] = Pop(@)]
  /\ UNCHANGED <<sock, got, told>>

\* The reply handleIncomingSyncMessage sends: the handler's, or an error.
ReplyTo(c, m) ==
  [kind |-> IF c.replyForIncoming THEN "reply" ELSE "error", id |-> m.id]

\* Faulty variant: the process stops before it flushes the reply.
SyncHandlerStops(e) ==
  /\ Runs(e, "sync")
  /\ LET m == Head(ch[e].stack).msg
         c == [Pop(ch[e]) EXCEPT !.outgoing = Append(@, ReplyTo(ch[e], m)),
                                 !.replyForIncoming = FALSE]
     IN  IF m.kind = "suspend"
         THEN Take(e, [ch |-> [c EXCEPT !.proc = "stopped"], sent |-> <<>>])
         ELSE \E o \in Flush(e, c) : Take(e, o)
  /\ UNCHANGED <<got, told>>

\* kill(getpid(), SIGSTOP) after a suspend request m.
StopFor(m, c) ==
  IF m.kind = "suspend" /\ c.proc = "run" THEN [c EXCEPT !.proc = "stopped"]
                                          ELSE c

\* The rest of handleIncomingSyncMessage.  The process of a suspend request
\* stops itself, whether or not the reply could be written.
SyncHandlerReturn(e) ==
  /\ Runs(e, "sync")
  /\ LET m == Head(ch[e].stack).msg
         c == [Pop(ch[e]) EXCEPT !.outgoing = Append(@, ReplyTo(ch[e], m)),
                                 !.replyForIncoming = FALSE]
     IN  \E o \in Flush(e, c) : Take(e, [o EXCEPT !.ch = StopFor(m, @)])
  /\ UNCHANGED <<got, told>>

\* Faulty variant: the timeout of a call that was answered stays attached.
ForgetTimeout(c) == [c EXCEPT !.nestedTimeoutSource = 0]

DestroyTimeout(c) == [c EXCEPT !.timers = @ \ {c.nestedTimeoutSource},
                               !.nestedTimeoutSource = 0]

\* g_main_loop_run returns: the rest of sendSyncMessage.
LeaveNestedLoop(c) ==
  [DestroyTimeout(Pop(c)) EXCEPT
     !.nestedSocketSource = "none",
     !.nestedMainLoop = "stopped",
     !.inNestedLoop = FALSE,
     !.currSyncMessageId = 0,
     !.currSyncReply = NoMsg,
     !.remoteIsSuspended = @ \/ Head(c.stack).msg.kind = "suspend"]

\* Faulty variant: messages queued in the nested loop are forgotten.
NothingBuffered(c) == c

\* Messages queued in the nested loop get an idle source.
ScheduleBuffered(c) ==
  IF c.incomingAsync = <<>> THEN c ELSE AttachDispatcher(c)

\* The main source loses its OUT watch, which may be stale, before the flush.
ResumeMainLoop(c) ==
  [ScheduleBuffered(c) EXCEPT !.blockedOnWrite = FALSE, !.socketSource = "in"]

CallReturn(e) ==
  /\ Runs(e, "call") /\ ch[e].nestedMainLoop # "running"
  /\ LET c == LeaveNestedLoop(ch[e])
     IN  \E o \in Flush(e, IF c.fd THEN ResumeMainLoop(c) ELSE c) : Take(e, o)
  /\ UNCHANGED <<got, told>>
-----------------------------------------------------------------------------
(***************************************************************************)
(* What happens to a process from outside.                                 *)
(***************************************************************************)
\* SIGCONT after the SIGSTOP of a suspend request.
Continue(e) ==
  /\ ch[e].proc = "stopped"
  /\ ch' = [ch EXCEPT ![e].proc = "run"]
  /\ UNCHANGED <<sock, got, told>>

\* The process exits, is killed, or its application deletes the channel.
Exit(e) ==
  /\ e \in Failing
  /\ ch[e].proc \notin {"crashed", "exited"}
  /\ ch' = [ch EXCEPT ![e] = Ended("exited")]
  /\ UNCHANGED <<sock, got, told>>
-----------------------------------------------------------------------------
\* What the main thread does without the application deciding to.
MainThread(e) ==
  \/ AsyncCallerDispatch(e)
  \/ SocketHup(e) \/ SocketOut(e) \/ SocketIn(e) \/ Idle(e)
  \/ ReadMessage(e) \/ ReadNothing(e) \/ ReadEndOfStream(e) \/ ReadClosed(e)
  \/ DispatchMessage(e) \/ DispatchDisconnect(e) \/ DispatchDone(e)
  \/ AsyncHandlerReturn(e) \/ SyncHandlerReturn(e)
  \/ CallReturn(e)

TimerExpires(e) == \E t \in ch[e].timers : Timeout(e, t)

Application(e) ==
  \/ \E k \in AsyncKinds : SendAsync(e, k)
  \/ QueueAsyncMessage(e)
  \/ \E k \in SyncKinds, timed \in Timed : SendSync(e, k, timed)
  \/ SendReply(e)
  \/ ClearRemoteIsSuspended(e)

Outside(e) == Continue(e) \/ Exit(e)

Next == \E e \in Ends :
  MainThread(e) \/ TimerExpires(e) \/ Application(e) \/ Outside(e)

Spec == Init /\ [][Next]_vars

(***************************************************************************)
(* Each main thread is scheduled, its handlers return, its poll reports    *)
(* what is ready and its timers expire.  Nothing makes an application      *)
(* send, nor anyone exit or send SIGCONT.                                  *)
(***************************************************************************)
Fairness == \A e \in Ends : WF_vars(MainThread(e)) /\ WF_vars(TimerExpires(e))

FairSpec == Spec /\ Fairness
=============================================================================
