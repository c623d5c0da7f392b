-------------------------- MODULE ChannelProperties --------------------------
(***************************************************************************)
(* What makes the channels correct.                                        *)
(***************************************************************************)
EXTENDS Channel

\* Every variable has its type.
TypeOK ==
  /\ ch \in [Ends -> Channels]
  /\ sock \in [Ends -> Seq(Messages)]
  /\ got \in [Ends -> Seq(Messages)]
  /\ told \in [Ends -> Nat]

\* Whenever a main thread polls with output left, the source over the socket
\* that this poll watches, and not the one of the other context, watches for
\* OUT: a message that met a full socket is never forgotten, however calls
\* move the channel between the main loop and the nested one.
OutputWatched ==
  \A e \in Ends :
    InPoll(ch[e]) /\ ch[e].fd /\ ch[e].outgoing # <<>>
      => WatchedSource(ch[e]) = "inout"

\* Whenever the main loop polls with asynchronous messages that came in during
\* a nested loop, the idle source that dispatches them is attached.
DispatcherScheduled ==
  \A e \in Ends :
    InPoll(ch[e]) /\ At(ch[e]) = "loop" /\ ch[e].fd
    /\ ch[e].incomingAsync # <<>> => ch[e].dispatcherSrc = "attached"

\* A process that stops itself for a suspend request leaves output behind, the
\* reply among it, only if the channel waits for OUT, and that for one of two
\* reasons: the flush of the reply has just filled the socket, or the channel met
\* a full socket before and has not seen OUT since.  In the second case it does
\* not try again, and the socket may have room when the process stops.
StopsOnlyWhenBlocked ==
  [][\A e \in Ends :
       ch[e].proc = "run" /\ ch'[e].proc = "stopped"
       /\ ch'[e].fd /\ ch'[e].outgoing # <<>>
         => /\ ch'[e].blockedOnWrite
            /\ ch[e].blockedOnWrite \/ Len(sock'[Peer(e)]) >= SockCap]_vars

\* From the moment the channel closes its socket, in whatever callback, until
\* the listener is told, the disconnect message is next and is scheduled.
DisconnectScheduled ==
  \A e \in Ends :
    ch[e].proc = "run" /\ ~ch[e].fd /\ told[e] = 0
      => /\ ch[e].incomingAsync # <<>> /\ Head(ch[e].incomingAsync) = Gone
         /\ ch[e].dispatcherSrc = "attached"

\* The calls of an end that its main thread is in.
CallFrames(c) == {i \in DOMAIN c.stack : c.stack[i].at = "call"}

\* How often a message of one of the kinds with this id is in a queue.
Count(s, kinds, i) ==
  Cardinality({j \in DOMAIN s : s[j].kind \in kinds /\ s[j].id = i})

\* Requests of end e with id i, and answers to them, on their way.
RequestOrAnswer(e, i) ==
  LET p == Peer(e)
  IN  Count(ch[e].outgoing, SyncKinds, i) + Count(sock[p], SyncKinds, i)
      + Cardinality({j \in DOMAIN ch[p].stack : /\ ch[p].stack[j].at = "sync"
                                               /\ ch[p].stack[j].msg.id = i})
      + Count(ch[p].outgoing, ReplyKinds, i) + Count(sock[e], ReplyKinds, i)

\* While a call waits on a live connection, its request or the answer to it is
\* in exactly one place, so the call can still be answered: never lost when a
\* socket is full, when both ends call each other or when an earlier call of
\* the same end timed out, and never handled twice.
NoOrphanCall ==
  \A e \in Ends :
    At(ch[e]) = "call" /\ ch[e].nestedMainLoop = "running"
    /\ ch[e].fd /\ ch[Peer(e)].fd
      => RequestOrAnswer(e, Head(ch[e].stack).msg.id) = 1

\* The reply a call is about to return is the reply to that call, and not the
\* late answer to one that timed out.
OwnReply ==
  \A e \in Ends :
    ch[e].currSyncReply # NoMsg =>
      \E i \in CallFrames(ch[e]) :
        /\ ch[e].currSyncReply.id = ch[e].stack[i].msg.id
        /\ \A j \in CallFrames(ch[e]) : j >= i

\* A call returns only with a reply, after its timeout, or because the
\* connection is gone.
ReturnsForAReason ==
  \A e \in Ends :
    Runs(e, "call") /\ ch[e].nestedMainLoop # "running"
      => \/ ch[e].currSyncReply # NoMsg
         \/ ch[e].syncCallTimedOut
         \/ ~ch[e].fd

\* A timeout is attached to the nested context only while its call waits: none
\* is left to cut a later call short.
NoStaleTimer ==
  \A e \in Ends : \A t \in ch[e].timers :
    \E i \in CallFrames(ch[e]) : ch[e].stack[i].msg.id = t

\* While the channel is in nested mode, no asynchronous message reaches the
\* listener above the innermost call: a receiver that is blocked on a synchronous
\* message buffers the others.  (When a call that a handler made inside another
\* one has returned, the mode is over although the outer call is still on the
\* stack, and messages are dispatched again.)
BufferedWhileBlocked ==
  \A e \in Ends :
    ch[e].inNestedLoop =>
      \E i \in CallFrames(ch[e]) : \A j \in 1 .. i - 1 : ch[e].stack[j].at # "async"

(***************************************************************************)
(* The channels implement the abstract link.                               *)
(***************************************************************************)
\* The asynchronous messages of a queue, in order.
Async(s) ==
  LET kept[n \in 0 .. Len(s)] ==
        IF n = 0 THEN <<>>
        ELSE kept[n - 1] \o
               (IF s[n].kind \in AsyncKinds THEN <<s[n]>> ELSE <<>>)
  IN  kept[Len(s)]

InTransit(e) ==
  IF ~ch[e].fd THEN <<>>
  ELSE Async(ch[e].incomingAsync) \o Async(sock[e])
       \o (IF ch[Peer(e)].fd THEN Async(ch[Peer(e)].outgoing) ELSE <<>>)

Link == INSTANCE AsyncLink WITH
          End1 <- Client, End2 <- Server,
          queue <- [e \in Ends |-> InTransit(e)],
          got <- got,
          up <- [e \in Ends |-> ch[e].fd]

\* Asynchronous messages, from whatever thread and around whatever calls, are
\* delivered in order, at most once, and none after a disconnection.
ImplementsLink == Link!Spec

(***************************************************************************)
(* Progress.                                                               *)
(***************************************************************************)
\* A call that waits returns, also when both ends wait for each other; one that
\* was given no timeout may wait for a peer that stopped itself.
CallsReturn ==
  \A e \in Ends :
    At(ch[e]) = "call" ~>
      \/ At(ch[e]) # "call" \/ ch[e].proc # "run"
      \/ ch[Peer(e)].proc = "stopped" /\ ch[e].timers = {}

\* An asynchronous message accepted by a live channel is delivered, unless an
\* end goes down or stops running.
Delivered ==
  \A e \in Ends : \A i \in 1 .. Quota[Peer(e)] :
    (\E j \in DOMAIN InTransit(e) : InTransit(e)[j].id = i)
      ~> \/ \E j \in DOMAIN got[e] : got[e][j].id = i
         \/ \E f \in Ends : ~ch[f].fd \/ ch[f].proc # "run"

\* A main thread whose channel lost its socket comes to tell the listener.
Announced ==
  \A e \in Ends :
    ~ch[e].fd ~> (told[e] > 0 \/ ch[e].proc # "run")
-----------------------------------------------------------------------------
(***************************************************************************)
(* What the source's comments say and the code does not do: Spec has       *)
(* behaviours that violate them.                                           *)
(***************************************************************************)
\* A full socket is an ordinary event for processOneOutgoingMessage (its "EAGAIN
\* scenario"): the rest is written later, and the process goes on.
FullSocketIsSurvived == \A e \in Ends : ch[e].proc # "crashed"

\* "Setting this flag causes the receiver to be unblocked and the message to be
\* dispatched immediately" (set_unblock): a receiver that waits in a call holds
\* back no message with the flag.
UnblockIsImmediate ==
  \A e \in Ends :
    At(ch[e]) = "call" /\ ch[e].nestedMainLoop = "running"
      => \A i \in DOMAIN ch[e].incomingAsync : ch[e].incomingAsync[i].kind # "unblock"
-----------------------------------------------------------------------------
(***************************************************************************)
(* Why the three properties about what is scheduled hold: an invariant of  *)
(* each channel c whose listener was told n times, at every point of its   *)
(* code and not only in a poll.                                            *)
(***************************************************************************)
HasFrame(c, ats) == \E i \in DOMAIN c.stack : c.stack[i].at \in ats

\* The channel is in nested mode only inside a call, and the nested loop runs
\* only in nested mode and on a live connection.
NestedModeOK(c) ==
  /\ c.nestedMainLoop # "stopped" => c.inNestedLoop /\ c.fd
  /\ c.inNestedLoop => HasFrame(c, {"call"})

\* A channel that met a full socket watches for OUT in the mode it is in.
WatchOK(c) ==
  c.fd /\ c.blockedOnWrite =>
    IF c.inNestedLoop THEN c.nestedSocketSource = "inout"
                      ELSE c.socketSource = "inout"

\* Output is left only by a full socket.
FlushedOK(c) == c.fd /\ c.outgoing # <<>> => c.blockedOnWrite

\* Incoming messages are being dispatched or will be: by a loop on the stack, at
\* the return of a call, or by the idle source.
IncomingOK(c) ==
  c.fd => /\ c.dispatcherSrc # "spent"
          /\ \A i \in DOMAIN c.incomingAsync : c.incomingAsync[i] # Gone
          /\ c.incomingAsync # <<>> =>
                \/ c.dispatcherSrc = "attached"
                \/ c.inNestedLoop
                \/ HasFrame(c, {"dispatch", "idle"})

\* The news of the disconnection comes before anything else.
AnnounceOK(c, n) ==
  c.proc \notin {"crashed", "exited"} /\ ~c.fd /\ n = 0 =>
    /\ c.incomingAsync # <<>> /\ Head(c.incomingAsync) = Gone
    /\ c.dispatcherSrc = "attached"

ChannelOK(c, n) ==
  NestedModeOK(c) /\ WatchOK(c) /\ FlushedOK(c) /\ IncomingOK(c)
  /\ AnnounceOK(c, n)

\* Output, incoming messages and the news of a disconnection are each someone's
\* task at every point of the code: what makes OutputWatched,
\* DispatcherScheduled and DisconnectScheduled inductive.
Scheduled == \A e \in Ends : ChannelOK(ch[e], told[e])
=============================================================================
