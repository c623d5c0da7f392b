---------------------------- MODULE ChannelProofs ----------------------------
(***************************************************************************)
(* Theorems about Channel, for any quota, socket capacity and depth of     *)
(* calls.                                                                  *)
(***************************************************************************)
EXTENDS ChannelProperties, SequenceTheorems, TLAPS

LEMMA MessageTypes ==
  /\ NoMsg \notin Messages /\ Gone \notin Messages
  /\ \A m \in Messages : m.id \in Nat /\ m # Gone /\ m # NoMsg
  /\ NoMsg.id \in Nat
BY DEF NoMsg, Gone, Messages, AsyncKinds, SyncKinds, ReplyKinds

LEMMA PeerType == \A e \in Ends : Peer(e) \in Ends /\ Peer(e) # e
BY EndsAssumption DEF Ends, Peer

-----------------------------------------------------------------------------
(***************************************************************************)
(* The methods return channels.                                            *)
(***************************************************************************)
LEMMA PushType ==
  ASSUME NEW c \in Channels, NEW m \in Messages \cup {NoMsg},
         NEW at \in {"read", "dispatch", "idle", "async", "sync", "call"}
  PROVE  Push(c, at, m) \in Channels
<1>1. [at |-> at, msg |-> m] \in Frames
  BY DEF Frames
<1>2. <<[at |-> at, msg |-> m]>> \o c.stack \in Seq(Frames)
  BY <1>1 DEF Channels
<1>3. QED
  BY <1>2 DEF Push, Channels

LEMMA PopType ==
  ASSUME NEW c \in Channels, c.stack # <<>>
  PROVE  Pop(c) \in Channels
<1>1. Tail(c.stack) \in Seq(Frames)
  BY DEF Channels
<1>2. QED
  BY <1>1 DEF Pop, Channels

LEMMA AttachDispatcherType ==
  ASSUME NEW c \in Channels
  PROVE  AttachDispatcher(c) \in Channels
BY DEF AttachDispatcher, Channels

LEMMA DisconnectedType ==
  ASSUME NEW c \in Channels
  PROVE  Disconnected(c) \in Channels
<1> DEFINE c1 == [c EXCEPT !.fd = FALSE, !.socketSource = "none"]
           c2 == QuitNestedLoop(c1)
           c3 == PushFrontGone(c2)
<1>1. c1 \in Channels
  BY DEF Channels, Watch
<1>2. c2 \in Channels
  BY <1>1 DEF QuitNestedLoop, Channels
<1> HIDE DEF c1, c2
<1>3. <<Gone>> \o c2.incomingAsync \in Seq(Messages \cup {Gone})
  BY <1>2 DEF Channels
<1>4. c3 \in Channels
  BY <1>2, <1>3 DEF PushFrontGone, Channels
<1>5. QED
  BY <1>4, AttachDispatcherType DEF Disconnected, c1, c2

LEMMA NewChannelType == NewChannel \in Channels
<1>1. <<>> \in Seq(Messages) /\ <<>> \in Seq(Frames)
      /\ <<>> \in Seq(Messages \cup {Gone})
  OBVIOUS
<1>2. QED
  BY <1>1 DEF NewChannel, Channels, Watch

LEMMA EndedType ==
  ASSUME NEW how \in {"crashed", "exited"}
  PROVE  Ended(how) \in Channels /\ ~Ended(how).fd
<1> DEFINE c == NewChannel
<1>1. c \in Channels
  BY NewChannelType
<1> HIDE DEF c
<1>2. LET d == [c EXCEPT !.proc = how, !.fd = FALSE, !.socketSource = "none"]
      IN  d \in Channels /\ ~d.fd
  BY <1>1 DEF Channels, Watch
<1>3. QED
  BY <1>2 DEF Ended, c

LEMMA WouldBlockType ==
  ASSUME NEW c \in Channels
  PROVE  WouldBlock(c) \in Channels
<1>1. [c EXCEPT !.blockedOnWrite = TRUE, !.nestedSocketSource = "inout"]
        \in Channels
  BY DEF Channels, Watch
<1>2. [c EXCEPT !.blockedOnWrite = TRUE, !.socketSource = "inout"] \in Channels
  BY DEF Channels, Watch
<1>3. QED
  BY <1>1, <1>2, EndedType DEF WouldBlock

Outcomes == [ch : Channels, sent : Seq(Messages)]

LEMMA WriteMessagesType ==
  ASSUME NEW c \in Channels, NEW n \in 0 .. Len(c.outgoing)
  PROVE  WriteMessages(c, n) \in Outcomes
<1> DEFINE rest == SubSeq(c.outgoing, n + 1, Len(c.outgoing))
           d == [c EXCEPT !.outgoing = rest]
<1>1. c.outgoing \in Seq(Messages)
  BY DEF Channels
<1>2. rest \in Seq(Messages) /\ SubSeq(c.outgoing, 1, n) \in Seq(Messages)
  BY <1>1, SubSeqProperties
<1>3. d \in Channels
  BY <1>2 DEF Channels
<1>4. WouldBlock(d) \in Channels
  BY <1>3, WouldBlockType
<1>5. QED
  BY <1>2, <1>3, <1>4 DEF WriteMessages, Outcomes

LEMMA FlushType ==
  ASSUME NEW c \in Channels, NEW e, NEW o \in Flush(e, c)
  PROVE  o \in Outcomes
<1> DEFINE other == ch[Peer(e)]
           room == Room(Peer(e))
<1>1. CASE o = [ch |-> c, sent |-> <<>>]
  BY <1>1 DEF Outcomes
<1>2. CASE o = [ch |-> Disconnected(c), sent |-> <<>>]
  BY <1>2, DisconnectedType DEF Outcomes
<1>3. ASSUME NEW n \in Accepted(Len(c.outgoing), room, other.proc = "run"),
             o = WriteMessages(c, n)
      PROVE  o \in Outcomes
  BY <1>3, WriteMessagesType DEF Accepted
<1>4. QED
  BY <1>1, <1>2, <1>3 DEF Flush, ProcessOutgoing

LEMMA EnqueueType ==
  ASSUME NEW c \in Channels, NEW k \in AsyncKinds \cup SyncKinds
  PROVE  Enqueue(c, k) \in Channels /\ NewMessage(c, k) \in Messages
<1>1. NewMessage(c, k) \in Messages
  BY DEF NewMessage, Messages, Channels
<1>2. Append(c.outgoing, NewMessage(c, k)) \in Seq(Messages)
  BY <1>1 DEF Channels
<1>3. c.nextId + 1 \in Nat
  BY DEF Channels
<1>4. Enqueue(c, k) \in Channels
  BY <1>2, <1>3 DEF Enqueue, Channels
<1>5. QED
  BY <1>1, <1>4

LEMMA HandleIncomingType ==
  ASSUME NEW c \in Channels, NEW m \in Messages
  PROVE  /\ HandleIncomingMessageInNestedMode(c, m) \in Channels
         /\ HandleIncomingMessageInNormalMode(c, m) \in Channels
<1>1. [c EXCEPT !.replyForIncoming = FALSE] \in Channels
  BY DEF Channels
<1>2. HandleIncomingSyncMessage(c, m) \in Channels
  BY <1>1, PushType DEF HandleIncomingSyncMessage
<1>3. [c EXCEPT !.currSyncReply = m, !.nestedMainLoop = "stopped"] \in Channels
  BY DEF Channels
<1>4. Append(c.incomingAsync, m) \in Seq(Messages \cup {Gone})
  BY DEF Channels
<1>5. QueueIncoming(c, m) \in Channels
  BY <1>4 DEF QueueIncoming, Channels
<1>6. Push(QueueIncoming(c, m), "dispatch", NoMsg) \in Channels
  BY <1>5, PushType
<1>7. QED
  BY <1>2, <1>3, <1>5, <1>6 DEF HandleIncomingMessageInNestedMode,
                               HandleIncomingMessageInNormalMode, TakeReply

LEMMA StartNestedLoopType ==
  ASSUME NEW c \in Channels, NEW m \in Messages, NEW timed \in BOOLEAN
  PROVE  StartNestedLoop(c, m, timed) \in Channels
<1> DEFINE id == IF timed THEN m.id ELSE c.nestedTimeoutSource
           attached == IF timed THEN c.timers \cup {m.id} ELSE c.timers
<1>1. id \in Nat /\ attached \in SUBSET Nat
  BY MessageTypes DEF Channels
<1> HIDE DEF id, attached
<1>2. [c EXCEPT !.syncCallTimedOut = FALSE,
                !.nestedTimeoutSource = id,
                !.timers = attached,
                !.nestedSocketSource =
                   IF c.blockedOnWrite THEN "inout" ELSE "in",
                !.nestedMainLoop = "running"] \in Channels
  BY <1>1 DEF Channels, Watch
<1>3. QED
  BY <1>2 DEF StartNestedLoop, id, attached

LEMMA EnterNestedLoopType ==
  ASSUME NEW c \in Channels, NEW m \in Messages, NEW timed \in BOOLEAN
  PROVE  EnterNestedLoop(c, m, timed) \in Channels
<1>1. AbandonCall(c, m) \in Channels
  BY DEF AbandonCall, Channels
<1>2. QED
  BY <1>1, StartNestedLoopType, PushType DEF EnterNestedLoop

LEMMA DestroyTimeoutType ==
  ASSUME NEW c \in Channels
  PROVE  DestroyTimeout(c) \in Channels
BY DEF DestroyTimeout, Channels

LEMMA NestedLoopTimeoutType ==
  ASSUME NEW c \in Channels, NEW t
  PROVE  NestedLoopTimeout(c, t) \in Channels
BY DEF NestedLoopTimeout, Channels

LEMMA LeaveNestedLoopType ==
  ASSUME NEW c \in Channels, c.stack # <<>>
  PROVE  LeaveNestedLoop(c) \in Channels
<1> DEFINE d == DestroyTimeout(Pop(c))
<1>1. d \in Channels
  BY PopType, DestroyTimeoutType
<1> HIDE DEF d
<1>2. \A suspended \in BOOLEAN :
        [d EXCEPT !.nestedSocketSource = "none",
                  !.nestedMainLoop = "stopped",
                  !.inNestedLoop = FALSE,
                  !.currSyncMessageId = 0,
                  !.currSyncReply = NoMsg,
                  !.remoteIsSuspended = suspended] \in Channels
  BY <1>1 DEF Channels, Watch
<1>3. (d.remoteIsSuspended \/ Head(c.stack).msg.kind = "suspend") \in BOOLEAN
  OBVIOUS
<1>4. QED
  BY <1>2, <1>3, Zenon DEF LeaveNestedLoop, d

LEMMA ResumeMainLoopType ==
  ASSUME NEW c \in Channels
  PROVE  ResumeMainLoop(c) \in Channels
<1> DEFINE d == ScheduleBuffered(c)
<1>1. d \in Channels
  BY AttachDispatcherType DEF ScheduleBuffered
<1> HIDE DEF d
<1>2. [d EXCEPT !.blockedOnWrite = FALSE, !.socketSource = "in"] \in Channels
  BY <1>1 DEF Channels, Watch
<1>3. QED
  BY <1>2 DEF ResumeMainLoop, d

LEMMA LastSourceOfPassType ==
  ASSUME NEW c \in Channels
  PROVE  LastSourceOfPass(c) \in Channels
BY DEF LastSourceOfPass, Channels

LEMMA DrainOtherThreadType ==
  ASSUME NEW c \in Channels
  PROVE  DrainOtherThread(c) \in Channels
<1>1. c.outgoing \o c.otherThread \in Seq(Messages) /\ <<>> \in Seq(Messages)
  BY DEF Channels
<1>2. QED
  BY <1>1 DEF DrainOtherThread, Channels

LEMMA StopForType ==
  ASSUME NEW c \in Channels, NEW m
  PROVE  StopFor(m, c) \in Channels
<1>1. [c EXCEPT !.proc = "stopped"] \in Channels
  BY DEF Channels
<1>2. QED
  BY <1>1 DEF StopFor

LEMMA PopIncomingType ==
  ASSUME NEW c \in Channels, c.incomingAsync # <<>>
  PROVE  PopIncoming(c) \in Channels /\ PopIncoming(c).stack = c.stack
<1>1. Tail(c.incomingAsync) \in Seq(Messages \cup {Gone})
  BY DEF Channels
<1>2. QED
  BY <1>1 DEF PopIncoming, Channels

LEMMA EndDispatchType ==
  ASSUME NEW c \in Channels, c.stack # <<>>,
         NEW src \in {"none", "spent"}
  PROVE  EndDispatch(c, src) \in Channels
<1> DEFINE d == Pop(c)
<1>1. d \in Channels
  BY PopType
<1> HIDE DEF d
<1>2. \A x \in {"none", "attached", "spent"} :
        [d EXCEPT !.dispatcherSrc = x] \in Channels
  BY <1>1 DEF Channels
<1>3. (IF At(c) = "idle" THEN src ELSE d.dispatcherSrc)
        \in {"none", "attached", "spent"}
  BY <1>1 DEF Channels
<1>4. QED
  BY <1>2, <1>3, Zenon DEF EndDispatch, d
-----------------------------------------------------------------------------
(***************************************************************************)
(* Type correctness.                                                       *)
(***************************************************************************)
LEMMA StackType ==
  ASSUME NEW c \in Channels, c.stack # <<>>
  PROVE  Head(c.stack).msg \in Messages \cup {NoMsg}
<1>1. Head(c.stack) \in Frames
  BY DEF Channels
<1>2. QED
  BY <1>1 DEF Frames

\* An action that gives the link an outcome of the right type.
LEMMA TakeType ==
  ASSUME TypeOK, NEW e \in Ends, NEW o \in Outcomes, Take(e, o),
         UNCHANGED <<got, told>>
  PROVE  TypeOK'
<1>1. Peer(e) \in Ends
  BY PeerType
<1>2. sock[Peer(e)] \o o.sent \in Seq(Messages)
  BY <1>1 DEF TypeOK, Outcomes
<1>3. ch' \in [Ends -> Channels] /\ sock' \in [Ends -> Seq(Messages)]
  BY <1>1, <1>2 DEF Take, TypeOK, Outcomes
<1>4. QED
  BY <1>3 DEF TypeOK

\* An action that flushes a channel.
LEMMA FlushStepType ==
  ASSUME TypeOK, NEW e \in Ends, NEW c \in Channels,
         \E o \in Flush(e, c) : Take(e, o),
         UNCHANGED <<got, told>>
  PROVE  TypeOK'
BY FlushType, TakeType

\* An action that only changes the channel.
LEMMA ChannelStepType ==
  ASSUME TypeOK, NEW e \in Ends, NEW c \in Channels,
         ch' = [ch EXCEPT ![e] = c],
         UNCHANGED <<sock, got, told>>
  PROVE  TypeOK'
BY DEF TypeOK

LEMMA TypeInit == Init => TypeOK
<1>1. <<>> \in Seq(Messages)
  OBVIOUS
<1>2. QED
  BY <1>1, NewChannelType DEF Init, TypeOK

LEMMA TypeNext == TypeOK /\ [Next]_vars => TypeOK'
<1> SUFFICES ASSUME TypeOK, [Next]_vars
             PROVE  TypeOK'
  OBVIOUS
<1>0. CASE UNCHANGED vars
  BY <1>0 DEF vars, TypeOK
<1> SUFFICES ASSUME NEW e \in Ends,
                    \/ MainThread(e) \/ TimerExpires(e)
                    \/ Application(e) \/ Outside(e)
             PROVE  TypeOK'
  BY <1>0 DEF Next
<1> DEFINE c == ch[e]
<1>c. c \in Channels
  BY DEF TypeOK
<1>s. sock[e] \in Seq(Messages) /\ got[e] \in Seq(Messages) /\ told[e] \in Nat
  BY DEF TypeOK
<1> HIDE DEF c
<1>1. ASSUME NEW k \in AsyncKinds, SendAsync(e, k) PROVE TypeOK'
  BY <1>1, <1>c, EnqueueType, FlushStepType DEF SendAsync, c
<1>2. CASE QueueAsyncMessage(e)
  <2>1. NewMessage(c, "thread") \in Messages
    BY <1>c, EnqueueType DEF AsyncKinds
  <2>2. Append(c.otherThread, NewMessage(c, "thread")) \in Seq(Messages)
        /\ c.nextId + 1 \in Nat
    BY <1>c, <2>1 DEF Channels
  <2>3. [c EXCEPT !.otherThread = Append(@, NewMessage(c, "thread")),
                  !.nextId = @ + 1] \in Channels
    BY <1>c, <2>2 DEF Channels
  <2>4. QED
    BY <1>2, <2>3 DEF QueueAsyncMessage, TypeOK, c
<1>3. ASSUME NEW k \in SyncKinds, NEW timed \in Timed, SendSync(e, k, timed)
      PROVE  TypeOK'
  <2> DEFINE m == NewMessage(c, k)
             q == Enqueue(c, k)
             d == [q EXCEPT !.inNestedLoop = TRUE,
                            !.currSyncMessageId = m.id,
                            !.currSyncReply = NoMsg]
  <2>1. m \in Messages /\ q \in Channels /\ timed \in BOOLEAN
    BY <1>c, EnqueueType, BoundsAssumption
  <2>2. m.id \in Nat
    BY <2>1, MessageTypes
  <2>3. PICK o \in Flush(e, d) :
               Take(e, [o EXCEPT !.ch = EnterNestedLoop(@, m, timed)])
    BY <1>3 DEF SendSync, c
  <2> HIDE DEF m, q
  <2>4. d \in Channels
    BY <2>1, <2>2 DEF Channels
  <2>5. o \in Outcomes
    BY <2>4, FlushType
  <2>6. EnterNestedLoop(o.ch, m, timed) \in Channels
    BY <2>1, <2>5, EnterNestedLoopType DEF Outcomes
  <2>7. [o EXCEPT !.ch = EnterNestedLoop(@, m, timed)] \in Outcomes
    BY <2>5, <2>6 DEF Outcomes
  <2>8. QED
    BY <1>3, <2>3, <2>7, TakeType DEF SendSync
<1>4. CASE SendReply(e)
  <2>1. [c EXCEPT !.replyForIncoming = TRUE] \in Channels
    BY <1>c DEF Channels
  <2>2. QED
    BY <1>4, <2>1, ChannelStepType DEF SendReply, c
<1>5. CASE ClearRemoteIsSuspended(e)
  <2>1. [c EXCEPT !.remoteIsSuspended = FALSE] \in Channels
    BY <1>c DEF Channels
  <2>2. QED
    BY <1>5, <2>1, ChannelStepType DEF ClearRemoteIsSuspended, c
<1>6. CASE AsyncCallerDispatch(e)
  BY <1>6, <1>c, DrainOtherThreadType, FlushStepType DEF AsyncCallerDispatch, c
<1>7. CASE SocketHup(e)
  BY <1>7, <1>c, LastSourceOfPassType, DisconnectedType, ChannelStepType
     DEF SocketHup, c
<1>8. CASE SocketOut(e)
  <2> DEFINE d == LastSourceOfPass(c)
  <2>1. d \in Channels
    BY <1>c, LastSourceOfPassType
  <2> HIDE DEF d
  <2> DEFINE f == [d EXCEPT !.blockedOnWrite = FALSE]
             g == IF At(f) = "loop" THEN [f EXCEPT !.socketSource = "in"]
                                    ELSE [f EXCEPT !.nestedSocketSource = "in"]
  <2>2. f \in Channels
    BY <2>1 DEF Channels
  <2> HIDE DEF f
  <2>3. g \in Channels
    BY <2>2 DEF Channels, Watch
  <2>4. \E o \in Flush(e, g) : Take(e, o)
    BY <1>8 DEF SocketOut, c, d, f
  <2> HIDE DEF g
  <2>5. QED
    BY <1>8, <2>3, <2>4, FlushStepType DEF SocketOut
<1>9. CASE SocketIn(e)
  BY <1>9, <1>c, LastSourceOfPassType, PushType, ChannelStepType
     DEF SocketIn, c
<1>10. CASE Idle(e)
  BY <1>10, <1>c, PushType, ChannelStepType DEF Idle, c
<1>11. ASSUME NEW t, Timeout(e, t) PROVE TypeOK'
  BY <1>11, <1>c, NestedLoopTimeoutType, ChannelStepType DEF Timeout, c
<1>12. CASE ReadMessage(e)
  <2>1. Head(sock[e]) \in Messages /\ Tail(sock[e]) \in Seq(Messages)
    BY <1>12, <1>s DEF ReadMessage
  <2>2. PICK d \in Channels : ch' = [ch EXCEPT ![e] = d]
    BY <1>12, <1>c, <2>1, HandleIncomingType DEF ReadMessage, c
  <2>3. QED
    BY <1>12, <2>1, <2>2 DEF ReadMessage, TypeOK
<1>13. CASE ReadNothing(e)
  BY <1>13, <1>c, PopType, ChannelStepType DEF ReadNothing, Runs, At, c
<1>14. CASE ReadEndOfStream(e)
  <2>1. c.stack # <<>>
    BY <1>14 DEF ReadEndOfStream, Runs, At, c
  <2>2. Pop(c) \in Channels /\ Disconnected(Pop(c)) \in Channels
    BY <1>c, <2>1, PopType, DisconnectedType
  <2>3. [c EXCEPT !.proc = "spinning"] \in Channels
    BY <1>c DEF Channels
  <2>4. QED
    BY <1>14, <2>2, <2>3, ChannelStepType DEF ReadEndOfStream, c
<1>15. CASE ReadClosed(e)
  <2>1. c.stack # <<>>
    BY <1>15 DEF ReadClosed, Runs, At, c
  <2>2. Disconnected(Pop(c)) \in Channels
    BY <1>c, <2>1, PopType, DisconnectedType
  <2>3. QED
    BY <1>15, <2>2, ChannelStepType DEF ReadClosed, c
<1>16. CASE DispatchMessage(e)
  <2> DEFINE m == Head(c.incomingAsync)
  <2>1. c.incomingAsync # <<>> /\ m # Gone
    BY <1>16 DEF DispatchMessage, c
  <2>2. m \in Messages
    BY <1>c, <2>1 DEF Channels
  <2>3. Push(PopIncoming(c), "async", m) \in Channels
    BY <1>c, <2>1, <2>2, PopIncomingType, PushType
  <2> HIDE DEF m
  <2>4. ch' = [ch EXCEPT ![e] = Push(PopIncoming(c), "async", m)]
        /\ got' = [got EXCEPT ![e] = Append(@, m)]
    BY <1>16 DEF DispatchMessage, c, m
  <2>5. Append(got[e], m) \in Seq(Messages)
    BY <1>s, <2>2
  <2>6. QED
    BY <1>16, <2>3, <2>4, <2>5 DEF DispatchMessage, TypeOK
<1>17. CASE DispatchDisconnect(e)
  <2>1. c.stack # <<>> /\ c.incomingAsync # <<>>
    BY <1>17 DEF DispatchDisconnect, Dispatching, Runs, At, c
  <2>2. EndDispatch(PopIncoming(c), "spent") \in Channels
    BY <1>c, <2>1, PopIncomingType, EndDispatchType
  <2>3. ch' = [ch EXCEPT ![e] = EndDispatch(PopIncoming(c), "spent")]
        /\ told' = [told EXCEPT ![e] = @ + 1]
    BY <1>17 DEF DispatchDisconnect, c
  <2>4. QED
    BY <1>17, <1>s, <2>2, <2>3 DEF DispatchDisconnect, TypeOK
<1>18. CASE DispatchDone(e)
  <2>1. c.stack # <<>>
    BY <1>18 DEF DispatchDone, Dispatching, Runs, At, c
  <2>2. EndDispatch(c, "none") \in Channels
    BY <1>c, <2>1, EndDispatchType
  <2>3. QED
    BY <1>18, <2>2, ChannelStepType DEF DispatchDone, c
<1>19. CASE AsyncHandlerReturn(e)
  BY <1>19, <1>c, PopType, ChannelStepType DEF AsyncHandlerReturn, Runs, At, c
<1>20. CASE SyncHandlerReturn(e)
  <2> DEFINE m == Head(c.stack).msg
             d == Pop(c)
             r == ReplyTo(c, m)
             f == [d EXCEPT !.outgoing = Append(@, r),
                            !.replyForIncoming = FALSE]
  <2>1. c.stack # <<>>
    BY <1>20 DEF SyncHandlerReturn, Runs, At, c
  <2>2. d \in Channels /\ m \in Messages \cup {NoMsg}
    BY <1>c, <2>1, PopType, StackType
  <2>3. r \in Messages
    BY <2>2, MessageTypes DEF ReplyTo, Messages, ReplyKinds
  <2>4. PICK o \in Flush(e, f) : Take(e, [o EXCEPT !.ch = StopFor(m, @)])
    BY <1>20 DEF SyncHandlerReturn, c
  <2> HIDE DEF m, d, r
  <2>5. Append(d.outgoing, r) \in Seq(Messages)
    BY <2>2, <2>3 DEF Channels
  <2>6. f \in Channels
    BY <2>2, <2>5 DEF Channels
  <2>7. o \in Outcomes
    BY <2>6, FlushType
  <2>8. [o EXCEPT !.ch = StopFor(m, @)] \in Outcomes
    BY <2>7, StopForType DEF Outcomes
  <2>9. QED
    BY <1>20, <2>4, <2>8, TakeType DEF SyncHandlerReturn
<1>21. CASE CallReturn(e)
  <2> DEFINE d == LeaveNestedLoop(c)
             f == IF d.fd THEN ResumeMainLoop(d) ELSE d
  <2>1. c.stack # <<>>
    BY <1>21 DEF CallReturn, Runs, At, c
  <2>2. d \in Channels
    BY <1>c, <2>1, LeaveNestedLoopType
  <2>3. f \in Channels
    BY <2>2, ResumeMainLoopType
  <2>4. QED
    BY <1>21, <2>3, FlushStepType DEF CallReturn, c
<1>22. CASE Continue(e)
  <2>1. [c EXCEPT !.proc = "run"] \in Channels
    BY <1>c DEF Channels
  <2>2. QED
    BY <1>22, <2>1, ChannelStepType DEF Continue, c
<1>23. CASE Exit(e)
  BY <1>23, EndedType, ChannelStepType DEF Exit
<1>24. QED
  BY <1>1, <1>2, <1>3, <1>4, <1>5, <1>6, <1>7, <1>8, <1>9, <1>10, <1>11, <1>12,
     <1>13, <1>14, <1>15, <1>16, <1>17, <1>18, <1>19, <1>20, <1>21, <1>22, <1>23
     DEF MainThread, TimerExpires, Application, Outside

\* Every reachable state of Channel has the types the code's declarations give
\* its fields, whatever the quotas, the socket's capacity and the depth.
THEOREM TypeCorrect == Spec => []TypeOK
BY TypeInit, TypeNext, PTL DEF Spec
-----------------------------------------------------------------------------
(***************************************************************************)
(* Scheduled is inductive.  RestOK is what a flush does not touch.         *)
(***************************************************************************)
RestOK(c, n) == NestedModeOK(c) /\ IncomingOK(c) /\ AnnounceOK(c, n)

\* c and d agree on every field RestOK reads.
SameRest(c, d) ==
  /\ d.proc = c.proc /\ d.fd = c.fd /\ d.stack = c.stack
  /\ d.inNestedLoop = c.inNestedLoop /\ d.nestedMainLoop = c.nestedMainLoop
  /\ d.incomingAsync = c.incomingAsync /\ d.dispatcherSrc = c.dispatcherSrc

LEMMA SameRestOK ==
  ASSUME NEW c, NEW d, NEW n, SameRest(c, d), RestOK(c, n)
  PROVE  RestOK(d, n)
BY DEF SameRest, RestOK, NestedModeOK, IncomingOK, AnnounceOK, HasFrame

\* Frames below the top one stay when a frame is pushed or popped.
LEMMA PushFrames ==
  ASSUME NEW c \in Channels, NEW at, NEW m, NEW ats
  PROVE  /\ HasFrame(c, ats) => HasFrame(Push(c, at, m), ats)
         /\ at \in ats => HasFrame(Push(c, at, m), ats)
<1> DEFINE f == [at |-> at, msg |-> m]
           s == <<f>> \o c.stack
<1>1. Push(c, at, m).stack = s
  BY DEF Push, Channels
<1>2. c.stack \in Seq(Frames)
  BY DEF Channels
<1>3. \A i \in DOMAIN c.stack : i + 1 \in DOMAIN s /\ s[i + 1] = c.stack[i]
  BY <1>2
<1>4. 1 \in DOMAIN s /\ s[1].at = at
  BY <1>2
<1> HIDE DEF s
<1>5. QED
  BY <1>1, <1>3, <1>4 DEF HasFrame

LEMMA PopFrames ==
  ASSUME NEW c \in Channels, c.stack # <<>>, NEW ats, At(c) \notin ats,
         HasFrame(c, ats)
  PROVE  HasFrame(Pop(c), ats)
<1>1. c.stack \in Seq(Frames)
  BY DEF Channels
<1>2. Pop(c).stack = Tail(c.stack)
  BY DEF Pop, Channels
<1>3. PICK i \in DOMAIN c.stack : c.stack[i].at \in ats
  BY DEF HasFrame
<1>4. i # 1
  BY <1>1, <1>3 DEF At
<1>5. i - 1 \in DOMAIN Tail(c.stack) /\ Tail(c.stack)[i - 1] = c.stack[i]
  BY <1>1, <1>4
<1>6. QED
  BY <1>2, <1>3, <1>5 DEF HasFrame

LEMMA PushFields ==
  ASSUME NEW c \in Channels, NEW at, NEW m
  PROVE  LET d == Push(c, at, m)
         IN  /\ d.proc = c.proc /\ d.fd = c.fd
             /\ d.inNestedLoop = c.inNestedLoop
             /\ d.nestedMainLoop = c.nestedMainLoop
             /\ d.incomingAsync = c.incomingAsync
             /\ d.dispatcherSrc = c.dispatcherSrc
             /\ d.outgoing = c.outgoing /\ d.blockedOnWrite = c.blockedOnWrite
             /\ d.socketSource = c.socketSource
             /\ d.nestedSocketSource = c.nestedSocketSource
BY DEF Push, Channels

LEMMA PopFields ==
  ASSUME NEW c \in Channels
  PROVE  LET d == Pop(c)
         IN  /\ d.proc = c.proc /\ d.fd = c.fd
             /\ d.inNestedLoop = c.inNestedLoop
             /\ d.nestedMainLoop = c.nestedMainLoop
             /\ d.incomingAsync = c.incomingAsync
             /\ d.dispatcherSrc = c.dispatcherSrc
             /\ d.outgoing = c.outgoing /\ d.blockedOnWrite = c.blockedOnWrite
             /\ d.socketSource = c.socketSource
             /\ d.nestedSocketSource = c.nestedSocketSource
BY DEF Pop, Channels

LEMMA PushRestOK ==
  ASSUME NEW c \in Channels, NEW at, NEW m, NEW n, RestOK(c, n)
  PROVE  RestOK(Push(c, at, m), n)
BY PushFields, PushFrames DEF RestOK, NestedModeOK, IncomingOK, AnnounceOK

LEMMA PopRestOK ==
  ASSUME NEW c \in Channels, NEW n, c.stack # <<>>, RestOK(c, n),
         At(c) \in {"read", "async", "sync"}
  PROVE  RestOK(Pop(c), n)
BY PopFields, PopFrames DEF RestOK, NestedModeOK, IncomingOK, AnnounceOK

Alive(c) == c.proc \notin {"crashed", "exited"}

\* Disconnecting keeps the promises, and moves the channel to the third of them.
LEMMA DisconnectedEffect ==
  ASSUME NEW c \in Channels, NEW n, Alive(c), IncomingOK(c), AnnounceOK(c, n),
         c.nestedMainLoop # "stopped" => c.inNestedLoop
  PROVE  LET d == Disconnected(c)
         IN  /\ IncomingOK(d) /\ AnnounceOK(d, n) /\ ~d.fd
             /\ d.nestedMainLoop = "stopped"
             /\ d.stack = c.stack /\ d.inNestedLoop = c.inNestedLoop
<1> DEFINE d == Disconnected(c)
<1>1. c.dispatcherSrc = "spent" => n # 0
  BY DEF Alive, IncomingOK, AnnounceOK
<1>2. /\ d.fd = FALSE
      /\ d.stack = c.stack /\ d.inNestedLoop = c.inNestedLoop
      /\ d.nestedMainLoop = IF c.inNestedLoop THEN "stopped"
                                              ELSE c.nestedMainLoop
      /\ d.incomingAsync = <<Gone>> \o c.incomingAsync
      /\ d.dispatcherSrc = IF c.dispatcherSrc = "none" THEN "attached"
                                                      ELSE c.dispatcherSrc
  BY DEF Disconnected, AttachDispatcher, PushFrontGone, QuitNestedLoop, Channels
<1>3. d.incomingAsync # <<>> /\ Head(d.incomingAsync) = Gone
  BY <1>2 DEF Channels
<1>4. n = 0 => d.dispatcherSrc = "attached"
  BY <1>1, <1>2 DEF Channels
<1> HIDE DEF d
<1>5. QED
  BY <1>2, <1>3, <1>4 DEF IncomingOK, AnnounceOK, d

LEMMA DisconnectedOK ==
  ASSUME NEW c \in Channels, NEW n, RestOK(c, n), Alive(c)
  PROVE  ChannelOK(Disconnected(c), n)
BY DisconnectedEffect
   DEF RestOK, NestedModeOK, HasFrame, ChannelOK, WatchOK, FlushedOK

LEMMA EndedOK ==
  ASSUME NEW how \in {"crashed", "exited"}, NEW n
  PROVE  ChannelOK(Ended(how), n)
<1> DEFINE d == Ended(how)
<1>1. /\ d.proc = how /\ d.fd = FALSE /\ d.inNestedLoop = FALSE
      /\ d.nestedMainLoop = "stopped"
  BY DEF Ended, NewChannel
<1> HIDE DEF d
<1>2. QED
  BY <1>1 DEF ChannelOK, NestedModeOK, WatchOK, FlushedOK, IncomingOK,
              AnnounceOK, d

\* A flush that does not end the connection leaves output only behind a full
\* socket, and then watches for OUT.
FlushKeeps(c, d) ==
  SameRest(c, d) /\ FlushedOK(d) /\ (WatchOK(c) => WatchOK(d))

LEMMA WriteMessagesCases ==
  ASSUME NEW c \in Channels, NEW n \in 0 .. Len(c.outgoing)
  PROVE  \/ WriteMessages(c, n).ch = Ended("crashed")
         \/ FlushKeeps(c, WriteMessages(c, n).ch)
<1> DEFINE rest == SubSeq(c.outgoing, n + 1, Len(c.outgoing))
           d == [c EXCEPT !.outgoing = rest]
           w == WouldBlock(d)
<1>1. c.outgoing \in Seq(Messages)
  BY DEF Channels
<1>2. rest \in Seq(Messages) /\ (n = Len(c.outgoing) => rest = <<>>)
  BY <1>1, SubSeqProperties
<1> HIDE DEF rest
<1>3. /\ d \in Channels /\ SameRest(c, d) /\ d.outgoing = rest
      /\ d.blockedOnWrite = c.blockedOnWrite
      /\ d.socketSource = c.socketSource
      /\ d.nestedSocketSource = c.nestedSocketSource
  BY <1>2 DEF Channels, SameRest
<1> HIDE DEF d
<1>4. CASE n = Len(c.outgoing)
  <2>1. WriteMessages(c, n).ch = d
    BY <1>1, <1>4 DEF WriteMessages, d, rest
  <2>2. QED
    BY <1>2, <1>3, <1>4, <2>1 DEF FlushKeeps, FlushedOK, WatchOK, SameRest
<1>5. CASE n # Len(c.outgoing) /\ w # Ended("crashed")
  <2>1. /\ SameRest(d, w) /\ w.blockedOnWrite
        /\ d.inNestedLoop => w.nestedSocketSource = "inout"
        /\ ~d.inNestedLoop => w.socketSource = "inout"
    BY <1>3, <1>5 DEF WouldBlock, Channels, SameRest
  <2>2. WriteMessages(c, n).ch = w
    BY <1>1, <1>5 DEF WriteMessages, d, rest
  <2> HIDE DEF w
  <2>3. QED
    BY <1>3, <2>1, <2>2 DEF FlushKeeps, FlushedOK, WatchOK, SameRest
<1>6. CASE n # Len(c.outgoing) /\ w = Ended("crashed")
  BY <1>1, <1>6 DEF WriteMessages, d, rest
<1>7. QED
  BY <1>4, <1>5, <1>6

LEMMA FlushCases ==
  ASSUME NEW c \in Channels, NEW e, NEW o \in Flush(e, c)
  PROVE  \/ o.ch = Disconnected(c) /\ c.fd
         \/ o.ch = Ended("crashed")
         \/ FlushKeeps(c, o.ch)
<1> DEFINE other == ch[Peer(e)]
           room == Room(Peer(e))
<1>1. CASE /\ ~c.fd \/ c.blockedOnWrite \/ c.outgoing = <<>>
           /\ o = [ch |-> c, sent |-> <<>>]
  BY <1>1 DEF FlushKeeps, SameRest, FlushedOK
<1>2. CASE c.fd /\ o = [ch |-> Disconnected(c), sent |-> <<>>]
  BY <1>2
<1>3. ASSUME NEW n \in Accepted(Len(c.outgoing), room, other.proc = "run"),
             o = WriteMessages(c, n)
      PROVE  o.ch = Ended("crashed") \/ FlushKeeps(c, o.ch)
  BY <1>3, WriteMessagesCases DEF Accepted
<1>4. QED
  BY <1>1, <1>2, <1>3 DEF Flush, ProcessOutgoing

LEMMA FlushOK ==
  ASSUME NEW c \in Channels, NEW n, RestOK(c, n), WatchOK(c), Alive(c),
         NEW e, NEW o \in Flush(e, c)
  PROVE  ChannelOK(o.ch, n)
<1>1. CASE o.ch = Disconnected(c)
  BY <1>1, DisconnectedOK
<1>2. CASE o.ch = Ended("crashed")
  BY <1>2, EndedOK
<1>3. CASE FlushKeeps(c, o.ch)
  BY <1>3, SameRestOK DEF FlushKeeps, ChannelOK, RestOK
<1>4. QED
  BY <1>1, <1>2, <1>3, FlushCases

\* Entering and leaving the nested loop.
LEMMA EnterNestedLoopOK ==
  ASSUME NEW c \in Channels, NEW m \in Messages, NEW timed \in BOOLEAN, NEW n,
         IncomingOK(c), AnnounceOK(c, n), FlushedOK(c),
         c.fd => c.inNestedLoop, ~c.fd => c.nestedMainLoop = "stopped"
  PROVE  ChannelOK(EnterNestedLoop(c, m, timed), n)
<1> DEFINE x == EnterNestedLoop(c, m, timed)
<1>1. CASE c.fd
  <2> DEFINE d == StartNestedLoop(c, m, timed)
  <2>1. d \in Channels
    BY StartNestedLoopType
  <2>2. /\ d.proc = c.proc /\ d.fd = c.fd
        /\ d.inNestedLoop = c.inNestedLoop /\ d.incomingAsync = c.incomingAsync
        /\ d.dispatcherSrc = c.dispatcherSrc /\ d.outgoing = c.outgoing
        /\ d.blockedOnWrite = c.blockedOnWrite
        /\ d.blockedOnWrite => d.nestedSocketSource = "inout"
    BY DEF StartNestedLoop, Channels
  <2>3. x = Push(d, "call", m)
    BY <1>1 DEF EnterNestedLoop
  <2> HIDE DEF d, x
  <2>4. HasFrame(x, {"call"})
    BY <2>1, <2>3, PushFrames
  <2>5. /\ x.proc = d.proc /\ x.fd = d.fd /\ x.inNestedLoop = d.inNestedLoop
        /\ x.incomingAsync = d.incomingAsync
        /\ x.dispatcherSrc = d.dispatcherSrc /\ x.outgoing = d.outgoing
        /\ x.blockedOnWrite = d.blockedOnWrite
        /\ x.nestedSocketSource = d.nestedSocketSource
    BY <2>1, <2>3, PushFields
  <2>6. c.inNestedLoop
    BY <1>1
  <2>7. NestedModeOK(x) /\ WatchOK(x) /\ FlushedOK(x)
    BY <1>1, <2>2, <2>4, <2>5, <2>6 DEF NestedModeOK, WatchOK, FlushedOK
  <2>8. IncomingOK(x) /\ AnnounceOK(x, n)
    BY <1>1, <2>2, <2>5, <2>6 DEF IncomingOK, AnnounceOK
  <2>9. QED
    BY <2>7, <2>8 DEF ChannelOK, x
<1>2. CASE ~c.fd
  <2>1. /\ x.proc = c.proc /\ x.fd = c.fd /\ x.inNestedLoop = FALSE
        /\ x.nestedMainLoop = c.nestedMainLoop
        /\ x.incomingAsync = c.incomingAsync /\ x.dispatcherSrc = c.dispatcherSrc
    BY <1>2 DEF EnterNestedLoop, AbandonCall, Channels
  <2> HIDE DEF x
  <2>2. ChannelOK(x, n)
    BY <1>2, <2>1 DEF ChannelOK, NestedModeOK, WatchOK, FlushedOK, IncomingOK,
                      AnnounceOK
  <2>3. QED
    BY <2>2 DEF x
<1>3. QED
  BY <1>1, <1>2

LEMMA LeaveNestedLoopEffect ==
  ASSUME NEW c \in Channels
  PROVE  LET d == LeaveNestedLoop(c)
         IN  /\ d.proc = c.proc /\ d.fd = c.fd /\ d.inNestedLoop = FALSE
             /\ d.nestedMainLoop = "stopped"
             /\ d.incomingAsync = c.incomingAsync
             /\ d.dispatcherSrc = c.dispatcherSrc
BY DEF LeaveNestedLoop, DestroyTimeout, Pop, Channels

LEMMA ResumeMainLoopEffect ==
  ASSUME NEW c \in Channels
  PROVE  LET d == ResumeMainLoop(c)
         IN  /\ d.proc = c.proc /\ d.fd = c.fd /\ ~d.blockedOnWrite
             /\ d.inNestedLoop = c.inNestedLoop
             /\ d.nestedMainLoop = c.nestedMainLoop
             /\ d.incomingAsync = c.incomingAsync
             /\ c.incomingAsync # <<>> /\ c.dispatcherSrc # "spent"
                  => d.dispatcherSrc = "attached"
             /\ c.dispatcherSrc # "spent" => d.dispatcherSrc # "spent"
BY DEF ResumeMainLoop, ScheduleBuffered, AttachDispatcher, Channels

SameWatch(c, d) ==
  /\ d.blockedOnWrite = c.blockedOnWrite
  /\ d.socketSource = c.socketSource
  /\ d.nestedSocketSource = c.nestedSocketSource

LEMMA SameWatchOK ==
  ASSUME NEW c, NEW d, SameRest(c, d), SameWatch(c, d), WatchOK(c)
  PROVE  WatchOK(d)
BY DEF SameRest, SameWatch, WatchOK

\* A step that touches nothing of the invariant, or only adds output and then
\* flushes.
LEMMA UntouchedOK ==
  ASSUME NEW c, NEW d, NEW n, ChannelOK(c, n), SameRest(c, d), SameWatch(c, d),
         d.outgoing = c.outgoing
  PROVE  ChannelOK(d, n)
<1>1. RestOK(d, n)
  BY SameRestOK DEF ChannelOK, RestOK
<1>2. WatchOK(d)
  BY SameWatchOK DEF ChannelOK
<1>3. FlushedOK(d)
  BY DEF ChannelOK, FlushedOK, SameRest, SameWatch
<1>4. QED
  BY <1>1, <1>2, <1>3 DEF ChannelOK, RestOK

LEMMA AddedOutputOK ==
  ASSUME NEW c, NEW d \in Channels, NEW n, ChannelOK(c, n), Alive(c),
         SameRest(c, d), SameWatch(c, d), NEW e, NEW o \in Flush(e, d)
  PROVE  ChannelOK(o.ch, n)
<1>1. RestOK(d, n) /\ WatchOK(d)
  BY SameRestOK, SameWatchOK DEF ChannelOK, RestOK
<1>2. Alive(d)
  BY DEF Alive, SameRest
<1>3. QED
  BY <1>1, <1>2, FlushOK

LEMMA PushOK ==
  ASSUME NEW c \in Channels, NEW at, NEW m, NEW n, ChannelOK(c, n)
  PROVE  ChannelOK(Push(c, at, m), n)
<1> DEFINE d == Push(c, at, m)
<1>1. RestOK(d, n)
  BY PushRestOK DEF ChannelOK, RestOK
<1>2. d.fd = c.fd /\ d.inNestedLoop = c.inNestedLoop /\ d.outgoing = c.outgoing
      /\ SameWatch(c, d)
  BY PushFields DEF SameWatch
<1> HIDE DEF d
<1>3. WatchOK(d) /\ FlushedOK(d)
  BY <1>2 DEF ChannelOK, WatchOK, FlushedOK, SameWatch
<1>4. QED
  BY <1>1, <1>3 DEF ChannelOK, RestOK, d

LEMMA PopOK ==
  ASSUME NEW c \in Channels, NEW n, ChannelOK(c, n), c.stack # <<>>,
         At(c) \in {"read", "async", "sync"}
  PROVE  ChannelOK(Pop(c), n)
<1> DEFINE d == Pop(c)
<1>1. RestOK(d, n)
  BY PopRestOK DEF ChannelOK, RestOK
<1>2. d.fd = c.fd /\ d.inNestedLoop = c.inNestedLoop /\ d.outgoing = c.outgoing
      /\ SameWatch(c, d)
  BY PopFields DEF SameWatch
<1> HIDE DEF d
<1>3. WatchOK(d) /\ FlushedOK(d)
  BY <1>2 DEF ChannelOK, WatchOK, FlushedOK, SameWatch
<1>4. QED
  BY <1>1, <1>3 DEF ChannelOK, RestOK, d

LEMMA LastSourceOfPassOK ==
  ASSUME NEW c \in Channels, NEW n, ChannelOK(c, n)
  PROVE  /\ ChannelOK(LastSourceOfPass(c), n)
         /\ LastSourceOfPass(c).proc = c.proc
<1> DEFINE d == LastSourceOfPass(c)
<1>1. /\ d.proc = c.proc /\ d.fd = c.fd /\ d.stack = c.stack
      /\ d.inNestedLoop = c.inNestedLoop
      /\ d.nestedMainLoop # "stopped" => c.nestedMainLoop # "stopped"
      /\ d.incomingAsync = c.incomingAsync /\ d.dispatcherSrc = c.dispatcherSrc
      /\ d.outgoing = c.outgoing /\ SameWatch(c, d)
  BY DEF LastSourceOfPass, Channels, SameWatch
<1> HIDE DEF d
<1>2. NestedModeOK(d) /\ WatchOK(d) /\ FlushedOK(d)
  BY <1>1 DEF ChannelOK, NestedModeOK, WatchOK, FlushedOK, HasFrame, SameWatch
<1>3. IncomingOK(d) /\ AnnounceOK(d, n)
  BY <1>1 DEF ChannelOK, IncomingOK, AnnounceOK, HasFrame
<1>4. QED
  BY <1>1, <1>2, <1>3 DEF ChannelOK, d

\* A message that was read is queued; in normal mode a dispatch loop follows.
LEMMA HandleIncomingOK ==
  ASSUME NEW c \in Channels, NEW m \in Messages, NEW n, ChannelOK(c, n), c.fd
  PROVE  IF c.inNestedLoop
         THEN ChannelOK(HandleIncomingMessageInNestedMode(c, m), n)
         ELSE ChannelOK(HandleIncomingMessageInNormalMode(c, m), n)
<1> DEFINE q == QueueIncoming(c, m)
           r == [c EXCEPT !.currSyncReply = m, !.nestedMainLoop = "stopped"]
           b == [c EXCEPT !.replyForIncoming = FALSE]
<1>1. c.incomingAsync \in Seq(Messages \cup {Gone})
  BY DEF Channels
<1>2. /\ q \in Channels /\ SameWatch(c, q) /\ q.outgoing = c.outgoing
      /\ q.proc = c.proc /\ q.fd = c.fd /\ q.stack = c.stack
      /\ q.inNestedLoop = c.inNestedLoop /\ q.nestedMainLoop = c.nestedMainLoop
      /\ q.incomingAsync = Append(c.incomingAsync, m)
      /\ q.dispatcherSrc = c.dispatcherSrc
  <2>1. Append(c.incomingAsync, m) \in Seq(Messages \cup {Gone})
    BY <1>1
  <2>2. QED
    BY <2>1 DEF QueueIncoming, Channels, SameWatch
<1>3. \A i \in DOMAIN q.incomingAsync : q.incomingAsync[i] # Gone
  <2>1. \A i \in DOMAIN c.incomingAsync : c.incomingAsync[i] # Gone
    BY DEF ChannelOK, IncomingOK
  <2>2. m # Gone
    BY MessageTypes
  <2>3. QED
    BY <1>1, <1>2, <2>1, <2>2
<1>4. /\ SameWatch(c, r) /\ r.outgoing = c.outgoing
      /\ r.proc = c.proc /\ r.fd = c.fd /\ r.stack = c.stack
      /\ r.inNestedLoop = c.inNestedLoop /\ r.nestedMainLoop = "stopped"
      /\ r.incomingAsync = c.incomingAsync /\ r.dispatcherSrc = c.dispatcherSrc
  BY DEF Channels, SameWatch
<1>5. ChannelOK(HandleIncomingSyncMessage(c, m), n)
  <2>1. b \in Channels /\ SameRest(c, b) /\ SameWatch(c, b)
        /\ b.outgoing = c.outgoing
    BY DEF Channels, SameRest, SameWatch
  <2> HIDE DEF b
  <2>2. ChannelOK(b, n)
    BY <2>1, UntouchedOK
  <2>3. QED
    BY <2>1, <2>2, PushOK DEF HandleIncomingSyncMessage, b
<1> HIDE DEF q, r
<1>6. ChannelOK(TakeReply(c, m), n)
  <2>1. NestedModeOK(r) /\ WatchOK(r) /\ FlushedOK(r)
    BY <1>4 DEF ChannelOK, NestedModeOK, WatchOK, FlushedOK, HasFrame, SameWatch
  <2>2. IncomingOK(r) /\ AnnounceOK(r, n)
    BY <1>4 DEF ChannelOK, IncomingOK, AnnounceOK, HasFrame
  <2>3. QED
    BY <2>1, <2>2 DEF TakeReply, ChannelOK, r
<1>7. NestedModeOK(q) /\ WatchOK(q) /\ FlushedOK(q) /\ AnnounceOK(q, n)
  BY <1>2 DEF ChannelOK, NestedModeOK, WatchOK, FlushedOK, AnnounceOK, HasFrame,
              SameWatch
<1>8. CASE c.inNestedLoop
  <2>1. IncomingOK(q)
    BY <1>2, <1>3, <1>8 DEF ChannelOK, IncomingOK
  <2>2. ChannelOK(q, n)
    BY <1>7, <2>1 DEF ChannelOK
  <2>3. QED
    BY <1>5, <1>6, <1>8, <2>2 DEF HandleIncomingMessageInNestedMode, q
<1>9. CASE ~c.inNestedLoop
  <2> DEFINE d == Push(q, "dispatch", NoMsg)
  <2>1. HasFrame(d, {"dispatch", "idle"})
    BY <1>2, PushFrames
  <2>2. /\ d.proc = q.proc /\ d.fd = q.fd /\ d.inNestedLoop = q.inNestedLoop
        /\ d.nestedMainLoop = q.nestedMainLoop
        /\ d.incomingAsync = q.incomingAsync /\ d.dispatcherSrc = q.dispatcherSrc
        /\ d.outgoing = q.outgoing /\ SameWatch(q, d)
    BY <1>2, PushFields DEF SameWatch
  <2> HIDE DEF d
  <2>3. IncomingOK(d)
    BY <1>2, <1>3, <2>1, <2>2 DEF ChannelOK, IncomingOK
  <2>4. NestedModeOK(d) /\ WatchOK(d) /\ FlushedOK(d) /\ AnnounceOK(d, n)
    BY <1>2, <1>7, <1>9, <2>2
       DEF NestedModeOK, WatchOK, FlushedOK, AnnounceOK, SameWatch
  <2>5. ChannelOK(d, n)
    BY <2>3, <2>4 DEF ChannelOK
  <2>6. QED
    BY <1>5, <1>9, <2>5 DEF HandleIncomingMessageInNormalMode, q, d
<1>10. QED
  BY <1>8, <1>9

\* The dispatch loops.
LEMMA PopIncomingFields ==
  ASSUME NEW c \in Channels
  PROVE  LET d == PopIncoming(c)
         IN  /\ d.proc = c.proc /\ d.fd = c.fd /\ d.stack = c.stack
             /\ d.inNestedLoop = c.inNestedLoop
             /\ d.nestedMainLoop = c.nestedMainLoop
             /\ d.incomingAsync = Tail(c.incomingAsync)
             /\ d.dispatcherSrc = c.dispatcherSrc
             /\ d.outgoing = c.outgoing /\ SameWatch(c, d)
BY DEF PopIncoming, Channels, SameWatch

LEMMA DispatchMessageOK ==
  ASSUME NEW c \in Channels, NEW n, ChannelOK(c, n), Alive(c),
         At(c) \in {"dispatch", "idle"},
         c.incomingAsync # <<>>, Head(c.incomingAsync) # Gone
  PROVE  ChannelOK(Push(PopIncoming(c), "async", Head(c.incomingAsync)), n)
<1> DEFINE d == PopIncoming(c)
<1>1. d \in Channels
  BY PopIncomingType
<1>2. c.incomingAsync \in Seq(Messages \cup {Gone}) /\ c.stack \in Seq(Frames)
  BY DEF Channels
<1>3. c.stack # <<>> /\ HasFrame(c, {"dispatch", "idle"})
  BY <1>2 DEF At, HasFrame
<1>4. c.fd => \A i \in DOMAIN Tail(c.incomingAsync) :
                Tail(c.incomingAsync)[i] # Gone
  BY <1>2 DEF ChannelOK, IncomingOK
<1>5. c.fd \/ n # 0
  BY DEF ChannelOK, AnnounceOK, Alive
<1> HIDE DEF d
<1>6. IncomingOK(d) /\ AnnounceOK(d, n)
  BY <1>3, <1>4, <1>5, PopIncomingFields
     DEF ChannelOK, IncomingOK, AnnounceOK, HasFrame, d
<1>7. NestedModeOK(d) /\ WatchOK(d) /\ FlushedOK(d)
  BY PopIncomingFields
     DEF ChannelOK, NestedModeOK, WatchOK, FlushedOK, HasFrame, SameWatch, d
<1>8. ChannelOK(d, n)
  BY <1>6, <1>7 DEF ChannelOK
<1>9. QED
  BY <1>1, <1>8, PushOK DEF d

LEMMA EndDispatchFields ==
  ASSUME NEW c \in Channels, c.stack # <<>>, At(c) \in {"dispatch", "idle"},
         NEW src
  PROVE  LET d == EndDispatch(c, src)
         IN  /\ d.proc = c.proc /\ d.fd = c.fd
             /\ HasFrame(c, {"call"}) => HasFrame(d, {"call"})
             /\ d.inNestedLoop = c.inNestedLoop
             /\ d.nestedMainLoop = c.nestedMainLoop
             /\ d.incomingAsync = c.incomingAsync
             /\ d.dispatcherSrc = IF At(c) = "idle" THEN src ELSE c.dispatcherSrc
             /\ d.outgoing = c.outgoing /\ SameWatch(c, d)
<1> DEFINE d == EndDispatch(c, src)
<1>1. d.stack = Pop(c).stack
  BY DEF EndDispatch, Pop, Channels
<1>2. HasFrame(c, {"call"}) => HasFrame(d, {"call"})
  BY <1>1, PopFrames DEF HasFrame
<1>3. QED
  BY <1>2 DEF EndDispatch, Pop, Channels, SameWatch

LEMMA DispatchDisconnectOK ==
  ASSUME NEW c \in Channels, NEW n \in Nat, ChannelOK(c, n),
         At(c) \in {"dispatch", "idle"},
         c.incomingAsync # <<>>, Head(c.incomingAsync) = Gone
  PROVE  ChannelOK(EndDispatch(PopIncoming(c), "spent"), n + 1)
<1> DEFINE d == PopIncoming(c)
           x == EndDispatch(d, "spent")
<1>1. d \in Channels /\ d.stack = c.stack
  BY PopIncomingType
<1>2. ~c.fd
  <2>1. 1 \in DOMAIN c.incomingAsync /\ c.incomingAsync[1] = Gone
    BY DEF Channels
  <2>2. QED
    BY <2>1 DEF ChannelOK, IncomingOK
<1>3. d.stack # <<>> /\ At(d) \in {"dispatch", "idle"}
  BY <1>1 DEF At
<1> HIDE DEF d
<1>4. ~x.fd /\ (x.inNestedLoop => HasFrame(x, {"call"}))
      /\ x.nestedMainLoop = "stopped"
  BY <1>1, <1>2, <1>3, EndDispatchFields, PopIncomingFields
     DEF ChannelOK, NestedModeOK, HasFrame, d
<1> HIDE DEF x
<1>5. ChannelOK(x, n + 1)
  BY <1>4 DEF ChannelOK, NestedModeOK, WatchOK, FlushedOK, IncomingOK, AnnounceOK
<1>6. QED
  BY <1>5 DEF x, d

LEMMA DispatchDoneOK ==
  ASSUME NEW c \in Channels, NEW n, ChannelOK(c, n), Alive(c),
         At(c) \in {"dispatch", "idle"}, c.incomingAsync = <<>>
  PROVE  ChannelOK(EndDispatch(c, "none"), n)
<1> DEFINE x == EndDispatch(c, "none")
<1>1. c.stack # <<>>
  BY DEF At
<1>2. c.fd \/ n # 0
  BY DEF ChannelOK, AnnounceOK, Alive
<1>3. /\ x.proc = c.proc /\ x.fd = c.fd
      /\ HasFrame(c, {"call"}) => HasFrame(x, {"call"})
      /\ x.inNestedLoop = c.inNestedLoop
      /\ x.nestedMainLoop = c.nestedMainLoop
      /\ x.incomingAsync = c.incomingAsync
      /\ x.dispatcherSrc = "spent" => c.dispatcherSrc = "spent"
      /\ x.outgoing = c.outgoing /\ SameWatch(c, x)
  BY <1>1, EndDispatchFields
<1> HIDE DEF x
<1>4. NestedModeOK(x) /\ WatchOK(x) /\ FlushedOK(x)
  BY <1>3 DEF ChannelOK, NestedModeOK, WatchOK, FlushedOK, SameWatch
<1>5. IncomingOK(x) /\ AnnounceOK(x, n)
  BY <1>2, <1>3 DEF ChannelOK, IncomingOK, AnnounceOK
<1>6. QED
  BY <1>4, <1>5 DEF ChannelOK, x

\* The return of a call, before and with its flush.
LEMMA CallReturnOK ==
  ASSUME NEW c \in Channels, NEW n, c.stack # <<>>, ChannelOK(c, n), Alive(c),
         NEW e,
         NEW o \in Flush(e, IF LeaveNestedLoop(c).fd
                            THEN ResumeMainLoop(LeaveNestedLoop(c))
                            ELSE LeaveNestedLoop(c))
  PROVE  ChannelOK(o.ch, n)
<1> DEFINE d == LeaveNestedLoop(c)
           f == ResumeMainLoop(d)
<1>1. d \in Channels
  BY LeaveNestedLoopType
<1>2. /\ d.proc = c.proc /\ d.fd = c.fd /\ ~d.inNestedLoop
      /\ d.nestedMainLoop = "stopped" /\ d.incomingAsync = c.incomingAsync
      /\ d.dispatcherSrc = c.dispatcherSrc
  BY LeaveNestedLoopEffect
<1> HIDE DEF d
<1>3. CASE ~d.fd
  <2>1. RestOK(d, n) /\ WatchOK(d) /\ Alive(d)
    BY <1>2, <1>3 DEF ChannelOK, RestOK, NestedModeOK, WatchOK, IncomingOK,
                      AnnounceOK, Alive
  <2>2. QED
    BY <1>1, <1>3, <2>1, FlushOK DEF d
<1>4. CASE d.fd
  <2>1. f \in Channels
    BY <1>1, ResumeMainLoopType
  <2>2. /\ f.proc = d.proc /\ f.fd /\ ~f.blockedOnWrite /\ ~f.inNestedLoop
        /\ f.nestedMainLoop = "stopped" /\ f.incomingAsync = d.incomingAsync
        /\ d.dispatcherSrc # "spent"
        /\ f.incomingAsync # <<>> => f.dispatcherSrc = "attached"
        /\ f.dispatcherSrc # "spent"
    <3>1. d.dispatcherSrc # "spent"
      BY <1>2, <1>4 DEF ChannelOK, IncomingOK
    <3>2. QED
      BY <1>1, <1>2, <1>4, <3>1, ResumeMainLoopEffect
  <2> HIDE DEF f
  <2>3. \A i \in DOMAIN c.incomingAsync : c.incomingAsync[i] # Gone
    BY <1>2, <1>4 DEF ChannelOK, IncomingOK
  <2>4. RestOK(f, n) /\ WatchOK(f) /\ Alive(f)
    BY <1>2, <2>2, <2>3 DEF ChannelOK, RestOK, NestedModeOK, WatchOK, IncomingOK,
                      AnnounceOK, Alive
  <2>5. QED
    BY <1>4, <2>1, <2>4, FlushOK DEF d, f
<1>5. QED
  BY <1>3, <1>4

\* The other actions that change more than one field.
LEMMA SendSyncOK ==
  ASSUME NEW c \in Channels, NEW k \in AsyncKinds \cup SyncKinds,
         NEW timed \in BOOLEAN, NEW n, ChannelOK(c, n), Alive(c), NEW e,
         NEW o \in Flush(e, [Enqueue(c, k) EXCEPT
                               !.inNestedLoop = TRUE,
                               !.currSyncMessageId = NewMessage(c, k).id,
                               !.currSyncReply = NoMsg])
  PROVE  ChannelOK(EnterNestedLoop(o.ch, NewMessage(c, k), timed), n)
<1> DEFINE m == NewMessage(c, k)
           q == Enqueue(c, k)
           d == [q EXCEPT !.inNestedLoop = TRUE,
                          !.currSyncMessageId = m.id,
                          !.currSyncReply = NoMsg]
           x == o.ch
<1>1. m \in Messages /\ q \in Channels
  BY EnqueueType
<1>2. m.id \in Nat
  BY <1>1, MessageTypes
<1>3. SameRest(c, q)
  BY DEF Enqueue, Channels, SameRest
<1> HIDE DEF m, q
<1>4. d \in Channels
  BY <1>1, <1>2 DEF Channels
<1>5. /\ d.proc = c.proc /\ d.fd = c.fd /\ d.inNestedLoop
      /\ d.nestedMainLoop = c.nestedMainLoop
      /\ d.incomingAsync = c.incomingAsync /\ d.dispatcherSrc = c.dispatcherSrc
  BY <1>1, <1>3 DEF Channels, SameRest
<1>6. o \in Flush(e, d)
  BY DEF d, q, m
<1> HIDE DEF d
<1>7. IncomingOK(d) /\ AnnounceOK(d, n) /\ Alive(d)
      /\ (d.nestedMainLoop # "stopped" => d.fd)
  BY <1>5 DEF ChannelOK, NestedModeOK, IncomingOK, AnnounceOK, Alive
<1>8. x \in Channels
  BY <1>4, <1>6, FlushType DEF Outcomes
<1>9. /\ IncomingOK(x) /\ AnnounceOK(x, n) /\ FlushedOK(x)
      /\ x.fd => x.inNestedLoop
      /\ ~x.fd => x.nestedMainLoop = "stopped"
  <2>1. CASE x = Disconnected(d)
    <3>1. /\ IncomingOK(x) /\ AnnounceOK(x, n) /\ ~x.fd
          /\ x.nestedMainLoop = "stopped"
      BY <1>4, <1>5, <1>7, <2>1, DisconnectedEffect
    <3>2. QED
      BY <3>1 DEF FlushedOK
  <2>2. CASE x = Ended("crashed")
    <3>1. ~x.fd /\ x.nestedMainLoop = "stopped" /\ x.proc = "crashed"
      BY <2>2 DEF Ended, NewChannel
    <3>2. QED
      BY <3>1 DEF FlushedOK, IncomingOK, AnnounceOK
  <2>3. CASE FlushKeeps(d, x)
    BY <1>5, <1>7, <2>3
       DEF FlushKeeps, SameRest, IncomingOK, AnnounceOK, HasFrame
  <2>4. QED
    BY <1>4, <1>6, <2>1, <2>2, <2>3, FlushCases
<1> HIDE DEF x
<1>10. QED
  BY <1>1, <1>8, <1>9, EnterNestedLoopOK DEF m, x

LEMMA SocketOutOK ==
  ASSUME NEW d \in Channels, NEW n, RestOK(d, n), Alive(d), ~d.blockedOnWrite,
         NEW e,
         NEW o \in Flush(e, IF At(d) = "loop"
                            THEN [d EXCEPT !.socketSource = "in"]
                            ELSE [d EXCEPT !.nestedSocketSource = "in"])
  PROVE  ChannelOK(o.ch, n)
<1> DEFINE g == [d EXCEPT !.socketSource = "in"]
           h == [d EXCEPT !.nestedSocketSource = "in"]
           f == IF At(d) = "loop" THEN g ELSE h
<1>1. g \in Channels /\ h \in Channels
  BY DEF Channels, Watch
<1>2. SameRest(d, g) /\ ~g.blockedOnWrite
  BY DEF Channels, SameRest
<1>3. SameRest(d, h) /\ ~h.blockedOnWrite
  BY DEF Channels, SameRest
<1> HIDE DEF g, h
<1>4. f \in Channels /\ SameRest(d, f) /\ ~f.blockedOnWrite
  BY <1>1, <1>2, <1>3
<1>5. o \in Flush(e, f)
  BY DEF g, h
<1> HIDE DEF f
<1>6. RestOK(f, n) /\ WatchOK(f) /\ Alive(f)
  BY <1>4, SameRestOK DEF WatchOK, Alive, SameRest
<1>7. QED
  BY <1>4, <1>5, <1>6, FlushOK

LEMMA TimeoutOK ==
  ASSUME NEW c \in Channels, NEW t, NEW n, ChannelOK(c, n),
         c.nestedMainLoop # "stopped"
  PROVE  ChannelOK(NestedLoopTimeout(c, t), n)
<1> DEFINE d == NestedLoopTimeout(c, t)
<1>1. /\ d.proc = c.proc /\ d.fd = c.fd /\ d.stack = c.stack
      /\ d.inNestedLoop = c.inNestedLoop
      /\ d.incomingAsync = c.incomingAsync /\ d.dispatcherSrc = c.dispatcherSrc
      /\ d.outgoing = c.outgoing /\ SameWatch(c, d)
  BY DEF NestedLoopTimeout, Channels, SameWatch
<1> HIDE DEF d
<1>2. NestedModeOK(d) /\ WatchOK(d) /\ FlushedOK(d)
  BY <1>1 DEF ChannelOK, NestedModeOK, WatchOK, FlushedOK, HasFrame, SameWatch
<1>3. IncomingOK(d) /\ AnnounceOK(d, n)
  BY <1>1 DEF ChannelOK, IncomingOK, AnnounceOK, HasFrame
<1>4. QED
  BY <1>2, <1>3 DEF ChannelOK, d

\* Stopping, spinning and continuing a process that is neither gone.
LEMMA ProcOK ==
  ASSUME NEW c \in Channels, NEW p \in {"run", "stopped", "spinning"}, NEW n,
         ChannelOK(c, n), Alive(c)
  PROVE  ChannelOK([c EXCEPT !.proc = p], n)
<1> DEFINE d == [c EXCEPT !.proc = p]
<1>1. /\ d.fd = c.fd /\ d.stack = c.stack
      /\ d.inNestedLoop = c.inNestedLoop /\ d.nestedMainLoop = c.nestedMainLoop
      /\ d.incomingAsync = c.incomingAsync /\ d.dispatcherSrc = c.dispatcherSrc
      /\ d.outgoing = c.outgoing /\ SameWatch(c, d)
  BY DEF Channels, SameWatch
<1> HIDE DEF d
<1>2. NestedModeOK(d) /\ WatchOK(d) /\ FlushedOK(d)
  BY <1>1 DEF ChannelOK, NestedModeOK, WatchOK, FlushedOK, HasFrame, SameWatch
<1>3. IncomingOK(d) /\ AnnounceOK(d, n)
  BY <1>1 DEF ChannelOK, IncomingOK, AnnounceOK, HasFrame, Alive
<1>4. QED
  BY <1>2, <1>3 DEF ChannelOK, d

LEMMA SyncHandlerReturnOK ==
  ASSUME NEW c \in Channels, NEW n, ChannelOK(c, n), Alive(c),
         c.stack # <<>>, At(c) = "sync", NEW m \in Messages \cup {NoMsg}, NEW e,
         NEW o \in Flush(e, [Pop(c) EXCEPT !.outgoing = Append(@, ReplyTo(c, m)),
                                           !.replyForIncoming = FALSE])
  PROVE  ChannelOK(StopFor(m, o.ch), n)
<1> DEFINE d == Pop(c)
           r == ReplyTo(c, m)
           f == [d EXCEPT !.outgoing = Append(@, r), !.replyForIncoming = FALSE]
<1>1. d \in Channels /\ ChannelOK(d, n) /\ Alive(d)
  BY PopType, PopOK, PopFields DEF Alive
<1>2. r \in Messages
  BY MessageTypes DEF ReplyTo, Messages, ReplyKinds
<1> HIDE DEF d, r
<1>3. Append(d.outgoing, r) \in Seq(Messages)
  BY <1>1, <1>2 DEF Channels
<1>4. f \in Channels /\ SameRest(d, f) /\ SameWatch(d, f)
  BY <1>1, <1>3 DEF Channels, SameRest, SameWatch
<1>5. o \in Flush(e, f)
  BY DEF d, f, r
<1> HIDE DEF f
<1>6. ChannelOK(o.ch, n)
  BY <1>1, <1>4, <1>5, AddedOutputOK
<1>7. o.ch \in Channels
  BY <1>4, <1>5, FlushType DEF Outcomes
<1>8. QED
  BY <1>6, <1>7, ProcOK DEF StopFor, Alive
-----------------------------------------------------------------------------
\* A step of end e leaves the other end's channel as it was.
LEMMA ChannelStepOK ==
  ASSUME TypeOK, Scheduled, NEW e \in Ends, NEW d,
         ch' = [ch EXCEPT ![e] = d], told' = told, ChannelOK(d, told[e])
  PROVE  Scheduled'
<1> SUFFICES ASSUME NEW f \in Ends
             PROVE  ChannelOK(ch'[f], told'[f])
  BY DEF Scheduled
<1>1. ch'[f] = IF f = e THEN d ELSE ch[f]
  BY DEF TypeOK
<1>2. ChannelOK(ch[f], told[f])
  BY DEF Scheduled
<1>3. QED
  BY <1>1, <1>2

LEMMA TakeStepOK ==
  ASSUME TypeOK, Scheduled, NEW e \in Ends, NEW o, Take(e, o), told' = told,
         ChannelOK(o.ch, told[e])
  PROVE  Scheduled'
BY ChannelStepOK DEF Take

LEMMA ScheduledInit == Init => Scheduled
<1>1. /\ NewChannel.fd /\ NewChannel.outgoing = <<>>
      /\ NewChannel.nestedMainLoop = "stopped" /\ ~NewChannel.inNestedLoop
      /\ ~NewChannel.blockedOnWrite /\ NewChannel.incomingAsync = <<>>
      /\ NewChannel.dispatcherSrc = "none"
  BY DEF NewChannel
<1>2. \A n : ChannelOK(NewChannel, n)
  BY <1>1 DEF ChannelOK, NestedModeOK, WatchOK, FlushedOK, IncomingOK, AnnounceOK
<1>3. QED
  BY <1>2 DEF Init, Scheduled

LEMMA ScheduledNext == TypeOK /\ Scheduled /\ [Next]_vars => Scheduled'
<1> SUFFICES ASSUME TypeOK, Scheduled, [Next]_vars
             PROVE  Scheduled'
  OBVIOUS
<1>0. CASE UNCHANGED vars
  BY <1>0 DEF vars, Scheduled
<1> SUFFICES ASSUME NEW e \in Ends,
                    \/ MainThread(e) \/ TimerExpires(e)
                    \/ Application(e) \/ Outside(e)
             PROVE  Scheduled'
  BY <1>0 DEF Next
<1> DEFINE c == ch[e]
           n == told[e]
<1>c. c \in Channels /\ ChannelOK(c, n) /\ n \in Nat
  BY DEF TypeOK, Scheduled
<1> HIDE DEF c, n
<1>1. ASSUME NEW k \in AsyncKinds, SendAsync(e, k) PROVE Scheduled'
  <2> DEFINE q == Enqueue(c, k)
  <2>1. q \in Channels
    BY <1>c, EnqueueType
  <2>2. SameRest(c, q) /\ SameWatch(c, q) /\ Alive(c)
    BY <1>1, <1>c
       DEF SendAsync, InApplication, Enqueue, Channels, SameRest, SameWatch,
           Alive, c
  <2>3. PICK o \in Flush(e, q) : Take(e, o)
    BY <1>1 DEF SendAsync, c
  <2> HIDE DEF q
  <2>4. ChannelOK(o.ch, n)
    BY <1>c, <2>1, <2>2, AddedOutputOK
  <2>5. QED
    BY <1>1, <2>3, <2>4, TakeStepOK DEF SendAsync, n
<1>2. CASE QueueAsyncMessage(e)
  <2> DEFINE d == [c EXCEPT !.otherThread = Append(@, NewMessage(c, "thread")),
                            !.nextId = @ + 1]
  <2>1. SameRest(c, d) /\ SameWatch(c, d) /\ d.outgoing = c.outgoing
    BY <1>c DEF Channels, SameRest, SameWatch
  <2>2. ch' = [ch EXCEPT ![e] = d]
    BY <1>2 DEF QueueAsyncMessage, TypeOK, c
  <2> HIDE DEF d
  <2>3. ChannelOK(d, n)
    BY <1>c, <2>1, UntouchedOK
  <2>4. QED
    BY <1>2, <2>2, <2>3, ChannelStepOK DEF QueueAsyncMessage, n
<1>3. ASSUME NEW k \in SyncKinds, NEW timed \in Timed, SendSync(e, k, timed)
      PROVE  Scheduled'
  <2> DEFINE m == NewMessage(c, k)
             d == [Enqueue(c, k) EXCEPT !.inNestedLoop = TRUE,
                                        !.currSyncMessageId = m.id,
                                        !.currSyncReply = NoMsg]
  <2>1. PICK o \in Flush(e, d) :
               Take(e, [o EXCEPT !.ch = EnterNestedLoop(@, m, timed)])
    BY <1>3 DEF SendSync, c
  <2>2. Alive(c) /\ timed \in BOOLEAN
    BY <1>3, BoundsAssumption DEF SendSync, InApplication, Alive, c
  <2>3. ChannelOK(EnterNestedLoop(o.ch, m, timed), n)
    BY <1>c, <2>2, SendSyncOK
  <2>4. d \in Channels
    <3>1. m \in Messages /\ Enqueue(c, k) \in Channels
      BY <1>c, EnqueueType
    <3>2. m.id \in Nat
      BY <3>1, MessageTypes
    <3> HIDE DEF m
    <3>3. QED
      BY <3>1, <3>2 DEF Channels
  <2> HIDE DEF m, d
  <2>5. o \in Outcomes
    BY <2>4, FlushType
  <2> DEFINE p == [o EXCEPT !.ch = EnterNestedLoop(@, m, timed)]
  <2>6. p.ch = EnterNestedLoop(o.ch, m, timed)
    BY <2>5 DEF Outcomes
  <2>7. Take(e, p)
    BY <2>1
  <2> HIDE DEF p
  <2>8. QED
    BY <1>3, <2>3, <2>6, <2>7, TakeStepOK DEF SendSync, n
<1>4. CASE SendReply(e)
  <2> DEFINE d == [c EXCEPT !.replyForIncoming = TRUE]
  <2>1. SameRest(c, d) /\ SameWatch(c, d) /\ d.outgoing = c.outgoing
    BY <1>c DEF Channels, SameRest, SameWatch
  <2>2. ch' = [ch EXCEPT ![e] = d]
    BY <1>4 DEF SendReply, c
  <2> HIDE DEF d
  <2>3. QED
    BY <1>4, <1>c, <2>1, <2>2, UntouchedOK, ChannelStepOK DEF SendReply, n
<1>5. CASE ClearRemoteIsSuspended(e)
  <2> DEFINE d == [c EXCEPT !.remoteIsSuspended = FALSE]
  <2>1. SameRest(c, d) /\ SameWatch(c, d) /\ d.outgoing = c.outgoing
    BY <1>c DEF Channels, SameRest, SameWatch
  <2>2. ch' = [ch EXCEPT ![e] = d]
    BY <1>5 DEF ClearRemoteIsSuspended, c
  <2> HIDE DEF d
  <2>3. QED
    BY <1>5, <1>c, <2>1, <2>2, UntouchedOK, ChannelStepOK
       DEF ClearRemoteIsSuspended, n
<1>6. CASE AsyncCallerDispatch(e)
  <2> DEFINE q == DrainOtherThread(c)
  <2>1. q \in Channels
    BY <1>c, DrainOtherThreadType
  <2>2. SameRest(c, q) /\ SameWatch(c, q) /\ Alive(c)
    BY <1>6, <1>c
       DEF AsyncCallerDispatch, InPoll, DrainOtherThread, Channels, SameRest,
           SameWatch, Alive, c
  <2>3. PICK o \in Flush(e, q) : Take(e, o)
    BY <1>6 DEF AsyncCallerDispatch, c
  <2> HIDE DEF q
  <2>4. ChannelOK(o.ch, n)
    BY <1>c, <2>1, <2>2, AddedOutputOK
  <2>5. QED
    BY <1>6, <2>3, <2>4, TakeStepOK DEF AsyncCallerDispatch, n
<1>7. CASE SocketHup(e)
  <2> DEFINE d == LastSourceOfPass(c)
  <2>1. d \in Channels /\ ChannelOK(d, n) /\ Alive(d)
    BY <1>7, <1>c, LastSourceOfPassType, LastSourceOfPassOK
       DEF SocketHup, InPoll, Alive, c
  <2>2. ch' = [ch EXCEPT ![e] = Disconnected(d)]
    BY <1>7 DEF SocketHup, c
  <2> HIDE DEF d
  <2>3. ChannelOK(Disconnected(d), n)
    BY <2>1, DisconnectedOK DEF ChannelOK, RestOK
  <2>4. QED
    BY <1>7, <2>2, <2>3, ChannelStepOK DEF SocketHup, n
<1>8. CASE SocketOut(e)
  <2> DEFINE p == LastSourceOfPass(c)
             d == [p EXCEPT !.blockedOnWrite = FALSE]
             f == IF At(d) = "loop" THEN [d EXCEPT !.socketSource = "in"]
                                    ELSE [d EXCEPT !.nestedSocketSource = "in"]
  <2>1. p \in Channels /\ ChannelOK(p, n) /\ Alive(p)
    BY <1>8, <1>c, LastSourceOfPassType, LastSourceOfPassOK
       DEF SocketOut, InPoll, Alive, c
  <2>2. PICK o \in Flush(e, f) : Take(e, o)
    BY <1>8 DEF SocketOut, c
  <2> HIDE DEF p
  <2>3. d \in Channels /\ SameRest(p, d) /\ ~d.blockedOnWrite
    BY <2>1 DEF Channels, SameRest
  <2> HIDE DEF d
  <2>4. RestOK(d, n) /\ Alive(d)
    BY <2>1, <2>3, SameRestOK DEF ChannelOK, RestOK, Alive, SameRest
  <2>5. ChannelOK(o.ch, n)
    BY <2>3, <2>4, SocketOutOK
  <2>6. QED
    BY <1>8, <2>2, <2>5, TakeStepOK DEF SocketOut, n
<1>9. CASE SocketIn(e)
  <2> DEFINE d == LastSourceOfPass(c)
  <2>1. d \in Channels /\ ChannelOK(d, n)
    BY <1>c, LastSourceOfPassType, LastSourceOfPassOK
  <2>2. ch' = [ch EXCEPT ![e] = Push(d, "read", NoMsg)]
    BY <1>9 DEF SocketIn, c
  <2> HIDE DEF d
  <2>3. QED
    BY <1>9, <2>1, <2>2, PushOK, ChannelStepOK DEF SocketIn, n
<1>10. CASE Idle(e)
  <2>1. ch' = [ch EXCEPT ![e] = Push(c, "idle", NoMsg)]
    BY <1>10 DEF Idle, c
  <2>2. ChannelOK(Push(c, "idle", NoMsg), n)
    BY <1>c, PushOK
  <2>3. QED
    BY <1>10, <2>1, <2>2, ChannelStepOK DEF Idle, n
<1>11. ASSUME NEW t, Timeout(e, t) PROVE Scheduled'
  <2>1. c.nestedMainLoop # "stopped"
    BY <1>11 DEF Timeout, InPoll, c
  <2>2. ch' = [ch EXCEPT ![e] = NestedLoopTimeout(c, t)]
    BY <1>11 DEF Timeout, c
  <2>3. QED
    BY <1>11, <1>c, <2>1, <2>2, TimeoutOK, ChannelStepOK DEF Timeout, n
<1>12. CASE ReadMessage(e)
  <2> DEFINE m == Head(sock[e])
             d == IF c.inNestedLoop
                  THEN HandleIncomingMessageInNestedMode(c, m)
                  ELSE HandleIncomingMessageInNormalMode(c, m)
  <2>1. m \in Messages /\ c.fd
    BY <1>12 DEF ReadMessage, TypeOK, c
  <2>2. ch' = [ch EXCEPT ![e] = d]
    BY <1>12 DEF ReadMessage, c
  <2> HIDE DEF m
  <2>3. ChannelOK(d, n)
    BY <1>c, <2>1, HandleIncomingOK
  <2> HIDE DEF d
  <2>4. QED
    BY <1>12, <2>2, <2>3, ChannelStepOK DEF ReadMessage, n
<1>13. CASE ReadNothing(e)
  <2>1. c.stack # <<>> /\ At(c) = "read"
    BY <1>13 DEF ReadNothing, Runs, At, c
  <2>2. ch' = [ch EXCEPT ![e] = Pop(c)]
    BY <1>13 DEF ReadNothing, c
  <2>3. QED
    BY <1>13, <1>c, <2>1, <2>2, PopOK, ChannelStepOK DEF ReadNothing, n
<1>14. CASE ReadEndOfStream(e)
  <2>1. c.stack # <<>> /\ At(c) = "read" /\ Alive(c)
    BY <1>14 DEF ReadEndOfStream, Runs, At, Alive, c
  <2>2. Pop(c) \in Channels /\ ChannelOK(Pop(c), n) /\ Alive(Pop(c))
    BY <1>c, <2>1, PopType, PopOK, PopFields DEF Alive
  <2>3. ChannelOK(Disconnected(Pop(c)), n)
    BY <2>2, DisconnectedOK DEF ChannelOK, RestOK
  <2>4. ChannelOK([c EXCEPT !.proc = "spinning"], n)
    BY <1>c, <2>1, ProcOK
  <2>5. PICK d \in {Pop(c), [c EXCEPT !.proc = "spinning"],
                    Disconnected(Pop(c))} : ch' = [ch EXCEPT ![e] = d]
    BY <1>14 DEF ReadEndOfStream, c
  <2>6. ChannelOK(d, n)
    BY <2>2, <2>3, <2>4, <2>5
  <2>7. QED
    BY <1>14, <2>5, <2>6, ChannelStepOK DEF ReadEndOfStream, n
<1>15. CASE ReadClosed(e)
  <2>1. c.stack # <<>> /\ At(c) = "read" /\ Alive(c)
    BY <1>15 DEF ReadClosed, Runs, At, Alive, c
  <2>2. Pop(c) \in Channels /\ ChannelOK(Pop(c), n) /\ Alive(Pop(c))
    BY <1>c, <2>1, PopType, PopOK, PopFields DEF Alive
  <2>3. ChannelOK(Disconnected(Pop(c)), n)
    BY <2>2, DisconnectedOK DEF ChannelOK, RestOK
  <2>4. ch' = [ch EXCEPT ![e] = Disconnected(Pop(c))]
    BY <1>15 DEF ReadClosed, c
  <2>5. QED
    BY <1>15, <2>3, <2>4, ChannelStepOK DEF ReadClosed, n
<1>16. CASE DispatchMessage(e)
  <2>1. /\ Alive(c) /\ At(c) \in {"dispatch", "idle"}
        /\ c.incomingAsync # <<>> /\ Head(c.incomingAsync) # Gone
    BY <1>16 DEF DispatchMessage, Dispatching, Runs, Alive, c
  <2> DEFINE d == Push(PopIncoming(c), "async", Head(c.incomingAsync))
  <2>2. ch' = [ch EXCEPT ![e] = d]
    BY <1>16 DEF DispatchMessage, c
  <2>3. ChannelOK(d, n)
    BY <1>c, <2>1, DispatchMessageOK
  <2> HIDE DEF d
  <2>4. QED
    BY <1>16, <2>2, <2>3, ChannelStepOK DEF DispatchMessage, n
<1>17. CASE DispatchDisconnect(e)
  <2> DEFINE d == EndDispatch(PopIncoming(c), "spent")
  <2>1. /\ At(c) \in {"dispatch", "idle"}
        /\ c.incomingAsync # <<>> /\ Head(c.incomingAsync) = Gone
    BY <1>17 DEF DispatchDisconnect, Dispatching, Runs, c
  <2>2. ChannelOK(d, n + 1)
    BY <1>c, <2>1, DispatchDisconnectOK
  <2>3. ch' = [ch EXCEPT ![e] = d] /\ told' = [told EXCEPT ![e] = n + 1]
    BY <1>17 DEF DispatchDisconnect, c, n
  <2> HIDE DEF d
  <2>4. ASSUME NEW f \in Ends PROVE ChannelOK(ch'[f], told'[f])
    <3>1. CASE f = e
      BY <2>2, <2>3, <3>1 DEF TypeOK
    <3>2. CASE f # e
      <4>1. ch'[f] = ch[f] /\ told'[f] = told[f]
        BY <2>3, <3>2 DEF TypeOK
      <4>2. QED
        BY <4>1 DEF Scheduled
    <3>3. QED
      BY <3>1, <3>2
  <2>5. QED
    BY <2>4 DEF Scheduled
<1>18. CASE DispatchDone(e)
  <2>1. /\ Alive(c) /\ At(c) \in {"dispatch", "idle"}
        /\ c.incomingAsync = <<>>
    BY <1>18 DEF DispatchDone, Dispatching, Runs, Alive, c
  <2>2. ch' = [ch EXCEPT ![e] = EndDispatch(c, "none")]
    BY <1>18 DEF DispatchDone, c
  <2>3. QED
    BY <1>18, <1>c, <2>1, <2>2, DispatchDoneOK, ChannelStepOK
       DEF DispatchDone, n
<1>19. CASE AsyncHandlerReturn(e)
  <2>1. c.stack # <<>> /\ At(c) = "async"
    BY <1>19 DEF AsyncHandlerReturn, Runs, At, c
  <2>2. ch' = [ch EXCEPT ![e] = Pop(c)]
    BY <1>19 DEF AsyncHandlerReturn, c
  <2>3. QED
    BY <1>19, <1>c, <2>1, <2>2, PopOK, ChannelStepOK DEF AsyncHandlerReturn, n
<1>20. CASE SyncHandlerReturn(e)
  <2> DEFINE m == Head(c.stack).msg
             r == ReplyTo(c, m)
             d == Pop(c)
             f == [d EXCEPT !.outgoing = Append(@, r),
                            !.replyForIncoming = FALSE]
  <2>1. c.stack # <<>> /\ At(c) = "sync" /\ Alive(c)
    BY <1>20 DEF SyncHandlerReturn, Runs, At, Alive, c
  <2>2. m \in Messages \cup {NoMsg} /\ d \in Channels
    BY <1>c, <2>1, StackType, PopType
  <2>3. PICK o \in Flush(e, f) : Take(e, [o EXCEPT !.ch = StopFor(m, @)])
    BY <1>20 DEF SyncHandlerReturn, c
  <2> HIDE DEF m
  <2>4. ChannelOK(StopFor(m, o.ch), n)
    BY <1>c, <2>1, <2>2, SyncHandlerReturnOK
  <2>5. r \in Messages
    BY <2>2, MessageTypes DEF ReplyTo, Messages, ReplyKinds
  <2> HIDE DEF d, r
  <2>6. Append(d.outgoing, r) \in Seq(Messages)
    BY <2>2, <2>5 DEF Channels
  <2>7. f \in Channels
    BY <2>2, <2>6 DEF Channels
  <2>8. o \in Outcomes
    BY <2>7, FlushType
  <2> DEFINE p == [o EXCEPT !.ch = StopFor(m, @)]
  <2>9. p.ch = StopFor(m, o.ch)
    BY <2>8 DEF Outcomes
  <2>10. Take(e, p)
    BY <2>3
  <2> HIDE DEF p
  <2>11. QED
    BY <1>20, <2>4, <2>9, <2>10, TakeStepOK DEF SyncHandlerReturn, n
<1>21. CASE CallReturn(e)
  <2> DEFINE d == LeaveNestedLoop(c)
             f == IF d.fd THEN ResumeMainLoop(d) ELSE d
  <2>1. c.stack # <<>> /\ Alive(c)
    BY <1>21 DEF CallReturn, Runs, At, Alive, c
  <2>2. PICK o \in Flush(e, f) : Take(e, o)
    BY <1>21 DEF CallReturn, c
  <2>3. ChannelOK(o.ch, n)
    BY <1>c, <2>1, CallReturnOK
  <2>4. QED
    BY <1>21, <2>2, <2>3, TakeStepOK DEF CallReturn, n
<1>22. CASE Continue(e)
  <2>1. ch' = [ch EXCEPT ![e] = [c EXCEPT !.proc = "run"]] /\ Alive(c)
    BY <1>22 DEF Continue, TypeOK, Alive, c
  <2>2. ChannelOK([c EXCEPT !.proc = "run"], n)
    BY <1>c, <2>1, ProcOK
  <2>3. QED
    BY <1>22, <2>1, <2>2, ChannelStepOK DEF Continue, n
<1>23. CASE Exit(e)
  BY <1>23, EndedOK, ChannelStepOK DEF Exit
<1>24. QED
  BY <1>1, <1>2, <1>3, <1>4, <1>5, <1>6, <1>7, <1>8, <1>9, <1>10, <1>11, <1>12,
     <1>13, <1>14, <1>15, <1>16, <1>17, <1>18, <1>19, <1>20, <1>21, <1>22, <1>23
     DEF MainThread, TimerExpires, Application, Outside

\* At every point of the code of either end, left-over output is watched for,
\* incoming messages are someone's task and the news of a disconnection comes
\* first, whatever the applications send and however deep their calls nest.
THEOREM SchedulingCorrect == Spec => []Scheduled
BY TypeCorrect, ScheduledInit, ScheduledNext, PTL DEF Spec

\* In the main loop the channel is not in nested mode; in a poll of the nested
\* loop it is.
LEMMA ModeInPoll ==
  ASSUME NEW c \in Channels, InPoll(c), NestedModeOK(c)
  PROVE  c.inNestedLoop <=> At(c) # "loop"
<1>1. CASE At(c) = "loop"
  <2>1. c.stack = <<>>
    <3>1. c.stack # <<>> => Head(c.stack) \in Frames
      BY DEF Channels
    <3>2. QED
      BY <1>1, <3>1 DEF At, Frames
  <2>2. ~HasFrame(c, {"call"})
    BY <2>1 DEF HasFrame
  <2>3. QED
    BY <1>1, <2>2 DEF NestedModeOK
<1>2. CASE At(c) # "loop"
  BY <1>2 DEF InPoll, NestedModeOK
<1>3. QED
  BY <1>1, <1>2

\* What Scheduled says when a main thread polls.
LEMMA ScheduledImplies ==
  ASSUME TypeOK, Scheduled
  PROVE  OutputWatched /\ DispatcherScheduled /\ DisconnectScheduled
<1> SUFFICES ASSUME NEW e \in Ends
             PROVE  LET c == ch[e]
                    IN  /\ InPoll(c) /\ c.fd /\ c.outgoing # <<>>
                             => WatchedSource(c) = "inout"
                        /\ InPoll(c) /\ At(c) = "loop" /\ c.fd
                             /\ c.incomingAsync # <<>>
                             => c.dispatcherSrc = "attached"
                        /\ c.proc = "run" /\ ~c.fd /\ told[e] = 0
                             => /\ c.incomingAsync # <<>>
                                /\ Head(c.incomingAsync) = Gone
                                /\ c.dispatcherSrc = "attached"
  BY DEF OutputWatched, DispatcherScheduled, DisconnectScheduled
<1> DEFINE c == ch[e]
<1>1. c \in Channels /\ ChannelOK(c, told[e])
  BY DEF TypeOK, Scheduled
<1> HIDE DEF c
<1>2. ASSUME InPoll(c), c.fd, c.outgoing # <<>>
      PROVE  WatchedSource(c) = "inout"
  <2>1. c.inNestedLoop <=> At(c) # "loop"
    BY <1>1, <1>2, ModeInPoll DEF ChannelOK
  <2>2. IF c.inNestedLoop THEN c.nestedSocketSource = "inout"
                          ELSE c.socketSource = "inout"
    BY <1>1, <1>2 DEF ChannelOK, FlushedOK, WatchOK
  <2>3. QED
    BY <2>1, <2>2 DEF WatchedSource
<1>3. ASSUME InPoll(c), At(c) = "loop", c.fd, c.incomingAsync # <<>>
      PROVE  c.dispatcherSrc = "attached"
  <2>1. ~c.inNestedLoop
    BY <1>1, <1>3, ModeInPoll DEF ChannelOK
  <2>2. c.stack = <<>>
    <3>1. c.stack # <<>> => Head(c.stack) \in Frames
      BY <1>1 DEF Channels
    <3>2. QED
      BY <1>3, <3>1 DEF At, Frames
  <2>3. ~HasFrame(c, {"dispatch", "idle"})
    BY <2>2 DEF HasFrame
  <2>4. QED
    BY <1>1, <1>3, <2>1, <2>3 DEF ChannelOK, IncomingOK
<1>4. c.proc = "run" /\ ~c.fd /\ told[e] = 0
        => /\ c.incomingAsync # <<>> /\ Head(c.incomingAsync) = Gone
           /\ c.dispatcherSrc = "attached"
  BY <1>1 DEF ChannelOK, AnnounceOK
<1>5. QED
  BY <1>2, <1>3, <1>4 DEF c

\* No message that met a full socket is forgotten: a poll with output left
\* watches for OUT on its own source, for every capacity of the socket.
THEOREM OutputIsWatched == Spec => []OutputWatched
BY TypeCorrect, SchedulingCorrect, ScheduledImplies, PTL

\* No message buffered during a call is forgotten: when the main loop polls, the
\* idle source for it is attached.
THEOREM DispatcherIsScheduled == Spec => []DispatcherScheduled
BY TypeCorrect, SchedulingCorrect, ScheduledImplies, PTL

\* A running process that lost its connection has the news of it first in its
\* incoming list, and the dispatcher of that list attached.
THEOREM DisconnectIsScheduled == Spec => []DisconnectScheduled
BY TypeCorrect, SchedulingCorrect, ScheduledImplies, PTL
-----------------------------------------------------------------------------
(***************************************************************************)
(* The stop for a suspend request.                                         *)
(***************************************************************************)
\* A flush that leaves output on a live connection was not tried, because of an
\* earlier full socket, or filled the socket.
LEMMA FlushFillsSocket ==
  ASSUME TypeOK, NEW e \in Ends, NEW c \in Channels, NEW o \in Flush(e, c),
         o.ch.fd, o.ch.outgoing # <<>>, ~c.blockedOnWrite
  PROVE  Len(o.sent) >= Room(Peer(e))
<1> DEFINE other == ch[Peer(e)]
           room == Room(Peer(e))
<1>0. c.outgoing \in Seq(Messages) /\ Len(c.outgoing) \in Nat /\ room \in Nat
  <2>1. Len(sock[Peer(e)]) \in Nat
    BY PeerType DEF TypeOK
  <2>2. QED
    BY <2>1, BoundsAssumption DEF Room, Channels
<1> HIDE DEF room
<1>1. CASE /\ ~c.fd \/ c.blockedOnWrite \/ c.outgoing = <<>>
           /\ o = [ch |-> c, sent |-> <<>>]
  BY <1>1
<1>2. CASE o = [ch |-> Disconnected(c), sent |-> <<>>]
  <2>1. ~Disconnected(c).fd
    BY DEF Disconnected, AttachDispatcher, PushFrontGone, QuitNestedLoop, Channels
  <2>2. QED
    BY <1>2, <2>1
<1>3. ASSUME NEW n \in Accepted(Len(c.outgoing), room, other.proc = "run"),
             o = WriteMessages(c, n)
      PROVE  Len(o.sent) >= room
  <2>1. n \in 0 .. Len(c.outgoing) /\ (n = Len(c.outgoing) \/ n >= room)
    BY <1>0, <1>3 DEF Accepted
  <2>2. o.sent = SubSeq(c.outgoing, 1, n)
    BY <1>3 DEF WriteMessages
  <2>3. Len(o.sent) = n
    BY <1>0, <2>1, <2>2, SubSeqProperties
  <2>4. n # Len(c.outgoing)
    <3>1. SUFFICES ASSUME n = Len(c.outgoing) PROVE FALSE
      OBVIOUS
    <3>2. SubSeq(c.outgoing, n + 1, Len(c.outgoing)) = <<>>
      BY <1>0, <3>1, SubSeqProperties
    <3>3. o.ch.outgoing = SubSeq(c.outgoing, n + 1, Len(c.outgoing))
      BY <1>0, <1>3, <3>1, <3>2 DEF WriteMessages, Channels
    <3>4. QED
      BY <3>2, <3>3
  <2>5. QED
    BY <1>0, <2>1, <2>3, <2>4
<1>4. QED
  BY <1>1, <1>2, <1>3 DEF Flush, ProcessOutgoing, room

LEMMA StopFlushes ==
  ASSUME TypeOK, TypeOK', Scheduled', NEW e \in Ends, SyncHandlerReturn(e),
         ch'[e].fd, ch'[e].outgoing # <<>>
  PROVE  /\ ch'[e].blockedOnWrite
         /\ ch[e].blockedOnWrite \/ Len(sock'[Peer(e)]) >= SockCap
<1> DEFINE c == ch[e]
           m == Head(c.stack).msg
           r == ReplyTo(c, m)
           d == Pop(c)
           f == [d EXCEPT !.outgoing = Append(@, r), !.replyForIncoming = FALSE]
<1>1. c \in Channels /\ c.stack # <<>>
  BY DEF TypeOK, SyncHandlerReturn, Runs, At
<1>2. PICK o \in Flush(e, f) : Take(e, [o EXCEPT !.ch = StopFor(m, @)])
  BY DEF SyncHandlerReturn
<1> HIDE DEF c
<1>3. m \in Messages \cup {NoMsg} /\ d \in Channels
      /\ d.blockedOnWrite = c.blockedOnWrite
  BY <1>1, StackType, PopType, PopFields
<1> HIDE DEF m
<1>4. r \in Messages
  BY <1>3, MessageTypes DEF ReplyTo, Messages, ReplyKinds
<1> HIDE DEF d, r
<1>5. Append(d.outgoing, r) \in Seq(Messages)
  BY <1>3, <1>4 DEF Channels
<1>6. f \in Channels /\ f.blockedOnWrite = c.blockedOnWrite
  BY <1>3, <1>5 DEF Channels
<1> HIDE DEF f
<1>7. o \in Outcomes
  BY <1>6, FlushType
<1>8. /\ ch'[e] = StopFor(m, o.ch) /\ o.ch \in Channels
      /\ sock' = [sock EXCEPT ![Peer(e)] = @ \o o.sent] /\ o.sent \in Seq(Messages)
  BY <1>2, <1>7 DEF Take, Outcomes, TypeOK
<1>9. ch'[e].fd = o.ch.fd /\ ch'[e].outgoing = o.ch.outgoing
  BY <1>8 DEF StopFor, Channels
<1>10. ch'[e].blockedOnWrite
  BY DEF Scheduled, ChannelOK, FlushedOK
<1>11. ASSUME ~c.blockedOnWrite PROVE Len(sock'[Peer(e)]) >= SockCap
  <2>1. Len(o.sent) >= Room(Peer(e))
    BY <1>6, <1>9, <1>11, FlushFillsSocket
  <2>2. Peer(e) \in Ends /\ sock[Peer(e)] \in Seq(Messages)
    BY PeerType DEF TypeOK
  <2>3. sock'[Peer(e)] = sock[Peer(e)] \o o.sent
    BY <1>8, <2>2 DEF TypeOK
  <2> DEFINE t == sock[Peer(e)]
             n == o.sent
  <2>4. t \in Seq(Messages) /\ n \in Seq(Messages)
    BY <1>8, <2>2
  <2>5. Len(n) >= IF Len(t) < SockCap THEN SockCap - Len(t) ELSE 0
    BY <2>1 DEF Room
  <2>6. sock'[Peer(e)] = t \o n
    BY <2>3
  <2> HIDE DEF t, n
  <2>7. Len(t \o n) = Len(t) + Len(n) /\ Len(t) \in Nat /\ Len(n) \in Nat
    BY <2>4
  <2>8. Len(t) + Len(n) >= SockCap
    BY <2>5, <2>7, BoundsAssumption
  <2>9. QED
    BY <2>6, <2>7, <2>8
<1>12. QED
  BY <1>10, <1>11 DEF c

\* Only the return of the handler of a request stops a process.
LEMMA OnlyHandlersStop ==
  ASSUME TypeOK, TypeOK', NEW e \in Ends, Next,
         ch[e].proc = "run", ch'[e].proc = "stopped"
  PROVE  SyncHandlerReturn(e)
<1> SUFFICES ASSUME ~SyncHandlerReturn(e)
             PROVE  FALSE
  OBVIOUS
<1>1. PICK x \in Ends : \/ MainThread(x) \/ TimerExpires(x)
                        \/ Application(x) \/ Outside(x)
  BY DEF Next
<1> DEFINE c == ch[x]
<1>c. c \in Channels
  BY DEF TypeOK
<1>d. ASSUME NEW d, ch' = [ch EXCEPT ![x] = d], d.proc # "stopped" \/ c.proc = "stopped"
      PROVE  FALSE
  BY <1>d DEF TypeOK
<1> HIDE DEF c
<1>f. ASSUME NEW d \in Channels, NEW o \in Flush(x, d), d.proc = c.proc
      PROVE  o.ch.proc # "stopped" \/ c.proc = "stopped"
  <2>1. CASE o.ch = Disconnected(d)
    <3>1. Disconnected(d).proc = d.proc
      BY DEF Disconnected, AttachDispatcher, PushFrontGone, QuitNestedLoop, Channels
    <3>2. QED
      BY <1>f, <2>1, <3>1
  <2>2. CASE o.ch = Ended("crashed")
    BY <2>2 DEF Ended, NewChannel
  <2>3. CASE FlushKeeps(d, o.ch)
    BY <1>f, <2>3 DEF FlushKeeps, SameRest
  <2>4. QED
    BY <2>1, <2>2, <2>3, FlushCases
<1>k. ASSUME NEW d, ch' = [ch EXCEPT ![x] = d], d.proc = c.proc
      PROVE  FALSE
  <2>1. d.proc = "stopped" => c.proc = "stopped"
    BY <1>k
  <2>2. QED
    BY <1>d, <1>k, <2>1
<1>g. ASSUME NEW d \in Channels, NEW o \in Flush(x, d), Take(x, o),
             d.proc = c.proc
      PROVE  FALSE
  BY <1>d, <1>f, <1>g DEF Take
<1>2. ASSUME NEW k \in AsyncKinds, SendAsync(x, k) PROVE FALSE
  <2>1. Enqueue(c, k) \in Channels
    BY <1>c, EnqueueType
  <2>2. Enqueue(c, k).proc = c.proc
    BY <1>c DEF Enqueue, Channels
  <2>3. QED
    BY <1>2, <1>g, <2>1, <2>2 DEF SendAsync, c
<1>3. CASE QueueAsyncMessage(x) \/ SendReply(x) \/ ClearRemoteIsSuspended(x)
           \/ Continue(x)
  <2>1. PICK d \in {[c EXCEPT !.otherThread = Append(@, NewMessage(c, "thread")),
                             !.nextId = @ + 1],
                   [c EXCEPT !.replyForIncoming = TRUE],
                   [c EXCEPT !.remoteIsSuspended = FALSE],
                   [c EXCEPT !.proc = "run"]} : ch' = [ch EXCEPT ![x] = d]
    BY <1>3 DEF QueueAsyncMessage, SendReply, ClearRemoteIsSuspended, Continue, TypeOK, c
  <2>2. d.proc \in {c.proc, "run"}
    BY <1>c, <2>1 DEF Channels
  <2>3. QED
    BY <1>d, <1>k, <2>1, <2>2
<1>4. ASSUME NEW k \in SyncKinds, NEW timed \in Timed, SendSync(x, k, timed)
      PROVE  FALSE
  <2> DEFINE m == NewMessage(c, k)
             d == [Enqueue(c, k) EXCEPT !.inNestedLoop = TRUE,
                                        !.currSyncMessageId = m.id,
                                        !.currSyncReply = NoMsg]
  <2>1. PICK o \in Flush(x, d) :
               Take(x, [o EXCEPT !.ch = EnterNestedLoop(@, m, timed)])
    BY <1>4 DEF SendSync, c
  <2>2. m \in Messages /\ Enqueue(c, k) \in Channels /\ Enqueue(c, k).proc = c.proc
    <3>1. m \in Messages /\ Enqueue(c, k) \in Channels
      BY <1>c, EnqueueType
    <3>2. Enqueue(c, k).proc = c.proc
      BY <1>c DEF Enqueue, Channels
    <3>3. QED
      BY <3>1, <3>2
  <2>3. d \in Channels /\ d.proc = c.proc
    <3>1. m.id \in Nat
      BY <2>2, MessageTypes
    <3> HIDE DEF m
    <3>2. QED
      BY <2>2, <3>1 DEF Channels
  <2> HIDE DEF m, d
  <2>4. o \in Outcomes /\ (o.ch.proc # "stopped" \/ c.proc = "stopped")
    BY <1>f, <2>3, FlushType
  <2>5. ch' = [ch EXCEPT ![x] = EnterNestedLoop(o.ch, m, timed)] /\ o.ch \in Channels
    BY <2>1, <2>4 DEF Take, Outcomes
  <2>6. EnterNestedLoop(o.ch, m, timed).proc = o.ch.proc
    BY <2>5 DEF EnterNestedLoop, AbandonCall, StartNestedLoop, Push, Channels
  <2>7. QED
    BY <1>d, <2>4, <2>5, <2>6
<1>5. CASE AsyncCallerDispatch(x)
  <2>1. DrainOtherThread(c) \in Channels
    BY <1>c, DrainOtherThreadType
  <2>2. DrainOtherThread(c).proc = c.proc
    BY <1>c DEF DrainOtherThread, Channels
  <2>3. QED
    BY <1>5, <1>g, <2>1, <2>2 DEF AsyncCallerDispatch, c
<1>l. LastSourceOfPass(c) \in Channels /\ LastSourceOfPass(c).proc = c.proc
  <2>1. LastSourceOfPass(c) \in Channels
    BY <1>c, LastSourceOfPassType
  <2>2. QED
    BY <1>c, <2>1 DEF LastSourceOfPass, Channels
<1>a. ASSUME NEW d \in Channels PROVE Disconnected(d).proc = d.proc
  BY DEF Disconnected, AttachDispatcher, PushFrontGone, QuitNestedLoop, Channels
<1>6. CASE SocketHup(x)
  <2>1. ch' = [ch EXCEPT ![x] = Disconnected(LastSourceOfPass(c))]
    BY <1>6 DEF SocketHup, c
  <2>2. QED
    BY <1>l, <1>a, <1>k, <2>1
<1>7. CASE SocketOut(x)
  <2> DEFINE p == LastSourceOfPass(c)
             d == [p EXCEPT !.blockedOnWrite = FALSE]
             f == IF At(d) = "loop" THEN [d EXCEPT !.socketSource = "in"]
                                    ELSE [d EXCEPT !.nestedSocketSource = "in"]
  <2>1. PICK o \in Flush(x, f) : Take(x, o)
    BY <1>7 DEF SocketOut, c
  <2> HIDE DEF p
  <2>2. f \in Channels /\ f.proc = p.proc
    BY <1>l DEF Channels, Watch, p
  <2> HIDE DEF f
  <2>3. QED
    BY <1>l, <1>g, <2>1, <2>2 DEF p
<1>8. CASE SocketIn(x) \/ Idle(x)
  <2>1. PICK d \in {Push(LastSourceOfPass(c), "read", NoMsg), Push(c, "idle", NoMsg)} :
               ch' = [ch EXCEPT ![x] = d]
    BY <1>8 DEF SocketIn, Idle, c
  <2>2. d.proc = c.proc
    BY <1>c, <1>l, <2>1, PushFields
  <2>3. QED
    BY <1>k, <2>1, <2>2
<1>9. ASSUME NEW t, Timeout(x, t) PROVE FALSE
  <2>1. ch' = [ch EXCEPT ![x] = NestedLoopTimeout(c, t)]
    BY <1>9 DEF Timeout, c
  <2>2. NestedLoopTimeout(c, t).proc = c.proc
    BY <1>c DEF NestedLoopTimeout, Channels
  <2>3. QED
    BY <1>k, <2>1, <2>2
<1>10. CASE ReadMessage(x)
  <2> DEFINE m == Head(sock[x])
             d == IF c.inNestedLoop
                  THEN HandleIncomingMessageInNestedMode(c, m)
                  ELSE HandleIncomingMessageInNormalMode(c, m)
  <2>1. ch' = [ch EXCEPT ![x] = d]
    BY <1>10 DEF ReadMessage, c
  <2> HIDE DEF m
  <2>2. d.proc = c.proc
    BY <1>c DEF HandleIncomingMessageInNestedMode, HandleIncomingMessageInNormalMode,
                HandleIncomingSyncMessage, TakeReply, QueueIncoming, Push, Channels
  <2>3. QED
    BY <1>k, <2>1, <2>2
<1>p. ASSUME c.stack # <<>>
      PROVE  Pop(c).proc = c.proc /\ Disconnected(Pop(c)).proc = c.proc
  BY <1>c, <1>a, <1>p, PopType, PopFields
<1>11. CASE ReadNothing(x) \/ AsyncHandlerReturn(x) \/ ReadClosed(x)
            \/ ReadEndOfStream(x)
  <2>1. PICK d \in {Pop(c), Disconnected(Pop(c)), [c EXCEPT !.proc = "spinning"]} :
               ch' = [ch EXCEPT ![x] = d]
    BY <1>11 DEF ReadNothing, AsyncHandlerReturn, ReadClosed, ReadEndOfStream, c
  <2>2. c.stack # <<>>
    BY <1>11 DEF ReadNothing, AsyncHandlerReturn, ReadClosed, ReadEndOfStream, Runs, At, c
  <2>3. [c EXCEPT !.proc = "spinning"].proc = "spinning"
    BY <1>c DEF Channels
  <2>4. CASE d = [c EXCEPT !.proc = "spinning"]
    <3>1. d.proc # "stopped"
      BY <2>3, <2>4
    <3>2. QED
      BY <1>d, <2>1, <3>1
  <2>5. CASE d \in {Pop(c), Disconnected(Pop(c))}
    <3>1. d.proc = c.proc
      BY <1>p, <2>2, <2>5
    <3>2. QED
      BY <1>k, <2>1, <3>1
  <2>6. QED
    BY <2>1, <2>4, <2>5
<1>12. CASE DispatchMessage(x) \/ DispatchDisconnect(x) \/ DispatchDone(x)
  <2>1. PICK d \in {Push(PopIncoming(c), "async", Head(c.incomingAsync)),
                    EndDispatch(PopIncoming(c), "spent"),
                    EndDispatch(c, "none")} : ch' = [ch EXCEPT ![x] = d]
    BY <1>12 DEF DispatchMessage, DispatchDisconnect, DispatchDone, c
  <2>2. d.proc = c.proc
    BY <1>c, <2>1 DEF PopIncoming, EndDispatch, Push, Pop, Channels
  <2>3. QED
    BY <1>k, <2>1, <2>2
<1>13. CASE CallReturn(x)
  <2> DEFINE d == LeaveNestedLoop(c)
             f == IF d.fd THEN ResumeMainLoop(d) ELSE d
  <2>1. c.stack # <<>>
    BY <1>13 DEF CallReturn, Runs, At, c
  <2>2. d \in Channels /\ d.proc = c.proc
    <3>1. d \in Channels
      BY <1>c, <2>1, LeaveNestedLoopType
    <3>2. d.proc = c.proc
      BY <1>c DEF LeaveNestedLoop, DestroyTimeout, Pop, Channels
    <3>3. QED
      BY <3>1, <3>2
  <2>3. PICK o \in Flush(x, f) : Take(x, o)
    BY <1>13 DEF CallReturn, c
  <2> HIDE DEF d
  <2>4. f \in Channels /\ f.proc = c.proc
    <3>1. f \in Channels
      BY <2>2, ResumeMainLoopType
    <3>2. ResumeMainLoop(d).proc = d.proc
      BY <2>2 DEF ResumeMainLoop, ScheduleBuffered, AttachDispatcher, Channels
    <3>3. QED
      BY <2>2, <3>1, <3>2
  <2> HIDE DEF f
  <2>5. QED
    BY <1>g, <2>3, <2>4
<1>14. CASE Exit(x)
  <2>1. ch' = [ch EXCEPT ![x] = Ended("exited")] /\ Ended("exited").proc # "stopped"
    BY <1>14 DEF Exit, Ended, NewChannel
  <2>2. QED
    BY <1>d, <2>1
<1>15. CASE SyncHandlerReturn(x)
  <2>1. x = e
    <3>1. SUFFICES ASSUME x # e PROVE FALSE
      OBVIOUS
    <3>2. PICK d : ch' = [ch EXCEPT ![x] = d]
      BY <1>15 DEF SyncHandlerReturn, Take
    <3>3. ch'[e] = ch[e]
      BY <3>1, <3>2 DEF TypeOK
    <3>4. QED
      BY <3>3
  <2>2. QED
    BY <1>15, <2>1
<1>16. QED
  BY <1>1, <1>2, <1>3, <1>4, <1>5, <1>6, <1>7, <1>8, <1>9, <1>10, <1>11, <1>12,
     <1>13, <1>14, <1>15 DEF MainThread, TimerExpires, Application, Outside

\* A process that stops itself for a suspend request leaves output behind only
\* behind a full socket: the one the flush of the reply has just filled, or one
\* the channel met before and has not seen take anything since.
THEOREM StopsWhenBlocked == Spec => StopsOnlyWhenBlocked
<1> DEFINE P == \A e \in Ends :
                  ch[e].proc = "run" /\ ch'[e].proc = "stopped"
                  /\ ch'[e].fd /\ ch'[e].outgoing # <<>>
                    => /\ ch'[e].blockedOnWrite
                       /\ ch[e].blockedOnWrite \/ Len(sock'[Peer(e)]) >= SockCap
<1>1. TypeOK /\ TypeOK' /\ Scheduled' /\ [Next]_vars => [P]_vars
  <2> SUFFICES ASSUME TypeOK, TypeOK', Scheduled', Next, NEW e \in Ends,
                      ch[e].proc = "run", ch'[e].proc = "stopped",
                      ch'[e].fd, ch'[e].outgoing # <<>>
               PROVE  /\ ch'[e].blockedOnWrite
                      /\ ch[e].blockedOnWrite \/ Len(sock'[Peer(e)]) >= SockCap
    OBVIOUS
  <2>1. QED
    BY OnlyHandlersStop, StopFlushes
<1>2. QED
  BY <1>1, TypeCorrect, SchedulingCorrect, PTL DEF Spec, StopsOnlyWhenBlocked
=============================================================================
