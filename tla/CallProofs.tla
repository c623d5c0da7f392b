----------------------------- MODULE CallProofs -----------------------------
(***************************************************************************)
(* Theorems about the synchronous calls of Channel.  A call that waits on a*)
(* live connection can be answered, the reply it takes is its own, and     *)
(* while the channel is in nested mode no asynchronous message is handed   *)
(* over: for calls nested to any depth.  A call ends for a reason and      *)
(* leaves no timer: if MaxDepth <= 1, that is, if no handler calls while   *)
(* its own thread is in a call.                                            *)
(***************************************************************************)
EXTENDS ChannelProofs, FiniteSetTheorems

(***************************************************************************)
(* The invariant of each channel c.                                        *)
(***************************************************************************)
\* The innermost call on the stack is the one with this id.
Innermost(c, id) ==
  \E i \in CallFrames(c) : /\ c.stack[i].msg.id = id
                           /\ \A j \in CallFrames(c) : j >= i

\* In nested mode the current call is the innermost one.
CurrentOK(c) == c.inNestedLoop => Innermost(c, c.currSyncMessageId)

\* Only the reply to the current call is kept, and it ends the loop.
ReplyOK(c) ==
  c.currSyncReply # NoMsg => /\ c.inNestedLoop
                             /\ c.currSyncReply.id = c.currSyncMessageId
                             /\ c.nestedMainLoop # "running"

\* Other threads queue asynchronous messages only.
OthersOK(c) ==
  \A j \in DOMAIN c.otherThread : c.otherThread[j].kind = "thread"

\* The frame below a frame is that of its caller.
Caller == [read |-> {"loop", "call"}, dispatch |-> {"read"}, idle |-> {"loop"},
           async |-> {"dispatch", "idle"}, sync |-> {"read"},
           call |-> {"loop", "async", "sync"}]

Below(c, i) == IF i = Len(c.stack) THEN "loop" ELSE c.stack[i + 1].at

CallersOK(c) == \A i \in DOMAIN c.stack : Below(c, i) \in Caller[c.stack[i].at]

(***************************************************************************)
(* What holds besides while no call is made inside a call.                 *)
(***************************************************************************)
\* There is one call, and the channel is in nested mode as long as it lasts.
OneCallOK(c) ==
  /\ CallFrames(c) # {} => c.inNestedLoop
  /\ \A i, j \in CallFrames(c) : i = j

\* The only timer is that of the current call, which can find and destroy it.
TimerOK(c) ==
  \A t \in c.timers : /\ c.inNestedLoop
                      /\ t = c.nestedTimeoutSource
                      /\ t = c.currSyncMessageId

\* A nested loop that was quit had one of the three reasons.
ReasonOK(c) ==
  CallFrames(c) # {} /\ c.nestedMainLoop # "running"
    => c.currSyncReply # NoMsg \/ c.syncCallTimedOut \/ ~c.fd

ShallowOK(c) == OneCallOK(c) /\ TimerOK(c) /\ ReasonOK(c)

CallsOK(c) ==
  /\ CurrentOK(c) /\ ReplyOK(c) /\ OthersOK(c) /\ CallersOK(c)
  /\ MaxDepth <= 1 => ShallowOK(c)

(***************************************************************************)
(* The invariant of a pair of channels with a live connection: a request   *)
(* or the answer to it is in one place while its call waits, and in none   *)
(* before it is made.                                                      *)
(***************************************************************************)
Live(e) == ch[e].fd /\ ch[Peer(e)].fd

FreshOK(e) ==
  Live(e) => \A i \in Nat : i >= ch[e].nextId => RequestOrAnswer(e, i) = 0

AnswerOK(e) ==
  Live(e) /\ ch[e].inNestedLoop /\ ch[e].currSyncReply = NoMsg
    => RequestOrAnswer(e, ch[e].currSyncMessageId) = 1

CallsServed == \A e \in Ends : FreshOK(e) /\ AnswerOK(e)

Calls == CallsServed /\ \A e \in Ends : CallsOK(ch[e])
-----------------------------------------------------------------------------
(***************************************************************************)
(* Counting the elements of a sequence that are in a set.                  *)
(***************************************************************************)
Hits(s, S) == {j \in DOMAIN s : s[j] \in S}

LEMMA HitsFinite ==
  ASSUME NEW A, NEW s \in Seq(A), NEW S
  PROVE  /\ IsFiniteSet(Hits(s, S)) /\ Hits(s, S) \subseteq 1 .. Len(s)
         /\ Cardinality(Hits(s, S)) \in Nat
<1>1. Hits(s, S) \subseteq 1 .. Len(s) /\ Len(s) \in Nat
  BY DEF Hits
<1>2. IsFiniteSet(1 .. Len(s))
  BY <1>1, FS_Interval
<1>3. IsFiniteSet(Hits(s, S))
  BY <1>1, <1>2, FS_Subset
<1>4. QED
  BY <1>1, <1>3, FS_CardinalityType

LEMMA HitsOfConcat ==
  ASSUME NEW A, NEW s \in Seq(A), NEW t \in Seq(A), NEW S
  PROVE  Cardinality(Hits(s \o t, S))
           = Cardinality(Hits(s, S)) + Cardinality(Hits(t, S))
<1> DEFINE H == Hits(t, S)
           shifted == {j + Len(s) : j \in H}
           f == [j \in H |-> j + Len(s)]
<1>1. /\ IsFiniteSet(H) /\ H \subseteq 1 .. Len(t)
      /\ IsFiniteSet(Hits(s, S)) /\ Hits(s, S) \subseteq 1 .. Len(s)
  BY HitsFinite
<1>2. Len(s) \in Nat
  OBVIOUS
<1>3. Hits(s \o t, S) = Hits(s, S) \cup shifted
  <2>1. ASSUME NEW j \in Hits(s \o t, S)
        PROVE  j \in Hits(s, S) \cup shifted
    <3>1. j \in 1 .. Len(s) + Len(t) /\ (s \o t)[j] \in S
      BY DEF Hits
    <3>2. CASE j <= Len(s)
      BY <3>1, <3>2 DEF Hits
    <3>3. CASE j > Len(s)
      <4>1. j - Len(s) \in H
        BY <3>1, <3>3 DEF Hits
      <4>2. j = (j - Len(s)) + Len(s)
        BY <3>1
      <4>3. QED
        BY <4>1, <4>2
    <3>4. QED
      BY <3>1, <3>2, <3>3
  <2>2. ASSUME NEW j \in Hits(s, S) PROVE j \in Hits(s \o t, S)
    BY DEF Hits
  <2>3. ASSUME NEW j \in H PROVE j + Len(s) \in Hits(s \o t, S)
    BY DEF Hits
  <2>4. QED
    BY <2>1, <2>2, <2>3
<1>4. Hits(s, S) \cap shifted = {}
  BY <1>1, <1>2
<1>5. f \in Bijection(H, shifted)
  <2>1. f \in [H -> shifted]
    OBVIOUS
  <2>2. ASSUME NEW i \in H, NEW j \in H, f[i] = f[j] PROVE i = j
    BY <1>1, <1>2, <2>2
  <2>3. ASSUME NEW k \in shifted PROVE \E j \in H : f[j] = k
    OBVIOUS
  <2>4. QED
    BY <2>1, <2>2, <2>3 DEF Bijection, Injection, Surjection, IsInjective
<1> HIDE DEF H, f, shifted
<1>6. IsFiniteSet(shifted) /\ Cardinality(shifted) = Cardinality(H)
  BY <1>1, <1>5, FS_Bijection DEF ExistsBijection
<1>7. /\ Cardinality(Hits(s, S)) \in Nat /\ Cardinality(H) \in Nat
      /\ Cardinality(Hits(s, S) \cap shifted) = 0
  BY <1>1, <1>4, FS_CardinalityType, FS_EmptySet
<1>8. Cardinality(Hits(s, S) \cup shifted)
        = Cardinality(Hits(s, S)) + Cardinality(shifted)
            - Cardinality(Hits(s, S) \cap shifted)
  BY <1>1, <1>6, FS_Union, Zenon
<1>9. QED
  BY <1>3, <1>6, <1>7, <1>8 DEF H

LEMMA HitsOfOne ==
  ASSUME NEW m, NEW S
  PROVE  Cardinality(Hits(<<m>>, S)) = IF m \in S THEN 1 ELSE 0
<1>1. m \in S => Hits(<<m>>, S) = {1}
  BY DEF Hits
<1>2. m \notin S => Hits(<<m>>, S) = {}
  BY DEF Hits
<1>3. QED
  BY <1>1, <1>2, FS_Singleton, FS_EmptySet

\* Messages of one of the kinds, and frames of handlers, with this id.
MessagesOf(kinds, i) == {m \in Messages : m.kind \in kinds /\ m.id = i}

HandlersOf(i) == {f \in Frames : f.at = "sync" /\ f.msg.id = i}

LEMMA CountIsHits ==
  ASSUME NEW s \in Seq(Messages), NEW kinds, NEW i
  PROVE  Count(s, kinds, i) = Cardinality(Hits(s, MessagesOf(kinds, i)))
<1>1. \A j \in DOMAIN s : s[j] \in Messages
  OBVIOUS
<1>2. {j \in DOMAIN s : s[j].kind \in kinds /\ s[j].id = i}
        = Hits(s, MessagesOf(kinds, i))
  BY <1>1 DEF Hits, MessagesOf
<1>3. QED
  BY <1>2 DEF Count

LEMMA CountConcat ==
  ASSUME NEW s \in Seq(Messages), NEW t \in Seq(Messages), NEW kinds, NEW i
  PROVE  /\ Count(s \o t, kinds, i) = Count(s, kinds, i) + Count(t, kinds, i)
         /\ Count(s, kinds, i) \in Nat /\ Count(t, kinds, i) \in Nat
<1>1. s \o t \in Seq(Messages)
  OBVIOUS
<1> DEFINE S == MessagesOf(kinds, i)
<1>2. Count(s \o t, kinds, i) = Cardinality(Hits(s \o t, S))
  BY <1>1, CountIsHits
<1>3. Count(s, kinds, i) = Cardinality(Hits(s, S))
      /\ Count(t, kinds, i) = Cardinality(Hits(t, S))
  BY CountIsHits
<1> HIDE DEF S
<1>4. Cardinality(Hits(s \o t, S))
        = Cardinality(Hits(s, S)) + Cardinality(Hits(t, S))
  BY HitsOfConcat, Zenon
<1>5. Cardinality(Hits(s, S)) \in Nat /\ Cardinality(Hits(t, S)) \in Nat
  BY HitsFinite, Zenon
<1>6. QED
  BY <1>2, <1>3, <1>4, <1>5

LEMMA CountOne ==
  ASSUME NEW m \in Messages, NEW kinds, NEW i
  PROVE  Count(<<m>>, kinds, i) = IF m.kind \in kinds /\ m.id = i THEN 1 ELSE 0
<1>1. <<m>> \in Seq(Messages)
  OBVIOUS
<1>2. Count(<<m>>, kinds, i) = Cardinality(Hits(<<m>>, MessagesOf(kinds, i)))
  BY <1>1, CountIsHits
<1>3. m \in MessagesOf(kinds, i) <=> m.kind \in kinds /\ m.id = i
  BY DEF MessagesOf
<1>4. QED
  BY <1>2, <1>3, HitsOfOne

LEMMA CountNone ==
  ASSUME NEW kinds, NEW i
  PROVE  Count(<<>>, kinds, i) = 0
<1>1. {j \in DOMAIN <<>> : <<>>[j].kind \in kinds /\ <<>>[j].id = i} = {}
  OBVIOUS
<1>2. QED
  BY <1>1, FS_EmptySet DEF Count

\* The handlers of requests with id i that c is in.
Handlers(c, i) ==
  Cardinality({j \in DOMAIN c.stack : /\ c.stack[j].at = "sync"
                                      /\ c.stack[j].msg.id = i})

LEMMA HandlersAreHits ==
  ASSUME NEW c \in Channels, NEW i
  PROVE  /\ Handlers(c, i) = Cardinality(Hits(c.stack, HandlersOf(i)))
         /\ Handlers(c, i) \in Nat
<1>1. c.stack \in Seq(Frames)
  BY DEF Channels
<1>2. \A j \in DOMAIN c.stack : c.stack[j] \in Frames
  BY <1>1
<1>3. {j \in DOMAIN c.stack : c.stack[j].at = "sync" /\ c.stack[j].msg.id = i}
        = Hits(c.stack, HandlersOf(i))
  BY <1>2 DEF Hits, HandlersOf
<1>4. QED
  BY <1>1, <1>3, HitsFinite DEF Handlers

\* A channel whose stack is that of d under one more frame f.
LEMMA HandlersOnTop ==
  ASSUME NEW c \in Channels, NEW d \in Channels, NEW f \in Frames,
         c.stack = <<f>> \o d.stack, NEW i
  PROVE  Handlers(c, i)
           = Handlers(d, i) + IF f.at = "sync" /\ f.msg.id = i THEN 1 ELSE 0
<1>1. d.stack \in Seq(Frames) /\ <<f>> \in Seq(Frames)
  BY DEF Channels
<1> DEFINE S == HandlersOf(i)
<1>2. f \in S <=> f.at = "sync" /\ f.msg.id = i
  BY DEF HandlersOf
<1>3. /\ Handlers(c, i) = Cardinality(Hits(c.stack, S))
      /\ Handlers(d, i) = Cardinality(Hits(d.stack, S))
      /\ Handlers(d, i) \in Nat
  BY HandlersAreHits
<1> HIDE DEF S
<1>4. Cardinality(Hits(<<f>> \o d.stack, S))
        = Cardinality(Hits(<<f>>, S)) + Cardinality(Hits(d.stack, S))
  BY <1>1, HitsOfConcat, ZenonT(40)
<1>5. Cardinality(Hits(<<f>>, S)) = IF f \in S THEN 1 ELSE 0
  BY HitsOfOne, Zenon
<1>6. QED
  BY <1>2, <1>3, <1>4, <1>5

LEMMA HandlersPushed ==
  ASSUME NEW c \in Channels, NEW m \in Messages \cup {NoMsg},
         NEW at \in {"read", "dispatch", "idle", "async", "sync", "call"},
         NEW i
  PROVE  Handlers(Push(c, at, m), i)
           = Handlers(c, i) + IF at = "sync" /\ m.id = i THEN 1 ELSE 0
<1> DEFINE f == [at |-> at, msg |-> m]
<1>1. f \in Frames
  BY DEF Frames
<1>2. Push(c, at, m) \in Channels
  BY PushType
<1>3. Push(c, at, m).stack = <<f>> \o c.stack
  BY DEF Push, Channels
<1>4. f.at = at /\ f.msg = m
  OBVIOUS
<1> HIDE DEF f
<1>5. QED
  BY <1>1, <1>2, <1>3, <1>4, HandlersOnTop

LEMMA HandlersPopped ==
  ASSUME NEW c \in Channels, c.stack # <<>>, NEW i
  PROVE  Handlers(c, i)
           = Handlers(Pop(c), i)
               + IF At(c) = "sync" /\ Head(c.stack).msg.id = i THEN 1 ELSE 0
<1>1. c.stack \in Seq(Frames)
  BY DEF Channels
<1> DEFINE d == Pop(c)
           f == Head(c.stack)
<1>2. d \in Channels
  BY PopType
<1>3. d.stack = Tail(c.stack)
  BY DEF Pop, Channels
<1>4. f \in Frames
  BY <1>1
<1>5. c.stack = <<f>> \o d.stack
  BY <1>1, <1>3
<1>6. f.at = At(c)
  BY DEF At
<1> HIDE DEF d, f
<1>7. Handlers(c, i)
        = Handlers(d, i) + IF f.at = "sync" /\ f.msg.id = i THEN 1 ELSE 0
  BY <1>2, <1>4, <1>5, HandlersOnTop
<1>8. QED
  BY <1>6, <1>7 DEF d, f
-----------------------------------------------------------------------------
(***************************************************************************)
(* What a flush does to the channel and to the socket.                     *)
(***************************************************************************)
SameButOutput(c, d) ==
  /\ d.proc = c.proc /\ d.fd = c.fd /\ d.stack = c.stack
  /\ d.otherThread = c.otherThread /\ d.nextId = c.nextId
  /\ d.incomingAsync = c.incomingAsync /\ d.dispatcherSrc = c.dispatcherSrc
  /\ d.inNestedLoop = c.inNestedLoop /\ d.nestedMainLoop = c.nestedMainLoop
  /\ d.currSyncMessageId = c.currSyncMessageId
  /\ d.currSyncReply = c.currSyncReply
  /\ d.nestedTimeoutSource = c.nestedTimeoutSource /\ d.timers = c.timers
  /\ d.syncCallTimedOut = c.syncCallTimedOut

\* What was sent and what is left is what there was; a crash loses what is left.
FlushEnds(c, o) ==
  \/ o.ch = Disconnected(c) /\ c.fd /\ o.sent = <<>>
  \/ /\ o.ch = Ended("crashed") /\ c.fd
     /\ \E rest \in Seq(Messages) : rest # <<>> /\ o.sent \o rest = c.outgoing
  \/ SameButOutput(c, o.ch) /\ o.sent \o o.ch.outgoing = c.outgoing

LEMMA WriteMessagesEffect ==
  ASSUME NEW c \in Channels, c.fd, NEW n \in 0 .. Len(c.outgoing)
  PROVE  FlushEnds(c, WriteMessages(c, n))
<1> DEFINE rest == SubSeq(c.outgoing, n + 1, Len(c.outgoing))
           sent == SubSeq(c.outgoing, 1, n)
           d == [c EXCEPT !.outgoing = rest]
           w == WouldBlock(d)
           o == WriteMessages(c, n)
<1>1. c.outgoing \in Seq(Messages)
  BY DEF Channels
<1>2. rest \in Seq(Messages) /\ sent \in Seq(Messages)
  BY <1>1, SubSeqProperties
<1>3. sent \o rest = c.outgoing
  <2>1. SubSeq(c.outgoing, 1, n) \o SubSeq(c.outgoing, n + 1, Len(c.outgoing))
          = SubSeq(c.outgoing, 1, Len(c.outgoing))
    <3>1. /\ Len(c.outgoing) \in Nat /\ 1 \in 1 .. Len(c.outgoing) + 1
          /\ n \in 1 - 1 .. Len(c.outgoing)
          /\ Len(c.outgoing) \in n .. Len(c.outgoing)
      BY <1>1
    <3>2. QED
      BY <1>1, <3>1, ConcatAdjacentSubSeq, Zenon
  <2>2. QED
    BY <1>1, <2>1, SubSeqFull
<1>4. n < Len(c.outgoing) => rest # <<>>
  <2>1. Len(sent) = n
    BY <1>1, SubSeqProperties
  <2> HIDE DEF rest, sent
  <2>2. rest = <<>> => sent = c.outgoing
    BY <1>2, <1>3, ConcatEmptySeq
  <2>3. QED
    BY <1>1, <2>1, <2>2
<1>5. /\ o.sent = sent
      /\ o.ch = IF n < Len(c.outgoing) THEN w ELSE d
  BY <1>1 DEF WriteMessages
<1> HIDE DEF rest, sent, o
<1>6. d \in Channels /\ SameButOutput(c, d) /\ d.outgoing = rest
  BY <1>2 DEF Channels, SameButOutput
<1> HIDE DEF d
<1>7. w = Ended("crashed") \/ (SameButOutput(d, w) /\ w.outgoing = d.outgoing)
  BY <1>6 DEF WouldBlock, Channels, SameButOutput
<1> HIDE DEF w
<1>8. CASE n < Len(c.outgoing) /\ w = Ended("crashed")
  BY <1>2, <1>3, <1>4, <1>5, <1>8 DEF FlushEnds, o
<1>9. CASE ~(n < Len(c.outgoing) /\ w = Ended("crashed"))
  <2>1. SameButOutput(c, o.ch) /\ o.ch.outgoing = rest
    BY <1>5, <1>6, <1>7, <1>9 DEF SameButOutput
  <2>2. QED
    BY <1>3, <1>5, <2>1 DEF FlushEnds, o
<1>10. QED
  BY <1>8, <1>9

LEMMA FlushEffect ==
  ASSUME NEW c \in Channels, NEW e, NEW o \in Flush(e, c)
  PROVE  FlushEnds(c, o)
<1> DEFINE other == ch[Peer(e)]
           room == Room(Peer(e))
<1>0. c.outgoing \in Seq(Messages)
  BY DEF Channels
<1>1. CASE o = [ch |-> c, sent |-> <<>>]
  BY <1>0, <1>1 DEF FlushEnds, SameButOutput
<1>2. CASE c.fd /\ o = [ch |-> Disconnected(c), sent |-> <<>>]
  BY <1>2 DEF FlushEnds
<1>3. ASSUME NEW n \in Accepted(Len(c.outgoing), room, other.proc = "run"),
             o = WriteMessages(c, n), c.fd
      PROVE  FlushEnds(c, o)
  BY <1>3, WriteMessagesEffect DEF Accepted
<1>4. QED
  BY <1>1, <1>2, <1>3 DEF Flush, ProcessOutgoing

LEMMA DisconnectedFields ==
  ASSUME NEW c \in Channels
  PROVE  LET d == Disconnected(c)
         IN  /\ ~d.fd /\ d.proc = c.proc /\ d.stack = c.stack
             /\ d.otherThread = c.otherThread /\ d.nextId = c.nextId
             /\ d.incomingAsync = <<Gone>> \o c.incomingAsync
             /\ d.inNestedLoop = c.inNestedLoop
             /\ d.nestedMainLoop \in {c.nestedMainLoop, "stopped"}
             /\ d.currSyncMessageId = c.currSyncMessageId
             /\ d.currSyncReply = c.currSyncReply
             /\ d.nestedTimeoutSource = c.nestedTimeoutSource
             /\ d.timers = c.timers /\ d.syncCallTimedOut = c.syncCallTimedOut
BY DEF Disconnected, AttachDispatcher, PushFrontGone, QuitNestedLoop, Channels
-----------------------------------------------------------------------------
(***************************************************************************)
(* CallsOK is kept by the methods of a channel.                            *)
(***************************************************************************)
\* c becomes d without a change of its calls: at most the loop is quit.
SameCalls(c, d) ==
  /\ d.stack = c.stack /\ d.inNestedLoop = c.inNestedLoop
  /\ d.currSyncMessageId = c.currSyncMessageId
  /\ d.currSyncReply = c.currSyncReply
  /\ d.nestedTimeoutSource = c.nestedTimeoutSource /\ d.timers = c.timers
  /\ d.syncCallTimedOut = c.syncCallTimedOut
  /\ d.fd => c.fd
  /\ \/ d.nestedMainLoop = c.nestedMainLoop
     \/ d.nestedMainLoop # "running" /\ (c.nestedMainLoop = "running" => ~d.fd)
  /\ OthersOK(c) => OthersOK(d)

LEMMA SameCallsOK ==
  ASSUME NEW c, NEW d, SameCalls(c, d), CallsOK(c)
  PROVE  CallsOK(d)
<1>1. CallFrames(d) = CallFrames(c)
  BY DEF SameCalls, CallFrames
<1>2. CurrentOK(d)
  BY <1>1 DEF SameCalls, CallsOK, CurrentOK, Innermost
<1>3. ReplyOK(d)
  BY DEF SameCalls, CallsOK, ReplyOK
<1>4. OthersOK(d)
  BY DEF SameCalls, CallsOK
<1>5. CallersOK(c) => CallersOK(d)
  BY DEF SameCalls, CallersOK, Below
<1>6. OneCallOK(c) /\ TimerOK(c) /\ ReasonOK(c)
        => OneCallOK(d) /\ TimerOK(d) /\ ReasonOK(d)
  BY <1>1 DEF SameCalls, OneCallOK, TimerOK, ReasonOK
<1>7. QED
  BY <1>2, <1>3, <1>4, <1>5, <1>6 DEF CallsOK, ShallowOK

LEMMA DisconnectedCallsOK ==
  ASSUME NEW c \in Channels, CallsOK(c)
  PROVE  CallsOK(Disconnected(c))
<1> DEFINE d == Disconnected(c)
<1>1. SameCalls(c, d)
  BY DisconnectedFields DEF SameCalls, OthersOK
<1> HIDE DEF d
<1>2. QED
  BY <1>1, SameCallsOK DEF d

LEMMA EndedCallsOK ==
  ASSUME NEW how
  PROVE  CallsOK(Ended(how))
<1> DEFINE d == Ended(how)
<1>1. /\ d.inNestedLoop = FALSE /\ d.currSyncReply = NoMsg
      /\ d.otherThread = <<>> /\ d.stack = <<>> /\ d.timers = {}
  BY DEF Ended, NewChannel
<1> HIDE DEF d
<1>2. CallFrames(d) = {}
  BY <1>1 DEF CallFrames
<1>3. QED
  BY <1>1, <1>2 DEF CallsOK, CurrentOK, ReplyOK, OthersOK, CallersOK, ShallowOK,
                    OneCallOK, TimerOK, ReasonOK, d

LEMMA FlushCallsOK ==
  ASSUME NEW c \in Channels, NEW e, NEW o \in Flush(e, c), CallsOK(c)
  PROVE  CallsOK(o.ch)
<1>1. CASE o.ch = Disconnected(c)
  BY <1>1, DisconnectedCallsOK
<1>2. CASE o.ch = Ended("crashed")
  BY <1>2, EndedCallsOK
<1>3. CASE SameButOutput(c, o.ch)
  BY <1>3, SameCallsOK DEF SameButOutput, SameCalls, OthersOK
<1>4. QED
  BY <1>1, <1>2, <1>3, FlushEffect DEF FlushEnds

\* The frames of c are those of d, one place further down.
Deeper(c, d) ==
  /\ DOMAIN c.stack = 1 .. Len(c.stack) /\ DOMAIN d.stack = 1 .. Len(d.stack)
  /\ Len(d.stack) \in Nat /\ Len(c.stack) = Len(d.stack) + 1
  /\ \A i \in DOMAIN d.stack : c.stack[i + 1] = d.stack[i]
  /\ c.stack[1].at = At(c)

LEMMA PushedDeeper ==
  ASSUME NEW c \in Channels, NEW m \in Messages \cup {NoMsg},
         NEW at \in {"read", "dispatch", "idle", "async", "sync", "call"}
  PROVE  /\ Deeper(Push(c, at, m), c)
         /\ At(Push(c, at, m)) = at
         /\ Push(c, at, m).stack[1].msg = m
<1> DEFINE f == [at |-> at, msg |-> m]
<1>1. c.stack \in Seq(Frames) /\ f \in Frames
  BY DEF Channels, Frames
<1>2. Push(c, at, m).stack = <<f>> \o c.stack
  BY DEF Push, Channels
<1>3. f.at = at /\ f.msg = m
  OBVIOUS
<1> HIDE DEF f
<1>4. QED
  BY <1>1, <1>2, <1>3 DEF Deeper, At

LEMMA PoppedDeeper ==
  ASSUME NEW c \in Channels, c.stack # <<>>
  PROVE  Deeper(c, Pop(c))
<1>1. c.stack \in Seq(Frames)
  BY DEF Channels
<1>2. Pop(c).stack = Tail(c.stack)
  BY DEF Pop, Channels
<1>3. QED
  BY <1>1, <1>2 DEF Deeper, At

LEMMA DeeperCalls ==
  ASSUME NEW c, NEW d, Deeper(c, d)
  PROVE  /\ \A i \in CallFrames(d) : i + 1 \in CallFrames(c)
         /\ \A i \in CallFrames(c) : i # 1 => i - 1 \in CallFrames(d)
         /\ 1 \in CallFrames(c) <=> At(c) = "call"
         /\ CallFrames(c) \subseteq Nat \ {0} /\ CallFrames(d) \subseteq Nat
<1>1. /\ DOMAIN c.stack = 1 .. Len(c.stack) /\ DOMAIN d.stack = 1 .. Len(d.stack)
      /\ Len(d.stack) \in Nat /\ Len(c.stack) = Len(d.stack) + 1
  BY DEF Deeper
<1>2. \A i \in DOMAIN d.stack : c.stack[i + 1] = d.stack[i]
  BY DEF Deeper
<1>3. ASSUME NEW i \in DOMAIN c.stack, i # 1
      PROVE  i - 1 \in DOMAIN d.stack /\ c.stack[i] = d.stack[i - 1]
  <2>1. i - 1 \in DOMAIN d.stack /\ (i - 1) + 1 = i
    BY <1>1, <1>3
  <2>2. QED
    BY <1>2, <2>1
<1>4. \A i \in DOMAIN d.stack : i + 1 \in DOMAIN c.stack
  BY <1>1
<1>5. 1 \in DOMAIN c.stack /\ c.stack[1].at = At(c)
  BY <1>1 DEF Deeper
<1>6. \A i \in CallFrames(d) : i + 1 \in CallFrames(c)
  BY <1>2, <1>4 DEF CallFrames
<1>7. \A i \in CallFrames(c) : i # 1 => i - 1 \in CallFrames(d)
  BY <1>3 DEF CallFrames
<1>8. CallFrames(c) \subseteq Nat \ {0} /\ CallFrames(d) \subseteq Nat
  BY <1>1 DEF CallFrames
<1>9. QED
  BY <1>5, <1>6, <1>7, <1>8 DEF CallFrames

\* c and d agree on what CallsOK reads but for their stacks.
SameLoop(c, d) ==
  /\ d.inNestedLoop = c.inNestedLoop /\ d.nestedMainLoop = c.nestedMainLoop
  /\ d.currSyncMessageId = c.currSyncMessageId
  /\ d.currSyncReply = c.currSyncReply
  /\ d.nestedTimeoutSource = c.nestedTimeoutSource /\ d.timers = c.timers
  /\ d.syncCallTimedOut = c.syncCallTimedOut
  /\ d.fd = c.fd /\ d.otherThread = c.otherThread

LEMMA PushSameLoop ==
  ASSUME NEW c \in Channels, NEW at, NEW m
  PROVE  SameLoop(c, Push(c, at, m)) /\ Push(c, at, m).outgoing = c.outgoing
         /\ Push(c, at, m).nextId = c.nextId
BY DEF Push, Channels, SameLoop

LEMMA PopSameLoop ==
  ASSUME NEW c \in Channels
  PROVE  SameLoop(c, Pop(c)) /\ Pop(c).outgoing = c.outgoing
         /\ Pop(c).nextId = c.nextId
BY DEF Pop, Channels, SameLoop

\* The stack of a channel and that with one frame more.
LEMMA DeeperStackOK ==
  ASSUME NEW c, NEW d, Deeper(c, d)
  PROVE  /\ CallersOK(c) => CallersOK(d)
         /\ CallersOK(d) /\ At(d) \in Caller[At(c)] => CallersOK(c)
<1>1. \A i \in DOMAIN d.stack : i + 1 \in DOMAIN c.stack
                               /\ Below(c, i + 1) = Below(d, i)
  <2> SUFFICES ASSUME NEW i \in DOMAIN d.stack
               PROVE  /\ i + 1 \in DOMAIN c.stack
                      /\ Below(c, i + 1) = Below(d, i)
    OBVIOUS
  <2>1. /\ i \in Nat /\ i + 1 \in DOMAIN c.stack
        /\ i + 1 = Len(c.stack) <=> i = Len(d.stack)
        /\ i # Len(d.stack) => i + 1 \in DOMAIN d.stack
    BY DEF Deeper
  <2>2. i # Len(d.stack) => c.stack[(i + 1) + 1] = d.stack[i + 1]
    BY <2>1 DEF Deeper
  <2>3. QED
    BY <2>1, <2>2 DEF Below
<1>2. ASSUME CallersOK(c) PROVE CallersOK(d)
  BY <1>1, <1>2 DEF CallersOK, Deeper
<1>3. \A i \in DOMAIN c.stack :
        i # 1 => /\ i \in Nat /\ i - 1 \in DOMAIN d.stack
                 /\ c.stack[i] = d.stack[i - 1] /\ Below(c, i) = Below(d, i - 1)
  BY <1>1 DEF Deeper
<1>4. ASSUME CallersOK(d), At(d) \in Caller[At(c)] PROVE CallersOK(c)
  <2> SUFFICES ASSUME NEW i \in DOMAIN c.stack
               PROVE  Below(c, i) \in Caller[c.stack[i].at]
    BY DEF CallersOK
  <2>1. CASE i = 1
    <3>1. Below(c, 1) = At(d)
      BY SMTT(30) DEF Deeper, Below, At
    <3>2. QED
      BY <1>4, <2>1, <3>1 DEF Deeper
  <2>2. CASE i # 1
    BY <1>3, <1>4, <2>2 DEF CallersOK
  <2>3. QED
    BY <2>1, <2>2
<1>5. QED
  BY <1>2, <1>4

LEMMA DeeperInnermost ==
  ASSUME NEW c, NEW d, Deeper(c, d), At(c) # "call", NEW id
  PROVE  Innermost(c, id) <=> Innermost(d, id)
<1>0. /\ \A i \in CallFrames(d) : i + 1 \in CallFrames(c)
      /\ \A i \in CallFrames(c) : i # 1 /\ i - 1 \in CallFrames(d)
      /\ CallFrames(c) \subseteq Nat \ {0} /\ CallFrames(d) \subseteq Nat
  BY DeeperCalls
<1>1. \A i \in CallFrames(d) : c.stack[i + 1] = d.stack[i]
  BY DEF Deeper, CallFrames
<1>2. ASSUME Innermost(d, id) PROVE Innermost(c, id)
  <2>1. PICK i \in CallFrames(d) : /\ d.stack[i].msg.id = id
                                   /\ \A j \in CallFrames(d) : j >= i
    BY <1>2 DEF Innermost
  <2>2. ASSUME NEW j \in CallFrames(c) PROVE j >= i + 1
    <3>1. j - 1 >= i
      BY <1>0, <2>1
    <3>2. QED
      BY <1>0, <3>1
  <2>3. QED
    BY <1>0, <1>1, <2>1, <2>2 DEF Innermost
<1>3. ASSUME Innermost(c, id) PROVE Innermost(d, id)
  <2>1. PICK i \in CallFrames(c) : /\ c.stack[i].msg.id = id
                                   /\ \A j \in CallFrames(c) : j >= i
    BY <1>3 DEF Innermost
  <2>2. i - 1 \in CallFrames(d) /\ i \in Nat /\ (i - 1) + 1 = i
    BY <1>0
  <2>3. d.stack[i - 1] = c.stack[i]
    BY <1>1, <2>2
  <2>4. ASSUME NEW j \in CallFrames(d) PROVE j >= i - 1
    <3>1. j + 1 >= i /\ j \in Nat
      BY <1>0, <2>1
    <3>2. QED
      BY <2>2, <3>1
  <2>5. QED
    BY <2>1, <2>2, <2>3, <2>4 DEF Innermost
<1>4. QED
  BY <1>2, <1>3

LEMMA DeeperOneCall ==
  ASSUME NEW c, NEW d, Deeper(c, d), At(c) # "call"
  PROVE  /\ CallFrames(c) = {} <=> CallFrames(d) = {}
         /\ (\A i, j \in CallFrames(c) : i = j)
              <=> (\A i, j \in CallFrames(d) : i = j)
<1>0. /\ \A i \in CallFrames(d) : i + 1 \in CallFrames(c)
      /\ \A i \in CallFrames(c) : i # 1 /\ i - 1 \in CallFrames(d)
      /\ CallFrames(c) \subseteq Nat \ {0} /\ CallFrames(d) \subseteq Nat
  BY DeeperCalls
<1>1. CallFrames(c) = {} <=> CallFrames(d) = {}
  BY <1>0
<1>2. ASSUME \A i, j \in CallFrames(c) : i = j,
             NEW i \in CallFrames(d), NEW j \in CallFrames(d)
      PROVE  i = j
  <2>1. i + 1 = j + 1 /\ i \in Nat /\ j \in Nat
    BY <1>0, <1>2
  <2>2. QED
    BY <2>1
<1>3. ASSUME \A i, j \in CallFrames(d) : i = j,
             NEW i \in CallFrames(c), NEW j \in CallFrames(c)
      PROVE  i = j
  <2>1. i - 1 = j - 1 /\ i \in Nat /\ j \in Nat
    BY <1>0, <1>3
  <2>2. QED
    BY <2>1
<1>4. QED
  BY <1>1, <1>2, <1>3

\* A frame that is not a call comes, called by the one below it, or goes.
LEMMA DeeperCallsOK ==
  ASSUME NEW c, NEW d, Deeper(c, d), At(c) # "call", SameLoop(c, d)
  PROVE  /\ CallsOK(c) => CallsOK(d)
         /\ CallsOK(d) /\ At(d) \in Caller[At(c)] => CallsOK(c)
<1>1. CurrentOK(c) <=> CurrentOK(d)
  BY DeeperInnermost DEF CurrentOK, SameLoop
<1>2. (ReplyOK(c) <=> ReplyOK(d)) /\ (OthersOK(c) <=> OthersOK(d))
  BY DEF ReplyOK, OthersOK, SameLoop
<1>3. /\ OneCallOK(c) <=> OneCallOK(d)
      /\ TimerOK(c) <=> TimerOK(d)
      /\ ReasonOK(c) <=> ReasonOK(d)
  BY DeeperOneCall DEF OneCallOK, TimerOK, ReasonOK, SameLoop
<1>4. /\ CallersOK(c) => CallersOK(d)
      /\ CallersOK(d) /\ At(d) \in Caller[At(c)] => CallersOK(c)
  BY DeeperStackOK
<1>5. QED
  BY <1>1, <1>2, <1>3, <1>4 DEF CallsOK, ShallowOK

LEMMA PushCallsOK ==
  ASSUME NEW c \in Channels, NEW m \in Messages \cup {NoMsg}, CallsOK(c),
         NEW at \in {"read", "dispatch", "idle", "async", "sync"},
         At(c) \in Caller[at]
  PROVE  CallsOK(Push(c, at, m))
<1> DEFINE d == Push(c, at, m)
<1>1. Deeper(d, c) /\ At(d) = at /\ SameLoop(d, c)
  BY PushedDeeper, PushSameLoop DEF SameLoop
<1> HIDE DEF d
<1>2. CallsOK(d)
  BY <1>1, DeeperCallsOK
<1>3. QED
  BY <1>2 DEF d

LEMMA PopCallsOK ==
  ASSUME NEW c \in Channels, c.stack # <<>>, At(c) # "call", CallsOK(c)
  PROVE  CallsOK(Pop(c))
BY PoppedDeeper, PopSameLoop, DeeperCallsOK

LEMMA LastSourceOfPassCallsOK ==
  ASSUME NEW c \in Channels, CallsOK(c)
  PROVE  LET d == LastSourceOfPass(c)
         IN  /\ CallsOK(d) /\ d.stack = c.stack /\ d.outgoing = c.outgoing
             /\ d.fd = c.fd /\ d.nextId = c.nextId
             /\ d.inNestedLoop = c.inNestedLoop
             /\ d.currSyncReply = c.currSyncReply
             /\ d.currSyncMessageId = c.currSyncMessageId
<1> DEFINE d == LastSourceOfPass(c)
<1>1. /\ SameCalls(c, d) /\ d.outgoing = c.outgoing /\ d.fd = c.fd
      /\ d.nextId = c.nextId
  BY DEF LastSourceOfPass, Channels, SameCalls, OthersOK
<1> HIDE DEF d
<1>2. CallsOK(d)
  BY <1>1, SameCallsOK
<1>3. QED
  BY <1>1, <1>2 DEF SameCalls, d

LEMMA TakeReplyCallsOK ==
  ASSUME NEW c \in Channels, NEW m \in Messages, CallsOK(c), c.inNestedLoop
  PROVE  CallsOK(TakeReply(c, m))
<1> DEFINE d == [c EXCEPT !.currSyncReply = m, !.nestedMainLoop = "stopped"]
<1>1. /\ d.stack = c.stack /\ d.inNestedLoop = c.inNestedLoop
      /\ d.currSyncMessageId = c.currSyncMessageId /\ d.currSyncReply = m
      /\ d.nestedMainLoop = "stopped"
      /\ d.nestedTimeoutSource = c.nestedTimeoutSource /\ d.timers = c.timers
      /\ d.otherThread = c.otherThread
  BY DEF Channels
<1>2. m # NoMsg
  BY MessageTypes
<1> HIDE DEF d
<1>3. CallFrames(d) = CallFrames(c)
  BY <1>1 DEF CallFrames
<1>4. ASSUME m.id = c.currSyncMessageId PROVE CallsOK(d)
  <2>1. CurrentOK(d) /\ ReplyOK(d) /\ OthersOK(d) /\ CallersOK(d)
    BY <1>1, <1>3, <1>4
       DEF CallsOK, CurrentOK, Innermost, ReplyOK, OthersOK, CallersOK, Below
  <2>2. ShallowOK(c)
          => OneCallOK(d) /\ TimerOK(d) /\ ReasonOK(d)
    BY <1>1, <1>2, <1>3
       DEF ShallowOK, OneCallOK, TimerOK, ReasonOK
  <2>3. QED
    BY <2>1, <2>2 DEF CallsOK, ShallowOK
<1>5. QED
  BY <1>4 DEF TakeReply, d

LEMMA TimeoutCallsOK ==
  ASSUME NEW c \in Channels, NEW t, CallsOK(c)
  PROVE  CallsOK(NestedLoopTimeout(c, t))
<1> DEFINE d == NestedLoopTimeout(c, t)
<1>1. /\ d.stack = c.stack /\ d.inNestedLoop = c.inNestedLoop
      /\ d.currSyncMessageId = c.currSyncMessageId
      /\ d.currSyncReply = c.currSyncReply
      /\ d.nestedMainLoop = "quitting" /\ d.syncCallTimedOut = TRUE
      /\ d.timers = c.timers \ {t, c.nestedTimeoutSource}
      /\ d.otherThread = c.otherThread /\ d.fd = c.fd
  BY DEF NestedLoopTimeout, Channels
<1> HIDE DEF d
<1>2. CallFrames(d) = CallFrames(c)
  BY <1>1 DEF CallFrames
<1>3. CurrentOK(d) /\ ReplyOK(d) /\ OthersOK(d) /\ CallersOK(d)
  BY <1>1, <1>2
     DEF CallsOK, CurrentOK, Innermost, ReplyOK, OthersOK, CallersOK, Below
<1>4. ShallowOK(c)
        => OneCallOK(d) /\ TimerOK(d) /\ ReasonOK(d)
  BY <1>1, <1>2 DEF ShallowOK, OneCallOK, TimerOK, ReasonOK
<1>5. QED
  BY <1>3, <1>4 DEF CallsOK, ShallowOK, d

LEMMA LeaveNestedLoopCallsOK ==
  ASSUME NEW c \in Channels, c.stack # <<>>, At(c) = "call", CallsOK(c)
  PROVE  CallsOK(LeaveNestedLoop(c))
<1> DEFINE d == LeaveNestedLoop(c)
<1>1. /\ d.stack = Pop(c).stack /\ d.inNestedLoop = FALSE
      /\ d.currSyncReply = NoMsg
      /\ d.timers = c.timers \ {c.nestedTimeoutSource}
      /\ d.otherThread = c.otherThread
  BY DEF LeaveNestedLoop, DestroyTimeout, Pop, Channels
<1> HIDE DEF d
<1>2. Deeper(c, d)
  BY <1>1, PoppedDeeper DEF Deeper
<1>3. CurrentOK(d) /\ ReplyOK(d) /\ OthersOK(d) /\ CallersOK(d)
  BY <1>1, <1>2, DeeperStackOK DEF CallsOK, CurrentOK, ReplyOK, OthersOK
<1>4. ASSUME ShallowOK(c) PROVE ShallowOK(d)
  <2>1. CallFrames(d) = {}
    <3>1. ASSUME NEW i \in CallFrames(d) PROVE FALSE
      <4>1. i + 1 \in CallFrames(c) /\ 1 \in CallFrames(c)
        BY <1>2, DeeperCalls
      <4>2. i + 1 = 1
        BY <1>4, <4>1 DEF ShallowOK, OneCallOK
      <4>3. i \in 1 .. Len(d.stack)
        BY <1>2 DEF Deeper, CallFrames
      <4>4. QED
        BY <4>2, <4>3
    <3>2. QED
      BY <3>1
  <2>2. d.timers = {}
    BY <1>1, <1>4 DEF ShallowOK, TimerOK
  <2>3. QED
    BY <2>1, <2>2 DEF ShallowOK, OneCallOK, TimerOK, ReasonOK
<1>5. QED
  BY <1>3, <1>4 DEF CallsOK, d

LEMMA ResumeMainLoopFields ==
  ASSUME NEW c \in Channels
  PROVE  LET d == ResumeMainLoop(c)
         IN  /\ SameCalls(c, d) /\ d.outgoing = c.outgoing /\ d.fd = c.fd
             /\ d.nextId = c.nextId
BY DEF ResumeMainLoop, ScheduleBuffered, AttachDispatcher, Channels, SameCalls,
       OthersOK

\* A channel that may make a call: what remains true while it flushes.
MayCall(c) ==
  /\ OthersOK(c) /\ CallersOK(c) /\ At(c) \in Caller["call"]
  /\ MaxDepth <= 1 => CallFrames(c) = {} /\ c.timers = {}

LEMMA NoCallYet ==
  ASSUME NEW c \in Channels, CallsOK(c), Depth(c) < MaxDepth,
         At(c) \in {"loop", "async", "sync"}
  PROVE  MayCall(c)
<1> SUFFICES ASSUME MaxDepth <= 1
             PROVE  CallFrames(c) = {} /\ c.timers = {}
  BY DEF MayCall, CallsOK, ShallowOK, Caller
<1>1. c.stack \in Seq(Frames)
  BY DEF Channels
<1>2. IsFiniteSet(CallFrames(c))
  <2>1. CallFrames(c) \subseteq 1 .. Len(c.stack)
    BY <1>1 DEF CallFrames
  <2>2. IsFiniteSet(1 .. Len(c.stack))
    BY <1>1, FS_Interval
  <2>3. QED
    BY <2>1, <2>2, FS_Subset
<1>3. Cardinality(CallFrames(c)) = 0
  <2>1. Cardinality(CallFrames(c)) \in Nat
    BY <1>2, FS_CardinalityType
  <2>2. Cardinality(CallFrames(c)) < MaxDepth
    BY DEF Depth, CallFrames
  <2>3. QED
    BY <2>1, <2>2, BoundsAssumption
<1>4. CallFrames(c) = {}
  BY <1>2, <1>3, FS_EmptySet
<1>5. ~c.inNestedLoop
  BY <1>4 DEF CallsOK, CurrentOK, Innermost
<1>6. c.timers = {}
  BY <1>5 DEF CallsOK, ShallowOK, TimerOK
<1>7. QED
  BY <1>4, <1>6

LEMMA FlushMayCall ==
  ASSUME NEW c \in Channels, NEW e, NEW o \in Flush(e, c), MayCall(c)
  PROVE  MayCall(o.ch)
<1>1. ASSUME o.ch.stack = c.stack, o.ch.timers = c.timers,
             o.ch.otherThread = c.otherThread
      PROVE  MayCall(o.ch)
  BY <1>1 DEF MayCall, OthersOK, CallersOK, Below, CallFrames, At
<1>2. CASE o.ch = Disconnected(c)
  BY <1>1, <1>2, DisconnectedFields
<1>3. CASE o.ch = Ended("crashed")
  <2>1. /\ o.ch.stack = <<>> /\ o.ch.timers = {} /\ o.ch.otherThread = <<>>
    BY <1>3 DEF Ended, NewChannel
  <2>2. QED
    BY <2>1 DEF MayCall, OthersOK, CallersOK, CallFrames, At, Caller
<1>4. CASE SameButOutput(c, o.ch)
  BY <1>1, <1>4 DEF SameButOutput
<1>5. QED
  BY <1>2, <1>3, <1>4, FlushEffect DEF FlushEnds

LEMMA EnterNestedLoopCallsOK ==
  ASSUME NEW c \in Channels, NEW m \in Messages, NEW timed \in BOOLEAN,
         MayCall(c),
         c.fd => /\ c.inNestedLoop /\ c.currSyncMessageId = m.id
                 /\ c.currSyncReply = NoMsg
  PROVE  CallsOK(EnterNestedLoop(c, m, timed))
<1>1. CASE c.fd
  <2> DEFINE s == StartNestedLoop(c, m, timed)
             d == Push(s, "call", m)
  <2>0. s \in Channels
    BY StartNestedLoopType
  <2>1. /\ s.stack = c.stack /\ s.inNestedLoop
        /\ s.currSyncMessageId = m.id /\ s.currSyncReply = NoMsg
        /\ s.nestedMainLoop = "running" /\ s.otherThread = c.otherThread
    BY <1>1 DEF StartNestedLoop, Channels
  <2>2. c.timers = {} => \A t \in s.timers : t = m.id /\ t = s.nestedTimeoutSource
    BY DEF StartNestedLoop, Channels
  <2> HIDE DEF s
  <2>3. Deeper(d, s) /\ At(d) = "call" /\ d.stack[1].msg = m /\ SameLoop(s, d)
    BY <2>0, PushedDeeper, PushSameLoop
  <2> HIDE DEF d
  <2>4. 1 \in CallFrames(d) /\ CallFrames(d) \subseteq Nat \ {0}
    BY <2>3, DeeperCalls
  <2>5. CurrentOK(d) /\ ReplyOK(d) /\ OthersOK(d) /\ CallersOK(d)
    <3>1. Innermost(d, m.id)
      BY <2>3, <2>4 DEF Innermost
    <3>2. d.currSyncMessageId = m.id /\ d.currSyncReply = NoMsg
          /\ d.otherThread = c.otherThread
      BY <2>1, <2>3 DEF SameLoop
    <3>3. CallersOK(s) /\ At(s) \in Caller["call"]
      BY <2>1 DEF MayCall, CallersOK, Below, At
    <3>4. CallersOK(d)
      BY <2>3, <3>3, DeeperStackOK
    <3>5. QED
      BY <3>1, <3>2, <3>4 DEF CurrentOK, ReplyOK, OthersOK, MayCall
  <2>6. ASSUME MaxDepth <= 1 PROVE ShallowOK(d)
    <3>1. CallFrames(s) = {}
      BY <2>1, <2>6 DEF MayCall, CallFrames
    <3>2. \A i \in CallFrames(d) : i = 1
      BY <2>3, <3>1, DeeperCalls
    <3>3. OneCallOK(d) /\ ReasonOK(d)
      BY <2>1, <2>3, <3>2 DEF OneCallOK, ReasonOK, SameLoop
    <3>4. TimerOK(d)
      BY <2>1, <2>2, <2>3, <2>6 DEF TimerOK, SameLoop, MayCall
    <3>5. QED
      BY <3>3, <3>4 DEF ShallowOK
  <2>7. CallsOK(d)
    BY <2>5, <2>6 DEF CallsOK
  <2>8. QED
    BY <1>1, <2>7 DEF EnterNestedLoop, d, s
<1>2. CASE ~c.fd
  <2> DEFINE d == AbandonCall(c, m)
  <2>1. /\ d.stack = c.stack /\ d.timers = c.timers /\ d.inNestedLoop = FALSE
        /\ d.currSyncReply = NoMsg /\ d.otherThread = c.otherThread
    BY DEF AbandonCall, Channels
  <2> HIDE DEF d
  <2>2. CurrentOK(d) /\ ReplyOK(d) /\ OthersOK(d) /\ CallersOK(d)
    BY <2>1 DEF CurrentOK, ReplyOK, OthersOK, CallersOK, Below, MayCall
  <2>3. MaxDepth <= 1 => ShallowOK(d)
    BY <2>1 DEF MayCall, ShallowOK, CallFrames, OneCallOK, TimerOK,
                ReasonOK
  <2>4. QED
    BY <1>2, <2>2, <2>3 DEF EnterNestedLoop, CallsOK, d
<1>3. QED
  BY <1>1, <1>2
-----------------------------------------------------------------------------
(***************************************************************************)
(* Requests and answers are neither lost nor made on the way.              *)
(***************************************************************************)
\* RequestOrAnswer of an end with channel c; its peer has channel d, has yet to
\* read there, and c has yet to read here.
Pending(c, d, there, here, i) ==
  Count(c.outgoing, SyncKinds, i) + Count(there, SyncKinds, i)
  + Handlers(d, i)
  + Count(d.outgoing, ReplyKinds, i) + Count(here, ReplyKinds, i)

LEMMA PendingType ==
  ASSUME NEW c \in Channels, NEW d \in Channels, NEW there \in Seq(Messages),
         NEW here \in Seq(Messages), NEW i
  PROVE  Pending(c, d, there, here, i) \in Nat
<1> DEFINE n1 == Count(c.outgoing, SyncKinds, i)
           n2 == Count(there, SyncKinds, i)
           n3 == Handlers(d, i)
           n4 == Count(d.outgoing, ReplyKinds, i)
           n5 == Count(here, ReplyKinds, i)
<1>1. c.outgoing \in Seq(Messages) /\ d.outgoing \in Seq(Messages)
  BY DEF Channels
<1>2. n1 \in Nat /\ n2 \in Nat /\ n4 \in Nat /\ n5 \in Nat
  BY <1>1, CountConcat
<1>3. n3 \in Nat
  BY HandlersAreHits
<1>4. Pending(c, d, there, here, i) = n1 + n2 + n3 + n4 + n5
  BY DEF Pending
<1> HIDE DEF n1, n2, n3, n4, n5
<1>5. QED
  BY <1>2, <1>3, <1>4

\* c adds messages to its output, sends some of it and has become d.
Writes(c, d, sent, added) == sent \o d.outgoing = c.outgoing \o added

\* How the messages of one of the kinds add up, there being what the peer has yet
\* to read.
Counted(c, d, there, sent, added, K, i) ==
  /\ Count(d.outgoing, K, i) + Count(there \o sent, K, i)
       = Count(c.outgoing, K, i) + Count(there, K, i) + Count(added, K, i)
  /\ Count(d.outgoing, K, i) \in Nat /\ Count(there \o sent, K, i) \in Nat
  /\ Count(c.outgoing, K, i) \in Nat /\ Count(there, K, i) \in Nat
  /\ Count(added, K, i) \in Nat

LEMMA CountWritten ==
  ASSUME NEW c \in Channels, NEW d \in Channels, NEW there \in Seq(Messages),
         NEW sent \in Seq(Messages), NEW added \in Seq(Messages),
         Writes(c, d, sent, added), NEW K, NEW i
  PROVE  Counted(c, d, there, sent, added, K, i)
<1>1. \A x, y \in Seq(Messages) :
        /\ Count(x \o y, K, i) = Count(x, K, i) + Count(y, K, i)
        /\ Count(x, K, i) \in Nat /\ Count(y, K, i) \in Nat
  BY CountConcat
<1> DEFINE out == c.outgoing
           rest == d.outgoing
           r == Count(rest, K, i)
           a == Count(added, K, i)
           t == Count(sent, K, i)
           o == Count(out, K, i)
           u == Count(there, K, i)
           w == Count(there \o sent, K, i)
<1>2. out \in Seq(Messages) /\ rest \in Seq(Messages)
  BY DEF Channels
<1>3. sent \o rest = out \o added
  BY DEF Writes
<1> HIDE DEF out, rest
<1>4. Count(sent \o rest, K, i) = t + r /\ Count(out \o added, K, i) = o + a
  BY <1>1, <1>2
<1>5. w = u + t
  BY <1>1
<1>6. r \in Nat /\ a \in Nat /\ t \in Nat /\ o \in Nat /\ u \in Nat
  BY <1>1, <1>2
<1>7. t + r = o + a
  BY <1>3, <1>4, Zenon
<1> HIDE DEF r, a, t, o, u, w
<1>8. r + w = o + u + a /\ w \in Nat
  BY <1>5, <1>6, <1>7
<1>9. QED
  BY <1>6, <1>8 DEF Counted, r, a, t, o, u, w, out, rest

\* That changes what is pending for c, and for its peer p, by what was added and
\* by the handlers that ended.
Balanced(c, d, p, there, here, sent, added, i) ==
  /\ Pending(d, p, there \o sent, here, i)
       = Pending(c, p, there, here, i) + Count(added, SyncKinds, i)
  /\ Handlers(d, i) + Count(added, ReplyKinds, i) = Handlers(c, i)
       => Pending(p, d, here, there \o sent, i) = Pending(p, c, here, there, i)

LEMMA PendingAfterWrite ==
  ASSUME NEW c \in Channels, NEW d \in Channels, NEW p \in Channels,
         NEW there \in Seq(Messages), NEW here \in Seq(Messages),
         NEW sent \in Seq(Messages), NEW added \in Seq(Messages),
         Writes(c, d, sent, added), NEW i
  PROVE  Balanced(c, d, p, there, here, sent, added, i)
<1>1. /\ c.outgoing \in Seq(Messages) /\ d.outgoing \in Seq(Messages)
      /\ p.outgoing \in Seq(Messages)
  BY DEF Channels
<1>2. /\ Counted(c, d, there, sent, added, SyncKinds, i)
      /\ Counted(c, d, there, sent, added, ReplyKinds, i)
  BY CountWritten, Zenon
<1> DEFINE
      S1 == Count(d.outgoing, SyncKinds, i)
      S2 == Count(there \o sent, SyncKinds, i)
      S3 == Count(c.outgoing, SyncKinds, i)
      S4 == Count(there, SyncKinds, i)
      S5 == Count(added, SyncKinds, i)
      R1 == Count(d.outgoing, ReplyKinds, i)
      R2 == Count(there \o sent, ReplyKinds, i)
      R3 == Count(c.outgoing, ReplyKinds, i)
      R4 == Count(there, ReplyKinds, i)
      R5 == Count(added, ReplyKinds, i)
      Ps == Count(p.outgoing, SyncKinds, i)
      Pr == Count(p.outgoing, ReplyKinds, i)
      Hs == Count(here, SyncKinds, i)
      Hr == Count(here, ReplyKinds, i)
      F1 == Handlers(d, i)
      F3 == Handlers(c, i)
      Fp == Handlers(p, i)
<1>3. /\ S1 + S2 = S3 + S4 + S5
      /\ S1 \in Nat /\ S2 \in Nat /\ S3 \in Nat /\ S4 \in Nat /\ S5 \in Nat
  BY <1>2 DEF Counted
<1>4. /\ R1 + R2 = R3 + R4 + R5
      /\ R1 \in Nat /\ R2 \in Nat /\ R3 \in Nat /\ R4 \in Nat /\ R5 \in Nat
  BY <1>2 DEF Counted
<1>5. Ps \in Nat /\ Pr \in Nat /\ Hs \in Nat /\ Hr \in Nat
  BY <1>1, CountConcat
<1>6. F1 \in Nat /\ F3 \in Nat /\ Fp \in Nat
  BY HandlersAreHits
<1>7. /\ Pending(d, p, there \o sent, here, i) = S1 + S2 + Fp + Pr + Hr
      /\ Pending(c, p, there, here, i) = S3 + S4 + Fp + Pr + Hr
      /\ Pending(p, d, here, there \o sent, i) = Ps + Hs + F1 + R1 + R2
      /\ Pending(p, c, here, there, i) = Ps + Hs + F3 + R3 + R4
  BY DEF Pending
<1> HIDE DEF S1, S2, S3, S4, S5, R1, R2, R3, R4, R5, Ps, Pr, Hs, Hr, F1, F3, Fp
<1>8. S1 + S2 + Fp + Pr + Hr = S3 + S4 + Fp + Pr + Hr + S5
  BY <1>3, <1>5, <1>6
<1>9. F1 + R5 = F3 => Ps + Hs + F1 + R1 + R2 = Ps + Hs + F3 + R3 + R4
  BY <1>4, <1>5, <1>6
<1>10. QED
  BY <1>7, <1>8, <1>9 DEF Balanced, S5, R5, F1, F3

\* A channel reads the first message of s.
LEMMA CountRead ==
  ASSUME NEW s \in Seq(Messages), s # <<>>, NEW K, NEW i
  PROVE  /\ Count(s, K, i)
              = (IF Head(s).kind \in K /\ Head(s).id = i THEN 1 ELSE 0)
                  + Count(Tail(s), K, i)
         /\ Count(Tail(s), K, i) \in Nat
<1>1. /\ <<Head(s)>> \in Seq(Messages) /\ Tail(s) \in Seq(Messages)
      /\ s = <<Head(s)>> \o Tail(s) /\ Head(s) \in Messages
  OBVIOUS
<1>2. \A x, y \in Seq(Messages) :
        /\ Count(x \o y, K, i) = Count(x, K, i) + Count(y, K, i)
        /\ Count(x, K, i) \in Nat /\ Count(y, K, i) \in Nat
  BY CountConcat
<1>3. Count(<<Head(s)>>, K, i)
        = IF Head(s).kind \in K /\ Head(s).id = i THEN 1 ELSE 0
  BY <1>1, CountOne
<1>4. Count(s, K, i) = Count(<<Head(s)>>, K, i) + Count(Tail(s), K, i)
      /\ Count(Tail(s), K, i) \in Nat
  BY <1>1, <1>2
<1>5. QED
  BY <1>3, <1>4

LEMMA PendingAfterRead ==
  ASSUME NEW c \in Channels, NEW d \in Channels, NEW p \in Channels,
         NEW there \in Seq(Messages), NEW here \in Seq(Messages), here # <<>>,
         d.outgoing = c.outgoing, NEW i,
         Handlers(d, i)
           = (IF Head(here).kind \in SyncKinds /\ Head(here).id = i
              THEN 1 ELSE 0) + Handlers(c, i)
  PROVE  /\ Pending(d, p, there, Tail(here), i) =< Pending(c, p, there, here, i)
         /\ ~(Head(here).kind \in ReplyKinds /\ Head(here).id = i)
              => Pending(d, p, there, Tail(here), i)
                   = Pending(c, p, there, here, i)
         /\ Pending(p, d, Tail(here), there, i) = Pending(p, c, here, there, i)
<1>1. c.outgoing \in Seq(Messages) /\ p.outgoing \in Seq(Messages)
  BY DEF Channels
<1> DEFINE
      isS == Head(here).kind \in SyncKinds /\ Head(here).id = i
      isR == Head(here).kind \in ReplyKinds /\ Head(here).id = i
      S1 == Count(here, SyncKinds, i)
      S2 == Count(Tail(here), SyncKinds, i)
      S3 == Count(c.outgoing, SyncKinds, i)
      S4 == Count(there, SyncKinds, i)
      Sp == Count(p.outgoing, SyncKinds, i)
      R1 == Count(here, ReplyKinds, i)
      R2 == Count(Tail(here), ReplyKinds, i)
      R3 == Count(c.outgoing, ReplyKinds, i)
      R4 == Count(there, ReplyKinds, i)
      Rp == Count(p.outgoing, ReplyKinds, i)
      F1 == Handlers(d, i)
      F3 == Handlers(c, i)
      Fp == Handlers(p, i)
<1>2. S1 = (IF isS THEN 1 ELSE 0) + S2 /\ S2 \in Nat
  BY CountRead
<1>3. R1 = (IF isR THEN 1 ELSE 0) + R2 /\ R2 \in Nat
  BY CountRead
<1>4. /\ S3 \in Nat /\ S4 \in Nat /\ Sp \in Nat
      /\ R3 \in Nat /\ R4 \in Nat /\ Rp \in Nat
  BY <1>1, CountConcat
<1>5. F3 \in Nat /\ Fp \in Nat /\ F1 = (IF isS THEN 1 ELSE 0) + F3
  BY HandlersAreHits
<1>6. /\ Pending(d, p, there, Tail(here), i) = S3 + S4 + Fp + Rp + R2
      /\ Pending(c, p, there, here, i) = S3 + S4 + Fp + Rp + R1
      /\ Pending(p, d, Tail(here), there, i) = Sp + S2 + F1 + R3 + R4
      /\ Pending(p, c, here, there, i) = Sp + S1 + F3 + R3 + R4
  BY DEF Pending
<1> HIDE DEF isS, isR, S1, S2, S3, S4, Sp, R1, R2, R3, R4, Rp, F1, F3, Fp
<1>7. /\ S3 + S4 + Fp + Rp + R2 =< S3 + S4 + Fp + Rp + R1
      /\ ~isR => S3 + S4 + Fp + Rp + R2 = S3 + S4 + Fp + Rp + R1
      /\ Sp + S2 + F1 + R3 + R4 = Sp + S1 + F3 + R3 + R4
  BY <1>2, <1>3, <1>4, <1>5
<1>8. QED
  BY <1>6, <1>7 DEF isR
-----------------------------------------------------------------------------
(***************************************************************************)
(* Calls is inductive.  A step of end x makes its channel d and leaves the *)
(* other end's as it was.                                                  *)
(***************************************************************************)
LEMMA PendingIs ==
  ASSUME TypeOK, NEW e \in Ends, NEW i
  PROVE  /\ RequestOrAnswer(e, i)
              = Pending(ch[e], ch[Peer(e)], sock[Peer(e)], sock[e], i)
         /\ RequestOrAnswer(e, i) \in Nat
<1>1. RequestOrAnswer(e, i)
        = Pending(ch[e], ch[Peer(e)], sock[Peer(e)], sock[e], i)
  BY DEF RequestOrAnswer, Pending, Handlers
<1>2. /\ ch[e] \in Channels /\ ch[Peer(e)] \in Channels
      /\ sock[Peer(e)] \in Seq(Messages) /\ sock[e] \in Seq(Messages)
  BY PeerType DEF TypeOK
<1>3. QED
  BY <1>1, <1>2, PendingType

LEMMA PeersPeer ==
  ASSUME NEW e \in Ends
  PROVE  /\ Peer(e) \in Ends /\ Peer(e) # e /\ Peer(Peer(e)) = e
         /\ \A f \in Ends : f = e \/ f = Peer(e)
BY EndsAssumption DEF Ends, Peer

\* The channel makes no new call and may only take the reply to the one it has.
KeepsCall(c, d) ==
  d.fd => /\ c.fd /\ d.nextId >= c.nextId
          /\ d.inNestedLoop /\ d.currSyncReply = NoMsg
               => /\ c.inNestedLoop /\ c.currSyncReply = NoMsg
                  /\ d.currSyncMessageId = c.currSyncMessageId

\* The calls of the other end.
LEMMA PeerServed ==
  ASSUME TypeOK, CallsServed, NEW x \in Ends, NEW d,
         ch' = [ch EXCEPT ![x] = d], d.fd => ch[x].fd,
         d.fd /\ ch[Peer(x)].fd =>
           \A i \in Nat : RequestOrAnswer(Peer(x), i)' = RequestOrAnswer(Peer(x), i)
  PROVE  /\ FreshOK(Peer(x))' /\ AnswerOK(Peer(x))'
         /\ ~(d.fd /\ ch[Peer(x)].fd) => CallsServed'
<1> DEFINE p == Peer(x)
<1>1. /\ p \in Ends /\ p # x /\ Peer(p) = x
      /\ \A f \in Ends : f = x \/ f = p
  BY PeersPeer
<1>2. ch'[x] = d /\ ch'[p] = ch[p] /\ ch[p] \in Channels
  BY <1>1 DEF TypeOK
<1>3. FreshOK(p) /\ AnswerOK(p)
  BY <1>1 DEF CallsServed
<1>4. CASE ~(d.fd /\ ch[p].fd)
  <2>1. FreshOK(x)' /\ FreshOK(p)' /\ AnswerOK(x)' /\ AnswerOK(p)'
    BY <1>1, <1>2, <1>4 DEF FreshOK, AnswerOK, Live
  <2>2. QED
    BY <1>1, <2>1 DEF CallsServed
<1>5. CASE d.fd /\ ch[p].fd
  <2>1. Live(p)
    BY <1>1, <1>5 DEF Live
  <2>2. \A i \in Nat : RequestOrAnswer(p, i)' = RequestOrAnswer(p, i)
    BY <1>5
  <2>3. ch[p].currSyncMessageId \in Nat
    BY <1>2 DEF Channels
  <2> HIDE DEF p
  <2>4. FreshOK(p)' /\ AnswerOK(p)'
    BY <1>2, <1>3, <2>1, <2>2, <2>3 DEF FreshOK, AnswerOK
  <2>5. QED
    BY <1>5, <2>4 DEF p
<1>6. QED
  BY <1>4, <1>5

\* The calls of end x, when nothing was added to its own requests.
LEMMA ServedStep ==
  ASSUME TypeOK, TypeOK', CallsServed, NEW x \in Ends, NEW d,
         ch' = [ch EXCEPT ![x] = d],
         KeepsCall(ch[x], d),
         d.fd /\ ch[Peer(x)].fd =>
           \A i \in Nat :
             /\ RequestOrAnswer(x, i)' =< RequestOrAnswer(x, i)
             /\ RequestOrAnswer(x, i)' \in Nat
             /\ d.inNestedLoop /\ d.currSyncReply = NoMsg
                /\ d.currSyncMessageId = i
                  => RequestOrAnswer(x, i)' = RequestOrAnswer(x, i)
             /\ RequestOrAnswer(Peer(x), i)' = RequestOrAnswer(Peer(x), i)
  PROVE  CallsServed'
<1> DEFINE c == ch[x]
           p == Peer(x)
<1>1. \A f \in Ends : f = x \/ f = p
  BY PeersPeer
<1>2. ch'[x] = d /\ ch[x] \in Channels /\ d \in Channels
  BY DEF TypeOK
<1>3. FreshOK(x) /\ AnswerOK(x)
  BY DEF CallsServed
<1>4. /\ FreshOK(p)' /\ AnswerOK(p)'
      /\ ~(d.fd /\ ch[p].fd) => CallsServed'
  <2>1. d.fd => ch[x].fd
    BY DEF KeepsCall
  <2>2. d.fd /\ ch[p].fd =>
          \A i \in Nat : RequestOrAnswer(p, i)' = RequestOrAnswer(p, i)
    OBVIOUS
  <2>3. QED
    BY <2>1, <2>2, PeerServed
<1> HIDE DEF p
<1>5. SUFFICES ASSUME d.fd, ch[p].fd
               PROVE  FreshOK(x)' /\ AnswerOK(x)'
  BY <1>1, <1>4 DEF CallsServed
<1>6. Live(x)
  BY <1>5 DEF Live, KeepsCall, p
<1>7. \A i \in Nat : i >= d.nextId => RequestOrAnswer(x, i)' = 0
  <2> SUFFICES ASSUME NEW i \in Nat, i >= d.nextId
               PROVE  RequestOrAnswer(x, i)' = 0
    OBVIOUS
  <2>1. c.nextId \in Nat /\ d.nextId \in Nat
    BY <1>2 DEF Channels
  <2>2. d.nextId >= c.nextId
    BY <1>5 DEF KeepsCall
  <2>3. i >= c.nextId
    BY <2>1, <2>2
  <2>4. RequestOrAnswer(x, i) = 0
    BY <1>3, <1>6, <2>3 DEF FreshOK
  <2>5. RequestOrAnswer(x, i)' \in Nat /\ RequestOrAnswer(x, i)' =< 0
    BY <1>5, <2>4 DEF p
  <2>6. QED
    BY <2>5
<1>8. ASSUME d.inNestedLoop, d.currSyncReply = NoMsg
      PROVE  RequestOrAnswer(x, d.currSyncMessageId)' = 1
  <2>1. d.currSyncMessageId \in Nat
    BY <1>2 DEF Channels
  <2>2. RequestOrAnswer(x, d.currSyncMessageId)'
          = RequestOrAnswer(x, d.currSyncMessageId)
    BY <1>5, <1>8, <2>1 DEF p
  <2>3. RequestOrAnswer(x, d.currSyncMessageId) = 1
    BY <1>3, <1>5, <1>6, <1>8 DEF AnswerOK, KeepsCall
  <2>4. QED
    BY <2>2, <2>3
<1>9. QED
  BY <1>2, <1>7, <1>8 DEF FreshOK, AnswerOK

LEMMA CallsStep ==
  ASSUME TypeOK, Calls, NEW x \in Ends, NEW d,
         ch' = [ch EXCEPT ![x] = d], CallsOK(d), CallsServed'
  PROVE  Calls'
<1>1. ASSUME NEW e \in Ends PROVE CallsOK(ch'[e])
  <2>1. ch'[e] = IF e = x THEN d ELSE ch[e]
    BY DEF TypeOK
  <2>2. QED
    BY <2>1 DEF Calls
<1>2. (\A e \in Ends : CallsOK(ch[e]))'
  <2>1. \A e \in Ends : CallsOK(ch[e])' <=> CallsOK(ch'[e])
    BY DEF CallsOK, CurrentOK, ReplyOK, OthersOK, CallersOK, ShallowOK,
           OneCallOK, TimerOK, ReasonOK, Innermost, CallFrames, Below
  <2>2. QED
    BY <1>1, <2>1
<1>3. QED
  BY <1>2 DEF Calls

LEMMA CountOther ==
  ASSUME NEW s, NEW K, \A j \in DOMAIN s : s[j].kind \notin K, NEW i
  PROVE  Count(s, K, i) = 0
<1>1. {j \in DOMAIN s : s[j].kind \in K /\ s[j].id = i} = {}
  OBVIOUS
<1>2. QED
  BY <1>1, FS_EmptySet DEF Count

\* What is pending before and after a step that sends.
LEMMA PendingStep ==
  ASSUME TypeOK, NEW x \in Ends, NEW d \in Channels, NEW sent \in Seq(Messages),
         ch' = [ch EXCEPT ![x] = d],
         sock' = [sock EXCEPT ![Peer(x)] = @ \o sent],
         NEW added \in Seq(Messages), Writes(ch[x], d, sent, added),
         NEW i \in Nat
  PROVE  /\ RequestOrAnswer(x, i)'
              = RequestOrAnswer(x, i) + Count(added, SyncKinds, i)
         /\ RequestOrAnswer(x, i) \in Nat
         /\ Handlers(d, i) + Count(added, ReplyKinds, i) = Handlers(ch[x], i)
              => RequestOrAnswer(Peer(x), i)' = RequestOrAnswer(Peer(x), i)
<1> DEFINE c == ch[x]
           p == Peer(x)
<1>1. p \in Ends /\ p # x /\ Peer(p) = x
  BY PeersPeer
<1>2. /\ c \in Channels /\ ch[p] \in Channels
      /\ sock[p] \in Seq(Messages) /\ sock[x] \in Seq(Messages)
      /\ ch'[x] = d /\ ch'[p] = ch[p]
      /\ sock'[p] = sock[p] \o sent /\ sock'[x] = sock[x]
  BY <1>1 DEF TypeOK
<1>3. /\ RequestOrAnswer(x, i) = Pending(c, ch[p], sock[p], sock[x], i)
      /\ RequestOrAnswer(x, i) \in Nat
  BY PendingIs
<1>4. RequestOrAnswer(p, i) = Pending(ch[p], c, sock[x], sock[p], i)
  BY <1>1, PendingIs
<1>5. RequestOrAnswer(x, i)'
        = Pending(d, ch[p], sock[p] \o sent, sock[x], i)
  <2>1. RequestOrAnswer(x, i)'
          = Pending(ch'[x], ch'[p], sock'[p], sock'[x], i)
    BY DEF RequestOrAnswer, Pending, Handlers
  <2>2. QED
    BY <1>2, <2>1
<1>6. RequestOrAnswer(p, i)'
        = Pending(ch[p], d, sock[x], sock[p] \o sent, i)
  <2>1. RequestOrAnswer(p, i)'
          = Pending(ch'[p], ch'[x], sock'[x], sock'[p], i)
    BY <1>1 DEF RequestOrAnswer, Pending, Handlers
  <2>2. QED
    BY <1>2, <2>1
<1>7. Balanced(c, d, ch[p], sock[p], sock[x], sent, added, i)
  BY <1>2, PendingAfterWrite, Zenon
<1>8. QED
  BY <1>3, <1>4, <1>5, <1>6, <1>7 DEF Balanced

\* A step that adds no request, and with each reply ends a handler.
LEMMA WriteStep ==
  ASSUME TypeOK, TypeOK', Calls, NEW x \in Ends, NEW d,
         NEW sent \in Seq(Messages), NEW added \in Seq(Messages),
         ch' = [ch EXCEPT ![x] = d],
         sock' = [sock EXCEPT ![Peer(x)] = @ \o sent],
         CallsOK(d), KeepsCall(ch[x], d),
         d.fd => /\ Writes(ch[x], d, sent, added)
                 /\ \A i \in Nat : Count(added, SyncKinds, i) = 0
                 /\ \A i \in Nat : Handlers(d, i) + Count(added, ReplyKinds, i)
                                     = Handlers(ch[x], i)
  PROVE  Calls'
<1>1. d \in Channels
  BY DEF TypeOK
<1>2. ASSUME d.fd, NEW i \in Nat
      PROVE  /\ RequestOrAnswer(x, i)' = RequestOrAnswer(x, i)
             /\ RequestOrAnswer(x, i) \in Nat
             /\ RequestOrAnswer(Peer(x), i)' = RequestOrAnswer(Peer(x), i)
  <2>1. /\ RequestOrAnswer(x, i)'
             = RequestOrAnswer(x, i) + Count(added, SyncKinds, i)
        /\ RequestOrAnswer(x, i) \in Nat
        /\ Handlers(d, i) + Count(added, ReplyKinds, i) = Handlers(ch[x], i)
             => RequestOrAnswer(Peer(x), i)' = RequestOrAnswer(Peer(x), i)
    BY <1>1, <1>2, PendingStep
  <2>2. /\ Count(added, SyncKinds, i) = 0
        /\ Handlers(d, i) + Count(added, ReplyKinds, i) = Handlers(ch[x], i)
    BY <1>2
  <2>3. QED
    BY <2>1, <2>2
<1>3. ASSUME d.fd, NEW i \in Nat
      PROVE  /\ RequestOrAnswer(x, i)' =< RequestOrAnswer(x, i)
             /\ RequestOrAnswer(x, i)' \in Nat
             /\ RequestOrAnswer(x, i)' = RequestOrAnswer(x, i)
             /\ RequestOrAnswer(Peer(x), i)' = RequestOrAnswer(Peer(x), i)
  BY <1>2, <1>3
<1>4. CallsServed'
  BY <1>3, ServedStep DEF Calls
<1>5. QED
  BY <1>4, CallsStep

\* A step that neither writes nor reads, nor finishes a handler.
LEMMA LocalStep ==
  ASSUME TypeOK, TypeOK', Calls, NEW x \in Ends, NEW d,
         ch' = [ch EXCEPT ![x] = d], sock' = sock,
         CallsOK(d), KeepsCall(ch[x], d),
         d.fd => /\ d.outgoing = ch[x].outgoing
                 /\ \A i \in Nat : Handlers(d, i) = Handlers(ch[x], i)
  PROVE  Calls'
<1> DEFINE none == <<>>
<1>1. none \in Seq(Messages)
  OBVIOUS
<1>2. /\ ch[x] \in Channels /\ d \in Channels
      /\ sock[Peer(x)] \in Seq(Messages) /\ Peer(x) \in Ends
  BY PeersPeer DEF TypeOK
<1>3. sock' = [sock EXCEPT ![Peer(x)] = @ \o none]
  BY <1>2 DEF TypeOK
<1>4. d.fd => Writes(ch[x], d, none, none)
  BY <1>2 DEF Channels, Writes
<1>5. \A K, i : Count(none, K, i) = 0
  BY CountNone
<1> HIDE DEF none
<1>6. \A i \in Nat : Handlers(ch[x], i) \in Nat
  BY <1>2, HandlersAreHits
<1>7. d.fd => /\ \A i \in Nat : Count(none, SyncKinds, i) = 0
              /\ \A i \in Nat : Handlers(d, i) + Count(none, ReplyKinds, i)
                                  = Handlers(ch[x], i)
  BY <1>5, <1>6
<1>8. QED
  BY <1>1, <1>3, <1>4, <1>7, WriteStep

LEMMA KindsDisjoint ==
  \A k : /\ k \in SyncKinds => k \notin ReplyKinds
         /\ k \in AsyncKinds => k \notin SyncKinds /\ k \notin ReplyKinds
         /\ k \in ReplyKinds => k \notin SyncKinds
BY DEF SyncKinds, ReplyKinds, AsyncKinds

\* A step that adds request m and waits for the answer.
LEMMA RequestStep ==
  ASSUME TypeOK, TypeOK', Calls, NEW x \in Ends, NEW d,
         NEW sent \in Seq(Messages), NEW m \in Messages, m.kind \in SyncKinds,
         NEW n, n = ch[x].nextId,
         ch' = [ch EXCEPT ![x] = d],
         sock' = [sock EXCEPT ![Peer(x)] = @ \o sent],
         CallsOK(d),
         d.fd => /\ ch[x].fd /\ Writes(ch[x], d, sent, <<m>>)
                 /\ m.id = n /\ d.nextId = n + 1
                 /\ d.inNestedLoop /\ d.currSyncMessageId = m.id
                 /\ \A i \in Nat : Handlers(d, i) = Handlers(ch[x], i)
  PROVE  Calls'
<1> DEFINE p == Peer(x)
           added == <<m>>
<1>0. d \in Channels /\ ch[x] \in Channels /\ ch'[x] = d
  BY DEF TypeOK
<1>1. /\ d \in Channels /\ ch[x] \in Channels /\ ch'[x] = d
      /\ added \in Seq(Messages) /\ n \in Nat
  BY <1>0 DEF Channels
<1>2. CallsServed /\ FreshOK(x)
  BY DEF Calls, CallsServed
<1>3. ASSUME NEW i \in Nat
      PROVE  /\ Count(added, SyncKinds, i) = IF m.id = i THEN 1 ELSE 0
             /\ Count(added, ReplyKinds, i) = 0
  <2>1. m.kind \notin ReplyKinds
    BY KindsDisjoint
  <2>2. QED
    BY <2>1, CountOne
<1> HIDE DEF added
<1>4. ASSUME d.fd, NEW i \in Nat
      PROVE  /\ RequestOrAnswer(x, i)'
                  = RequestOrAnswer(x, i) + IF i = n THEN 1 ELSE 0
             /\ RequestOrAnswer(x, i) \in Nat
             /\ RequestOrAnswer(p, i)' = RequestOrAnswer(p, i)
  <2>1. Writes(ch[x], d, sent, added)
    BY <1>4 DEF added
  <2>2. /\ RequestOrAnswer(x, i)'
             = RequestOrAnswer(x, i) + Count(added, SyncKinds, i)
        /\ RequestOrAnswer(x, i) \in Nat
        /\ Handlers(d, i) + Count(added, ReplyKinds, i) = Handlers(ch[x], i)
             => RequestOrAnswer(Peer(x), i)' = RequestOrAnswer(Peer(x), i)
    <3>1. d \in Channels /\ added \in Seq(Messages)
      BY <1>1
    <3>2. QED
      BY <2>1, <3>1, PendingStep
  <2>3. Handlers(d, i) = Handlers(ch[x], i) /\ Handlers(ch[x], i) \in Nat
    BY <1>1, <1>4, HandlersAreHits
  <2>4. m.id = n
    BY <1>4
  <2>5. QED
    BY <1>3, <2>2, <2>3, <2>4
<1>5. /\ FreshOK(p)' /\ AnswerOK(p)'
      /\ ~(d.fd /\ ch[p].fd) => CallsServed'
  BY <1>2, <1>4, PeerServed
<1>6. ASSUME d.fd, ch[p].fd PROVE FreshOK(x)' /\ AnswerOK(x)'
  <2>1. \A i \in Nat : i >= n => RequestOrAnswer(x, i) = 0
    BY <1>2, <1>6 DEF FreshOK, Live
  <2>2. ASSUME NEW i \in Nat, i >= n + 1 PROVE RequestOrAnswer(x, i)' = 0
    <3>1. i >= n /\ i # n
      BY <1>1, <2>2
    <3>2. RequestOrAnswer(x, i) = 0
      BY <2>1, <3>1
    <3>3. QED
      BY <1>4, <1>6, <3>1, <3>2
  <2>3. RequestOrAnswer(x, n)' = 1
    <3>1. RequestOrAnswer(x, n) = 0
      BY <1>1, <2>1
    <3>2. RequestOrAnswer(x, n)' = RequestOrAnswer(x, n) + 1
      BY <1>1, <1>4, <1>6
    <3>3. QED
      BY <3>1, <3>2
  <2>4. d.nextId = n + 1 /\ d.currSyncMessageId = n
    BY <1>6
  <2>5. \A i \in Nat : i >= d.nextId => RequestOrAnswer(x, i)' = 0
    BY <2>2, <2>4
  <2>6. RequestOrAnswer(x, d.currSyncMessageId)' = 1
    BY <2>3, <2>4
  <2>7. QED
    BY <1>1, <2>5, <2>6 DEF FreshOK, AnswerOK
<1>7. CallsServed'
  <2>1. \A f \in Ends : f = x \/ f = p
    BY PeersPeer
  <2>2. QED
    BY <1>5, <1>6, <2>1 DEF CallsServed
<1>8. QED
  BY <1>7, CallsStep

\* A step that reads a message: a request starts its handler, an answer may end
\* the call it belongs to and no other.
LEMMA ReadStep ==
  ASSUME TypeOK, TypeOK', Calls, NEW x \in Ends, NEW d,
         sock[x] # <<>>, ch' = [ch EXCEPT ![x] = d],
         sock' = [sock EXCEPT ![x] = Tail(@)],
         CallsOK(d), KeepsCall(ch[x], d), d.outgoing = ch[x].outgoing,
         \A i \in Nat : Handlers(d, i)
           = (IF Head(sock[x]).kind \in SyncKinds /\ Head(sock[x]).id = i
              THEN 1 ELSE 0) + Handlers(ch[x], i),
         d.inNestedLoop /\ d.currSyncReply = NoMsg =>
           ~(/\ Head(sock[x]).kind \in ReplyKinds
             /\ Head(sock[x]).id = d.currSyncMessageId)
  PROVE  Calls'
<1> DEFINE c == ch[x]
           p == Peer(x)
           here == sock[x]
<1>1. p \in Ends /\ p # x /\ Peer(p) = x
  BY PeersPeer
<1>2. /\ c \in Channels /\ d \in Channels /\ ch[p] \in Channels
      /\ sock[p] \in Seq(Messages) /\ here \in Seq(Messages)
      /\ Tail(here) \in Seq(Messages)
      /\ ch'[x] = d /\ ch'[p] = ch[p]
      /\ sock'[p] = sock[p] /\ sock'[x] = Tail(here)
  BY <1>1 DEF TypeOK
<1>3. ASSUME NEW i \in Nat
      PROVE  /\ RequestOrAnswer(x, i)' =< RequestOrAnswer(x, i)
             /\ RequestOrAnswer(x, i)' \in Nat
             /\ ~(Head(here).kind \in ReplyKinds /\ Head(here).id = i)
                  => RequestOrAnswer(x, i)' = RequestOrAnswer(x, i)
             /\ RequestOrAnswer(p, i)' = RequestOrAnswer(p, i)
  <2>1. /\ RequestOrAnswer(x, i) = Pending(c, ch[p], sock[p], here, i)
        /\ RequestOrAnswer(p, i) = Pending(ch[p], c, here, sock[p], i)
    BY <1>1, PendingIs
  <2>2. RequestOrAnswer(x, i)' = Pending(d, ch[p], sock[p], Tail(here), i)
    <3>1. RequestOrAnswer(x, i)'
            = Pending(ch'[x], ch'[p], sock'[p], sock'[x], i)
      BY DEF RequestOrAnswer, Pending, Handlers
    <3>2. QED
      BY <1>2, <3>1
  <2>3. RequestOrAnswer(p, i)' = Pending(ch[p], d, Tail(here), sock[p], i)
    <3>1. RequestOrAnswer(p, i)'
            = Pending(ch'[p], ch'[x], sock'[x], sock'[p], i)
      BY <1>1 DEF RequestOrAnswer, Pending, Handlers
    <3>2. QED
      BY <1>2, <3>1
  <2>4. Handlers(d, i)
          = (IF Head(here).kind \in SyncKinds /\ Head(here).id = i
             THEN 1 ELSE 0) + Handlers(c, i)
    OBVIOUS
  <2>5. Pending(d, ch[p], sock[p], Tail(here), i) \in Nat
    BY <1>2, PendingType
  <2> DEFINE q == ch[p]
             there == sock[p]
  <2>6. q \in Channels /\ there \in Seq(Messages) /\ here # <<>>
        /\ d.outgoing = c.outgoing
    BY <1>2
  <2> HIDE DEF c, here, q, there
  <2>7. /\ Pending(d, q, there, Tail(here), i) =< Pending(c, q, there, here, i)
        /\ ~(Head(here).kind \in ReplyKinds /\ Head(here).id = i)
             => Pending(d, q, there, Tail(here), i) = Pending(c, q, there, here, i)
        /\ Pending(q, d, Tail(here), there, i) = Pending(q, c, here, there, i)
    BY <1>2, <2>4, <2>6, PendingAfterRead
  <2>8. QED
    BY <2>1, <2>2, <2>3, <2>5, <2>7 DEF q, there
<1>4. CallsServed'
  <2>1. ASSUME NEW i \in Nat
        PROVE  /\ RequestOrAnswer(x, i)' =< RequestOrAnswer(x, i)
               /\ RequestOrAnswer(x, i)' \in Nat
               /\ d.inNestedLoop /\ d.currSyncReply = NoMsg
                  /\ d.currSyncMessageId = i
                    => RequestOrAnswer(x, i)' = RequestOrAnswer(x, i)
               /\ RequestOrAnswer(Peer(x), i)' = RequestOrAnswer(Peer(x), i)
    BY <1>3
  <2>2. QED
    BY <2>1, ServedStep DEF Calls
<1>5. QED
  BY <1>4, CallsStep

LEMMA FlushLive ==
  ASSUME NEW c \in Channels, NEW e, NEW o \in Flush(e, c), o.ch.fd
  PROVE  SameButOutput(c, o.ch) /\ o.sent \o o.ch.outgoing = c.outgoing
<1>1. ~Disconnected(c).fd /\ ~Ended("crashed").fd
  BY DisconnectedFields, EndedType
<1>2. QED
  BY <1>1, FlushEffect DEF FlushEnds

\* A step that makes the channel f and flushes it; then the process may stop.
LEMMA FlushStep ==
  ASSUME TypeOK, TypeOK', Calls, NEW x \in Ends, NEW f \in Channels,
         NEW o \in Flush(x, f), NEW d,
         d = o.ch \/ d = [o.ch EXCEPT !.proc = "stopped"],
         ch' = [ch EXCEPT ![x] = d],
         sock' = [sock EXCEPT ![Peer(x)] = @ \o o.sent],
         NEW added \in Seq(Messages), f.outgoing = ch[x].outgoing \o added,
         CallsOK(f), KeepsCall(ch[x], f),
         \A i \in Nat : Count(added, SyncKinds, i) = 0,
         \A i \in Nat : Handlers(f, i) + Count(added, ReplyKinds, i)
                          = Handlers(ch[x], i)
  PROVE  Calls'
<1>1. o.ch \in Channels /\ o.sent \in Seq(Messages)
  BY FlushType DEF Outcomes
<1>3. /\ d.fd = o.ch.fd /\ d.outgoing = o.ch.outgoing /\ d.stack = o.ch.stack
      /\ d.nextId = o.ch.nextId /\ d.inNestedLoop = o.ch.inNestedLoop
      /\ d.currSyncReply = o.ch.currSyncReply
      /\ d.currSyncMessageId = o.ch.currSyncMessageId
      /\ SameCalls(o.ch, d)
  <2> DEFINE b == o.ch
             s == [b EXCEPT !.proc = "stopped"]
  <2>1. /\ s.fd = b.fd /\ s.outgoing = b.outgoing /\ s.stack = b.stack
        /\ s.nextId = b.nextId /\ s.inNestedLoop = b.inNestedLoop
        /\ s.currSyncReply = b.currSyncReply
        /\ s.currSyncMessageId = b.currSyncMessageId
        /\ SameCalls(b, s)
    BY <1>1 DEF Channels, SameCalls, OthersOK
  <2>2. SameCalls(b, b)
    BY DEF SameCalls
  <2> HIDE DEF b
  <2>3. d = b \/ d = s
    BY DEF b
  <2>4. QED
    BY <2>1, <2>2, <2>3 DEF b
<1>4. CallsOK(d)
  BY <1>3, FlushCallsOK, SameCallsOK
<1>5. d.fd => /\ SameButOutput(f, o.ch)
              /\ o.sent \o d.outgoing = ch[x].outgoing \o added
  BY <1>3, FlushLive
<1>6. KeepsCall(ch[x], d)
  BY <1>3, <1>5 DEF KeepsCall, SameButOutput
<1>7. d.fd => d.stack = f.stack
  BY <1>3, <1>5 DEF SameButOutput
<1>8. d.fd => \A i \in Nat : Handlers(d, i) = Handlers(f, i)
  BY <1>7 DEF Handlers
<1>9. d.fd => /\ Writes(ch[x], d, o.sent, added)
              /\ \A i \in Nat : Count(added, SyncKinds, i) = 0
              /\ \A i \in Nat : Handlers(d, i) + Count(added, ReplyKinds, i)
                                  = Handlers(ch[x], i)
  BY <1>5, <1>8 DEF Writes
<1>10. QED
  BY <1>1, <1>4, <1>6, <1>9, WriteStep

\* A step that flushes asynchronous messages, on the same stack or a smaller one.
LEMMA AsyncFlushStep ==
  ASSUME TypeOK, TypeOK', Calls, NEW x \in Ends, NEW f \in Channels,
         \E o \in Flush(x, f) : Take(x, o),
         NEW added \in Seq(Messages), f.outgoing = ch[x].outgoing \o added,
         \A j \in DOMAIN added : added[j].kind \in AsyncKinds,
         CallsOK(f), KeepsCall(ch[x], f),
         \A i \in Nat : Handlers(f, i) = Handlers(ch[x], i)
  PROVE  Calls'
<1>1. PICK o \in Flush(x, f) : Take(x, o)
  OBVIOUS
<1>2. ch' = [ch EXCEPT ![x] = o.ch] /\ sock' = [sock EXCEPT ![Peer(x)] = @ \o o.sent]
  BY <1>1 DEF Take
<1>3. \A j \in DOMAIN added : /\ added[j].kind \notin SyncKinds
                              /\ added[j].kind \notin ReplyKinds
  BY KindsDisjoint
<1>4. \A i \in Nat : /\ Count(added, SyncKinds, i) = 0
                     /\ Count(added, ReplyKinds, i) = 0
  BY <1>3, CountOther
<1>5. \A i \in Nat : Handlers(ch[x], i) \in Nat
  BY HandlersAreHits DEF TypeOK
<1>6. /\ \A i \in Nat : Count(added, SyncKinds, i) = 0
      /\ \A i \in Nat : Handlers(f, i) + Count(added, ReplyKinds, i)
                          = Handlers(ch[x], i)
  <2>1. ASSUME NEW i \in Nat
        PROVE  Handlers(f, i) + Count(added, ReplyKinds, i) = Handlers(ch[x], i)
    <3>1. /\ Handlers(f, i) = Handlers(ch[x], i) /\ Handlers(ch[x], i) \in Nat
          /\ Count(added, ReplyKinds, i) = 0
      BY <1>4, <1>5
    <3>2. QED
      BY <3>1
  <2>2. QED
    BY <1>4, <2>1
<1>7. ASSUME NEW d, d = o.ch PROVE Calls'
  <2>1. ch' = [ch EXCEPT ![x] = d]
    BY <1>2, <1>7
  <2>2. d = o.ch \/ d = [o.ch EXCEPT !.proc = "stopped"]
    BY <1>7
  <2>3. QED
    BY <1>2, <1>6, <2>1, <2>2, FlushStep
<1>8. QED
  BY <1>7

LEMMA CallsInit == Init => Calls
<1> SUFFICES ASSUME Init PROVE Calls
  OBVIOUS
<1>1. /\ NewChannel.inNestedLoop = FALSE /\ NewChannel.currSyncReply = NoMsg
      /\ NewChannel.otherThread = <<>> /\ NewChannel.stack = <<>>
      /\ NewChannel.timers = {} /\ NewChannel.outgoing = <<>>
  BY DEF NewChannel
<1>2. CallFrames(NewChannel) = {}
  BY <1>1 DEF CallFrames
<1>3. CallsOK(NewChannel)
  BY <1>1, <1>2 DEF CallsOK, CurrentOK, ReplyOK, OthersOK, CallersOK, ShallowOK,
                    OneCallOK, TimerOK, ReasonOK
<1>4. \A e \in Ends : ch[e] = NewChannel /\ sock[e] = <<>>
  BY DEF Init
<1>5. \A i : Handlers(NewChannel, i) = 0
  <2>1. \A i : {j \in DOMAIN NewChannel.stack :
                  /\ NewChannel.stack[j].at = "sync"
                  /\ NewChannel.stack[j].msg.id = i} = {}
    BY <1>1
  <2>2. QED
    BY <2>1, FS_EmptySet DEF Handlers
<1>6. \A i : Pending(NewChannel, NewChannel, <<>>, <<>>, i) = 0
  BY <1>1, <1>5, CountNone DEF Pending
<1>7. ASSUME NEW e \in Ends PROVE FreshOK(e) /\ AnswerOK(e)
  <2>1. \A i : RequestOrAnswer(e, i) = 0
    <3>1. \A i : RequestOrAnswer(e, i)
                   = Pending(ch[e], ch[Peer(e)], sock[Peer(e)], sock[e], i)
      BY TypeInit, PendingIs
    <3>2. QED
      BY <1>4, <1>6, <3>1, PeerType
  <2>2. ~ch[e].inNestedLoop
    BY <1>1, <1>4
  <2>3. QED
    BY <2>1, <2>2 DEF FreshOK, AnswerOK
<1>8. QED
  BY <1>3, <1>4, <1>7 DEF Calls, CallsServed

LEMMA CallsStutter ==
  ASSUME Calls, UNCHANGED vars
  PROVE  Calls'
<1>1. \A e \in Ends : CallsOK(ch[e])' <=> CallsOK(ch[e])
  BY DEF vars, CallsOK, CurrentOK, ReplyOK, OthersOK, CallersOK, ShallowOK,
         OneCallOK, TimerOK, ReasonOK, Innermost, CallFrames, Below
<1>2. \A e \in Ends : /\ FreshOK(e)' <=> FreshOK(e)
                      /\ AnswerOK(e)' <=> AnswerOK(e)
  BY DEF vars, FreshOK, AnswerOK, Live, RequestOrAnswer
<1>3. QED
  BY <1>1, <1>2 DEF Calls, CallsServed

LEMMA KeepsOwnCall ==
  ASSUME NEW c \in Channels, NEW d, SameCalls(c, d), d.nextId = c.nextId
  PROVE  KeepsCall(c, d)
BY DEF SameCalls, KeepsCall, Channels

LEMMA SameHandlers ==
  ASSUME NEW c, NEW d, d.stack = c.stack
  PROVE  \A i \in Nat : Handlers(d, i) = Handlers(c, i)
BY DEF Handlers

\* A step that touches neither calls, nor stack, nor output.
LEMMA SameCallsStep ==
  ASSUME TypeOK, TypeOK', Calls, NEW x \in Ends, NEW d,
         ch' = [ch EXCEPT ![x] = d], sock' = sock,
         SameCalls(ch[x], d), d.nextId >= ch[x].nextId,
         d.outgoing = ch[x].outgoing \/ ~d.fd
  PROVE  Calls'
<1>1. CallsOK(d)
  BY SameCallsOK DEF Calls
<1>2. KeepsCall(ch[x], d)
  BY DEF SameCalls, KeepsCall
<1>3. d.stack = ch[x].stack
  BY DEF SameCalls
<1>4. QED
  BY <1>1, <1>2, <1>3, SameHandlers, LocalStep

\* A step that begins something other than a call or a handler of a request.
LEMMA PushStep ==
  ASSUME TypeOK, TypeOK', Calls, NEW x \in Ends, NEW c \in Channels,
         NEW at \in {"read", "dispatch", "idle", "async"},
         NEW m \in Messages \cup {NoMsg},
         ch' = [ch EXCEPT ![x] = Push(c, at, m)], sock' = sock,
         CallsOK(c), KeepsCall(ch[x], c), c.outgoing = ch[x].outgoing,
         c.stack = ch[x].stack,
         At(c) \in Caller[at]
  PROVE  Calls'
<1> DEFINE d == Push(c, at, m)
<1>1. CallsOK(d)
  BY PushCallsOK
<1>2. SameLoop(c, d) /\ d.outgoing = c.outgoing /\ d.nextId = c.nextId
  BY PushSameLoop
<1>3. KeepsCall(ch[x], d)
  BY <1>2 DEF KeepsCall, SameLoop
<1>4. \A i \in Nat : Handlers(d, i) = Handlers(ch[x], i)
  <2>1. \A i \in Nat : Handlers(d, i) = Handlers(c, i) + 0
    BY HandlersPushed
  <2>2. \A i \in Nat : Handlers(c, i) \in Nat
    BY HandlersAreHits
  <2>3. QED
    BY <2>1, <2>2, SameHandlers
<1> HIDE DEF d
<1>5. QED
  BY <1>1, <1>2, <1>3, <1>4, LocalStep DEF d

\* A step that ends something other than a call or a handler of a request, and
\* goes on with a channel d that has the same calls.
LEMMA PopStep ==
  ASSUME TypeOK, TypeOK', Calls, NEW x \in Ends, NEW d,
         ch[x].stack # <<>>, At(ch[x]) \notin {"call", "sync"},
         ch' = [ch EXCEPT ![x] = d], sock' = sock,
         SameCalls(Pop(ch[x]), d), d.nextId = ch[x].nextId,
         d.outgoing = ch[x].outgoing \/ ~d.fd
  PROVE  Calls'
<1> DEFINE c == ch[x]
           p == Pop(ch[x])
<1>1. c \in Channels /\ p \in Channels /\ CallsOK(c)
  BY PopType DEF TypeOK, Calls
<1>2. CallsOK(p)
  BY <1>1, PopCallsOK
<1>3. SameLoop(c, p) /\ p.nextId = c.nextId
  BY <1>1, PopSameLoop
<1>4. \A i \in Nat : Handlers(c, i) = Handlers(p, i)
  <2>1. \A i \in Nat : Handlers(c, i) = Handlers(p, i) + 0
    BY <1>1, HandlersPopped
  <2>2. \A i \in Nat : Handlers(p, i) \in Nat
    BY <1>1, HandlersAreHits
  <2>3. QED
    BY <2>1, <2>2
<1> HIDE DEF p
<1>5. CallsOK(d)
  BY <1>2, SameCallsOK DEF p
<1>6. KeepsCall(c, d)
  <2>1. SameCalls(p, d) /\ c.nextId \in Nat
    BY <1>1 DEF p, Channels
  <2>2. QED
    BY <1>3, <2>1 DEF KeepsCall, SameCalls, SameLoop
<1>7. \A i \in Nat : Handlers(d, i) = Handlers(c, i)
  <2>1. d.stack = p.stack
    BY DEF SameCalls, p
  <2>2. QED
    BY <1>4, <2>1, SameHandlers
<1>8. QED
  BY <1>5, <1>6, <1>7, LocalStep

LEMMA SendAsyncCalls ==
  ASSUME TypeOK, TypeOK', Calls, NEW x \in Ends, NEW k \in AsyncKinds,
         SendAsync(x, k)
  PROVE  Calls'
<1> DEFINE c == ch[x]
           q == Enqueue(c, k)
           added == <<NewMessage(c, k)>>
<1>1. c \in Channels /\ q \in Channels /\ CallsOK(c) /\ c.nextId \in Nat
  BY EnqueueType DEF TypeOK, Calls, Channels
<1>2. NewMessage(c, k) \in Messages /\ NewMessage(c, k).kind \in AsyncKinds
  BY <1>1 DEF NewMessage, Messages
<1>3. /\ SameCalls(c, q) /\ q.nextId = c.nextId + 1
      /\ q.outgoing = Append(c.outgoing, NewMessage(c, k))
  BY <1>1 DEF Enqueue, Channels, SameCalls, OthersOK
<1>4. q.outgoing = c.outgoing \o added /\ added \in Seq(Messages)
  <2>1. c.outgoing \in Seq(Messages)
    BY <1>1 DEF Channels
  <2>2. Append(c.outgoing, NewMessage(c, k)) = c.outgoing \o added
    BY <1>2, <2>1, AppendIsConcat
  <2>3. QED
    BY <1>2, <1>3, <2>2
<1>5. \A j \in DOMAIN added : added[j].kind \in AsyncKinds
  BY <1>2
<1>6. \E o \in Flush(x, q) : Take(x, o)
  BY DEF SendAsync
<1> HIDE DEF q, added
<1>7. CallsOK(q) /\ KeepsCall(c, q) /\ q.stack = c.stack
  BY <1>1, <1>3, SameCallsOK DEF SameCalls, KeepsCall
<1>8. QED
  BY <1>1, <1>4, <1>5, <1>6, <1>7, SameHandlers, AsyncFlushStep

LEMMA DrainCalls ==
  ASSUME TypeOK, TypeOK', Calls, NEW x \in Ends, AsyncCallerDispatch(x)
  PROVE  Calls'
<1> DEFINE c == ch[x]
           q == DrainOtherThread(c)
           added == c.otherThread
<1>1. c \in Channels /\ q \in Channels /\ CallsOK(c)
  BY DrainOtherThreadType DEF TypeOK, Calls
<1>2. SameCalls(c, q) /\ q.nextId = c.nextId
  BY <1>1 DEF DrainOtherThread, Channels, SameCalls, OthersOK
<1>3. added \in Seq(Messages) /\ q.outgoing = c.outgoing \o added
  BY <1>1 DEF DrainOtherThread, Channels
<1>4. \A j \in DOMAIN added : added[j].kind \in AsyncKinds
  BY <1>1 DEF CallsOK, OthersOK, AsyncKinds
<1>5. \E o \in Flush(x, q) : Take(x, o)
  BY DEF AsyncCallerDispatch
<1> HIDE DEF q, added
<1>6. CallsOK(q) /\ KeepsCall(c, q) /\ q.stack = c.stack
  BY <1>1, <1>2, SameCallsOK, KeepsOwnCall DEF SameCalls
<1>7. \A i \in Nat : Handlers(q, i) = Handlers(c, i)
  BY <1>6, SameHandlers
<1>8. QED
  BY <1>1, <1>3, <1>4, <1>5, <1>6, <1>7, AsyncFlushStep

\* The flush after OUT, with nothing added.
LEMMA SocketOutCalls ==
  ASSUME TypeOK, TypeOK', Calls, NEW x \in Ends, SocketOut(x)
  PROVE  Calls'
<1> DEFINE c == ch[x]
           p == LastSourceOfPass(c)
           d == [p EXCEPT !.blockedOnWrite = FALSE]
           f == IF At(d) = "loop" THEN [d EXCEPT !.socketSource = "in"]
                                  ELSE [d EXCEPT !.nestedSocketSource = "in"]
           none == <<>>
<1>1. c \in Channels /\ CallsOK(c)
  BY DEF TypeOK, Calls
<1>2. p \in Channels
  BY <1>1, LastSourceOfPassType
<1>3. /\ SameCalls(c, p) /\ p.outgoing = c.outgoing /\ p.nextId = c.nextId
      /\ p.fd = c.fd
  BY <1>1 DEF LastSourceOfPass, Channels, SameCalls, OthersOK
<1>4. \E o \in Flush(x, f) : Take(x, o)
  BY DEF SocketOut
<1> HIDE DEF p
<1>5. /\ d \in Channels /\ SameCalls(p, d) /\ d.outgoing = p.outgoing
      /\ d.nextId = p.nextId /\ d.fd = p.fd
  BY <1>2 DEF Channels, SameCalls, OthersOK
<1> HIDE DEF d
<1>6. /\ f \in Channels /\ SameCalls(d, f) /\ f.outgoing = d.outgoing
      /\ f.nextId = d.nextId /\ f.fd = d.fd
  BY <1>5 DEF Channels, Watch, SameCalls, OthersOK
<1> HIDE DEF f
<1>7. CallsOK(f)
  BY <1>1, <1>3, <1>5, <1>6, SameCallsOK
<1>8. KeepsCall(c, f) /\ f.stack = c.stack
  BY <1>1, <1>3, <1>5, <1>6 DEF SameCalls, KeepsCall, Channels
<1>9. /\ none \in Seq(Messages) /\ f.outgoing = c.outgoing \o none
      /\ \A j \in DOMAIN none : none[j].kind \in AsyncKinds
  BY <1>1, <1>3, <1>5, <1>6 DEF Channels
<1> HIDE DEF none
<1>10. \A i \in Nat : Handlers(f, i) = Handlers(c, i)
  BY <1>8, SameHandlers
<1>11. QED
  BY <1>4, <1>6, <1>7, <1>8, <1>9, <1>10, AsyncFlushStep

LEMMA CallReturnCalls ==
  ASSUME TypeOK, TypeOK', Calls, NEW x \in Ends, CallReturn(x)
  PROVE  Calls'
<1> DEFINE c == ch[x]
           d == LeaveNestedLoop(c)
           f == IF d.fd THEN ResumeMainLoop(d) ELSE d
           none == <<>>
<1>1. c \in Channels /\ CallsOK(c)
  BY DEF TypeOK, Calls
<1>2. c.stack # <<>> /\ At(c) = "call"
  BY DEF CallReturn, Runs, At
<1>3. \E o \in Flush(x, f) : Take(x, o)
  BY DEF CallReturn
<1>4. d \in Channels /\ CallsOK(d)
  BY <1>1, <1>2, LeaveNestedLoopType, LeaveNestedLoopCallsOK
<1>5. /\ d.stack = Pop(c).stack /\ d.outgoing = c.outgoing
      /\ d.nextId = c.nextId /\ d.fd = c.fd /\ d.inNestedLoop = FALSE
  BY <1>1 DEF LeaveNestedLoop, DestroyTimeout, Pop, Channels
<1> HIDE DEF d
<1>6. /\ f \in Channels /\ SameCalls(d, f) /\ f.outgoing = d.outgoing
      /\ f.nextId = d.nextId
  <2>1. SameCalls(d, d)
    BY DEF SameCalls
  <2>2. QED
    BY <1>4, <2>1, ResumeMainLoopType, ResumeMainLoopFields
<1> HIDE DEF f
<1>7. CallsOK(f)
  BY <1>4, <1>6, SameCallsOK
<1>8. KeepsCall(c, f)
  BY <1>1, <1>5, <1>6 DEF KeepsCall, SameCalls, Channels
<1>9. \A i \in Nat : Handlers(f, i) = Handlers(c, i)
  <2>1. \A i \in Nat : Handlers(c, i) = Handlers(Pop(c), i) + 0
    BY <1>1, <1>2, HandlersPopped
  <2>2. \A i \in Nat : Handlers(Pop(c), i) \in Nat
    BY <1>1, <1>2, PopType, HandlersAreHits
  <2>3. f.stack = Pop(c).stack
    BY <1>5, <1>6 DEF SameCalls
  <2>4. QED
    BY <2>1, <2>2, <2>3, SameHandlers
<1>10. /\ none \in Seq(Messages) /\ f.outgoing = c.outgoing \o none
       /\ \A j \in DOMAIN none : none[j].kind \in AsyncKinds
  BY <1>1, <1>5, <1>6 DEF Channels
<1> HIDE DEF none
<1>11. QED
  BY <1>3, <1>6, <1>7, <1>8, <1>9, <1>10, AsyncFlushStep

LEMMA SendSyncCalls ==
  ASSUME TypeOK, TypeOK', Calls, NEW x \in Ends, NEW k \in SyncKinds,
         NEW timed \in Timed, SendSync(x, k, timed)
  PROVE  Calls'
<1> DEFINE c == ch[x]
<1>1. c \in Channels /\ CallsOK(c) /\ timed \in BOOLEAN
  BY BoundsAssumption DEF TypeOK, Calls
<1>2. PICK n \in Nat : n = c.nextId
  BY <1>1 DEF Channels
<1>3. PICK m \in Messages : m = NewMessage(c, k) /\ m.kind = k /\ m.id = n
  <2>1. NewMessage(c, k) = [kind |-> k, id |-> n]
    BY <1>2 DEF NewMessage
  <2>2. [kind |-> k, id |-> n] \in Messages
    BY DEF Messages
  <2>3. QED
    BY <2>1, <2>2
<1> DEFINE q == Enqueue(c, k)
           f == [q EXCEPT !.inNestedLoop = TRUE, !.currSyncMessageId = m.id,
                          !.currSyncReply = NoMsg]
<1>4. q \in Channels
  BY <1>1, EnqueueType
<1>5. /\ q.outgoing = Append(c.outgoing, m) /\ q.nextId = n + 1
      /\ q.stack = c.stack /\ q.timers = c.timers
      /\ q.otherThread = c.otherThread /\ q.fd = c.fd
  BY <1>1, <1>2, <1>3 DEF Enqueue, Channels
<1>6. PICK o \in Flush(x, f) :
             Take(x, [o EXCEPT !.ch = EnterNestedLoop(@, m, timed)])
  BY <1>3 DEF SendSync
<1>7. Depth(c) < MaxDepth /\ At(c) \in {"loop", "async", "sync"}
  BY DEF SendSync, InApplication
<1> HIDE DEF q
<1>8. f \in Channels
  BY <1>2, <1>3, <1>4 DEF Channels
<1>9. /\ f.outgoing = Append(c.outgoing, m) /\ f.nextId = n + 1
      /\ f.stack = c.stack /\ f.timers = c.timers
      /\ f.otherThread = c.otherThread /\ f.fd = c.fd
      /\ f.inNestedLoop = TRUE /\ f.currSyncMessageId = m.id
      /\ f.currSyncReply = NoMsg
  BY <1>4, <1>5 DEF Channels
<1> HIDE DEF f
<1>10. MayCall(f)
  <2>1. MayCall(c)
    BY <1>1, <1>7, NoCallYet
  <2>2. QED
    BY <1>9, <2>1
       DEF MayCall, OthersOK, CallersOK, Below, CallFrames, At
<1>11. o \in Outcomes /\ MayCall(o.ch)
  BY <1>8, <1>10, FlushType, FlushMayCall
<1> DEFINE b == o.ch
           d == EnterNestedLoop(b, m, timed)
<1>12. b \in Channels /\ o.sent \in Seq(Messages)
  BY <1>11 DEF Outcomes
<1>13. ch' = [ch EXCEPT ![x] = d] /\ sock' = [sock EXCEPT ![Peer(x)] = @ \o o.sent]
  <2> DEFINE p == [o EXCEPT !.ch = EnterNestedLoop(@, m, timed)]
  <2>1. p.ch = d /\ p.sent = o.sent
    BY <1>11 DEF Outcomes
  <2> HIDE DEF p, d
  <2>2. QED
    BY <1>6, <2>1 DEF Take, p
<1>14. b.fd => /\ SameButOutput(f, b) /\ o.sent \o b.outgoing = f.outgoing
  BY <1>8, FlushLive
<1>15. CallsOK(d)
  <2>1. b.fd => /\ b.inNestedLoop /\ b.currSyncMessageId = m.id
                /\ b.currSyncReply = NoMsg
    BY <1>9, <1>14 DEF SameButOutput
  <2>2. QED
    BY <1>1, <1>11, <1>12, <2>1, EnterNestedLoopCallsOK
<1>16. ASSUME d.fd
       PROVE  /\ b.fd /\ d.outgoing = b.outgoing /\ d.nextId = b.nextId
              /\ d.inNestedLoop = b.inNestedLoop
              /\ d.currSyncMessageId = b.currSyncMessageId
              /\ \A i \in Nat : Handlers(d, i) = Handlers(b, i)
  <2>1. b.fd
    <3>1. ~b.fd => d = AbandonCall(b, m)
      BY DEF EnterNestedLoop
    <3>2. AbandonCall(b, m).fd = b.fd
      BY <1>12 DEF AbandonCall, Channels
    <3>3. QED
      BY <1>16, <3>1, <3>2
  <2> DEFINE s == StartNestedLoop(b, m, timed)
  <2>2. s \in Channels
    BY <1>1, <1>12, StartNestedLoopType
  <2>3. /\ s.outgoing = b.outgoing /\ s.nextId = b.nextId /\ s.stack = b.stack
        /\ s.inNestedLoop = b.inNestedLoop
        /\ s.currSyncMessageId = b.currSyncMessageId
    BY <1>12 DEF StartNestedLoop, Channels
  <2>4. d = Push(s, "call", m)
    BY <2>1 DEF EnterNestedLoop
  <2> HIDE DEF s, b, d
  <2>5. /\ SameLoop(s, d) /\ d.outgoing = s.outgoing /\ d.nextId = s.nextId
    BY <2>2, <2>4, PushSameLoop
  <2>6. \A i \in Nat : Handlers(d, i) = Handlers(s, i) + 0
    BY <2>2, <2>4, HandlersPushed
  <2>7. \A i \in Nat : Handlers(s, i) \in Nat
    BY <2>2, HandlersAreHits
  <2>8. \A i \in Nat : Handlers(s, i) = Handlers(b, i)
    BY <2>3, SameHandlers
  <2>9. QED
    BY <2>1, <2>3, <2>5, <2>6, <2>7, <2>8 DEF SameLoop
<1> HIDE DEF b, d
<1>17. d.fd => /\ c.fd /\ Writes(c, d, o.sent, <<m>>)
               /\ m.id = n /\ d.nextId = n + 1
               /\ d.inNestedLoop /\ d.currSyncMessageId = m.id
               /\ \A i \in Nat : Handlers(d, i) = Handlers(c, i)
  <2> SUFFICES ASSUME d.fd
               PROVE  /\ c.fd /\ Writes(c, d, o.sent, <<m>>)
                      /\ m.id = n /\ d.nextId = n + 1
                      /\ d.inNestedLoop /\ d.currSyncMessageId = m.id
                      /\ \A i \in Nat : Handlers(d, i) = Handlers(c, i)
    OBVIOUS
  <2>1. SameButOutput(f, b) /\ o.sent \o b.outgoing = f.outgoing /\ b.fd
    BY <1>14, <1>16
  <2>2. Append(c.outgoing, m) = c.outgoing \o <<m>>
    <3>1. c.outgoing \in Seq(Messages)
      BY <1>1 DEF Channels
    <3>2. QED
      BY <3>1, AppendIsConcat
  <2>3. Writes(c, d, o.sent, <<m>>)
    BY <1>9, <1>16, <2>1, <2>2 DEF Writes
  <2>4. \A i \in Nat : Handlers(d, i) = Handlers(c, i)
    <3>1. b.stack = c.stack
      BY <1>9, <2>1 DEF SameButOutput
    <3>2. QED
      BY <1>16, <3>1, SameHandlers
  <2>5. QED
    BY <1>3, <1>9, <1>16, <2>1, <2>3, <2>4 DEF SameButOutput
<1>18. QED
  BY <1>2, <1>3, <1>12, <1>13, <1>15, <1>17, RequestStep

\* The handler of a request is replaced by the answer it sends.
LEMMA SyncHandlerReturnCalls ==
  ASSUME TypeOK, TypeOK', Calls, NEW x \in Ends, SyncHandlerReturn(x)
  PROVE  Calls'
<1> DEFINE c == ch[x]
           m == Head(c.stack).msg
           r == ReplyTo(c, m)
           p == Pop(c)
           f == [p EXCEPT !.outgoing = Append(@, r), !.replyForIncoming = FALSE]
           added == <<r>>
<1>1. c \in Channels /\ CallsOK(c)
  BY DEF TypeOK, Calls
<1>2. c.stack # <<>> /\ At(c) = "sync"
  BY DEF SyncHandlerReturn, Runs, At
<1>3. p \in Channels /\ CallsOK(p) /\ SameLoop(c, p)
      /\ p.outgoing = c.outgoing /\ p.nextId = c.nextId
  BY <1>1, <1>2, PopType, PopCallsOK, PopSameLoop
<1>4. r \in Messages /\ r.kind \in ReplyKinds /\ r.id = m.id
  <2>1. m \in Messages \cup {NoMsg}
    BY <1>1, <1>2, StackType
  <2> HIDE DEF m
  <2>2. m.id \in Nat
    BY <2>1, MessageTypes
  <2>3. QED
    BY <2>2 DEF ReplyTo, Messages, ReplyKinds
<1>5. PICK o \in Flush(x, f) : Take(x, [o EXCEPT !.ch = StopFor(m, @)])
  BY DEF SyncHandlerReturn
<1>6. \A i \in Nat : Handlers(c, i)
        = Handlers(p, i) + IF m.id = i THEN 1 ELSE 0
  BY <1>1, <1>2, HandlersPopped
<1> HIDE DEF p, r, m
<1>7. /\ f \in Channels /\ f.stack = p.stack /\ f.nextId = p.nextId
      /\ SameCalls(p, f) /\ f.outgoing = Append(p.outgoing, r)
  <2>1. Append(p.outgoing, r) \in Seq(Messages)
    BY <1>3, <1>4 DEF Channels
  <2>2. f \in Channels
    BY <1>3, <2>1 DEF Channels
  <2>3. /\ f.stack = p.stack /\ f.nextId = p.nextId
        /\ SameCalls(p, f) /\ f.outgoing = Append(p.outgoing, r)
    BY <1>3 DEF Channels, SameCalls, OthersOK
  <2>4. QED
    BY <2>2, <2>3
<1> HIDE DEF f
<1>8. o \in Outcomes
  BY <1>7, FlushType
<1> DEFINE b == o.ch
           d == StopFor(m, b)
           q == [o EXCEPT !.ch = StopFor(m, @)]
<1>9. d = o.ch \/ d = [o.ch EXCEPT !.proc = "stopped"]
  BY DEF StopFor
<1>10. ch' = [ch EXCEPT ![x] = d] /\ sock' = [sock EXCEPT ![Peer(x)] = @ \o o.sent]
  <2>1. q.ch = d /\ q.sent = o.sent
    BY <1>8 DEF Outcomes
  <2>2. Take(x, q)
    BY <1>5
  <2> HIDE DEF q, d
  <2>3. QED
    BY <2>1, <2>2 DEF Take
<1>11. added \in Seq(Messages) /\ f.outgoing = c.outgoing \o added
  <2>1. c.outgoing \in Seq(Messages)
    BY <1>1 DEF Channels
  <2>2. Append(c.outgoing, r) = c.outgoing \o <<r>>
    BY <1>4, <2>1, AppendIsConcat
  <2>3. QED
    BY <1>3, <1>4, <1>7, <2>2
<1>12. \A i \in Nat : /\ Count(added, SyncKinds, i) = 0
                      /\ Count(added, ReplyKinds, i) = IF m.id = i THEN 1 ELSE 0
  <2>1. r.kind \notin SyncKinds
    BY <1>4, KindsDisjoint
  <2>2. QED
    BY <1>4, <2>1, CountOne
<1> HIDE DEF added, d
<1>13. CallsOK(f) /\ KeepsCall(c, f)
  <2>1. CallsOK(f)
    BY <1>3, <1>7, SameCallsOK
  <2>2. KeepsCall(p, f)
    BY <1>3, <1>7, KeepsOwnCall
  <2>3. KeepsCall(c, f)
    BY <1>3, <2>2 DEF KeepsCall, SameLoop
  <2>4. QED
    BY <2>1, <2>3
<1>14. \A i \in Nat : /\ Count(added, SyncKinds, i) = 0
                      /\ Handlers(f, i) + Count(added, ReplyKinds, i)
                           = Handlers(c, i)
  <2>1. \A i \in Nat : Handlers(f, i) = Handlers(p, i)
    BY <1>7, SameHandlers
  <2>2. QED
    BY <1>6, <1>12, <2>1
<1>15. /\ \A i \in Nat : Count(added, SyncKinds, i) = 0
       /\ \A i \in Nat : Handlers(f, i) + Count(added, ReplyKinds, i)
                           = Handlers(c, i)
  BY <1>14
<1>16. QED
  BY <1>7, <1>9, <1>10, <1>11, <1>13, <1>15, FlushStep

\* A request starts its handler.
LEMMA RequestCalls ==
  ASSUME NEW c \in Channels, NEW m \in Messages, CallsOK(c), At(c) = "read"
  PROVE  LET d == HandleIncomingSyncMessage(c, m)
         IN  /\ CallsOK(d) /\ KeepsCall(c, d) /\ d.outgoing = c.outgoing
             /\ \A i \in Nat : Handlers(d, i)
                                 = (IF m.id = i THEN 1 ELSE 0) + Handlers(c, i)
<1> DEFINE b == [c EXCEPT !.replyForIncoming = FALSE]
           d == HandleIncomingSyncMessage(c, m)
<1>1. b \in Channels
  BY DEF Channels
<1>2. /\ SameCalls(c, b) /\ b.outgoing = c.outgoing /\ b.nextId = c.nextId
      /\ b.stack = c.stack
  BY DEF Channels, SameCalls, OthersOK
<1>3. d = Push(b, "sync", m)
  BY DEF HandleIncomingSyncMessage
<1> HIDE DEF b, d
<1>4. CallsOK(d)
  <2>1. CallsOK(b)
    BY <1>2, SameCallsOK
  <2>2. At(b) \in Caller["sync"]
    BY <1>2 DEF At, Caller
  <2>3. QED
    BY <1>1, <1>3, <2>1, <2>2, PushCallsOK
<1>5. /\ SameLoop(b, d) /\ d.outgoing = b.outgoing /\ d.nextId = b.nextId
  BY <1>1, <1>3, PushSameLoop
<1>6. KeepsCall(c, d)
  BY <1>2, <1>5 DEF KeepsCall, SameCalls, SameLoop, Channels
<1>7. \A i \in Nat : Handlers(d, i) = (IF m.id = i THEN 1 ELSE 0) + Handlers(c, i)
  <2>1. \A i \in Nat : Handlers(d, i) = Handlers(b, i) + IF m.id = i THEN 1 ELSE 0
    BY <1>1, <1>3, HandlersPushed
  <2>2. \A i \in Nat : Handlers(b, i) \in Nat /\ Handlers(b, i) = Handlers(c, i)
    BY <1>1, <1>2, HandlersAreHits, SameHandlers
  <2>3. QED
    BY <2>1, <2>2
<1>8. QED
  BY <1>2, <1>4, <1>5, <1>6, <1>7 DEF d

\* An answer is taken by the call it belongs to, or dropped.
LEMMA AnswerCalls ==
  ASSUME NEW c \in Channels, NEW m \in Messages, CallsOK(c), c.inNestedLoop
  PROVE  LET d == TakeReply(c, m)
         IN  /\ CallsOK(d) /\ KeepsCall(c, d) /\ d.outgoing = c.outgoing
             /\ d.stack = c.stack
             /\ d.currSyncReply = NoMsg => m.id # d.currSyncMessageId
<1> DEFINE d == TakeReply(c, m)
           t == [c EXCEPT !.currSyncReply = m, !.nestedMainLoop = "stopped"]
<1>1. /\ t.outgoing = c.outgoing /\ t.stack = c.stack /\ t.nextId = c.nextId
      /\ t.currSyncReply = m /\ t.fd = c.fd /\ c.nextId \in Nat
  BY DEF Channels
<1>2. m # NoMsg
  BY MessageTypes
<1>3. d = IF m.id = c.currSyncMessageId THEN t ELSE c
  BY DEF TakeReply
<1>4. CallsOK(d)
  BY TakeReplyCallsOK
<1> HIDE DEF d, t
<1>5. CASE m.id = c.currSyncMessageId
  <2>1. KeepsCall(c, t)
    BY <1>1, <1>2 DEF KeepsCall
  <2>2. QED
    BY <1>1, <1>2, <1>3, <1>4, <1>5, <2>1 DEF d
<1>6. CASE m.id # c.currSyncMessageId
  <2>1. KeepsCall(c, c)
    BY <1>1 DEF KeepsCall
  <2>2. QED
    BY <1>3, <1>4, <1>6, <2>1 DEF d
<1>7. QED
  BY <1>5, <1>6

LEMMA QueuedCalls ==
  ASSUME NEW c \in Channels, NEW m \in Messages, CallsOK(c)
  PROVE  LET d == QueueIncoming(c, m)
         IN  /\ d \in Channels /\ CallsOK(d) /\ KeepsCall(c, d)
             /\ d.outgoing = c.outgoing /\ d.stack = c.stack
             /\ d.inNestedLoop = c.inNestedLoop
<1> DEFINE d == QueueIncoming(c, m)
<1>1. d \in Channels
  <2>1. Append(c.incomingAsync, m) \in Seq(Messages \cup {Gone})
    BY DEF Channels
  <2>2. QED
    BY <2>1 DEF QueueIncoming, Channels
<1>2. /\ SameCalls(c, d) /\ d.outgoing = c.outgoing /\ d.nextId = c.nextId
      /\ d.inNestedLoop = c.inNestedLoop
  BY DEF QueueIncoming, Channels, SameCalls, OthersOK
<1> HIDE DEF d
<1>3. QED
  BY <1>1, <1>2, SameCallsOK, KeepsOwnCall DEF SameCalls, d

\* Only a request starts a handler.
LEMMA OtherHandlers ==
  ASSUME NEW c \in Channels, NEW d, NEW m, m.kind \notin SyncKinds,
         \A i \in Nat : Handlers(d, i) = Handlers(c, i)
  PROVE  \A i \in Nat : Handlers(d, i)
           = (IF m.kind \in SyncKinds /\ m.id = i THEN 1 ELSE 0) + Handlers(c, i)
<1>1. \A i \in Nat : Handlers(c, i) \in Nat
  BY HandlersAreHits
<1>2. QED
  BY <1>1

LEMMA ReadMessageCalls ==
  ASSUME TypeOK, TypeOK', Calls, NEW x \in Ends, ReadMessage(x)
  PROVE  Calls'
<1> DEFINE c == ch[x]
           m == Head(sock[x])
<1>1. /\ c \in Channels /\ CallsOK(c) /\ sock[x] # <<>> /\ m \in Messages
      /\ c.stack # <<>> /\ At(c) = "read"
      /\ sock' = [sock EXCEPT ![x] = Tail(@)]
  BY DEF TypeOK, Calls, ReadMessage, Runs, At
<1> DEFINE Reads(d) ==
             /\ CallsOK(d) /\ KeepsCall(c, d) /\ d.outgoing = c.outgoing
             /\ \A i \in Nat : Handlers(d, i)
                  = (IF m.kind \in SyncKinds /\ m.id = i THEN 1 ELSE 0)
                      + Handlers(c, i)
             /\ d.inNestedLoop /\ d.currSyncReply = NoMsg
                  => ~(m.kind \in ReplyKinds /\ m.id = d.currSyncMessageId)
<1>2. ASSUME m.kind \in SyncKinds PROVE Reads(HandleIncomingSyncMessage(c, m))
  <2> DEFINE d == HandleIncomingSyncMessage(c, m)
  <2>1. m.kind \notin ReplyKinds
    BY <1>2, KindsDisjoint
  <2> HIDE DEF m
  <2>2. /\ CallsOK(d) /\ KeepsCall(c, d) /\ d.outgoing = c.outgoing
        /\ \A i \in Nat : Handlers(d, i)
                            = (IF m.id = i THEN 1 ELSE 0) + Handlers(c, i)
    BY <1>1, RequestCalls
  <2> HIDE DEF d
  <2>3. QED
    BY <1>2, <2>1, <2>2 DEF d
<1>3. ASSUME m.kind \in ReplyKinds, c.inNestedLoop PROVE Reads(TakeReply(c, m))
  <2> DEFINE d == TakeReply(c, m)
  <2>1. m.kind \notin SyncKinds
    BY <1>3, KindsDisjoint
  <2> HIDE DEF m
  <2>2. /\ CallsOK(d) /\ KeepsCall(c, d) /\ d.outgoing = c.outgoing
        /\ d.stack = c.stack
        /\ d.currSyncReply = NoMsg => m.id # d.currSyncMessageId
    BY <1>1, <1>3, AnswerCalls
  <2> HIDE DEF d
  <2>3. \A i \in Nat : Handlers(d, i) = Handlers(c, i)
    BY <2>2, SameHandlers
  <2>4. \A i \in Nat : Handlers(d, i)
          = (IF m.kind \in SyncKinds /\ m.id = i THEN 1 ELSE 0) + Handlers(c, i)
    BY <1>1, <2>1, <2>3, OtherHandlers
  <2>5. QED
    BY <2>2, <2>4 DEF d
<1>4. ASSUME m.kind \in ReplyKinds, ~c.inNestedLoop PROVE Reads(c)
  <2>1. m.kind \notin SyncKinds
    BY <1>4, KindsDisjoint
  <2>2. KeepsCall(c, c)
    BY <1>1 DEF KeepsCall, Channels
  <2> HIDE DEF m
  <2>3. \A i \in Nat : Handlers(c, i) = Handlers(c, i)
    OBVIOUS
  <2>4. QED
    BY <1>1, <1>4, <2>1, <2>2, <2>3, OtherHandlers
<1>5. ASSUME m.kind \notin SyncKinds, m.kind \notin ReplyKinds
      PROVE  /\ Reads(QueueIncoming(c, m))
             /\ ~c.inNestedLoop => Reads(Push(QueueIncoming(c, m), "dispatch", NoMsg))
  <2> HIDE DEF m
  <2> DEFINE q == QueueIncoming(c, m)
             d == Push(q, "dispatch", NoMsg)
  <2>1. /\ q \in Channels /\ CallsOK(q) /\ KeepsCall(c, q)
        /\ q.outgoing = c.outgoing /\ q.stack = c.stack
        /\ q.inNestedLoop = c.inNestedLoop
    BY <1>1, QueuedCalls
  <2> HIDE DEF q
  <2>2. \A i \in Nat : Handlers(q, i) = Handlers(c, i)
    BY <2>1, SameHandlers
  <2>3. Reads(q)
    BY <1>1, <1>5, <2>1, <2>2, OtherHandlers
  <2>4. ASSUME ~c.inNestedLoop PROVE Reads(d)
    <3>1. CallsOK(d)
      <4>1. At(q) \in Caller["dispatch"]
        BY <1>1, <2>1 DEF At, Caller
      <4>2. QED
        BY <2>1, <2>4, <4>1, PushCallsOK
    <3>2. SameLoop(q, d) /\ d.outgoing = q.outgoing /\ d.nextId = q.nextId
      BY <2>1, PushSameLoop
    <3>3. \A i \in Nat : Handlers(d, i) = Handlers(q, i) + 0
      BY <2>1, HandlersPushed
    <3>4. \A i \in Nat : Handlers(q, i) \in Nat
      BY <2>1, HandlersAreHits
    <3> HIDE DEF d
    <3>5. \A i \in Nat : Handlers(d, i) = Handlers(c, i)
      BY <2>2, <3>3, <3>4
    <3>6. KeepsCall(c, d)
      BY <2>1, <3>2 DEF KeepsCall, SameLoop
    <3>7. \A i \in Nat : Handlers(d, i)
            = (IF m.kind \in SyncKinds /\ m.id = i THEN 1 ELSE 0)
                + Handlers(c, i)
      BY <1>1, <1>5, <3>5, OtherHandlers
    <3>8. QED
      BY <1>5, <2>1, <3>1, <3>2, <3>6, <3>7
  <2>5. QED
    BY <2>3, <2>4 DEF q
<1>6. \E d : Reads(d) /\ ch' = [ch EXCEPT ![x] = d]
  <2> HIDE DEF Reads
  <2> DEFINE e == IF c.inNestedLoop
                  THEN HandleIncomingMessageInNestedMode(c, m)
                  ELSE HandleIncomingMessageInNormalMode(c, m)
  <2>1. ch' = [ch EXCEPT ![x] = e]
    BY DEF ReadMessage
  <2> HIDE DEF c, m
  <2>2. Reads(e)
    BY <1>2, <1>3, <1>4, <1>5 DEF HandleIncomingMessageInNestedMode,
                                  HandleIncomingMessageInNormalMode
  <2>3. QED
    BY <2>1, <2>2
<1>7. PICK d : Reads(d) /\ ch' = [ch EXCEPT ![x] = d]
  BY <1>6
<1>8. QED
  BY <1>1, <1>7, ReadStep

LEMMA CallsNext == TypeOK /\ TypeOK' /\ Calls /\ [Next]_vars => Calls'
<1> SUFFICES ASSUME TypeOK, TypeOK', Calls, [Next]_vars
             PROVE  Calls'
  OBVIOUS
<1>0. CASE UNCHANGED vars
  BY <1>0, CallsStutter
<1> SUFFICES ASSUME NEW x \in Ends,
                    \/ MainThread(x) \/ TimerExpires(x)
                    \/ Application(x) \/ Outside(x)
             PROVE  Calls'
  BY <1>0 DEF Next
<1> DEFINE c == ch[x]
<1>c. c \in Channels /\ CallsOK(c) /\ c.nextId \in Nat
  BY DEF TypeOK, Calls, Channels
<1>1. ASSUME NEW k \in AsyncKinds, SendAsync(x, k) PROVE Calls'
  BY <1>1, SendAsyncCalls
<1>2. CASE QueueAsyncMessage(x)
  <2> DEFINE d == [c EXCEPT !.otherThread = Append(@, NewMessage(c, "thread")),
                            !.nextId = @ + 1]
  <2>1. OthersOK(c) => OthersOK(d)
    <3>1. c.otherThread \in Seq(Messages) /\ NewMessage(c, "thread").kind = "thread"
      BY <1>c DEF Channels, NewMessage
    <3>2. d.otherThread = Append(c.otherThread, NewMessage(c, "thread"))
      BY <1>c DEF Channels
    <3> HIDE DEF d, c
    <3>3. QED
      BY <3>1, <3>2 DEF OthersOK
  <2>2. SameCalls(c, d) /\ d.outgoing = c.outgoing /\ d.nextId >= c.nextId
    BY <1>c, <2>1 DEF Channels, SameCalls
  <2>3. ch' = [ch EXCEPT ![x] = d] /\ sock' = sock
    BY <1>2 DEF QueueAsyncMessage, TypeOK
  <2> HIDE DEF d
  <2>4. QED
    BY <2>2, <2>3, SameCallsStep
<1>3. ASSUME NEW k \in SyncKinds, NEW timed \in Timed, SendSync(x, k, timed)
      PROVE  Calls'
  BY <1>3, SendSyncCalls
<1>4. CASE SendReply(x)
  <2> DEFINE d == [c EXCEPT !.replyForIncoming = TRUE]
  <2>1. SameCalls(c, d) /\ d.outgoing = c.outgoing /\ d.nextId >= c.nextId
    BY <1>c DEF Channels, SameCalls, OthersOK
  <2>2. ch' = [ch EXCEPT ![x] = d] /\ sock' = sock
    BY <1>4 DEF SendReply
  <2> HIDE DEF d
  <2>3. QED
    BY <2>1, <2>2, SameCallsStep
<1>5. CASE ClearRemoteIsSuspended(x)
  <2> DEFINE d == [c EXCEPT !.remoteIsSuspended = FALSE]
  <2>1. SameCalls(c, d) /\ d.outgoing = c.outgoing /\ d.nextId >= c.nextId
    BY <1>c DEF Channels, SameCalls, OthersOK
  <2>2. ch' = [ch EXCEPT ![x] = d] /\ sock' = sock
    BY <1>5 DEF ClearRemoteIsSuspended
  <2> HIDE DEF d
  <2>3. QED
    BY <2>1, <2>2, SameCallsStep
<1>6. CASE AsyncCallerDispatch(x)
  BY <1>6, DrainCalls
<1>7. CASE SocketHup(x)
  <2> DEFINE p == LastSourceOfPass(c)
             d == Disconnected(p)
  <2>1. p \in Channels /\ SameCalls(c, p) /\ p.nextId = c.nextId
    <3>1. p \in Channels
      BY <1>c, LastSourceOfPassType
    <3>2. SameCalls(c, p) /\ p.nextId = c.nextId
      BY <1>c DEF LastSourceOfPass, Channels, SameCalls, OthersOK
    <3>3. QED
      BY <3>1, <3>2
  <2> HIDE DEF p
  <2>2. SameCalls(p, d) /\ ~d.fd /\ d.nextId = p.nextId
    BY <2>1, DisconnectedFields DEF SameCalls, OthersOK
  <2>3. ch' = [ch EXCEPT ![x] = d] /\ sock' = sock
    BY <1>7 DEF SocketHup, p
  <2> HIDE DEF d
  <2>4. SameCalls(c, d)
    BY <2>1, <2>2 DEF SameCalls
  <2>5. d.nextId >= c.nextId
    BY <1>c, <2>1, <2>2
  <2>6. QED
    BY <2>2, <2>3, <2>4, <2>5, SameCallsStep
<1>8. CASE SocketOut(x)
  BY <1>8, SocketOutCalls
<1>9. CASE SocketIn(x)
  <2> DEFINE d == LastSourceOfPass(c)
  <2>1. /\ CallsOK(d) /\ d.stack = c.stack /\ d.outgoing = c.outgoing
        /\ d \in Channels
    BY <1>c, LastSourceOfPassType, LastSourceOfPassCallsOK
  <2>2. KeepsCall(c, d)
    <3>1. SameCalls(c, d) /\ d.nextId = c.nextId
      BY <1>c DEF LastSourceOfPass, Channels, SameCalls, OthersOK
    <3>2. QED
      BY <1>c, <3>1, KeepsOwnCall
  <2>3. At(c) \in {"loop", "call"}
    BY <1>9 DEF SocketIn, InPoll
  <2>4. ch' = [ch EXCEPT ![x] = Push(d, "read", NoMsg)] /\ sock' = sock
    BY <1>9 DEF SocketIn
  <2> HIDE DEF d
  <2>5. At(d) \in Caller["read"]
    BY <2>1, <2>3 DEF At, Caller
  <2>6. QED
    BY <2>1, <2>2, <2>4, <2>5, PushStep
<1>10. CASE Idle(x)
  <2>1. At(c) \in Caller["idle"]
    BY <1>10 DEF Idle, Caller
  <2>2. KeepsCall(c, c)
    BY <1>c DEF KeepsCall
  <2>3. ch' = [ch EXCEPT ![x] = Push(c, "idle", NoMsg)] /\ sock' = sock
    BY <1>10 DEF Idle
  <2>4. QED
    BY <1>c, <2>1, <2>2, <2>3, PushStep
<1>11. ASSUME NEW t, Timeout(x, t) PROVE Calls'
  <2> DEFINE d == NestedLoopTimeout(c, t)
  <2>1. CallsOK(d)
    BY <1>c, TimeoutCallsOK
  <2>2. /\ d.stack = c.stack /\ d.outgoing = c.outgoing /\ d.fd = c.fd
        /\ d.nextId = c.nextId /\ d.inNestedLoop = c.inNestedLoop
        /\ d.currSyncReply = c.currSyncReply
        /\ d.currSyncMessageId = c.currSyncMessageId
    BY <1>c DEF NestedLoopTimeout, Channels
  <2>3. ch' = [ch EXCEPT ![x] = d] /\ sock' = sock
    BY <1>11 DEF Timeout
  <2> HIDE DEF d
  <2>4. KeepsCall(c, d)
    BY <1>c, <2>2 DEF KeepsCall
  <2>5. \A i \in Nat : Handlers(d, i) = Handlers(c, i)
    BY <2>2, SameHandlers
  <2>6. QED
    BY <2>1, <2>2, <2>3, <2>4, <2>5, LocalStep
<1>12. CASE ReadMessage(x)
  BY <1>12, ReadMessageCalls
<1>s. \A d : SameCalls(d, d)
  BY DEF SameCalls
<1>p. /\ c.stack # <<>> => Pop(c) \in Channels
      /\ Pop(c).outgoing = c.outgoing /\ Pop(c).nextId = c.nextId
  BY <1>c, PopType, PopSameLoop
<1>r. c.stack # <<>>
        => /\ SameCalls(Pop(c), Disconnected(Pop(c)))
           /\ Disconnected(Pop(c)).nextId = c.nextId
           /\ ~Disconnected(Pop(c)).fd
  BY <1>p, DisconnectedFields DEF SameCalls, OthersOK
<1>13. CASE ReadNothing(x)
  <2>1. c.stack # <<>> /\ At(c) = "read"
    BY <1>13 DEF ReadNothing, Runs, At
  <2>2. ch' = [ch EXCEPT ![x] = Pop(c)] /\ sock' = sock
    BY <1>13 DEF ReadNothing
  <2>3. QED
    BY <1>s, <1>p, <2>1, <2>2, PopStep
<1>14. CASE ReadEndOfStream(x)
  <2>1. c.stack # <<>> /\ At(c) = "read"
    BY <1>14 DEF ReadEndOfStream, Runs, At
  <2>2. sock' = sock
    BY <1>14 DEF ReadEndOfStream
  <2>3. CASE ch' = [ch EXCEPT ![x] = Pop(c)]
    BY <1>s, <1>p, <2>1, <2>2, <2>3, PopStep
  <2>4. CASE ch' = [ch EXCEPT ![x] = [c EXCEPT !.proc = "spinning"]]
    <3> DEFINE d == [c EXCEPT !.proc = "spinning"]
    <3>1. SameCalls(c, d) /\ d.outgoing = c.outgoing /\ d.nextId >= c.nextId
      BY <1>c DEF Channels, SameCalls, OthersOK
    <3>2. ch' = [ch EXCEPT ![x] = d]
      BY <2>4
    <3> HIDE DEF d
    <3>3. QED
      BY <2>2, <3>1, <3>2, SameCallsStep
  <2>5. CASE ch' = [ch EXCEPT ![x] = Disconnected(Pop(c))]
    BY <1>r, <2>1, <2>2, <2>5, PopStep
  <2>6. QED
    BY <1>14, <2>3, <2>4, <2>5 DEF ReadEndOfStream
<1>15. CASE ReadClosed(x)
  <2>1. c.stack # <<>> /\ At(c) = "read"
    BY <1>15 DEF ReadClosed, Runs, At
  <2>2. ch' = [ch EXCEPT ![x] = Disconnected(Pop(c))] /\ sock' = sock
    BY <1>15 DEF ReadClosed
  <2>3. QED
    BY <1>r, <2>1, <2>2, PopStep
<1>d. ASSUME Dispatching(x)
      PROVE  c.stack # <<>> /\ At(c) \in {"dispatch", "idle"}
  BY <1>d DEF Dispatching, Runs, At
<1>e. ASSUME NEW d \in Channels, NEW src, SameCalls(c, d),
             d.nextId = c.nextId, d.outgoing = c.outgoing
      PROVE  LET f == EndDispatch(d, src)
             IN  /\ SameCalls(Pop(c), f) /\ f.nextId = c.nextId
                 /\ f.outgoing = c.outgoing
  BY <1>c, <1>e DEF EndDispatch, Pop, Channels, SameCalls, OthersOK
<1>16. CASE DispatchMessage(x)
  <2> DEFINE d == PopIncoming(c)
             m == Head(c.incomingAsync)
  <2>1. c.incomingAsync # <<>> /\ m # Gone /\ Dispatching(x)
    BY <1>16 DEF DispatchMessage
  <2>2. m \in Messages
    BY <1>c, <2>1 DEF Channels
  <2>3. d \in Channels
    BY <1>c, <2>1, PopIncomingType
  <2>4. /\ SameCalls(c, d) /\ d.nextId = c.nextId /\ d.outgoing = c.outgoing
        /\ d.stack = c.stack
    BY <1>c DEF PopIncoming, Channels, SameCalls, OthersOK
  <2>5. ch' = [ch EXCEPT ![x] = Push(d, "async", m)] /\ sock' = sock
    BY <1>16 DEF DispatchMessage
  <2>6. At(d) \in Caller["async"]
    BY <1>d, <2>1, <2>4 DEF At, Caller
  <2> HIDE DEF d, m
  <2>7. CallsOK(d) /\ KeepsCall(c, d)
    BY <1>c, <2>4, SameCallsOK, KeepsOwnCall
  <2>8. QED
    BY <2>2, <2>3, <2>4, <2>5, <2>6, <2>7, PushStep
<1>17. CASE DispatchDisconnect(x)
  <2> DEFINE d == PopIncoming(c)
             f == EndDispatch(d, "spent")
  <2>1. c.incomingAsync # <<>> /\ Dispatching(x)
    BY <1>17 DEF DispatchDisconnect
  <2>2. d \in Channels
    BY <1>c, <2>1, PopIncomingType
  <2>3. SameCalls(c, d) /\ d.nextId = c.nextId /\ d.outgoing = c.outgoing
    BY <1>c DEF PopIncoming, Channels, SameCalls, OthersOK
  <2>4. ch' = [ch EXCEPT ![x] = f] /\ sock' = sock
    BY <1>17 DEF DispatchDisconnect
  <2> HIDE DEF d
  <2>5. SameCalls(Pop(c), f) /\ f.nextId = c.nextId /\ f.outgoing = c.outgoing
    BY <1>e, <2>2, <2>3
  <2> HIDE DEF f
  <2>6. QED
    BY <1>d, <2>1, <2>4, <2>5, PopStep
<1>18. CASE DispatchDone(x)
  <2> DEFINE f == EndDispatch(c, "none")
  <2>1. Dispatching(x)
    BY <1>18 DEF DispatchDone
  <2>2. ch' = [ch EXCEPT ![x] = f] /\ sock' = sock
    BY <1>18 DEF DispatchDone
  <2>3. SameCalls(Pop(c), f) /\ f.nextId = c.nextId /\ f.outgoing = c.outgoing
    BY <1>c, <1>e, <1>s
  <2> HIDE DEF f
  <2>4. QED
    BY <1>d, <2>1, <2>2, <2>3, PopStep
<1>19. CASE AsyncHandlerReturn(x)
  <2>1. c.stack # <<>> /\ At(c) = "async"
    BY <1>19 DEF AsyncHandlerReturn, Runs, At
  <2>2. ch' = [ch EXCEPT ![x] = Pop(c)] /\ sock' = sock
    BY <1>19 DEF AsyncHandlerReturn
  <2>3. QED
    BY <1>s, <1>p, <2>1, <2>2, PopStep
<1>20. CASE SyncHandlerReturn(x)
  BY <1>20, SyncHandlerReturnCalls
<1>21. CASE CallReturn(x)
  BY <1>21, CallReturnCalls
<1>22. CASE Continue(x)
  <2> DEFINE d == [c EXCEPT !.proc = "run"]
  <2>1. SameCalls(c, d) /\ d.outgoing = c.outgoing /\ d.nextId >= c.nextId
    BY <1>c DEF Channels, SameCalls, OthersOK
  <2>2. ch' = [ch EXCEPT ![x] = d] /\ sock' = sock
    BY <1>22 DEF Continue, TypeOK
  <2> HIDE DEF d
  <2>3. QED
    BY <2>1, <2>2, SameCallsStep
<1>23. CASE Exit(x)
  <2> DEFINE d == Ended("exited")
  <2>1. ~d.fd
    BY EndedType
  <2>2. CallsOK(d)
    BY EndedCallsOK
  <2>3. ch' = [ch EXCEPT ![x] = d] /\ sock' = sock
    BY <1>23 DEF Exit
  <2> HIDE DEF d
  <2>4. KeepsCall(c, d)
    BY <2>1 DEF KeepsCall
  <2>5. QED
    BY <2>1, <2>2, <2>3, <2>4, LocalStep
<1>24. QED
  BY <1>1, <1>2, <1>3, <1>4, <1>5, <1>6, <1>7, <1>8, <1>9, <1>10, <1>11, <1>12,
     <1>13, <1>14, <1>15, <1>16, <1>17, <1>18, <1>19, <1>20, <1>21, <1>22, <1>23
     DEF MainThread, TimerExpires, Application, Outside

\* A request waits in one place for the end that handles it, and so does the
\* answer for the call it belongs to, at every point of the code of both ends.
THEOREM CallsAreServed == Spec => []Calls
<1>1. Init => TypeOK /\ Calls
  BY TypeInit, CallsInit
<1>2. TypeOK /\ Calls /\ [Next]_vars => (TypeOK /\ Calls)'
  BY TypeNext, CallsNext
<1>3. QED
  BY <1>1, <1>2, PTL DEF Spec

\* In sendSyncMessage the innermost frame is the innermost call.
LEMMA HeadIsInnermost ==
  ASSUME NEW c \in Channels, At(c) = "call", NEW id, Innermost(c, id)
  PROVE  Head(c.stack).msg.id = id
<1>1. c.stack \in Seq(Frames) /\ c.stack # <<>> /\ Head(c.stack).at = "call"
  BY DEF Channels, At
<1>2. 1 \in CallFrames(c) /\ c.stack[1] = Head(c.stack)
  BY <1>1 DEF CallFrames
<1>3. PICK i \in CallFrames(c) : /\ c.stack[i].msg.id = id
                                 /\ \A j \in CallFrames(c) : j >= i
  BY DEF Innermost
<1>4. i = 1
  <2>1. i \in Nat /\ i >= 1 /\ 1 >= i
    BY <1>1, <1>2, <1>3 DEF CallFrames
  <2>2. QED
    BY <2>1
<1>5. QED
  BY <1>2, <1>3, <1>4

\* Calls and Scheduled say that no call is orphaned and none returns with the
\* reply to another.
LEMMA CallsImply ==
  ASSUME TypeOK, Scheduled, Calls
  PROVE  NoOrphanCall /\ OwnReply
<1>1. ASSUME NEW e \in Ends, At(ch[e]) = "call",
             ch[e].nestedMainLoop = "running", ch[e].fd, ch[Peer(e)].fd
      PROVE  RequestOrAnswer(e, Head(ch[e].stack).msg.id) = 1
  <2> DEFINE c == ch[e]
  <2>1. c \in Channels /\ CallsOK(c) /\ NestedModeOK(c)
    BY DEF TypeOK, Calls, Scheduled, ChannelOK
  <2>2. c.inNestedLoop /\ c.currSyncReply = NoMsg
    BY <1>1, <2>1 DEF NestedModeOK, CallsOK, ReplyOK
  <2>3. Head(c.stack).msg.id = c.currSyncMessageId
    BY <1>1, <2>1, <2>2, HeadIsInnermost DEF CallsOK, CurrentOK
  <2>4. RequestOrAnswer(e, c.currSyncMessageId) = 1
    BY <1>1, <2>2 DEF Calls, CallsServed, AnswerOK, Live
  <2>5. QED
    BY <2>3, <2>4
<1>2. ASSUME NEW e \in Ends, ch[e].currSyncReply # NoMsg
      PROVE  \E i \in CallFrames(ch[e]) :
               /\ ch[e].currSyncReply.id = ch[e].stack[i].msg.id
               /\ \A j \in CallFrames(ch[e]) : j >= i
  BY <1>2 DEF Calls, CallsOK, ReplyOK, CurrentOK, Innermost
<1>3. QED
  BY <1>1, <1>2 DEF NoOrphanCall, OwnReply

\* No call made on a connection that stays up is lost: its request or the answer
\* to it is in exactly one place until the call is over, for any number of
\* messages, any size of the socket's buffer and calls nested to any depth.
THEOREM NoCallIsOrphaned == Spec => []NoOrphanCall
BY TypeCorrect, SchedulingCorrect, CallsAreServed, CallsImply, PTL

\* A call never returns with the reply to another one, whatever calls timed out
\* before it and however deep calls nest.
THEOREM RepliesAreOwn == Spec => []OwnReply
BY TypeCorrect, SchedulingCorrect, CallsAreServed, CallsImply, PTL

\* What Calls says of calls that do not nest.
LEMMA ShallowCallsImply ==
  ASSUME TypeOK, Calls, MaxDepth <= 1
  PROVE  ReturnsForAReason /\ NoStaleTimer
<1>1. \A e \in Ends : ch[e] \in Channels /\ CallsOK(ch[e]) /\ ShallowOK(ch[e])
  BY DEF TypeOK, Calls, CallsOK
<1>2. ASSUME NEW e \in Ends, Runs(e, "call"), ch[e].nestedMainLoop # "running"
      PROVE  \/ ch[e].currSyncReply # NoMsg
             \/ ch[e].syncCallTimedOut
             \/ ~ch[e].fd
  <2>1. ch[e].stack \in Seq(Frames) /\ ch[e].stack # <<>>
        /\ Head(ch[e].stack).at = "call"
    BY <1>1, <1>2 DEF Runs, At, Channels
  <2>2. 1 \in CallFrames(ch[e])
    BY <2>1 DEF CallFrames
  <2>3. QED
    BY <1>1, <1>2, <2>2 DEF ShallowOK, ReasonOK
<1>3. ASSUME NEW e \in Ends, NEW t \in ch[e].timers
      PROVE  \E i \in CallFrames(ch[e]) : ch[e].stack[i].msg.id = t
  BY <1>1, <1>3 DEF ShallowOK, TimerOK, CallsOK, CurrentOK, Innermost
<1>4. QED
  BY <1>2, <1>3 DEF ReturnsForAReason, NoStaleTimer

\* While no handler calls inside a call, a call ends only with a reply, after
\* its timeout, or because the connection is gone.
THEOREM CallsEndForAReason ==
  ASSUME MaxDepth <= 1
  PROVE  Spec => []ReturnsForAReason
BY TypeCorrect, CallsAreServed, ShallowCallsImply, PTL

\* While no handler calls inside a call, no timeout outlives its call.
THEOREM TimersEndWithCalls ==
  ASSUME MaxDepth <= 1
  PROVE  Spec => []NoStaleTimer
BY TypeCorrect, CallsAreServed, ShallowCallsImply, PTL
-----------------------------------------------------------------------------
(***************************************************************************)
(* What a blocked receiver does, with calls nested to any depth.           *)
(***************************************************************************)
\* In nested mode only readers and handlers of requests run above the innermost
\* call.
BlockedOK(c) ==
  c.inNestedLoop =>
    \A j \in DOMAIN c.stack : \/ c.stack[j].at \in {"read", "sync"}
                              \/ \E i \in CallFrames(c) : i <= j

Blocked == \A e \in Ends : BlockedOK(ch[e])

\* c becomes d: a call is entered, the channel leaves nested mode, or it stays
\* there and at most a reader or a handler of a request starts or ends.
StaysBlocked(c, d) ==
  d.inNestedLoop =>
    \/ d.stack \in Seq(Frames) /\ At(d) = "call"
    \/ /\ c.inNestedLoop
       /\ \/ d.stack = c.stack
          \/ \E f \in Frames : f.at \in {"read", "sync"} /\ d.stack = <<f>> \o c.stack
          \/ c.stack # <<>> /\ At(c) # "call" /\ d.stack = Tail(c.stack)

LEMMA StaysBlockedOK ==
  ASSUME NEW c \in Channels, NEW d, BlockedOK(c), StaysBlocked(c, d)
  PROVE  BlockedOK(d)
<1> SUFFICES ASSUME d.inNestedLoop, NEW j \in DOMAIN d.stack
             PROVE  \/ d.stack[j].at \in {"read", "sync"}
                    \/ \E i \in CallFrames(d) : i <= j
  BY DEF BlockedOK
<1>1. c.stack \in Seq(Frames)
  BY DEF Channels
<1>2. CASE d.stack \in Seq(Frames) /\ At(d) = "call"
  <2>1. 1 \in CallFrames(d) /\ 1 <= j
    BY <1>2 DEF At, CallFrames, Frames
  <2>2. QED
    BY <2>1
<1>3. CASE c.inNestedLoop /\ d.stack = c.stack
  BY <1>3 DEF BlockedOK, CallFrames
<1>4. ASSUME c.inNestedLoop, NEW f \in Frames, f.at \in {"read", "sync"},
             d.stack = <<f>> \o c.stack
      PROVE  \/ d.stack[j].at \in {"read", "sync"}
             \/ \E i \in CallFrames(d) : i <= j
  <2>1. CASE j = 1
    BY <1>1, <1>4, <2>1
  <2>2. CASE j # 1
    <3>1. j - 1 \in DOMAIN c.stack /\ d.stack[j] = c.stack[j - 1]
      BY <1>1, <1>4, <2>2
    <3>2. ASSUME NEW i \in CallFrames(c), i <= j - 1
          PROVE  i + 1 \in CallFrames(d) /\ i + 1 <= j
      <4>1. i \in 1 .. Len(c.stack) /\ c.stack[i].at = "call" /\ j \in Nat
        BY <1>1, <1>4 DEF CallFrames
      <4>2. i + 1 \in DOMAIN d.stack /\ d.stack[i + 1] = c.stack[i]
        BY <1>1, <1>4, <4>1
      <4>3. QED
        BY <3>2, <4>1, <4>2 DEF CallFrames
    <3>3. QED
      BY <1>4, <3>1, <3>2 DEF BlockedOK
  <2>3. QED
    BY <2>1, <2>2
<1>5. CASE c.inNestedLoop /\ c.stack # <<>> /\ At(c) # "call"
           /\ d.stack = Tail(c.stack)
  <2>1. j + 1 \in DOMAIN c.stack /\ d.stack[j] = c.stack[j + 1]
    BY <1>1, <1>5
  <2>2. ASSUME NEW i \in CallFrames(c), i <= j + 1
        PROVE  i - 1 \in CallFrames(d) /\ i - 1 <= j
    <3>1. i \in 1 .. Len(c.stack) /\ c.stack[i].at = "call" /\ j \in Nat
      BY <1>1, <1>5 DEF CallFrames
    <3>2. i # 1
      BY <1>1, <1>5, <3>1 DEF At
    <3>3. i - 1 \in DOMAIN d.stack /\ d.stack[i - 1] = c.stack[i]
      BY <1>1, <1>5, <3>1, <3>2
    <3>4. QED
      BY <2>2, <3>1, <3>3 DEF CallFrames
  <2>3. QED
    BY <1>5, <2>1, <2>2 DEF BlockedOK
<1>6. QED
  BY <1>2, <1>3, <1>4, <1>5 DEF StaysBlocked

\* A flush leaves the stack alone, or ends the process.
LEMMA FlushStaysBlocked ==
  ASSUME NEW c \in Channels, NEW e, NEW o \in Flush(e, c)
  PROVE  o.ch.inNestedLoop => c.inNestedLoop /\ o.ch.stack = c.stack
<1>1. CASE o.ch = Disconnected(c)
  BY <1>1, DisconnectedFields
<1>2. CASE o.ch = Ended("crashed")
  BY <1>2 DEF Ended, NewChannel
<1>3. CASE FlushKeeps(c, o.ch)
  BY <1>3 DEF FlushKeeps, SameRest
<1>4. QED
  BY <1>1, <1>2, <1>3, FlushCases

\* The channel of e becomes d, and nothing is said of the rest.
LEMMA BlockedStep ==
  ASSUME TypeOK, Blocked, NEW e \in Ends, NEW d, ch' = [ch EXCEPT ![e] = d],
         StaysBlocked(ch[e], d)
  PROVE  Blocked'
<1>1. ch[e] \in Channels /\ BlockedOK(ch[e])
  BY DEF TypeOK, Blocked
<1>2. BlockedOK(d)
  BY <1>1, StaysBlockedOK
<1>3. \A f \in Ends : ch'[f] = IF f = e THEN d ELSE ch[f]
  BY DEF TypeOK
<1>4. QED
  BY <1>2, <1>3 DEF Blocked

\* In nested mode no dispatching loop runs, and the main loop does not poll.
LEMMA NestedModeRuns ==
  ASSUME NEW c \in Channels, BlockedOK(c), NestedModeOK(c), c.inNestedLoop
  PROVE  At(c) \notin {"loop", "dispatch", "idle"}
<1>1. c.stack \in Seq(Frames)
  BY DEF Channels
<1>2. c.stack # <<>>
  BY DEF NestedModeOK, HasFrame
<1>3. Head(c.stack).at \in {"read", "sync", "call"}
  <2>1. 1 \in DOMAIN c.stack /\ c.stack[1] = Head(c.stack)
    BY <1>1, <1>2
  <2>2. \A i \in CallFrames(c) : i <= 1 => i = 1
    BY <1>1 DEF CallFrames
  <2>3. QED
    BY <2>1, <2>2 DEF BlockedOK, CallFrames
<1>4. QED
  BY <1>2, <1>3 DEF At

LEMMA BlockedNext ==
  TypeOK /\ TypeOK' /\ Scheduled /\ Blocked /\ [Next]_vars => Blocked'
<1> SUFFICES ASSUME TypeOK, TypeOK', Scheduled, Blocked, [Next]_vars
             PROVE  Blocked'
  OBVIOUS
<1>0. CASE UNCHANGED vars
  BY <1>0 DEF vars, Blocked
<1> SUFFICES ASSUME NEW e \in Ends,
                    \/ MainThread(e) \/ TimerExpires(e)
                    \/ Application(e) \/ Outside(e)
             PROVE  Blocked'
  BY <1>0 DEF Next
<1> DEFINE c == ch[e]
<1>c. c \in Channels /\ BlockedOK(c) /\ NestedModeOK(c) /\ ch'[e] \in Channels
  BY DEF TypeOK, Blocked, Scheduled, ChannelOK
<1> HIDE DEF c
<1>s. ASSUME NEW d, ch' = [ch EXCEPT ![e] = d],
             d.inNestedLoop => c.inNestedLoop /\ d.stack = c.stack
      PROVE  Blocked'
  BY <1>s, BlockedStep DEF StaysBlocked, c
<1>f. ASSUME NEW d \in Channels, NEW o \in Flush(e, d), Take(e, o),
             d.inNestedLoop => c.inNestedLoop /\ d.stack = c.stack
      PROVE  Blocked'
  BY <1>f, <1>s, FlushStaysBlocked DEF Take
<1>p. ASSUME c.stack # <<>>, At(c) # "call", NEW d, ch' = [ch EXCEPT ![e] = d],
             d.inNestedLoop => c.inNestedLoop /\ d.stack = Tail(c.stack)
      PROVE  Blocked'
  BY <1>p, BlockedStep DEF StaysBlocked, c
<1>r. ASSUME NEW d \in Channels, d.stack = c.stack,
             d.inNestedLoop => c.inNestedLoop,
             NEW at \in {"read", "sync"}, NEW m \in Messages \cup {NoMsg},
             ch' = [ch EXCEPT ![e] = Push(d, at, m)]
      PROVE  Blocked'
  <2> DEFINE f == [at |-> at, msg |-> m]
  <2>1. f \in Frames /\ f.at \in {"read", "sync"}
    BY DEF Frames
  <2>2. Push(d, at, m).stack = <<f>> \o c.stack
        /\ Push(d, at, m).inNestedLoop = d.inNestedLoop
    BY <1>r DEF Push, Channels
  <2> HIDE DEF f
  <2>3. QED
    BY <1>r, <2>1, <2>2, BlockedStep DEF StaysBlocked, c
<1>n. ASSUME NEW d, ch' = [ch EXCEPT ![e] = d], ~d.inNestedLoop
      PROVE  Blocked'
  BY <1>n, <1>s
<1>1. ASSUME NEW k \in AsyncKinds, SendAsync(e, k) PROVE Blocked'
  <2>1. Enqueue(c, k) \in Channels
    BY <1>c, EnqueueType
  <2>2. /\ Enqueue(c, k).stack = c.stack
        /\ Enqueue(c, k).inNestedLoop = c.inNestedLoop
    BY <1>c DEF Enqueue, Channels
  <2>3. QED
    BY <1>1, <1>f, <2>1, <2>2 DEF SendAsync, c
<1>2. ASSUME NEW d, ch' = [ch EXCEPT ![e] = d], d.stack = c.stack,
             d.inNestedLoop = c.inNestedLoop
      PROVE  Blocked'
  BY <1>2, <1>s
<1>3. CASE QueueAsyncMessage(e) \/ SendReply(e) \/ ClearRemoteIsSuspended(e)
           \/ Continue(e)
  <2>1. PICK d \in {[c EXCEPT !.otherThread = Append(@, NewMessage(c, "thread")),
                             !.nextId = @ + 1],
                   [c EXCEPT !.replyForIncoming = TRUE],
                   [c EXCEPT !.remoteIsSuspended = FALSE],
                   [c EXCEPT !.proc = "run"]} : ch' = [ch EXCEPT ![e] = d]
    BY <1>3 DEF QueueAsyncMessage, SendReply, ClearRemoteIsSuspended, Continue, TypeOK, c
  <2>2. d.stack = c.stack /\ d.inNestedLoop = c.inNestedLoop
    BY <1>c, <2>1 DEF Channels
  <2>3. QED
    BY <1>2, <2>1, <2>2
<1>4. ASSUME NEW k \in SyncKinds, NEW timed \in Timed, SendSync(e, k, timed)
      PROVE  Blocked'
  <2> DEFINE m == NewMessage(c, k)
             d == [Enqueue(c, k) EXCEPT !.inNestedLoop = TRUE,
                                        !.currSyncMessageId = m.id,
                                        !.currSyncReply = NoMsg]
  <2>1. PICK o \in Flush(e, d) :
               Take(e, [o EXCEPT !.ch = EnterNestedLoop(@, m, timed)])
    BY <1>4 DEF SendSync, c
  <2>2. d \in Channels
    <3>1. m \in Messages /\ Enqueue(c, k) \in Channels
      BY <1>c, EnqueueType
    <3>2. m.id \in Nat
      BY <3>1, MessageTypes
    <3> HIDE DEF m
    <3>3. QED
      BY <3>1, <3>2 DEF Channels
  <2> HIDE DEF m, d
  <2>3. o \in Outcomes
    BY <2>2, FlushType
  <2>4. ch' = [ch EXCEPT ![e] = EnterNestedLoop(o.ch, m, timed)]
    BY <2>1, <2>3 DEF Take, Outcomes
  <2> DEFINE x == EnterNestedLoop(o.ch, m, timed)
  <2>5. o.ch \in Channels
    BY <2>3 DEF Outcomes
  <2>6. CASE o.ch.fd
    <3>1. x.stack = <<[at |-> "call", msg |-> m]>> \o o.ch.stack
      BY <2>5, <2>6 DEF EnterNestedLoop, Push, StartNestedLoop, Channels
    <3>2. o.ch.stack \in Seq(Frames)
      BY <2>5 DEF Channels
    <3>3. x.stack # <<>> /\ Head(x.stack).at = "call"
      BY <3>1, <3>2
    <3>4. x \in Channels
      BY <1>c, <2>4 DEF TypeOK
    <3>5. At(x) = "call" /\ x.stack \in Seq(Frames)
      BY <3>3, <3>4 DEF At, Channels
    <3> HIDE DEF x
    <3>6. QED
      BY <2>4, <3>5, BlockedStep DEF StaysBlocked, x
  <2>7. CASE ~o.ch.fd
    <3>1. ~x.inNestedLoop
      BY <2>5, <2>7 DEF EnterNestedLoop, AbandonCall, Channels
    <3>2. QED
      BY <1>n, <2>4, <3>1
  <2>8. QED
    BY <2>6, <2>7
<1>5. CASE AsyncCallerDispatch(e)
  <2> DEFINE q == DrainOtherThread(c)
  <2>0. q \in Channels
    BY <1>c, DrainOtherThreadType
  <2>1. q.stack = c.stack /\ q.inNestedLoop = c.inNestedLoop
    BY <1>c DEF DrainOtherThread, Channels
  <2>2. PICK o \in Flush(e, q) : Take(e, o)
    BY <1>5 DEF AsyncCallerDispatch, c
  <2> HIDE DEF q
  <2>3. QED
    BY <1>f, <2>0, <2>1, <2>2
<1>l. /\ LastSourceOfPass(c) \in Channels /\ LastSourceOfPass(c).stack = c.stack
      /\ LastSourceOfPass(c).inNestedLoop = c.inNestedLoop
  <2>1. LastSourceOfPass(c) \in Channels
    BY <1>c, LastSourceOfPassType
  <2>2. QED
    BY <1>c, <2>1 DEF LastSourceOfPass, Channels
<1>6. CASE SocketHup(e)
  <2>1. ch' = [ch EXCEPT ![e] = Disconnected(LastSourceOfPass(c))]
    BY <1>6 DEF SocketHup, c
  <2>2. QED
    BY <1>l, <1>2, <2>1, DisconnectedFields
<1>7. CASE SocketOut(e)
  <2> DEFINE p == LastSourceOfPass(c)
             d == [p EXCEPT !.blockedOnWrite = FALSE]
             f == IF At(d) = "loop" THEN [d EXCEPT !.socketSource = "in"]
                                    ELSE [d EXCEPT !.nestedSocketSource = "in"]
  <2>1. PICK o \in Flush(e, f) : Take(e, o)
    BY <1>7 DEF SocketOut, c
  <2> HIDE DEF p
  <2>2. f \in Channels /\ f.stack = p.stack /\ f.inNestedLoop = p.inNestedLoop
    BY <1>l DEF Channels, Watch, p
  <2> HIDE DEF f
  <2>3. QED
    BY <1>l, <1>f, <2>1, <2>2 DEF p
<1>8. CASE SocketIn(e)
  <2>1. ch' = [ch EXCEPT ![e] = Push(LastSourceOfPass(c), "read", NoMsg)]
    BY <1>8 DEF SocketIn, c
  <2>2. QED
    BY <1>l, <1>r, <2>1
<1>9. CASE Idle(e)
  <2>1. ~c.inNestedLoop
    BY <1>9, <1>c, NestedModeRuns DEF Idle, c
  <2>2. ch' = [ch EXCEPT ![e] = Push(c, "idle", NoMsg)]
    BY <1>9 DEF Idle, c
  <2>3. ~Push(c, "idle", NoMsg).inNestedLoop
    BY <1>c, <2>1, PushFields
  <2>4. QED
    BY <1>n, <2>2, <2>3
<1>10. ASSUME NEW t, Timeout(e, t) PROVE Blocked'
  <2>1. ch' = [ch EXCEPT ![e] = NestedLoopTimeout(c, t)]
    BY <1>10 DEF Timeout, c
  <2>2. /\ NestedLoopTimeout(c, t).stack = c.stack
        /\ NestedLoopTimeout(c, t).inNestedLoop = c.inNestedLoop
    BY <1>c DEF NestedLoopTimeout, Channels
  <2>3. QED
    BY <1>2, <2>1, <2>2
<1>11. CASE ReadMessage(e)
  <2> DEFINE m == Head(sock[e])
             n == HandleIncomingMessageInNestedMode(c, m)
             d == HandleIncomingMessageInNormalMode(c, m)
  <2>1. m \in Messages
    BY <1>11 DEF ReadMessage, TypeOK
  <2>2. ch' = [ch EXCEPT ![e] = IF c.inNestedLoop THEN n ELSE d]
    BY <1>11 DEF ReadMessage, c
  <2> HIDE DEF m
  <2>3. CASE m.kind \in SyncKinds
    <3> DEFINE r == [c EXCEPT !.replyForIncoming = FALSE]
    <3>1. r \in Channels /\ r.stack = c.stack /\ r.inNestedLoop = c.inNestedLoop
      BY <1>c DEF Channels
    <3>2. n = Push(r, "sync", m) /\ d = Push(r, "sync", m)
      BY <2>3 DEF HandleIncomingMessageInNestedMode, HandleIncomingSyncMessage,
                  HandleIncomingMessageInNormalMode
    <3> HIDE DEF r, n, d
    <3>3. QED
      BY <1>r, <2>1, <2>2, <3>1, <3>2
  <2>4. CASE m.kind \notin SyncKinds /\ c.inNestedLoop
    <3>1. n.stack = c.stack /\ n.inNestedLoop = c.inNestedLoop
      BY <1>c, <2>4 DEF HandleIncomingMessageInNestedMode, TakeReply, QueueIncoming,
                        Channels
    <3>2. QED
      BY <1>2, <2>2, <2>4, <3>1
  <2>5. CASE m.kind \notin SyncKinds /\ ~c.inNestedLoop
    <3>1. ~d.inNestedLoop
      BY <1>c, <2>5 DEF HandleIncomingMessageInNormalMode, QueueIncoming, Push, Channels
    <3>2. QED
      BY <1>n, <2>2, <2>5, <3>1
  <2>6. QED
    BY <2>3, <2>4, <2>5
<1>q. ASSUME c.stack # <<>>
      PROVE  /\ Pop(c).stack = Tail(c.stack) /\ Pop(c).inNestedLoop = c.inNestedLoop
             /\ Disconnected(Pop(c)).stack = Tail(c.stack)
             /\ Disconnected(Pop(c)).inNestedLoop = c.inNestedLoop
  <2>1. Pop(c).stack = Tail(c.stack) /\ Pop(c).inNestedLoop = c.inNestedLoop
    BY <1>c DEF Pop, Channels
  <2>2. QED
    BY <1>c, <1>q, <2>1, PopType, DisconnectedFields
<1>12. CASE ReadNothing(e) \/ AsyncHandlerReturn(e)
  <2>1. c.stack # <<>> /\ At(c) # "call" /\ ch' = [ch EXCEPT ![e] = Pop(c)]
    BY <1>12 DEF ReadNothing, AsyncHandlerReturn, Runs, At, c
  <2>2. QED
    BY <1>p, <1>q, <2>1
<1>13. CASE ReadEndOfStream(e)
  <2>1. c.stack # <<>> /\ At(c) # "call"
    BY <1>13 DEF ReadEndOfStream, Runs, At, c
  <2>2. PICK d \in {Pop(c), [c EXCEPT !.proc = "spinning"],
                    Disconnected(Pop(c))} : ch' = [ch EXCEPT ![e] = d]
    BY <1>13 DEF ReadEndOfStream, c
  <2>3. /\ [c EXCEPT !.proc = "spinning"].stack = c.stack
        /\ [c EXCEPT !.proc = "spinning"].inNestedLoop = c.inNestedLoop
    BY <1>c DEF Channels
  <2>4. CASE d = [c EXCEPT !.proc = "spinning"]
    BY <1>2, <2>2, <2>3, <2>4
  <2>5. CASE d \in {Pop(c), Disconnected(Pop(c))}
    BY <1>p, <1>q, <2>1, <2>2, <2>5
  <2>6. QED
    BY <2>4, <2>5
<1>14. CASE ReadClosed(e)
  <2>1. /\ c.stack # <<>> /\ At(c) # "call"
        /\ ch' = [ch EXCEPT ![e] = Disconnected(Pop(c))]
    BY <1>14 DEF ReadClosed, Runs, At, c
  <2>2. QED
    BY <1>p, <1>q, <2>1
<1>15. CASE DispatchMessage(e) \/ DispatchDisconnect(e) \/ DispatchDone(e)
  <2>1. ~c.inNestedLoop
    BY <1>15, <1>c, NestedModeRuns
       DEF DispatchMessage, DispatchDisconnect, DispatchDone, Dispatching, Runs, c
  <2>2. CASE DispatchMessage(e)
    <3> DEFINE d == Push(PopIncoming(c), "async", Head(c.incomingAsync))
    <3>1. ch' = [ch EXCEPT ![e] = d]
      BY <2>2 DEF DispatchMessage, c
    <3>2. ~d.inNestedLoop
      BY <1>c, <2>1 DEF PopIncoming, Push, Channels
    <3>3. QED
      BY <1>n, <3>1, <3>2
  <2>3. CASE DispatchDisconnect(e)
    <3> DEFINE d == EndDispatch(PopIncoming(c), "spent")
    <3>1. ch' = [ch EXCEPT ![e] = d]
      BY <2>3 DEF DispatchDisconnect, c
    <3>2. ~d.inNestedLoop
      BY <1>c, <2>1 DEF PopIncoming, EndDispatch, Pop, Channels
    <3>3. QED
      BY <1>n, <3>1, <3>2
  <2>4. CASE DispatchDone(e)
    <3> DEFINE d == EndDispatch(c, "none")
    <3>1. ch' = [ch EXCEPT ![e] = d]
      BY <2>4 DEF DispatchDone, c
    <3>2. ~d.inNestedLoop
      BY <1>c, <2>1 DEF EndDispatch, Pop, Channels
    <3>3. QED
      BY <1>n, <3>1, <3>2
  <2>5. QED
    BY <1>15, <2>2, <2>3, <2>4
<1>16. CASE SyncHandlerReturn(e)
  <2> DEFINE m == Head(c.stack).msg
             r == ReplyTo(c, m)
             d == Pop(c)
             f == [d EXCEPT !.outgoing = Append(@, r),
                            !.replyForIncoming = FALSE]
  <2>1. c.stack # <<>> /\ At(c) # "call"
    BY <1>16 DEF SyncHandlerReturn, Runs, At, c
  <2>2. m \in Messages \cup {NoMsg} /\ d \in Channels
    BY <1>c, <2>1, StackType, PopType
  <2>3. PICK o \in Flush(e, f) : Take(e, [o EXCEPT !.ch = StopFor(m, @)])
    BY <1>16 DEF SyncHandlerReturn, c
  <2> HIDE DEF m
  <2>4. r \in Messages
    BY <2>2, MessageTypes DEF ReplyTo, Messages, ReplyKinds
  <2> HIDE DEF r
  <2>5. d.stack = Tail(c.stack) /\ d.inNestedLoop = c.inNestedLoop
    BY <1>q, <2>1
  <2> HIDE DEF d
  <2>6. Append(d.outgoing, r) \in Seq(Messages)
    BY <2>2, <2>4 DEF Channels
  <2>7. f \in Channels /\ f.stack = d.stack /\ f.inNestedLoop = d.inNestedLoop
    BY <2>2, <2>6 DEF Channels
  <2> HIDE DEF f
  <2>8. o \in Outcomes /\ (o.ch.inNestedLoop => f.inNestedLoop /\ o.ch.stack = f.stack)
    BY <2>7, FlushType, FlushStaysBlocked
  <2>9. ch' = [ch EXCEPT ![e] = StopFor(m, o.ch)] /\ o.ch \in Channels
    BY <2>3, <2>8 DEF Take, Outcomes
  <2>10. /\ StopFor(m, o.ch).stack = o.ch.stack
         /\ StopFor(m, o.ch).inNestedLoop = o.ch.inNestedLoop
    BY <2>9 DEF StopFor, Channels
  <2>11. QED
    BY <1>p, <2>1, <2>5, <2>7, <2>8, <2>9, <2>10
<1>17. CASE CallReturn(e)
  <2> DEFINE d == LeaveNestedLoop(c)
             f == IF d.fd THEN ResumeMainLoop(d) ELSE d
  <2>1. c.stack # <<>>
    BY <1>17 DEF CallReturn, Runs, At, c
  <2>2. d \in Channels /\ ~d.inNestedLoop
    <3>1. d \in Channels
      BY <1>c, <2>1, LeaveNestedLoopType
    <3>2. ~d.inNestedLoop
      BY <1>c DEF LeaveNestedLoop, DestroyTimeout, Pop, Channels
    <3>3. QED
      BY <3>1, <3>2
  <2>3. PICK o \in Flush(e, f) : Take(e, o)
    BY <1>17 DEF CallReturn, c
  <2> HIDE DEF d
  <2>4. f \in Channels /\ ~f.inNestedLoop
    <3>1. f \in Channels
      BY <2>2, ResumeMainLoopType
    <3>2. ~ResumeMainLoop(d).inNestedLoop
      BY <2>2 DEF ResumeMainLoop, ScheduleBuffered, AttachDispatcher, Channels
    <3>3. QED
      BY <2>2, <3>1, <3>2
  <2> HIDE DEF f
  <2>5. QED
    BY <1>f, <2>3, <2>4
<1>18. CASE Exit(e)
  <2>1. ch' = [ch EXCEPT ![e] = Ended("exited")] /\ ~Ended("exited").inNestedLoop
    BY <1>18 DEF Exit, Ended, NewChannel
  <2>2. QED
    BY <1>n, <2>1
<1>19. QED
  BY <1>1, <1>3, <1>4, <1>5, <1>6, <1>7, <1>8, <1>9, <1>10, <1>11, <1>12, <1>13,
     <1>14, <1>15, <1>16, <1>17, <1>18
     DEF MainThread, TimerExpires, Application, Outside

\* Above the innermost call, whose index CurrentOK knows, there is no handler of
\* an asynchronous message.
LEMMA BlockedImplies ==
  ASSUME TypeOK, Calls, Blocked
  PROVE  BufferedWhileBlocked
<1> SUFFICES ASSUME NEW e \in Ends, ch[e].inNestedLoop
             PROVE  \E i \in CallFrames(ch[e]) :
                      \A j \in 1 .. i - 1 : ch[e].stack[j].at # "async"
  BY DEF BufferedWhileBlocked
<1> DEFINE c == ch[e]
<1>1. c.stack \in Seq(Frames) /\ BlockedOK(c)
  BY DEF TypeOK, Channels, Blocked
<1>2. PICK i \in CallFrames(c) : \A j \in CallFrames(c) : j >= i
  BY DEF Calls, CallsOK, CurrentOK, Innermost
<1>3. i \in 1 .. Len(c.stack) /\ Len(c.stack) \in Nat
  BY <1>1 DEF CallFrames
<1>4. ASSUME NEW j \in 1 .. i - 1 PROVE c.stack[j].at # "async"
  <2>1. j \in DOMAIN c.stack
    BY <1>1, <1>3
  <2>2. ~ \E k \in CallFrames(c) : k <= j
    BY <1>1, <1>2, <1>3 DEF CallFrames
  <2>3. QED
    BY <1>1, <2>1, <2>2 DEF BlockedOK
<1>5. QED
  BY <1>4

\* A receiver that is blocked on a synchronous message hands its listener no
\* asynchronous one above the innermost call, with calls nested to any depth:
\* what the comment "They buffer a message" says.
THEOREM BlockedReceiversBuffer == Spec => []BufferedWhileBlocked
<1>1. Init => Blocked
  BY DEF Init, NewChannel, Blocked, BlockedOK
<1>2. QED
  BY <1>1, TypeCorrect, SchedulingCorrect, CallsAreServed, BlockedNext, BlockedImplies,
     PTL DEF Spec
=============================================================================
