--------------------------- MODULE HandshakeProofs ---------------------------
(***************************************************************************)
(* Theorems about Handshake, for any clients, length of the name, backlog  *)
(* and number of bytes that follow.                                        *)
(***************************************************************************)
EXTENDS Handshake, SequenceTheorems, TLAPS

\* The server reads what has been written, and no client's bytes are taken twice.
ReadsWritten == \A c \in Clients : read[c] <= written[c]

\* Before its channel has begun, nothing behind the name of a client is read.
NameFirst == \A c \in Clients : read[c] <= NameLen \/ begins[c] > 0

\* The inductive invariant.
Inv == TypeOK /\ ChannelBegins /\ ReadsWritten /\ NameFirst

LEMMA Constants == NameLen \in Nat \ {0} /\ Frames \in Nat /\ NameLen + Frames \in Nat
BY HandshakeAssumption

LEMMA InitOK == Init => Inv
<1> SUFFICES ASSUME Init
             PROVE  Inv
  OBVIOUS
<1>1. TypeOK
  <2>1. 0 \in 0 .. NameLen + Frames /\ 0 \in Nat /\ 0 <= Backlog
    BY Constants, HandshakeAssumption
  <2>2. <<>> \in Seq(Clients) /\ Len(<<>>) = 0
    OBVIOUS
  <2>3. QED
    BY <2>1, <2>2 DEF Init, TypeOK
<1>2. ChannelBegins /\ ReadsWritten /\ NameFirst
  BY Constants DEF Init, ChannelBegins, ReadsWritten, NameFirst
<1>3. QED
  BY <1>1, <1>2 DEF Inv
-----------------------------------------------------------------------------
(***************************************************************************)
(* What the server has of a client's bytes.                                *)
(***************************************************************************)
\* The counts of all clients.
CountsOK == ChannelBegins /\ ReadsWritten /\ NameFirst

Counted ==
  /\ written \in [Clients -> 0 .. NameLen + Frames]
  /\ read \in [Clients -> 0 .. NameLen + Frames]
  /\ begins \in [Clients -> Nat]

\* Steps that write and read nothing, and connect nobody.
LEMMA QuietOK ==
  ASSUME Inv, UNCHANGED <<written, read, begins>>,
         \A c \in Clients : phase'[c] = "connected" => phase[c] = "connected"
  PROVE  CountsOK' /\ Counted'
BY DEF Inv, TypeOK, ChannelBegins, ReadsWritten, NameFirst, CountsOK, Counted

\* A client writes n bytes.
LEMMA WriteOK ==
  ASSUME Inv, NEW c \in Clients, NEW n \in Nat, written[c] + n <= NameLen + Frames,
         written' = [written EXCEPT ![c] = @ + n], UNCHANGED <<read, begins>>,
         \A d \in Clients : phase'[d] = "connected" =>
           phase[d] = "connected" \/ (d = c /\ written'[c] = NameLen)
  PROVE  CountsOK' /\ Counted'
<1>1. \A d \in Clients : written[d] \in Nat /\ read[d] \in Nat /\ read[d] <= written[d]
  BY Constants DEF Inv, TypeOK, ReadsWritten
<1>2. written'[c] = written[c] + n /\ \A d \in Clients : d # c => written'[d] = written[d]
  BY DEF Inv, TypeOK
<1>3. \A d \in Clients : written'[d] \in Nat /\ written[d] <= written'[d]
  BY <1>1, <1>2
<1>4. Counted'
  <2>1. written[c] + n \in 0 .. NameLen + Frames
    BY <1>1, Constants
  <2>2. QED
    BY <2>1 DEF Inv, TypeOK, Counted
<1>5. ReadsWritten'
  BY <1>1, <1>3 DEF ReadsWritten
<1>6. NameFirst'
  BY DEF Inv, NameFirst
<1>7. ChannelBegins'
  <2>1. ASSUME NEW d \in Clients, phase'[d] = "connected"
        PROVE  written'[d] >= NameLen
    <3>1. CASE phase[d] = "connected"
      <4>1. written[d] >= NameLen
        BY <3>1 DEF Inv, ChannelBegins
      <4>2. QED
        BY <4>1, <1>1, <1>3, Constants
    <3>2. CASE d = c /\ written'[c] = NameLen
      BY <3>2, Constants
    <3>3. QED
      BY <2>1, <3>1, <3>2
  <2>2. QED
    BY <2>1 DEF Inv, ChannelBegins
<1>8. QED
  BY <1>4, <1>5, <1>6, <1>7 DEF CountsOK

\* The server reads n bytes of the name of c: the channel begins when it has all.
LEMMA RecvOK ==
  ASSUME Inv, NEW n \in Nat, Recv(n)
  PROVE  CountsOK' /\ Counted'
<1> DEFINE c == serving
<1>1. c \in Clients /\ read' = [read EXCEPT ![c] = @ + n]
      /\ UNCHANGED <<phase, written>> /\ n <= written[c] - read[c]
      /\ read[c] + n <= NameLen
  BY DEF Recv, Inv, TypeOK, Unread, client
<1>2. begins' = begins
      \/ (read'[c] >= NameLen /\ begins' = [begins EXCEPT ![c] = read'[c] + 1])
  <2>1. read'[c] = read[c] + n /\ read[c] \in Nat
    BY <1>1, Constants DEF Inv, TypeOK
  <2>2. read'[c] < NameLen \/ read'[c] >= NameLen
    BY <2>1, Constants
  <2>3. IF read'[c] < NameLen THEN UNCHANGED <<serving, begins>>
        ELSE serving' = Nobody /\ begins' = [begins EXCEPT ![c] = read'[c] + 1]
    BY DEF Recv
  <2>4. CASE read'[c] < NameLen
    <3>1. UNCHANGED <<serving, begins>>
      BY <2>3, <2>4, Zenon
    <3>2. begins' = begins
      BY <3>1
    <3>3. QED
      BY <3>2, Zenon
  <2>5. CASE ~(read'[c] < NameLen)
    BY <2>2, <2>3, <2>5
  <2>6. QED
    BY <2>4, <2>5
<1> HIDE DEF c
<1>3. read'[c] = read[c] + n /\ read[c] \in Nat /\ written[c] \in Nat
      /\ written[c] <= NameLen + Frames
      /\ \A d \in Clients : d # c => read'[d] = read[d]
  BY <1>1, Constants DEF Inv, TypeOK
<1>4. read'[c] \in Nat /\ read'[c] <= written[c] /\ read'[c] <= NameLen
      /\ read'[c] \in 0 .. NameLen + Frames
  BY <1>1, <1>3, Constants
<1>5. begins' = begins \/ begins' = [begins EXCEPT ![c] = NameLen + 1]
  <2>1. read'[c] >= NameLen => read'[c] = NameLen
    BY <1>4, Constants
  <2>2. QED
    BY <1>2, <2>1
<1>6. \A d \in Clients : begins'[d] = begins[d] \/ begins'[d] = NameLen + 1
  BY <1>5 DEF Inv, TypeOK
<1>7. ChannelBegins'
  BY <1>1, <1>6 DEF Inv, ChannelBegins
<1>8. ReadsWritten'
  BY <1>1, <1>3, <1>4 DEF Inv, ReadsWritten
<1>9. NameFirst'
  <2>1. ASSUME NEW d \in Clients
        PROVE  read'[d] <= NameLen \/ begins'[d] > 0
    <3>1. CASE d = c
      BY <3>1, <1>4
    <3>2. CASE d # c
      BY <3>2, <1>3, <1>6, Constants DEF Inv, NameFirst
    <3>3. QED
      BY <3>1, <3>2
  <2>2. QED
    BY <2>1 DEF NameFirst
<1>10. Counted'
  <2>1. read' \in [Clients -> 0 .. NameLen + Frames]
    BY <1>1, <1>3, <1>4 DEF Inv, TypeOK
  <2>2. begins' \in [Clients -> Nat]
    <3>1. begins \in [Clients -> Nat] /\ NameLen + 1 \in Nat
      BY Constants DEF Inv, TypeOK
    <3>2. [begins EXCEPT ![c] = NameLen + 1] \in [Clients -> Nat]
      BY <3>1
    <3>3. QED
      BY <3>1, <3>2, <1>5
  <2>3. QED
    BY <2>1, <2>2, <1>1 DEF Inv, TypeOK, Counted
<1>11. QED
  BY <1>7, <1>8, <1>9, <1>10 DEF CountsOK

LEMMA ReadChannelOK ==
  ASSUME Inv, NEW c \in Clients, ReadChannel(c)
  PROVE  CountsOK' /\ Counted'
<1>1. read' = [read EXCEPT ![c] = written[c]] /\ UNCHANGED <<phase, written, begins>>
      /\ begins[c] > 0
  BY DEF ReadChannel, client
<1>2. \A d \in Clients : written[d] \in 0 .. NameLen + Frames /\ written[d] <= written[d]
  BY Constants DEF Inv, TypeOK
<1>3. QED
  BY <1>1, <1>2
     DEF Inv, TypeOK, ChannelBegins, ReadsWritten, NameFirst, CountsOK, Counted
-----------------------------------------------------------------------------
(***************************************************************************)
(* The other variables.                                                    *)
(***************************************************************************)
LEMMA ClientTypes ==
  ASSUME Inv, Counted', UNCHANGED <<listens, found, backlog, serving>>,
         phase' \in [Clients -> {"created", "naming", "connected", "failed", "ended"}],
         suspended' \in SUBSET Clients, open' \in SUBSET Clients,
         errno' \in {"none", "EAGAIN", "EINTR"}
  PROVE  TypeOK'
BY DEF Inv, TypeOK, Counted

LEMMA ServerTypes ==
  ASSUME Inv, Counted', UNCHANGED client,
         listens' \in BOOLEAN, found' \in BOOLEAN, open' \in SUBSET Clients,
         backlog' \in Seq(Clients), Len(backlog') <= Backlog,
         serving' \in Clients \cup {Nobody}, errno' \in {"none", "EAGAIN", "EINTR"}
  PROVE  TypeOK'
BY DEF Inv, TypeOK, Counted, client

\* A step of client c that does not write.
LEMMA ClientOK ==
  ASSUME Inv, NEW c \in Clients,
         \/ Refused(c) \/ ConnectInterrupted(c) \/ NameFails(c)
         \/ End(c) \/ Suspend(c) \/ Resume(c)
  PROVE  Inv'
<1>1. UNCHANGED <<written, read, open, server>> /\ suspended' \in SUBSET Clients
  BY DEF Refused, ConnectInterrupted, NameFails, End, Suspend, Resume, Goto,
            Inv, TypeOK
<1>2. /\ phase' \in [Clients -> {"created", "naming", "connected", "failed", "ended"}]
      /\ \A d \in Clients : phase'[d] = "connected" => phase[d] = "connected"
  BY DEF Refused, ConnectInterrupted, NameFails, End, Suspend, Resume, Goto,
            Inv, TypeOK
<1>3. CountsOK' /\ Counted'
  BY <1>1, <1>2, QuietOK DEF server
<1>4. TypeOK'
  BY <1>1, <1>2, <1>3, ClientTypes DEF server, Inv, TypeOK
<1>5. QED
  BY <1>3, <1>4 DEF Inv, CountsOK

LEMMA ConnectOK ==
  ASSUME Inv, NEW c \in Clients, Connect(c)
  PROVE  Inv'
<1>1. UNCHANGED <<suspended, written, read, listens, found, serving, errno, begins>>
      /\ phase' = [phase EXCEPT ![c] = "naming"] /\ open' = open \cup {c}
      /\ backlog' = Append(backlog, c) /\ Len(backlog) < Backlog
  BY DEF Connect, Goto
<1>2. backlog \in Seq(Clients) /\ Len(backlog) \in Nat
  BY LenProperties DEF Inv, TypeOK
<1>3. backlog' \in Seq(Clients) /\ Len(backlog') <= Backlog
  BY <1>1, <1>2, HandshakeAssumption
<1>4. CountsOK' /\ Counted'
  BY <1>1, QuietOK DEF Inv, TypeOK
<1>5. TypeOK'
  BY <1>1, <1>3, <1>4 DEF Inv, TypeOK
<1>6. QED
  BY <1>4, <1>5 DEF Inv, CountsOK

LEMMA SendNameOK ==
  ASSUME Inv, NEW c \in Clients, NEW n \in 1 .. NameLen, SendName(c, n)
  PROVE  Inv'
<1>1. written' = [written EXCEPT ![c] = @ + n] /\ written[c] + n <= NameLen
      /\ UNCHANGED <<suspended, read, open, server>>
      /\ phase' = [phase EXCEPT ![c] = IF written'[c] = NameLen THEN "connected" ELSE @]
  BY DEF SendName
<1>2. n \in Nat /\ written[c] + n <= NameLen + Frames
  <2>1. written[c] \in Nat /\ n \in Nat
    BY Constants DEF Inv, TypeOK
  <2>2. QED
    BY <2>1, <1>1, Constants
<1>3. /\ phase' \in [Clients -> {"created", "naming", "connected", "failed", "ended"}]
      /\ \A d \in Clients : phase'[d] = "connected" =>
           phase[d] = "connected" \/ (d = c /\ written'[c] = NameLen)
  <2>1. PICK p : p = IF written'[c] = NameLen THEN "connected" ELSE phase[c]
    OBVIOUS
  <2>2. phase \in [Clients -> {"created", "naming", "connected", "failed", "ended"}]
    BY DEF Inv, TypeOK
  <2>3. p \in {"created", "naming", "connected", "failed", "ended"}
    BY <2>1, <2>2
  <2>4. phase' = [phase EXCEPT ![c] = p]
    BY <1>1, <2>1
  <2>5. phase'[c] = p /\ \A d \in Clients : d # c => phase'[d] = phase[d]
    BY <2>2, <2>4
  <2>6. p = "connected" => phase[c] = "connected" \/ written'[c] = NameLen
    BY <2>1
  <2>7. phase' \in [Clients -> {"created", "naming", "connected", "failed", "ended"}]
    BY <2>2, <2>3, <2>4
  <2>8. \A d \in Clients : phase'[d] = "connected" =>
          phase[d] = "connected" \/ (d = c /\ written'[c] = NameLen)
    BY <2>5, <2>6, Zenon
  <2>9. QED
    BY <2>7, <2>8
<1>4. CountsOK' /\ Counted'
  BY <1>1, <1>2, <1>3, WriteOK DEF server
<1>5. TypeOK'
  BY <1>1, <1>3, <1>4, ClientTypes DEF server, Inv, TypeOK
<1>6. QED
  BY <1>4, <1>5 DEF Inv, CountsOK

LEMMA SendFrameOK ==
  ASSUME Inv, NEW c \in Clients, SendFrame(c)
  PROVE  Inv'
<1>1. written' = [written EXCEPT ![c] = @ + 1] /\ written[c] < NameLen + Frames
      /\ UNCHANGED <<phase, suspended, read, open, server>>
  BY DEF SendFrame
<1>2. written[c] + 1 <= NameLen + Frames /\ 1 \in Nat
  <2>1. written[c] \in Nat
    BY Constants DEF Inv, TypeOK
  <2>2. QED
    BY <2>1, <1>1, Constants
<1>3. CountsOK' /\ Counted'
  <2>1. \A d \in Clients : phase'[d] = "connected" =>
          phase[d] = "connected" \/ (d = c /\ written'[c] = NameLen)
    <3>1. phase' = phase
      BY <1>1
    <3>2. QED
      BY <3>1, Zenon
  <2>2. QED
    BY <2>1, <1>1, <1>2, WriteOK DEF server
<1>4. TypeOK'
  BY <1>1, <1>3, ClientTypes DEF server, Inv, TypeOK
<1>5. QED
  BY <1>3, <1>4 DEF Inv, CountsOK

\* The server reads.
LEMMA ReadOK ==
  ASSUME Inv, (\E n \in 1 .. NameLen + Frames : Recv(n)) \/ \E c \in Clients : ReadChannel(c)
  PROVE  Inv'
<1>1. CountsOK' /\ Counted'
  BY RecvOK, ReadChannelOK, Constants
<1>2. UNCHANGED <<client, open, listens, found, backlog>>
      /\ errno' \in {"none", "EAGAIN", "EINTR"} /\ serving' \in Clients \cup {Nobody}
  BY DEF Recv, ReadChannel, Inv, TypeOK
<1>3. TypeOK'
  BY <1>1, <1>2, ServerTypes DEF Inv, TypeOK
<1>4. QED
  BY <1>1, <1>3 DEF Inv, CountsOK

\* The steps of the server that read nothing.
LEMMA ServerOK ==
  ASSUME Inv,
         \/ Start \/ Stop \/ Crash \/ StopOlder
         \/ Accept \/ RecvEnd \/ RecvInterrupted
  PROVE  Inv'
<1>1. UNCHANGED <<client, read, begins>>
      /\ listens' \in BOOLEAN /\ found' \in BOOLEAN /\ open' \in SUBSET Clients
      /\ errno' \in {"none", "EAGAIN", "EINTR"}
  BY DEF Start, Stop, Crash, StopOlder, Accept, RecvEnd, RecvInterrupted, Inv, TypeOK
<1>2. backlog \in Seq(Clients) /\ Len(backlog) \in Nat /\ Len(backlog) <= Backlog
      /\ serving \in Clients \cup {Nobody} /\ Backlog \in Nat
  BY LenProperties, HandshakeAssumption DEF Inv, TypeOK
<1>3. /\ backlog' \in Seq(Clients) /\ Len(backlog') <= Backlog
      /\ serving' \in Clients \cup {Nobody}
  <2>1. CASE Accept
    <3>1. backlog # <<>> /\ backlog' = Tail(backlog) /\ serving' = Head(backlog)
      BY <2>1 DEF Accept
    <3>2. Head(backlog) \in Clients /\ Tail(backlog) \in Seq(Clients)
          /\ Len(Tail(backlog)) = Len(backlog) - 1
      BY <3>1, <1>2, HeadTailProperties
    <3>3. QED
      BY <3>1, <3>2, <1>2
  <2>2. CASE Stop \/ Crash
    <3>1. backlog' = <<>> /\ (serving' = serving \/ serving' = Nobody)
      BY <2>2 DEF Stop, Crash
    <3>2. QED
      BY <3>1, <1>2
  <2>3. CASE Start \/ StopOlder \/ RecvEnd \/ RecvInterrupted
    BY <2>3, <1>2 DEF Start, StopOlder, RecvEnd, RecvInterrupted
  <2>4. QED
    BY <2>1, <2>2, <2>3
<1>4. CountsOK' /\ Counted'
  BY <1>1, QuietOK DEF client
<1>5. TypeOK'
  BY <1>1, <1>3, <1>4, ServerTypes
<1>6. QED
  BY <1>4, <1>5 DEF Inv, CountsOK
-----------------------------------------------------------------------------
(***************************************************************************)
(* The theorems.                                                           *)
(***************************************************************************)
\* Whoever connects, writes, stops, crashes and starts again, the server reads of a
\* connection what was written and nothing behind the name before the channel begins.
THEOREM HandshakeCorrect == Spec => []Inv
<1>1. Inv /\ [Next]_vars => Inv'
  <2> SUFFICES ASSUME Inv, [Next]_vars
               PROVE  Inv'
    OBVIOUS
  <2>1. ASSUME NEW c \in Clients, ClientStep(c)
        PROVE  Inv'
    BY <2>1, ClientOK, ConnectOK, SendNameOK DEF ClientStep
  <2>2. ASSUME NEW c \in Clients,
               ConnectInterrupted(c) \/ End(c) \/ Suspend(c) \/ Resume(c)
        PROVE  Inv'
    BY <2>2, ClientOK
  <2>3. ASSUME NEW c \in Clients, SendFrame(c) \/ ReadChannel(c)
        PROVE  Inv'
    BY <2>3, SendFrameOK, ReadOK
  <2>4. CASE ServerStep
    BY <2>4, ReadOK, ServerOK DEF ServerStep
  <2>5. CASE Start \/ Stop \/ Crash \/ StopOlder \/ RecvInterrupted
    BY <2>5, ServerOK
  <2>6. CASE UNCHANGED vars
    BY <2>6 DEF Inv, TypeOK, ChannelBegins, ReadsWritten, NameFirst, vars, client, server
  <2>7. QED
    BY <2>1, <2>2, <2>3, <2>4, <2>5, <2>6 DEF Next
<1>2. QED
  BY InitOK, <1>1, PTL DEF Spec

\* Every variable keeps its type: the backlog never exceeds its limit and the server
\* never reads more than a client writes.
THEOREM TypesHold == Spec => []TypeOK
<1>1. Inv => TypeOK
  BY DEF Inv
<1>2. QED
  BY HandshakeCorrect, <1>1, PTL

\* Both channels of a connection begin at the first byte behind the name.
THEOREM ChannelsBeginTogether == Spec => []ChannelBegins
<1>1. Inv => ChannelBegins
  BY DEF Inv
<1>2. QED
  BY HandshakeCorrect, <1>1, PTL

\* The server closes the connection of a client that lives only when it ends itself.
THEOREM NobodyIsCutOff == Spec => NotCutOff
<1>1. [Next]_vars => [\A c \in open \ open' : phase[c] = "ended" \/ ~listens']_vars
  <2> SUFFICES ASSUME Next, NEW c \in open \ open'
               PROVE  phase[c] = "ended" \/ ~listens'
    OBVIOUS
  <2>1. ASSUME NEW d \in Clients,
               \/ ClientStep(d) \/ ConnectInterrupted(d) \/ SendFrame(d)
               \/ End(d) \/ Suspend(d) \/ Resume(d)
               \/ ReadChannel(d)
        PROVE  open \subseteq open'
    BY <2>1 DEF ClientStep, Connect, Refused, ConnectInterrupted, NameFails,
                SendName, SendFrame, End, Suspend, Resume, ReadChannel
  <2>2. CASE Stop \/ Crash
    BY <2>2 DEF Stop, Crash
  <2>3. CASE RecvEnd
    BY <2>3 DEF RecvEnd
  <2>4. ASSUME \/ Start \/ StopOlder \/ RecvInterrupted \/ Accept
               \/ \E n \in 1 .. NameLen + Frames : Recv(n)
        PROVE  open' = open
    BY <2>4 DEF Start, StopOlder, RecvInterrupted, Accept, Recv
  <2>5. QED
    BY <2>1, <2>2, <2>3, <2>4 DEF Next, ServerStep
<1>2. QED
  BY <1>1, PTL DEF Spec, NotCutOff
=============================================================================
