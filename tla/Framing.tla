------------------------------ MODULE Framing ------------------------------
(***************************************************************************)
(* How one direction of a connection cuts messages into bytes and puts     *)
(* them together again: processOneOutgoingMessage and writeToSocket of the *)
(* sending channel, processIncomingMessages and readFromSocket of the      *)
(* receiving one (src/ipc/PIpcChannel.cpp).  Channel takes a message as    *)
(* one unit; this module has the calls send and recv as steps, each of     *)
(* which moves as many bytes as the kernel likes, and either process may   *)
(* end between two of them.                                                *)
(*                                                                         *)
(* A frame is the length of the payload in HeaderSize bytes and then the   *)
(* payload.  A byte is known by its message and its place in the frame;    *)
(* what a length byte says is the size of its message.                     *)
(***************************************************************************)
EXTENDS Naturals, Sequences

CONSTANTS
  HeaderSize,   \* sizeof(int)
  Sizes,        \* the payload sizes that occur
  MaxMessages,  \* how many messages are sent
  Capacity      \* how many bytes the socket holds

ASSUME FramingAssumption ==
  /\ HeaderSize \in Nat \ {0} /\ Capacity \in Nat \ {0}
  /\ Sizes \subseteq Nat \ {0}
  /\ MaxMessages \in Nat

Messages == [nr : Nat \ {0}, size : Sizes]
Bytes == [of : Messages, at : Nat \ {0}]

VARIABLES
  sent,       \* the messages queued so far, in order
  outgoing,   \* m_outgoingMessages
  lengthOut,  \* m_currOutgoingMessageInfo.m_lengthBytesHandled
  payloadOut, \* m_currOutgoingMessageInfo.m_payloadBytesHandled
  blocked,    \* m_blockedOnWrite of the sender
  writing,    \* the sender is in processOutgoingMessages
  writer,     \* the sender's end of the socket is open
  socket,     \* the bytes in the socket
  lengthIn,   \* the bytes of m_incomingMessagePayloadLength read so far
  payloadIn,  \* the bytes of m_incomingMessage read so far
  expected,   \* the size of m_incomingMessage, 0 while there is none
  reading,    \* the receiver is in the loop of socketCallback
  reader,     \* the receiver's end of the socket is open
  errno,      \* errno of the receiver's thread
  delivered   \* the payloads handed over so far, in order

sender == <<sent, outgoing, lengthOut, payloadOut, blocked, writing, writer>>
receiver == <<lengthIn, payloadIn, expected, reading, reader, errno, delivered>>
vars == <<sender, socket, receiver>>

Init ==
  /\ sent = <<>> /\ outgoing = <<>> /\ lengthOut = 0 /\ payloadOut = 0
  /\ blocked = FALSE /\ writing = FALSE /\ writer = TRUE
  /\ socket = <<>>
  /\ lengthIn = <<>> /\ payloadIn = <<>> /\ expected = 0
  /\ reading = FALSE /\ reader = TRUE /\ errno = "none" /\ delivered = <<>>

\* The bytes of message m in places from + 1 .. from + n of its frame.
Cut(m, from, n) == [i \in 1 .. n |-> [of |-> m, at |-> from + i]]

Length(m) == Cut(m, 0, HeaderSize)
Payload(m) == Cut(m, HeaderSize, m.size)

Room == Capacity - Len(socket)

\* The sizes that length bytes may spell: any, if they are not those of one
\* message.
Spelled(bytes) ==
  LET m == bytes[1].of IN IF bytes = Length(m) THEN {m.size} ELSE Sizes
-----------------------------------------------------------------------------
(***************************************************************************)
(* The sender.                                                             *)
(***************************************************************************)
\* sendAsyncMessage.
Send(size) ==
  /\ writer /\ ~writing /\ Len(sent) < MaxMessages
  /\ LET m == [nr |-> Len(sent) + 1, size |-> size]
     IN  sent' = Append(sent, m) /\ outgoing' = Append(outgoing, m)
  /\ writing' = ~blocked
  /\ UNCHANGED <<lengthOut, payloadOut, blocked, writer, socket, receiver>>

\* processOneOutgoingMessage, the header: one call of send.
SendLength(n) ==
  /\ writing /\ writer /\ reader
  /\ lengthOut + n <= HeaderSize /\ n <= Room
  /\ socket' = socket \o Cut(Head(outgoing), lengthOut, n)
  /\ lengthOut' = lengthOut + n
  /\ UNCHANGED <<sent, outgoing, payloadOut, blocked, writing, writer, receiver>>

\* The payload.  Behind its last byte the message is popped and the next one
\* begun.
SendPayload(n) ==
  LET m == Head(outgoing) IN
  /\ writing /\ writer /\ reader
  /\ lengthOut = HeaderSize /\ payloadOut + n <= m.size /\ n <= Room
  /\ socket' = socket \o Cut(m, HeaderSize + payloadOut, n)
  /\ IF payloadOut + n < m.size
     THEN /\ payloadOut' = payloadOut + n
          /\ UNCHANGED <<outgoing, lengthOut, writing>>
     ELSE /\ payloadOut' = 0 /\ lengthOut' = 0
          /\ outgoing' = Tail(outgoing) /\ writing' = (Tail(outgoing) # <<>>)
  /\ UNCHANGED <<sent, blocked, writer, receiver>>

\* Faulty variant: a message that the full socket cuts is begun anew.
WouldBlockRestart ==
  /\ writing /\ writer /\ reader /\ Room = 0
  /\ blocked' = TRUE /\ writing' = FALSE /\ lengthOut' = 0 /\ payloadOut' = 0
  /\ UNCHANGED <<sent, outgoing, writer, socket, receiver>>

\* EAGAIN: the counters stay where they are.
WouldBlock ==
  /\ writing /\ writer /\ reader /\ Room = 0
  /\ blocked' = TRUE /\ writing' = FALSE
  /\ UNCHANGED <<sent, outgoing, lengthOut, payloadOut, writer, socket, receiver>>

\* Faulty variant: the queue waits for the next sendAsyncMessage.
SocketOutOnly ==
  /\ writer /\ reader /\ ~writing /\ blocked /\ Room > 0
  /\ blocked' = FALSE /\ writing' = FALSE
  /\ UNCHANGED <<sent, outgoing, lengthOut, payloadOut, writer, socket, receiver>>

\* socketCallback, G_IO_OUT.
SocketOut ==
  /\ writer /\ reader /\ ~writing /\ blocked /\ Room > 0
  /\ blocked' = FALSE /\ writing' = (outgoing # <<>>)
  /\ UNCHANGED <<sent, outgoing, lengthOut, payloadOut, writer, socket, receiver>>

\* The reader is gone: send fails, or poll reports G_IO_HUP; disconnected.
WriterHup ==
  /\ writer /\ ~reader
  /\ writer' = FALSE /\ writing' = FALSE
  /\ UNCHANGED <<sent, outgoing, lengthOut, payloadOut, blocked, socket, receiver>>

\* The sender deletes its channel, or ends, also in the middle of a message.
CloseWriter ==
  /\ writer
  /\ writer' = FALSE /\ writing' = FALSE
  /\ UNCHANGED <<sent, outgoing, lengthOut, payloadOut, blocked, socket, receiver>>
-----------------------------------------------------------------------------
(***************************************************************************)
(* The receiver.                                                           *)
(***************************************************************************)
\* A signal arrives in the main loop: its poll fails with EINTR.
Interrupted ==
  /\ reader /\ ~reading /\ errno' = "EINTR"
  /\ UNCHANGED <<sender, socket, lengthIn, payloadIn, expected, reading, reader, delivered>>

\* socketCallback, G_IO_IN without G_IO_HUP: the loop of reads begins.
SocketIn ==
  /\ reader /\ ~reading /\ writer /\ socket # <<>>
  /\ reading' = TRUE
  /\ UNCHANGED <<sender, socket, lengthIn, payloadIn, expected, reader, errno, delivered>>

\* The first n bytes of the socket are read.
Read(n) ==
  /\ reading /\ reader /\ n <= Len(socket)
  /\ socket' = SubSeq(socket, n + 1, Len(socket))

\* Faulty variant: the message is allocated a byte too large.
ReadLengthOversize(n) ==
  /\ Read(n) /\ Len(lengthIn) + n <= HeaderSize
  /\ lengthIn' = lengthIn \o SubSeq(socket, 1, n)
  /\ IF Len(lengthIn) + n < HeaderSize
     THEN UNCHANGED expected
     ELSE \E size \in Spelled(lengthIn') : expected' = size + 1
  /\ UNCHANGED <<sender, payloadIn, reading, reader, errno, delivered>>

\* processIncomingMessages, the header: one call of recv.  When the length is
\* complete the message is allocated.
ReadLength(n) ==
  /\ Read(n) /\ Len(lengthIn) + n <= HeaderSize
  /\ lengthIn' = lengthIn \o SubSeq(socket, 1, n)
  /\ IF Len(lengthIn) + n < HeaderSize
     THEN UNCHANGED expected
     ELSE \E size \in Spelled(lengthIn') : expected' = size
  /\ UNCHANGED <<sender, payloadIn, reading, reader, errno, delivered>>

\* Faulty variant: the header counter is not reset behind a message.
ReadPayloadNoReset(n) ==
  /\ Read(n) /\ Len(lengthIn) = HeaderSize /\ Len(payloadIn) + n <= expected
  /\ LET payload == payloadIn \o SubSeq(socket, 1, n)
     IN  IF Len(payload) < expected
         THEN payloadIn' = payload /\ UNCHANGED <<lengthIn, expected, delivered>>
         ELSE /\ delivered' = Append(delivered, payload)
              /\ lengthIn' = lengthIn /\ payloadIn' = <<>> /\ expected' = expected
  /\ UNCHANGED <<sender, reading, reader, errno>>

\* The payload.  Behind its last byte the message is handed over.
ReadPayload(n) ==
  /\ Read(n) /\ Len(lengthIn) = HeaderSize /\ Len(payloadIn) + n <= expected
  /\ LET payload == payloadIn \o SubSeq(socket, 1, n)
     IN  IF Len(payload) < expected
         THEN payloadIn' = payload /\ UNCHANGED <<lengthIn, expected, delivered>>
         ELSE /\ delivered' = Append(delivered, payload)
              /\ lengthIn' = <<>> /\ payloadIn' = <<>> /\ expected' = 0
  /\ UNCHANGED <<sender, reading, reader, errno>>

\* recv finds nothing: EAGAIN, and the callback returns with a message cut
\* wherever it is.
ReadAgain ==
  /\ reading /\ reader /\ writer /\ socket = <<>>
  /\ reading' = FALSE /\ errno' = "EAGAIN"
  /\ UNCHANGED <<sender, socket, lengthIn, payloadIn, expected, reader, delivered>>

\* recv returns 0 and leaves errno what the call before left in it: with EAGAIN
\* the callback returns, with EINTR recv is called again, and again, and
\* otherwise the channel disconnects.
EndOfStream ==
  /\ reading /\ reader /\ ~writer /\ socket = <<>> /\ errno # "EINTR"
  /\ reading' = FALSE /\ reader' = (errno = "EAGAIN")
  /\ UNCHANGED <<sender, socket, lengthIn, payloadIn, expected, errno, delivered>>

\* Faulty variant: hanging up waits for the rest of the message being read.
ReaderHupLater ==
  /\ reader /\ ~reading /\ ~writer /\ expected = 0
  /\ reader' = FALSE
  /\ UNCHANGED <<sender, socket, lengthIn, payloadIn, expected, reading, errno, delivered>>

\* socketCallback, G_IO_HUP: disconnected, whatever is left in the socket.
ReaderHup ==
  /\ reader /\ ~reading /\ ~writer
  /\ reader' = FALSE
  /\ UNCHANGED <<sender, socket, lengthIn, payloadIn, expected, reading, errno, delivered>>

\* The receiver deletes its channel, or ends.
CloseReader ==
  /\ reader
  /\ reader' = FALSE /\ reading' = FALSE
  /\ UNCHANGED <<sender, socket, lengthIn, payloadIn, expected, errno, delivered>>
-----------------------------------------------------------------------------
Write ==
  \/ \E n \in 1 .. Capacity : SendLength(n) \/ SendPayload(n)
  \/ WouldBlock

Consume ==
  \/ \E n \in 1 .. Capacity : ReadLength(n) \/ ReadPayload(n)
  \/ ReadAgain \/ EndOfStream

Next ==
  \/ \E size \in Sizes : Send(size)
  \/ Write \/ SocketOut \/ WriterHup \/ CloseWriter
  \/ Interrupted \/ SocketIn \/ Consume \/ ReaderHup \/ CloseReader

Spec == Init /\ [][Next]_vars

(***************************************************************************)
(* Both processes are scheduled and their main loops dispatch the sources  *)
(* that are ready.  Nothing makes them send, close or be interrupted.      *)
(***************************************************************************)
Fairness ==
  /\ WF_vars(Write) /\ WF_vars(SocketOut) /\ WF_vars(WriterHup)
  /\ WF_vars(SocketIn) /\ WF_vars(Consume) /\ WF_vars(ReaderHup)

FairSpec == Spec /\ Fairness
-----------------------------------------------------------------------------
\* Every variable has its type.
TypeOK ==
  /\ sent \in Seq(Messages) /\ outgoing \in Seq(Messages)
  /\ lengthOut \in 0 .. HeaderSize /\ payloadOut \in Nat
  /\ blocked \in BOOLEAN /\ writing \in BOOLEAN /\ writer \in BOOLEAN
  /\ socket \in Seq(Bytes)
  /\ lengthIn \in Seq(Bytes) /\ payloadIn \in Seq(Bytes)
  /\ expected \in Sizes \cup {0}
  /\ reading \in BOOLEAN /\ reader \in BOOLEAN
  /\ errno \in {"none", "EAGAIN", "EINTR"}
  /\ delivered \in Seq(Seq(Bytes))

\* c comes behind b in the byte stream.
Follows(b, c) ==
  IF b.at < HeaderSize + b.of.size
  THEN c.of = b.of /\ c.at = b.at + 1
  ELSE c.of.nr = b.of.nr + 1 /\ c.at = 1

\* The next byte the sender will send.
NextByte ==
  IF outgoing = <<>> THEN <<>>
  ELSE << [of |-> Head(outgoing), at |-> lengthOut + payloadOut + 1] >>

\* What the receiver has read of a message, what is in the socket and what the
\* sender sends next make one gapless piece of the stream, in which each message
\* begins behind the last byte of the one before: wherever the calls cut a header
\* or a payload, both sides resume at the byte they stopped at.
Contiguous ==
  LET s == lengthIn \o payloadIn \o socket \o NextByte
  IN  /\ \A i \in 1 .. Len(s) - 1 : Follows(s[i], s[i + 1])
      /\ s # <<>> => s[1].of.nr = Len(delivered) + 1 /\ s[1].at = 1

\* A payload decoded: the message it holds, if it is one.
Decoded(payload) ==
  LET m == payload[1].of
  IN  IF payload = Payload(m) THEN m ELSE [nr |-> 0, size |-> Len(payload)]

Letters == [nr : 1 .. MaxMessages, size : Sizes]

Box == INSTANCE Mailbox WITH
  box <- SubSeq(sent, Len(delivered) + 1, Len(sent)),
  out <- [k \in DOMAIN delivered |-> Decoded(delivered[k])]

\* The stream carries messages: each payload handed over is a whole message that
\* was queued, in the order of the queue, none left out and none twice, however
\* the bytes were cut and whoever closes when.
CarriesMessages == Box!SafeSpec

Spinning == reading /\ ~writer /\ socket = <<>> /\ errno = "EINTR"

\* A message that was queued is handed over unless one of the ends closes.
EveryMessageArrives ==
  \A k \in 1 .. MaxMessages :
    Len(sent) >= k ~> Len(delivered) >= k \/ ~writer \/ ~reader

\* The receiver comes to know that the sender has closed, unless its recv met
\* the end of the stream with an EINTR left behind by an earlier call.
EndIsNoticed == ~writer ~> ~reader \/ Spinning
=============================================================================
