---------------------------- MODULE FramingProofs ----------------------------
(***************************************************************************)
(* Theorems about Framing, for any header, payload sizes and capacity of   *)
(* the socket, any number of messages, and any cuts by send and recv.      *)
(***************************************************************************)
EXTENDS Framing, SequenceTheorems, TLAPS

FrameSize(m) == HeaderSize + m.size

\* What has been sent and belongs to no message handed over yet.
Flight == lengthIn \o payloadIn \o socket

\* s is a piece of the stream of the messages in list, which begins with the first
\* byte of message d + 1.
OnStream(s, d, list) ==
  /\ \A i \in 1 .. Len(s) :
       /\ s[i].of \in Messages /\ s[i].at \in 1 .. FrameSize(s[i].of)
       /\ s[i].of.nr \in 1 .. Len(list) /\ s[i].of = list[s[i].of.nr]
  /\ s # <<>> => s[1].at = 1 /\ s[1].of.nr = d + 1
  /\ \A i \in 1 .. Len(s) - 1 : Follows(s[i], s[i + 1])
  /\ \A i \in 1 .. Len(s) : \A k \in 0 .. FrameSize(s[i].of) - 1 :
       s[i].at = 1 /\ i + k <= Len(s) => s[i + k] = [of |-> s[i].of, at |-> k + 1]

\* byte is the last of s.
EndsWith(s, byte) == s # <<>> /\ s[Len(s)] = byte

\* Behind s comes the byte after the first n bytes of head, a message that comes
\* behind message q.
EndsBefore(s, d, q, head, n) ==
  IF n > 0 THEN EndsWith(s, [of |-> head, at |-> n])
  ELSE IF s = <<>> THEN q = d
  ELSE s[Len(s)].at = FrameSize(s[Len(s)].of) /\ s[Len(s)].of.nr = q

\* The sender's queue is the end of what was queued, and its counters are within
\* the message at its head.
SenderOK ==
  /\ \A i \in 1 .. Len(sent) : sent[i].nr = i
  /\ Len(outgoing) <= Len(sent)
  /\ \A i \in 1 .. Len(outgoing) : outgoing[i] = sent[Len(sent) - Len(outgoing) + i]
  /\ lengthOut < HeaderSize => payloadOut = 0
  /\ IF outgoing = <<>> THEN lengthOut = 0 /\ ~writing
     ELSE payloadOut < Head(outgoing).size

\* The receiver has a message while it has its length, and that is its size.
ReceiverOK ==
  /\ Len(lengthIn) <= HeaderSize
  /\ IF Len(lengthIn) < HeaderSize THEN payloadIn = <<>> /\ expected = 0
     ELSE expected = lengthIn[1].of.size /\ Len(payloadIn) < expected
  /\ Len(delivered) <= Len(sent)
  /\ \A k \in 1 .. Len(delivered) : delivered[k] = Payload(sent[k])

StreamOK ==
  /\ OnStream(Flight, Len(delivered), sent)
  /\ EndsBefore(Flight, Len(delivered), Len(sent) - Len(outgoing),
                Head(outgoing), lengthOut + payloadOut)

\* The inductive invariant.
Inv == TypeOK /\ SenderOK /\ ReceiverOK /\ StreamOK
-----------------------------------------------------------------------------
(***************************************************************************)
(* Sequences.                                                              *)
(***************************************************************************)
LEMMA Constants ==
  /\ HeaderSize \in Nat \ {0} /\ Capacity \in Nat \ {0} /\ MaxMessages \in Nat
  /\ \A m \in Messages : /\ m.nr \in Nat \ {0} /\ m.size \in Nat \ {0}
                         /\ FrameSize(m) \in Nat /\ FrameSize(m) > HeaderSize
<1>1. HeaderSize \in Nat \ {0} /\ Capacity \in Nat \ {0} /\ MaxMessages \in Nat
  BY FramingAssumption
<1>2. ASSUME NEW m \in Messages
      PROVE  m.nr \in Nat \ {0} /\ m.size \in Nat \ {0}
  <2>1. m.nr \in Nat \ {0} /\ m.size \in Sizes
    BY DEF Messages
  <2>2. QED
    BY <2>1, FramingAssumption
<1>3. ASSUME NEW m \in Messages
      PROVE  FrameSize(m) \in Nat /\ FrameSize(m) > HeaderSize
  BY <1>1, <1>2 DEF FrameSize
<1>4. QED
  BY <1>1, <1>2, <1>3

LEMMA CutProperties ==
  ASSUME NEW m \in Messages, NEW from \in Nat, NEW n \in Nat
  PROVE  /\ Cut(m, from, n) \in Seq(Bytes)
         /\ Len(Cut(m, from, n)) = n
         /\ \A i \in 1 .. n : Cut(m, from, n)[i] = [of |-> m, at |-> from + i]
<1>1. \A i \in 1 .. n : [of |-> m, at |-> from + i] \in Bytes
  BY DEF Bytes
<1>2. QED
  BY <1>1 DEF Cut

LEMMA PayloadProperties ==
  ASSUME NEW m \in Messages
  PROVE  /\ Payload(m) \in Seq(Bytes) /\ Len(Payload(m)) = m.size
         /\ \A i \in 1 .. m.size : Payload(m)[i] = [of |-> m, at |-> HeaderSize + i]
<1>1. HeaderSize \in Nat /\ m.size \in Nat
  BY Constants
<1>2. QED
  BY <1>1, CutProperties DEF Payload

\* A concatenation begins with its first part and goes on with its second.
LEMMA Begins ==
  ASSUME NEW S, NEW a \in Seq(S), NEW b \in Seq(S)
  PROVE  /\ a \o b \in Seq(S) /\ Len(a \o b) = Len(a) + Len(b)
         /\ Len(a) > 0 => a \o b # <<>>
         /\ \A i \in 1 .. Len(a) : i \in 1 .. Len(a \o b) /\ (a \o b)[i] = a[i]
         /\ \A i \in 1 .. Len(b) : (a \o b)[Len(a) + i] = b[i]
<1>1. Len(a) \in Nat /\ Len(b) \in Nat
  BY LenProperties
<1>2. /\ a \o b \in Seq(S) /\ Len(a \o b) = Len(a) + Len(b)
      /\ \A i \in 1 .. Len(a) + Len(b) :
           (a \o b)[i] = IF i <= Len(a) THEN a[i] ELSE b[i - Len(a)]
  BY ConcatProperties
<1>3. \A i \in 1 .. Len(a) : i \in 1 .. Len(a) + Len(b) /\ i <= Len(a)
  BY <1>1
<1>4. \A i \in 1 .. Len(b) : /\ Len(a) + i \in 1 .. Len(a) + Len(b)
                            /\ ~(Len(a) + i <= Len(a)) /\ (Len(a) + i) - Len(a) = i
  BY <1>1
<1>5. Len(a) > 0 => a \o b # <<>>
  BY <1>1, <1>2, EmptySeq
<1>6. \A i \in 1 .. Len(a) : i \in 1 .. Len(a \o b) /\ (a \o b)[i] = a[i]
  BY <1>2, <1>3
<1>7. \A i \in 1 .. Len(b) : (a \o b)[Len(a) + i] = b[i]
  <2> TAKE i \in 1 .. Len(b)
  <2>1. (a \o b)[Len(a) + i] = b[(Len(a) + i) - Len(a)]
    BY <1>2, <1>4
  <2>2. QED
    BY <2>1, <1>4
<1>8. QED
  BY <1>2, <1>5, <1>6, <1>7

\* Two halves of a sequence give the sequence.
LEMMA Halves ==
  ASSUME NEW S, NEW b \in Seq(S), NEW n \in 0 .. Len(b)
  PROVE  /\ SubSeq(b, 1, n) \in Seq(S) /\ Len(SubSeq(b, 1, n)) = n
         /\ SubSeq(b, n + 1, Len(b)) \in Seq(S)
         /\ Len(SubSeq(b, n + 1, Len(b))) = Len(b) - n
         /\ \A i \in 1 .. n : SubSeq(b, 1, n)[i] = b[i]
         /\ \A i \in 1 .. Len(b) - n : SubSeq(b, n + 1, Len(b))[i] = b[n + i]
         /\ SubSeq(b, 1, n) \o SubSeq(b, n + 1, Len(b)) = b
<1> DEFINE x == SubSeq(b, 1, n)
           y == SubSeq(b, n + 1, Len(b))
<1>1. Len(b) \in Nat /\ \A i \in 1 .. Len(b) : b[i] \in S
  BY ElementOfSeq
<1>2. x \in Seq(S) /\ Len(x) = n /\ \A i \in 1 .. n : x[i] = b[i]
  BY <1>1, SubSeqProperties
<1>3. y \in Seq(S) /\ Len(y) = Len(b) - n
      /\ \A i \in 1 .. Len(b) - n : y[i] = b[n + i]
  BY <1>1, SubSeqProperties
<1> HIDE DEF x, y
<1>4. x \o y \in Seq(S) /\ Len(x \o y) = Len(b)
      /\ \A i \in 1 .. Len(b) : (x \o y)[i] = IF i <= n THEN x[i] ELSE y[i - n]
  BY <1>1, <1>2, <1>3, ConcatProperties
<1>5. \A i \in 1 .. Len(b) : (x \o y)[i] = b[i]
  BY <1>1, <1>2, <1>3, <1>4
<1>6. x \o y = b
  BY <1>4, <1>5, SeqEqual
<1>7. QED
  BY <1>2, <1>3, <1>6 DEF x, y

\* What is left of a concatenation behind its first part is its second.
LEMMA SecondPart ==
  ASSUME NEW S, NEW a \in Seq(S), NEW b \in Seq(S)
  PROVE  SubSeq(a \o b, Len(a) + 1, Len(a \o b)) = b
<1> DEFINE c == a \o b
           t == SubSeq(c, Len(a) + 1, Len(c))
<1>1. Len(a) \in Nat /\ Len(b) \in Nat
  BY LenProperties
<1>2. c \in Seq(S) /\ Len(c) = Len(a) + Len(b)
      /\ \A i \in 1 .. Len(b) : c[Len(a) + i] = b[i]
  BY Begins
<1> HIDE DEF c
<1>3. Len(a) \in 0 .. Len(c) /\ Len(c) - Len(a) = Len(b)
  BY <1>1, <1>2
<1>4. t \in Seq(S) /\ Len(t) = Len(b) /\ \A i \in 1 .. Len(b) : t[i] = c[Len(a) + i]
  BY <1>2, <1>3, Halves
<1> HIDE DEF t
<1>5. \A i \in 1 .. Len(t) : t[i] = b[i]
  BY <1>2, <1>4
<1>6. t = b
  BY <1>4, <1>5, SeqEqual
<1>7. QED
  BY <1>6 DEF t, c

LEMMA Associative ==
  ASSUME NEW S
  PROVE  \A u, v, w \in Seq(S) : (u \o v) \o w = u \o (v \o w)
BY ConcatAssociative

\* Bytes that are read are still in flight.
LEMMA MoveKeeps ==
  ASSUME NEW S, NEW a \in Seq(S), NEW b \in Seq(S), NEW n \in 0 .. Len(b)
  PROVE  (a \o SubSeq(b, 1, n)) \o SubSeq(b, n + 1, Len(b)) = a \o b
<1>1. /\ SubSeq(b, 1, n) \in Seq(S) /\ SubSeq(b, n + 1, Len(b)) \in Seq(S)
      /\ SubSeq(b, 1, n) \o SubSeq(b, n + 1, Len(b)) = b
  BY Halves
<1> DEFINE x == SubSeq(b, 1, n)
           y == SubSeq(b, n + 1, Len(b))
<1> HIDE DEF x, y
<1>2. x \in Seq(S) /\ y \in Seq(S) /\ x \o y = b
  BY <1>1 DEF x, y
<1>3. (a \o x) \o y = a \o (x \o y)
  <2>1. \A u, v, w \in Seq(S) : (u \o v) \o w = u \o (v \o w)
    BY Associative
  <2>2. QED
    BY <2>1, <1>2
<1>4. QED
  BY <1>2, <1>3 DEF x, y
-----------------------------------------------------------------------------
(***************************************************************************)
(* The stream.                                                             *)
(***************************************************************************)
\* Place i + k of s is in the frame that begins at place i.
InFrame(s, i, k) ==
  /\ i \in 1 .. Len(s) /\ k < FrameSize(s[i].of) /\ s[i].at = 1 /\ i + k <= Len(s)

\* m comes behind message q of the list, and has n bytes after the first from.
Comes(list, m, q, from, n) ==
  /\ q + 1 \in 1 .. Len(list) /\ m = list[q + 1] /\ m.nr = q + 1
  /\ from + n <= FrameSize(m)

\* Sending the next n bytes of message m, after the first from.
LEMMA ExtendStream ==
  ASSUME NEW s \in Seq(Bytes), NEW list \in Seq(Messages), NEW d \in Nat,
         NEW m \in Messages, NEW q \in Nat, NEW from \in Nat, NEW n \in Nat \ {0},
         Comes(list, m, q, from, n), OnStream(s, d, list), EndsBefore(s, d, q, m, from)
  PROVE  /\ OnStream(s \o Cut(m, from, n), d, list)
         /\ EndsWith(s \o Cut(m, from, n), [of |-> m, at |-> from + n])
<1> DEFINE c == Cut(m, from, n)
           t == s \o c
<1>1. m \in Messages /\ m.nr = q + 1 /\ FrameSize(m) \in Nat /\ n \in Nat /\ n > 0
      /\ from + n <= FrameSize(m) /\ EndsBefore(s, d, q, m, from)
      /\ m.nr \in 1 .. Len(list) /\ m = list[m.nr]
  BY Constants DEF Comes
<1>2. c \in Seq(Bytes) /\ Len(c) = n
      /\ \A i \in 1 .. n : c[i] = [of |-> m, at |-> from + i]
  BY <1>1, CutProperties
<1> HIDE DEF c
<1>a. PICK l \in Nat : l = Len(s)
  BY LenProperties
<1>b. t \in Seq(Bytes) /\ Len(t) = l + Len(c)
      /\ \A i \in 1 .. l + Len(c) : t[i] = IF i <= l THEN s[i] ELSE c[i - l]
  BY <1>a, <1>2, ConcatProperties, Zenon
<1> HIDE DEF t
<1>3. l \in Nat /\ t \in Seq(Bytes) /\ Len(t) = l + n
  BY <1>a, <1>b, <1>2
<1>4. \A i \in 1 .. l : t[i] = s[i]
  BY <1>a, <1>b, <1>2
<1>5. \A j \in 1 .. n : t[l + j] = [of |-> m, at |-> from + j]
  <2> TAKE j \in 1 .. n
  <2>1. l + j \in 1 .. l + Len(c) /\ ~(l + j <= l) /\ (l + j) - l = j
    BY <1>a, <1>2
  <2>2. t[l + j] = c[j]
    BY <2>1, <1>b
  <2>3. QED
    BY <2>2, <1>2
<1>c. \A i \in 1 .. l + n : i <= l \/ \E j \in 1 .. n : i = l + j
  <2> TAKE i \in 1 .. l + n
  <2>1. i > l => i - l \in 1 .. n /\ i = l + (i - l)
    OBVIOUS
  <2>2. QED
    BY <2>1
<1>6. /\ s = <<>> => from = 0 /\ q = d /\ l = 0
      /\ s # <<>> => /\ l \in 1 .. l
                     /\ IF from > 0 THEN s[l] = [of |-> m, at |-> from]
                        ELSE s[l].at = FrameSize(s[l].of) /\ s[l].of.nr = q
  BY <1>1, <1>a, EmptySeq DEF EndsBefore, EndsWith
<1>7. \A i \in 1 .. Len(t) :
        /\ t[i].of \in Messages /\ t[i].at \in 1 .. FrameSize(t[i].of)
        /\ t[i].of.nr \in 1 .. Len(list) /\ t[i].of = list[t[i].of.nr]
  <2> TAKE i \in 1 .. Len(t)
  <2>1. CASE i <= l
    <3>1. i \in 1 .. Len(s) /\ t[i] = s[i]
      BY <2>1, <1>3, <1>4, <1>a
    <3>2. QED
      BY <3>1 DEF OnStream
  <2>2. ASSUME NEW j \in 1 .. n, i = l + j
        PROVE  /\ t[i].of \in Messages /\ t[i].at \in 1 .. FrameSize(t[i].of)
               /\ t[i].of.nr \in 1 .. Len(list) /\ t[i].of = list[t[i].of.nr]
    <3>1. t[i] = [of |-> m, at |-> from + j]
      BY <2>2, <1>5
    <3>2. from + j \in 1 .. FrameSize(m)
      BY <1>1
    <3>3. QED
      BY <3>1, <3>2, <1>1
  <2>3. QED
    BY <2>1, <2>2, <1>3, <1>c
<1>8. t # <<>> /\ t[1].at = 1 /\ t[1].of.nr = d + 1
  <2>1. Len(t) > 0
    BY <1>3
  <2>2. t # <<>>
    BY <2>1, EmptySeq
  <2>3. CASE s = <<>>
    <3>1. from = 0 /\ q = d /\ l = 0 /\ 1 \in 1 .. n
      BY <2>3, <1>6
    <3>2. t[0 + 1] = [of |-> m, at |-> 0 + 1]
      BY <3>1, <1>5
    <3>3. QED
      BY <2>2, <3>1, <3>2, <1>1
  <2>4. CASE s # <<>>
    <3>1. t[1] = s[1]
      BY <2>4, <1>3, <1>4, <1>6
    <3>2. QED
      BY <2>2, <2>4, <3>1 DEF OnStream
  <2>5. QED
    BY <2>3, <2>4
<1>9. \A i \in 1 .. Len(t) - 1 : Follows(t[i], t[i + 1])
  <2> SUFFICES ASSUME NEW i \in 1 .. (l + n) - 1
               PROVE  Follows(t[i], t[i + 1])
    BY <1>3
  <2>1. CASE i < l
    <3>1. i \in 1 .. l /\ i + 1 \in 1 .. l /\ i \in 1 .. l - 1
      BY <2>1
    <3>2. t[i] = s[i] /\ t[i + 1] = s[i + 1]
      BY <3>1, <1>4
    <3>3. QED
      BY <3>1, <3>2, <1>a DEF OnStream
  <2>2. CASE i = l
    <3>1. l > 0 /\ t[i] = s[l] /\ t[i + 1] = [of |-> m, at |-> from + 1] /\ s # <<>>
      BY <2>2, <1>3, <1>4, <1>5, <1>6
    <3>2. CASE from > 0
      <4>1. t[i] = [of |-> m, at |-> from] /\ from < HeaderSize + m.size
        BY <3>1, <3>2, <1>1, <1>6 DEF FrameSize
      <4>2. QED
        BY <3>1, <4>1 DEF Follows
    <3>3. CASE from = 0
      <4>1. s[l].of \in Messages /\ s[l].at = FrameSize(s[l].of) /\ s[l].of.nr = q
        BY <3>1, <3>3, <1>3, <1>6, <1>a DEF OnStream
      <4>2. ~(s[l].at < HeaderSize + s[l].of.size)
        <5>1. PICK f \in Nat : f = FrameSize(s[l].of)
          BY <4>1, Constants
        <5>2. s[l].at = f /\ f = HeaderSize + s[l].of.size
          BY <4>1, <5>1 DEF FrameSize
        <5>3. ~(f < f)
          OBVIOUS
        <5>4. QED
          BY <5>2, <5>3, Zenon
      <4>3. QED
        BY <3>1, <3>3, <4>1, <4>2, <1>1 DEF Follows
    <3>4. QED
      BY <3>2, <3>3
  <2>3. CASE i > l
    <3>0. i \in 1 .. l + n /\ ~(i <= l)
      BY <2>3
    <3>1. PICK j \in 1 .. n : i = l + j
      BY <3>0, <1>c
    <3>2. j + 1 \in 1 .. n /\ i + 1 = l + (j + 1)
      BY <3>1, <1>3
    <3>3. t[i] = [of |-> m, at |-> from + j]
          /\ t[i + 1] = [of |-> m, at |-> from + (j + 1)]
      BY <3>1, <3>2, <1>5
    <3>a. from + j < FrameSize(m) /\ from + (j + 1) = (from + j) + 1
      <4>1. PICK f \in Nat : f = FrameSize(m)
        BY <1>1
      <4>2. from + n <= f /\ j + 1 <= n /\ j \in Nat
        BY <4>1, <3>2, <1>1
      <4>3. from + j < f /\ from + (j + 1) = (from + j) + 1
        BY <4>2
      <4>4. QED
        BY <4>1, <4>3
    <3>4. from + j < HeaderSize + m.size /\ from + (j + 1) = (from + j) + 1
      BY <3>a DEF FrameSize
    <3>5. QED
      BY <3>3, <3>4 DEF Follows
  <2>4. QED
    BY <2>1, <2>2, <2>3, <1>3
<1>10. \A i \in 1 .. Len(t) : \A k \in 0 .. FrameSize(t[i].of) - 1 :
         t[i].at = 1 /\ i + k <= Len(t) => t[i + k] = [of |-> t[i].of, at |-> k + 1]
  <2> SUFFICES ASSUME NEW i \in Nat, NEW k \in Nat, InFrame(t, i, k)
               PROVE  t[i + k] = [of |-> t[i].of, at |-> k + 1]
    <3>1. ASSUME NEW i \in 1 .. Len(t), NEW k \in 0 .. FrameSize(t[i].of) - 1,
                 t[i].at = 1, i + k <= Len(t)
          PROVE  i \in Nat /\ k \in Nat /\ InFrame(t, i, k)
      <4>1. PICK f \in Nat : f = FrameSize(t[i].of)
        BY <1>7, Constants
      <4>2. k \in 0 .. f - 1
        BY <4>1
      <4>3. k \in Nat /\ k < f
        BY <4>2
      <4>4. QED
        BY <4>1, <4>3, <3>1, <1>3 DEF InFrame
    <3>2. QED
      BY <3>1
  <2>0. i \in 1 .. l + n /\ i + k <= l + n /\ k < FrameSize(t[i].of) /\ t[i].at = 1
        /\ FrameSize(t[i].of) \in Nat
    <3>1. i \in 1 .. Len(t) /\ FrameSize(t[i].of) \in Nat
      BY <1>7, Constants DEF InFrame
    <3>2. QED
      BY <3>1, <1>3 DEF InFrame
  <2>1. CASE i + k <= l
    <3>1. t[i] = s[i] /\ t[i + k] = s[i + k]
      BY <2>0, <2>1, <1>4
    <3>2. i \in 1 .. Len(s) /\ k \in 0 .. FrameSize(s[i].of) - 1 /\ s[i].at = 1
          /\ i + k <= Len(s)
      BY <2>0, <2>1, <3>1, <1>a
    <3>3. QED
      BY <3>1, <3>2 DEF OnStream
  <2>2. CASE i > l
    <3>0. i \in 1 .. l + n /\ ~(i <= l)
      BY <2>0, <2>2
    <3>1. PICK j \in 1 .. n : i = l + j
      BY <3>0, <1>c
    <3>2. t[i] = [of |-> m, at |-> from + j]
      BY <3>1, <1>5
    <3>3. from + j = 1 /\ j + k \in 1 .. n /\ i + k = l + (j + k)
      BY <2>0, <3>1, <3>2, <1>3
    <3>4. t[i + k] = [of |-> m, at |-> from + (j + k)]
      BY <3>3, <1>5
    <3>5. from + (j + k) = k + 1
      BY <2>0, <3>3
    <3>6. t[i + k] = [of |-> m, at |-> k + 1]
      BY <3>4, <3>5, Zenon
    <3>7. t[i].of = m
      BY <3>2
    <3>8. QED
      BY <3>6, <3>7, Zenon
  <2>3. CASE i <= l /\ i + k > l
    <3>1. t[i] = s[i] /\ i \in 1 .. l /\ s # <<>>
      BY <2>0, <2>3, <1>3, <1>4, <1>6
    <3>2. PICK f \in Nat : f = FrameSize(s[i].of)
      BY <2>0, <3>1
    <3>3. PICK j \in Nat : i + j = l
      BY <2>3
    <3>4. j + 1 < f /\ j \in 0 .. f - 1
      <4>1. k < f /\ j < k
        BY <2>0, <2>3, <3>1, <3>2, <3>3
      <4>2. QED
        BY <4>1
    <3>5. s[l] = [of |-> s[i].of, at |-> j + 1]
      <4>1. i \in 1 .. Len(s) /\ j \in 0 .. FrameSize(s[i].of) - 1 /\ s[i].at = 1
            /\ i + j <= Len(s)
        BY <2>0, <3>1, <3>2, <3>3, <3>4, <1>a
      <4>2. s[i + j] = [of |-> s[i].of, at |-> j + 1]
        BY <4>1 DEF OnStream
      <4>3. QED
        BY <4>2, <3>3
    <3>6. from > 0 /\ s[i].of = m /\ j + 1 = from
      <4>1. s[l].at = j + 1 /\ s[l].of = s[i].of
        BY <3>5
      <4>2. s[l].at # FrameSize(s[l].of)
        BY <3>2, <3>4, <4>1
      <4>3. from > 0 /\ s[l] = [of |-> m, at |-> from]
        BY <3>1, <4>2, <1>6
      <4>4. s[l].at = from /\ s[l].of = m
        BY <4>3
      <4>5. QED
        BY <4>1, <4>3, <4>4
    <3>7. PICK g \in 1 .. n : i + k = l + g
      <4>1. (i + k) - l \in 1 .. n /\ i + k = l + ((i + k) - l)
        BY <2>0, <2>3
      <4>2. QED
        BY <4>1
    <3>8. t[i + k] = [of |-> m, at |-> from + g]
      BY <3>7, <1>5
    <3>9. from + g = k + 1
      <4>1. i + j = l /\ i + k = l + g /\ j + 1 = from
        BY <3>3, <3>6, <3>7
      <4>2. QED
        BY <4>1
    <3>10. QED
      BY <3>1, <3>6, <3>8, <3>9
  <2>4. QED
    BY <2>0, <2>1, <2>2, <2>3, <1>3
<1>11. t[Len(t)] = [of |-> m, at |-> from + n]
  BY <1>3, <1>5
<1>12. OnStream(t, d, list)
  BY <1>7, <1>8, <1>9, <1>10 DEF OnStream
<1>13. QED
  BY <1>8, <1>11, <1>12 DEF EndsWith, c, t

\* The first frame of the stream is whole when its bytes are there, and the rest
\* of the stream begins with the next message.
LEMMA TakeFrame ==
  ASSUME NEW s \in Seq(Bytes), NEW list \in Seq(Messages), NEW d \in Nat,
         OnStream(s, d, list), s # <<>>, FrameSize(s[1].of) <= Len(s)
  PROVE  LET f == FrameSize(s[1].of)
             t == SubSeq(s, f + 1, Len(s))
         IN  /\ s[1].of = list[d + 1] /\ d + 1 \in 1 .. Len(list)
             /\ s[f] = [of |-> s[1].of, at |-> f]
             /\ t \in Seq(Bytes)
             /\ OnStream(t, d + 1, list)
<1> DEFINE m == s[1].of
           f == FrameSize(m)
           t == SubSeq(s, f + 1, Len(s))
           l == Len(s)
<1>1. l \in Nat \ {0}
  BY EmptySeq
<1>2. m \in Messages /\ m.nr = d + 1 /\ m.nr \in 1 .. Len(list) /\ m = list[m.nr]
      /\ s[1].at = 1
  BY <1>1 DEF OnStream
<1> HIDE DEF m
<1>3. f \in 1 .. l
  BY <1>2, <1>1, Constants DEF m
<1>4. s[f] = [of |-> m, at |-> f]
  <2>1. 1 \in 1 .. Len(s) /\ f - 1 \in 0 .. FrameSize(s[1].of) - 1 /\ 1 + (f - 1) <= Len(s)
    BY <1>1, <1>3 DEF m
  <2>2. s[1 + (f - 1)] = [of |-> s[1].of, at |-> (f - 1) + 1]
    BY <2>1, <1>2 DEF OnStream
  <2>3. 1 + (f - 1) = f /\ (f - 1) + 1 = f
    BY <1>3
  <2>4. QED
    BY <2>2, <2>3 DEF m
<1> HIDE DEF f
<1>5. t \in Seq(Bytes) /\ Len(t) = l - f /\ \A i \in 1 .. l - f : t[i] = s[f + i]
  BY <1>3, Halves
<1> HIDE DEF t
<1>6. \A i \in 1 .. Len(t) : f + i \in 1 .. Len(s) /\ t[i] = s[f + i]
  BY <1>1, <1>3, <1>5 DEF l
<1>7. \A i \in 1 .. Len(t) :
        /\ t[i].of \in Messages /\ t[i].at \in 1 .. FrameSize(t[i].of)
        /\ t[i].of.nr \in 1 .. Len(list) /\ t[i].of = list[t[i].of.nr]
  BY <1>6 DEF OnStream
<1>8. t # <<>> => t[1].at = 1 /\ t[1].of.nr = (d + 1) + 1
  <2> SUFFICES ASSUME t # <<>>
               PROVE  t[1].at = 1 /\ t[1].of.nr = (d + 1) + 1
    OBVIOUS
  <2>1. 1 \in 1 .. Len(t)
    BY <1>5, EmptySeq
  <2>2. f \in 1 .. Len(s) - 1 /\ t[1] = s[f + 1]
    BY <2>1, <1>1, <1>3, <1>6 DEF l
  <2>3. Follows(s[f], t[1])
    BY <2>2 DEF OnStream
  <2>4. ~(f < HeaderSize + m.size)
    BY <1>3 DEF f, FrameSize
  <2>5. QED
    BY <2>3, <2>4, <1>2, <1>4 DEF Follows
<1>9. \A i \in 1 .. Len(t) - 1 : Follows(t[i], t[i + 1])
  <2> TAKE i \in 1 .. Len(t) - 1
  <2>1. i \in 1 .. Len(t) /\ i + 1 \in 1 .. Len(t) /\ f + (i + 1) = (f + i) + 1
    BY <1>3, <1>5, <1>1
  <2>2. t[i] = s[f + i] /\ t[i + 1] = s[(f + i) + 1] /\ f + i \in 1 .. Len(s) - 1
    BY <2>1, <1>1, <1>3, <1>6 DEF l
  <2>3. QED
    BY <2>2 DEF OnStream
<1>10. \A i \in 1 .. Len(t) : \A k \in 0 .. FrameSize(t[i].of) - 1 :
         t[i].at = 1 /\ i + k <= Len(t) => t[i + k] = [of |-> t[i].of, at |-> k + 1]
  <2> SUFFICES ASSUME NEW i \in 1 .. Len(t), NEW k \in 0 .. FrameSize(t[i].of) - 1,
                      t[i].at = 1, i + k <= Len(t)
               PROVE  t[i + k] = [of |-> t[i].of, at |-> k + 1]
    OBVIOUS
  <2>1. t[i] = s[f + i] /\ f + i \in 1 .. Len(s)
    BY <1>6
  <2>2. FrameSize(t[i].of) \in Nat
    BY <1>7, Constants
  <2>3. i + k \in 1 .. Len(t) /\ f + (i + k) = (f + i) + k /\ (f + i) + k <= Len(s)
    BY <2>2, <1>1, <1>3, <1>5 DEF l
  <2>4. t[i + k] = s[(f + i) + k]
    BY <2>3, <1>6
  <2>5. QED
    BY <2>1, <2>3, <2>4 DEF OnStream
<1>11. OnStream(t, d + 1, list)
  BY <1>7, <1>8, <1>9, <1>10 DEF OnStream
<1>12. QED
  BY <1>2, <1>4, <1>5, <1>11 DEF m, f, t

\* What comes behind the stream comes behind the rest of it, too.
LEMMA RestEndsBefore ==
  ASSUME NEW s \in Seq(Bytes), NEW d \in Nat, NEW q, NEW head, NEW n \in Nat,
         s # <<>>, FrameSize(s[1].of) \in 1 .. Len(s),
         s[1].of.nr = d + 1,
         s[FrameSize(s[1].of)] = [of |-> s[1].of, at |-> FrameSize(s[1].of)],
         EndsBefore(s, d, q, head, n), n > 0 => n # FrameSize(head)
  PROVE  EndsBefore(SubSeq(s, FrameSize(s[1].of) + 1, Len(s)), d + 1, q, head, n)
<1> DEFINE m == s[1].of
           f == FrameSize(m)
           t == SubSeq(s, f + 1, Len(s))
           l == Len(s)
<1>1. l \in Nat \ {0} /\ f \in 1 .. l /\ m.nr = d + 1 /\ s[f] = [of |-> m, at |-> f]
      /\ (n > 0 => n # FrameSize(head))
  BY EmptySeq
<1>2. t \in Seq(Bytes) /\ Len(t) = l - f /\ \A i \in 1 .. l - f : t[i] = s[f + i]
  <2>1. f \in 0 .. Len(s)
    BY <1>1
  <2> HIDE DEF f
  <2>2. QED
    BY <2>1, Halves
<1>3. IF n > 0 THEN s[l] = [of |-> head, at |-> n]
      ELSE s[l].at = FrameSize(s[l].of) /\ s[l].of.nr = q
  BY DEF EndsBefore, EndsWith
<1>4. f = FrameSize(m)
  OBVIOUS
<1> HIDE DEF m, f, t, l
<1>5. CASE t = <<>>
  <2>1. l = f
    BY <1>1, <1>2, <1>5, EmptySeq
  <2>2. ~(n > 0)
    BY <2>1, <1>1, <1>3, <1>4
  <2>3. q = d + 1
    BY <2>1, <2>2, <1>1, <1>3
  <2>4. QED
    BY <2>2, <2>3, <1>5 DEF EndsBefore, EndsWith, t, f, m
<1>6. CASE t # <<>>
  <2>1. l - f \in 1 .. l - f
    BY <1>1, <1>2, <1>6, EmptySeq
  <2>2. t[Len(t)] = s[l]
    <3>1. PICK g \in Nat : g = l - f /\ f + g = l
      BY <1>1
    <3>2. t[g] = s[f + g] /\ Len(t) = g
      BY <3>1, <2>1, <1>2
    <3>3. QED
      BY <3>1, <3>2
  <2>3. EndsBefore(t, d + 1, q, head, n)
    BY <2>2, <1>3, <1>6 DEF EndsBefore, EndsWith
  <2>4. QED
    BY <2>3 DEF t, f, m
<1>7. QED
  BY <1>5, <1>6
-----------------------------------------------------------------------------
(***************************************************************************)
(* The sender.                                                             *)
(***************************************************************************)
LEMMA InitOK == Init => Inv
<1> SUFFICES ASSUME Init
             PROVE  Inv
  OBVIOUS
<1> USE DEF Init
<1>1. TypeOK
  <2>1. 0 \in 0 .. HeaderSize /\ 0 \in Nat
    BY Constants
  <2>2. <<>> \in Seq(Messages) /\ <<>> \in Seq(Bytes) /\ <<>> \in Seq(Seq(Bytes))
    OBVIOUS
  <2>3. QED
    BY <2>1, <2>2 DEF TypeOK
<1>2. Len(sent) = 0 /\ Len(outgoing) = 0 /\ Len(lengthIn) = 0 /\ Len(delivered) = 0
  OBVIOUS
<1>3. SenderOK
  BY <1>2 DEF SenderOK
<1>4. ReceiverOK
  BY <1>2, Constants DEF ReceiverOK
<1>5. Flight = <<>> /\ Len(Flight) = 0
  BY DEF Flight
<1>6. StreamOK
  BY <1>2, <1>5 DEF StreamOK, OnStream, EndsBefore
<1>7. QED
  BY <1>1, <1>3, <1>4, <1>6 DEF Inv

\* The message at the head of the queue is the first that is not all sent.
LEMMA HeadOfQueue ==
  ASSUME Inv, outgoing # <<>>
  PROVE  LET q == Len(sent) - Len(outgoing)
             m == Head(outgoing)
         IN  /\ q \in Nat /\ q + 1 \in 1 .. Len(sent)
             /\ m = sent[q + 1] /\ m.nr = q + 1 /\ m \in Messages
             /\ Tail(outgoing) \in Seq(Messages)
             /\ Len(Tail(outgoing)) = Len(outgoing) - 1
             /\ \A i \in 1 .. Len(outgoing) - 1 : Tail(outgoing)[i] = outgoing[i + 1]
             /\ m.size \in Nat \ {0} /\ lengthOut \in Nat /\ payloadOut \in Nat
             /\ payloadOut < m.size
             /\ lengthOut + payloadOut < FrameSize(m)
<1> DEFINE q == Len(sent) - Len(outgoing)
           m == Head(outgoing)
<1>1. sent \in Seq(Messages) /\ outgoing \in Seq(Messages)
      /\ lengthOut \in 0 .. HeaderSize /\ payloadOut \in Nat
  BY DEF Inv, TypeOK
<1>2. Len(sent) \in Nat /\ Len(outgoing) \in Nat \ {0} /\ Len(outgoing) <= Len(sent)
  BY <1>1, EmptySeq, LenProperties DEF Inv, SenderOK
<1>3. m \in Messages /\ m = outgoing[1]
      /\ Tail(outgoing) \in Seq(Messages)
      /\ Len(Tail(outgoing)) = Len(outgoing) - 1
      /\ \A i \in 1 .. Len(outgoing) - 1 : Tail(outgoing)[i] = outgoing[i + 1]
  BY <1>1, HeadTailProperties
<1>4. q \in Nat /\ q + 1 \in 1 .. Len(sent) /\ 1 \in 1 .. Len(outgoing)
  BY <1>2
<1>5. m = sent[q + 1] /\ sent[q + 1].nr = q + 1
  BY <1>3, <1>4 DEF Inv, SenderOK
<1>6. m.size \in Nat \ {0} /\ payloadOut < m.size
  BY <1>3, Constants DEF Inv, SenderOK
<1>7. lengthOut \in Nat /\ lengthOut <= HeaderSize /\ HeaderSize \in Nat
  BY <1>1, Constants
<1>8. lengthOut + payloadOut < FrameSize(m)
  BY <1>1, <1>6, <1>7 DEF FrameSize
<1>9. QED
  BY <1>1, <1>3, <1>4, <1>5, <1>6, <1>7, <1>8

LEMMA FlightType ==
  ASSUME Inv
  PROVE  /\ lengthIn \in Seq(Bytes) /\ payloadIn \in Seq(Bytes) /\ socket \in Seq(Bytes)
         /\ lengthIn \o payloadIn \in Seq(Bytes) /\ Flight \in Seq(Bytes)
<1>1. lengthIn \in Seq(Bytes) /\ payloadIn \in Seq(Bytes) /\ socket \in Seq(Bytes)
  BY DEF Inv, TypeOK
<1>2. lengthIn \o payloadIn \in Seq(Bytes)
  BY <1>1, ConcatProperties
<1>3. QED
  BY <1>1, <1>2, ConcatProperties DEF Flight

\* The next n bytes belong to the message at the head of the queue.
OfHead(n) ==
  outgoing # <<>> /\ lengthOut + payloadOut + n <= FrameSize(Head(outgoing))

\* The next n bytes that send takes come behind the stream.
LEMMA NextBytes ==
  ASSUME Inv, NEW n \in Nat \ {0}, OfHead(n)
  PROVE  LET t == Flight \o Cut(Head(outgoing), lengthOut + payloadOut, n)
         IN  /\ OnStream(t, Len(delivered), sent)
             /\ EndsWith(t, [of |-> Head(outgoing), at |-> lengthOut + payloadOut + n])
<1>1. PICK q \in Nat : q = Len(sent) - Len(outgoing)
  BY HeadOfQueue DEF OfHead
<1>2. PICK from \in Nat : from = lengthOut + payloadOut
  BY HeadOfQueue DEF OfHead
<1>3. Flight \in Seq(Bytes) /\ sent \in Seq(Messages)
  BY FlightType DEF Inv, TypeOK
<1>4. PICK d \in Nat : d = Len(delivered)
  BY LenProperties DEF Inv, TypeOK
<1>5. Comes(sent, Head(outgoing), q, from, n) /\ Head(outgoing) \in Messages
  BY <1>1, <1>2, HeadOfQueue DEF OfHead, Comes
<1>6. OnStream(Flight, d, sent) /\ EndsBefore(Flight, d, q, Head(outgoing), from)
  BY <1>1, <1>2, <1>4 DEF Inv, StreamOK
<1> DEFINE t == Flight \o Cut(Head(outgoing), from, n)
<1>7. OnStream(t, d, sent)
  BY <1>3, <1>5, <1>6, ExtendStream
<1>8. EndsWith(t, [of |-> Head(outgoing), at |-> from + n])
  BY <1>3, <1>5, <1>6, ExtendStream
<1>9. QED
  BY <1>2, <1>4, <1>7, <1>8

\* One call of send of the next n bytes.
LEMMA SendBytes ==
  ASSUME Inv, NEW n \in Nat \ {0}, OfHead(n),
         socket' = socket \o Cut(Head(outgoing), lengthOut + payloadOut, n),
         UNCHANGED <<sent, lengthIn, payloadIn, delivered>>
  PROVE  /\ socket' \in Seq(Bytes)
         /\ OnStream(Flight', Len(delivered), sent)
         /\ EndsWith(Flight', [of |-> Head(outgoing), at |-> lengthOut + payloadOut + n])
<1> DEFINE m == Head(outgoing)
           from == lengthOut + payloadOut
           c == Cut(m, from, n)
<1>1. m \in Messages /\ from \in Nat
  BY HeadOfQueue DEF OfHead
<1>2. c \in Seq(Bytes)
  BY <1>1, CutProperties
<1>3. socket \in Seq(Bytes) /\ lengthIn \o payloadIn \in Seq(Bytes)
  BY FlightType
<1> DEFINE a == lengthIn \o payloadIn
<1>4. (a \o socket) \o c = a \o (socket \o c)
  <2> HIDE DEF a, c
  <2>1. a \in Seq(Bytes) /\ socket \in Seq(Bytes) /\ c \in Seq(Bytes)
    BY <1>2, <1>3 DEF a
  <2>2. QED
    BY <2>1, Associative
<1>5. Flight' = Flight \o c
  <2>1. Flight' = a \o (socket \o c)
    BY DEF Flight
  <2>2. QED
    BY <2>1, <1>4 DEF Flight
<1>6. socket' \in Seq(Bytes)
  BY <1>2, <1>3, ConcatProperties
<1>7. LET t == Flight \o c
      IN  /\ OnStream(t, Len(delivered), sent)
          /\ EndsWith(t, [of |-> m, at |-> from + n])
  BY NextBytes
<1>8. QED
  BY <1>5, <1>6, <1>7

\* What a step of the sender leaves of the types.
LEMMA SenderTypes ==
  ASSUME Inv, UNCHANGED receiver,
         sent' \in Seq(Messages), outgoing' \in Seq(Messages),
         lengthOut' \in 0 .. HeaderSize, payloadOut' \in Nat,
         blocked' \in BOOLEAN, writing' \in BOOLEAN, writer' \in BOOLEAN,
         socket' \in Seq(Bytes)
  PROVE  TypeOK'
BY DEF Inv, TypeOK, receiver

LEMMA SendOK ==
  ASSUME Inv, NEW size \in Sizes, Send(size)
  PROVE  Inv'
<1> DEFINE m == [nr |-> Len(sent) + 1, size |-> size]
<1>1. sent \in Seq(Messages) /\ outgoing \in Seq(Messages) /\ Len(sent) \in Nat
      /\ Len(outgoing) \in Nat /\ Len(outgoing) <= Len(sent)
      /\ lengthOut \in 0 .. HeaderSize /\ payloadOut \in Nat /\ lengthOut \in Nat
  BY LenProperties, Constants DEF Inv, TypeOK, SenderOK
<1>2. m \in Messages /\ m.nr = Len(sent) + 1 /\ m.size = size
  BY <1>1 DEF Messages
<1>3. m.size \in Nat \ {0}
  BY <1>2, Constants
<1> HIDE DEF m
<1>4. sent' = Append(sent, m) /\ outgoing' = Append(outgoing, m)
      /\ UNCHANGED <<lengthOut, payloadOut, blocked, writer, socket>>
      /\ UNCHANGED receiver /\ writing' \in BOOLEAN
  BY DEF Send, Inv, TypeOK, m
<1>5. sent' \in Seq(Messages) /\ Len(sent') = Len(sent) + 1 /\ sent'[Len(sent) + 1] = m
      /\ \A i \in 1 .. Len(sent) : sent'[i] = sent[i]
  BY <1>1, <1>2, <1>4
<1>6. outgoing' \in Seq(Messages) /\ Len(outgoing') = Len(outgoing) + 1
      /\ outgoing'[Len(outgoing) + 1] = m
      /\ \A i \in 1 .. Len(outgoing) : outgoing'[i] = outgoing[i]
  BY <1>1, <1>2, <1>4
<1>7. outgoing' # <<>> /\ Head(outgoing') = outgoing'[1]
      /\ (outgoing # <<>> => Len(outgoing) > 0 /\ Head(outgoing) = outgoing[1])
      /\ (outgoing = <<>> => Len(outgoing) = 0)
  BY <1>1, <1>6, EmptySeq
<1>8. outgoing # <<>> => Head(outgoing') = Head(outgoing)
  BY <1>1, <1>6, <1>7
<1>9. TypeOK'
  <2>1. blocked' \in BOOLEAN /\ writer' \in BOOLEAN /\ socket' \in Seq(Bytes)
    BY <1>4 DEF Inv, TypeOK
  <2>2. QED
    BY <2>1, <1>1, <1>4, <1>5, <1>6, SenderTypes
<1>10. SenderOK'
  <2>1. \A i \in 1 .. Len(sent') : sent'[i].nr = i
    <3>1. ASSUME NEW i \in 1 .. Len(sent')
          PROVE  sent'[i].nr = i
      <4>1. i \in 1 .. Len(sent) \/ i = Len(sent) + 1
        BY <1>1, <1>5
      <4>2. QED
        BY <4>1, <1>2, <1>5 DEF Inv, SenderOK
    <3>2. QED
      BY <3>1
  <2>2. Len(outgoing') <= Len(sent')
    BY <1>1, <1>5, <1>6
  <2>3. ASSUME NEW i \in 1 .. Len(outgoing')
        PROVE  outgoing'[i] = sent'[Len(sent') - Len(outgoing') + i]
    <3>1. Len(sent') - Len(outgoing') + i = Len(sent) - Len(outgoing) + i
      BY <1>1, <1>5, <1>6
    <3>2. CASE i = Len(outgoing) + 1
      <4>1. Len(sent) - Len(outgoing) + i = Len(sent) + 1
        BY <3>2, <1>1
      <4>2. QED
        BY <3>1, <3>2, <4>1, <1>5, <1>6
    <3>3. CASE i # Len(outgoing) + 1
      <4>1. i \in 1 .. Len(outgoing)
            /\ Len(sent) - Len(outgoing) + i \in 1 .. Len(sent)
        BY <3>3, <1>1, <1>6
      <4>2. outgoing[i] = sent[Len(sent) - Len(outgoing) + i]
        BY <4>1 DEF Inv, SenderOK
      <4>3. QED
        BY <3>1, <4>1, <4>2, <1>5, <1>6
    <3>4. QED
      BY <3>2, <3>3
  <2>4. lengthOut' < HeaderSize => payloadOut' = 0
    BY <1>4 DEF Inv, SenderOK
  <2>5. payloadOut' < Head(outgoing').size
    <3>1. CASE outgoing = <<>>
      <4>1. Head(outgoing') = m
        BY <3>1, <1>6, <1>7
      <4>2. payloadOut = 0
        BY <3>1, Constants DEF Inv, SenderOK
      <4>3. QED
        BY <4>1, <4>2, <1>3, <1>4
    <3>2. CASE outgoing # <<>>
      BY <3>2, <1>4, <1>8 DEF Inv, SenderOK
    <3>3. QED
      BY <3>1, <3>2
  <2>6. QED
    BY <2>1, <2>2, <2>3, <2>4, <2>5, <1>7 DEF SenderOK
<1>11. lengthIn' = lengthIn /\ payloadIn' = payloadIn /\ expected' = expected
       /\ delivered' = delivered /\ socket' = socket
  BY <1>4 DEF receiver
<1>12. ReceiverOK'
  <2>1. Len(delivered) <= Len(sent) /\ Len(delivered) \in Nat
    BY LenProperties DEF Inv, ReceiverOK, TypeOK
  <2>2. \A k \in 1 .. Len(delivered) : delivered[k] = Payload(sent'[k])
    BY <2>1, <1>1, <1>5 DEF Inv, ReceiverOK
  <2>3. Len(delivered) <= Len(sent')
    BY <2>1, <1>1, <1>5
  <2>4. QED
    BY <2>2, <2>3, <1>11 DEF Inv, ReceiverOK, Payload, Cut
<1>13. StreamOK'
  <2>1. Flight' = Flight /\ Len(delivered') = Len(delivered)
    BY <1>11 DEF Flight
  <2>2. OnStream(Flight, Len(delivered), sent')
    <3>1. \A i \in 1 .. Len(Flight) :
            /\ Flight[i].of.nr \in 1 .. Len(sent')
            /\ Flight[i].of = sent'[Flight[i].of.nr]
      <4> TAKE i \in 1 .. Len(Flight)
      <4>1. PICK k : k = Flight[i].of.nr
        OBVIOUS
      <4>2. k \in 1 .. Len(sent) /\ Flight[i].of = sent[k]
        BY <4>1 DEF Inv, StreamOK, OnStream
      <4>3. k \in 1 .. Len(sent') /\ sent'[k] = sent[k]
        BY <4>2, <1>1, <1>5
      <4>4. QED
        BY <4>1, <4>2, <4>3
    <3>2. QED
      BY <3>1 DEF Inv, StreamOK, OnStream
  <2>3. Len(sent') - Len(outgoing') = Len(sent) - Len(outgoing)
    BY <1>1, <1>5, <1>6
  <2>4. EndsBefore(Flight, Len(delivered), Len(sent) - Len(outgoing),
                   Head(outgoing'), lengthOut + payloadOut)
    <3>1. CASE outgoing = <<>>
      <4>1. lengthOut + payloadOut = 0
        BY <3>1, Constants DEF Inv, SenderOK
      <4>2. QED
        BY <4>1 DEF Inv, StreamOK, EndsBefore
    <3>2. CASE outgoing # <<>>
      BY <3>2, <1>8 DEF Inv, StreamOK
    <3>3. QED
      BY <3>1, <3>2
  <2>5. QED
    BY <2>1, <2>2, <2>3, <2>4, <1>4 DEF StreamOK
<1>14. QED
  BY <1>9, <1>10, <1>12, <1>13 DEF Inv

\* A call of send that leaves its message at the head of the queue.
LEMMA SendSomeOK ==
  ASSUME Inv, NEW n \in Nat \ {0}, OfHead(n),
         socket' = socket \o Cut(Head(outgoing), lengthOut + payloadOut, n),
         lengthOut' + payloadOut' = lengthOut + payloadOut + n,
         UNCHANGED <<sent, outgoing, receiver>>
  PROVE  ReceiverOK' /\ StreamOK'
<1>1. UNCHANGED <<lengthIn, payloadIn, expected, delivered>>
  BY DEF receiver
<1>2. ReceiverOK'
  BY <1>1 DEF Inv, ReceiverOK, Payload, Cut
<1>3. OnStream(Flight', Len(delivered), sent)
      /\ EndsWith(Flight', [of |-> Head(outgoing), at |-> lengthOut + payloadOut + n])
  BY <1>1, SendBytes
<1>4. lengthOut' + payloadOut' > 0
  BY HeadOfQueue DEF OfHead
<1>5. EndsBefore(Flight', Len(delivered), Len(sent) - Len(outgoing), Head(outgoing),
                 lengthOut' + payloadOut')
  BY <1>3, <1>4 DEF EndsBefore
<1>6. StreamOK'
  BY <1>1, <1>3, <1>5 DEF StreamOK
<1>7. QED
  BY <1>2, <1>6

LEMMA SendLengthOK ==
  ASSUME Inv, NEW n \in 1 .. Capacity, SendLength(n)
  PROVE  Inv'
<1>1. n \in Nat \ {0} /\ HeaderSize \in Nat
  BY Constants
<1>2. outgoing # <<>> /\ lengthOut + n <= HeaderSize
  BY DEF SendLength, Inv, SenderOK
<1>3. /\ lengthOut \in Nat /\ Head(outgoing) \in Messages
      /\ Head(outgoing).size \in Nat \ {0} /\ payloadOut < Head(outgoing).size
  BY <1>2, HeadOfQueue
<1>4. payloadOut = 0
  BY <1>1, <1>2, <1>3 DEF Inv, SenderOK
<1>5. lengthOut + payloadOut = lengthOut /\ lengthOut' + payloadOut' = lengthOut + n
      /\ lengthOut' = lengthOut + n /\ payloadOut' = payloadOut
  BY <1>1, <1>3, <1>4 DEF SendLength
<1>6. OfHead(n)
  BY <1>1, <1>2, <1>3, <1>5 DEF OfHead, FrameSize
<1>7. socket' = socket \o Cut(Head(outgoing), lengthOut + payloadOut, n)
  BY <1>5 DEF SendLength
<1>8. UNCHANGED <<sent, outgoing, blocked, writing, writer, receiver>>
  BY DEF SendLength, receiver
<1>9. socket' \in Seq(Bytes)
  BY <1>1, <1>6, <1>7, <1>8, SendBytes DEF receiver
<1>10. TypeOK'
  <2>1. lengthOut' \in 0 .. HeaderSize /\ payloadOut' \in Nat
    BY <1>1, <1>2, <1>3, <1>4, <1>5
  <2>2. sent' \in Seq(Messages) /\ outgoing' \in Seq(Messages)
        /\ blocked' \in BOOLEAN /\ writing' \in BOOLEAN /\ writer' \in BOOLEAN
    BY <1>8 DEF Inv, TypeOK
  <2>3. QED
    BY <2>1, <2>2, <1>8, <1>9, SenderTypes
<1>11. SenderOK'
  BY <1>2, <1>3, <1>4, <1>5, <1>8 DEF Inv, SenderOK
<1>12. ReceiverOK' /\ StreamOK'
  BY <1>1, <1>5, <1>6, <1>7, <1>8, SendSomeOK
<1>13. QED
  BY <1>10, <1>11, <1>12 DEF Inv

LEMMA SendPayloadOK ==
  ASSUME Inv, NEW n \in 1 .. Capacity, SendPayload(n)
  PROVE  Inv'
<1> DEFINE m == Head(outgoing)
           q == Len(sent) - Len(outgoing)
<1>1. n \in Nat \ {0} /\ HeaderSize \in Nat \ {0}
  BY Constants
<1>2. outgoing # <<>> /\ lengthOut = HeaderSize /\ payloadOut + n <= m.size
  BY DEF SendPayload, Inv, SenderOK
<1>3. /\ q \in Nat /\ q + 1 \in 1 .. Len(sent) /\ m = sent[q + 1] /\ m.nr = q + 1
      /\ m \in Messages
      /\ Tail(outgoing) \in Seq(Messages)
      /\ Len(Tail(outgoing)) = Len(outgoing) - 1
      /\ \A i \in 1 .. Len(outgoing) - 1 : Tail(outgoing)[i] = outgoing[i + 1]
      /\ m.size \in Nat \ {0} /\ payloadOut \in Nat
  BY <1>2, HeadOfQueue
<1>4. OfHead(n) /\ lengthOut + payloadOut = HeaderSize + payloadOut
  BY <1>1, <1>2, <1>3 DEF OfHead, FrameSize
<1>5. socket' = socket \o Cut(Head(outgoing), lengthOut + payloadOut, n)
  BY <1>4 DEF SendPayload
<1>6. UNCHANGED <<sent, blocked, writer, receiver>>
  BY DEF SendPayload, receiver
<1>7. socket' \in Seq(Bytes)
  BY <1>1, <1>4, <1>5, <1>6, SendBytes DEF receiver
<1>8. sent' \in Seq(Messages) /\ blocked' \in BOOLEAN /\ writer' \in BOOLEAN
      /\ outgoing \in Seq(Messages) /\ writing \in BOOLEAN
  BY <1>6 DEF Inv, TypeOK
<1>9. CASE payloadOut + n < m.size
  <2>1. payloadOut' = payloadOut + n /\ UNCHANGED <<outgoing, lengthOut, writing>>
    BY <1>9 DEF SendPayload
  <2>2. TypeOK'
    <3>1. lengthOut' \in 0 .. HeaderSize /\ payloadOut' \in Nat
      BY <2>1, <1>1, <1>2, <1>3
    <3>2. QED
      BY <3>1, <2>1, <1>6, <1>7, <1>8, SenderTypes
  <2>3. SenderOK'
    BY <2>1, <1>1, <1>2, <1>6, <1>9 DEF Inv, SenderOK
  <2>4. lengthOut' + payloadOut' = lengthOut + payloadOut + n
    BY <2>1, <1>1, <1>2, <1>3
  <2>5. ReceiverOK' /\ StreamOK'
    BY <2>1, <2>4, <1>1, <1>4, <1>5, <1>6, SendSomeOK
  <2>6. QED
    BY <2>2, <2>3, <2>5 DEF Inv
<1>10. CASE ~(payloadOut + n < m.size)
  <2>1. payloadOut' = 0 /\ lengthOut' = 0 /\ outgoing' = Tail(outgoing)
        /\ writing' = (Tail(outgoing) # <<>>)
    BY <1>10 DEF SendPayload
  <2>2. lengthOut + payloadOut + n = FrameSize(m)
    BY <1>1, <1>2, <1>3, <1>10 DEF FrameSize
  <2>3. TypeOK'
    <3>1. lengthOut' \in 0 .. HeaderSize /\ payloadOut' \in Nat /\ writing' \in BOOLEAN
      BY <2>1, <1>1
    <3>2. QED
      BY <3>1, <2>1, <1>3, <1>6, <1>7, <1>8, SenderTypes
  <2>4. Len(sent) \in Nat /\ Len(outgoing) \in Nat \ {0} /\ Len(outgoing) <= Len(sent)
    BY <1>2, <1>6, <1>8, EmptySeq, LenProperties DEF Inv, SenderOK
  <2>5. SenderOK'
    <3>1. Len(outgoing') <= Len(sent')
      BY <2>1, <2>4, <1>3, <1>6
    <3>2. ASSUME NEW i \in 1 .. Len(outgoing')
          PROVE  outgoing'[i] = sent'[Len(sent') - Len(outgoing') + i]
      <4>1. i \in 1 .. Len(outgoing) - 1 /\ i + 1 \in 1 .. Len(outgoing)
        BY <2>1, <2>4, <1>3
      <4>2. outgoing'[i] = outgoing[i + 1]
        BY <4>1, <2>1, <1>3
      <4>3. outgoing[i + 1] = sent[Len(sent) - Len(outgoing) + (i + 1)]
        BY <4>1 DEF Inv, SenderOK
      <4>4. Len(sent) - Len(outgoing) + (i + 1) = Len(sent') - Len(outgoing') + i
        BY <4>1, <2>1, <2>4, <1>3, <1>6
      <4>5. QED
        BY <4>2, <4>3, <4>4, <1>6
    <3>3. outgoing' # <<>> => payloadOut' < Head(outgoing').size
      <4> SUFFICES ASSUME outgoing' # <<>>
                   PROVE  payloadOut' < Head(outgoing').size
        OBVIOUS
      <4>1. Head(outgoing') \in Messages
        BY <2>1, <1>3, HeadTailProperties
      <4>2. QED
        BY <4>1, <2>1, Constants
    <3>4. \A i \in 1 .. Len(sent') : sent'[i].nr = i
      BY <1>6 DEF Inv, SenderOK
    <3>5. QED
      BY <3>1, <3>2, <3>3, <3>4, <2>1 DEF SenderOK
  <2>6. ReceiverOK'
    BY <1>6 DEF receiver, Inv, ReceiverOK, Payload, Cut
  <2>7. StreamOK'
    <3>1. OnStream(Flight', Len(delivered), sent)
          /\ EndsWith(Flight', [of |-> m, at |-> FrameSize(m)])
      BY <2>2, <1>1, <1>4, <1>5, <1>6, SendBytes DEF receiver
    <3>2. Len(sent') - Len(outgoing') = q + 1
      BY <2>1, <2>4, <1>3, <1>6
    <3>3. EndsBefore(Flight', Len(delivered), q + 1, Head(outgoing'), 0)
      BY <3>1, <1>3 DEF EndsBefore, EndsWith
    <3>4. delivered' = delivered /\ sent' = sent /\ lengthOut' + payloadOut' = 0
      BY <2>1, <1>6 DEF receiver
    <3>5. QED
      BY <3>1, <3>2, <3>3, <3>4 DEF StreamOK
  <2>8. QED
    BY <2>3, <2>5, <2>6, <2>7 DEF Inv
<1>11. QED
  BY <1>9, <1>10
-----------------------------------------------------------------------------
(***************************************************************************)
(* The receiver, and the steps that move no byte.                          *)
(***************************************************************************)
LEMMA QuietOK ==
  ASSUME Inv,
         UNCHANGED <<sent, outgoing, lengthOut, payloadOut, socket>>,
         UNCHANGED <<lengthIn, payloadIn, expected, delivered>>,
         blocked' \in BOOLEAN, writing' \in BOOLEAN, writer' \in BOOLEAN,
         reading' \in BOOLEAN, reader' \in BOOLEAN,
         errno' \in {"none", "EAGAIN", "EINTR"},
         outgoing = <<>> => ~writing'
  PROVE  Inv'
<1>1. TypeOK'
  BY DEF Inv, TypeOK
<1>2. SenderOK'
  BY DEF Inv, SenderOK
<1>3. ReceiverOK'
  BY DEF Inv, ReceiverOK, Payload, Cut
<1>4. StreamOK'
  BY DEF Inv, StreamOK, Flight
<1>5. QED
  BY <1>1, <1>2, <1>3, <1>4 DEF Inv

\* What a step of the receiver leaves as it is.
LEMMA ReceiverStep ==
  ASSUME Inv, UNCHANGED <<sender, reading, reader, errno>>,
         socket' \in Seq(Bytes), lengthIn' \in Seq(Bytes), payloadIn' \in Seq(Bytes),
         expected' \in Sizes \cup {0}, delivered' \in Seq(Seq(Bytes))
  PROVE  TypeOK' /\ SenderOK' /\ UNCHANGED <<sent, outgoing, lengthOut, payloadOut>>
BY DEF Inv, TypeOK, SenderOK, sender

\* The first bytes of the stream are those of its first frame.
LEMMA FirstFrame ==
  ASSUME NEW s \in Seq(Bytes), NEW list \in Seq(Messages), NEW d \in Nat,
         OnStream(s, d, list), s # <<>>
  PROVE  /\ s[1].of \in Messages /\ s[1].of.nr = d + 1
         /\ d + 1 \in 1 .. Len(list) /\ s[1].of = list[d + 1]
         /\ \A i \in 1 .. Len(s) :
              i <= FrameSize(s[1].of) => s[i] = [of |-> s[1].of, at |-> i]
<1>1. 1 \in 1 .. Len(s) /\ Len(s) \in Nat
  BY EmptySeq
<1>2. s[1].of \in Messages /\ s[1].of.nr = d + 1 /\ s[1].at = 1
      /\ d + 1 \in 1 .. Len(list) /\ s[1].of = list[d + 1]
  BY <1>1 DEF OnStream
<1>3. ASSUME NEW i \in 1 .. Len(s), i <= FrameSize(s[1].of)
      PROVE  s[i] = [of |-> s[1].of, at |-> i]
  <2>1. i - 1 \in 0 .. FrameSize(s[1].of) - 1 /\ 1 + (i - 1) = i /\ (i - 1) + 1 = i
    BY <1>2, <1>3, Constants
  <2>2. s[1 + (i - 1)] = [of |-> s[1].of, at |-> (i - 1) + 1]
    BY <2>1, <1>1, <1>2 DEF OnStream
  <2>3. QED
    BY <2>1, <2>2
<1>4. QED
  BY <1>2, <1>3

\* Bytes of the length come into lengthIn.
LEMMA LengthKeeps ==
  ASSUME Inv, NEW n \in 1 .. Capacity, Read(n), payloadIn = <<>>,
         lengthIn' = lengthIn \o SubSeq(socket, 1, n), payloadIn' = <<>>
  PROVE  /\ lengthIn' \in Seq(Bytes) /\ Len(lengthIn') = Len(lengthIn) + n
         /\ socket' \in Seq(Bytes)
         /\ Flight' = Flight
         /\ Flight # <<>>
         /\ \A i \in 1 .. Len(lengthIn') : i \in 1 .. Len(Flight) /\ Flight[i] = lengthIn'[i]
<1> DEFINE x == SubSeq(socket, 1, n)
           y == SubSeq(socket, n + 1, Len(socket))
<1>1. lengthIn \in Seq(Bytes) /\ socket \in Seq(Bytes) /\ n \in 0 .. Len(socket)
      /\ n \in Nat \ {0} /\ socket' = y /\ Len(lengthIn) \in Nat
  BY FlightType, Constants, LenProperties DEF Read
<1>2. x \in Seq(Bytes) /\ y \in Seq(Bytes) /\ Len(x) = n
  BY <1>1, Halves
<1>3. (lengthIn \o x) \o y = lengthIn \o socket
  BY <1>1, MoveKeeps
<1> HIDE DEF x, y
<1>4. lengthIn' = lengthIn \o x
  BY DEF x
<1>5. lengthIn' \in Seq(Bytes) /\ Len(lengthIn') = Len(lengthIn) + n
  BY <1>1, <1>2, <1>4, ConcatProperties
<1>6. Flight = lengthIn \o socket
  BY <1>1, ConcatEmptySeq DEF Flight
<1>7. Flight' = lengthIn' \o y
  BY <1>1, <1>5, ConcatEmptySeq DEF Flight
<1>8. Flight' = Flight
  BY <1>3, <1>4, <1>6, <1>7
<1>9. \A a, b \in Seq(Bytes) :
        /\ Len(a) > 0 => a \o b # <<>>
        /\ \A i \in 1 .. Len(a) : i \in 1 .. Len(a \o b) /\ (a \o b)[i] = a[i]
  BY Begins
<1>10. Flight = lengthIn' \o y
  BY <1>7, <1>8
<1>11. /\ Len(lengthIn') > 0 => lengthIn' \o y # <<>>
       /\ \A i \in 1 .. Len(lengthIn') :
            i \in 1 .. Len(lengthIn' \o y) /\ (lengthIn' \o y)[i] = lengthIn'[i]
  BY <1>2, <1>5, <1>9, Zenon
<1>a. Len(lengthIn') > 0
  BY <1>1, <1>5
<1>b. Flight # <<>>
  BY <1>10, <1>11, <1>a, Zenon
<1>c. \A i \in 1 .. Len(lengthIn') : i \in 1 .. Len(Flight) /\ Flight[i] = lengthIn'[i]
  BY <1>10, <1>11, Zenon
<1>12. QED
  BY <1>1, <1>2, <1>5, <1>8, <1>b, <1>c

LEMMA ReadLengthOK ==
  ASSUME Inv, NEW n \in 1 .. Capacity, ReadLength(n)
  PROVE  Inv'
<1> DEFINE m == Flight[1].of
<1>1. HeaderSize \in Nat \ {0} /\ n \in Nat \ {0} /\ Len(lengthIn) \in Nat
      /\ Len(lengthIn) + n <= HeaderSize /\ Read(n)
      /\ lengthIn' = lengthIn \o SubSeq(socket, 1, n)
  BY Constants, FlightType, LenProperties DEF ReadLength
<1>2. payloadIn = <<>> /\ expected = 0 /\ payloadIn' = <<>>
  BY <1>1 DEF ReadLength, Inv, ReceiverOK
<1>3. UNCHANGED <<sender, reading, reader, errno, delivered>>
  BY DEF ReadLength, sender
<1>4. /\ lengthIn' \in Seq(Bytes) /\ Len(lengthIn') = Len(lengthIn) + n
      /\ socket' \in Seq(Bytes) /\ Flight' = Flight /\ Flight # <<>>
      /\ \A i \in 1 .. Len(lengthIn') : i \in 1 .. Len(Flight) /\ Flight[i] = lengthIn'[i]
  BY <1>1, <1>2, LengthKeeps
<1>5. /\ m \in Messages
      /\ \A i \in 1 .. Len(Flight) : i <= FrameSize(m) => Flight[i] = [of |-> m, at |-> i]
  <2>1. Flight \in Seq(Bytes) /\ sent \in Seq(Messages) /\ Len(delivered) \in Nat
        /\ OnStream(Flight, Len(delivered), sent)
    BY FlightType, LenProperties DEF Inv, TypeOK, StreamOK
  <2>2. QED
    BY <2>1, <1>4, FirstFrame
<1>6. m.size \in Sizes /\ m.size \in Nat \ {0} /\ FrameSize(m) > HeaderSize
      /\ FrameSize(m) \in Nat
  BY <1>5, Constants DEF Messages
<1> HIDE DEF m
<1>7. \A i \in 1 .. Len(lengthIn') : lengthIn'[i] = [of |-> m, at |-> i]
  <2> TAKE i \in 1 .. Len(lengthIn')
  <2>1. i <= FrameSize(m)
    BY <1>1, <1>4, <1>6
  <2>2. QED
    BY <2>1, <1>4, <1>5
<1>8. CASE Len(lengthIn) + n < HeaderSize
  <2>1. expected' = 0
    BY <1>2, <1>8 DEF ReadLength
  <2>2. ReceiverOK'
    <3>1. sent' = sent /\ delivered' = delivered
      BY <1>3 DEF sender
    <3>2. Len(lengthIn') < HeaderSize /\ Len(lengthIn') <= HeaderSize
      BY <1>1, <1>4, <1>8
    <3>3. QED
      BY <3>1, <3>2, <2>1, <1>2 DEF Inv, ReceiverOK, Payload, Cut
  <2>3. TypeOK' /\ SenderOK' /\ UNCHANGED <<sent, outgoing, lengthOut, payloadOut>>
    <3>1. expected' \in Sizes \cup {0} /\ payloadIn' \in Seq(Bytes)
          /\ delivered' \in Seq(Seq(Bytes))
      BY <2>1, <1>2, <1>3 DEF Inv, TypeOK
    <3>2. QED
      BY <3>1, <1>3, <1>4, ReceiverStep
  <2>4. StreamOK'
    BY <2>3, <1>3, <1>4 DEF Inv, StreamOK
  <2>5. QED
    BY <2>2, <2>3, <2>4 DEF Inv
<1>9. CASE ~(Len(lengthIn) + n < HeaderSize)
  <2>1. Len(lengthIn') = HeaderSize /\ 1 \in 1 .. Len(lengthIn')
    BY <1>1, <1>4, <1>9
  <2>2. lengthIn'[1].of = m
    BY <2>1, <1>7
  <2>3. lengthIn' = Length(m)
    <3>1. Length(m) \in Seq(Bytes) /\ Len(Length(m)) = HeaderSize
          /\ \A i \in 1 .. HeaderSize : Length(m)[i] = [of |-> m, at |-> 0 + i]
      <4>1. 0 \in Nat /\ HeaderSize \in Nat /\ m \in Messages
        BY <1>1, <1>5
      <4>2. QED
        BY <4>1, CutProperties DEF Length
    <3>2. \A i \in 1 .. Len(lengthIn') : lengthIn'[i] = Length(m)[i]
      <4> TAKE i \in 1 .. Len(lengthIn')
      <4>1. 0 + i = i /\ i \in 1 .. HeaderSize
        BY <1>1, <2>1
      <4>2. QED
        BY <4>1, <3>1, <1>7
    <3>3. QED
      BY <3>1, <3>2, <2>1, <1>4, SeqEqual
  <2>4. expected' = m.size
    BY <2>2, <2>3, <1>9 DEF ReadLength, Spelled
  <2>5. ReceiverOK'
    <3>1. Len(payloadIn') = 0
      BY <1>2
    <3>2. sent' = sent /\ delivered' = delivered
      BY <1>3 DEF sender
    <3>3. /\ Len(delivered') <= Len(sent')
          /\ \A k \in 1 .. Len(delivered') : delivered'[k] = Payload(sent'[k])
      BY <3>2 DEF Inv, ReceiverOK, Payload, Cut
    <3>4. Len(payloadIn') < expected'
      BY <3>1, <2>4, <1>6
    <3>5. expected' = lengthIn'[1].of.size /\ ~(Len(lengthIn') < HeaderSize)
          /\ Len(lengthIn') <= HeaderSize
      BY <2>1, <2>2, <2>4, <1>1
    <3>6. QED
      BY <3>3, <3>4, <3>5 DEF ReceiverOK, Payload, Cut
  <2>6. expected' \in Sizes \cup {0} /\ payloadIn' \in Seq(Bytes)
        /\ delivered' \in Seq(Seq(Bytes))
    BY <2>4, <1>2, <1>3, <1>6 DEF Inv, TypeOK
  <2>7. TypeOK' /\ SenderOK' /\ UNCHANGED <<sent, outgoing, lengthOut, payloadOut>>
    BY <2>6, <1>3, <1>4, ReceiverStep
  <2>8. StreamOK'
    BY <2>7, <1>3, <1>4 DEF Inv, StreamOK
  <2>9. QED
    BY <2>5, <2>7, <2>8 DEF Inv
<1>10. QED
  BY <1>8, <1>9

\* Bytes of the payload come behind those read before.
LEMMA PayloadKeeps ==
  ASSUME Inv, NEW n \in 1 .. Capacity, Read(n), NEW payload,
         payload = payloadIn \o SubSeq(socket, 1, n)
  PROVE  /\ payload \in Seq(Bytes) /\ Len(payload) = Len(payloadIn) + n
         /\ socket' \in Seq(Bytes)
         /\ Flight = (lengthIn \o payload) \o socket'
<1> DEFINE x == SubSeq(socket, 1, n)
           y == SubSeq(socket, n + 1, Len(socket))
<1>1. lengthIn \in Seq(Bytes) /\ payloadIn \in Seq(Bytes) /\ socket \in Seq(Bytes)
      /\ n \in 0 .. Len(socket) /\ n \in Nat \ {0} /\ socket' = y
  BY FlightType, Constants, LenProperties DEF Read
<1>2. x \in Seq(Bytes) /\ y \in Seq(Bytes) /\ Len(x) = n
  BY <1>1, Halves
<1>3. lengthIn \o payloadIn \in Seq(Bytes)
  BY <1>1, ConcatProperties
<1>4. ((lengthIn \o payloadIn) \o x) \o y = (lengthIn \o payloadIn) \o socket
  BY <1>1, <1>3, MoveKeeps
<1> HIDE DEF x, y
<1>5. payload = payloadIn \o x
  BY DEF x
<1>6. payload \in Seq(Bytes) /\ Len(payload) = Len(payloadIn) + n
  BY <1>1, <1>2, <1>5, ConcatProperties
<1>7. (lengthIn \o payloadIn) \o x = lengthIn \o payload
  <2>1. lengthIn \in Seq(Bytes) /\ payloadIn \in Seq(Bytes) /\ x \in Seq(Bytes)
    BY <1>1, <1>2
  <2>2. (lengthIn \o payloadIn) \o x = lengthIn \o (payloadIn \o x)
    BY <2>1, Associative
  <2>3. QED
    BY <2>2, <1>5, Zenon
<1>8. Flight = (lengthIn \o payload) \o y
  BY <1>4, <1>7, Zenon DEF Flight
<1>9. QED
  BY <1>1, <1>2, <1>6, <1>8, Zenon

\* A whole frame that has been read: the payload is that of the next message, and
\* the stream goes on with the one behind it.
LEMMA WholeFrame ==
  ASSUME Inv, NEW a \in Seq(Bytes), NEW p \in Seq(Bytes), NEW rest \in Seq(Bytes),
         Flight = (a \o p) \o rest, Len(a) = HeaderSize, Len(p) = Flight[1].of.size
  PROVE  /\ Len(delivered) + 1 \in 1 .. Len(sent)
         /\ p = Payload(sent[Len(delivered) + 1])
         /\ OnStream(rest, Len(delivered) + 1, sent)
         /\ EndsBefore(rest, Len(delivered) + 1, Len(sent) - Len(outgoing),
                       Head(outgoing), lengthOut + payloadOut)
<1> DEFINE m == Flight[1].of
           f == FrameSize(m)
<1> HIDE DEF m, f
<1>1. Flight \in Seq(Bytes) /\ sent \in Seq(Messages)
  BY FlightType DEF Inv, TypeOK
<1>2. PICK d \in Nat : d = Len(delivered)
  BY LenProperties DEF Inv, TypeOK
<1>3. OnStream(Flight, d, sent)
  BY <1>2 DEF Inv, StreamOK
<1>4. HeaderSize \in Nat \ {0} /\ Len(p) \in Nat
  BY Constants, LenProperties
<1>5. a \o p \in Seq(Bytes) /\ Len(a \o p) = HeaderSize + Len(p)
      /\ Len(a \o p) > 0
      /\ \A i \in 1 .. Len(p) : (a \o p)[HeaderSize + i] = p[i]
  <2>1. a \o p \in Seq(Bytes) /\ Len(a \o p) = HeaderSize + Len(p)
    BY Begins
  <2>2. \A u, v \in Seq(Bytes) : \A i \in 1 .. Len(v) : (u \o v)[Len(u) + i] = v[i]
    BY Begins
  <2>3. QED
    BY <1>4, <2>1, <2>2
<1>6. /\ Flight # <<>> /\ Len(Flight) = Len(a \o p) + Len(rest)
      /\ \A i \in 1 .. Len(a \o p) : i \in 1 .. Len(Flight) /\ Flight[i] = (a \o p)[i]
  <2>1. \A u, v \in Seq(Bytes) :
          /\ Len(u \o v) = Len(u) + Len(v)
          /\ Len(u) > 0 => u \o v # <<>>
          /\ \A i \in 1 .. Len(u) : i \in 1 .. Len(u \o v) /\ (u \o v)[i] = u[i]
    BY Begins
  <2>2. QED
    BY <2>1, <1>5, Zenon
<1>7. SubSeq(Flight, Len(a \o p) + 1, Len(Flight)) = rest
  BY <1>5, SecondPart
<1>8. m \in Messages /\ m.nr = d + 1 /\ d + 1 \in 1 .. Len(sent) /\ m = sent[d + 1]
      /\ \A i \in 1 .. Len(Flight) : i <= f => Flight[i] = [of |-> m, at |-> i]
  BY <1>1, <1>3, <1>6, FirstFrame DEF m, f
<1>9. f \in Nat /\ f = HeaderSize + m.size /\ m.size \in Nat /\ Len(p) = m.size
  BY <1>8, Constants DEF FrameSize, m, f
<1>10. Len(a \o p) = f /\ f \in 1 .. Len(Flight)
  <2>1. Len(rest) \in Nat
    BY LenProperties
  <2>2. QED
    BY <2>1, <1>4, <1>5, <1>6, <1>9
<1>11. p = Payload(m)
  <2>1. Payload(m) \in Seq(Bytes) /\ Len(Payload(m)) = m.size
        /\ \A i \in 1 .. m.size : Payload(m)[i] = [of |-> m, at |-> HeaderSize + i]
    BY <1>8, PayloadProperties
  <2>2. ASSUME NEW i \in 1 .. Len(p)
        PROVE  p[i] = Payload(m)[i]
    <3>1. HeaderSize + i \in 1 .. Len(a \o p) /\ HeaderSize + i <= f
      <4>1. PICK z \in Nat : z = Len(p)
        BY <1>4
      <4>2. Len(a \o p) = HeaderSize + z /\ f = HeaderSize + z
        BY <4>1, <1>5, <1>9
      <4>3. HeaderSize + i \in 1 .. HeaderSize + z
        BY <4>1, <1>4
      <4>4. HeaderSize + i <= HeaderSize + z
        BY <4>3
      <4>5. QED
        BY <4>2, <4>3, <4>4
    <3>2. Flight[HeaderSize + i] = p[i]
      BY <3>1, <1>5, <1>6
    <3>3. Flight[HeaderSize + i] = [of |-> m, at |-> HeaderSize + i]
      BY <3>1, <1>6, <1>8
    <3>4. QED
      BY <3>2, <3>3, <2>1, <1>9
  <2>3. QED
    BY <2>1, <2>2, <1>9, SeqEqual
<1>12. f <= Len(Flight)
  BY <1>10
<1>13. SubSeq(Flight, f + 1, Len(Flight)) = rest
  BY <1>7, <1>10
<1>14. OnStream(rest, d + 1, sent) /\ Flight[f] = [of |-> m, at |-> f]
  <2>1. OnStream(SubSeq(Flight, f + 1, Len(Flight)), d + 1, sent)
        /\ Flight[f] = [of |-> m, at |-> f]
    BY <1>1, <1>3, <1>6, <1>12, TakeFrame DEF m, f
  <2>2. QED
    BY <2>1, <1>13
<1>15. EndsBefore(rest, d + 1, Len(sent) - Len(outgoing), Head(outgoing),
                  lengthOut + payloadOut)
  <2>1. PICK k \in Nat : k = lengthOut + payloadOut
    <3>1. lengthOut \in Nat /\ payloadOut \in Nat
      BY Constants DEF Inv, TypeOK
    <3>2. QED
      BY <3>1
  <2>2. k > 0 => k # FrameSize(Head(outgoing))
    <3>1. CASE outgoing = <<>>
      BY <3>1, <2>1, <1>4 DEF Inv, SenderOK
    <3>2. CASE outgoing # <<>>
      <4>1. Head(outgoing) \in Messages
        BY <3>2, HeadOfQueue
      <4>2. FrameSize(Head(outgoing)) \in Nat
        BY <4>1, Constants
      <4>3. k < FrameSize(Head(outgoing))
        BY <3>2, <2>1, HeadOfQueue
      <4>4. QED
        BY <4>2, <4>3
    <3>3. QED
      BY <3>1, <3>2
  <2>3. PICK q : q = Len(sent) - Len(outgoing)
    OBVIOUS
  <2>4. EndsBefore(Flight, d, q, Head(outgoing), k)
    BY <2>1, <2>3, <1>2 DEF Inv, StreamOK
  <2>5. EndsBefore(SubSeq(Flight, f + 1, Len(Flight)), d + 1, q, Head(outgoing), k)
    BY <2>2, <2>4, <1>1, <1>6, <1>8, <1>10, <1>14, RestEndsBefore DEF m, f
  <2>6. QED
    BY <2>1, <2>3, <2>5, <1>13
<1>16. QED
  BY <1>2, <1>8, <1>11, <1>14, <1>15

LEMMA ReadPayloadOK ==
  ASSUME Inv, NEW n \in 1 .. Capacity, ReadPayload(n)
  PROVE  Inv'
<1>1. PICK payload : payload = payloadIn \o SubSeq(socket, 1, n)
  OBVIOUS
<1>2. /\ Read(n) /\ Len(lengthIn) = HeaderSize /\ Len(payloadIn) + n <= expected
      /\ IF Len(payload) < expected
         THEN payloadIn' = payload /\ UNCHANGED <<lengthIn, expected, delivered>>
         ELSE /\ delivered' = Append(delivered, payload)
              /\ lengthIn' = <<>> /\ payloadIn' = <<>> /\ expected' = 0
      /\ UNCHANGED <<sender, reading, reader, errno>>
  BY <1>1 DEF ReadPayload
<1>3. payload \in Seq(Bytes) /\ Len(payload) = Len(payloadIn) + n
      /\ socket' \in Seq(Bytes) /\ Flight = (lengthIn \o payload) \o socket'
  BY <1>1, <1>2, PayloadKeeps
<1>4. HeaderSize \in Nat \ {0} /\ n \in Nat \ {0} /\ Len(payloadIn) \in Nat
      /\ lengthIn \in Seq(Bytes) /\ expected \in Sizes \cup {0}
      /\ delivered \in Seq(Seq(Bytes)) /\ Len(delivered) \in Nat
  BY Constants, FlightType, LenProperties DEF Inv, TypeOK
<1>5. expected = lengthIn[1].of.size
  BY <1>2, <1>4 DEF Inv, ReceiverOK
<1>6. CASE Len(payload) < expected
  <2>1. payloadIn' = payload /\ lengthIn' = lengthIn /\ expected' = expected
        /\ delivered' = delivered
    BY <1>2, <1>6
  <2>2. TypeOK' /\ SenderOK' /\ UNCHANGED <<sent, outgoing, lengthOut, payloadOut>>
    BY <2>1, <1>2, <1>3, <1>4, ReceiverStep
  <2>3. ReceiverOK'
    BY <2>1, <2>2, <1>2, <1>5, <1>6 DEF Inv, ReceiverOK, Payload, Cut
  <2>4. Flight' = Flight
    BY <2>1, <1>3 DEF Flight
  <2>5. StreamOK'
    BY <2>1, <2>2, <2>4 DEF Inv, StreamOK
  <2>6. QED
    BY <2>2, <2>3, <2>5 DEF Inv
<1>7. CASE ~(Len(payload) < expected)
  <2>1. delivered' = Append(delivered, payload) /\ lengthIn' = <<>>
        /\ payloadIn' = <<>> /\ expected' = 0
    BY <1>2, <1>7
  <2>2. TypeOK' /\ SenderOK' /\ UNCHANGED <<sent, outgoing, lengthOut, payloadOut>>
    <3>1. <<>> \in Seq(Bytes) /\ Append(delivered, payload) \in Seq(Seq(Bytes))
      BY <1>3, <1>4
    <3>2. QED
      BY <3>1, <2>1, <1>2, <1>3, ReceiverStep
  <2>3. Len(payload) = Flight[1].of.size
    <3>1. expected \in Nat
      BY <1>4, FramingAssumption
    <3>2. Len(payload) = expected
      BY <3>1, <1>2, <1>3, <1>4, <1>7
    <3>3. Flight[1] = lengthIn[1]
      <4>1. \A u, v \in Seq(Bytes) : \A i \in 1 .. Len(u) :
              u \o v \in Seq(Bytes) /\ i \in 1 .. Len(u \o v) /\ (u \o v)[i] = u[i]
        BY Begins
      <4>2. 1 \in 1 .. Len(lengthIn)
        BY <1>2, <1>4
      <4>3. lengthIn \o payload \in Seq(Bytes)
            /\ 1 \in 1 .. Len(lengthIn \o payload)
            /\ (lengthIn \o payload)[1] = lengthIn[1]
        BY <4>1, <4>2, <1>3, <1>4, Zenon
      <4>4. QED
        BY <4>1, <4>3, <1>3, Zenon
    <3>4. QED
      BY <3>2, <3>3, <1>5
  <2>4. PICK d \in Nat : d = Len(delivered)
    BY <1>4
  <2>5. /\ d + 1 \in 1 .. Len(sent) /\ payload = Payload(sent[d + 1])
        /\ OnStream(socket', d + 1, sent)
        /\ EndsBefore(socket', d + 1, Len(sent) - Len(outgoing),
                      Head(outgoing), lengthOut + payloadOut)
    BY <2>3, <2>4, <1>2, <1>3, <1>4, WholeFrame
  <2>6. Len(delivered') = d + 1 /\ delivered'[d + 1] = payload
        /\ \A k \in 1 .. d : delivered'[k] = delivered[k]
    BY <2>1, <2>4, <1>3, <1>4
  <2>7. ReceiverOK'
    <3>1. Len(lengthIn') = 0
      BY <2>1
    <3>2. ASSUME NEW k \in 1 .. d + 1
          PROVE  delivered'[k] = Payload(sent[k])
      <4>1. k \in 1 .. d \/ k = d + 1
        BY <2>4
      <4>2. QED
        BY <4>1, <2>4, <2>5, <2>6 DEF Inv, ReceiverOK
    <3>3. d + 1 <= Len(sent)
      BY <2>5
    <3>4. QED
      BY <3>1, <3>2, <3>3, <2>1, <2>2, <2>6, <1>4 DEF ReceiverOK, Payload, Cut
  <2>8. Flight' = socket'
    BY <2>1, <1>3, ConcatEmptySeq DEF Flight
  <2>9. StreamOK'
    BY <2>2, <2>5, <2>6, <2>8 DEF StreamOK
  <2>10. QED
    BY <2>2, <2>7, <2>9 DEF Inv
<1>8. QED
  BY <1>6, <1>7

\* The other steps.
LEMMA OtherStepOK ==
  ASSUME Inv,
         \/ WouldBlock \/ SocketOut \/ WriterHup \/ CloseWriter
         \/ Interrupted \/ SocketIn \/ ReadAgain \/ EndOfStream
         \/ ReaderHup \/ CloseReader \/ UNCHANGED vars
  PROVE  Inv' /\ UNCHANGED <<sent, delivered>>
<1>1. /\ blocked \in BOOLEAN /\ writing \in BOOLEAN /\ writer \in BOOLEAN
      /\ reading \in BOOLEAN /\ reader \in BOOLEAN
      /\ errno \in {"none", "EAGAIN", "EINTR"}
      /\ outgoing = <<>> => ~writing
  BY DEF Inv, TypeOK, SenderOK
<1>a. UNCHANGED sender =>
        /\ UNCHANGED <<sent, outgoing, lengthOut, payloadOut>>
        /\ blocked' \in BOOLEAN /\ writing' \in BOOLEAN /\ writer' \in BOOLEAN
        /\ outgoing = <<>> => ~writing'
  BY <1>1 DEF sender
<1>2. /\ UNCHANGED <<sent, outgoing, lengthOut, payloadOut, socket>>
      /\ UNCHANGED <<lengthIn, payloadIn, expected, delivered>>
      /\ blocked' \in BOOLEAN /\ writing' \in BOOLEAN /\ writer' \in BOOLEAN
      /\ reading' \in BOOLEAN /\ reader' \in BOOLEAN
      /\ errno' \in {"none", "EAGAIN", "EINTR"}
      /\ outgoing = <<>> => ~writing'
  <2>1. CASE WouldBlock
    BY <1>1, <2>1 DEF WouldBlock, receiver
  <2>2. CASE SocketOut
    BY <1>1, <2>2 DEF SocketOut, receiver
  <2>3. CASE WriterHup \/ CloseWriter
    BY <1>1, <2>3 DEF WriterHup, CloseWriter, receiver
  <2>4. CASE Interrupted \/ SocketIn
    BY <1>1, <1>a, <2>4 DEF Interrupted, SocketIn
  <2>5. CASE ReadAgain \/ EndOfStream
    BY <1>1, <1>a, <2>5 DEF ReadAgain, EndOfStream
  <2>6. CASE ReaderHup \/ CloseReader
    BY <1>1, <1>a, <2>6 DEF ReaderHup, CloseReader
  <2>7. CASE UNCHANGED vars
    BY <1>1, <2>7 DEF vars, sender, receiver
  <2>8. QED
    BY <2>1, <2>2, <2>3, <2>4, <2>5, <2>6, <2>7
<1>3. QED
  BY <1>2, QuietOK
-----------------------------------------------------------------------------
(***************************************************************************)
(* What is sent and what is handed over, as Mailbox has it.                *)
(***************************************************************************)
LEMMA DecodedPayload ==
  ASSUME NEW m \in Messages
  PROVE  Decoded(Payload(m)) = m
<1>1. m.size \in Nat \ {0}
  BY Constants
<1>2. 1 \in 1 .. m.size
  BY <1>1
<1>3. Payload(m)[1].of = m
  <2>1. Payload(m)[1] = [of |-> m, at |-> HeaderSize + 1]
    BY <1>2, PayloadProperties
  <2>2. QED
    BY <2>1
<1>4. QED
  BY <1>3 DEF Decoded

\* The payloads handed over, decoded, are the first messages sent.
LEMMA DecodedStart ==
  ASSUME NEW list \in Seq(Messages), NEW got \in Seq(Seq(Bytes)),
         Len(got) <= Len(list),
         \A k \in 1 .. Len(got) : got[k] = Payload(list[k])
  PROVE  [k \in DOMAIN got |-> Decoded(got[k])] = SubSeq(list, 1, Len(got))
<1>1. PICK d \in Nat : d = Len(got)
  BY LenProperties
<1>2. DOMAIN got = 1 .. d /\ d \in 0 .. Len(list)
  BY <1>1, LenProperties
<1>3. \A k \in 1 .. d : list[k] \in Messages /\ Decoded(got[k]) = list[k]
  <2> TAKE k \in 1 .. d
  <2>1. list[k] \in Messages
    BY <1>2, ElementOfSeq, LenProperties
  <2>2. QED
    BY <2>1, <1>1, DecodedPayload
<1> DEFINE f == [k \in 1 .. d |-> Decoded(got[k])]
<1>4. f \in Seq(Messages) /\ Len(f) = d /\ \A k \in 1 .. d : f[k] = list[k]
  BY <1>3
<1>5. SubSeq(list, 1, d) \in Seq(Messages) /\ Len(SubSeq(list, 1, d)) = d
      /\ \A k \in 1 .. d : SubSeq(list, 1, d)[k] = list[k]
  BY <1>2, Halves
<1> HIDE DEF f
<1>6. f = SubSeq(list, 1, d)
  <2>1. \A k \in 1 .. Len(f) : f[k] = SubSeq(list, 1, d)[k]
    BY <1>4, <1>5
  <2>2. QED
    BY <2>1, <1>4, <1>5, SeqEqual
<1>7. QED
  BY <1>1, <1>2, <1>6 DEF f

LEMMA PutOne ==
  ASSUME NEW S, NEW s \in Seq(S), NEW m \in S, NEW d \in 0 .. Len(s)
  PROVE  SubSeq(Append(s, m), d + 1, Len(Append(s, m)))
           = Append(SubSeq(s, d + 1, Len(s)), m)
<1> DEFINE a == Append(s, m)
           x == SubSeq(a, d + 1, Len(a))
           y == SubSeq(s, d + 1, Len(s))
           z == Append(y, m)
<1>1. Len(s) \in Nat /\ d \in Nat /\ d <= Len(s)
  BY LenProperties
<1>2. a \in Seq(S) /\ Len(a) = Len(s) + 1 /\ a[Len(s) + 1] = m
      /\ \A i \in 1 .. Len(s) : a[i] = s[i]
  BY <1>1, AppendProperties
<1> HIDE DEF a
<1>3. d \in 0 .. Len(a)
  BY <1>1, <1>2
<1>4. x \in Seq(S) /\ Len(x) = Len(a) - d /\ \A i \in 1 .. Len(a) - d : x[i] = a[d + i]
  BY <1>2, <1>3, Halves
<1>5. y \in Seq(S) /\ Len(y) = Len(s) - d /\ \A i \in 1 .. Len(s) - d : y[i] = s[d + i]
  BY Halves
<1> HIDE DEF x, y
<1>6. z \in Seq(S) /\ Len(z) = Len(y) + 1 /\ z[Len(y) + 1] = m
      /\ \A i \in 1 .. Len(y) : z[i] = y[i]
  BY <1>5, AppendProperties
<1> HIDE DEF z
<1>7. Len(x) = Len(z)
  BY <1>1, <1>2, <1>4, <1>5, <1>6
<1>8. ASSUME NEW i \in 1 .. Len(x)
      PROVE  x[i] = z[i]
  <2>1. CASE i = Len(s) - d + 1
    <3>1. d + i = Len(s) + 1 /\ i = Len(y) + 1 /\ i \in 1 .. Len(a) - d
      BY <2>1, <1>1, <1>2, <1>5
    <3>2. QED
      BY <3>1, <1>2, <1>4, <1>6
  <2>2. CASE i # Len(s) - d + 1
    <3>1. i \in 1 .. Len(s) - d /\ d + i \in 1 .. Len(s) /\ i \in 1 .. Len(a) - d
      <4>1. PICK l \in Nat : l = Len(s)
        BY <1>1
      <4>2. Len(a) - d = (l - d) + 1 /\ i \in 1 .. Len(a) - d
        BY <4>1, <1>1, <1>2, <1>4
      <4>3. i \in 1 .. (l - d) + 1 /\ i # (l - d) + 1
        BY <2>2, <4>1, <4>2
      <4>4. i \in 1 .. l - d /\ d + i \in 1 .. l
        BY <4>1, <4>3, <1>1
      <4>5. QED
        BY <4>1, <4>2, <4>4
    <3>2. x[i] = s[d + i] /\ z[i] = y[i]
      BY <3>1, <1>2, <1>4, <1>5, <1>6
    <3>3. QED
      BY <3>1, <3>2, <1>5
  <2>3. QED
    BY <2>1, <2>2
<1>9. x = z
  BY <1>4, <1>6, <1>7, <1>8, SeqEqual
<1>10. QED
  BY <1>9 DEF a, x, y, z

LEMMA TakeOne ==
  ASSUME NEW S, NEW s \in Seq(S), NEW d \in Nat, d + 1 \in 1 .. Len(s)
  PROVE  LET x == SubSeq(s, d + 1, Len(s))
         IN  /\ x # <<>> /\ Head(x) = s[d + 1]
             /\ Tail(x) = SubSeq(s, (d + 1) + 1, Len(s))
             /\ SubSeq(s, 1, d + 1) = Append(SubSeq(s, 1, d), s[d + 1])
<1> DEFINE x == SubSeq(s, d + 1, Len(s))
           y == SubSeq(s, (d + 1) + 1, Len(s))
           u == SubSeq(s, 1, d + 1)
           v == SubSeq(s, 1, d)
           e == s[d + 1]
           w == Append(v, e)
<1>1. Len(s) \in Nat /\ d \in 0 .. Len(s) /\ d + 1 \in 0 .. Len(s) /\ e \in S
      /\ d + 1 <= Len(s)
  BY LenProperties, ElementOfSeq
<1>2. x \in Seq(S) /\ Len(x) = Len(s) - d /\ \A i \in 1 .. Len(s) - d : x[i] = s[d + i]
  BY <1>1, Halves
<1>3. y \in Seq(S) /\ Len(y) = Len(s) - (d + 1)
      /\ \A i \in 1 .. Len(s) - (d + 1) : y[i] = s[(d + 1) + i]
  BY <1>1, Halves
<1>4. u \in Seq(S) /\ Len(u) = d + 1 /\ \A i \in 1 .. d + 1 : u[i] = s[i]
  BY <1>1, Halves
<1>5. v \in Seq(S) /\ Len(v) = d /\ \A i \in 1 .. d : v[i] = s[i]
  BY <1>1, Halves
<1>6. e = s[d + 1]
  OBVIOUS
<1> HIDE DEF x, y, u, v, e
<1>7. x # <<>> /\ Head(x) = x[1] /\ Len(x) > 0 /\ x[1] = e
  BY <1>1, <1>2, <1>6, EmptySeq
<1>8. Tail(x) = y
  <2>1. Tail(x) \in Seq(S) /\ Len(Tail(x)) = Len(x) - 1
        /\ \A i \in 1 .. Len(x) - 1 : Tail(x)[i] = x[i + 1]
    BY <1>2, <1>7, HeadTailProperties
  <2>2. ASSUME NEW i \in 1 .. Len(Tail(x))
        PROVE  Tail(x)[i] = y[i]
    <3>1. i \in 1 .. Len(x) - 1 /\ i + 1 \in 1 .. Len(s) - d
          /\ i \in 1 .. Len(s) - (d + 1) /\ d + (i + 1) = (d + 1) + i
      BY <2>1, <1>1, <1>2
    <3>2. Tail(x)[i] = s[d + (i + 1)]
      BY <3>1, <2>1, <1>2
    <3>3. QED
      BY <3>1, <3>2, <1>3
  <2>3. Len(Tail(x)) = Len(y)
    BY <2>1, <1>1, <1>2, <1>3
  <2>4. QED
    BY <2>1, <2>2, <2>3, <1>3, SeqEqual
<1>9. u = w
  <2>1. w \in Seq(S) /\ Len(w) = d + 1 /\ w[d + 1] = e /\ \A i \in 1 .. d : w[i] = v[i]
    BY <1>1, <1>5, AppendProperties
  <2> HIDE DEF w
  <2>2. ASSUME NEW i \in 1 .. Len(u)
        PROVE  u[i] = w[i]
    <3>1. i \in 1 .. d \/ i = d + 1
      BY <1>4
    <3>2. QED
      BY <3>1, <2>1, <1>4, <1>5, <1>6
  <2>3. QED
    BY <2>1, <2>2, <1>4, SeqEqual
<1>10. QED
  BY <1>6, <1>7, <1>8, <1>9 DEF x, y, u, v
-----------------------------------------------------------------------------
(***************************************************************************)
(* The theorems.                                                           *)
(***************************************************************************)
\* Wherever send and recv cut a header or a payload, and whoever closes when, what
\* the receiver has read, what is in the socket and what the sender's counters say
\* it sends next fit together, and what was handed over is what was queued.
THEOREM FramingCorrect == Spec => []Inv
<1>1. Inv /\ [Next]_vars => Inv'
  <2> SUFFICES ASSUME Inv, [Next]_vars
               PROVE  Inv'
    OBVIOUS
  <2>1. ASSUME NEW size \in Sizes, Send(size)
        PROVE  Inv'
    BY <2>1, SendOK
  <2>2. ASSUME NEW n \in 1 .. Capacity, SendLength(n) \/ SendPayload(n)
        PROVE  Inv'
    BY <2>2, SendLengthOK, SendPayloadOK
  <2>3. ASSUME NEW n \in 1 .. Capacity, ReadLength(n)
        PROVE  Inv'
    BY <2>3, ReadLengthOK
  <2>4. ASSUME NEW n \in 1 .. Capacity, ReadPayload(n)
        PROVE  Inv'
    BY <2>4, ReadPayloadOK
  <2>5. QED
    BY <2>1, <2>2, <2>3, <2>4, OtherStepOK DEF Next, Write, Consume
<1>2. QED
  BY InitOK, <1>1, PTL DEF Spec

\* Every variable keeps its type: no counter runs past its header or payload, and
\* a message is never allocated with a size that was not sent.
THEOREM TypesHold == Spec => []TypeOK
<1>1. Inv => TypeOK
  BY DEF Inv
<1>2. QED
  BY FramingCorrect, <1>1, PTL

\* The bytes read, those in the socket and the one sent next make one gapless piece
\* of the stream of messages.
THEOREM StreamIsContiguous == Spec => []Contiguous
<1>1. ASSUME Inv
      PROVE  Contiguous
  <2> DEFINE s == lengthIn \o payloadIn \o socket \o NextByte
  <2>1. OnStream(s, Len(delivered), sent)
    <3>1. CASE outgoing = <<>>
      <4>1. Flight \in Seq(Bytes) /\ s = Flight \o <<>>
        BY <1>1, <3>1, FlightType DEF NextByte, Flight
      <4>2. s = Flight
        BY <4>1, ConcatEmptySeq
      <4>3. QED
        BY <1>1, <4>2 DEF Inv, StreamOK
    <3>2. CASE outgoing # <<>>
      <4>1. OfHead(1)
        <5>1. Head(outgoing) \in Messages
              /\ lengthOut + payloadOut < FrameSize(Head(outgoing))
          BY <1>1, <3>2, HeadOfQueue
        <5>2. FrameSize(Head(outgoing)) \in Nat
          BY <5>1, Constants
        <5>3. PICK k \in Nat : k = lengthOut + payloadOut
          BY <1>1, <3>2, HeadOfQueue
        <5>4. k + 1 <= FrameSize(Head(outgoing))
          BY <5>1, <5>2, <5>3
        <5>5. QED
          BY <5>3, <5>4, <3>2 DEF OfHead
      <4>2. NextByte = Cut(Head(outgoing), lengthOut + payloadOut, 1)
        BY <3>2 DEF NextByte, Cut
      <4>3. 1 \in Nat \ {0}
        OBVIOUS
      <4>4. LET t == Flight \o Cut(Head(outgoing), lengthOut + payloadOut, 1)
            IN  OnStream(t, Len(delivered), sent)
        BY <1>1, <4>1, <4>3, NextBytes
      <4>5. QED
        BY <4>2, <4>4 DEF Flight
    <3>3. QED
      BY <3>1, <3>2
  <2>2. QED
    BY <2>1 DEF OnStream, Contiguous
<1>2. QED
  BY FramingCorrect, <1>1, PTL

\* Each payload handed over is a whole message that was queued, in the order of
\* the queue, none left out and none twice.
THEOREM StreamCarriesMessages == Spec => CarriesMessages
<1> DEFINE box == SubSeq(sent, Len(delivered) + 1, Len(sent))
           out == [k \in DOMAIN delivered |-> Decoded(delivered[k])]
<1>1. Init => Box!Init
  BY DEF Init, Box!Init
<1>2. ASSUME Inv
      PROVE  /\ sent \in Seq(Messages) /\ Len(sent) \in Nat
             /\ Len(delivered) \in Nat /\ Len(delivered) <= Len(sent)
             /\ out = SubSeq(sent, 1, Len(delivered))
  <2>1. sent \in Seq(Messages) /\ delivered \in Seq(Seq(Bytes))
        /\ Len(delivered) <= Len(sent)
        /\ \A k \in 1 .. Len(delivered) : delivered[k] = Payload(sent[k])
    BY <1>2 DEF Inv, TypeOK, ReceiverOK
  <2>2. QED
    BY <2>1, DecodedStart, LenProperties
<1>3. Inv /\ Inv' /\ [Next]_vars => [Box!Next]_(Box!vars)
  <2> SUFFICES ASSUME Inv, Inv', [Next]_vars
               PROVE  [Box!Next]_(Box!vars)
    OBVIOUS
  <2>1. ASSUME NEW size \in Sizes, Send(size)
        PROVE  Box!Next
    <3> DEFINE m == [nr |-> Len(sent) + 1, size |-> size]
    <3>1. sent' = Append(sent, m) /\ delivered' = delivered /\ Len(sent) < MaxMessages
      BY <2>1 DEF Send, receiver
    <3>2. m \in Messages /\ m \in Letters /\ m.nr = Len(sent) + 1
      BY <3>1, <1>2, Constants DEF Messages, Letters
    <3> HIDE DEF m
    <3>3. out' = out
      BY <3>1
    <3>4. box' = Append(box, m)
      <4>1. Len(delivered) \in 0 .. Len(sent)
        BY <1>2
      <4>2. QED
        BY <4>1, <3>1, <3>2, <1>2, PutOne
    <3>5. out \o box = sent
      <4>1. Len(delivered) \in 0 .. Len(sent)
        BY <1>2
      <4>2. QED
        BY <4>1, <1>2, Halves
    <3>6. \A i \in DOMAIN sent : sent[i] # m
      <4> TAKE i \in DOMAIN sent
      <4>1. i \in 1 .. Len(sent)
        BY <1>2, LenProperties
      <4>2. sent[i].nr = i
        BY <4>1 DEF Inv, SenderOK
      <4>3. QED
        BY <4>1, <4>2, <3>2, <1>2
    <3>7. Box!Put(m)
      BY <3>3, <3>4, <3>5, <3>6 DEF Box!Put
    <3>8. QED
      BY <3>2, <3>7 DEF Box!Next
  <2>2. ASSUME NEW n \in 1 .. Capacity, ReadPayload(n), delivered' # delivered
        PROVE  Box!Next
    <3>1. sent' = sent /\ \E payload : delivered' = Append(delivered, payload)
      BY <2>2 DEF ReadPayload, sender
    <3>2. PICK d \in Nat : d = Len(delivered)
      BY <1>2
    <3>3. Len(delivered') = d + 1
      BY <3>1, <3>2 DEF Inv, TypeOK
    <3>4. d + 1 \in 1 .. Len(sent) /\ sent \in Seq(Messages)
      <4>1. Len(delivered') <= Len(sent')
        BY DEF Inv, ReceiverOK
      <4>2. QED
        BY <4>1, <3>1, <3>2, <3>3, <1>2
    <3>5. out = SubSeq(sent, 1, d)
      BY <3>2, <1>2
    <3>6. out' = SubSeq(sent, 1, d + 1)
      <4>1. sent' \in Seq(Messages) /\ delivered' \in Seq(Seq(Bytes))
            /\ Len(delivered') <= Len(sent')
            /\ \A k \in 1 .. Len(delivered') : delivered'[k] = Payload(sent'[k])
        BY DEF Inv, TypeOK, ReceiverOK, Payload, Cut
      <4>2. out' = SubSeq(sent', 1, Len(delivered'))
        BY <4>1, DecodedStart DEF Decoded, Payload, Cut
      <4>3. QED
        BY <4>2, <3>1, <3>3
    <3>7. box = SubSeq(sent, d + 1, Len(sent))
          /\ box' = SubSeq(sent, (d + 1) + 1, Len(sent))
      BY <3>1, <3>2, <3>3
    <3> HIDE DEF box, out
    <3>8. box # <<>> /\ Head(box) = sent[d + 1] /\ Tail(box) = box'
          /\ out' = Append(out, sent[d + 1])
      BY <3>4, <3>5, <3>6, <3>7, TakeOne
    <3>9. Box!Take
      BY <3>8 DEF Box!Take, box, out
    <3>10. QED
      BY <3>9 DEF Box!Next
  <2>3. ASSUME UNCHANGED <<sent, delivered>>
        PROVE  UNCHANGED Box!vars
    BY <2>3 DEF Box!vars
  <2>4. ASSUME NEW n \in 1 .. Capacity, SendLength(n) \/ SendPayload(n) \/ ReadLength(n)
        PROVE  UNCHANGED <<sent, delivered>>
    BY <2>4 DEF SendLength, SendPayload, ReadLength, sender, receiver
  <2>5. ASSUME NEW n \in 1 .. Capacity, ReadPayload(n)
        PROVE  UNCHANGED sent
    BY <2>5 DEF ReadPayload, sender
  <2>6. QED
    BY <2>1, <2>2, <2>3, <2>4, <2>5, OtherStepOK DEF Next, Write, Consume
<1>4. QED
  BY <1>1, <1>3, FramingCorrect, PTL DEF Spec, CarriesMessages, Box!SafeSpec
=============================================================================
