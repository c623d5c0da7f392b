------------------------------- MODULE Pickle -------------------------------
(***************************************************************************)
(* How the arguments of a call become the payload of a message and         *)
(* arguments again: Pickle (src/base/pickle.h, pickle.cpp), the ParamTraits *)
(* of the argument types and the message templates                         *)
(* (src/ipc/PIpcMessageUtils.h), and the calls the message macros make.    *)
(* One message makes its trip: written, sent, read, dispatched, and for a  *)
(* synchronous one the same for the reply.                                 *)
(*                                                                         *)
(* The two processes may have been built with other definitions of the     *)
(* message.  Capacity and position count bytes as in the code; everything  *)
(* in a payload begins at a multiple of 4, so its contents are words: a    *)
(* word holds part of an argument, or zeros.  An argument is known by its  *)
(* type, its size and its place among the arguments.                       *)
(***************************************************************************)
EXTENDS Integers, Sequences

CONSTANTS
  Definitions,  \* messages: the types of the arguments and of the reply
  MaxString     \* the longest string

Word == 4          \* sizeof(uint32_t)
HeaderBytes == 12  \* sizeof(PIpcMessage::Header)

\* How many arguments asynchronous messages take; the macros for them end with 7.
AsyncArities == 0 .. 8

\* How many arguments and results the macros for synchronous messages take.
SyncArities ==
  (0 .. 2) \X (0 .. 3) \cup {3} \X (0 .. 3) \cup {4} \X (0 .. 3) \cup {<<1, 4>>}

Scalars == {"bool", "char", "int16", "int32", "int64", "double"}
Types == Scalars \cup {"string"}

ASSUME PickleAssumption ==
  /\ MaxString \in Nat
  /\ \A d \in Definitions :
       /\ d.sync \in BOOLEAN /\ d.send \in Seq(Types) /\ d.reply \in Seq(Types)
       /\ IF d.sync THEN <<Len(d.send), Len(d.reply)>> \in SyncArities
          ELSE Len(d.send) \in AsyncArities /\ d.reply = <<>>

VARIABLES
  ours,    \* the definition of the process that calls
  theirs,  \* the definition of the process that is called
  stage,   \* where the message is
  reply,   \* it is the reply
  args,    \* the arguments that are written
  pickle,  \* the message's payload
  next,    \* how many arguments have been written or read
  got,     \* the arguments read, in the order of the tuple
  handled, \* the handler was called
  told     \* what the caller's sendSyncMessage returned

vars == <<ours, theirs, stage, reply, args, pickle, next, got, handled, told>>
-----------------------------------------------------------------------------
(***************************************************************************)
(* Lengths.                                                                *)
(***************************************************************************)
AlignInt(i, alignment) == i + ((alignment - (i % alignment)) % alignment)

\* sizeof the type.
SizeOf(type) ==
  CASE type = "char" -> 1
    [] type = "int16" -> 2
    [] type \in {"bool", "int32"} -> 4
    [] type \in {"int64", "double"} -> 8

\* Faulty variant: the length word of a string is not counted.
LengthOfText(v) ==
  CASE v.type \in {"bool", "char", "int16", "int32"} -> Word
    [] v.type = "int64" -> AlignInt(8, 8)
    [] v.type = "double" -> AlignInt(8, Word)
    [] v.type = "string" -> AlignInt(v.size, Word)

\* Pickle::lengthOf.
LengthOf(v) ==
  CASE v.type \in {"bool", "char", "int16", "int32"} -> Word
    [] v.type = "int64" -> AlignInt(8, 8)
    [] v.type = "double" -> AlignInt(8, Word)
    [] v.type = "string" -> Word + AlignInt(v.size, Word)

\* ParamTraits of a tuple: Length.
ParamLength(vs) ==
  LET sum[n \in 0 .. Len(vs)] == IF n = 0 THEN 0 ELSE sum[n - 1] + LengthOf(vs[n])
  IN  sum[Len(vs)]

\* What stands for no value, and for one that nobody has written.
Other(type) == [type |-> type, size |-> 0, nr |-> 0]

Zero == [of |-> Other("none"), part |-> 0]

\* The constructor, with the header at the front of the payload.
NewPickle(size) ==
  LET capacity == AlignInt(HeaderBytes + size, Word)
  IN  [capacity |-> capacity, position |-> AlignInt(HeaderBytes, Word),
       words |-> [w \in 0 .. capacity \div Word - 1 |-> Zero]]

HasRoomFor(p, len) == len >= 0 /\ p.position + AlignInt(len, Word) <= p.capacity

UpdateIter(p, bytes) == [p EXCEPT !.position = @ + AlignInt(bytes, Word)]
-----------------------------------------------------------------------------
(***************************************************************************)
(* Writing.                                                                *)
(***************************************************************************)
\* writeBytes of the part of v that begins at word part.  It does nothing if
\* there is no room; WriteParam does not look.
WriteBytes(p, v, part, len) ==
  IF p.position + len > p.capacity THEN p
  ELSE UpdateIter([p EXCEPT !.words = [w \in DOMAIN p.words |->
                     LET i == w - p.position \div Word
                     IN  IF i \in 0 .. AlignInt(len, Word) \div Word - 1
                         THEN [of |-> v, part |-> part + i] ELSE p.words[w]]], len)

\* The write functions.  A string is its length, and its bytes if that is written.
WriteParam(p, v) ==
  IF v.type # "string" THEN WriteBytes(p, v, 0, SizeOf(v.type))
  ELSE IF p.position + Word > p.capacity THEN p
  ELSE WriteBytes(WriteBytes(p, v, 0, Word), v, 1, v.size)
-----------------------------------------------------------------------------
(***************************************************************************)
(* Reading.  A read gives a set of results: one, or, where it takes for    *)
(* its own what something else has written, what those bytes may mean.     *)
(***************************************************************************)
Failure == [ok |-> FALSE]

\* The value of the type that lies in the len bytes behind the position, if they
\* are those of one.
ValueAt(p, type, len) ==
  LET at == p.position \div Word
      v == p.words[at].of
      good == v.type = type /\ \A i \in 0 .. AlignInt(len, Word) \div Word - 1 :
                                 p.words[at + i] = [of |-> v, part |-> i]
  IN  IF good THEN v ELSE Other(type)

\* The values that the length word of a string may have.
LengthsAt(p) ==
  LET word == p.words[p.position \div Word]
  IN  IF word = Zero THEN {0}
      ELSE IF word.of.type = "string" /\ word.part = 0 THEN {word.of.size}
      ELSE {-p.capacity, p.capacity} \cup 0 .. MaxString

ReadScalar(p, type) ==
  LET len == SizeOf(type)
  IN  IF ~HasRoomFor(p, len) THEN {Failure}
      ELSE {[ok |-> TRUE, value |-> ValueAt(p, type, len), pickle |-> UpdateIter(p, len)]}

\* Faulty variant: the length is not held against what is left.
ReadStringTrusting(p) ==
  IF ~HasRoomFor(p, Word) THEN {Failure}
  ELSE LET q == UpdateIter(p, Word)
       IN  {IF len < 0 THEN Failure
            ELSE [ok |-> TRUE, pickle |-> UpdateIter(q, len),
                  value |-> Other("string")] : len \in LengthsAt(p)}

ReadString(p) ==
  IF ~HasRoomFor(p, Word) THEN {Failure}
  ELSE LET q == UpdateIter(p, Word)
       IN  {IF ~HasRoomFor(q, len) THEN Failure
            ELSE [ok |-> TRUE, pickle |-> UpdateIter(q, len),
                  value |-> ValueAt(p, "string", Word + len)] : len \in LengthsAt(p)}

\* The read functions.
ReadParam(p, type) == IF type = "string" THEN ReadString(p) ELSE ReadScalar(p, type)

\* Faulty variant: a seventh argument is read before the sixth.
SeventhFirst(n) == IF n = 7 THEN <<1, 2, 3, 4, 5, 7, 6>> ELSE [i \in 1 .. n |-> i]

\* ParamTraits of a tuple of n: the order in which Read reads its fields.
ReadOrder(n) ==
  IF n = 8 THEN <<1, 2, 3, 4, 5, 6, 8, 7>> ELSE [i \in 1 .. n |-> i]
-----------------------------------------------------------------------------
Empty == NewPickle(0)

Init ==
  /\ ours \in Definitions /\ theirs \in {d \in Definitions : d.sync = ours.sync}
  /\ stage = "idle" /\ reply = FALSE
  /\ args = <<>> /\ pickle = Empty /\ next = 0 /\ got = <<>>
  /\ handled = FALSE /\ told = "nothing"

\* The arguments of the given types: strings are of any size.
Arguments(types) ==
  {[i \in DOMAIN types |->
     [type |-> types[i], nr |-> i,
      size |-> IF types[i] = "string" THEN sizes[i] ELSE SizeOf(types[i])]]
   : sizes \in [{i \in DOMAIN types : types[i] = "string"} -> 0 .. MaxString]}

\* The types the reader of the message expects.
Reads == IF reply THEN ours.reply ELSE theirs.send

\* The constructor of a message class makes a tuple of the arguments and a
\* message of its length.
Construct(values) ==
  /\ args' = values /\ pickle' = NewPickle(ParamLength(values))
  /\ next' = 0 /\ got' = <<>> /\ stage' = "writing"

Call ==
  /\ stage = "idle"
  /\ \E values \in Arguments(ours.send) : Construct(values)
  /\ UNCHANGED <<ours, theirs, reply, handled, told>>

\* WriteParam of the next field.
Write ==
  /\ stage = "writing" /\ next < Len(args)
  /\ pickle' = WriteParam(pickle, args[next + 1]) /\ next' = next + 1
  /\ UNCHANGED <<ours, theirs, stage, reply, args, got, handled, told>>

\* The payload is sent; the receiver reads it from behind the header.
Send ==
  /\ stage = "writing" /\ next = Len(args)
  /\ pickle' = [pickle EXCEPT !.position = AlignInt(HeaderBytes, Word)]
  /\ stage' = "reading" /\ next' = 0
  /\ got' = [i \in DOMAIN Reads |-> Other(Reads[i])]
  /\ UNCHANGED <<ours, theirs, reply, args, handled, told>>

\* ReadParam of the next field; the first failure ends the reading.  A caller
\* that has given up reads no results.
Read ==
  /\ stage = "reading" /\ next < Len(Reads)
  /\ reply => told = "nothing"
  /\ LET field == ReadOrder(Len(Reads))[next + 1]
     IN  \E result \in ReadParam(pickle, Reads[field]) :
           IF result.ok
           THEN /\ pickle' = result.pickle /\ next' = next + 1
                /\ got' = [got EXCEPT ![field] = result.value]
                /\ stage' = stage
           ELSE stage' = "unreadable" /\ UNCHANGED <<pickle, next, got>>
  /\ UNCHANGED <<ours, theirs, reply, args, handled, told>>

\* The whole tuple has been read.
Complete == stage = "reading" /\ next = Len(Reads)

\* DispatchToMethod without results: the handler is called with the fields.
DispatchToMethod == handled' = TRUE /\ stage' = "done"

\* Dispatch of an asynchronous message.
Dispatch ==
  /\ ~ours.sync /\ Complete /\ DispatchToMethod
  /\ UNCHANGED <<ours, theirs, reply, args, pickle, next, got, told>>

\* Dispatch that cannot read the message returns false.
Drop ==
  /\ ~ours.sync /\ stage = "unreadable" /\ stage' = "done"
  /\ UNCHANGED <<ours, theirs, reply, args, pickle, next, got, handled, told>>

\* DispatchToMethod with results: the handler fills each of them in.
DispatchForResults(results) == handled' = TRUE /\ results \in Arguments(theirs.reply)

\* Dispatch of a synchronous one: the handler fills the results in and the reply
\* is written.
Handle ==
  /\ ours.sync /\ ~reply /\ Complete
  /\ reply' = TRUE
  /\ \E results \in Arguments(theirs.reply) :
       DispatchForResults(results) /\ Construct(results)
  /\ UNCHANGED <<ours, theirs, told>>

\* The listener takes a synchronous message and gives no reply, to answer later:
\* the channel answers with an error at once.
PutOff ==
  /\ ours.sync /\ ~reply /\ Complete /\ DispatchToMethod
  /\ reply' = TRUE /\ told' = "false"
  /\ UNCHANGED <<ours, theirs, args, pickle, next, got>>

\* Faulty variant: the empty reply is not marked as an error.
RefuseSilently ==
  /\ ours.sync /\ ~reply /\ stage = "unreadable"
  /\ reply' = TRUE /\ stage' = "done" /\ told' = "true"
  /\ UNCHANGED <<ours, theirs, args, pickle, next, got, handled>>

\* Dispatch cannot read the message: the reply is marked as an error, and the
\* caller's sendSyncMessage returns false.
Refuse ==
  /\ ours.sync /\ ~reply /\ stage = "unreadable"
  /\ reply' = TRUE /\ stage' = "done" /\ told' = "false"
  /\ UNCHANGED <<ours, theirs, args, pickle, next, got, handled>>

\* The request is constructed and its caller has not begun to read the results.
InCall ==
  /\ ours.sync /\ told = "nothing"
  /\ \/ stage = "writing" /\ (reply \/ next = Len(args))
     \/ stage = "reading" /\ (reply => next = 0)
     \/ stage = "unreadable" /\ ~reply

\* sendSyncMessage returns false after its timeout or without a connection.  The
\* request may still be handled.
GiveUp ==
  /\ InCall /\ told' = "false"
  /\ UNCHANGED <<ours, theirs, stage, reply, args, pickle, next, got, handled>>

\* A reply that comes after that is deleted.
Ignore ==
  /\ ours.sync /\ reply /\ stage = "reading" /\ told = "false" /\ stage' = "done"
  /\ UNCHANGED <<ours, theirs, reply, args, pickle, next, got, handled, told>>

\* The caller has read the results, or could not read them all: its
\* sendSyncMessage returns true either way.
Return ==
  /\ ours.sync /\ reply /\ told = "nothing"
  /\ stage = "unreadable" \/ Complete
  /\ stage' = "done" /\ told' = "true"
  /\ UNCHANGED <<ours, theirs, reply, args, pickle, next, got, handled>>

Next ==
  \/ Call \/ Write \/ Send \/ Read
  \/ Dispatch \/ Drop \/ Handle \/ PutOff \/ Refuse
  \/ GiveUp \/ Ignore \/ Return

Spec == Init /\ [][Next]_vars
-----------------------------------------------------------------------------
\* What is yet to be written is exactly what is left: for every type the length
\* reserved is the one by which the writing moves on, so no write, whose failure
\* nobody would notice, is ever dropped.
Fits ==
  stage = "writing" =>
    pickle.position + ParamLength(SubSeq(args, next + 1, Len(args))) = pickle.capacity

\* No read goes beyond the payload, also not when the reader takes the message for
\* another one and finds anything where it expects a length.
InBounds ==
  /\ pickle.position <= pickle.capacity
  /\ pickle.position % Word = 0 /\ pickle.capacity % Word = 0

\* Between processes of one build every message is read, and what is read is what
\* was written: the handler gets the arguments of the call, and a caller that has
\* not given up the handler's results.
Faithful ==
  ours = theirs =>
    /\ stage # "unreadable"
    /\ Complete => got = args
    /\ stage = "done" /\ told # "false" => handled /\ got = args

\* The caller of a synchronous message is told true only if the handler was called,
\* also between processes of different builds.  False says nothing of the handler:
\* it may have been called, or be called yet, for a caller that gave up, and it was
\* called if it put the reply off.
TellsIfHandled == told = "true" => handled

\* "When reading values from a Pickle, it is important to read them in the order
\* in which they were added to the Pickle" (pickle.h): a tuple that has been read
\* is the tuple that was written.
ReadInOrder ==
  ours = theirs /\ Complete => got = args
=============================================================================
