---------------------------- MODULE PickleProofs ----------------------------
(***************************************************************************)
(* Theorems about Pickle, for any set of messages and any length of the    *)
(* strings in them.                                                        *)
(***************************************************************************)
EXTENDS Pickle, FiniteSets, FiniteSetTheorems, WellFoundedInduction, TLAPS

(***************************************************************************)
(* Induction over the natural numbers, from the least element of a set.    *)
(***************************************************************************)
LEMMA LeastNumber ==
  ASSUME NEW S \in SUBSET Nat, S # {}
  PROVE \E n \in S : \A m \in S : n <= m
<1> DEFINE T == {1 .. n : n \in S}
<1>1. T \subseteq FiniteSubsetsOf(Nat) /\ T # {}
  <2>1. \A n \in S : IsFiniteSet(1 .. n) /\ 1 .. n \subseteq Nat
    BY FS_Interval
  <2>2. QED
    BY <2>1 DEF FiniteSubsetsOf
<1>2. IsWellFoundedOn(StrictSubsetOrdering(Nat), FiniteSubsetsOf(Nat))
  BY FS_StrictSubsetOrderingWellFounded
<1> HIDE DEF T
<1>3. PICK x \in T : \A y \in T : ~ (<<y, x>> \in StrictSubsetOrdering(Nat))
  BY <1>1, <1>2, WFMin
<1>4. PICK n \in S : x = 1 .. n
  BY <1>3 DEF T
<1>5. ASSUME NEW m \in S, m < n PROVE FALSE
  <2>1. 1 .. m \in T /\ 1 .. m \subseteq 1 .. n /\ 1 .. m # 1 .. n
    BY <1>5 DEF T
  <2>2. 1 .. m \in SUBSET Nat /\ 1 .. n \in SUBSET Nat
    BY <1>5
  <2>3. QED
    BY <1>3, <1>4, <2>1, <2>2 DEF StrictSubsetOrdering
<1>6. QED
  BY <1>5

\* A set with 0 and the successor of each of its members has every number.
LEMMA Induction ==
  ASSUME NEW S, 0 \in S, \A n \in Nat : n \in S => n + 1 \in S
  PROVE  \A n \in Nat : n \in S
<1> SUFFICES ASSUME Nat \ S # {} PROVE FALSE
  OBVIOUS
<1>1. PICK n \in Nat \ S : \A m \in Nat \ S : n <= m
  BY LeastNumber
<1>2. n # 0 /\ n - 1 \in Nat /\ ~(n <= n - 1) /\ (n - 1) + 1 = n
  BY <1>1
<1>3. n - 1 \in S
  BY <1>1, <1>2
<1>4. QED
  BY <1>1, <1>2, <1>3
-----------------------------------------------------------------------------
(***************************************************************************)
(* Lengths.                                                                *)
(***************************************************************************)
\* The arguments a message may carry.
Values ==
  {v \in [type : Types, nr : Nat, size : Nat] :
     IF v.type = "string" THEN v.size \in 0 .. MaxString ELSE v.size = SizeOf(v.type)}

\* How many words len bytes take.
Blocks(len) == AlignInt(len, Word) \div Word

LEMMA AlignToWord ==
  ASSUME NEW len \in Nat
  PROVE  /\ Blocks(len) \in Nat
         /\ AlignInt(len, Word) = 4 * Blocks(len)
         /\ AlignInt(len, Word) >= len
<1>1. \A r \in Nat : r < 4 => (4 - r) % 4 = IF r = 0 THEN 0 ELSE 4 - r
  OBVIOUS
<1>2. PICK q \in Nat, r \in Nat : len = 4 * q + r /\ r < 4 /\ len % 4 = r
  OBVIOUS
<1>3. AlignInt(len, 4) = IF r = 0 THEN 4 * q ELSE 4 * (q + 1)
  BY <1>1, <1>2 DEF AlignInt
<1>4. QED
  BY <1>2, <1>3 DEF Blocks, Word

LEMMA AlignWhole ==
  ASSUME NEW n \in Nat
  PROVE  AlignInt(4 * n, Word) = 4 * n /\ Blocks(4 * n) = n
BY DEF AlignInt, Blocks, Word

LEMMA WholeWords ==
  ASSUME NEW n \in Nat, n % 4 = 0
  PROVE  n \div 4 \in Nat /\ n = 4 * (n \div 4)
OBVIOUS

LEMMA AlignBehindWord ==
  ASSUME NEW len \in Nat
  PROVE  /\ AlignInt(Word + len, Word) = Word + AlignInt(len, Word)
         /\ Blocks(Word + len) = 1 + Blocks(len)
<1>1. AlignInt(4 + len, 4) = 4 + AlignInt(len, 4)
  BY DEF AlignInt
<1>2. QED
  BY <1>1, AlignToWord DEF Blocks, Word

LEMMA ValueFields ==
  ASSUME NEW v \in Values
  PROVE  /\ v.type \in Types /\ v.nr \in Nat /\ v.size \in Nat
         /\ v.type # "string" => v.size = SizeOf(v.type)
         /\ v.type = "string" => v.size \in 0 .. MaxString
         /\ v.type # "none"
<1>1. v.type # "none"
  BY DEF Values, Types, Scalars
<1>2. QED
  BY <1>1 DEF Values

\* The length of an argument is that of the words its parts are written to.
LEMMA LengthOfValue ==
  ASSUME NEW v \in Values
  PROVE  /\ LengthOf(v) \in Nat
         /\ v.type # "string" => LengthOf(v) = AlignInt(SizeOf(v.type), Word)
         /\ v.type # "string" => SizeOf(v.type) \in Nat
         /\ v.type = "string" => LengthOf(v) = Word + AlignInt(v.size, Word)
         /\ LengthOf(v) = 4 * (LengthOf(v) \div 4)
<1>1. CASE v.type = "string"
  <2>1. LengthOf(v) = 4 + AlignInt(v.size, 4) /\ v.size \in Nat
    BY <1>1, ValueFields DEF LengthOf, Word
  <2>2. QED
    BY <1>1, <2>1, AlignToWord DEF Word
<1>2. CASE v.type # "string"
  <2>1. v.type \in Scalars
    BY <1>2, ValueFields DEF Types
  <2>2. /\ LengthOf(v) = IF v.type \in {"int64", "double"} THEN 8 ELSE 4
        /\ SizeOf(v.type) \in Nat
        /\ AlignInt(SizeOf(v.type), 4) =
             IF v.type \in {"int64", "double"} THEN 8 ELSE 4
    BY <2>1 DEF LengthOf, SizeOf, AlignInt, Scalars, Word
  <2>3. QED
    BY <1>2, <2>2 DEF Word
<1>3. QED
  BY <1>1, <1>2
-----------------------------------------------------------------------------
(***************************************************************************)
(* The length of a tuple.  Sums says what the recursive function of        *)
(* ParamLength is.                                                         *)
(***************************************************************************)
Sums(f, vs) ==
  f = [n \in 0 .. Len(vs) |-> IF n = 0 THEN 0 ELSE f[n - 1] + LengthOf(vs[n])]

LEMMA SumsExist == \A vs \in Seq(Values) : \E f : Sums(f, vs)
<1> DEFINE S == {n \in Nat : \A vs \in Seq(Values) : Len(vs) = n => \E f : Sums(f, vs)}
<1>1. 0 \in S
  <2> SUFFICES ASSUME NEW vs \in Seq(Values), Len(vs) = 0 PROVE \E f : Sums(f, vs)
    OBVIOUS
  <2> DEFINE f == [n \in 0 .. 0 |-> 0]
  <2>1. Sums(f, vs)
    BY DEF Sums
  <2>2. QED
    BY <2>1
<1>2. ASSUME NEW n \in Nat, n \in S PROVE n + 1 \in S
  <2> SUFFICES ASSUME NEW vs \in Seq(Values), Len(vs) = n + 1 PROVE \E f : Sums(f, vs)
    OBVIOUS
  <2> DEFINE us == SubSeq(vs, 1, n)
  <2>1. us \in Seq(Values) /\ Len(us) = n /\ \A i \in 1 .. n : us[i] = vs[i]
    OBVIOUS
  <2>2. PICK f : Sums(f, us)
    BY <1>2, <2>1
  <2> HIDE DEF us
  <2> DEFINE g == [i \in 0 .. Len(vs) |-> IF i <= n THEN f[i]
                                          ELSE f[n] + LengthOf(vs[i])]
  <2>3. \A i \in 0 .. n : f[i] = IF i = 0 THEN 0 ELSE f[i - 1] + LengthOf(vs[i])
    <3>1. \A i \in 0 .. n : f[i] = IF i = 0 THEN 0 ELSE f[i - 1] + LengthOf(us[i])
      BY <2>1, <2>2 DEF Sums
    <3>2. QED
      BY <2>1, <3>1
  <2>4. ASSUME NEW i \in 0 .. Len(vs)
        PROVE  g[i] = IF i = 0 THEN 0 ELSE g[i - 1] + LengthOf(vs[i])
    <3>1. CASE i <= n
      <4>1. i \in 0 .. n /\ (i # 0 => i - 1 \in 0 .. Len(vs) /\ i - 1 <= n)
        BY <3>1
      <4>2. g[i] = f[i] /\ (i # 0 => g[i - 1] = f[i - 1])
        BY <3>1, <4>1
      <4> HIDE DEF g
      <4>3. QED
        BY <2>3, <4>1, <4>2
    <3>2. CASE ~(i <= n)
      <4>1. i = n + 1 /\ i # 0 /\ i - 1 = n /\ n \in 0 .. Len(vs)
        BY <3>2
      <4>2. g[i] = f[n] + LengthOf(vs[i]) /\ g[n] = f[n]
        BY <3>2, <4>1
      <4> HIDE DEF g
      <4>3. QED
        BY <4>1, <4>2
    <3>3. QED
      BY <3>1, <3>2
  <2>5. DOMAIN g = 0 .. Len(vs) /\ g = [i \in DOMAIN g |-> g[i]]
    OBVIOUS
  <2> HIDE DEF g
  <2>6. Sums(g, vs)
    BY <2>4, <2>5 DEF Sums
  <2>7. QED
    BY <2>6
<1>3. \A n \in Nat : n \in S
  <2> HIDE DEF S
  <2>1. QED
    BY <1>1, <1>2, Induction
<1>4. QED
  BY <1>3

LEMMA ParamLengthIsSum ==
  ASSUME NEW vs \in Seq(Values)
  PROVE  \E f : Sums(f, vs) /\ ParamLength(vs) = f[Len(vs)]
<1> DEFINE f == CHOOSE f : Sums(f, vs)
<1>1. Sums(f, vs)
  BY SumsExist
<1>2. ParamLength(vs) = f[Len(vs)]
  BY DEF ParamLength, Sums
<1>3. QED
  BY <1>1, <1>2

\* A tuple takes whole words.
LEMMA LengthOfTuple ==
  ASSUME NEW vs \in Seq(Values)
  PROVE  ParamLength(vs) \in Nat /\ \E q \in Nat : ParamLength(vs) = 4 * q
<1>1. PICK f : Sums(f, vs) /\ ParamLength(vs) = f[Len(vs)]
  BY ParamLengthIsSum
<1> DEFINE S == {n \in Nat : n <= Len(vs) => \E q \in Nat : f[n] = 4 * q}
<1>2. 0 \in S
  <2>1. f[0] = 4 * 0
    BY <1>1 DEF Sums
  <2>2. QED
    BY <2>1
<1>3. ASSUME NEW n \in Nat, n \in S PROVE n + 1 \in S
  <2> SUFFICES ASSUME n + 1 <= Len(vs) PROVE \E q \in Nat : f[n + 1] = 4 * q
    OBVIOUS
  <2>1. f[n + 1] = f[n] + LengthOf(vs[n + 1])
    <3>1. n + 1 \in 0 .. Len(vs) /\ n + 1 # 0 /\ (n + 1) - 1 = n
      OBVIOUS
    <3>2. QED
      BY <1>1, <3>1 DEF Sums
  <2>2. PICK q \in Nat : f[n] = 4 * q
    BY <1>3
  <2>3. vs[n + 1] \in Values
    OBVIOUS
  <2>4. PICK r \in Nat : LengthOf(vs[n + 1]) = 4 * r
    BY <2>3, LengthOfValue
  <2>5. f[n + 1] = 4 * (q + r) /\ q + r \in Nat
    BY <2>1, <2>2, <2>4
  <2>6. QED
    BY <2>5
<1>4. \A n \in Nat : n \in S
  <2> HIDE DEF S
  <2>1. QED
    BY <1>2, <1>3, Induction
<1>5. PICK q \in Nat : f[Len(vs)] = 4 * q
  BY <1>4
<1>6. QED
  BY <1>1, <1>5

LEMMA LengthOfNone == ParamLength(<<>>) = 0
<1>1. <<>> \in Seq(Values) /\ Len(<<>>) = 0
  OBVIOUS
<1>2. PICK f : Sums(f, <<>>) /\ ParamLength(<<>>) = f[Len(<<>>)]
  BY <1>1, ParamLengthIsSum
<1>3. f[0] = 0
  BY <1>1, <1>2 DEF Sums
<1>4. QED
  BY <1>1, <1>2, <1>3

\* A tuple is as long as its first field and the others.
LEMMA LengthOfFirst ==
  ASSUME NEW vs \in Seq(Values), NEW us \in Seq(Values), Len(vs) = Len(us) + 1,
         \A i \in 1 .. Len(us) : us[i] = vs[i + 1]
  PROVE  ParamLength(vs) = LengthOf(vs[1]) + ParamLength(us)
<1>1. PICK f : Sums(f, vs) /\ ParamLength(vs) = f[Len(vs)]
  BY ParamLengthIsSum
<1>2. PICK g : Sums(g, us) /\ ParamLength(us) = g[Len(us)]
  BY ParamLengthIsSum
<1> DEFINE S == {n \in Nat : n <= Len(us) =>
                   g[n] \in Nat /\ f[n + 1] = LengthOf(vs[1]) + g[n]}
<1>3. LengthOf(vs[1]) \in Nat
  <2>1. vs[1] \in Values
    OBVIOUS
  <2>2. QED
    BY <2>1, LengthOfValue
<1>4. 0 \in S
  <2>1. g[0] = 0 /\ f[0] = 0
    BY <1>1, <1>2 DEF Sums
  <2>2. f[1] = f[0] + LengthOf(vs[1])
    <3>1. 1 \in 0 .. Len(vs) /\ 1 - 1 = 0
      OBVIOUS
    <3>2. QED
      BY <1>1, <3>1 DEF Sums
  <2>3. QED
    BY <1>3, <2>1, <2>2
<1>5. ASSUME NEW n \in Nat, n \in S PROVE n + 1 \in S
  <2> SUFFICES ASSUME n + 1 <= Len(us)
               PROVE  g[n + 1] \in Nat /\ f[n + 2] = LengthOf(vs[1]) + g[n + 1]
    OBVIOUS
  <2>1. g[n + 1] = g[n] + LengthOf(us[n + 1])
    <3>1. n + 1 \in 0 .. Len(us) /\ n + 1 # 0 /\ (n + 1) - 1 = n
      OBVIOUS
    <3>2. QED
      BY <1>2, <3>1 DEF Sums
  <2>2. f[n + 2] = f[n + 1] + LengthOf(vs[n + 2])
    <3>1. n + 2 \in 0 .. Len(vs) /\ n + 2 # 0 /\ (n + 2) - 1 = n + 1
      OBVIOUS
    <3>2. QED
      BY <1>1, <3>1 DEF Sums
  <2>3. us[n + 1] = vs[n + 2] /\ us[n + 1] \in Values
    <3>1. n + 1 \in 1 .. Len(us) /\ (n + 1) + 1 = n + 2
      OBVIOUS
    <3>2. QED
      BY <3>1
  <2>4. LengthOf(us[n + 1]) \in Nat
    BY <2>3, LengthOfValue
  <2>5. g[n] \in Nat /\ f[n + 1] = LengthOf(vs[1]) + g[n]
    BY <1>5
  <2>6. QED
    BY <1>3, <2>1, <2>2, <2>3, <2>4, <2>5
<1>6. \A n \in Nat : n \in S
  <2> HIDE DEF S
  <2>1. QED
    BY <1>4, <1>5, Induction
<1>7. f[Len(us) + 1] = LengthOf(vs[1]) + g[Len(us)]
  BY <1>6
<1>8. QED
  BY <1>1, <1>2, <1>7

\* What is left of a tuple from its field n on.
Rest(vs, n) == SubSeq(vs, n, Len(vs))

LEMMA LengthOfRest ==
  ASSUME NEW vs \in Seq(Values)
  PROVE  /\ ParamLength(Rest(vs, 1)) = ParamLength(vs)
         /\ ParamLength(Rest(vs, Len(vs) + 1)) = 0
         /\ \A n \in 1 .. Len(vs) + 1 : ParamLength(Rest(vs, n)) \in Nat
         /\ \A n \in 1 .. Len(vs) :
              ParamLength(Rest(vs, n)) = LengthOf(vs[n]) + ParamLength(Rest(vs, n + 1))
<1>1. Rest(vs, 1) = vs /\ Rest(vs, Len(vs) + 1) = <<>>
  BY DEF Rest
<1>2. ASSUME NEW n \in 1 .. Len(vs) + 1
      PROVE  /\ Rest(vs, n) \in Seq(Values) /\ Len(Rest(vs, n)) = Len(vs) - n + 1
             /\ \A i \in 1 .. Len(vs) - n + 1 : Rest(vs, n)[i] = vs[n + i - 1]
  BY DEF Rest
<1>3. ASSUME NEW n \in 1 .. Len(vs)
      PROVE  ParamLength(Rest(vs, n)) = LengthOf(vs[n]) + ParamLength(Rest(vs, n + 1))
  <2> DEFINE us == Rest(vs, n)
             ws == Rest(vs, n + 1)
  <2>1. n \in 1 .. Len(vs) + 1 /\ n + 1 \in 1 .. Len(vs) + 1
    OBVIOUS
  <2>2. /\ us \in Seq(Values) /\ Len(us) = Len(vs) - n + 1
        /\ \A i \in 1 .. Len(vs) - n + 1 : us[i] = vs[n + i - 1]
    BY <1>2, <2>1
  <2>3. /\ ws \in Seq(Values) /\ Len(ws) = Len(vs) - (n + 1) + 1
        /\ \A i \in 1 .. Len(vs) - (n + 1) + 1 : ws[i] = vs[(n + 1) + i - 1]
    BY <1>2, <2>1
  <2> HIDE DEF us, ws
  <2>4. Len(us) = Len(ws) + 1 /\ us[1] = vs[n]
    BY <2>2, <2>3
  <2>5. ASSUME NEW i \in 1 .. Len(ws) PROVE ws[i] = us[i + 1]
    <3>1. i \in 1 .. Len(vs) - (n + 1) + 1 /\ i + 1 \in 1 .. Len(vs) - n + 1
          /\ (n + 1) + i - 1 = n + (i + 1) - 1
      BY <2>3
    <3>2. QED
      BY <2>2, <2>3, <3>1
  <2>6. ParamLength(us) = LengthOf(us[1]) + ParamLength(ws)
    BY <2>2, <2>3, <2>4, <2>5, LengthOfFirst
  <2>7. QED
    BY <2>4, <2>6 DEF us, ws
<1>4. \A n \in 1 .. Len(vs) + 1 : ParamLength(Rest(vs, n)) \in Nat
  BY <1>2, LengthOfTuple
<1>5. QED
  BY <1>1, <1>3, <1>4, LengthOfNone
-----------------------------------------------------------------------------
(***************************************************************************)
(* Writing.                                                                *)
(***************************************************************************)
\* What a word of a payload holds.
Cells == {Zero} \cup [of : Values, part : Nat]

\* A payload is of whole words, and its position is at one of them or at the end.
PickleOK(p) ==
  /\ p = [capacity |-> p.capacity, position |-> p.position, words |-> p.words]
  /\ p.capacity \in Nat /\ p.position \in Nat /\ p.position <= p.capacity
  /\ p.capacity % Word = 0 /\ p.position % Word = 0
  /\ p.words \in [0 .. p.capacity \div Word - 1 -> Cells]

\* p after len more bytes: nothing below its position has changed.
Advanced(q, p, len) ==
  /\ q.capacity = p.capacity /\ q.position = p.position + len
  /\ \A w \in 0 .. p.position \div Word - 1 : q.words[w] = p.words[w]

\* n parts of v, from the given one on, lie behind the position of p.
Holds(q, p, v, part, n) ==
  \A i \in 0 .. n - 1 :
    q.words[p.position \div Word + i] = [of |-> v, part |-> part + i]

LEMMA NewPickleOK ==
  ASSUME NEW vs \in Seq(Values)
  PROVE  LET p == NewPickle(ParamLength(vs))
         IN  PickleOK(p) /\ p.position = 12 /\ p.capacity = 12 + ParamLength(vs)
<1> DEFINE p == NewPickle(ParamLength(vs))
<1>1. PICK q \in Nat : ParamLength(vs) = 4 * q
  BY LengthOfTuple
<1>2. 12 + 4 * q = 4 * (3 + q) /\ 12 = 4 * 3
  OBVIOUS
<1>3. AlignInt(12 + 4 * q, Word) = 12 + 4 * q /\ AlignInt(12, Word) = 12
  BY <1>2, AlignWhole, 3 + q \in Nat
<1>4. /\ p = [capacity |-> p.capacity, position |-> p.position, words |-> p.words]
      /\ p.capacity = 12 + 4 * q /\ p.position = 12
      /\ p.words = [w \in 0 .. p.capacity \div Word - 1 |-> Zero]
  BY <1>1, <1>3 DEF NewPickle, HeaderBytes
<1> HIDE DEF p
<1>5. p.capacity % 4 = 0 /\ p.position % 4 = 0 /\ p.position <= p.capacity
  BY <1>4
<1>6. p.words \in [0 .. p.capacity \div Word - 1 -> Cells]
  BY <1>4 DEF Cells
<1>7. PickleOK(p)
  BY <1>4, <1>5, <1>6 DEF PickleOK, Word
<1>8. QED
  BY <1>1, <1>4, <1>7 DEF p

LEMMA WriteBytesOK ==
  ASSUME NEW p, PickleOK(p), NEW v \in Values, NEW part \in Nat, NEW len \in Nat
  PROVE  LET q == WriteBytes(p, v, part, len)
         IN  /\ PickleOK(q)
             /\ p.position + len <= p.capacity =>
                  /\ Advanced(q, p, AlignInt(len, Word))
                  /\ Holds(q, p, v, part, Blocks(len))
<1> DEFINE q == WriteBytes(p, v, part, len)
<1>1. CASE p.position + len > p.capacity
  <2>1. q = p
    BY <1>1 DEF WriteBytes
  <2>2. ~(p.position + len <= p.capacity)
    BY <1>1 DEF PickleOK
  <2>3. QED
    BY <2>1, <2>2
<1>2. CASE ~(p.position + len > p.capacity)
  <2> DEFINE at == p.position \div 4
             n == p.capacity \div 4
             new == [w \in DOMAIN p.words |->
                      IF w - at \in 0 .. Blocks(len) - 1
                      THEN [of |-> v, part |-> part + (w - at)] ELSE p.words[w]]
  <2>1. /\ p.capacity \in Nat /\ p.position \in Nat /\ p.position + len <= p.capacity
        /\ p.capacity % 4 = 0 /\ p.position % 4 = 0
        /\ p.words \in [0 .. n - 1 -> Cells]
        /\ p = [capacity |-> p.capacity, position |-> p.position, words |-> p.words]
    BY <1>2 DEF PickleOK, Word
  <2>2. at \in Nat /\ n \in Nat /\ p.position = 4 * at /\ p.capacity = 4 * n
    BY <2>1, WholeWords
  <2>3. Blocks(len) \in Nat /\ AlignInt(len, Word) = 4 * Blocks(len)
        /\ 4 * Blocks(len) < len + 4
    <3>1. AlignInt(len, 4) < len + 4
      BY DEF AlignInt
    <3>2. QED
      BY <3>1, AlignToWord DEF Word
  <2>4. at + Blocks(len) <= n
    <3>1. \A a, b, c, l \in Nat :
            4 * a + l <= 4 * c /\ 4 * b < l + 4 => a + b <= c
      OBVIOUS
    <3> HIDE DEF at, n
    <3>2. QED
      BY <2>1, <2>2, <2>3, <3>1
  <2>5. q = [capacity |-> p.capacity, position |-> p.position + AlignInt(len, Word),
             words |-> new]
    BY <1>2, <2>1 DEF WriteBytes, UpdateIter, Blocks, Word
  <2>6. new \in [0 .. n - 1 -> Cells]
    <3> SUFFICES ASSUME NEW w \in 0 .. n - 1
                 PROVE  (IF w - at \in 0 .. Blocks(len) - 1
                         THEN [of |-> v, part |-> part + (w - at)] ELSE p.words[w])
                        \in Cells
      BY <2>1
    <3>1. p.words[w] \in Cells
      BY <2>1
    <3>2. w - at \in 0 .. Blocks(len) - 1 => part + (w - at) \in Nat
      BY <2>2, <2>3
    <3>3. QED
      BY <3>1, <3>2 DEF Cells
  <2>7. \A w \in 0 .. at - 1 : new[w] = p.words[w]
    <3> SUFFICES ASSUME NEW w \in 0 .. at - 1 PROVE new[w] = p.words[w]
      OBVIOUS
    <3>1. w \in 0 .. n - 1 /\ ~(w - at \in 0 .. Blocks(len) - 1)
      BY <2>2, <2>3, <2>4
    <3>2. QED
      BY <2>1, <3>1
  <2>8. \A i \in 0 .. Blocks(len) - 1 : new[at + i] = [of |-> v, part |-> part + i]
    <3> SUFFICES ASSUME NEW i \in 0 .. Blocks(len) - 1
                 PROVE  new[at + i] = [of |-> v, part |-> part + i]
      OBVIOUS
    <3>1. at + i \in 0 .. n - 1 /\ (at + i) - at = i
      BY <2>2, <2>3, <2>4
    <3>2. QED
      BY <2>1, <3>1
  <2> HIDE DEF new, at, n
  <2>9. /\ q.capacity = p.capacity /\ q.position = p.position + 4 * Blocks(len)
        /\ q.words = new
        /\ q = [capacity |-> q.capacity, position |-> q.position, words |-> q.words]
    BY <2>3, <2>5
  <2> HIDE DEF q
  <2>10. /\ q.position \in Nat /\ q.position <= q.capacity /\ q.position % 4 = 0
    BY <2>1, <2>2, <2>3, <2>4, <2>9, SMTT(30)
  <2>11. PickleOK(q)
    BY <2>1, <2>6, <2>9, <2>10 DEF PickleOK, Word, n
  <2>12. Advanced(q, p, AlignInt(len, Word))
    BY <2>3, <2>7, <2>9 DEF Advanced, Word, at
  <2>13. Holds(q, p, v, part, Blocks(len))
    BY <2>8, <2>9 DEF Holds, Word, at
  <2>14. QED
    BY <2>11, <2>12, <2>13 DEF q
<1>3. QED
  BY <1>1, <1>2
\* An argument that fits is stored behind the position.
LEMMA WriteParamOK ==
  ASSUME NEW p, PickleOK(p), NEW v \in Values
  PROVE  LET q == WriteParam(p, v)
         IN  /\ PickleOK(q)
             /\ p.position + LengthOf(v) <= p.capacity =>
                  /\ Advanced(q, p, LengthOf(v))
                  /\ Holds(q, p, v, 0, LengthOf(v) \div Word)
<1> DEFINE q == WriteParam(p, v)
<1>1. p.capacity \in Nat /\ p.position \in Nat /\ p.position % 4 = 0
  BY DEF PickleOK, Word
<1>2. CASE v.type # "string"
  <2> DEFINE len == SizeOf(v.type)
  <2>1. len \in Nat /\ LengthOf(v) = AlignInt(len, Word)
    BY <1>2, LengthOfValue
  <2>2. q = WriteBytes(p, v, 0, len)
    BY <1>2 DEF WriteParam
  <2> HIDE DEF len, q
  <2>3. /\ PickleOK(q)
        /\ p.position + len <= p.capacity =>
             Advanced(q, p, AlignInt(len, Word)) /\ Holds(q, p, v, 0, Blocks(len))
    BY <2>1, <2>2, WriteBytesOK
  <2>4. AlignInt(len, Word) >= len /\ AlignInt(len, Word) \in Nat
        /\ AlignInt(len, Word) \div Word = Blocks(len)
    BY <2>1, AlignToWord DEF Blocks
  <2>5. p.position + LengthOf(v) <= p.capacity => p.position + len <= p.capacity
    BY <1>1, <2>1, <2>4
  <2>6. QED
    BY <2>1, <2>3, <2>4, <2>5 DEF q
<1>3. CASE v.type = "string"
  <2> DEFINE r == WriteBytes(p, v, 0, Word)
             a == AlignInt(v.size, Word)
             b == Blocks(v.size)
  <2>1. /\ v.size \in Nat /\ b \in Nat /\ a = 4 * b /\ a >= v.size
        /\ LengthOf(v) = 4 + a /\ LengthOf(v) \div 4 = 1 + b
    <3>1. v.size \in Nat /\ LengthOf(v) = 4 + a
      BY <1>3, ValueFields, LengthOfValue DEF Word
    <3>2. b \in Nat /\ a = 4 * b /\ a >= v.size
      BY <3>1, AlignToWord
    <3> HIDE DEF a, b
    <3>3. QED
      BY <3>1, <3>2
  <2>2. AlignInt(4, Word) = 4 /\ Blocks(4) = 1
    BY AlignWhole, 4 * 1 = 4
  <2>3. /\ PickleOK(r)
        /\ p.position + 4 <= p.capacity => Advanced(r, p, 4) /\ Holds(r, p, v, 0, 1)
    BY <2>2, WriteBytesOK DEF Word
  <2>4. q = IF p.position + 4 > p.capacity THEN p ELSE WriteBytes(r, v, 1, v.size)
    BY <1>3 DEF WriteParam, Word
  <2> HIDE DEF r, a, b, q
  <2>5. /\ PickleOK(WriteBytes(r, v, 1, v.size))
        /\ r.position + v.size <= r.capacity =>
             /\ Advanced(WriteBytes(r, v, 1, v.size), r, a)
             /\ Holds(WriteBytes(r, v, 1, v.size), r, v, 1, b)
    BY <2>1, <2>3, WriteBytesOK DEF a, b
  <2>6. PickleOK(q)
    BY <2>4, <2>5
  <2>7. ASSUME p.position + LengthOf(v) <= p.capacity
        PROVE  Advanced(q, p, LengthOf(v)) /\ Holds(q, p, v, 0, LengthOf(v) \div Word)
    <3> DEFINE at == p.position \div 4
    <3>1. p.position + 4 <= p.capacity /\ ~(p.position + 4 > p.capacity)
      BY <1>1, <2>1, <2>7
    <3>2. /\ r.capacity = p.capacity /\ r.position = p.position + 4
          /\ \A w \in 0 .. at - 1 : r.words[w] = p.words[w]
          /\ \A i \in 0 .. 0 : r.words[at + i] = [of |-> v, part |-> 0 + i]
      BY <2>3, <3>1 DEF Advanced, Holds, Word
    <3>3. r.position + v.size <= r.capacity
      BY <1>1, <2>1, <2>7, <3>2
    <3>4. at \in Nat /\ r.position \div 4 = at + 1
      BY <1>1, <3>2
    <3>5. /\ q.capacity = r.capacity /\ q.position = r.position + a
          /\ \A w \in 0 .. at : q.words[w] = r.words[w]
          /\ \A i \in 0 .. b - 1 : q.words[at + 1 + i] = [of |-> v, part |-> 1 + i]
      <4>1. (at + 1) - 1 = at
        BY <3>4
      <4>2. q = WriteBytes(r, v, 1, v.size)
        BY <2>4, <3>1
      <4>3. Advanced(q, r, a) /\ Holds(q, r, v, 1, b)
        BY <2>5, <3>3, <4>2
      <4> HIDE DEF at
      <4>4. QED
        BY <3>4, <4>1, <4>3 DEF Advanced, Holds, Word
    <3> HIDE DEF at
    <3>6. Advanced(q, p, LengthOf(v))
      <4>1. q.capacity = p.capacity /\ q.position = p.position + LengthOf(v)
        BY <1>1, <2>1, <3>2, <3>5
      <4>2. \A w \in 0 .. at - 1 : q.words[w] = p.words[w]
        BY <3>2, <3>4, <3>5
      <4>3. QED
        BY <4>1, <4>2 DEF Advanced, Word, at
    <3>7. ASSUME NEW i \in 0 .. b
          PROVE  q.words[at + i] = [of |-> v, part |-> i]
      <4>1. CASE i = 0
        <5>1. at + i = at /\ at + 0 = at /\ at \in 0 .. at /\ 0 + 0 = 0
          BY <3>4, <4>1
        <5>2. r.words[at] = [of |-> v, part |-> 0]
          BY <3>2, <5>1
        <5>3. QED
          BY <3>5, <4>1, <5>1, <5>2
      <4>2. CASE i # 0
        <5>1. i - 1 \in 0 .. b - 1 /\ at + 1 + (i - 1) = at + i /\ 1 + (i - 1) = i
          BY <2>1, <3>4, <4>2
        <5>2. q.words[at + 1 + (i - 1)] = [of |-> v, part |-> 1 + (i - 1)]
          BY <3>5, <5>1
        <5>3. QED
          BY <5>1, <5>2
      <4>3. QED
        BY <4>1, <4>2
    <3>8. (1 + b) - 1 = b /\ \A i \in 0 .. b : 0 + i = i
      BY <2>1
    <3>9. Holds(q, p, v, 0, LengthOf(v) \div Word)
      BY <2>1, <3>7, <3>8 DEF Holds, Word, at
    <3>10. QED
      BY <3>6, <3>9
  <2>8. QED
    BY <2>6, <2>7 DEF q
<1>4. QED
  BY <1>2, <1>3
-----------------------------------------------------------------------------
(***************************************************************************)
(* Reading.                                                                *)
(***************************************************************************)
LEMMA UpdateIterOK ==
  ASSUME NEW p, PickleOK(p), NEW len \in Nat, HasRoomFor(p, len)
  PROVE  LET q == UpdateIter(p, len)
         IN  /\ PickleOK(q) /\ q.capacity = p.capacity /\ q.words = p.words
             /\ q.position = p.position + AlignInt(len, Word)
<1> DEFINE q == UpdateIter(p, len)
<1>1. /\ p.capacity \in Nat /\ p.position \in Nat
      /\ p.capacity % 4 = 0 /\ p.position % 4 = 0
      /\ p.words \in [0 .. p.capacity \div Word - 1 -> Cells]
      /\ p = [capacity |-> p.capacity, position |-> p.position, words |-> p.words]
  BY DEF PickleOK, Word
<1>2. p.position + AlignInt(len, Word) <= p.capacity
  BY DEF HasRoomFor
<1>3. q = [capacity |-> p.capacity, position |-> p.position + AlignInt(len, Word),
           words |-> p.words]
  BY <1>1 DEF UpdateIter
<1> HIDE DEF q
<1>4. Blocks(len) \in Nat /\ AlignInt(len, Word) = 4 * Blocks(len)
  BY AlignToWord
<1>5. /\ q.capacity = p.capacity /\ q.words = p.words
      /\ q.position = p.position + 4 * Blocks(len)
      /\ q = [capacity |-> q.capacity, position |-> q.position, words |-> q.words]
  BY <1>3, <1>4
<1>6. q.position \in Nat /\ q.position % 4 = 0 /\ q.position <= q.capacity
  BY <1>1, <1>2, <1>4, <1>5
<1>7. PickleOK(q)
  BY <1>1, <1>5, <1>6 DEF PickleOK, Word
<1>8. QED
  BY <1>3, <1>7 DEF q

\* The word at the position, if there is one.
LEMMA WordAtPosition ==
  ASSUME NEW p, PickleOK(p), HasRoomFor(p, Word)
  PROVE  p.words[p.position \div Word] \in Cells
<1>1. /\ p.capacity \in Nat /\ p.position \in Nat
      /\ p.capacity % 4 = 0 /\ p.position % 4 = 0
      /\ p.words \in [0 .. p.capacity \div 4 - 1 -> Cells]
  BY DEF PickleOK, Word
<1>2. AlignInt(4, Word) = 4
  BY AlignWhole, 4 * 1 = 4
<1>3. p.position + 4 <= p.capacity
  BY <1>2 DEF HasRoomFor, Word
<1>4. p.position \div 4 \in 0 .. p.capacity \div 4 - 1
  BY <1>1, <1>3
<1>5. QED
  BY <1>1, <1>4 DEF Word

\* Whatever is taken for the length of a string is a number.
LEMMA LengthsAreNumbers ==
  ASSUME NEW p, PickleOK(p), HasRoomFor(p, Word), NEW len \in LengthsAt(p)
  PROVE  len \in Int
<1> DEFINE word == p.words[p.position \div Word]
<1>1. word \in Cells
  BY WordAtPosition
<1>2. p.capacity \in Int /\ 0 .. MaxString \subseteq Int
  BY PickleAssumption DEF PickleOK
<1> HIDE DEF word
<1>3. len \in IF word = Zero THEN {0}
              ELSE IF word.of.type = "string" /\ word.part = 0 THEN {word.of.size}
              ELSE {-p.capacity, p.capacity} \cup 0 .. MaxString
  BY DEF LengthsAt, word
<1>4. word # Zero => word.of \in Values
  BY <1>1 DEF Cells
<1>5. word # Zero => word.of.size \in Int
  BY <1>4, ValueFields
<1>6. QED
  BY <1>2, <1>3, <1>5

\* A read fails or leaves the position within the payload.
LEMMA ReadParamOK ==
  ASSUME NEW p, PickleOK(p), NEW type \in Types, NEW r \in ReadParam(p, type), r.ok
  PROVE  /\ PickleOK(r.pickle) /\ r.pickle.capacity = p.capacity
         /\ r.pickle.words = p.words
<1>1. r # Failure
  BY DEF Failure
<1>2. CASE type = "string"
  <2>1. r \in ReadString(p) /\ HasRoomFor(p, Word)
    BY <1>1, <1>2 DEF ReadParam, ReadString
  <2> DEFINE q == UpdateIter(p, Word)
  <2>2. PickleOK(q) /\ q.capacity = p.capacity /\ q.words = p.words
    BY <2>1, UpdateIterOK DEF Word
  <2> HIDE DEF q
  <2>3. PICK len \in LengthsAt(p) :
          r = IF ~HasRoomFor(q, len) THEN Failure
              ELSE [ok |-> TRUE, pickle |-> UpdateIter(q, len),
                    value |-> ValueAt(p, "string", Word + len)]
    BY <2>1 DEF ReadString, q
  <2>4. HasRoomFor(q, len) /\ r.pickle = UpdateIter(q, len)
    BY <1>1, <2>3
  <2>5. len \in Int
    BY <2>1, LengthsAreNumbers
  <2>6. len \in Nat
    BY <2>4, <2>5 DEF HasRoomFor
  <2>7. QED
    BY <2>2, <2>4, <2>6, UpdateIterOK
<1>3. CASE type # "string"
  <2>1. r \in ReadScalar(p, type)
    BY <1>3 DEF ReadParam
  <2>2. HasRoomFor(p, SizeOf(type)) /\ r.pickle = UpdateIter(p, SizeOf(type))
    BY <1>1, <2>1 DEF ReadScalar
  <2>3. SizeOf(type) \in Nat
    <3>1. type \in Scalars
      BY <1>3 DEF Types
    <3>2. QED
      BY <3>1 DEF Scalars, SizeOf
  <2>4. QED
    BY <2>2, <2>3, UpdateIterOK
<1>4. QED
  BY <1>2, <1>3

\* An argument that lies at the position is read back, and nothing else.
LEMMA ReadBack ==
  ASSUME NEW p, PickleOK(p), NEW v \in Values, Holds(p, p, v, 0, LengthOf(v) \div Word),
         p.position + LengthOf(v) <= p.capacity, NEW r \in ReadParam(p, v.type)
  PROVE  /\ r.ok /\ r.value = v /\ PickleOK(r.pickle)
         /\ r.pickle.capacity = p.capacity /\ r.pickle.words = p.words
         /\ r.pickle.position = p.position + LengthOf(v)
<1> DEFINE at == p.position \div Word
<1>1. p.capacity \in Nat /\ p.position \in Nat
  BY DEF PickleOK
<1>2. \A i \in 0 .. LengthOf(v) \div Word - 1 :
        p.words[at + i] = [of |-> v, part |-> 0 + i]
  BY DEF Holds
<1>3. at \in Nat
  BY <1>1 DEF Word
<1> HIDE DEF at
<1>4. CASE v.type # "string"
  <2> DEFINE len == SizeOf(v.type)
  <2>1. len \in Nat /\ LengthOf(v) = AlignInt(len, Word)
    BY <1>4, LengthOfValue
  <2>2. HasRoomFor(p, len)
    BY <2>1 DEF HasRoomFor
  <2>3. Blocks(len) = LengthOf(v) \div Word /\ Blocks(len) \in Nat /\ Blocks(len) >= 1
    <3>1. v.type \in Scalars
      BY <1>4, ValueFields DEF Types
    <3>2. len > 0
      BY <3>1 DEF Scalars, SizeOf
    <3>3. Blocks(len) = LengthOf(v) \div Word
      BY <2>1 DEF Blocks
    <3> HIDE DEF len
    <3>4. Blocks(len) \in Nat /\ 4 * Blocks(len) >= len
      BY <2>1, AlignToWord
    <3>5. QED
      BY <2>1, <3>2, <3>3, <3>4
  <2>4. ValueAt(p, v.type, len) = v
    <3>1. p.words[at] = [of |-> v, part |-> 0]
      <4>1. 0 \in 0 .. LengthOf(v) \div Word - 1 /\ at + 0 = at /\ 0 + 0 = 0
        BY <1>3, <2>3
      <4>2. QED
        BY <1>2, <4>1
    <3>2. \A i \in 0 .. Blocks(len) - 1 : p.words[at + i] = [of |-> v, part |-> i]
      BY <1>2, <2>3
    <3> HIDE DEF len
    <3>3. QED
      BY <3>1, <3>2 DEF ValueAt, Blocks, at
  <2>5. r = [ok |-> TRUE, value |-> v, pickle |-> UpdateIter(p, len)]
    BY <1>4, <2>2, <2>4 DEF ReadParam, ReadScalar
  <2> HIDE DEF len
  <2>6. /\ PickleOK(UpdateIter(p, len)) /\ UpdateIter(p, len).capacity = p.capacity
        /\ UpdateIter(p, len).words = p.words
        /\ UpdateIter(p, len).position = p.position + AlignInt(len, Word)
    BY <2>1, <2>2, UpdateIterOK
  <2>7. QED
    BY <2>1, <2>5, <2>6
<1>5. CASE v.type = "string"
  <2> DEFINE len == v.size
             q == UpdateIter(p, Word)
  <2>1. len \in Nat /\ LengthOf(v) = Word + AlignInt(len, Word)
    BY <1>5, ValueFields, LengthOfValue
  <2> HIDE DEF len
  <2>2. Blocks(len) \in Nat /\ AlignInt(len, Word) = 4 * Blocks(len)
        /\ LengthOf(v) \div Word = 1 + Blocks(len)
    <3>1. Blocks(len) \in Nat /\ AlignInt(len, Word) = 4 * Blocks(len)
      BY <2>1, AlignToWord
    <3>2. QED
      BY <2>1, <3>1 DEF Word
  <2>3. AlignInt(Word, Word) = Word
    BY AlignWhole, 4 * 1 = 4 DEF Word
  <2>4. HasRoomFor(p, Word)
    BY <1>1, <2>1, <2>2, <2>3 DEF HasRoomFor, Word
  <2>5. /\ PickleOK(q) /\ q.capacity = p.capacity /\ q.words = p.words
        /\ q.position = p.position + Word
    BY <2>3, <2>4, UpdateIterOK DEF Word
  <2> HIDE DEF q
  <2>6. HasRoomFor(q, len)
    BY <1>1, <2>1, <2>2, <2>5 DEF HasRoomFor, Word
  <2>7. p.words[at] = [of |-> v, part |-> 0]
    <3>1. 0 \in 0 .. LengthOf(v) \div Word - 1 /\ at + 0 = at /\ 0 + 0 = 0
      BY <1>3, <2>2
    <3>2. QED
      BY <1>2, <3>1
  <2>8. LengthsAt(p) = {len}
    <3>1. p.words[at].of = v /\ p.words[at].part = 0
      BY <2>7
    <3>2. Zero.of.type = "none" /\ v.type # "none"
      BY <1>5 DEF Zero, Other
    <3>3. p.words[at] # Zero
      BY <3>1, <3>2
    <3>4. QED
      BY <1>5, <3>1, <3>3 DEF LengthsAt, at, len
  <2>9. ValueAt(p, "string", Word + len) = v
    <3>1. AlignInt(Word + len, Word) \div Word = 1 + Blocks(len)
      BY <2>1, AlignBehindWord DEF Blocks
    <3>2. \A i \in 0 .. (1 + Blocks(len)) - 1 : p.words[at + i] = [of |-> v, part |-> i]
      BY <1>2, <2>2
    <3>3. QED
      BY <1>5, <2>7, <3>1, <3>2 DEF ValueAt, at
  <2>10. r = [ok |-> TRUE, pickle |-> UpdateIter(q, len), value |-> v]
    BY <1>5, <2>4, <2>6, <2>8, <2>9 DEF ReadParam, ReadString, q
  <2>11. /\ PickleOK(UpdateIter(q, len)) /\ UpdateIter(q, len).capacity = q.capacity
         /\ UpdateIter(q, len).words = q.words
         /\ UpdateIter(q, len).position = q.position + AlignInt(len, Word)
    BY <2>1, <2>5, <2>6, UpdateIterOK
  <2>12. r.pickle.position = p.position + LengthOf(v)
    BY <1>1, <2>1, <2>2, <2>5, <2>10, <2>11 DEF Word
  <2>13. QED
    BY <2>5, <2>10, <2>11, <2>12
<1>6. QED
  BY <1>4, <1>5
-----------------------------------------------------------------------------
(***************************************************************************)
(* The inductive invariant.                                                *)
(***************************************************************************)
Underway == stage \in {"writing", "reading", "unreadable"}

\* The types of the arguments that are on their way.
Sent == IF reply THEN theirs.reply ELSE ours.send

TypesOK ==
  /\ ours \in Definitions /\ theirs \in Definitions /\ theirs.sync = ours.sync
  /\ stage \in {"idle", "writing", "reading", "unreadable", "done"}
  /\ reply \in BOOLEAN /\ handled \in BOOLEAN
  /\ told \in {"nothing", "true", "false"} /\ (~ours.sync => told = "nothing")
  /\ ~ours.sync \/ stage = "idle" => ~reply
  /\ next \in Nat
  /\ PickleOK(pickle)
  /\ Underway => args \in Arguments(Sent)

\* Where argument n begins; behind the last one, the end of the payload.
Offset(n) == pickle.capacity - ParamLength(Rest(args, n))

\* Argument n lies in the payload, in the words that are its own.
Stored(n) ==
  \A i \in 0 .. LengthOf(args[n]) \div Word - 1 :
    pickle.words[Offset(n) \div Word + i] = [of |-> args[n], part |-> i]

\* The first next arguments are written, and the position is behind them.
WritingOK ==
  stage = "writing" =>
    /\ next \in 0 .. Len(args) /\ pickle.position = Offset(next + 1)
    /\ Offset(1) = AlignInt(HeaderBytes, Word)
    /\ \A n \in 1 .. next :
         Stored(n) /\ Offset(n) >= 0 /\ Offset(n + 1) <= pickle.position

\* While the message is read it holds its arguments.
ReadingOK ==
  stage = "reading" =>
    /\ next \in 0 .. Len(Reads)
    /\ \A n \in 1 .. Len(args) : Stored(n)

\* There is a reply on its way only when the handler was called.
TellingOK ==
  ours.sync => /\ told = "true" => handled
               /\ reply /\ stage # "done" => handled

Inv == TypesOK /\ WritingOK /\ ReadingOK /\ TellingOK

\* Between processes of one build: what has been read is what was written.
ReadBackOK ==
  ours = theirs =>
    /\ stage # "unreadable"
    /\ stage = "reading" =>
         /\ pickle.position = Offset(next + 1)
         /\ got = [n \in 1 .. Len(args) |->
                    IF n <= next THEN args[n] ELSE Other(Reads[n])]
    /\ stage = "done" /\ told # "false" => handled /\ got = args
-----------------------------------------------------------------------------
(***************************************************************************)
(* The invariant holds.                                                    *)
(***************************************************************************)
LEMMA DefinitionTypes ==
  ASSUME NEW d \in Definitions
  PROVE  /\ d.sync \in BOOLEAN /\ d.send \in Seq(Types) /\ d.reply \in Seq(Types)
         /\ Len(d.reply) <= 4 /\ Len(d.send) <= 8 /\ (~d.sync => d.reply = <<>>)
<1>1. /\ d.sync \in BOOLEAN /\ d.send \in Seq(Types) /\ d.reply \in Seq(Types)
      /\ IF d.sync THEN <<Len(d.send), Len(d.reply)>> \in SyncArities
         ELSE Len(d.send) \in AsyncArities /\ d.reply = <<>>
  BY PickleAssumption
<1>2. CASE d.sync
  <2>1. \A a, b : <<a, b>> \in SyncArities => a \in 0 .. 4 /\ b \in 0 .. 4
    BY DEF SyncArities
  <2>2. Len(d.send) \in 0 .. 4 /\ Len(d.reply) \in 0 .. 4
    BY <1>1, <1>2, <2>1
  <2>3. Len(d.send) <= 8 /\ Len(d.reply) <= 4
    <3>1. \A n \in 0 .. 4 : n <= 8 /\ n <= 4
      OBVIOUS
    <3>2. QED
      BY <2>2, <3>1, Zenon
  <2>4. QED
    BY <1>1, <1>2, <2>3, Zenon
<1>3. CASE ~d.sync
  <2>1. Len(d.send) \in 0 .. 8 /\ d.reply = <<>>
    BY <1>1, <1>3, Zenon DEF AsyncArities
  <2>2. Len(d.send) <= 8 /\ Len(d.reply) <= 4
    <3>1. (\A n \in 0 .. 8 : n <= 8) /\ Len(<<>>) <= 4
      OBVIOUS
    <3>2. QED
      BY <2>1, <3>1, Zenon
  <2>3. QED
    BY <1>1, <1>3, <2>1, <2>2, Zenon
<1>4. QED
  BY <1>1, <1>2, <1>3

LEMMA ArgumentsAreValues ==
  ASSUME NEW types \in Seq(Types), NEW vs \in Arguments(types)
  PROVE  /\ vs \in Seq(Values) /\ Len(vs) = Len(types)
         /\ \A n \in 1 .. Len(vs) : vs[n] \in Values /\ vs[n].type = types[n]
<1> DEFINE texts == {n \in DOMAIN types : types[n] = "string"}
<1>1. PICK sizes \in [texts -> 0 .. MaxString] :
        vs = [n \in DOMAIN types |->
               [type |-> types[n], nr |-> n,
                size |-> IF types[n] = "string" THEN sizes[n] ELSE SizeOf(types[n])]]
  BY DEF Arguments
<1>2. DOMAIN types = 1 .. Len(types) /\ Len(types) \in Nat
      /\ \A n \in 1 .. Len(types) : types[n] \in Types
  OBVIOUS
<1>3. ASSUME NEW n \in 1 .. Len(types)
      PROVE  vs[n] \in Values /\ vs[n].type = types[n]
  <2>1. types[n] \in Types /\ n \in Nat
    BY <1>2
  <2> DEFINE size == IF types[n] = "string" THEN sizes[n] ELSE SizeOf(types[n])
  <2>2. vs[n] = [type |-> types[n], nr |-> n, size |-> size]
    BY <1>1, <1>2
  <2>3. size \in IF types[n] = "string" THEN 0 .. MaxString ELSE {SizeOf(types[n])}
    <3>1. types[n] = "string" => n \in texts
      BY <1>2
    <3>2. types[n] = "string" => sizes[n] \in 0 .. MaxString
      BY <1>1, <3>1
    <3>3. QED
      BY <3>2
  <2> HIDE DEF size
  <2>4. size \in Nat
    <3>1. types[n] # "string" => types[n] \in Scalars
      BY <2>1 DEF Types
    <3>2. \A t \in Scalars : SizeOf(t) \in Nat
      BY DEF Scalars, SizeOf
    <3>3. 0 .. MaxString \subseteq Nat
      BY PickleAssumption
    <3>4. QED
      BY <2>3, <3>1, <3>2, <3>3
  <2>5. QED
    BY <2>1, <2>2, <2>3, <2>4 DEF Values
<1>4. vs = [n \in 1 .. Len(types) |-> vs[n]]
  BY <1>1, <1>2
<1>5. vs \in [1 .. Len(types) -> Values]
  BY <1>3, <1>4
<1>6. vs \in Seq(Values) /\ Len(vs) = Len(types)
  BY <1>2, <1>5, SMTT(30)
<1>7. QED
  BY <1>3, <1>6
LEMMA ArgumentTypes ==
  ASSUME TypesOK
  PROVE  /\ Sent \in Seq(Types) /\ Reads \in Seq(Types)
         /\ ours = theirs => Sent = Reads
         /\ Underway => /\ args \in Seq(Values) /\ Len(args) = Len(Sent)
                        /\ \A n \in 1 .. Len(args) :
                             args[n] \in Values /\ args[n].type = Sent[n]
<1>1. /\ ours.send \in Seq(Types) /\ ours.reply \in Seq(Types)
      /\ theirs.send \in Seq(Types) /\ theirs.reply \in Seq(Types)
  BY DefinitionTypes DEF TypesOK
<1>2. Sent \in Seq(Types) /\ Reads \in Seq(Types)
  BY <1>1 DEF Sent, Reads
<1>3. ours = theirs => Sent = Reads
  BY DEF Sent, Reads
<1>4. Underway => args \in Arguments(Sent)
  BY DEF TypesOK
<1>5. QED
  BY <1>2, <1>3, <1>4, ArgumentsAreValues

\* Offsets are those of words, and LengthOf apart.
LEMMA OffsetsOK ==
  ASSUME PickleOK(pickle), args \in Seq(Values)
  PROVE  /\ \A n \in 1 .. Len(args) + 1 :
              Offset(n) \in Int /\ Offset(n) <= pickle.capacity /\ Offset(n) % 4 = 0
         /\ \A n \in 1 .. Len(args) : Offset(n + 1) = Offset(n) + LengthOf(args[n])
<1>1. pickle.capacity \in Nat /\ pickle.capacity % 4 = 0
  BY DEF PickleOK, Word
<1>2. ASSUME NEW n \in 1 .. Len(args) + 1
      PROVE  Offset(n) \in Int /\ Offset(n) <= pickle.capacity /\ Offset(n) % 4 = 0
  <2>1. Rest(args, n) \in Seq(Values)
    BY DEF Rest
  <2>2. PICK q \in Nat : ParamLength(Rest(args, n)) = 4 * q
    BY <2>1, LengthOfTuple
  <2>3. Offset(n) = pickle.capacity - 4 * q
    BY <2>2 DEF Offset
  <2>4. QED
    BY <1>1, <2>3
<1>3. ASSUME NEW n \in 1 .. Len(args)
      PROVE  Offset(n + 1) = Offset(n) + LengthOf(args[n])
  <2>1. ParamLength(Rest(args, n)) = LengthOf(args[n]) + ParamLength(Rest(args, n + 1))
    BY LengthOfRest
  <2>2. args[n] \in Values
    OBVIOUS
  <2>3. LengthOf(args[n]) \in Nat
    BY <2>2, LengthOfValue
  <2>4. n + 1 \in 1 .. Len(args) + 1
    OBVIOUS
  <2>5. ParamLength(Rest(args, n + 1)) \in Nat
    BY <2>4, LengthOfRest
  <2>6. \A c, a, b \in Nat : c - b = (c - (a + b)) + a
    OBVIOUS
  <2>7. QED
    BY <1>1, <2>1, <2>3, <2>5, <2>6 DEF Offset
<1>4. QED
  BY <1>2, <1>3

LEMMA StoredStays ==
  ASSUME args' = args, pickle'.capacity = pickle.capacity, pickle'.words = pickle.words
  PROVE  \A n : Offset(n)' = Offset(n) /\ Stored(n)' = Stored(n)
BY DEF Offset, Stored

LEMMA InitOK == Init => Inv /\ ReadBackOK
<1> SUFFICES ASSUME Init PROVE Inv /\ ReadBackOK
  OBVIOUS
<1>1. PickleOK(pickle)
  <2>1. <<>> \in Seq(Values)
    OBVIOUS
  <2>2. PickleOK(NewPickle(ParamLength(<<>>)))
    BY <2>1, NewPickleOK
  <2>3. QED
    BY <2>2, LengthOfNone DEF Init, Empty
<1>2. QED
  BY <1>1 DEF Init, Inv, TypesOK, Underway, WritingOK, ReadingOK, TellingOK, ReadBackOK

\* A message that has been constructed has room for its arguments.
LEMMA ConstructOK ==
  ASSUME NEW types \in Seq(Types), NEW vs \in Arguments(types), Construct(vs)
  PROVE  PickleOK(pickle') /\ WritingOK'
<1>1. vs \in Seq(Values)
  BY ArgumentsAreValues
<1>2. pickle' = NewPickle(ParamLength(vs)) /\ args' = vs /\ next' = 0
  BY DEF Construct
<1>3. PickleOK(pickle') /\ pickle'.position = 12
      /\ pickle'.capacity = 12 + ParamLength(vs)
  BY <1>1, <1>2, NewPickleOK
<1>4. ParamLength(Rest(vs, 1)) = ParamLength(vs) /\ ParamLength(vs) \in Nat
  BY <1>1, LengthOfRest, LengthOfTuple
<1>5. Offset(1)' = 12
  BY <1>2, <1>3, <1>4 DEF Offset
<1>6. AlignInt(HeaderBytes, Word) = 12
  BY AlignWhole, 4 * 3 = 12 DEF HeaderBytes
<1>7. next' \in 0 .. Len(args') /\ next' + 1 = 1 /\ 1 .. next' = {}
  BY <1>1, <1>2
<1>8. WritingOK'
  BY <1>3, <1>5, <1>6, <1>7 DEF WritingOK
<1>9. QED
  BY <1>3, <1>8

LEMMA CallStep ==
  ASSUME Inv, Call
  PROVE  Inv' /\ ReadBackOK'
<1>1. ours \in Definitions /\ theirs \in Definitions
  BY DEF Inv, TypesOK
<1>2. PICK vs \in Arguments(ours.send) : Construct(vs)
  BY DEF Call
<1>3. ours.send \in Seq(Types)
  BY <1>1, DefinitionTypes
<1>4. PickleOK(pickle') /\ WritingOK'
  BY <1>2, <1>3, ConstructOK
<1>5. /\ stage = "idle" /\ stage' = "writing" /\ args' = vs /\ next' = 0
      /\ ours' = ours /\ theirs' = theirs /\ reply' = reply /\ handled' = handled
      /\ told' = told
  BY <1>2 DEF Call, Construct
<1>6. TypesOK'
  <2>1. Sent' = ours.send
    BY <1>5 DEF Sent, Inv, TypesOK
  <2>2. QED
    BY <1>2, <1>4, <1>5, <2>1 DEF Inv, TypesOK, Underway
<1>7. TellingOK'
  BY <1>5, Zenon DEF Inv, TellingOK
<1>8. ReadingOK' /\ ReadBackOK'
  BY <1>5 DEF ReadingOK, ReadBackOK
<1>9. QED
  BY <1>4, <1>6, <1>7, <1>8 DEF Inv

LEMMA WriteStep ==
  ASSUME Inv, Write
  PROVE  Inv' /\ ReadBackOK'
<1>n. PICK n : n = next + 1
  OBVIOUS
<1> DEFINE v == args[n]
           len == LengthOf(v)
<1>1. /\ stage = "writing" /\ next < Len(args) /\ Underway
      /\ pickle' = WriteParam(pickle, v) /\ next' = n
      /\ ours' = ours /\ theirs' = theirs /\ reply' = reply /\ handled' = handled
      /\ told' = told /\ stage' = stage /\ args' = args
  BY <1>n DEF Write, Underway
<1>2. /\ args \in Seq(Values) /\ PickleOK(pickle)
  BY <1>1, ArgumentTypes DEF Inv, TypesOK
<1>3. /\ next \in 0 .. Len(args) /\ pickle.position = Offset(n)
      /\ Offset(1) = AlignInt(HeaderBytes, Word)
      /\ \A i \in 1 .. next :
           Stored(i) /\ Offset(i) >= 0 /\ Offset(i + 1) <= pickle.position
  BY <1>1, <1>n DEF Inv, WritingOK
<1>4. n \in 1 .. Len(args) /\ n \in Nat /\ n + 1 \in 1 .. Len(args) + 1
  BY <1>1, <1>2, <1>3, <1>n
<1>5. v \in Values /\ len \in Nat /\ len = 4 * (len \div 4)
  <2>1. v \in Values
    BY <1>2, <1>4
  <2>2. QED
    BY <2>1, LengthOfValue
<1>6. /\ \A i \in 1 .. Len(args) + 1 :
           Offset(i) \in Int /\ Offset(i) <= pickle.capacity /\ Offset(i) % 4 = 0
      /\ \A i \in 1 .. Len(args) : Offset(i + 1) = Offset(i) + LengthOf(args[i])
  BY <1>2, OffsetsOK
<1>7. Offset(n + 1) = Offset(n) + len /\ Offset(n + 1) <= pickle.capacity
  BY <1>4, <1>6
<1>8. pickle.position \in Nat /\ pickle.position % 4 = 0 /\ pickle.capacity \in Nat
  BY <1>2 DEF PickleOK, Word
<1> HIDE DEF len, v
<1>9. /\ PickleOK(pickle')
      /\ Advanced(pickle', pickle, len) /\ Holds(pickle', pickle, v, 0, len \div Word)
  <2>1. pickle.position + len <= pickle.capacity
    BY <1>3, <1>7
  <2>2. QED
    BY <1>1, <1>2, <1>5, <2>1, WriteParamOK DEF len
<1>10. /\ pickle'.capacity = pickle.capacity /\ pickle'.position = pickle.position + len
       /\ \A w \in 0 .. pickle.position \div 4 - 1 : pickle'.words[w] = pickle.words[w]
       /\ \A i \in 0 .. len \div 4 - 1 :
            pickle'.words[pickle.position \div 4 + i] = [of |-> v, part |-> 0 + i]
  BY <1>9 DEF Advanced, Holds, Word
<1>11. \A i : Offset(i)' = Offset(i)
  BY <1>1, <1>10 DEF Offset
<1>12. pickle'.position = Offset(n + 1)'
  BY <1>3, <1>7, <1>10, <1>11
<1>13. Stored(n)'
  <2>1. \A i \in 0 .. len \div 4 - 1 :
          pickle'.words[Offset(n) \div 4 + i] = [of |-> v, part |-> i]
    <3>1. \A i \in 0 .. len \div 4 - 1 : 0 + i = i
      BY <1>5
    <3>2. QED
      BY <1>3, <1>10, <3>1
  <2>2. QED
    BY <1>1, <1>11, <2>1 DEF Stored, Word, len, v
<1>14. ASSUME NEW i \in 1 .. next
       PROVE  Stored(i)'
  <2> DEFINE l == LengthOf(args[i])
             o == Offset(i)
  <2>1. i \in 1 .. Len(args) /\ i \in 1 .. Len(args) + 1 /\ i + 1 \in 1 .. Len(args) + 1
    BY <1>2, <1>3
  <2>2. l \in Nat /\ l = 4 * (l \div 4)
    <3>1. args[i] \in Values
      BY <1>2, <2>1
    <3>2. QED
      BY <3>1, LengthOfValue
  <2>3. o \in Int /\ o % 4 = 0 /\ o >= 0 /\ Offset(i + 1) = o + l
        /\ Offset(i + 1) <= pickle.position /\ Stored(i)
    BY <1>3, <1>6, <2>1
  <2>4. \A j \in 0 .. l \div 4 - 1 :
          pickle.words[o \div 4 + j] = [of |-> args[i], part |-> j]
    BY <2>3 DEF Stored, Word
  <2> HIDE DEF l, o
  <2>5. ASSUME NEW j \in 0 .. l \div 4 - 1
        PROVE  o \div 4 + j \in 0 .. pickle.position \div 4 - 1
    <3>1. o = 4 * (o \div 4) /\ o \div 4 \in Nat
      BY <2>3, WholeWords
    <3>2. pickle.position = 4 * (pickle.position \div 4) /\ pickle.position \div 4 \in Nat
      BY <1>8, WholeWords
    <3>3. \A a, b, c \in Nat : \A k \in 0 .. b - 1 :
            4 * a + 4 * b <= 4 * c => a + k \in 0 .. c - 1
      OBVIOUS
    <3>4. o + l <= pickle.position /\ l \div 4 \in Nat
      BY <2>2, <2>3
    <3>5. 4 * (o \div 4) + 4 * (l \div 4) <= 4 * (pickle.position \div 4)
      BY <2>2, <3>1, <3>2, <3>4
    <3>6. QED
      BY <3>1, <3>2, <3>3, <3>4, <3>5
  <2>6. \A j \in 0 .. l \div 4 - 1 :
          pickle'.words[o \div 4 + j] = [of |-> args[i], part |-> j]
    BY <1>10, <2>4, <2>5
  <2>7. QED
    BY <1>1, <1>11, <2>6 DEF Stored, Word, l, o
<1>15. ASSUME NEW i \in 1 .. n
       PROVE  Stored(i)' /\ Offset(i) >= 0 /\ Offset(i + 1) <= Offset(n + 1)
  <2>1. CASE i \in 1 .. next
    <3>1. Stored(i)' /\ Offset(i) >= 0 /\ Offset(i + 1) <= Offset(n)
      BY <1>3, <1>14, <2>1
    <3>2. i + 1 \in 1 .. Len(args) + 1
      BY <1>2, <1>3, <2>1
    <3>3. Offset(i + 1) \in Int /\ Offset(n) \in Int
      BY <1>3, <1>6, <1>8, <3>2
    <3>4. QED
      BY <1>5, <1>7, <3>1, <3>3
  <2>2. CASE i = n
    BY <1>3, <1>6, <1>4, <1>8, <1>13, <2>2
  <2>3. QED
    BY <1>3, <1>4, <1>n, <2>1, <2>2
<1>16. WritingOK'
  <2>1. n \in 0 .. Len(args)
    BY <1>4
  <2>2. pickle'.position = Offset(n + 1)' /\ Offset(1)' = AlignInt(HeaderBytes, Word)
    BY <1>3, <1>11, <1>12
  <2>3. \A i \in 1 .. n :
          Stored(i)' /\ Offset(i)' >= 0 /\ Offset(i + 1)' <= pickle'.position
    BY <1>11, <1>12, <1>15
  <2>4. QED
    BY <1>1, <2>1, <2>2, <2>3 DEF WritingOK
<1>17. TypesOK'
  <2>1. Sent' = Sent /\ Underway' = Underway
    BY <1>1 DEF Sent, Underway
  <2>2. QED
    BY <1>1, <1>4, <1>9, <2>1 DEF Inv, TypesOK
<1>18. TellingOK'
  BY <1>1, Zenon DEF Inv, TellingOK
<1>19. ReadingOK' /\ ReadBackOK'
  BY <1>1 DEF ReadingOK, ReadBackOK
<1>20. QED
  BY <1>16, <1>17, <1>18, <1>19 DEF Inv

LEMMA SendStep ==
  ASSUME Inv, Send
  PROVE  Inv' /\ ReadBackOK'
<1>1. /\ stage = "writing" /\ next = Len(args) /\ Underway
      /\ pickle' = [pickle EXCEPT !.position = AlignInt(HeaderBytes, Word)]
      /\ next' = 0 /\ got' = [i \in DOMAIN Reads |-> Other(Reads[i])]
      /\ ours' = ours /\ theirs' = theirs /\ reply' = reply /\ handled' = handled
      /\ told' = told /\ stage' = "reading" /\ args' = args
  BY DEF Send, Underway
<1>2. /\ args \in Seq(Values) /\ PickleOK(pickle) /\ Reads \in Seq(Types)
      /\ Len(args) = Len(Sent) /\ (ours = theirs => Sent = Reads)
  BY <1>1, ArgumentTypes DEF Inv, TypesOK
<1>3. /\ Offset(1) = AlignInt(HeaderBytes, Word)
      /\ \A n \in 1 .. Len(args) : Stored(n)
  BY <1>1 DEF Inv, WritingOK
<1>4. AlignInt(HeaderBytes, Word) = 12
  BY AlignWhole, 4 * 3 = 12 DEF HeaderBytes
<1>5. /\ pickle'.capacity = pickle.capacity /\ pickle'.words = pickle.words
      /\ pickle'.position = 12
      /\ pickle' = [capacity |-> pickle'.capacity, position |-> pickle'.position,
                    words |-> pickle'.words]
  BY <1>1, <1>2, <1>4 DEF PickleOK
<1>6. 12 <= pickle.capacity
  <2>1. 1 \in 1 .. Len(args) + 1
    BY <1>2
  <2>2. QED
    BY <1>2, <1>3, <1>4, <2>1, OffsetsOK
<1>7. PickleOK(pickle')
  BY <1>2, <1>5, <1>6, 12 % 4 = 0 DEF PickleOK, Word
<1>8. /\ \A n : Offset(n)' = Offset(n)
      /\ \A n : Stored(n)' = Stored(n)
  BY <1>1, <1>5, StoredStays
<1>9. TypesOK'
  <2>1. Sent' = Sent /\ Underway' = Underway
    BY <1>1 DEF Sent, Underway
  <2>2. QED
    BY <1>1, <1>7, <2>1 DEF Inv, TypesOK
<1>10. Reads' = Reads
  BY <1>1 DEF Reads
<1>11. ReadingOK'
  <2>1. 0 \in 0 .. Len(Reads)
    BY <1>2
  <2>2. \A n \in 1 .. Len(args) : Stored(n)'
    BY <1>3, <1>8, Zenon
  <2>3. QED
    BY <1>1, <1>10, <2>1, <2>2 DEF ReadingOK
<1>12. TellingOK'
  BY <1>1, Zenon DEF Inv, TellingOK
<1>13. WritingOK'
  BY <1>1 DEF WritingOK
<1>14. ReadBackOK'
  <2> SUFFICES ASSUME ours = theirs
               PROVE  /\ (pickle.position = Offset(next + 1))'
                      /\ (got = [n \in 1 .. Len(args) |->
                                  IF n <= next THEN args[n] ELSE Other(Reads[n])])'
    BY <1>1 DEF ReadBackOK
  <2>1. DOMAIN Reads = 1 .. Len(args) /\ \A n \in 1 .. Len(args) : ~(n <= 0)
    BY <1>2
  <2>2. got' = [n \in 1 .. Len(args) |-> IF n <= 0 THEN args[n] ELSE Other(Reads[n])]
    BY <1>1, <2>1
  <2>3. 0 + 1 = 1 /\ pickle'.position = Offset(1)
    BY <1>3, <1>4, <1>5
  <2>4. pickle'.position = Offset(1)'
    BY <1>8, <2>3
  <2>5. (pickle.position = Offset(next + 1))'
    BY <1>1, <2>3, <2>4 DEF Offset
  <2>6. QED
    BY <1>1, <1>10, <2>2, <2>5
<1>15. QED
  BY <1>9, <1>11, <1>12, <1>13, <1>14 DEF Inv

\* The order of reading is a permutation.
LEMMA ReadOrderOK ==
  ASSUME NEW n \in 0 .. 8, NEW i \in 1 .. n
  PROVE  ReadOrder(n)[i] \in 1 .. n /\ (n <= 7 => ReadOrder(n)[i] = i)
<1>1. CASE n = 8
  <2>1. ReadOrder(n) = <<1, 2, 3, 4, 5, 6, 8, 7>>
    BY <1>1 DEF ReadOrder
  <2>2. i \in {1, 2, 3, 4, 5, 6, 7, 8}
    BY <1>1
  <2>3. QED
    BY <1>1, <2>1, <2>2
<1>2. CASE n # 8
  BY <1>2 DEF ReadOrder
<1>3. QED
  BY <1>1, <1>2

LEMMA ReadFails ==
  ASSUME Inv, Read, stage' = "unreadable"
  PROVE  Inv'
<1>1. /\ stage = "reading" /\ ours' = ours /\ theirs' = theirs /\ reply' = reply
      /\ args' = args /\ handled' = handled /\ told' = told
  BY DEF Read
<1>2. UNCHANGED <<pickle, next>>
  BY <1>1 DEF Read
<1>3. Sent' = Sent /\ Underway /\ Underway'
  BY <1>1 DEF Sent, Underway
<1>4. TypesOK'
  BY <1>1, <1>2, <1>3 DEF Inv, TypesOK
<1>5. TellingOK'
  BY <1>1, Zenon DEF Inv, TellingOK
<1>6. WritingOK' /\ ReadingOK'
  BY <1>1 DEF WritingOK, ReadingOK
<1>7. QED
  BY <1>4, <1>5, <1>6 DEF Inv

LEMMA ReadStep ==
  ASSUME Inv, Read
  PROVE  Inv'
<1> DEFINE field == ReadOrder(Len(Reads))[next + 1]
<1>1. /\ stage = "reading" /\ Underway /\ next < Len(Reads)
      /\ ours' = ours /\ theirs' = theirs /\ reply' = reply
      /\ args' = args /\ handled' = handled /\ told' = told
  BY DEF Read, Underway
<1>2. PICK result \in ReadParam(pickle, Reads[field]) :
        IF result.ok
        THEN /\ pickle' = result.pickle /\ next' = next + 1
             /\ got' = [got EXCEPT ![field] = result.value]
             /\ stage' = stage
        ELSE stage' = "unreadable" /\ UNCHANGED <<pickle, next, got>>
  BY DEF Read
<1>3. CASE ~result.ok
  <2>1. stage' = "unreadable"
    BY <1>2, <1>3
  <2>2. QED
    BY <1>1, <2>1, ReadFails
<1>4. CASE result.ok
  <2>1. pickle' = result.pickle /\ next' = next + 1 /\ stage' = "reading"
    BY <1>1, <1>2, <1>4
  <2>2. /\ PickleOK(pickle) /\ Reads \in Seq(Types) /\ next \in 0 .. Len(Reads)
        /\ Len(Reads) \in 0 .. 8
    <3>1. /\ PickleOK(pickle) /\ Reads \in Seq(Types) /\ next \in 0 .. Len(Reads)
      BY <1>1, ArgumentTypes DEF Inv, TypesOK, ReadingOK
    <3>2. Len(Reads) <= 8
      <4>1. ours \in Definitions /\ theirs \in Definitions
        BY DEF Inv, TypesOK
      <4>2. Len(ours.reply) <= 4 /\ Len(theirs.send) <= 8 /\ ours.reply \in Seq(Types)
        BY <4>1, DefinitionTypes
      <4>3. QED
        BY <4>2 DEF Reads
    <3>3. \A s \in Seq(Types) : Len(s) \in Nat
      OBVIOUS
    <3>4. \A n \in Nat : n <= 8 => n \in 0 .. 8
      OBVIOUS
    <3>5. QED
      BY <3>1, <3>2, <3>3, <3>4, Zenon
  <2>3. field \in 1 .. Len(Reads)
    <3>1. next + 1 \in 1 .. Len(Reads)
      BY <1>1, <2>2
    <3>2. QED
      BY <2>2, <3>1, ReadOrderOK
  <2>4. Reads[field] \in Types
    BY <2>2, <2>3
  <2> HIDE DEF field
  <2>5. /\ PickleOK(pickle') /\ pickle'.capacity = pickle.capacity
        /\ pickle'.words = pickle.words
    BY <1>4, <2>1, <2>2, <2>4, ReadParamOK
  <2>6. TypesOK'
    <3>1. Sent' = Sent /\ Underway /\ Underway' /\ next' \in Nat
      BY <1>1, <2>1, <2>2 DEF Sent, Underway
    <3>2. QED
      BY <1>1, <2>1, <2>5, <3>1 DEF Inv, TypesOK
  <2>7. ReadingOK'
    <3>1. Reads' = Reads /\ next' \in 0 .. Len(Reads)
      BY <1>1, <2>1, <2>2 DEF Reads
    <3>2. \A n \in 1 .. Len(args) : Stored(n)
      BY <1>1 DEF Inv, ReadingOK
    <3>3. \A n : Stored(n)' = Stored(n)
      BY <1>1, <2>5, StoredStays
    <3>4. \A n \in 1 .. Len(args) : Stored(n)'
      BY <3>2, <3>3, Zenon
    <3>5. QED
      BY <1>1, <3>1, <3>4 DEF ReadingOK
  <2>8. TellingOK'
    BY <1>1, <2>1, Zenon DEF Inv, TellingOK
  <2>9. WritingOK'
    BY <2>1 DEF WritingOK
  <2>10. QED
    BY <1>1, <2>1, <2>6, <2>7, <2>8, <2>9 DEF Inv
<1>5. QED
  BY <1>3, <1>4

\* The messages that the macros of PIpcMessageMacros.h give an identifier.
FewArguments == \A d \in Definitions : Len(d.send) <= 7

\* What the reader of the same build finds at the position is the next argument.
LEMMA ReadBackStep ==
  ASSUME Inv, ReadBackOK, Read, FewArguments
  PROVE  ReadBackOK'
<1>1. /\ stage = "reading" /\ Underway /\ next < Len(Reads)
      /\ ours' = ours /\ theirs' = theirs /\ reply' = reply /\ args' = args
  BY DEF Read, Underway
<1> SUFFICES ASSUME ours = theirs
             PROVE  /\ stage' = "reading"
                    /\ (pickle.position = Offset(next + 1))'
                    /\ (got = [i \in 1 .. Len(args) |->
                                IF i <= next THEN args[i] ELSE Other(Reads[i])])'
  BY <1>1 DEF ReadBackOK
<1>2. /\ PickleOK(pickle) /\ Sent = Reads /\ Reads \in Seq(Types)
      /\ args \in Seq(Values) /\ Len(args) = Len(Reads)
      /\ \A i \in 1 .. Len(args) : args[i] \in Values /\ args[i].type = Reads[i]
      /\ next \in 0 .. Len(Reads) /\ \A i \in 1 .. Len(args) : Stored(i)
  BY <1>1, ArgumentTypes DEF Inv, TypesOK, ReadingOK
<1>3. /\ pickle.position = Offset(next + 1)
      /\ got = [i \in 1 .. Len(args) |-> IF i <= next THEN args[i] ELSE Other(Reads[i])]
  BY <1>1 DEF ReadBackOK
<1>4. Len(Reads) <= 7
  <2>1. ours \in Definitions /\ theirs \in Definitions
    BY DEF Inv, TypesOK
  <2>2. Len(ours.reply) <= 4 /\ Len(theirs.send) <= 7 /\ ours.reply \in Seq(Types)
    BY <2>1, DefinitionTypes DEF FewArguments
  <2>3. QED
    BY <2>2 DEF Reads
<1>n. PICK n : n = next + 1
  OBVIOUS
<1> DEFINE v == args[n]
           len == LengthOf(v)
<1>5. n \in 1 .. Len(args) /\ n \in Nat /\ next \in Nat /\ n + 1 \in 1 .. Len(args) + 1
  BY <1>1, <1>2, <1>n
<1>6. ReadOrder(Len(Reads))[n] = n
  <2>1. Len(Reads) \in 0 .. 8
    <3>1. \A k \in Nat : k <= 7 => k \in 0 .. 8
      OBVIOUS
    <3>2. Len(Reads) \in Nat
      BY <1>2
    <3>3. QED
      BY <1>4, <3>1, <3>2, Zenon
  <2>2. n \in 1 .. Len(Reads)
    BY <1>2, <1>5
  <2>3. QED
    BY <1>4, <2>1, <2>2, ReadOrderOK
<1>7. PICK result \in ReadParam(pickle, Reads[n]) :
        IF result.ok
        THEN /\ pickle' = result.pickle /\ next' = n
             /\ got' = [got EXCEPT ![n] = result.value]
             /\ stage' = stage
        ELSE stage' = "unreadable" /\ UNCHANGED <<pickle, next, got>>
  BY <1>n, <1>6 DEF Read
<1>8. v \in Values /\ v.type = Reads[n]
  BY <1>2, <1>5
<1>9. /\ Offset(n + 1) = Offset(n) + len /\ Offset(n + 1) <= pickle.capacity
      /\ pickle.position = Offset(n)
  BY <1>2, <1>3, <1>5, <1>n, OffsetsOK
<1>10. Holds(pickle, pickle, v, 0, len \div Word)
  <2>1. \A i \in 0 .. len \div Word - 1 :
          pickle.words[pickle.position \div Word + i] = [of |-> v, part |-> i]
    BY <1>2, <1>5, <1>9 DEF Stored
  <2>2. len \div 4 \in Nat
    <3>1. len \in Nat
      BY <1>8, LengthOfValue
    <3>2. QED
      BY <3>1
  <2>3. \A i \in 0 .. len \div 4 - 1 : 0 + i = i
    BY <2>2
  <2>4. QED
    BY <2>1, <2>3 DEF Holds, Word
<1> HIDE DEF v, len
<1>11. /\ result.ok /\ result.value = v
       /\ result.pickle.capacity = pickle.capacity /\ result.pickle.words = pickle.words
       /\ result.pickle.position = pickle.position + len
  <2>1. pickle.position + LengthOf(v) <= pickle.capacity
    BY <1>9 DEF len
  <2>2. result \in ReadParam(pickle, v.type)
    BY <1>7, <1>8
  <2>3. Holds(pickle, pickle, v, 0, LengthOf(v) \div Word)
    BY <1>10 DEF len
  <2>4. QED
    BY <1>2, <1>8, <2>1, <2>2, <2>3, ReadBack DEF len
<1>12. /\ pickle' = result.pickle /\ next' = n /\ got' = [got EXCEPT ![n] = v]
       /\ stage' = "reading"
  BY <1>1, <1>7, <1>11
<1>13. \A i : Offset(i)' = Offset(i)
  BY <1>1, <1>11, <1>12 DEF Offset
<1>14. (pickle.position = Offset(next + 1))'
  <2>1. pickle'.position = Offset(n + 1)
    BY <1>9, <1>11, <1>12
  <2>2. pickle'.position = Offset(n + 1)'
    BY <1>13, <2>1
  <2>3. QED
    BY <1>12, <2>2 DEF Offset
<1>15. Reads' = Reads
  BY <1>1 DEF Reads
<1>16. got' = [i \in 1 .. Len(args) |-> IF i <= n THEN args[i] ELSE Other(Reads[i])]
  <2>1. \A i \in 1 .. Len(args) : i # n => (i <= n <=> i <= next)
    BY <1>5, <1>n
  <2>2. n <= n
    BY <1>5
  <2>3. got' = [i \in 1 .. Len(args) |->
                 IF i = n THEN v
                 ELSE IF i <= next THEN args[i] ELSE Other(Reads[i])]
    BY <1>3, <1>5, <1>12
  <2>4. \A i \in 1 .. Len(args) :
          (IF i = n THEN v ELSE IF i <= next THEN args[i] ELSE Other(Reads[i]))
          = IF i <= n THEN args[i] ELSE Other(Reads[i])
    BY <2>1, <2>2 DEF v
  <2>5. QED
    BY <2>3, <2>4
<1>17. QED
  BY <1>1, <1>12, <1>14, <1>15, <1>16

\* The whole tuple has been read: it is the one that was written.
LEMMA ReadAll ==
  ASSUME Inv, ReadBackOK, Complete, ours = theirs
  PROVE  got = args
<1>1. stage = "reading" /\ next = Len(Reads) /\ Underway
  BY DEF Complete, Underway
<1>2. args \in Seq(Values) /\ Len(args) = Len(Reads)
  BY <1>1, ArgumentTypes DEF Inv, TypesOK
<1>3. got = [i \in 1 .. Len(args) |-> IF i <= next THEN args[i] ELSE Other(Reads[i])]
  BY <1>1 DEF ReadBackOK
<1>4. \A i \in 1 .. Len(args) : i <= next
  BY <1>1, <1>2
<1>5. got = [i \in 1 .. Len(args) |-> args[i]]
  BY <1>3, <1>4
<1>6. QED
  BY <1>2, <1>5

LEMMA DispatchStep ==
  ASSUME Inv, Dispatch
  PROVE  Inv' /\ (ReadBackOK => ReadBackOK')
<1>1. /\ ~ours.sync /\ Complete /\ handled' = TRUE /\ stage' = "done"
      /\ UNCHANGED <<ours, theirs, reply, args, pickle, next, got, told>>
  BY DEF Dispatch, DispatchToMethod
<1>2. TypesOK'
  BY <1>1 DEF Inv, TypesOK, Underway
<1>3. WritingOK' /\ ReadingOK' /\ TellingOK'
  BY <1>1 DEF WritingOK, ReadingOK, TellingOK
<1>4. ReadBackOK => ReadBackOK'
  BY <1>1, ReadAll DEF ReadBackOK
<1>5. QED
  BY <1>2, <1>3, <1>4 DEF Inv

LEMMA DropStep ==
  ASSUME Inv, Drop
  PROVE  Inv' /\ (ReadBackOK => ReadBackOK')
<1>1. /\ ~ours.sync /\ stage = "unreadable" /\ stage' = "done"
      /\ UNCHANGED <<ours, theirs, reply, args, pickle, next, got, handled, told>>
  BY DEF Drop
<1>2. TypesOK'
  BY <1>1 DEF Inv, TypesOK, Underway
<1>3. WritingOK' /\ ReadingOK' /\ TellingOK'
  BY <1>1 DEF WritingOK, ReadingOK, TellingOK
<1>4. ReadBackOK => ReadBackOK'
  BY <1>1 DEF ReadBackOK
<1>5. QED
  BY <1>2, <1>3, <1>4 DEF Inv

LEMMA HandleStep ==
  ASSUME Inv, Handle
  PROVE  Inv' /\ (ReadBackOK => ReadBackOK')
<1>1. PICK vs \in Arguments(theirs.reply) : DispatchForResults(vs) /\ Construct(vs)
  BY DEF Handle
<1>2. /\ ours.sync /\ reply' = TRUE /\ handled' = TRUE /\ stage' = "writing"
      /\ args' = vs /\ next' = 0 /\ UNCHANGED <<ours, theirs, told>>
  BY <1>1 DEF Handle, DispatchForResults, Construct
<1>3. theirs.reply \in Seq(Types)
  BY DefinitionTypes DEF Inv, TypesOK
<1>4. PickleOK(pickle') /\ WritingOK'
  BY <1>1, <1>3, ConstructOK
<1>5. TypesOK'
  <2>1. Sent' = theirs.reply
    BY <1>2 DEF Sent
  <2>2. ours' \in Definitions /\ theirs' \in Definitions /\ theirs'.sync = ours'.sync
    BY <1>2 DEF Inv, TypesOK
  <2>3. told' \in {"nothing", "true", "false"} /\ (~ours'.sync => told' = "nothing")
    BY <1>2 DEF Inv, TypesOK
  <2>4. ours'.sync /\ reply' = TRUE /\ handled' = TRUE /\ stage' = "writing" /\ next' \in Nat
    BY <1>2
  <2>5. args' \in Arguments(Sent') /\ PickleOK(pickle')
    BY <1>1, <1>2, <1>4, <2>1
  <2>6. QED
    BY <2>2, <2>3, <2>4, <2>5 DEF TypesOK, Underway
<1>6. ReadingOK' /\ TellingOK' /\ ReadBackOK'
  BY <1>2 DEF ReadingOK, TellingOK, ReadBackOK
<1>7. QED
  BY <1>4, <1>5, <1>6 DEF Inv

LEMMA RefuseStep ==
  ASSUME Inv, Refuse
  PROVE  Inv' /\ (ReadBackOK => ReadBackOK')
<1>1. /\ ours.sync /\ ~reply /\ stage = "unreadable" /\ reply' = TRUE
      /\ stage' = "done" /\ told' = "false"
      /\ UNCHANGED <<ours, theirs, args, pickle, next, got, handled>>
  BY DEF Refuse
<1>2. TypesOK'
  BY <1>1 DEF Inv, TypesOK, Underway
<1>3. TellingOK'
  <2>1. told' # "true" /\ stage' = "done"
    BY <1>1
  <2>2. QED
    BY <2>1, Zenon DEF TellingOK
<1>4. WritingOK' /\ ReadingOK'
  BY <1>1 DEF WritingOK, ReadingOK
<1>5. ReadBackOK => ReadBackOK'
  BY <1>1 DEF ReadBackOK
<1>6. QED
  BY <1>2, <1>3, <1>4, <1>5 DEF Inv

LEMMA PutOffStep ==
  ASSUME Inv, PutOff
  PROVE  Inv' /\ (ReadBackOK => ReadBackOK')
<1>1. /\ ours.sync /\ ~reply /\ reply' = TRUE /\ handled' = TRUE
      /\ stage' = "done" /\ told' = "false"
      /\ UNCHANGED <<ours, theirs, args, pickle, next, got>>
  BY DEF PutOff, DispatchToMethod
<1>2. TypesOK'
  BY <1>1 DEF Inv, TypesOK, Underway
<1>3. WritingOK' /\ ReadingOK' /\ TellingOK'
  BY <1>1 DEF WritingOK, ReadingOK, TellingOK
<1>4. ReadBackOK => ReadBackOK'
  BY <1>1 DEF ReadBackOK
<1>5. QED
  BY <1>2, <1>3, <1>4 DEF Inv

LEMMA IgnoreStep ==
  ASSUME Inv, Ignore
  PROVE  Inv' /\ (ReadBackOK => ReadBackOK')
<1>1. /\ ours.sync /\ reply /\ stage = "reading" /\ told = "false"
      /\ stage' = "done" /\ told' = told /\ handled' = handled
      /\ UNCHANGED <<ours, theirs, reply, args, pickle, next, got>>
  BY DEF Ignore
<1>2. TypesOK'
  BY <1>1 DEF Inv, TypesOK, Underway
<1>3. TellingOK'
  <2>1. told' # "true" /\ stage' = "done"
    BY <1>1
  <2>2. QED
    BY <2>1, Zenon DEF TellingOK
<1>4. WritingOK' /\ ReadingOK'
  BY <1>1 DEF WritingOK, ReadingOK
<1>5. ReadBackOK => ReadBackOK'
  BY <1>1 DEF ReadBackOK
<1>6. QED
  BY <1>2, <1>3, <1>4, <1>5 DEF Inv

LEMMA GiveUpStep ==
  ASSUME Inv, GiveUp
  PROVE  Inv' /\ (ReadBackOK => ReadBackOK')
<1>1. /\ ours' = ours /\ theirs' = theirs /\ stage' = stage /\ reply' = reply
      /\ args' = args /\ pickle' = pickle /\ next' = next /\ got' = got
      /\ handled' = handled /\ told' = "false" /\ ours.sync
  BY DEF GiveUp, InCall
<1>2. Sent' = Sent /\ Reads' = Reads /\ Underway' = Underway
  BY <1>1 DEF Sent, Reads, Underway
<1>3. (\A n : Offset(n)' = Offset(n)) /\ \A n : Stored(n)' = Stored(n)
  BY <1>1, StoredStays
<1>4. TypesOK'
  BY <1>1, <1>2 DEF Inv, TypesOK
<1>5. WritingOK'
  BY <1>1, <1>3 DEF Inv, WritingOK, Offset, Stored
<1>6. ReadingOK'
  BY <1>1, <1>2, <1>3 DEF Inv, ReadingOK, Offset, Stored
<1>7. TellingOK'
  BY <1>1, Zenon DEF Inv, TellingOK
<1>8. ReadBackOK => ReadBackOK'
  BY <1>1, <1>2, <1>3 DEF ReadBackOK, Offset
<1>9. QED
  BY <1>4, <1>5, <1>6, <1>7, <1>8 DEF Inv

LEMMA ReturnStep ==
  ASSUME Inv, Return
  PROVE  Inv' /\ (ReadBackOK => ReadBackOK')
<1>1. /\ ours.sync /\ reply /\ told = "nothing"
      /\ (stage = "unreadable" \/ Complete)
      /\ stage' = "done" /\ told' = "true"
      /\ UNCHANGED <<ours, theirs, reply, args, pickle, next, got, handled>>
  BY DEF Return
<1>2. stage # "done"
  BY <1>1 DEF Complete
<1>3. handled /\ handled'
  BY <1>1, <1>2, Zenon DEF Inv, TellingOK
<1>4. TypesOK'
  BY <1>1 DEF Inv, TypesOK, Underway
<1>5. TellingOK'
  BY <1>1, <1>3, Zenon DEF TellingOK
<1>6. WritingOK' /\ ReadingOK'
  BY <1>1 DEF WritingOK, ReadingOK
<1>7. ReadBackOK => ReadBackOK'
  BY <1>1, <1>3, ReadAll DEF ReadBackOK
<1>8. QED
  BY <1>4, <1>5, <1>6, <1>7 DEF Inv

LEMMA Stutters ==
  ASSUME UNCHANGED vars
  PROVE  (Inv => Inv') /\ (ReadBackOK => ReadBackOK')
<1>1. /\ ours' = ours /\ theirs' = theirs /\ stage' = stage /\ reply' = reply
      /\ args' = args /\ pickle' = pickle /\ next' = next /\ got' = got
      /\ handled' = handled /\ told' = told
  BY DEF vars
<1>2. Sent' = Sent /\ Reads' = Reads /\ Underway' = Underway
  BY <1>1 DEF Sent, Reads, Underway
<1>3. (\A n : Offset(n)' = Offset(n)) /\ \A n : Stored(n)' = Stored(n)
  BY <1>1, StoredStays
<1>4. TypesOK => TypesOK'
  BY <1>1, <1>2 DEF TypesOK
<1>5. WritingOK => WritingOK'
  BY <1>1, <1>3 DEF WritingOK, Offset, Stored
<1>6. ReadingOK => ReadingOK'
  BY <1>1, <1>2, <1>3 DEF ReadingOK, Offset, Stored
<1>7. TellingOK => TellingOK'
  BY <1>1 DEF TellingOK
<1>8. ReadBackOK => ReadBackOK'
  BY <1>1, <1>2, <1>3 DEF ReadBackOK, Offset
<1>9. QED
  BY <1>4, <1>5, <1>6, <1>7, <1>8 DEF Inv
-----------------------------------------------------------------------------
(***************************************************************************)
(* Theorems.                                                               *)
(***************************************************************************)
LEMMA NextKeeps ==
  ASSUME Inv, [Next]_vars
  PROVE  Inv' /\ (FewArguments /\ ReadBackOK => ReadBackOK')
<1>1. CASE Call
  BY <1>1, CallStep
<1>2. CASE Write
  BY <1>2, WriteStep
<1>3. CASE Send
  BY <1>3, SendStep
<1>4. CASE Read
  BY <1>4, ReadStep, ReadBackStep
<1>5. CASE Dispatch
  BY <1>5, DispatchStep
<1>6. CASE Drop
  BY <1>6, DropStep
<1>7. CASE Handle
  BY <1>7, HandleStep
<1>8. CASE Refuse
  BY <1>8, RefuseStep
<1>9. CASE Return
  BY <1>9, ReturnStep
<1>10. CASE PutOff
  BY <1>10, PutOffStep
<1>11. CASE GiveUp
  BY <1>11, GiveUpStep
<1>12. CASE Ignore
  BY <1>12, IgnoreStep
<1>13. CASE UNCHANGED vars
  BY <1>13, Stutters
<1>14. QED
  BY <1>1, <1>2, <1>3, <1>4, <1>5, <1>6, <1>7, <1>8, <1>9, <1>10, <1>11, <1>12, <1>13
     DEF Next

\* A message on its way has the arguments of its types, in the words that are theirs,
\* and a reply is on its way only if its handler was called: the constructors,
\* WriteParam and Dispatch of PIpcMessageUtils.h.
THEOREM PickleCorrect == Spec => []Inv
<1>1. Init => Inv
  BY InitOK
<1>2. Inv /\ [Next]_vars => Inv'
  BY NextKeeps
<1>3. QED
  BY <1>1, <1>2, PTL DEF Spec

\* The length reserved for the arguments is the length their writing takes, so no
\* write is dropped (PIpcMessageWithTuple, Pickle::lengthOf, Pickle::writeBytes).
THEOREM WritesFit == Spec => []Fits
<1>1. Inv => Fits
  <2> SUFFICES ASSUME Inv, stage = "writing"
               PROVE  pickle.position + ParamLength(SubSeq(args, next + 1, Len(args)))
                        = pickle.capacity
    BY DEF Fits
  <2>1. /\ next \in 0 .. Len(args) /\ pickle.position = Offset(next + 1)
        /\ args \in Seq(Values) /\ pickle.capacity \in Nat
    BY ArgumentTypes DEF Inv, WritingOK, TypesOK, Underway, PickleOK
  <2>2. next + 1 \in 1 .. Len(args) + 1
    BY <2>1
  <2>3. ParamLength(Rest(args, next + 1)) \in Nat
    BY <2>1, <2>2, LengthOfRest
  <2>4. pickle.position + ParamLength(Rest(args, next + 1)) = pickle.capacity
    BY <2>1, <2>3 DEF Offset
  <2>5. QED
    BY <2>4 DEF Rest
<1>2. QED
  BY <1>1, PickleCorrect, PTL

\* No read leaves the payload, whatever the reader takes it for (Pickle::hasRoomFor,
\* Pickle::updateIter).
THEOREM ReadsStayInside == Spec => []InBounds
<1>1. Inv => InBounds
  BY DEF Inv, TypesOK, PickleOK, InBounds
<1>2. QED
  BY <1>1, PickleCorrect, PTL

\* The caller is told true only if the handler was called, whatever the builds of
\* the two processes and whenever the caller gives up
\* (PIpcMessageWithReply::Dispatch, PIpcChannel::sendSyncMessage).
THEOREM CallersAreTold == Spec => []TellsIfHandled
<1>1. Inv => TellsIfHandled
  BY DEF Inv, TypesOK, TellingOK, TellsIfHandled
<1>2. QED
  BY <1>1, PickleCorrect, PTL

\* Between processes of one build the handler gets the arguments of the call and a
\* caller that has not given up its results, for messages of up to seven arguments: those with eight get no
\* identifier from PIpcMessageMacros.h, and ParamTraits<Tuple8> swaps their last two.
THEOREM ArgumentsArrive ==
  ASSUME FewArguments
  PROVE  Spec => []Faithful
<1>1. Init => Inv /\ ReadBackOK
  BY InitOK
<1>2. Inv /\ ReadBackOK /\ [Next]_vars => Inv' /\ ReadBackOK'
  BY NextKeeps, FewArguments
<1>3. Inv /\ ReadBackOK => Faithful
  BY ReadAll DEF ReadBackOK, Faithful
<1>4. QED
  BY <1>1, <1>2, <1>3, PTL DEF Spec
=============================================================================
