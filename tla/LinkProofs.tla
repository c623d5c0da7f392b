----------------------------- MODULE LinkProofs -----------------------------
(***************************************************************************)
(* The channels implement AsyncLink: whatever the sockets take, whichever  *)
(* end goes down, whichever threads send and however deep calls nest, an   *)
(* asynchronous message is delivered in order, at most once, and only by a *)
(* channel that is up.                                                     *)
(***************************************************************************)
EXTENDS CallProofs
-----------------------------------------------------------------------------
(***************************************************************************)
(* Induction over the natural numbers, from the least element of a set.    *)
(***************************************************************************)
LEMMA LeastNumber ==
  ASSUME NEW S \in SUBSET Nat, S # {}
  PROVE \E n \in S : \A m \in S : n <= m
<1> DEFINE T == {1 .. n : n \in S}
<1>1. T \subseteq FiniteSubsetsOf(Nat) /\ T # {}
  <2>1. \A n \in S : IsFiniteSet(1 .. n) /\ 1 .. n \subseteq Nat
    BY FS_Interval
  <2>2. QED
    BY <2>1 DEF FiniteSubsetsOf
<1>2. IsWellFoundedOn(StrictSubsetOrdering(Nat), FiniteSubsetsOf(Nat))
  BY FS_StrictSubsetOrderingWellFounded
<1> HIDE DEF T
<1>3. PICK x \in T : \A y \in T : ~ (<<y, x>> \in StrictSubsetOrdering(Nat))
  BY <1>1, <1>2, WFMin
<1>4. PICK n \in S : x = 1 .. n
  BY <1>3 DEF T
<1>5. ASSUME NEW m \in S, m < n PROVE FALSE
  <2>1. 1 .. m \in T /\ 1 .. m \subseteq 1 .. n /\ 1 .. m # 1 .. n
    BY <1>5 DEF T
  <2>2. 1 .. m \in SUBSET Nat /\ 1 .. n \in SUBSET Nat
    BY <1>5
  <2>3. QED
    BY <1>3, <1>4, <2>1, <2>2 DEF StrictSubsetOrdering
<1>6. QED
  BY <1>5

\* A set with 0 and the successor of each of its members has every number.
LEMMA Induction ==
  ASSUME NEW S, 0 \in S, \A n \in Nat : n \in S => n + 1 \in S
  PROVE  \A n \in Nat : n \in S
<1> SUFFICES ASSUME Nat \ S # {} PROVE FALSE
  OBVIOUS
<1>1. PICK n \in Nat \ S : \A m \in Nat \ S : n <= m
  BY LeastNumber
<1>2. n # 0 /\ n - 1 \in Nat /\ ~(n <= n - 1) /\ (n - 1) + 1 = n
  BY <1>1
<1>3. n - 1 \in S
  BY <1>1, <1>2
<1>4. QED
  BY <1>1, <1>2, <1>3
-----------------------------------------------------------------------------
(***************************************************************************)
(* Async is a homomorphism.  Kept says what its recursive function is.     *)
(***************************************************************************)
OnlyAsync(m) == IF m.kind \in AsyncKinds THEN <<m>> ELSE <<>>

Kept(f, s) ==
  f = [n \in 0 .. Len(s) |-> IF n = 0 THEN <<>>
                             ELSE f[n - 1] \o OnlyAsync(s[n])]

LEMMA AsyncIsKept ==
  ASSUME NEW s, \E f : Kept(f, s)
  PROVE  \E f : Kept(f, s) /\ Async(s) = f[Len(s)]
<1> DEFINE f == CHOOSE f : Kept(f, s)
<1>1. Kept(f, s)
  OBVIOUS
<1>2. Async(s) = f[Len(s)]
  BY DEF Async, Kept, OnlyAsync
<1>3. QED
  BY <1>1, <1>2

\* The function for a longer sequence agrees with that for a shorter one.
LEMMA KeptAgree ==
  ASSUME NEW A, NEW s \in Seq(A), NEW a \in A, NEW f, NEW g,
         Kept(f, s), Kept(g, Append(s, a))
  PROVE  g[Len(s)] = f[Len(s)] /\ g[Len(s) + 1] = g[Len(s)] \o OnlyAsync(a)
<1> DEFINE t == Append(s, a)
           S == {n \in Nat : n <= Len(s) => g[n] = f[n]}
<1>1. /\ Len(s) \in Nat /\ Len(t) = Len(s) + 1 /\ t[Len(s) + 1] = a
      /\ \A n \in 1 .. Len(s) : t[n] = s[n]
  OBVIOUS
<1> HIDE DEF t
<1>2. Kept(g, t)
  BY DEF t
<1>3. 0 \in S
  BY <1>1, <1>2 DEF Kept
<1>4. ASSUME NEW n \in Nat, n \in S PROVE n + 1 \in S
  <2> SUFFICES ASSUME n + 1 <= Len(s) PROVE g[n + 1] = f[n + 1]
    OBVIOUS
  <2>1. n + 1 \in 1 .. Len(s) /\ n + 1 \in 0 .. Len(t) /\ n + 1 # 0
        /\ (n + 1) - 1 = n /\ n + 1 \in 0 .. Len(s)
    BY <1>1
  <2>2. g[n + 1] = g[n] \o OnlyAsync(t[n + 1])
    BY <1>2, <2>1 DEF Kept
  <2>3. f[n + 1] = f[n] \o OnlyAsync(s[n + 1])
    BY <2>1 DEF Kept
  <2>4. g[n] = f[n]
    BY <1>1, <1>4
  <2>5. t[n + 1] = s[n + 1]
    BY <1>1, <2>1
  <2>6. QED
    BY <2>2, <2>3, <2>4, <2>5
<1>5. \A n \in Nat : n \in S
  <2> HIDE DEF S
  <2>1. QED
    BY <1>3, <1>4, Induction
<1>6. g[Len(s)] = f[Len(s)]
  BY <1>1, <1>5
<1>7. g[Len(s) + 1] = g[Len(s)] \o OnlyAsync(a)
  <2>1. Len(s) + 1 \in 0 .. Len(t) /\ Len(s) + 1 # 0
        /\ (Len(s) + 1) - 1 = Len(s)
    BY <1>1
  <2>2. g[Len(s) + 1] = g[Len(s)] \o OnlyAsync(t[Len(s) + 1])
    BY <1>2, <2>1 DEF Kept
  <2>3. QED
    BY <1>1, <2>2
<1>8. QED
  BY <1>6, <1>7

LEMMA KeptExists ==
  ASSUME NEW A
  PROVE  \A s \in Seq(A) : \E f : Kept(f, s)
<1> DEFINE S == {n \in Nat : \A s \in Seq(A) : Len(s) = n => \E f : Kept(f, s)}
<1>1. 0 \in S
  <2> SUFFICES ASSUME NEW s \in Seq(A), Len(s) = 0 PROVE \E f : Kept(f, s)
    OBVIOUS
  <2> DEFINE f == [n \in 0 .. 0 |-> <<>>]
  <2>1. Kept(f, s)
    BY DEF Kept
  <2>2. QED
    BY <2>1
<1>2. ASSUME NEW n \in Nat, n \in S PROVE n + 1 \in S
  <2> SUFFICES ASSUME NEW s \in Seq(A), Len(s) = n + 1 PROVE \E f : Kept(f, s)
    OBVIOUS
  <2> DEFINE t == SubSeq(s, 1, n)
  <2>1. t \in Seq(A) /\ Len(t) = n /\ \A i \in 1 .. n : t[i] = s[i]
    OBVIOUS
  <2>2. PICK f : Kept(f, t)
    BY <1>2, <2>1
  <2> HIDE DEF t
  <2> DEFINE g == [i \in 0 .. Len(s) |-> IF i <= n THEN f[i]
                                         ELSE f[n] \o OnlyAsync(s[i])]
  <2>3. \A i \in 0 .. n : f[i] = IF i = 0 THEN <<>>
                                 ELSE f[i - 1] \o OnlyAsync(s[i])
    <3>1. \A i \in 0 .. n : f[i] = IF i = 0 THEN <<>>
                                   ELSE f[i - 1] \o OnlyAsync(t[i])
      BY <2>1, <2>2 DEF Kept
    <3>2. QED
      BY <2>1, <3>1
  <2>4. ASSUME NEW i \in 0 .. Len(s)
        PROVE  g[i] = IF i = 0 THEN <<>> ELSE g[i - 1] \o OnlyAsync(s[i])
    <3>1. CASE i <= n
      <4>1. i \in 0 .. n /\ (i # 0 => i - 1 \in 0 .. Len(s) /\ i - 1 <= n)
        BY <3>1
      <4>2. g[i] = f[i] /\ (i # 0 => g[i - 1] = f[i - 1])
        BY <3>1, <4>1
      <4> HIDE DEF g
      <4>3. QED
        BY <2>3, <4>1, <4>2
    <3>2. CASE ~(i <= n)
      <4>1. i = n + 1 /\ i # 0 /\ i - 1 = n /\ n \in 0 .. Len(s)
        BY <3>2
      <4>2. g[i] = f[n] \o OnlyAsync(s[i])
        BY <3>2
      <4>3. g[n] = f[n]
        BY <4>1
      <4> HIDE DEF g
      <4>4. QED
        BY <4>1, <4>2, <4>3
    <3>3. QED
      BY <3>1, <3>2
  <2>5. DOMAIN g = 0 .. Len(s) /\ g = [i \in DOMAIN g |-> g[i]]
    OBVIOUS
  <2> HIDE DEF g
  <2>6. Kept(g, s)
    BY <2>4, <2>5 DEF Kept
  <2>7. QED
    BY <2>6
<1>3. \A n \in Nat : n \in S
  <2> HIDE DEF S
  <2>1. QED
    BY <1>1, <1>2, Induction
<1>4. QED
  BY <1>3

LEMMA AsyncOfEmpty == Async(<<>>) = <<>>
<1>1. <<>> \in Seq(Nat) /\ Len(<<>>) = 0
  OBVIOUS
<1>2. PICK f : Kept(f, <<>>) /\ Async(<<>>) = f[Len(<<>>)]
  BY <1>1, KeptExists, AsyncIsKept
<1>3. f[0] = <<>>
  BY <1>1, <1>2 DEF Kept
<1>4. QED
  BY <1>1, <1>2, <1>3

LEMMA AsyncOfAppend ==
  ASSUME NEW A, NEW s \in Seq(A), NEW a \in A
  PROVE  Async(Append(s, a)) = Async(s) \o OnlyAsync(a)
<1> DEFINE t == Append(s, a)
<1>1. t \in Seq(A) /\ Len(t) = Len(s) + 1
  OBVIOUS
<1>2. PICK f : Kept(f, s) /\ Async(s) = f[Len(s)]
  BY KeptExists, AsyncIsKept
<1>3. PICK g : Kept(g, t) /\ Async(t) = g[Len(t)]
  <2> HIDE DEF t
  <2>1. QED
    BY <1>1, KeptExists, AsyncIsKept
<1>4. g[Len(s)] = f[Len(s)] /\ g[Len(s) + 1] = g[Len(s)] \o OnlyAsync(a)
  BY <1>2, <1>3, KeptAgree
<1> HIDE DEF t
<1>5. QED
  BY <1>1, <1>2, <1>3, <1>4 DEF t

LEMMA AsyncOfOne ==
  ASSUME NEW A, NEW a \in A
  PROVE  Async(<<a>>) = OnlyAsync(a)
<1>1. <<>> \in Seq(A) /\ Append(<<>>, a) = <<a>>
  OBVIOUS
<1>2. Async(<<a>>) = Async(<<>>) \o OnlyAsync(a)
  BY <1>1, AsyncOfAppend
<1>3. <<>> \o OnlyAsync(a) = OnlyAsync(a)
  BY DEF OnlyAsync
<1>4. QED
  BY <1>2, <1>3, AsyncOfEmpty

\* The last element of a sequence and what is before it.
LEMMA FrontAndLast ==
  ASSUME NEW A, NEW n \in Nat, NEW s \in Seq(A), Len(s) = n + 1
  PROVE  \E t \in Seq(A), a \in A : s = Append(t, a) /\ Len(t) = n
<1> DEFINE t == SubSeq(s, 1, n)
           a == s[n + 1]
<1>1. t \in Seq(A) /\ a \in A /\ Len(t) = n /\ \A i \in 1 .. n : t[i] = s[i]
  OBVIOUS
<1>2. s = Append(t, a)
  BY <1>1
<1>3. QED
  BY <1>1, <1>2

LEMMA AsyncType ==
  ASSUME NEW A
  PROVE  \A s \in Seq(A) : Async(s) \in Seq(A)
<1> DEFINE S == {n \in Nat : \A s \in Seq(A) : Len(s) = n => Async(s) \in Seq(A)}
<1>1. 0 \in S
  <2>1. ASSUME NEW s \in Seq(A), Len(s) = 0 PROVE Async(s) \in Seq(A)
    <3>1. s = <<>>
      BY <2>1
    <3>2. QED
      BY <3>1, AsyncOfEmpty
  <2>2. QED
    BY <2>1
<1>2. ASSUME NEW n \in Nat, n \in S PROVE n + 1 \in S
  <2> SUFFICES ASSUME NEW s \in Seq(A), Len(s) = n + 1
               PROVE  Async(s) \in Seq(A)
    OBVIOUS
  <2>1. PICK t \in Seq(A), a \in A : s = Append(t, a) /\ Len(t) = n
    BY FrontAndLast
  <2>2. Async(t) \in Seq(A)
    BY <1>2, <2>1
  <2>3. OnlyAsync(a) \in Seq(A)
    BY DEF OnlyAsync
  <2>4. Async(s) = Async(t) \o OnlyAsync(a)
    BY <2>1, AsyncOfAppend
  <2>5. QED
    BY <2>2, <2>3, <2>4
<1>3. \A n \in Nat : n \in S
  <2> HIDE DEF S
  <2>1. QED
    BY <1>1, <1>2, Induction
<1>4. QED
  BY <1>3

LEMMA AsyncOfConcat ==
  ASSUME NEW A, NEW s \in Seq(A)
  PROVE  \A t \in Seq(A) : Async(s \o t) = Async(s) \o Async(t)
<1> DEFINE S == {n \in Nat : \A t \in Seq(A) :
                   Len(t) = n => Async(s \o t) = Async(s) \o Async(t)}
<1>0. Async(s) \in Seq(A)
  BY AsyncType
<1>1. 0 \in S
  <2>1. ASSUME NEW t \in Seq(A), Len(t) = 0
        PROVE  Async(s \o t) = Async(s) \o Async(t)
    <3>1. t = <<>> /\ s \o <<>> = s /\ Async(s) \o <<>> = Async(s)
      BY <1>0, <2>1
    <3>2. QED
      BY <3>1, AsyncOfEmpty
  <2>2. QED
    BY <2>1
<1>2. ASSUME NEW n \in Nat, n \in S PROVE n + 1 \in S
  <2> SUFFICES ASSUME NEW t \in Seq(A), Len(t) = n + 1
               PROVE  Async(s \o t) = Async(s) \o Async(t)
    OBVIOUS
  <2>1. PICK u \in Seq(A), a \in A : t = Append(u, a) /\ Len(u) = n
    BY FrontAndLast
  <2>2. s \o t = Append(s \o u, a) /\ s \o u \in Seq(A)
    BY <2>1
  <2>3. /\ Async(s \o t) = Async(s \o u) \o OnlyAsync(a)
        /\ Async(t) = Async(u) \o OnlyAsync(a)
    BY <2>1, <2>2, AsyncOfAppend
  <2>4. Async(s \o u) = Async(s) \o Async(u)
    BY <1>2, <2>1
  <2>5. /\ Async(u) \in Seq(A) /\ OnlyAsync(a) \in Seq(A)
    BY AsyncType DEF OnlyAsync
  <2>6. \A x, y, z \in Seq(A) : (x \o y) \o z = x \o (y \o z)
    <3> TAKE x, y, z \in Seq(A)
    <3>1. QED
      OBVIOUS
  <2>7. (Async(s) \o Async(u)) \o OnlyAsync(a)
          = Async(s) \o (Async(u) \o OnlyAsync(a))
    BY <1>0, <2>5, <2>6
  <2>8. QED
    BY <2>3, <2>4, <2>7
<1>3. \A n \in Nat : n \in S
  <2> HIDE DEF S
  <2>1. QED
    BY <1>1, <1>2, Induction
<1>4. QED
  BY <1>3
-----------------------------------------------------------------------------
(***************************************************************************)
(* The numbers of messages: a was put on the link by an end, b waits to be,*)
(* and n is the next number that end gives.                                *)
(***************************************************************************)
Items == Messages \cup {Gone}

Distinct(s) == \A i, j \in DOMAIN s : s[i] = s[j] => i = j

Apart(s, t) == \A i \in DOMAIN s, j \in DOMAIN t : s[i] # t[j]

Older(s, n) == \A i \in DOMAIN s : s[i].id < n

Numbers(a, b, n) ==
  Distinct(a) /\ Distinct(b) /\ Apart(a, b) /\ Older(a, n) /\ Older(b, n)

LEMMA ItemTypes ==
  /\ \A s \in Seq(Messages) : s \in Seq(Items)
  /\ \A m \in Items : m.id \in Nat
  /\ <<>> \in Seq(Items)
<1>1. Messages \subseteq Items
  BY DEF Items
<1>2. \A m \in Items : m.id \in Nat
  BY DEF Items, Messages, Gone
<1>3. \A s \in Seq(Messages) : s \in Seq(Items)
  BY <1>1
<1>4. QED
  BY <1>2, <1>3

\* The elements of a concatenation, by their place.
LEMMA ConcatPlaces ==
  ASSUME NEW A, NEW s \in Seq(A), NEW t \in Seq(A), NEW i \in DOMAIN (s \o t)
  PROVE  \/ i \in DOMAIN s /\ (s \o t)[i] = s[i]
         \/ i - Len(s) \in DOMAIN t /\ (s \o t)[i] = t[i - Len(s)]
            /\ i \notin DOMAIN s
OBVIOUS

LEMMA ConcatDistinct ==
  ASSUME NEW A, NEW s \in Seq(A), NEW t \in Seq(A),
         Distinct(s), Distinct(t), Apart(s, t)
  PROVE  Distinct(s \o t)
<1> SUFFICES ASSUME NEW i \in DOMAIN (s \o t), NEW j \in DOMAIN (s \o t),
                    (s \o t)[i] = (s \o t)[j]
             PROVE  i = j
  BY DEF Distinct
<1> DEFINE u == s \o t
<1>1. \A k \in DOMAIN u : \/ k \in DOMAIN s /\ u[k] = s[k]
                          \/ k - Len(s) \in DOMAIN t /\ u[k] = t[k - Len(s)]
  BY ConcatPlaces
<1>2. i \in Int /\ j \in Int /\ Len(s) \in Int
  OBVIOUS
<1>3. i \in DOMAIN u /\ j \in DOMAIN u /\ u[i] = u[j]
  OBVIOUS
<1> HIDE DEF u
<1>4. CASE i \in DOMAIN s /\ u[i] = s[i] /\ j \in DOMAIN s /\ u[j] = s[j]
  BY <1>3, <1>4 DEF Distinct
<1>5. CASE /\ i - Len(s) \in DOMAIN t /\ u[i] = t[i - Len(s)]
           /\ j - Len(s) \in DOMAIN t /\ u[j] = t[j - Len(s)]
  <2>1. i - Len(s) = j - Len(s)
    BY <1>3, <1>5 DEF Distinct
  <2>2. QED
    BY <1>2, <2>1
<1>6. CASE \/ i \in DOMAIN s /\ u[i] = s[i] /\ j - Len(s) \in DOMAIN t
              /\ u[j] = t[j - Len(s)]
           \/ j \in DOMAIN s /\ u[j] = s[j] /\ i - Len(s) \in DOMAIN t
              /\ u[i] = t[i - Len(s)]
  BY <1>3, <1>6 DEF Apart
<1>7. QED
  BY <1>1, <1>3, <1>4, <1>5, <1>6

LEMMA ConcatOlder ==
  ASSUME NEW A, NEW s \in Seq(A), NEW t \in Seq(A), NEW n,
         Older(s, n), Older(t, n)
  PROVE  Older(s \o t, n)
<1> SUFFICES ASSUME NEW i \in DOMAIN (s \o t) PROVE (s \o t)[i].id < n
  BY DEF Older
<1>1. \/ i \in DOMAIN s /\ (s \o t)[i] = s[i]
      \/ i - Len(s) \in DOMAIN t /\ (s \o t)[i] = t[i - Len(s)]
  BY ConcatPlaces
<1>2. QED
  BY <1>1 DEF Older

LEMMA ConcatApart ==
  ASSUME NEW A, NEW s \in Seq(A), NEW t \in Seq(A), NEW u,
         Apart(s, u), Apart(t, u)
  PROVE  Apart(s \o t, u)
<1> SUFFICES ASSUME NEW i \in DOMAIN (s \o t), NEW j \in DOMAIN u
             PROVE  (s \o t)[i] # u[j]
  BY DEF Apart
<1>1. \/ i \in DOMAIN s /\ (s \o t)[i] = s[i]
      \/ i - Len(s) \in DOMAIN t /\ (s \o t)[i] = t[i - Len(s)]
  BY ConcatPlaces
<1>2. QED
  BY <1>1 DEF Apart

LEMMA ApartSwap ==
  ASSUME NEW s, NEW t, Apart(s, t)
  PROVE  Apart(t, s)
BY DEF Apart

LEMMA OlderMore ==
  ASSUME NEW s \in Seq(Items), NEW n \in Nat, NEW k \in Nat, n <= k, Older(s, n)
  PROVE  Older(s, k)
<1> SUFFICES ASSUME NEW i \in DOMAIN s PROVE s[i].id < k
  BY DEF Older
<1>1. s[i] \in Items
  OBVIOUS
<1>2. s[i].id < n /\ s[i].id \in Nat
  BY <1>1, ItemTypes DEF Older
<1>3. QED
  BY <1>2

\* A message with the next number differs from all older ones.
LEMMA NextIsApart ==
  ASSUME NEW s \in Seq(Items), NEW n \in Nat, Older(s, n),
         NEW m \in Items, m.id = n
  PROVE  Apart(s, <<m>>) /\ Distinct(<<m>>) /\ Older(<<m>>, n + 1)
<1>1. ASSUME NEW i \in DOMAIN s PROVE s[i] # m
  <2>1. s[i].id < n
    BY DEF Older
  <2>2. QED
    BY <2>1
<1>2. DOMAIN <<m>> = {1} /\ <<m>>[1] = m
  OBVIOUS
<1>3. Apart(s, <<m>>)
  BY <1>1, <1>2 DEF Apart
<1>4. QED
  BY <1>2, <1>3 DEF Distinct, Older

LEMMA NumbersLater ==
  ASSUME NEW a \in Seq(Items), NEW b \in Seq(Items), NEW n \in Nat, NEW k \in Nat,
         n <= k, Numbers(a, b, n)
  PROVE  Numbers(a, b, k)
BY OlderMore DEF Numbers

\* The next message is put on the link at once.
LEMMA NumbersSent ==
  ASSUME NEW a \in Seq(Items), NEW b \in Seq(Items), NEW n \in Nat,
         Numbers(a, b, n), NEW m \in Items, m.id = n
  PROVE  Numbers(a \o <<m>>, b, n + 1)
<1>1. <<m>> \in Seq(Items) /\ n <= n + 1 /\ n + 1 \in Nat
  OBVIOUS
<1>2. Apart(a, <<m>>) /\ Distinct(<<m>>) /\ Older(<<m>>, n + 1)
      /\ Apart(b, <<m>>)
  BY NextIsApart DEF Numbers
<1>3. Older(a, n + 1) /\ Older(b, n + 1)
  BY <1>1, OlderMore DEF Numbers
<1>4. Distinct(a \o <<m>>)
  BY <1>1, <1>2, ConcatDistinct DEF Numbers
<1>5. Older(a \o <<m>>, n + 1)
  BY <1>1, <1>2, <1>3, ConcatOlder
<1>6. Apart(<<m>>, b)
  BY <1>2, ApartSwap
<1>7. Apart(a \o <<m>>, b)
  BY <1>1, <1>6, ConcatApart DEF Numbers
<1>8. QED
  BY <1>3, <1>4, <1>5, <1>7 DEF Numbers

\* The next message waits.
LEMMA NumbersQueued ==
  ASSUME NEW a \in Seq(Items), NEW b \in Seq(Items), NEW n \in Nat,
         Numbers(a, b, n), NEW m \in Items, m.id = n
  PROVE  Numbers(a, b \o <<m>>, n + 1)
<1>1. Numbers(b, a, n)
  BY ApartSwap DEF Numbers
<1>2. Numbers(b \o <<m>>, a, n + 1)
  BY <1>1, NumbersSent
<1>3. QED
  BY <1>2, ApartSwap DEF Numbers

\* What waits is put on the link.
LEMMA NumbersDrained ==
  ASSUME NEW a \in Seq(Items), NEW b \in Seq(Items), NEW n, Numbers(a, b, n)
  PROVE  Numbers(a \o b, <<>>, n)
<1>1. Distinct(a \o b)
  BY ConcatDistinct DEF Numbers
<1>2. Older(a \o b, n)
  BY ConcatOlder DEF Numbers
<1>3. DOMAIN <<>> = {}
  OBVIOUS
<1>4. QED
  BY <1>1, <1>2, <1>3 DEF Numbers, Distinct, Older, Apart

LEMMA PrefixOfConcat ==
  ASSUME NEW A, NEW s \in Seq(A), NEW t \in Seq(A)
  PROVE  Link!IsPrefix(s, s \o t)
<1>1. Len(s) <= Len(s \o t)
  OBVIOUS
<1>2. SubSeq(s, 1, Len(s)) = SubSeq(s \o t, 1, Len(s))
  OBVIOUS
<1>3. QED
  BY <1>1, <1>2 DEF Link!IsPrefix
-----------------------------------------------------------------------------
(***************************************************************************)
(* The inductive invariant.  Numbers that a live end gave are in use once, *)
(* on the link or with the other threads; a live channel has not queued    *)
(* the disconnect message; a dead one delivers nothing before it.          *)
(***************************************************************************)
\* The asynchronous messages for e that were put on the link.
Seen(e) == got[e] \o InTransit(e)

NumbersOK(e) ==
  Live(e) => Numbers(Seen(e), Async(ch[Peer(e)].otherThread), ch[Peer(e)].nextId)

KindsOK(c) ==
  c.fd => \A j \in DOMAIN c.incomingAsync : c.incomingAsync[j].kind \in AsyncKinds

LateOK(c) ==
  Alive(c) /\ ~c.fd =>
    \/ c.incomingAsync # <<>> /\ Head(c.incomingAsync) = Gone
    \/ At(c) = "read"
    \/ c.dispatcherSrc = "spent" /\ ~HasFrame(c, {"dispatch", "idle"})

EndOK(c) == KindsOK(c) /\ LateOK(c)

Linked == \A e \in Ends : NumbersOK(e) /\ EndOK(ch[e])

\* What every step is shown to do.
LinkStep == Linked' /\ [Link!Next]_(Link!vars)
-----------------------------------------------------------------------------
(***************************************************************************)
(* What is in transit to the channel c, whose socket holds s and whose     *)
(* peer is q, when a channel writes, reads or goes down.                   *)
(***************************************************************************)
Left(q) == IF q.fd THEN Async(q.outgoing) ELSE <<>>

Transit(c, s, q) ==
  IF ~c.fd THEN <<>> ELSE Async(c.incomingAsync) \o Async(s) \o Left(q)

LEMMA TransitIs ==
  /\ \A e : InTransit(e) = Transit(ch[e], sock[e], ch[Peer(e)])
  /\ \A e : InTransit(e)' = Transit(ch'[e], sock'[e], ch'[Peer(e)])
BY DEF InTransit, Transit, Left

LEMMA ConcatAssociates ==
  ASSUME NEW A
  PROVE  \A x, y, z \in Seq(A) : (x \o y) \o z = x \o (y \o z)
<1> TAKE x, y, z \in Seq(A)
<1>1. QED
  OBVIOUS

LEMMA HeadAndTail ==
  ASSUME NEW A, NEW s \in Seq(A), s # <<>>
  PROVE  /\ Head(s) \in A /\ Tail(s) \in Seq(A) /\ <<Head(s)>> \in Seq(A)
         /\ <<Head(s)>> \o Tail(s) = s
<1>1. Head(s) \in A /\ Tail(s) \in Seq(A) /\ <<Head(s)>> \in Seq(A)
  OBVIOUS
<1>2. Len(<<Head(s)>> \o Tail(s)) = Len(s) /\ <<Head(s)>> \o Tail(s) \in Seq(A)
  BY <1>1
<1>3. \A i \in 1 .. Len(s) : (<<Head(s)>> \o Tail(s))[i] = s[i]
  OBVIOUS
<1>4. QED
  BY <1>1, <1>2, <1>3

LEMMA AsyncOfMessages ==
  /\ \A s \in Seq(Messages) : Async(s) \in Seq(Items)
  /\ \A s \in Seq(Items) : Async(s) \in Seq(Items)
BY AsyncType, ItemTypes

LEMMA TransitType ==
  ASSUME NEW c \in Channels, NEW s \in Seq(Messages), NEW q \in Channels
  PROVE  /\ Transit(c, s, q) \in Seq(Items)
         /\ Async(c.incomingAsync) \in Seq(Items) /\ Left(q) \in Seq(Items)
<1>1. c.incomingAsync \in Seq(Items) /\ q.outgoing \in Seq(Messages)
  BY DEF Channels, Items
<1>2. /\ Async(c.incomingAsync) \in Seq(Items) /\ Async(s) \in Seq(Items)
      /\ Left(q) \in Seq(Items) /\ <<>> \in Seq(Items)
  BY <1>1, AsyncOfMessages, ItemTypes DEF Left
<1>3. QED
  BY <1>2 DEF Transit

\* The peer c writes sent and keeps the rest, having added some output.
LEMMA TransitWrite ==
  ASSUME NEW q \in Channels, NEW s \in Seq(Messages), NEW c \in Channels,
         NEW d \in Channels, NEW sent \in Seq(Messages),
         NEW added \in Seq(Messages), q.fd, c.fd, d.fd,
         Writes(c, d, sent, added)
  PROVE  Transit(q, s \o sent, d) = Transit(q, s, c) \o Async(added)
<1> DEFINE i == Async(q.incomingAsync)
           a == Async(s)
           b == Async(sent)
           r == Async(d.outgoing)
           o == Async(c.outgoing)
           n == Async(added)
<1>1. c.outgoing \in Seq(Messages) /\ d.outgoing \in Seq(Messages)
  BY DEF Channels
<1>2. /\ i \in Seq(Items) /\ a \in Seq(Items) /\ b \in Seq(Items)
      /\ r \in Seq(Items) /\ o \in Seq(Items) /\ n \in Seq(Items)
  BY <1>1, AsyncOfMessages, TransitType
<1>3. Async(s \o sent) = a \o b
  BY AsyncOfConcat
<1>4. b \o r = o \o n
  <2>1. Async(sent \o d.outgoing) = b \o r
    BY <1>1, AsyncOfConcat
  <2>2. Async(c.outgoing \o added) = o \o n
    BY <1>1, AsyncOfConcat
  <2>3. QED
    BY <2>1, <2>2 DEF Writes
<1>5. /\ Transit(q, s \o sent, d) = (i \o Async(s \o sent)) \o r
      /\ Transit(q, s, c) = (i \o a) \o o
  BY DEF Transit, Left
<1> HIDE DEF i, a, b, r, o, n
<1>6. \A x, y, z \in Seq(Items) : (x \o y) \o z = x \o (y \o z)
  BY ConcatAssociates, SMTT(30)
<1>7. i \o a \in Seq(Items)
  BY <1>2
<1>8. (i \o (a \o b)) = (i \o a) \o b
  BY <1>2, <1>6, SMTT(30)
<1>9. ((i \o a) \o b) \o r = (i \o a) \o (b \o r)
  BY <1>2, <1>6, <1>7
<1>10. (i \o a) \o (o \o n) = ((i \o a) \o o) \o n
  BY <1>2, <1>6, <1>7
<1>11. QED
  BY <1>3, <1>4, <1>5, <1>8, <1>9, <1>10 DEF n

\* The peer c writes the first messages and goes down.
LEMMA TransitClose ==
  ASSUME NEW q \in Channels, NEW s \in Seq(Messages), NEW c \in Channels,
         NEW d \in Channels, NEW sent \in Seq(Messages), c.fd, ~d.fd,
         NEW rest \in Seq(Items), Async(c.outgoing) = Async(sent) \o rest
  PROVE  Link!IsPrefix(Transit(q, s \o sent, d), Transit(q, s, c))
<1> DEFINE i == Async(q.incomingAsync)
           a == Async(s)
           b == Async(sent)
<1>1. i \in Seq(Items) /\ a \in Seq(Items) /\ b \in Seq(Items)
  BY AsyncOfMessages, TransitType
<1>2. Async(s \o sent) = a \o b
  BY AsyncOfConcat
<1>3. CASE q.fd
  <2>1. /\ Transit(q, s \o sent, d) = (i \o Async(s \o sent)) \o <<>>
        /\ Transit(q, s, c) = (i \o a) \o (b \o rest)
    BY <1>3 DEF Transit, Left
  <2> HIDE DEF i, a, b
  <2>2. \A x, y, z \in Seq(Items) : (x \o y) \o z = x \o (y \o z)
    BY ConcatAssociates, SMTT(30)
  <2>3. i \o a \in Seq(Items) /\ (i \o a) \o b \in Seq(Items)
    BY <1>1
  <2>4. i \o (a \o b) = (i \o a) \o b
    BY <1>1, <2>2
  <2>5. (i \o a) \o (b \o rest) = ((i \o a) \o b) \o rest
    BY <1>1, <2>2, <2>3, SMTT(30)
  <2>6. ((i \o a) \o b) \o <<>> = (i \o a) \o b
    BY <2>3
  <2>7. Link!IsPrefix((i \o a) \o b, ((i \o a) \o b) \o rest)
    BY <2>3, PrefixOfConcat
  <2>8. QED
    BY <1>2, <2>1, <2>4, <2>5, <2>6, <2>7
<1>4. CASE ~q.fd
  <2>1. Transit(q, s \o sent, d) = <<>> /\ Transit(q, s, c) = <<>>
    BY <1>4 DEF Transit
  <2>2. <<>> \in Seq(Items) /\ <<>> \o <<>> = <<>>
    OBVIOUS
  <2>3. QED
    BY <2>1, <2>2, PrefixOfConcat
<1>5. QED
  BY <1>3, <1>4

\* The channel c reads the next message of its socket, and keeps it if it is an
\* asynchronous one.
LEMMA TransitRead ==
  ASSUME NEW c \in Channels, NEW s \in Seq(Messages), s # <<>>,
         NEW d \in Channels, NEW q \in Channels, d.fd = c.fd,
         d.incomingAsync = c.incomingAsync \o OnlyAsync(Head(s))
  PROVE  Transit(d, Tail(s), q) = Transit(c, s, q)
<1> DEFINE i == Async(c.incomingAsync)
           m == OnlyAsync(Head(s))
           t == Async(Tail(s))
<1>1. c.incomingAsync \in Seq(Items) /\ Head(s) \in Messages
      /\ Tail(s) \in Seq(Messages) /\ <<Head(s)>> \in Seq(Messages)
      /\ <<Head(s)>> \o Tail(s) = s
  <2>1. c.incomingAsync \in Seq(Items)
    BY DEF Channels, Items
  <2>2. QED
    BY <2>1, HeadAndTail
<1>2. i \in Seq(Items) /\ t \in Seq(Items) /\ Left(q) \in Seq(Items)
  BY <1>1, AsyncOfMessages, TransitType
<1>3. m \in Seq(Items) /\ Async(m) = m
  <2>1. CASE Head(s).kind \in AsyncKinds
    <3>1. m = <<Head(s)>> /\ Head(s) \in Items
      BY <1>1, <2>1 DEF OnlyAsync, Items
    <3>2. Async(<<Head(s)>>) = OnlyAsync(Head(s))
      BY <1>1, AsyncOfOne
    <3>3. QED
      BY <3>1, <3>2
  <2>2. CASE Head(s).kind \notin AsyncKinds
    <3>1. m = <<>>
      BY <2>2 DEF OnlyAsync
    <3>2. <<>> \in Seq(Items)
      BY ItemTypes
    <3> HIDE DEF m
    <3>3. QED
      BY <3>1, <3>2, AsyncOfEmpty
  <2>3. QED
    BY <2>1, <2>2
<1>4. Async(s) = m \o t
  <2>1. Async(<<Head(s)>> \o Tail(s)) = Async(<<Head(s)>>) \o Async(Tail(s))
    BY <1>1, AsyncOfConcat
  <2>2. Async(<<Head(s)>>) = m
    BY <1>1, AsyncOfOne
  <2>3. QED
    BY <1>1, <2>1, <2>2
<1> HIDE DEF m
<1>5. Async(d.incomingAsync) = i \o m
  <2>1. Async(c.incomingAsync \o m) = Async(c.incomingAsync) \o Async(m)
    BY <1>1, <1>3, AsyncOfConcat
  <2>2. QED
    BY <1>3, <2>1 DEF m
<1> HIDE DEF i, t
<1>6. (i \o m) \o t = i \o (m \o t)
  <2>1. \A x, y, z \in Seq(Items) : (x \o y) \o z = x \o (y \o z)
    BY ConcatAssociates
  <2>2. QED
    BY <1>2, <1>3, <2>1
<1>7. QED
  BY <1>4, <1>5, <1>6 DEF Transit, i, t
-----------------------------------------------------------------------------
(***************************************************************************)
(* The steps of the abstract link, in terms of what is in transit.         *)
(***************************************************************************)
\* Both states map to queues and ends that are up.
LEMMA LinkState ==
  /\ Link!Ends = Ends /\ \A e \in Ends : Link!Other(e) = Peer(e)
  /\ DOMAIN [e \in Ends |-> InTransit(e)] = Ends
BY DEF Link!Ends, Link!Other, Ends, Peer

LEMMA LinkStutters ==
  ASSUME \A e \in Ends : InTransit(e)' = InTransit(e) /\ ch'[e].fd = ch[e].fd,
         got' = got
  PROVE  [Link!Next]_(Link!vars)
<1>1. [e \in Ends |-> InTransit(e)]' = [e \in Ends |-> InTransit(e)]
  <2>1. \A e \in Ends : InTransit(e)' = InTransit(e)
    OBVIOUS
  <2>2. QED
    BY <2>1
<1>2. [e \in Ends |-> ch[e].fd]' = [e \in Ends |-> ch[e].fd]
  OBVIOUS
<1>3. QED
  BY <1>1, <1>2 DEF Link!vars

LEMMA LinkAccepts ==
  ASSUME NEW e \in Ends, ch[Peer(e)].fd,
         Link!IsPrefix(InTransit(e), InTransit(e)'),
         InTransit(e)' # InTransit(e),
         Distinct(got[e] \o InTransit(e)'),
         InTransit(Peer(e))' = InTransit(Peer(e)),
         \A f \in Ends : ch'[f].fd = ch[f].fd,
         got' = got
  PROVE  [Link!Next]_(Link!vars)
<1> DEFINE Q == [f \in Ends |-> InTransit(f)]
           U == [f \in Ends |-> ch[f].fd]
<1>1. Peer(e) \in Ends /\ Link!Other(e) = Peer(e) /\ e \in Link!Ends
  BY PeersPeer, LinkState
<1>2. /\ Q[e] = InTransit(e) /\ Q'[e] = InTransit(e)'
      /\ Q[Peer(e)] = InTransit(Peer(e)) /\ Q'[Peer(e)] = InTransit(Peer(e))'
  BY <1>1
<1>3. U[Peer(e)] /\ U' = U
  BY <1>1
<1>4. Link!IsInjective(got[e] \o InTransit(e)')
  BY DEF Distinct, Link!IsInjective
<1>5. Link!Accept(e)
  BY <1>1, <1>2, <1>3, <1>4 DEF Link!Accept
<1>6. QED
  BY <1>1, <1>5 DEF Link!Next

LEMMA LinkDelivers ==
  ASSUME NEW e \in Ends, ch[e].fd, InTransit(e) # <<>>,
         InTransit(e)' = Tail(InTransit(e)),
         InTransit(Peer(e))' = InTransit(Peer(e)),
         got' = [got EXCEPT ![e] = Append(@, Head(InTransit(e)))],
         \A f \in Ends : ch'[f].fd = ch[f].fd
  PROVE  [Link!Next]_(Link!vars)
<1> DEFINE Q == [f \in Ends |-> InTransit(f)]
           U == [f \in Ends |-> ch[f].fd]
<1>1. /\ e \in Link!Ends /\ Q[e] = InTransit(e)
      /\ \A f \in Ends : f = e \/ f = Peer(e)
  BY PeersPeer, LinkState
<1>2. U[e] /\ U' = U
  OBVIOUS
<1>3. Q' = [Q EXCEPT ![e] = Tail(@)]
  <2>1. \A f \in Ends : InTransit(f)' = IF f = e THEN Tail(InTransit(f))
                                                 ELSE InTransit(f)
    BY <1>1
  <2>2. Q' = [f \in Ends |-> IF f = e THEN Tail(InTransit(f)) ELSE InTransit(f)]
    BY <2>1
  <2>3. QED
    BY <2>2
<1>4. Link!Deliver(e)
  BY <1>1, <1>2, <1>3 DEF Link!Deliver
<1>5. QED
  BY <1>1, <1>4 DEF Link!Next

LEMMA LinkCloses ==
  ASSUME NEW e \in Ends, ch[e].fd, ch'[e].fd = FALSE,
         ch'[Peer(e)].fd = ch[Peer(e)].fd,
         InTransit(e)' = <<>>,
         Link!IsPrefix(InTransit(Peer(e))', InTransit(Peer(e))),
         got' = got
  PROVE  [Link!Next]_(Link!vars)
<1> DEFINE Q == [f \in Ends |-> InTransit(f)]
           U == [f \in Ends |-> ch[f].fd]
<1>1. /\ Peer(e) \in Ends /\ Link!Other(e) = Peer(e) /\ e \in Link!Ends
      /\ \A f \in Ends : f = e \/ f = Peer(e)
  BY PeersPeer, LinkState
<1>2. /\ Q'[e] = <<>>
      /\ Q[Peer(e)] = InTransit(Peer(e)) /\ Q'[Peer(e)] = InTransit(Peer(e))'
  BY <1>1
<1>3. U[e] /\ U' = [U EXCEPT ![e] = FALSE]
  <2>1. \A f \in Ends : ch'[f].fd = IF f = e THEN FALSE ELSE ch[f].fd
    BY <1>1
  <2>2. QED
    BY <2>1
<1>4. Link!Close(e)
  BY <1>1, <1>2, <1>3 DEF Link!Close
<1>5. QED
  BY <1>1, <1>4 DEF Link!Next
-----------------------------------------------------------------------------
(***************************************************************************)
(* The steps of the channels: end x, whose channel becomes d, writes (or   *)
(* only changes itself), goes down, reads or delivers.                     *)
(***************************************************************************)
\* How the numbers change when an end adds output, or gives a number away.
Renumbers(c, d, added) ==
  \A a \in Seq(Items) :
    Numbers(a, Async(c.otherThread), c.nextId)
      => Numbers(a \o Async(added), Async(d.otherThread), d.nextId)

\* d is c after it wrote sent, having added output; a dead channel writes nothing.
Puts(c, d, sent, added) ==
  /\ d.fd = c.fd
  /\ d.fd => /\ d.incomingAsync = c.incomingAsync
             /\ Writes(c, d, sent, added)
             /\ Renumbers(c, d, added)
  /\ ~d.fd => sent = <<>>

\* What the step lemmas start from.
LEMMA StepTypes ==
  ASSUME TypeOK, TypeOK', NEW x \in Ends
  PROVE  /\ ch[x] \in Channels /\ ch[Peer(x)] \in Channels
         /\ ch'[x] \in Channels
         /\ sock[x] \in Seq(Messages) /\ sock[Peer(x)] \in Seq(Messages)
         /\ \A e \in Ends : InTransit(e) \in Seq(Items)
         /\ \A e \in Ends : got[e] \in Seq(Items)
         /\ \A e \in Ends : Seen(e) \in Seq(Items)
         /\ \A e \in Ends : /\ Async(ch[e].otherThread) \in Seq(Items)
                            /\ ch[e].nextId \in Nat
<1>1. \A e \in Ends : /\ ch[e] \in Channels /\ sock[e] \in Seq(Messages)
                      /\ got[e] \in Seq(Messages) /\ ch'[e] \in Channels
  BY DEF TypeOK
<1>2. Peer(x) \in Ends /\ \A e \in Ends : Peer(e) \in Ends
  BY PeersPeer
<1>3. \A e \in Ends : InTransit(e) \in Seq(Items)
  <2> TAKE e \in Ends
  <2>1. InTransit(e) = Transit(ch[e], sock[e], ch[Peer(e)])
    BY TransitIs
  <2>2. QED
    BY <1>1, <1>2, <2>1, TransitType
<1>4. \A e \in Ends : got[e] \in Seq(Items)
  BY <1>1, ItemTypes
<1>5. \A e \in Ends : Seen(e) \in Seq(Items)
  BY <1>3, <1>4 DEF Seen
<1>6. \A e \in Ends : /\ ch[e].otherThread \in Seq(Messages)
                      /\ ch[e].nextId \in Nat
  BY <1>1 DEF Channels
<1>7. \A e \in Ends : Async(ch[e].otherThread) \in Seq(Items)
  BY <1>6, AsyncOfMessages
<1>8. QED
  BY <1>1, <1>2, <1>3, <1>4, <1>5, <1>6, <1>7

LEMMA PutStep ==
  ASSUME TypeOK, TypeOK', Linked, NEW x \in Ends, NEW d,
         ch' = [ch EXCEPT ![x] = d], EndOK(d),
         NEW sent \in Seq(Messages), NEW added \in Seq(Messages),
         sock' = [sock EXCEPT ![Peer(x)] = @ \o sent], got' = got,
         Puts(ch[x], d, sent, added)
  PROVE  LinkStep
<1> DEFINE p == Peer(x)
           c == ch[x]
           q == ch[p]
           new == Async(added)
<1>1. /\ p \in Ends /\ p # x /\ Peer(p) = x
      /\ \A e \in Ends : e = x \/ e = p
  BY PeersPeer
<1>2. /\ ch'[x] = d /\ ch'[p] = q
      /\ sock'[x] = sock[x] /\ sock'[p] = sock[p] \o sent
  BY <1>1 DEF TypeOK
<1>3. /\ c \in Channels /\ q \in Channels /\ d \in Channels
      /\ sock[x] \in Seq(Messages) /\ sock[p] \in Seq(Messages)
  BY <1>2, StepTypes
<1>4. /\ InTransit(x) = Transit(c, sock[x], q)
      /\ InTransit(x)' = Transit(d, sock[x], q)
      /\ InTransit(p) = Transit(q, sock[p], c)
      /\ InTransit(p)' = Transit(q, sock[p] \o sent, d)
  <2>1. /\ InTransit(x)' = Transit(ch'[x], sock'[x], ch'[Peer(x)])
        /\ InTransit(p)' = Transit(ch'[p], sock'[p], ch'[Peer(p)])
    BY TransitIs
  <2>2. QED
    BY <1>1, <1>2, <2>1, TransitIs
<1>5. InTransit(x)' = InTransit(x)
  BY <1>4 DEF Transit, Puts
<1>6. new \in Seq(Items)
  BY AsyncOfMessages
<1>7. Live(x) => InTransit(p)' = InTransit(p) \o new
  <2> SUFFICES ASSUME Live(x) PROVE InTransit(p)' = InTransit(p) \o new
    OBVIOUS
  <2>1. c.fd /\ q.fd /\ d.fd /\ Writes(c, d, sent, added)
    BY DEF Live, Puts
  <2> HIDE DEF p, c, q
  <2>2. Transit(q, sock[p] \o sent, d) = Transit(q, sock[p], c) \o Async(added)
    <3> DEFINE s == sock[p]
    <3>1. s \in Seq(Messages)
      BY <1>3
    <3> HIDE DEF s
    <3>2. Transit(q, s \o sent, d) = Transit(q, s, c) \o Async(added)
      BY <1>3, <2>1, <3>1, TransitWrite, SMTT(30)
    <3>3. QED
      BY <3>2 DEF s
  <2>3. QED
    BY <1>4, <2>2
<1>8. ~Live(x) => InTransit(p)' = InTransit(p)
  <2>1. CASE ~q.fd
    BY <1>4, <2>1 DEF Transit
  <2>2. CASE ~c.fd
    <3>1. sent = <<>> /\ ~d.fd
      BY <2>2 DEF Puts
    <3>2. sock[p] \o <<>> = sock[p]
      BY <1>3
    <3>3. QED
      BY <1>4, <2>2, <3>1, <3>2 DEF Transit, Left
  <2>3. QED
    BY <2>1, <2>2 DEF Live
<1>9. /\ InTransit(p) \in Seq(Items) /\ got[p] \in Seq(Items)
      /\ Seen(p) \in Seq(Items)
  BY <1>1, StepTypes
<1>10. Live(x) => Seen(p)' = Seen(p) \o new /\ Seen(x)' = Seen(x)
  <2>1. (got[p] \o InTransit(p)) \o new = got[p] \o (InTransit(p) \o new)
    <3>1. \A a, b, z \in Seq(Items) : (a \o b) \o z = a \o (b \o z)
      BY ConcatAssociates, SMTT(30)
    <3> HIDE DEF new, p
    <3>2. QED
      BY <1>6, <1>9, <3>1
  <2>2. QED
    BY <1>5, <1>7, <2>1 DEF Seen
<1>11. Live(x)' = Live(x) /\ Live(p)' = Live(p) /\ (Live(p) <=> Live(x))
  BY <1>1, <1>2 DEF Live, Puts
<1>12. NumbersOK(p)'
  <2> SUFFICES ASSUME Live(p)'
               PROVE  Numbers(Seen(p)', Async(d.otherThread), d.nextId)
    BY <1>1, <1>2 DEF NumbersOK
  <2>1. Live(p) /\ Live(x) /\ d.fd
    BY <1>1, <1>2, <1>11 DEF Live
  <2>2. Numbers(Seen(p), Async(c.otherThread), c.nextId)
    BY <1>1, <2>1 DEF Linked, NumbersOK
  <2>3. Numbers(Seen(p) \o new, Async(d.otherThread), d.nextId)
    BY <1>9, <2>1, <2>2 DEF Puts, Renumbers
  <2>4. QED
    BY <1>10, <2>1, <2>3
<1>13. NumbersOK(x)'
  BY <1>2, <1>10, <1>11 DEF Linked, NumbersOK
<1>14. Linked'
  <2>1. EndOK(ch[x])' /\ EndOK(ch[p])'
    BY <1>1, <1>2 DEF Linked, EndOK, KindsOK, LateOK, Alive, HasFrame, At
  <2>2. QED
    BY <1>1, <1>12, <1>13, <2>1 DEF Linked
<1>15. \A e \in Ends : ch'[e].fd = ch[e].fd
  BY <1>1, <1>2 DEF Puts
<1>16. CASE InTransit(p)' = InTransit(p)
  <2>1. \A e \in Ends : InTransit(e)' = InTransit(e) /\ ch'[e].fd = ch[e].fd
    BY <1>1, <1>5, <1>15, <1>16
  <2>2. QED
    BY <1>14, <2>1, LinkStutters DEF LinkStep
<1>17. CASE InTransit(p)' # InTransit(p)
  <2>1. Live(x) /\ Live(p)'
    BY <1>8, <1>11, <1>17
  <2>2. Distinct(Seen(p)')
    BY <1>12, <2>1 DEF NumbersOK, Numbers
  <2>3. Distinct(got[p] \o InTransit(p)')
    BY <2>2 DEF Seen
  <2>4. Link!IsPrefix(InTransit(p), InTransit(p)')
    BY <1>6, <1>7, <1>9, <2>1, PrefixOfConcat
  <2>5. ch[Peer(p)].fd /\ InTransit(Peer(p))' = InTransit(Peer(p))
    BY <1>1, <1>5, <2>1 DEF Live
  <2>6. [Link!Next]_(Link!vars)
    BY <1>1, <1>15, <1>17, <2>3, <2>4, <2>5, LinkAccepts
  <2>7. QED
    BY <1>14, <2>6 DEF LinkStep
<1>18. QED
  BY <1>16, <1>17
\* The end goes down; what it wrote last is the beginning of what it had.
LEMMA CloseStep ==
  ASSUME TypeOK, TypeOK', Linked, NEW x \in Ends, NEW d,
         ch' = [ch EXCEPT ![x] = d], EndOK(d), ch[x].fd, ~d.fd,
         NEW sent \in Seq(Messages), NEW rest \in Seq(Items),
         Async(ch[x].outgoing) = Async(sent) \o rest,
         sock' = [sock EXCEPT ![Peer(x)] = @ \o sent], got' = got
  PROVE  LinkStep
<1> DEFINE p == Peer(x)
           c == ch[x]
           q == ch[p]
           s == sock[p]
<1>1. /\ p \in Ends /\ p # x /\ Peer(p) = x
      /\ \A e \in Ends : e = x \/ e = p
  BY PeersPeer
<1>2. /\ ch'[x] = d /\ ch'[p] = q /\ sock'[p] = s \o sent
  BY <1>1 DEF TypeOK
<1>3. c \in Channels /\ q \in Channels /\ d \in Channels /\ s \in Seq(Messages)
  BY <1>2, StepTypes
<1>4. /\ InTransit(x)' = <<>>
      /\ InTransit(p) = Transit(q, s, c)
      /\ InTransit(p)' = Transit(q, s \o sent, d)
  <2>1. /\ InTransit(x)' = Transit(ch'[x], sock'[x], ch'[Peer(x)])
        /\ InTransit(p)' = Transit(ch'[p], sock'[p], ch'[Peer(p)])
    BY TransitIs
  <2>2. Transit(d, sock'[x], ch'[Peer(x)]) = <<>>
    BY DEF Transit
  <2>3. QED
    BY <1>1, <1>2, <2>1, <2>2, TransitIs
<1>5. Linked'
  <2>1. ~Live(x)' /\ ~Live(p)'
    BY <1>1, <1>2 DEF Live
  <2>2. EndOK(ch[x])' /\ EndOK(ch[p])'
    BY <1>1, <1>2 DEF Linked, EndOK, KindsOK, LateOK, Alive, HasFrame, At
  <2>3. QED
    BY <1>1, <2>1, <2>2 DEF Linked, NumbersOK
<1>6. d.fd = FALSE
  BY <1>3 DEF Channels
<1> HIDE DEF p, c, q, s
<1>7. c.fd /\ Async(c.outgoing) = Async(sent) \o rest
  BY DEF c
<1>8. Link!IsPrefix(Transit(q, s \o sent, d), Transit(q, s, c))
  BY <1>3, <1>7, TransitClose
<1>9. Link!IsPrefix(InTransit(p)', InTransit(p))
  BY <1>4, <1>8
<1>10. [Link!Next]_(Link!vars)
  <2>1. ch[x].fd /\ ch'[x].fd = FALSE
    BY <1>2, <1>6
  <2>2. ch'[Peer(x)].fd = ch[Peer(x)].fd
    BY <1>2 DEF p, q
  <2>3. Link!IsPrefix(InTransit(Peer(x))', InTransit(Peer(x)))
    BY <1>9 DEF p
  <2>4. QED
    BY <1>4, <2>1, <2>2, <2>3, LinkCloses
<1>11. QED
  BY <1>5, <1>10 DEF LinkStep

\* The end takes the next message off its socket.
LEMMA TakeInStep ==
  ASSUME TypeOK, TypeOK', Linked, NEW x \in Ends, NEW d,
         ch' = [ch EXCEPT ![x] = d], EndOK(d), ch[x].fd, d.fd = ch[x].fd,
         sock[x] # <<>>, sock' = [sock EXCEPT ![x] = Tail(@)], got' = got,
         d.incomingAsync = ch[x].incomingAsync \o OnlyAsync(Head(sock[x])),
         d.outgoing = ch[x].outgoing, d.otherThread = ch[x].otherThread,
         d.nextId = ch[x].nextId
  PROVE  LinkStep
<1> DEFINE p == Peer(x)
           c == ch[x]
           q == ch[p]
           s == sock[x]
<1>1. /\ p \in Ends /\ p # x /\ Peer(p) = x
      /\ \A e \in Ends : e = x \/ e = p
  BY PeersPeer
<1>2. /\ ch'[x] = d /\ ch'[p] = q
      /\ sock'[x] = Tail(s) /\ sock'[p] = sock[p]
  BY <1>1 DEF TypeOK
<1>3. c \in Channels /\ q \in Channels /\ d \in Channels /\ s \in Seq(Messages)
  BY <1>2, StepTypes
<1>4. /\ InTransit(x) = Transit(c, s, q)
      /\ InTransit(x)' = Transit(d, Tail(s), q)
      /\ InTransit(p) = Transit(q, sock[p], c)
      /\ InTransit(p)' = Transit(q, sock[p], d)
  <2>1. /\ InTransit(x)' = Transit(ch'[x], sock'[x], ch'[Peer(x)])
        /\ InTransit(p)' = Transit(ch'[p], sock'[p], ch'[Peer(p)])
    BY TransitIs
  <2>2. QED
    BY <1>1, <1>2, <2>1, TransitIs
<1>5. InTransit(p)' = InTransit(p)
  BY <1>4 DEF Transit, Left
<1>6. EndOK(ch[x])' /\ EndOK(ch[p])'
  BY <1>1, <1>2 DEF Linked, EndOK, KindsOK, LateOK, Alive, HasFrame, At
<1>7. /\ s # <<>> /\ d.fd = c.fd
      /\ d.incomingAsync = c.incomingAsync \o OnlyAsync(Head(s))
  OBVIOUS
<1>8. \A e \in Ends : /\ ch'[e].fd = ch[e].fd
                      /\ ch'[e].otherThread = ch[e].otherThread
                      /\ ch'[e].nextId = ch[e].nextId
  BY <1>1, <1>2
<1> HIDE DEF p, c, q, s
<1>9. Transit(d, Tail(s), q) = Transit(c, s, q)
  BY <1>3, <1>7, TransitRead
<1>10. \A e \in Ends : InTransit(e)' = InTransit(e)
  BY <1>1, <1>4, <1>5, <1>9
<1>11. Linked'
  <2>1. ASSUME NEW e \in Ends PROVE NumbersOK(e)'
    <3>1. Peer(e) \in Ends
      BY PeersPeer
    <3>2. Live(e)' = Live(e) /\ Seen(e)' = Seen(e)
      BY <1>8, <1>10, <3>1 DEF Live, Seen
    <3>3. QED
      BY <1>8, <3>1, <3>2 DEF Linked, NumbersOK
  <2>2. QED
    BY <1>1, <1>6, <2>1 DEF Linked
<1>12. QED
  BY <1>8, <1>10, <1>11, LinkStutters DEF LinkStep

\* The listener is handed the oldest message that came in.
LEMMA DeliverStep ==
  ASSUME TypeOK, TypeOK', Linked, NEW x \in Ends, NEW d,
         ch' = [ch EXCEPT ![x] = d], EndOK(d), ch[x].fd, d.fd = ch[x].fd,
         ch[x].incomingAsync # <<>>, d.incomingAsync = Tail(ch[x].incomingAsync),
         sock' = sock, got' = [got EXCEPT ![x] = Append(@, Head(ch[x].incomingAsync))],
         d.outgoing = ch[x].outgoing, d.otherThread = ch[x].otherThread,
         d.nextId = ch[x].nextId
  PROVE  LinkStep
<1> DEFINE p == Peer(x)
           c == ch[x]
           q == ch[p]
           i == c.incomingAsync
           m == Head(i)
           rest == Async(sock[x]) \o Left(q)
<1>1. /\ p \in Ends /\ p # x /\ Peer(p) = x
      /\ \A e \in Ends : e = x \/ e = p
  BY PeersPeer
<1>2. ch'[x] = d /\ ch'[p] = q /\ got'[x] = Append(got[x], m) /\ got'[p] = got[p]
  BY <1>1 DEF TypeOK
<1>3. /\ c \in Channels /\ q \in Channels /\ d \in Channels
      /\ sock[x] \in Seq(Messages) /\ got[x] \in Seq(Items)
  BY <1>2, StepTypes
<1>4. /\ InTransit(x) = (Async(i) \o Async(sock[x])) \o Left(q)
      /\ InTransit(x)' = (Async(Tail(i)) \o Async(sock[x])) \o Left(q)
      /\ InTransit(p)' = InTransit(p)
  <2>1. /\ InTransit(x)' = Transit(ch'[x], sock'[x], ch'[Peer(x)])
        /\ InTransit(p)' = Transit(ch'[p], sock'[p], ch'[Peer(p)])
    BY TransitIs
  <2>2. /\ InTransit(x)' = Transit(d, sock[x], q)
        /\ InTransit(p)' = Transit(q, sock[p], d)
    BY <1>1, <1>2, <2>1
  <2>3. /\ InTransit(x) = Transit(c, sock[x], q)
        /\ InTransit(p) = Transit(q, sock[p], c)
    BY <1>1, TransitIs
  <2>4. QED
    BY <2>2, <2>3 DEF Transit, Left
<1>5. i \in Seq(Items) /\ i # <<>> /\ Tail(i) \in Seq(Items) /\ m \in Items
  <2>1. i \in Seq(Items)
    BY <1>3 DEF Channels, Items
  <2>2. QED
    BY <2>1, HeadAndTail
<1>6. m.kind \in AsyncKinds
  <2>1. \A j \in DOMAIN i : i[j].kind \in AsyncKinds
    BY DEF Linked, EndOK, KindsOK
  <2>2. 1 \in DOMAIN i /\ i[1] = m
    BY <1>5
  <2>3. QED
    BY <2>1, <2>2
<1>7. Async(i) = <<m>> \o Async(Tail(i))
  <2>1. <<m>> \in Seq(Items) /\ <<m>> \o Tail(i) = i
    BY <1>5, HeadAndTail
  <2>2. Async(<<m>> \o Tail(i)) = Async(<<m>>) \o Async(Tail(i))
    BY <1>5, <2>1, AsyncOfConcat
  <2>3. Async(<<m>>) = OnlyAsync(m)
    BY <1>5, AsyncOfOne
  <2>4. OnlyAsync(m) = <<m>>
    BY <1>6 DEF OnlyAsync
  <2>5. QED
    BY <2>1, <2>2, <2>3, <2>4
<1>8. \A e \in Ends : /\ ch'[e].fd = ch[e].fd
                      /\ ch'[e].otherThread = ch[e].otherThread
                      /\ ch'[e].nextId = ch[e].nextId
  BY <1>1, <1>2
<1>9. EndOK(ch[x])' /\ EndOK(ch[p])'
  BY <1>1, <1>2 DEF Linked, EndOK, KindsOK, LateOK, Alive, HasFrame, At
<1>10. /\ Async(Tail(i)) \in Seq(Items) /\ Async(sock[x]) \in Seq(Items)
       /\ Left(q) \in Seq(Items)
  BY <1>3, <1>5, AsyncOfMessages, TransitType
<1> HIDE DEF p, c, q, i, m
<1>11. InTransit(x) = <<m>> \o InTransit(x)' /\ InTransit(x)' \in Seq(Items)
  <2> DEFINE t == Async(Tail(i))
             s == Async(sock[x])
             o == Left(q)
  <2>1. <<m>> \in Seq(Items) /\ t \in Seq(Items) /\ s \in Seq(Items)
        /\ o \in Seq(Items)
    BY <1>5, <1>10
  <2> HIDE DEF t, s, o
  <2>2. \A a, b, z \in Seq(Items) : (a \o b) \o z = a \o (b \o z)
    BY ConcatAssociates
  <2>3. (<<m>> \o t) \o s = <<m>> \o (t \o s)
    BY <2>1, <2>2
  <2>4. t \o s \in Seq(Items) /\ (t \o s) \o o \in Seq(Items)
    BY <2>1
  <2>5. (<<m>> \o (t \o s)) \o o = <<m>> \o ((t \o s) \o o)
    BY <2>1, <2>2, <2>4
  <2>6. QED
    BY <1>4, <1>7, <2>3, <2>4, <2>5 DEF t, s, o
<1>12. /\ InTransit(x) # <<>> /\ Head(InTransit(x)) = m
       /\ InTransit(x)' = Tail(InTransit(x))
       /\ Append(got[x], m) \o InTransit(x)' = got[x] \o InTransit(x)
  <2> DEFINE u == InTransit(x)'
  <2>1. u \in Seq(Items) /\ InTransit(x) = <<m>> \o u
    BY <1>11
  <2> HIDE DEF u
  <2>2. /\ <<m>> \o u # <<>> /\ Head(<<m>> \o u) = m
    BY <1>5, <2>1
  <2>3. Tail(<<m>> \o u) = u
    BY <1>5, <2>1
  <2>4. Append(got[x], m) \o u = got[x] \o (<<m>> \o u)
    <3>1. Append(got[x], m) = got[x] \o <<m>>
      BY <1>3, <1>5, AppendIsConcat
    <3>2. <<m>> \in Seq(Items)
      BY <1>5
    <3>3. \A a, b, z \in Seq(Items) : (a \o b) \o z = a \o (b \o z)
      BY ConcatAssociates
    <3>4. (got[x] \o <<m>>) \o u = got[x] \o (<<m>> \o u)
      <4> DEFINE g == got[x]
      <4>1. g \in Seq(Items)
        BY <1>3
      <4> HIDE DEF g
      <4>2. (g \o <<m>>) \o u = g \o (<<m>> \o u)
        BY <2>1, <3>2, <3>3, <4>1
      <4>3. QED
        BY <4>2 DEF g
    <3>5. QED
      BY <3>1, <3>4
  <2>5. QED
    BY <2>1, <2>2, <2>3, <2>4 DEF u
<1>13. Linked'
  <2>1. ASSUME NEW e \in Ends PROVE NumbersOK(e)'
    <3>1. Peer(e) \in Ends
      BY PeersPeer
    <3>2. Live(e)' = Live(e)
      BY <1>8, <3>1 DEF Live
    <3>3. Seen(e)' = Seen(e)
      BY <1>1, <1>2, <1>4, <1>12 DEF Seen
    <3>4. QED
      BY <1>8, <3>1, <3>2, <3>3 DEF Linked, NumbersOK
  <2>2. QED
    BY <1>1, <1>9, <2>1 DEF Linked
<1>14. [Link!Next]_(Link!vars)
  <2>1. got' = [got EXCEPT ![x] = Append(@, Head(InTransit(x)))]
    BY <1>12 DEF m, i, c
  <2>2. InTransit(Peer(x))' = InTransit(Peer(x))
    BY <1>4 DEF p
  <2>3. QED
    BY <1>8, <1>12, <2>1, <2>2, LinkDelivers
<1>15. QED
  BY <1>13, <1>14 DEF LinkStep
-----------------------------------------------------------------------------
(***************************************************************************)
(* How each kind of change renumbers.                                      *)
(***************************************************************************)
LEMMA RenumbersSilent ==
  ASSUME NEW c \in Channels, NEW d \in Channels, NEW added, Async(added) = <<>>,
         d.otherThread = c.otherThread, d.nextId >= c.nextId
  PROVE  Renumbers(c, d, added)
<1> SUFFICES ASSUME NEW a \in Seq(Items),
                    Numbers(a, Async(c.otherThread), c.nextId)
             PROVE  Numbers(a \o Async(added), Async(d.otherThread), d.nextId)
  BY DEF Renumbers
<1>1. c.otherThread \in Seq(Messages) /\ c.nextId \in Nat /\ d.nextId \in Nat
  BY DEF Channels
<1>2. Async(c.otherThread) \in Seq(Items) /\ c.nextId <= d.nextId
  BY <1>1, AsyncOfMessages
<1>3. Numbers(a, Async(c.otherThread), d.nextId)
  BY <1>1, <1>2, NumbersLater
<1>4. a \o <<>> = a
  OBVIOUS
<1>5. QED
  BY <1>3, <1>4

LEMMA AsyncOfNew ==
  ASSUME NEW m \in Messages, m.kind \in AsyncKinds
  PROVE  m \in Items /\ <<m>> \in Seq(Messages) /\ Async(<<m>>) = <<m>>
<1>1. m \in Items /\ <<m>> \in Seq(Messages)
  BY DEF Items
<1>2. Async(<<m>>) = OnlyAsync(m)
  BY AsyncOfOne
<1>3. QED
  BY <1>1, <1>2 DEF OnlyAsync

LEMMA AsyncOfSync ==
  ASSUME NEW m \in Messages, m.kind \notin AsyncKinds
  PROVE  <<m>> \in Seq(Messages) /\ Async(<<m>>) = <<>>
<1>1. Async(<<m>>) = OnlyAsync(m)
  BY AsyncOfOne
<1>2. QED
  BY <1>1 DEF OnlyAsync

\* The main thread creates a message and queues it as output.
LEMMA RenumbersNew ==
  ASSUME NEW c \in Channels, NEW d \in Channels, NEW m \in Messages,
         m.kind \in AsyncKinds, m.id = c.nextId,
         d.otherThread = c.otherThread, d.nextId = c.nextId + 1
  PROVE  Renumbers(c, d, <<m>>)
<1> SUFFICES ASSUME NEW a \in Seq(Items),
                    Numbers(a, Async(c.otherThread), c.nextId)
             PROVE  Numbers(a \o Async(<<m>>), Async(d.otherThread), d.nextId)
  BY DEF Renumbers
<1>1. c.otherThread \in Seq(Messages) /\ c.nextId \in Nat
  BY DEF Channels
<1>2. Async(c.otherThread) \in Seq(Items)
  BY <1>1, AsyncOfMessages
<1>3. m \in Items /\ Async(<<m>>) = <<m>>
  BY AsyncOfNew
<1>4. Numbers(a \o <<m>>, Async(c.otherThread), c.nextId + 1)
  BY <1>1, <1>2, <1>3, NumbersSent
<1>5. QED
  BY <1>3, <1>4

\* Another thread creates a message and queues it.
LEMMA RenumbersQueued ==
  ASSUME NEW c \in Channels, NEW d \in Channels, NEW m \in Messages,
         m.kind \in AsyncKinds, m.id = c.nextId,
         d.otherThread = Append(c.otherThread, m), d.nextId = c.nextId + 1
  PROVE  Renumbers(c, d, <<>>)
<1> SUFFICES ASSUME NEW a \in Seq(Items),
                    Numbers(a, Async(c.otherThread), c.nextId)
             PROVE  Numbers(a \o Async(<<>>), Async(d.otherThread), d.nextId)
  BY DEF Renumbers
<1>1. c.otherThread \in Seq(Messages) /\ c.nextId \in Nat
  BY DEF Channels
<1>2. Async(c.otherThread) \in Seq(Items)
  BY <1>1, AsyncOfMessages
<1>3. m \in Items /\ OnlyAsync(m) = <<m>>
  BY AsyncOfNew DEF OnlyAsync
<1>4. Numbers(a, Async(c.otherThread) \o <<m>>, c.nextId + 1)
  BY <1>1, <1>2, <1>3, NumbersQueued
<1>5. Async(d.otherThread) = Async(c.otherThread) \o <<m>>
  BY <1>1, <1>3, AsyncOfAppend
<1>6. a \o <<>> = a
  OBVIOUS
<1>7. QED
  BY <1>4, <1>5, <1>6, AsyncOfEmpty

\* The main thread takes what the other threads queued.
LEMMA RenumbersDrained ==
  ASSUME NEW c \in Channels, NEW d, d.otherThread = <<>>, d.nextId = c.nextId
  PROVE  Renumbers(c, d, c.otherThread)
<1> SUFFICES ASSUME NEW a \in Seq(Items),
                    Numbers(a, Async(c.otherThread), c.nextId)
             PROVE  Numbers(a \o Async(c.otherThread), Async(<<>>), c.nextId)
  BY DEF Renumbers
<1>1. c.otherThread \in Seq(Messages)
  BY DEF Channels
<1>2. Async(c.otherThread) \in Seq(Items)
  BY <1>1, AsyncOfMessages
<1>3. QED
  BY <1>2, NumbersDrained, AsyncOfEmpty
-----------------------------------------------------------------------------
(***************************************************************************)
(* EndOK is kept by the methods of a channel.                              *)
(***************************************************************************)
SameNews(c, d) ==
  /\ Alive(d) => Alive(c)
  /\ d.fd = c.fd /\ d.stack = c.stack
  /\ d.incomingAsync = c.incomingAsync /\ d.dispatcherSrc = c.dispatcherSrc

LEMMA SameNewsOK ==
  ASSUME NEW c, NEW d, SameNews(c, d), EndOK(c)
  PROVE  EndOK(d)
BY DEF SameNews, EndOK, KindsOK, LateOK, HasFrame, At

LEMMA DisconnectedEndOK ==
  ASSUME NEW c \in Channels
  PROVE  EndOK(Disconnected(c))
<1> DEFINE d == Disconnected(c)
<1>1. ~d.fd /\ d.incomingAsync = <<Gone>> \o c.incomingAsync
  BY DisconnectedFields
<1>2. c.incomingAsync \in Seq(Messages \cup {Gone})
  BY DEF Channels
<1>3. d.incomingAsync # <<>> /\ Head(d.incomingAsync) = Gone
  <2> HIDE DEF d
  <2>1. QED
    BY <1>1, <1>2
<1> HIDE DEF d
<1>4. QED
  BY <1>1, <1>3 DEF EndOK, KindsOK, LateOK, d

LEMMA EndedEndOK ==
  ASSUME NEW how \in {"crashed", "exited"}
  PROVE  EndOK(Ended(how)) /\ Ended(how).fd = FALSE
BY DEF Ended, NewChannel, EndOK, KindsOK, LateOK, Alive

LEMMA FlushEndOK ==
  ASSUME NEW c \in Channels, NEW e, NEW o \in Flush(e, c), EndOK(c)
  PROVE  EndOK(o.ch)
<1>1. CASE o.ch = Disconnected(c)
  BY <1>1, DisconnectedEndOK
<1>2. CASE o.ch = Ended("crashed")
  BY <1>2, EndedEndOK
<1>3. CASE SameButOutput(c, o.ch)
  BY <1>3, SameNewsOK DEF SameButOutput, SameNews, Alive
<1>4. QED
  BY <1>1, <1>2, <1>3, FlushEffect DEF FlushEnds

\* A frame below the top one was there before.
LEMMA PoppedFrames ==
  ASSUME NEW c \in Channels, c.stack # <<>>, NEW ats, HasFrame(Pop(c), ats)
  PROVE  HasFrame(c, ats)
<1> DEFINE d == Pop(c)
<1>1. Deeper(c, d)
  BY PoppedDeeper
<1> HIDE DEF d
<1>2. PICK i \in DOMAIN d.stack : d.stack[i].at \in ats
  BY DEF HasFrame, d
<1>3. i + 1 \in DOMAIN c.stack /\ c.stack[i + 1] = d.stack[i]
  BY <1>1 DEF Deeper
<1>4. QED
  BY <1>2, <1>3 DEF HasFrame

LEMMA PopEndOK ==
  ASSUME NEW c \in Channels, c.stack # <<>>, EndOK(c),
         c.fd \/ At(c) # "read"
  PROVE  EndOK(Pop(c))
BY PopFields, PoppedFrames DEF EndOK, KindsOK, LateOK, Alive
-----------------------------------------------------------------------------
(***************************************************************************)
(* A flush of the channel f that x's channel became by adding output.      *)
(***************************************************************************)
LEMMA FlushClosed ==
  ASSUME NEW f, NEW e, NEW o \in Flush(e, f), ~f.fd
  PROVE  o.ch = f /\ o.sent = <<>>
BY DEF Flush, ProcessOutgoing

\* Outside a nested loop a full socket ends nothing.
LEMMA FlushSurvives ==
  ASSUME NEW f \in Channels, NEW e, NEW o \in Flush(e, f), f.fd, ~f.inNestedLoop
  PROVE  o.ch = Disconnected(f) \/ o.ch.fd
<1> DEFINE other == ch[Peer(e)]
           room == Room(Peer(e))
<1>1. CASE o = [ch |-> f, sent |-> <<>>]
  BY <1>1
<1>2. CASE o = [ch |-> Disconnected(f), sent |-> <<>>]
  BY <1>2
<1>3. ASSUME NEW n, o = WriteMessages(f, n)
      PROVE  o.ch.fd
  <2> DEFINE d == [f EXCEPT !.outgoing = SubSeq(@, n + 1, Len(@))]
  <2>1. d.fd /\ ~d.inNestedLoop /\ [d EXCEPT !.blockedOnWrite = TRUE,
                                             !.socketSource = "inout"].fd
    BY DEF Channels
  <2>2. o.ch = IF n < Len(f.outgoing) THEN WouldBlock(d) ELSE d
    BY <1>3 DEF WriteMessages
  <2> HIDE DEF d
  <2>3. QED
    BY <2>1, <2>2 DEF WouldBlock
<1>4. QED
  BY <1>1, <1>2, <1>3 DEF Flush, ProcessOutgoing

\* What is left of b \o added without its last element, after a was taken off.
LeavesSome(a, r, b, added) ==
  a \o r = b \o added /\ r # <<>> /\ Len(added) <= 1

LEMMA FrontRemains ==
  ASSUME NEW A, NEW a \in Seq(A), NEW r \in Seq(A), NEW b \in Seq(A),
         NEW added \in Seq(A), LeavesSome(a, r, b, added)
  PROVE  \E t \in Seq(A) : b = a \o t
<1>0. a \o r = b \o added /\ r # <<>> /\ Len(added) <= 1
  BY DEF LeavesSome
<1> DEFINE t == SubSeq(b, Len(a) + 1, Len(b))
<1>1. Len(a) + Len(r) = Len(b) + Len(added) /\ Len(r) >= 1
  <2>1. Len(a \o r) = Len(a) + Len(r) /\ Len(b \o added) = Len(b) + Len(added)
    OBVIOUS
  <2>2. QED
    BY <1>0, <2>1
<1>2. Len(a) \in Nat /\ Len(b) \in Nat /\ Len(r) \in Nat /\ Len(added) \in Nat
  OBVIOUS
<1>3. Len(a) <= Len(b)
  BY <1>0, <1>1, <1>2
<1>4. \A i \in 1 .. Len(a) : (a \o r)[i] = a[i] /\ (b \o added)[i] = b[i]
  BY <1>3
<1>5. \A i \in 1 .. Len(a) : b[i] = a[i]
  BY <1>0, <1>4
<1>6. t \in Seq(A) /\ Len(t) = Len(b) - Len(a)
      /\ \A i \in 1 .. Len(b) - Len(a) : t[i] = b[Len(a) + i]
  BY <1>2, <1>3
<1> HIDE DEF t
<1>7. b = a \o t
  <2> DEFINE u == a \o t
  <2>1. u \in Seq(A) /\ Len(u) = Len(b)
    BY <1>2, <1>3, <1>6
  <2>2. ASSUME NEW i \in 1 .. Len(b) PROVE u[i] = b[i]
    <3>1. CASE i <= Len(a)
      BY <1>2, <1>5, <1>6, <3>1
    <3>2. CASE ~(i <= Len(a))
      <4>1. i - Len(a) \in 1 .. Len(b) - Len(a) /\ Len(a) + (i - Len(a)) = i
        BY <1>2, <3>2
      <4>2. u[i] = t[i - Len(a)]
        BY <1>2, <1>6, <3>2, <4>1
      <4>3. QED
        BY <1>6, <4>1, <4>2
    <3>3. QED
      BY <3>1, <3>2
  <2> HIDE DEF u
  <2>3. b = u
    BY <2>1, <2>2, SMTT(30)
  <2>4. QED
    BY <2>3 DEF u
<1>8. QED
  BY <1>6, <1>7

\* c after the process called f's flush and then, at most, entered a call or
\* stopped itself.
SameWires(c, d) ==
  /\ d.fd = c.fd /\ d.outgoing = c.outgoing /\ d.otherThread = c.otherThread
  /\ d.nextId = c.nextId /\ d.incomingAsync = c.incomingAsync

LEMMA FlushPutStep ==
  ASSUME TypeOK, TypeOK', Linked, NEW x \in Ends, NEW f \in Channels,
         NEW o \in Flush(x, f), NEW d, SameWires(o.ch, d), EndOK(d),
         ch' = [ch EXCEPT ![x] = d],
         sock' = [sock EXCEPT ![Peer(x)] = @ \o o.sent], got' = got,
         NEW added \in Seq(Messages), f.outgoing = ch[x].outgoing \o added,
         f.fd = ch[x].fd, f.incomingAsync = ch[x].incomingAsync,
         Renumbers(ch[x], f, added),
         Len(added) <= 1 \/ ~f.inNestedLoop
  PROVE  LinkStep
<1> DEFINE c == ch[x]
<1>1. /\ c \in Channels /\ c.outgoing \in Seq(Messages)
      /\ o.sent \in Seq(Messages) /\ o.ch \in Channels
  <2>1. c \in Channels
    BY StepTypes
  <2>2. o.sent \in Seq(Messages) /\ o.ch \in Channels
    BY FlushType DEF Outcomes
  <2>3. QED
    BY <2>1, <2>2 DEF Channels
<1>2. CASE ~f.fd
  <2>1. o.ch = f /\ o.sent = <<>>
    BY <1>2, FlushClosed
  <2>2. Puts(c, d, o.sent, added)
    BY <1>2, <2>1 DEF SameWires, Puts
  <2>3. QED
    BY <1>1, <2>2, PutStep
<1>3. CASE f.fd /\ SameButOutput(f, o.ch) /\ o.sent \o o.ch.outgoing = f.outgoing
  <2>1. /\ d.fd = c.fd /\ d.fd /\ d.incomingAsync = c.incomingAsync
        /\ d.otherThread = f.otherThread /\ d.nextId = f.nextId
        /\ d.outgoing = o.ch.outgoing
    BY <1>3 DEF SameButOutput, SameWires
  <2>2. Renumbers(c, d, added)
    BY <2>1 DEF Renumbers
  <2>3. Writes(c, d, o.sent, added)
    BY <1>3, <2>1 DEF Writes
  <2>4. Puts(c, d, o.sent, added)
    BY <2>1, <2>2, <2>3 DEF Puts
  <2>5. QED
    BY <1>1, <2>4, PutStep
<1>4. ASSUME f.fd, ~d.fd,
             \E rest \in Seq(Items) : Async(c.outgoing) = Async(o.sent) \o rest
      PROVE  LinkStep
  <2>1. PICK rest \in Seq(Items) : Async(ch[x].outgoing) = Async(o.sent) \o rest
    BY <1>4
  <2>2. ch[x].fd /\ ~d.fd
    BY <1>4
  <2>3. QED
    BY <1>1, <2>1, <2>2, CloseStep
<1>5. CASE f.fd /\ o.ch = Disconnected(f) /\ o.sent = <<>>
  <2>1. ~d.fd
    BY <1>5, DisconnectedFields DEF SameWires
  <2>2. Async(c.outgoing) \in Seq(Items)
    BY <1>1, AsyncOfMessages
  <2>3. Async(c.outgoing) = Async(o.sent) \o Async(c.outgoing)
    BY <1>5, <2>2, AsyncOfEmpty
  <2>4. QED
    BY <1>4, <1>5, <2>1, <2>2, <2>3
<1>6. ASSUME f.fd, o.ch = Ended("crashed"),
             NEW rest \in Seq(Messages), rest # <<>>, o.sent \o rest = f.outgoing
      PROVE  LinkStep
  <2>1. ~o.ch.fd /\ ~d.fd
    BY <1>6, EndedEndOK DEF SameWires
  <2>2. CASE ~f.inNestedLoop
    <3>1. o.ch = Disconnected(f)
      BY <1>6, <2>1, <2>2, FlushSurvives
    <3>2. Disconnected(f).incomingAsync # Ended("crashed").incomingAsync
      <4>1. Disconnected(f).incomingAsync = <<Gone>> \o f.incomingAsync
        BY DisconnectedFields
      <4>2. f.incomingAsync \in Seq(Messages \cup {Gone})
        BY DEF Channels
      <4>3. <<Gone>> \o f.incomingAsync # <<>>
        BY <4>2
      <4>4. Ended("crashed").incomingAsync = <<>>
        BY DEF Ended, NewChannel
      <4>5. QED
        BY <4>1, <4>3, <4>4
    <3>3. QED
      BY <1>6, <3>1, <3>2
  <2>3. CASE Len(added) <= 1
    <3>1. o.sent \o rest = c.outgoing \o added
      BY <1>6
    <3>2. PICK t \in Seq(Messages) : c.outgoing = o.sent \o t
      <4> DEFINE a == o.sent
                 b == c.outgoing
      <4>1. a \in Seq(Messages) /\ b \in Seq(Messages)
            /\ LeavesSome(a, rest, b, added)
        BY <1>1, <1>6, <2>3, <3>1 DEF LeavesSome
      <4> HIDE DEF a, b
      <4>2. \E t \in Seq(Messages) : b = a \o t
        BY <1>6, <4>1, FrontRemains
      <4>3. QED
        BY <4>2 DEF a, b
    <3>3. Async(o.sent \o t) = Async(o.sent) \o Async(t)
      BY <1>1, AsyncOfConcat
    <3>4. Async(t) \in Seq(Items)
      BY AsyncOfMessages
    <3>5. QED
      BY <1>4, <1>6, <2>1, <3>2, <3>3, <3>4
  <2>4. QED
    BY <2>2, <2>3
<1>7. FlushEnds(f, o)
  BY FlushEffect
<1>8. QED
  BY <1>2, <1>3, <1>5, <1>6, <1>7 DEF FlushEnds

\* A step that takes the outcome of a flush.
LEMMA FlushLinkStep ==
  ASSUME TypeOK, TypeOK', Linked, NEW x \in Ends, NEW f \in Channels,
         \E o \in Flush(x, f) : Take(x, o), got' = got, EndOK(f),
         NEW added \in Seq(Messages), f.outgoing = ch[x].outgoing \o added,
         f.fd = ch[x].fd, f.incomingAsync = ch[x].incomingAsync,
         Renumbers(ch[x], f, added),
         Len(added) <= 1 \/ ~f.inNestedLoop
  PROVE  LinkStep
<1>1. PICK o \in Flush(x, f) : Take(x, o)
  OBVIOUS
<1>2. EndOK(o.ch) /\ SameWires(o.ch, o.ch)
  BY FlushEndOK DEF SameWires
<1>3. ch' = [ch EXCEPT ![x] = o.ch] /\ sock' = [sock EXCEPT ![Peer(x)] = @ \o o.sent]
  BY <1>1 DEF Take
<1>4. QED
  BY <1>2, <1>3, FlushPutStep

\* A step of an end that leaves the sockets alone, and its output while it is
\* live.
LEMMA LocalLinkStep ==
  ASSUME TypeOK, TypeOK', Linked, NEW x \in Ends, NEW d,
         ch' = [ch EXCEPT ![x] = d], sock' = sock, got' = got, EndOK(d),
         d.fd = ch[x].fd,
         d.fd => SameWires(ch[x], d)
  PROVE  LinkStep
<1> DEFINE c == ch[x]
<1>1. c \in Channels /\ d \in Channels /\ c.outgoing \in Seq(Messages)
  <2>1. c \in Channels /\ ch'[x] \in Channels
    BY StepTypes
  <2>2. ch'[x] = d
    BY DEF TypeOK
  <2>3. QED
    BY <2>1, <2>2 DEF Channels
<1>2. d.fd => Renumbers(c, d, <<>>)
  <2> SUFFICES ASSUME d.fd PROVE Renumbers(c, d, <<>>)
    OBVIOUS
  <2>1. d.otherThread = c.otherThread /\ d.nextId >= c.nextId
    BY <1>1 DEF SameWires, Channels
  <2>2. QED
    BY <1>1, <2>1, AsyncOfEmpty, RenumbersSilent
<1>3. d.fd => Writes(c, d, <<>>, <<>>)
  BY <1>1 DEF SameWires, Writes
<1>4. Puts(c, d, <<>>, <<>>)
  BY <1>2, <1>3 DEF Puts, SameWires
<1>5. sock' = [sock EXCEPT ![Peer(x)] = @ \o <<>>] /\ <<>> \in Seq(Messages)
  <2>1. Peer(x) \in Ends /\ sock \in [Ends -> Seq(Messages)]
    BY PeersPeer DEF TypeOK
  <2>2. sock[Peer(x)] \o <<>> = sock[Peer(x)]
    BY <2>1
  <2>3. QED
    BY <2>1, <2>2
<1>6. QED
  BY <1>4, <1>5, PutStep

\* A step by which an end goes down, leaving all its output unwritten.
LEMMA DownLinkStep ==
  ASSUME TypeOK, TypeOK', Linked, NEW x \in Ends, NEW d,
         ch' = [ch EXCEPT ![x] = d], sock' = sock, got' = got, EndOK(d),
         ~d.fd
  PROVE  LinkStep
<1> DEFINE c == ch[x]
<1>1. /\ c \in Channels /\ d \in Channels /\ c.outgoing \in Seq(Messages)
      /\ d.fd = FALSE /\ c.fd \in BOOLEAN
  <2>1. c \in Channels /\ ch'[x] \in Channels
    BY StepTypes
  <2>2. ch'[x] = d
    BY DEF TypeOK
  <2>3. QED
    BY <2>1, <2>2 DEF Channels
<1>2. CASE ~c.fd
  BY <1>1, <1>2, LocalLinkStep
<1>3. CASE c.fd
  <2>1. sock' = [sock EXCEPT ![Peer(x)] = @ \o <<>>] /\ <<>> \in Seq(Messages)
    <3>1. Peer(x) \in Ends /\ sock \in [Ends -> Seq(Messages)]
      BY PeersPeer DEF TypeOK
    <3>2. sock[Peer(x)] \o <<>> = sock[Peer(x)]
      BY <3>1
    <3>3. QED
      BY <3>1, <3>2
  <2>2. /\ Async(c.outgoing) \in Seq(Items)
        /\ Async(c.outgoing) = Async(<<>>) \o Async(c.outgoing)
    <3>1. Async(c.outgoing) \in Seq(Items)
      BY <1>1, AsyncOfMessages
    <3>2. QED
      BY <3>1, AsyncOfEmpty
  <2>3. QED
    BY <1>3, <2>1, <2>2, CloseStep
<1>4. QED
  BY <1>2, <1>3
-----------------------------------------------------------------------------
(***************************************************************************)
(* The actions of end x.                                                   *)
(***************************************************************************)
LEMMA SendAsyncLink ==
  ASSUME TypeOK, TypeOK', Linked, NEW x \in Ends, NEW k \in AsyncKinds,
         SendAsync(x, k)
  PROVE  LinkStep
<1> DEFINE c == ch[x]
           f == Enqueue(c, k)
           m == NewMessage(c, k)
<1>1. c \in Channels /\ f \in Channels /\ m \in Messages /\ EndOK(c)
  BY EnqueueType DEF TypeOK, Linked
<1>2. m.kind \in AsyncKinds /\ m.id = c.nextId
  BY DEF NewMessage
<1>3. /\ SameNews(c, f) /\ f.nextId = c.nextId + 1
      /\ f.otherThread = c.otherThread /\ f.outgoing = Append(c.outgoing, m)
  BY <1>1 DEF Enqueue, Channels, SameNews, Alive
<1>4. (\E o \in Flush(x, f) : Take(x, o)) /\ got' = got
  BY DEF SendAsync
<1> HIDE DEF f, m
<1>5. f.outgoing = c.outgoing \o <<m>> /\ <<m>> \in Seq(Messages)
      /\ Len(<<m>>) <= 1
  <2>1. c.outgoing \in Seq(Messages)
    BY <1>1 DEF Channels
  <2>2. Append(c.outgoing, m) = c.outgoing \o <<m>>
    BY <1>1, <2>1, AppendIsConcat
  <2>3. QED
    BY <1>1, <1>3, <2>2
<1>6. Renumbers(c, f, <<m>>)
  BY <1>1, <1>2, <1>3, RenumbersNew
<1>7. EndOK(f) /\ f.fd = c.fd /\ f.incomingAsync = c.incomingAsync
  BY <1>1, <1>3, SameNewsOK DEF SameNews
<1>8. QED
  BY <1>1, <1>4, <1>5, <1>6, <1>7, FlushLinkStep

LEMMA QueueAsyncLink ==
  ASSUME TypeOK, TypeOK', Linked, NEW x \in Ends, QueueAsyncMessage(x)
  PROVE  LinkStep
<1> DEFINE c == ch[x]
           m == NewMessage(c, "thread")
           d == [c EXCEPT !.otherThread = Append(@, m), !.nextId = @ + 1]
<1>1. c \in Channels /\ EndOK(c) /\ c.outgoing \in Seq(Messages)
      /\ c.nextId \in Nat
  BY DEF TypeOK, Linked, Channels
<1>2. m \in Messages /\ m.kind \in AsyncKinds /\ m.id = c.nextId
  BY <1>1 DEF NewMessage, Messages, AsyncKinds
<1>3. ch' = [ch EXCEPT ![x] = d] /\ sock' = sock /\ got' = got
  BY DEF QueueAsyncMessage, TypeOK
<1>4. d \in Channels
  <2>1. ch'[x] = d
    BY <1>3 DEF TypeOK
  <2>2. ch'[x] \in Channels
    BY StepTypes
  <2>3. QED
    BY <2>1, <2>2
<1>5. /\ SameNews(c, d) /\ d.nextId = c.nextId + 1 /\ d.outgoing = c.outgoing
      /\ d.otherThread = Append(c.otherThread, m)
  BY <1>1 DEF Channels, SameNews, Alive
<1> HIDE DEF d, m
<1>6. Renumbers(c, d, <<>>)
  BY <1>1, <1>2, <1>4, <1>5, RenumbersQueued
<1>7. Writes(c, d, <<>>, <<>>)
  BY <1>1, <1>5 DEF Writes
<1>8. Puts(c, d, <<>>, <<>>)
  BY <1>5, <1>6, <1>7 DEF Puts, SameNews
<1>9. EndOK(d)
  BY <1>1, <1>5, SameNewsOK
<1>10. sock' = [sock EXCEPT ![Peer(x)] = @ \o <<>>] /\ <<>> \in Seq(Messages)
  <2>1. Peer(x) \in Ends /\ sock \in [Ends -> Seq(Messages)]
    BY PeersPeer DEF TypeOK
  <2>2. sock[Peer(x)] \o <<>> = sock[Peer(x)]
    BY <2>1
  <2>3. QED
    BY <1>3, <2>1, <2>2
<1>11. QED
  BY <1>3, <1>8, <1>9, <1>10, PutStep

\* A request is put in no queue of the abstract link, but takes a number.
LEMMA SendSyncLink ==
  ASSUME TypeOK, TypeOK', Linked, NEW x \in Ends, NEW k \in SyncKinds,
         NEW timed \in Timed, SendSync(x, k, timed)
  PROVE  LinkStep
<1> DEFINE c == ch[x]
           m == NewMessage(c, k)
           q == Enqueue(c, k)
           f == [q EXCEPT !.inNestedLoop = TRUE, !.currSyncMessageId = m.id,
                          !.currSyncReply = NoMsg]
<1>1. c \in Channels /\ q \in Channels /\ m \in Messages /\ EndOK(c)
      /\ timed \in BOOLEAN
  BY EnqueueType, BoundsAssumption DEF TypeOK, Linked
<1>2. m.kind \notin AsyncKinds
  BY KindsDisjoint DEF NewMessage
<1>3. m.id \in Nat
  BY <1>1, MessageTypes DEF Messages
<1>4. PICK o \in Flush(x, f) :
             Take(x, [o EXCEPT !.ch = EnterNestedLoop(@, m, timed)])
  BY DEF SendSync
<1>5. got' = got
  BY DEF SendSync
<1>6. /\ SameNews(c, q) /\ q.nextId = c.nextId + 1
      /\ q.otherThread = c.otherThread /\ q.outgoing = Append(c.outgoing, m)
  BY <1>1 DEF Enqueue, Channels, SameNews, Alive
<1> HIDE DEF q, m
<1>7. /\ f \in Channels /\ SameNews(q, f) /\ f.nextId = q.nextId
      /\ f.otherThread = q.otherThread /\ f.outgoing = q.outgoing
  BY <1>1, <1>3 DEF Channels, SameNews, Alive
<1> HIDE DEF f
<1>8. EndOK(f) /\ f.fd = c.fd /\ f.incomingAsync = c.incomingAsync
  BY <1>1, <1>6, <1>7, SameNewsOK DEF SameNews
<1>9. f.outgoing = c.outgoing \o <<m>> /\ Len(<<m>>) <= 1
  <2>1. c.outgoing \in Seq(Messages)
    BY <1>1 DEF Channels
  <2>2. Append(c.outgoing, m) = c.outgoing \o <<m>>
    BY <1>1, <2>1, AppendIsConcat
  <2>3. QED
    BY <1>6, <1>7, <2>2
<1>10. <<m>> \in Seq(Messages) /\ Async(<<m>>) = <<>>
  BY <1>1, <1>2, AsyncOfSync
<1>11. Renumbers(c, f, <<m>>)
  <2>1. f.otherThread = c.otherThread /\ f.nextId = c.nextId + 1
    BY <1>6, <1>7
  <2>2. c.nextId \in Nat
    BY <1>1 DEF Channels
  <2>3. f.nextId >= c.nextId
    BY <2>1, <2>2
  <2>4. QED
    BY <1>1, <1>7, <1>10, <2>1, <2>3, RenumbersSilent
<1>12. o.ch \in Channels /\ o \in Outcomes /\ EndOK(o.ch)
  <2>1. o \in Outcomes
    BY <1>7, FlushType
  <2>2. QED
    BY <1>7, <1>8, <2>1, FlushEndOK DEF Outcomes
<1> DEFINE b == o.ch
           d == EnterNestedLoop(b, m, timed)
<1>13. ch' = [ch EXCEPT ![x] = d] /\ sock' = [sock EXCEPT ![Peer(x)] = @ \o o.sent]
  <2> DEFINE p == [o EXCEPT !.ch = EnterNestedLoop(@, m, timed)]
  <2>1. p.ch = d /\ p.sent = o.sent
    BY <1>12 DEF Outcomes
  <2> HIDE DEF p, d
  <2>2. QED
    BY <1>4, <2>1 DEF Take, p
<1>14. SameWires(b, d) /\ EndOK(d)
  <2>1. CASE b.fd
    <3> DEFINE s == StartNestedLoop(b, m, timed)
    <3>1. s \in Channels
      BY <1>1, <1>12, StartNestedLoopType
    <3>2. SameWires(b, s)
      BY <1>12 DEF StartNestedLoop, Channels, SameWires
    <3>3. d = Push(s, "call", m)
      BY <2>1 DEF EnterNestedLoop
    <3> HIDE DEF s, b, d
    <3>4. SameWires(s, d)
      BY <3>1, <3>3, PushFields, PushSameLoop DEF SameWires, SameLoop
    <3>5. EndOK(d)
      BY <1>12, <2>1, <3>2, <3>4 DEF SameWires, EndOK, KindsOK, LateOK, b
    <3>6. QED
      BY <3>2, <3>4, <3>5 DEF SameWires
  <2>2. CASE ~b.fd
    <3>1. d = AbandonCall(b, m)
      BY <2>2 DEF EnterNestedLoop
    <3>2. SameWires(b, AbandonCall(b, m)) /\ SameNews(b, AbandonCall(b, m))
      BY <1>12 DEF AbandonCall, Channels, SameWires, SameNews, Alive
    <3> HIDE DEF b, d
    <3>3. QED
      BY <1>12, <3>1, <3>2, SameNewsOK DEF b
  <2>3. QED
    BY <2>1, <2>2
<1> HIDE DEF d
<1>15. QED
  BY <1>5, <1>7, <1>8, <1>9, <1>10, <1>11, <1>13, <1>14, FlushPutStep

\* The main loop polls outside of calls.
LEMMA DrainLink ==
  ASSUME TypeOK, TypeOK', Scheduled, Linked, NEW x \in Ends,
         AsyncCallerDispatch(x)
  PROVE  LinkStep
<1> DEFINE c == ch[x]
           f == DrainOtherThread(c)
<1>1. c \in Channels /\ f \in Channels /\ EndOK(c) /\ NestedModeOK(c)
  BY DrainOtherThreadType DEF TypeOK, Linked, Scheduled, ChannelOK
<1>2. ~c.inNestedLoop
  BY <1>1, ModeInPoll DEF AsyncCallerDispatch
<1>3. /\ SameNews(c, f) /\ f.nextId = c.nextId /\ f.otherThread = <<>>
      /\ f.outgoing = c.outgoing \o c.otherThread
      /\ f.inNestedLoop = c.inNestedLoop
  BY <1>1 DEF DrainOtherThread, Channels, SameNews, Alive
<1>4. (\E o \in Flush(x, f) : Take(x, o)) /\ got' = got
  BY DEF AsyncCallerDispatch
<1> HIDE DEF f
<1>5. c.otherThread \in Seq(Messages)
  BY <1>1 DEF Channels
<1>6. Renumbers(c, f, c.otherThread)
  BY <1>1, <1>3, RenumbersDrained
<1>7. EndOK(f) /\ f.fd = c.fd /\ f.incomingAsync = c.incomingAsync
  BY <1>1, <1>3, SameNewsOK DEF SameNews
<1>8. QED
  BY <1>1, <1>2, <1>3, <1>4, <1>5, <1>6, <1>7, FlushLinkStep

\* A step that flushes without having added anything.
LEMMA OnlyFlushStep ==
  ASSUME TypeOK, TypeOK', Linked, NEW x \in Ends, NEW f \in Channels,
         \E o \in Flush(x, f) : Take(x, o), got' = got, EndOK(f),
         SameWires(ch[x], f)
  PROVE  LinkStep
<1> DEFINE c == ch[x]
<1>1. c \in Channels /\ c.outgoing \in Seq(Messages)
  BY DEF TypeOK, Channels
<1>2. c.outgoing \o <<>> = c.outgoing /\ <<>> \in Seq(Messages) /\ Len(<<>>) <= 1
  BY <1>1
<1>3. f.otherThread = c.otherThread /\ f.nextId >= c.nextId
  BY <1>1 DEF SameWires, Channels
<1>4. Renumbers(c, f, <<>>)
  BY <1>1, <1>3, AsyncOfEmpty, RenumbersSilent
<1>5. f.outgoing = c.outgoing \o <<>> /\ f.fd = c.fd
      /\ f.incomingAsync = c.incomingAsync
  BY <1>2 DEF SameWires
<1>6. QED
  BY <1>2, <1>4, <1>5, FlushLinkStep

LEMMA SocketOutLink ==
  ASSUME TypeOK, TypeOK', Linked, NEW x \in Ends, SocketOut(x)
  PROVE  LinkStep
<1> DEFINE c == ch[x]
           p == LastSourceOfPass(c)
           d == [p EXCEPT !.blockedOnWrite = FALSE]
           f == IF At(d) = "loop" THEN [d EXCEPT !.socketSource = "in"]
                                  ELSE [d EXCEPT !.nestedSocketSource = "in"]
<1>1. c \in Channels /\ EndOK(c)
  BY DEF TypeOK, Linked
<1>2. p \in Channels
  BY <1>1, LastSourceOfPassType
<1>3. SameNews(c, p) /\ SameWires(c, p)
  BY <1>1 DEF LastSourceOfPass, Channels, SameNews, SameWires, Alive
<1>4. (\E o \in Flush(x, f) : Take(x, o)) /\ got' = got
  BY DEF SocketOut
<1> HIDE DEF p
<1>5. d \in Channels /\ SameNews(p, d) /\ SameWires(p, d)
  BY <1>2 DEF Channels, SameNews, SameWires, Alive
<1> HIDE DEF d
<1>6. f \in Channels /\ SameNews(d, f) /\ SameWires(d, f)
  BY <1>5 DEF Channels, Watch, SameNews, SameWires, Alive
<1> HIDE DEF f
<1>7. SameNews(c, f) /\ SameWires(c, f)
  BY <1>3, <1>5, <1>6 DEF SameNews, SameWires
<1>8. EndOK(f)
  BY <1>1, <1>7, SameNewsOK
<1>9. QED
  BY <1>4, <1>6, <1>7, <1>8, OnlyFlushStep

LEMMA CallReturnLink ==
  ASSUME TypeOK, TypeOK', Linked, NEW x \in Ends, CallReturn(x)
  PROVE  LinkStep
<1> DEFINE c == ch[x]
           d == LeaveNestedLoop(c)
           f == IF d.fd THEN ResumeMainLoop(d) ELSE d
<1>1. c \in Channels /\ EndOK(c)
  BY DEF TypeOK, Linked
<1>2. c.stack # <<>> /\ At(c) = "call"
  BY DEF CallReturn, Runs, At
<1>3. (\E o \in Flush(x, f) : Take(x, o)) /\ got' = got
  BY DEF CallReturn
<1>4. d \in Channels
  BY <1>1, <1>2, LeaveNestedLoopType
<1>5. SameNews(Pop(c), d) /\ SameWires(c, d)
  BY <1>1 DEF LeaveNestedLoop, DestroyTimeout, Pop, Channels, SameNews,
              SameWires, Alive
<1> HIDE DEF d
<1>6. EndOK(d)
  BY <1>1, <1>2, <1>5, PopEndOK, SameNewsOK
<1>7. f \in Channels /\ SameWires(d, f) /\ EndOK(f)
  <2>1. CASE d.fd
    <3>1. f = ResumeMainLoop(d)
      BY <2>1
    <3>2. f \in Channels
      BY <1>4, <3>1, ResumeMainLoopType
    <3>3. SameWires(d, ResumeMainLoop(d))
      BY <1>4 DEF ResumeMainLoop, ScheduleBuffered, AttachDispatcher, Channels,
                  SameWires
    <3> HIDE DEF f
    <3>4. EndOK(f)
      BY <1>6, <2>1, <3>1, <3>3 DEF SameWires, EndOK, KindsOK, LateOK
    <3>5. QED
      BY <3>1, <3>2, <3>3, <3>4
  <2>2. CASE ~d.fd
    BY <1>4, <1>6, <2>2 DEF SameWires
  <2>3. QED
    BY <2>1, <2>2
<1> HIDE DEF f
<1>8. SameWires(c, f)
  BY <1>5, <1>7 DEF SameWires
<1>9. QED
  BY <1>3, <1>7, <1>8, OnlyFlushStep

\* A reply is put in no queue of the abstract link.
LEMMA SyncHandlerReturnLink ==
  ASSUME TypeOK, TypeOK', Linked, NEW x \in Ends, SyncHandlerReturn(x)
  PROVE  LinkStep
<1> DEFINE c == ch[x]
           m == Head(c.stack).msg
           r == ReplyTo(c, m)
           p == Pop(c)
           f == [p EXCEPT !.outgoing = Append(@, r), !.replyForIncoming = FALSE]
<1>1. c \in Channels /\ EndOK(c)
  BY DEF TypeOK, Linked
<1>2. c.stack # <<>> /\ At(c) = "sync"
  BY DEF SyncHandlerReturn, Runs, At
<1>3. p \in Channels /\ EndOK(p) /\ SameWires(c, p)
  <2>1. p \in Channels /\ EndOK(p)
    BY <1>1, <1>2, PopType, PopEndOK
  <2>2. SameWires(c, p)
    BY <1>1 DEF Pop, Channels, SameWires
  <2>3. QED
    BY <2>1, <2>2
<1>4. r \in Messages /\ r.kind \notin AsyncKinds
  <2>1. m \in Messages \cup {NoMsg}
    BY <1>1, <1>2, StackType
  <2> HIDE DEF m
  <2>2. m.id \in Nat
    BY <2>1, MessageTypes
  <2>3. QED
    BY <2>2 DEF ReplyTo, Messages, ReplyKinds, AsyncKinds
<1>5. PICK o \in Flush(x, f) : Take(x, [o EXCEPT !.ch = StopFor(m, @)])
  BY DEF SyncHandlerReturn
<1>6. got' = got
  BY DEF SyncHandlerReturn
<1> HIDE DEF p, r, m
<1>7. /\ f \in Channels /\ SameNews(p, f) /\ f.nextId = p.nextId
      /\ f.otherThread = p.otherThread /\ f.outgoing = Append(p.outgoing, r)
  <2>1. Append(p.outgoing, r) \in Seq(Messages)
    BY <1>3, <1>4 DEF Channels
  <2>2. f \in Channels
    BY <1>3, <2>1 DEF Channels
  <2>3. /\ SameNews(p, f) /\ f.nextId = p.nextId
        /\ f.otherThread = p.otherThread /\ f.outgoing = Append(p.outgoing, r)
    BY <1>3 DEF Channels, SameNews, Alive
  <2>4. QED
    BY <2>2, <2>3
<1> HIDE DEF f
<1>8. o \in Outcomes
  BY <1>7, FlushType
<1>9. EndOK(f) /\ f.fd = c.fd /\ f.incomingAsync = c.incomingAsync
  BY <1>3, <1>7, SameNewsOK DEF SameNews, SameWires
<1>10. f.outgoing = c.outgoing \o <<r>> /\ Len(<<r>>) <= 1
  <2>1. c.outgoing \in Seq(Messages)
    BY <1>1 DEF Channels
  <2>2. Append(c.outgoing, r) = c.outgoing \o <<r>>
    BY <1>4, <2>1, AppendIsConcat
  <2>3. QED
    BY <1>3, <1>7, <2>2 DEF SameWires
<1>11. <<r>> \in Seq(Messages) /\ Async(<<r>>) = <<>>
  BY <1>4, AsyncOfSync
<1>12. Renumbers(c, f, <<r>>)
  <2>1. f.otherThread = c.otherThread /\ f.nextId >= c.nextId
    BY <1>1, <1>3, <1>7, SMTT(30) DEF SameWires, Channels
  <2>2. QED
    BY <1>1, <1>7, <1>11, <2>1, RenumbersSilent
<1> DEFINE b == o.ch
           d == StopFor(m, b)
           q == [o EXCEPT !.ch = StopFor(m, @)]
<1>13. b \in Channels /\ EndOK(b)
  BY <1>7, <1>8, <1>9, FlushEndOK DEF Outcomes
<1>14. ch' = [ch EXCEPT ![x] = d] /\ sock' = [sock EXCEPT ![Peer(x)] = @ \o o.sent]
  <2>1. q.ch = d /\ q.sent = o.sent
    BY <1>8 DEF Outcomes
  <2>2. Take(x, q)
    BY <1>5
  <2> HIDE DEF q, d
  <2>3. QED
    BY <2>1, <2>2 DEF Take
<1>15. SameWires(b, d) /\ SameNews(b, d)
  BY <1>13 DEF StopFor, Channels, SameWires, SameNews, Alive
<1>16. EndOK(d)
  BY <1>13, <1>15, SameNewsOK
<1> HIDE DEF d
<1>17. QED
  BY <1>6, <1>7, <1>9, <1>10, <1>11, <1>12, <1>14, <1>15, <1>16, FlushPutStep

\* What a channel becomes when it takes message m in.
LEMMA HandleFields ==
  ASSUME NEW c \in Channels, NEW m \in Messages, NEW d,
         \/ d = HandleIncomingMessageInNestedMode(c, m)
         \/ d = HandleIncomingMessageInNormalMode(c, m)
  PROVE  /\ d.fd = c.fd /\ d.outgoing = c.outgoing
         /\ d.otherThread = c.otherThread /\ d.nextId = c.nextId
         /\ d.incomingAsync = c.incomingAsync \o OnlyAsync(m)
<1> DEFINE Keeps(b, i) == /\ b.fd = c.fd /\ b.outgoing = c.outgoing
                          /\ b.otherThread = c.otherThread /\ b.nextId = c.nextId
                          /\ b.incomingAsync = i
<1>0. c.incomingAsync \in Seq(Items) /\ m \in Items
  BY DEF Channels, Items
<1>1. m.kind \in AsyncKinds \cup SyncKinds \cup ReplyKinds
  BY DEF Messages
<1>2. /\ m.kind \in AsyncKinds => m.kind \notin SyncKinds \cup ReplyKinds
      /\ m.kind \in ReplyKinds => m.kind \notin SyncKinds
      /\ m.kind \notin AsyncKinds \/ m.kind \notin SyncKinds \cup ReplyKinds
  BY KindsDisjoint
<1>3. CASE m.kind \in AsyncKinds
  <2> DEFINE q == QueueIncoming(c, m)
  <2>1. Keeps(q, Append(c.incomingAsync, m)) /\ q \in Channels
    <3>1. Append(c.incomingAsync, m) \in Seq(Messages \cup {Gone})
      BY <1>0 DEF Items
    <3>2. QED
      BY <3>1 DEF QueueIncoming, Channels
  <2>2. d = q \/ d = Push(q, "dispatch", NoMsg)
    BY <1>2, <1>3 DEF HandleIncomingMessageInNestedMode,
                      HandleIncomingMessageInNormalMode
  <2> HIDE DEF q
  <2>3. Keeps(d, Append(c.incomingAsync, m))
    BY <2>1, <2>2, PushSameLoop, PushFields DEF SameLoop
  <2>4. Append(c.incomingAsync, m) = c.incomingAsync \o <<m>>
    BY <1>0, AppendIsConcat
  <2>5. QED
    BY <1>3, <2>3, <2>4 DEF OnlyAsync
<1>4. CASE m.kind \notin AsyncKinds
  <2>1. Keeps(d, c.incomingAsync)
    <3>1. CASE m.kind \in SyncKinds
      <4> DEFINE b == [c EXCEPT !.replyForIncoming = FALSE]
      <4>1. Keeps(b, c.incomingAsync) /\ b \in Channels
        BY DEF Channels
      <4>2. d = Push(b, "sync", m)
        BY <3>1 DEF HandleIncomingMessageInNestedMode, HandleIncomingSyncMessage,
                    HandleIncomingMessageInNormalMode
      <4> HIDE DEF b
      <4>3. QED
        BY <4>1, <4>2, PushSameLoop, PushFields DEF SameLoop
    <3>2. CASE m.kind \in ReplyKinds
      <4>1. d = TakeReply(c, m) \/ d = c
        BY <1>2, <3>2 DEF HandleIncomingMessageInNestedMode,
                          HandleIncomingMessageInNormalMode
      <4>2. Keeps(TakeReply(c, m), c.incomingAsync)
        BY DEF TakeReply, Channels
      <4>3. QED
        BY <4>1, <4>2
    <3>3. QED
      BY <1>1, <1>4, <3>1, <3>2
  <2>2. c.incomingAsync \o <<>> = c.incomingAsync
    BY <1>0
  <2>3. QED
    BY <1>4, <2>1, <2>2 DEF OnlyAsync
<1>5. QED
  BY <1>3, <1>4

LEMMA ReadMessageLink ==
  ASSUME TypeOK, TypeOK', Linked, NEW x \in Ends, ReadMessage(x)
  PROVE  LinkStep
<1> DEFINE c == ch[x]
           m == Head(sock[x])
           d == IF c.inNestedLoop THEN HandleIncomingMessageInNestedMode(c, m)
                                  ELSE HandleIncomingMessageInNormalMode(c, m)
<1>1. c \in Channels /\ EndOK(c) /\ c.fd
  BY DEF TypeOK, Linked, ReadMessage
<1>2. sock[x] # <<>> /\ m \in Messages
  BY DEF TypeOK, ReadMessage
<1>3. /\ ch' = [ch EXCEPT ![x] = d] /\ sock' = [sock EXCEPT ![x] = Tail(@)]
      /\ got' = got
  BY DEF ReadMessage
<1>4. /\ d.fd = c.fd /\ d.outgoing = c.outgoing
      /\ d.otherThread = c.otherThread /\ d.nextId = c.nextId
      /\ d.incomingAsync = c.incomingAsync \o OnlyAsync(m)
  <2>1. \/ d = HandleIncomingMessageInNestedMode(c, m)
        \/ d = HandleIncomingMessageInNormalMode(c, m)
    OBVIOUS
  <2> HIDE DEF c, m, d
  <2>2. QED
    BY <1>1, <1>2, <2>1, HandleFields
<1> HIDE DEF d
<1>5. EndOK(d)
  <2>1. c.incomingAsync \in Seq(Items) /\ m \in Items
    BY <1>1, <1>2 DEF Channels, Items
  <2>2. \A j \in DOMAIN c.incomingAsync : c.incomingAsync[j].kind \in AsyncKinds
    BY <1>1 DEF EndOK, KindsOK
  <2> DEFINE i == c.incomingAsync
             a == OnlyAsync(m)
  <2>3. a \in Seq(Items) /\ \A j \in DOMAIN a : a[j].kind \in AsyncKinds
    BY <2>1 DEF OnlyAsync
  <2>4. d.incomingAsync = i \o a /\ i \in Seq(Items)
        /\ \A j \in DOMAIN i : i[j].kind \in AsyncKinds
    BY <1>4, <2>1, <2>2
  <2> HIDE DEF i, a
  <2>5. ASSUME NEW j \in DOMAIN (i \o a) PROVE (i \o a)[j].kind \in AsyncKinds
    <3>1. \/ j \in DOMAIN i /\ (i \o a)[j] = i[j]
          \/ j - Len(i) \in DOMAIN a /\ (i \o a)[j] = a[j - Len(i)]
      BY <2>3, <2>4, ConcatPlaces
    <3>2. QED
      BY <2>3, <2>4, <3>1
  <2>6. QED
    BY <1>1, <1>4, <2>4, <2>5 DEF EndOK, KindsOK, LateOK
<1>6. QED
  BY <1>1, <1>2, <1>3, <1>4, <1>5, TakeInStep

\* A channel that lost its socket delivers nothing, for the disconnect message
\* comes first and ends the loop.
LEMMA DispatchingLive ==
  ASSUME TypeOK, Linked, NEW x \in Ends, Dispatching(x)
  PROVE  /\ ch[x].stack # <<>> /\ At(ch[x]) \in {"dispatch", "idle"}
         /\ \/ ch[x].fd
            \/ ch[x].incomingAsync # <<>> /\ Head(ch[x].incomingAsync) = Gone
<1> DEFINE c == ch[x]
<1>1. c \in Channels /\ EndOK(c) /\ Alive(c)
  BY DEF TypeOK, Linked, Dispatching, Runs, Alive
<1>2. c.stack # <<>> /\ At(c) \in {"dispatch", "idle"}
  BY DEF Dispatching, Runs, At
<1>3. HasFrame(c, {"dispatch", "idle"})
  <2>1. c.stack \in Seq(Frames)
    BY <1>1 DEF Channels
  <2>2. 1 \in DOMAIN c.stack /\ c.stack[1].at = At(c)
    BY <1>2, <2>1 DEF At
  <2>3. QED
    BY <1>2, <2>2 DEF HasFrame
<1>4. QED
  BY <1>1, <1>2, <1>3 DEF EndOK, LateOK

LEMMA DispatchMessageLink ==
  ASSUME TypeOK, TypeOK', Linked, NEW x \in Ends, DispatchMessage(x)
  PROVE  LinkStep
<1> DEFINE c == ch[x]
           m == Head(c.incomingAsync)
           b == PopIncoming(c)
           d == Push(b, "async", m)
<1>1. c \in Channels /\ EndOK(c) /\ c.incomingAsync # <<>> /\ m # Gone
      /\ Dispatching(x)
  BY DEF TypeOK, Linked, DispatchMessage
<1>2. c.fd
  BY <1>1, DispatchingLive
<1>3. /\ ch' = [ch EXCEPT ![x] = d] /\ sock' = sock
      /\ got' = [got EXCEPT ![x] = Append(@, m)]
  BY DEF DispatchMessage
<1>4. /\ b \in Channels /\ b.fd = c.fd /\ b.incomingAsync = Tail(c.incomingAsync)
      /\ b.outgoing = c.outgoing /\ b.otherThread = c.otherThread
      /\ b.nextId = c.nextId
  <2>1. b \in Channels
    BY <1>1, PopIncomingType
  <2>2. QED
    BY <1>1, <2>1 DEF PopIncoming, Channels
<1> HIDE DEF b
<1>5. SameWires(b, d)
  BY <1>4, PushSameLoop, PushFields DEF SameWires, SameLoop
<1> HIDE DEF d
<1>6. EndOK(d)
  <2>1. c.incomingAsync \in Seq(Items)
    BY <1>1 DEF Channels, Items
  <2>2. \A j \in DOMAIN c.incomingAsync : c.incomingAsync[j].kind \in AsyncKinds
    BY <1>1, <1>2 DEF EndOK, KindsOK
  <2>3. \A j \in DOMAIN Tail(c.incomingAsync) :
          /\ j + 1 \in DOMAIN c.incomingAsync
          /\ Tail(c.incomingAsync)[j] = c.incomingAsync[j + 1]
    BY <1>1, <2>1
  <2>4. QED
    BY <1>2, <1>4, <1>5, <2>2, <2>3 DEF SameWires, EndOK, KindsOK, LateOK
<1>7. QED
  BY <1>1, <1>2, <1>3, <1>4, <1>5, <1>6, DeliverStep DEF SameWires

\* After onDisconnected only the reader that called the dispatch goes on.
LEMMA DispatchDisconnectLink ==
  ASSUME TypeOK, TypeOK', Calls, Linked, NEW x \in Ends,
         DispatchDisconnect(x)
  PROVE  LinkStep
<1> DEFINE c == ch[x]
           b == PopIncoming(c)
           d == EndDispatch(b, "spent")
<1>1. c \in Channels /\ EndOK(c) /\ c.incomingAsync # <<>>
      /\ Head(c.incomingAsync) = Gone /\ Dispatching(x) /\ CallersOK(c)
  BY DEF TypeOK, Linked, DispatchDisconnect, Calls, CallsOK
<1>2. c.stack # <<>> /\ At(c) \in {"dispatch", "idle"}
  BY <1>1, DispatchingLive
<1>3. ~c.fd
  <2>1. c.incomingAsync \in Seq(Items)
    BY <1>1 DEF Channels, Items
  <2>2. 1 \in DOMAIN c.incomingAsync /\ c.incomingAsync[1] = Gone
    BY <1>1, <2>1
  <2>3. Gone.kind \notin AsyncKinds
    BY DEF Gone, AsyncKinds
  <2>4. QED
    BY <1>1, <2>2, <2>3 DEF EndOK, KindsOK
<1>4. ch' = [ch EXCEPT ![x] = d] /\ sock' = sock /\ got' = got
  BY DEF DispatchDisconnect
<1>5. /\ b \in Channels /\ b.fd = c.fd /\ b.stack = c.stack
      /\ b.dispatcherSrc = c.dispatcherSrc
  BY <1>1, PopIncomingType, PopIncomingFields
<1>6. At(b) = At(c)
  BY <1>5 DEF At
<1> HIDE DEF b
<1>7. /\ d.fd = c.fd /\ d.stack = Tail(c.stack)
      /\ d.dispatcherSrc = IF At(c) = "idle" THEN "spent" ELSE c.dispatcherSrc
  BY <1>5, <1>6 DEF EndDispatch, Pop, Channels
<1> HIDE DEF d
<1> DEFINE s == c.stack
           n == Len(s)
<1>8. /\ s \in Seq(Frames) /\ n \in Nat /\ n >= 1 /\ DOMAIN s = 1 .. n
      /\ s[1].at = At(c)
  <2>1. s \in Seq(Frames)
    BY <1>1 DEF Channels
  <2>2. QED
    BY <1>2, <2>1 DEF At
<1>9. \A i \in DOMAIN s :
        (IF i = n THEN "loop" ELSE s[i + 1].at) \in Caller[s[i].at]
  BY <1>1 DEF CallersOK, Below
<1>10. \A i \in DOMAIN s : s[i].at # "loop"
  <2>1. \A i \in DOMAIN s : s[i] \in Frames
    BY <1>8
  <2>2. QED
    BY <2>1 DEF Frames
<1>11. d.stack = Tail(s)
  BY <1>7
<1> HIDE DEF s, n
<1>13. CASE At(c) = "idle"
  <2>1. (IF 1 = n THEN "loop" ELSE s[2].at) = "loop"
    <3>1. 1 \in DOMAIN s /\ 1 + 1 = 2
      BY <1>8
    <3>2. (IF 1 = n THEN "loop" ELSE s[1 + 1].at) \in Caller["idle"]
      BY <1>8, <1>9, <1>13, <3>1
    <3>3. QED
      BY <3>1, <3>2 DEF Caller
  <2>2. n = 1
    <3>1. n # 1 => 2 \in DOMAIN s
      BY <1>8
    <3>2. QED
      BY <1>10, <2>1, <3>1
  <2>3. d.stack = <<>>
    BY <1>8, <1>11, <2>2 DEF n
  <2>4. ~HasFrame(d, {"dispatch", "idle"})
    BY <2>3 DEF HasFrame
  <2>5. EndOK(d)
    BY <1>3, <1>7, <1>13, <2>4 DEF EndOK, KindsOK, LateOK
  <2>6. QED
    BY <1>3, <1>4, <1>7, <2>5, DownLinkStep
<1>14. CASE At(c) = "dispatch"
  <2>1. 1 \in DOMAIN s /\ 1 + 1 = 2 /\ 2 + 1 = 3
    BY <1>8
  <2>2. n # 1 /\ s[2].at = "read"
    <3>1. (IF 1 = n THEN "loop" ELSE s[1 + 1].at) \in Caller["dispatch"]
      BY <1>8, <1>9, <1>14, <2>1
    <3>2. QED
      BY <2>1, <3>1 DEF Caller
  <2>3. At(d) = "read"
    <3>1. s \in Seq(Frames) /\ Len(s) >= 2
      BY <1>8, <2>2 DEF n
    <3>2. Tail(s) # <<>> /\ Head(Tail(s)) = s[2]
      BY <3>1, SMTT(30)
    <3>3. QED
      BY <1>11, <2>2, <3>2 DEF At
  <2>4. EndOK(d)
    BY <1>3, <1>7, <2>3 DEF EndOK, KindsOK, LateOK
  <2>5. QED
    BY <1>3, <1>4, <1>7, <2>4, DownLinkStep
<1>15. QED
  BY <1>2, <1>13, <1>14
-----------------------------------------------------------------------------
LEMMA LinkInit == Init => Linked
<1> SUFFICES ASSUME Init, NEW e \in Ends PROVE NumbersOK(e) /\ EndOK(ch[e])
  BY DEF Linked
<1>1. /\ ch[e] = NewChannel /\ ch[Peer(e)] = NewChannel
      /\ sock[e] = <<>> /\ got[e] = <<>>
  BY PeersPeer DEF Init
<1>2. /\ NewChannel.fd /\ NewChannel.incomingAsync = <<>>
      /\ NewChannel.outgoing = <<>> /\ NewChannel.otherThread = <<>>
  BY DEF NewChannel
<1>3. InTransit(e) = <<>> \o <<>> \o <<>>
  BY <1>1, <1>2, AsyncOfEmpty, TransitIs DEF Transit, Left
<1>4. Seen(e) = <<>>
  BY <1>1, <1>3 DEF Seen
<1>5. Async(ch[Peer(e)].otherThread) = <<>>
  BY <1>1, <1>2, AsyncOfEmpty
<1>6. NumbersOK(e)
  BY <1>4, <1>5 DEF NumbersOK, Numbers, Distinct, Apart, Older
<1>7. EndOK(ch[e])
  BY <1>1, <1>2 DEF EndOK, KindsOK, LateOK
<1>8. QED
  BY <1>6, <1>7

LEMMA LinkStutter ==
  ASSUME Linked, UNCHANGED vars
  PROVE  LinkStep
<1>1. ch' = ch /\ sock' = sock /\ got' = got
  BY DEF vars
<1>2. \A e : InTransit(e)' = InTransit(e)
  <2> TAKE e
  <2>1. InTransit(e)' = Transit(ch'[e], sock'[e], ch'[Peer(e)])
    BY TransitIs
  <2>2. QED
    BY <1>1, <2>1, TransitIs
<1>3. [Link!Next]_(Link!vars)
  BY <1>1, <1>2, LinkStutters
<1>4. Linked'
  <2> SUFFICES ASSUME NEW e \in Ends PROVE NumbersOK(e)' /\ EndOK(ch[e])'
    BY DEF Linked
  <2>1. Live(e)' = Live(e) /\ Seen(e)' = Seen(e)
    BY <1>1, <1>2 DEF Live, Seen
  <2>2. NumbersOK(e)'
    BY <1>1, <2>1 DEF Linked, NumbersOK
  <2>3. EndOK(ch[e])'
    BY <1>1 DEF Linked, EndOK, KindsOK, LateOK, Alive, HasFrame, At
  <2>4. QED
    BY <2>2, <2>3
<1>5. QED
  BY <1>3, <1>4 DEF LinkStep

\* Every step of the channels keeps the invariant and is a step of the link.
LEMMA LinkNext ==
  ASSUME TypeOK, TypeOK', Scheduled, Calls, Linked, [Next]_vars
  PROVE  LinkStep
<1>0. CASE UNCHANGED vars
  BY <1>0, LinkStutter
<1> SUFFICES ASSUME NEW x \in Ends,
                    \/ MainThread(x) \/ TimerExpires(x)
                    \/ Application(x) \/ Outside(x)
             PROVE  LinkStep
  BY <1>0 DEF Next
<1> DEFINE c == ch[x]
<1>c. c \in Channels /\ EndOK(c)
  BY DEF TypeOK, Linked
<1>1. ASSUME NEW k \in AsyncKinds, SendAsync(x, k) PROVE LinkStep
  BY <1>1, SendAsyncLink
<1>2. CASE QueueAsyncMessage(x)
  BY <1>2, QueueAsyncLink
<1>3. ASSUME NEW k \in SyncKinds, NEW timed \in Timed, SendSync(x, k, timed)
      PROVE  LinkStep
  BY <1>3, SendSyncLink
<1>s. ASSUME NEW d, ch' = [ch EXCEPT ![x] = d], sock' = sock, got' = got,
             SameNews(c, d), SameWires(c, d)
      PROVE  LinkStep
  BY <1>c, <1>s, SameNewsOK, LocalLinkStep DEF SameNews
<1>4. CASE SendReply(x)
  <2> DEFINE d == [c EXCEPT !.replyForIncoming = TRUE]
  <2>1. SameNews(c, d) /\ SameWires(c, d)
    BY <1>c DEF Channels, SameNews, SameWires, Alive
  <2>2. ch' = [ch EXCEPT ![x] = d] /\ sock' = sock /\ got' = got
    BY <1>4 DEF SendReply
  <2> HIDE DEF d
  <2>3. QED
    BY <1>s, <2>1, <2>2
<1>5. CASE ClearRemoteIsSuspended(x)
  <2> DEFINE d == [c EXCEPT !.remoteIsSuspended = FALSE]
  <2>1. SameNews(c, d) /\ SameWires(c, d)
    BY <1>c DEF Channels, SameNews, SameWires, Alive
  <2>2. ch' = [ch EXCEPT ![x] = d] /\ sock' = sock /\ got' = got
    BY <1>5 DEF ClearRemoteIsSuspended
  <2> HIDE DEF d
  <2>3. QED
    BY <1>s, <2>1, <2>2
<1>6. CASE AsyncCallerDispatch(x)
  BY <1>6, DrainLink
<1>7. CASE SocketHup(x)
  <2> DEFINE p == LastSourceOfPass(c)
             d == Disconnected(p)
  <2>1. p \in Channels
    BY <1>c, LastSourceOfPassType
  <2>2. ch' = [ch EXCEPT ![x] = d] /\ sock' = sock /\ got' = got
    BY <1>7 DEF SocketHup
  <2> HIDE DEF p
  <2>3. EndOK(d) /\ ~d.fd
    BY <2>1, DisconnectedEndOK, DisconnectedFields
  <2> HIDE DEF d
  <2>4. QED
    BY <2>2, <2>3, DownLinkStep
<1>8. CASE SocketOut(x)
  BY <1>8, SocketOutLink
<1>l. ASSUME NEW d, ch' = [ch EXCEPT ![x] = d], sock' = sock, got' = got,
             c.fd, SameWires(c, d)
      PROVE  LinkStep
  <2>1. EndOK(d)
    BY <1>c, <1>l DEF EndOK, KindsOK, LateOK, SameWires
  <2>2. d.fd = c.fd
    BY <1>l DEF SameWires
  <2>3. QED
    BY <1>l, <2>1, <2>2, LocalLinkStep
<1>9. CASE SocketIn(x)
  <2> DEFINE p == LastSourceOfPass(c)
             d == Push(p, "read", NoMsg)
  <2>1. p \in Channels /\ SameWires(c, p)
    <3>1. p \in Channels
      BY <1>c, LastSourceOfPassType
    <3>2. SameWires(c, p)
      BY <1>c DEF LastSourceOfPass, Channels, SameWires
    <3>3. QED
      BY <3>1, <3>2
  <2>2. ch' = [ch EXCEPT ![x] = d] /\ sock' = sock /\ got' = got /\ c.fd
    BY <1>9 DEF SocketIn
  <2> HIDE DEF p
  <2>3. SameWires(p, d)
    BY <2>1, PushSameLoop, PushFields DEF SameWires, SameLoop
  <2> HIDE DEF d
  <2>4. SameWires(c, d)
    BY <2>1, <2>3 DEF SameWires
  <2>5. QED
    BY <1>l, <2>2, <2>4
<1>10. CASE Idle(x)
  <2> DEFINE d == Push(c, "idle", NoMsg)
  <2>1. ch' = [ch EXCEPT ![x] = d] /\ sock' = sock /\ got' = got
    BY <1>10 DEF Idle
  <2>2. At(c) = "loop" /\ c.dispatcherSrc = "attached"
    BY <1>10 DEF Idle
  <2>3. /\ d.proc = c.proc /\ d.fd = c.fd /\ d.incomingAsync = c.incomingAsync
        /\ d.dispatcherSrc = c.dispatcherSrc /\ SameWires(c, d)
    BY <1>c, PushFields, PushSameLoop DEF SameWires, SameLoop
  <2> HIDE DEF d
  <2>4. EndOK(d)
    BY <1>c, <2>2, <2>3 DEF EndOK, KindsOK, LateOK, Alive
  <2>5. QED
    BY <2>1, <2>3, <2>4, LocalLinkStep
<1>11. ASSUME NEW t, Timeout(x, t) PROVE LinkStep
  <2> DEFINE d == NestedLoopTimeout(c, t)
  <2>1. SameNews(c, d) /\ SameWires(c, d)
    BY <1>c DEF NestedLoopTimeout, Channels, SameNews, SameWires, Alive
  <2>2. ch' = [ch EXCEPT ![x] = d] /\ sock' = sock /\ got' = got
    BY <1>11 DEF Timeout
  <2> HIDE DEF d
  <2>3. QED
    BY <1>s, <2>1, <2>2
<1>12. CASE ReadMessage(x)
  BY <1>12, ReadMessageLink
<1>p. c.stack # <<>> => Pop(c) \in Channels
  BY <1>c, PopType
<1>q. SameWires(c, Pop(c))
  BY <1>c DEF Pop, Channels, SameWires
<1>r. c.stack # <<>> => EndOK(Disconnected(Pop(c))) /\ ~Disconnected(Pop(c)).fd
  BY <1>p, DisconnectedEndOK, DisconnectedFields
<1>13. CASE ReadNothing(x)
  <2>1. ch' = [ch EXCEPT ![x] = Pop(c)] /\ sock' = sock /\ got' = got /\ c.fd
    BY <1>13 DEF ReadNothing
  <2>2. QED
    BY <1>l, <1>q, <2>1
<1>14. CASE ReadEndOfStream(x)
  <2>1. c.stack # <<>> /\ c.fd /\ sock' = sock /\ got' = got
    BY <1>14 DEF ReadEndOfStream, Runs, At
  <2>2. CASE ch' = [ch EXCEPT ![x] = Pop(c)]
    BY <1>l, <1>q, <2>1, <2>2
  <2>3. CASE ch' = [ch EXCEPT ![x] = [c EXCEPT !.proc = "spinning"]]
    <3> DEFINE d == [c EXCEPT !.proc = "spinning"]
    <3>1. SameWires(c, d)
      BY <1>c DEF Channels, SameWires
    <3>2. ch' = [ch EXCEPT ![x] = d]
      BY <2>3
    <3> HIDE DEF d
    <3>3. QED
      BY <1>l, <2>1, <3>1, <3>2
  <2>4. CASE ch' = [ch EXCEPT ![x] = Disconnected(Pop(c))]
    BY <1>r, <2>1, <2>4, DownLinkStep
  <2>5. QED
    BY <1>14, <2>2, <2>3, <2>4 DEF ReadEndOfStream
<1>15. CASE ReadClosed(x)
  <2>1. c.stack # <<>> /\ sock' = sock /\ got' = got
        /\ ch' = [ch EXCEPT ![x] = Disconnected(Pop(c))]
    BY <1>15 DEF ReadClosed, Runs, At
  <2>2. QED
    BY <1>r, <2>1, DownLinkStep
<1>16. CASE DispatchMessage(x)
  BY <1>16, DispatchMessageLink
<1>17. CASE DispatchDisconnect(x)
  BY <1>17, DispatchDisconnectLink
<1>18. CASE DispatchDone(x)
  <2> DEFINE d == EndDispatch(c, "none")
  <2>1. Dispatching(x) /\ c.incomingAsync = <<>>
    BY <1>18 DEF DispatchDone
  <2>2. ch' = [ch EXCEPT ![x] = d] /\ sock' = sock /\ got' = got
    BY <1>18 DEF DispatchDone
  <2>3. c.fd
    BY <2>1, DispatchingLive
  <2>4. SameWires(c, d)
    BY <1>c DEF EndDispatch, Pop, Channels, SameWires
  <2> HIDE DEF d
  <2>5. QED
    BY <1>l, <2>2, <2>3, <2>4
<1>19. CASE AsyncHandlerReturn(x)
  <2> DEFINE d == Pop(c)
  <2>1. c.stack # <<>> /\ At(c) = "async"
    BY <1>19 DEF AsyncHandlerReturn, Runs, At
  <2>2. ch' = [ch EXCEPT ![x] = d] /\ sock' = sock /\ got' = got
    BY <1>19 DEF AsyncHandlerReturn
  <2>3. EndOK(d) /\ SameWires(c, d)
    BY <1>c, <1>q, <2>1, PopEndOK
  <2> HIDE DEF d
  <2>4. d.fd = c.fd
    BY <2>3 DEF SameWires
  <2>5. QED
    BY <2>2, <2>3, <2>4, LocalLinkStep
<1>20. CASE SyncHandlerReturn(x)
  BY <1>20, SyncHandlerReturnLink
<1>21. CASE CallReturn(x)
  BY <1>21, CallReturnLink
<1>22. CASE Continue(x)
  <2> DEFINE d == [c EXCEPT !.proc = "run"]
  <2>1. SameNews(c, d) /\ SameWires(c, d)
    <3>1. c.proc = "stopped"
      BY <1>22 DEF Continue
    <3>2. QED
      BY <1>c, <3>1 DEF Channels, SameNews, SameWires, Alive
  <2>2. ch' = [ch EXCEPT ![x] = d] /\ sock' = sock /\ got' = got
    BY <1>22 DEF Continue, TypeOK
  <2> HIDE DEF d
  <2>3. QED
    BY <1>s, <2>1, <2>2
<1>23. CASE Exit(x)
  <2>1. /\ ch' = [ch EXCEPT ![x] = Ended("exited")] /\ sock' = sock
        /\ got' = got
    BY <1>23 DEF Exit
  <2>2. EndOK(Ended("exited")) /\ ~Ended("exited").fd
    BY EndedEndOK
  <2>3. QED
    BY <2>1, <2>2, DownLinkStep
<1>24. QED
  BY <1>1, <1>2, <1>3, <1>4, <1>5, <1>6, <1>7, <1>8, <1>9, <1>10, <1>11, <1>12,
     <1>13, <1>14, <1>15, <1>16, <1>17, <1>18, <1>19, <1>20, <1>21, <1>22, <1>23
     DEF MainThread, TimerExpires, Application, Outside

\* What an end has put on the link, or an other thread queued for it, bears
\* numbers of its own; a live channel holds only messages to deliver, and one
\* that lost its socket delivers none before the listener is told.
THEOREM LinkIsNumbered == Spec => []Linked
<1>1. TypeOK /\ TypeOK' /\ Scheduled /\ Calls /\ Linked /\ [Next]_vars => Linked'
  BY LinkNext DEF LinkStep
<1>2. QED
  BY <1>1, LinkInit, TypeCorrect, SchedulingCorrect, CallsAreServed, PTL DEF Spec

\* The channels implement the abstract link: asynchronous messages, from whatever
\* thread and around whatever calls, are delivered in order, at most once, and
\* none after a disconnection.
THEOREM LinkIsImplemented == Spec => ImplementsLink
<1>1. Init => Link!Init
  <2> SUFFICES ASSUME Init PROVE Link!Init
    OBVIOUS
  <2>1. \A e \in Ends : InTransit(e) = <<>> /\ ch[e].fd = TRUE
    <3> TAKE e \in Ends
    <3>1. /\ ch[e] = NewChannel /\ ch[Peer(e)] = NewChannel /\ sock[e] = <<>>
      BY PeersPeer DEF Init
    <3>2. /\ NewChannel.fd = TRUE /\ NewChannel.incomingAsync = <<>>
          /\ NewChannel.outgoing = <<>>
      BY DEF NewChannel
    <3>3. InTransit(e) = <<>> \o <<>> \o <<>>
      BY <3>1, <3>2, AsyncOfEmpty, TransitIs DEF Transit, Left
    <3>4. QED
      BY <3>1, <3>2, <3>3
  <2>2. /\ [e \in Ends |-> InTransit(e)] = [e \in Ends |-> <<>>]
        /\ [e \in Ends |-> ch[e].fd] = [e \in Ends |-> TRUE]
    BY <2>1
  <2>3. got = [e \in Ends |-> <<>>]
    BY DEF Init
  <2>4. QED
    BY <2>2, <2>3, LinkState DEF Link!Init
<1>2. TypeOK /\ TypeOK' /\ Scheduled /\ Calls /\ Linked /\ [Next]_vars
        => [Link!Next]_(Link!vars)
  BY LinkNext DEF LinkStep
<1>3. QED
  BY <1>1, <1>2, LinkIsNumbered, TypeCorrect, SchedulingCorrect, CallsAreServed,
     PTL DEF Spec, ImplementsLink, Link!Spec
=============================================================================
