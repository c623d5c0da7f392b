-------------------------- MODULE AsyncCallerProofs --------------------------
(***************************************************************************)
(* Theorems about AsyncCaller, for any number of threads, any quota and    *)
(* any capacity of the pipe.                                               *)
(***************************************************************************)
EXTENDS AsyncCaller, SequenceTheorems, TLAPS

(***************************************************************************)
(* What has gone into the queue so far, s, against the threads' counts, n. *)
(***************************************************************************)
Numbered(s, n) ==
  /\ \A i \in DOMAIN s : s[i].nr \in 1 .. n[s[i].by]
  /\ \A i, j \in DOMAIN s : i < j /\ s[i].by = s[j].by => s[i].nr < s[j].nr
  /\ \A t \in Threads : \A k \in 1 .. n[t] :
       \E i \in DOMAIN s : s[i] = [by |-> t, nr |-> k]

\* The mutex of the queue belongs to the thread that is at the queue.
Held == \A t \in Threads : pc[t] \in {"push", "drain"} => queueMutex = t

\* No thread exceeds its quota.
WithinQuota ==
  \A t \in Threads :
    /\ posted[t] <= Quota
    /\ pc[t] \in {"lockQueue", "push"} => posted[t] < Quota

\* The inductive invariant.
Wakeup ==
  /\ TypeOK
  /\ Held
  /\ WithinQuota
  /\ Awake
  /\ Numbered(outgoing \o otherThread, posted)

LEMMA MainIsThread == Main \in Threads
BY DEF Threads

LEMMA MoveKeepsOrder ==
  ASSUME NEW a \in Seq(Messages), NEW b \in Seq(Messages), b # <<>>
  PROVE  Append(a, Head(b)) \o Tail(b) = a \o b
<1> DEFINE l == Append(a, Head(b)) \o Tail(b)
           r == a \o b
<1>1. Head(b) \in Messages /\ Tail(b) \in Seq(Messages)
      /\ Len(Tail(b)) = Len(b) - 1 /\ Len(b) \in Nat \ {0}
      /\ \A i \in 1 .. Len(Tail(b)) : Tail(b)[i] = b[i + 1]
  BY HeadTailProperties, EmptySeq
<1>2. Append(a, Head(b)) \in Seq(Messages) /\ Len(Append(a, Head(b))) = Len(a) + 1
      /\ \A i \in 1 .. Len(a) + 1 :
           Append(a, Head(b))[i] = IF i <= Len(a) THEN a[i] ELSE b[1]
  BY <1>1
<1>3. l \in Seq(Messages) /\ Len(l) = Len(a) + Len(b)
      /\ \A i \in 1 .. Len(a) + Len(b) :
           l[i] = IF i <= Len(a) + 1 THEN Append(a, Head(b))[i]
                                     ELSE Tail(b)[i - (Len(a) + 1)]
  BY <1>1, <1>2, ConcatProperties
<1>4. r \in Seq(Messages) /\ Len(r) = Len(a) + Len(b)
      /\ \A i \in 1 .. Len(a) + Len(b) :
           r[i] = IF i <= Len(a) THEN a[i] ELSE b[i - Len(a)]
  BY ConcatProperties
<1>5. \A i \in 1 .. Len(l) : l[i] = r[i]
  <2> TAKE i \in 1 .. Len(l)
  <2> i \in 1 .. Len(a) + Len(b) /\ Len(a) \in Nat
    BY <1>3
  <2>1. CASE i <= Len(a)
    BY <2>1, <1>2, <1>3, <1>4
  <2>2. CASE i = Len(a) + 1
    BY <2>2, <1>2, <1>3, <1>4
  <2>3. CASE i > Len(a) + 1
    BY <2>3, <1>1, <1>3, <1>4
  <2>4. QED
    BY <2>1, <2>2, <2>3
<1> HIDE DEF l, r
<1>6. l = r
  BY <1>3, <1>4, <1>5, SeqEqual
<1>7. QED
  BY <1>6 DEF l, r

LEMMA PushKeepsOrder ==
  ASSUME NEW a \in Seq(Messages), NEW b \in Seq(Messages), NEW m \in Messages
  PROVE  a \o Append(b, m) = Append(a \o b, m)
<1>1. Append(b, m) = b \o <<m>> /\ Append(a \o b, m) = (a \o b) \o <<m>>
  BY ConcatProperties
<1>2. QED
  BY <1>1, ConcatAssociative

\* Pushing the next message of a thread keeps the numbering.
LEMMA PushNumbers ==
  ASSUME NEW s \in Seq(Messages), NEW n \in [Threads -> Nat], NEW t \in Threads,
         Numbered(s, n)
  PROVE  Numbered(Append(s, [by |-> t, nr |-> n[t] + 1]), [n EXCEPT ![t] = @ + 1])
<1> DEFINE m == [by |-> t, nr |-> n[t] + 1]
           s1 == Append(s, m)
           n1 == [n EXCEPT ![t] = @ + 1]
<1>1. m \in Messages /\ m.by = t /\ m.nr = n[t] + 1
  BY DEF Messages
<1> HIDE DEF m
<1>2. DOMAIN s = 1 .. Len(s) /\ DOMAIN s1 = 1 .. Len(s) + 1 /\ Len(s) \in Nat
      /\ s1[Len(s) + 1] = m /\ \A i \in DOMAIN s : s1[i] = s[i] /\ s[i] \in Messages
  BY <1>1
<1>3. \A u \in Threads : n1[u] = IF u = t THEN n[t] + 1 ELSE n[u]
  OBVIOUS
<1>4. \A i \in DOMAIN s : s[i].by \in Threads /\ s[i].nr \in Nat
  BY <1>2 DEF Messages
<1> HIDE DEF s1, n1
<1>5. \A i \in DOMAIN s1 : s1[i].nr \in 1 .. n1[s1[i].by]
  <2> TAKE i \in DOMAIN s1
  <2>1. CASE i = Len(s) + 1
    BY <2>1, <1>1, <1>2, <1>3
  <2>2. CASE i \in DOMAIN s
    BY <2>2, <1>2, <1>3, <1>4 DEF Numbered
  <2>3. QED
    BY <2>1, <2>2, <1>2
<1>6. \A i, j \in DOMAIN s1 : i < j /\ s1[i].by = s1[j].by => s1[i].nr < s1[j].nr
  <2> SUFFICES ASSUME NEW i \in DOMAIN s1, NEW j \in DOMAIN s1,
                      i < j, s1[i].by = s1[j].by
               PROVE  s1[i].nr < s1[j].nr
    OBVIOUS
  <2>1. i \in DOMAIN s
    BY <1>2
  <2>2. CASE j \in DOMAIN s
    BY <2>1, <2>2, <1>2 DEF Numbered
  <2>3. CASE j = Len(s) + 1
    BY <2>1, <2>3, <1>1, <1>2, <1>4 DEF Numbered
  <2>4. QED
    BY <2>2, <2>3, <1>2
<1>7. \A u \in Threads : \A k \in 1 .. n1[u] :
        \E i \in DOMAIN s1 : s1[i] = [by |-> u, nr |-> k]
  <2> SUFFICES ASSUME NEW u \in Threads, NEW k \in 1 .. n1[u]
               PROVE  \E i \in DOMAIN s1 : s1[i] = [by |-> u, nr |-> k]
    OBVIOUS
  <2>1. CASE k \in 1 .. n[u]
    <3>1. PICK i \in DOMAIN s : s[i] = [by |-> u, nr |-> k]
      BY <2>1 DEF Numbered
    <3>2. i \in DOMAIN s1 /\ s1[i] = [by |-> u, nr |-> k]
      BY <3>1, <1>2
    <3>3. QED
      BY <3>2
  <2>2. CASE u = t /\ k = n[t] + 1
    <3>1. s1[Len(s) + 1] = [by |-> u, nr |-> k] /\ Len(s) + 1 \in DOMAIN s1
      BY <2>2, <1>2 DEF m
    <3>2. QED
      BY <3>1
  <2>3. QED
    BY <2>1, <2>2, <1>3
<1>8. Numbered(s1, n1)
  BY <1>5, <1>6, <1>7 DEF Numbered
<1>9. QED
  BY <1>8 DEF s1, n1, m
-----------------------------------------------------------------------------
(***************************************************************************)
(* Every step keeps each part of the invariant.                            *)
(***************************************************************************)
\* A step keeps the types.
LEMMA TypeNext ==
  ASSUME TypeOK, Next
  PROVE  TypeOK'
<1> USE SizesAssumption, MainIsThread DEF TypeOK, Goto
<1>1. ASSUME NEW t \in Threads, QueueAsyncMessage(t) PROVE TypeOK'
  BY <1>1 DEF QueueAsyncMessage
<1>2. ASSUME NEW t \in Threads, LockQueue(t) PROVE TypeOK'
  BY <1>2 DEF LockQueue
<1>3. ASSUME NEW t \in Threads, PushMessage(t) PROVE TypeOK'
  <2>1. [by |-> t, nr |-> posted[t] + 1] \in Messages
    BY DEF Messages
  <2>2. otherThread' \in Seq(Messages)
    BY <1>3, <2>1 DEF PushMessage
  <2>3. QED
    BY <1>3, <2>2 DEF PushMessage
<1>4. ASSUME NEW t \in Threads, LockPipe(t) PROVE TypeOK'
  BY <1>4 DEF LockPipe
<1>5. ASSUME NEW t \in Threads, Write(t) PROVE TypeOK'
  BY <1>5 DEF Write
<1>6. ASSUME NEW t \in Threads, Interrupted(t) PROVE TypeOK'
  BY <1>6 DEF Interrupted
<1>7. CASE Callback
  BY <1>7 DEF Callback
<1>8. CASE LockDrain
  BY <1>8 DEF LockDrain
<1>9. CASE MoveOne
  <2>1. Head(otherThread) \in Messages /\ Tail(otherThread) \in Seq(Messages)
    BY <1>9, HeadTailProperties DEF MoveOne
  <2>2. QED
    BY <1>9, <2>1 DEF MoveOne
<1>10. CASE UnlockDrain
  BY <1>10 DEF UnlockDrain
<1>11. CASE EnterNested
  BY <1>11 DEF EnterNested
<1>12. CASE LeaveNested
  BY <1>12 DEF LeaveNested
<1>13. QED
  BY <1>1, <1>2, <1>3, <1>4, <1>5, <1>6, <1>7,
     <1>8, <1>9, <1>10, <1>11, <1>12
  DEF Next, Post, Dispatch

\* A step keeps the mutex with the thread at the queue.
LEMMA HeldNext ==
  ASSUME TypeOK, Held, Next
  PROVE  Held'
<1> USE ThreadsAssumption, MainIsThread DEF TypeOK, Held, Goto
<1>1. ASSUME NEW t \in Threads, QueueAsyncMessage(t) PROVE Held'
  BY <1>1 DEF QueueAsyncMessage
<1>2. ASSUME NEW t \in Threads, LockQueue(t) PROVE Held'
  BY <1>2 DEF LockQueue
<1>3. ASSUME NEW t \in Threads, PushMessage(t) PROVE Held'
  BY <1>3 DEF PushMessage
<1>4. ASSUME NEW t \in Threads, LockPipe(t) PROVE Held'
  BY <1>4 DEF LockPipe
<1>5. ASSUME NEW t \in Threads, Write(t) PROVE Held'
  BY <1>5 DEF Write
<1>6. ASSUME NEW t \in Threads, Interrupted(t) PROVE Held'
  BY <1>6 DEF Interrupted
<1>7. CASE Callback
  BY <1>7 DEF Callback
<1>8. CASE LockDrain
  BY <1>8 DEF LockDrain
<1>9. CASE MoveOne
  BY <1>9 DEF MoveOne
<1>10. CASE UnlockDrain
  BY <1>10 DEF UnlockDrain
<1>11. CASE EnterNested
  BY <1>11 DEF EnterNested
<1>12. CASE LeaveNested
  BY <1>12 DEF LeaveNested
<1>13. QED
  BY <1>1, <1>2, <1>3, <1>4, <1>5, <1>6, <1>7,
     <1>8, <1>9, <1>10, <1>11, <1>12
  DEF Next, Post, Dispatch

\* A step keeps the quotas.
LEMMA QuotaNext ==
  ASSUME TypeOK, WithinQuota, Next
  PROVE  WithinQuota'
<1> USE SizesAssumption, MainIsThread DEF TypeOK, WithinQuota, Goto
<1>1. ASSUME NEW t \in Threads, QueueAsyncMessage(t) PROVE WithinQuota'
  BY <1>1 DEF QueueAsyncMessage
<1>2. ASSUME NEW t \in Threads, LockQueue(t) PROVE WithinQuota'
  BY <1>2 DEF LockQueue
<1>3. ASSUME NEW t \in Threads, PushMessage(t) PROVE WithinQuota'
  BY <1>3 DEF PushMessage
<1>4. ASSUME NEW t \in Threads, LockPipe(t) PROVE WithinQuota'
  BY <1>4 DEF LockPipe
<1>5. ASSUME NEW t \in Threads, Write(t) PROVE WithinQuota'
  BY <1>5 DEF Write
<1>6. ASSUME NEW t \in Threads, Interrupted(t) PROVE WithinQuota'
  BY <1>6 DEF Interrupted
<1>7. CASE Callback
  BY <1>7 DEF Callback
<1>8. CASE LockDrain
  BY <1>8 DEF LockDrain
<1>9. CASE MoveOne
  BY <1>9 DEF MoveOne
<1>10. CASE UnlockDrain
  BY <1>10 DEF UnlockDrain
<1>11. CASE EnterNested
  BY <1>11 DEF EnterNested
<1>12. CASE LeaveNested
  BY <1>12 DEF LeaveNested
<1>13. QED
  BY <1>1, <1>2, <1>3, <1>4, <1>5, <1>6, <1>7,
     <1>8, <1>9, <1>10, <1>11, <1>12
  DEF Next, Post, Dispatch

\* A step loses no wake-up.
LEMMA AwakeNext ==
  ASSUME TypeOK, Awake, Next
  PROVE  Awake'
<1> USE SizesAssumption, MainIsThread DEF TypeOK, Awake, Goto
<1>1. ASSUME NEW t \in Threads, QueueAsyncMessage(t) PROVE Awake'
  BY <1>1 DEF QueueAsyncMessage
<1>2. ASSUME NEW t \in Threads, LockQueue(t) PROVE Awake'
  BY <1>2 DEF LockQueue
<1>3. ASSUME NEW t \in Threads, PushMessage(t) PROVE Awake'
  BY <1>3 DEF PushMessage
<1>4. ASSUME NEW t \in Threads, LockPipe(t) PROVE Awake'
  BY <1>4 DEF LockPipe
<1>5. ASSUME NEW t \in Threads, Write(t) PROVE Awake'
  BY <1>5 DEF Write
<1>6. ASSUME NEW t \in Threads, Interrupted(t) PROVE Awake'
  BY <1>6 DEF Interrupted
<1>7. CASE Callback
  BY <1>7 DEF Callback
<1>8. CASE LockDrain
  BY <1>8 DEF LockDrain
<1>9. CASE MoveOne
  BY <1>9 DEF MoveOne
<1>10. CASE UnlockDrain
  BY <1>10 DEF UnlockDrain
<1>11. CASE EnterNested
  BY <1>11 DEF EnterNested
<1>12. CASE LeaveNested
  BY <1>12 DEF LeaveNested
<1>13. QED
  BY <1>1, <1>2, <1>3, <1>4, <1>5, <1>6, <1>7,
     <1>8, <1>9, <1>10, <1>11, <1>12
  DEF Next, Post, Dispatch

\* A step keeps the numbering: only pushing and moving touch the queues.
LEMMA NumberedNext ==
  ASSUME TypeOK, Numbered(outgoing \o otherThread, posted), Next
  PROVE  Numbered(outgoing \o otherThread, posted)'
<1>1. ASSUME NEW t \in Threads, PushMessage(t)
      PROVE  Numbered(outgoing \o otherThread, posted)'
  <2> DEFINE m == [by |-> t, nr |-> posted[t] + 1]
  <2>1. m \in Messages /\ posted \in [Threads -> Nat]
        /\ outgoing \in Seq(Messages) /\ otherThread \in Seq(Messages)
    BY DEF TypeOK, Messages
  <2>2. outgoing \o otherThread \in Seq(Messages)
    BY <2>1
  <2>3. outgoing' = outgoing /\ otherThread' = Append(otherThread, m)
        /\ posted' = [posted EXCEPT ![t] = @ + 1]
    BY <1>1 DEF PushMessage
  <2>4. Numbered(Append(outgoing \o otherThread, m), posted')
    BY <2>1, <2>2, <2>3, PushNumbers
  <2> HIDE DEF m
  <2>5. Append(outgoing \o otherThread, m) = outgoing' \o otherThread'
    BY <2>1, <2>3, PushKeepsOrder
  <2>6. QED
    BY <2>4, <2>5
<1>2. CASE MoveOne
  <2>1. otherThread # <<>> /\ outgoing' = Append(outgoing, Head(otherThread))
        /\ otherThread' = Tail(otherThread) /\ posted' = posted
    BY <1>2 DEF MoveOne
  <2>2. outgoing' \o otherThread' = outgoing \o otherThread
    BY <2>1, MoveKeepsOrder DEF TypeOK
  <2>3. QED
    BY <2>1, <2>2
<1>3. CASE UNCHANGED <<posted, otherThread, outgoing>>
  BY <1>3
<1>4. QED
  BY <1>1, <1>2, <1>3
  DEF Next, Post, Dispatch, QueueAsyncMessage, LockQueue, LockPipe, Write,
      Interrupted, Callback, LockDrain, UnlockDrain, EnterNested, LeaveNested
-----------------------------------------------------------------------------
\* The inductive invariant: a thread at the queue holds its mutex, no wake-up is
\* lost, and what went through the queue is numbered as the threads queued it.
THEOREM WakeupCorrect == Spec => []Wakeup
<1>1. Init => Wakeup
  <2> SUFFICES ASSUME Init PROVE Wakeup
    OBVIOUS
  <2>1. TypeOK
    <3>1. otherThread \in Seq(Messages) /\ outgoing \in Seq(Messages)
      BY EmptySeq DEF Init
    <3>2. pipe \in 0 .. PipeCap
      BY SizesAssumption DEF Init
    <3>3. QED
      BY <3>1, <3>2 DEF Init, TypeOK
  <2>2. Held /\ WithinQuota /\ Awake
    BY SizesAssumption DEF Init, Held, WithinQuota, Awake
  <2>3. outgoing \o otherThread = <<>> /\ posted = [t \in Threads |-> 0]
    BY DEF Init
  <2>4. Numbered(outgoing \o otherThread, posted)
    BY <2>3 DEF Numbered
  <2>5. QED
    BY <2>1, <2>2, <2>4 DEF Wakeup
<1>2. Wakeup /\ [Next]_vars => Wakeup'
  <2> SUFFICES ASSUME Wakeup, [Next]_vars PROVE Wakeup'
    OBVIOUS
  <2>1. CASE Next
    BY <2>1, TypeNext, HeldNext, QuotaNext, AwakeNext, NumberedNext DEF Wakeup
  <2>2. CASE UNCHANGED vars
    BY <2>2 DEF vars, Wakeup, TypeOK, Held, WithinQuota, Awake
  <2>3. QED
    BY <2>1, <2>2
<1>3. QED
  BY <1>1, <1>2, PTL DEF Spec

\* Every variable keeps its type; in particular the pipe never holds more bytes
\* than it can.
THEOREM TypesHold == Spec => []TypeOK
<1>1. Wakeup => TypeOK
  BY DEF Wakeup
<1>2. QED
  BY <1>1, WakeupCorrect, PTL

\* The queue of the other threads is used by one thread at a time, whatever the
\* number of threads.
THEOREM QueueIsExclusive == Spec => []NoRace
<1>1. Wakeup => NoRace
  BY DEF Wakeup, Held, NoRace
<1>2. QED
  BY <1>1, WakeupCorrect, PTL

\* No wake-up is lost, whatever the capacity of the pipe and however many writes
\* signals interrupt.
THEOREM NoWakeupIsLost == Spec => []Awake
<1>1. Wakeup => Awake
  BY DEF Wakeup
<1>2. QED
  BY <1>1, WakeupCorrect, PTL

\* Each thread's messages reach the main thread's queue in order, once, and
\* nothing that was queued is missing.
THEOREM MessagesKeepOrder == Spec => []InOrder
<1>1. Wakeup => InOrder
  BY DEF Wakeup, Numbered, InOrder
<1>2. QED
  BY <1>1, WakeupCorrect, PTL

\* The threads and the drain implement the safety of a mailbox: a step puts a
\* new message in, takes the oldest out, or does not touch the box.
THEOREM ImplementsSafeMailbox == Spec => Box!SafeSpec
<1>1. Init => Box!Init
  BY DEF Init, Box!Init
<1>2. Wakeup /\ [Next]_vars => [Box!Next]_(Box!vars)
  <2> SUFFICES ASSUME Wakeup, [Next]_vars PROVE [Box!Next]_(Box!vars)
    OBVIOUS
  <2> DEFINE s == outgoing \o otherThread
  <2>1. ASSUME NEW t \in Threads, PushMessage(t) PROVE Box!Next
    <3> DEFINE m == [by |-> t, nr |-> posted[t] + 1]
    <3>1. posted[t] < Quota /\ posted[t] \in Nat
      BY <2>1 DEF Wakeup, TypeOK, WithinQuota, PushMessage, Goto
    <3>2. m \in Letters
      BY <3>1, SizesAssumption DEF Letters
    <3>3. \A i \in DOMAIN s : s[i] # m
      BY <3>1 DEF Wakeup, Numbered
    <3>4. otherThread' = Append(otherThread, m) /\ UNCHANGED outgoing
      BY <2>1 DEF PushMessage
    <3>5. Box!Put(m)
      BY <3>3, <3>4 DEF Box!Put
    <3>6. QED
      BY <3>2, <3>5 DEF Box!Next
  <2>2. CASE MoveOne
    BY <2>2 DEF MoveOne, Box!Next, Box!Take
  <2>3. CASE UNCHANGED <<otherThread, outgoing>>
    BY <2>3 DEF Box!vars
  <2>4. QED
    BY <2>1, <2>2, <2>3
    DEF Next, Post, Dispatch, QueueAsyncMessage, LockQueue, LockPipe, Write,
        Interrupted, Callback, LockDrain, UnlockDrain, EnterNested, LeaveNested,
        vars
<1>3. QED
  BY <1>1, <1>2, WakeupCorrect, PTL DEF Spec, Box!SafeSpec
=============================================================================
