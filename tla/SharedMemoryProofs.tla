------------------------- MODULE SharedMemoryProofs -------------------------
(***************************************************************************)
(* Theorems about SharedMemory, for any processes, segments, counts and    *)
(* sizes.                                                                  *)
(***************************************************************************)
EXTENDS SharedMemory, TLAPS

\* A process that counts a lock runs, owns it and has not forgotten it.
Held ==
  \A p \in Procs, l \in Locks :
    holds[p][l] > 0 => p \in running /\ owner[l] = p /\ <<p, l>> \notin lost

\* What a running process has forgotten it still owns.
Forgotten ==
  \A p \in running, l \in Locks : <<p, l>> \in lost => owner[l] = p

\* Only running processes wait.
Waiting == \A p \in Procs : waits[p] # Nobody => p \in running

\* A lock that has an owner was made consistent.
Consistent == \A l \in Locks : owner[l] # Nobody => health[l] = "ok"

\* The data of each attached buffer begins at the second page of its segment.
Placed ==
  \A p \in Procs, s \in Buffers : <<p, s>> \in attached => usable[p][s] = Page

\* The inductive invariant.
Inv ==
  /\ TypeOK
  /\ Held /\ Forgotten /\ Accounted /\ Waiting
  /\ StaysUsable /\ Consistent
  /\ Placed

\* The part of it that is about the locks.
LocksOK == Held /\ Forgotten /\ Accounted /\ Waiting /\ StaysUsable /\ Consistent

LEMMA LockSegments == \A l \in Locks : l.seg \in Segments
BY DEF Locks, Segments

LEMMA Constants ==
  /\ Nobody \notin Procs /\ Nobody \notin Locks
  /\ MaxCount \in Nat \ {0}
  /\ Buffers \subseteq Segments /\ Mutexes \subseteq Segments
BY SegmentsAssumption DEF Segments

(***************************************************************************)
(* Where the data lies.                                                    *)
(***************************************************************************)
LEMMA Rounding ==
  ASSUME NEW k \in {1, 2}
  PROVE  (k * Page + Object) \div Page = k
<1>1. Page \in Nat /\ Object \in 1 .. Page - 1
  BY LayoutAssumption
<1>2. CASE k = 1
  BY <1>1, <1>2
<1>3. CASE k = 2
  BY <1>1, <1>3
<1>4. QED
  BY <1>2, <1>3

LEMMA DataOnSecondPage ==
  ASSUME NEW base \in {Page, 2 * Page}
  PROVE  UsableData(base) - base = Page
<1>1. Page \in Nat
  BY LayoutAssumption
<1>2. CASE base = Page
  <2>1. (1 * Page + Object) \div Page = 1
    BY Rounding
  <2>2. (base + Object) \div Page = 1
    BY <1>1, <1>2, <2>1, LayoutAssumption
  <2>3. QED
    BY <1>1, <1>2, <2>2 DEF UsableData
<1>3. CASE base = 2 * Page
  <2>1. (2 * Page + Object) \div Page = 2
    BY Rounding
  <2>2. QED
    BY <1>1, <1>3, <2>1 DEF UsableData
<1>4. QED
  BY <1>2, <1>3

LEMMA MapPlaces ==
  ASSUME TypeOK, Placed, NEW p \in Procs, NEW s \in Segments, Map(p, s)
  PROVE  /\ attached' \in SUBSET (Procs \X Segments)
         /\ usable' \in [Procs -> [Segments -> Nat]]
         /\ Placed'
<1>1. Page \in Nat
  BY LayoutAssumption
<1>2. PICK base \in {Page, 2 * Page} :
        usable' = [usable EXCEPT ![p][s] = IF s \in Buffers THEN UsableData(base) - base
                                           ELSE 0]
  BY DEF Map
<1>3. UsableData(base) - base = Page
  BY DataOnSecondPage
<1>4. usable' = [usable EXCEPT ![p][s] = IF s \in Buffers THEN Page ELSE 0]
  BY <1>2, <1>3
<1>5. attached' = attached \cup {<<p, s>>}
  BY DEF Map
<1>6. usable' \in [Procs -> [Segments -> Nat]]
  BY <1>1, <1>4 DEF TypeOK
<1>7. Placed'
  BY <1>4, <1>5, Constants DEF Placed, TypeOK
<1>8. QED
  BY <1>5, <1>6, <1>7 DEF TypeOK

(***************************************************************************)
(* The locks.  What the two operators that change their owners do.         *)
(***************************************************************************)
LEMMA TakeOK ==
  ASSUME TypeOK, LocksOK, NEW p \in running, NEW l \in Locks, Take(p, l),
         UNCHANGED <<running, lost>>,
         waits' = waits \/ waits' = [waits EXCEPT ![p] = Nobody]
  PROVE  /\ holds' \in [Procs -> [Locks -> 0 .. MaxCount]]
         /\ owner' \in [Locks -> Procs \cup {Nobody}]
         /\ health' \in [Locks -> {"ok", "ownerDead", "unusable"}]
         /\ waits' \in [Procs -> Locks \cup {Nobody}]
         /\ LocksOK'
<1>1. /\ p \in Procs /\ running \subseteq Procs
      /\ running' = running /\ lost' = lost
      /\ \A q \in Procs, k \in Locks : holds[q][k] \in Nat
  BY DEF TypeOK
<1>2. /\ owner[l] = Nobody /\ health[l] # "unusable"
      /\ \A k \in Locks : owner'[k] = IF k = l THEN p ELSE owner[k]
      /\ \A k \in Locks : health'[k] = IF k = l THEN "ok" ELSE health[k]
  BY <1>1 DEF Take, TypeOK
<1>3. \A q \in Procs, k \in Locks :
        holds'[q][k] = IF q = p /\ k = l THEN 1 ELSE holds[q][k]
  BY <1>1 DEF Take, TypeOK
<1>4. \A q \in Procs : waits'[q] = waits[q] \/ waits'[q] = Nobody
  BY <1>1 DEF TypeOK
<1>5. <<p, l>> \notin lost
  BY <1>1, <1>2, Constants DEF LocksOK, Forgotten
<1>6. Held'
  <2> SUFFICES ASSUME NEW q \in Procs, NEW k \in Locks, holds'[q][k] > 0
               PROVE  q \in running /\ owner'[k] = q /\ <<q, k>> \notin lost
    BY <1>1 DEF Held
  <2>1. CASE q = p /\ k = l
    BY <1>2, <1>5, <2>1
  <2>2. CASE k = l /\ q # p
    BY <1>2, <1>3, <2>2, Constants DEF LocksOK, Held
  <2>3. CASE k # l
    BY <1>2, <1>3, <2>3 DEF LocksOK, Held
  <2>4. QED
    BY <2>1, <2>2, <2>3
<1>7. Forgotten'
  <2> SUFFICES ASSUME NEW q \in running, NEW k \in Locks, <<q, k>> \in lost
               PROVE  owner'[k] = q
    BY <1>1 DEF Forgotten
  <2>1. owner[k] = q /\ q # Nobody
    BY <1>1, Constants DEF LocksOK, Forgotten
  <2>2. QED
    BY <1>2, <2>1
<1>8. Accounted'
  <2> SUFFICES ASSUME NEW q \in Procs, NEW k \in Locks
               PROVE  IF q \in running
                      THEN owner'[k] = q <=> holds'[q][k] > 0 \/ <<q, k>> \in lost
                      ELSE owner'[k] = q => \E i \in Locks : <<q, i>> \in lost
    BY <1>1 DEF Accounted
  <2>1. CASE k # l
    BY <1>2, <1>3, <2>1 DEF LocksOK, Accounted
  <2>2. CASE k = l /\ q = p
    BY <1>2, <1>3, <2>2
  <2>3. CASE k = l /\ q # p
    BY <1>1, <1>2, <1>3, <2>3, Constants DEF LocksOK, Accounted
  <2>4. QED
    BY <2>1, <2>2, <2>3
<1>9. Waiting'
  BY <1>1, <1>4 DEF LocksOK, Waiting
<1>10. StaysUsable' /\ Consistent'
  BY <1>2 DEF LocksOK, StaysUsable, Consistent
<1>11. holds' \in [Procs -> [Locks -> 0 .. MaxCount]]
  BY <1>1, Constants DEF Take, TypeOK
<1>12. /\ owner' \in [Locks -> Procs \cup {Nobody}]
       /\ health' \in [Locks -> {"ok", "ownerDead", "unusable"}]
       /\ waits' \in [Procs -> Locks \cup {Nobody}]
  BY <1>1 DEF Take, TypeOK
<1>13. QED
  BY <1>6, <1>7, <1>8, <1>9, <1>10, <1>11, <1>12 DEF LocksOK

\* Unlocking locks that p owns, after which it neither counts nor remembers them.
LEMMA ReleaseOK ==
  ASSUME TypeOK, LocksOK, NEW p \in running, NEW set \in SUBSET Locks, Release(set),
         \A l \in set : owner[l] = p,
         holds' \in [Procs -> [Locks -> 0 .. MaxCount]],
         \A q \in Procs, l \in Locks : q # p => holds'[q][l] = holds[q][l],
         \A l \in Locks : IF l \in set THEN holds'[p][l] = 0 /\ <<p, l>> \notin lost'
                          ELSE \/ /\ holds'[p][l] > 0 <=> holds[p][l] > 0
                                  /\ <<p, l>> \in lost' <=> <<p, l>> \in lost
                               \/ holds[p][l] > 0 /\ holds'[p][l] = 0 /\ <<p, l>> \in lost',
         \A q \in Procs, l \in Locks : q # p => (<<q, l>> \in lost' <=> <<q, l>> \in lost),
         UNCHANGED <<running, waits>>
  PROVE  /\ owner' \in [Locks -> Procs \cup {Nobody}]
         /\ health' \in [Locks -> {"ok", "ownerDead", "unusable"}]
         /\ LocksOK'
<1>1. /\ p \in Procs /\ running \subseteq Procs /\ running' = running
      /\ \A q \in Procs, k \in Locks : holds[q][k] \in Nat /\ holds'[q][k] \in Nat
  BY Constants DEF TypeOK
<1>2. \A l \in Locks : owner'[l] = IF l \in set THEN Nobody ELSE owner[l]
  BY DEF Release
<1>3. health' = health
  <2>1. \A l \in set : health[l] = "ok"
    BY <1>1, Constants DEF LocksOK, Consistent
  <2>2. QED
    BY <2>1 DEF Release, TypeOK
<1>4. Held'
  <2> SUFFICES ASSUME NEW q \in Procs, NEW l \in Locks, holds'[q][l] > 0
               PROVE  q \in running /\ owner'[l] = q /\ <<q, l>> \notin lost'
    BY <1>1 DEF Held
  <2>1. CASE q # p
    BY <1>2, <2>1 DEF LocksOK, Held
  <2>2. CASE q = p
    <3>1. l \notin set /\ holds[p][l] > 0 /\ (<<p, l>> \in lost' <=> <<p, l>> \in lost)
      BY <1>1, <2>2
    <3>2. QED
      BY <1>1, <1>2, <2>2, <3>1 DEF LocksOK, Held
  <2>3. QED
    BY <2>1, <2>2
<1>5. Forgotten'
  <2> SUFFICES ASSUME NEW q \in running, NEW l \in Locks, <<q, l>> \in lost'
               PROVE  owner'[l] = q
    BY <1>1 DEF Forgotten
  <2>1. CASE q # p
    <3>1. owner[l] = q
      BY <1>1, <2>1 DEF LocksOK, Forgotten
    <3>2. QED
      BY <1>2, <2>1, <3>1
  <2>2. CASE q = p
    <3>1. l \notin set
      BY <2>2
    <3>2. holds[p][l] > 0 \/ <<p, l>> \in lost
      BY <2>2, <3>1
    <3>3. owner[l] = p
      BY <1>1, <3>2 DEF LocksOK, Forgotten, Held
    <3>4. QED
      BY <1>2, <2>2, <3>1, <3>3
  <2>3. QED
    BY <2>1, <2>2
<1>6. Accounted'
  <2> SUFFICES ASSUME NEW q \in Procs, NEW l \in Locks
               PROVE  IF q \in running
                      THEN owner'[l] = q <=> holds'[q][l] > 0 \/ <<q, l>> \in lost'
                      ELSE owner'[l] = q => \E k \in Locks : <<q, k>> \in lost'
    BY <1>1 DEF Accounted
  <2>1. CASE q \notin running
    <3> SUFFICES ASSUME owner'[l] = q PROVE \E k \in Locks : <<q, k>> \in lost'
      BY <2>1
    <3>1. owner[l] = q
      BY <1>2, Constants
    <3>2. PICK k \in Locks : <<q, k>> \in lost
      BY <2>1, <3>1 DEF LocksOK, Accounted
    <3>3. <<q, k>> \in lost'
      BY <2>1, <3>2
    <3>4. QED
      BY <3>3
  <2>2. CASE q \in running /\ q # p
    BY <1>1, <1>2, <2>2, Constants DEF LocksOK, Accounted
  <2>3. CASE q = p /\ l \in set
    BY <1>1, <1>2, <2>3, Constants
  <2>4. CASE q = p /\ l \notin set
    BY <1>1, <1>2, <2>4, Constants DEF LocksOK, Accounted
  <2>5. QED
    BY <2>1, <2>2, <2>3, <2>4
<1>7. Waiting' /\ StaysUsable'
  BY <1>3 DEF LocksOK, Waiting, StaysUsable
<1>8. Consistent'
  BY <1>2, <1>3 DEF LocksOK, Consistent
<1>9. /\ owner' \in [Locks -> Procs \cup {Nobody}]
      /\ health' \in [Locks -> {"ok", "ownerDead", "unusable"}]
  BY <1>3 DEF Release, TypeOK
<1>10. QED
  BY <1>4, <1>5, <1>6, <1>7, <1>8, <1>9 DEF LocksOK
-----------------------------------------------------------------------------
(***************************************************************************)
(* The steps.                                                              *)
(***************************************************************************)
LEMMA InitOK == Init => Inv
<1> SUFFICES ASSUME Init PROVE Inv
  OBVIOUS
<1> USE DEF Init
<1>1. TypeOK
  BY Constants DEF TypeOK
<1>2. Held /\ Forgotten /\ Waiting
  BY DEF Held, Forgotten, Waiting
<1>3. Accounted
  BY Constants DEF Accounted
<1>4. StaysUsable /\ Consistent /\ Placed
  BY DEF StaysUsable, Consistent, Placed
<1>5. QED
  BY <1>1, <1>2, <1>3, <1>4 DEF Inv

\* Nothing of the locks changes.
LEMMA LockingUnchanged ==
  ASSUME LocksOK, UNCHANGED running, UNCHANGED locking
  PROVE  LocksOK'
BY DEF LocksOK, Held, Forgotten, Accounted, Waiting, StaysUsable, Consistent, locking

LEMMA CreateOK ==
  ASSUME Inv, NEW p \in Procs, NEW s \in Segments, NEW size \in BufferSizes \cup {0},
         Create(p, s, size)
  PROVE  Inv'
<1>1. attached' \in SUBSET (Procs \X Segments) /\ usable' \in [Procs -> [Segments -> Nat]]
      /\ Placed'
  BY MapPlaces DEF Inv, Create
<1>2. LocksOK'
  BY LockingUnchanged DEF Inv, LocksOK, Create
<1>3. TypeOK'
  BY <1>1 DEF Inv, TypeOK, Create, locking
<1>4. QED
  BY <1>1, <1>2, <1>3 DEF Inv, LocksOK

LEMMA AttachOK ==
  ASSUME Inv, NEW p \in Procs, NEW s \in Segments, Attach(p, s)
  PROVE  Inv'
<1>1. attached' \in SUBSET (Procs \X Segments) /\ usable' \in [Procs -> [Segments -> Nat]]
      /\ Placed'
  BY MapPlaces DEF Inv, Attach
<1>2. LocksOK'
  BY LockingUnchanged DEF Inv, LocksOK, Attach
<1>3. TypeOK'
  BY <1>1 DEF Inv, TypeOK, Attach, locking
<1>4. QED
  BY <1>1, <1>2, <1>3 DEF Inv, LocksOK

LEMMA DeleteOK ==
  ASSUME Inv, NEW p \in Procs, NEW s \in Segments, Delete(p, s)
  PROVE  Inv'
<1> DEFINE held == {l \in LocksOf(s) : holds[p][l] > 0}
           freed == {l \in held : s \in Buffers /\ holds[p][l] = 1}
<1>1. p \in running /\ freed \in SUBSET Locks /\ held \in SUBSET Locks
  BY DEF Delete, Runs, LocksOf
<1>2. \A l \in held : owner[l] = p /\ <<p, l>> \notin lost
  BY DEF Inv, Held, LocksOf
<1>3. \A l \in Locks : l \notin held /\ l.seg = s => holds[p][l] = 0
  BY Constants DEF Inv, TypeOK, LocksOf
<1>4. Release(freed) /\ lost' = lost \cup ({p} \X (held \ freed))
      /\ UNCHANGED <<running, sizes, usable, waits>> /\ attached' = attached \ {<<p, s>>}
      /\ holds' = [holds EXCEPT ![p] = [l \in Locks |-> IF l.seg = s THEN 0 ELSE @[l]]]
  BY DEF Delete
<1> HIDE DEF held, freed
<1>5. holds' \in [Procs -> [Locks -> 0 .. MaxCount]]
  BY <1>4, Constants DEF Inv, TypeOK
<1>6. /\ \A q \in Procs, l \in Locks : q # p => holds'[q][l] = holds[q][l]
      /\ \A l \in Locks : holds'[p][l] = IF l.seg = s THEN 0 ELSE holds[p][l]
  BY <1>4 DEF Inv, TypeOK
<1>7. \A l \in Locks :
        IF l \in freed THEN holds'[p][l] = 0 /\ <<p, l>> \notin lost'
        ELSE \/ /\ holds'[p][l] > 0 <=> holds[p][l] > 0
                /\ <<p, l>> \in lost' <=> <<p, l>> \in lost
             \/ holds[p][l] > 0 /\ holds'[p][l] = 0 /\ <<p, l>> \in lost'
  <2> SUFFICES ASSUME NEW l \in Locks
      PROVE IF l \in freed THEN holds'[p][l] = 0 /\ <<p, l>> \notin lost'
        ELSE \/ /\ holds'[p][l] > 0 <=> holds[p][l] > 0
                /\ <<p, l>> \in lost' <=> <<p, l>> \in lost
             \/ holds[p][l] > 0 /\ holds'[p][l] = 0 /\ <<p, l>> \in lost'
    OBVIOUS
  <2>1. l \in held => l.seg = s /\ holds[p][l] > 0
    BY DEF held, LocksOf
  <2>2. freed \subseteq held
    BY DEF freed
  <2>3. <<p, l>> \in lost' <=> <<p, l>> \in lost \/ l \in held \ freed
    BY <1>4
  <2>4. CASE l \in freed
    BY <1>2, <1>6, <2>1, <2>2, <2>3, <2>4
  <2>5. CASE l \in held \ freed
    BY <1>6, <2>1, <2>3, <2>5
  <2>6. CASE l \notin held
    BY <1>3, <1>6, <2>2, <2>3, <2>6
  <2>7. QED
    BY <2>2, <2>4, <2>5, <2>6
<1>8. \A q \in Procs, l \in Locks : q # p => (<<q, l>> \in lost' <=> <<q, l>> \in lost)
  BY <1>4
<1>9. \A l \in freed : owner[l] = p
  BY <1>2 DEF freed
<1>10. TypeOK /\ LocksOK
  BY DEF Inv, LocksOK
<1>11. /\ owner' \in [Locks -> Procs \cup {Nobody}]
       /\ health' \in [Locks -> {"ok", "ownerDead", "unusable"}]
       /\ LocksOK'
  BY <1>1, <1>4, <1>5, <1>6, <1>7, <1>8, <1>9, <1>10, ReleaseOK
<1>12. TypeOK'
  BY <1>1, <1>4, <1>5, <1>11 DEF Inv, TypeOK
<1>13. Placed'
  BY <1>4 DEF Inv, Placed
<1>14. QED
  BY <1>11, <1>12, <1>13 DEF Inv, LocksOK
LEMMA LockAgainOK ==
  ASSUME Inv, NEW p \in Procs, NEW l \in Locks, LockAgain(p, l)
  PROVE  Inv'
<1>1. /\ holds[p][l] \in 1 .. MaxCount - 1
      /\ holds' = [holds EXCEPT ![p][l] = @ + 1]
      /\ UNCHANGED <<running, sizes, attached, usable, owner, health, waits, lost>>
  BY DEF LockAgain
<1>2. holds' \in [Procs -> [Locks -> 0 .. MaxCount]]
  BY <1>1, Constants DEF Inv, TypeOK
<1>3. \A q \in Procs, k \in Locks : holds'[q][k] > 0 <=> holds[q][k] > 0
  <2> SUFFICES ASSUME NEW q \in Procs, NEW k \in Locks
               PROVE  holds'[q][k] > 0 <=> holds[q][k] > 0
    OBVIOUS
  <2>1. holds'[q][k] = IF q = p /\ k = l THEN holds[p][l] + 1 ELSE holds[q][k]
    BY <1>1 DEF Inv, TypeOK
  <2>2. QED
    BY <1>1, <2>1, Constants
<1>4. Held' /\ Accounted'
  BY <1>1, <1>3 DEF Inv, Held, Accounted
<1>5. Forgotten' /\ Waiting' /\ StaysUsable' /\ Consistent' /\ Placed'
  BY <1>1 DEF Inv, Forgotten, Waiting, StaysUsable, Consistent, Placed
<1>6. TypeOK'
  BY <1>1, <1>2 DEF Inv, TypeOK
<1>7. QED
  BY <1>4, <1>5, <1>6 DEF Inv

LEMMA LockOK ==
  ASSUME Inv, NEW p \in Procs, NEW l \in Locks, Lock(p, l)
  PROVE  Inv'
<1>1. /\ p \in running
      /\ waits' = [waits EXCEPT ![p] = l]
      /\ UNCHANGED <<running, sizes, attached, usable, holds, owner, health, lost>>
  BY DEF Lock, Ready, Runs
<1>2. TypeOK'
  BY <1>1 DEF Inv, TypeOK
<1>3. Waiting'
  BY <1>1 DEF Inv, TypeOK, Waiting
<1>4. Held' /\ Accounted' /\ Forgotten' /\ StaysUsable' /\ Consistent' /\ Placed'
  BY <1>1 DEF Inv, Held, Accounted, Forgotten, StaysUsable, Consistent, Placed
<1>5. QED
  BY <1>2, <1>3, <1>4 DEF Inv

LEMMA LockedOK ==
  ASSUME Inv, NEW p \in Procs, Locked(p)
  PROVE  Inv'
<1>1. /\ p \in running /\ waits[p] \in Locks /\ Take(p, waits[p])
      /\ waits' = [waits EXCEPT ![p] = Nobody]
      /\ UNCHANGED <<running, sizes, attached, usable, lost>>
  BY DEF Inv, TypeOK, Waiting, Locked
<1>2. TypeOK /\ LocksOK
  BY DEF Inv, LocksOK
<1>3. /\ holds' \in [Procs -> [Locks -> 0 .. MaxCount]]
      /\ owner' \in [Locks -> Procs \cup {Nobody}]
      /\ health' \in [Locks -> {"ok", "ownerDead", "unusable"}]
      /\ waits' \in [Procs -> Locks \cup {Nobody}]
      /\ LocksOK'
  BY <1>1, <1>2, TakeOK
<1>4. TypeOK' /\ Placed'
  BY <1>1, <1>3 DEF Inv, TypeOK, Placed
<1>5. QED
  BY <1>3, <1>4 DEF Inv, LocksOK

LEMMA TryLockOK ==
  ASSUME Inv, NEW p \in Procs, NEW l \in Locks, TryLock(p, l)
  PROVE  Inv'
<1>1. /\ p \in running /\ Take(p, l)
      /\ UNCHANGED <<running, sizes, attached, usable, waits, lost>>
  BY DEF TryLock, Ready, Runs
<1>2. TypeOK /\ LocksOK
  BY DEF Inv, LocksOK
<1>3. /\ holds' \in [Procs -> [Locks -> 0 .. MaxCount]]
      /\ owner' \in [Locks -> Procs \cup {Nobody}]
      /\ health' \in [Locks -> {"ok", "ownerDead", "unusable"}]
      /\ LocksOK'
  BY <1>1, <1>2, TakeOK
<1>4. TypeOK' /\ Placed'
  BY <1>1, <1>3 DEF Inv, TypeOK, Placed
<1>5. QED
  BY <1>3, <1>4 DEF Inv, LocksOK

LEMMA UnlockOK ==
  ASSUME Inv, NEW p \in Procs, NEW l \in Locks, Unlock(p, l)
  PROVE  Inv'
<1> DEFINE set == IF holds[p][l] = 1 THEN {l} ELSE {}
<1>1. /\ p \in running /\ holds[p][l] > 0 /\ Release(set)
      /\ holds' = [holds EXCEPT ![p][l] = @ - 1]
      /\ UNCHANGED <<running, sizes, attached, usable, waits, lost>>
  BY DEF Unlock, Ready, Runs
<1>2. TypeOK /\ LocksOK
  BY DEF Inv, LocksOK
<1>3. holds[p][l] \in 1 .. MaxCount /\ owner[l] = p /\ <<p, l>> \notin lost
  BY <1>1, Constants DEF Inv, TypeOK, Held
<1>4. holds' \in [Procs -> [Locks -> 0 .. MaxCount]]
  BY <1>1, <1>3, Constants DEF Inv, TypeOK
<1>5. \A q \in Procs, k \in Locks :
        holds'[q][k] = IF q = p /\ k = l THEN holds[p][l] - 1 ELSE holds[q][k]
  BY <1>1 DEF Inv, TypeOK
<1>6. \A k \in Locks :
        IF k \in set THEN holds'[p][k] = 0 /\ <<p, k>> \notin lost'
        ELSE \/ /\ holds'[p][k] > 0 <=> holds[p][k] > 0
                /\ <<p, k>> \in lost' <=> <<p, k>> \in lost
             \/ holds[p][k] > 0 /\ holds'[p][k] = 0 /\ <<p, k>> \in lost'
  BY <1>1, <1>3, <1>5, Constants
<1>7. set \in SUBSET Locks /\ \A k \in set : owner[k] = p
  BY <1>3
<1> HIDE DEF set
<1>8. /\ owner' \in [Locks -> Procs \cup {Nobody}]
      /\ health' \in [Locks -> {"ok", "ownerDead", "unusable"}]
      /\ LocksOK'
  BY <1>1, <1>2, <1>4, <1>5, <1>6, <1>7, ReleaseOK
<1>9. TypeOK' /\ Placed'
  BY <1>1, <1>4, <1>8 DEF Inv, TypeOK, Placed
<1>10. QED
  BY <1>8, <1>9 DEF Inv, LocksOK

LEMMA UnlockMutexOK ==
  ASSUME Inv, NEW p \in Procs, NEW l \in Locks, UnlockMutex(p, l)
  PROVE  Inv'
<1>1. /\ p \in running /\ owner[l] = p /\ Release({l})
      /\ holds' = [holds EXCEPT ![p][l] = 0] /\ lost' = lost \ {<<p, l>>}
      /\ UNCHANGED <<running, sizes, attached, usable, waits>>
  BY DEF UnlockMutex, Ready, Runs
<1>2. TypeOK /\ LocksOK
  BY DEF Inv, LocksOK
<1>3. holds' \in [Procs -> [Locks -> 0 .. MaxCount]]
  BY <1>1, Constants DEF Inv, TypeOK
<1>4. \A q \in Procs, k \in Locks :
        /\ holds'[q][k] = IF q = p /\ k = l THEN 0 ELSE holds[q][k]
        /\ <<q, k>> \in lost' <=> <<q, k>> \in lost /\ ~(q = p /\ k = l)
  BY <1>1 DEF Inv, TypeOK
<1>5. \A k \in Locks :
        IF k \in {l} THEN holds'[p][k] = 0 /\ <<p, k>> \notin lost'
        ELSE \/ /\ holds'[p][k] > 0 <=> holds[p][k] > 0
                /\ <<p, k>> \in lost' <=> <<p, k>> \in lost
             \/ holds[p][k] > 0 /\ holds'[p][k] = 0 /\ <<p, k>> \in lost'
  BY <1>4
<1>6. {l} \in SUBSET Locks /\ \A k \in {l} : owner[k] = p
  BY <1>1
<1>7. /\ \A q \in Procs, k \in Locks : q # p => holds'[q][k] = holds[q][k]
      /\ \A q \in Procs, k \in Locks : q # p => (<<q, k>> \in lost' <=> <<q, k>> \in lost)
  BY <1>4
<1>8. /\ owner' \in [Locks -> Procs \cup {Nobody}]
      /\ health' \in [Locks -> {"ok", "ownerDead", "unusable"}]
      /\ LocksOK'
  BY <1>1, <1>2, <1>3, <1>5, <1>6, <1>7, ReleaseOK
<1>9. TypeOK' /\ Placed'
  BY <1>1, <1>3, <1>8 DEF Inv, TypeOK, Placed
<1>10. QED
  BY <1>8, <1>9 DEF Inv, LocksOK
LEMMA EndOK ==
  ASSUME Inv, NEW p \in Procs, End(p)
  PROVE  Inv'
<1>1. /\ p \in running /\ running' = running \ {p}
      /\ attached' = {a \in attached : a[1] # p}
      /\ holds' = [holds EXCEPT ![p] = [l \in Locks |-> 0]]
      /\ waits' = [waits EXCEPT ![p] = Nobody]
      /\ UNCHANGED <<sizes, usable, lost>>
  BY DEF End
<1>2. PICK set \in GivenUp(p) :
        /\ owner' = [l \in Locks |-> IF l \in set THEN Nobody ELSE owner[l]]
        /\ health' = [l \in Locks |-> IF l \in set THEN "ownerDead" ELSE health[l]]
  BY DEF End
<1>3. /\ \A l \in set : l \in Locks /\ owner[l] = p
      /\ \/ \E k \in Locks : <<p, k>> \in lost
         \/ \A l \in Locks : owner[l] = p => l \in set
  BY DEF GivenUp, Robust
<1>4. /\ \A l \in Locks : owner'[l] = IF l \in set THEN Nobody ELSE owner[l]
      /\ \A q \in Procs, l \in Locks : holds'[q][l] = IF q = p THEN 0 ELSE holds[q][l]
  BY <1>1, <1>2 DEF Inv, TypeOK
<1>5. TypeOK'
  <2>1. holds' \in [Procs -> [Locks -> 0 .. MaxCount]]
    BY <1>1, Constants DEF Inv, TypeOK
  <2>2. /\ owner' \in [Locks -> Procs \cup {Nobody}]
        /\ health' \in [Locks -> {"ok", "ownerDead", "unusable"}]
    BY <1>2 DEF Inv, TypeOK
  <2>3. QED
    BY <1>1, <2>1, <2>2 DEF Inv, TypeOK
<1>6. Held'
  BY <1>1, <1>3, <1>4 DEF Inv, Held
<1>7. Forgotten'
  BY <1>1, <1>3, <1>4, Constants DEF Inv, TypeOK, Forgotten
<1>8. Accounted'
  <2> SUFFICES ASSUME NEW q \in Procs, NEW l \in Locks
               PROVE  IF q \in running'
                      THEN owner'[l] = q <=> holds'[q][l] > 0 \/ <<q, l>> \in lost
                      ELSE owner'[l] = q => \E k \in Locks : <<q, k>> \in lost
    BY <1>1 DEF Accounted
  <2>1. CASE q = p
    BY <1>1, <1>3, <1>4, <2>1, Constants
  <2>2. CASE q # p
    <3>1. owner'[l] = q <=> owner[l] = q
      BY <1>3, <1>4, <2>2, Constants
    <3>2. holds'[q][l] = holds[q][l] /\ (q \in running' <=> q \in running)
      BY <1>1, <1>4, <2>2
    <3>3. QED
      BY <3>1, <3>2 DEF Inv, Accounted
  <2>3. QED
    BY <2>1, <2>2
<1>9. Waiting'
  BY <1>1 DEF Inv, TypeOK, Waiting
<1>10. StaysUsable' /\ Consistent'
  BY <1>2, <1>4 DEF Inv, StaysUsable, Consistent
<1>11. Placed'
  BY <1>1 DEF Inv, Placed
<1>12. QED
  BY <1>5, <1>6, <1>7, <1>8, <1>9, <1>10, <1>11 DEF Inv

\* In every reachable state: the inductive invariant.
THEOREM MemoryCorrect == Spec => []Inv
<1>1. Inv /\ [Next]_vars => Inv'
  <2> SUFFICES ASSUME Inv, [Next]_vars PROVE Inv'
    OBVIOUS
  <2>1. CASE UNCHANGED vars
    BY <2>1 DEF Inv, TypeOK, Held, Forgotten, Accounted, Waiting, StaysUsable,
                Consistent, Placed, vars, locking
  <2>2. ASSUME NEW p \in Procs, NEW s \in Buffers, NEW size \in BufferSizes,
               Create(p, s, size)
        PROVE  Inv'
    BY <2>2, CreateOK, Constants
  <2>3. ASSUME NEW p \in Procs, NEW s \in Mutexes, Create(p, s, 0)
        PROVE  Inv'
    BY <2>3, CreateOK, Constants
  <2>4. ASSUME NEW p \in Procs, NEW s \in Segments, Attach(p, s) \/ Delete(p, s)
        PROVE  Inv'
    BY <2>4, AttachOK, DeleteOK
  <2>5. ASSUME NEW p \in Procs, NEW l \in Locks,
               \/ LockAgain(p, l) \/ Lock(p, l) \/ TryLock(p, l)
               \/ Unlock(p, l) \/ UnlockMutex(p, l)
        PROVE  Inv'
    BY <2>5, LockAgainOK, LockOK, TryLockOK, UnlockOK, UnlockMutexOK
  <2>6. ASSUME NEW p \in Procs, Locked(p) \/ End(p)
        PROVE  Inv'
    BY <2>6, LockedOK, EndOK
  <2>7. QED
    BY <2>1, <2>2, <2>3, <2>4, <2>5, <2>6 DEF Next
<1>2. QED
  BY <1>1, InitOK, PTL DEF Spec

-----------------------------------------------------------------------------
\* The declared types, for any processes and segments.
THEOREM TypesHold == Spec => []TypeOK
<1>1. Inv => TypeOK
  BY DEF Inv
<1>2. QED
  BY <1>1, MemoryCorrect, PTL

\* The locks exclude: at most one process has locked each, whoever has ended
\* with it, deleted its object or counted it up and down (lock, unlock, ~PIpcBuffer).
THEOREM LocksExclude == Spec => []Exclusive
<1>1. Inv => Exclusive
  <2> SUFFICES ASSUME Inv, NEW p \in Procs, NEW q \in Procs, NEW l \in Locks,
                      holds[p][l] > 0, holds[q][l] > 0
               PROVE  p = q
    BY DEF Exclusive
  <2>1. owner[l] = p /\ owner[l] = q
    BY DEF Inv, Held
  <2>2. QED
    BY <2>1
<1>2. QED
  BY <1>1, MemoryCorrect, PTL

\* Only destructors leave locks behind that nobody will unlock.
THEOREM LocksAreAccounted == Spec => []Accounted
<1>1. Inv => Accounted
  BY DEF Inv
<1>2. QED
  BY <1>1, MemoryCorrect, PTL

\* No death of an owner makes a lock useless (pthread_mutex_consistent_np after
\* EOWNERDEAD).
THEOREM LocksStayUsable == Spec => []StaysUsable
<1>1. Inv => StaysUsable
  BY DEF Inv
<1>2. QED
  BY <1>1, MemoryCorrect, PTL

\* The rounding of create and attach finds one place for the data, behind the
\* header and within the segment, for every page, header, object and buffer size.
THEOREM DataHasItsPlace == Spec => []DataFits
<1>1. Inv => DataFits
  <2> SUFFICES ASSUME Inv, NEW a \in attached, a[2] \in Buffers
               PROVE  /\ Header <= usable[a[1]][a[2]]
                      /\ usable[a[1]][a[2]] + sizes[a[2]] <= TotalSize(sizes[a[2]])
                      /\ \A b \in attached : b[2] = a[2] =>
                           usable[b[1]][b[2]] = usable[a[1]][a[2]]
    BY DEF DataFits
  <2>1. ASSUME NEW b \in attached, b[2] \in Buffers
        PROVE  usable[b[1]][b[2]] = Page
    <3>1. b = <<b[1], b[2]>> /\ b[1] \in Procs
      BY DEF Inv, TypeOK
    <3>2. QED
      BY <2>1, <3>1 DEF Inv, Placed
  <2>2. sizes[a[2]] \in Int
    <3>1. a[2] \in Segments
      BY DEF Segments
    <3>2. sizes[a[2]] \in BufferSizes \cup {-1, 0}
      BY <3>1 DEF Inv, TypeOK
    <3>3. BufferSizes \subseteq Nat
      BY LayoutAssumption
    <3>4. \A size \in BufferSizes \cup {-1, 0} : size \in Int
      BY <3>3
    <3>5. QED
      BY <3>2, <3>4
  <2>3. Page \in Nat /\ Header \in 1 .. Page
    BY LayoutAssumption
  <2>4. usable[a[1]][a[2]] + sizes[a[2]] <= TotalSize(sizes[a[2]])
    BY <2>1, <2>2, <2>3 DEF TotalSize
  <2>5. QED
    BY <2>1, <2>3, <2>4
<1>2. QED
  BY <1>1, MemoryCorrect, PTL
=============================================================================
