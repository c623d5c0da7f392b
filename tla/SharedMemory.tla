---------------------------- MODULE SharedMemory ----------------------------
(***************************************************************************)
(* Shared memory with locks in it: PIpcBuffer (src/ipc/PIpcBuffer.cpp),    *)
(* two counted locks and data, and PIpcMutex (src/ipc/PIpcMutex.cpp), one  *)
(* lock that is not counted.  Both lie in a System V segment that goes     *)
(* when the last process detaches.                                         *)
(*                                                                         *)
(* Each process has one thread and at most one object per segment.  The    *)
(* locks are POSIX mutexes, shared between processes and robust: when the  *)
(* owner ends, the next to lock it is told so (EOWNERDEAD) and has to call *)
(* it consistent; unlocked without that it is of no use to anyone.         *)
(***************************************************************************)
EXTENDS Integers, FiniteSets

CONSTANTS
  Procs,       \* the processes
  Buffers,     \* the segments that PIpcBuffer::create makes
  Mutexes,     \* the segments that PIpcMutex::create makes
  Nobody,      \* the owner of an unlocked lock, and what a running process waits for
  MaxCount,    \* how often a process locks a buffer over itself
  BufferSizes, \* the sizes asked for
  Page,        \* getpagesize()
  Header,      \* sizeof(PIpcBufferHeader)
  Object       \* sizeof(PIpcBuffer)

Segments == Buffers \cup Mutexes

Locks == [seg : Buffers, nr : {1, 2}] \cup [seg : Mutexes, nr : {1}]

ASSUME SegmentsAssumption ==
  /\ Nobody \notin Procs /\ Nobody \notin Locks
  /\ Buffers \cap Mutexes = {}
  /\ MaxCount \in Nat \ {0}
ASSUME LayoutAssumption ==
  /\ Page \in Nat /\ Header \in 1 .. Page /\ Object \in 1 .. Page - 1
  /\ BufferSizes \subseteq Nat \ {0}

VARIABLES
  running,  \* the processes that have not ended
  sizes,    \* sizes[s]: usableSize of the segment s, -1 before it is created
  attached, \* the objects: pairs of a process and a segment
  usable,   \* usable[p][s]: where in the segment m_usableData of p points to
  holds,    \* holds[p][l]: m_lockCount or m_lockCount2; of a PIpcMutex 1 from
            \* the return of lock to unlock
  owner,    \* the owner of each lock
  health,   \* what the next to lock it is told
  waits,    \* waits[p]: the lock that p waits for in pthread_mutex_lock
  lost      \* the locks left locked by a destructor, with their owners

locking == <<holds, owner, health, waits, lost>>
vars == <<running, sizes, attached, usable, locking>>

Init ==
  /\ running = Procs
  /\ sizes = [s \in Segments |-> -1]
  /\ attached = {}
  /\ usable = [p \in Procs |-> [s \in Segments |-> 0]]
  /\ holds = [p \in Procs |-> [l \in Locks |-> 0]]
  /\ owner = [l \in Locks |-> Nobody]
  /\ health = [l \in Locks |-> "ok"]
  /\ waits = [p \in Procs |-> Nobody]
  /\ lost = {}

Runs(p) == p \in running /\ waits[p] = Nobody

Lives(s) == \E p \in Procs : <<p, s>> \in attached

LocksOf(s) == {l \in Locks : l.seg = s}
-----------------------------------------------------------------------------
(***************************************************************************)
(* Creating, attaching and deleting objects.                               *)
(***************************************************************************)
TotalSize(size) == size + Header + Page

\* Faulty variant: the data begins behind the object's size, not on a page.
PackedData(base) == base + Object

\* m_usableData: the first page that begins behind base + sizeof(PIpcBuffer).
UsableData(base) == ((base + Object) \div Page) * Page + Page

\* shmat: the segment is mapped at a page of the process.
Map(p, s) ==
  /\ attached' = attached \cup {<<p, s>>}
  /\ \E base \in {Page, 2 * Page} :
       usable' = [usable EXCEPT ![p][s] = IF s \in Buffers THEN UsableData(base) - base
                                          ELSE 0]

\* create.  IPC_RMID follows at once: the segment goes with its last object.
Create(p, s, size) ==
  /\ Runs(p) /\ sizes[s] = -1
  /\ sizes' = [sizes EXCEPT ![s] = size]
  /\ Map(p, s)
  /\ UNCHANGED <<running, locking>>

\* attach with the key of a segment that some process still has attached.
Attach(p, s) ==
  /\ Runs(p) /\ Lives(s) /\ <<p, s>> \notin attached
  /\ Map(p, s)
  /\ UNCHANGED <<running, sizes, locking>>

\* pthread_mutex_unlock of the locks in set.
Release(set) ==
  /\ owner' = [l \in Locks |-> IF l \in set THEN Nobody ELSE owner[l]]
  /\ health' = [l \in Locks |-> IF l \in set /\ health[l] = "ownerDead"
                                THEN "unusable" ELSE health[l]]

\* Faulty variant: the destructor unlocks nothing.
DeleteLocked(p, s) ==
  /\ Runs(p) /\ <<p, s>> \in attached
  /\ Release({})
  /\ holds' = [holds EXCEPT ![p] = [l \in Locks |-> IF l.seg = s THEN 0 ELSE @[l]]]
  /\ attached' = attached \ {<<p, s>>}
  /\ UNCHANGED <<running, sizes, usable, waits, lost>>

\* ~PIpcBuffer unlocks each lock once if its count is not 0, ~PIpcMutex does not
\* unlock: a lock counted twice, or a locked mutex, stays locked.
Delete(p, s) ==
  LET held == {l \in LocksOf(s) : holds[p][l] > 0}
      freed == {l \in held : s \in Buffers /\ holds[p][l] = 1}
  IN  /\ Runs(p) /\ <<p, s>> \in attached
      /\ Release(freed)
      /\ lost' = lost \cup ({p} \X (held \ freed))
      /\ holds' = [holds EXCEPT ![p] = [l \in Locks |-> IF l.seg = s THEN 0 ELSE @[l]]]
      /\ attached' = attached \ {<<p, s>>}
      /\ UNCHANGED <<running, sizes, usable, waits>>
-----------------------------------------------------------------------------
(***************************************************************************)
(* The locks.  trylock, lock and unlock of both classes.                   *)
(***************************************************************************)
\* The object exists and isValid.
Ready(p, l) == Runs(p) /\ <<p, l.seg>> \in attached

\* Faulty variant: EOWNERDEAD is taken for success and no more.
TakeAsIs(p, l) ==
  /\ owner[l] = Nobody /\ health[l] # "unusable"
  /\ owner' = [owner EXCEPT ![l] = p]
  /\ health' = health
  /\ holds' = [holds EXCEPT ![p][l] = 1]

\* pthread_mutex_lock or trylock succeeds; after EOWNERDEAD the mutex is made
\* consistent.
Take(p, l) ==
  /\ owner[l] = Nobody /\ health[l] # "unusable"
  /\ owner' = [owner EXCEPT ![l] = p]
  /\ health' = [health EXCEPT ![l] = "ok"]
  /\ holds' = [holds EXCEPT ![p][l] = 1]

\* lock and trylock of a buffer this process has locked: only the count goes up.
LockAgain(p, l) ==
  /\ Ready(p, l) /\ l.seg \in Buffers /\ holds[p][l] \in 1 .. MaxCount - 1
  /\ holds' = [holds EXCEPT ![p][l] = @ + 1]
  /\ UNCHANGED <<running, sizes, attached, usable, owner, health, waits, lost>>

\* lock: pthread_mutex_lock, which waits.  A PIpcMutex that this process has
\* locked makes it wait for itself.
Lock(p, l) ==
  /\ Ready(p, l) /\ (l.seg \in Buffers => holds[p][l] = 0)
  /\ waits' = [waits EXCEPT ![p] = l]
  /\ UNCHANGED <<running, sizes, attached, usable, holds, owner, health, lost>>

Locked(p) ==
  /\ waits[p] # Nobody /\ Take(p, waits[p])
  /\ waits' = [waits EXCEPT ![p] = Nobody]
  /\ UNCHANGED <<running, sizes, attached, usable, lost>>

\* trylock that gets the lock; another one changes nothing.
TryLock(p, l) ==
  /\ Ready(p, l) /\ holds[p][l] = 0
  /\ Take(p, l)
  /\ UNCHANGED <<running, sizes, attached, usable, waits, lost>>

\* Faulty variant: a count of 0 is not looked for.
UnlockAny(p, l) ==
  /\ Ready(p, l)
  /\ holds' = [holds EXCEPT ![p][l] = @ - 1]
  /\ Release(IF holds[p][l] = 1 THEN {l} ELSE {})
  /\ UNCHANGED <<running, sizes, attached, usable, waits, lost>>

\* Faulty variant: every unlock unlocks the mutex.
UnlockAll(p, l) ==
  /\ Ready(p, l) /\ holds[p][l] > 0
  /\ holds' = [holds EXCEPT ![p][l] = @ - 1]
  /\ Release({l})
  /\ UNCHANGED <<running, sizes, attached, usable, waits, lost>>

\* unlock of a buffer: the mutex is unlocked with the last count.
Unlock(p, l) ==
  /\ Ready(p, l) /\ l.seg \in Buffers /\ holds[p][l] > 0
  /\ holds' = [holds EXCEPT ![p][l] = @ - 1]
  /\ Release(IF holds[p][l] = 1 THEN {l} ELSE {})
  /\ UNCHANGED <<running, sizes, attached, usable, waits, lost>>

\* unlock of a PIpcMutex, also one that an object deleted earlier had locked.  It
\* fails and changes nothing unless this process owns the lock.
UnlockMutex(p, l) ==
  /\ Ready(p, l) /\ l.seg \in Mutexes /\ owner[l] = p
  /\ holds' = [holds EXCEPT ![p][l] = 0]
  /\ lost' = lost \ {<<p, l>>}
  /\ Release({l})
  /\ UNCHANGED <<running, sizes, attached, usable, waits>>
-----------------------------------------------------------------------------
\* Faulty variant: the attribute is not set.
NotRobust == FALSE

\* pthread_mutexattr_setrobust_np.
Robust == TRUE

\* The locks that may be given up when p ends: all it owns.  The kernel finds
\* them by a list that runs through the mutexes themselves; if one of them has
\* been unmapped while it was locked, it may find any part of them.
GivenUp(p) ==
  LET owned == {l \in Locks : owner[l] = p}
  IN  IF ~Robust THEN {{}}
      ELSE IF \E l \in Locks : <<p, l>> \in lost THEN SUBSET owned
      ELSE {owned}

\* A process ends, anywhere.
End(p) ==
  /\ p \in running /\ running' = running \ {p}
  /\ attached' = {a \in attached : a[1] # p}
  /\ holds' = [holds EXCEPT ![p] = [l \in Locks |-> 0]]
  /\ waits' = [waits EXCEPT ![p] = Nobody]
  /\ \E set \in GivenUp(p) :
       /\ owner' = [l \in Locks |-> IF l \in set THEN Nobody ELSE owner[l]]
       /\ health' = [l \in Locks |-> IF l \in set THEN "ownerDead" ELSE health[l]]
  /\ UNCHANGED <<sizes, usable, lost>>

Next ==
  \E p \in Procs :
    \/ \E s \in Buffers, size \in BufferSizes : Create(p, s, size)
    \/ \E s \in Mutexes : Create(p, s, 0)
    \/ \E s \in Segments : Attach(p, s) \/ Delete(p, s)
    \/ \E l \in Locks :
         LockAgain(p, l) \/ Lock(p, l) \/ TryLock(p, l) \/ Unlock(p, l) \/ UnlockMutex(p, l)
    \/ Locked(p) \/ End(p)

Spec == Init /\ [][Next]_vars

\* pthread_mutex_lock returns to a process that finds the lock free for good.
\* Nothing makes a process lock, unlock or end.
Fairness == \A p \in Procs : WF_vars(Locked(p))

FairSpec == Spec /\ Fairness
-----------------------------------------------------------------------------
\* Every variable has its type.
TypeOK ==
  /\ running \in SUBSET Procs
  /\ sizes \in [Segments -> BufferSizes \cup {-1, 0}]
  /\ attached \in SUBSET (Procs \X Segments)
  /\ usable \in [Procs -> [Segments -> Nat]]
  /\ holds \in [Procs -> [Locks -> 0 .. MaxCount]]
  /\ owner \in [Locks -> Procs \cup {Nobody}]
  /\ health \in [Locks -> {"ok", "ownerDead", "unusable"}]
  /\ waits \in [Procs -> Locks \cup {Nobody}]
  /\ lost \in SUBSET (Procs \X Locks)

\* Two processes never hold one lock at a time, however often each has counted
\* it up and down and whoever has ended with it.
Exclusive ==
  \A p, q \in Procs, l \in Locks : holds[p][l] > 0 /\ holds[q][l] > 0 => p = q

\* A running process owns the locks it counts and those that its destructors left
\* locked; one that has ended owns nothing, unless it had left a lock locked:
\* nothing else leaves a lock that nobody will unlock.
Accounted ==
  \A p \in Procs, l \in Locks :
    IF p \in running THEN owner[l] = p <=> holds[p][l] > 0 \/ <<p, l>> \in lost
    ELSE owner[l] = p => \E k \in Locks : <<p, k>> \in lost

\* A process that ends with a lock does not spoil it: whoever locks it next makes
\* it consistent before it is unlocked.
StaysUsable == \A l \in Locks : health[l] # "unusable"

\* The data lies at one place of the segment for all processes, although each
\* computes it from its own address and from the size of an object that is not in
\* the segment: behind the header, and within the segment to its last byte.
DataFits ==
  \A a \in attached : a[2] \in Buffers =>
    /\ Header <= usable[a[1]][a[2]]
    /\ usable[a[1]][a[2]] + sizes[a[2]] <= TotalSize(sizes[a[2]])
    /\ \A b \in attached : b[2] = a[2] => usable[b[1]][b[2]] = usable[a[1]][a[2]]

\* No process waits for ever for a lock whose owner has ended, unless the owner
\* had deleted an object with a lock locked.
EndUnblocks ==
  \A p \in Procs, l \in Locks :
    []<>(\/ waits[p] # l
         \/ owner[l] \in running
         \/ \E k \in Locks : <<owner[l], k>> \in lost)
=============================================================================
