---------------------------- MODULE AsyncCaller ----------------------------
(***************************************************************************)
(* How a message of another thread reaches the main thread's queue:        *)
(* queueAsyncMessage and asyncCallerDispatch (src/ipc/PIpcChannel.cpp)     *)
(* around PIpcAsyncCaller (src/ipc/PIpcAsyncCaller.cpp), which wakes the   *)
(* main loop with a byte in a pipe.                                        *)
(*                                                                         *)
(* pc[t] is the next line of thread t to run that another thread can       *)
(* notice; "ready" is outside of this code.  The wake-ups reach the main   *)
(* loop only: while the main thread is in the nested loop of a synchronous *)
(* call nobody reads the pipe.                                             *)
(***************************************************************************)
EXTENDS Naturals, Sequences

CONSTANTS
  Main,      \* the thread that created the channel
  Others,    \* the other threads of the process
  Posters,   \* the threads that call queueAsyncMessage
  Free,      \* the owner of an unlocked mutex
  Quota,     \* how many messages each poster queues
  PipeCap    \* how many bytes the pipe holds

Threads == Others \cup {Main}

ASSUME ThreadsAssumption ==
  /\ Main \notin Others /\ Free \notin Threads
  /\ Posters \subseteq Threads
ASSUME SizesAssumption == Quota \in Nat /\ PipeCap \in Nat \ {0}

\* The message number nr of thread by.
Messages == [by : Threads, nr : Nat]

VARIABLES
  pc,           \* pc[t]: where thread t is
  posted,       \* posted[t]: how many messages thread t has queued
  otherThread,  \* m_otherThreadOutgoingMessages
  queueMutex,   \* the owner of m_otherThreadOutgoingMessagesMutex
  pipe,         \* how many bytes are in the pipe
  pipeMutex,    \* the owner of PIpcAsyncCallerBase's m_mutex
  outgoing,     \* what has been moved to m_outgoingMessages, in order
  nested        \* the main thread is in the nested loop

vars == <<pc, posted, otherThread, queueMutex, pipe, pipeMutex, outgoing, nested>>

Init ==
  /\ pc = [t \in Threads |-> "ready"]
  /\ posted = [t \in Threads |-> 0]
  /\ otherThread = <<>> /\ outgoing = <<>>
  /\ queueMutex = Free /\ pipeMutex = Free
  /\ pipe = 0
  /\ nested = FALSE

Goto(t, from, to) == pc[t] = from /\ pc' = [pc EXCEPT ![t] = to]
-----------------------------------------------------------------------------
(***************************************************************************)
(* queueAsyncMessage and call.                                             *)
(***************************************************************************)
QueueAsyncMessage(t) ==
  /\ t \in Posters /\ posted[t] < Quota
  /\ Goto(t, "ready", "lockQueue")
  /\ UNCHANGED <<posted, otherThread, queueMutex, pipe, pipeMutex, outgoing, nested>>

\* Faulty variant: the queue is used without its mutex.
PassQueue(t) ==
  /\ Goto(t, "lockQueue", "push")
  /\ UNCHANGED <<posted, otherThread, queueMutex, pipe, pipeMutex, outgoing, nested>>

LockQueue(t) ==
  /\ Goto(t, "lockQueue", "push")
  /\ queueMutex = Free /\ queueMutex' = t
  /\ UNCHANGED <<posted, otherThread, pipe, pipeMutex, outgoing, nested>>

\* The message is pushed and the mutex unlocked.
PushMessage(t) ==
  /\ Goto(t, "push", "lockPipe")
  /\ otherThread' = Append(otherThread, [by |-> t, nr |-> posted[t] + 1])
  /\ posted' = [posted EXCEPT ![t] = @ + 1]
  /\ queueMutex' = Free
  /\ UNCHANGED <<pipe, pipeMutex, outgoing, nested>>

LockPipe(t) ==
  /\ Goto(t, "lockPipe", "write")
  /\ pipeMutex = Free /\ pipeMutex' = t
  /\ UNCHANGED <<posted, otherThread, queueMutex, pipe, outgoing, nested>>

\* Faulty variant: the mutex stays locked.
WriteAndKeep(t) ==
  /\ Goto(t, "write", "ready")
  /\ pipe < PipeCap /\ pipe' = pipe + 1
  /\ UNCHANGED <<posted, otherThread, queueMutex, pipeMutex, outgoing, nested>>

\* The pipe is blocking: the write waits for room, with the mutex held.
Write(t) ==
  /\ Goto(t, "write", "ready")
  /\ pipe < PipeCap /\ pipe' = pipe + 1
  /\ pipeMutex' = Free
  /\ UNCHANGED <<posted, otherThread, queueMutex, outgoing, nested>>

\* A signal interrupts a write that waits; its result is ignored.
Interrupted(t) ==
  /\ Goto(t, "write", "ready")
  /\ pipe = PipeCap
  /\ pipeMutex' = Free
  /\ UNCHANGED <<posted, otherThread, queueMutex, pipe, outgoing, nested>>
-----------------------------------------------------------------------------
(***************************************************************************)
(* The main thread.                                                        *)
(***************************************************************************)
\* Faulty variant: the callback reads the byte and does not dispatch.
ReadOnly ==
  /\ pc[Main] = "ready" /\ ~nested
  /\ pipe > 0 /\ pipe' = pipe - 1
  /\ UNCHANGED <<pc, posted, otherThread, queueMutex, pipeMutex, outgoing, nested>>

\* callback: the main loop found the pipe readable; one byte is read.
Callback ==
  /\ Goto(Main, "ready", "lockDrain") /\ ~nested
  /\ pipe > 0 /\ pipe' = pipe - 1
  /\ UNCHANGED <<posted, otherThread, queueMutex, pipeMutex, outgoing, nested>>

\* asyncCallerDispatch.
LockDrain ==
  /\ Goto(Main, "lockDrain", "drain")
  /\ queueMutex = Free /\ queueMutex' = Main
  /\ UNCHANGED <<posted, otherThread, pipe, pipeMutex, outgoing, nested>>

\* Faulty variant: the message is not popped.
CopyOne ==
  /\ pc[Main] = "drain" /\ otherThread # <<>>
  /\ outgoing' = Append(outgoing, Head(otherThread))
  /\ UNCHANGED <<pc, posted, otherThread, queueMutex, pipe, pipeMutex, nested>>

\* Faulty variant: pop() before front(), which reads what is not there.
PopFirst ==
  /\ pc[Main] = "drain" /\ otherThread # <<>>
  /\ otherThread' = Tail(otherThread)
  /\ outgoing' = Append(outgoing, IF Len(otherThread) > 1 THEN otherThread[2]
                                  ELSE [by |-> Free, nr |-> 0])
  /\ UNCHANGED <<pc, posted, queueMutex, pipe, pipeMutex, nested>>

MoveOne ==
  /\ pc[Main] = "drain" /\ otherThread # <<>>
  /\ outgoing' = Append(outgoing, Head(otherThread))
  /\ otherThread' = Tail(otherThread)
  /\ UNCHANGED <<pc, posted, queueMutex, pipe, pipeMutex, nested>>

\* Faulty variant: one message is moved per wake-up.
UnlockEarly ==
  /\ Goto(Main, "drain", "ready")
  /\ queueMutex' = Free
  /\ UNCHANGED <<posted, otherThread, pipe, pipeMutex, outgoing, nested>>

UnlockDrain ==
  /\ Goto(Main, "drain", "ready") /\ otherThread = <<>>
  /\ queueMutex' = Free
  /\ UNCHANGED <<posted, otherThread, pipe, pipeMutex, outgoing, nested>>

\* The nested loop of sendSyncMessage starts and ends.
EnterNested ==
  /\ pc[Main] = "ready" /\ ~nested /\ nested' = TRUE
  /\ UNCHANGED <<pc, posted, otherThread, queueMutex, pipe, pipeMutex, outgoing>>

LeaveNested ==
  /\ pc[Main] = "ready" /\ nested /\ nested' = FALSE
  /\ UNCHANGED <<pc, posted, otherThread, queueMutex, pipe, pipeMutex, outgoing>>
-----------------------------------------------------------------------------
Post(t) == LockQueue(t) \/ PushMessage(t) \/ LockPipe(t) \/ Write(t)

Dispatch == LockDrain \/ MoveOne \/ UnlockDrain

Next ==
  \/ \E t \in Threads : QueueAsyncMessage(t) \/ Post(t) \/ Interrupted(t)
  \/ Callback \/ Dispatch \/ EnterNested \/ LeaveNested

Spec == Init /\ [][Next]_vars

(***************************************************************************)
(* Threads are scheduled and calls return (CallsReturn of Channel).  A     *)
(* pass of the main loop dispatches every source that is ready, also when  *)
(* another source of the pass ran a nested loop: the callback is strongly  *)
(* fair.  Nothing makes a thread queue, nor a signal arrive.               *)
(***************************************************************************)
Fairness ==
  /\ \A t \in Threads : WF_vars(Post(t))
  /\ SF_vars(Callback) /\ WF_vars(Dispatch) /\ WF_vars(LeaveNested)

FairSpec == Spec /\ Fairness
-----------------------------------------------------------------------------
\* Every variable has its type.
TypeOK ==
  /\ pc \in [Threads -> {"ready", "lockQueue", "push", "lockPipe", "write",
                         "lockDrain", "drain"}]
  /\ posted \in [Threads -> Nat]
  /\ otherThread \in Seq(Messages) /\ outgoing \in Seq(Messages)
  /\ queueMutex \in Threads \cup {Free} /\ pipeMutex \in Threads \cup {Free}
  /\ pipe \in 0 .. PipeCap
  /\ nested \in BOOLEAN

\* The queue of the other threads is never touched by two threads at once, the
\* main thread's drain included.
NoRace ==
  \A t, u \in Threads :
    pc[t] \in {"push", "drain"} /\ pc[u] \in {"push", "drain"} => t = u

\* No wake-up is lost: whenever a message is queued, a byte is in the pipe, or a
\* thread is on its way to write one, or the main thread is about to drain; also
\* when the pipe was full and a signal made a write fail unnoticed.
Awake ==
  otherThread # <<>> =>
    \/ pipe > 0
    \/ \E t \in Threads : pc[t] \in {"lockPipe", "write"}
    \/ pc[Main] \in {"lockDrain", "drain"}

\* Each thread's messages keep their order on the way to the main thread's
\* queue, and all those it queued are there, none of them twice.
InOrder ==
  LET s == outgoing \o otherThread
  IN  /\ \A i, j \in DOMAIN s : i < j /\ s[i].by = s[j].by => s[i].nr < s[j].nr
      /\ \A t \in Threads : \A k \in 1 .. posted[t] :
           \E i \in DOMAIN s : s[i] = [by |-> t, nr |-> k]

Letters == [by : Threads, nr : 1 .. Quota]

Box == INSTANCE Mailbox WITH box <- otherThread, out <- outgoing

\* The threads, the pipe and the drain implement a mailbox that the main thread
\* empties in the end, although several messages share a byte and the pipe may
\* be full.
ImplementsMailbox == Box!Spec

\* queueAsyncMessage is "thread-safe": a thread that calls it comes back.
PostReturns ==
  \A t \in Posters :
    pc[t] \in {"lockQueue", "push", "lockPipe", "write"} ~> pc[t] = "ready"
=============================================================================
