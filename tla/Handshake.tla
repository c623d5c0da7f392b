----------------------------- MODULE Handshake -----------------------------
(***************************************************************************)
(* How a client comes to a channel: PIpcClient::init                       *)
(* (src/ipc/PIpcClient.cpp) connects and sends a packet with its name,     *)
(* PIpcServer::socketCallback (src/ipc/PIpcServer.cpp) accepts, reads the  *)
(* name and makes the channel.  Both use the socket blocking, on their     *)
(* main loops; the server may end and a new one start at the same path.    *)
(*                                                                         *)
(* A connection is known by its client, and the bytes on it by their       *)
(* number: the first NameLen are the name, those behind it belong to the   *)
(* channel, which the client may use before the server has accepted.       *)
(***************************************************************************)
EXTENDS Integers, Sequences

CONSTANTS
  Clients,   \* the clients
  Nobody,    \* whom the server serves when it is in its main loop
  NameLen,   \* kClientNameLen
  Frames,    \* how many bytes a client writes to its channel
  Backlog    \* kMaxConnections

ASSUME HandshakeAssumption ==
  /\ Nobody \notin Clients
  /\ NameLen \in Nat \ {0} /\ Frames \in Nat /\ Backlog \in Nat \ {0}

VARIABLES
  phase,     \* where each client is in init
  suspended, \* the clients whose process is stopped
  written,   \* written[c]: how many bytes c has written to its connection
  read,      \* read[c]: how many of them the server has read
  open,      \* the connections whose server end is open
  listens,   \* the server's listening socket is open
  found,     \* the name in the file system leads to it
  backlog,   \* the connections that wait for accept
  serving,   \* the client whose name the server reads
  errno,     \* errno of the server's thread
  begins     \* begins[c]: with which byte the channel for c began, 0 before

client == <<phase, suspended, written>>
server == <<listens, found, backlog, serving, errno, begins>>
vars == <<client, read, open, server>>

Init ==
  /\ phase = [c \in Clients |-> "created"]
  /\ suspended = {}
  /\ written = [c \in Clients |-> 0] /\ read = [c \in Clients |-> 0]
  /\ open = {}
  /\ listens = FALSE /\ found = FALSE
  /\ backlog = <<>> /\ serving = Nobody
  /\ errno = "none"
  /\ begins = [c \in Clients |-> 0]

\* The bytes of c that lie in the socket.
Unread(c) == written[c] - read[c]

Goto(c, from, to) == phase[c] = from /\ phase' = [phase EXCEPT ![c] = to]
-----------------------------------------------------------------------------
(***************************************************************************)
(* The client: init, called from a source of the main loop.                *)
(***************************************************************************)
\* connect waits for room in the backlog.
Connect(c) ==
  /\ Goto(c, "created", "naming") /\ c \notin suspended
  /\ found /\ Len(backlog) < Backlog
  /\ backlog' = Append(backlog, c) /\ open' = open \cup {c}
  /\ UNCHANGED <<suspended, written, read, listens, found, serving, errno, begins>>

\* A signal interrupts a connect that waits: serverDisconnected.
ConnectInterrupted(c) ==
  /\ Goto(c, "created", "failed") /\ c \notin suspended
  /\ found /\ Len(backlog) = Backlog
  /\ UNCHANGED <<suspended, written, read, open, server>>

\* Faulty variant: nobody is told.
RefusedSilently(c) ==
  /\ phase[c] = "created" /\ c \notin suspended
  /\ ~found
  /\ UNCHANGED vars

\* The name does not exist or leads to a socket that is closed: serverDisconnected.
Refused(c) ==
  /\ Goto(c, "created", "failed") /\ c \notin suspended
  /\ ~found
  /\ UNCHANGED <<suspended, written, read, open, server>>

\* One call of send; behind the last byte of the name, serverConnected.
SendName(c, n) ==
  /\ phase[c] = "naming" /\ c \notin suspended /\ c \in open
  /\ written[c] + n <= NameLen
  /\ written' = [written EXCEPT ![c] = @ + n]
  /\ phase' = [phase EXCEPT ![c] = IF written'[c] = NameLen THEN "connected" ELSE @]
  /\ UNCHANGED <<suspended, read, open, server>>

\* The server has closed the connection: serverDisconnected, or SIGPIPE ends the
\* process.
NameFails(c) ==
  /\ c \notin suspended /\ c \notin open
  /\ Goto(c, "naming", "failed") \/ Goto(c, "naming", "ended")
  /\ UNCHANGED <<suspended, written, read, open, server>>

\* The channel writes.
SendFrame(c) ==
  /\ phase[c] = "connected" /\ c \notin suspended /\ c \in open
  /\ written[c] < NameLen + Frames
  /\ written' = [written EXCEPT ![c] = @ + 1]
  /\ UNCHANGED <<phase, suspended, read, open, server>>

\* The client's process ends, or closes its channel.
End(c) ==
  /\ phase[c] # "ended" /\ phase' = [phase EXCEPT ![c] = "ended"]
  /\ suspended' = suspended \ {c}
  /\ UNCHANGED <<written, read, open, server>>

Suspend(c) ==
  /\ phase[c] # "ended" /\ c \notin suspended /\ suspended' = suspended \cup {c}
  /\ UNCHANGED <<phase, written, read, open, server>>

Resume(c) ==
  /\ c \in suspended /\ suspended' = suspended \ {c}
  /\ UNCHANGED <<phase, written, read, open, server>>
-----------------------------------------------------------------------------
(***************************************************************************)
(* The server.                                                             *)
(***************************************************************************)
\* The constructor.
Start ==
  /\ ~listens /\ serving = Nobody
  /\ listens' = TRUE /\ found' = TRUE /\ errno' = "none"
  /\ UNCHANGED <<client, read, open, backlog, serving, begins>>

\* The destructor.  Who waits in the backlog is cut off; the channels stay.
Stop ==
  /\ listens /\ serving = Nobody
  /\ listens' = FALSE /\ found' = FALSE
  /\ open' = {c \in open : \A i \in DOMAIN backlog : backlog[i] # c}
  /\ backlog' = <<>>
  /\ UNCHANGED <<client, read, serving, errno, begins>>

\* The server's process ends.
Crash ==
  /\ listens /\ listens' = FALSE /\ found' = FALSE
  /\ open' = {} /\ backlog' = <<>> /\ serving' = Nobody
  /\ UNCHANGED <<client, read, errno, begins>>

\* The destructor of an older server unlinks its name, which leads to this server.
StopOlder ==
  /\ listens /\ found /\ found' = FALSE
  /\ UNCHANGED <<client, read, open, listens, backlog, serving, errno, begins>>

\* The main loop found the listening socket readable: accept.
Accept ==
  /\ listens /\ serving = Nobody /\ backlog # <<>>
  /\ serving' = Head(backlog) /\ backlog' = Tail(backlog)
  /\ UNCHANGED <<client, read, open, listens, found, errno, begins>>

\* Faulty variant: recv is asked for more than the rest of the name.
RecvMore(n) ==
  /\ serving # Nobody /\ n <= Unread(serving)
  /\ read' = [read EXCEPT ![serving] = @ + n]
  /\ IF read'[serving] < NameLen THEN UNCHANGED <<serving, begins>>
     ELSE serving' = Nobody /\ begins' = [begins EXCEPT ![serving] = read'[serving] + 1]
  /\ UNCHANGED <<client, open, listens, found, backlog, errno>>

\* One call of recv, for the rest of the name at most.  Behind the last byte of
\* the name the channel is made: clientConnected.
Recv(n) ==
  /\ serving # Nobody /\ n <= Unread(serving) /\ read[serving] + n <= NameLen
  /\ read' = [read EXCEPT ![serving] = @ + n]
  /\ IF read'[serving] < NameLen THEN UNCHANGED <<serving, begins>>
     ELSE serving' = Nobody /\ begins' = [begins EXCEPT ![serving] = read'[serving] + 1]
  /\ UNCHANGED <<client, open, listens, found, backlog, errno>>

\* Faulty variant: an interrupted recv is a failed one.
RecvInterruptedFails ==
  /\ serving # Nobody /\ Unread(serving) = 0 /\ phase[serving] # "ended"
  /\ errno' = "EINTR"
  /\ open' = open \ {serving} /\ serving' = Nobody
  /\ UNCHANGED <<client, read, listens, found, backlog, begins>>

\* Faulty variant: the count is moved by recv's result before that is looked at.
RecvInterruptedCounts ==
  /\ serving # Nobody /\ Unread(serving) = 0 /\ phase[serving] # "ended"
  /\ errno' = "EINTR"
  /\ read' = [read EXCEPT ![serving] = @ - 1]
  /\ UNCHANGED <<client, open, listens, found, backlog, serving, begins>>

\* A signal interrupts a recv that waits; it is called again.
RecvInterrupted ==
  /\ serving # Nobody /\ Unread(serving) = 0 /\ phase[serving] # "ended"
  /\ errno' = "EINTR"
  /\ UNCHANGED <<client, read, open, listens, found, backlog, serving, begins>>

\* Faulty variant: any 0 is read again.
RecvEndAgain ==
  /\ serving # Nobody /\ Unread(serving) = 0 /\ phase[serving] = "ended"
  /\ UNCHANGED vars

\* The client has ended within its name: recv returns 0 and leaves errno what an
\* earlier call has set it to.  With EAGAIN or EINTR in it recv is called again,
\* and again; otherwise the connection is closed.
RecvEnd ==
  /\ serving # Nobody /\ Unread(serving) = 0 /\ phase[serving] = "ended"
  /\ errno = "none"
  /\ open' = open \ {serving} /\ serving' = Nobody
  /\ UNCHANGED <<client, read, listens, found, backlog, errno, begins>>

\* A channel reads until EAGAIN.
ReadChannel(c) ==
  /\ serving = Nobody /\ c \in open /\ begins[c] > 0 /\ Unread(c) > 0
  /\ read' = [read EXCEPT ![c] = written[c]] /\ errno' = "EAGAIN"
  /\ UNCHANGED <<client, open, listens, found, backlog, serving, begins>>
-----------------------------------------------------------------------------
ClientStep(c) ==
  \/ Connect(c) \/ Refused(c) \/ NameFails(c)
  \/ \E n \in 1 .. NameLen : SendName(c, n)

ServerStep ==
  \/ Accept \/ RecvEnd
  \/ \E n \in 1 .. NameLen + Frames : Recv(n)

Next ==
  \/ \E c \in Clients :
       \/ ClientStep(c) \/ ConnectInterrupted(c) \/ SendFrame(c)
       \/ End(c) \/ Suspend(c) \/ Resume(c) \/ ReadChannel(c)
  \/ Start \/ Stop \/ Crash \/ StopOlder \/ RecvInterrupted \/ ServerStep

Spec == Init /\ [][Next]_vars

(***************************************************************************)
(* Processes are scheduled unless they are suspended, and calls that can   *)
(* return do.  Nobody has to start, stop, end or go on after a stop, and   *)
(* no signal has to come.                                                  *)
(***************************************************************************)
Fairness == WF_vars(ServerStep) /\ \A c \in Clients : WF_vars(ClientStep(c))

FairSpec == Spec /\ Fairness
-----------------------------------------------------------------------------
\* Every variable has its type.
TypeOK ==
  /\ phase \in [Clients -> {"created", "naming", "connected", "failed", "ended"}]
  /\ suspended \in SUBSET Clients /\ open \in SUBSET Clients
  /\ written \in [Clients -> 0 .. NameLen + Frames]
  /\ read \in [Clients -> 0 .. NameLen + Frames]
  /\ listens \in BOOLEAN /\ found \in BOOLEAN
  /\ backlog \in Seq(Clients) /\ Len(backlog) <= Backlog
  /\ serving \in Clients \cup {Nobody}
  /\ errno \in {"none", "EAGAIN", "EINTR"}
  /\ begins \in [Clients -> Nat]

\* The server's channel begins at the first byte behind the name, also if the
\* client has used its own channel before, and whatever pieces the name came in;
\* the client's channel is made when the name is written and not before.
ChannelBegins ==
  \A c \in Clients :
    /\ begins[c] \in {0, NameLen + 1}
    /\ phase[c] = "connected" => written[c] >= NameLen

\* The server closes a connection whose client is alive only when it ends itself:
\* neither a signal nor a name in pieces makes it give up.
NotCutOff ==
  [][\A c \in open \ open' : phase[c] = "ended" \/ ~listens']_vars

\* recv has met the end of the stream with an errno it did not set.
Spinning ==
  /\ serving # Nobody /\ Unread(serving) = 0 /\ phase[serving] = "ended"
  /\ errno # "none"

\* The server's main loop is stuck in the callback.
Stuck == Spinning \/ serving \in suspended

\* A client hears serverConnected or serverDisconnected in the end, also when the
\* backlog is full, unless the server's main loop is stuck.
EveryClientHears ==
  \A c \in Clients :
    phase[c] = "created" ~> phase[c] \in {"connected", "failed", "ended"}
                            \/ Stuck \/ c \in suspended

\* A client that was told serverConnected comes to a channel at the server, unless
\* one of the two ends or the server's main loop is stuck.
EveryClientIsServed ==
  \A c \in Clients :
    phase[c] = "connected" ~> begins[c] > 0 \/ phase[c] = "ended" \/ c \notin open \/ Stuck
=============================================================================
