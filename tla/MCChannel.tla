----------------------------- MODULE MCChannel -----------------------------
(***************************************************************************)
(* Small instances of Channel for TLC: what the applications send and how  *)
(* much of it, per run.                                                    *)
(***************************************************************************)
EXTENDS ChannelProperties

\* What the applications send.
BothCall        == [e \in Ends |-> IF e = Client THEN {"async", "suspend"}
                                                 ELSE {"unblock", "sync"}]
PutOff          == [e \in Ends |-> IF e = Client THEN {"async", "suspend"}
                                                 ELSE {"unblock", "deferred"}]
ThreadAndCall   == [e \in Ends |-> IF e = Client THEN {"async", "thread", "sync"}
                                                 ELSE {"async"}]

\* How many messages.
Two    == [e \in Ends |-> 2]
TwoOne == [e \in Ends |-> IF e = Client THEN 2 ELSE 1]
Uneven == [e \in Ends |-> IF e = Client THEN 3 ELSE 2]
=============================================================================
