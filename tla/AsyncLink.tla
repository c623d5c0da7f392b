------------------------------ MODULE AsyncLink ------------------------------
(***************************************************************************)
(* What a pair of channels promises about asynchronous messages: in each   *)
(* direction a first-in first-out queue that neither invents, repeats nor  *)
(* reorders, and that may only lose what had not been delivered when one   *)
(* of the two ends went down for good.                                     *)
(***************************************************************************)
EXTENDS Naturals, SequencesExt

CONSTANTS End1, End2   \* the two ends of the link

VARIABLES
  queue,  \* queue[e]: accepted by the link and not yet delivered to end e
  got,    \* got[e]: delivered to end e
  up      \* up[e]: end e still has its side of the connection

vars == <<queue, got, up>>

Ends == {End1, End2}
Other(e) == IF e = End1 THEN End2 ELSE End1

Init ==
  /\ queue = [e \in Ends |-> <<>>]
  /\ got = [e \in Ends |-> <<>>]
  /\ up = [e \in Ends |-> TRUE]

\* New messages for end e are accepted, behind those already accepted.
Accept(e) ==
  /\ up[Other(e)]
  /\ IsPrefix(queue[e], queue'[e]) /\ queue'[e] # queue[e]
  /\ IsInjective(got[e] \o queue'[e])
  /\ queue'[Other(e)] = queue[Other(e)]
  /\ UNCHANGED <<got, up>>

\* The oldest message for end e is delivered, while e is connected.
Deliver(e) ==
  /\ up[e] /\ queue[e] # <<>>
  /\ queue' = [queue EXCEPT ![e] = Tail(@)]
  /\ got' = [got EXCEPT ![e] = Append(@, Head(queue[e]))]
  /\ UNCHANGED up

\* End e goes down: nothing more reaches it, and the newest messages it sent
\* may be lost.
Close(e) ==
  /\ up[e] /\ up' = [up EXCEPT ![e] = FALSE]
  /\ queue'[e] = <<>> /\ IsPrefix(queue'[Other(e)], queue[Other(e)])
  /\ UNCHANGED got

Next == \E e \in Ends : Accept(e) \/ Deliver(e) \/ Close(e)

Spec == Init /\ [][Next]_vars
=============================================================================
