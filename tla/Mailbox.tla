------------------------------ MODULE Mailbox ------------------------------
(***************************************************************************)
(* What the asynchronous caller and its queue promise the channel: a box   *)
(* that any thread puts messages into and that the main thread empties in  *)
(* the order they went in, all of them in the end.                         *)
(***************************************************************************)
EXTENDS Sequences

CONSTANT Letters   \* the messages

VARIABLES
  box,  \* put in and not yet taken
  out   \* taken, in order

vars == <<box, out>>

Init == box = <<>> /\ out = <<>>

\* A new message goes in behind the others.
Put(m) ==
  /\ \A i \in DOMAIN (out \o box) : (out \o box)[i] # m
  /\ box' = Append(box, m)
  /\ UNCHANGED out

Take ==
  /\ box # <<>>
  /\ out' = Append(out, Head(box))
  /\ box' = Tail(box)

Next == Take \/ \E m \in Letters : Put(m)

SafeSpec == Init /\ [][Next]_vars

Spec == SafeSpec /\ WF_vars(Take)
=============================================================================
