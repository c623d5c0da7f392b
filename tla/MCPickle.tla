------------------------------ MODULE MCPickle ------------------------------
(***************************************************************************)
(* Pickle for TLC: messages of every type and of the sizes the macros      *)
(* have, which the two processes may take for one another.                 *)
(***************************************************************************)
EXTENDS Pickle

Async(send) == [sync |-> FALSE, send |-> send, reply |-> <<>>]
Sync(send, results) == [sync |-> TRUE, send |-> send, reply |-> results]

MCDefinitions ==
  {Async(send) : send \in UNION {[1 .. n -> Types] : n \in 0 .. 2}} \cup
  { Async(<<"char", "string", "int32">>),
    Async(<<"bool", "double", "int16", "string", "char", "int64", "int64">>),
    Sync(<<>>, <<"double", "string">>),
    Sync(<<"string">>, <<"char", "string", "int16">>),
    Sync(<<"int32", "string">>, <<>>),
    Sync(<<"int64", "int32", "bool", "char">>, <<"string">>) }

\* A message of eight arguments.
Eight ==
  { Async(<<"int32", "char", "bool", "int16", "string", "int64", "int32", "int32">>) }
=============================================================================
