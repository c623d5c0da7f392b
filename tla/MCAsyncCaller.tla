--------------------------- MODULE MCAsyncCaller ---------------------------
(***************************************************************************)
(* AsyncCaller for TLC: two other threads that are interchangeable.        *)
(***************************************************************************)
EXTENDS AsyncCaller, TLC

Alike == Permutations(Others)
=============================================================================
