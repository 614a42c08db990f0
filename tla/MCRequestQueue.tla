--------------------------- MODULE MCRequestQueue ---------------------------
(* Finite instances of RequestQueue: see the runs queue_*.                  *)
EXTENDS QueueRefinement, TLC

\* Selections, plans and sessions are only compared for equality.
Symmetric ==
  UNION {Permutations(S) : S \in {Scopes, Selections, Plans, Sessions}}
=============================================================================
