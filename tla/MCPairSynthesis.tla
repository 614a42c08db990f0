--------------------------- MODULE MCPairSynthesis ---------------------------
(* Finite instances of PairSynthesis: see the runs pair_*.                  *)
EXTENDS PairSynthesis, TLC

TwoAndOne == [evidence |-> 2, theses |-> 1]
OneEach   == [evidence |-> 1, theses |-> 1]

Symmetric == Permutations(Workers)
=============================================================================
