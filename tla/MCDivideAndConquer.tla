------------------------- MODULE MCDivideAndConquer -------------------------
(* Instances of DivideAndConquer for TLC.                                   *)
EXTENDS DivideAndConquer, TLC

\* Rows differ in nothing but themselves.
RowSymmetry == Permutations(Row)
=============================================================================
