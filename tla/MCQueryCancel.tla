--------------------------- MODULE MCQueryCancel ---------------------------
(***************************************************************************)
(* QueryCancel for TLC.  Statements are interchangeable and so are         *)
(* helpers; executions are not (they are ordered by their numbers).        *)
(***************************************************************************)
EXTENDS QueryCancel, TLC

Symmetry == Permutations(Stmt) \cup Permutations(Helper)
=============================================================================
