----------------------------- MODULE MCHandles -----------------------------
(***************************************************************************)
(* Handles for TLC.  Statements are interchangeable, and so are streams.   *)
(* Contexts are not: a call takes a fresh one by CHOOSE.                   *)
(***************************************************************************)
EXTENDS Handles, TLC

Symmetry == Permutations(Stmt) \cup Permutations(Stream)
=============================================================================
