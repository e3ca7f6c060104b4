------------------------------- MODULE MCAbi -------------------------------
(* Abi for TLC: headers of the two known versions and of a later one, and   *)
(* errors with no detail and with two.                                      *)
EXTENDS Abi

MCVersion == {V100, V110, V110 + 1000}
MCDetails == { << >>, << 1, 2 >> }
=============================================================================
