--------------------------- MODULE MCOptionBuffer --------------------------
(* OptionBuffer with an empty, a short and two longer values.               *)
EXTENDS OptionBuffer

MCValues == { << >>, << 1 >>, << 1, 2, 3 >>, << 3, 2, 1 >> }
=============================================================================
