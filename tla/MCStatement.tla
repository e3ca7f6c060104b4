---------------------------- MODULE MCStatement ----------------------------
(***************************************************************************)
(* Statement on one query of each class, for TLC.  The class of a query is *)
(* what SqlRouting makes of its text.                                      *)
(***************************************************************************)
EXTENDS Statement, SqlRouting

CONSTANTS select, delete, insert

MCQuery == {select, delete, insert}

\* A SELECT of the literal 'DELETE', a DELETE after a comment and with the literal
\* 'RETURNING', an INSERT with a RETURNING clause at the end of a comment's line.
MCText == [q \in MCQuery |->
  CASE q = select -> << "word", "space", "single", "write", "single" >>
    [] q = delete -> << "open", "word", "close", "newline", "write", "space", "word",
                        "single", "returning", "single", "op" >>
    [] q = insert -> << "write", "space", "word", "line", "word", "newline",
                        "returning", "space", "word" >>]

MCClass == [q \in MCQuery |-> ClassOf(MCText[q])]
MCMode == {"append", "replace"}
=============================================================================
