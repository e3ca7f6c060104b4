----------------------------- MODULE SqlReader -----------------------------
(***************************************************************************)
(* SqlRouting against a reference: the server's lexer, which reads a text  *)
(* once, from left to right, while the client types it.  Comments separate *)
(* words, and nothing in a literal, a quoted name or a comment is one.     *)
(*                                                                         *)
(* `plain` says which texts the driver's regular expressions are good for. *)
(***************************************************************************)
EXTENDS SqlRouting

CONSTANT MaxLength \* of a text

ASSUME ReaderAssumption == MaxLength \in Nat

VARIABLES
  text,      \* what has been typed
  mode,      \* what the reader is in: "text", "open", "line" or a quote
  word,      \* the word in progress, "none" without one
  first,     \* the first word or symbol, "none" before it is complete
  returning, \* the word RETURNING has been read
  touching,  \* nothing but "(" and ";" since the first word, and no space
  glued,     \* a block comment since the word in progress
  plain      \* see above

vars == << text, mode, word, first, returning, touching, glued, plain >>

Init ==
  /\ text = << >>
  /\ mode = "text"
  /\ word = "none"
  /\ first = "none"
  /\ returning = FALSE
  /\ touching = TRUE
  /\ glued = FALSE
  /\ plain = TRUE

-----------------------------------------------------------------------------
(***************************************************************************)
(* The reader.                                                             *)
(***************************************************************************)

\* The word in progress is complete, if there is one.
WordEnds ==
  /\ word' = "none"
  /\ returning' = (returning \/ word = "returning")

First == IF first = "none" THEN word ELSE first

\* The first word is a keyword, and what follows touches it.
Touches == First = "write" /\ touching

ReadsSpace(a) ==
  /\ a \in Space
  /\ mode' = "text"
  /\ WordEnds
  /\ first' = First
  /\ touching' = (First = "none")
  /\ glued' = FALSE
  /\ UNCHANGED plain

\* The driver joins two words that only a comment separates, and takes what
\* touches the keyword for a part of it.
ReadsWord(a) ==
  /\ a \in Word
  /\ IF word = "none" \/ glued
       THEN /\ word' = a
            /\ first' = First
            /\ returning' = (returning \/ word = "returning")
       ELSE /\ word' = "word"
            /\ UNCHANGED << first, returning >>
  /\ plain' = IF word = "none" THEN ~Touches ELSE ~glued
  /\ glued' = FALSE
  /\ UNCHANGED << mode, touching >>

\* A text that begins with "(" or ";" is not for the driver.
ReadsOp(a) ==
  /\ a = "op"
  /\ WordEnds
  /\ first' = IF First = "none" THEN "word" ELSE First
  /\ plain' = (First # "none")
  /\ glued' = FALSE
  /\ UNCHANGED << mode, touching >>

\* A literal, a quoted name, or (after a stray end of a comment) nothing sensible.
ReadsSymbol(a) ==
  /\ a \in Quote \cup {"close"}
  /\ mode' = IF a \in Quote THEN a ELSE "text"
  /\ WordEnds
  /\ first' = IF First = "none" THEN "word" ELSE First
  /\ plain' = ~Touches
  /\ glued' = FALSE
  /\ UNCHANGED touching

ReadsComment(a) ==
  /\ a \in {"open", "line"}
  /\ mode' = a
  /\ glued' = (glued \/ word # "none")
  /\ UNCHANGED << word, first, returning, touching, plain >>

InText(a) ==
  /\ mode = "text"
  /\ ReadsSpace(a) \/ ReadsWord(a) \/ ReadsOp(a) \/ ReadsSymbol(a) \/ ReadsComment(a)

\* The driver does not know that a comment mark in a literal or in a quoted name
\* is none, nor, in a quoted name, that a single quote is no quote.
InLiteral(a) ==
  /\ mode \in Quote
  /\ mode' = IF a = mode THEN "text" ELSE mode
  /\ plain' = (a \notin {"open", "line"} /\ ~(mode = "double" /\ a = "single"))
  /\ UNCHANGED << word, first, returning, touching, glued >>

\* Nested comments are not for the driver.
InBlock(a) ==
  /\ mode = "open"
  /\ mode' = IF a = "close" THEN "text" ELSE mode
  /\ plain' = (a # "open")
  /\ UNCHANGED << word, first, returning, touching, glued >>

InLine(a) ==
  /\ mode = "line"
  /\ \/ a = "newline" /\ ReadsSpace(a)
     \/ /\ a # "newline"
        /\ plain' = (a # "open")
        /\ UNCHANGED << mode, word, first, returning, touching, glued >>

Read(a) ==
  /\ plain
  /\ Len(text) < MaxLength
  /\ text' = Append(text, a)
  /\ InText(a) \/ InLiteral(a) \/ InBlock(a) \/ InLine(a)

Next == \E a \in Atom : Read(a)

Spec == Init /\ [][Next]_vars

-----------------------------------------------------------------------------
(***************************************************************************)
(* Properties.                                                             *)
(***************************************************************************)

\* What the server would do with the text, were it to end here.
Meaning ==
  CASE returning \/ word = "returning"    -> "returning"
    [] ~(returning \/ word = "returning") -> IF First = "write" THEN "dml" ELSE "select"

Complete == mode \in {"text", "line"} /\ First # "none"

\* A complete text is routed by what it means to the server, wherever it has
\* comments, literals and quoted names: a write is never left to a reader nor
\* its rows thrown away, and a SELECT is never run as an update.
RoutedAsMeant == plain /\ Complete => ClassOf(text) = Meaning

\* Only a text without a word or a symbol, that has a space other than ASCII's
\* outside of its comments, makes fields[0] panic.
PanicsOnBlanks == ClassOf(text) = "panic" => First = "none" /\ "nbsp" \in ToSet(text)
=============================================================================
