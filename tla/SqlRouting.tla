----------------------------- MODULE SqlRouting -----------------------------
(***************************************************************************)
(* How the driver tells SQL that writes from SQL that reads:               *)
(* go/gizmosql/sqlrouting.go, its copy in dbapi.py, and the routing of     *)
(* ExecuteQuery.                                                           *)
(*                                                                         *)
(* A text is a sequence of atoms.  Word atoms that touch are one word.     *)
(***************************************************************************)
EXTENDS Naturals, Sequences, SequencesExt

Space == {"space", "newline", "nbsp"}
Quote == {"single", "double"}
Atom  == Space \cup Quote \cup
  { "write",            \* a keyword of ddlDmlKeywords
    "returning",        \* the keyword RETURNING
    "word",             \* any other word, or a part of one
    "op",               \* ( or ;
    "open", "close",    \* the two ends of a block comment
    "line" }            \* two dashes

Word == {"write", "returning", "word"}

\* What a regular expression matches: an opener, the text up to the next closer,
\* and the closer.  ReplaceAllString leaves `leave` of it.
BlockComment == [opener |-> "open", closer |-> "close",   leave |-> << >>]
LineComment  == [opener |-> "line", closer |-> "newline", leave |-> << "newline" >>]
Literal(q)   == [opener |-> q,      closer |-> q,         leave |-> << q, q >>]

\* After each atom: whether there was an opener without its closer yet, what has
\* been replaced so far, and the text since that opener.
Start == [in |-> FALSE, out |-> << >>, held |-> << >>]

Advance(p, s, a) ==
  CASE s.in  /\ a = p.closer -> [in |-> FALSE, out |-> s.out \o p.leave, held |-> << >>]
    [] s.in  /\ a # p.closer -> [s EXCEPT !.held = Append(@, a)]
    [] ~s.in /\ a = p.opener -> [s EXCEPT !.in = TRUE, !.held = << a >>]
    [] ~s.in /\ a # p.opener -> [s EXCEPT !.out = Append(@, a)]

Scan(p, text) ==
  LET after[n \in 0 .. Len(text)] ==
        IF n = 0 THEN Start ELSE Advance(p, after[n - 1], text[n])
  IN  after[Len(text)]

\* An opener with no closer stays.  (A doubled quote in a literal ends one literal
\* and begins another.)
Replace(p, text) == Scan(p, text).out \o Scan(p, text).held

\* A line comment ends with its line or with the text.
WithoutLine(text) == Front(Replace(LineComment, Append(text, "newline")))

WithoutBlock(text) == Replace(BlockComment, text)

\* Faulty: line comments go first.
LineFirst(text) == WithoutBlock(WithoutLine(text))

\* stripSQLComments, but for the leading space
StripSQLComments(text) == WithoutLine(WithoutBlock(text))

BlankLiterals(text) == Replace(Literal("double"), Replace(Literal("single"), text))

HasReturningClause(text) ==
  LET t == BlankLiterals(text) IN
  \E i \in DOMAIN t :
    /\ t[i] = "returning"
    /\ i > 1 => t[i - 1] \notin Word
    /\ i < Len(t) => t[i + 1] \notin Word

\* Faulty: only blanks are trimmed.
TrimmedAtoms(text) == {"space"}

\* strings.TrimLeft: what it takes from the front of a text.
Trimmed(text) == {"space", "newline"}

Consists(text, atoms) == \A i \in DOMAIN text : text[i] \in atoms

\* strings.Fields has no field for fields[0].
Panics(text) == Consists(text, Space) /\ ~Consists(text, Trimmed(text))

\* The first field, but for the "(" and ";" at its end, is a keyword.
FirstWordWrites(text) ==
  \E i \in DOMAIN text :
    /\ text[i] = "write"
    /\ Consists(SubSeq(text, 1, i - 1), Space)
    /\ \E j \in i .. Len(text) :
         /\ Consists(SubSeq(text, i + 1, j), {"op"})
         /\ j < Len(text) => text[j + 1] \in Space

\* isDDLDML, and the class ExecuteQuery routes by: "dml" runs by DoPut, "returning"
\* is materialized, "select" is left to its reader.
ClassOf(sql) ==
  LET text == StripSQLComments(sql) IN
  CASE Panics(text)             -> "panic"
    [] HasReturningClause(text) -> "returning"
    [] ~Panics(text) /\ ~HasReturningClause(text) ->
         IF FirstWordWrites(text) THEN "dml" ELSE "select"
=============================================================================
