---------------------------- MODULE OptionBuffer ---------------------------
(***************************************************************************)
(* Reading an option whose length is not known: the GetOption and          *)
(* GetOptionBytes functions with exportStringOption and exportBytesOption  *)
(* (go/pkg/gizmosql/driver.go), and the client that calls them as adbc.h   *)
(* says: it offers a buffer, is told the length needed, offers that much.  *)
(* Between two calls the option may get another value.                     *)
(*                                                                         *)
(* A value is a sequence of characters.  Terminator ends a string in C.    *)
(***************************************************************************)
EXTENDS Naturals, Sequences

CONSTANTS
  Values,     \* the values of the option
  Terminator, \* the character '\0'
  Junk,       \* what the client's buffer holds before
  MaxSet      \* bound: how often the option is set

ASSUME OptionAssumption ==
  /\ Values # {} /\ << >> \in Values
  /\ \A v \in Values : v \in Seq(Nat)
  /\ Terminator \notin Nat /\ Junk \notin Nat \cup {Terminator}
  /\ MaxSet \in Nat

VARIABLES
  option, \* the value of the option
  sets,   \* how often it has been set
  reader, \* "idle", or what is being read: "string" or "bytes"
  buffer, \* the client's buffer
  length, \* *length, as the client passes it
  tries,  \* history: calls that did not fit, since the option was last set
  answer  \* the value the client last took from its buffer

optionVars == << option, sets, reader, buffer, length, tries, answer >>

NewBuffer(n) == [i \in 1 .. n |-> Junk]

OptionInit ==
  /\ option \in Values
  /\ sets = 0
  /\ reader = "idle"
  /\ buffer = << >>
  /\ length = 0
  /\ tries = 0
  /\ answer = << >>

-----------------------------------------------------------------------------
(***************************************************************************)
(* copy(sink, val) and its like: the first characters of a buffer.         *)
(***************************************************************************)
Copied(val, sink) ==
  [i \in DOMAIN sink |-> IF i <= Len(val) THEN val[i] ELSE sink[i]]

\* lenWithTerminator
StringLength(val) == Len(val) + 1

\* What the functions leave in the buffer and in *length.
ExportString(val, out, n) ==
  [buffer |-> IF StringLength(val) <= n
                THEN Copied(Append(val, Terminator), out) ELSE out,
   length |-> StringLength(val)]

\* Faulty: the client is told what fits, not what is needed.
AtMost(val, n) == IF Len(val) <= n THEN Len(val) ELSE n

\* Faulty: += for =.
Accumulates(val, n) == n + Len(val)

BytesLength(val, n) == Len(val)

ExportBytes(val, out, n) ==
  [buffer |-> IF Len(val) <= n THEN Copied(val, out) ELSE out,
   length |-> BytesLength(val, n)]

ExportOption(as, val, out, n) ==
  IF as = "string" THEN ExportString(val, out, n) ELSE ExportBytes(val, out, n)

\* What a C client sees in its buffer: a string ends before its terminator, and
\* one without a terminator does not end in the buffer.
Ends(sink, n) == \E i \in 1 .. n : sink[i] = Terminator

StringIn(sink, n) ==
  IF Ends(sink, n)
    THEN SubSeq(sink, 1, (CHOOSE i \in 1 .. n :
                            /\ sink[i] = Terminator
                            /\ \A j \in 1 .. i - 1 : sink[j] # Terminator) - 1)
    ELSE Append(sink, Junk)

SeenIn(as, sink, n) ==
  IF as = "string" THEN StringIn(sink, n) ELSE SubSeq(sink, 1, n)

-----------------------------------------------------------------------------
\* The client begins to read, with a buffer of a size of its choice.
ClientReads(as, n) ==
  /\ reader = "idle"
  /\ reader' = as
  /\ buffer' = NewBuffer(n)
  /\ length' = n
  /\ tries' = 0
  /\ UNCHANGED << option, sets, answer >>

\* GizmoSQL...GetOption, GizmoSQL...GetOptionBytes.  The client takes the value
\* if it fitted, and otherwise will call again with a buffer of the length it
\* was told.
GetOption ==
  LET x == ExportOption(reader, option, buffer, length) IN
  /\ reader # "idle"
  /\ IF x.length <= length
       THEN /\ reader' = "idle"
            /\ buffer' = << >>
            /\ length' = 0
            /\ tries' = 0
            /\ answer' = SeenIn(reader, x.buffer, x.length)
       ELSE /\ buffer' = NewBuffer(x.length)
            /\ length' = x.length
            /\ tries' = tries + 1
            /\ UNCHANGED << reader, answer >>
  /\ UNCHANGED << option, sets >>

\* The option is not set, or cannot be read: an error, and no value.
GetOptionFails ==
  /\ reader # "idle"
  /\ reader' = "idle"
  /\ buffer' = << >>
  /\ length' = 0
  /\ tries' = 0
  /\ UNCHANGED << option, sets, answer >>

\* SetOption, or a change of state the option reports.
SetOption(v) ==
  /\ sets < MaxSet
  /\ sets' = sets + 1
  /\ option' = v
  /\ tries' = 0
  /\ UNCHANGED << reader, buffer, length, answer >>

OptionNext ==
  \/ \E as \in {"string", "bytes"}, v \in Values : ClientReads(as, Len(v))
  \/ GetOption
  \/ GetOptionFails
  \/ \E v \in Values : SetOption(v)

OptionSpec == OptionInit /\ [][OptionNext]_optionVars

-----------------------------------------------------------------------------
(***************************************************************************)
(* Properties.                                                             *)
(***************************************************************************)

\* Two or more calls, with the option set between them, read like one: what the
\* client takes is the whole value that the option has at that moment, whatever
\* the lengths it was told before.
ReadsAreAtomic == [][answer' # answer => answer' = option]_optionVars

\* The length a client is told suffices: only an option that has been set since
\* can make it call a third time.
OneRetry == tries <= 1
=============================================================================
