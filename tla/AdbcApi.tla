------------------------------ MODULE AdbcApi ------------------------------
(***************************************************************************)
(* What adbc.h promises of the life of a database, its connections, its    *)
(* statements and the result sets they return, whatever driver is behind.  *)
(*                                                                         *)
(* A call that fails has its effect on the structs or none: the status is  *)
(* no part of this module.  A client may call in any order; the one rule   *)
(* it has to keep is that calls do not overlap.                            *)
(***************************************************************************)
CONSTANTS
  DB,     \* the AdbcDatabase struct
  Conn,   \* the AdbcConnection structs
  Stmt,   \* the AdbcStatement structs
  Stream, \* the ArrowArrayStream structs
  None    \* NULL

VARIABLES
  phase,  \* free (private_data is NULL), new (allocated), ready (initialized)
  source, \* the handle each exported stream comes from
  valid   \* the streams whose result set has not been invalidated

vars == << phase, source, valid >>

Init ==
  /\ phase = [h \in Conn \cup Stmt \cup {DB} |-> "free"]
  /\ source = [x \in Stream |-> None]
  /\ valid = {}

Move(h, from, to) == phase[h] = from /\ phase' = [phase EXCEPT ![h] = to]

From(h) == {x \in Stream : source[x] = h}

\* A call on h may end result sets of h, never those of another handle.
MayEnd(h) ==
  /\ \E gone \in SUBSET From(h) : valid' = valid \ gone
  /\ UNCHANGED source

Destroy(h) ==
  /\ phase[h] # "free"
  /\ phase' = [phase EXCEPT ![h] = "free"]
  /\ MayEnd(h)

-----------------------------------------------------------------------------
DatabaseNew == Move(DB, "free", "new") /\ UNCHANGED << source, valid >>

DatabaseInit == Move(DB, "new", "ready") /\ UNCHANGED << source, valid >>

DatabaseRelease == Destroy(DB)

ConnectionNew(c) == Move(c, "free", "new") /\ UNCHANGED << source, valid >>

ConnectionInit(c) ==
  /\ phase[DB] = "ready"
  /\ Move(c, "new", "ready")
  /\ UNCHANGED << source, valid >>

ConnectionRelease(c) == Destroy(c)

ConnectionCancel(c) == phase[c] = "ready" /\ MayEnd(c) /\ UNCHANGED phase

\* GetTableSchema, Commit and Rollback.
ConnectionCalls(c) == phase[c] = "ready" /\ MayEnd(c) /\ UNCHANGED phase

\* GetInfo and the other metadata functions, and ReadPartition.
ConnectionReads(c, x) ==
  /\ phase[c] = "ready"
  /\ source[x] = None
  /\ source' = [source EXCEPT ![x] = c]
  /\ \E gone \in SUBSET From(c) : valid' = (valid \ gone) \cup {x}
  /\ UNCHANGED phase

StatementNew(s) ==
  /\ \E c \in Conn : phase[c] = "ready"
  /\ Move(s, "free", "ready")
  /\ UNCHANGED << source, valid >>

StatementRelease(s) == Destroy(s)

StatementCancel(s) == phase[s] = "ready" /\ MayEnd(s) /\ UNCHANGED phase

\* "This invalidates any prior result sets", also when it fails.
StatementCalls(s) ==
  /\ phase[s] = "ready"
  /\ valid' = valid \ From(s)
  /\ UNCHANGED << phase, source >>

StatementExecuteQuery(s, x) ==
  /\ phase[s] = "ready"
  /\ source[x] = None
  /\ source' = [source EXCEPT ![x] = s]
  /\ valid' = (valid \ From(s)) \cup {x}
  /\ UNCHANGED phase

StreamRelease(x) ==
  /\ source[x] # None
  /\ source' = [source EXCEPT ![x] = None]
  /\ valid' = valid \ {x}
  /\ UNCHANGED phase

-----------------------------------------------------------------------------
Database == DatabaseNew \/ DatabaseInit \/ DatabaseRelease

Connection(c) ==
  \/ ConnectionNew(c) \/ ConnectionInit(c) \/ ConnectionRelease(c)
  \/ ConnectionCancel(c) \/ ConnectionCalls(c)
  \/ \E x \in Stream : ConnectionReads(c, x)

Statement(s) ==
  \/ StatementNew(s) \/ StatementRelease(s)
  \/ StatementCancel(s) \/ StatementCalls(s)
  \/ \E x \in Stream : StatementExecuteQuery(s, x)

Next ==
  \/ Database
  \/ \E c \in Conn : Connection(c)
  \/ \E s \in Stmt : Statement(s)
  \/ \E x \in Stream : StreamRelease(x)

Spec == Init /\ [][Next]_vars
=============================================================================
