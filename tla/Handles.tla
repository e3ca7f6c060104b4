------------------------------ MODULE Handles ------------------------------
(***************************************************************************)
(* The handles of the C shim, go/pkg/gizmosql/driver.go: one database, its *)
(* connections and statements, and the ArrowArrayStreams they export, from *)
(* allocation to release, in any order a C client chooses.                 *)
(*                                                                         *)
(* The client serialises its calls (adbc.h), so an exported function is    *)
(* one action; CallContext is about those that may overlap.  Each upstream *)
(* call inside it returns, fails or panics.  A panic is recovered, poisons *)
(* the driver and leaves what had been done until then.  A function whose  *)
(* check fails changes nothing and is no action.                           *)
(*                                                                         *)
(* A struct of the client is a model value, and so is the Go object behind *)
(* its private_data.  Context names are reused once nobody holds them.     *)
(***************************************************************************)
EXTENDS Naturals

CONSTANTS
  Conn,    \* the client's AdbcConnection structs
  Stmt,    \* its AdbcStatement structs
  Stream,  \* its ArrowArrayStream structs
  Option,  \* connection options
  Context, \* Go contexts
  None     \* NULL

DB     == "db"
Caller == Conn \cup Stmt \* handles with a cancellableContext
Handle == Caller \cup {DB}

ASSUME HandlesAssumption ==
  /\ Conn \cap Stmt = {} /\ Handle \cap Stream = {}
  /\ DB \notin Caller
  /\ None \notin Handle \cup Context

VARIABLES
  allocated, \* structs whose private_data is set
  table,     \* the cgo handle table: objects not yet deleted from it
  open,      \* handles whose db, cnxn or stmt field is set
  upstream,  \* upstream objects that have been made and not closed
  initArgs,  \* options collected before Init
  applied,   \* options the upstream connection has accepted
  asked,     \* history: options set with success since ConnectionNew
  inited,    \* history: connections whose Init has returned OK
  cancel,    \* cancellableContext.cancel, as the context it cancels
  live,      \* contexts not cancelled
  owner,     \* the handle each open stream comes from
  using,     \* the context each open stream depends on
  refs,      \* references to each stream's record reader
  poisoned   \* globalPoison

handles  == << allocated, table, open, upstream >>
options  == << initArgs, applied, asked, inited >>
contexts == << cancel, live >>
streams  == << owner, using, refs >>
vars     == << handles, options, contexts, streams, poisoned >>

Init ==
  /\ allocated = {}
  /\ table = {}
  /\ open = {}
  /\ upstream = {}
  /\ initArgs = [c \in Conn |-> {}]
  /\ applied = [c \in Conn |-> {}]
  /\ asked = [c \in Conn |-> {}]
  /\ inited = {}
  /\ cancel = [h \in Caller |-> None]
  /\ live = {}
  /\ owner = [x \in Stream |-> None]
  /\ using = [x \in Stream |-> None]
  /\ refs = [x \in Stream |-> 0]
  /\ poisoned = FALSE

Outcome == {"ok", "error", "panic"}

\* The deferred recover of every exported function.
Poison(r) == poisoned' = (poisoned \/ r = "panic")

\* checkDBAlloc, checkConnAlloc, checkStmtAlloc ...
Allocated(h) == ~poisoned /\ h \in allocated

\* ... and checkDBInit, checkConnInit, checkStmtInit.
Initialized(h) == Allocated(h) /\ h \in open

-----------------------------------------------------------------------------
(***************************************************************************)
(* Contexts.                                                               *)
(***************************************************************************)

CancelContext(h) ==
  /\ live' = live \ {cancel[h]}
  /\ cancel' = [cancel EXCEPT ![h] = None]

Unused == Context \ (live \cup {using[x] : x \in Stream})
Fresh  == CHOOSE g \in Unused : TRUE

\* Faulty: the previous context is left alone.
KeepsPrevious(h, g) == live' = live \cup {g} /\ cancel' = [cancel EXCEPT ![h] = g]

NewContext(h, g) ==
  /\ live' = (live \ {cancel[h]}) \cup {g}
  /\ cancel' = [cancel EXCEPT ![h] = g]

\* A call on a fresh context; only one outcome hands out a reader.
CallOn(h) ==
  /\ Initialized(h)
  /\ Unused # {}
  /\ NewContext(h, Fresh)
  /\ UNCHANGED << handles, options >>

-----------------------------------------------------------------------------
(***************************************************************************)
(* Streams.                                                                *)
(***************************************************************************)

\* Faulty: the reader is exported without a reference of its own.
NeverRetained(n) == n

Retained(n) == n + 1

\* The reader comes with one reference, which the deferred Release of the
\* exported function drops; exportRecordReader takes one for the stream.
ExportRecordReader(h, x) ==
  /\ owner' = [owner EXCEPT ![x] = h]
  /\ using' = [using EXCEPT ![x] = cancel'[h]]
  /\ table' = table \cup {x}
  /\ refs' = [refs EXCEPT ![x] = Retained(1) - 1]

ReadOn(h, x, r) ==
  /\ owner[x] = None
  /\ Initialized(h)
  /\ Unused # {}
  /\ NewContext(h, Fresh)
  /\ IF r = "ok" THEN ExportRecordReader(h, x) ELSE UNCHANGED << table, streams >>
  /\ Poison(r)
  /\ UNCHANGED << allocated, open, upstream, options >>

\* The stream callbacks do not look at globalPoison.
StreamRelease(x) ==
  /\ owner[x] # None
  /\ owner' = [owner EXCEPT ![x] = None]
  /\ using' = [using EXCEPT ![x] = None]
  /\ table' = table \ {x}
  /\ refs' = [refs EXCEPT ![x] = @ - 1]
  /\ UNCHANGED << allocated, open, upstream, options, contexts, poisoned >>

-----------------------------------------------------------------------------
(***************************************************************************)
(* The database.  Its options are a map handed to Init, which copies it.   *)
(***************************************************************************)
DatabaseNew ==
  /\ ~poisoned
  /\ DB \notin allocated
  /\ allocated' = allocated \cup {DB}
  /\ table' = table \cup {DB}
  /\ UNCHANGED << open, upstream, options, contexts, streams, poisoned >>

DatabaseInit(r) ==
  /\ Allocated(DB)
  /\ DB \notin open
  /\ open' = IF r = "ok" THEN open \cup {DB} ELSE open
  /\ upstream' = IF r = "ok" THEN upstream \cup {DB} ELSE upstream
  /\ Poison(r)
  /\ UNCHANGED << allocated, table, options, contexts, streams >>

\* Faulty: a release does not close the upstream object ...
NeverCloses(h, r) ==
  /\ allocated' = allocated \ {h}
  /\ table' = table \ {h}
  /\ open' = open \ {h}
  /\ UNCHANGED upstream

\* ... or one whose Close fails keeps the cgo handle for another try.
KeepsHandle(h, r) ==
  /\ allocated' = allocated \ {h}
  /\ table' = IF r = "ok" THEN table \ {h} ELSE table
  /\ open' = open \ {h}
  /\ upstream' = IF r = "panic" THEN upstream ELSE upstream \ {h}

\* What the three releases share: the handle goes, whatever Close does.
ReleaseHandle(h, r) ==
  /\ allocated' = allocated \ {h}
  /\ table' = table \ {h}
  /\ open' = open \ {h}
  /\ upstream' = IF r = "panic" THEN upstream ELSE upstream \ {h}

DatabaseRelease(r) ==
  /\ Allocated(DB)
  /\ ReleaseHandle(DB, r)
  /\ Poison(r)
  /\ UNCHANGED << options, contexts, streams >>

\* The option functions of an initialized database; only a panic shows here.
DatabaseOption ==
  /\ Initialized(DB)
  /\ Poison("panic")
  /\ UNCHANGED << handles, options, contexts, streams >>

-----------------------------------------------------------------------------
(***************************************************************************)
(* Connections.                                                            *)
(***************************************************************************)
ConnectionNew(c) ==
  /\ ~poisoned
  /\ c \notin allocated
  /\ allocated' = allocated \cup {c}
  /\ table' = table \cup {c}
  /\ initArgs' = [initArgs EXCEPT ![c] = {}]
  /\ asked' = [asked EXCEPT ![c] = {}]
  /\ UNCHANGED << open, upstream, applied, inited, contexts, streams, poisoned >>

Ask(c, o) == asked' = [asked EXCEPT ![c] = @ \cup {o}]

ConnectionCollectsOption(c, o) ==
  /\ Allocated(c)
  /\ c \notin open
  /\ initArgs' = [initArgs EXCEPT ![c] = @ \cup {o}]
  /\ Ask(c, o)
  /\ UNCHANGED << handles, applied, inited, contexts, streams, poisoned >>

ConnectionSetOption(c, o, r) ==
  /\ Initialized(c)
  /\ IF r = "ok" THEN Ask(c, o) /\ applied' = [applied EXCEPT ![c] = @ \cup {o}]
                 ELSE UNCHANGED << asked, applied >>
  /\ Poison(r)
  /\ UNCHANGED << handles, initArgs, inited, contexts, streams >>

\* Faulty: a refused option does not end the loop.
InitGoesOn(c, done, r) == r = "ok"

InitCompletes(c, done, r) == r = "ok" /\ done = initArgs[c]

\* Open, then the collected options in the order of a Go map.  An error after
\* Open leaves the connection open, with the options set so far.
ConnectionInit(c, done, r) ==
  /\ Allocated(c)
  /\ c \notin open
  /\ Initialized(DB)
  /\ done \subseteq initArgs[c]
  /\ \/ InitCompletes(c, done, r)
     \/ r # "ok" /\ done # initArgs[c]
  /\ open' = open \cup {c}
  /\ upstream' = upstream \cup {c}
  /\ applied' = [applied EXCEPT ![c] = done]
  /\ initArgs' = IF r = "ok" THEN [initArgs EXCEPT ![c] = {}] ELSE initArgs
  /\ inited' = IF r = "ok" THEN inited \cup {c} ELSE inited
  /\ Poison(r)
  /\ UNCHANGED << allocated, table, asked, contexts, streams >>

\* Open panics (when it fails, nothing has changed).
ConnectionOpenPanics(c) ==
  /\ Allocated(c)
  /\ c \notin open
  /\ Initialized(DB)
  /\ Poison("panic")
  /\ UNCHANGED << handles, options, contexts, streams >>

ConnectionRelease(c, r) ==
  /\ Allocated(c)
  /\ ReleaseHandle(c, r)
  /\ CancelContext(c)
  /\ applied' = [applied EXCEPT ![c] = {}]
  /\ inited' = inited \ {c}
  /\ Poison(r)
  /\ UNCHANGED << initArgs, asked, streams >>

\* GetInfo, GetObjects, GetStatistics, GetStatisticNames, GetTableTypes and
\* ReadPartition.
ConnectionReads(c, x, r) == ReadOn(c, x, r)

\* GetTableSchema, Commit and Rollback.
ConnectionCalls(c, r) == CallOn(c) /\ Poison(r) /\ UNCHANGED streams

ConnectionCancel(c) ==
  /\ Initialized(c)
  /\ CancelContext(c)
  /\ UNCHANGED << handles, options, streams, poisoned >>

-----------------------------------------------------------------------------
(***************************************************************************)
(* Statements.                                                             *)
(***************************************************************************)
StatementNew(s, c, r) ==
  /\ ~poisoned
  /\ s \notin allocated
  /\ Initialized(c)
  /\ IF r = "ok"
       THEN /\ allocated' = allocated \cup {s}
            /\ table' = table \cup {s}
            /\ open' = open \cup {s}
            /\ upstream' = upstream \cup {s}
       ELSE UNCHANGED handles
  /\ Poison(r)
  /\ UNCHANGED << options, contexts, streams >>

StatementRelease(s, r) ==
  /\ Allocated(s)
  /\ ReleaseHandle(s, r)
  /\ CancelContext(s)
  /\ Poison(r)
  /\ UNCHANGED << options, streams >>

StatementCancel(s) ==
  /\ Initialized(s)
  /\ CancelContext(s)
  /\ UNCHANGED << handles, options, streams, poisoned >>

\* ExecuteQuery with a stream to fill.
StatementExecuteQuery(s, x, r) == ReadOn(s, x, r)

\* Prepare, Bind, BindStream, ExecuteSchema, ExecutePartitions, and
\* ExecuteQuery without a stream.
StatementCalls(s, r) == CallOn(s) /\ Poison(r) /\ UNCHANGED streams

-----------------------------------------------------------------------------
Database ==
  \/ DatabaseNew \/ DatabaseOption
  \/ \E r \in Outcome : DatabaseInit(r) \/ DatabaseRelease(r)

Connection(c) ==
  \/ ConnectionNew(c) \/ ConnectionCancel(c) \/ ConnectionOpenPanics(c)
  \/ \E o \in Option : ConnectionCollectsOption(c, o)
  \/ \E r \in Outcome :
       \/ ConnectionRelease(c, r)
       \/ ConnectionCalls(c, r)
       \/ \E o \in Option : ConnectionSetOption(c, o, r)
       \/ \E done \in SUBSET Option : ConnectionInit(c, done, r)
       \/ \E x \in Stream : ConnectionReads(c, x, r)

Statement(s) ==
  \/ StatementCancel(s)
  \/ \E r \in Outcome :
       \/ \E c \in Conn : StatementNew(s, c, r)
       \/ StatementRelease(s, r)
       \/ StatementCalls(s, r)
       \/ \E x \in Stream : StatementExecuteQuery(s, x, r)

Next ==
  \/ Database
  \/ \E c \in Conn : Connection(c)
  \/ \E s \in Stmt : Statement(s)
  \/ \E x \in Stream : StreamRelease(x)

Spec == Init /\ [][Next]_vars

-----------------------------------------------------------------------------
(***************************************************************************)
(* Properties.                                                             *)
(***************************************************************************)

\* The type invariant of the handles, contexts and streams.
TypeOK ==
  /\ allocated \subseteq Handle
  /\ table \subseteq Handle \cup Stream
  /\ open \subseteq Handle
  /\ upstream \subseteq Handle
  /\ initArgs \in [Conn -> SUBSET Option]
  /\ applied \in [Conn -> SUBSET Option]
  /\ asked \in [Conn -> SUBSET Option]
  /\ inited \subseteq Conn
  /\ cancel \in [Caller -> Context \cup {None}]
  /\ live \subseteq Context
  /\ owner \in [Stream -> Caller \cup {None}]
  /\ using \in [Stream -> Context \cup {None}]
  /\ refs \in [Stream -> Nat]
  /\ poisoned \in BOOLEAN

OpenStreams == {x \in Stream : owner[x] # None}

\* The cgo handle table holds exactly what the client's structs point to: no
\* struct dangles, and nothing is left behind in the table, whichever call
\* fails or panics.
TableAgrees == table = allocated \cup OpenStreams

\* Every upstream database, connection and statement belongs to a handle that
\* will close it, until a panic loses one.
UpstreamIsOwned == ~poisoned => upstream = open /\ open \subseteq allocated

\* A connection whose Init returned OK has every option that was set on it with
\* success, before Init or after it.
InitIsComplete == \A c \in inited : asked[c] \subseteq applied[c]

\* A context is live exactly while a handle that is still allocated can cancel
\* it, so none is leaked and a stream of a released handle has a dead one.
ContextsAreHeld ==
  /\ live = {cancel[h] : h \in Caller} \ {None}
  /\ \A h \in Caller : cancel[h] # None => h \in allocated

\* A stream loses its context only in a call on the handle it came from, never
\* through another statement or connection.
Live(x) == owner[x] # None /\ using[x] \in live

OnlyOwnerEnds ==
  [][\A x \in Stream :
       Live(x) /\ using[x] \notin live' => cancel'[owner[x]] # cancel[owner[x]]]_vars

\* An open stream holds the one reference to its record reader: the reader is
\* released with the stream, not before it and not twice.
ReaderIsHeld == \A x \in Stream : refs[x] = IF x \in OpenStreams THEN 1 ELSE 0

\* "Afterwards all calls to driver will fail" (globalPoison): no call on a
\* handle has an effect once the driver has panicked; streams alone can still
\* be released.
PoisonIsFinal ==
  [][poisoned => UNCHANGED << allocated, open, upstream, options, contexts >>]_vars

-----------------------------------------------------------------------------
(***************************************************************************)
(* What a client of adbc.h sees of all this.                               *)
(***************************************************************************)
Phase ==
  [h \in Handle |-> IF h \notin allocated THEN "free"
                    ELSE IF h \in open THEN "ready" ELSE "new"]

Valid == {x \in Stream : Live(x)}

Api == INSTANCE AdbcApi WITH phase <- Phase, source <- owner, valid <- Valid

\* The driver's contexts give the result sets the life adbc.h promises: a call
\* on a statement invalidates the statement's earlier result sets and nothing
\* else, no result set comes back to life, and a call that fails or panics has
\* its effect on the structs or none.
ImplementsApi == Api!Spec
=============================================================================
