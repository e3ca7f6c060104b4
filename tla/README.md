# Verification of the GizmoSQL ADBC driver

This directory holds TLA+ models of the GizmoSQL ADBC driver, the TLC
configurations that check them on small instances, and TLAPS proofs of their
main theorems. Paths are relative to the repository root; line numbers in the
modules and in `PROJECT.json` are those of the same commit.

## 1. The system

The driver is a stack of four layers between an application and a GizmoSQL
server (DuckDB behind Arrow Flight SQL).

| layer | code | state it keeps |
| --- | --- | --- |
| Python DB-API | `python/src/adbc_driver_gizmosql/` | a cursor's current result, a class-level `get_info` cache |
| C ABI shim | `go/pkg/gizmosql/` | cgo handles of databases, connections, statements and streams; one cancellable context per handle; the process-wide `globalPoison` flag; the error of each call |
| wrapper | `go/gizmosql/` | per statement: the query, bound data and its schema, prepared or not, options to replay, a mirror of the ingest options; the execution in flight and the last stream, each with its atomic claim |
| upstream Flight SQL driver (arrow-adbc) | external | the inner statement: query, prepared handle, staged ingest data, ingest options |

Calls go down the stack synchronously. Results come back up as record readers
(in Go) or `ArrowArrayStream` callbacks (in C), which the application drains
and releases whenever it likes, on any thread, and perhaps after the handle
that made them has been released. Three things travel sideways: a `Close`,
`Release` or `Cancel` from another goroutine or thread; the explicit
`CancelFlightInfo` that the wrapper sends the server on its own; and the OAuth
polling loop that runs while a database is being opened.

### Components, operations and what makes each correct

* **Server-side query cancellation** (`cancel.go`, and `beginCall`, `endCall`,
  `claimInFlight`, `CancelQuery`, `cancelAbandoned`, `Close`, `trackStreaming`
  in `driver.go`). Dropping a gRPC stream does not stop a GizmoSQL statement, so
  whoever abandons an execution must ask the server to interrupt it. The
  server's cancel has no addressee: it interrupts whatever the session is
  executing. Correct means: every abandoned execution is asked for, at most
  once by each claim, and nobody else's statement is hit. Hard because the
  owner's goroutine, closers, cancellers, the server and requests in flight all
  interleave.
* **Statement wrapper** (`driver.go`, `optionsdelegate.go`). One ADBC statement
  is reused for queries, DML, prepared statements and bulk ingests, in any
  order. The inner statement cannot forget staged data, so it is replaced by a
  fresh one and its options are replayed. Correct means: what the wrapper
  remembers of the inner statement is true of it, also after calls that failed
  half way; writes execute eagerly; no reuse poisons a statement.
* **Geometry-aware ingest** (`geoingest.go`). One `ExecuteUpdate` becomes a bulk
  load and several SQL statements through an interim table. Correct means:
  success is a complete ingest, a failure leaves the target as it was, and the
  interim table goes. Hard because any statement can fail, the caller's context
  can end and a cancel can arrive anywhere between.
* **C shim: cancellable contexts** (`go/pkg/gizmosql/driver.go:270-287`). Each
  call makes a context and `Cancel` cancels it from another thread. Correct
  means: no panic, no context leaked, a cancel reaches the call it is for.
* **C shim: handles, streams, partitions** (same file). Handles are
  allocated, initialised and released in an order the caller chooses; a panic in
  any call poisons the driver; streams outlive their statement. Correct means:
  no struct dangles and nothing leaks whatever fails, an initialised connection has
  all its options, a stream lives until its own handle or its reader ends it, a
  poisoned driver answers nothing.
* **C shim: errors and option buffers** (`setErr`, `setErrWithDetails`,
  `exportStringOption`, `utils.c`). Correct means: each error is owned and
  released once, and a buffer that is too small is reported with the size needed.
* **SQL classification** (`sqlrouting.go`, copied in `dbapi.py`). Correct means:
  what writes is recognised as such, whatever comments and string literals are
  in it, and both copies agree.
* **OAuth flow** (`oauth.go`, `_oauth.py`). Correct means: the token of the
  session that was started is returned, errors and timeouts end the loop.
* **Options and URIs** (`options.go`, `uri.go`): rewriting of option maps.
* **Python DB-API** (`dbapi.py`). Correct means: DDL/DML runs although nobody
  fetches, and one connection's answers are not another's.
* Connection wrapper, logging filter, driver lookup, entry points, the vendored
  ADBC header, builds: no state of their own that two steps share.

`PROJECT.json` lists each of these with its status, and the hazards at the
lines where they bite.

## 2. Modules

| module | models | checked by | proved in |
| --- | --- | --- | --- |
| `CancelContract` | what cancellation promises, without its mechanism | as a property of `QueryCancel` | `QueryCancel_proofs` |
| `QueryCancel` | `cancel.go` and the cancellation half of `driver.go` | `MCQueryCancel` | `QueryCancel_proofs` |
| `Statement` | the other half of `driver.go`, `optionsdelegate.go` | `MCStatement` | `Statement_proofs` |
| `SqlRouting`, `SqlReader` | `sqlrouting.go` and its copy in `dbapi.py`; the lexer it stands in for | `SqlReader`, `MCStatement` | `SqlReader_proofs` |
| `GeoIngest` | `geoingest.go` | itself | `GeoIngest_proofs` |
| `OAuthFlow` | `oauth.go`, `_oauth.py`, and the server they talk to | itself | `OAuthFlow_proofs` |
| `ContextContract` | what a handle's context promises, without its two fields | as a property of `CallContext` | `CallContext_proofs` |
| `CallContext` | `cancellableContext` and the calls that use it | itself | `CallContext_proofs` |
| `AdbcApi` | the life cycle `adbc.h` promises, for any driver | as a property of `Handles` | `Handles_proofs` |
| `Handles` | the shim's databases, connections, statements and streams | `MCHandles` | `Handles_proofs` |
| `DriverTable` | `AdbcDriverGizmoSQLInit` and the `Adbc*` symbols | in `Abi` | `Abi_proofs` |
| `ErrorExport` | errors from Go to C, their details, who frees them | in `Abi` | `Abi_proofs` |
| `Abi` | `DriverTable` and `ErrorExport` joined by the client's version | `MCAbi` | `Abi_proofs` |
| `OptionBuffer` | reading an option into the client's buffer | `MCOptionBuffer` | `Abi_proofs` |

Three modules compose others: `Abi` (a client that loads the driver and uses its
errors), `MCStatement` (the class of a query is what `SqlRouting` makes of its
text) and `Statement`, whose `GeoIngestUpdate` is `GeoIngest` seen from outside.

Definitions marked *Faulty* in a module are one-line mistakes someone could
make (several of them were made, in the releases their comments name). They are
used by no specification. Substituting one for the definition below it must
break the property `PROJECT.json` pairs it with: this is how we know that each
property depends on the code.

### QueryCancel

An execution is a number; the `callState` of its blocking call and the
`execState` of its stream are functions over executions, so pointers are
numbers. Every statement has one owner goroutine that executes, reads and
releases; helper goroutines call `Close` and `CancelQuery`.

| code | model |
| --- | --- |
| `statement.inFlight` (atomic pointer), `statement.current` | `inFlight`, `current` |
| `callState.cancelled`, `execState.exhausted`, `execState.cancelled` | `callCancelled`, `exhausted`, `cancelled` |
| `beginCall` / deferred `endCall` | `BeginCall`, `EndCall` |
| `ExecuteUpdate`; DDL/DML and RETURNING inside `ExecuteQuery` | `IssueUpdate`, `ReturnUpdate` |
| the streaming path, `trackStreaming` | `IssueStream`, `TrackStreaming` |
| an error on the client side | `FailCall` |
| `cancelReader.Next` returning false | `NextIsLast` |
| `cancelReader.Release` | `ReleaseDrained`, or `ReleaseUndrained` then `ReleaseClaims` or `ReleaseIsLate`, then `ReleaseInner` |
| `Close`, as often as the client likes, also at the same time | `CloseLoads` ... `CloseInner` |
| `CancelQuery` | `CancelQueryMarksStream` ... `CancelQueryReturns` |
| `sessionCanceler.cancel`, `implicitCancelTimeout` | `SendCancel`, `AwaitCancel` |
| GizmoSQL, gRPC (external) | `Server...`, `RequestDropped`, `CancelLost` |

Nothing in the code orders a call and a Close of its statement, so nothing in the
model does: a call may begin before, during or after a Close, and a statement may be
closed again, as its unit tests claim a call twice. What the inner statement makes of
being used after its Close is external (the call fails or is issued). `owed` is a
history variable: the execution that was the statement's latest when a Close
began. The client's calls are bounded by `MaxExec`, those of the helpers, Close and
CancelQuery together, by `MaxHelp`.

A step is the code between two accesses to shared state; in particular the
`Load` and the `CompareAndSwap` in `claimInFlight` and `abandoned` are separate
steps. `s.current` is a plain field, written by the owner and read by others.
On the platforms the driver is built for, a racy read of a pointer returns
one of the values written, so a stale read is the interleaving in which it came
earlier; the model has all of those.

The client is not always well behaved, and some properties hold only when it is.
Three constants say which client is meant:

* `OneCallAtATime`: a driver call begins only when no other is in progress.
  This is how database APIs are used on one thread.
* `OneResultAtATime`: a result is released before the next execution.
* `PromptCancels`: no cancel request is lost, or is still travelling when its
  caller stops waiting (5 seconds).

The safety of the claims (`AskedAtMostOnce`, `NoSilentAbandon`,
`ClosedIsClaimed`) needs none of them. `DrainedNotAsked` needs the first, the
refinement all three; liveness needs `PromptCancels` only. `ClosedIsClaimed` is
about the execution a Close finds. A call that stores `inFlight` after Close has
loaded it is not promised anything by that Close (section 6).

`CancelContract` is the promise: an execution is wanted until its caller walks
away or it ends, and only unwanted executions are interrupted, except by an
explicit `CancelQuery`. `ImplementsContract` maps to it: an execution is wanted
while it is live, unclaimed, not torn down and not drained, and an explicit
cancel is pending while its message is on the wire.

### Statement

One goroutine, one action per method, with the outcome of every call that may
fail as a parameter. `inner` is the upstream statement. It is external; its
rules come from the wrapper's comments and tests, e.g. data bound while
nothing is prepared is staged for ingest and never unstaged.

| code | model |
| --- | --- |
| fields `query`, `hasBound`, `boundSchema`, `prepared`, `setOpts` | the same names |
| `ingestTarget`, `ingestMode`; catalog, schema, temporary | `ingest.target`, `ingest.mode`, `ingest.home` |
| `SetOption*`, `recordOption` | `SetOption`, `SetIngestOption` |
| `resetForNewQuery`, `SetSqlQuery`, `SetSubstraitPlan` | `SetQuery`, `SetSqlQuery`, `SetSubstraitPlan` |
| `Prepare`, `autoPrepare`, `Bind`, `BindStream` | `Prepare`, `AutoPrepares`, `Bind` |
| `ExecuteUpdate`, `executeGeoIngest` as seen from outside | `ExecuteUpdate`, `GeoIngestUpdate` |
| `ExecuteQuery` and its routing | `ExecuteQuery`, `Delegates` |

The failure points of `resetForNewQuery` are "fresh" (making the new statement
or replaying its options; nothing has changed), "close" (closing the old one
after the swap) and "set" (the new query is refused).

### SqlRouting and SqlReader

A text is a sequence of atoms: a write keyword, RETURNING, any other word, the
kinds of space, quotes, comment marks, and `(` or `;`. `SqlRouting` is what the
driver does: the two comment expressions, the two literal expressions, the
search for RETURNING and the first field. `SqlReader` is the reference, a lexer
that reads the same text once from left to right, as an action for each atom.

| code | model |
| --- | --- |
| `blockCommentRE`, `lineCommentRE`, `singleQuotedRE`, `doubleQuotedRE` | the patterns `BlockComment`, `LineComment`, `Literal(q)` |
| `ReplaceAllString` | `Scan` and `Advance`, from left to right; `Replace` |
| `stripSQLComments` | `WithoutBlock`, `WithoutLine`, `StripSQLComments` |
| `returningRE`, `hasReturningClause` | `BlankLiterals`, `HasReturningClause` |
| `ddlDmlKeywords`, `isDDLDML` | `FirstWordWrites` |
| the routing in `ExecuteQuery` | `ClassOf` |

The reader's variable `plain` delimits the texts for which the two must agree. It
leaves out, each where the reader meets it: comment marks in a literal or quoted
name; a single quote in a quoted name; two words joined by a block comment; a
keyword touched by anything but space, `(` or `;` and then space (`COPY(SELECT ...`);
texts that begin with `(` or `;`; nested comments, and an opening mark in a line
comment. For these the driver and the server may differ (section 6). Below the
level of atoms are dollar quotes, `E''` strings, and which letters are a word's
(Go's `\b` is ASCII, Python's Unicode). The meaning is decided by the first
keyword, so a `WITH` before a DELETE is read as a SELECT on both sides.

### GeoIngest

Each statement of the ingest, the DROP included, is a call that is sent, run or
refused by the server, and answered; the connection may break under a call whose
statement the server then runs or refuses on its own, the caller's context may end
and one cancel may arrive between any two steps. The session runs one statement at a
time, so the next one waits for such a leftover. A table is its rows ("old" or "new") and the columns of it
that are BLOB. The two kinds of server (GEOMETRY columns made by the server since
1.37.0, or BLOB columns before) are a choice of `InterimAfter`. The append into
a GEOMETRY column is refused while the interim column is still BLOB, as the file
comment says.

### OAuthFlow

The driver, a server, a network that loses or garbles requests and answers, a user
who grants, refuses or does nothing, and time. The two implementations are one
model with a variable `lib`, because they differ in three places only: what a
garbled answer does to discovery, whether there is a context to cancel, and
whether the deadline itself is in time.

| code | model |
| --- | --- |
| `discoverOAuthBaseURL`, the request to `/oauth/initiate` | `Initiate`, `InitiateAnswered`, `InitiateRefused` with `FallsBack` |
| `deadline`, the test against it | `elapsed`, `Expired`, `TimesOut` |
| the poll and the switch over its answer | `Poll`, `PollAnswered` |
| the wait between polls, `ctx.Done()` | `Wakes`, `SleepCanceled`, `RequestCanceled` |
| the two endpoints and the browser (external) | `ServerInitiates`, `ServerAnswersPoll`, `UserDecides`, `SessionExpires` |

The HTTPS probe may reach the server, which makes a session and whose answer is
then lost; the driver falls back to HTTP and gets another. So sessions remember
the base URL they were made at, and a poll at the other finds nothing.

### CallContext

One handle of the shim. A step is one access to `ctx` or `cancel`, because both
are plain fields and nothing orders the calling thread and the cancelling ones.
`Serialised` restricts cancels to calls that have their context, one at a time. This
rules the race on the two fields out, and is more than `adbc.h` asks of a client. So
it is assumed only for what the fields mean; whether they are thread-safe is the
question of `context_race`, which does without.

`ContextContract` is the promise: a handle has one context, not two fields. A call
ends the previous context, then gets one of its own that no call had before, and a
cancel or a release takes effect at one moment between its begin and its return.
`ImplementsContext` maps to it. A context counts as given once `newContext`
returns it, so the one in the making, live already but not yet stored, is nobody's
(`Given`, `Making`); a call has begun when it has its context (`CallPhase`); a
cancel takes effect when it calls the function it has loaded, or finds none
(`CancelPhase`).

### Handles

The shim as seen by one thread, so an exported function is one action; its
upstream call returns, fails or panics. The contexts of `CallContext` reappear
here in their sequential form: what is new is how long a context lives compared
with the handle that can cancel it and with the streams that depend on it.

| code | model |
| --- | --- |
| `private_data` set; `cgo.NewHandle` / `Handle.Delete` | `allocated`; `table` |
| fields `db`, `cnxn`, `stmt`; the objects they point to | `open`; `upstream` |
| `cConn.initArgs`; the options the upstream connection has taken | `initArgs`; `applied` |
| `cancellableContext.cancel`, as the context it cancels; contexts not cancelled | `cancel`; `live` |
| `cArrayStream.rdr` and its reference count; where the stream comes from | `refs`; `owner`, `using` |
| `globalPoison`, the deferred `recover` | `poisoned`, `Poison` |
| `check*Alloc`, `check*Init` | `Allocated`, `Initialized` |
| `newContext`, `cancelContext` | `NewContext`, `CancelContext` |
| `exportRecordReader`, the stream's `release` | `ExportRecordReader`, `StreamRelease` |
| `Gizmo...New`, `...Init`, `...SetOption`, `...Release`, `...Cancel` | the actions of the same names |
| the functions that return a stream; those that make a context and return none | `ConnectionReads`, `StatementExecuteQuery`; `ConnectionCalls`, `StatementCalls` |

`asked` and `inited` are history variables: what the client set with success, and
which connections were told OK. A connection whose `Init` fails after `Open`
stays open with the options set so far, as in the code.

`AdbcApi` is the life cycle the comments of `adbc.h` describe, for any driver:
which handles are allocated and initialised, which calls that permits, and
which result sets a call may invalidate. `ImplementsApi` maps `Handles` to it: a
handle is "new" when `private_data` is set and "ready" when its upstream object
exists, a stream comes from the handle whose call exported it, and it is valid
while its context is alive and it has a reader. A failing call is a step or a
stutter.

### DriverTable, ErrorExport and Abi

| code | model |
| --- | --- |
| `struct AdbcDriver`, its two sizes | `Fields100`, `Fields110`, `InStruct` |
| `AdbcDriverGizmoSQLInit`, the `memset` and the assignments | `DriverInit`, `DriverInitRefuses`, `FilledTable` |
| the `Adbc*` functions and stream callbacks of `utils.c` | `Symbol`, `StreamCallback`, `CallBySymbol` |
| `struct AdbcError`, `GizmoSQLError` | `AdbcError`, `Block` and `content` |
| `setErr`, `setErrWithDetails`, `errToAdbcErr` | `SetErr`, `WithDetails`, `Export` |
| `GizmoSQL_release_error`, `GizmoSQLReleaseErrWithDetails` | `Freed`, `Released` |
| `GizmoSQLErrorGetDetailCount`, `...GetDetail` | `DetailCount`, `GetDetail` |
| `maybeError`, `GizmoSQLArrayStreamRelease` | `StreamFails`, `StreamReleases` |

`past` collects the structs of ADBC 1.0.0 whose missing `private_data` was accessed,
`dirty` the functions that let Go store pointers over garbage, and `due` the
details a struct should show. A message, its `GizmoSQLError` and the details are one
block: they are allocated and freed together, so a leak or a double free of one is
one of all. In `Abi` a client compiled with the 1.0.0 header passes only structs of
that size, while a later driver manager passes on those of either; and only who
was given the 1.1.0 table reads details.

### OptionBuffer

A client offers a buffer, is told the length needed and calls again; between two
calls the option may be set. Strings have their terminator, bytes have none.

## 3. What the runs check

| run | instance | shows |
| --- | --- | --- |
| `concurrent` | 1 statement, 2 helpers, 2 executions, 2 calls of Close or CancelQuery, any client, cancels may be lost | each claim is made once; no execution is live, unclaimed and out of reach; `Close` claims the execution it finds |
| `disciplined` | 2 statements, 2 executions, 3 calls of Close or CancelQuery, client with all three assumptions | a cancel hits the execution it is for, and none is sent for a drained one; the mechanism implements `CancelContract` |
| `liveness` | 1 statement, 1 helper, 2 executions, 2 calls of Close or CancelQuery | a Close unblocks a parked update |
| `statement` | a query of each class, a plan, one target, two modes | bookkeeping, eager writes, no poisoning, geometry rerouted |
| `sql_texts` | every text of up to 5 atoms | the driver routes a text by what it means; only blank texts panic |
| `geo_steps` | 2 geometry columns, 4 modes | success is complete, the target changes at once or not at all, no interim table left unless its DROP fails, an interrupted ingest stops, the call returns |
| `oauth` | timeout 4, interval 2, 2 sessions | the token is the one granted, time is up only when it is, errors have a cause, the flow ends |
| `context_serialised` | 2 cancellers, 3 calls, 3 cancels, serialised | no leak; the two fields implement the one context of `ContextContract` |
| `context_race` | 1 canceller, 2 calls, 2 cancels | the panic of section 6 |
| `handles` | 1 connection, 2 statements, 2 streams, 1 option, 6 contexts | the handle table, the upstream objects, the contexts and the readers agree after every call that returns, fails or panics; the shim implements `AdbcApi` |
| `abi` | headers of 1.0.0, 1.1.0 and later, 2 errors (one old), 1 stream, 5 blocks | nothing is written past a struct or over garbage, every block has one owner, details are those of the latest error |
| `options` | 4 values, 3 settings | whole values only, one retry unless the option was set |

The type invariants are not among the properties of the runs: each is proved, for
all constants. Those of `OptionBuffer` and `SqlReader` are stated with their proofs
(`OptionTypeOK`, `ReaderTypeOK`).

**Bounds.** The races of cancellation are between one execution's parts (one statement
and two helpers: Close against Close, against CancelQuery, against Release, or two of
them one after the other) and between an execution and the next one of the session
(two executions, on the same or on another statement). A third execution adds no new
neighbour: the `disciplined` instance with three executions and two calls of the
helpers (3.5 million states) was checked too and is left out for its length. In
`Statement` the code branches on nothing but the class of the query, whether a target
is set and whether the schema has geometry, so one query per class, one target and
both schemas cover its branches; two modes let the wrong one be used. In `GeoIngest`
two columns are the least that let the ALTER loop fail half way. In `CallContext` the
state of a call is reset by the next but one, so three calls and three cancels see all
overlaps of a call, its predecessor and a cancel. In `Handles` two statements and
their connection can each hold a context while two streams depend on others; six
contexts are one more than are ever held, so the guard that one is free never stops a
call. One option tells set from unset; a second connection would add only handles that
share nothing but the database. The proofs of `Handles` have any number of both. In
`Abi` three headers are one that lacks the new fields, one that has them and one the
driver refuses; an old and a new struct and a stream's own are the three kinds of
error; five blocks are what they can hold at once (two for the stream) and one that
was lost. In `OptionBuffer` the values are empty, short, and two of the same length,
which only their characters tell apart; three settings change the option before,
between and after the two calls of a read. In `OAuthFlow` the timeout has room for two
polls and a third that comes too late; two sessions let the one that HTTPS made be
lost; times saturate one tick past the deadline, after which no comparison changes. In
`SqlReader` five atoms hold a literal or a comment with something in it, a word before
and one after; the proof has texts of any length.

**Deadlock** is checked for `Statement` and `OptionBuffer`, whose clients can always
make another call. The other runs say `CHECK_DEADLOCK FALSE` because their
systems stop: the client may have issued everything it issues, an ingest or an
OAuth flow returns, a text has its full length, the blocks of `Abi` may all have
been lost (section 6), and a poisoned driver with no stream left does nothing.

**Fairness.** `QueryCancel!FairSpec`: goroutines inside a driver call are
scheduled, cancels on the session's connection are handled, and the server
starts what was posted when it is free. There is no fairness for the client
beginning calls or for a running statement finishing, so `CloseUnblocksUpdate`
says that a Close ends even an update that would run for ever. In `GeoIngest` the
driver and the server proceed; the end of the context and the cancel are never
forced. In `OAuthFlow` the driver goes on and time passes. Nobody has to answer:
`CancelEnds` holds with a silent server, and `FlowEnds`, which needs each
request to be answered or to fail in the end, says so in the property.

## 4. What is proved

The proofs hold for every value of the constants allowed by the `ASSUME`s.

* `QueryCancel_proofs`: `TypeCorrect`, `AskedOnce`, `NeverSilentlyAbandoned`,
  `CloseClaims`, all from one inductive invariant (`Invariance`). The three
  properties are not inductive. `AskedAtMostOnce` needs that the count
  of requests is bounded by the flag (a claim sets the flag in the step that
  counts). The other two need to know where each execution is when its owner or
  a closer is at a given step: an owner at "wait" has its execution in
  `inFlight` and has not seen it end; a closer past `claimInFlight` with nothing
  found has its execution in `current`, or over or claimed, until a later call of the
  statement supersedes it (`Closing`); a stream becomes reachable through `current`
  before it leaves `inFlight`. Executions are numbered, so one begun after Close's
  load is none that Close owes anything.

  Under `ASSUME OneCallAtATime` a second invariant (`Serial`) gives
  `DrainedCorrect`: a stream found undrained is still undrained when it is claimed.
  Under all three assumptions (`WellBehaved`) a third (`Disciplined`) gives
  `Implements`, the refinement of `CancelContract`. It says why a cancel without an
  addressee hits the right execution: only the latest execution can be wanted
  (`LatestOnly`, `ReleasedIsSettled`), the server runs one at a time (`OneActive`), and
  a cancel is on the wire only while its sender waits for it, during which, if it
  is implicit, nothing is wanted at all (`WireIsAwaited`, `Addressed`). Each step then is
  a step of the contract or changes nothing in it (`StepRefines`).
* `Statement_proofs`: `TypeCorrect`, `BookkeepingCorrect`, `WritesEager`,
  `NotPoisoned`, `GeoRerouted`, from one inductive invariant. It adds to
  the properties how far the wrapper's query and ingest target may drift from
  inner's (`QueriesAgree`, `TargetsAgree`): a call that fails half way leaves
  inner without the query or the target the wrapper remembers, but never with
  another one. Poisoning depends on what the wrapper believed when data was
  bound, so without these it is not inductive.

  `ExecutionCorrect` is what a client that looks only at the calls that succeeded
  may rely on, for any sequence of calls and failures: an execution runs the query
  or plan last set with success, or ingests the data last bound into the table last
  named or into the interim table, or fails. What inner holds of an earlier call
  never comes back. It is an action property, and needs two invariants more:
  inner's target is the remembered one or the interim table (`TargetIsNamed`),
  and a schema is remembered only of data that is bound (`SchemaIsBound`).
* `GeoIngest_proofs`: `TypeCorrect`, `SuccessCorrect`, `InterimCorrect`,
  `AtomicityCorrect`, `InterruptCorrect`, for any columns and both kinds of
  server. The difficulty is that the server may still run a statement the driver
  has given up. The invariant says which statements can be in that state and
  what each may still do (`RunningFollows`), that the driver's verdict follows
  from what it was told (`VerdictFollows`), that the target is only touched once
  the interim table is complete (`TargetIsReady`), what is left to do before an
  ingest may succeed (`WorkIsLeft`), and that a bulk load that landed leads to
  the DROP (`DropFollows`).

  `StepsAreBounded` and `NeverStuck` are the safety half of `IngestReturns`. The
  first gives a number of steps left, at most `3n + 15` for `n` geometry columns,
  which each step of the driver or the server uses up and no other step adds to. The
  second says that until the call returns one of the two has a step to take. What
  remains of the liveness property is that they take it, which is its fairness.
* `OAuthFlow_proofs`: `TypeCorrect`, `TokenCorrect`, `TimeoutCorrect`,
  `ErrorCorrect`, for any timeout, interval and sessions. The token
  needs that an answer on its way is true of its session (`AnswersAreTrue`)
  and that grants are kept (`GrantsAreKept`). For the timeout, the time since
  the grant is bounded by what the current request has taken, the slowest
  poll, and what is left to sleep (`WaitIsBounded`): when the deadline is looked
  at, a grant is at most one interval and one poll old. `StepsAreBounded` is the
  safety half of `FlowEnds` and `CancelEnds`: the driver makes at most
  `5 * (Timeout + 1) + 7` steps, the two requests of the discovery and five for each
  tick before the deadline, however the answers, the sleeps and the clock fall.
* `CallContext_proofs`: `TypeCorrect` for any client; `LeaksCorrect` and
  `ReachCorrect` under `ASSUME Serialised`, for any number of threads. The invariant counts the contexts (`Counted`), keeps calls and cancels
  apart (`Exclusion`), and says what each step of `newContext` and of
  a cancel has in hand (`Stepwise`, `Aims`). `Implements` is the refinement of
  `ContextContract` under the same assumption: most steps on the two fields are
  stutters of the contract, and the invariant says that the step which is not one finds
  what the contract asks (no context left when a call gets its own, nothing live
  but the cancel's target when a cancel takes effect). The assumption is stronger than
  `adbc.h:2133`, which calls Cancel thread-safe without condition; without it the
  refinement is false, and nothing is proved of such a client but the types (section 6).
* `Handles_proofs`: `TypeCorrect`, `TableCorrect`, `UpstreamCorrect`,
  `InitCorrect`, `ContextsCorrect`, `ReaderCorrect` and the action properties
  `OnlyOwnerCorrect`, `PoisonCorrect`. The inductive invariant adds what the
  properties do not say: after a panic objects still belong to allocated
  handles (`Owned`), a connection waiting for its `Init` has collected exactly
  what was asked (`OptionsKept`), no two handles can cancel the same context
  (`ContextsDiffer`), and the context of an open stream is its handle's current
  one or dead (`StreamsFollow`). The last two give `OnlyOwnerEnds` without
  looking at the actions again, and, with the type of the refinement mapping,
  `Implements`: every step of the shim is a step of `AdbcApi` or changes nothing
  in it, for any number of connections, statements and streams.
* `Abi_proofs`, about errors: `OldStructCorrect`, `BlocksCorrect`, `DetailsCorrect`,
  `LostCorrect`, from one inductive invariant: a struct of 1.0.0 never gets the
  vendor code that means `private_data` is there nor the release function that
  reads it; a block is a message of one struct, or all of its error; what
  a struct shows is what is in the block it points to. About the table:
  `ZeroedCorrect`, `TableFitsCorrect`, `CallsCorrect`, `WritesCorrect`, which need that
  the version accepted is the latest both know. `ErrorsOfAbi` shows that a step of
  `Abi` is one of `ErrorExport` or leaves errors alone, so `AbiErrorsCorrect` has the
  theorems on errors of the ABI whatever versions meet. About options: `RetryCorrect`
  and `AtomicCorrect`, for values of any length. A client that has been told a
  length has a buffer of what the option still needs (`ToldWhatIsNeeded`), and what it
  reads in a buffer that suffices is the value, terminator or not.
* `SqlReader_proofs`: `ReaderTypeCorrect`, `RoutedCorrect`, `PanicCorrect`, for
  texts of any length. The driver folds four expressions over the whole text;
  the reader takes one atom at a time. First the fold is given its equations
  (`ScanEmpty`, `ScanAppend`): a set of lengths where they fail would have a least
  one (`Least`), which they do not. Then each scan advances with the reader: it is in
  a comment or in quotes when the reader is (`InStep`), a text with its literals blanked
  has a RETURNING where the reader has seen one (`WordsAgree`), and a text without its
  comments begins with the reader's first word (`FirstAgrees`), each told of the text so
  far and of what may still touch its last word. Two more conjuncts speak of texts that
  are not plain (`SomethingSeen`, `NothingAdded`), because `PanicsOnBlanks` does.

Each proof has a lemma for each part of the next-state relation and one step for
each action, which names the conjuncts the action can disturb.

## 5. What is only model-checked

Every safety property the passing runs check, invariant, action property and
refinement, is proved as well. Only liveness is not: `CloseUnblocksUpdate`,
`IngestReturns`, `FlowEnds`, `CancelEnds`. The prover has no rules for fairness. For
the last three the bounds on their steps are proved (section 4).

The prover has no induction either: the library's principle for natural
numbers takes a predicate. The two places that need one (the fold of `SqlRouting`,
the cardinality of what a geometry ingest has left to do) use facts about
sets instead: a set of numbers has a least one, and removing an element of a
finite set takes one from its cardinality.

## 6. Where the code and its documents disagree

One disagreement has a run. `CancelIsThreadSafe` (run `context_race`): a Cancel
during `newContext` makes the call panic on a nil context, which poisons the
driver, while `adbc.h:2133` says that AdbcStatementCancel "must always be
thread-safe (other operations are not)". (`go/pkg/gizmosql/driver.go:275`)

Four sentences of the documents are true only with a restriction the sentence does
not make. Each can be reproduced with the models here:

* `CHANGELOG.md:73-74` says that closing a statement while `ExecuteUpdate` is
  blocked cancels the update on the server. A Close after `beginCall` and
  before the server has started the update spends its one cancel on nothing.
  This is why `CloseUnblocksUpdate` asks that the update is running.
* `CHANGELOG.md:147-148` says that the cancel is best-effort and harmless for a
  query that already finished. It is harmless when nothing else runs in the
  session: set `OneResultAtATime` to FALSE in `QueryCancelDisciplined.cfg`,
  and a result whose statement has finished, released without reading its
  end, interrupts another stream (`ImplementsContract` is violated).
* `go/gizmosql/geoingest.go:98-99` says that the redirection to the interim table does not
  leak. After a geometry ingest, binding plain data and executing again writes to the
  interim table: check `last.did = "ingest" /\ last.schema = "plain" =>
  last.target # Interim` as an invariant of the run `statement`.
* `go/gizmosql/driver.go:190-191` says that the mirror holds what the inner statement holds.
  The ingest mode survives `SetSqlQuery` in the mirror and not in the inner
  statement, so a later geometry ingest may replace a table nobody asked to
  replace: check `IsGeoIngest /\ inner.ingest.target \in Table /\ inner.ingest.mode
  = Unset => ingest.mode = Unset` in the same run.

### Limits met while modelling

*Cancellation.* A call that begins after a Close of its statement has loaded
`inFlight`, also during the up to 5 seconds in which Close waits for its stream's
cancel, is not interrupted by that Close: it stays in `inFlight` for whoever closes or
cancels next. Check `pc[h] = "closeInner" /\ Latest(tgt[h], e) /\ Live(e) /\ e \notin
torn => Claimed(e)`, for all `h` and `e`, as an invariant of the run `concurrent`: it
fails in four steps. An execution may be asked for twice, as a call and as a stream,
when a Close falls between the two halves of `ExecuteQuery`; and `DrainedNotAsked` fails
when a Close falls between the last `Next` and its claim. When the implicit cancel has
gone unanswered for 5 seconds the driver goes on, and the cancel may hit the session's
next statement.

*Statements and ingest.* `dropInterim` uses the caller's context, so an ingest whose
context ends after its last statement succeeds and leaves its interim table in the
session, as does one whose DROP fails: its error is ignored. A
cancel that falls between two statements of a geometry ingest interrupts neither.
`ExecuteQuery` with an ingest target does not look for geometry and ingests it as
BLOB.

*Handles.* A `ConnectionInit` that fails after `Open` cannot be tried again ("already
initialized") and leaves the connection usable with some of its options. A
`DatabaseRelease` does not check that no connections exist. A metadata call on a
connection ends the stream of an earlier one, because each call cancels its handle's
previous context. The stream callbacks do not look at `globalPoison`; whether they
are among the "calls to driver" that "will fail" is left open by the comment.

*Errors, table and options.* `setErrWithDetails` overwrites an error the client did
not release, which `setErr` releases; `LostOnlyByReuse` says that nothing else
leaks. An error that is only a vendor code takes the struct's request for
details away until the struct is initialised again. `private_data` stays NULL in
an error set by `setErr`, so it does not tell whether the struct holds one.
`AdbcErrorFromArrayStream` writes a status of OK for a stream without an error.
`release` of `AdbcDriver` is never set. The symbols of the statistics functions do
not zero their results, which is without effect because these functions always
fail; through the table nothing zeroes them, also for the others. `setErr` takes
the message for its format. A NULL buffer with a non-zero length is a panic.

*OAuth.* `options.go:35` says that the timeout bounds the whole flow. It starts
after the session was initiated, is looked at between polls only, and the HTTP
requests have none of their own; one failed poll ends the flow. In Python an HTTPS
answer that is no JSON ends discovery without trying HTTP.

*SQL.* A `/*` in a literal can hide a RETURNING clause; `DELETE/**/FROM` is left
to its reader; a single quote in a quoted name can hide RETURNING as well; a text of
only no-break spaces panics in Go (and poisons the driver), where the Python copy
returns False.

*Python.* The `get_info` cache is an attribute of the class: the connections of a
process share the answers of the first.

## 7. Not modelled, and why

* The upstream Flight SQL driver, gRPC, GizmoSQL and DuckDB are external: each is
  modelled by what the code here relies on.
* Database options and URIs: option maps and URIs are rewritten by pure functions
  of one call, and what they depend on is how names and URLs are spelt.
* Python DB-API layer: a thin subclass of the external `adbc_driver_manager`. Its
  steps between two external calls are single assignments; its one shared state,
  the `get_info` cache, is under a lock.
* Connection wrapper: `NewStatement` and `CancelQuery` delegate (their effect is in
  `QueryCancel`), `GetInfo` is under a mutex. `captureDialOptions` runs before any
  statement exists.
* Logging filter, driver lookup, option names, identifier quoting, builds and
  packaging: no state to interleave.
* Memory order weaker than interleaving.

## 8. Plan

Done: every component with state of its own has a module, and every safety property
of the runs has a proof. What is left, in this order:

1. `PyDbapi`: cursors over `CancelContract`, if the layer gets state of its own.
2. `SqlReader` at the level of letters (dollar quotes, `E''` strings), if the
   driver's expressions learn about them.
3. What the driver may add to settle section 6: a cancel that waits for the
   server to have started, and a lock around `newContext`.

The number of runs and of their properties is kept small: each asks a question no
other asks, and each property has a mutant.
