----------------------------- MODULE GeoIngest -----------------------------
(***************************************************************************)
(* executeGeoIngest (go/gizmosql/geoingest.go): one geometry ingest, as    *)
(* the sequence of server statements it is.  Statement models how it is    *)
(* reached; here the options of inner have been redirected already.        *)
(*                                                                         *)
(* The caller's context can end, and a Close or CancelQuery can interrupt  *)
(* the session's active statement, between any two steps.  A context that  *)
(* ends, or a connection that breaks, ends the client side of a call; the  *)
(* server may still run the statement it was sent (cancel.go, file         *)
(* comment).  The server is external: one SQL statement takes effect       *)
(* completely or not at all, and a session runs one at a time.             *)
(*                                                                         *)
(* Rows are abstracted to who brought them: "old" ones were in the target  *)
(* before, "new" ones are the bound data.                                  *)
(***************************************************************************)
EXTENDS FiniteSets, Naturals, Sequences

CONSTANTS
  Column, \* the geoarrow columns of the bound data
  None    \* no column, no statement

Mode == {"create", "append", "replace", "create_append"}

\* A table is its rows and those of its columns that are BLOB, not GEOMETRY.
Tables  == [exists : BOOLEAN, rows : Seq({"old", "new"}), blob : SUBSET Column]
NoTable == [exists |-> FALSE, rows |-> << >>, blob |-> {}]
Table(rows, blob) == [exists |-> TRUE, rows |-> rows, blob |-> blob]

Kind      == {"ingest", "inspect", "alter", "create", "create empty", "append",
              "replace", "drop"}
Statement == [kind : Kind, column : Column \cup {None}]

ASSUME GeoIngestAssumption ==
  /\ Column # {} /\ IsFiniteSet(Column)
  /\ None \notin Column \cup Statement

VARIABLES
  mode,     \* the ingest mode the caller set
  before,   \* the target as the ingest found it
  target,   \* the target table
  interim,  \* the interim table
  pc,       \* the stage executeGeoIngest is in
  todo,     \* BLOB columns still to be altered
  stmts,    \* statements still to send to materialize the target
  call,     \* the driver's RPC: "none", "sent", "ok" or "failed"
  running,  \* the statement the server is running, or None
  ctx,      \* the caller's context: "live" or "done"
  cancel,   \* the cancel of a Close: "none", "idle", or the Kind it interrupted
  verdict   \* what the call will return: "none", "ok" or "error"

driver == << mode, before, pc, todo, stmts, verdict >>
vars   == << driver, target, interim, call, running, ctx, cancel >>

Init ==
  /\ mode \in Mode
  /\ before \in {NoTable, Table(<< "old" >>, {})}
  /\ target = before
  /\ interim = NoTable
  /\ pc = "ingest"
  /\ todo = {}
  /\ stmts = << >>
  /\ call = "none"
  /\ running = None
  /\ ctx = "live"
  /\ cancel = "none"
  /\ verdict = "none"

Ended == pc \in {"done", "abandoned"}

-----------------------------------------------------------------------------
(***************************************************************************)
(* The driver.                                                             *)
(***************************************************************************)
Sent(kind, column) ==
  /\ running' = [kind |-> kind, column |-> column]
  /\ call' = "sent"

\* The next server call of this stage; the two loops take their next element.
\* It waits for a statement of the session that the driver has given up.
Send ==
  /\ call = "none"
  /\ ctx = "live"
  /\ running = None
  /\ \/ pc \in {"ingest", "inspect", "drop"} /\ Sent(pc, None) /\ UNCHANGED << todo, stmts >>
     \/ pc = "alter" /\ \E c \in todo : Sent("alter", c) /\ todo' = todo \ {c}
                     /\ UNCHANGED stmts
     \/ pc = "materialize" /\ Sent(Head(stmts), None) /\ stmts' = Tail(stmts)
                           /\ UNCHANGED todo
  /\ UNCHANGED << mode, before, pc, verdict, target, interim, ctx, cancel >>

\* A call on a context that is done fails before it reaches the server.
SendFails ==
  /\ call = "none"
  /\ ctx = "done"
  /\ ~Ended
  /\ call' = "failed"
  /\ UNCHANGED << driver, target, interim, running, ctx, cancel >>

Materialize(m) ==
  IF m = "create_append" THEN << "create empty", "append" >> ELSE << m >>

\* Faulty: every server is taken for one that makes GEOMETRY columns itself.
NoneTyped == todo \ todo

BlobTyped == interim.blob

Stage(columns, work) ==
  CASE columns # {} -> "alter"
    [] columns = {} /\ work # << >> -> "materialize"
    [] OTHER -> "drop"

Advance ==
  /\ call = "ok"
  /\ call' = "none"
  /\ todo' = IF pc = "inspect" THEN BlobTyped ELSE todo
  /\ stmts' = IF pc = "inspect" THEN Materialize(mode) ELSE stmts
  /\ pc' = CASE pc = "ingest" -> "inspect"
             [] pc = "drop"   -> "done"
             [] OTHER         -> Stage(todo', stmts')
  /\ verdict' = IF pc' = "drop" THEN "ok" ELSE verdict
  /\ UNCHANGED << mode, before, target, interim, running, ctx, cancel >>

\* Faulty: an error after the bulk load returns at once ...
ReturnsAtOnce == "done"

\* ... or the DROP is tried until it succeeds ...
RetriesDrop == "drop"

\* ... or the remaining statements are run all the same.
CarriesOn == IF pc = "drop" THEN "done" ELSE Stage(todo, stmts)

AfterError == IF pc = "drop" THEN "done" ELSE "drop"

\* An error of the bulk load returns at once, a later one after dropInterim,
\* whose own error is ignored.
Fail ==
  /\ call = "failed"
  /\ call' = "none"
  /\ pc' = IF pc = "ingest" THEN "abandoned" ELSE AfterError
  /\ verdict' = IF pc = "drop" THEN verdict ELSE "error"
  /\ UNCHANGED << mode, before, todo, stmts, target, interim, running, ctx, cancel >>

-----------------------------------------------------------------------------
(***************************************************************************)
(* The server, and the rest of the client.                                 *)
(***************************************************************************)
Reply(answer) ==
  /\ running' = None
  /\ call' = IF call = "sent" THEN answer ELSE call

\* Faulty: the table of create_append is created with the data in it.
WithoutLimit == << "new" >>

Limit0 == << >>

Accepts(st) ==
  CASE st.kind = "create" -> ~target.exists
    [] st.kind = "append" -> target.exists /\ (target.blob = {} => interim.blob = {})
    [] OTHER              -> TRUE

TargetAfter(st) ==
  CASE st.kind \in {"create", "replace"} -> Table(<< "new" >>, interim.blob)
    [] st.kind = "create empty" -> IF target.exists THEN target
                                   ELSE Table(Limit0, interim.blob)
    [] st.kind = "append" -> [target EXCEPT !.rows = Append(@, "new")]
    [] OTHER -> target

\* GizmoSQL >= 1.37.0 makes GEOMETRY columns itself, older servers BLOB ones.
InterimAfter(st) ==
  CASE st.kind = "ingest" -> {Table(<< "new" >>, Column), Table(<< "new" >>, {})}
    [] st.kind = "alter"  -> {[interim EXCEPT !.blob = @ \ {st.column}]}
    [] st.kind = "drop"   -> {NoTable}
    [] OTHER              -> {interim}

ServerRuns ==
  /\ running # None
  /\ Accepts(running)
  /\ target' = TargetAfter(running)
  /\ interim' \in InterimAfter(running)
  /\ Reply("ok")
  /\ UNCHANGED << driver, ctx, cancel >>

\* Any statement may be refused; a bulk load that fails half way may have
\* created its table.
ServerRefuses ==
  /\ running # None
  /\ interim' \in {interim} \cup (IF running.kind = "ingest" THEN {Table(<< >>, Column)} ELSE {})
  /\ Reply("failed")
  /\ UNCHANGED << driver, target, ctx, cancel >>

\* The connection breaks under the call, whose statement the server has got.
CallBreaks ==
  /\ call = "sent"
  /\ call' = "failed"
  /\ UNCHANGED << driver, target, interim, running, ctx, cancel >>

ContextDone ==
  /\ ctx = "live"
  /\ ~Ended
  /\ ctx' = "done"
  /\ call' = IF call = "sent" THEN "failed" ELSE call
  /\ UNCHANGED << driver, target, interim, running, cancel >>

\* The one cancel the callState allows interrupts the statement the server is
\* running, if it is running one.
Interrupt ==
  /\ cancel = "none"
  /\ ~Ended
  /\ IF running = None
       THEN cancel' = "idle" /\ UNCHANGED << running, call >>
       ELSE cancel' = running.kind /\ Reply("failed")
  /\ UNCHANGED << driver, target, interim, ctx >>

Next ==
  \/ Send \/ SendFails \/ Advance \/ Fail
  \/ ServerRuns \/ ServerRefuses \/ CallBreaks \/ ContextDone \/ Interrupt

Spec == Init /\ [][Next]_vars

FairSpec ==
  /\ Spec
  /\ WF_vars(Send \/ SendFails \/ Advance \/ Fail)
  /\ WF_vars(ServerRuns \/ ServerRefuses)

-----------------------------------------------------------------------------
(***************************************************************************)
(* Properties.                                                             *)
(***************************************************************************)

\* The type invariant of the call, its context and the two tables.
TypeOK ==
  /\ mode \in Mode
  /\ {before, target, interim} \subseteq Tables
  /\ pc \in {"ingest", "inspect", "alter", "materialize", "drop", "done", "abandoned"}
  /\ todo \subseteq Column
  /\ stmts \in Seq(Kind)
  /\ call \in {"none", "sent", "ok", "failed"}
  /\ running \in Statement \cup {None}
  /\ ctx \in {"live", "done"}
  /\ cancel \in {"none", "idle"} \cup Kind
  /\ verdict \in {"none", "ok", "error"}

\* The rows the caller asked for.
RowsWanted ==
  IF mode \in {"append", "create_append"} THEN Append(before.rows, "new") ELSE << "new" >>

\* A call that returns without an error has ingested the data as its mode
\* says, into GEOMETRY columns, whichever version the server has.
SuccessIsComplete == verdict = "ok" => target = Table(RowsWanted, {})

\* Readers of the target see the ingest at once, also while it fails: the rows
\* of the target go from what was there to what was asked for in one step, and
\* at most an empty table comes before (create_append).
IngestIsAtomic ==
  [][ target' # target =>
        \/ target'.rows = RowsWanted /\ target.rows = before.rows
        \/ target'.rows = << >> /\ ~before.exists ]_vars

\* An ingest whose bulk load landed returns when its interim table is gone,
\* whichever later statement failed, or else when the DROP itself has failed:
\* refused, interrupted, cut off, or not sent because the context is done.
InterimIsDropped ==
  [][pc' = "done" /\ pc # "done" =>
       interim = NoTable \/ (pc = "drop" /\ call = "failed")]_vars

\* The call returns, whatever fails and whoever cancels.
IngestReturns == <>Ended

\* A cancel that interrupts a statement of the ingest, other than the final
\* DROP, ends the ingest with an error, and the target stays as it is from then
\* on.  (One that falls between two statements interrupts nothing.)
Interrupted == cancel \in Kind \ {"drop"}

InterruptedIngestStops ==
  [][Interrupted => target' = target /\ verdict' # "ok"]_vars
=============================================================================
