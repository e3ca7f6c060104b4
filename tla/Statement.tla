----------------------------- MODULE Statement -----------------------------
(***************************************************************************)
(* One statement of the wrapper (type statement, go/gizmosql/driver.go)    *)
(* over the upstream Flight SQL statement it embeds, here "inner": query   *)
(* and plan, options, parameter binding, bulk ingest, execution routing,   *)
(* and the recreation of inner when a new query arrives on bound data.     *)
(*                                                                         *)
(* A statement is used by one goroutine (cancellation is QueryCancel's     *)
(* subject), so every method is one action.  Each call to inner or to the  *)
(* server may fail: the outcomes are parameters of the actions.            *)
(*                                                                         *)
(* Abstractions.  A query is a model value with a class, which is what     *)
(* sqlrouting.go computes.  The catalog, schema and temporary options of   *)
(* an ingest travel together, as its "home".  setOpts is a list replayed   *)
(* in order; it is modelled by what the replay leaves: the last value.     *)
(***************************************************************************)
EXTENDS Naturals

CONSTANTS
  Query,       \* SQL queries
  Class,       \* [Query -> {"select", "dml", "returning"}]
  Plan,        \* a Substrait plan
  Table,       \* ingest targets a caller names
  Interim,     \* the random interim table of a geometry ingest
  Mode,        \* ingest modes a caller sets, with "replace" among them
  OptionValue, \* values of the options that are not about ingest
  Unset        \* "", nil, no value

ASSUME StatementAssumption ==
  /\ Class \in [Query -> {"select", "dml", "returning"}]
  /\ Plan \notin Query
  /\ Interim \notin Table
  /\ "replace" \in Mode
  /\ Unset \notin Query \cup {Plan, Interim} \cup Table \cup Mode \cup OptionValue
  /\ Unset \notin {"staged", "parameters", "plain", "geo"}

VARIABLES
  query,       \* the last SetSqlQuery value; Unset for plans
  hasBound,    \* data is bound
  boundSchema, \* what its schema says: Unset, "plain", or "geo"
  prepared,    \* Prepare has run on the current inner statement
  setOpts,     \* the option to replay on a fresh inner statement
  ingest,      \* the ingest options as the wrapper mirrors them
  inner,       \* the upstream statement
  last         \* history: what the last execution did

vars == << query, hasBound, boundSchema, prepared, setOpts, ingest, inner, last >>

Schema == {"plain", "geo"}
Home   == {"default", "elsewhere", "temporary"}
Ingest == [target : Table \cup {Interim, Unset}, mode : Mode \cup {Unset},
           home : Home]

NoIngest == [target |-> Unset, mode |-> Unset, home |-> "default"]

(***************************************************************************)
(* The upstream statement, as the wrapper's comments and tests describe    *)
(* it.  Data bound while no statement is prepared is staged for ingest and *)
(* stays staged after the ingest; without a target it makes any execution  *)
(* fail ("must set IngestTargetTable before bulk ingestion").              *)
(***************************************************************************)
FreshInner == [query |-> Unset, prepared |-> FALSE, bound |-> Unset,
               schema |-> Unset, option |-> Unset, ingest |-> NoIngest]

InnerWithQuery(st, q) == [st EXCEPT !.query = q, !.prepared = FALSE,
  !.ingest.target = IF q = Plan THEN @ ELSE Unset]

InnerBinds(st, schema) == [st EXCEPT !.schema = schema,
  !.bound = IF st.prepared THEN "parameters" ELSE "staged"]

\* What an execution does when no call fails; `how` is "run" for DoPut and
\* "lazy" for the query path, whose reader executes the statement.
InnerRuns(st, how) ==
  IF st.ingest.target # Unset
    THEN IF st.bound = Unset THEN "error" ELSE "ingest"
    ELSE CASE st.bound = "staged" -> "poisoned"
           [] st.query = Unset    -> "error"
           [] OTHER               -> how

Nothing == [call |-> "none", did |-> "nothing", query |-> Unset,
            target |-> Unset, schema |-> Unset]

Report(call, did) ==
  [call |-> call, did |-> did, query |-> inner.query,
   target |-> inner.ingest.target, schema |-> inner.schema]

Init ==
  /\ query = Unset
  /\ hasBound = FALSE
  /\ boundSchema = Unset
  /\ prepared = FALSE
  /\ setOpts = Unset
  /\ ingest = NoIngest
  /\ inner = FreshInner
  /\ last = Nothing

-----------------------------------------------------------------------------
(***************************************************************************)
(* Options.  A key the inner statement refuses changes nothing.            *)
(***************************************************************************)

\* SetOption and its typed variants, for an option that is not an ingest key.
SetOption(v) ==
  /\ inner' = [inner EXCEPT !.option = v]
  /\ setOpts' = v
  /\ UNCHANGED << query, hasBound, boundSchema, prepared, ingest, last >>

\* An ingest key is forwarded and mirrored, and not recorded for replay.
SetIngestOption(field, v) ==
  /\ inner' = [inner EXCEPT !.ingest[field] = v]
  /\ ingest' = [ingest EXCEPT ![field] = v]
  /\ UNCHANGED << query, hasBound, boundSchema, prepared, setOpts, last >>

-----------------------------------------------------------------------------
(***************************************************************************)
(* Queries.  resetForNewQuery replaces inner by a fresh statement when     *)
(* data is bound.  A call fails in it before the swap ("fresh": the new    *)
(* statement or the replay), or after it, closing the old statement        *)
(* ("close"); or the inner statement refuses the query ("set").            *)
(***************************************************************************)
Failure == {"fresh", "close", "set"}
Ok      == "ok"

\* Faulty: the inner statement is always kept.
NeverRecreates(f) == f \notin Failure \cup {Ok}

Recreates(f) == hasBound /\ f # "fresh"

\* Faulty: the recreated statement starts without the recorded options.
RecreatedBare == FreshInner

Recreated == [FreshInner EXCEPT !.option = setOpts]

\* What SetSqlQuery and SetSubstraitPlan share: q reaches inner if f is Ok.
SetQuery(q, f) ==
  /\ hasBound \/ f \in {"set", Ok}
  /\ hasBound' = (hasBound /\ ~Recreates(f))
  /\ boundSchema' = IF Recreates(f) THEN Unset ELSE boundSchema
  /\ prepared' = (prepared /\ ~Recreates(f) /\ f # Ok)
  /\ LET st == IF Recreates(f) THEN Recreated ELSE inner
     IN  inner' = IF f = Ok THEN InnerWithQuery(st, q) ELSE st
  /\ UNCHANGED << setOpts, last >>

SetSqlQuery(q, f) ==
  /\ SetQuery(q, f)
  /\ query' = IF f = Ok THEN q ELSE query
  /\ ingest' = IF f = Ok THEN [ingest EXCEPT !.target = Unset] ELSE ingest

NoQuery == Unset

SetSubstraitPlan(f) ==
  /\ SetQuery(Plan, f)
  /\ query' = IF f = Ok THEN NoQuery ELSE query
  /\ UNCHANGED ingest

-----------------------------------------------------------------------------
(***************************************************************************)
(* Parameters and ingest data.                                             *)
(***************************************************************************)
Prepare ==
  /\ inner.query # Unset
  /\ inner' = [inner EXCEPT !.prepared = TRUE]
  /\ prepared' = TRUE
  /\ UNCHANGED << query, hasBound, boundSchema, setOpts, ingest, last >>

AutoPrepares == query # Unset /\ ingest.target = Unset /\ ~prepared

\* Bind and BindStream.  The implicit Prepare needs a query on inner, and
\* the binding can fail after it.
Bind(schema, ok) ==
  /\ AutoPrepares => inner.query # Unset
  /\ prepared' = (prepared \/ AutoPrepares)
  /\ LET st == [inner EXCEPT !.prepared = @ \/ AutoPrepares]
     IN  inner' = IF ok THEN InnerBinds(st, schema) ELSE st
  /\ hasBound' = (hasBound \/ ok)
  /\ boundSchema' = IF ok THEN schema ELSE boundSchema
  /\ UNCHANGED << query, setOpts, ingest, last >>

-----------------------------------------------------------------------------
(***************************************************************************)
(* Execution.  A call the server refuses ends in "error".                  *)
(***************************************************************************)

\* Faulty: geometry columns are ingested like any others.
NeverGeo == boundSchema \notin Schema \cup {Unset}

IsGeoIngest == ingest.target # Unset /\ boundSchema = "geo"

ExecuteUpdate ==
  /\ ~IsGeoIngest
  /\ \E did \in {InnerRuns(inner, "run"), "error"} :
       last' = Report("ExecuteUpdate", did)
  /\ UNCHANGED << query, hasBound, boundSchema, prepared, setOpts, ingest, inner >>

\* executeGeoIngest, seen from the statement: the options of inner are
\* redirected at the interim table, the first n of them when SetOption
\* refuses the next one.  GeoIngest models what follows.
Redirected(n) ==
  [target |-> IF n > 0 THEN Interim ELSE inner.ingest.target,
   mode   |-> IF n > 1 THEN "replace" ELSE inner.ingest.mode,
   home   |-> IF n > 2 THEN "temporary" ELSE inner.ingest.home]

GeoIngestUpdate(n, ok) ==
  /\ IsGeoIngest
  /\ n \in 0..3
  /\ ok => n = 3
  /\ inner' = [inner EXCEPT !.ingest = Redirected(n)]
  /\ last' = [Report("ExecuteUpdate", IF ok THEN "ingest" ELSE "error")
                EXCEPT !.target = Redirected(n).target]
  /\ UNCHANGED << query, hasBound, boundSchema, prepared, setOpts, ingest >>

\* Faulty: bound statements are left on the query path.
DelegatesBound == query = Unset \/ ingest.target # Unset \/ hasBound

Delegates == query = Unset \/ ingest.target # Unset

\* DDL/DML goes through DoPut and a RETURNING statement is materialized, so
\* both have run when ExecuteQuery returns; the rest is streamed.
ExecuteQuery ==
  /\ LET how == IF Delegates \/ Class[query] = "select" THEN "lazy" ELSE "run"
     IN  \E did \in {InnerRuns(inner, how), "error"} :
           last' = Report("ExecuteQuery", did)
  /\ UNCHANGED << query, hasBound, boundSchema, prepared, setOpts, ingest, inner >>

-----------------------------------------------------------------------------
SetAnyOption ==
  \/ \E v \in OptionValue : SetOption(v)
  \/ \E t \in Table : SetIngestOption("target", t)
  \/ \E m \in Mode : SetIngestOption("mode", m)
  \/ \E h \in Home : SetIngestOption("home", h)

SetAnyQuery ==
  \E f \in Failure \cup {Ok} :
    \/ \E q \in Query : SetSqlQuery(q, f)
    \/ SetSubstraitPlan(f)

BindAny == \E schema \in Schema, ok \in BOOLEAN : Bind(schema, ok)

Execute ==
  \/ ExecuteUpdate
  \/ \E n \in 0..3, ok \in BOOLEAN : GeoIngestUpdate(n, ok)
  \/ ExecuteQuery

Next ==
  \/ SetAnyOption
  \/ SetAnyQuery
  \/ Prepare
  \/ BindAny
  \/ Execute

Spec == Init /\ [][Next]_vars

-----------------------------------------------------------------------------
(***************************************************************************)
(* Properties.                                                             *)
(***************************************************************************)

\* The type invariant of the wrapper and of the statement it embeds.
TypeOK ==
  /\ query \in Query \cup {Unset}
  /\ hasBound \in BOOLEAN
  /\ boundSchema \in Schema \cup {Unset}
  /\ prepared \in BOOLEAN
  /\ setOpts \in OptionValue \cup {Unset}
  /\ ingest \in Ingest
  /\ inner \in [query : Query \cup {Plan, Unset}, prepared : BOOLEAN,
               bound : {"staged", "parameters", Unset},
               schema : Schema \cup {Unset},
               option : OptionValue \cup {Unset}, ingest : Ingest]
  /\ last \in [call : {"none", "ExecuteUpdate", "ExecuteQuery"},
              did : {"nothing", "run", "lazy", "ingest", "error", "poisoned"},
              query : Query \cup {Plan, Unset},
              target : Table \cup {Interim, Unset},
              schema : Schema \cup {Unset}]

\* What the wrapper believes of inner is true of it, through recreations and
\* calls that fail half way: whether data is bound and what its schema is,
\* whether the statement is prepared, and which options it has been given.
BookkeepingAgrees ==
  /\ hasBound = (inner.bound # Unset)
  /\ boundSchema = inner.schema
  /\ prepared = inner.prepared
  /\ setOpts = inner.option

\* A statement that writes is never left to a reader its caller may not read:
\* whatever ExecuteQuery left lazy is a SELECT or a plan (driver.go:151-172).
WritesAreEager ==
  last.did = "lazy" /\ last.query \in Query => Class[last.query] = "select"

\* A SQL query with no ingest pending never meets staged ingest data, the
\* "permanently poisoned" statement of resetForNewQuery's comment.
NeverPoisoned ==
  query # Unset /\ ingest.target = Unset => inner.bound # "staged"

\* Geometry data ingested by ExecuteUpdate goes through the interim table.
GeoUpdateIsRerouted ==
  last.call = "ExecuteUpdate" /\ last.did = "ingest" /\ last.schema = "geo"
    => last.target = Interim
=============================================================================
