------------------------- MODULE Statement_proofs -------------------------
(***************************************************************************)
(* Proofs about Statement.  Three of its invariants are not inductive:     *)
(* what an execution does depends on inner, what the wrapper decides on    *)
(* its own copies, and the copies do not agree with inner at all times (a  *)
(* failed SetSqlQuery and a recreation leave them behind).  QueriesAgree   *)
(* and TargetsAgree say how far they may drift apart.                      *)
(***************************************************************************)
EXTENDS Statement, TLAPS

\* The query of inner is the wrapper's, or inner has none: a statement
\* recreated in a call that then failed.
QueriesAgree ==
  inner.query \in {Unset, IF query = Unset THEN Plan ELSE query}

\* inner has no ingest target the wrapper does not know of; where the wrapper
\* remembers one inner has lost, inner is fresh or holds a plan.
TargetsAgree ==
  /\ inner.ingest.target # Unset => ingest.target # Unset
  /\ ingest.target # Unset /\ inner.ingest.target = Unset => inner.query \notin Query

IInv ==
  /\ TypeOK
  /\ BookkeepingAgrees
  /\ QueriesAgree
  /\ TargetsAgree
  /\ NeverPoisoned
  /\ WritesAreEager
  /\ GeoUpdateIsRerouted

LEMMA InitIInv == Init => IInv
<1> SUFFICES ASSUME Init PROVE IInv
  OBVIOUS
<1>1. NoIngest \in Ingest
  BY DEF NoIngest, Ingest, Home
<1>2. TypeOK
  BY <1>1 DEF Init, TypeOK, FreshInner, Nothing
<1>3. QueriesAgree /\ TargetsAgree /\ BookkeepingAgrees /\ NeverPoisoned
  BY DEF Init, QueriesAgree, TargetsAgree, BookkeepingAgrees, NeverPoisoned,
         FreshInner, NoIngest
<1>4. WritesAreEager /\ GeoUpdateIsRerouted
  BY DEF Init, WritesAreEager, GeoUpdateIsRerouted, Nothing
<1> QED
  BY <1>2, <1>3, <1>4 DEF IInv
InnerType == [query : Query \cup {Plan, Unset}, prepared : BOOLEAN,
              bound : {"staged", "parameters", Unset},
              schema : Schema \cup {Unset},
              option : OptionValue \cup {Unset}, ingest : Ingest]

\* Calls that execute nothing leave the last execution's report alone.
LEMMA ReportKept ==
  ASSUME WritesAreEager, GeoUpdateIsRerouted, last' = last
  PROVE  WritesAreEager' /\ GeoUpdateIsRerouted'
BY DEF WritesAreEager, GeoUpdateIsRerouted

LEMMA SetOptionStep ==
  ASSUME IInv, NEW v \in OptionValue, SetOption(v)
  PROVE  IInv'
<1> USE DEF IInv, SetOption
<1>1. TypeOK'
  BY DEF TypeOK
<1>2. BookkeepingAgrees'
  BY DEF TypeOK, BookkeepingAgrees
<1>3. QueriesAgree' /\ TargetsAgree' /\ NeverPoisoned'
  BY DEF TypeOK, QueriesAgree, TargetsAgree, NeverPoisoned
<1> QED
  BY <1>1, <1>2, <1>3, ReportKept

LEMMA SetIngestOptionStep ==
  ASSUME IInv, NEW field \in {"target", "mode", "home"}, NEW v,
         field = "target" => v \in Table,
         field = "mode" => v \in Mode,
         field = "home" => v \in Home,
         SetIngestOption(field, v)
  PROVE  IInv'
<1> USE DEF IInv, SetIngestOption
<1>1. ingest' \in Ingest /\ inner'.ingest \in Ingest
  BY DEF TypeOK, Ingest
<1>2. TypeOK'
  BY <1>1 DEF TypeOK
<1>3. BookkeepingAgrees'
  BY DEF TypeOK, BookkeepingAgrees
<1>4. QueriesAgree'
  BY DEF TypeOK, QueriesAgree
<1>5. CASE field = "target"
  <2>1. ingest'.target # Unset /\ inner'.ingest.target # Unset
    BY <1>5, StatementAssumption DEF TypeOK, Ingest
  <2> QED
    BY <2>1, <1>2, <1>3, <1>4, ReportKept DEF TargetsAgree, NeverPoisoned
<1>6. CASE field # "target"
  <2>1. ingest'.target = ingest.target /\ inner'.ingest.target = inner.ingest.target
    BY <1>6 DEF TypeOK, Ingest
  <2>2. TargetsAgree' /\ NeverPoisoned'
    BY <2>1 DEF TypeOK, TargetsAgree, NeverPoisoned
  <2> QED
    BY <2>2, <1>2, <1>3, <1>4, ReportKept
<1> QED
  BY <1>5, <1>6

\* A recreated statement knows the options and nothing else.
LEMMA RecreatedIsFresh ==
  ASSUME TypeOK
  PROVE  /\ Recreated \in InnerType
         /\ Recreated.option = setOpts /\ Recreated.prepared = FALSE
         /\ Recreated.bound = Unset /\ Recreated.schema = Unset
         /\ Recreated.ingest.target = Unset
<1>1. NoIngest \in Ingest
  BY DEF NoIngest, Ingest, Home
<1>2. setOpts \in OptionValue \cup {Unset}
  BY DEF TypeOK
<1> QED
  BY <1>1, <1>2 DEF Recreated, FreshInner, InnerType, NoIngest

\* What the recreation of inner and the query it is then given leave.
LEMMA SetQueryStep ==
  ASSUME IInv, NEW q \in Query \cup {Plan}, NEW f \in Failure \cup {Ok},
         SetQuery(q, f)
  PROVE  /\ BookkeepingAgrees'
         /\ inner' \in InnerType
         /\ hasBound' \in BOOLEAN /\ prepared' \in BOOLEAN
         /\ boundSchema' \in Schema \cup {Unset}
         /\ f = Ok => /\ inner'.query = q
                      /\ inner'.bound = Unset
                      /\ inner'.ingest.target \in {Unset, inner.ingest.target}
                      /\ q # Plan => inner'.ingest.target = Unset
         /\ f # Ok => inner' = inner \/ inner' = Recreated
<1> DEFINE st == IF Recreates(f) THEN Recreated ELSE inner
<1> USE DEF IInv, SetQuery
<1>1. st \in InnerType
  BY RecreatedIsFresh DEF TypeOK, InnerType
<1>2. /\ st.option = setOpts
      /\ st.bound # Unset <=> hasBound /\ ~Recreates(f)
      /\ st.schema = IF Recreates(f) THEN Unset ELSE boundSchema
      /\ st.prepared = (prepared /\ ~Recreates(f))
  <2>1. CASE Recreates(f)
    BY <2>1, RecreatedIsFresh
  <2>2. CASE ~Recreates(f)
    BY <2>2 DEF TypeOK, BookkeepingAgrees
  <2> QED
    BY <2>1, <2>2
<1>3. inner' = IF f = Ok THEN InnerWithQuery(st, q) ELSE st
  OBVIOUS
<1> HIDE DEF st
<1>4. InnerWithQuery(st, q) \in InnerType
  BY <1>1 DEF InnerWithQuery, InnerType, Ingest
<1>5. /\ InnerWithQuery(st, q).option = st.option
      /\ InnerWithQuery(st, q).bound = st.bound
      /\ InnerWithQuery(st, q).schema = st.schema
      /\ InnerWithQuery(st, q).prepared = FALSE
      /\ InnerWithQuery(st, q).query = q
      /\ InnerWithQuery(st, q).ingest.target \in {Unset, st.ingest.target}
      /\ q # Plan => InnerWithQuery(st, q).ingest.target = Unset
  BY <1>1 DEF InnerWithQuery, InnerType, Ingest
<1>6. inner' \in InnerType
  BY <1>1, <1>3, <1>4
<1>7. hasBound' \in BOOLEAN /\ prepared' \in BOOLEAN
      /\ boundSchema' \in Schema \cup {Unset}
  BY DEF TypeOK
<1>8. BookkeepingAgrees'
  BY <1>2, <1>3, <1>5 DEF BookkeepingAgrees, TypeOK
<1>9. f = Ok => st.bound = Unset
  BY <1>2 DEF Recreates, Ok
<1>10. st.ingest.target \in {Unset, inner.ingest.target}
  BY DEF st, Recreated, FreshInner, NoIngest
<1>11. f # Ok => inner' = inner \/ inner' = Recreated
  BY <1>3 DEF st
<1> QED
  BY <1>3, <1>5, <1>6, <1>7, <1>8, <1>9, <1>10, <1>11
LEMMA SetSqlQueryStep ==
  ASSUME IInv, NEW q \in Query, NEW f \in Failure \cup {Ok}, SetSqlQuery(q, f)
  PROVE  IInv'
<1>1. SetQuery(q, f) /\ last' = last /\ setOpts' = setOpts
  BY DEF SetSqlQuery, SetQuery
<1>a. f = Ok => /\ inner'.query = q /\ inner'.ingest.target = Unset
                /\ inner'.bound = Unset
  BY <1>1, SetQueryStep, StatementAssumption
<1> USE DEF IInv
<1>2. query' = IF f = Ok THEN q ELSE query
  BY DEF SetSqlQuery
<1>3. ingest' = IF f = Ok THEN [ingest EXCEPT !.target = Unset] ELSE ingest
  BY DEF SetSqlQuery
<1>4. TypeOK'
  BY <1>1, <1>2, <1>3, SetQueryStep DEF TypeOK, InnerType, Ingest
<1>5. WritesAreEager' /\ GeoUpdateIsRerouted'
  BY <1>1, ReportKept
<1>6. CASE f = Ok
  <2>1. /\ inner'.query = q /\ inner'.ingest.target = Unset
        /\ inner'.bound = Unset
    BY <1>6, <1>a
  <2>2. ingest'.target = Unset
    BY <1>3, <1>6 DEF TypeOK, Ingest
  <2>3. QueriesAgree' /\ TargetsAgree' /\ NeverPoisoned'
    BY <2>1, <2>2, <1>2, <1>6, StatementAssumption
    DEF QueriesAgree, TargetsAgree, NeverPoisoned
  <2> QED
    BY <2>3, <1>1, <1>4, <1>5, SetQueryStep
<1>7. CASE f # Ok
  <2>1. inner' = inner \/ inner' = Recreated
    BY <1>1, <1>7, SetQueryStep
  <2>2. QueriesAgree' /\ TargetsAgree' /\ NeverPoisoned'
    BY <2>1, <1>2, <1>3, <1>7, StatementAssumption
    DEF QueriesAgree, TargetsAgree, NeverPoisoned, Recreated, FreshInner, NoIngest
  <2> QED
    BY <2>2, <1>1, <1>4, <1>5, SetQueryStep
<1> QED
  BY <1>6, <1>7

LEMMA SetSubstraitPlanStep ==
  ASSUME IInv, NEW f \in Failure \cup {Ok}, SetSubstraitPlan(f)
  PROVE  IInv'
<1>1. SetQuery(Plan, f) /\ last' = last /\ ingest' = ingest /\ setOpts' = setOpts
  BY DEF SetSubstraitPlan, SetQuery
<1>a. f = Ok => /\ inner'.query = Plan
                /\ inner'.ingest.target \in {Unset, inner.ingest.target}
  BY <1>1, SetQueryStep
<1> USE DEF IInv
<1>2. query' = IF f = Ok THEN Unset ELSE query
  BY DEF SetSubstraitPlan, NoQuery
<1>3. TypeOK'
  BY <1>1, <1>2, SetQueryStep DEF TypeOK, InnerType
<1>4. WritesAreEager' /\ GeoUpdateIsRerouted'
  BY <1>1, ReportKept
<1>5. CASE f = Ok
  <2>1. inner'.query = Plan /\ inner'.ingest.target \in {Unset, inner.ingest.target}
    BY <1>5, <1>a
  <2>2. QueriesAgree' /\ TargetsAgree' /\ NeverPoisoned'
    BY <2>1, <1>1, <1>2, <1>5, StatementAssumption
    DEF QueriesAgree, TargetsAgree, NeverPoisoned
  <2> QED
    BY <2>2, <1>1, <1>3, <1>4, SetQueryStep
<1>6. CASE f # Ok
  <2>1. inner' = inner \/ inner' = Recreated
    BY <1>1, <1>6, SetQueryStep
  <2>2. QueriesAgree' /\ TargetsAgree' /\ NeverPoisoned'
    BY <2>1, <1>1, <1>2, <1>6, StatementAssumption
    DEF QueriesAgree, TargetsAgree, NeverPoisoned, Recreated, FreshInner, NoIngest
  <2> QED
    BY <2>2, <1>1, <1>3, <1>4, SetQueryStep
<1> QED
  BY <1>5, <1>6

LEMMA PrepareStep ==
  ASSUME IInv, Prepare
  PROVE  IInv'
<1> USE DEF IInv, Prepare
<1>1. TypeOK'
  <2>1. inner' \in InnerType
    BY DEF TypeOK, InnerType
  <2> QED
    BY <2>1 DEF TypeOK, InnerType
<1>2. BookkeepingAgrees'
  BY DEF TypeOK, BookkeepingAgrees
<1>3. QueriesAgree' /\ TargetsAgree' /\ NeverPoisoned'
  BY DEF TypeOK, QueriesAgree, TargetsAgree, NeverPoisoned
<1> QED
  BY <1>1, <1>2, <1>3, ReportKept

\* Data bound to a SQL query with no ingest pending becomes its parameters:
\* either it is prepared already, and inner agrees, or Bind prepares it.
LEMMA BindStep ==
  ASSUME IInv, NEW schema \in Schema, NEW ok \in BOOLEAN, Bind(schema, ok)
  PROVE  IInv'
<1> DEFINE st == [inner EXCEPT !.prepared = @ \/ AutoPrepares]
<1> USE DEF IInv, Bind
<1>1. st \in InnerType /\ st.prepared = (prepared \/ AutoPrepares)
  BY DEF TypeOK, InnerType, BookkeepingAgrees, AutoPrepares
<1>2. /\ st.query = inner.query /\ st.ingest = inner.ingest /\ st.bound = inner.bound
      /\ st.option = inner.option /\ st.schema = inner.schema
  BY DEF TypeOK
<1>3. inner' = IF ok THEN InnerBinds(st, schema) ELSE st
  OBVIOUS
<1> HIDE DEF st
<1>4. /\ InnerBinds(st, schema) \in InnerType
      /\ InnerBinds(st, schema).query = st.query
      /\ InnerBinds(st, schema).ingest = st.ingest
      /\ InnerBinds(st, schema).option = st.option
      /\ InnerBinds(st, schema).schema = schema
      /\ InnerBinds(st, schema).prepared = st.prepared
      /\ InnerBinds(st, schema).bound = IF st.prepared THEN "parameters" ELSE "staged"
  BY <1>1 DEF InnerBinds, InnerType
<1>5. TypeOK'
  BY <1>1, <1>3, <1>4 DEF TypeOK, InnerType, AutoPrepares
<1>6. BookkeepingAgrees'
  <2>1. /\ hasBound' = (hasBound \/ ok)
        /\ boundSchema' = IF ok THEN schema ELSE boundSchema
        /\ prepared' = st.prepared
        /\ setOpts' = setOpts
    BY <1>1
  <2> HIDE DEF IInv, Bind
  <2>2. BookkeepingAgrees
    BY DEF IInv
  <2>3. CASE ok
    <3>1. inner' = InnerBinds(st, schema)
      BY <2>3, <1>3
    <3>2. inner'.bound # Unset
      BY <3>1, <1>4, StatementAssumption
    <3> QED
      BY <2>1, <2>2, <2>3, <3>1, <3>2, <1>2, <1>4 DEF BookkeepingAgrees
  <2>4. CASE ~ok
    BY <2>1, <2>2, <2>4, <1>2, <1>3 DEF BookkeepingAgrees
  <2> QED
    BY <2>3, <2>4
<1>7. QueriesAgree' /\ TargetsAgree'
  BY <1>2, <1>3, <1>4 DEF QueriesAgree, TargetsAgree
<1>8. NeverPoisoned'
  <2>1. query # Unset /\ ingest.target = Unset => st.prepared
    BY <1>1 DEF AutoPrepares
  <2> QED
    BY <2>1, <1>2, <1>3, <1>4 DEF NeverPoisoned
<1> QED
  BY <1>5, <1>6, <1>7, <1>8, ReportKept

LEMMA ReportType ==
  ASSUME TypeOK, NEW call \in {"ExecuteUpdate", "ExecuteQuery"},
         NEW did \in {"run", "lazy", "ingest", "error", "poisoned"}
  PROVE  Report(call, did) \in
           [call : {"none", "ExecuteUpdate", "ExecuteQuery"},
            did : {"nothing", "run", "lazy", "ingest", "error", "poisoned"},
            query : Query \cup {Plan, Unset},
            target : Table \cup {Interim, Unset},
            schema : Schema \cup {Unset}]
BY DEF TypeOK, Ingest, Report

LEMMA ExecuteUpdateStep ==
  ASSUME IInv, ExecuteUpdate
  PROVE  IInv'
<1> USE DEF IInv
<1>1. PICK did \in {InnerRuns(inner, "run"), "error"} : last' = Report("ExecuteUpdate", did)
  BY DEF ExecuteUpdate
<1>2. UNCHANGED << query, hasBound, boundSchema, prepared, setOpts, ingest, inner >>
  BY DEF ExecuteUpdate
<1>3. did \in {"run", "ingest", "error", "poisoned"}
  BY DEF InnerRuns
<1>4. TypeOK'
  BY <1>1, <1>2, <1>3, ReportType DEF TypeOK
<1>5. WritesAreEager'
  BY <1>1, <1>3 DEF WritesAreEager, Report
<1>6. did = "ingest" /\ inner.schema = "geo" => FALSE
  BY StatementAssumption
  DEF InnerRuns, ExecuteUpdate, IsGeoIngest, BookkeepingAgrees, TargetsAgree
<1>7. GeoUpdateIsRerouted'
  BY <1>1, <1>6 DEF GeoUpdateIsRerouted, Report
<1> QED
  BY <1>2, <1>4, <1>5, <1>7
  DEF BookkeepingAgrees, QueriesAgree, TargetsAgree, NeverPoisoned

LEMMA GeoIngestUpdateStep ==
  ASSUME IInv, NEW n \in 0..3, NEW ok \in BOOLEAN, GeoIngestUpdate(n, ok)
  PROVE  IInv'
<1> USE DEF IInv, GeoIngestUpdate
<1>1. Redirected(n) \in Ingest
  BY StatementAssumption DEF TypeOK, Redirected, Ingest, Home
<1>2. inner' \in InnerType /\ inner'.ingest = Redirected(n)
      /\ inner'.query = inner.query /\ inner'.bound = inner.bound
      /\ inner'.prepared = inner.prepared /\ inner'.schema = inner.schema
      /\ inner'.option = inner.option
  BY <1>1 DEF TypeOK, InnerType
<1>3. last' = [Report("ExecuteUpdate", IF ok THEN "ingest" ELSE "error")
                EXCEPT !.target = Redirected(n).target]
  OBVIOUS
<1>4. TypeOK'
  <2>1. Redirected(n).target \in Table \cup {Interim, Unset}
    BY <1>1 DEF Ingest
  <2> QED
    BY <2>1, <1>2, <1>3, ReportType DEF TypeOK, InnerType
<1>5. WritesAreEager'
  BY <1>3 DEF WritesAreEager, Report
<1>6. ok => Redirected(n).target = Interim
  BY DEF Redirected
<1>7. GeoUpdateIsRerouted'
  BY <1>3, <1>6 DEF GeoUpdateIsRerouted, Report
<1>8. ingest.target # Unset /\ ingest' = ingest
  BY DEF IsGeoIngest
<1>9. inner'.ingest.target = Unset => inner.ingest.target = Unset
  BY <1>2, StatementAssumption DEF Redirected
<1>10. QueriesAgree' /\ TargetsAgree' /\ NeverPoisoned' /\ BookkeepingAgrees'
  BY <1>2, <1>8, <1>9 DEF QueriesAgree, TargetsAgree, NeverPoisoned, BookkeepingAgrees
<1> QED
  BY <1>4, <1>5, <1>7, <1>10

\* ExecuteQuery decides on the wrapper's query, inner runs its own.
LEMMA ExecuteQueryStep ==
  ASSUME IInv, ExecuteQuery
  PROVE  IInv'
<1> DEFINE how == IF Delegates \/ Class[query] = "select" THEN "lazy" ELSE "run"
<1> USE DEF IInv
<1>1. PICK did \in {InnerRuns(inner, how), "error"} : last' = Report("ExecuteQuery", did)
  BY DEF ExecuteQuery
<1>2. UNCHANGED << query, hasBound, boundSchema, prepared, setOpts, ingest, inner >>
  BY DEF ExecuteQuery
<1>3. did \in {"run", "lazy", "ingest", "error", "poisoned"}
  BY DEF InnerRuns
<1>4. TypeOK'
  BY <1>1, <1>2, <1>3, ReportType DEF TypeOK
<1>5. ASSUME did = "lazy", inner.query \in Query
      PROVE  Class[inner.query] = "select"
  <2>1. inner.ingest.target = Unset /\ how = "lazy"
    BY <1>5 DEF InnerRuns
  <2>2. query = inner.query /\ query # Unset
    BY <1>5, StatementAssumption DEF QueriesAgree
  <2>3. ingest.target = Unset
    BY <1>5, <2>1 DEF TargetsAgree
  <2> QED
    BY <2>1, <2>2, <2>3 DEF Delegates
<1>6. WritesAreEager'
  BY <1>1, <1>5 DEF WritesAreEager, Report
<1>7. GeoUpdateIsRerouted'
  BY <1>1 DEF GeoUpdateIsRerouted, Report
<1> QED
  BY <1>2, <1>4, <1>6, <1>7
  DEF BookkeepingAgrees, QueriesAgree, TargetsAgree, NeverPoisoned
LEMMA StepIInv == IInv /\ [Next]_vars => IInv'
<1> SUFFICES ASSUME IInv, [Next]_vars PROVE IInv'
  OBVIOUS
<1>1. CASE SetAnyOption
  <2>1. ASSUME NEW v \in OptionValue, SetOption(v) PROVE IInv'
    BY <2>1, SetOptionStep
  <2>2. ASSUME NEW t \in Table, SetIngestOption("target", t) PROVE IInv'
    BY <2>2, SetIngestOptionStep
  <2>3. ASSUME NEW m \in Mode, SetIngestOption("mode", m) PROVE IInv'
    BY <2>3, SetIngestOptionStep
  <2>4. ASSUME NEW h \in Home, SetIngestOption("home", h) PROVE IInv'
    BY <2>4, SetIngestOptionStep
  <2> QED
    BY <1>1, <2>1, <2>2, <2>3, <2>4 DEF SetAnyOption
<1>2. CASE SetAnyQuery
  BY <1>2, SetSqlQueryStep, SetSubstraitPlanStep DEF SetAnyQuery
<1>3. CASE Prepare
  BY <1>3, PrepareStep
<1>4. CASE BindAny
  BY <1>4, BindStep DEF BindAny
<1>5. CASE Execute
  BY <1>5, ExecuteUpdateStep, GeoIngestUpdateStep, ExecuteQueryStep DEF Execute
<1>6. CASE UNCHANGED vars
  BY <1>6 DEF vars, IInv, TypeOK, BookkeepingAgrees, QueriesAgree, TargetsAgree,
              NeverPoisoned, WritesAreEager, GeoUpdateIsRerouted
<1> QED
  BY <1>1, <1>2, <1>3, <1>4, <1>5, <1>6 DEF Next

\* The inductive invariant holds of every statement, for any queries, tables,
\* modes and options, and wherever its calls fail.
THEOREM Invariance == Spec => []IInv
BY InitIInv, StepIInv, PTL DEF Spec

\* The wrapper's and the embedded statement's state keep their types.
THEOREM TypeCorrect == Spec => []TypeOK
<1>1. IInv => TypeOK
  BY DEF IInv
<1> QED
  BY <1>1, Invariance, PTL

\* The wrapper's bookkeeping of bound data, preparation and options is true of
\* the embedded statement, recreated or not.
THEOREM BookkeepingCorrect == Spec => []BookkeepingAgrees
<1>1. IInv => BookkeepingAgrees
  BY DEF IInv
<1> QED
  BY <1>1, Invariance, PTL

\* No SQL statement that writes is left for its reader to execute.
THEOREM WritesEager == Spec => []WritesAreEager
<1>1. IInv => WritesAreEager
  BY DEF IInv
<1> QED
  BY <1>1, Invariance, PTL

\* No reuse of a statement leaves staged ingest data under a SQL query.
THEOREM NotPoisoned == Spec => []NeverPoisoned
<1>1. IInv => NeverPoisoned
  BY DEF IInv
<1> QED
  BY <1>1, Invariance, PTL

\* ExecuteUpdate never ingests geometry columns past the interim table.
THEOREM GeoRerouted == Spec => []GeoUpdateIsRerouted
<1>1. IInv => GeoUpdateIsRerouted
  BY DEF IInv
<1> QED
  BY <1>1, Invariance, PTL
-----------------------------------------------------------------------------
(***************************************************************************)
(* What a client that looks only at the calls that succeeded may rely on.  *)
(***************************************************************************)

\* A target of inner is the one the wrapper remembers, or the interim table that
\* a geometry ingest has put in its place.
TargetIsNamed == inner.ingest.target \in {Unset, Interim, ingest.target}

LEMMA TargetStep ==
  ASSUME TypeOK, TargetIsNamed, [Next]_vars
  PROVE  TargetIsNamed'
<1> USE DEF TargetIsNamed
<1>1. inner.ingest \in Ingest /\ ingest \in Ingest
  BY DEF TypeOK
<1>2. CASE SetAnyOption
  <2>1. ASSUME NEW v \in OptionValue, SetOption(v) PROVE TargetIsNamed'
    BY <2>1 DEF SetOption, TypeOK
  <2>2. ASSUME NEW t \in Table, SetIngestOption("target", t) PROVE TargetIsNamed'
    BY <1>1, <2>2 DEF SetIngestOption, TypeOK, Ingest
  <2>3. ASSUME NEW field \in {"mode", "home"}, NEW v, SetIngestOption(field, v)
        PROVE  TargetIsNamed'
    BY <1>1, <2>3 DEF SetIngestOption, TypeOK, Ingest
  <2> QED
    BY <1>2, <2>1, <2>2, <2>3 DEF SetAnyOption
<1>3. CASE SetAnyQuery
  <2>1. PICK q \in Query \cup {Plan}, f \in Failure \cup {Ok} :
          /\ SetQuery(q, f)
          /\ \/ q # Plan /\ (f = Ok => ingest'.target = Unset)
             \/ q = Plan
          /\ f # Ok \/ q = Plan => ingest' = ingest
    <3>1. ASSUME NEW q \in Query, NEW f \in Failure \cup {Ok}, SetSqlQuery(q, f)
          PROVE  /\ q # Plan /\ SetQuery(q, f)
                 /\ f = Ok => ingest'.target = Unset
                 /\ f # Ok => ingest' = ingest
      BY <1>1, <3>1, StatementAssumption DEF SetSqlQuery, Ingest
    <3>2. ASSUME NEW f \in Failure \cup {Ok}, SetSubstraitPlan(f)
          PROVE  SetQuery(Plan, f) /\ ingest' = ingest
      BY <3>2 DEF SetSubstraitPlan
    <3> QED
      BY <1>3, <3>1, <3>2 DEF SetAnyQuery
  <2> DEFINE st == IF Recreates(f) THEN Recreated ELSE inner
  <2>2. inner' = IF f = Ok THEN InnerWithQuery(st, q) ELSE st
    BY <2>1 DEF SetQuery
  <2>3. st.ingest.target \in {Unset, Interim, ingest.target}
    BY RecreatedIsFresh DEF TargetIsNamed
  <2>4. st \in InnerType
    BY RecreatedIsFresh DEF TypeOK, InnerType
  <2> HIDE DEF st
  <2>5. InnerWithQuery(st, q).ingest.target = IF q = Plan THEN st.ingest.target ELSE Unset
    BY <2>4 DEF InnerWithQuery, InnerType, Ingest
  <2> QED
    BY <2>1, <2>2, <2>3, <2>5
<1>4. CASE Prepare
  BY <1>4 DEF Prepare, TypeOK
<1>5. CASE BindAny
  <2>1. PICK schema \in Schema, ok \in BOOLEAN : Bind(schema, ok)
    BY <1>5 DEF BindAny
  <2>2. inner'.ingest = inner.ingest
    BY <2>1 DEF Bind, InnerBinds, TypeOK
  <2> QED
    BY <2>1, <2>2 DEF Bind
<1>6. CASE Execute
  <2>1. ASSUME NEW n \in 0 .. 3, NEW ok \in BOOLEAN, GeoIngestUpdate(n, ok)
        PROVE  TargetIsNamed'
    BY <1>1, <2>1 DEF GeoIngestUpdate, Redirected, TypeOK
  <2>2. CASE ExecuteUpdate \/ ExecuteQuery
    BY <2>2 DEF ExecuteUpdate, ExecuteQuery
  <2> QED
    BY <1>6, <2>1, <2>2 DEF Execute
<1>7. CASE UNCHANGED vars
  BY <1>7 DEF vars
<1> QED
  BY <1>2, <1>3, <1>4, <1>5, <1>6, <1>7 DEF Next

LEMMA TargetInvariance == Spec => []TargetIsNamed
<1>1. Init => TargetIsNamed
  BY DEF Init, TargetIsNamed, FreshInner, NoIngest
<1> QED
  BY <1>1, TargetStep, TypeCorrect, PTL DEF Spec

\* A schema is remembered only of data that is bound.
SchemaIsBound == boundSchema # Unset => hasBound

LEMMA SchemaInvariance == Spec => []SchemaIsBound
<1>1. Init => SchemaIsBound
  BY DEF Init, SchemaIsBound
<1>2. ASSUME SchemaIsBound, [Next]_vars PROVE SchemaIsBound'
  <2>1. ASSUME NEW q, NEW f, SetQuery(q, f) PROVE SchemaIsBound'
    BY <1>2, <2>1 DEF SchemaIsBound, SetQuery
  <2>2. ASSUME NEW schema \in Schema, NEW ok \in BOOLEAN, Bind(schema, ok)
        PROVE  SchemaIsBound'
    BY <1>2, <2>2 DEF SchemaIsBound, Bind
  <2>3. ASSUME UNCHANGED << hasBound, boundSchema >> PROVE SchemaIsBound'
    BY <1>2, <2>3 DEF SchemaIsBound
  <2>4. CASE SetAnyQuery
    BY <2>1, <2>4 DEF SetAnyQuery, SetSqlQuery, SetSubstraitPlan
  <2>5. CASE BindAny
    BY <2>2, <2>5 DEF BindAny
  <2>6. CASE SetAnyOption \/ Prepare \/ Execute \/ UNCHANGED vars
    BY <2>3, <2>6 DEF SetAnyOption, SetOption, SetIngestOption, Prepare, Execute,
                      ExecuteUpdate, ExecuteQuery, GeoIngestUpdate, vars
  <2> QED
    BY <1>2, <2>4, <2>5, <2>6 DEF Next
<1> QED
  BY <1>1, <1>2, PTL DEF Spec

\* An execution runs the query or plan that was set last with success, or ingests
\* the data that was bound last into the table that was named last, or into the
\* interim table.  What inner holds of an earlier call never comes back, although
\* SetSqlQuery may have failed before or after inner was replaced.
ExecutesWhatWasSet ==
  [][Execute =>
       /\ last'.did \in {"run", "lazy"} =>
            last'.query = IF query = Unset THEN Plan ELSE query
       /\ last'.did = "ingest" =>
            /\ hasBound /\ last'.schema = boundSchema
            /\ ingest.target # Unset /\ last'.target \in {ingest.target, Interim}
       /\ last'.did = "poisoned" => query = Unset \/ ingest.target # Unset]_vars

\* What an execution does with inner as it is.
LEMMA RunsInner ==
  ASSUME NEW how \in {"run", "lazy"}
  PROVE  /\ InnerRuns(inner, how) \in {"run", "lazy"} => inner.query # Unset
         /\ InnerRuns(inner, how) = "ingest" =>
              inner.ingest.target # Unset /\ inner.bound # Unset
         /\ InnerRuns(inner, how) = "poisoned" =>
              inner.ingest.target = Unset /\ inner.bound = "staged"
BY DEF InnerRuns

\* Whatever failed before, an execution does what was asked of the statement last,
\* or fails.
THEOREM ExecutionCorrect == Spec => ExecutesWhatWasSet
<1> DEFINE Right ==
      /\ last'.did \in {"run", "lazy"} =>
           last'.query = IF query = Unset THEN Plan ELSE query
      /\ last'.did = "ingest" =>
           /\ hasBound /\ last'.schema = boundSchema
           /\ ingest.target # Unset /\ last'.target \in {ingest.target, Interim}
      /\ last'.did = "poisoned" => query = Unset \/ ingest.target # Unset
<1>1. ASSUME IInv, TargetIsNamed, SchemaIsBound, Execute
      PROVE  Right
  <2>1. /\ inner.query \in {Unset, IF query = Unset THEN Plan ELSE query}
        /\ hasBound = (inner.bound # Unset) /\ boundSchema = inner.schema
        /\ inner.ingest.target # Unset => ingest.target # Unset
        /\ inner.ingest.target \in {Unset, Interim, ingest.target}
        /\ query # Unset /\ ingest.target = Unset => inner.bound # "staged"
    BY <1>1 DEF IInv, QueriesAgree, BookkeepingAgrees, TargetsAgree, NeverPoisoned, TargetIsNamed
  <2>2. CASE ExecuteUpdate \/ ExecuteQuery
    <3>1. PICK how \in {"run", "lazy"} :
            \E call \in {"ExecuteUpdate", "ExecuteQuery"} :
              \E did \in {InnerRuns(inner, how), "error"} : last' = Report(call, did)
      BY <2>2 DEF ExecuteUpdate, ExecuteQuery
    <3>1a. PICK did \in {InnerRuns(inner, how), "error"} :
             \E call \in {"ExecuteUpdate", "ExecuteQuery"} : last' = Report(call, did)
      BY <3>1
    <3>2. /\ last'.did = did /\ last'.query = inner.query
          /\ last'.target = inner.ingest.target /\ last'.schema = inner.schema
      BY <3>1a DEF Report
    <3> QED
      BY <2>1, <3>2, RunsInner
  <2>3. ASSUME NEW n \in 0 .. 3, NEW ok \in BOOLEAN, GeoIngestUpdate(n, ok)
        PROVE  Right
    <3>1. /\ last'.did = (IF ok THEN "ingest" ELSE "error") /\ last'.schema = inner.schema
          /\ last'.target = Redirected(n).target /\ (ok => n = 3)
      BY <2>3 DEF GeoIngestUpdate, Report
    <3>2. ok => last'.target = Interim
      BY <3>1 DEF Redirected
    <3>3. ingest.target # Unset /\ boundSchema = "geo"
      BY <2>3 DEF GeoIngestUpdate, IsGeoIngest
    <3>4. hasBound
      BY <1>1, <3>3, StatementAssumption DEF SchemaIsBound
    <3> QED
      BY <2>1, <3>1, <3>2, <3>3, <3>4
  <2> QED
    BY <1>1, <2>2, <2>3 DEF Execute
<1>2. IInv /\ TargetIsNamed /\ SchemaIsBound /\ [Next]_vars => [Execute => Right]_vars
  BY <1>1
<1> QED
  BY <1>2, Invariance, TargetInvariance, SchemaInvariance, PTL DEF Spec, ExecutesWhatWasSet
=============================================================================
