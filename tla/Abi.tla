-------------------------------- MODULE Abi --------------------------------
(***************************************************************************)
(* The C ABI of the driver: a client loads the driver (DriverTable), calls *)
(* it, and keeps and releases the errors it gets (ErrorExport).            *)
(*                                                                         *)
(* What joins the two is the version.  A client of 1.0.0 has only AdbcError*)
(* structs of 1.0.0; a driver manager of a later version passes on those   *)
(* of applications of either.  Only who was given the table of 1.1.0 can   *)
(* read details.  (A client of the symbols behaves like one of the table.) *)
(***************************************************************************)
EXTENDS DriverTable, ErrorExport

vars == << tableVars, errorVars >>

\* The AdbcError structs that can reach the driver.
Usable == IF header < V110 THEN Old ELSE Error

Init == TableInit /\ ErrorInit

\* Refusing a version is a failed call of its own.
Load(v) ==
  \/ DriverInit(v) /\ UNCHANGED errorVars
  \/ \E h \in Usable, b \in Malloc(heap) :
       DriverInitRefuses(v) /\ CallFails(h, Other, b)

\* A call through the table.
Fails(h) ==
  /\ version # 0
  /\ \E g \in GoError, b \in Malloc(heap) : CallFails(h, g, b)
  /\ UNCHANGED tableVars

\* ErrorGetDetailCount, ErrorGetDetail
ReadsDetails(h) ==
  /\ slot["ErrorGetDetail"] = "ErrorGetDetail"
  /\ ClientReadsDetails(h)
  /\ UNCHANGED tableVars

ErrorOf(h) ==
  \/ ClientReleases(h) /\ UNCHANGED tableVars
  \/ \E v \in {Zero, PrivateData} : ClientInitializes(h, v) /\ UNCHANGED tableVars

StreamOf(x) ==
  /\ version # 0
  /\ \/ StreamOpens(x)
     \/ StreamReleases(x)
     \/ \E g \in GoError, a \in Malloc(heap) :
          \E b \in Malloc(heap \cup {a}) : StreamFails(x, g, a, b)
  /\ UNCHANGED tableVars

Succeeds(f, clean) == CallBySymbol(f, clean) /\ UNCHANGED errorVars

Next ==
  \/ \E v \in Version : Load(v)
  \/ \E f \in Fills, clean \in BOOLEAN : Succeeds(f, clean)
  \/ \E h \in Usable : Fails(h) \/ ReadsDetails(h) \/ ErrorOf(h)
  \/ \E x \in Stream : StreamOf(x)

Spec == Init /\ [][Next]_vars

-----------------------------------------------------------------------------
\* The type invariant: that of both parts.
TypeOK == TableTypeOK /\ ErrorTypeOK
=============================================================================
