---------------------------- MODULE DriverTable ----------------------------
(***************************************************************************)
(* How a client reaches the driver: through the table AdbcDriver that      *)
(* AdbcDriverGizmoSQLInit fills, as a driver manager does, or through the  *)
(* Adbc* symbols of utils.c.  Both lead to the exported GizmoSQL*          *)
(* functions, called here by the names of the table's fields.              *)
(*                                                                         *)
(* The struct is the client's, of the size its header says.  The loading   *)
(* protocol is that of adbc.h: ask for the latest version you know, and    *)
(* for the one before it when the driver refuses.                          *)
(***************************************************************************)
EXTENDS Naturals

CONSTANTS Version \* of the headers clients are compiled with

V100 == 1000000
V110 == 1001000

ASSUME VersionAssumption ==
  /\ Version \subseteq Nat /\ {V100, V110} \subseteq Version
  /\ \A v \in Version : v >= V100

VARIABLES
  header,  \* the version of the client's header
  refused, \* versions the driver has refused
  version, \* the version it has accepted, or 0
  slot,    \* the fields of the client's AdbcDriver
  dirty    \* functions that made Go write pointers over garbage

tableVars == << header, refused, version, slot, dirty >>

-----------------------------------------------------------------------------
(***************************************************************************)
(* The fields of the struct, by the revision that added them.              *)
(***************************************************************************)
Database100 ==
  {"DatabaseInit", "DatabaseNew", "DatabaseSetOption", "DatabaseRelease"}

Connection100 ==
  { "ConnectionCommit", "ConnectionGetInfo", "ConnectionGetObjects",
    "ConnectionGetTableSchema", "ConnectionGetTableTypes", "ConnectionInit",
    "ConnectionNew", "ConnectionSetOption", "ConnectionReadPartition",
    "ConnectionRelease", "ConnectionRollback" }

Statement100 ==
  { "StatementBind", "StatementBindStream", "StatementExecuteQuery",
    "StatementExecutePartitions", "StatementGetParameterSchema", "StatementNew",
    "StatementPrepare", "StatementRelease", "StatementSetOption",
    "StatementSetSqlQuery", "StatementSetSubstraitPlan" }

Error110 == {"ErrorGetDetailCount", "ErrorGetDetail", "ErrorFromArrayStream"}

Database110 ==
  { "DatabaseGetOption", "DatabaseGetOptionBytes", "DatabaseGetOptionDouble",
    "DatabaseGetOptionInt", "DatabaseSetOptionBytes", "DatabaseSetOptionDouble",
    "DatabaseSetOptionInt" }

Connection110 ==
  { "ConnectionCancel", "ConnectionGetOption", "ConnectionGetOptionBytes",
    "ConnectionGetOptionDouble", "ConnectionGetOptionInt",
    "ConnectionGetStatistics", "ConnectionGetStatisticNames",
    "ConnectionSetOptionBytes", "ConnectionSetOptionDouble",
    "ConnectionSetOptionInt" }

Statement110 ==
  { "StatementCancel", "StatementExecuteSchema", "StatementGetOption",
    "StatementGetOptionBytes", "StatementGetOptionDouble",
    "StatementGetOptionInt", "StatementSetOptionBytes",
    "StatementSetOptionDouble", "StatementSetOptionInt" }

Fields100 == {"release"} \cup Database100 \cup Connection100 \cup Statement100
Fields110 == Error110 \cup Database110 \cup Connection110 \cup Statement110
Field     == Fields100 \cup Fields110

\* ADBC_DRIVER_1_0_0_SIZE, ADBC_DRIVER_1_1_0_SIZE
InStruct(v) == IF v < V110 THEN Fields100 ELSE Field

\* The exported functions (utils.h): all fields but release.
Function == Field \ {"release"}

\* The callbacks of a stream that Go exports.
Callback == {"get_schema", "get_next"}

\* Those that fill a stream, a schema, an array or partitions.  Statistics are
\* missing: the Go connection has none, and their functions fail.
Fills ==
  Callback \cup
  { "ConnectionGetInfo", "ConnectionGetObjects", "ConnectionGetTableSchema",
    "ConnectionGetTableTypes", "ConnectionReadPartition",
    "StatementExecuteQuery", "StatementExecuteSchema",
    "StatementExecutePartitions", "StatementGetParameterSchema" }

-----------------------------------------------------------------------------
(***************************************************************************)
(* utils.c: what a symbol forwards to, and whether it first zeroes the     *)
(* struct that is to be filled; the same for the callbacks of a stream.    *)
(***************************************************************************)
Forward(f, zeroes) == [to |-> f, zeroes |-> zeroes]

ErrorSymbol(f) == Forward(f, FALSE)

DatabaseSymbol(f) == Forward(f, FALSE)

ConnectionSymbol(f) ==
  Forward(f, f \in { "ConnectionGetInfo", "ConnectionGetObjects",
                     "ConnectionGetTableSchema", "ConnectionGetTableTypes",
                     "ConnectionReadPartition" })

\* Faulty: the struct of a function added in 1.1.0 is not zeroed.
StatementZeroes100(f) ==
  Forward(f, f \in { "StatementExecuteQuery", "StatementGetParameterSchema",
                     "StatementExecutePartitions" })

StatementSymbol(f) ==
  Forward(f, f \in { "StatementExecuteQuery", "StatementExecuteSchema",
                     "StatementGetParameterSchema", "StatementExecutePartitions" })

StreamCallback(f) == Forward(f, TRUE)

Symbol(f) ==
  CASE f \in Error110                        -> ErrorSymbol(f)
    [] f \in Database100 \cup Database110     -> DatabaseSymbol(f)
    [] f \in Connection100 \cup Connection110 -> ConnectionSymbol(f)
    [] f \in Statement100 \cup Statement110   -> StatementSymbol(f)
    [] f \in Callback                        -> StreamCallback(f)

-----------------------------------------------------------------------------
(***************************************************************************)
(* AdbcDriverGizmoSQLInit, called by a client that loads the driver.       *)
(***************************************************************************)
TableInit ==
  /\ header \in Version
  /\ refused = {}
  /\ version = 0
  /\ slot = [f \in Field |-> "undefined"]
  /\ dirty = {}

\* The next version the client asks for.
Asks(v) ==
  /\ version = 0
  /\ v \in Version /\ v <= header /\ v \notin refused
  /\ \A w \in Version : v < w /\ w <= header => w \in refused

Known(v) == v \in {V100, V110}

\* Faulty: the fields of 1.1.0 are always set.
FillAll(v) == [f \in Field |-> IF f = "release" THEN "NULL" ELSE f]

\* The struct is zeroed to the size of the version, and its fields set.
FilledTable(v) ==
  [f \in Field |-> CASE f \in InStruct(v) /\ f # "release" -> f
                     [] f = "release"                      -> "NULL"
                     [] OTHER                              -> slot[f]]

DriverInit(v) ==
  /\ Asks(v)
  /\ Known(v)
  /\ version' = v
  /\ slot' = FilledTable(v)
  /\ UNCHANGED << header, refused, dirty >>

\* Any other version: ADBC_STATUS_NOT_IMPLEMENTED, and the struct is left alone.
DriverInitRefuses(v) ==
  /\ Asks(v)
  /\ ~Known(v)
  /\ refused' = refused \cup {v}
  /\ UNCHANGED << header, version, slot, dirty >>

\* A call through a symbol, or a callback of a stream, succeeds and fills a
\* struct, which the client has zeroed or has not.  (The table leads to the Go
\* functions themselves: there it is the client's affair.)
CallBySymbol(f, clean) ==
  /\ dirty' = IF ~clean /\ ~Symbol(f).zeroes
               THEN dirty \cup {f} ELSE dirty
  /\ UNCHANGED << header, refused, version, slot >>

TableNext ==
  \/ \E v \in Version : DriverInit(v) \/ DriverInitRefuses(v)
  \/ \E f \in Fills, clean \in BOOLEAN : CallBySymbol(f, clean)

TableSpec == TableInit /\ [][TableNext]_tableVars

-----------------------------------------------------------------------------
(***************************************************************************)
(* Properties.                                                             *)
(***************************************************************************)

\* The type invariant of the table.
TableTypeOK ==
  /\ header \in Version /\ version \in {0, V100, V110} /\ refused \subseteq Version
  /\ slot \in [Field -> Field \cup {"NULL", "undefined"}]
  /\ dirty \subseteq Function \cup Callback

\* Whatever the client's header, also one later than the driver, it ends up with
\* a table in which each function both know leads to the driver's.
CallsArrive ==
  version # 0 => \A f \in Function \cap InStruct(header) : slot[f] = f

\* The driver writes no field that the client's struct may not have, and none
\* that the version it was asked for does not declare (adbc.h on AdbcDriver).
WritesStayInStruct ==
  \A f \in Field :
    slot[f] # "undefined" =>
      version # 0 /\ f \in InStruct(header) /\ f \in InStruct(version)

\* The two together: the table a client is given fits its header.
TableFits == CallsArrive /\ WritesStayInStruct

\* Go assigns pointers only to structs that have been zeroed (utils.c on
\* arrow-adbc issue 729: its collector looks at the pointers it overwrites).
NoWriteOverGarbage == dirty = {}
=============================================================================
