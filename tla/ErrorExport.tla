---------------------------- MODULE ErrorExport ----------------------------
(***************************************************************************)
(* How the shim hands a Go error to C: setErr, setErrWithDetails and       *)
(* maybeError in go/pkg/gizmosql/driver.go, the release and detail         *)
(* functions in utils.c and utils.h.                                       *)
(*                                                                         *)
(* An AdbcError is the client's, or belongs to an ArrowArrayStream.  The   *)
(* one of ADBC 1.0.0 ends before private_data; only vendor_code says which *)
(* one the client has.  What an error holds is on the C heap; a            *)
(* GizmoSQLError and all it points to, the message included, is one block. *)
(***************************************************************************)
EXTENDS Integers, Sequences

CONSTANTS
  Error,       \* the client's AdbcError structs
  Old,         \* those that have the 1.0.0 size
  Stream,      \* the client's ArrowArrayStream structs
  Block,       \* blocks the C heap can give out
  Code,        \* values of vendor_code
  Zero,        \* 0
  PrivateData, \* ADBC_ERROR_VENDOR_CODE_PRIVATE_DATA
  Details,     \* lists of details an adbc.Error carries
  None         \* NULL

ASSUME ErrorAssumption ==
  /\ Old \subseteq Error
  /\ Error \cap Stream = {}
  /\ {Zero, PrivateData} \subseteq Code /\ Zero # PrivateData
  /\ << >> \in Details
  /\ \A d \in Details : d \in Seq(Nat)
  /\ None \notin Block

VARIABLES
  err,      \* the AdbcError structs, the streams' own among them
  place,    \* cArrayStream.adbcErr: the block of a stream's own struct
  open,     \* streams whose private_data is set
  heap,     \* blocks that are allocated
  content,  \* what the blocks of type GizmoSQLError hold
  past,     \* client structs accessed past their end
  due       \* history: the details the holder of each struct must see

errorVars == << err, place, open, heap, content, past, due >>

Holder    == Error \cup Stream
Pointer   == Block \cup {None}
AdbcError == [vendor : Code, message : Pointer,
              release : {"none", "plain", "details"}, private : Pointer]

\* What Go reports: an adbc.Error, or any other error.
Other   == [adbc |-> FALSE, code |-> Zero, details |-> << >>]
GoError == [adbc : {TRUE}, code : Code, details : Details] \cup {Other}

\* ADBC_ERROR_INIT, or zeroes when the client does not ask for details.
Initialized(v) ==
  [vendor |-> v, message |-> None, release |-> "none", private |-> None]

ErrorInit ==
  /\ err \in [Holder -> {Initialized(Zero), Initialized(PrivateData)}]
  /\ \A h \in Old \cup Stream : err[h].vendor = Zero
  /\ place = [x \in Stream |-> None]
  /\ open = {}
  /\ heap = {}
  /\ content = [b \in Block |-> << >>]
  /\ past = {}
  /\ due = [h \in Holder |-> << >>]

\* malloc, and which free block it gives does not matter.
Malloc(used) ==
  IF Block \subseteq used THEN {} ELSE {CHOOSE b \in Block : b \notin used}

-----------------------------------------------------------------------------
(***************************************************************************)
(* utils.c, utils.h: what the release callbacks do to a struct, the blocks *)
(* they free, and the details it shows.                                    *)
(***************************************************************************)

\* The test that guards private_data in three functions.
HasDetails(e) == e.release = "details" /\ e.private # None

\* Whether the test above reads private_data.
ReadsPrivate(e) == e.release = "details"

Freed(e) ==
  CASE e.release = "plain" -> {e.message}
    [] HasDetails(e)       -> {e.private}
    [] OTHER               -> {}

\* Faulty: the struct keeps its pointers.
KeepsPointers(e) == e

Released(e) ==
  CASE e.release = "plain" -> [e EXCEPT !.message = None, !.release = "none"]
    [] HasDetails(e)       -> Initialized(e.vendor)
    [] OTHER               -> [e EXCEPT !.release = "none"]

DetailCount(e) == IF HasDetails(e) THEN Len(content[e.private]) ELSE 0

GetDetail(e, i) ==
  IF HasDetails(e) /\ i >= 0 /\ i < DetailCount(e)
    THEN << content[e.private][i + 1] >>
    ELSE << >>

-----------------------------------------------------------------------------
(***************************************************************************)
(* errToAdbcErr.  An operator takes a struct and returns it with the error *)
(* in it, the blocks it freed, whether private_data was accessed, and the  *)
(* details now in block b.                                                 *)
(***************************************************************************)

\* Faulty: the error in the struct is not released.
Overwrites(e, b) ==
  [err   |-> [e EXCEPT !.message = b, !.release = "plain"],
   freed |-> {}, past |-> FALSE, details |-> << >>]

SetErr(e, b) ==
  [err   |-> [Released(e) EXCEPT !.message = b, !.release = "plain"],
   freed |-> Freed(e), past |-> ReadsPrivate(e), details |-> << >>]

WithDetails(e, g, b) ==
  [err   |-> [e EXCEPT !.message = b, !.release = "details", !.private = b],
   freed |-> {}, past |-> TRUE, details |-> g.details]

\* Faulty: any vendor code is copied.
AnyCode(e, g) == g.code

\* The vendor code a struct gets that may have no private_data.
SafeCode(e, g) == IF g.code = PrivateData THEN e.vendor ELSE g.code

\* Faulty: an error with a vendor code has no details.
CodeFirst(g) == g.code \notin {Zero, PrivateData}

CodeOnly(g) == g.details = << >> /\ g.code \notin {Zero, PrivateData}

Export(e, g, b) ==
  CASE ~g.adbc                  -> SetErr(e, b)
    [] g.adbc /\ e.vendor # PrivateData
                                -> SetErr([e EXCEPT !.vendor = SafeCode(e, g)], b)
    [] g.adbc /\ e.vendor = PrivateData /\ CodeOnly(g)
                                -> SetErr([e EXCEPT !.vendor = g.code], b)
    [] OTHER                    -> WithDetails(e, g, b)

-----------------------------------------------------------------------------
(***************************************************************************)
(* The client and its errors.                                              *)
(***************************************************************************)

\* What was in a freed block is not read again (BlocksAreOwned).
Forget(freed) == [b \in Block |-> IF b \in freed THEN << >> ELSE content[b]]

\* A call fails with error g.  The client may or may not have released what
\* the struct holds.
CallFails(h, g, b) ==
  LET x == Export(err[h], g, b) IN
  /\ err' = [err EXCEPT ![h] = x.err]
  /\ heap' = (heap \ x.freed) \cup {b}
  /\ content' = [Forget(x.freed) EXCEPT ![b] = x.details]
  /\ past' = IF x.past THEN past \cup ({h} \cap Old) ELSE past
  /\ due' = [due EXCEPT ![h] = IF err[h].vendor = PrivateData THEN g.details ELSE << >>]
  /\ UNCHANGED << place, open >>

\* error.release(&error)
ClientReleases(h) ==
  /\ err[h].release # "none"
  /\ err' = [err EXCEPT ![h] = Released(err[h])]
  /\ heap' = heap \ Freed(err[h])
  /\ past' = IF ReadsPrivate(err[h]) THEN past \cup ({h} \cap Old) ELSE past
  /\ content' = Forget(Freed(err[h]))
  /\ due' = [due EXCEPT ![h] = << >>]
  /\ UNCHANGED << place, open >>

\* A struct that holds nothing is used again for a new error.
ClientInitializes(h, v) ==
  /\ err[h].release = "none"
  /\ h \in Old => v = Zero
  /\ err' = [err EXCEPT ![h] = Initialized(v)]
  /\ UNCHANGED << place, open, heap, content, past, due >>

\* GizmoSQLErrorGetDetailCount and GizmoSQLErrorGetDetail on any struct.
ClientReadsDetails(h) ==
  /\ past' = IF ReadsPrivate(err[h]) THEN past \cup ({h} \cap Old) ELSE past
  /\ UNCHANGED << err, place, open, heap, content, due >>

-----------------------------------------------------------------------------
(***************************************************************************)
(* Streams and the errors they own.                                        *)
(***************************************************************************)
StreamOpens(x) ==
  /\ x \notin open
  /\ open' = open \cup {x}
  /\ UNCHANGED << err, place, heap, content, past, due >>

AsksForDetails(e) == [e EXCEPT !.vendor = PrivateData]

\* maybeError.  The first error allocates the struct, a later one releases what
\* is in it.
StreamFails(x, g, a, b) ==
  LET first == place[x] = None
      e     == AsksForDetails(IF first THEN Initialized(Zero) ELSE Released(err[x]))
      y     == Export(e, g, b)
  IN
  /\ x \in open
  /\ place' = IF first THEN [place EXCEPT ![x] = a] ELSE place
  /\ err' = [err EXCEPT ![x] = y.err]
  /\ heap' = (heap \ Freed(err[x])) \cup {b, place'[x]}
  /\ content' = [Forget(Freed(err[x])) EXCEPT ![b] = y.details]
  /\ due' = [due EXCEPT ![x] = g.details]
  /\ UNCHANGED << open, past >>

\* GizmoSQLArrayStreamRelease
StreamReleases(x) ==
  /\ x \in open
  /\ open' = open \ {x}
  /\ heap' = heap \ (Freed(err[x]) \cup {place[x]})
  /\ content' = Forget(Freed(err[x]))
  /\ err' = [err EXCEPT ![x] = Initialized(Zero)]
  /\ place' = [place EXCEPT ![x] = None]
  /\ due' = [due EXCEPT ![x] = << >>]
  /\ UNCHANGED past

-----------------------------------------------------------------------------
ErrorNext ==
  \/ \E h \in Error :
       \/ ClientReleases(h)
       \/ ClientReadsDetails(h)
       \/ \E v \in {Zero, PrivateData} : ClientInitializes(h, v)
       \/ \E g \in GoError, b \in Malloc(heap) : CallFails(h, g, b)
  \/ \E x \in Stream :
       \/ StreamOpens(x)
       \/ StreamReleases(x)
       \/ \E g \in GoError, a \in Malloc(heap) :
            \E b \in Malloc(heap \cup {a}) : StreamFails(x, g, a, b)

ErrorSpec == ErrorInit /\ [][ErrorNext]_errorVars

-----------------------------------------------------------------------------
(***************************************************************************)
(* Properties.                                                             *)
(***************************************************************************)

\* The type invariant of the structs and the heap.
ErrorTypeOK ==
  /\ err \in [Holder -> AdbcError]
  /\ place \in [Stream -> Pointer]
  /\ open \subseteq Stream
  /\ heap \subseteq Block
  /\ content \in [Block -> Details]
  /\ past \subseteq Old
  /\ due \in [Holder -> Details]

\* The struct of a 1.0.0 client ends before private_data: whatever vendor code
\* the server sends and however long the struct is used, the driver neither
\* reads nor writes there (adbc.h on AdbcError).
OldStructUntouched == past = {}

\* The blocks a struct will free: with its own, for a stream.
Held(h) == Freed(err[h]) \cup (IF h \in Stream THEN {place[h]} \ {None} ELSE {})

\* No block is freed twice or used after it was freed: what a release callback
\* would free is allocated, and no other struct will free it.
BlocksAreOwned ==
  \A h \in Holder :
    /\ Held(h) \subseteq heap
    /\ \A k \in Holder \ {h} : Held(h) \cap Held(k) = {}

\* No block is lost, with one exception: setErrWithDetails, unlike setErr,
\* overwrites an error the client has not released.
Lost == heap \ UNION {Held(h) : h \in Holder}

LostOnlyByReuse ==
  [][Lost' \subseteq Lost \/ \E h \in Error : /\ err[h].release # "none"
                                             /\ err[h].vendor = PrivateData
                                             /\ err'[h].release = "details"]_errorVars

\* Who asks for details gets those of the latest error, and never those of an
\* earlier one, after any sequence of errors, releases and reuses; a stream's
\* error always has them.
DetailsAreCurrent ==
  \A h \in Holder :
    /\ DetailCount(err[h]) = Len(due[h])
    /\ \A i \in -1 .. Len(due[h]) :
         GetDetail(err[h], i) =
           IF i \in 0 .. Len(due[h]) - 1 THEN << due[h][i + 1] >> ELSE << >>
=============================================================================
