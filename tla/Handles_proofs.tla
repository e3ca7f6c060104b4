-------------------------- MODULE Handles_proofs --------------------------
(***************************************************************************)
(* Proofs about Handles, for any structs, options and contexts: its        *)
(* invariants, and that it implements AdbcApi.                             *)
(***************************************************************************)
EXTENDS Handles, TLAPS

(***************************************************************************)
(* The inductive invariant: the properties, and what they do not say of    *)
(* the states between calls.                                               *)
(***************************************************************************)

\* Go objects belong to allocated handles also after a panic.
Owned == open \subseteq allocated /\ (~poisoned => upstream = open)

\* A connection that waits for its Init has collected all that was asked for.
OptionsKept ==
  \A c \in Conn :
    /\ c \in inited => c \in open /\ asked[c] \subseteq applied[c]
    /\ c \in allocated \ open => asked[c] = initArgs[c]

\* No two handles can cancel the same context.
ContextsDiffer ==
  \A h, k \in Caller : cancel[h] # None /\ cancel[h] = cancel[k] => h = k

\* The context of an open stream is its owner's current one, or dead.
StreamsFollow == \A x \in Stream : Live(x) => cancel[owner[x]] = using[x]

IInv ==
  /\ TypeOK
  /\ TableAgrees
  /\ Owned
  /\ OptionsKept
  /\ ContextsAreHeld
  /\ ContextsDiffer
  /\ StreamsFollow
  /\ ReaderIsHeld

LEMMA InitIInv == Init => IInv
<1> SUFFICES ASSUME Init PROVE IInv
  OBVIOUS
<1> USE DEF Init
<1>1. TypeOK /\ Owned /\ OptionsKept
  BY DEF TypeOK, Owned, OptionsKept
<1>2. OpenStreams = {}
  BY DEF OpenStreams
<1>3. TableAgrees /\ ReaderIsHeld
  BY <1>2 DEF TableAgrees, ReaderIsHeld
<1>4. ContextsAreHeld /\ ContextsDiffer /\ StreamsFollow
  BY DEF ContextsAreHeld, ContextsDiffer, StreamsFollow, Live
<1> QED
  BY <1>1, <1>3, <1>4 DEF IInv

-----------------------------------------------------------------------------
(***************************************************************************)
(* What the helpers preserve.                                              *)
(***************************************************************************)
ContextPart ==
  /\ cancel \in [Caller -> Context \cup {None}]
  /\ live \subseteq Context
  /\ ContextsAreHeld
  /\ ContextsDiffer

\* Cancelling a handle's context, which frees the handle to be released.
LEMMA CancelContextStep ==
  ASSUME ContextPart, NEW h \in Caller, CancelContext(h),
         allocated \ {h} \subseteq allocated'
  PROVE  ContextPart' /\ cancel'[h] = None
<1> USE DEF ContextPart, CancelContext, ContextsAreHeld, ContextsDiffer
<1>1. \A k \in Caller : cancel'[k] = IF k = h THEN None ELSE cancel[k]
  OBVIOUS
<1>2. cancel' \in [Caller -> Context \cup {None}] /\ live' \subseteq Context
  OBVIOUS
<1>3. \A k, l \in Caller : cancel'[k] # None /\ cancel'[k] = cancel'[l] => k = l
  BY <1>1
<1>4. \A k \in Caller : cancel'[k] # None => k \in allocated'
  BY <1>1
<1>5. live' = {cancel'[k] : k \in Caller} \ {None}
  <2>1. \A g : g \in live' => \E k \in Caller : cancel'[k] = g /\ g # None
    BY <1>1
  <2>2. \A k \in Caller : cancel'[k] # None => cancel'[k] \in live'
    BY <1>1
  <2> QED
    BY <2>1, <2>2
<1> QED
  BY <1>1, <1>2, <1>3, <1>4, <1>5

\* A fresh context is live for its handle only.
LEMMA NewContextStep ==
  ASSUME ContextPart, NEW h \in Caller, h \in allocated, NEW g \in Unused,
         NewContext(h, g), allocated \subseteq allocated'
  PROVE  ContextPart' /\ cancel'[h] = g
<1> USE DEF ContextPart, NewContext, ContextsAreHeld, ContextsDiffer
<1>1. g \in Context /\ g # None /\ \A k \in Caller : cancel[k] # g
  BY HandlesAssumption DEF Unused
<1>2. \A k \in Caller : cancel'[k] = IF k = h THEN g ELSE cancel[k]
  OBVIOUS
<1>3. cancel' \in [Caller -> Context \cup {None}] /\ live' \subseteq Context
  BY <1>1
<1>4. \A k, l \in Caller : cancel'[k] # None /\ cancel'[k] = cancel'[l] => k = l
  BY <1>1, <1>2
<1>5. \A k \in Caller : cancel'[k] # None => k \in allocated'
  BY <1>2
<1>6. live' = {cancel'[k] : k \in Caller} \ {None}
  <2>1. \A i : i \in live' => \E k \in Caller : cancel'[k] = i /\ i # None
    BY <1>1, <1>2
  <2>2. \A k \in Caller : cancel'[k] # None => cancel'[k] \in live'
    BY <1>1, <1>2
  <2> QED
    BY <2>1, <2>2
<1> QED
  BY <1>2, <1>3, <1>4, <1>5, <1>6

\* A call on one handle leaves the other handles' streams their context; a
\* stream it hands out depends on the handle's new one.
LEMMA StreamsStep ==
  ASSUME IInv, NEW h \in Caller,
         \/ UNCHANGED contexts
         \/ CancelContext(h)
         \/ Unused # {} /\ NewContext(h, Fresh),
         \A x \in Stream :
           \/ owner'[x] = owner[x] /\ using'[x] = using[x]
           \/ owner'[x] = None
           \/ owner'[x] = h /\ using'[x] = cancel'[h]
  PROVE  StreamsFollow'
<1> USE DEF IInv, TypeOK
<1>1. Unused # {} => Fresh \in Unused
  BY DEF Fresh
<1> SUFFICES ASSUME NEW x \in Stream, Live(x)'
             PROVE  cancel'[owner'[x]] = using'[x]
  BY DEF StreamsFollow
<1>2. owner'[x] # None /\ using'[x] \in live'
  BY DEF Live
<1>3. CASE owner'[x] = h /\ using'[x] = cancel'[h]
  BY <1>3
<1>4. CASE owner'[x] = owner[x] /\ using'[x] = using[x]
  <2>1. owner[x] \in Caller
    BY <1>2, <1>4
  <2>2. CASE UNCHANGED contexts
    BY <1>2, <1>4, <2>2 DEF contexts, StreamsFollow, Live
  <2>3. CASE CancelContext(h)
    <3>1. using[x] \in live /\ using[x] # cancel[h]
      BY <1>2, <1>4, <2>3 DEF CancelContext
    <3>2. cancel[owner[x]] = using[x]
      BY <1>2, <1>4, <3>1 DEF StreamsFollow, Live
    <3> QED
      BY <1>4, <2>1, <2>3, <3>1, <3>2 DEF CancelContext
  <2>4. CASE Unused # {} /\ NewContext(h, Fresh)
    <3>1. using[x] # Fresh
      BY <1>1, <2>4 DEF Unused
    <3>2. using[x] \in live /\ using[x] # cancel[h]
      BY <1>2, <1>4, <2>4, <3>1 DEF NewContext
    <3>3. cancel[owner[x]] = using[x]
      BY <1>2, <1>4, <3>2 DEF StreamsFollow, Live
    <3> QED
      BY <1>4, <2>1, <2>4, <3>2, <3>3 DEF NewContext
  <2> QED
    BY <2>2, <2>3, <2>4
<1> QED
  BY <1>2, <1>3, <1>4

\* A function that touches no context and no stream.
LEMMA QuietStep ==
  ASSUME IInv, UNCHANGED << contexts, streams >>, Caller \cap allocated \subseteq allocated'
  PROVE  ContextPart' /\ StreamsFollow' /\ ReaderIsHeld' /\ OpenStreams' = OpenStreams
<1> USE DEF IInv, TypeOK, contexts, streams
<1>1. ContextPart'
  BY DEF ContextPart, ContextsAreHeld, ContextsDiffer
<1>2. StreamsFollow'
  BY DEF StreamsFollow, Live
<1>3. OpenStreams' = OpenStreams
  BY DEF OpenStreams
<1>4. ReaderIsHeld'
  BY <1>3 DEF ReaderIsHeld
<1> QED
  BY <1>1, <1>2, <1>3, <1>4

-----------------------------------------------------------------------------
(***************************************************************************)
(* Every action preserves the invariant.                                   *)
(***************************************************************************)

\* What each lemma below has to show beside the parts about contexts.
Books == TypeOK /\ TableAgrees /\ Owned /\ OptionsKept /\ ReaderIsHeld

\* The three releases.
LEMMA ReleaseStep ==
  ASSUME IInv, NEW h \in Handle, NEW r \in Outcome, Allocated(h), ReleaseHandle(h, r),
         Poison(r), OpenStreams' = OpenStreams
  PROVE  /\ TableAgrees' /\ Owned'
         /\ allocated' \subseteq Handle /\ table' \subseteq Handle \cup Stream
         /\ open' \subseteq Handle /\ upstream' \subseteq Handle
         /\ poisoned' \in BOOLEAN
<1> USE DEF IInv, TypeOK, ReleaseHandle
<1>1. TableAgrees'
  <2>1. h \notin OpenStreams
    BY HandlesAssumption DEF OpenStreams
  <2> QED
    BY <2>1 DEF TableAgrees
<1>2. Owned'
  BY DEF Owned, Poison, Allocated
<1>3. upstream' \subseteq Handle
  OBVIOUS
<1>4. poisoned' \in BOOLEAN
  BY DEF Poison
<1> QED
  BY <1>1, <1>2, <1>3, <1>4

LEMMA DatabaseStep == ASSUME IInv, Database PROVE IInv'
<1> USE HandlesAssumption
<1> DEFINE Calm == /\ UNCHANGED << contexts, streams >>
                   /\ Caller \cap allocated \subseteq allocated'
<1>1. Calm => ContextPart' /\ StreamsFollow' /\ ReaderIsHeld' /\ OpenStreams' = OpenStreams
  BY QuietStep
<1>2. Calm /\ Books' => IInv'
  BY <1>1 DEF IInv, ContextPart, Books
<1> USE DEF IInv, TypeOK, TableAgrees, Owned, OptionsKept, Books, Poison,
            handles, options, contexts, streams, Handle
<1>3. CASE DatabaseNew
  <2>1. Calm
    BY <1>3 DEF DatabaseNew
  <2> HIDE DEF Calm
  <2> QED
    BY <1>1, <1>2, <1>3, <2>1 DEF DatabaseNew, Caller
<1>4. ASSUME NEW r \in Outcome, DatabaseInit(r) PROVE IInv'
  <2>1. Calm
    BY <1>4 DEF DatabaseInit
  <2> HIDE DEF Calm
  <2> QED
    BY <1>1, <1>2, <1>4, <2>1 DEF DatabaseInit, Allocated, Caller
<1>5. ASSUME NEW r \in Outcome, DatabaseRelease(r) PROVE IInv'
  <2>1. Calm
    BY <1>5 DEF DatabaseRelease, ReleaseHandle
  <2> HIDE DEF Calm
  <2>2. TableAgrees' /\ Owned'
    BY <1>1, <1>5, <2>1, ReleaseStep DEF DatabaseRelease
  <2>3. TypeOK'
    BY <1>1, <1>5, <2>1, ReleaseStep DEF DatabaseRelease
  <2>4. OptionsKept'
    BY <1>5 DEF DatabaseRelease, ReleaseHandle, Caller
  <2> QED
    BY <1>1, <1>2, <2>1, <2>2, <2>3, <2>4
<1>6. CASE DatabaseOption
  <2>1. Calm
    BY <1>6 DEF DatabaseOption
  <2> HIDE DEF Calm
  <2> QED
    BY <1>1, <1>2, <1>6, <2>1 DEF DatabaseOption
<1> QED
  BY <1>3, <1>4, <1>5, <1>6 DEF Database

\* A call that makes a context, and may hand out a stream.
LEMMA ReadStep ==
  ASSUME IInv, NEW h \in Caller, NEW x \in Stream, NEW r \in Outcome, ReadOn(h, x, r)
  PROVE  IInv'
<1> USE DEF IInv, TypeOK, ReadOn, Initialized, Allocated
<1>1. Fresh \in Unused
  BY DEF Fresh
<1>2. ContextPart' /\ cancel'[h] = Fresh
  BY <1>1, NewContextStep DEF ContextPart
<1>3. Fresh \in Context /\ h # None
  BY <1>1, HandlesAssumption DEF Unused, Handle
<1>4. CASE r = "ok"
  <2> USE <1>4 DEF ExportRecordReader, Retained
  <2>1. /\ owner' = [owner EXCEPT ![x] = h]
        /\ using' = [using EXCEPT ![x] = Fresh]
        /\ table' = table \cup {x}
        /\ refs' = [refs EXCEPT ![x] = 1]
    BY <1>2
  <2>2. OpenStreams' = OpenStreams \cup {x}
    BY <2>1, <1>3 DEF OpenStreams
  <2>3. TypeOK'
    BY <1>2, <1>3, <2>1 DEF ContextPart, Poison, options
  <2>4. TableAgrees'
    BY <2>1, <2>2 DEF TableAgrees
  <2>5. Owned' /\ OptionsKept'
    BY DEF Owned, OptionsKept, Poison, options
  <2>6. ReaderIsHeld'
    BY <2>1, <2>2 DEF ReaderIsHeld
  <2>7. StreamsFollow'
    BY <1>2, <2>1, StreamsStep
  <2> QED
    BY <1>2, <2>3, <2>4, <2>5, <2>6, <2>7 DEF ContextPart
<1>5. CASE r # "ok"
  <2>1. UNCHANGED << table, owner, using, refs >>
    BY <1>5 DEF streams
  <2>2. OpenStreams' = OpenStreams
    BY <2>1 DEF OpenStreams
  <2>3. TypeOK'
    BY <1>2, <2>1 DEF ContextPart, Poison, options
  <2>4. TableAgrees' /\ Owned' /\ OptionsKept' /\ ReaderIsHeld'
    BY <2>1, <2>2 DEF TableAgrees, Owned, OptionsKept, ReaderIsHeld, Poison, options
  <2>5. StreamsFollow'
    BY <2>1, StreamsStep
  <2> QED
    BY <1>2, <2>3, <2>4, <2>5 DEF ContextPart
<1> QED
  BY <1>4, <1>5

\* A call that makes a context and hands out nothing.
LEMMA CallStep ==
  ASSUME IInv, NEW h \in Caller, NEW r \in Outcome, CallOn(h), Poison(r), UNCHANGED streams
  PROVE  IInv'
<1> USE DEF IInv, TypeOK, CallOn, Initialized, Allocated, streams, handles, options
<1>1. Fresh \in Unused
  BY DEF Fresh
<1>2. ContextPart'
  BY <1>1, NewContextStep DEF ContextPart
<1>3. OpenStreams' = OpenStreams
  BY DEF OpenStreams
<1>4. TypeOK'
  BY <1>2 DEF ContextPart, Poison
<1>5. TableAgrees' /\ Owned' /\ OptionsKept' /\ ReaderIsHeld'
  BY <1>3 DEF TableAgrees, Owned, OptionsKept, ReaderIsHeld, Poison
<1>6. StreamsFollow'
  BY StreamsStep
<1> QED
  BY <1>2, <1>4, <1>5, <1>6 DEF ContextPart

\* ConnectionCancel and StatementCancel.
LEMMA CancelStep ==
  ASSUME IInv, NEW h \in Caller, CancelContext(h),
         UNCHANGED << handles, options, streams, poisoned >>
  PROVE  IInv'
<1> USE DEF IInv, TypeOK, streams, handles, options
<1>1. ContextPart'
  BY CancelContextStep DEF ContextPart
<1>2. OpenStreams' = OpenStreams
  BY DEF OpenStreams
<1>3. TypeOK'
  BY <1>1 DEF ContextPart
<1>4. TableAgrees' /\ Owned' /\ OptionsKept' /\ ReaderIsHeld'
  BY <1>2 DEF TableAgrees, Owned, OptionsKept, ReaderIsHeld
<1>5. StreamsFollow'
  BY StreamsStep
<1> QED
  BY <1>1, <1>3, <1>4, <1>5 DEF ContextPart

\* ConnectionRelease and StatementRelease.
LEMMA ReleaseContextStep ==
  ASSUME IInv, NEW h \in Caller, NEW r \in Outcome, Allocated(h), ReleaseHandle(h, r),
         CancelContext(h), Poison(r), UNCHANGED streams
  PROVE  /\ ContextPart' /\ StreamsFollow' /\ ReaderIsHeld' /\ TableAgrees' /\ Owned'
         /\ allocated' \subseteq Handle /\ table' \subseteq Handle \cup Stream
         /\ open' \subseteq Handle /\ upstream' \subseteq Handle
         /\ poisoned' \in BOOLEAN
<1> USE DEF IInv, TypeOK, streams
<1>1. OpenStreams' = OpenStreams
  BY DEF OpenStreams
<1>2. ReaderIsHeld'
  BY <1>1 DEF ReaderIsHeld
<1>3. StreamsFollow'
  BY StreamsStep
<1>4. ContextPart'
  BY CancelContextStep DEF ContextPart, ReleaseHandle
<1> QED
  BY <1>1, <1>2, <1>3, <1>4, ReleaseStep DEF Handle

\* A collected option is remembered on both sides.
LEMMA CollectStep ==
  ASSUME IInv, NEW c \in Conn, NEW o \in Option, ConnectionCollectsOption(c, o)
  PROVE  OptionsKept'
<1>1. /\ asked \in [Conn -> SUBSET Option] /\ initArgs \in [Conn -> SUBSET Option]
      /\ OptionsKept
  BY DEF IInv, TypeOK
<1>2. /\ c \notin open /\ UNCHANGED << allocated, open, applied, inited >>
      /\ asked' = [asked EXCEPT ![c] = @ \cup {o}]
      /\ initArgs' = [initArgs EXCEPT ![c] = @ \cup {o}]
  BY DEF ConnectionCollectsOption, Ask, handles
<1>3. ASSUME NEW d \in Conn
      PROVE  /\ d \in inited => d \in open /\ asked'[d] \subseteq applied[d]
             /\ d \in allocated \ open => asked'[d] = initArgs'[d]
  <2>1. CASE d = c
    BY <1>1, <1>2, <2>1 DEF OptionsKept
  <2>2. CASE d # c
    BY <1>1, <1>2, <2>2 DEF OptionsKept
  <2> QED
    BY <2>1, <2>2
<1> QED
  BY <1>2, <1>3 DEF OptionsKept

LEMMA ConnectionStep == ASSUME IInv, NEW c \in Conn, Connection(c) PROVE IInv'
<1> USE HandlesAssumption DEF Handle, Caller
<1> DEFINE Calm == /\ UNCHANGED << contexts, streams >>
                   /\ Caller \cap allocated \subseteq allocated'
<1>1. Calm => ContextPart' /\ StreamsFollow' /\ ReaderIsHeld' /\ OpenStreams' = OpenStreams
  BY QuietStep
<1>2. Calm /\ Books' => IInv'
  BY <1>1 DEF IInv, ContextPart, Books
<1> USE DEF IInv, TypeOK, TableAgrees, Owned, OptionsKept, Books, Poison,
            handles, options, contexts, streams, Ask, Allocated, Initialized
<1>3. CASE ConnectionNew(c)
  <2>1. Calm
    BY <1>3 DEF ConnectionNew
  <2> HIDE DEF Calm
  <2> QED
    BY <1>1, <1>2, <1>3, <2>1 DEF ConnectionNew
<1>4. CASE ConnectionCancel(c)
  BY <1>4, CancelStep DEF ConnectionCancel
<1>5. CASE ConnectionOpenPanics(c)
  <2>1. Calm
    BY <1>5 DEF ConnectionOpenPanics
  <2> HIDE DEF Calm
  <2> QED
    BY <1>1, <1>2, <1>5, <2>1 DEF ConnectionOpenPanics
<1>6. ASSUME NEW o \in Option, ConnectionCollectsOption(c, o) PROVE IInv'
  <2>1. Calm
    BY <1>6 DEF ConnectionCollectsOption
  <2> HIDE DEF Calm
  <2>2. OptionsKept'
    BY <1>6, CollectStep
  <2>3. TypeOK' /\ TableAgrees' /\ Owned'
    BY <1>1, <1>6, <2>1 DEF ConnectionCollectsOption
  <2> QED
    BY <1>1, <1>2, <2>1, <2>2, <2>3
<1>7. ASSUME NEW r \in Outcome, ConnectionRelease(c, r) PROVE IInv'
  <2>1. /\ ContextPart' /\ StreamsFollow' /\ ReaderIsHeld' /\ TableAgrees' /\ Owned'
        /\ allocated' \subseteq Handle /\ table' \subseteq Handle \cup Stream
        /\ open' \subseteq Handle /\ upstream' \subseteq Handle
        /\ poisoned' \in BOOLEAN
    BY <1>7, ReleaseContextStep DEF ConnectionRelease
  <2>2. TypeOK'
    BY <1>7, <2>1 DEF ConnectionRelease, ContextPart
  <2>3. OptionsKept'
    BY <1>7 DEF ConnectionRelease, ReleaseHandle
  <2> QED
    BY <2>1, <2>2, <2>3 DEF ContextPart
<1>8. ASSUME NEW r \in Outcome, ConnectionCalls(c, r) PROVE IInv'
  BY <1>8, CallStep DEF ConnectionCalls
<1>9. ASSUME NEW r \in Outcome, NEW o \in Option, ConnectionSetOption(c, o, r) PROVE IInv'
  <2>1. Calm
    BY <1>9 DEF ConnectionSetOption
  <2> HIDE DEF Calm
  <2> QED
    BY <1>1, <1>2, <1>9, <2>1 DEF ConnectionSetOption
<1>10. ASSUME NEW r \in Outcome, NEW done \in SUBSET Option, ConnectionInit(c, done, r)
       PROVE  IInv'
  <2>1. Calm
    BY <1>10 DEF ConnectionInit
  <2> HIDE DEF Calm
  <2>2. OptionsKept'
    BY <1>10 DEF ConnectionInit, InitCompletes
  <2>3. TypeOK' /\ TableAgrees' /\ Owned'
    BY <1>1, <1>10, <2>1 DEF ConnectionInit
  <2> QED
    BY <1>1, <1>2, <2>1, <2>2, <2>3
<1>11. ASSUME NEW r \in Outcome, NEW x \in Stream, ConnectionReads(c, x, r) PROVE IInv'
  BY <1>11, ReadStep DEF ConnectionReads
<1> QED
  BY <1>3, <1>4, <1>5, <1>6, <1>7, <1>8, <1>9, <1>10, <1>11 DEF Connection

LEMMA StatementStep == ASSUME IInv, NEW s \in Stmt, Statement(s) PROVE IInv'
<1> USE HandlesAssumption DEF Handle, Caller
<1>1. CASE StatementCancel(s)
  BY <1>1, CancelStep DEF StatementCancel
<1>2. ASSUME NEW r \in Outcome, NEW c \in Conn, StatementNew(s, c, r) PROVE IInv'
  <2>1. ContextPart' /\ StreamsFollow' /\ ReaderIsHeld' /\ OpenStreams' = OpenStreams
    BY <1>2, QuietStep DEF StatementNew, handles
  <2>2. TypeOK'
    BY <1>2, <2>1 DEF StatementNew, Poison, IInv, TypeOK, handles, options, contexts, streams
  <2>3. TableAgrees' /\ Owned'
    BY <1>2, <2>1
    DEF StatementNew, Initialized, Allocated, Poison, IInv, TypeOK, TableAgrees, Owned, handles
  <2>4. OptionsKept'
    BY <1>2 DEF StatementNew, IInv, OptionsKept, handles, options
  <2> QED
    BY <2>1, <2>2, <2>3, <2>4 DEF IInv, ContextPart
<1>3. ASSUME NEW r \in Outcome, StatementRelease(s, r) PROVE IInv'
  <2>1. /\ ContextPart' /\ StreamsFollow' /\ ReaderIsHeld' /\ TableAgrees' /\ Owned'
        /\ allocated' \subseteq Handle /\ table' \subseteq Handle \cup Stream
        /\ open' \subseteq Handle /\ upstream' \subseteq Handle
        /\ poisoned' \in BOOLEAN
    BY <1>3, ReleaseContextStep DEF StatementRelease
  <2>2. TypeOK'
    BY <1>3, <2>1 DEF StatementRelease, ContextPart, IInv, TypeOK, options, streams
  <2>3. OptionsKept'
    BY <1>3 DEF StatementRelease, ReleaseHandle, IInv, OptionsKept, options
  <2> QED
    BY <2>1, <2>2, <2>3 DEF IInv, ContextPart
<1>4. ASSUME NEW r \in Outcome, StatementCalls(s, r) PROVE IInv'
  BY <1>4, CallStep DEF StatementCalls
<1>5. ASSUME NEW r \in Outcome, NEW x \in Stream, StatementExecuteQuery(s, x, r) PROVE IInv'
  BY <1>5, ReadStep DEF StatementExecuteQuery
<1> QED
  BY <1>1, <1>2, <1>3, <1>4, <1>5 DEF Statement

LEMMA StreamReleaseStep == ASSUME IInv, NEW x \in Stream, StreamRelease(x) PROVE IInv'
<1> USE DEF IInv, TypeOK, StreamRelease, options, contexts
<1>1. OpenStreams' = OpenStreams \ {x} /\ x \in OpenStreams
  BY DEF OpenStreams
<1>2. TypeOK'
  <2>1. refs[x] = 1
    BY <1>1 DEF ReaderIsHeld
  <2> QED
    BY <2>1
<1>3. TableAgrees'
  <2>1. x \notin allocated
    BY HandlesAssumption
  <2> QED
    BY <1>1, <2>1 DEF TableAgrees
<1>4. Owned' /\ OptionsKept' /\ ContextsAreHeld' /\ ContextsDiffer'
  BY DEF Owned, OptionsKept, ContextsAreHeld, ContextsDiffer
<1>5. StreamsFollow'
  BY DEF StreamsFollow, Live
<1>6. ReaderIsHeld'
  BY <1>1 DEF ReaderIsHeld
<1> QED
  BY <1>2, <1>3, <1>4, <1>5, <1>6

LEMMA StepIInv == IInv /\ [Next]_vars => IInv'
<1>1. CASE UNCHANGED vars
  BY <1>1
  DEF vars, handles, options, contexts, streams, IInv, TypeOK, TableAgrees, OpenStreams,
      Owned, OptionsKept, ContextsAreHeld, ContextsDiffer, StreamsFollow, Live, ReaderIsHeld
<1> QED
  BY <1>1, DatabaseStep, ConnectionStep, StatementStep, StreamReleaseStep DEF Next

-----------------------------------------------------------------------------
(***************************************************************************)
(* Theorems.                                                               *)
(***************************************************************************)

\* The strengthening is an invariant.
THEOREM Invariance == Spec => []IInv
BY InitIInv, StepIInv, PTL DEF Spec

\* The handles, contexts and streams keep their types.
THEOREM TypeCorrect == Spec => []TypeOK
BY Invariance, PTL DEF IInv

\* The cgo handle table never dangles and never leaks an entry, whatever fails
\* or panics.
THEOREM TableCorrect == Spec => []TableAgrees
BY Invariance, PTL DEF IInv

\* Until a panic, every upstream object has a handle that will close it.
THEOREM UpstreamCorrect == Spec => []UpstreamIsOwned
<1>1. IInv => UpstreamIsOwned
  BY DEF IInv, Owned, UpstreamIsOwned
<1> QED
  BY <1>1, Invariance, PTL

\* No option set on a connection is lost by its Init.
THEOREM InitCorrect == Spec => []InitIsComplete
<1>1. IInv => InitIsComplete
  BY DEF IInv, TypeOK, OptionsKept, InitIsComplete
<1> QED
  BY <1>1, Invariance, PTL

\* No context is leaked, and none outlives its handle.
THEOREM ContextsCorrect == Spec => []ContextsAreHeld
BY Invariance, PTL DEF IInv

\* A record reader is released once, with the stream that holds it.
THEOREM ReaderCorrect == Spec => []ReaderIsHeld
BY Invariance, PTL DEF IInv

\* The context of an open stream is ended in a call on its own handle only.
THEOREM OnlyOwnerCorrect == Spec => OnlyOwnerEnds
<1>1. ASSUME IInv, IInv', NEW x \in Stream, Live(x), cancel'[owner[x]] = cancel[owner[x]]
      PROVE  using[x] \in live'
  <2>1. owner[x] \in Caller /\ using[x] \in Context /\ using[x] # None
    BY <1>1, HandlesAssumption DEF IInv, TypeOK, Live
  <2>2. cancel'[owner[x]] = using[x]
    BY <1>1 DEF IInv, StreamsFollow
  <2>3. live' = {cancel'[h] : h \in Caller} \ {None}
    BY <1>1 DEF IInv, ContextsAreHeld
  <2> QED
    BY <2>1, <2>2, <2>3
<1>2. IInv /\ IInv' =>
        \A x \in Stream :
          Live(x) /\ using[x] \notin live' => cancel'[owner[x]] # cancel[owner[x]]
  BY <1>1
<1> QED
  BY <1>2, Invariance, PTL DEF OnlyOwnerEnds

\* Once the driver has panicked no call on a handle has an effect.
THEOREM PoisonCorrect == Spec => PoisonIsFinal
<1>1. ASSUME [Next]_vars, poisoned
      PROVE  UNCHANGED << allocated, open, upstream, options, contexts >>
  <2> USE <1>1 DEF Initialized, Allocated
  <2>1. CASE Database
    BY <2>1 DEF Database, DatabaseNew, DatabaseInit, DatabaseRelease, DatabaseOption
  <2>2. ASSUME NEW c \in Conn, Connection(c) PROVE FALSE
    BY <2>2
    DEF Connection, ConnectionNew, ConnectionCancel, ConnectionOpenPanics,
        ConnectionCollectsOption, ConnectionRelease, ConnectionCalls, CallOn,
        ConnectionSetOption, ConnectionInit, ConnectionReads, ReadOn
  <2>3. ASSUME NEW s \in Stmt, Statement(s) PROVE FALSE
    BY <2>3
    DEF Statement, StatementCancel, StatementNew, StatementRelease, StatementCalls,
        CallOn, StatementExecuteQuery, ReadOn
  <2>4. ASSUME NEW x \in Stream, StreamRelease(x)
        PROVE  UNCHANGED << allocated, open, upstream, options, contexts >>
    BY <2>4 DEF StreamRelease
  <2>5. CASE UNCHANGED vars
    BY <2>5 DEF vars, handles
  <2> QED
    BY <2>1, <2>2, <2>3, <2>4, <2>5 DEF Next
<1> QED
  BY <1>1, PTL DEF Spec, PoisonIsFinal

-----------------------------------------------------------------------------
(***************************************************************************)
(* Handles implements AdbcApi: each step of the driver is a step of the    *)
(* interface or shows nothing to it.                                       *)
(***************************************************************************)
LEMMA InitRefines == Init => Api!Init
<1> SUFFICES ASSUME Init PROVE Api!Init
  OBVIOUS
<1>1. Phase = [h \in Conn \cup Stmt \cup {DB} |-> "free"]
  BY DEF Init, Phase, Handle, Caller
<1>2. Valid = {}
  BY DEF Init, Valid, Live
<1> QED
  BY <1>1, <1>2 DEF Init, Api!Init

-----------------------------------------------------------------------------
(***************************************************************************)
(* What a call does to the result sets, by way of its contexts.            *)
(***************************************************************************)

\* A result set is valid while its context is its handle's and no other's.
LEMMA ValidContext ==
  ASSUME IInv, NEW x \in Valid
  PROVE  /\ x \in Stream /\ owner[x] \in Caller
         /\ using[x] \in live /\ using[x] # None
         /\ \A h \in Caller : cancel[h] = using[x] <=> owner[x] = h
<1>1. x \in Stream /\ owner[x] \in Caller /\ using[x] \in live /\ using[x] # None
  BY HandlesAssumption DEF IInv, TypeOK, Valid, Live
<1>2. cancel[owner[x]] = using[x]
  BY DEF IInv, StreamsFollow, Valid
<1> QED
  BY <1>1, <1>2 DEF IInv, ContextsDiffer

\* Nothing happens to contexts and streams: nor does anything to result sets.
LEMMA QuietValid == UNCHANGED << contexts, streams >> => UNCHANGED << owner, Valid >>
BY DEF contexts, streams, Valid, Live

\* A cancel, and the cancel inside a release, end result sets of the handle.
LEMMA CancelEnds ==
  ASSUME IInv, NEW h \in Caller, CancelContext(h), UNCHANGED streams
  PROVE  Api!MayEnd(h)
<1> DEFINE gone == {x \in Valid : using[x] = cancel[h]}
<1>1. gone \in SUBSET Api!From(h)
  BY ValidContext DEF Api!From
<1>2. Valid' = Valid \ gone
  BY DEF CancelContext, streams, Valid, Live
<1> QED
  BY <1>1, <1>2 DEF Api!MayEnd, streams

\* A fresh context ends all result sets of the handle, and revives none.
LEMMA FreshEnds ==
  ASSUME IInv, NEW h \in Caller, Unused # {}, NewContext(h, Fresh), NEW x \in Stream,
         owner'[x] = owner[x], using'[x] = using[x]
  PROVE  x \in Valid' <=> x \in Valid \ Api!From(h)
<1>1. Fresh \in Unused
  BY DEF Fresh
<1>2. using[x] # Fresh
  BY <1>1 DEF Unused
<1>3. ASSUME x \in Valid' PROVE x \in Valid \ Api!From(h)
  <2>1. owner[x] # None /\ using[x] \in live \ {cancel[h]}
    BY <1>2, <1>3 DEF Valid, Live, NewContext
  <2>2. x \in Valid
    BY <2>1 DEF Valid, Live
  <2> QED
    BY <2>1, <2>2, ValidContext DEF Api!From
<1>4. ASSUME x \in Valid, x \notin Api!From(h) PROVE x \in Valid'
  <2>1. using[x] \in live /\ using[x] # cancel[h] /\ owner[x] # None
    BY <1>4, ValidContext DEF Api!From, Valid, Live
  <2> QED
    BY <2>1 DEF NewContext, Valid, Live
<1> QED
  BY <1>3, <1>4

\* A call that hands out no stream.
LEMMA CallEnds ==
  ASSUME IInv, NEW h \in Caller, Unused # {}, NewContext(h, Fresh), UNCHANGED streams
  PROVE  Valid' = Valid \ Api!From(h)
<1>1. \A x \in Stream : x \in Valid' <=> x \in Valid \ Api!From(h)
  BY FreshEnds DEF streams
<1> QED
  BY <1>1 DEF Valid

\* A call that hands out stream x: the new result set is the only one of h.
LEMMA ReadEnds ==
  ASSUME IInv, NEW h \in Caller, NEW x \in Stream, owner[x] = None,
         Unused # {}, NewContext(h, Fresh), ExportRecordReader(h, x)
  PROVE  Valid' = (Valid \ Api!From(h)) \cup {x}
<1> USE DEF IInv, TypeOK, ExportRecordReader
<1>1. \A y \in Stream \ {x} : y \in Valid' <=> y \in Valid \ Api!From(h)
  BY FreshEnds
<1>2. x \in Valid'
  <2>1. owner'[x] = h /\ using'[x] = Fresh /\ Fresh \in live'
    BY DEF NewContext
  <2>2. h # None
    BY HandlesAssumption DEF Handle
  <2> QED
    BY <2>1, <2>2 DEF Valid, Live
<1> QED
  BY <1>1, <1>2 DEF Valid

-----------------------------------------------------------------------------
(***************************************************************************)
(* Every step of the driver.                                               *)
(***************************************************************************)

\* A function that leaves private_data and the objects behind it alone.
LEMMA PhaseKept == UNCHANGED << allocated, open >> => Phase' = Phase
BY DEF Phase

\* The three releases, before their effect on contexts.
LEMMA ReleaseMoves ==
  ASSUME NEW h \in Handle, NEW r, Allocated(h), ReleaseHandle(h, r)
  PROVE  Phase[h] # "free" /\ Phase' = [Phase EXCEPT ![h] = "free"]
BY DEF Allocated, ReleaseHandle, Phase

LEMMA DatabaseRefines == ASSUME IInv, Database PROVE Api!Next \/ UNCHANGED Api!vars
<1> USE DEF handles, Handle
<1>1. CASE DatabaseNew
  <2>1. UNCHANGED << owner, Valid >>
    BY <1>1, QuietValid DEF DatabaseNew
  <2>2. Api!Move(DB, "free", "new")
    BY <1>1 DEF DatabaseNew, IInv, Owned, Phase, Api!Move
  <2> QED
    BY <2>1, <2>2 DEF Api!DatabaseNew, Api!Database, Api!Next
<1>2. ASSUME NEW r \in Outcome, DatabaseInit(r) PROVE Api!Next \/ UNCHANGED Api!vars
  <2>1. UNCHANGED << owner, Valid >>
    BY <1>2, QuietValid DEF DatabaseInit
  <2>2. CASE r = "ok"
    <3>1. Api!Move(DB, "new", "ready")
      BY <1>2, <2>2 DEF DatabaseInit, Allocated, Phase, Api!Move
    <3> QED
      BY <2>1, <3>1 DEF Api!DatabaseInit, Api!Database, Api!Next
  <2>3. CASE r # "ok"
    BY <1>2, <2>1, <2>3, PhaseKept DEF DatabaseInit, Api!vars
  <2> QED
    BY <2>2, <2>3
<1>3. ASSUME NEW r \in Outcome, DatabaseRelease(r) PROVE Api!Next
  <2>1. UNCHANGED << owner, Valid >>
    BY <1>3, QuietValid DEF DatabaseRelease
  <2>2. Api!MayEnd(DB)
    BY <2>1 DEF Api!MayEnd
  <2>3. Phase[DB] # "free" /\ Phase' = [Phase EXCEPT ![DB] = "free"]
    BY <1>3, ReleaseMoves DEF DatabaseRelease
  <2> QED
    BY <2>2, <2>3 DEF Api!Destroy, Api!DatabaseRelease, Api!Database, Api!Next
<1>4. CASE DatabaseOption
  BY <1>4, QuietValid, PhaseKept DEF DatabaseOption, Api!vars
<1> QED
  BY <1>1, <1>2, <1>3, <1>4 DEF Database

\* What a call on an initialized handle finds.
LEMMA ReadyPhase == ASSUME NEW h \in Handle, Initialized(h) PROVE Phase[h] = "ready"
BY DEF Initialized, Allocated, Phase

LEMMA ConnectionRefines ==
  ASSUME IInv, NEW c \in Conn, Connection(c) PROVE Api!Next \/ UNCHANGED Api!vars
<1> USE DEF handles, Handle, Caller
<1>0. Api!Connection(c) => Api!Next
  BY DEF Api!Next
<1>1. CASE ConnectionNew(c)
  <2>1. UNCHANGED << owner, Valid >>
    BY <1>1, QuietValid DEF ConnectionNew
  <2>2. Api!Move(c, "free", "new")
    BY <1>1 DEF ConnectionNew, IInv, Owned, Phase, Api!Move
  <2> QED
    BY <1>0, <2>1, <2>2 DEF Api!ConnectionNew, Api!Connection
<1>2. CASE ConnectionCancel(c)
  <2>1. Api!MayEnd(c) /\ Phase' = Phase
    BY <1>2, CancelEnds, PhaseKept DEF ConnectionCancel
  <2>2. Phase[c] = "ready"
    BY <1>2, ReadyPhase DEF ConnectionCancel
  <2> QED
    BY <1>0, <2>1, <2>2 DEF Api!ConnectionCancel, Api!Connection
<1>3. CASE ConnectionOpenPanics(c)
  BY <1>3, QuietValid, PhaseKept DEF ConnectionOpenPanics, Api!vars
<1>4. ASSUME NEW o \in Option, ConnectionCollectsOption(c, o) PROVE UNCHANGED Api!vars
  BY <1>4, QuietValid, PhaseKept DEF ConnectionCollectsOption, Api!vars
<1>5. ASSUME NEW r \in Outcome, ConnectionRelease(c, r) PROVE Api!Next
  <2>1. Api!MayEnd(c)
    BY <1>5, CancelEnds DEF ConnectionRelease
  <2>2. Phase[c] # "free" /\ Phase' = [Phase EXCEPT ![c] = "free"]
    BY <1>5, ReleaseMoves DEF ConnectionRelease
  <2> QED
    BY <1>0, <2>1, <2>2 DEF Api!Destroy, Api!ConnectionRelease, Api!Connection
<1>6. ASSUME NEW r \in Outcome, ConnectionCalls(c, r) PROVE Api!Next
  <2>1. Valid' = Valid \ Api!From(c) /\ owner' = owner
    BY <1>6, CallEnds DEF ConnectionCalls, CallOn, streams
  <2>2. Phase[c] = "ready" /\ Phase' = Phase
    BY <1>6, ReadyPhase, PhaseKept DEF ConnectionCalls, CallOn
  <2>3. Api!MayEnd(c)
    BY <2>1 DEF Api!MayEnd
  <2> QED
    BY <1>0, <2>2, <2>3 DEF Api!ConnectionCalls, Api!Connection
<1>7. ASSUME NEW r \in Outcome, NEW o \in Option, ConnectionSetOption(c, o, r)
      PROVE  UNCHANGED Api!vars
  BY <1>7, QuietValid, PhaseKept DEF ConnectionSetOption, Api!vars
<1>8. ASSUME NEW r \in Outcome, NEW done \in SUBSET Option, ConnectionInit(c, done, r)
      PROVE  Api!Next
  <2>1. UNCHANGED << owner, Valid >>
    BY <1>8, QuietValid DEF ConnectionInit
  <2>2. Phase[DB] = "ready"
    BY <1>8, ReadyPhase DEF ConnectionInit
  <2>3. Api!Move(c, "new", "ready")
    BY <1>8 DEF ConnectionInit, Allocated, Phase, Api!Move
  <2> QED
    BY <1>0, <2>1, <2>2, <2>3 DEF Api!ConnectionInit, Api!Connection
<1>9. ASSUME NEW r \in Outcome, NEW x \in Stream, ConnectionReads(c, x, r)
      PROVE  Api!Next
  <2>1. Phase[c] = "ready" /\ Phase' = Phase
    BY <1>9, ReadyPhase, PhaseKept DEF ConnectionReads, ReadOn
  <2>2. CASE r = "ok"
    <3>1. owner[x] = None /\ owner' = [owner EXCEPT ![x] = c]
      BY <1>9, <2>2 DEF ConnectionReads, ReadOn, ExportRecordReader
    <3>2. Valid' = (Valid \ Api!From(c)) \cup {x}
      BY <1>9, <2>2, ReadEnds DEF ConnectionReads, ReadOn
    <3>3. Api!ConnectionReads(c, x)
      BY <2>1, <3>1, <3>2 DEF Api!ConnectionReads
    <3> QED
      BY <1>0, <3>3 DEF Api!Connection
  <2>3. CASE r # "ok"
    <3>1. Valid' = Valid \ Api!From(c) /\ owner' = owner
      BY <1>9, <2>3, CallEnds DEF ConnectionReads, ReadOn, streams
    <3>2. Api!MayEnd(c)
      BY <3>1 DEF Api!MayEnd
    <3> QED
      BY <1>0, <2>1, <3>2 DEF Api!ConnectionCalls, Api!Connection
  <2> QED
    BY <2>2, <2>3
<1> QED
  BY <1>1, <1>2, <1>3, <1>4, <1>5, <1>6, <1>7, <1>8, <1>9 DEF Connection

LEMMA StatementRefines ==
  ASSUME IInv, NEW s \in Stmt, Statement(s) PROVE Api!Next \/ UNCHANGED Api!vars
<1> USE DEF handles, Handle, Caller
<1>0. Api!Statement(s) => Api!Next
  BY DEF Api!Next
<1>1. CASE StatementCancel(s)
  <2>1. Api!MayEnd(s) /\ Phase' = Phase
    BY <1>1, CancelEnds, PhaseKept DEF StatementCancel
  <2>2. Phase[s] = "ready"
    BY <1>1, ReadyPhase DEF StatementCancel
  <2> QED
    BY <1>0, <2>1, <2>2 DEF Api!StatementCancel, Api!Statement
<1>2. ASSUME NEW r \in Outcome, NEW c \in Conn, StatementNew(s, c, r)
      PROVE  Api!Next \/ UNCHANGED Api!vars
  <2>1. UNCHANGED << owner, Valid >>
    BY <1>2, QuietValid DEF StatementNew
  <2>2. CASE r = "ok"
    <3>1. Phase[c] = "ready"
      BY <1>2, ReadyPhase DEF StatementNew
    <3>2. Api!Move(s, "free", "ready")
      BY <1>2, <2>2 DEF StatementNew, Phase, Api!Move
    <3> QED
      BY <1>0, <2>1, <3>1, <3>2 DEF Api!StatementNew, Api!Statement
  <2>3. CASE r # "ok"
    BY <1>2, <2>1, <2>3, PhaseKept DEF StatementNew, Api!vars
  <2> QED
    BY <2>2, <2>3
<1>3. ASSUME NEW r \in Outcome, StatementRelease(s, r) PROVE Api!Next
  <2>1. Api!MayEnd(s)
    BY <1>3, CancelEnds DEF StatementRelease
  <2>2. Phase[s] # "free" /\ Phase' = [Phase EXCEPT ![s] = "free"]
    BY <1>3, ReleaseMoves DEF StatementRelease
  <2> QED
    BY <1>0, <2>1, <2>2 DEF Api!Destroy, Api!StatementRelease, Api!Statement
<1>4. ASSUME NEW r \in Outcome, StatementCalls(s, r) PROVE Api!Next
  <2>1. Valid' = Valid \ Api!From(s) /\ owner' = owner
    BY <1>4, CallEnds DEF StatementCalls, CallOn, streams
  <2>2. Phase[s] = "ready" /\ Phase' = Phase
    BY <1>4, ReadyPhase, PhaseKept DEF StatementCalls, CallOn
  <2> QED
    BY <1>0, <2>1, <2>2 DEF Api!StatementCalls, Api!Statement
<1>5. ASSUME NEW r \in Outcome, NEW x \in Stream, StatementExecuteQuery(s, x, r)
      PROVE  Api!Next
  <2>1. Phase[s] = "ready" /\ Phase' = Phase
    BY <1>5, ReadyPhase, PhaseKept DEF StatementExecuteQuery, ReadOn
  <2>2. CASE r = "ok"
    <3>1. owner[x] = None /\ owner' = [owner EXCEPT ![x] = s]
      BY <1>5, <2>2 DEF StatementExecuteQuery, ReadOn, ExportRecordReader
    <3>2. Valid' = (Valid \ Api!From(s)) \cup {x}
      BY <1>5, <2>2, ReadEnds DEF StatementExecuteQuery, ReadOn
    <3>3. Api!StatementExecuteQuery(s, x)
      BY <2>1, <3>1, <3>2 DEF Api!StatementExecuteQuery
    <3> QED
      BY <1>0, <3>3 DEF Api!Statement
  <2>3. CASE r # "ok"
    <3>1. Valid' = Valid \ Api!From(s) /\ owner' = owner
      BY <1>5, <2>3, CallEnds DEF StatementExecuteQuery, ReadOn, streams
    <3> QED
      BY <1>0, <2>1, <3>1 DEF Api!StatementCalls, Api!Statement
  <2> QED
    BY <2>2, <2>3
<1> QED
  BY <1>1, <1>2, <1>3, <1>4, <1>5 DEF Statement

LEMMA StreamRefines == ASSUME IInv, NEW x \in Stream, StreamRelease(x) PROVE Api!Next
<1>1. owner[x] # None /\ owner' = [owner EXCEPT ![x] = None] /\ Phase' = Phase
  BY PhaseKept DEF StreamRelease
<1>2. Valid' = Valid \ {x}
  <2>1. x \notin Valid'
    BY <1>1 DEF Valid, Live, IInv, TypeOK
  <2>2. \A y \in Stream \ {x} : y \in Valid' <=> y \in Valid
    BY DEF StreamRelease, Valid, Live, IInv, TypeOK, contexts
  <2> QED
    BY <2>1, <2>2 DEF Valid
<1> QED
  BY <1>1, <1>2 DEF Api!StreamRelease, Api!Next

-----------------------------------------------------------------------------

\* The driver's handles, contexts and streams give a client the life cycle
\* and the result sets adbc.h describes, with failures and panics anywhere.
THEOREM Implements == Spec => ImplementsApi
<1>1. IInv /\ [Next]_vars => [Api!Next]_(Api!vars)
  <2>1. ASSUME IInv, Next PROVE [Api!Next]_(Api!vars)
    BY <2>1, DatabaseRefines, ConnectionRefines, StatementRefines, StreamRefines DEF Next
  <2>2. ASSUME UNCHANGED vars PROVE UNCHANGED Api!vars
    BY <2>2, QuietValid, PhaseKept DEF vars, handles, Api!vars
  <2> QED
    BY <2>1, <2>2
<1> QED
  BY <1>1, InitRefines, Invariance, PTL DEF Spec, ImplementsApi, Api!Spec
=============================================================================
