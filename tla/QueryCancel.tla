---------------------------- MODULE QueryCancel ----------------------------
(***************************************************************************)
(* Server-side cancellation of the statements of one GizmoSQL session:     *)
(* go/gizmosql/cancel.go and the cancellation half of the statement type   *)
(* in go/gizmosql/driver.go.                                               *)
(*                                                                         *)
(* Every execution is numbered by the call that issues it.  Execution e    *)
(* owns one callState (the blocking call) and, once a reader is handed     *)
(* out, one execState (the stream), so both are functions over Exec and a  *)
(* pointer to either of them is the execution's number.                    *)
(*                                                                         *)
(* Each statement has an owner goroutine, which executes, reads and        *)
(* releases; helper goroutines call Close and CancelQuery on any of the    *)
(* statements.  A step is the code between two accesses to shared state.   *)
(* The unsynchronised read of s.current may return an older pointer: that  *)
(* is the interleaving in which the read came first.                       *)
(*                                                                         *)
(* The server is external.  A session runs one statement at a time, and a  *)
(* CancelFlightInfo interrupts whichever one is active: its payload is     *)
(* ignored (cancel.go, file comment).                                      *)
(***************************************************************************)
EXTENDS Naturals, FiniteSets

CONSTANTS
  Stmt,             \* the statements opened on the session
  Helper,           \* goroutines that close or cancel statements
  None,             \* the nil pointer
  MaxExec,          \* how many executions the client issues (bound)
  MaxHelp,          \* how many calls of Close and CancelQuery are made (bound)
  OneCallAtATime,   \* the client makes one driver call at a time
  OneResultAtATime, \* ... and releases each result before it executes again
  PromptCancels     \* no cancel RPC is lost or outlives its 5 s timeout

Exec  == 1..MaxExec
Agent == Stmt \cup Helper

ASSUME ConstantsAssumption ==
  /\ MaxExec \in Nat
  /\ MaxHelp \in Nat
  /\ Stmt \cap Helper = {}
  /\ None \notin Stmt \cup Exec
  /\ OneCallAtATime \in BOOLEAN
  /\ OneResultAtATime \in BOOLEAN
  /\ PromptCancels \in BOOLEAN

VARIABLES
  inFlight,      \* statement.inFlight: the call in progress, or None
  current,       \* statement.current: the latest streaming execution, or None
  callCancelled, \* callState.cancelled
  exhausted,     \* execState.exhausted
  cancelled,     \* execState.cancelled
  reader,        \* the cancelReader of each execution
  pc,            \* the next step of each goroutine
  at,            \* the execution (or CancelQuery number) of that step, or None
  tgt,           \* the statement a helper is working on, or None
  msg,           \* the cancel a goroutine waits for, or None
  issued,        \* how many executions have been issued
  closes,        \* how many times Close has been called
  asker,         \* the statement that issued each execution, or None
  server,        \* what the server has done with each execution
  wire,          \* cancels sent and not yet handled by the server
  queries,       \* how many times CancelQuery has been called
  callAsks,      \* history: implicit cancels sent for each callState
  streamAsks,    \* history: implicit cancels sent for each execState
  torn,          \* history: executions whose RPC the client side tore down
  owed           \* history: what each running Close has to account for

client  == << inFlight, current, callCancelled, exhausted, cancelled, reader,
              issued, closes, asker >>
control == << pc, at, tgt, msg >>
network == << server, wire >>
history == << callAsks, streamAsks, torn, owed >>
vars    == << client, control, network, queries, history >>

Cancel == [by: {"call", "stream"}, n: Exec]
            \cup [by: {"user"}, n: 1..MaxHelp]

(***************************************************************************)
(* The server side of the session.                                         *)
(***************************************************************************)
Live(e)   == server[e] \in {"posted", "running"}
Active    == {e \in Exec : server[e] = "running"}
Claimed(e) == callCancelled[e] \/ cancelled[e]

\* e is the latest execution of s.
Latest(s, e) == asker[e] = s /\ \A d \in Exec : d > e => asker[d] # s

\* The caller still wants the outcome of e: it is parked in the call or holds
\* the reader, and has neither cancelled it nor seen its end.
Wanted(e) ==
  /\ Live(e)
  /\ ~Claimed(e)
  /\ e \notin torn
  /\ exhausted[e] = FALSE

Init ==
  /\ inFlight = [s \in Stmt |-> None]
  /\ current = [s \in Stmt |-> None]
  /\ callCancelled = [e \in Exec |-> FALSE]
  /\ exhausted = [e \in Exec |-> FALSE]
  /\ cancelled = [e \in Exec |-> FALSE]
  /\ reader = [e \in Exec |-> "none"]
  /\ pc = [a \in Agent |-> "idle"]
  /\ at = [a \in Agent |-> None]
  /\ tgt = [h \in Helper |-> None]
  /\ msg = [a \in Agent |-> None]
  /\ issued = 0
  /\ closes = 0
  /\ asker = [e \in Exec |-> None]
  /\ server = [e \in Exec |-> "new"]
  /\ wire = {}
  /\ queries = 0
  /\ callAsks = [e \in Exec |-> 0]
  /\ streamAsks = [e \in Exec |-> 0]
  /\ torn = {}
  /\ owed = [h \in Helper |-> {}]

(***************************************************************************)
(* Sending a cancel and waiting for it.  sessionCanceler.cancel blocks in  *)
(* the RPC until the server answers; the implicit cancels of Close and     *)
(* Release give up after implicitCancelTimeout, while the request may      *)
(* still be on its way.                                                    *)
(***************************************************************************)
Goto(a, step) == pc' = [pc EXCEPT ![a] = step]

\* Faulty: cancelling only tears the local stream down (before 2.0.9).
SendNothing(a, m, step) == UNCHANGED << wire, msg >> /\ Goto(a, step)

SendCancel(a, m, step) ==
  /\ wire' = wire \cup {m}
  /\ msg' = [msg EXCEPT ![a] = m]
  /\ Goto(a, step)

\* Faulty: the cancel is sent in the background.
AnsweredAtOnce(a) == a \in Agent

Answered(a) == PromptCancels => msg[a] \notin wire

AwaitCancel(a, step) ==
  /\ Answered(a)
  /\ msg' = [msg EXCEPT ![a] = None]
  /\ Goto(a, step)

\* Faulty: the flag is set without looking at it.
ClaimAlways(flag, e) == flag[e] \in BOOLEAN

\* callState.cancelled and execState.cancelled are claimed by compare-and-swap.
Claim(flag, e) == flag[e] = FALSE

MayStart(a) ==
  /\ pc[a] = "idle"
  /\ OneCallAtATime => \A b \in Agent : pc[b] = "idle"

-----------------------------------------------------------------------------
(***************************************************************************)
(* The owner of a statement: ExecuteUpdate, ExecuteQuery and the reader.   *)
(***************************************************************************)

\* Faulty: nothing records the blocking call (before 2.0.12).
MarkNothing(s, e) == UNCHANGED inFlight

MarkInFlight(s, e) == inFlight' = [inFlight EXCEPT ![s] = e]

\* beginCall: the call is visible in inFlight before any RPC is made.
BeginCall(s) ==
  /\ MayStart(s)
  /\ issued < MaxExec
  /\ OneResultAtATime => \A e \in Exec : reader[e] # "open"
  /\ issued' = issued + 1
  /\ asker' = [asker EXCEPT ![issued + 1] = s]
  /\ MarkInFlight(s, issued + 1)
  /\ at' = [at EXCEPT ![s] = issued + 1]
  /\ Goto(s, "issue")
  /\ UNCHANGED << current, callCancelled, exhausted, cancelled, reader, closes,
                  tgt, msg, network, queries, history >>

\* The blocking half: ExecuteUpdate, and the statements ExecuteQuery runs to
\* completion before it returns (DDL/DML through DoPut, RETURNING through
\* materialize).
IssueUpdate(s) ==
  /\ pc[s] = "issue"
  /\ server' = [server EXCEPT ![at[s]] = "posted"]
  /\ Goto(s, "wait")
  /\ UNCHANGED << client, at, tgt, msg, wire, queries, history >>

ReturnUpdate(s) ==
  /\ pc[s] = "wait"
  /\ server[at[s]] \in {"finished", "interrupted"}
  /\ Goto(s, "end")
  /\ UNCHANGED << client, at, tgt, msg, network, queries, history >>

\* The streaming half: GetFlightInfo only plans the query; the DoGet that
\* executes it is on its way when the inner ExecuteQuery returns its reader.
IssueStream(s) ==
  /\ pc[s] = "issue"
  /\ server' = [server EXCEPT ![at[s]] = "posted"]
  /\ Goto(s, "track")
  /\ UNCHANGED << client, at, tgt, msg, wire, queries, history >>

\* Faulty: the stream is wrapped but not remembered by the statement.
TrackNothing(s) == UNCHANGED current

TrackCurrent(s) == current' = [current EXCEPT ![s] = at[s]]

\* trackStreaming runs before the deferred endCall.
TrackStreaming(s) ==
  /\ pc[s] = "track"
  /\ TrackCurrent(s)
  /\ reader' = [reader EXCEPT ![at[s]] = "open"]
  /\ Goto(s, "end")
  /\ UNCHANGED << inFlight, callCancelled, exhausted, cancelled, issued,
                  closes, asker, at, tgt, msg, network, queries, history >>

\* The call fails on the client side: planning is refused, the caller's
\* context is cancelled or the transport breaks.  The server hears nothing.
FailCall(s) ==
  /\ pc[s] \in {"issue", "wait"}
  /\ torn' = torn \cup {at[s]}
  /\ Goto(s, "end")
  /\ UNCHANGED << client, at, tgt, msg, network, queries, callAsks, streamAsks,
                  owed >>

EndCall(s) ==
  /\ pc[s] = "end"
  /\ inFlight' = [inFlight EXCEPT ![s] = IF @ = at[s] THEN None ELSE @]
  /\ at' = [at EXCEPT ![s] = None]
  /\ Goto(s, "idle")
  /\ UNCHANGED << current, callCancelled, exhausted, cancelled, reader,
                  issued, closes, asker, tgt, msg, network, queries, history >>

\* cancelReader.Next returns false: the stream is drained, or it ended with an
\* error (the server's interrupt, or a local teardown while it still runs).
NextIsLast(s, e) ==
  /\ MayStart(s)
  /\ asker[e] = s
  /\ reader[e] = "open"
  /\ server[e] # "new"
  /\ exhausted' = [exhausted EXCEPT ![e] = TRUE]
  /\ torn' = IF Live(e) THEN torn \cup {e} ELSE torn
  /\ UNCHANGED << inFlight, current, callCancelled, cancelled, reader,
                  issued, closes, asker, control, network, queries, callAsks, streamAsks,
                  owed >>

\* Faulty: Release cancels whatever has been read.
NeverDrained(e) == e \notin Exec

Drained(e) == exhausted[e]

\* The last reference of a cancelReader is dropped: abandoned() loads
\* exhausted here and claims in the next step.
ReleaseDrained(s, e) ==
  /\ MayStart(s)
  /\ asker[e] = s
  /\ reader[e] = "open"
  /\ Drained(e)
  /\ reader' = [reader EXCEPT ![e] = "released"]
  /\ UNCHANGED << inFlight, current, callCancelled, exhausted, cancelled,
                  issued, closes, asker, control, network, queries, history >>

ReleaseUndrained(s, e) ==
  /\ MayStart(s)
  /\ asker[e] = s
  /\ reader[e] = "open"
  /\ ~Drained(e)
  /\ at' = [at EXCEPT ![s] = e]
  /\ Goto(s, "release")
  /\ UNCHANGED << client, tgt, msg, network, queries, history >>

ReleaseClaims(s) ==
  /\ pc[s] = "release"
  /\ Claim(cancelled, at[s])
  /\ cancelled' = [cancelled EXCEPT ![at[s]] = TRUE]
  /\ streamAsks' = [streamAsks EXCEPT ![at[s]] = @ + 1]
  /\ SendCancel(s, [by |-> "stream", n |-> at[s]], "drop")
  /\ UNCHANGED << inFlight, current, callCancelled, exhausted, reader,
                  issued, closes, asker, at, tgt, server, queries, callAsks, torn,
                  owed >>

ReleaseIsLate(s) ==
  /\ pc[s] = "release"
  /\ cancelled[at[s]]
  /\ Goto(s, "drop")
  /\ UNCHANGED << client, at, tgt, msg, network, queries, history >>

\* The cancel has been answered (or given up); the inner reader goes.
ReleaseInner(s) ==
  /\ pc[s] = "drop"
  /\ AwaitCancel(s, "idle")
  /\ reader' = [reader EXCEPT ![at[s]] = "released"]
  /\ at' = [at EXCEPT ![s] = None]
  /\ UNCHANGED << inFlight, current, callCancelled, exhausted, cancelled,
                  issued, closes, asker, tgt, network, queries, history >>

-----------------------------------------------------------------------------
(***************************************************************************)
(* Close.                                                                  *)
(***************************************************************************)

\* claimInFlight loads inFlight ...
CloseLoads(h, s) ==
  /\ MayStart(h)
  /\ closes + queries < MaxHelp
  /\ closes' = closes + 1
  /\ tgt' = [tgt EXCEPT ![h] = s]
  /\ at' = [at EXCEPT ![h] = inFlight[s]]
  /\ Goto(h, IF inFlight[s] = None THEN "closeStream" ELSE "closeCall")
  /\ owed' = [owed EXCEPT ![h] = {e \in Exec : Latest(s, e)}]
  /\ UNCHANGED << inFlight, current, callCancelled, exhausted, cancelled, reader,
                  issued, asker, msg, network, queries, callAsks, streamAsks, torn >>

\* ... and claims the callState it found.
CloseClaimsCall(h) ==
  /\ pc[h] = "closeCall"
  /\ Claim(callCancelled, at[h])
  /\ callCancelled' = [callCancelled EXCEPT ![at[h]] = TRUE]
  /\ callAsks' = [callAsks EXCEPT ![at[h]] = @ + 1]
  /\ SendCancel(h, [by |-> "call", n |-> at[h]], "closeInner")
  /\ UNCHANGED << inFlight, current, exhausted, cancelled, reader, issued,
                  closes, asker, at, tgt, server, queries, streamAsks, torn, owed >>

CloseMissesCall(h) ==
  /\ pc[h] = "closeCall"
  /\ callCancelled[at[h]]
  /\ at' = [at EXCEPT ![h] = None]
  /\ Goto(h, "closeStream")
  /\ UNCHANGED << client, tgt, msg, network, queries, history >>

\* current.abandoned(): the load of exhausted ...
CloseFindsStream(h) ==
  /\ pc[h] = "closeStream"
  /\ current[tgt[h]] # None
  /\ ~Drained(current[tgt[h]])
  /\ at' = [at EXCEPT ![h] = current[tgt[h]]]
  /\ Goto(h, "closeClaim")
  /\ UNCHANGED << client, tgt, msg, network, queries, history >>

CloseFindsNothing(h) ==
  /\ pc[h] = "closeStream"
  /\ \/ current[tgt[h]] = None
     \/ current[tgt[h]] # None /\ Drained(current[tgt[h]])
  /\ Goto(h, "closeInner")
  /\ UNCHANGED << client, at, tgt, msg, network, queries, history >>

\* ... and the compare-and-swap of cancelled.
CloseClaimsStream(h) ==
  /\ pc[h] = "closeClaim"
  /\ Claim(cancelled, at[h])
  /\ cancelled' = [cancelled EXCEPT ![at[h]] = TRUE]
  /\ streamAsks' = [streamAsks EXCEPT ![at[h]] = @ + 1]
  /\ SendCancel(h, [by |-> "stream", n |-> at[h]], "closeInner")
  /\ UNCHANGED << inFlight, current, callCancelled, exhausted, reader,
                  issued, closes, asker, at, tgt, server, queries, callAsks, torn,
                  owed >>

CloseMissesStream(h) ==
  /\ pc[h] = "closeClaim"
  /\ cancelled[at[h]]
  /\ Goto(h, "closeInner")
  /\ UNCHANGED << client, at, tgt, msg, network, queries, history >>

CloseInner(h) ==
  /\ pc[h] = "closeInner"
  /\ AwaitCancel(h, "idle")
  /\ owed' = [owed EXCEPT ![h] = {}]
  /\ tgt' = [tgt EXCEPT ![h] = None]
  /\ at' = [at EXCEPT ![h] = None]
  /\ UNCHANGED << client, network, queries, callAsks, streamAsks, torn >>

(***************************************************************************)
(* CancelQuery: marks the stream, then the call, then always sends.        *)
(***************************************************************************)
CancelQueryMarksStream(h, s) ==
  /\ MayStart(h)
  /\ closes + queries < MaxHelp
  /\ queries' = queries + 1
  /\ at' = [at EXCEPT ![h] = queries + 1]
  /\ tgt' = [tgt EXCEPT ![h] = s]
  /\ cancelled' = [e \in Exec |-> cancelled[e] \/ e = current[s]]
  /\ Goto(h, "markCall")
  /\ UNCHANGED << inFlight, current, callCancelled, exhausted, reader,
                  issued, closes, asker, msg, network, history >>

CancelQueryMarksCall(h) ==
  /\ pc[h] = "markCall"
  /\ callCancelled' = [e \in Exec |-> callCancelled[e] \/ e = inFlight[tgt[h]]]
  /\ Goto(h, "send")
  /\ UNCHANGED << inFlight, current, exhausted, cancelled, reader, issued,
                  closes, asker, at, tgt, msg, network, queries, history >>

CancelQuerySends(h) ==
  /\ pc[h] = "send"
  /\ SendCancel(h, [by |-> "user", n |-> at[h]], "cancelReturn")
  /\ UNCHANGED << client, at, tgt, server, queries, history >>

CancelQueryReturns(h) ==
  /\ pc[h] = "cancelReturn"
  /\ AwaitCancel(h, "idle")
  /\ tgt' = [tgt EXCEPT ![h] = None]
  /\ at' = [at EXCEPT ![h] = None]
  /\ UNCHANGED << client, network, queries, history >>

-----------------------------------------------------------------------------
(***************************************************************************)
(* The server and the network.                                             *)
(***************************************************************************)
ServerStarts(e) ==
  /\ server[e] = "posted"
  /\ Active = {}
  /\ server' = [server EXCEPT ![e] = "running"]
  /\ UNCHANGED << client, control, wire, queries, history >>

ServerFinishes(e) ==
  /\ server[e] = "running"
  /\ server' = [server EXCEPT ![e] = "finished"]
  /\ UNCHANGED << client, control, wire, queries, history >>

\* The request of an execution the client gave up never reaches the server.
RequestDropped(e) ==
  /\ server[e] = "posted"
  /\ e \in torn \/ reader[e] = "released"
  /\ server' = [server EXCEPT ![e] = "dropped"]
  /\ UNCHANGED << client, control, wire, queries, history >>

ServerHandlesCancel(m) ==
  /\ m \in wire
  /\ wire' = wire \ {m}
  /\ server' = [e \in Exec |-> IF e \in Active THEN "interrupted" ELSE server[e]]
  /\ UNCHANGED << client, control, queries, history >>

CancelLost(m) ==
  /\ ~PromptCancels
  /\ m \in wire
  /\ wire' = wire \ {m}
  /\ UNCHANGED << client, control, server, queries, history >>

-----------------------------------------------------------------------------
Owner(s) ==
  \/ BeginCall(s) \/ IssueUpdate(s) \/ ReturnUpdate(s)
  \/ IssueStream(s) \/ TrackStreaming(s) \/ FailCall(s) \/ EndCall(s)
  \/ \E e \in Exec :
       NextIsLast(s, e) \/ ReleaseDrained(s, e) \/ ReleaseUndrained(s, e)
  \/ ReleaseClaims(s) \/ ReleaseIsLate(s) \/ ReleaseInner(s)

Helping(h) ==
  \/ \E s \in Stmt : CloseLoads(h, s) \/ CancelQueryMarksStream(h, s)
  \/ CloseClaimsCall(h) \/ CloseMissesCall(h)
  \/ CloseFindsStream(h) \/ CloseFindsNothing(h)
  \/ CloseClaimsStream(h) \/ CloseMissesStream(h) \/ CloseInner(h)
  \/ CancelQueryMarksCall(h) \/ CancelQuerySends(h) \/ CancelQueryReturns(h)

Network ==
  \/ \E e \in Exec : ServerStarts(e) \/ ServerFinishes(e) \/ RequestDropped(e)
  \/ \E m \in Cancel : ServerHandlesCancel(m) \/ CancelLost(m)

Next == (\E s \in Stmt : Owner(s)) \/ (\E h \in Helper : Helping(h)) \/ Network

Spec == Init /\ [][Next]_vars

(***************************************************************************)
(* Fairness: goroutines that have entered a driver call are scheduled, the *)
(* server starts what it was sent, and requests on the session's           *)
(* connection arrive.  Nothing makes the client start a call, and nothing  *)
(* makes a running statement finish: a long query is the point of cancel.  *)
(***************************************************************************)
OwnerProceeds(s) ==
  \/ IssueUpdate(s) \/ ReturnUpdate(s) \/ TrackStreaming(s) \/ EndCall(s)
  \/ ReleaseClaims(s) \/ ReleaseIsLate(s) \/ ReleaseInner(s)

HelperProceeds(h) ==
  \/ CloseClaimsCall(h) \/ CloseMissesCall(h)
  \/ CloseFindsStream(h) \/ CloseFindsNothing(h)
  \/ CloseClaimsStream(h) \/ CloseMissesStream(h) \/ CloseInner(h)
  \/ CancelQueryMarksCall(h) \/ CancelQuerySends(h) \/ CancelQueryReturns(h)

Fairness ==
  /\ \A s \in Stmt : WF_vars(OwnerProceeds(s))
  /\ \A h \in Helper : WF_vars(HelperProceeds(h))
  /\ \A m \in Cancel : WF_vars(ServerHandlesCancel(m))
  /\ \A e \in Exec : WF_vars(ServerStarts(e))

FairSpec == Spec /\ Fairness

-----------------------------------------------------------------------------
(***************************************************************************)
(* Properties.                                                             *)
(***************************************************************************)
OwnerStep  == {"idle", "issue", "wait", "track", "end", "release", "drop"}
ServerState == {"new", "posted", "running", "finished", "interrupted",
                "dropped"}
HelperStep == {"idle", "closeCall", "closeStream", "closeClaim", "closeInner",
               "markCall", "send", "cancelReturn"}

\* Every variable has its type.
TypeOK ==
  /\ inFlight \in [Stmt -> Exec \cup {None}]
  /\ current \in [Stmt -> Exec \cup {None}]
  /\ callCancelled \in [Exec -> BOOLEAN]
  /\ exhausted \in [Exec -> BOOLEAN]
  /\ cancelled \in [Exec -> BOOLEAN]
  /\ reader \in [Exec -> {"none", "open", "released"}]
  /\ pc \in [Agent -> OwnerStep \cup HelperStep]
  /\ at \in [Agent -> Exec \cup 1..MaxHelp \cup {None}]
  /\ tgt \in [Helper -> Stmt \cup {None}]
  /\ msg \in [Agent -> Cancel \cup {None}]
  /\ issued \in 0..MaxExec
  /\ closes \in 0..MaxHelp
  /\ asker \in [Exec -> Stmt \cup {None}]
  /\ server \in [Exec -> ServerState]
  /\ wire \subseteq Cancel
  /\ queries \in 0..MaxHelp
  /\ callAsks \in [Exec -> Nat]
  /\ streamAsks \in [Exec -> Nat]
  /\ torn \subseteq Exec
  /\ owed \in [Helper -> SUBSET Exec]

\* However Close, Release, CancelQuery and the end of the call interleave, the
\* implicit cancel of a callState, and that of an execState, goes out at most
\* once (callState and abandoned() in driver.go and cancel.go).
AskedAtMostOnce ==
  \A e \in Exec : callAsks[e] =< 1 /\ streamAsks[e] =< 1

\* Somebody who can still cancel e holds it: the owner is parked in the call
\* and Close can see it in inFlight, or a reader is open or being released.
Held(e) ==
  \E s \in Stmt :
    /\ asker[e] = s
    /\ \/ at[s] = e /\ inFlight[s] = e /\ pc[s] \in {"issue", "wait", "track"}
       \/ at[s] = e /\ pc[s] = "release"
       \/ reader[e] = "open"

\* An execution the client side did not tear down is never left on the server
\* with nobody in charge of it: it has been cancelled or somebody can still
\* cancel it.  In particular there is no instant between the blocking call and
\* its stream, and none between Load and CompareAndSwap, when it is lost.
NoSilentAbandon ==
  \A e \in Exec : Live(e) /\ e \notin torn => Claimed(e) \/ Held(e)

\* When Close goes on to close the inner statement and return, the execution
\* that was the statement's latest as this Close began, be it a call in progress
\* or a stream, is not running unclaimed, whatever Close interleaved with: the
\* call becoming a stream, Release, CancelQuery, another Close.  Two executions
\* are left out.  An older stream is left to the Release of its own reader.  A
\* call begun after Close has loaded inFlight is nobody's: it stays unclaimed
\* unless Close meets its stream, and it supersedes the one Close was about.
ClosedIsClaimed ==
  \A h \in Helper : \A e \in owed[h] :
    pc[h] = "closeInner" /\ Latest(tgt[h], e) /\ Live(e) /\ e \notin torn
      => Claimed(e)

\* What CancelContract is about: how each execution fares, whose outcome is still
\* wanted, and how many explicit cancels are on their way.
Life     == [e \in Exec |-> IF Live(e) THEN "live" ELSE server[e]]
Wants    == {e \in Exec : Wanted(e)}
Explicit == Cardinality({m \in wire : m.by = "user"})

Contract ==
  INSTANCE CancelContract WITH life <- Life, wanted <- Wants, explicit <- Explicit

\* A client that makes one call at a time, releases each result before it
\* executes again and loses no cancel sees a cancel that is addressed to its
\* execution, although the server's cancel has no addressee.
ImplementsContract == Contract!Spec

\* A stream is cancelled only if the caller abandoned it before draining it
\* (cancel.go, abandoned()); a Next between the Load and the CompareAndSwap of
\* a concurrent Close is what the promise does not cover.
DrainedNotAsked ==
  [][\A e \in Exec : streamAsks'[e] > streamAsks[e] => ~exhausted[e]]_vars

\* A Close that finds an update running on the server unblocks the goroutine
\* parked in that update, however long the statement would have run.
CloseUnblocksUpdate ==
  \A s \in Stmt, h \in Helper, e \in Exec :
    /\ tgt[h] = s /\ at[h] = e /\ pc[h] = "closeCall"
    /\ at[s] = e /\ pc[s] = "wait"
    /\ server[e] = "running" /\ ~callCancelled[e]
    ~> pc[s] = "idle"
=============================================================================
