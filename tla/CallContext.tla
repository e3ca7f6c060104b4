---------------------------- MODULE CallContext ----------------------------
(***************************************************************************)
(* The cancellable context of one statement (or connection) handle of the  *)
(* C shim, go/pkg/gizmosql/driver.go: each call on the handle makes a new  *)
(* context, cancelling the previous one, and AdbcStatementCancel, which    *)
(* must always be thread-safe (adbc.h), cancels the latest from another    *)
(* thread.  So does AdbcStatementRelease, which language bindings without  *)
(* a cancel use as one while a call is blocked (CHANGELOG 2.0.12).         *)
(*                                                                         *)
(* The two fields are plain memory: a step is one access to a field.  A    *)
(* panic, of a nil function called or of a nil context passed on, is       *)
(* recovered by the exported function and poisons the driver for good.     *)
(***************************************************************************)
EXTENDS Naturals

CONSTANTS
  Canceller,  \* threads that call AdbcStatementCancel or Release
  None,       \* nil
  MaxCall,    \* how many calls are made on the handle (bound)
  MaxCancel,  \* how many cancels are made on it (bound)
  Serialised  \* a cancel begins once the call has its context, and returns
              \* before the next cancel or call begins (more than the header
              \* asks of a client: it says cancels are always thread-safe)

Context == 1..MaxCall
Caller  == "caller"
Thread  == Canceller \cup {Caller}

ASSUME CallContextAssumption ==
  /\ MaxCall \in Nat /\ MaxCancel \in Nat
  /\ Caller \notin Canceller
  /\ None \notin Context
  /\ Serialised \in BOOLEAN

VARIABLES
  ctx,        \* cancellableContext.ctx
  cancel,     \* cancellableContext.cancel, as the context it cancels
  live,       \* contexts that have not been cancelled
  pc,         \* the next step of each thread
  calls,      \* contexts made
  cancels,    \* cancels begun
  using,      \* the context the call in progress was given, or None
  aimed,      \* history: the call each cancel found in progress, or None
  handle,     \* "allocated" or "released" (private_data)
  poisoned    \* globalPoison

vars == << ctx, cancel, live, pc, calls, cancels, using, aimed, handle, poisoned >>

Init ==
  /\ ctx = None
  /\ cancel = None
  /\ live = {}
  /\ pc = [t \in Thread |-> "idle"]
  /\ calls = 0
  /\ cancels = 0
  /\ using = None
  /\ aimed = [c \in Canceller |-> None]
  /\ handle = "allocated"
  /\ poisoned = FALSE

Goto(t, step) == pc' = [pc EXCEPT ![t] = step]

\* checkStmtInit: a handle that is there, in a driver that has not panicked.
MayEnter == handle = "allocated" /\ ~poisoned

Panic(t) == poisoned' = TRUE /\ Goto(t, "idle")

-----------------------------------------------------------------------------
(***************************************************************************)
(* cancelContext, run by the cancellers and at the start of newContext.    *)
(***************************************************************************)
AfterTest == IF cancel = None THEN "clear ctx" ELSE "cancel"

TestCancel(t) ==
  /\ pc[t] = "test"
  /\ Goto(t, AfterTest)
  /\ UNCHANGED << ctx, cancel, live, calls, cancels, using, aimed, handle, poisoned >>

\* Faulty: the function is forgotten instead of being called.
Forget(g) == live' = live \cup {g}

Revoke(g) == live' = live \ {g}

CallCancel(t) ==
  /\ pc[t] = "cancel"
  /\ IF cancel = None
       THEN Panic(t) /\ UNCHANGED live
       ELSE Revoke(cancel) /\ Goto(t, "clear ctx") /\ UNCHANGED poisoned
  /\ UNCHANGED << ctx, cancel, calls, cancels, using, aimed, handle >>

NoContext == None

ClearCtx(t) ==
  /\ pc[t] = "clear ctx"
  /\ ctx' = NoContext
  /\ Goto(t, "clear cancel")
  /\ UNCHANGED << cancel, live, calls, cancels, using, aimed, handle, poisoned >>

ClearCancel(t) ==
  /\ pc[t] = "clear cancel"
  /\ cancel' = None
  /\ Goto(t, IF t = Caller THEN "make" ELSE "idle")
  /\ UNCHANGED << ctx, live, calls, cancels, using, aimed, handle, poisoned >>

-----------------------------------------------------------------------------
(***************************************************************************)
(* The calling thread: newContext, then the driver call with what it       *)
(* returned.  The context outlives the call: a reader may depend on it.    *)
(***************************************************************************)
CallBegins ==
  /\ pc[Caller] = "idle"
  /\ MayEnter
  /\ calls < MaxCall
  /\ Serialised => \A c \in Canceller : pc[c] = "idle"
  /\ Goto(Caller, "test")
  /\ UNCHANGED << ctx, cancel, live, calls, cancels, using, aimed, handle, poisoned >>

MakeContext ==
  /\ pc[Caller] = "make"
  /\ calls' = calls + 1
  /\ live' = live \cup {calls + 1}
  /\ ctx' = calls + 1
  /\ Goto(Caller, "store cancel")
  /\ UNCHANGED << cancel, cancels, using, aimed, handle, poisoned >>

StoreCancel ==
  /\ pc[Caller] = "store cancel"
  /\ cancel' = calls
  /\ Goto(Caller, "return ctx")
  /\ UNCHANGED << ctx, live, calls, cancels, using, aimed, handle, poisoned >>

ReturnContext ==
  /\ pc[Caller] = "return ctx"
  /\ IF ctx = None
       THEN Panic(Caller) /\ UNCHANGED using
       ELSE using' = ctx /\ Goto(Caller, "call") /\ UNCHANGED poisoned
  /\ UNCHANGED << ctx, cancel, live, calls, cancels, aimed, handle >>

CallEnds ==
  /\ pc[Caller] = "call"
  /\ using' = None
  /\ Goto(Caller, "idle")
  /\ UNCHANGED << ctx, cancel, live, calls, cancels, aimed, handle, poisoned >>

-----------------------------------------------------------------------------
(***************************************************************************)
(* The cancelling threads.  serverCancel, or the wrapper's Close, comes    *)
(* before the local context goes and may take its 5 seconds.               *)
(***************************************************************************)
MayCancel(c) ==
  /\ pc[c] = "idle"
  /\ MayEnter
  /\ cancels < MaxCancel
  /\ Serialised => /\ pc[Caller] \in {"idle", "call"}
                   /\ \A d \in Canceller : pc[d] = "idle"

\* Entering, with the call that is in progress for the history.
Enters(c) ==
  /\ cancels' = cancels + 1
  /\ aimed' = [aimed EXCEPT ![c] = using]
  /\ Goto(c, "server")
  /\ UNCHANGED << ctx, cancel, live, calls, using, poisoned >>

StatementCancel(c) == MayCancel(c) /\ Enters(c) /\ UNCHANGED handle

StatementRelease(c) == MayCancel(c) /\ Enters(c) /\ handle' = "released"

\* Faulty: the local context is left alone once the server has been asked.
ServerOnly == "idle"

ThenLocal == "test"

ServerAsked(c) ==
  /\ pc[c] = "server"
  /\ Goto(c, ThenLocal)
  /\ UNCHANGED << ctx, cancel, live, calls, cancels, using, aimed, handle, poisoned >>

-----------------------------------------------------------------------------
Call == CallBegins \/ MakeContext \/ StoreCancel \/ ReturnContext \/ CallEnds

CancelContext(t) == TestCancel(t) \/ CallCancel(t) \/ ClearCtx(t) \/ ClearCancel(t)

Cancelling(c) == StatementCancel(c) \/ StatementRelease(c) \/ ServerAsked(c)

Next == Call \/ (\E t \in Thread : CancelContext(t)) \/ (\E c \in Canceller : Cancelling(c))

Spec == Init /\ [][Next]_vars

-----------------------------------------------------------------------------
(***************************************************************************)
(* Properties.                                                             *)
(***************************************************************************)

\* The type invariant of the handle and its threads.
TypeOK ==
  /\ {ctx, cancel, using} \subseteq Context \cup {None}
  /\ live \subseteq Context
  /\ pc \in [Thread -> {"idle", "test", "cancel", "clear ctx", "clear cancel", "make",
                        "store cancel", "return ctx", "call", "server"}]
  /\ calls \in 0..MaxCall
  /\ cancels \in 0..MaxCancel
  /\ aimed \in [Canceller -> Context \cup {None}]
  /\ handle \in {"allocated", "released"}
  /\ poisoned \in BOOLEAN

\* A cancel that began while a call was in progress leaves that call without a
\* live context when it returns, unless the call is over.
CancelReaches ==
  \A c \in Canceller :
    pc[c] = "idle" /\ aimed[c] # None /\ using = aimed[c] /\ ~poisoned
      => using \notin live

\* No context is leaked: only the latest can be live, and a live one can be
\* cancelled through the field, except while newContext is about to store it.
NoContextLeaks ==
  \A g \in live : g = calls /\ (cancel = g \/ pc[Caller] = "store cancel")

\* "This must always be thread-safe" (adbc.h, AdbcStatementCancel): a cancel
\* and a call never bring the driver down.  Of a client that is not Serialised,
\* which is the client the header speaks of, this is false.
CancelIsThreadSafe == ~poisoned

-----------------------------------------------------------------------------
(***************************************************************************)
(* What those who use the context see of its fields.                       *)
(***************************************************************************)

\* A context is a call's when newContext returns it.
Making == pc[Caller] \in {"store cancel", "return ctx"}
Given  == {g \in Context : g <= calls /\ ~(Making /\ g = calls)}

CallPhase ==
  CASE pc[Caller] = "idle" -> "idle"
    [] pc[Caller] = "call" -> "running"
    [] OTHER               -> "entering"

\* A cancel has taken effect once it has seen the field and called what was there.
CancelPhase ==
  [c \in Canceller |-> CASE pc[c] = "idle" -> "idle"
                         [] pc[c] \in {"server", "test", "cancel"} -> "begun"
                         [] OTHER -> "done"]

Contract == INSTANCE ContextContract WITH
  live <- live \cap Given, given <- Given, call <- CallPhase, asked <- CancelPhase,
  closed <- handle = "released"

\* The two fields act like one, when cancels are serialised with calls: a cancel
\* or release takes effect at one moment, for the call then in progress and what
\* earlier ones left live; it returns after that, and never into a panic; a call
\* has a context no other call had, which no earlier cancel has ended.
ImplementsContext == Contract!Spec
=============================================================================
