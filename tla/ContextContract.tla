-------------------------- MODULE ContextContract --------------------------
(***************************************************************************)
(* What the cancellable context of a handle promises those who use it,     *)
(* without its two fields: a call gets a context of its own, and a cancel  *)
(* takes effect at one moment between its begin and its return.            *)
(***************************************************************************)
CONSTANTS
  Canceller, \* threads that cancel or release the handle
  Context,   \* the contexts it may make
  None       \* no context

VARIABLES
  live,   \* contexts that have not been cancelled
  given,  \* contexts that calls have been given
  using,  \* the one the call in progress was given, or None
  call,   \* the call: "idle", "entering" or "running"
  asked,  \* each cancel: "idle", "begun" or "done"
  closed  \* the handle has been released

vars == << live, given, using, call, asked, closed >>

Init ==
  /\ live = {}
  /\ given = {}
  /\ using = None
  /\ call = "idle"
  /\ asked = [c \in Canceller |-> "idle"]
  /\ closed = FALSE

-----------------------------------------------------------------------------
CallEnters ==
  /\ call = "idle"
  /\ ~closed
  /\ call' = "entering"
  /\ UNCHANGED << live, given, using, asked, closed >>

\* A call ends the context of the one before, on which a reader may depend.
PreviousEnds ==
  /\ call = "entering"
  /\ live' = {}
  /\ UNCHANGED << given, using, call, asked, closed >>

\* No call is given a context that another had, or that is cancelled already.
CallBegins(g) ==
  /\ call = "entering"
  /\ live = {}
  /\ g \notin given
  /\ live' = {g}
  /\ given' = given \cup {g}
  /\ using' = g
  /\ call' = "running"
  /\ UNCHANGED << asked, closed >>

CallReturns ==
  /\ call = "running"
  /\ using' = None
  /\ call' = "idle"
  /\ UNCHANGED << live, given, asked, closed >>

-----------------------------------------------------------------------------
Move(c, from, to) == asked[c] = from /\ asked' = [asked EXCEPT ![c] = to]

\* A release is a cancel after which nothing begins.
CancelBegins(c) ==
  /\ Move(c, "idle", "begun")
  /\ ~closed
  /\ closed' \in BOOLEAN
  /\ UNCHANGED << live, given, using, call >>

CancelTakesEffect(c) ==
  /\ Move(c, "begun", "done")
  /\ live' = {}
  /\ UNCHANGED << given, using, call, closed >>

CancelReturns(c) ==
  /\ Move(c, "done", "idle")
  /\ UNCHANGED << live, given, using, call, closed >>

-----------------------------------------------------------------------------
Next ==
  \/ CallEnters \/ PreviousEnds \/ CallReturns
  \/ \E g \in Context : CallBegins(g)
  \/ \E c \in Canceller : CancelBegins(c) \/ CancelTakesEffect(c) \/ CancelReturns(c)

Spec == Init /\ [][Next]_vars
=============================================================================
