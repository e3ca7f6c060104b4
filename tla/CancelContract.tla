--------------------------- MODULE CancelContract ---------------------------
(***************************************************************************)
(* What server-side cancellation promises a caller, without its mechanism. *)
(* An execution is wanted from the moment it is submitted until its caller *)
(* walks away from it (closes, releases, cancels, tears down) or it ends.  *)
(* Only an execution nobody wants may be interrupted, except by an         *)
(* explicit CancelQuery, which is for whatever the session is executing.   *)
(***************************************************************************)
EXTENDS Naturals

CONSTANT Exec

VARIABLES
  life,      \* "new", "live", and how it ended
  wanted,    \* the live executions whose caller still wants the outcome
  explicit   \* how many explicit cancels are on their way

vars == << life, wanted, explicit >>

Init ==
  /\ life = [e \in Exec |-> "new"]
  /\ wanted = {}
  /\ explicit = 0

Submit(e) ==
  /\ life[e] = "new"
  /\ life' = [life EXCEPT ![e] = "live"]
  /\ wanted' = wanted \cup {e}
  /\ UNCHANGED explicit

Forsake(e) ==
  /\ e \in wanted
  /\ wanted' = wanted \ {e}
  /\ UNCHANGED << life, explicit >>

End(e, how) ==
  /\ life[e] = "live"
  /\ life' = [life EXCEPT ![e] = how]
  /\ wanted' = wanted \ {e}

Finish(e) == End(e, "finished") /\ UNCHANGED explicit

Interrupt(e) == e \notin wanted /\ End(e, "interrupted") /\ UNCHANGED explicit

Drop(e) == e \notin wanted /\ End(e, "dropped") /\ UNCHANGED explicit

AskForAny == explicit' = explicit + 1 /\ UNCHANGED << life, wanted >>

AnyInterrupts(e) ==
  /\ explicit > 0
  /\ explicit' = explicit - 1
  /\ End(e, "interrupted")

AnyMisses ==
  /\ explicit > 0
  /\ explicit' = explicit - 1
  /\ UNCHANGED << life, wanted >>

Next ==
  \/ \E e \in Exec : Submit(e) \/ Forsake(e) \/ Finish(e) \/ Interrupt(e)
                       \/ Drop(e) \/ AnyInterrupts(e)
  \/ AskForAny \/ AnyMisses

Spec == Init /\ [][Next]_vars
=============================================================================
