------------------------ MODULE CallContext_proofs ------------------------
(***************************************************************************)
(* Proofs about CallContext, for any number of cancelling threads, calls   *)
(* and cancels.  Types hold of every client.  The rest needs a client      *)
(* whose cancels are Serialised, which is more than the header asks: for   *)
(* the others a run shows the panic.  That no such client meets it is a    *)
(* part of the invariant, where the refinement uses it.                    *)
(***************************************************************************)
EXTENDS CallContext, TLAPS

\* A call that has not made its context leaves room for it in the bound.
Counted ==
  /\ pc[Caller] \in {"test", "cancel", "clear ctx", "clear cancel", "make"}
       => calls < MaxCall
  /\ pc[Caller] = "store cancel" => calls # 0

\* The fields are in one thread's hands: the caller's while newContext runs,
\* and otherwise at most one canceller's.
Exclusion ==
  /\ pc[Caller] \notin {"idle", "call"} => \A c \in Canceller : pc[c] = "idle"
  /\ \A c, d \in Canceller : pc[c] # "idle" /\ pc[d] # "idle" => c = d

\* Where the fields are when a thread is at a step.
Stepwise ==
  /\ \A t \in Thread :
       /\ pc[t] = "cancel" => cancel # None
       /\ pc[t] \in {"clear ctx", "clear cancel", "make"} => live = {}
  /\ pc[Caller] \in {"store cancel", "return ctx"} =>
       ctx = calls /\ calls # 0 /\ calls \in live
  /\ \A c \in Canceller : pc[c] \notin {"make", "store cancel", "return ctx", "call"}
  /\ pc[Caller] # "server"

\* A context is used by the call that made it; a cancel aims at one made before
\* the next is.
Aims ==
  /\ cancel \in (1 .. calls) \cup {None}
  /\ using # None => using = calls /\ pc[Caller] = "call"
  /\ \A c \in Canceller :
       /\ aimed[c] \in (1 .. calls) \cup {None}
       /\ aimed[c] = calls => pc[Caller] \notin {"store cancel", "return ctx"}

IInv ==
  /\ TypeOK /\ Counted
  /\ Exclusion
  /\ Stepwise
  /\ Aims
  /\ NoContextLeaks
  /\ CancelIsThreadSafe
  /\ CancelReaches

LEMMA OneMore ==
  ASSUME NEW n \in Nat, NEW k \in 0 .. n, k < n
  PROVE  k + 1 \in 1 .. n /\ k + 1 \in 0 .. n /\ k + 1 # 0
OBVIOUS

LEMMA NotNone ==
  ASSUME NEW n \in Nat, NEW k \in 0 .. n, k # 0
  PROVE  k \in 1 .. n
OBVIOUS

LEMMA InitTypeOK == Init => TypeOK /\ Counted
<1> SUFFICES ASSUME Init PROVE TypeOK /\ Counted
  OBVIOUS
<1>1. 0 \in 0 .. MaxCall /\ 0 \in 0 .. MaxCancel
  BY CallContextAssumption
<1>2. pc \in [Thread -> {"idle"}] /\ aimed \in [Canceller -> {None}]
  BY DEF Init
<1> QED
  BY <1>1, <1>2 DEF Init, TypeOK, Counted, Thread

LEMMA NextTypeOK == TypeOK /\ Counted /\ [Next]_vars => TypeOK' /\ Counted'
<1> SUFFICES ASSUME TypeOK, Counted, [Next]_vars PROVE TypeOK' /\ Counted'
  OBVIOUS
<1> USE CallContextAssumption DEF TypeOK, Counted, Goto, Context, Thread
<1>1. ASSUME Call PROVE TypeOK' /\ Counted'
  <2>1. CASE CallBegins
    BY <2>1 DEF CallBegins
  <2>2. CASE MakeContext
    <3>1. calls + 1 \in 1 .. MaxCall /\ calls + 1 \in 0 .. MaxCall /\ calls + 1 # 0
      <4>1. calls \in 0 .. MaxCall /\ calls < MaxCall
        BY <2>2 DEF MakeContext
      <4> QED
        BY <4>1, OneMore
    <3>2. calls' = calls + 1 /\ ctx' = calls + 1 /\ live' = live \cup {calls + 1}
      BY <2>2 DEF MakeContext
    <3>3. pc' = [pc EXCEPT ![Caller] = "store cancel"]
      BY <2>2 DEF MakeContext
    <3>4. Counted'
      BY <3>1, <3>2, <3>3
    <3> QED
      BY <2>2, <3>1, <3>2, <3>3, <3>4 DEF MakeContext
  <2>3. CASE StoreCancel
    <3>1. calls \in 1 .. MaxCall
      <4>1. calls \in 0 .. MaxCall /\ calls # 0
        BY <2>3 DEF StoreCancel
      <4> QED
        BY <4>1, NotNone
    <3> QED
      BY <2>3, <3>1 DEF StoreCancel
  <2>4. CASE ReturnContext
    BY <2>4 DEF ReturnContext, Panic
  <2>5. CASE CallEnds
    BY <2>5 DEF CallEnds
  <2> QED
    BY <1>1, <2>1, <2>2, <2>3, <2>4, <2>5 DEF Call
<1>2. ASSUME NEW t \in Thread, CancelContext(t) PROVE TypeOK' /\ Counted'
  <2>1. CASE TestCancel(t)
    BY <1>2, <2>1 DEF TestCancel, AfterTest
  <2>2. CASE CallCancel(t)
    BY <1>2, <2>2 DEF CallCancel, Revoke, Panic
  <2>3. CASE ClearCtx(t)
    BY <1>2, <2>3 DEF ClearCtx, NoContext
  <2>4. CASE ClearCancel(t)
    BY <1>2, <2>4 DEF ClearCancel
  <2> QED
    BY <1>2, <2>1, <2>2, <2>3, <2>4 DEF CancelContext
<1>3. ASSUME NEW c \in Canceller, Cancelling(c) PROVE TypeOK' /\ Counted'
  <2>1. CASE StatementCancel(c) \/ StatementRelease(c)
    <3>1. cancels + 1 \in 0 .. MaxCancel
      <4>1. cancels \in 0 .. MaxCancel /\ cancels < MaxCancel
        BY <2>1 DEF StatementCancel, StatementRelease, MayCancel
      <4> QED
        BY <4>1, OneMore
    <3>2. cancels' = cancels + 1 /\ pc' = [pc EXCEPT ![c] = "server"]
      BY <2>1 DEF StatementCancel, StatementRelease, Enters
    <3>3. aimed' = [aimed EXCEPT ![c] = using] /\ handle' \in {"allocated", "released"}
      BY <2>1 DEF StatementCancel, StatementRelease, Enters
    <3>4. UNCHANGED << ctx, cancel, live, calls, using, poisoned >>
      BY <2>1 DEF StatementCancel, StatementRelease, Enters
    <3> QED
      BY <3>1, <3>2, <3>3, <3>4
  <2>2. CASE ServerAsked(c)
    BY <2>2 DEF ServerAsked, ThenLocal
  <2> QED
    BY <1>3, <2>1, <2>2 DEF Cancelling
<1>4. CASE UNCHANGED vars
  BY <1>4 DEF vars
<1> QED
  BY <1>1, <1>2, <1>3, <1>4 DEF Next

\* The handle and its threads keep their types, whatever the client does.
THEOREM TypeCorrect == Spec => []TypeOK
BY InitTypeOK, NextTypeOK, PTL DEF Spec

-----------------------------------------------------------------------------
LEMMA InitIInv == Init => IInv
BY InitTypeOK, CallContextAssumption
   DEF Init, IInv, Exclusion, Stepwise, Aims, NoContextLeaks, CancelIsThreadSafe,
       CancelReaches, Thread

LEMMA Grows ==
  ASSUME NEW k \in Nat, NEW x \in (1 .. k) \cup {None}, k + 1 \in Context
  PROVE  x \in (1 .. (k + 1)) \cup {None} /\ x # k + 1
BY CallContextAssumption

LEMMA NotZero == 0 \notin Context
BY CallContextAssumption DEF Context

LEMMA Numbered ==
  ASSUME TypeOK
  PROVE  calls \in Nat /\ (calls # 0 => calls \in Context /\ calls # None /\ calls \in 1 .. calls)
<1>1. calls \in 0 .. MaxCall
  BY DEF TypeOK
<1>2. calls \in Nat
  BY <1>1, CallContextAssumption
<1>3. ASSUME calls # 0 PROVE calls \in 1 .. MaxCall /\ calls \in 1 .. calls
  BY <1>1, <1>2, <1>3, CallContextAssumption
<1> QED
  BY <1>2, <1>3, CallContextAssumption DEF Context

\* While newContext runs every canceller is idle: its steps.
LEMMA CallStep ==
  ASSUME Serialised, IInv, TypeOK', Counted', Call
  PROVE  IInv'
<1> USE CallContextAssumption DEF IInv, TypeOK, Goto, Thread, Context
<1>1. CASE CallBegins
  <2> USE <1>1 DEF CallBegins, MayEnter
  <2>1. Exclusion'
    BY DEF Exclusion
  <2>2. Stepwise'
    BY DEF Stepwise, Aims
  <2>3. Aims'
    BY DEF Aims, Stepwise
  <2>4. NoContextLeaks' /\ CancelIsThreadSafe'
    BY DEF NoContextLeaks, CancelIsThreadSafe, Stepwise
  <2>5. CancelReaches'
    BY DEF CancelReaches, Aims, Stepwise, Exclusion, NoContextLeaks
  <2> QED
    BY <2>1, <2>2, <2>3, <2>4, <2>5
<1>2. CASE MakeContext
  <2> USE <1>2 DEF MakeContext
  <2>1. Exclusion'
    BY DEF Exclusion
  <2>2. /\ \A c \in Canceller : pc[c] = "idle" /\ pc'[c] = "idle"
        /\ pc'[Caller] = "store cancel" /\ pc[Caller] = "make"
    BY DEF Exclusion
  <2>3. calls' = calls + 1 /\ calls' # 0 /\ calls' \in Context /\ calls \in Nat
    BY <2>2, Numbered DEF Counted
  <2>4. Stepwise'
    BY <2>2, <2>3 DEF Stepwise
  <2>5. Aims'
    <3>1. cancel' \in (1 .. calls') \cup {None}
      BY <2>3, Grows DEF Aims
    <3>2. using' = None
      BY <2>2 DEF Aims
    <3>3. \A c \in Canceller : aimed'[c] \in (1 .. calls') \cup {None} /\ aimed'[c] # calls'
      BY <2>3, Grows DEF Aims
    <3> QED
      BY <3>1, <3>2, <3>3 DEF Aims
  <2>6. NoContextLeaks' /\ CancelIsThreadSafe'
    BY <2>2 DEF NoContextLeaks, CancelIsThreadSafe, Stepwise
  <2>7. CancelReaches'
    BY <2>2 DEF CancelReaches, Aims
  <2> QED
    BY <2>1, <2>4, <2>5, <2>6, <2>7
<1>3. CASE StoreCancel
  <2> USE <1>3 DEF StoreCancel
  <2>1. Exclusion'
    BY DEF Exclusion
  <2>2. /\ \A c \in Canceller : pc[c] = "idle" /\ pc'[c] = "idle"
        /\ pc'[Caller] = "return ctx" /\ pc[Caller] = "store cancel"
    BY DEF Exclusion
  <2>3. ctx = calls /\ calls # 0 /\ calls # None /\ calls \in 1 .. calls
    BY <2>2, Numbered DEF Stepwise
  <2>4. Stepwise'
    BY <2>2, <2>3 DEF Stepwise
  <2>5. Aims'
    BY <2>2, <2>3 DEF Aims
  <2>6. NoContextLeaks' /\ CancelIsThreadSafe'
    BY DEF NoContextLeaks, CancelIsThreadSafe
  <2>7. CancelReaches'
    BY <2>2 DEF CancelReaches, Aims
  <2> QED
    BY <2>1, <2>4, <2>5, <2>6, <2>7
<1>4. CASE ReturnContext
  <2> USE <1>4 DEF ReturnContext, Panic
  <2>1. ctx = calls /\ ctx # None
    BY Numbered DEF Stepwise
  <2>2. using' = calls /\ pc' = [pc EXCEPT ![Caller] = "call"] /\ UNCHANGED poisoned
    BY <2>1
  <2>3. Exclusion' /\ Stepwise'
    BY <2>2 DEF Exclusion, Stepwise
  <2>4. Aims'
    BY <2>2 DEF Aims
  <2>5. NoContextLeaks' /\ CancelIsThreadSafe'
    BY <2>2 DEF NoContextLeaks, CancelIsThreadSafe
  <2>6. CancelReaches'
    BY <2>2 DEF CancelReaches, Aims
  <2> QED
    BY <2>3, <2>4, <2>5, <2>6
<1>5. CASE CallEnds
  <2> USE <1>5 DEF CallEnds
  <2>1. Exclusion'
    BY DEF Exclusion
  <2>2. Stepwise'
    BY DEF Stepwise, Aims
  <2>3. Aims'
    BY DEF Aims, Stepwise
  <2>4. NoContextLeaks' /\ CancelIsThreadSafe'
    BY DEF NoContextLeaks, CancelIsThreadSafe, Stepwise
  <2>5. CancelReaches'
    BY DEF CancelReaches, Aims, Stepwise, Exclusion, NoContextLeaks
  <2> QED
    BY <2>1, <2>2, <2>3, <2>4, <2>5
<1> QED
  BY <1>1, <1>2, <1>3, <1>4, <1>5 DEF Call

\* cancelContext, by the one thread that has the fields.
LEMMA CancelContextStep ==
  ASSUME Serialised, IInv, TypeOK', Counted', NEW t \in Thread, CancelContext(t)
  PROVE  IInv'
<1> USE CallContextAssumption DEF IInv, TypeOK, Goto, Thread, Context
<1>1. /\ pc[t] \in {"test", "cancel", "clear ctx", "clear cancel"}
      /\ \A u \in Thread : u # t => pc[u] \in {"idle", "call"}
      /\ pc[Caller] # "store cancel"
  BY DEF CancelContext, TestCancel, CallCancel, ClearCtx, ClearCancel, Exclusion, Stepwise
<1>a. \A u \in Thread : u # t => pc'[u] = pc[u] /\ pc'[u] \in {"idle", "call"}
  BY <1>1 DEF CancelContext, TestCancel, CallCancel, ClearCtx, ClearCancel, Panic
<1>b. pc'[t] \in {"idle", "cancel", "clear ctx", "clear cancel", "make"}
      /\ (pc'[t] = "make" => t = Caller)
  BY DEF CancelContext, TestCancel, AfterTest, CallCancel, ClearCtx, ClearCancel, Panic
<1>c. Exclusion'
  <2>1. \A c \in Canceller : c # t => pc[c] = "idle"
    BY <1>1 DEF Exclusion
  <2>2. \A c \in Canceller : c # t => pc'[c] = "idle"
    BY <1>a, <2>1
  <2>3. pc'[Caller] \notin {"idle", "call"} => Caller = t
    BY <1>a
  <2>4. Caller \notin Canceller
    BY CallContextAssumption
  <2> QED
    BY ONLY <2>2, <2>3, <2>4 DEF Exclusion
\* What a step makes of the fields, for its own thread: the others hold nothing.
<1>d. ASSUME pc'[t] = "cancel" => cancel' # None,
             pc'[t] \in {"clear ctx", "clear cancel", "make"} => live' = {}
      PROVE  Stepwise'
  <2>1. \A u \in Thread :
          /\ pc'[u] = "cancel" => cancel' # None
          /\ pc'[u] \in {"clear ctx", "clear cancel", "make"} => live' = {}
    BY ONLY <1>a, <1>d
  <2>2. pc'[Caller] \in {"idle", "call", "cancel", "clear ctx", "clear cancel", "make"}
    BY <1>a, <1>b
  <2>3. \A c \in Canceller : pc'[c] \notin {"make", "store cancel", "return ctx", "call"}
    <3>1. \A c \in Canceller : c # Caller /\ c \in Thread /\ pc[c] # "call"
      BY CallContextAssumption DEF Stepwise
    <3> QED
      BY ONLY <1>a, <1>b, <3>1
  <2> QED
    BY ONLY <2>1, <2>2, <2>3 DEF Stepwise
\* The context that is live is the one a cancel finds.
<1>e. \A g \in live : g = cancel /\ cancel # None
  <2>1. \A g \in live : g # None
    BY CallContextAssumption
  <2>2. \A g \in live : g = cancel
    BY <1>1 DEF NoContextLeaks
  <2> QED
    BY ONLY <2>1, <2>2
<1>2. CASE TestCancel(t)
  <2> USE <1>1, <1>2 DEF TestCancel, AfterTest
  <2>1. Exclusion'
    BY <1>c
  <2>2. Stepwise'
    <3>1. cancel = None => live = {}
      BY ONLY <1>e
    <3>2. pc'[t] = IF cancel = None THEN "clear ctx" ELSE "cancel"
      OBVIOUS
    <3> QED
      BY <1>d, <3>1, <3>2
  <2>3. Aims'
    BY DEF Aims, Stepwise
  <2>4. NoContextLeaks' /\ CancelIsThreadSafe'
    BY DEF NoContextLeaks, CancelIsThreadSafe
  <2>5. CancelReaches'
    BY DEF CancelReaches, Stepwise
  <2> QED
    BY <2>1, <2>2, <2>3, <2>4, <2>5
<1>3. CASE CallCancel(t)
  <2> USE <1>1, <1>3 DEF CallCancel, Revoke, Panic
  <2>0. cancel # None /\ pc[t] = "cancel"
    BY DEF Stepwise
  <2>1. Exclusion'
    BY <1>c
  <2>2. Stepwise'
    <3>1. cancel # None /\ pc'[t] = "clear ctx" /\ live' = live \ {cancel}
      BY <2>0
    <3>2. live' = {}
      BY ONLY <1>e, <3>1
    <3> QED
      BY <1>d, <3>1, <3>2
  <2>3. Aims'
    BY DEF Aims, Stepwise
  <2>4. NoContextLeaks' /\ CancelIsThreadSafe'
    <3>1. cancel # None /\ pc' = [pc EXCEPT ![t] = "clear ctx"] /\ UNCHANGED poisoned
      BY <2>0
    <3>2. pc'[t] = "clear ctx"
      BY <3>1
    <3>3. live' = {}
      BY <2>2, <3>2 DEF Stepwise
    <3> QED
      BY <3>1, <3>3 DEF NoContextLeaks, CancelIsThreadSafe
  <2>5. CancelReaches'
    <3>1. live' = {}
      <4>1. cancel # None /\ pc'[t] = "clear ctx"
        BY <2>0
      <4> QED
        BY <2>2, <4>1 DEF Stepwise
    <3> QED
      BY ONLY <3>1 DEF CancelReaches
  <2> QED
    BY <2>1, <2>2, <2>3, <2>4, <2>5
<1>4. CASE ClearCtx(t)
  <2> USE <1>1, <1>4 DEF ClearCtx, NoContext
  <2>1. Exclusion'
    BY <1>c
  <2>2. Stepwise'
    <3>1. pc'[t] = "clear cancel" /\ live' = {}
      BY DEF Stepwise
    <3> QED
      BY <1>d, <3>1
  <2>3. Aims'
    BY DEF Aims, Stepwise
  <2>4. NoContextLeaks' /\ CancelIsThreadSafe'
    BY DEF NoContextLeaks, CancelIsThreadSafe, Stepwise
  <2>5. CancelReaches'
    BY DEF CancelReaches, Stepwise
  <2> QED
    BY <2>1, <2>2, <2>3, <2>4, <2>5
<1>5. CASE ClearCancel(t)
  <2> USE <1>1, <1>5 DEF ClearCancel
  <2>1. Exclusion'
    BY <1>c
  <2>2. Stepwise'
    <3>1. pc'[t] \in {"idle", "make"} /\ live' = {}
      BY DEF Stepwise
    <3> QED
      BY <1>d, <3>1
  <2>3. Aims'
    BY DEF Aims, Stepwise
  <2>4. NoContextLeaks' /\ CancelIsThreadSafe'
    BY DEF NoContextLeaks, CancelIsThreadSafe, Stepwise
  <2>5. CancelReaches'
    BY DEF CancelReaches, Stepwise
  <2> QED
    BY <2>1, <2>2, <2>3, <2>4, <2>5
<1> QED
  BY <1>2, <1>3, <1>4, <1>5 DEF CancelContext

LEMMA CancellingStep ==
  ASSUME Serialised, IInv, TypeOK', Counted', NEW c \in Canceller, Cancelling(c)
  PROVE  IInv'
<1> USE CallContextAssumption DEF IInv, TypeOK, Goto, Thread, Context
<1>1. CASE StatementCancel(c) \/ StatementRelease(c)
  <2>1. /\ pc[Caller] \in {"idle", "call"} /\ \A d \in Canceller : pc[d] = "idle"
        /\ pc' = [pc EXCEPT ![c] = "server"] /\ aimed' = [aimed EXCEPT ![c] = using]
        /\ UNCHANGED << ctx, cancel, live, calls, using, poisoned >>
    BY <1>1 DEF StatementCancel, StatementRelease, MayCancel, Enters
  <2>2. Exclusion' /\ Stepwise'
    BY <2>1 DEF Exclusion, Stepwise
  <2>3. Aims'
    <3>1. using # None => using = calls /\ calls \in 1 .. calls
      <4>1. using # None => using = calls /\ using \in Context
        BY DEF Aims
      <4>2. calls \in Context => calls # 0
        BY NotZero
      <4> QED
        BY <4>1, <4>2, Numbered
    <3> QED
      BY <2>1, <3>1 DEF Aims
  <2>4. NoContextLeaks' /\ CancelIsThreadSafe' /\ CancelReaches'
    BY <2>1 DEF NoContextLeaks, CancelIsThreadSafe, CancelReaches
  <2> QED
    BY <2>2, <2>3, <2>4
<1>2. CASE ServerAsked(c)
  <2> USE <1>2 DEF ServerAsked, ThenLocal
  <2>1. Exclusion' /\ Stepwise' /\ Aims'
    BY DEF Exclusion, Stepwise, Aims
  <2>2. NoContextLeaks' /\ CancelIsThreadSafe' /\ CancelReaches'
    BY DEF NoContextLeaks, CancelIsThreadSafe, CancelReaches
  <2> QED
    BY <2>1, <2>2
<1> QED
  BY <1>1, <1>2 DEF Cancelling

LEMMA NextIInv ==
  ASSUME Serialised
  PROVE  IInv /\ [Next]_vars => IInv'
<1> SUFFICES ASSUME IInv, [Next]_vars PROVE IInv'
  OBVIOUS
<1>1. TypeOK' /\ Counted'
  BY NextTypeOK DEF IInv
<1>2. CASE Next
  BY <1>1, <1>2, CallStep, CancelContextStep, CancellingStep DEF Next
<1>3. CASE UNCHANGED vars
  BY <1>1, <1>3 DEF vars, IInv, Exclusion, Stepwise, Aims, NoContextLeaks,
                    CancelIsThreadSafe, CancelReaches
<1> QED
  BY <1>2, <1>3

LEMMA Invariance == ASSUME Serialised PROVE Spec => []IInv
BY InitIInv, NextIInv, PTL DEF Spec

\* No context leaks, if cancels are serialised with calls.
THEOREM LeaksCorrect == ASSUME Serialised PROVE Spec => []NoContextLeaks
<1>1. IInv => NoContextLeaks
  BY DEF IInv
<1> QED
  BY <1>1, Invariance, PTL

\* A serialised cancel leaves the call it was for without a live context.
THEOREM ReachCorrect == ASSUME Serialised PROVE Spec => []CancelReaches
<1>1. IInv => CancelReaches
  BY DEF IInv
<1> QED
  BY <1>1, Invariance, PTL
-----------------------------------------------------------------------------
(***************************************************************************)
(* The fields implement ContextContract.                                   *)
(***************************************************************************)
\* The contract sees a step of the caller in its phase, the contexts given, and
\* those of them that are live.
LEMMA CancellersKept ==
  ASSUME IInv, \A c \in Canceller : pc'[c] = pc[c]
  PROVE  CancelPhase' = CancelPhase
BY DEF CancelPhase

LEMMA CallerKept ==
  ASSUME pc'[Caller] = pc[Caller], calls' = calls
  PROVE  CallPhase' = CallPhase /\ Given' = Given
BY DEF CallPhase, Given, Making

\* One canceller moves: its phase does, and no other's.
LEMMA OneMoves ==
  ASSUME NEW t \in Canceller, TypeOK, NEW step, pc' = [pc EXCEPT ![t] = step],
         NEW phase, CancelPhase'[t] = phase
  PROVE  /\ CancelPhase' = [CancelPhase EXCEPT ![t] = phase]
         /\ pc'[Caller] = pc[Caller]
<1>1. \A c \in Canceller : c # t => pc'[c] = pc[c]
  BY DEF TypeOK, Thread
<1>2. \A c \in Canceller : c # t => CancelPhase'[c] = CancelPhase[c]
  BY <1>1 DEF CancelPhase
<1>3. CancelPhase' = [c \in Canceller |-> CancelPhase'[c]]
  BY DEF CancelPhase
<1>4. CancelPhase = [c \in Canceller |-> CancelPhase[c]]
  BY DEF CancelPhase
<1>5. [CancelPhase EXCEPT ![t] = phase]
        = [c \in Canceller |-> IF c = t THEN phase ELSE CancelPhase[c]]
  BY <1>4
<1>6. pc'[Caller] = pc[Caller]
  BY CallContextAssumption DEF TypeOK, Thread
<1> QED
  BY <1>2, <1>3, <1>5, <1>6

LEMMA InitRefines == Init => Contract!Init
<1> SUFFICES ASSUME Init PROVE Contract!Init
  OBVIOUS
<1>1. Given = {}
  <2>1. \A g \in Context : ~(g <= 0)
    BY CallContextAssumption DEF Context
  <2> QED
    BY <2>1 DEF Init, Given
<1>2. CallPhase = "idle" /\ CancelPhase = [c \in Canceller |-> "idle"]
  BY CallContextAssumption DEF Init, CallPhase, CancelPhase, Thread
<1> QED
  BY <1>1, <1>2 DEF Init, Contract!Init

LEMMA CallRefines ==
  ASSUME IInv, IInv', Call
  PROVE  [Contract!Next]_(Contract!vars)
<1> USE CallContextAssumption DEF Goto, Thread
<1>1. \A c \in Canceller : pc'[c] = pc[c]
  BY DEF Call, CallBegins, MakeContext, StoreCancel, ReturnContext, CallEnds, Panic,
         IInv, TypeOK
<1>2. CancelPhase' = CancelPhase
  BY <1>1, CancellersKept
<1>3. CASE CallBegins
  <2>1. pc[Caller] = "idle" /\ pc'[Caller] = "test" /\ calls' = calls
    BY <1>3 DEF CallBegins, IInv, TypeOK
  <2>2. CallPhase = "idle" /\ CallPhase' = "entering"
    BY <2>1 DEF CallPhase
  <2>3. Given' = Given
    BY <2>1 DEF Given, Making
  <2>4. handle # "released"
    BY <1>3 DEF CallBegins, MayEnter
  <2>5. Contract!CallEnters
    BY <1>2, <1>3, <2>2, <2>3, <2>4 DEF CallBegins, Contract!CallEnters
  <2> QED
    BY <2>5 DEF Contract!Next
<1>4. CASE MakeContext
  <2>1. /\ pc[Caller] = "make" /\ pc'[Caller] = "store cancel"
        /\ calls' = calls + 1 /\ live' = live \cup {calls + 1}
        /\ UNCHANGED << using, handle >>
    BY <1>4 DEF MakeContext, IInv, TypeOK
  <2>2. CallPhase' = CallPhase
    BY <2>1 DEF CallPhase
  <2>3. calls \in Nat
    BY Numbered DEF IInv
  <2>4. \A g \in Context : g <= calls <=> g <= calls + 1 /\ g # calls + 1
    BY <2>3 DEF Context
  <2>5. Given' = Given
    BY <2>1, <2>4 DEF Given, Making
  <2>6. calls + 1 \notin Given
    BY <2>3, <2>4 DEF Given
  <2>7. (live \cap Given)' = live \cap Given
    BY <2>1, <2>5, <2>6
  <2> QED
    BY <1>2, <2>1, <2>2, <2>5, <2>7 DEF Contract!vars
<1>5. CASE StoreCancel
  <2>1. /\ pc[Caller] = "store cancel" /\ pc'[Caller] = "return ctx"
        /\ UNCHANGED << live, calls, using, handle >>
    BY <1>5 DEF StoreCancel, IInv, TypeOK
  <2>2. CallPhase' = CallPhase
    BY <2>1 DEF CallPhase
  <2>3. Given' = Given
    BY <2>1 DEF Given, Making
  <2> QED
    BY <1>2, <2>1, <2>2, <2>3 DEF Contract!vars
<1>6. CASE ReturnContext
  <2>1. pc[Caller] = "return ctx"
    BY <1>6 DEF ReturnContext
  <2>2. ctx = calls /\ calls # 0 /\ calls \in live
    BY <2>1 DEF IInv, Stepwise
  <2>3. ctx # None /\ calls \in Context
    BY <2>2, Numbered DEF IInv
  <2>4. /\ using' = calls /\ pc' = [pc EXCEPT ![Caller] = "call"]
        /\ UNCHANGED << live, calls, handle >>
    BY <1>6, <2>2, <2>3 DEF ReturnContext
  <2>5. pc'[Caller] = "call"
    BY <2>4 DEF IInv, TypeOK
  <2>6. CallPhase = "entering" /\ CallPhase' = "running"
    BY <2>1, <2>5 DEF CallPhase
  <2>7. live = {calls}
    BY <2>2 DEF IInv, NoContextLeaks
  <2>8. Given = {g \in Context : g <= calls /\ g # calls} /\ Given' = {g \in Context : g <= calls}
    BY <2>1, <2>4, <2>5 DEF Given, Making
  <2>9. Given' = Given \cup {calls} /\ calls \notin Given
    <3>1. calls <= calls
      BY Numbered DEF IInv
    <3> QED
      BY <2>3, <2>8, <3>1
  <2>10. live \cap Given = {} /\ (live \cap Given)' = {calls}
    BY <2>4, <2>7, <2>9
  <2>11. Contract!CallBegins(calls)
    BY <1>2, <2>4, <2>6, <2>9, <2>10 DEF Contract!CallBegins
  <2> QED
    BY <2>3, <2>11 DEF Contract!Next
<1>7. CASE CallEnds
  <2>1. pc[Caller] = "call" /\ pc'[Caller] = "idle" /\ calls' = calls
    BY <1>7 DEF CallEnds, IInv, TypeOK
  <2>2. CallPhase = "running" /\ CallPhase' = "idle"
    BY <2>1 DEF CallPhase
  <2>3. Given' = Given
    BY <2>1 DEF Given, Making
  <2>4. Contract!CallReturns
    BY <1>2, <1>7, <2>2, <2>3 DEF CallEnds, Contract!CallReturns
  <2> QED
    BY <2>4 DEF Contract!Next
<1> QED
  BY <1>3, <1>4, <1>5, <1>6, <1>7 DEF Call

\* cancelContext at the start of newContext: what it calls is the previous context.
LEMMA PreviousRefines ==
  ASSUME IInv, IInv', CancelContext(Caller)
  PROVE  [Contract!Next]_(Contract!vars)
<1> USE CallContextAssumption DEF Goto, Thread
<1>1. /\ pc[Caller] \in {"test", "cancel", "clear ctx", "clear cancel"}
      /\ pc'[Caller] \in {"cancel", "clear ctx", "clear cancel", "make"}
      /\ \A c \in Canceller : pc'[c] = pc[c]
      /\ UNCHANGED << calls, using, handle >>
  BY DEF CancelContext, TestCancel, CallCancel, ClearCtx, ClearCancel, Panic, AfterTest,
         IInv, TypeOK, Stepwise
<1>2. CancelPhase' = CancelPhase
  BY <1>1, CancellersKept
<1>3. CallPhase = "entering" /\ CallPhase' = "entering"
  BY <1>1 DEF CallPhase
<1>4. Given' = Given
  BY <1>1 DEF Given, Making
<1>5. CASE CallCancel(Caller)
  <2>1. pc'[Caller] = "clear ctx"
    BY <1>5 DEF CallCancel, IInv, TypeOK, Stepwise
  <2>2. live' = {}
    BY <2>1 DEF IInv, Stepwise
  <2>3. Contract!PreviousEnds
    BY <1>1, <1>2, <1>3, <1>4, <2>2 DEF Contract!PreviousEnds
  <2> QED
    BY <2>3 DEF Contract!Next
<1>6. CASE ~CallCancel(Caller)
  <2>1. live' = live
    BY <1>6 DEF CancelContext, TestCancel, ClearCtx, ClearCancel
  <2> QED
    BY <1>1, <1>2, <1>3, <1>4, <2>1 DEF Contract!vars
<1> QED
  BY <1>5, <1>6

\* cancelContext by a canceller takes effect when it finds no function to call, or
\* calls it.
LEMMA CancelRefines ==
  ASSUME IInv, IInv', NEW c \in Canceller, CancelContext(c)
  PROVE  [Contract!Next]_(Contract!vars)
<1> USE CallContextAssumption DEF Goto, Thread
<1>1. UNCHANGED << calls, using, handle >>
  BY DEF CancelContext, TestCancel, CallCancel, ClearCtx, ClearCancel
<1>2. ASSUME NEW step, pc' = [pc EXCEPT ![c] = step]
      PROVE  /\ pc'[c] = step
             /\ pc'[Caller] = pc[Caller] /\ CallPhase' = CallPhase /\ Given' = Given
             /\ CancelPhase' = [CancelPhase EXCEPT ![c] = CancelPhase'[c]]
  <2>1. CancelPhase' = [CancelPhase EXCEPT ![c] = CancelPhase'[c]] /\ pc'[Caller] = pc[Caller]
    BY <1>2, OneMoves DEF IInv
  <2>2. pc'[c] = step
    BY <1>2 DEF IInv, TypeOK
  <2> QED
    BY <1>1, <2>1, <2>2, CallerKept
<1> DEFINE Phase(step) == CASE step = "idle" -> "idle"
                            [] step \in {"server", "test", "cancel"} -> "begun"
                            [] OTHER -> "done"
<1>p. CancelPhase[c] = Phase(pc[c]) /\ CancelPhase'[c] = Phase(pc'[c])
  BY DEF CancelPhase
<1>q. /\ Phase("idle") = "idle" /\ Phase("test") = "begun" /\ Phase("cancel") = "begun"
      /\ Phase("clear ctx") = "done" /\ Phase("clear cancel") = "done"
  OBVIOUS
<1> HIDE DEF Phase
<1>a. ASSUME NEW step, pc' = [pc EXCEPT ![c] = step], CancelPhase'[c] = CancelPhase[c]
      PROVE  CancelPhase' = CancelPhase
  <2>1. CancelPhase' = [CancelPhase EXCEPT ![c] = CancelPhase[c]]
    BY <1>2, <1>a
  <2>2. CancelPhase = [d \in Canceller |-> CancelPhase[d]]
    BY DEF CancelPhase
  <2> QED
    BY ONLY <2>1, <2>2
<1>3. ASSUME pc[c] \in {"test", "cancel"}, pc' = [pc EXCEPT ![c] = "clear ctx"]
      PROVE  Contract!Next
  <2>1. pc'[c] = "clear ctx"
    BY <1>2, <1>3
  <2>2. live' = {}
    BY <2>1 DEF IInv, Stepwise
  <2>3. CancelPhase[c] = "begun" /\ CancelPhase'[c] = "done"
    BY <1>3, <1>p, <1>q, <2>1
  <2>4. Contract!CancelTakesEffect(c)
    BY <1>1, <1>2, <1>3, <2>2, <2>3 DEF Contract!CancelTakesEffect, Contract!Move
  <2> QED
    BY <2>4 DEF Contract!Next
<1>4. CASE TestCancel(c)
  <2>1. CASE cancel = None
    BY <1>3, <1>4, <2>1 DEF TestCancel, AfterTest
  <2>2. CASE cancel # None
    <3>1. pc[c] = "test" /\ pc' = [pc EXCEPT ![c] = "cancel"] /\ live' = live
      BY <1>4, <2>2 DEF TestCancel, AfterTest
    <3>2. CancelPhase[c] = "begun" /\ CancelPhase'[c] = "begun"
      BY <1>2, <1>p, <1>q, <3>1
    <3>3. CancelPhase' = CancelPhase
      BY <1>a, <3>1, <3>2
    <3> QED
      BY <1>1, <1>2, <3>1, <3>3 DEF Contract!vars
  <2> QED
    BY <2>1, <2>2
<1>5. CASE CallCancel(c)
  <2>1. pc[c] = "cancel" /\ pc' = [pc EXCEPT ![c] = "clear ctx"]
    BY <1>5 DEF CallCancel, IInv, Stepwise
  <2> QED
    BY <1>3, <2>1
<1>6. CASE ClearCtx(c)
  <2>1. pc[c] = "clear ctx" /\ pc' = [pc EXCEPT ![c] = "clear cancel"] /\ live' = live
    BY <1>6 DEF ClearCtx
  <2>2. CancelPhase[c] = "done" /\ CancelPhase'[c] = "done"
    BY <1>2, <1>p, <1>q, <2>1
  <2>3. CancelPhase' = CancelPhase
    BY <1>a, <2>1, <2>2
  <2> QED
    BY <1>1, <1>2, <2>1, <2>3 DEF Contract!vars
<1>7. CASE ClearCancel(c)
  <2>1. pc[c] = "clear cancel" /\ pc' = [pc EXCEPT ![c] = "idle"] /\ live' = live
    BY <1>7 DEF ClearCancel
  <2>2. CancelPhase[c] = "done" /\ CancelPhase'[c] = "idle"
    BY <1>2, <1>p, <1>q, <2>1
  <2>3. Contract!CancelReturns(c)
    BY <1>1, <1>2, <2>1, <2>2 DEF Contract!CancelReturns, Contract!Move
  <2> QED
    BY <2>3 DEF Contract!Next
<1> QED
  BY <1>4, <1>5, <1>6, <1>7 DEF CancelContext

LEMMA CancellingRefines ==
  ASSUME IInv, IInv', NEW c \in Canceller, Cancelling(c)
  PROVE  [Contract!Next]_(Contract!vars)
<1> USE CallContextAssumption DEF Goto, Thread
<1>1. CASE StatementCancel(c) \/ StatementRelease(c)
  <2>1. /\ pc[c] = "idle" /\ handle = "allocated" /\ pc' = [pc EXCEPT ![c] = "server"]
        /\ UNCHANGED << live, calls, using >>
    BY <1>1 DEF StatementCancel, StatementRelease, MayCancel, MayEnter, Enters
  <2>2. pc'[c] = "server"
    BY <2>1 DEF IInv, TypeOK
  <2>3. CancelPhase[c] = "idle" /\ CancelPhase'[c] = "begun"
    BY <2>1, <2>2 DEF CancelPhase
  <2>4. /\ CancelPhase' = [CancelPhase EXCEPT ![c] = "begun"]
        /\ pc'[Caller] = pc[Caller]
    BY <2>1, <2>3, OneMoves DEF IInv
  <2>5. CallPhase' = CallPhase /\ Given' = Given
    BY <2>1, <2>4, CallerKept
  <2>6. handle # "released" /\ (handle' = "released") \in BOOLEAN
    BY <2>1
  <2>7. Contract!CancelBegins(c)
    BY <2>1, <2>3, <2>4, <2>5, <2>6 DEF Contract!CancelBegins, Contract!Move
  <2> QED
    BY <2>7 DEF Contract!Next
<1>2. CASE ServerAsked(c)
  <2>1. /\ pc[c] = "server" /\ pc' = [pc EXCEPT ![c] = "test"]
        /\ UNCHANGED << live, calls, using, handle >>
    BY <1>2 DEF ServerAsked, ThenLocal
  <2>2. CancelPhase[c] = "begun" /\ CancelPhase'[c] = "begun"
    BY <2>1 DEF CancelPhase, IInv, TypeOK
  <2>3. CancelPhase' = CancelPhase /\ pc'[Caller] = pc[Caller]
    BY <2>1, <2>2, OneMoves DEF CancelPhase, IInv
  <2> QED
    BY <2>1, <2>3, CallerKept DEF Contract!vars
<1> QED
  BY <1>1, <1>2 DEF Cancelling

\* The two fields act like one, for any number of threads whose cancels are
\* serialised with calls: a cancel takes effect at one moment, and no call has
\* a context that another had or that an earlier cancel has ended.
THEOREM Implements == ASSUME Serialised PROVE Spec => ImplementsContext
<1>1. IInv /\ IInv' /\ [Next]_vars => [Contract!Next]_(Contract!vars)
  <2> SUFFICES ASSUME IInv, IInv', [Next]_vars PROVE [Contract!Next]_(Contract!vars)
    OBVIOUS
  <2>1. CASE Call
    BY <2>1, CallRefines
  <2>2. ASSUME NEW t \in Thread, CancelContext(t) PROVE [Contract!Next]_(Contract!vars)
    BY <2>2, PreviousRefines, CancelRefines DEF Thread
  <2>3. ASSUME NEW c \in Canceller, Cancelling(c) PROVE [Contract!Next]_(Contract!vars)
    BY <2>3, CancellingRefines
  <2>4. CASE UNCHANGED vars
    BY <2>4 DEF vars, Contract!vars, CallPhase, CancelPhase, Given, Making
  <2> QED
    BY <2>1, <2>2, <2>3, <2>4 DEF Next
<1> QED
  BY <1>1, InitRefines, Invariance, PTL DEF Spec, ImplementsContext, Contract!Spec
=============================================================================
