------------------------ MODULE QueryCancel_proofs ------------------------
(***************************************************************************)
(* Proofs about QueryCancel, for any statements, helpers and number of     *)
(* executions: first for any client, then for one that makes one call at a *)
(* time, then for a well-behaved one, to which CancelContract is kept.     *)
(***************************************************************************)
EXTENDS QueryCancel, FiniteSetTheorems, TLAPS

(***************************************************************************)
(* The inductive invariant.  The properties proved are about flags and     *)
(* server states; they hold because of where each goroutine stands, which  *)
(* is what the conjuncts below record.                                     *)
(***************************************************************************)
InCall == {"issue", "wait", "track", "end"}

\* Where the owner of each statement stands, and on which execution.
OwnerAt ==
  \A s \in Stmt :
    /\ pc[s] \in OwnerStep
    /\ IF pc[s] = "idle" THEN at[s] = None
                         ELSE at[s] \in Exec /\ asker[at[s]] = s
    /\ inFlight[s] = IF pc[s] \in InCall THEN at[s] ELSE None
    /\ pc[s] = "issue" => server[at[s]] = "new" /\ reader[at[s]] = "none"
    /\ pc[s] = "track" => reader[at[s]] = "none"
    /\ pc[s] \in InCall => Latest(s, at[s])
    /\ pc[s] \in {"release", "drop"} => reader[at[s]] = "open"
    /\ pc[s] = "drop" => cancelled[at[s]]

\* Where each helper stands, and on which statement.
HelperAt ==
  \A h \in Helper :
    /\ pc[h] \in HelperStep
    /\ pc[h] # "idle" => tgt[h] \in Stmt
    /\ pc[h] \in {"closeCall", "closeClaim"} => at[h] \in Exec
    /\ pc[h] \in {"markCall", "send"} => at[h] \in 1..MaxHelp

\* The executions not issued yet are untouched; the issued ones have an asker.
Fresh ==
  \A e \in Exec :
    IF e > issued
      THEN /\ asker[e] = None
           /\ server[e] = "new"
           /\ reader[e] = "none"
           /\ ~exhausted[e]
      ELSE asker[e] \in Stmt

\* The flag of a callState or execState bounds the cancels sent for it.
FlagsBound ==
  \A e \in Exec :
    /\ callAsks[e] =< IF callCancelled[e] THEN 1 ELSE 0
    /\ streamAsks[e] =< IF cancelled[e] THEN 1 ELSE 0

Over(e) == e \in torn \/ server[e] \in {"finished", "interrupted", "dropped"}

\* An issued execution the server has not heard of is about to be sent, and a
\* reader that returned false has seen its execution end.
Ends ==
  \A e \in Exec :
    /\ server[e] = "new" /\ e =< issued =>
         \/ e \in torn
         \/ \E s \in Stmt : at[s] = e /\ pc[s] = "issue"
    /\ exhausted[e] => Over(e)

\* s.current is the latest execution that got a reader.
CurrentIsLatest ==
  \A s \in Stmt, e \in Exec :
    /\ current[s] = e => asker[e] = s /\ reader[e] # "none"
    /\ Latest(s, e) /\ reader[e] # "none" => current[s] = e

Settled(e) == Claimed(e) \/ Over(e)

\* What a Close has established at each of its steps about the execution it
\* found, for as long as no later call of the statement supersedes it.
Closing ==
  \A h \in Helper : \A e \in owed[h] :
    /\ e =< issued
    /\ pc[h] = "closeCall" => at[h] = e
    /\ Latest(tgt[h], e) =>
         /\ pc[h] = "closeStream" => Settled(e) \/ current[tgt[h]] = e
         /\ pc[h] = "closeClaim" => Settled(e) \/ at[h] = e
         /\ pc[h] = "closeInner" => Settled(e)

IInv ==
  /\ TypeOK
  /\ OwnerAt
  /\ HelperAt
  /\ Fresh
  /\ FlagsBound
  /\ Ends
  /\ CurrentIsLatest
  /\ NoSilentAbandon
  /\ Closing

\* A statement has one latest execution.
LEMMA LatestIsUnique ==
  ASSUME NEW s \in Stmt, NEW d \in Exec, NEW e \in Exec,
         Latest(s, d), Latest(s, e)
  PROVE  d = e
BY ConstantsAssumption DEF Latest, Exec

-----------------------------------------------------------------------------
\* The initial states satisfy the inductive invariant.
LEMMA InitIInv == Init => IInv
<1> SUFFICES ASSUME Init PROVE IInv
  OBVIOUS
<1> USE ConstantsAssumption DEF Init
<1>1. TypeOK
  BY DEF TypeOK, OwnerStep, HelperStep, ServerState
<1>2. OwnerAt
  BY DEF OwnerAt, OwnerStep, InCall, Agent
<1>3. HelperAt
  BY DEF HelperAt, HelperStep, Agent
<1>4. Fresh /\ FlagsBound /\ Ends /\ CurrentIsLatest
  BY DEF Fresh, FlagsBound, Ends, CurrentIsLatest, Exec
<1>5. NoSilentAbandon
  BY DEF NoSilentAbandon, Live
<1>6. Closing
  BY DEF Closing
<1> QED
  BY <1>1, <1>2, <1>3, <1>4, <1>5, <1>6 DEF IInv

\* Every step keeps the types, given where the goroutines stand.
LEMMA TypeStep ==
  ASSUME TypeOK, OwnerAt, HelperAt, [Next]_vars
  PROVE  TypeOK'
<1> USE ConstantsAssumption DEF TypeOK, OwnerAt, HelperAt, OwnerStep, HelperStep,
        client, control, network, history, Goto, Agent
<1>1. ASSUME NEW s \in Stmt, BeginCall(s) PROVE TypeOK'
  <2>1. issued + 1 \in Exec /\ issued + 1 \in 0..MaxExec
    BY <1>1 DEF BeginCall, Exec
  <2> QED BY <1>1, <2>1 DEF BeginCall, MarkInFlight
<1>2. ASSUME NEW s \in Stmt, IssueUpdate(s) PROVE TypeOK'
  BY <1>2 DEF IssueUpdate, ServerState
<1>3. ASSUME NEW s \in Stmt, ReturnUpdate(s) PROVE TypeOK'
  BY <1>3 DEF ReturnUpdate
<1>4. ASSUME NEW s \in Stmt, IssueStream(s) PROVE TypeOK'
  BY <1>4 DEF IssueStream, ServerState
<1>5. ASSUME NEW s \in Stmt, TrackStreaming(s) PROVE TypeOK'
  BY <1>5 DEF TrackStreaming, TrackCurrent
<1>6. ASSUME NEW s \in Stmt, FailCall(s) PROVE TypeOK'
  <2>1. at[s] \in Exec
    BY <1>6 DEF FailCall
  <2> QED BY <1>6, <2>1 DEF FailCall
<1>7. ASSUME NEW s \in Stmt, EndCall(s) PROVE TypeOK'
  BY <1>7 DEF EndCall
<1>8. ASSUME NEW s \in Stmt, ReleaseClaims(s) PROVE TypeOK'
  <2>1. at[s] \in Exec /\ [by |-> "stream", n |-> at[s]] \in Cancel
    BY <1>8 DEF ReleaseClaims, Cancel
  <2> QED BY <1>8, <2>1 DEF ReleaseClaims, SendCancel
<1>9. ASSUME NEW s \in Stmt, ReleaseIsLate(s) PROVE TypeOK'
  BY <1>9 DEF ReleaseIsLate
<1>10. ASSUME NEW s \in Stmt, ReleaseInner(s) PROVE TypeOK'
  BY <1>10 DEF ReleaseInner, AwaitCancel
<1>11. ASSUME NEW s \in Stmt, NEW e \in Exec, NextIsLast(s, e) PROVE TypeOK'
  <2>1. torn' \subseteq Exec
    BY <1>11 DEF NextIsLast
  <2> QED BY <1>11, <2>1 DEF NextIsLast
<1>12. ASSUME NEW s \in Stmt, NEW e \in Exec, ReleaseDrained(s, e) PROVE TypeOK'
  BY <1>12 DEF ReleaseDrained
<1>13. ASSUME NEW s \in Stmt, NEW e \in Exec, ReleaseUndrained(s, e) PROVE TypeOK'
  BY <1>13 DEF ReleaseUndrained
<1>14. ASSUME NEW h \in Helper, NEW s \in Stmt, CloseLoads(h, s) PROVE TypeOK'
  <2>1. inFlight[s] \in Exec \cup {None}
    BY <1>14
  <2>2. at' \in [Agent -> Exec \cup 1..MaxHelp \cup {None}]
    BY <1>14, <2>1 DEF CloseLoads
  <2> QED BY <1>14, <2>2 DEF CloseLoads
<1>15. ASSUME NEW h \in Helper, NEW s \in Stmt, CancelQueryMarksStream(h, s) PROVE TypeOK'
  <2>1. queries + 1 \in 1..MaxHelp /\ queries + 1 \in 0..MaxHelp
    BY <1>15 DEF CancelQueryMarksStream
  <2>2. cancelled' \in [Exec -> BOOLEAN]
    BY <1>15 DEF CancelQueryMarksStream
  <2> QED BY <1>15, <2>1, <2>2 DEF CancelQueryMarksStream
<1>16. ASSUME NEW h \in Helper, CloseClaimsCall(h) PROVE TypeOK'
  <2>1. at[h] \in Exec /\ [by |-> "call", n |-> at[h]] \in Cancel
    BY <1>16 DEF CloseClaimsCall, Cancel
  <2> QED BY <1>16, <2>1 DEF CloseClaimsCall, SendCancel
<1>17. ASSUME NEW h \in Helper, CloseMissesCall(h) PROVE TypeOK'
  BY <1>17 DEF CloseMissesCall
<1>18. ASSUME NEW h \in Helper, CloseFindsStream(h) PROVE TypeOK'
  <2>1. current[tgt[h]] \in Exec
    BY <1>18 DEF CloseFindsStream
  <2> QED BY <1>18, <2>1 DEF CloseFindsStream
<1>19. ASSUME NEW h \in Helper, CloseFindsNothing(h) PROVE TypeOK'
  BY <1>19 DEF CloseFindsNothing
<1>20. ASSUME NEW h \in Helper, CloseClaimsStream(h) PROVE TypeOK'
  <2>1. at[h] \in Exec /\ [by |-> "stream", n |-> at[h]] \in Cancel
    BY <1>20 DEF CloseClaimsStream, Cancel
  <2> QED BY <1>20, <2>1 DEF CloseClaimsStream, SendCancel
<1>21. ASSUME NEW h \in Helper, CloseMissesStream(h) PROVE TypeOK'
  BY <1>21 DEF CloseMissesStream
<1>22. ASSUME NEW h \in Helper, CloseInner(h) PROVE TypeOK'
  BY <1>22 DEF CloseInner, AwaitCancel
<1>23. ASSUME NEW h \in Helper, CancelQueryMarksCall(h) PROVE TypeOK'
  BY <1>23 DEF CancelQueryMarksCall
<1>24. ASSUME NEW h \in Helper, CancelQuerySends(h) PROVE TypeOK'
  <2>1. [by |-> "user", n |-> at[h]] \in Cancel
    BY <1>24 DEF CancelQuerySends, Cancel
  <2> QED BY <1>24, <2>1 DEF CancelQuerySends, SendCancel
<1>25. ASSUME NEW h \in Helper, CancelQueryReturns(h) PROVE TypeOK'
  BY <1>25 DEF CancelQueryReturns, AwaitCancel
<1>26. ASSUME NEW e \in Exec, ServerStarts(e) PROVE TypeOK'
  BY <1>26 DEF ServerStarts, ServerState
<1>27. ASSUME NEW e \in Exec, ServerFinishes(e) PROVE TypeOK'
  BY <1>27 DEF ServerFinishes, ServerState
<1>28. ASSUME NEW e \in Exec, RequestDropped(e) PROVE TypeOK'
  BY <1>28 DEF RequestDropped, ServerState
<1>29. ASSUME NEW m \in Cancel, ServerHandlesCancel(m) PROVE TypeOK'
  BY <1>29 DEF ServerHandlesCancel, ServerState
<1>30. ASSUME NEW m \in Cancel, CancelLost(m) PROVE TypeOK'
  BY <1>30 DEF CancelLost
<1>31. CASE UNCHANGED vars
  BY <1>31 DEF vars
<1> HIDE DEF TypeOK, OwnerAt, HelperAt
<1> QED
  BY <1>1, <1>2, <1>3, <1>4, <1>5, <1>6, <1>7, <1>8, <1>9, <1>10, <1>11,
     <1>12, <1>13, <1>14, <1>15, <1>16, <1>17, <1>18, <1>19, <1>20, <1>21,
     <1>22, <1>23, <1>24, <1>25, <1>26, <1>27, <1>28, <1>29, <1>30, <1>31 DEF Next, Owner, Helping, Network

\* Every step keeps the owners where OwnerAt says.
LEMMA OwnerAtStep ==
  ASSUME TypeOK, OwnerAt, HelperAt, Fresh, [Next]_vars
  PROVE  OwnerAt'
<1> USE ConstantsAssumption
        DEF TypeOK, OwnerAt, HelperAt, Fresh, OwnerStep, HelperStep, InCall, Latest,
            MarkInFlight, TrackCurrent, SendCancel, AwaitCancel, Claim, MayStart, Drained,
            client, control, network, history, Goto, Agent
<1>1. ASSUME NEW s \in Stmt, BeginCall(s) PROVE OwnerAt'
  <2>1. issued + 1 \in Exec /\ issued \in Nat
    BY <1>1 DEF BeginCall, Exec
  <2>2. \A e \in Exec : e \in Nat
    BY DEF Exec
  <2> QED BY <1>1, <2>1, <2>2 DEF BeginCall
<1>2. ASSUME NEW s \in Stmt, IssueUpdate(s) PROVE OwnerAt'
  BY <1>2 DEF IssueUpdate
<1>3. ASSUME NEW s \in Stmt, ReturnUpdate(s) PROVE OwnerAt'
  BY <1>3 DEF ReturnUpdate
<1>4. ASSUME NEW s \in Stmt, IssueStream(s) PROVE OwnerAt'
  BY <1>4 DEF IssueStream
<1>5. ASSUME NEW s \in Stmt, TrackStreaming(s) PROVE OwnerAt'
  BY <1>5 DEF TrackStreaming
<1>6. ASSUME NEW s \in Stmt, FailCall(s) PROVE OwnerAt'
  <2>1. UNCHANGED << client, at, tgt, msg, network >> /\ torn' = torn \cup {at[s]}
    BY <1>6 DEF FailCall
  <2>2. pc[s] \in {"issue", "wait"} /\ pc' = [pc EXCEPT ![s] = "end"]
    BY <1>6 DEF FailCall
  <2> QED BY <2>1, <2>2
<1>7. ASSUME NEW s \in Stmt, EndCall(s) PROVE OwnerAt'
  BY <1>7 DEF EndCall
<1>8. ASSUME NEW s \in Stmt, ReleaseClaims(s) PROVE OwnerAt'
  BY <1>8 DEF ReleaseClaims
<1>9. ASSUME NEW s \in Stmt, ReleaseIsLate(s) PROVE OwnerAt'
  BY <1>9 DEF ReleaseIsLate
<1>10. ASSUME NEW s \in Stmt, ReleaseInner(s) PROVE OwnerAt'
  BY <1>10 DEF ReleaseInner
<1>11. ASSUME NEW s \in Stmt, NEW e \in Exec, NextIsLast(s, e) PROVE OwnerAt'
  BY <1>11 DEF NextIsLast
<1>12. ASSUME NEW s \in Stmt, NEW e \in Exec, ReleaseDrained(s, e) PROVE OwnerAt'
  BY <1>12 DEF ReleaseDrained
<1>13. ASSUME NEW s \in Stmt, NEW e \in Exec, ReleaseUndrained(s, e) PROVE OwnerAt'
  BY <1>13 DEF ReleaseUndrained
<1>14. ASSUME NEW h \in Helper, NEW s \in Stmt, CloseLoads(h, s) PROVE OwnerAt'
  BY <1>14 DEF CloseLoads
<1>15. ASSUME NEW h \in Helper, NEW s \in Stmt, CancelQueryMarksStream(h, s) PROVE OwnerAt'
  BY <1>15 DEF CancelQueryMarksStream
<1>16. ASSUME NEW h \in Helper, CloseClaimsCall(h) PROVE OwnerAt'
  BY <1>16 DEF CloseClaimsCall
<1>17. ASSUME NEW h \in Helper, CloseMissesCall(h) PROVE OwnerAt'
  BY <1>17 DEF CloseMissesCall
<1>18. ASSUME NEW h \in Helper, CloseFindsStream(h) PROVE OwnerAt'
  BY <1>18 DEF CloseFindsStream
<1>19. ASSUME NEW h \in Helper, CloseFindsNothing(h) PROVE OwnerAt'
  BY <1>19 DEF CloseFindsNothing
<1>20. ASSUME NEW h \in Helper, CloseClaimsStream(h) PROVE OwnerAt'
  BY <1>20 DEF CloseClaimsStream
<1>21. ASSUME NEW h \in Helper, CloseMissesStream(h) PROVE OwnerAt'
  BY <1>21 DEF CloseMissesStream
<1>22. ASSUME NEW h \in Helper, CloseInner(h) PROVE OwnerAt'
  BY <1>22 DEF CloseInner
<1>23. ASSUME NEW h \in Helper, CancelQueryMarksCall(h) PROVE OwnerAt'
  BY <1>23 DEF CancelQueryMarksCall
<1>24. ASSUME NEW h \in Helper, CancelQuerySends(h) PROVE OwnerAt'
  BY <1>24 DEF CancelQuerySends
<1>25. ASSUME NEW h \in Helper, CancelQueryReturns(h) PROVE OwnerAt'
  BY <1>25 DEF CancelQueryReturns
<1>26. ASSUME NEW e \in Exec, ServerStarts(e) PROVE OwnerAt'
  BY <1>26 DEF ServerStarts
<1>27. ASSUME NEW e \in Exec, ServerFinishes(e) PROVE OwnerAt'
  BY <1>27 DEF ServerFinishes
<1>28. ASSUME NEW e \in Exec, RequestDropped(e) PROVE OwnerAt'
  BY <1>28 DEF RequestDropped
<1>29. ASSUME NEW m \in Cancel, ServerHandlesCancel(m) PROVE OwnerAt'
  <2>1. UNCHANGED << client, control, torn >>
    BY <1>29 DEF ServerHandlesCancel
  <2>2. \A e \in Exec : server'[e] = IF server[e] = "running" THEN "interrupted" ELSE server[e]
    BY <1>29 DEF ServerHandlesCancel, Active
  <2> QED BY <2>1, <2>2
<1>30. ASSUME NEW m \in Cancel, CancelLost(m) PROVE OwnerAt'
  BY <1>30 DEF CancelLost
<1>31. CASE UNCHANGED vars
  BY <1>31 DEF vars
<1> HIDE DEF TypeOK, OwnerAt, HelperAt, Fresh
<1> QED
  BY <1>1, <1>2, <1>3, <1>4, <1>5, <1>6, <1>7, <1>8, <1>9, <1>10, <1>11,
     <1>12, <1>13, <1>14, <1>15, <1>16, <1>17, <1>18, <1>19, <1>20, <1>21,
     <1>22, <1>23, <1>24, <1>25, <1>26, <1>27, <1>28, <1>29, <1>30, <1>31 DEF Next, Owner, Helping, Network

\* Every step keeps the helpers where HelperAt says.
LEMMA HelperAtStep ==
  ASSUME TypeOK, OwnerAt, HelperAt, [Next]_vars
  PROVE  HelperAt'
<1> USE ConstantsAssumption
        DEF TypeOK, OwnerAt, HelperAt, OwnerStep, HelperStep,
            MarkInFlight, TrackCurrent, SendCancel, AwaitCancel, Claim, MayStart, Drained,
            client, control, network, history, Goto, Agent
<1>1. ASSUME NEW s \in Stmt, BeginCall(s) PROVE HelperAt'
  BY <1>1 DEF BeginCall
<1>2. ASSUME NEW s \in Stmt, IssueUpdate(s) PROVE HelperAt'
  BY <1>2 DEF IssueUpdate
<1>3. ASSUME NEW s \in Stmt, ReturnUpdate(s) PROVE HelperAt'
  BY <1>3 DEF ReturnUpdate
<1>4. ASSUME NEW s \in Stmt, IssueStream(s) PROVE HelperAt'
  BY <1>4 DEF IssueStream
<1>5. ASSUME NEW s \in Stmt, TrackStreaming(s) PROVE HelperAt'
  BY <1>5 DEF TrackStreaming
<1>6. ASSUME NEW s \in Stmt, FailCall(s) PROVE HelperAt'
  BY <1>6 DEF FailCall
<1>7. ASSUME NEW s \in Stmt, EndCall(s) PROVE HelperAt'
  BY <1>7 DEF EndCall
<1>8. ASSUME NEW s \in Stmt, ReleaseClaims(s) PROVE HelperAt'
  BY <1>8 DEF ReleaseClaims
<1>9. ASSUME NEW s \in Stmt, ReleaseIsLate(s) PROVE HelperAt'
  BY <1>9 DEF ReleaseIsLate
<1>10. ASSUME NEW s \in Stmt, ReleaseInner(s) PROVE HelperAt'
  BY <1>10 DEF ReleaseInner
<1>11. ASSUME NEW s \in Stmt, NEW e \in Exec, NextIsLast(s, e) PROVE HelperAt'
  BY <1>11 DEF NextIsLast
<1>12. ASSUME NEW s \in Stmt, NEW e \in Exec, ReleaseDrained(s, e) PROVE HelperAt'
  BY <1>12 DEF ReleaseDrained
<1>13. ASSUME NEW s \in Stmt, NEW e \in Exec, ReleaseUndrained(s, e) PROVE HelperAt'
  BY <1>13 DEF ReleaseUndrained
<1>14. ASSUME NEW h \in Helper, NEW s \in Stmt, CloseLoads(h, s) PROVE HelperAt'
  BY <1>14 DEF CloseLoads
<1>15. ASSUME NEW h \in Helper, NEW s \in Stmt, CancelQueryMarksStream(h, s) PROVE HelperAt'
  BY <1>15 DEF CancelQueryMarksStream
<1>16. ASSUME NEW h \in Helper, CloseClaimsCall(h) PROVE HelperAt'
  BY <1>16 DEF CloseClaimsCall
<1>17. ASSUME NEW h \in Helper, CloseMissesCall(h) PROVE HelperAt'
  BY <1>17 DEF CloseMissesCall
<1>18. ASSUME NEW h \in Helper, CloseFindsStream(h) PROVE HelperAt'
  BY <1>18 DEF CloseFindsStream
<1>19. ASSUME NEW h \in Helper, CloseFindsNothing(h) PROVE HelperAt'
  BY <1>19 DEF CloseFindsNothing
<1>20. ASSUME NEW h \in Helper, CloseClaimsStream(h) PROVE HelperAt'
  BY <1>20 DEF CloseClaimsStream
<1>21. ASSUME NEW h \in Helper, CloseMissesStream(h) PROVE HelperAt'
  BY <1>21 DEF CloseMissesStream
<1>22. ASSUME NEW h \in Helper, CloseInner(h) PROVE HelperAt'
  BY <1>22 DEF CloseInner
<1>23. ASSUME NEW h \in Helper, CancelQueryMarksCall(h) PROVE HelperAt'
  BY <1>23 DEF CancelQueryMarksCall
<1>24. ASSUME NEW h \in Helper, CancelQuerySends(h) PROVE HelperAt'
  BY <1>24 DEF CancelQuerySends
<1>25. ASSUME NEW h \in Helper, CancelQueryReturns(h) PROVE HelperAt'
  BY <1>25 DEF CancelQueryReturns
<1>26. ASSUME NEW e \in Exec, ServerStarts(e) PROVE HelperAt'
  BY <1>26 DEF ServerStarts
<1>27. ASSUME NEW e \in Exec, ServerFinishes(e) PROVE HelperAt'
  BY <1>27 DEF ServerFinishes
<1>28. ASSUME NEW e \in Exec, RequestDropped(e) PROVE HelperAt'
  BY <1>28 DEF RequestDropped
<1>29. ASSUME NEW m \in Cancel, ServerHandlesCancel(m) PROVE HelperAt'
  BY <1>29 DEF ServerHandlesCancel
<1>30. ASSUME NEW m \in Cancel, CancelLost(m) PROVE HelperAt'
  BY <1>30 DEF CancelLost
<1>31. CASE UNCHANGED vars
  BY <1>31 DEF vars
<1> HIDE DEF TypeOK, OwnerAt, HelperAt
<1> QED
  BY <1>1, <1>2, <1>3, <1>4, <1>5, <1>6, <1>7, <1>8, <1>9, <1>10, <1>11,
     <1>12, <1>13, <1>14, <1>15, <1>16, <1>17, <1>18, <1>19, <1>20, <1>21,
     <1>22, <1>23, <1>24, <1>25, <1>26, <1>27, <1>28, <1>29, <1>30, <1>31 DEF Next, Owner, Helping, Network

\* Only BeginCall touches an execution that is not issued yet.
LEMMA FreshStep ==
  ASSUME TypeOK, OwnerAt, HelperAt, Fresh, [Next]_vars
  PROVE  Fresh'
<1> USE ConstantsAssumption
        DEF TypeOK, OwnerAt, Fresh, OwnerStep,
            MarkInFlight, TrackCurrent, SendCancel, AwaitCancel, Claim, MayStart, Drained,
            client, control, network, history, Goto, Agent
<1>1. ASSUME NEW s \in Stmt, BeginCall(s) PROVE Fresh'
  <2>1. issued + 1 \in Exec /\ issued \in Nat
    BY <1>1 DEF BeginCall, Exec
  <2>2. \A e \in Exec : e \in Nat
    BY DEF Exec
  <2> QED BY <1>1, <2>1, <2>2 DEF BeginCall
<1>2. ASSUME NEW s \in Stmt, IssueUpdate(s) PROVE Fresh'
  BY <1>2 DEF IssueUpdate
<1>3. ASSUME NEW s \in Stmt, ReturnUpdate(s) PROVE Fresh'
  BY <1>3 DEF ReturnUpdate
<1>4. ASSUME NEW s \in Stmt, IssueStream(s) PROVE Fresh'
  BY <1>4 DEF IssueStream
<1>5. ASSUME NEW s \in Stmt, TrackStreaming(s) PROVE Fresh'
  BY <1>5 DEF TrackStreaming
<1>6. ASSUME NEW s \in Stmt, FailCall(s) PROVE Fresh'
  <2>1. UNCHANGED << client, at, tgt, msg, network >> /\ torn' = torn \cup {at[s]}
    BY <1>6 DEF FailCall
  <2>2. pc[s] \in {"issue", "wait"} /\ pc' = [pc EXCEPT ![s] = "end"]
    BY <1>6 DEF FailCall
  <2> QED BY <2>1, <2>2
<1>7. ASSUME NEW s \in Stmt, EndCall(s) PROVE Fresh'
  BY <1>7 DEF EndCall
<1>8. ASSUME NEW s \in Stmt, ReleaseClaims(s) PROVE Fresh'
  BY <1>8 DEF ReleaseClaims
<1>9. ASSUME NEW s \in Stmt, ReleaseIsLate(s) PROVE Fresh'
  BY <1>9 DEF ReleaseIsLate
<1>10. ASSUME NEW s \in Stmt, ReleaseInner(s) PROVE Fresh'
  BY <1>10 DEF ReleaseInner
<1>11. ASSUME NEW s \in Stmt, NEW e \in Exec, NextIsLast(s, e) PROVE Fresh'
  BY <1>11 DEF NextIsLast
<1>12. ASSUME NEW s \in Stmt, NEW e \in Exec, ReleaseDrained(s, e) PROVE Fresh'
  BY <1>12 DEF ReleaseDrained
<1>13. ASSUME NEW s \in Stmt, NEW e \in Exec, ReleaseUndrained(s, e) PROVE Fresh'
  BY <1>13 DEF ReleaseUndrained
<1>14. ASSUME NEW h \in Helper, NEW s \in Stmt, CloseLoads(h, s) PROVE Fresh'
  BY <1>14 DEF CloseLoads
<1>15. ASSUME NEW h \in Helper, NEW s \in Stmt, CancelQueryMarksStream(h, s) PROVE Fresh'
  BY <1>15 DEF CancelQueryMarksStream
<1>16. ASSUME NEW h \in Helper, CloseClaimsCall(h) PROVE Fresh'
  BY <1>16 DEF CloseClaimsCall
<1>17. ASSUME NEW h \in Helper, CloseMissesCall(h) PROVE Fresh'
  BY <1>17 DEF CloseMissesCall
<1>18. ASSUME NEW h \in Helper, CloseFindsStream(h) PROVE Fresh'
  BY <1>18 DEF CloseFindsStream
<1>19. ASSUME NEW h \in Helper, CloseFindsNothing(h) PROVE Fresh'
  BY <1>19 DEF CloseFindsNothing
<1>20. ASSUME NEW h \in Helper, CloseClaimsStream(h) PROVE Fresh'
  BY <1>20 DEF CloseClaimsStream
<1>21. ASSUME NEW h \in Helper, CloseMissesStream(h) PROVE Fresh'
  BY <1>21 DEF CloseMissesStream
<1>22. ASSUME NEW h \in Helper, CloseInner(h) PROVE Fresh'
  BY <1>22 DEF CloseInner
<1>23. ASSUME NEW h \in Helper, CancelQueryMarksCall(h) PROVE Fresh'
  BY <1>23 DEF CancelQueryMarksCall
<1>24. ASSUME NEW h \in Helper, CancelQuerySends(h) PROVE Fresh'
  BY <1>24 DEF CancelQuerySends
<1>25. ASSUME NEW h \in Helper, CancelQueryReturns(h) PROVE Fresh'
  BY <1>25 DEF CancelQueryReturns
<1>26. ASSUME NEW e \in Exec, ServerStarts(e) PROVE Fresh'
  BY <1>26 DEF ServerStarts
<1>27. ASSUME NEW e \in Exec, ServerFinishes(e) PROVE Fresh'
  BY <1>27 DEF ServerFinishes
<1>28. ASSUME NEW e \in Exec, RequestDropped(e) PROVE Fresh'
  BY <1>28 DEF RequestDropped
<1>29. ASSUME NEW m \in Cancel, ServerHandlesCancel(m) PROVE Fresh'
  <2>1. UNCHANGED << client, control, torn >>
    BY <1>29 DEF ServerHandlesCancel
  <2>2. \A e \in Exec : server'[e] = IF server[e] = "running" THEN "interrupted" ELSE server[e]
    BY <1>29 DEF ServerHandlesCancel, Active
  <2> QED BY <2>1, <2>2
<1>30. ASSUME NEW m \in Cancel, CancelLost(m) PROVE Fresh'
  BY <1>30 DEF CancelLost
<1>31. CASE UNCHANGED vars
  BY <1>31 DEF vars
<1> HIDE DEF TypeOK, OwnerAt, Fresh
<1> QED
  BY <1>1, <1>2, <1>3, <1>4, <1>5, <1>6, <1>7, <1>8, <1>9, <1>10, <1>11,
     <1>12, <1>13, <1>14, <1>15, <1>16, <1>17, <1>18, <1>19, <1>20, <1>21,
     <1>22, <1>23, <1>24, <1>25, <1>26, <1>27, <1>28, <1>29, <1>30, <1>31 DEF Next, Owner, Helping, Network

\* A cancel goes out only with a flag that was FALSE and becomes TRUE.
LEMMA FlagsStep ==
  ASSUME TypeOK, OwnerAt, HelperAt, FlagsBound, [Next]_vars
  PROVE  FlagsBound'
<1> USE ConstantsAssumption
        DEF TypeOK, OwnerAt, HelperAt, FlagsBound, OwnerStep, HelperStep,
            MarkInFlight, TrackCurrent, SendCancel, AwaitCancel, Claim, MayStart, Drained,
            client, control, network, history, Goto, Agent
<1>1. ASSUME NEW s \in Stmt, BeginCall(s) PROVE FlagsBound'
  BY <1>1 DEF BeginCall
<1>2. ASSUME NEW s \in Stmt, IssueUpdate(s) PROVE FlagsBound'
  BY <1>2 DEF IssueUpdate
<1>3. ASSUME NEW s \in Stmt, ReturnUpdate(s) PROVE FlagsBound'
  BY <1>3 DEF ReturnUpdate
<1>4. ASSUME NEW s \in Stmt, IssueStream(s) PROVE FlagsBound'
  BY <1>4 DEF IssueStream
<1>5. ASSUME NEW s \in Stmt, TrackStreaming(s) PROVE FlagsBound'
  BY <1>5 DEF TrackStreaming
<1>6. ASSUME NEW s \in Stmt, FailCall(s) PROVE FlagsBound'
  BY <1>6 DEF FailCall
<1>7. ASSUME NEW s \in Stmt, EndCall(s) PROVE FlagsBound'
  BY <1>7 DEF EndCall
<1>8. ASSUME NEW s \in Stmt, ReleaseClaims(s) PROVE FlagsBound'
  BY <1>8 DEF ReleaseClaims
<1>9. ASSUME NEW s \in Stmt, ReleaseIsLate(s) PROVE FlagsBound'
  BY <1>9 DEF ReleaseIsLate
<1>10. ASSUME NEW s \in Stmt, ReleaseInner(s) PROVE FlagsBound'
  BY <1>10 DEF ReleaseInner
<1>11. ASSUME NEW s \in Stmt, NEW e \in Exec, NextIsLast(s, e) PROVE FlagsBound'
  BY <1>11 DEF NextIsLast
<1>12. ASSUME NEW s \in Stmt, NEW e \in Exec, ReleaseDrained(s, e) PROVE FlagsBound'
  BY <1>12 DEF ReleaseDrained
<1>13. ASSUME NEW s \in Stmt, NEW e \in Exec, ReleaseUndrained(s, e) PROVE FlagsBound'
  BY <1>13 DEF ReleaseUndrained
<1>14. ASSUME NEW h \in Helper, NEW s \in Stmt, CloseLoads(h, s) PROVE FlagsBound'
  BY <1>14 DEF CloseLoads
<1>15. ASSUME NEW h \in Helper, NEW s \in Stmt, CancelQueryMarksStream(h, s) PROVE FlagsBound'
  BY <1>15 DEF CancelQueryMarksStream
<1>16. ASSUME NEW h \in Helper, CloseClaimsCall(h) PROVE FlagsBound'
  BY <1>16 DEF CloseClaimsCall
<1>17. ASSUME NEW h \in Helper, CloseMissesCall(h) PROVE FlagsBound'
  BY <1>17 DEF CloseMissesCall
<1>18. ASSUME NEW h \in Helper, CloseFindsStream(h) PROVE FlagsBound'
  BY <1>18 DEF CloseFindsStream
<1>19. ASSUME NEW h \in Helper, CloseFindsNothing(h) PROVE FlagsBound'
  BY <1>19 DEF CloseFindsNothing
<1>20. ASSUME NEW h \in Helper, CloseClaimsStream(h) PROVE FlagsBound'
  BY <1>20 DEF CloseClaimsStream
<1>21. ASSUME NEW h \in Helper, CloseMissesStream(h) PROVE FlagsBound'
  BY <1>21 DEF CloseMissesStream
<1>22. ASSUME NEW h \in Helper, CloseInner(h) PROVE FlagsBound'
  BY <1>22 DEF CloseInner
<1>23. ASSUME NEW h \in Helper, CancelQueryMarksCall(h) PROVE FlagsBound'
  BY <1>23 DEF CancelQueryMarksCall
<1>24. ASSUME NEW h \in Helper, CancelQuerySends(h) PROVE FlagsBound'
  BY <1>24 DEF CancelQuerySends
<1>25. ASSUME NEW h \in Helper, CancelQueryReturns(h) PROVE FlagsBound'
  BY <1>25 DEF CancelQueryReturns
<1>26. ASSUME NEW e \in Exec, ServerStarts(e) PROVE FlagsBound'
  BY <1>26 DEF ServerStarts
<1>27. ASSUME NEW e \in Exec, ServerFinishes(e) PROVE FlagsBound'
  BY <1>27 DEF ServerFinishes
<1>28. ASSUME NEW e \in Exec, RequestDropped(e) PROVE FlagsBound'
  BY <1>28 DEF RequestDropped
<1>29. ASSUME NEW m \in Cancel, ServerHandlesCancel(m) PROVE FlagsBound'
  BY <1>29 DEF ServerHandlesCancel
<1>30. ASSUME NEW m \in Cancel, CancelLost(m) PROVE FlagsBound'
  BY <1>30 DEF CancelLost
<1>31. CASE UNCHANGED vars
  BY <1>31 DEF vars
<1> HIDE DEF TypeOK, OwnerAt, HelperAt, FlagsBound
<1> QED
  BY <1>1, <1>2, <1>3, <1>4, <1>5, <1>6, <1>7, <1>8, <1>9, <1>10, <1>11,
     <1>12, <1>13, <1>14, <1>15, <1>16, <1>17, <1>18, <1>19, <1>20, <1>21,
     <1>22, <1>23, <1>24, <1>25, <1>26, <1>27, <1>28, <1>29, <1>30, <1>31 DEF Next, Owner, Helping, Network

\* An execution leaves "new" only by being sent, and a reader ends only when
\* its execution has.
LEMMA EndsStep ==
  ASSUME TypeOK, OwnerAt, HelperAt, Fresh, Ends, [Next]_vars
  PROVE  Ends'
<1> USE ConstantsAssumption
        DEF TypeOK, OwnerAt, HelperAt, Fresh, Ends, Over, Live, OwnerStep, HelperStep,
            MarkInFlight, TrackCurrent, SendCancel, AwaitCancel, Claim, MayStart, Drained,
            client, control, network, history, Goto, Agent
<1>1. ASSUME NEW s \in Stmt, BeginCall(s) PROVE Ends'
  <2>1. issued + 1 \in Exec /\ issued \in Nat
    BY <1>1 DEF BeginCall, Exec
  <2>2. \A e \in Exec : e \in Nat
    BY DEF Exec
  <2>3. /\ pc[s] = "idle" /\ issued' = issued + 1
        /\ at' = [at EXCEPT ![s] = issued + 1] /\ pc' = [pc EXCEPT ![s] = "issue"]
        /\ UNCHANGED << exhausted, server, torn >>
    BY <1>1 DEF BeginCall
  <2>4. ASSUME NEW e \in Exec PROVE exhausted'[e] => Over(e)'
    BY <2>3
  <2>5. ASSUME NEW e \in Exec, server'[e] = "new", e =< issued'
        PROVE  e \in torn' \/ \E t \in Stmt : at'[t] = e /\ pc'[t] = "issue"
    <3>1. CASE e = issued + 1
      BY <2>3, <3>1
    <3>2. CASE e =< issued
      <4>1. e \in torn \/ \E t \in Stmt : at[t] = e /\ pc[t] = "issue"
        BY <2>3, <2>5, <3>2
      <4> QED BY <4>1, <2>3
    <3> QED BY <2>1, <2>2, <2>3, <2>5, <3>1, <3>2
  <2> QED BY <2>4, <2>5
<1>2. ASSUME NEW s \in Stmt, IssueUpdate(s) PROVE Ends'
  BY <1>2 DEF IssueUpdate
<1>3. ASSUME NEW s \in Stmt, ReturnUpdate(s) PROVE Ends'
  BY <1>3 DEF ReturnUpdate
<1>4. ASSUME NEW s \in Stmt, IssueStream(s) PROVE Ends'
  BY <1>4 DEF IssueStream
<1>5. ASSUME NEW s \in Stmt, TrackStreaming(s) PROVE Ends'
  BY <1>5 DEF TrackStreaming
<1>6. ASSUME NEW s \in Stmt, FailCall(s) PROVE Ends'
  <2>1. UNCHANGED << client, at, tgt, msg, network >> /\ torn' = torn \cup {at[s]}
    BY <1>6 DEF FailCall
  <2>2. pc[s] \in {"issue", "wait"} /\ pc' = [pc EXCEPT ![s] = "end"]
    BY <1>6 DEF FailCall
  <2> QED BY <2>1, <2>2
<1>7. ASSUME NEW s \in Stmt, EndCall(s) PROVE Ends'
  BY <1>7 DEF EndCall
<1>8. ASSUME NEW s \in Stmt, ReleaseClaims(s) PROVE Ends'
  BY <1>8 DEF ReleaseClaims
<1>9. ASSUME NEW s \in Stmt, ReleaseIsLate(s) PROVE Ends'
  BY <1>9 DEF ReleaseIsLate
<1>10. ASSUME NEW s \in Stmt, ReleaseInner(s) PROVE Ends'
  BY <1>10 DEF ReleaseInner
<1>11. ASSUME NEW s \in Stmt, NEW e \in Exec, NextIsLast(s, e) PROVE Ends'
  <2>1. /\ UNCHANGED << issued, pc, at, server >> /\ server[e] # "new"
        /\ exhausted' = [exhausted EXCEPT ![e] = TRUE]
        /\ torn' = IF Live(e) THEN torn \cup {e} ELSE torn
    BY <1>11 DEF NextIsLast
  <2>2. torn \subseteq torn'
    BY <2>1
  <2>3. Over(e)'
    BY <2>1 DEF ServerState
  <2> HIDE DEF Live
  <2> QED BY <2>1, <2>2, <2>3
<1>12. ASSUME NEW s \in Stmt, NEW e \in Exec, ReleaseDrained(s, e) PROVE Ends'
  BY <1>12 DEF ReleaseDrained
<1>13. ASSUME NEW s \in Stmt, NEW e \in Exec, ReleaseUndrained(s, e) PROVE Ends'
  BY <1>13 DEF ReleaseUndrained
<1>14. ASSUME NEW h \in Helper, NEW s \in Stmt, CloseLoads(h, s) PROVE Ends'
  BY <1>14 DEF CloseLoads
<1>15. ASSUME NEW h \in Helper, NEW s \in Stmt, CancelQueryMarksStream(h, s) PROVE Ends'
  BY <1>15 DEF CancelQueryMarksStream
<1>16. ASSUME NEW h \in Helper, CloseClaimsCall(h) PROVE Ends'
  BY <1>16 DEF CloseClaimsCall
<1>17. ASSUME NEW h \in Helper, CloseMissesCall(h) PROVE Ends'
  BY <1>17 DEF CloseMissesCall
<1>18. ASSUME NEW h \in Helper, CloseFindsStream(h) PROVE Ends'
  BY <1>18 DEF CloseFindsStream
<1>19. ASSUME NEW h \in Helper, CloseFindsNothing(h) PROVE Ends'
  BY <1>19 DEF CloseFindsNothing
<1>20. ASSUME NEW h \in Helper, CloseClaimsStream(h) PROVE Ends'
  BY <1>20 DEF CloseClaimsStream
<1>21. ASSUME NEW h \in Helper, CloseMissesStream(h) PROVE Ends'
  BY <1>21 DEF CloseMissesStream
<1>22. ASSUME NEW h \in Helper, CloseInner(h) PROVE Ends'
  BY <1>22 DEF CloseInner
<1>23. ASSUME NEW h \in Helper, CancelQueryMarksCall(h) PROVE Ends'
  BY <1>23 DEF CancelQueryMarksCall
<1>24. ASSUME NEW h \in Helper, CancelQuerySends(h) PROVE Ends'
  BY <1>24 DEF CancelQuerySends
<1>25. ASSUME NEW h \in Helper, CancelQueryReturns(h) PROVE Ends'
  BY <1>25 DEF CancelQueryReturns
<1>26. ASSUME NEW e \in Exec, ServerStarts(e) PROVE Ends'
  BY <1>26 DEF ServerStarts
<1>27. ASSUME NEW e \in Exec, ServerFinishes(e) PROVE Ends'
  BY <1>27 DEF ServerFinishes
<1>28. ASSUME NEW e \in Exec, RequestDropped(e) PROVE Ends'
  BY <1>28 DEF RequestDropped
<1>29. ASSUME NEW m \in Cancel, ServerHandlesCancel(m) PROVE Ends'
  <2>1. UNCHANGED << client, control, torn >>
    BY <1>29 DEF ServerHandlesCancel
  <2>2. \A e \in Exec : server'[e] = IF server[e] = "running" THEN "interrupted" ELSE server[e]
    BY <1>29 DEF ServerHandlesCancel, Active
  <2> QED BY <2>1, <2>2
<1>30. ASSUME NEW m \in Cancel, CancelLost(m) PROVE Ends'
  BY <1>30 DEF CancelLost
<1>31. CASE UNCHANGED vars
  BY <1>31 DEF vars
<1> HIDE DEF TypeOK, OwnerAt, HelperAt, Fresh, Ends, Over, Live
<1> QED
  BY <1>1, <1>2, <1>3, <1>4, <1>5, <1>6, <1>7, <1>8, <1>9, <1>10, <1>11,
     <1>12, <1>13, <1>14, <1>15, <1>16, <1>17, <1>18, <1>19, <1>20, <1>21,
     <1>22, <1>23, <1>24, <1>25, <1>26, <1>27, <1>28, <1>29, <1>30, <1>31 DEF Next, Owner, Helping, Network

\* TrackStreaming records the latest execution, and only it does.
LEMMA CurrentStep ==
  ASSUME TypeOK, OwnerAt, HelperAt, Fresh, CurrentIsLatest, [Next]_vars
  PROVE  CurrentIsLatest'
<1> USE ConstantsAssumption
        DEF TypeOK, OwnerAt, HelperAt, Fresh, CurrentIsLatest, Latest, InCall, OwnerStep, HelperStep,
            MarkInFlight, TrackCurrent, SendCancel, AwaitCancel, Claim, MayStart, Drained,
            client, control, network, history, Goto, Agent
<1>1. ASSUME NEW s \in Stmt, BeginCall(s) PROVE CurrentIsLatest'
  <2>1. issued + 1 \in Exec /\ issued \in Nat
    BY <1>1 DEF BeginCall, Exec
  <2>2. \A e \in Exec : e \in Nat
    BY DEF Exec
  <2> QED BY <1>1, <2>1, <2>2 DEF BeginCall
<1>2. ASSUME NEW s \in Stmt, IssueUpdate(s) PROVE CurrentIsLatest'
  BY <1>2 DEF IssueUpdate
<1>3. ASSUME NEW s \in Stmt, ReturnUpdate(s) PROVE CurrentIsLatest'
  BY <1>3 DEF ReturnUpdate
<1>4. ASSUME NEW s \in Stmt, IssueStream(s) PROVE CurrentIsLatest'
  BY <1>4 DEF IssueStream
<1>5. ASSUME NEW s \in Stmt, TrackStreaming(s) PROVE CurrentIsLatest'
  <2>1. \A e \in Exec : e \in Nat
    BY DEF Exec
  <2>2. at[s] \in Exec /\ Latest(s, at[s]) /\ asker[at[s]] = s
    BY <1>5 DEF TrackStreaming
  <2>3. \A e \in Exec : Latest(s, e) => e = at[s]
    <3> HIDE DEF Latest
    <3> QED BY <2>2, LatestIsUnique
  <2>4. /\ current' = [current EXCEPT ![s] = at[s]]
        /\ reader' = [reader EXCEPT ![at[s]] = "open"]
        /\ UNCHANGED << asker >>
    BY <1>5 DEF TrackStreaming
  <2> QED BY <2>2, <2>3, <2>4
<1>6. ASSUME NEW s \in Stmt, FailCall(s) PROVE CurrentIsLatest'
  <2>1. UNCHANGED << client, at, tgt, msg, network >> /\ torn' = torn \cup {at[s]}
    BY <1>6 DEF FailCall
  <2>2. pc[s] \in {"issue", "wait"} /\ pc' = [pc EXCEPT ![s] = "end"]
    BY <1>6 DEF FailCall
  <2> QED BY <2>1, <2>2
<1>7. ASSUME NEW s \in Stmt, EndCall(s) PROVE CurrentIsLatest'
  BY <1>7 DEF EndCall
<1>8. ASSUME NEW s \in Stmt, ReleaseClaims(s) PROVE CurrentIsLatest'
  BY <1>8 DEF ReleaseClaims
<1>9. ASSUME NEW s \in Stmt, ReleaseIsLate(s) PROVE CurrentIsLatest'
  BY <1>9 DEF ReleaseIsLate
<1>10. ASSUME NEW s \in Stmt, ReleaseInner(s) PROVE CurrentIsLatest'
  BY <1>10 DEF ReleaseInner
<1>11. ASSUME NEW s \in Stmt, NEW e \in Exec, NextIsLast(s, e) PROVE CurrentIsLatest'
  BY <1>11 DEF NextIsLast
<1>12. ASSUME NEW s \in Stmt, NEW e \in Exec, ReleaseDrained(s, e) PROVE CurrentIsLatest'
  BY <1>12 DEF ReleaseDrained
<1>13. ASSUME NEW s \in Stmt, NEW e \in Exec, ReleaseUndrained(s, e) PROVE CurrentIsLatest'
  BY <1>13 DEF ReleaseUndrained
<1>14. ASSUME NEW h \in Helper, NEW s \in Stmt, CloseLoads(h, s) PROVE CurrentIsLatest'
  BY <1>14 DEF CloseLoads
<1>15. ASSUME NEW h \in Helper, NEW s \in Stmt, CancelQueryMarksStream(h, s) PROVE CurrentIsLatest'
  BY <1>15 DEF CancelQueryMarksStream
<1>16. ASSUME NEW h \in Helper, CloseClaimsCall(h) PROVE CurrentIsLatest'
  BY <1>16 DEF CloseClaimsCall
<1>17. ASSUME NEW h \in Helper, CloseMissesCall(h) PROVE CurrentIsLatest'
  BY <1>17 DEF CloseMissesCall
<1>18. ASSUME NEW h \in Helper, CloseFindsStream(h) PROVE CurrentIsLatest'
  BY <1>18 DEF CloseFindsStream
<1>19. ASSUME NEW h \in Helper, CloseFindsNothing(h) PROVE CurrentIsLatest'
  BY <1>19 DEF CloseFindsNothing
<1>20. ASSUME NEW h \in Helper, CloseClaimsStream(h) PROVE CurrentIsLatest'
  BY <1>20 DEF CloseClaimsStream
<1>21. ASSUME NEW h \in Helper, CloseMissesStream(h) PROVE CurrentIsLatest'
  BY <1>21 DEF CloseMissesStream
<1>22. ASSUME NEW h \in Helper, CloseInner(h) PROVE CurrentIsLatest'
  BY <1>22 DEF CloseInner
<1>23. ASSUME NEW h \in Helper, CancelQueryMarksCall(h) PROVE CurrentIsLatest'
  BY <1>23 DEF CancelQueryMarksCall
<1>24. ASSUME NEW h \in Helper, CancelQuerySends(h) PROVE CurrentIsLatest'
  BY <1>24 DEF CancelQuerySends
<1>25. ASSUME NEW h \in Helper, CancelQueryReturns(h) PROVE CurrentIsLatest'
  BY <1>25 DEF CancelQueryReturns
<1>26. ASSUME NEW e \in Exec, ServerStarts(e) PROVE CurrentIsLatest'
  BY <1>26 DEF ServerStarts
<1>27. ASSUME NEW e \in Exec, ServerFinishes(e) PROVE CurrentIsLatest'
  BY <1>27 DEF ServerFinishes
<1>28. ASSUME NEW e \in Exec, RequestDropped(e) PROVE CurrentIsLatest'
  BY <1>28 DEF RequestDropped
<1>29. ASSUME NEW m \in Cancel, ServerHandlesCancel(m) PROVE CurrentIsLatest'
  <2>1. UNCHANGED << client, control, torn >>
    BY <1>29 DEF ServerHandlesCancel
  <2>2. \A e \in Exec : server'[e] = IF server[e] = "running" THEN "interrupted" ELSE server[e]
    BY <1>29 DEF ServerHandlesCancel, Active
  <2> QED BY <2>1, <2>2
<1>30. ASSUME NEW m \in Cancel, CancelLost(m) PROVE CurrentIsLatest'
  BY <1>30 DEF CancelLost
<1>31. CASE UNCHANGED vars
  BY <1>31 DEF vars
<1> HIDE DEF TypeOK, OwnerAt, HelperAt, Fresh, CurrentIsLatest, Latest, InCall
<1> QED
  BY <1>1, <1>2, <1>3, <1>4, <1>5, <1>6, <1>7, <1>8, <1>9, <1>10, <1>11,
     <1>12, <1>13, <1>14, <1>15, <1>16, <1>17, <1>18, <1>19, <1>20, <1>21,
     <1>22, <1>23, <1>24, <1>25, <1>26, <1>27, <1>28, <1>29, <1>30, <1>31 DEF Next, Owner, Helping, Network

\* No step of anybody leaves a live execution unclaimed and unheld.
LEMMA AbandonStep ==
  ASSUME TypeOK, OwnerAt, HelperAt, Fresh, Ends, NoSilentAbandon, [Next]_vars
  PROVE  NoSilentAbandon'
<1> USE ConstantsAssumption
        DEF TypeOK, OwnerAt, HelperAt, Fresh, Ends, Over, Live, Claimed, Held, InCall, NoSilentAbandon, OwnerStep, HelperStep,
            MarkInFlight, TrackCurrent, SendCancel, AwaitCancel, Claim, MayStart, Drained,
            client, control, network, history, Goto, Agent
<1>1. ASSUME NEW s \in Stmt, BeginCall(s) PROVE NoSilentAbandon'
  <2>1. issued + 1 \in Exec /\ issued \in Nat
    BY <1>1 DEF BeginCall, Exec
  <2>2. \A e \in Exec : e \in Nat
    BY DEF Exec
  <2> QED BY <1>1, <2>1, <2>2 DEF BeginCall
<1>2. ASSUME NEW s \in Stmt, IssueUpdate(s) PROVE NoSilentAbandon'
  BY <1>2 DEF IssueUpdate
<1>3. ASSUME NEW s \in Stmt, ReturnUpdate(s) PROVE NoSilentAbandon'
  BY <1>3 DEF ReturnUpdate
<1>4. ASSUME NEW s \in Stmt, IssueStream(s) PROVE NoSilentAbandon'
  BY <1>4 DEF IssueStream
<1>5. ASSUME NEW s \in Stmt, TrackStreaming(s) PROVE NoSilentAbandon'
  BY <1>5 DEF TrackStreaming
<1>6. ASSUME NEW s \in Stmt, FailCall(s) PROVE NoSilentAbandon'
  <2>1. UNCHANGED << client, at, tgt, msg, network >> /\ torn' = torn \cup {at[s]}
    BY <1>6 DEF FailCall
  <2>2. pc[s] \in {"issue", "wait"} /\ pc' = [pc EXCEPT ![s] = "end"]
    BY <1>6 DEF FailCall
  <2> QED BY <2>1, <2>2
<1>7. ASSUME NEW s \in Stmt, EndCall(s) PROVE NoSilentAbandon'
  BY <1>7 DEF EndCall
<1>8. ASSUME NEW s \in Stmt, ReleaseClaims(s) PROVE NoSilentAbandon'
  BY <1>8 DEF ReleaseClaims
<1>9. ASSUME NEW s \in Stmt, ReleaseIsLate(s) PROVE NoSilentAbandon'
  BY <1>9 DEF ReleaseIsLate
<1>10. ASSUME NEW s \in Stmt, ReleaseInner(s) PROVE NoSilentAbandon'
  BY <1>10 DEF ReleaseInner
<1>11. ASSUME NEW s \in Stmt, NEW e \in Exec, NextIsLast(s, e) PROVE NoSilentAbandon'
  BY <1>11 DEF NextIsLast
<1>12. ASSUME NEW s \in Stmt, NEW e \in Exec, ReleaseDrained(s, e) PROVE NoSilentAbandon'
  <2>1. ~Live(e) \/ e \in torn
    BY <1>12 DEF ReleaseDrained
  <2>2. UNCHANGED << pc, at, inFlight, asker, server, torn, callCancelled, cancelled >>
        /\ reader' = [reader EXCEPT ![e] = "released"]
    BY <1>12 DEF ReleaseDrained
  <2> QED BY <2>1, <2>2
<1>13. ASSUME NEW s \in Stmt, NEW e \in Exec, ReleaseUndrained(s, e) PROVE NoSilentAbandon'
  BY <1>13 DEF ReleaseUndrained
<1>14. ASSUME NEW h \in Helper, NEW s \in Stmt, CloseLoads(h, s) PROVE NoSilentAbandon'
  BY <1>14 DEF CloseLoads
<1>15. ASSUME NEW h \in Helper, NEW s \in Stmt, CancelQueryMarksStream(h, s) PROVE NoSilentAbandon'
  BY <1>15 DEF CancelQueryMarksStream
<1>16. ASSUME NEW h \in Helper, CloseClaimsCall(h) PROVE NoSilentAbandon'
  BY <1>16 DEF CloseClaimsCall
<1>17. ASSUME NEW h \in Helper, CloseMissesCall(h) PROVE NoSilentAbandon'
  BY <1>17 DEF CloseMissesCall
<1>18. ASSUME NEW h \in Helper, CloseFindsStream(h) PROVE NoSilentAbandon'
  BY <1>18 DEF CloseFindsStream
<1>19. ASSUME NEW h \in Helper, CloseFindsNothing(h) PROVE NoSilentAbandon'
  BY <1>19 DEF CloseFindsNothing
<1>20. ASSUME NEW h \in Helper, CloseClaimsStream(h) PROVE NoSilentAbandon'
  BY <1>20 DEF CloseClaimsStream
<1>21. ASSUME NEW h \in Helper, CloseMissesStream(h) PROVE NoSilentAbandon'
  BY <1>21 DEF CloseMissesStream
<1>22. ASSUME NEW h \in Helper, CloseInner(h) PROVE NoSilentAbandon'
  BY <1>22 DEF CloseInner
<1>23. ASSUME NEW h \in Helper, CancelQueryMarksCall(h) PROVE NoSilentAbandon'
  BY <1>23 DEF CancelQueryMarksCall
<1>24. ASSUME NEW h \in Helper, CancelQuerySends(h) PROVE NoSilentAbandon'
  BY <1>24 DEF CancelQuerySends
<1>25. ASSUME NEW h \in Helper, CancelQueryReturns(h) PROVE NoSilentAbandon'
  BY <1>25 DEF CancelQueryReturns
<1>26. ASSUME NEW e \in Exec, ServerStarts(e) PROVE NoSilentAbandon'
  BY <1>26 DEF ServerStarts
<1>27. ASSUME NEW e \in Exec, ServerFinishes(e) PROVE NoSilentAbandon'
  BY <1>27 DEF ServerFinishes
<1>28. ASSUME NEW e \in Exec, RequestDropped(e) PROVE NoSilentAbandon'
  BY <1>28 DEF RequestDropped
<1>29. ASSUME NEW m \in Cancel, ServerHandlesCancel(m) PROVE NoSilentAbandon'
  <2>1. UNCHANGED << client, control, torn >>
    BY <1>29 DEF ServerHandlesCancel
  <2>2. \A e \in Exec : server'[e] = IF server[e] = "running" THEN "interrupted" ELSE server[e]
    BY <1>29 DEF ServerHandlesCancel, Active
  <2> QED BY <2>1, <2>2
<1>30. ASSUME NEW m \in Cancel, CancelLost(m) PROVE NoSilentAbandon'
  BY <1>30 DEF CancelLost
<1>31. CASE UNCHANGED vars
  BY <1>31 DEF vars
<1> HIDE DEF TypeOK, OwnerAt, HelperAt, Fresh, Ends, Over, Live, Claimed, Held, InCall, NoSilentAbandon
<1> QED
  BY <1>1, <1>2, <1>3, <1>4, <1>5, <1>6, <1>7, <1>8, <1>9, <1>10, <1>11,
     <1>12, <1>13, <1>14, <1>15, <1>16, <1>17, <1>18, <1>19, <1>20, <1>21,
     <1>22, <1>23, <1>24, <1>25, <1>26, <1>27, <1>28, <1>29, <1>30, <1>31 DEF Next, Owner, Helping, Network

\* Every step of Close keeps what the earlier steps established, however the
\* owner and the other helpers move meanwhile.
LEMMA ClosingStep ==
  ASSUME TypeOK, OwnerAt, HelperAt, Fresh, Ends, CurrentIsLatest, NoSilentAbandon, Closing, [Next]_vars
  PROVE  Closing'
<1> USE ConstantsAssumption
        DEF TypeOK, OwnerAt, HelperAt, Fresh, Ends, CurrentIsLatest, NoSilentAbandon, Closing, Settled, Over, Live, Claimed, Held, Latest, InCall, OwnerStep, HelperStep,
            MarkInFlight, TrackCurrent, SendCancel, AwaitCancel, Claim, MayStart, Drained,
            client, control, network, history, Goto, Agent
<1>1. ASSUME NEW s \in Stmt, BeginCall(s) PROVE Closing'
  <2>1. issued + 1 \in Exec /\ issued \in Nat
    BY <1>1 DEF BeginCall, Exec
  <2>2. \A e \in Exec : e \in Nat
    BY DEF Exec
  <2> QED BY <1>1, <2>1, <2>2 DEF BeginCall
<1>2. ASSUME NEW s \in Stmt, IssueUpdate(s) PROVE Closing'
  BY <1>2 DEF IssueUpdate
<1>3. ASSUME NEW s \in Stmt, ReturnUpdate(s) PROVE Closing'
  BY <1>3 DEF ReturnUpdate
<1>4. ASSUME NEW s \in Stmt, IssueStream(s) PROVE Closing'
  BY <1>4 DEF IssueStream
<1>5. ASSUME NEW s \in Stmt, TrackStreaming(s) PROVE Closing'
  <2>1. \A e \in Exec : e \in Nat
    BY DEF Exec
  <2>2. at[s] \in Exec /\ Latest(s, at[s]) /\ asker[at[s]] = s
    BY <1>5 DEF TrackStreaming
  <2>3. \A e \in Exec : Latest(s, e) => e = at[s]
    <3> HIDE DEF Latest
    <3> QED BY <2>2, LatestIsUnique
  <2>4. /\ current' = [current EXCEPT ![s] = at[s]] /\ pc' = [pc EXCEPT ![s] = "end"]
        /\ UNCHANGED << asker, issued, owed, at, tgt, server, torn, callCancelled, cancelled >>
    BY <1>5 DEF TrackStreaming
  <2>5. \A h \in Helper : pc'[h] = pc[h]
    BY <2>4
  <2> QED BY <2>3, <2>4, <2>5
<1>6. ASSUME NEW s \in Stmt, FailCall(s) PROVE Closing'
  <2>1. UNCHANGED << client, at, tgt, msg, network, owed >> /\ torn' = torn \cup {at[s]}
    BY <1>6 DEF FailCall
  <2>2. pc[s] \in {"issue", "wait"} /\ pc' = [pc EXCEPT ![s] = "end"]
    BY <1>6 DEF FailCall
  <2> QED BY <2>1, <2>2
<1>7. ASSUME NEW s \in Stmt, EndCall(s) PROVE Closing'
  BY <1>7 DEF EndCall
<1>8. ASSUME NEW s \in Stmt, ReleaseClaims(s) PROVE Closing'
  BY <1>8 DEF ReleaseClaims
<1>9. ASSUME NEW s \in Stmt, ReleaseIsLate(s) PROVE Closing'
  BY <1>9 DEF ReleaseIsLate
<1>10. ASSUME NEW s \in Stmt, ReleaseInner(s) PROVE Closing'
  BY <1>10 DEF ReleaseInner
<1>11. ASSUME NEW s \in Stmt, NEW e \in Exec, NextIsLast(s, e) PROVE Closing'
  BY <1>11 DEF NextIsLast
<1>12. ASSUME NEW s \in Stmt, NEW e \in Exec, ReleaseDrained(s, e) PROVE Closing'
  BY <1>12 DEF ReleaseDrained
<1>13. ASSUME NEW s \in Stmt, NEW e \in Exec, ReleaseUndrained(s, e) PROVE Closing'
  BY <1>13 DEF ReleaseUndrained
<1>14. ASSUME NEW h \in Helper, NEW s \in Stmt, CloseLoads(h, s) PROVE Closing'
  <2>0. \A e \in Exec : e \in Nat
    BY DEF Exec
  <2>1. /\ UNCHANGED << current, asker, issued, server, torn, callCancelled, cancelled >>
        /\ owed' = [owed EXCEPT ![h] = {e \in Exec : Latest(s, e)}]
        /\ tgt' = [tgt EXCEPT ![h] = s] /\ at' = [at EXCEPT ![h] = inFlight[s]]
        /\ pc' = [pc EXCEPT ![h] = IF inFlight[s] = None THEN "closeStream" ELSE "closeCall"]
    BY <1>14 DEF CloseLoads
  <2>2. ASSUME NEW e \in Exec, Latest(s, e), inFlight[s] # None PROVE inFlight[s] = e
    <3>1. Latest(s, inFlight[s]) /\ inFlight[s] \in Exec
      BY <2>2
    <3> QED BY <2>2, <3>1, LatestIsUnique
  <2>3. ASSUME NEW e \in Exec, Latest(s, e), inFlight[s] = None
        PROVE  Settled(e) \/ current[s] = e
    <3>1. pc[s] \notin InCall /\ e =< issued /\ asker[e] = s
      BY <2>0, <2>3
    <3>2. CASE server[e] = "new"
      BY <2>3, <3>1, <3>2
    <3>3. CASE Live(e)
      BY <2>3, <3>1, <3>3
    <3> QED BY <3>2, <3>3 DEF ServerState
  <2>4. ASSUME NEW g \in Helper, g # h, NEW e \in Exec
        PROVE  /\ pc'[g] = pc[g] /\ at'[g] = at[g] /\ tgt'[g] = tgt[g]
               /\ Latest(tgt[g], e)' = Latest(tgt[g], e) /\ Settled(e)' = Settled(e)
               /\ owed'[g] = owed[g]
    BY <2>1, <2>4
  <2>5. \A e \in owed'[h] : Latest(s, e) /\ e \in Exec /\ e =< issued
    BY <2>0, <2>1
  <2> QED BY <2>1, <2>2, <2>3, <2>4, <2>5
<1>15. ASSUME NEW h \in Helper, NEW s \in Stmt, CancelQueryMarksStream(h, s) PROVE Closing'
  BY <1>15 DEF CancelQueryMarksStream
<1>16. ASSUME NEW h \in Helper, CloseClaimsCall(h) PROVE Closing'
  BY <1>16 DEF CloseClaimsCall
<1>17. ASSUME NEW h \in Helper, CloseMissesCall(h) PROVE Closing'
  BY <1>17 DEF CloseMissesCall
<1>18. ASSUME NEW h \in Helper, CloseFindsStream(h) PROVE Closing'
  BY <1>18 DEF CloseFindsStream
<1>19. ASSUME NEW h \in Helper, CloseFindsNothing(h) PROVE Closing'
  BY <1>19 DEF CloseFindsNothing
<1>20. ASSUME NEW h \in Helper, CloseClaimsStream(h) PROVE Closing'
  BY <1>20 DEF CloseClaimsStream
<1>21. ASSUME NEW h \in Helper, CloseMissesStream(h) PROVE Closing'
  BY <1>21 DEF CloseMissesStream
<1>22. ASSUME NEW h \in Helper, CloseInner(h) PROVE Closing'
  BY <1>22 DEF CloseInner
<1>23. ASSUME NEW h \in Helper, CancelQueryMarksCall(h) PROVE Closing'
  BY <1>23 DEF CancelQueryMarksCall
<1>24. ASSUME NEW h \in Helper, CancelQuerySends(h) PROVE Closing'
  BY <1>24 DEF CancelQuerySends
<1>25. ASSUME NEW h \in Helper, CancelQueryReturns(h) PROVE Closing'
  BY <1>25 DEF CancelQueryReturns
<1>26. ASSUME NEW e \in Exec, ServerStarts(e) PROVE Closing'
  BY <1>26 DEF ServerStarts
<1>27. ASSUME NEW e \in Exec, ServerFinishes(e) PROVE Closing'
  BY <1>27 DEF ServerFinishes
<1>28. ASSUME NEW e \in Exec, RequestDropped(e) PROVE Closing'
  BY <1>28 DEF RequestDropped
<1>29. ASSUME NEW m \in Cancel, ServerHandlesCancel(m) PROVE Closing'
  <2>1. UNCHANGED << client, control, torn, owed >>
    BY <1>29 DEF ServerHandlesCancel
  <2>2. \A e \in Exec : server'[e] = IF server[e] = "running" THEN "interrupted" ELSE server[e]
    BY <1>29 DEF ServerHandlesCancel, Active
  <2> QED BY <2>1, <2>2
<1>30. ASSUME NEW m \in Cancel, CancelLost(m) PROVE Closing'
  BY <1>30 DEF CancelLost
<1>31. CASE UNCHANGED vars
  BY <1>31 DEF vars
<1> HIDE DEF TypeOK, OwnerAt, HelperAt, Fresh, Ends, CurrentIsLatest, NoSilentAbandon, Closing, Settled, Over, Live, Claimed, Held, Latest, InCall
<1> QED
  BY <1>1, <1>2, <1>3, <1>4, <1>5, <1>6, <1>7, <1>8, <1>9, <1>10, <1>11,
     <1>12, <1>13, <1>14, <1>15, <1>16, <1>17, <1>18, <1>19, <1>20, <1>21,
     <1>22, <1>23, <1>24, <1>25, <1>26, <1>27, <1>28, <1>29, <1>30, <1>31 DEF Next, Owner, Helping, Network

-----------------------------------------------------------------------------
\* The invariant behind every theorem below.
THEOREM Invariance == Spec => []IInv
<1>1. IInv /\ [Next]_vars => IInv'
  BY TypeStep, OwnerAtStep, HelperAtStep, FreshStep, FlagsStep, EndsStep,
     CurrentStep, AbandonStep, ClosingStep DEF IInv
<1> QED
  BY InitIInv, <1>1, PTL DEF Spec

\* Every variable of the cancellation state has its type in every reachable state.
THEOREM TypeCorrect == Spec => []TypeOK
<1>1. IInv => TypeOK
  BY DEF IInv
<1> QED
  BY Invariance, <1>1, PTL

\* For any number of statements, helpers and executions, the compare-and-swap of
\* callState and execState lets each implicit cancel out at most once.
THEOREM AskedOnce == Spec => []AskedAtMostOnce
<1>1. IInv => AskedAtMostOnce
  BY DEF IInv, TypeOK, FlagsBound, AskedAtMostOnce
<1> QED
  BY Invariance, <1>1, PTL

\* No interleaving of the blocking call, its stream, Release, Close and
\* CancelQuery leaves an execution on the server that nobody can cancel.
THEOREM NeverSilentlyAbandoned == Spec => []NoSilentAbandon
<1>1. IInv => NoSilentAbandon
  BY DEF IInv
<1> QED
  BY Invariance, <1>1, PTL

\* Whenever Close goes on to the inner statement, the execution it found as the
\* statement's latest is over or claimed, unless a later call has superseded it.
THEOREM CloseClaims == Spec => []ClosedIsClaimed
<1>1. IInv => ClosedIsClaimed
  BY DEF IInv, Closing, ClosedIsClaimed, Settled, Over, Live
<1> QED
  BY Invariance, <1>1, PTL

-----------------------------------------------------------------------------
(***************************************************************************)
(* A client that makes one call at a time.  Cancels and calls do not       *)
(* overlap, so a Close never meets a call in progress, and nothing happens *)
(* to a stream between the two looks at it.                                *)
(***************************************************************************)
OneAtATime ==
  \A a, b \in Agent : pc[a] # "idle" /\ pc[b] # "idle" => a = b

Undrained ==
  /\ \A s \in Stmt : pc[s] = "release" => ~exhausted[at[s]]
  /\ \A h \in Helper :
       pc[h] = "closeClaim" => ~exhausted[at[h]] /\ reader[at[h]] # "none"

CallsAreNotAsked ==
  /\ \A h \in Helper : pc[h] # "closeCall"
  /\ \A e \in Exec : callAsks[e] = 0

\* An execution nobody has heard of is neither claimed nor over.
Untouched ==
  \A e \in Exec :
    e > issued \/ (\E s \in Stmt : pc[s] = "issue" /\ at[s] = e) =>
      ~Claimed(e) /\ e \notin torn /\ ~exhausted[e]

\* The invariant of such a client.
Serial == OneAtATime /\ Undrained /\ CallsAreNotAsked /\ Untouched

LEMMA SerialStep ==
  ASSUME OneCallAtATime, IInv, Serial, [Next]_vars
  PROVE  Serial'
<1> USE ConstantsAssumption
        DEF IInv, TypeOK, OwnerAt, HelperAt, Fresh, CurrentIsLatest, Serial, OneAtATime,
            Undrained, CallsAreNotAsked, Untouched, Claimed, InCall, OwnerStep, HelperStep,
            MarkInFlight, TrackCurrent, SendCancel, AwaitCancel, Claim, MayStart, Drained,
            client, control, network, history, Goto, Agent
<1>1. ASSUME NEW s \in Stmt, BeginCall(s) PROVE Serial'
  <2>1. issued + 1 \in Exec /\ issued \in Nat /\ \A e \in Exec : e \in Nat
    BY <1>1 DEF BeginCall, Exec
  <2>2. \A a \in Agent : pc[a] = "idle"
    BY <1>1 DEF BeginCall
  <2>3. /\ UNCHANGED << callCancelled, cancelled, exhausted, torn, callAsks, reader >>
        /\ issued' = issued + 1 /\ at'[s] = issued + 1
        /\ pc' = [pc EXCEPT ![s] = "issue"]
    BY <1>1 DEF BeginCall
  <2>4. \A e \in Exec :
          e > issued' \/ (\E t \in Stmt : pc'[t] = "issue" /\ at'[t] = e) => e > issued
    BY <2>1, <2>2, <2>3
  <2>5. Untouched'
    BY <2>1, <2>3, <2>4
  <2>6. OneAtATime' /\ CallsAreNotAsked' /\ Undrained'
    BY <2>2, <2>3
  <2> QED BY <2>5, <2>6
<1>2. ASSUME NEW s \in Stmt, IssueUpdate(s) PROVE Serial'
  BY <1>2 DEF IssueUpdate
<1>3. ASSUME NEW s \in Stmt, ReturnUpdate(s) PROVE Serial'
  BY <1>3 DEF ReturnUpdate
<1>4. ASSUME NEW s \in Stmt, IssueStream(s) PROVE Serial'
  BY <1>4 DEF IssueStream
<1>5. ASSUME NEW s \in Stmt, TrackStreaming(s) PROVE Serial'
  BY <1>5 DEF TrackStreaming
<1>6. ASSUME NEW s \in Stmt, FailCall(s) PROVE Serial'
  BY <1>6 DEF FailCall
<1>7. ASSUME NEW s \in Stmt, EndCall(s) PROVE Serial'
  BY <1>7 DEF EndCall
<1>8. ASSUME NEW s \in Stmt, ReleaseClaims(s) PROVE Serial'
  BY <1>8 DEF ReleaseClaims
<1>9. ASSUME NEW s \in Stmt, ReleaseIsLate(s) PROVE Serial'
  BY <1>9 DEF ReleaseIsLate
<1>10. ASSUME NEW s \in Stmt, ReleaseInner(s) PROVE Serial'
  BY <1>10 DEF ReleaseInner
<1>11. ASSUME NEW s \in Stmt, NEW e \in Exec, NextIsLast(s, e) PROVE Serial'
  BY <1>11 DEF NextIsLast
<1>12. ASSUME NEW s \in Stmt, NEW e \in Exec, ReleaseDrained(s, e) PROVE Serial'
  BY <1>12 DEF ReleaseDrained
<1>13. ASSUME NEW s \in Stmt, NEW e \in Exec, ReleaseUndrained(s, e) PROVE Serial'
  BY <1>13 DEF ReleaseUndrained
<1>14. ASSUME NEW h \in Helper, NEW s \in Stmt, CloseLoads(h, s) PROVE Serial'
  BY <1>14 DEF CloseLoads
<1>15. ASSUME NEW h \in Helper, NEW s \in Stmt, CancelQueryMarksStream(h, s) PROVE Serial'
  BY <1>15 DEF CancelQueryMarksStream
<1>16. ASSUME NEW h \in Helper, CloseClaimsCall(h) PROVE Serial'
  BY <1>16 DEF CloseClaimsCall
<1>17. ASSUME NEW h \in Helper, CloseMissesCall(h) PROVE Serial'
  BY <1>17 DEF CloseMissesCall
<1>18. ASSUME NEW h \in Helper, CloseFindsStream(h) PROVE Serial'
  BY <1>18 DEF CloseFindsStream
<1>19. ASSUME NEW h \in Helper, CloseFindsNothing(h) PROVE Serial'
  BY <1>19 DEF CloseFindsNothing
<1>20. ASSUME NEW h \in Helper, CloseClaimsStream(h) PROVE Serial'
  BY <1>20 DEF CloseClaimsStream
<1>21. ASSUME NEW h \in Helper, CloseMissesStream(h) PROVE Serial'
  BY <1>21 DEF CloseMissesStream
<1>22. ASSUME NEW h \in Helper, CloseInner(h) PROVE Serial'
  BY <1>22 DEF CloseInner
<1>23. ASSUME NEW h \in Helper, CancelQueryMarksCall(h) PROVE Serial'
  BY <1>23 DEF CancelQueryMarksCall
<1>24. ASSUME NEW h \in Helper, CancelQuerySends(h) PROVE Serial'
  BY <1>24 DEF CancelQuerySends
<1>25. ASSUME NEW h \in Helper, CancelQueryReturns(h) PROVE Serial'
  BY <1>25 DEF CancelQueryReturns
<1>26. ASSUME NEW e \in Exec, ServerStarts(e) PROVE Serial'
  BY <1>26 DEF ServerStarts
<1>27. ASSUME NEW e \in Exec, ServerFinishes(e) PROVE Serial'
  BY <1>27 DEF ServerFinishes
<1>28. ASSUME NEW e \in Exec, RequestDropped(e) PROVE Serial'
  BY <1>28 DEF RequestDropped
<1>29. ASSUME NEW m \in Cancel, ServerHandlesCancel(m) PROVE Serial'
  <2>1. UNCHANGED << client, control, torn, callAsks >>
    BY <1>29 DEF ServerHandlesCancel
  <2> QED BY <2>1
<1>30. ASSUME NEW m \in Cancel, CancelLost(m) PROVE Serial'
  BY <1>30 DEF CancelLost
<1>31. CASE UNCHANGED vars
  BY <1>31 DEF vars
<1> HIDE DEF IInv, TypeOK, OwnerAt, HelperAt, Fresh, CurrentIsLatest, Serial, OneAtATime,
             Undrained, CallsAreNotAsked, Untouched
<1> QED
  BY <1>1, <1>2, <1>3, <1>4, <1>5, <1>6, <1>7, <1>8, <1>9, <1>10, <1>11,
     <1>12, <1>13, <1>14, <1>15, <1>16, <1>17, <1>18, <1>19, <1>20, <1>21,
     <1>22, <1>23, <1>24, <1>25, <1>26, <1>27, <1>28, <1>29, <1>30, <1>31 DEF Next, Owner, Helping, Network

LEMMA SerialInvariance == ASSUME OneCallAtATime PROVE Spec => [](IInv /\ Serial)
<1>1. Init => Serial
  BY ConstantsAssumption DEF Init, Serial, OneAtATime, Undrained, CallsAreNotAsked,
     Untouched, Claimed, Agent
<1>2. IInv /\ Serial /\ [Next]_vars => Serial'
  BY SerialStep
<1> QED
  BY <1>1, <1>2, Invariance, PTL DEF Spec

\* With one call at a time no cancel is sent for a stream that has been drained.
THEOREM DrainedCorrect == ASSUME OneCallAtATime PROVE Spec => DrainedNotAsked
<1> DEFINE Kept == \A e \in Exec : streamAsks'[e] > streamAsks[e] => ~exhausted[e]
<1>1. ASSUME IInv, Serial, Next PROVE Kept
  <2>0. \A e \in Exec : streamAsks[e] \in Nat
    BY <1>1 DEF IInv, TypeOK
  <2>1. CASE UNCHANGED streamAsks
    BY <2>0, <2>1
  <2>2. ASSUME NEW s \in Stmt, ReleaseClaims(s) PROVE Kept
    BY <1>1, <2>0, <2>2 DEF ReleaseClaims, Serial, Undrained, IInv, TypeOK
  <2>3. ASSUME NEW h \in Helper, CloseClaimsStream(h) PROVE Kept
    BY <1>1, <2>0, <2>3 DEF CloseClaimsStream, Serial, Undrained, IInv, TypeOK
  <2>4. ASSUME NEW s \in Stmt, Owner(s) PROVE Kept
    BY <2>1, <2>2, <2>4 DEF Owner, BeginCall, IssueUpdate, ReturnUpdate, IssueStream,
       TrackStreaming, FailCall, EndCall, NextIsLast, ReleaseDrained, ReleaseUndrained,
       ReleaseIsLate, ReleaseInner, history
  <2>5. ASSUME NEW h \in Helper, Helping(h) PROVE Kept
    BY <2>1, <2>3, <2>5 DEF Helping, CloseLoads, CancelQueryMarksStream, CloseClaimsCall,
       CloseMissesCall, CloseFindsStream, CloseFindsNothing, CloseMissesStream, CloseInner,
       CancelQueryMarksCall, CancelQuerySends, CancelQueryReturns, history
  <2>6. CASE Network
    BY <2>1, <2>6 DEF Network, ServerStarts, ServerFinishes, RequestDropped,
       ServerHandlesCancel, CancelLost, history
  <2> QED
    BY <1>1, <2>4, <2>5, <2>6 DEF Next
<1>2. IInv /\ Serial /\ [Next]_vars => [Kept]_vars
  BY <1>1
<1> QED
  BY <1>2, SerialInvariance, PTL DEF Spec, DrainedNotAsked

-----------------------------------------------------------------------------
(***************************************************************************)
(* A client that also releases each result before it executes again, and   *)
(* loses no cancel.  Only its latest execution can be wanted; a cancel is  *)
(* on the wire only while its sender waits, and then nothing is wanted     *)
(* unless the cancel is for anything the session runs.                     *)
(***************************************************************************)
WellBehaved == OneCallAtATime /\ OneResultAtATime /\ PromptCancels

LatestOnly ==
  /\ \A e \in Exec : reader[e] = "open" => e = issued
  /\ \A s \in Stmt : pc[s] \in InCall => at[s] = issued

ReleasedIsSettled ==
  \A e \in Exec : reader[e] = "released" => exhausted[e] \/ cancelled[e]

OneActive ==
  \A d, e \in Exec : server[d] = "running" /\ server[e] = "running" => d = e

WireIsAwaited ==
  \A m \in wire : \E a \in Agent :
    msg[a] = m /\ pc[a] \in {"drop", "closeInner", "cancelReturn"}

Addressed ==
  \A m \in wire : m.by # "user" => \A e \in Exec : ~Wanted(e)

Disciplined ==
  LatestOnly /\ ReleasedIsSettled /\ OneActive /\ WireIsAwaited /\ Addressed

\* Every step of a well-behaved client keeps the readers and the server in order.
LEMMA ReaderStep ==
  ASSUME WellBehaved, IInv, Serial, Disciplined, [Next]_vars
  PROVE  LatestOnly' /\ ReleasedIsSettled' /\ OneActive'
<1> DEFINE Goal == LatestOnly /\ ReleasedIsSettled /\ OneActive
<1> USE ConstantsAssumption
        DEF WellBehaved, IInv, TypeOK, OwnerAt, HelperAt, Serial, OneAtATime, Disciplined,
            LatestOnly, ReleasedIsSettled, OneActive, InCall, OwnerStep, HelperStep,
            MarkInFlight, TrackCurrent, SendCancel, AwaitCancel, MayStart, Drained,
            client, control, network, history, Goto, Agent
<1>1. ASSUME NEW s \in Stmt, BeginCall(s) PROVE Goal'
  <2>1. issued + 1 \in Exec /\ issued \in Nat /\ \A e \in Exec : e \in Nat
    BY <1>1 DEF BeginCall, Exec
  <2>2. \A a \in Agent : pc[a] = "idle"
    BY <1>1 DEF BeginCall
  <2>3. \A e \in Exec : reader[e] # "open"
    BY <1>1 DEF BeginCall
  <2>4. /\ UNCHANGED << reader, exhausted, cancelled, server >>
        /\ issued' = issued + 1 /\ at'[s] = issued + 1
        /\ pc' = [pc EXCEPT ![s] = "issue"]
    BY <1>1 DEF BeginCall
  <2> QED BY <2>2, <2>3, <2>4
<1>2. ASSUME NEW s \in Stmt, IssueUpdate(s) PROVE Goal'
  BY <1>2 DEF IssueUpdate
<1>3. ASSUME NEW s \in Stmt, ReturnUpdate(s) PROVE Goal'
  BY <1>3 DEF ReturnUpdate
<1>4. ASSUME NEW s \in Stmt, IssueStream(s) PROVE Goal'
  BY <1>4 DEF IssueStream
<1>5. ASSUME NEW s \in Stmt, TrackStreaming(s) PROVE Goal'
  BY <1>5 DEF TrackStreaming
<1>6. ASSUME NEW s \in Stmt, FailCall(s) PROVE Goal'
  BY <1>6 DEF FailCall
<1>7. ASSUME NEW s \in Stmt, EndCall(s) PROVE Goal'
  BY <1>7 DEF EndCall
<1>8. ASSUME NEW s \in Stmt, ReleaseClaims(s) PROVE Goal'
  BY <1>8 DEF ReleaseClaims
<1>9. ASSUME NEW s \in Stmt, ReleaseIsLate(s) PROVE Goal'
  BY <1>9 DEF ReleaseIsLate
<1>10. ASSUME NEW s \in Stmt, ReleaseInner(s) PROVE Goal'
  BY <1>10 DEF ReleaseInner
<1>11. ASSUME NEW s \in Stmt, NEW e \in Exec, NextIsLast(s, e) PROVE Goal'
  BY <1>11 DEF NextIsLast
<1>12. ASSUME NEW s \in Stmt, NEW e \in Exec, ReleaseDrained(s, e) PROVE Goal'
  BY <1>12 DEF ReleaseDrained
<1>13. ASSUME NEW s \in Stmt, NEW e \in Exec, ReleaseUndrained(s, e) PROVE Goal'
  BY <1>13 DEF ReleaseUndrained
<1>14. ASSUME NEW h \in Helper, NEW s \in Stmt, CloseLoads(h, s) PROVE Goal'
  BY <1>14 DEF CloseLoads
<1>15. ASSUME NEW h \in Helper, NEW s \in Stmt, CancelQueryMarksStream(h, s) PROVE Goal'
  BY <1>15 DEF CancelQueryMarksStream
<1>16. ASSUME NEW h \in Helper, CloseClaimsCall(h) PROVE Goal'
  BY <1>16 DEF CloseClaimsCall
<1>17. ASSUME NEW h \in Helper, CloseMissesCall(h) PROVE Goal'
  BY <1>17 DEF CloseMissesCall
<1>18. ASSUME NEW h \in Helper, CloseFindsStream(h) PROVE Goal'
  BY <1>18 DEF CloseFindsStream
<1>19. ASSUME NEW h \in Helper, CloseFindsNothing(h) PROVE Goal'
  BY <1>19 DEF CloseFindsNothing
<1>20. ASSUME NEW h \in Helper, CloseClaimsStream(h) PROVE Goal'
  BY <1>20 DEF CloseClaimsStream
<1>21. ASSUME NEW h \in Helper, CloseMissesStream(h) PROVE Goal'
  BY <1>21 DEF CloseMissesStream
<1>22. ASSUME NEW h \in Helper, CloseInner(h) PROVE Goal'
  BY <1>22 DEF CloseInner
<1>23. ASSUME NEW h \in Helper, CancelQueryMarksCall(h) PROVE Goal'
  BY <1>23 DEF CancelQueryMarksCall
<1>24. ASSUME NEW h \in Helper, CancelQuerySends(h) PROVE Goal'
  BY <1>24 DEF CancelQuerySends
<1>25. ASSUME NEW h \in Helper, CancelQueryReturns(h) PROVE Goal'
  BY <1>25 DEF CancelQueryReturns
<1>26. ASSUME NEW e \in Exec, ServerStarts(e) PROVE Goal'
  <2>1. \A d \in Exec : server[d] # "running"
    BY <1>26 DEF ServerStarts, Active
  <2>2. server' = [server EXCEPT ![e] = "running"] /\ UNCHANGED << client, control >>
    BY <1>26 DEF ServerStarts
  <2> QED BY <2>1, <2>2
<1>27. ASSUME NEW e \in Exec, ServerFinishes(e) PROVE Goal'
  BY <1>27 DEF ServerFinishes
<1>28. ASSUME NEW e \in Exec, RequestDropped(e) PROVE Goal'
  BY <1>28 DEF RequestDropped
<1>29. ASSUME NEW m \in Cancel, ServerHandlesCancel(m) PROVE Goal'
  <2>1. UNCHANGED << client, control >>
    BY <1>29 DEF ServerHandlesCancel
  <2>2. \A e \in Exec : server'[e] = "running" => server[e] = "running"
    BY <1>29 DEF ServerHandlesCancel, Active
  <2> QED BY <2>1, <2>2
<1>30. ASSUME NEW m \in Cancel, CancelLost(m) PROVE Goal'
  BY <1>30 DEF CancelLost
<1>31. CASE UNCHANGED vars
  BY <1>31 DEF vars
<1> HIDE DEF IInv, TypeOK, OwnerAt, HelperAt, Serial, OneAtATime, Disciplined, LatestOnly,
             ReleasedIsSettled, OneActive
<1> QED
  BY <1>1, <1>2, <1>3, <1>4, <1>5, <1>6, <1>7, <1>8, <1>9, <1>10, <1>11,
     <1>12, <1>13, <1>14, <1>15, <1>16, <1>17, <1>18, <1>19, <1>20, <1>21,
     <1>22, <1>23, <1>24, <1>25, <1>26, <1>27, <1>28, <1>29, <1>30, <1>31 DEF Next, Owner, Helping, Network

\* What a well-behaved client still wants is its latest execution.
LEMMA WantedIsIssued ==
  ASSUME IInv, Disciplined, NEW e \in Exec, Wanted(e)
  PROVE  e = issued
BY DEF IInv, OwnerAt, NoSilentAbandon, Held, Disciplined, LatestOnly, InCall, Wanted

\* Nothing is on the wire when a goroutine takes a step.
LEMMA NoCancelOnWire ==
  ASSUME WellBehaved, Serial, Disciplined, NEW a \in Agent,
         \/ MayStart(a)
         \/ pc[a] \notin {"idle", "drop", "closeInner", "cancelReturn"}
         \/ pc[a] # "idle" /\ Answered(a)
  PROVE  wire = {}
BY DEF WellBehaved, Serial, OneAtATime, Disciplined, WireIsAwaited, MayStart, Answered

\* Every step of a well-behaved client keeps the wire in order.
LEMMA WireStep ==
  ASSUME WellBehaved, IInv, Serial, Disciplined, [Next]_vars
  PROVE  WireIsAwaited' /\ Addressed'
<1> DEFINE Goal == WireIsAwaited /\ Addressed
<1>0. /\ \A a \in Agent : MayStart(a) => wire = {}
      /\ \A a \in Agent : pc[a] \notin {"idle", "drop", "closeInner", "cancelReturn"} => wire = {}
      /\ \A a \in Agent : pc[a] # "idle" /\ Answered(a) => wire = {}
  BY NoCancelOnWire
<1> USE <1>0 DEF SendCancel, AwaitCancel, Claim, Agent, client, control, network, history, Goto,
        IInv, TypeOK, OwnerAt, HelperAt, WireIsAwaited, Addressed, Disciplined, OwnerStep
<1>1. ASSUME NEW s \in Stmt, BeginCall(s) PROVE Goal'
  BY <1>1 DEF BeginCall
<1>2. ASSUME NEW s \in Stmt, IssueUpdate(s) PROVE Goal'
  BY <1>2 DEF IssueUpdate
<1>3. ASSUME NEW s \in Stmt, ReturnUpdate(s) PROVE Goal'
  BY <1>3 DEF ReturnUpdate
<1>4. ASSUME NEW s \in Stmt, IssueStream(s) PROVE Goal'
  BY <1>4 DEF IssueStream
<1>5. ASSUME NEW s \in Stmt, TrackStreaming(s) PROVE Goal'
  BY <1>5 DEF TrackStreaming
<1>6. ASSUME NEW s \in Stmt, FailCall(s) PROVE Goal'
  BY <1>6 DEF FailCall
<1>7. ASSUME NEW s \in Stmt, EndCall(s) PROVE Goal'
  BY <1>7 DEF EndCall
<1>8. ASSUME NEW s \in Stmt, ReleaseClaims(s) PROVE Goal'
  <2>1. wire = {}
    BY <1>8 DEF ReleaseClaims
  <2>2. reader[at[s]] = "open" /\ at[s] \in Exec
    BY <1>8 DEF ReleaseClaims, Serial, Undrained, ReleasedIsSettled
  <2>3. /\ cancelled' = [cancelled EXCEPT ![at[s]] = TRUE]
        /\ UNCHANGED << callCancelled, exhausted, torn, server >>
    BY <1>8 DEF ReleaseClaims
  <2>4. \A e \in Exec : ~Wanted(e)'
    <3>1. \A e \in Exec : Wanted(e)' => Wanted(e) /\ e # at[s]
      BY <2>2, <2>3 DEF Wanted, Live, Claimed
    <3> QED BY <2>2, <3>1, WantedIsIssued DEF LatestOnly, Disciplined
  <2>5. wire' = {[by |-> "stream", n |-> at[s]]} /\ msg'[s] = [by |-> "stream", n |-> at[s]]
        /\ pc'[s] \in {"drop", "closeInner"}
    BY <1>8, <2>1 DEF ReleaseClaims
  <2> QED BY <2>4, <2>5 DEF WireIsAwaited, Addressed
<1>9. ASSUME NEW s \in Stmt, ReleaseIsLate(s) PROVE Goal'
  BY <1>9 DEF ReleaseIsLate
<1>10. ASSUME NEW s \in Stmt, ReleaseInner(s) PROVE Goal'
  BY <1>10 DEF ReleaseInner
<1>11. ASSUME NEW s \in Stmt, NEW e \in Exec, NextIsLast(s, e) PROVE Goal'
  BY <1>11 DEF NextIsLast
<1>12. ASSUME NEW s \in Stmt, NEW e \in Exec, ReleaseDrained(s, e) PROVE Goal'
  BY <1>12 DEF ReleaseDrained
<1>13. ASSUME NEW s \in Stmt, NEW e \in Exec, ReleaseUndrained(s, e) PROVE Goal'
  BY <1>13 DEF ReleaseUndrained
<1>14. ASSUME NEW h \in Helper, NEW s \in Stmt, CloseLoads(h, s) PROVE Goal'
  BY <1>14 DEF CloseLoads
<1>15. ASSUME NEW h \in Helper, NEW s \in Stmt, CancelQueryMarksStream(h, s) PROVE Goal'
  BY <1>15 DEF CancelQueryMarksStream
<1>16. ASSUME NEW h \in Helper, CloseClaimsCall(h) PROVE Goal'
  BY <1>16 DEF CloseClaimsCall, Serial, CallsAreNotAsked
<1>17. ASSUME NEW h \in Helper, CloseMissesCall(h) PROVE Goal'
  BY <1>17 DEF CloseMissesCall
<1>18. ASSUME NEW h \in Helper, CloseFindsStream(h) PROVE Goal'
  BY <1>18 DEF CloseFindsStream
<1>19. ASSUME NEW h \in Helper, CloseFindsNothing(h) PROVE Goal'
  BY <1>19 DEF CloseFindsNothing
<1>20. ASSUME NEW h \in Helper, CloseClaimsStream(h) PROVE Goal'
  <2>1. wire = {}
    BY <1>20 DEF CloseClaimsStream
  <2>2. reader[at[h]] = "open" /\ at[h] \in Exec
    BY <1>20 DEF CloseClaimsStream, Serial, Undrained, ReleasedIsSettled
  <2>3. /\ cancelled' = [cancelled EXCEPT ![at[h]] = TRUE]
        /\ UNCHANGED << callCancelled, exhausted, torn, server >>
    BY <1>20 DEF CloseClaimsStream
  <2>4. \A e \in Exec : ~Wanted(e)'
    <3>1. \A e \in Exec : Wanted(e)' => Wanted(e) /\ e # at[h]
      BY <2>2, <2>3 DEF Wanted, Live, Claimed
    <3> QED BY <2>2, <3>1, WantedIsIssued DEF LatestOnly, Disciplined
  <2>5. wire' = {[by |-> "stream", n |-> at[h]]} /\ msg'[h] = [by |-> "stream", n |-> at[h]]
        /\ pc'[h] \in {"drop", "closeInner"}
    BY <1>20, <2>1 DEF CloseClaimsStream
  <2> QED BY <2>4, <2>5 DEF WireIsAwaited, Addressed
<1>21. ASSUME NEW h \in Helper, CloseMissesStream(h) PROVE Goal'
  BY <1>21 DEF CloseMissesStream
<1>22. ASSUME NEW h \in Helper, CloseInner(h) PROVE Goal'
  BY <1>22 DEF CloseInner
<1>23. ASSUME NEW h \in Helper, CancelQueryMarksCall(h) PROVE Goal'
  BY <1>23 DEF CancelQueryMarksCall
<1>24. ASSUME NEW h \in Helper, CancelQuerySends(h) PROVE Goal'
  <2>1. wire = {}
    BY <1>24 DEF CancelQuerySends
  <2>2. wire' = {[by |-> "user", n |-> at[h]]} /\ msg'[h] = [by |-> "user", n |-> at[h]]
        /\ pc'[h] = "cancelReturn"
    BY <1>24, <2>1 DEF CancelQuerySends
  <2> QED BY <2>2 DEF WireIsAwaited, Addressed
<1>25. ASSUME NEW h \in Helper, CancelQueryReturns(h) PROVE Goal'
  BY <1>25 DEF CancelQueryReturns
<1>26. ASSUME NEW e \in Exec, ServerStarts(e) PROVE Goal'
  BY <1>26 DEF ServerStarts, WireIsAwaited, Addressed, Wanted, Live, Claimed, Disciplined
<1>27. ASSUME NEW e \in Exec, ServerFinishes(e) PROVE Goal'
  BY <1>27 DEF ServerFinishes, WireIsAwaited, Addressed, Wanted, Live, Claimed, Disciplined
<1>28. ASSUME NEW e \in Exec, RequestDropped(e) PROVE Goal'
  BY <1>28 DEF RequestDropped, WireIsAwaited, Addressed, Wanted, Live, Claimed, Disciplined
<1>29. ASSUME NEW m \in Cancel, ServerHandlesCancel(m) PROVE Goal'
  <2>1. wire' \subseteq wire /\ UNCHANGED << client, control, torn >>
    BY <1>29 DEF ServerHandlesCancel
  <2>2. \A e \in Exec : Live(e)' => Live(e)
    BY <1>29 DEF ServerHandlesCancel, Active, Live
  <2> QED BY <2>1, <2>2 DEF WireIsAwaited, Addressed, Wanted, Claimed, Disciplined
<1>30. ASSUME NEW m \in Cancel, CancelLost(m) PROVE Goal'
  BY <1>30 DEF CancelLost, WellBehaved
<1>31. CASE UNCHANGED vars
  BY <1>31 DEF vars, Wanted, Live, Claimed
<1> HIDE DEF IInv, TypeOK, OwnerAt, HelperAt, Disciplined, WireIsAwaited, Addressed
<1> QED
  BY <1>1, <1>2, <1>3, <1>4, <1>5, <1>6, <1>7, <1>8, <1>9, <1>10, <1>11,
     <1>12, <1>13, <1>14, <1>15, <1>16, <1>17, <1>18, <1>19, <1>20, <1>21,
     <1>22, <1>23, <1>24, <1>25, <1>26, <1>27, <1>28, <1>29, <1>30, <1>31 DEF Next, Owner, Helping, Network

LEMMA DisciplinedInvariance ==
  ASSUME WellBehaved PROVE Spec => [](IInv /\ Serial /\ Disciplined)
<1>1. Init => Disciplined
  BY ConstantsAssumption DEF Init, Disciplined, LatestOnly, ReleasedIsSettled, OneActive,
     WireIsAwaited, Addressed, InCall, Agent
<1>2. IInv /\ Serial /\ Disciplined /\ [Next]_vars => Disciplined'
  BY ReaderStep, WireStep DEF Disciplined
<1>3. Spec => [](IInv /\ Serial)
  BY SerialInvariance DEF WellBehaved
<1> QED
  BY <1>1, <1>2, <1>3, PTL DEF Spec

-----------------------------------------------------------------------------
(***************************************************************************)
(* The refinement of CancelContract: what a step does to the mapped state. *)
(***************************************************************************)
LEMMA CountsOne ==
  ASSUME NEW W, NEW m
  PROVE  /\ W = {} => Cardinality({n \in W : n.by = "user"}) = 0
         /\ W = {m} => Cardinality({n \in W : n.by = "user"}) = IF m.by = "user" THEN 1 ELSE 0
<1>1. W = {} => {n \in W : n.by = "user"} = {}
  OBVIOUS
<1>2. W = {m} => {n \in W : n.by = "user"} = IF m.by = "user" THEN {m} ELSE {}
  OBVIOUS
<1> QED BY <1>1, <1>2, FS_EmptySet, FS_Singleton

LEMMA CancelIsAlone ==
  ASSUME Serial, Disciplined, NEW m \in wire
  PROVE  wire = {m}
BY DEF Serial, OneAtATime, Disciplined, WireIsAwaited

LEMMA SameExecutions ==
  ASSUME UNCHANGED << server, callCancelled, cancelled, exhausted, torn >>
  PROVE  Life' = Life /\ Wants' = Wants
BY DEF Life, Wants, Wanted, Live, Claimed

LEMMA Stutters ==
  ASSUME UNCHANGED << server, callCancelled, cancelled, exhausted, torn, wire >>
  PROVE  UNCHANGED Contract!vars
BY SameExecutions DEF Contract!vars, Explicit

LEMMA Submits ==
  ASSUME IInv, NEW e \in Exec, server[e] = "new", ~Claimed(e), e \notin torn, ~exhausted[e],
         server' = [server EXCEPT ![e] = "posted"], UNCHANGED << client, torn, wire >>
  PROVE  Contract!Next
<1>1. Life[e] = "new" /\ Life' = [Life EXCEPT ![e] = "live"]
  BY DEF Life, Live, IInv, TypeOK
<1>2. \A d \in Exec : Wanted(d)' = (Wanted(d) \/ d = e)
  BY DEF Wanted, Live, Claimed, client, IInv, TypeOK
<1>3. Wants' = Wants \cup {e} /\ Explicit' = Explicit
  BY <1>2 DEF Wants, Explicit
<1> QED BY <1>1, <1>3 DEF Contract!Submit, Contract!Next

LEMMA Forsakes ==
  ASSUME UNCHANGED << server, Explicit >>, NEW e \in Exec, ~Wanted(e)',
         \A d \in Exec \ {e} : Wanted(d)' = Wanted(d)
  PROVE  Contract!Next \/ UNCHANGED Contract!vars
<1>1. Life' = Life /\ Wants' = Wants \ {e}
  BY DEF Life, Live, Wants
<1>2. CASE e \in Wants
  BY <1>1, <1>2 DEF Contract!Forsake, Contract!Next
<1>3. CASE e \notin Wants
  BY <1>1, <1>3 DEF Contract!vars
<1> QED BY <1>2, <1>3

LEMMA Finishes ==
  ASSUME IInv, NEW e \in Exec, Live(e), NEW how \in {"finished", "interrupted", "dropped"},
         server' = [server EXCEPT ![e] = how], UNCHANGED << client, torn >>
  PROVE  Contract!End(e, how)
<1>1. Life[e] = "live" /\ Life' = [Life EXCEPT ![e] = how]
  BY DEF Life, Live, IInv, TypeOK
<1>2. \A d \in Exec : Wanted(d)' = (Wanted(d) /\ d # e)
  BY DEF Wanted, Live, Claimed, client, IInv, TypeOK
<1>3. Wants' = Wants \ {e}
  BY <1>2 DEF Wants
<1> QED BY <1>1, <1>3 DEF Contract!End

\* A cancel of the stream kind does not count as explicit.
LEMMA ImplicitIsNotCounted ==
  ASSUME NEW m, m.by # "user", wire' = wire \cup {m}
  PROVE  Explicit' = Explicit
BY DEF Explicit

LEMMA StepRefines ==
  ASSUME WellBehaved, IInv, Serial, Disciplined, [Next]_vars
  PROVE  Contract!Next \/ UNCHANGED Contract!vars
<1> DEFINE Goal == Contract!Next \/ UNCHANGED Contract!vars
<1> USE ImplicitIsNotCounted
        DEF SendCancel, AwaitCancel, MarkInFlight, TrackCurrent, client, control, network, history
<1>1. ASSUME NEW s \in Stmt, BeginCall(s) PROVE Goal
  BY <1>1, Stutters DEF BeginCall
<1>2. ASSUME NEW s \in Stmt, IssueUpdate(s) PROVE Goal
  <2>1. /\ at[s] \in Exec /\ server[at[s]] = "new"
        /\ server' = [server EXCEPT ![at[s]] = "posted"]
        /\ UNCHANGED << client, torn, wire >>
    BY <1>2 DEF IssueUpdate, IInv, OwnerAt
  <2>2. ~Claimed(at[s]) /\ at[s] \notin torn /\ ~exhausted[at[s]]
    BY <1>2 DEF IssueUpdate, Serial, Untouched, IInv, OwnerAt
  <2> QED BY <2>1, <2>2, Submits
<1>3. ASSUME NEW s \in Stmt, ReturnUpdate(s) PROVE Goal
  BY <1>3, Stutters DEF ReturnUpdate
<1>4. ASSUME NEW s \in Stmt, IssueStream(s) PROVE Goal
  <2>1. /\ at[s] \in Exec /\ server[at[s]] = "new"
        /\ server' = [server EXCEPT ![at[s]] = "posted"]
        /\ UNCHANGED << client, torn, wire >>
    BY <1>4 DEF IssueStream, IInv, OwnerAt
  <2>2. ~Claimed(at[s]) /\ at[s] \notin torn /\ ~exhausted[at[s]]
    BY <1>4 DEF IssueStream, Serial, Untouched, IInv, OwnerAt
  <2> QED BY <2>1, <2>2, Submits
<1>5. ASSUME NEW s \in Stmt, TrackStreaming(s) PROVE Goal
  BY <1>5, Stutters DEF TrackStreaming
<1>6. ASSUME NEW s \in Stmt, FailCall(s) PROVE Goal
  <2> PICK d \in Exec : d = at[s]
    BY <1>6 DEF FailCall, IInv, OwnerAt, HelperAt
  <2>1. UNCHANGED << server, Explicit >>
    BY <1>6 DEF FailCall, Explicit
  <2>2. \A c \in Exec \ {d} : Wanted(c)' = Wanted(c)
    BY <1>6 DEF FailCall, Wanted, Live, Claimed
  <2>3. ~Wanted(d)'
    BY <1>6 DEF FailCall, Wanted, Live, Claimed, IInv, TypeOK
  <2> QED BY <2>1, <2>2, <2>3, Forsakes
<1>7. ASSUME NEW s \in Stmt, EndCall(s) PROVE Goal
  BY <1>7, Stutters DEF EndCall
<1>8. ASSUME NEW s \in Stmt, ReleaseClaims(s) PROVE Goal
  <2> PICK d \in Exec : d = at[s]
    BY <1>8 DEF ReleaseClaims, IInv, OwnerAt, HelperAt
  <2>1. UNCHANGED << server, Explicit >>
    BY <1>8 DEF ReleaseClaims, Explicit
  <2>2. \A c \in Exec \ {d} : Wanted(c)' = Wanted(c)
    BY <1>8 DEF ReleaseClaims, Wanted, Live, Claimed
  <2>3. ~Wanted(d)'
    BY <1>8 DEF ReleaseClaims, Wanted, Live, Claimed, IInv, TypeOK
  <2> QED BY <2>1, <2>2, <2>3, Forsakes
<1>9. ASSUME NEW s \in Stmt, ReleaseIsLate(s) PROVE Goal
  BY <1>9, Stutters DEF ReleaseIsLate
<1>10. ASSUME NEW s \in Stmt, ReleaseInner(s) PROVE Goal
  BY <1>10, Stutters DEF ReleaseInner
<1>11. ASSUME NEW s \in Stmt, NEW e \in Exec, NextIsLast(s, e) PROVE Goal
  <2> PICK d \in Exec : d = e
    BY <1>11 DEF NextIsLast, IInv, OwnerAt, HelperAt
  <2>1. UNCHANGED << server, Explicit >>
    BY <1>11 DEF NextIsLast, Explicit
  <2>2. \A c \in Exec \ {d} : Wanted(c)' = Wanted(c)
    BY <1>11 DEF NextIsLast, Wanted, Live, Claimed
  <2>3. ~Wanted(d)'
    BY <1>11 DEF NextIsLast, Wanted, Live, Claimed, IInv, TypeOK
  <2> QED BY <2>1, <2>2, <2>3, Forsakes
<1>12. ASSUME NEW s \in Stmt, NEW e \in Exec, ReleaseDrained(s, e) PROVE Goal
  BY <1>12, Stutters DEF ReleaseDrained
<1>13. ASSUME NEW s \in Stmt, NEW e \in Exec, ReleaseUndrained(s, e) PROVE Goal
  BY <1>13, Stutters DEF ReleaseUndrained
<1>14. ASSUME NEW h \in Helper, NEW s \in Stmt, CloseLoads(h, s) PROVE Goal
  BY <1>14, Stutters DEF CloseLoads
<1>15. ASSUME NEW h \in Helper, NEW s \in Stmt, CancelQueryMarksStream(h, s) PROVE Goal
  <2>0. UNCHANGED << server, Explicit >>
    BY <1>15 DEF CancelQueryMarksStream, Explicit
  <2>1. CASE current[s] = None
    <3>1. cancelled' = cancelled
      BY <1>15, <2>1, ConstantsAssumption DEF CancelQueryMarksStream, IInv, TypeOK
    <3> QED BY <1>15, <3>1, Stutters DEF CancelQueryMarksStream
  <2>2. CASE current[s] # None
    <3> PICK e \in Exec : e = current[s]
      BY <2>2 DEF IInv, TypeOK
    <3>1. \A d \in Exec : cancelled'[d] = (cancelled[d] \/ d = e)
      BY <1>15 DEF CancelQueryMarksStream
    <3>2. ~Wanted(e)' /\ \A d \in Exec \ {e} : Wanted(d)' = Wanted(d)
      BY <1>15, <3>1 DEF CancelQueryMarksStream, Wanted, Live, Claimed
    <3> QED BY <2>0, <3>2, Forsakes
  <2> QED BY <2>1, <2>2
<1>16. ASSUME NEW h \in Helper, CloseClaimsCall(h) PROVE Goal
  BY <1>16 DEF CloseClaimsCall, Serial, CallsAreNotAsked
<1>17. ASSUME NEW h \in Helper, CloseMissesCall(h) PROVE Goal
  BY <1>17, Stutters DEF CloseMissesCall
<1>18. ASSUME NEW h \in Helper, CloseFindsStream(h) PROVE Goal
  BY <1>18, Stutters DEF CloseFindsStream
<1>19. ASSUME NEW h \in Helper, CloseFindsNothing(h) PROVE Goal
  BY <1>19, Stutters DEF CloseFindsNothing
<1>20. ASSUME NEW h \in Helper, CloseClaimsStream(h) PROVE Goal
  <2> PICK d \in Exec : d = at[h]
    BY <1>20 DEF CloseClaimsStream, IInv, OwnerAt, HelperAt
  <2>1. UNCHANGED << server, Explicit >>
    BY <1>20 DEF CloseClaimsStream, Explicit
  <2>2. \A c \in Exec \ {d} : Wanted(c)' = Wanted(c)
    BY <1>20 DEF CloseClaimsStream, Wanted, Live, Claimed
  <2>3. ~Wanted(d)'
    BY <1>20 DEF CloseClaimsStream, Wanted, Live, Claimed, IInv, TypeOK
  <2> QED BY <2>1, <2>2, <2>3, Forsakes
<1>21. ASSUME NEW h \in Helper, CloseMissesStream(h) PROVE Goal
  BY <1>21, Stutters DEF CloseMissesStream
<1>22. ASSUME NEW h \in Helper, CloseInner(h) PROVE Goal
  BY <1>22, Stutters DEF CloseInner
<1>23. ASSUME NEW h \in Helper, CancelQueryMarksCall(h) PROVE Goal
  <2>1. tgt[h] \in Stmt /\ pc[tgt[h]] = "idle"
    BY <1>23, ConstantsAssumption DEF CancelQueryMarksCall, IInv, HelperAt, Serial, OneAtATime, Agent
  <2>2. inFlight[tgt[h]] = None
    BY <2>1 DEF IInv, OwnerAt, InCall
  <2>3. callCancelled' = callCancelled
    BY <1>23, <2>2, ConstantsAssumption DEF CancelQueryMarksCall, IInv, TypeOK
  <2> QED BY <1>23, <2>3, Stutters DEF CancelQueryMarksCall
<1>24. ASSUME NEW h \in Helper, CancelQuerySends(h) PROVE Goal
  <2>1. wire = {}
    BY <1>24, NoCancelOnWire DEF CancelQuerySends, Agent
  <2>2. wire' = {[by |-> "user", n |-> at[h]]}
    BY <1>24, <2>1 DEF CancelQuerySends
  <2>3. Explicit = 0
    BY <2>1, CountsOne DEF Explicit
  <2>4. Explicit' = 1
    <3>1. PICK m \in wire' : wire' = {m} /\ m.by = "user"
      BY <2>2
    <3> QED BY <3>1, CountsOne DEF Explicit
  <2>5. UNCHANGED << server, client, torn >>
    BY <1>24 DEF CancelQuerySends
  <2>6. Life' = Life /\ Wants' = Wants
    BY <2>5, SameExecutions
  <2> QED BY <2>3, <2>4, <2>6 DEF Contract!AskForAny, Contract!Next
<1>25. ASSUME NEW h \in Helper, CancelQueryReturns(h) PROVE Goal
  BY <1>25, Stutters DEF CancelQueryReturns
<1>26. ASSUME NEW e \in Exec, ServerStarts(e) PROVE Goal
  <2>1. /\ server[e] = "posted" /\ server' = [server EXCEPT ![e] = "running"]
        /\ UNCHANGED << client, torn, wire >>
    BY <1>26 DEF ServerStarts
  <2>2. \A d \in Exec : /\ Live(d)' = Live(d) /\ Wanted(d)' = Wanted(d)
                        /\ ~Live(d) => server'[d] = server[d]
    BY <2>1 DEF Live, Wanted, Claimed, IInv, TypeOK
  <2>3. Life' = Life /\ Wants' = Wants /\ Explicit' = Explicit
    BY <2>1, <2>2 DEF Life, Wants, Explicit
  <2> QED BY <2>3 DEF Contract!vars
<1>27. ASSUME NEW e \in Exec, ServerFinishes(e) PROVE Goal
  <2>1. Contract!End(e, "finished") /\ Explicit' = Explicit
    BY <1>27, Finishes DEF ServerFinishes, Live, Explicit
  <2> QED BY <2>1 DEF Contract!Finish, Contract!Next
<1>28. ASSUME NEW e \in Exec, RequestDropped(e) PROVE Goal
  <2>1. Contract!End(e, "dropped") /\ Explicit' = Explicit
    BY <1>28, Finishes DEF RequestDropped, Live, Explicit
  <2>2. e \notin Wants
    BY <1>28 DEF RequestDropped, Wants, Wanted, Claimed, Disciplined, ReleasedIsSettled, IInv, TypeOK
  <2> QED BY <2>1, <2>2 DEF Contract!Drop, Contract!Next
<1>29. ASSUME NEW m \in Cancel, ServerHandlesCancel(m) PROVE Goal
  <2>1. wire = {m} /\ wire' = {}
    BY <1>29, CancelIsAlone DEF ServerHandlesCancel
  <2>2. Explicit = (IF m.by = "user" THEN 1 ELSE 0) /\ Explicit' = 0
    BY <2>1, CountsOne DEF Explicit
  <2>3. UNCHANGED << client, torn >>
    BY <1>29 DEF ServerHandlesCancel
  <2>4. CASE Active = {}
    <3>1. UNCHANGED server
      BY <1>29, <2>4 DEF ServerHandlesCancel, IInv, TypeOK
    <3>2. Life' = Life /\ Wants' = Wants
      BY <2>3, <3>1, SameExecutions
    <3> QED BY <2>2, <3>2 DEF Contract!AnyMisses, Contract!Next, Contract!vars
  <2>5. ASSUME NEW e \in Exec, server[e] = "running" PROVE Contract!Next
    <3>1. \A d \in Exec : d \in Active <=> d = e
      BY <2>5 DEF Active, Disciplined, OneActive
    <3>2. server' = [server EXCEPT ![e] = "interrupted"]
      BY <1>29, <3>1 DEF ServerHandlesCancel, IInv, TypeOK
    <3>3. Contract!End(e, "interrupted")
      BY <2>3, <2>5, <3>2, Finishes DEF Live
    <3>4. CASE m.by = "user"
      BY <2>2, <3>3, <3>4 DEF Contract!AnyInterrupts, Contract!Next
    <3>5. CASE m.by # "user"
      <4>1. e \notin Wants
        BY <2>1, <3>5 DEF Wants, Disciplined, Addressed
      <4> QED BY <2>2, <3>3, <3>5, <4>1 DEF Contract!Interrupt, Contract!Next
    <3> QED BY <3>4, <3>5
  <2> QED BY <2>4, <2>5 DEF Active
<1>30. ASSUME NEW m \in Cancel, CancelLost(m) PROVE Goal
  BY <1>30 DEF CancelLost, WellBehaved
<1>31. CASE UNCHANGED vars
  BY <1>31, Stutters DEF vars
<1> QED
  BY <1>1, <1>2, <1>3, <1>4, <1>5, <1>6, <1>7, <1>8, <1>9, <1>10, <1>11,
     <1>12, <1>13, <1>14, <1>15, <1>16, <1>17, <1>18, <1>19, <1>20, <1>21,
     <1>22, <1>23, <1>24, <1>25, <1>26, <1>27, <1>28, <1>29, <1>30, <1>31 DEF Next, Owner, Helping, Network

\* For any number of statements, goroutines and executions, a well-behaved client
\* sees the mechanism of cancel.go keep what CancelContract promises: only an
\* execution nobody wants is interrupted, except by an explicit CancelQuery.
THEOREM Implements == ASSUME WellBehaved PROVE Spec => ImplementsContract
<1>1. Init => Contract!Init
  BY CountsOne DEF Init, Contract!Init, Explicit, Life, Wants, Wanted, Live
<1>2. IInv /\ Serial /\ Disciplined /\ [Next]_vars => [Contract!Next]_(Contract!vars)
  BY StepRefines
<1> QED
  BY <1>1, <1>2, DisciplinedInvariance, PTL DEF Spec, ImplementsContract, Contract!Spec
=============================================================================
