------------------------- MODULE GeoIngest_proofs -------------------------
(***************************************************************************)
(* Proofs about GeoIngest, for any columns.  A context that ends and a     *)
(* connection that breaks leave a statement running on the server after    *)
(* the driver has given it up, so the invariant says what a statement      *)
(* would do to the target for as long as the server may run it, not only   *)
(* while somebody waits for it.                                            *)
(***************************************************************************)
EXTENDS GeoIngest, FiniteSetTheorems, TLAPS

Working == {"ingest", "inspect", "alter", "materialize"}

TargetKind == {"create", "create empty", "append", "replace"}

\* The driver decides on the verdict when it leaves the working stages.
VerdictFollows ==
  /\ verdict = "none" <=> pc \in Working
  /\ pc = "abandoned" => verdict = "error"
  /\ Ended => call = "none"

\* The statement that runs is the one the driver waits for, or one it has given
\* up: then the driver is on its way to an error, or dropping.
RunningFollows ==
  /\ call = "sent" => /\ running # None /\ ctx = "live"
                      /\ running.kind = pc \/ (pc = "materialize" /\ running.kind \in TargetKind)
  /\ call = "ok" => running = None
  /\ running # None /\ running.kind = "drop" => verdict # "none"
  /\ running # None /\ running.kind # "drop" /\ call # "sent"
       => verdict = "error" \/ (call = "failed" /\ pc \in Working)

\* The target once create_append has made sure that it is there.
Made == IF before.exists THEN before ELSE Table(<< >>, {})

\* A statement on the target finds it as the mode expects it, and the interim
\* table without BLOB columns.
TargetIsReady ==
  running # None /\ running.kind \in TargetKind =>
    /\ interim.blob = {}
    /\ \/ running.kind = mode /\ target = before
       \/ mode = "create_append" /\ running.kind = "create empty" /\ target = before
       \/ mode = "create_append" /\ running.kind = "append" /\ target = Made

\* What the statements still to send find, and what they leave when none is left.
Remains ==
  \/ stmts = Materialize(mode) /\ target = before
  \/ mode = "create_append" /\ stmts = << "append" >> /\ target = Made
  \/ stmts = << >> /\ target = Table(RowsWanted, {})

\* A statement on its way is the first of those that remained.
RemainsAfter ==
  \/ stmts = << >> /\ (running.kind = mode \/ running.kind = "append")
  \/ mode = "create_append" /\ stmts = << "append" >> /\ running.kind = "create empty"

\* The work that is left, stage by stage, while nothing has failed.
WorkIsLeft ==
  verdict = "none" /\ call # "failed" =>
    /\ pc \in {"ingest", "inspect"} => target = before
    /\ pc = "alter" =>
         /\ target = before /\ stmts = Materialize(mode)
         /\ call = "none" => todo # {}
         /\ interim.blob \subseteq todo \cup (IF call = "sent" THEN {running.column} ELSE {})
    /\ pc = "materialize" =>
         /\ interim.blob = {} /\ todo = {}
         /\ call # "sent" => Remains
         /\ call = "none" => stmts # << >>
         /\ call = "sent" => RemainsAfter

\* A DROP that succeeded has left no table.
DropFollows == pc = "drop" /\ call = "ok" => interim = NoTable

\* An interrupted ingest is on its way to an error and sends nothing but a DROP.
InterruptedFails ==
  Interrupted =>
    /\ verdict = "error" \/ (call = "failed" /\ pc \in Working)
    /\ running # None => running.kind = "drop"

BeforeKnown == before \in {NoTable, Table(<< "old" >>, {})}

IInv ==
  /\ TypeOK
  /\ BeforeKnown
  /\ VerdictFollows
  /\ RunningFollows
  /\ TargetIsReady
  /\ WorkIsLeft
  /\ DropFollows
  /\ InterruptedFails
  /\ SuccessIsComplete

LEMMA InitIInv == Init => IInv
<1> SUFFICES ASSUME Init PROVE IInv
  OBVIOUS
<1> USE DEF Init
<1>1. TypeOK /\ BeforeKnown
  <2>1. << >> \in Seq({"old", "new"}) /\ << "old" >> \in Seq({"old", "new"})
    OBVIOUS
  <2>2. NoTable \in Tables /\ Table(<< "old" >>, {}) \in Tables
    BY <2>1 DEF Tables, NoTable, Table
  <2>3. << >> \in Seq(Kind)
    OBVIOUS
  <2> QED
    BY <2>2, <2>3 DEF TypeOK, BeforeKnown
<1>2. VerdictFollows /\ RunningFollows /\ TargetIsReady
  BY DEF VerdictFollows, RunningFollows, TargetIsReady, Working, Ended
<1>3. WorkIsLeft /\ DropFollows
  BY DEF WorkIsLeft, DropFollows
<1>4. InterruptedFails /\ SuccessIsComplete
  BY DEF InterruptedFails, Interrupted, Kind, SuccessIsComplete
<1> QED
  BY <1>1, <1>2, <1>3, <1>4 DEF IInv

LEMMA MaterializeType ==
  ASSUME NEW m \in Mode
  PROVE  /\ Materialize(m) \in Seq(Kind) /\ Materialize(m) # << >>
         /\ m # "create_append" => /\ Head(Materialize(m)) = m /\ m \in TargetKind
                                  /\ Tail(Materialize(m)) = << >>
         /\ m = "create_append" => /\ Head(Materialize(m)) = "create empty"
                                  /\ Tail(Materialize(m)) = << "append" >>
<1>1. CASE m = "create_append"
  <2>1. Materialize(m) = << "create empty", "append" >>
    BY <1>1 DEF Materialize
  <2>2. << "create empty", "append" >> \in Seq(Kind)
    BY DEF Kind
  <2>3. /\ Head(<< "create empty", "append" >>) = "create empty"
        /\ Tail(<< "create empty", "append" >>) = << "append" >>
        /\ << "create empty", "append" >> # << >>
    OBVIOUS
  <2> QED
    BY <1>1, <2>1, <2>2, <2>3
<1>2. CASE m # "create_append"
  <2>1. Materialize(m) = << m >> /\ m \in TargetKind /\ m \in Kind
    BY <1>2 DEF Materialize, Mode, TargetKind, Kind
  <2>2. << m >> \in Seq(Kind) /\ Head(<< m >>) = m /\ Tail(<< m >>) = << >> /\ << m >> # << >>
    BY <2>1
  <2> QED
    BY <1>2, <2>1, <2>2
<1> QED
  BY <1>1, <1>2

LEMMA LastAppend ==
  /\ Head(<< "append" >>) = "append" /\ Tail(<< "append" >>) = << >>
  /\ << >> \in Seq(Kind)
  OBVIOUS

-----------------------------------------------------------------------------
(***************************************************************************)
(* The driver.                                                             *)
(***************************************************************************)
LEMMA SendStep ==
  ASSUME IInv, Send
  PROVE  IInv'
<1> USE DEF IInv, Send, Sent
<1>1. pc = "materialize" => /\ verdict = "none" /\ stmts # << >> /\ Remains
                           /\ interim.blob = {} /\ todo = {} /\ mode \in Mode
  BY DEF VerdictFollows, Working, WorkIsLeft, TypeOK
<1>2. pc = "materialize" =>
        /\ Head(stmts) \in TargetKind /\ Tail(stmts) \in Seq(Kind)
        /\ \/ /\ Tail(stmts) = << >> /\ Head(stmts) = mode
              /\ mode # "create_append" /\ target = before
           \/ /\ Tail(stmts) = << "append" >> /\ Head(stmts) = "create empty"
              /\ mode = "create_append" /\ target = before
           \/ /\ Tail(stmts) = << >> /\ Head(stmts) = "append"
              /\ mode = "create_append" /\ target = Made
  <2> SUFFICES ASSUME pc = "materialize"
               PROVE  /\ Head(stmts) \in TargetKind /\ Tail(stmts) \in Seq(Kind)
                      /\ \/ /\ Tail(stmts) = << >> /\ Head(stmts) = mode
                            /\ mode # "create_append" /\ target = before
                         \/ /\ Tail(stmts) = << "append" >> /\ Head(stmts) = "create empty"
                            /\ mode = "create_append" /\ target = before
                         \/ /\ Tail(stmts) = << >> /\ Head(stmts) = "append"
                            /\ mode = "create_append" /\ target = Made
    OBVIOUS
  <2>0. << "append" >> \in Seq(Kind)
    BY DEF Kind
  <2>1. CASE stmts = Materialize(mode) /\ target = before
    BY <1>1, <2>0, <2>1, MaterializeType, LastAppend DEF TargetKind
  <2>2. CASE mode = "create_append" /\ stmts = << "append" >> /\ target = Made
    BY <2>2, LastAppend DEF TargetKind
  <2> QED
    BY <1>1, <2>1, <2>2 DEF Remains
<1>3. /\ running' \in Statement /\ running' # None
      /\ pc # "materialize" => running'.kind = pc
      /\ pc = "materialize" => running'.kind = Head(stmts) /\ stmts' = Tail(stmts)
      /\ pc # "materialize" => stmts' = stmts
      /\ pc = "alter" => running'.column \in todo /\ todo' = todo \ {running'.column}
      /\ pc # "alter" => todo' = todo
  <2>1. CASE pc \in {"ingest", "inspect", "drop"}
    <3>1. running' = [kind |-> pc, column |-> None] /\ todo' = todo /\ stmts' = stmts
      BY <2>1
    <3>2. [kind |-> pc, column |-> None] \in Statement
      BY <2>1 DEF Statement, Kind
    <3> QED
      BY <2>1, <3>1, <3>2, GeoIngestAssumption
  <2>2. CASE pc = "alter"
    <3>1. PICK c \in todo : /\ running' = [kind |-> "alter", column |-> c]
                            /\ todo' = todo \ {c} /\ stmts' = stmts
      BY <2>2
    <3>2. [kind |-> "alter", column |-> c] \in Statement
      BY DEF Statement, Kind, TypeOK
    <3> QED
      BY <2>2, <3>1, <3>2, GeoIngestAssumption
  <2>3. CASE pc = "materialize"
    <3>1. /\ running' = [kind |-> Head(stmts), column |-> None]
          /\ stmts' = Tail(stmts) /\ todo' = todo
      BY <2>3
    <3>2. [kind |-> Head(stmts), column |-> None] \in Statement
      BY <1>2, <2>3 DEF Statement, Kind, TargetKind
    <3> QED
      BY <2>3, <3>1, <3>2, GeoIngestAssumption
  <2>4. pc \in {"ingest", "inspect", "drop", "alter", "materialize"}
    OBVIOUS
  <2> QED
    BY <2>1, <2>2, <2>3, <2>4
<1>4. TypeOK' /\ BeforeKnown'
  BY <1>2, <1>3 DEF TypeOK, BeforeKnown
<1>5. VerdictFollows'
  BY DEF VerdictFollows, Working, Ended
<1>6. RunningFollows'
  BY <1>2, <1>3 DEF RunningFollows, VerdictFollows, Working, TargetKind
<1>7. TargetIsReady'
  BY <1>1, <1>2, <1>3 DEF TargetIsReady, TargetKind, Made
<1>8. WorkIsLeft'
  BY <1>1, <1>2, <1>3 DEF WorkIsLeft, RemainsAfter, VerdictFollows, Working
<1>9. pc = "drop" \/ ~Interrupted
  BY DEF InterruptedFails, VerdictFollows, Ended, Working
<1>10. DropFollows'
  BY DEF DropFollows
<1>11. InterruptedFails'
  BY <1>3, <1>9 DEF InterruptedFails, Interrupted
<1>12. SuccessIsComplete'
  BY DEF SuccessIsComplete, RowsWanted, Table, NoTable
<1> QED
  BY <1>4, <1>5, <1>6, <1>7, <1>8, <1>10, <1>11, <1>12

LEMMA SendFailsStep ==
  ASSUME IInv, SendFails
  PROVE  IInv'
<1> USE DEF IInv, SendFails, driver
<1>1. TypeOK' /\ BeforeKnown'
  BY DEF TypeOK, BeforeKnown
<1>2. VerdictFollows' /\ RunningFollows'
  BY DEF VerdictFollows, RunningFollows, Working, Ended
<1>3. TargetIsReady' /\ WorkIsLeft' /\ DropFollows'
  BY DEF TargetIsReady, WorkIsLeft, DropFollows, Made
<1>4. InterruptedFails'
  BY DEF InterruptedFails, Interrupted
<1>5. SuccessIsComplete'
  BY DEF SuccessIsComplete, RowsWanted
<1> QED
  BY <1>1, <1>2, <1>3, <1>4, <1>5

LEMMA AdvanceStep ==
  ASSUME IInv, Advance
  PROVE  IInv'
<1> USE DEF IInv, Advance
<1>1. running = None /\ pc \in Working \cup {"drop"}
  BY DEF RunningFollows, VerdictFollows, Ended, TypeOK, Working
<1>2. pc = "drop" => pc' = "done" /\ verdict' = verdict /\ verdict # "none"
  BY DEF VerdictFollows, Working
<1>3. pc \in Working => verdict = "none" /\ pc' \in Working \cup {"drop"}
  BY DEF VerdictFollows, Working, Stage
<1>4. TypeOK' /\ BeforeKnown'
  <2>1. todo' \in SUBSET Column /\ stmts' \in Seq(Kind)
    BY MaterializeType DEF TypeOK, BlobTyped, Tables
  <2>2. pc' \in Working \cup {"drop", "done"} /\ verdict' \in {"none", "ok", "error"}
    BY <1>1, <1>2, <1>3 DEF TypeOK
  <2> QED
    BY <2>1, <2>2 DEF TypeOK, BeforeKnown, Working
<1>5. VerdictFollows'
  BY <1>1, <1>2, <1>3 DEF VerdictFollows, Working, Ended
<1>6. RunningFollows' /\ TargetIsReady'
  BY <1>1 DEF RunningFollows, TargetIsReady
<1>7. WorkIsLeft' /\ (pc' = "drop" => target = Table(RowsWanted, {}))
  <2>1. CASE pc = "ingest"
    BY <2>1, <1>3 DEF WorkIsLeft
  <2>2. CASE pc = "inspect"
    BY <2>2, <1>3, MaterializeType DEF WorkIsLeft, Stage, BlobTyped, Remains, TypeOK
  <2>3. CASE pc = "alter"
    <3>1. /\ todo' = todo /\ stmts' = stmts /\ stmts = Materialize(mode)
          /\ stmts # << >> /\ target = before /\ interim.blob \subseteq todo
      <4>1. todo' = todo /\ stmts' = stmts
        BY <2>3
      <4>2. stmts = Materialize(mode) /\ target = before /\ interim.blob \subseteq todo
        BY <2>3, <1>3 DEF WorkIsLeft, Working
      <4> QED
        BY <4>1, <4>2, MaterializeType DEF TypeOK
    <3>2. pc' = IF todo # {} THEN "alter" ELSE "materialize"
      BY <2>3, <3>1 DEF Stage
    <3> QED
      BY <3>1, <3>2 DEF WorkIsLeft, Remains
  <2>4. CASE pc = "materialize"
    <3>1. /\ todo' = todo /\ stmts' = stmts /\ Remains /\ interim.blob = {} /\ todo = {}
      BY <2>4, <1>3 DEF WorkIsLeft, Working
    <3>2. pc' = IF stmts # << >> THEN "materialize" ELSE "drop"
      BY <2>4, <3>1 DEF Stage
    <3>3. Remains'
      BY <3>1 DEF Remains, Made, RowsWanted
    <3>4. CASE stmts # << >>
      BY <3>1, <3>2, <3>3, <3>4 DEF WorkIsLeft
    <3>5. CASE stmts = << >>
      <4>1. Materialize(mode) # << >> /\ << "append" >> # << >>
        BY MaterializeType DEF TypeOK
      <4>2. target = Table(RowsWanted, {})
        BY <3>1, <3>5, <4>1 DEF Remains
      <4> QED
        BY <3>2, <3>5, <4>2 DEF WorkIsLeft
    <3> QED
      BY <3>4, <3>5
  <2>5. CASE pc = "drop"
    BY <2>5, <1>2 DEF WorkIsLeft
  <2> QED
    BY <2>1, <2>2, <2>3, <2>4, <2>5, <1>1 DEF Working
<1>8. DropFollows'
  BY DEF DropFollows
<1>9. InterruptedFails'
  BY <1>1, <1>2, <1>3 DEF InterruptedFails, Interrupted
<1>10. SuccessIsComplete'
  BY <1>1, <1>2, <1>3, <1>7 DEF SuccessIsComplete, RowsWanted
<1> QED
  BY <1>4, <1>5, <1>6, <1>7, <1>8, <1>9, <1>10

LEMMA FailStep ==
  ASSUME IInv, Fail
  PROVE  IInv'
<1> USE DEF IInv, Fail
<1>1. pc \in Working \cup {"drop"}
  BY DEF VerdictFollows, Ended, TypeOK, Working
<1>2. /\ pc = "drop" => pc' = "done" /\ verdict' = verdict /\ verdict # "none"
      /\ pc \in Working => pc' \in {"drop", "abandoned"} /\ verdict' = "error"
  BY DEF VerdictFollows, Working, AfterError
<1>3. TypeOK' /\ BeforeKnown' /\ VerdictFollows'
  BY <1>1, <1>2 DEF TypeOK, BeforeKnown, VerdictFollows, Working, Ended
<1>4. RunningFollows'
  BY <1>1, <1>2 DEF RunningFollows
<1>5. TargetIsReady' /\ WorkIsLeft'
  BY <1>1, <1>2 DEF TargetIsReady, WorkIsLeft, Made
<1>6. DropFollows'
  BY DEF DropFollows
<1>7. InterruptedFails'
  BY <1>1, <1>2 DEF InterruptedFails, Interrupted
<1>8. SuccessIsComplete'
  BY <1>1, <1>2 DEF SuccessIsComplete, RowsWanted
<1> QED
  BY <1>3, <1>4, <1>5, <1>6, <1>7, <1>8

-----------------------------------------------------------------------------
(***************************************************************************)
(* The server, and the rest of the client.                                 *)
(***************************************************************************)
\* What a statement does to the target, as far as the properties go.
LEMMA RunsOnTarget ==
  ASSUME IInv, ServerRuns
  PROVE  /\ running.kind \notin TargetKind => target' = target
         /\ running.kind = "create empty" => target' = Made
         /\ running.kind \in TargetKind \ {"create empty"} =>
              target' = Table(RowsWanted, {}) /\ target.rows = before.rows
<1> USE DEF IInv, ServerRuns
<1>1. running \in Statement /\ running.kind \in Kind
  BY DEF TypeOK, Statement
<1>2. running.kind \notin TargetKind => target' = target
  BY DEF TargetAfter, TargetKind
<1>3. running.kind = "create empty" => target' = Made
  BY DEF TargetAfter, TargetIsReady, TargetKind, Made, Limit0, TypeOK, Mode
<1>4. CASE running.kind = "create"
  BY <1>4 DEF TargetAfter, TargetIsReady, TargetKind, RowsWanted
<1>5. CASE running.kind = "replace"
  BY <1>5 DEF TargetAfter, TargetIsReady, TargetKind, RowsWanted
<1>6. CASE running.kind = "append"
  <2>1. target.exists /\ target' = [target EXCEPT !.rows = Append(@, "new")]
    BY <1>6 DEF TargetAfter, Accepts
  <2>2. target.blob = {} /\ target.rows = before.rows /\ RowsWanted = Append(before.rows, "new")
    BY <1>6, <2>1 DEF TargetIsReady, TargetKind, Made, BeforeKnown, Table, NoTable, RowsWanted
  <2>3. target \in Tables
    BY DEF TypeOK
  <2>4. target' = [exists |-> TRUE, rows |-> RowsWanted, blob |-> {}]
    BY <2>1, <2>2, <2>3 DEF Tables
  <2> QED
    BY <1>6, <2>2, <2>4 DEF Table, TargetKind
<1> QED
  BY <1>2, <1>3, <1>4, <1>5, <1>6 DEF TargetKind

\* A statement that has run leaves less for the server, and an answer that goes
\* to the driver if it waits.
LEMMA ServerRunsStep ==
  ASSUME IInv, ServerRuns
  PROVE  IInv'
<1> USE DEF IInv, ServerRuns, Reply, driver
<1>1. running \in Statement /\ running.kind \in Kind /\ interim \in Tables
  BY DEF TypeOK, Statement
<1>2. /\ interim' \in Tables
      /\ running.kind \notin {"ingest", "alter", "drop"} => interim' = interim
      /\ running.kind = "alter" => interim'.blob = interim.blob \ {running.column}
      /\ running.kind = "drop" => interim' = NoTable
  <2>1. << >> \in Seq({"old", "new"}) /\ << "new" >> \in Seq({"old", "new"})
    OBVIOUS
  <2>2. CASE running.kind = "ingest"
    <3>1. interim' \in {Table(<< "new" >>, Column), Table(<< "new" >>, {})}
      BY <2>2 DEF InterimAfter
    <3>2. Table(<< "new" >>, Column) \in Tables /\ Table(<< "new" >>, {}) \in Tables
      BY <2>1 DEF Tables, Table
    <3> QED
      BY <2>2, <3>1, <3>2
  <2>3. CASE running.kind = "alter"
    BY <1>1, <2>3 DEF InterimAfter, Tables
  <2>4. CASE running.kind = "drop"
    <3>1. interim' = NoTable
      BY <2>4 DEF InterimAfter
    <3>2. NoTable \in Tables
      BY <2>1 DEF Tables, NoTable
    <3> QED
      BY <2>4, <3>1, <3>2
  <2>5. CASE running.kind \notin {"ingest", "alter", "drop"}
    BY <1>1, <2>5 DEF InterimAfter
  <2> QED
    BY <2>2, <2>3, <2>4, <2>5
<1>3. Made \in Tables /\ Table(RowsWanted, {}) \in Tables
  <2>1. before \in Tables /\ << >> \in Seq({"old", "new"}) /\ << "new" >> \in Seq({"old", "new"})
    BY DEF TypeOK
  <2>2. Append(before.rows, "new") \in Seq({"old", "new"})
    BY <2>1 DEF Tables
  <2> QED
    BY <2>1, <2>2 DEF Tables, Table, Made, RowsWanted
<1>4. TypeOK' /\ BeforeKnown'
  <2>1. target' \in Tables
    BY <1>1, <1>3, RunsOnTarget DEF TypeOK, TargetKind
  <2> QED
    BY <1>2, <2>1 DEF TypeOK, BeforeKnown
<1>5. VerdictFollows'
  BY DEF VerdictFollows, Working, Ended
<1>6. RunningFollows' /\ TargetIsReady'
  BY DEF RunningFollows, TargetIsReady
<1>7. running.kind = "drop" => verdict # "none"
  BY DEF RunningFollows
<1>8. CASE call = "sent"
  <2>1. call' = "ok"
    BY <1>8
  <2>2. CASE running.kind = pc
    <3>1. pc \in TargetKind => FALSE
      BY DEF TypeOK, TargetKind
    <3>2. target' = target
      BY <2>2, <3>1, RunsOnTarget
    <3>3. WorkIsLeft'
      <4>1. CASE pc \in {"ingest", "inspect"}
        BY <1>8, <3>2, <4>1 DEF WorkIsLeft
      <4>2. CASE pc = "alter"
        <5>1. interim'.blob = interim.blob \ {running.column}
          BY <1>2, <2>2, <4>2
        <5>2. verdict = "none" => /\ target = before /\ stmts = Materialize(mode)
                                 /\ interim.blob \subseteq todo \cup {running.column}
          BY <1>8, <4>2 DEF WorkIsLeft
        <5> QED
          BY <2>1, <3>2, <4>2, <5>1, <5>2 DEF WorkIsLeft
      <4>3. CASE pc = "drop"
        BY <4>3 DEF WorkIsLeft
      <4>4. CASE pc \in {"done", "abandoned"}
        BY <4>4 DEF WorkIsLeft
      <4>5. pc # "materialize"
        BY <2>2, <1>1 DEF Kind
      <4> QED
        BY <4>1, <4>2, <4>3, <4>4, <4>5 DEF TypeOK
    <3>4. DropFollows'
      BY <1>2, <2>1, <2>2 DEF DropFollows
    <3>5. InterruptedFails'
      BY <1>8 DEF InterruptedFails, Interrupted
    <3>6. SuccessIsComplete'
      BY <3>2 DEF SuccessIsComplete, RowsWanted
    <3> QED
      BY <1>4, <1>5, <1>6, <3>3, <3>4, <3>5, <3>6
  <2>3. CASE pc = "materialize" /\ running.kind \in TargetKind
    <3>1. verdict = "none" /\ RemainsAfter /\ interim.blob = {} /\ todo = {} /\ interim' = interim
      BY <1>2, <1>8, <2>3 DEF WorkIsLeft, VerdictFollows, Working, TargetKind
    <3>2. Remains'
      <4>1. CASE stmts = << >> /\ (running.kind = mode \/ running.kind = "append")
        BY <2>3, <4>1, RunsOnTarget DEF Remains, RowsWanted, TypeOK, Mode, TargetKind
      <4>2. CASE mode = "create_append" /\ stmts = << "append" >> /\ running.kind = "create empty"
        BY <4>2, RunsOnTarget DEF Remains, Made
      <4> QED
        BY <3>1, <4>1, <4>2 DEF RemainsAfter
    <3>3. WorkIsLeft'
      BY <2>1, <2>3, <3>1, <3>2 DEF WorkIsLeft
    <3>4. DropFollows'
      BY <2>3 DEF DropFollows
    <3>5. InterruptedFails'
      BY <1>8 DEF InterruptedFails, Interrupted
    <3>6. SuccessIsComplete'
      BY <3>1 DEF SuccessIsComplete
    <3> QED
      BY <1>4, <1>5, <1>6, <3>3, <3>4, <3>5, <3>6
  <2> QED
    BY <1>8, <2>2, <2>3 DEF RunningFollows
<1>9. CASE call # "sent"
  <2>1. call' = call /\ call # "ok"
    BY <1>9 DEF RunningFollows
  <2>2. verdict = "ok" => target' = target
    BY <1>9, RunsOnTarget DEF RunningFollows, VerdictFollows, Working, TargetKind
  <2>3. WorkIsLeft'
    BY <1>7, <1>9, <2>1 DEF WorkIsLeft, RunningFollows, Working
  <2>4. DropFollows'
    BY <2>1 DEF DropFollows
  <2>5. InterruptedFails'
    BY <2>1 DEF InterruptedFails, Interrupted
  <2>6. SuccessIsComplete'
    BY <2>2 DEF SuccessIsComplete, RowsWanted
  <2> QED
    BY <1>4, <1>5, <1>6, <2>3, <2>4, <2>5, <2>6
<1> QED
  BY <1>8, <1>9

LEMMA ServerRefusesStep ==
  ASSUME IInv, ServerRefuses
  PROVE  IInv'
<1> USE DEF IInv, ServerRefuses, Reply, driver
<1>1. interim' \in Tables /\ (running.kind # "ingest" => interim' = interim)
  <2>1. Table(<< >>, Column) \in Tables
    BY DEF Tables, Table
  <2> QED
    BY <2>1 DEF TypeOK
<1>2. TypeOK' /\ BeforeKnown'
  BY <1>1 DEF TypeOK, BeforeKnown
<1>3. VerdictFollows'
  BY DEF VerdictFollows, Working, Ended
<1>4. RunningFollows' /\ TargetIsReady'
  BY DEF RunningFollows, TargetIsReady
<1>5. call = "sent" => call' = "failed"
  OBVIOUS
<1>6. call # "sent" =>
        /\ call' = call /\ call # "ok"
        /\ running.kind # "drop" => verdict = "error" \/ call = "failed"
        /\ running.kind = "drop" => verdict # "none"
  BY DEF RunningFollows
<1>7. WorkIsLeft'
  BY <1>5, <1>6 DEF WorkIsLeft
<1>8. DropFollows'
  BY <1>5, <1>6 DEF DropFollows
<1>9. InterruptedFails'
  BY <1>6, <1>5 DEF InterruptedFails, Interrupted, VerdictFollows
<1>10. SuccessIsComplete'
  BY DEF SuccessIsComplete, RowsWanted
<1> QED
  BY <1>2, <1>3, <1>4, <1>7, <1>8, <1>9, <1>10

LEMMA CallBreaksStep ==
  ASSUME IInv, CallBreaks
  PROVE  IInv'
<1> USE DEF IInv, CallBreaks, driver
<1>1. TypeOK' /\ BeforeKnown'
  BY DEF TypeOK, BeforeKnown
<1>2. VerdictFollows' /\ RunningFollows'
  BY DEF VerdictFollows, RunningFollows, Working, Ended, TypeOK, TargetKind
<1>3. TargetIsReady' /\ DropFollows'
  BY DEF TargetIsReady, DropFollows, Made
<1>4. WorkIsLeft'
  BY DEF WorkIsLeft, Remains, Made, RowsWanted
<1>5. InterruptedFails'
  BY DEF InterruptedFails, Interrupted
<1>6. SuccessIsComplete'
  BY DEF SuccessIsComplete, RowsWanted
<1> QED
  BY <1>1, <1>2, <1>3, <1>4, <1>5, <1>6

LEMMA ContextDoneStep ==
  ASSUME IInv, ContextDone
  PROVE  IInv'
<1> USE DEF IInv, ContextDone, driver
<1>1. TypeOK' /\ BeforeKnown'
  BY DEF TypeOK, BeforeKnown
<1>2. VerdictFollows' /\ RunningFollows'
  BY DEF VerdictFollows, RunningFollows, Working, Ended, TypeOK, TargetKind
<1>3. TargetIsReady' /\ DropFollows'
  BY DEF TargetIsReady, DropFollows, Made
<1>4. WorkIsLeft'
  BY DEF WorkIsLeft, Remains, Made, RowsWanted
<1>5. InterruptedFails'
  BY DEF InterruptedFails, Interrupted
<1>6. SuccessIsComplete'
  BY DEF SuccessIsComplete, RowsWanted
<1> QED
  BY <1>1, <1>2, <1>3, <1>4, <1>5, <1>6

LEMMA InterruptStep ==
  ASSUME IInv, Interrupt
  PROVE  IInv'
<1> USE DEF IInv, Interrupt, Reply, driver
<1>1. running # None => running.kind \in Kind
  BY DEF TypeOK, Statement
<1>2. TypeOK' /\ BeforeKnown'
  BY <1>1 DEF TypeOK, BeforeKnown
<1>3. VerdictFollows' /\ RunningFollows'
  BY DEF VerdictFollows, RunningFollows, Working, Ended
<1>4. TargetIsReady'
  BY DEF TargetIsReady, Made
<1>5. WorkIsLeft'
  BY DEF WorkIsLeft, Remains, Made, RowsWanted, RunningFollows
<1>6. DropFollows'
  BY DEF DropFollows, RunningFollows
<1>7. InterruptedFails'
  BY <1>1 DEF InterruptedFails, Interrupted, RunningFollows, Working, TargetKind, TypeOK, Kind
<1>8. SuccessIsComplete'
  BY DEF SuccessIsComplete, RowsWanted
<1> QED
  BY <1>2, <1>3, <1>4, <1>5, <1>6, <1>7, <1>8

-----------------------------------------------------------------------------
LEMMA NextIInv == IInv /\ [Next]_vars => IInv'
<1> SUFFICES ASSUME IInv, [Next]_vars
             PROVE  IInv'
  OBVIOUS
<1>1. CASE Next
  BY <1>1, SendStep, SendFailsStep, AdvanceStep, FailStep, ServerRunsStep,
     ServerRefusesStep, CallBreaksStep, ContextDoneStep, InterruptStep DEF Next
<1>2. CASE UNCHANGED vars
  <2> USE <1>2 DEF vars, driver, IInv
  <2>1. TypeOK' /\ BeforeKnown'
    BY DEF TypeOK, BeforeKnown
  <2>2. VerdictFollows' /\ RunningFollows' /\ DropFollows'
    BY DEF VerdictFollows, RunningFollows, DropFollows, Ended
  <2>3. TargetIsReady' /\ WorkIsLeft'
    BY DEF TargetIsReady, WorkIsLeft, Remains, RemainsAfter, Made, RowsWanted
  <2>4. InterruptedFails' /\ SuccessIsComplete'
    BY DEF InterruptedFails, Interrupted, SuccessIsComplete, RowsWanted
  <2> QED
    BY <2>1, <2>2, <2>3, <2>4
<1> QED
  BY <1>1, <1>2

LEMMA Invariance == Spec => []IInv
BY InitIInv, NextIInv, PTL DEF Spec

\* The call, its context and the two tables keep their types.
THEOREM TypeCorrect == Spec => []TypeOK
<1>1. IInv => TypeOK
  BY DEF IInv
<1> QED
  BY <1>1, Invariance, PTL

\* A geometry ingest that returns without an error is complete.
THEOREM SuccessCorrect == Spec => []SuccessIsComplete
<1>1. IInv => SuccessIsComplete
  BY DEF IInv
<1> QED
  BY <1>1, Invariance, PTL

\* An ingest whose bulk load landed returns without its interim table, or after
\* a DROP that failed.
THEOREM InterimCorrect == Spec => InterimIsDropped
<1> DEFINE Dropped == pc' = "done" /\ pc # "done" =>
                        interim = NoTable \/ (pc = "drop" /\ call = "failed")
<1>1. IInv /\ [Next]_vars => [Dropped]_vars
  <2> SUFFICES ASSUME IInv, Next, pc' = "done", pc # "done"
               PROVE  interim = NoTable \/ (pc = "drop" /\ call = "failed")
    OBVIOUS
  <2>1. Advance \/ Fail
    BY DEF Next, Send, SendFails, ServerRuns, ServerRefuses, CallBreaks, ContextDone,
           Interrupt, driver
  <2>2. CASE Advance
    <3>1. pc = "drop" /\ call = "ok"
      BY <2>2 DEF Advance, Stage
    <3> QED
      BY <3>1 DEF IInv, DropFollows
  <2>3. CASE Fail
    BY <2>3 DEF Fail, AfterError
  <2> QED
    BY <2>1, <2>2, <2>3
<1>2. QED
  BY <1>1, Invariance, PTL DEF Spec, InterimIsDropped

\* The rows of the target go from what was there to what was asked for at once.
THEOREM AtomicityCorrect == Spec => IngestIsAtomic
<1> DEFINE Atomic == target' # target =>
                       \/ target'.rows = RowsWanted /\ target.rows = before.rows
                       \/ target'.rows = << >> /\ ~before.exists
<1>1. IInv /\ [Next]_vars => [Atomic]_vars
  <2> SUFFICES ASSUME IInv, Next PROVE Atomic
    OBVIOUS
  <2>1. ASSUME target' # target PROVE ServerRuns
    BY <2>1 DEF Next, Send, SendFails, Advance, Fail, ServerRefuses, CallBreaks,
                ContextDone, Interrupt, driver
  <2>2. ASSUME ServerRuns, target' # target PROVE Atomic
    <3>1. CASE running.kind = "create empty"
      <4>1. target = before /\ target' = Made
        BY <2>2, <3>1, RunsOnTarget
           DEF IInv, ServerRuns, TargetIsReady, TargetKind, TypeOK, Mode
      <4> QED
        BY <2>2, <4>1 DEF Made, Table
    <3>2. CASE running.kind \in TargetKind \ {"create empty"}
      <4>1. target' = Table(RowsWanted, {}) /\ target.rows = before.rows
        BY <2>2, <3>2, RunsOnTarget
      <4>2. target'.rows = RowsWanted
        BY <4>1 DEF Table
      <4> QED
        BY <4>1, <4>2
    <3>3. CASE running.kind \notin TargetKind
      BY <2>2, <3>3, RunsOnTarget
    <3> QED
      BY <3>1, <3>2, <3>3
  <2> QED
    BY <2>1, <2>2
<1>2. QED
  BY <1>1, Invariance, PTL DEF Spec, IngestIsAtomic

\* Once a statement of the ingest is interrupted the target stays as it is, and
\* the call does not succeed.
THEOREM InterruptCorrect == Spec => InterruptedIngestStops
<1> DEFINE Stops == Interrupted => target' = target /\ verdict' # "ok"
<1>1. IInv /\ [Next]_vars => [Stops]_vars
  <2> SUFFICES ASSUME IInv, Next, Interrupted PROVE target' = target /\ verdict' # "ok"
    OBVIOUS
  <2>1. verdict = "error" \/ (call = "failed" /\ verdict = "none")
    BY DEF IInv, InterruptedFails, VerdictFollows
  <2>2. running # None => running.kind = "drop"
    BY DEF IInv, InterruptedFails
  <2>3. verdict' # "ok"
    <3>1. Advance => verdict' = verdict
      <4>1. SUFFICES ASSUME Advance PROVE verdict' = verdict
        OBVIOUS
      <4>2. pc \notin Working /\ ~Ended
        BY <2>1, <4>1 DEF Advance, IInv, VerdictFollows
      <4>3. pc = "drop"
        BY <4>2 DEF IInv, TypeOK, Working, Ended
      <4>4. pc' = "done"
        BY <4>1, <4>3 DEF Advance
      <4> QED
        BY <4>1, <4>4 DEF Advance
    <3>2. Fail => verdict' \in {verdict, "error"}
      BY DEF Fail
    <3>3. ~Advance /\ ~Fail => verdict' = verdict
      BY DEF Next, Send, SendFails, ServerRuns, ServerRefuses, CallBreaks, ContextDone,
             Interrupt, driver
    <3> QED
      BY <2>1, <3>1, <3>2, <3>3
  <2>4. ServerRuns => target' = target
    BY <2>2, RunsOnTarget DEF ServerRuns, TargetKind
  <2>5. target' = target
    BY <2>4 DEF Next, Send, SendFails, Advance, Fail, ServerRefuses, CallBreaks,
                ContextDone, Interrupt, driver
  <2> QED
    BY <2>3, <2>5
<1>2. QED
  BY <1>1, Invariance, PTL DEF Spec, InterruptedIngestStops
-----------------------------------------------------------------------------
(***************************************************************************)
(* How long an ingest takes.  Whatever fails and whoever cancels, it is    *)
(* never stuck, and each step of the driver or the server uses up one of a *)
(* number of steps that nothing adds to.                                   *)
(***************************************************************************)

\* The statements of the two loops, and the most there can be.
Work     == Cardinality(todo) + Len(stmts)
MostWork == Cardinality(Column) + 2

\* A call is sent, answered, and acted upon ...
OfCall(c) == CASE c = "none" -> 3
               [] c = "sent" -> 2
               [] OTHER      -> 1

\* ... in the loops for each of w statements, until one fails ...
OfLoop(c, w) == CASE c = "none"   -> 3 * w
                  [] c = "sent"   -> 3 * w + 2
                  [] c = "ok"     -> 3 * w + 1
                  [] OTHER        -> 1

\* ... and otherwise once in each stage.
OfStage(p, c, w) ==
  CASE p = "ingest"  -> 6 + 3 * MostWork + OfCall(c)
    [] p = "inspect" -> 3 + 3 * MostWork + OfCall(c)
    [] p \in {"alter", "materialize"} -> 3 + OfLoop(c, w)
    [] p = "drop"    -> OfCall(c)
    [] OTHER         -> 0

\* A statement the driver has given up takes one more step, of the server.
OfServer == IF running # None /\ call # "sent" THEN 1 ELSE 0

StepsLeft == OfStage(pc, call, Work) + OfServer

Driver == Send \/ SendFails \/ Advance \/ Fail
Server == ServerRuns \/ ServerRefuses

\* The driver has a step to take, or waits for the server, which has one: it ends
\* the statement the driver has sent, or the one it has given up before.
DriverIsReady ==
  \/ call \in {"ok", "failed"}
  \/ call = "none" /\ (\/ ctx = "done"
                       \/ pc \in {"ingest", "inspect", "drop"} /\ running = None
                       \/ pc = "alter" /\ todo # {} /\ running = None
                       \/ pc = "materialize" /\ stmts # << >> /\ running = None)

ServerIsReady == call \in {"sent", "none"} /\ running # None

LEMMA ColumnsAreFinite ==
  ASSUME NEW T \in SUBSET Column
  PROVE  /\ Cardinality(T) \in Nat /\ Cardinality(T) <= Cardinality(Column)
         /\ Cardinality(Column) \in Nat
         /\ T # {} => Cardinality(T) > 0
         /\ \A c \in T : Cardinality(T \ {c}) = Cardinality(T) - 1
<1>1. IsFiniteSet(Column)
  BY GeoIngestAssumption
<1>2. IsFiniteSet(T) /\ Cardinality(T) <= Cardinality(Column)
  BY <1>1, FS_Subset
<1>3. Cardinality(T) \in Nat /\ Cardinality(Column) \in Nat
  BY <1>1, <1>2, FS_CardinalityType
<1>4. T # {} => Cardinality(T) > 0
  BY <1>2, <1>3, FS_EmptySet
<1>5. \A c \in T : Cardinality(T \ {c}) = Cardinality(T) - 1
  BY <1>2, FS_RemoveElement
<1> QED
  BY <1>2, <1>3, <1>4, <1>5

LEMMA WorkIsBounded ==
  ASSUME NEW m \in Mode
  PROVE  Len(Materialize(m)) \in {1, 2}
BY DEF Materialize

LEMMA CallNumbers ==
  /\ OfCall("none") = 3 /\ OfCall("sent") = 2 /\ OfCall("ok") = 1 /\ OfCall("failed") = 1
  /\ \A w : /\ OfLoop("none", w) = 3 * w /\ OfLoop("sent", w) = 3 * w + 2
            /\ OfLoop("ok", w) = 3 * w + 1 /\ OfLoop("failed", w) = 1
BY DEF OfCall, OfLoop

LEMMA StageNumbers ==
  ASSUME NEW c, NEW w
  PROVE  /\ OfStage("ingest", c, w) = 6 + 3 * MostWork + OfCall(c)
         /\ OfStage("inspect", c, w) = 3 + 3 * MostWork + OfCall(c)
         /\ OfStage("alter", c, w) = 3 + OfLoop(c, w)
         /\ OfStage("materialize", c, w) = 3 + OfLoop(c, w)
         /\ OfStage("drop", c, w) = OfCall(c)
         /\ OfStage("done", c, w) = 0
         /\ OfStage("abandoned", c, w) = 0
BY DEF OfStage

LEMMA WorkType ==
  ASSUME TypeOK
  PROVE  /\ Work \in Nat /\ MostWork \in Nat
         /\ OfStage(pc, call, Work) \in Nat /\ OfServer \in {0, 1}
<1>1. Cardinality(todo) \in Nat /\ Cardinality(Column) \in Nat
  BY ColumnsAreFinite DEF TypeOK
<1>2. Len(stmts) \in Nat
  BY DEF TypeOK
<1>3. Work \in Nat /\ MostWork \in Nat
  BY <1>1, <1>2 DEF Work, MostWork
<1>4. OfCall(call) \in {1, 2, 3} /\ OfLoop(call, Work) \in Nat
  BY <1>3, CallNumbers DEF TypeOK
<1>5. OfStage(pc, call, Work) \in Nat
  BY <1>3, <1>4, StageNumbers DEF TypeOK
<1> QED
  BY <1>3, <1>5 DEF OfServer

LEMMA SendUses ==
  ASSUME IInv, Send
  PROVE  StepsLeft' < StepsLeft
<1>1. call = "none" /\ call' = "sent" /\ pc' = pc
  BY DEF Send, Sent
<1>2. running = None
  BY DEF Send
<1>3. OfServer = 0 /\ OfServer' = 0
  BY <1>1, <1>2 DEF OfServer
<1>4. Work \in Nat /\ MostWork \in Nat
  BY WorkType DEF IInv
<1>5. CASE pc \in {"ingest", "inspect", "drop"}
  BY <1>1, <1>3, <1>4, <1>5, CallNumbers, StageNumbers DEF StepsLeft
<1>6. ASSUME pc \in {"alter", "materialize"}, Work' = Work - 1, Work # 0
      PROVE  StepsLeft' < StepsLeft
  BY <1>1, <1>3, <1>4, <1>6, CallNumbers, StageNumbers DEF StepsLeft
<1>7. CASE pc = "alter"
  <2>1. PICK c \in todo : todo' = todo \ {c} /\ stmts' = stmts
    BY <1>7 DEF Send
  <2>2. Cardinality(todo) \in Nat /\ Cardinality(todo) > 0 /\ Cardinality(todo') = Cardinality(todo) - 1
    BY <2>1, ColumnsAreFinite DEF IInv, TypeOK
  <2>3. Len(stmts) \in Nat
    BY DEF IInv, TypeOK
  <2> QED
    BY <1>6, <1>7, <2>1, <2>2, <2>3 DEF Work
<1>8. CASE pc = "materialize"
  <2>1. stmts' = Tail(stmts) /\ todo' = todo
    BY <1>8 DEF Send
  <2>2. stmts # << >>
    BY <1>1, <1>8 DEF IInv, VerdictFollows, Working, WorkIsLeft
  <2>3. Len(stmts) \in Nat /\ Len(stmts) > 0 /\ Len(stmts') = Len(stmts) - 1
    BY <2>1, <2>2 DEF IInv, TypeOK
  <2>4. Cardinality(todo) \in Nat
    BY ColumnsAreFinite DEF IInv, TypeOK
  <2> QED
    BY <1>6, <1>8, <2>1, <2>3, <2>4 DEF Work
<1> QED
  BY <1>5, <1>7, <1>8 DEF Send

LEMMA SendFailsUses ==
  ASSUME IInv, SendFails
  PROVE  StepsLeft' < StepsLeft
<1>1. call = "none" /\ call' = "failed" /\ UNCHANGED << pc, todo, stmts, running >>
  BY DEF SendFails, driver
<1>2. Work \in Nat /\ MostWork \in Nat /\ Work' = Work
  BY <1>1, WorkType DEF IInv, Work
<1>3. OfServer' = OfServer /\ OfServer \in {0, 1}
  BY <1>1 DEF OfServer
<1>4. CASE pc \in {"ingest", "inspect", "drop"}
  BY <1>1, <1>2, <1>3, <1>4, CallNumbers, StageNumbers DEF StepsLeft
<1>5. CASE pc \in {"alter", "materialize"}
  <2>1. verdict = "none"
    BY <1>5 DEF IInv, VerdictFollows, Working
  <2>2. Cardinality(todo) \in Nat /\ Len(stmts) \in Nat
        /\ (todo # {} => Cardinality(todo) > 0) /\ (stmts # << >> => Len(stmts) > 0)
    BY ColumnsAreFinite DEF IInv, TypeOK
  <2>3. todo # {} \/ stmts # << >>
    BY <1>1, <1>5, <2>1 DEF IInv, WorkIsLeft
  <2>4. Work > 0
    BY <2>2, <2>3 DEF Work
  <2> QED
    BY <1>1, <1>2, <1>3, <1>5, <2>4, CallNumbers, StageNumbers DEF StepsLeft
<1> QED
  BY <1>4, <1>5 DEF SendFails, Ended, IInv, TypeOK

LEMMA AdvanceUses ==
  ASSUME IInv, IInv', Advance
  PROVE  StepsLeft' < StepsLeft
<1>1. call = "ok" /\ call' = "none" /\ running = None /\ running' = None
  BY DEF Advance, IInv, RunningFollows
<1>2. OfServer = 0 /\ OfServer' = 0
  BY <1>1 DEF OfServer
<1>3. Work \in Nat /\ MostWork \in Nat
  BY WorkType DEF IInv
<1>4. Cardinality(todo') \in Nat /\ Cardinality(todo') <= Cardinality(Column)
      /\ Cardinality(Column) \in Nat /\ Len(stmts') \in Nat
  BY ColumnsAreFinite DEF IInv, TypeOK
<1>5. Work' \in Nat
  BY <1>4 DEF Work
<1>6. CASE pc = "ingest"
  <2>1. pc' = "inspect"
    BY <1>6 DEF Advance
  <2> QED
    BY <1>1, <1>2, <1>3, <1>6, <2>1, CallNumbers, StageNumbers DEF StepsLeft
<1>7. CASE pc = "drop"
  <2>1. pc' = "done"
    BY <1>7 DEF Advance
  <2> QED
    BY <1>1, <1>2, <1>7, <2>1, CallNumbers, StageNumbers DEF StepsLeft
<1>8. ASSUME pc \notin {"ingest", "drop"}
      PROVE  StepsLeft' <= 3 + 3 * Work' /\ StepsLeft' \in Nat
  <2>1. pc' = Stage(todo', stmts')
    BY <1>8 DEF Advance
  <2>2. pc' \in {"alter", "materialize", "drop"}
    BY <2>1 DEF Stage
  <2>3. CASE pc' \in {"alter", "materialize"}
    BY <1>1, <1>2, <1>5, <2>3, CallNumbers, StageNumbers DEF StepsLeft
  <2>4. CASE pc' = "drop"
    BY <1>1, <1>2, <1>5, <2>4, CallNumbers, StageNumbers DEF StepsLeft
  <2> QED
    BY <2>2, <2>3, <2>4
<1>9. CASE pc = "inspect"
  <2>1. stmts' = Materialize(mode)
    BY <1>9 DEF Advance
  <2>2. Len(stmts') = 1 \/ Len(stmts') = 2
    BY <2>1, WorkIsBounded DEF IInv, TypeOK
  <2>3. Work' <= MostWork
    <3>1. Work' = Cardinality(todo') + Len(stmts') /\ MostWork = Cardinality(Column) + 2
      BY DEF Work, MostWork
    <3>2. ASSUME NEW i \in Nat, NEW j \in Nat, NEW k \in {1, 2}, i <= j
          PROVE  i + k <= j + 2
      BY <3>2
    <3> QED
      BY <1>4, <2>2, <3>1, <3>2
  <2>4. StepsLeft = 3 + 3 * MostWork + 1
    BY <1>1, <1>2, <1>3, <1>9, CallNumbers, StageNumbers DEF StepsLeft
  <2> QED
    BY <1>3, <1>5, <1>8, <1>9, <2>3, <2>4
<1>10. CASE pc \in {"alter", "materialize"}
  <2>1. Work' = Work
    BY <1>10 DEF Advance, Work
  <2>2. StepsLeft = 3 + (3 * Work + 1)
    BY <1>1, <1>2, <1>3, <1>10, CallNumbers, StageNumbers DEF StepsLeft
  <2> QED
    BY <1>3, <1>8, <1>10, <2>1, <2>2
<1>11. ~Ended
  BY <1>1 DEF IInv, VerdictFollows
<1> QED
  BY <1>6, <1>7, <1>9, <1>10, <1>11 DEF IInv, TypeOK, Ended

LEMMA FailUses ==
  ASSUME IInv, Fail
  PROVE  StepsLeft' < StepsLeft
<1>1. call = "failed" /\ call' = "none" /\ running' = running
  BY DEF Fail
<1>2. OfServer' = OfServer /\ OfServer \in {0, 1}
  BY <1>1 DEF OfServer
<1>3. Work \in Nat /\ MostWork \in Nat
  BY WorkType DEF IInv
<1>4. ~Ended
  BY <1>1 DEF IInv, VerdictFollows
<1>5. /\ pc \in {"ingest", "drop"} => pc' \in {"abandoned", "done"}
      /\ pc \notin {"ingest", "drop"} => pc' = "drop"
  BY DEF Fail, AfterError
<1>6. CASE pc \in {"ingest", "drop"}
  BY <1>1, <1>2, <1>3, <1>5, <1>6, CallNumbers, StageNumbers DEF StepsLeft
<1>7. CASE pc = "inspect"
  BY <1>1, <1>2, <1>3, <1>5, <1>7, CallNumbers, StageNumbers DEF StepsLeft
<1>8. CASE pc \in {"alter", "materialize"}
  BY <1>1, <1>2, <1>5, <1>8, CallNumbers, StageNumbers DEF StepsLeft
<1> QED
  BY <1>4, <1>6, <1>7, <1>8 DEF IInv, TypeOK, Ended

\* The server ends the statement that is running, asked for or given up.
LEMMA AnswerUses ==
  ASSUME IInv, running # None, UNCHANGED driver,
         NEW answer \in {"ok", "failed"}, Reply(answer)
  PROVE  StepsLeft' < StepsLeft
<1>1. running' = None /\ call' = (IF call = "sent" THEN answer ELSE call)
  BY DEF Reply
<1>2. pc' = pc /\ Work' = Work /\ Work \in Nat /\ MostWork \in Nat
  BY WorkType DEF driver, IInv, Work
<1>3. OfServer' = 0
  BY <1>1 DEF OfServer
<1>4. CASE call = "sent"
  <2>1. OfServer = 0 /\ call' \in {"ok", "failed"} /\ ~Ended
    BY <1>1, <1>4 DEF OfServer, IInv, VerdictFollows
  <2>2. CASE pc \in {"ingest", "inspect", "drop"}
    BY <1>2, <1>3, <1>4, <2>1, <2>2, CallNumbers, StageNumbers DEF StepsLeft
  <2>3. CASE pc \in {"alter", "materialize"}
    BY <1>2, <1>3, <1>4, <2>1, <2>3, CallNumbers, StageNumbers DEF StepsLeft
  <2> QED
    BY <2>1, <2>2, <2>3 DEF IInv, TypeOK, Ended
<1>5. CASE call # "sent"
  <2>1. OfServer = 1 /\ call' = call
    BY <1>1, <1>5 DEF OfServer
  <2>2. OfStage(pc, call, Work) \in Nat
    BY WorkType DEF IInv
  <2> QED
    BY <1>2, <1>3, <2>1, <2>2 DEF StepsLeft
<1> QED
  BY <1>4, <1>5

\* The driver gives its statement up: the server's step is still to come.
LEMMA GivingUpKeeps ==
  ASSUME IInv, CallBreaks \/ ContextDone
  PROVE  StepsLeft' <= StepsLeft
<1>1. /\ UNCHANGED << driver, running >> /\ ~Ended
      /\ call' = (IF call = "sent" THEN "failed" ELSE call)
  BY DEF CallBreaks, ContextDone, IInv, VerdictFollows
<1>2. pc' = pc /\ Work' = Work /\ Work \in Nat /\ MostWork \in Nat
  BY <1>1, WorkType DEF driver, IInv, Work
<1>3. CASE call = "sent"
  <2>1. OfServer = 0 /\ OfServer' \in {0, 1} /\ call' = "failed"
    BY <1>1, <1>3 DEF OfServer
  <2>2. CASE pc \in {"ingest", "inspect", "drop"}
    BY <1>2, <1>3, <2>1, <2>2, CallNumbers, StageNumbers DEF StepsLeft
  <2>3. CASE pc \in {"alter", "materialize"}
    BY <1>2, <1>3, <2>1, <2>3, CallNumbers, StageNumbers DEF StepsLeft
  <2> QED
    BY <1>1, <2>2, <2>3 DEF IInv, TypeOK, Ended
<1>4. CASE call # "sent"
  <2>1. call' = call /\ running' = running
    BY <1>1, <1>4
  <2>2. OfServer' = OfServer /\ OfServer \in {0, 1} /\ OfStage(pc, call, Work) \in Nat
    BY <2>1, WorkType DEF OfServer, IInv
  <2> QED
    BY <1>2, <2>1, <2>2 DEF StepsLeft
<1> QED
  BY <1>3, <1>4

LEMMA InterruptKeeps ==
  ASSUME IInv, Interrupt, StepsLeft' \in Nat
  PROVE  StepsLeft' <= StepsLeft
<1>1. OfStage(pc, call, Work) \in Nat /\ OfServer \in {0, 1}
  BY WorkType DEF IInv
<1>2. CASE running = None
  <2>1. UNCHANGED << driver, running, call >>
    BY <1>2 DEF Interrupt
  <2>2. Work' = Work /\ OfServer' = OfServer /\ pc' = pc /\ call' = call
    BY <2>1 DEF driver, OfServer, Work
  <2> QED
    BY <1>1, <2>2 DEF StepsLeft
<1>3. CASE running # None
  <2>1. StepsLeft' < StepsLeft
    BY <1>3, AnswerUses DEF Interrupt
  <2> QED
    BY <1>1, <2>1 DEF StepsLeft
<1> QED
  BY <1>2, <1>3

\* An ingest of n geometry columns ends within 3n + 15 steps of the driver and the
\* server, whatever fails: each step uses up one, and neither the end of the
\* context, a broken connection nor a cancel adds any.
THEOREM StepsAreBounded ==
  Spec => /\ StepsLeft = 3 * Cardinality(Column) + 15
          /\ [](StepsLeft \in Nat)
          /\ [][ /\ StepsLeft' <= StepsLeft
                 /\ Driver \/ Server => StepsLeft' < StepsLeft ]_vars
<1>1. IInv => StepsLeft \in Nat
  BY WorkType DEF IInv, StepsLeft
<1>2. Init => StepsLeft = 3 * Cardinality(Column) + 15
  <2> SUFFICES ASSUME Init PROVE StepsLeft = 3 * Cardinality(Column) + 15
    OBVIOUS
  <2>1. OfServer = 0
    BY DEF Init, OfServer
  <2>2. Cardinality(Column) \in Nat
    BY ColumnsAreFinite
  <2>3. StepsLeft = 6 + 3 * (Cardinality(Column) + 2) + 3 + 0
    BY <2>1, CallNumbers, StageNumbers DEF Init, StepsLeft, MostWork
  <2> QED
    BY <2>2, <2>3
<1>3. ASSUME IInv, StepsLeft \in Nat, IInv', (StepsLeft \in Nat)', [Next]_vars
      PROVE  [ /\ StepsLeft' <= StepsLeft
               /\ Driver \/ Server => StepsLeft' < StepsLeft ]_vars
  <2> SUFFICES ASSUME Next
               PROVE  /\ StepsLeft' <= StepsLeft
                      /\ Driver \/ Server => StepsLeft' < StepsLeft
    BY <1>3
  <2>1. ASSUME Driver PROVE StepsLeft' < StepsLeft
    BY <1>3, <2>1, SendUses, SendFailsUses, AdvanceUses, FailUses DEF Driver
  <2>2. ASSUME Server PROVE StepsLeft' < StepsLeft
    BY <1>3, <2>2, AnswerUses DEF Server, ServerRuns, ServerRefuses
  <2>3. ASSUME CallBreaks \/ ContextDone \/ Interrupt PROVE StepsLeft' <= StepsLeft
    BY <1>3, <2>3, GivingUpKeeps, InterruptKeeps
  <2>4. ASSUME StepsLeft' < StepsLeft PROVE StepsLeft' <= StepsLeft
    BY <1>3, <2>4
  <2> QED
    BY <2>1, <2>2, <2>3, <2>4 DEF Next, Driver, Server
<1> QED
  BY <1>1, <1>2, <1>3, Invariance, PTL DEF Spec

\* An ingest that has not returned has a step to take, or waits for a server
\* that has one: it is never stuck between a failure and a cancel.
THEOREM NeverStuck == Spec => [](Ended \/ DriverIsReady \/ ServerIsReady)
<1>1. IInv => Ended \/ DriverIsReady \/ ServerIsReady
  <2> SUFFICES ASSUME IInv, ~Ended PROVE DriverIsReady \/ ServerIsReady
    OBVIOUS
  <2>1. CASE call \in {"ok", "failed"}
    BY <2>1 DEF DriverIsReady
  <2>2. CASE call = "none"
    <3>1. pc \in {"alter", "materialize"} => verdict = "none"
      BY DEF IInv, VerdictFollows, Working
    <3> QED
      BY <2>2, <3>1 DEF DriverIsReady, ServerIsReady, IInv, TypeOK, WorkIsLeft, Ended
  <2>3. CASE call = "sent"
    BY <2>3 DEF IInv, RunningFollows, ServerIsReady
  <2> QED
    BY <2>1, <2>2, <2>3 DEF IInv, TypeOK
<1> QED
  BY <1>1, Invariance, PTL
=============================================================================
