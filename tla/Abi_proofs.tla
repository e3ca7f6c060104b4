---------------------------- MODULE Abi_proofs -----------------------------
(***************************************************************************)
(* The C ABI: the properties of ErrorExport hold for any number of errors  *)
(* and streams, any vendor codes and any details; those of Abi, which      *)
(* composes it with DriverTable, for any versions a client may know; those *)
(* of OptionBuffer for any values, of any length.                          *)
(***************************************************************************)
EXTENDS Abi, OptionBuffer, SequenceTheorems, TLAPS


-----------------------------------------------------------------------------
(***************************************************************************)
(* ErrorExport: the inductive invariant.                                   *)
(***************************************************************************)

\* A 1.0.0 struct never asks for details, so it never has any.
OldHasNone ==
  \A h \in Old : err[h].vendor # PrivateData /\ err[h].release # "details"

\* What a struct would free it points to.
PointsToBlocks ==
  \A h \in Holder :
    /\ err[h].release = "plain"   => err[h].message \in Block
    /\ err[h].release = "details" => err[h].private \in Block

\* A stream that has not failed has no struct, and a closed one has not failed.
FailedHasPlace ==
  \A x \in Stream :
    /\ place[x] = None => err[x].release = "none"
    /\ x \notin open   => place[x] = None

\* The details of a struct are those its holder must see.
DetailsMatch ==
  \A h \in Holder :
    due[h] = IF err[h].release = "details" THEN content[err[h].private] ELSE << >>

IInv ==
  /\ ErrorTypeOK
  /\ OldStructUntouched
  /\ OldHasNone
  /\ PointsToBlocks
  /\ FailedHasPlace
  /\ BlocksAreOwned
  /\ DetailsMatch

-----------------------------------------------------------------------------
(***************************************************************************)
(* What the operators do.                                                  *)
(***************************************************************************)

\* malloc returns a block that is not in use.
LEMMA MallocIsFresh ==
  ASSUME NEW used, NEW b \in Malloc(used)
  PROVE  b \in Block /\ b \notin used
BY DEF Malloc

\* A struct that is initialized has no error.
LEMMA InitializedIsEmpty ==
  ASSUME NEW v \in Code
  PROVE  /\ Initialized(v) \in AdbcError
         /\ Initialized(v).release = "none" /\ Initialized(v).vendor = v
BY DEF Initialized, AdbcError, Pointer

\* A release callback leaves nothing to release, and the vendor code as it was.
LEMMA ReleasedIsEmpty ==
  ASSUME NEW e \in AdbcError
  PROVE  /\ Released(e) \in AdbcError
         /\ Released(e).release = "none" /\ Released(e).vendor = e.vendor
BY DEF Released, Initialized, HasDetails, AdbcError, Pointer

\* setErr releases the error before it, whatever the vendor code has become.
LEMMA SetErrFacts ==
  ASSUME NEW e \in AdbcError, NEW c \in Code, NEW b \in Block,
         NEW x, x = SetErr([e EXCEPT !.vendor = c], b)
  PROVE  /\ x.err \in AdbcError
         /\ x.err.vendor = c /\ x.err.release = "plain" /\ x.err.message = b
         /\ x.freed = Freed(e) /\ x.past = ReadsPrivate(e) /\ x.details = << >>
<1> DEFINE d == [e EXCEPT !.vendor = c]
<1>1. d \in AdbcError /\ d.vendor = c
  BY DEF AdbcError
<1>2. Freed(d) = Freed(e) /\ ReadsPrivate(d) = ReadsPrivate(e)
  BY DEF Freed, ReadsPrivate, HasDetails, AdbcError
<1>3. Released(d) \in AdbcError /\ Released(d).vendor = c
  BY <1>1, ReleasedIsEmpty
<1> QED
  BY <1>2, <1>3 DEF SetErr, AdbcError, Pointer

\* errToAdbcErr either releases the old error and sets a plain one, or puts
\* details over it, which only a struct that asked for them gets.
LEMMA ExportFacts ==
  ASSUME NEW e \in AdbcError, NEW g \in GoError, NEW b \in Block,
         NEW x, x = Export(e, g, b)
  PROVE  /\ x.err \in AdbcError /\ x.err.message = b
         /\ x.details \in Details
         /\ e.vendor # PrivateData => x.err.vendor # PrivateData
         /\ \/ /\ x.err.release = "plain"
               /\ x.freed = Freed(e) /\ (x.past => ReadsPrivate(e))
               /\ x.details = << >>
               /\ e.vendor = PrivateData => g.details = << >>
            \/ /\ x.err.release = "details" /\ x.err.private = b
               /\ x.freed = {}
               /\ x.details = g.details /\ e.vendor = PrivateData
<1>1. g.code \in Code /\ g.details \in Details /\ (~g.adbc => g.details = << >>)
  <2>1. CASE g = Other
    BY <2>1, ErrorAssumption DEF Other
  <2>2. CASE g \in [adbc : {TRUE}, code : Code, details : Details]
    BY <2>2
  <2> QED
    BY <2>1, <2>2 DEF GoError
<1>2. CASE ~g.adbc
  <2>1. x = SetErr([e EXCEPT !.vendor = e.vendor], b)
    BY <1>2 DEF Export, AdbcError
  <2> QED
    BY <1>1, <1>2, <2>1, SetErrFacts, ErrorAssumption DEF AdbcError
<1>3. CASE g.adbc /\ e.vendor # PrivateData
  <2>1. SafeCode(e, g) \in Code /\ SafeCode(e, g) # PrivateData
    BY <1>1, <1>3 DEF SafeCode, AdbcError
  <2>2. x = SetErr([e EXCEPT !.vendor = SafeCode(e, g)], b)
    BY <1>3 DEF Export
  <2> QED
    BY <1>3, <2>1, <2>2, SetErrFacts, ErrorAssumption
<1>4. CASE g.adbc /\ e.vendor = PrivateData /\ CodeOnly(g)
  <2>1. x = SetErr([e EXCEPT !.vendor = g.code], b)
    BY <1>4 DEF Export
  <2>2. g.details = << >>
    BY <1>4 DEF CodeOnly
  <2> QED
    BY <1>1, <1>4, <2>1, <2>2, SetErrFacts, ErrorAssumption
<1>5. CASE g.adbc /\ e.vendor = PrivateData /\ ~CodeOnly(g)
  <2>1. x = WithDetails(e, g, b)
    BY <1>5 DEF Export
  <2>2. /\ x.err = [e EXCEPT !.message = b, !.release = "details", !.private = b]
        /\ x.freed = {} /\ x.details = g.details
    BY <2>1 DEF WithDetails
  <2>3. x.err \in AdbcError /\ x.err.message = b /\ x.err.private = b
        /\ x.err.release = "details"
    BY <2>2 DEF AdbcError, Pointer
  <2> QED
    BY <1>1, <1>5, <2>2, <2>3
<1> QED
  BY <1>1, <1>2, <1>3, <1>4, <1>5

\* What a release callback frees, for a struct whose pointers are good.
LEMMA FreedIs ==
  ASSUME NEW e \in AdbcError,
         e.release = "details" => e.private \in Block
  PROVE  Freed(e) = CASE e.release = "none"    -> {}
                      [] e.release = "plain"   -> {e.message}
                      [] e.release = "details" -> {e.private}
BY ErrorAssumption DEF Freed, HasDetails, AdbcError

\* An exported error will free block b and nothing else.
LEMMA ExportHolds ==
  ASSUME NEW e \in AdbcError, NEW g \in GoError, NEW b \in Block
  PROVE  Freed(Export(e, g, b).err) = {b}
BY ExportFacts, FreedIs

\* What another struct would free is not what this one frees.
LEMMA OthersKeep ==
  ASSUME IInv, NEW h \in Holder, NEW k \in Holder \ {h}
  PROVE  /\ Freed(err[k]) \cap Freed(err[h]) = {}
         /\ k \in Stream => place[k] \notin Freed(err[h])
         /\ err[k].release = "details" =>
              err[k].private \in heap /\ err[k].private \notin Freed(err[h])
<1>1. Held(k) \cap Held(h) = {} /\ Held(k) \subseteq heap
  BY DEF IInv, BlocksAreOwned
<1>2. err[k] \in AdbcError /\ err[h] \in AdbcError
  BY DEF IInv, ErrorTypeOK
<1>3. None \notin Freed(err[h])
  <2>1. Freed(err[h]) \subseteq heap /\ heap \subseteq Block
    BY DEF IInv, BlocksAreOwned, Held, ErrorTypeOK
  <2> QED
    BY <2>1, ErrorAssumption
<1>4. err[k].release = "details" => Freed(err[k]) = {err[k].private}
  BY <1>2, FreedIs DEF IInv, PointsToBlocks
<1> QED
  BY <1>1, <1>3, <1>4 DEF Held

-----------------------------------------------------------------------------
(***************************************************************************)
(* The invariant is inductive.                                             *)
(***************************************************************************)
LEMMA InitIInv == ErrorInit => IInv
<1> SUFFICES ASSUME ErrorInit PROVE IInv
  OBVIOUS
<1> USE DEF ErrorInit
<1>1. \A h \in Holder : /\ err[h] \in AdbcError /\ err[h].release = "none"
                        /\ h \in Old \cup Stream => err[h].vendor = Zero
  BY InitializedIsEmpty, ErrorAssumption
<1>2. ErrorTypeOK
  BY <1>1, ErrorAssumption DEF ErrorTypeOK, AdbcError, Pointer
<1>3. OldStructUntouched /\ OldHasNone /\ PointsToBlocks /\ FailedHasPlace
  BY <1>1, ErrorAssumption
  DEF OldStructUntouched, OldHasNone, PointsToBlocks, FailedHasPlace, Holder
<1>4. \A h \in Holder : Held(h) = {}
  BY <1>1, FreedIs DEF Held
<1>5. BlocksAreOwned /\ DetailsMatch
  BY <1>1, <1>4 DEF BlocksAreOwned, DetailsMatch
<1> QED
  BY <1>2, <1>3, <1>5 DEF IInv

\* A step that changes the struct of h only.
LEMMA OneStruct ==
  ASSUME IInv, NEW h \in Holder, NEW new,
         NEW text, text \in Details,
         err' = [err EXCEPT ![h] = new], new \in AdbcError,
         h \in Old => new.vendor # PrivateData /\ new.release # "details",
         new.release = "plain" => new.message \in Block,
         new.release = "details" => new.private \in Block,
         \A k \in Holder \ {h} :
           err[k].release = "details" => content'[err[k].private] = content[err[k].private],
         due' = [due EXCEPT ![h] = text],
         text = IF new.release = "details" THEN content'[new.private] ELSE << >>
  PROVE  /\ err' \in [Holder -> AdbcError] /\ due' \in [Holder -> Details]
         /\ OldHasNone' /\ PointsToBlocks' /\ DetailsMatch'
<1> USE DEF IInv, ErrorTypeOK
<1>1. err' \in [Holder -> AdbcError] /\ due' \in [Holder -> Details]
  OBVIOUS
<1>2. err'[h] = new /\ due'[h] = text
      /\ \A k \in Holder \ {h} : err'[k] = err[k] /\ due'[k] = due[k]
  OBVIOUS
<1>3. OldHasNone' /\ PointsToBlocks'
  BY <1>2, ErrorAssumption DEF OldHasNone, PointsToBlocks, Holder
<1>4. DetailsMatch'
  BY <1>2 DEF DetailsMatch
<1> QED
  BY <1>1, <1>3, <1>4

\* A step after which h holds fresh blocks, or some of those it held.
LEMMA OneHolder ==
  ASSUME BlocksAreOwned, NEW h \in Holder,
         \A k \in Holder \ {h} : Held(k)' = Held(k),
         heap \ Held(h) \subseteq heap',
         Held(h)' \subseteq heap', Held(h)' \cap (heap \ Held(h)) = {}
  PROVE  BlocksAreOwned'
<1>1. \A k \in Holder \ {h} : Held(k) \subseteq heap \ Held(h)
  BY DEF BlocksAreOwned
<1>2. \A k \in Holder : Held(k)' \subseteq heap'
  BY <1>1
<1>3. \A k \in Holder \ {h} : Held(h)' \cap Held(k)' = {}
  BY <1>1
<1>4. \A j, k \in Holder : j # k => Held(j)' \cap Held(k)' = {}
  BY <1>3 DEF BlocksAreOwned
<1> QED
  BY <1>2, <1>4 DEF BlocksAreOwned

LEMMA CallFailsStep ==
  ASSUME IInv, NEW h \in Error, NEW g \in GoError, NEW b \in Malloc(heap),
         CallFails(h, g, b)
  PROVE  IInv'
<1> DEFINE x == Export(err[h], g, b)
<1>1. b \in Block /\ b \notin heap /\ h \in Holder /\ h \notin Stream
  BY MallocIsFresh, ErrorAssumption DEF Holder
<1>2. err[h] \in AdbcError /\ ErrorTypeOK
  BY <1>1 DEF IInv, ErrorTypeOK
<1>3. /\ x.err \in AdbcError /\ x.err.message = b /\ x.details \in Details
      /\ err[h].vendor # PrivateData => x.err.vendor # PrivateData
      /\ \/ /\ x.err.release = "plain"
            /\ x.freed = Freed(err[h]) /\ (x.past => ReadsPrivate(err[h]))
            /\ err[h].vendor = PrivateData => g.details = << >>
         \/ /\ x.err.release = "details" /\ x.err.private = b
            /\ x.freed = {} /\ x.details = g.details /\ err[h].vendor = PrivateData
  BY <1>1, <1>2, ExportFacts
<1>4. /\ err' = [err EXCEPT ![h] = x.err]
      /\ heap' = (heap \ x.freed) \cup {b}
      /\ content' = [Forget(x.freed) EXCEPT ![b] = x.details]
      /\ past' = IF x.past THEN past \cup ({h} \cap Old) ELSE past
      /\ due' = [due EXCEPT ![h] = IF err[h].vendor = PrivateData
                                     THEN g.details ELSE << >>]
      /\ UNCHANGED << place, open >>
  BY DEF CallFails
<1>5. x.freed \subseteq Freed(err[h]) /\ Freed(err[h]) = Held(h)
  BY <1>1, <1>3 DEF Held
<1>6. content' \in [Block -> Details] /\ content'[b] = x.details
  BY <1>1, <1>2, <1>3, <1>4, ErrorAssumption DEF ErrorTypeOK, Forget
<1>7. \A k \in Holder \ {h} :
        err[k].release = "details" => content'[err[k].private] = content[err[k].private]
  <2> SUFFICES ASSUME NEW k \in Holder \ {h}, err[k].release = "details"
               PROVE  content'[err[k].private] = content[err[k].private]
    OBVIOUS
  <2>1. err[k].private \in heap /\ err[k].private \notin x.freed
    BY <1>1, <1>5, OthersKeep
  <2>2. err[k].private \in Block /\ err[k].private # b
    BY <1>1, <1>2, <2>1 DEF ErrorTypeOK
  <2> QED
    BY <1>4, <2>1, <2>2 DEF Forget
<1>8. h \in Old => x.err.vendor # PrivateData /\ x.err.release # "details"
  BY <1>3 DEF IInv, OldHasNone
<1>9. /\ err' \in [Holder -> AdbcError] /\ due' \in [Holder -> Details]
      /\ OldHasNone' /\ PointsToBlocks' /\ DetailsMatch'
  <2> DEFINE text == IF err[h].vendor = PrivateData THEN g.details ELSE << >>
  <2>1. text = IF x.err.release = "details" THEN content'[x.err.private] ELSE << >>
    BY <1>3, <1>6
  <2>2. text \in Details
    BY <2>1, <1>1, <1>3, <1>6, ErrorAssumption
  <2> HIDE DEF x, text
  <2> QED
    BY <1>1, <1>3, <1>4, <1>7, <1>8, <2>1, <2>2, OneStruct DEF text
<1>10. past' = past
  <2>1. h \in Old => ~ReadsPrivate(err[h]) /\ err[h].vendor # PrivateData
    BY DEF IInv, OldHasNone, ReadsPrivate
  <2>2. CASE h \in Old
    BY <1>3, <1>4, <2>1, <2>2
  <2>3. CASE h \notin Old
    BY <1>4, <2>3
  <2> QED
    BY <2>2, <2>3
<1>11. ErrorTypeOK' /\ OldStructUntouched'
  BY <1>1, <1>2, <1>4, <1>6, <1>9, <1>10 DEF IInv, ErrorTypeOK, OldStructUntouched
<1>12. FailedHasPlace'
  <2>1. \A y \in Stream : err'[y] = err[y]
    BY <1>1, <1>2, <1>4 DEF ErrorTypeOK, Holder
  <2> QED
    BY <1>4, <2>1 DEF IInv, FailedHasPlace
<1>13. BlocksAreOwned'
  <2>1. \A k \in Holder \ {h} : Held(k)' = Held(k)
    BY <1>2, <1>4 DEF ErrorTypeOK, Held, Freed, HasDetails
  <2>2. Held(h)' = {b}
    <3>1. Freed(x.err) = {b}
      BY <1>1, <1>2, ExportHolds
    <3>2. err'[h] = x.err
      BY <1>1, <1>2, <1>4 DEF ErrorTypeOK
    <3>3. Held(h)' = Freed(err'[h])
      BY <1>1 DEF Held, Freed, HasDetails
    <3> QED
      BY <3>1, <3>2, <3>3
  <2> QED
    BY <1>1, <1>4, <1>5, <2>1, <2>2, OneHolder DEF IInv
<1> QED
  BY <1>9, <1>11, <1>12, <1>13 DEF IInv

\* Released content of others stays, and what is freed is forgotten.
LEMMA ForgetKeeps ==
  ASSUME IInv, NEW h \in Holder
  PROVE  /\ Forget(Freed(err[h])) \in [Block -> Details]
         /\ \A k \in Holder \ {h} : err[k].release = "details" =>
              Forget(Freed(err[h]))[err[k].private] = content[err[k].private]
<1>1. Forget(Freed(err[h])) \in [Block -> Details]
  BY ErrorAssumption DEF Forget, IInv, ErrorTypeOK
<1>2. ASSUME NEW k \in Holder \ {h}, err[k].release = "details"
      PROVE  Forget(Freed(err[h]))[err[k].private] = content[err[k].private]
  <2>1. err[k].private \in Block /\ err[k].private \notin Freed(err[h])
    BY <1>2, OthersKeep DEF IInv, PointsToBlocks
  <2> QED
    BY <2>1 DEF Forget
<1> QED
  BY <1>1, <1>2

LEMMA ClientReleasesStep ==
  ASSUME IInv, NEW h \in Error, ClientReleases(h)
  PROVE  IInv'
<1> DEFINE new == Released(err[h])
<1>1. h \in Holder /\ h \notin Stream /\ ErrorTypeOK /\ err[h] \in AdbcError
  BY ErrorAssumption DEF Holder, IInv, ErrorTypeOK
<1>2. new \in AdbcError /\ new.release = "none" /\ new.vendor = err[h].vendor
  BY <1>1, ReleasedIsEmpty
<1>3. /\ err' = [err EXCEPT ![h] = new]
      /\ heap' = heap \ Freed(err[h])
      /\ past' = IF ReadsPrivate(err[h]) THEN past \cup ({h} \cap Old) ELSE past
      /\ content' = Forget(Freed(err[h]))
      /\ due' = [due EXCEPT ![h] = << >>]
      /\ UNCHANGED << place, open >>
  BY DEF ClientReleases
<1>4. h \in Old => new.vendor # PrivateData /\ ~ReadsPrivate(err[h])
  BY <1>2 DEF IInv, OldHasNone, ReadsPrivate
<1>5. /\ err' \in [Holder -> AdbcError] /\ due' \in [Holder -> Details]
      /\ OldHasNone' /\ PointsToBlocks' /\ DetailsMatch'
  <2> HIDE DEF new
  <2> QED
    BY <1>1, <1>2, <1>3, <1>4, ForgetKeeps, OneStruct, ErrorAssumption
<1>6. past' = past
  BY <1>3, <1>4
<1>7. ErrorTypeOK' /\ OldStructUntouched'
  BY <1>1, <1>3, <1>5, <1>6, ForgetKeeps DEF IInv, ErrorTypeOK, OldStructUntouched
<1>8. FailedHasPlace'
  <2>1. \A y \in Stream : err'[y] = err[y]
    BY <1>1, <1>3 DEF ErrorTypeOK, Holder
  <2> QED
    BY <1>3, <2>1 DEF IInv, FailedHasPlace
<1>9. BlocksAreOwned'
  <2>1. \A k \in Holder \ {h} : Held(k)' = Held(k)
    BY <1>1, <1>3 DEF ErrorTypeOK, Held, Freed, HasDetails
  <2>2. Held(h)' = {} /\ Held(h) = Freed(err[h])
    BY <1>1, <1>2, <1>3 DEF ErrorTypeOK, Held, Freed, HasDetails
  <2> QED
    BY <1>1, <1>3, <2>1, <2>2, OneHolder DEF IInv
<1> QED
  BY <1>5, <1>7, <1>8, <1>9 DEF IInv

LEMMA ClientInitializesStep ==
  ASSUME IInv, NEW h \in Error, NEW v \in {Zero, PrivateData}, ClientInitializes(h, v)
  PROVE  IInv'
<1> DEFINE new == Initialized(v)
<1>1. h \in Holder /\ h \notin Stream /\ ErrorTypeOK /\ err[h] \in AdbcError
  BY ErrorAssumption DEF Holder, IInv, ErrorTypeOK
<1>2. new \in AdbcError /\ new.release = "none" /\ new.vendor = v
  BY InitializedIsEmpty, ErrorAssumption
<1>3. /\ err[h].release = "none" /\ (h \in Old => v = Zero)
      /\ err' = [err EXCEPT ![h] = new]
      /\ UNCHANGED << place, open, heap, content, past, due >>
  BY DEF ClientInitializes
<1>4. due' = [due EXCEPT ![h] = << >>]
  BY <1>1, <1>3 DEF IInv, DetailsMatch, ErrorTypeOK
<1>5. /\ err' \in [Holder -> AdbcError] /\ due' \in [Holder -> Details]
      /\ OldHasNone' /\ PointsToBlocks' /\ DetailsMatch'
  <2> HIDE DEF new
  <2> QED
    BY <1>1, <1>2, <1>3, <1>4, OneStruct, ErrorAssumption
<1>6. ErrorTypeOK' /\ OldStructUntouched'
  BY <1>1, <1>3, <1>5 DEF IInv, ErrorTypeOK, OldStructUntouched
<1>7. FailedHasPlace'
  <2>1. \A y \in Stream : err'[y] = err[y]
    BY <1>1, <1>3 DEF ErrorTypeOK, Holder
  <2> QED
    BY <1>3, <2>1 DEF IInv, FailedHasPlace
<1>8. BlocksAreOwned'
  <2>1. \A k \in Holder \ {h} : Held(k)' = Held(k)
    BY <1>1, <1>3 DEF ErrorTypeOK, Held, Freed, HasDetails
  <2>2. Held(h)' = {}
    BY <1>1, <1>2, <1>3 DEF ErrorTypeOK, Held, Freed, HasDetails
  <2> QED
    BY <1>1, <1>3, <2>1, <2>2, OneHolder DEF IInv
<1> QED
  BY <1>5, <1>6, <1>7, <1>8 DEF IInv

\* Opening a stream or reading a struct disturbs nothing.
LEMMA StructsUnmoved ==
  ASSUME IInv, UNCHANGED << err, place, heap, content, past, due >>,
         open \subseteq open', open' \subseteq Stream
  PROVE  IInv'
<1>1. ErrorTypeOK' /\ OldStructUntouched'
  BY DEF IInv, ErrorTypeOK, OldStructUntouched
<1>2. OldHasNone' /\ PointsToBlocks'
  BY DEF IInv, OldHasNone, PointsToBlocks
<1>3. FailedHasPlace' /\ DetailsMatch'
  BY DEF IInv, FailedHasPlace, DetailsMatch
<1>4. \A h \in Holder : Held(h)' = Held(h)
  BY DEF Held, Freed, HasDetails
<1>5. BlocksAreOwned'
  BY <1>4 DEF IInv, BlocksAreOwned
<1> QED
  BY <1>1, <1>2, <1>3, <1>5 DEF IInv

LEMMA ClientReadsDetailsStep ==
  ASSUME IInv, NEW h \in Error, ClientReadsDetails(h)
  PROVE  IInv'
<1>1. past' = past
  BY DEF ClientReadsDetails, IInv, OldHasNone, ReadsPrivate
<1> QED
  BY <1>1, StructsUnmoved DEF ClientReadsDetails, IInv, ErrorTypeOK

LEMMA StreamOpensStep ==
  ASSUME IInv, NEW x \in Stream, StreamOpens(x)
  PROVE  IInv'
BY StructsUnmoved DEF StreamOpens, IInv, ErrorTypeOK

LEMMA StreamReleasesStep ==
  ASSUME IInv, NEW x \in Stream, StreamReleases(x)
  PROVE  IInv'
<1> DEFINE new == Initialized(Zero)
<1>1. x \in Holder /\ x \notin Old /\ ErrorTypeOK /\ err[x] \in AdbcError
  BY ErrorAssumption DEF Holder, IInv, ErrorTypeOK
<1>2. new \in AdbcError /\ new.release = "none"
  BY InitializedIsEmpty, ErrorAssumption
<1>3. /\ open' = open \ {x}
      /\ heap' = heap \ (Freed(err[x]) \cup {place[x]})
      /\ content' = Forget(Freed(err[x]))
      /\ err' = [err EXCEPT ![x] = new]
      /\ place' = [place EXCEPT ![x] = None]
      /\ due' = [due EXCEPT ![x] = << >>]
      /\ past' = past
  BY DEF StreamReleases
<1>4. /\ err' \in [Holder -> AdbcError] /\ due' \in [Holder -> Details]
      /\ OldHasNone' /\ PointsToBlocks' /\ DetailsMatch'
  <2> HIDE DEF new
  <2> QED
    BY <1>1, <1>2, <1>3, ForgetKeeps, OneStruct, ErrorAssumption
<1>5. ErrorTypeOK' /\ OldStructUntouched'
  BY <1>1, <1>3, <1>4, ForgetKeeps DEF IInv, ErrorTypeOK, OldStructUntouched, Pointer
<1>6. FailedHasPlace'
  BY <1>1, <1>2, <1>3 DEF IInv, ErrorTypeOK, FailedHasPlace
<1>7. BlocksAreOwned'
  <2>1. \A k \in Holder \ {x} : Held(k)' = Held(k)
    BY <1>1, <1>3 DEF ErrorTypeOK, Held, Freed, HasDetails
  <2>2. Held(x)' = {}
    BY <1>1, <1>2, <1>3 DEF ErrorTypeOK, Held, Freed, HasDetails
  <2>3. heap \ Held(x) \subseteq heap'
    <3>1. None \notin heap
      BY <1>1, ErrorAssumption DEF ErrorTypeOK
    <3> QED
      BY <1>1, <1>3, <3>1 DEF Held
  <2> QED
    BY <1>1, <2>1, <2>2, <2>3, OneHolder DEF IInv
<1> QED
  BY <1>4, <1>5, <1>6, <1>7 DEF IInv

LEMMA StreamFailsStep ==
  ASSUME IInv, NEW x \in Stream, NEW g \in GoError, NEW a \in Malloc(heap),
         NEW b \in Malloc(heap \cup {a}), StreamFails(x, g, a, b)
  PROVE  IInv'
<1> DEFINE first == place[x] = None
           clean == IF first THEN Initialized(Zero) ELSE Released(err[x])
           e     == AsksForDetails(clean)
           y     == Export(e, g, b)
<1>1. /\ x \in Holder /\ x \notin Old /\ ErrorTypeOK /\ err[x] \in AdbcError
      /\ a \in Block /\ a \notin heap /\ b \in Block /\ b \notin heap /\ b # a
  BY MallocIsFresh, ErrorAssumption DEF Holder, IInv, ErrorTypeOK
<1>2. clean \in AdbcError
  BY <1>1, InitializedIsEmpty, ReleasedIsEmpty, ErrorAssumption
<1>3. e \in AdbcError /\ e.vendor = PrivateData
  BY <1>2, ErrorAssumption DEF AsksForDetails, AdbcError
<1>4. /\ y.err \in AdbcError /\ y.err.message = b /\ y.details \in Details
      /\ \/ y.err.release = "plain" /\ g.details = << >>
         \/ /\ y.err.release = "details" /\ y.err.private = b
            /\ y.details = g.details
  BY <1>1, <1>3, ExportFacts
<1>5. /\ x \in open
      /\ place' = IF first THEN [place EXCEPT ![x] = a] ELSE place
      /\ err' = [err EXCEPT ![x] = y.err]
      /\ heap' = (heap \ Freed(err[x])) \cup {b, place'[x]}
      /\ content' = [Forget(Freed(err[x])) EXCEPT ![b] = y.details]
      /\ due' = [due EXCEPT ![x] = g.details]
      /\ UNCHANGED << open, past >>
  BY DEF StreamFails
<1>6. content' \in [Block -> Details] /\ content'[b] = y.details
  BY <1>1, <1>4, <1>5, ForgetKeeps
<1>7. \A k \in Holder \ {x} :
        err[k].release = "details" => content'[err[k].private] = content[err[k].private]
  <2> SUFFICES ASSUME NEW k \in Holder \ {x}, err[k].release = "details"
               PROVE  content'[err[k].private] = content[err[k].private]
    OBVIOUS
  <2>1. err[k].private \in heap /\ err[k].private \notin Freed(err[x])
    BY <1>1, OthersKeep
  <2>2. err[k].private \in Block /\ err[k].private # b
    BY <1>1, <2>1 DEF ErrorTypeOK
  <2> QED
    BY <1>1, <1>5, <2>1, <2>2, ForgetKeeps
<1>8. /\ err' \in [Holder -> AdbcError] /\ due' \in [Holder -> Details]
      /\ OldHasNone' /\ PointsToBlocks' /\ DetailsMatch'
  <2>1. g.details = IF y.err.release = "details" THEN content'[y.err.private] ELSE << >>
    BY <1>4, <1>6
  <2>2. g.details \in Details
    BY <1>1, <1>4, <1>6, <2>1, ErrorAssumption
  <2> HIDE DEF y
  <2> QED
    BY <1>1, <1>4, <1>5, <1>7, <2>1, <2>2, OneStruct
<1>9. place'[x] \in Block /\ (\A k \in Stream \ {x} : place'[k] = place[k])
      /\ place' \in [Stream -> Pointer] /\ (~first => place'[x] \in Held(x))
  BY <1>1, <1>5 DEF ErrorTypeOK, Pointer, Held
<1>10. ErrorTypeOK' /\ OldStructUntouched'
  BY <1>1, <1>5, <1>6, <1>8, <1>9 DEF IInv, ErrorTypeOK, OldStructUntouched
<1>11. FailedHasPlace'
  <2>1. \A k \in Stream \ {x} : err'[k] = err[k] /\ place'[k] = place[k]
    BY <1>1, <1>5, <1>9 DEF ErrorTypeOK, Holder
  <2> QED
    BY <1>5, <1>9, <2>1, ErrorAssumption DEF IInv, FailedHasPlace
<1>12. BlocksAreOwned'
  <2>1. \A k \in Holder \ {x} : Held(k)' = Held(k)
    BY <1>1, <1>5, <1>9 DEF ErrorTypeOK, Held, Freed, HasDetails
  <2>2. Held(x)' = {b, place'[x]}
    <3>1. Freed(y.err) = {b}
      BY <1>1, <1>3, ExportHolds
    <3>2. err'[x] = y.err
      BY <1>1, <1>5 DEF ErrorTypeOK
    <3>3. Held(x)' = Freed(err'[x]) \cup {place'[x]}
      BY <1>1, <1>9, ErrorAssumption DEF Held, Freed, HasDetails
    <3> QED
      BY <3>1, <3>2, <3>3
  <2>3. place'[x] \notin heap \ Held(x)
    BY <1>1, <1>5, <1>9 DEF ErrorTypeOK
  <2>4. heap \ Held(x) \subseteq heap'
    BY <1>5 DEF Held
  <2> QED
    BY <1>1, <1>5, <2>1, <2>2, <2>3, <2>4, OneHolder DEF IInv
<1> QED
  BY <1>8, <1>10, <1>11, <1>12 DEF IInv

LEMMA NextIInv == IInv /\ [ErrorNext]_errorVars => IInv'
<1> SUFFICES ASSUME IInv, [ErrorNext]_errorVars PROVE IInv'
  OBVIOUS
<1>1. CASE UNCHANGED errorVars
  <2>1. open \subseteq open' /\ open' \subseteq Stream
    BY <1>1 DEF errorVars, IInv, ErrorTypeOK
  <2> QED
    BY <1>1, <2>1, StructsUnmoved DEF errorVars
<1>2. ASSUME NEW h \in Error,
             \/ ClientReleases(h)
             \/ ClientReadsDetails(h)
             \/ \E v \in {Zero, PrivateData} : ClientInitializes(h, v)
             \/ \E g \in GoError, b \in Malloc(heap) : CallFails(h, g, b)
      PROVE  IInv'
  BY <1>2, ClientReleasesStep, ClientReadsDetailsStep, ClientInitializesStep,
     CallFailsStep
<1>3. ASSUME NEW x \in Stream,
             \/ StreamOpens(x)
             \/ StreamReleases(x)
             \/ \E g \in GoError, a \in Malloc(heap) :
                  \E b \in Malloc(heap \cup {a}) : StreamFails(x, g, a, b)
      PROVE  IInv'
  BY <1>3, StreamOpensStep, StreamReleasesStep, StreamFailsStep
<1> QED
  BY <1>1, <1>2, <1>3 DEF ErrorNext

THEOREM Invariance == ErrorSpec => []IInv
BY InitIInv, NextIInv, PTL DEF ErrorSpec

-----------------------------------------------------------------------------
(***************************************************************************)
(* ErrorExport: the properties.                                            *)
(***************************************************************************)

\* The structs, the heap and the streams keep their types.
THEOREM ErrorTypeCorrect == ErrorSpec => []ErrorTypeOK
<1>1. IInv => ErrorTypeOK
  BY DEF IInv
<1> QED
  BY <1>1, Invariance, PTL

\* setErr and setErrWithDetails never touch what a 1.0.0 struct does not have.
THEOREM OldStructCorrect == ErrorSpec => []OldStructUntouched
<1>1. IInv => OldStructUntouched
  BY DEF IInv
<1> QED
  BY <1>1, Invariance, PTL

\* The release callbacks free each block once, and no freed block is used.
THEOREM BlocksCorrect == ErrorSpec => []BlocksAreOwned
<1>1. IInv => BlocksAreOwned
  BY DEF IInv
<1> QED
  BY <1>1, Invariance, PTL

\* GizmoSQLErrorGetDetailCount and GizmoSQLErrorGetDetail give the details of the
\* last error the struct was asked to carry.
THEOREM DetailsCorrect == ErrorSpec => []DetailsAreCurrent
<1>1. ASSUME IInv, NEW h \in Holder
      PROVE  /\ DetailCount(err[h]) = Len(due[h])
             /\ \A i \in -1 .. Len(due[h]) :
                  GetDetail(err[h], i) =
                    IF i \in 0 .. Len(due[h]) - 1 THEN << due[h][i + 1] >> ELSE << >>
  <2>1. due[h] \in Seq(Nat)
    <3>1. due[h] \in Details
      BY <1>1 DEF IInv, ErrorTypeOK
    <3> QED
      BY <3>1, ErrorAssumption
  <2>2. due[h] = IF HasDetails(err[h]) THEN content[err[h].private] ELSE << >>
    <3>1. HasDetails(err[h]) <=> err[h].release = "details"
      BY <1>1, ErrorAssumption DEF IInv, PointsToBlocks, HasDetails
    <3> QED
      BY <1>1, <3>1 DEF IInv, DetailsMatch
  <2>3. DetailCount(err[h]) = Len(due[h])
    BY <2>2 DEF DetailCount
  <2>4. ASSUME NEW i \in -1 .. Len(due[h])
        PROVE  GetDetail(err[h], i) =
                 IF i \in 0 .. Len(due[h]) - 1 THEN << due[h][i + 1] >> ELSE << >>
    <3>1. CASE HasDetails(err[h])
      BY <2>1, <2>2, <2>3, <3>1 DEF GetDetail
    <3>2. CASE ~HasDetails(err[h])
      BY <2>2, <3>2 DEF GetDetail
    <3> QED
      BY <3>1, <3>2
  <2> QED
    BY <2>3, <2>4
<1>2. IInv => DetailsAreCurrent
  BY <1>1 DEF DetailsAreCurrent
<1> QED
  BY <1>2, Invariance, PTL

LEMMA LostStep ==
  ASSUME IInv, [ErrorNext]_errorVars
  PROVE  \/ Lost' \subseteq Lost
         \/ \E h \in Error : /\ err[h].release # "none"
                             /\ err[h].vendor = PrivateData
                             /\ err'[h].release = "details"
<1>1. ErrorTypeOK /\ None \notin heap
  BY ErrorAssumption DEF IInv, ErrorTypeOK
<1>2. ASSUME UNCHANGED << err, place, heap >> PROVE Lost' \subseteq Lost
  BY <1>2 DEF Lost, Held, Freed, HasDetails
<1>3. ASSUME NEW h \in Holder, NEW freed,
             \A k \in Holder \ {h} : Held(k)' = Held(k),
             heap' \subseteq (heap \ freed) \cup Held(h)', Held(h) \cap heap \subseteq freed \cup Held(h)'
      PROVE  Lost' \subseteq Lost
  <2> SUFFICES ASSUME NEW c \in Lost' PROVE c \in Lost
    OBVIOUS
  <2>1. c \in heap' /\ \A k \in Holder : c \notin Held(k)'
    BY DEF Lost
  <2>2. c \in heap /\ c \notin freed
    BY <1>3, <2>1
  <2>3. \A k \in Holder : c \notin Held(k)
    BY <1>3, <2>1, <2>2
  <2> QED
    BY <2>2, <2>3 DEF Lost
<1>4. ASSUME NEW h \in Holder, NEW new, err' = [err EXCEPT ![h] = new],
             \A k \in Stream \ {h} : place'[k] = place[k]
      PROVE  \A k \in Holder \ {h} : Held(k)' = Held(k)
  BY <1>1, <1>4 DEF Held, Freed, HasDetails, ErrorTypeOK
<1>5. ASSUME NEW h \in Error, ClientReleases(h) PROVE Lost' \subseteq Lost
  <2>1. h \in Holder /\ h \notin Stream /\ Held(h) = Freed(err[h])
    BY ErrorAssumption DEF Holder, Held
  <2>2. \A k \in Holder \ {h} : Held(k)' = Held(k)
    BY <1>4, <1>5, <2>1 DEF ClientReleases
  <2>3. heap' \subseteq (heap \ Freed(err[h])) \cup Held(h)'
    BY <1>5 DEF ClientReleases
  <2>4. Held(h) \cap heap \subseteq Freed(err[h]) \cup Held(h)'
    BY <2>1
  <2> QED
    BY <1>3, <2>1, <2>2, <2>3, <2>4
<1>6. ASSUME NEW h \in Error, NEW v, ClientInitializes(h, v) PROVE Lost' \subseteq Lost
  <2>1. h \in Holder /\ h \notin Stream /\ err[h] \in AdbcError
    BY <1>1, ErrorAssumption DEF Holder, ErrorTypeOK
  <2>2. Held(h) = {}
    BY <1>6, <2>1, FreedIs DEF Held, ClientInitializes
  <2>3. \A k \in Holder \ {h} : Held(k)' = Held(k)
    BY <1>4, <1>6, <2>1 DEF ClientInitializes
  <2> QED
    BY <1>3, <1>6, <2>1, <2>2, <2>3 DEF ClientInitializes
<1>7. ASSUME NEW h \in Error, NEW g \in GoError, NEW b \in Malloc(heap),
             CallFails(h, g, b),
             ~ /\ err[h].release # "none" /\ err[h].vendor = PrivateData
               /\ err'[h].release = "details"
      PROVE  Lost' \subseteq Lost
  <2> DEFINE x == Export(err[h], g, b)
  <2>1. h \in Holder /\ h \notin Stream /\ err[h] \in AdbcError /\ b \in Block
    BY <1>1, MallocIsFresh, ErrorAssumption DEF Holder, ErrorTypeOK
  <2>2. Held(h) = Freed(err[h]) /\ Held(h)' = {b} /\ err'[h] = x.err
    <3>1. err'[h] = x.err
      BY <1>1, <1>7, <2>1 DEF CallFails, ErrorTypeOK
    <3>2. Freed(x.err) = {b}
      BY <2>1, ExportHolds
    <3>3. Held(h) = Freed(err[h]) /\ Held(h)' = Freed(err'[h])
      BY <2>1 DEF Held, Freed, HasDetails
    <3> QED
      BY <3>1, <3>2, <3>3
  <2>3. \A k \in Holder \ {h} : Held(k)' = Held(k)
    <3>1. err' = [err EXCEPT ![h] = x.err] /\ place' = place
      BY <1>7 DEF CallFails
    <3> HIDE DEF x
    <3> QED
      BY <1>4, <2>1, <3>1
  <2>4. Freed(err[h]) \subseteq x.freed
    <3>1. CASE err[h].release = "none"
      BY <2>1, <3>1, FreedIs
    <3>2. CASE err[h].release # "none"
      BY <1>7, <2>1, <2>2, <3>2, ExportFacts
    <3> QED
      BY <3>1, <3>2
  <2>5. heap' = (heap \ x.freed) \cup {b}
    BY <1>7 DEF CallFails
  <2> HIDE DEF x
  <2> QED
    BY <1>3, <2>1, <2>2, <2>3, <2>4, <2>5
<1>8. ASSUME NEW x \in Stream, StreamReleases(x) PROVE Lost' \subseteq Lost
  <2>1. x \in Holder
    BY DEF Holder
  <2>2. \A k \in Holder \ {x} : Held(k)' = Held(k)
    <3>1. \A k \in Stream \ {x} : place'[k] = place[k]
      BY <1>1, <1>8 DEF StreamReleases, ErrorTypeOK
    <3> QED
      BY <1>4, <1>8, <2>1, <3>1 DEF StreamReleases
  <2>3. heap' \subseteq (heap \ (Freed(err[x]) \cup {place[x]})) \cup Held(x)'
    BY <1>8 DEF StreamReleases
  <2>4. Held(x) \cap heap \subseteq (Freed(err[x]) \cup {place[x]}) \cup Held(x)'
    BY DEF Held
  <2> QED
    BY <1>3, <2>1, <2>2, <2>3, <2>4
<1>9. ASSUME NEW x \in Stream, NEW g \in GoError, NEW a \in Malloc(heap),
             NEW b \in Malloc(heap \cup {a}), StreamFails(x, g, a, b)
      PROVE  Lost' \subseteq Lost
  <2> DEFINE e == AsksForDetails(IF place[x] = None THEN Initialized(Zero)
                                                    ELSE Released(err[x]))
  <2>1. x \in Holder /\ err[x] \in AdbcError /\ a \in Block /\ b \in Block
    BY <1>1, MallocIsFresh DEF Holder, ErrorTypeOK
  <2>2. e \in AdbcError
    BY <2>1, InitializedIsEmpty, ReleasedIsEmpty, ErrorAssumption
    DEF AsksForDetails, AdbcError
  <2>3. /\ err' = [err EXCEPT ![x] = Export(e, g, b).err]
        /\ place' = IF place[x] = None THEN [place EXCEPT ![x] = a] ELSE place
        /\ heap' = (heap \ Freed(err[x])) \cup {b, place'[x]}
    BY <1>9 DEF StreamFails
  <2>4. place'[x] \in Block /\ \A k \in Stream \ {x} : place'[k] = place[k]
    BY <1>1, <2>1, <2>3 DEF ErrorTypeOK, Pointer
  <2>5. Held(x)' = {b, place'[x]}
    <3>1. err'[x] = Export(e, g, b).err
      BY <1>1, <2>1, <2>3 DEF ErrorTypeOK
    <3>2. Held(x)' = Freed(err'[x]) \cup {place'[x]}
      BY <2>4, ErrorAssumption DEF Held, Freed, HasDetails
    <3> QED
      BY <2>1, <2>2, <3>1, <3>2, ExportHolds
  <2>6. Held(x) \subseteq Freed(err[x]) \cup Held(x)'
    BY <1>1, <2>1, <2>3, <2>5 DEF Held, ErrorTypeOK
  <2>7. \A k \in Holder \ {x} : Held(k)' = Held(k)
    <3> HIDE DEF e
    <3> QED
      BY <1>4, <2>1, <2>3, <2>4
  <2> QED
    BY <1>3, <2>1, <2>3, <2>5, <2>6, <2>7
<1>10. CASE UNCHANGED errorVars
  BY <1>2, <1>10 DEF errorVars
<1>11. CASE ErrorNext
  <2>1. ASSUME NEW h \in Error, ClientReadsDetails(h) PROVE Lost' \subseteq Lost
    BY <1>2, <2>1 DEF ClientReadsDetails
  <2>2. ASSUME NEW x \in Stream, StreamOpens(x) PROVE Lost' \subseteq Lost
    BY <1>2, <2>2 DEF StreamOpens
  <2> QED
    BY <1>5, <1>6, <1>7, <1>8, <1>9, <1>11, <2>1, <2>2 DEF ErrorNext
<1> QED
  BY <1>10, <1>11

\* The only way to lose memory is to reuse a struct with details unreleased.
THEOREM LostCorrect == ErrorSpec => LostOnlyByReuse
<1>1. IInv /\ [ErrorNext]_errorVars =>
        [Lost' \subseteq Lost \/ \E h \in Error : /\ err[h].release # "none"
                                                /\ err[h].vendor = PrivateData
                                                /\ err'[h].release = "details"]_errorVars
  BY LostStep
<1> QED
  BY <1>1, Invariance, PTL DEF ErrorSpec, LostOnlyByReuse

-----------------------------------------------------------------------------
(***************************************************************************)
(* DriverTable: the inductive invariant.                                   *)
(***************************************************************************)
\* The table is untouched until a version is accepted, and then has its fields.
SlotsFollow ==
  \A f \in Field :
    slot[f] = IF version = 0 \/ f \notin InStruct(version) THEN "undefined"
              ELSE IF f = "release" THEN "NULL" ELSE f

\* Only unknown versions are refused, so the best known one is accepted.
BestAccepted ==
  /\ \A v \in refused : ~Known(v)
  /\ version # 0 => version <= header /\ (header >= V110 => version = V110)

TableInv == TableTypeOK /\ SlotsFollow /\ BestAccepted /\ NoWriteOverGarbage

LEMMA StructsGrow ==
  /\ "release" \in Fields100
  /\ \A v \in Nat : Fields100 \subseteq InStruct(v) /\ InStruct(v) \subseteq Field
BY DEF InStruct, Field, Fields100

LEMMA TableInitInv == TableInit => TableInv
BY DEF TableInit, TableInv, TableTypeOK, SlotsFollow, BestAccepted, NoWriteOverGarbage

LEMMA DriverInitStep ==
  ASSUME TableInv, NEW v \in Version, DriverInit(v)
  PROVE  TableInv'
<1>1. /\ version = 0 /\ version' = v /\ slot' = FilledTable(v) /\ v \in {V100, V110}
      /\ UNCHANGED << header, refused, dirty >>
      /\ v <= header /\ \A w \in Version : v < w /\ w <= header => w \in refused
  BY DEF DriverInit, Asks, Known
<1>2. v # 0 /\ header \in Nat
  BY <1>1, VersionAssumption DEF V100, V110, TableInv, TableTypeOK
<1>3. \A f \in Field : slot[f] = "undefined"
  BY <1>1 DEF TableInv, SlotsFollow
<1>4. SlotsFollow'
  <2> SUFFICES ASSUME NEW f \in Field
               PROVE  slot'[f] = IF v = 0 \/ f \notin InStruct(v) THEN "undefined"
                                 ELSE IF f = "release" THEN "NULL" ELSE f
    BY <1>1 DEF SlotsFollow, InStruct
  <2>1. "release" \in InStruct(v)
    BY StructsGrow, VersionAssumption
  <2> QED
    BY <1>1, <1>2, <1>3, <2>1 DEF FilledTable
<1>5. header >= V110 => v = V110
  <2>1. V110 \notin refused
    BY DEF TableInv, BestAccepted, Known
  <2> QED
    BY <1>1, <1>2, <2>1, VersionAssumption DEF V100, V110
<1>6. TableTypeOK'
  <2>1. \A f \in Field : slot'[f] \in Field \cup {"NULL", "undefined"}
    BY <1>1, <1>3 DEF FilledTable
  <2>2. slot' = [f \in Field |-> slot'[f]]
    BY <1>1 DEF FilledTable
  <2> QED
    BY <1>1, <2>1, <2>2 DEF TableInv, TableTypeOK
<1> QED
  BY <1>1, <1>4, <1>5, <1>6 DEF TableInv, BestAccepted, NoWriteOverGarbage

LEMMA DriverInitRefusesStep ==
  ASSUME TableInv, NEW v \in Version, DriverInitRefuses(v)
  PROVE  TableInv'
BY DEF DriverInitRefuses, Asks, Known, TableInv, TableTypeOK, SlotsFollow,
       BestAccepted, NoWriteOverGarbage, InStruct

\* utils.c zeroes every struct the driver fills.
LEMMA SymbolsZero == \A f \in Fills : Symbol(f).zeroes
<1> SUFFICES ASSUME NEW f \in Fills PROVE Symbol(f).zeroes
  OBVIOUS
<1> DEFINE OfConnection == f \in Connection100 \cup Connection110
           OfStatement  == f \in Statement100 \cup Statement110
<1>1. f \notin Error110 /\ f \notin Database100 \cup Database110
  BY DEF Fills, Callback, Error110, Database100, Database110
<1>2. OfConnection => ~OfStatement
  BY DEF Fills, Callback, Connection100, Connection110, Statement100, Statement110
<1>3. f \in Callback => ~OfConnection /\ ~OfStatement
  BY DEF Callback, Connection100, Connection110, Statement100, Statement110
<1>4. OfConnection \/ OfStatement \/ f \in Callback
  BY DEF Fills, Connection100, Statement100, Statement110
<1>5. CASE OfConnection
  <2>1. Symbol(f) = ConnectionSymbol(f)
    BY <1>1, <1>2, <1>3, <1>5 DEF Symbol
  <2>2. f \in { "ConnectionGetInfo", "ConnectionGetObjects", "ConnectionGetTableSchema",
                "ConnectionGetTableTypes", "ConnectionReadPartition" }
    BY <1>5 DEF Fills, Callback, Connection100, Connection110
  <2>3. ConnectionSymbol(f) = Forward(f, TRUE)
    BY <2>2 DEF ConnectionSymbol
  <2> QED
    BY <2>1, <2>3 DEF Forward
<1>6. CASE OfStatement
  <2>1. Symbol(f) = StatementSymbol(f)
    BY <1>1, <1>2, <1>3, <1>6 DEF Symbol
  <2>2. f \in { "StatementExecuteQuery", "StatementExecuteSchema",
                "StatementGetParameterSchema", "StatementExecutePartitions" }
    BY <1>6 DEF Fills, Callback, Statement100, Statement110
  <2>3. StatementSymbol(f) = Forward(f, TRUE)
    BY <2>2 DEF StatementSymbol
  <2> QED
    BY <2>1, <2>3 DEF Forward
<1>7. CASE f \in Callback
  <2>1. Symbol(f) = StreamCallback(f)
    BY <1>1, <1>3, <1>7 DEF Symbol
  <2> QED
    BY <2>1 DEF StreamCallback, Forward
<1> QED
  BY <1>4, <1>5, <1>6, <1>7

LEMMA CallBySymbolStep ==
  ASSUME TableInv, NEW f \in Fills, NEW clean \in BOOLEAN, CallBySymbol(f, clean)
  PROVE  TableInv'
<1>1. UNCHANGED tableVars
  BY SymbolsZero DEF CallBySymbol, tableVars
<1> QED
  BY <1>1 DEF tableVars, TableInv, TableTypeOK, SlotsFollow, BestAccepted,
              NoWriteOverGarbage, InStruct

-----------------------------------------------------------------------------
(***************************************************************************)
(* Every step of Abi is one of the table, one of the errors, or both.      *)
(***************************************************************************)
LEMMA UsableIsError == Usable \subseteq Error
BY ErrorAssumption DEF Usable

LEMMA ErrorPart == Next => [ErrorNext]_errorVars
<1> SUFFICES ASSUME Next PROVE [ErrorNext]_errorVars
  OBVIOUS
<1>1. ASSUME NEW v \in Version, Load(v) PROVE [ErrorNext]_errorVars
  <2>1. Other \in GoError
    BY DEF GoError
  <2> QED
    BY <1>1, <2>1, UsableIsError DEF Load, ErrorNext
<1>2. ASSUME NEW f \in Fills, NEW clean \in BOOLEAN, Succeeds(f, clean)
      PROVE  [ErrorNext]_errorVars
  BY <1>2 DEF Succeeds
<1>3. ASSUME NEW h \in Usable, Fails(h) \/ ReadsDetails(h) \/ ErrorOf(h)
      PROVE  ErrorNext
  BY <1>3, UsableIsError DEF Fails, ReadsDetails, ErrorOf, ErrorNext
<1>4. ASSUME NEW x \in Stream, StreamOf(x) PROVE ErrorNext
  BY <1>4 DEF StreamOf, ErrorNext
<1> QED
  BY <1>1, <1>2, <1>3, <1>4 DEF Next

LEMMA TablePart == TableInv /\ [Next]_vars => TableInv'
<1> SUFFICES ASSUME TableInv, [Next]_vars PROVE TableInv'
  OBVIOUS
<1>1. ASSUME NEW v \in Version, Load(v) PROVE TableInv'
  BY <1>1, DriverInitStep, DriverInitRefusesStep DEF Load
<1>2. ASSUME NEW f \in Fills, NEW clean \in BOOLEAN, Succeeds(f, clean) PROVE TableInv'
  BY <1>2, CallBySymbolStep DEF Succeeds
<1>3. ASSUME UNCHANGED tableVars PROVE TableInv'
  BY <1>3 DEF tableVars, TableInv, TableTypeOK, SlotsFollow, BestAccepted,
              NoWriteOverGarbage, InStruct
<1> QED
  BY <1>1, <1>2, <1>3 DEF Next, vars, Fails, ReadsDetails, ErrorOf, StreamOf

\* The errors of a loaded driver are those of ErrorExport, with all its theorems.
THEOREM ErrorsOfAbi == Spec => ErrorSpec
<1>1. Init => ErrorInit
  BY DEF Init
<1>2. [Next]_vars => [ErrorNext]_errorVars
  BY ErrorPart DEF vars
<1> QED
  BY <1>1, <1>2, PTL DEF Spec, ErrorSpec

THEOREM TableInvariance == Spec => []TableInv
<1>1. Init => TableInv
  BY TableInitInv DEF Init
<1> QED
  BY <1>1, TablePart, PTL DEF Spec

\* The table and the errors keep their types.
THEOREM TypeCorrect == Spec => []TypeOK
<1>1. TableInv /\ ErrorTypeOK => TypeOK
  BY DEF TableInv, TypeOK
<1> QED
  BY <1>1, TableInvariance, ErrorsOfAbi, ErrorTypeCorrect, PTL

\* AdbcDriverGizmoSQLInit gives every client all the functions both know.
THEOREM CallsCorrect == Spec => []CallsArrive
<1>1. ASSUME TableInv, version # 0, NEW f \in Function \cap InStruct(header)
      PROVE  slot[f] = f
  <2>1. header \in Nat /\ version \in Nat
    BY <1>1, VersionAssumption DEF TableInv, TableTypeOK, V100, V110
  <2>2. f \in InStruct(version)
    <3>1. CASE header < V110
      BY <1>1, <2>1, <3>1, StructsGrow DEF InStruct
    <3>2. CASE header >= V110
      BY <1>1, <2>1, <3>2 DEF TableInv, BestAccepted, InStruct, V110
    <3> QED
      BY <2>1, <3>1, <3>2 DEF V110
  <2>3. f # "release" /\ f \in Field
    BY DEF Function
  <2> QED
    BY <1>1, <2>2, <2>3 DEF TableInv, SlotsFollow
<1>2. TableInv => CallsArrive
  BY <1>1 DEF CallsArrive
<1> QED
  BY <1>2, TableInvariance, PTL

\* AdbcDriverGizmoSQLInit writes nothing beyond the struct of an old client.
THEOREM WritesCorrect == Spec => []WritesStayInStruct
<1>1. ASSUME TableInv, NEW f \in Field, slot[f] # "undefined"
      PROVE  version # 0 /\ f \in InStruct(header) /\ f \in InStruct(version)
  <2>1. version # 0 /\ f \in InStruct(version)
    BY <1>1 DEF TableInv, SlotsFollow
  <2>2. header \in Nat /\ version \in Nat /\ version <= header
    BY <1>1, <2>1, VersionAssumption
    DEF TableInv, TableTypeOK, BestAccepted, V100, V110
  <2>3. f \in InStruct(header)
    BY <2>1, <2>2, StructsGrow DEF InStruct, V110
  <2> QED
    BY <2>1, <2>3
<1>2. TableInv => WritesStayInStruct
  BY <1>1 DEF WritesStayInStruct
<1> QED
  BY <1>2, TableInvariance, PTL

\* Both: whatever the client's header, its table fits it.
THEOREM TableFitsCorrect == Spec => []TableFits
<1>1. CallsArrive /\ WritesStayInStruct => TableFits
  BY DEF TableFits
<1> QED
  BY <1>1, CallsCorrect, WritesCorrect, PTL

\* The symbols of utils.c never let Go write pointers over garbage.
THEOREM ZeroedCorrect == Spec => []NoWriteOverGarbage
<1>1. TableInv => NoWriteOverGarbage
  BY DEF TableInv
<1> QED
  BY <1>1, TableInvariance, PTL

\* What ErrorExport says of the errors holds of those of a loaded driver.
THEOREM AbiErrorsCorrect ==
  Spec => [](OldStructUntouched /\ BlocksAreOwned /\ DetailsAreCurrent) /\ LostOnlyByReuse
BY ErrorsOfAbi, OldStructCorrect, BlocksCorrect, DetailsCorrect, LostCorrect, PTL

-----------------------------------------------------------------------------
(***************************************************************************)
(* OptionBuffer: the inductive invariant.                                  *)
(***************************************************************************)

Character == Nat \cup {Terminator, Junk}

\* The variables keep their types; *length is the size of the buffer.
OptionTypeOK ==
  /\ option \in Values
  /\ reader \in {"idle", "string", "bytes"}
  /\ buffer \in Seq(Character)
  /\ length = Len(buffer)
  /\ tries \in Nat

Needed == IF reader = "string" THEN StringLength(option) ELSE Len(option)

\* Who has been told a length has a buffer of what the option still needs.
ToldWhatIsNeeded == tries # 0 => tries = 1 /\ reader # "idle" /\ length = Needed

OptionInv == OptionTypeOK /\ ToldWhatIsNeeded

LEMMA NewBufferType ==
  ASSUME NEW n \in Nat
  PROVE  NewBuffer(n) \in Seq(Character) /\ Len(NewBuffer(n)) = n
<1>1. NewBuffer(n) \in [1 .. n -> Character]
  BY DEF NewBuffer, Character
<1>2. NewBuffer(n) \in Seq(Character)
  BY <1>1, SeqDef
<1>3. QED
  BY <1>1, <1>2, LenProperties

LEMMA ValueType ==
  ASSUME NEW v \in Values
  PROVE  v \in Seq(Nat) /\ v \in Seq(Character) /\ Len(v) \in Nat
<1>1. v \in Seq(Nat) /\ Len(v) \in Nat
  BY OptionAssumption
<1>2. v \in Seq(Character)
  BY <1>1, SeqMonotonic DEF Character
<1>3. QED
  BY <1>1, <1>2

\* A value that fits is at the front of the buffer.
LEMMA CopiedIs ==
  ASSUME NEW val \in Seq(Character), NEW out \in Seq(Character), Len(val) <= Len(out)
  PROVE  /\ Copied(val, out) \in Seq(Character)
         /\ Len(Copied(val, out)) = Len(out)
         /\ \A i \in 1 .. Len(val) : Copied(val, out)[i] = val[i]
<1>1. \A i \in 1 .. Len(out) : (IF i <= Len(val) THEN val[i] ELSE out[i]) \in Character
  OBVIOUS
<1>2. Copied(val, out) \in [1 .. Len(out) -> Character]
  BY <1>1 DEF Copied
<1>3. Copied(val, out) \in Seq(Character)
  BY <1>2, SeqDef, LenProperties
<1>4. Len(Copied(val, out)) = Len(out)
  BY <1>2, <1>3, LenProperties
<1>5. QED
  BY <1>3, <1>4 DEF Copied

LEMMA FrontIs ==
  ASSUME NEW val \in Seq(Character), NEW sink \in Seq(Character), Len(val) <= Len(sink),
         \A i \in 1 .. Len(val) : sink[i] = val[i]
  PROVE  SubSeq(sink, 1, Len(val)) = val
<1>1. SubSeq(sink, 1, Len(val)) \in Seq(Character)
      /\ Len(SubSeq(sink, 1, Len(val))) = Len(val)
      /\ \A i \in 1 .. Len(val) : SubSeq(sink, 1, Len(val))[i] = sink[i]
  OBVIOUS
<1>2. QED
  BY <1>1, SeqEqual

\* What fits is what the client sees.
LEMMA BytesAreSeen ==
  ASSUME NEW v \in Values, NEW out \in Seq(Character), Len(v) <= Len(out)
  PROVE  LET x == ExportOption("bytes", v, out, Len(out)) IN
         SeenIn("bytes", x.buffer, x.length) = v
<1>1. v \in Seq(Character)
  BY ValueType
<1>2. SubSeq(Copied(v, out), 1, Len(v)) = v
  BY <1>1, CopiedIs, FrontIs
<1>3. QED
  BY <1>2 DEF ExportOption, ExportBytes, BytesLength, SeenIn

LEMMA StringIsSeen ==
  ASSUME NEW v \in Values, NEW out \in Seq(Character), StringLength(v) <= Len(out)
  PROVE  LET x == ExportOption("string", v, out, Len(out)) IN
         SeenIn("string", x.buffer, x.length) = v
<1> DEFINE w == Append(v, Terminator)
           sink == Copied(w, out)
           n == Len(v) + 1
<1>1. v \in Seq(Nat) /\ v \in Seq(Character) /\ Len(v) \in Nat /\ Terminator \in Character
  BY ValueType DEF Character
<1>2. w \in Seq(Character) /\ Len(w) = n /\ w[n] = Terminator
      /\ \A i \in 1 .. Len(v) : w[i] = v[i]
  BY <1>1, AppendProperties
<1>3. Len(w) <= Len(out)
  BY <1>2 DEF StringLength
<1> HIDE DEF w
<1>4. sink \in Seq(Character) /\ Len(sink) = Len(out) /\ \A i \in 1 .. n : sink[i] = w[i]
  BY <1>2, <1>3, CopiedIs
<1> HIDE DEF sink
<1>5. sink[n] = Terminator /\ \A i \in 1 .. Len(v) : sink[i] = v[i] /\ sink[i] # Terminator
  <2>1. \A i \in 1 .. Len(v) : v[i] \in Nat /\ v[i] # Terminator
    BY <1>1, OptionAssumption
  <2>2. QED
    BY <1>1, <1>2, <1>4, <2>1
<1>6. Ends(sink, n)
  BY <1>1, <1>5 DEF Ends
<1> DEFINE P(i) == sink[i] = Terminator /\ \A j \in 1 .. i - 1 : sink[j] # Terminator
<1>7. (CHOOSE i \in 1 .. n : P(i)) = n
  <2>1. n \in 1 .. n /\ P(n)
    BY <1>1, <1>5
  <2>2. \A i \in 1 .. n : P(i) => i = n
    BY <1>1, <1>5
  <2> HIDE DEF P
  <2>3. QED
    BY <2>1, <2>2
<1>8. SeenIn("string", sink, n) = SubSeq(sink, 1, n - 1)
  BY <1>6, <1>7 DEF SeenIn, StringIn
<1>9. SubSeq(sink, 1, n - 1) = v
  BY <1>1, <1>3, <1>2, <1>4, <1>5, FrontIs
<1>10. QED
  BY <1>3, <1>8, <1>9 DEF ExportOption, ExportString, StringLength, sink, w

LEMMA OptionInitInv == OptionInit => OptionInv
BY DEF OptionInit, OptionInv, OptionTypeOK, ToldWhatIsNeeded

LEMMA OptionStep == OptionInv /\ [OptionNext]_optionVars => OptionInv'
<1> SUFFICES ASSUME OptionInv, [OptionNext]_optionVars
             PROVE  OptionInv'
  OBVIOUS
<1> USE DEF OptionInv, OptionTypeOK, ToldWhatIsNeeded
<1>1. ASSUME NEW as \in {"string", "bytes"}, NEW v \in Values, ClientReads(as, Len(v))
      PROVE  OptionInv'
  BY <1>1, NewBufferType, ValueType DEF ClientReads
<1>2. CASE GetOption
  <2> DEFINE x == ExportOption(reader, option, buffer, length)
  <2>1. x.length = Needed /\ x.length \in Nat
    BY ValueType, <1>2 DEF ExportOption, ExportString, ExportBytes, StringLength,
       BytesLength, Needed, GetOption
  <2> HIDE DEF x
  <2>2. CASE x.length <= length
    BY <1>2, <2>1, <2>2 DEF GetOption, x
  <2>3. CASE ~(x.length <= length)
    <3>1. tries = 0
      BY <2>1, <2>3
    <3>2. buffer' = NewBuffer(x.length) /\ length' = x.length /\ tries' = tries + 1
          /\ UNCHANGED << reader, answer, option >> /\ reader # "idle"
      BY <1>2, <2>3 DEF GetOption, x
    <3>3. QED
      BY <2>1, <3>1, <3>2, NewBufferType DEF Needed
  <2>4. QED
    BY <2>2, <2>3
<1>3. CASE GetOptionFails
  BY <1>3 DEF GetOptionFails
<1>4. ASSUME NEW v \in Values, SetOption(v)
      PROVE  OptionInv'
  BY <1>4 DEF SetOption
<1>5. CASE UNCHANGED optionVars
  BY <1>5 DEF optionVars, Needed
<1>6. QED
  BY <1>1, <1>2, <1>3, <1>4, <1>5 DEF OptionNext

THEOREM OptionInvariance == OptionSpec => []OptionInv
BY OptionInitInv, OptionStep, PTL DEF OptionSpec

-----------------------------------------------------------------------------
(***************************************************************************)
(* OptionBuffer: the properties.                                           *)
(***************************************************************************)

\* The length that exportStringOption and exportBytesOption tell suffices for any
\* value: only an option that has been set since makes a client call again.
THEOREM RetryCorrect == OptionSpec => []OneRetry
<1>1. OptionInv => OneRetry
  BY DEF OptionInv, OptionTypeOK, ToldWhatIsNeeded, OneRetry
<1>2. QED
  BY <1>1, OptionInvariance, PTL

\* A read in several calls, with the option set between them, is a read of the
\* whole value that the option has at the last of them.
THEOREM AtomicCorrect == OptionSpec => ReadsAreAtomic
<1>1. OptionInv /\ [OptionNext]_optionVars => [answer' # answer => answer' = option]_optionVars
  <2> SUFFICES ASSUME OptionInv, OptionNext, answer' # answer
               PROVE  answer' = option
    BY DEF optionVars
  <2> DEFINE x == ExportOption(reader, option, buffer, length)
  <2>1. GetOption /\ x.length <= length /\ answer' = SeenIn(reader, x.buffer, x.length)
    BY DEF OptionNext, ClientReads, GetOption, GetOptionFails, SetOption
  <2>2. option \in Values /\ buffer \in Seq(Character) /\ length = Len(buffer)
    BY DEF OptionInv, OptionTypeOK
  <2>3. CASE reader = "string"
    <3>1. StringLength(option) <= Len(buffer)
      BY <2>1, <2>2, <2>3 DEF ExportOption, ExportString
    <3>2. QED
      BY <2>1, <2>2, <2>3, <3>1, StringIsSeen
  <2>4. CASE reader = "bytes"
    <3>1. Len(option) <= Len(buffer)
      BY <2>1, <2>2, <2>4 DEF ExportOption, ExportBytes, BytesLength
    <3>2. QED
      BY <2>1, <2>2, <2>4, <3>1, BytesAreSeen
  <2>5. QED
    BY <2>1, <2>3, <2>4 DEF GetOption, OptionInv, OptionTypeOK
<1>2. QED
  BY <1>1, OptionInvariance, PTL DEF OptionSpec, ReadsAreAtomic
=============================================================================
