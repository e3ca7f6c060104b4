-------------------------- MODULE SqlReader_proofs -------------------------
(***************************************************************************)
(* The properties of SqlReader hold for texts of any length.               *)
(*                                                                         *)
(* The reader and the driver's regular expressions advance in step: each   *)
(* expression is a fold over the text, so what it has made of a text grows *)
(* with the text, atom by atom, as the reader's state does.                *)
(***************************************************************************)
EXTENDS SqlReader, SequenceTheorems, WellFoundedInduction, TLAPS

-----------------------------------------------------------------------------
(***************************************************************************)
(* The fold.  Its equation holds by induction on the length of the text:   *)
(* a set of lengths for which it fails would have a least one.             *)
(***************************************************************************)

\* A set of numbers that is not empty has a least one.
LEMMA Least ==
  ASSUME NEW S \in SUBSET Nat, S # {}
  PROVE  \E n \in S : \A k \in S : n <= k
<1> DEFINE R == OpToRel(<, Nat)
<1>1. IsWellFoundedOn(R, Nat)
  BY NatLessThanWellFounded
<1>2. \A k, n \in Nat : << k, n >> \in R <=> k < n
  BY DEF OpToRel
<1> HIDE DEF R
<1>3. PICK n \in S : \A k \in S : ~(<< k, n >> \in R)
  BY <1>1, WFMin
<1>4. ASSUME NEW k \in S
      PROVE  n <= k
  <2>1. ~(k < n)
    BY <1>2, <1>3
  <2>2. k \in Nat /\ n \in Nat
    OBVIOUS
  <2>3. QED
    BY <2>1, <2>2
<1>5. QED
  BY <1>4

Pattern == [opener : Atom, closer : Atom, leave : Seq(Atom)]

Scanned ==
  {s \in [in : BOOLEAN, out : Seq(Atom), held : Seq(Atom)] : ~s.in => s.held = << >>}

LEMMA StartType == Start \in Scanned
BY DEF Start, Scanned

LEMMA AdvanceType ==
  ASSUME NEW p \in Pattern, NEW s \in Scanned, NEW a \in Atom
  PROVE  Advance(p, s, a) \in Scanned
<1>1. Append(s.held, a) \in Seq(Atom) /\ Append(s.out, a) \in Seq(Atom)
  BY DEF Scanned
<1>2. s.out \o p.leave \in Seq(Atom) /\ << a >> \in Seq(Atom) /\ << >> \in Seq(Atom)
  BY DEF Scanned, Pattern
<1>3. QED
  BY <1>1, <1>2 DEF Advance, Scanned, Pattern

\* f records what `Scan` has after each of the first m atoms of a text.
Follows(f, p, t, m) ==
  /\ f[0] = Start
  /\ \A n \in 1 .. m : f[n] = Advance(p, f[n - 1], t[n])

LEMMA FollowsExists ==
  ASSUME NEW p \in Pattern, NEW t \in Seq(Atom), NEW m \in 0 .. Len(t)
  PROVE  \E f \in [0 .. m -> Scanned] : Follows(f, p, t, m)
<1> DEFINE Good(k) == \E f \in [0 .. k -> Scanned] : Follows(f, p, t, k)
           Bad == {k \in 0 .. Len(t) : ~Good(k)}
<1>1. SUFFICES ASSUME Bad # {}
               PROVE  FALSE
  OBVIOUS
<1>2. PICK k \in Bad : \A j \in Bad : k <= j
  <2>1. Bad \in SUBSET Nat
    OBVIOUS
  <2> HIDE DEF Bad
  <2>2. QED
    BY <1>1, <2>1, Least
<1>3. k # 0
  <2>1. [n \in 0 .. 0 |-> Start] \in [0 .. 0 -> Scanned]
    BY StartType
  <2>2. Follows([n \in 0 .. 0 |-> Start], p, t, 0)
    BY DEF Follows
  <2>3. QED
    BY <2>1, <2>2
<1>4. Good(k - 1)
  <2>1. k - 1 \in 0 .. Len(t) /\ ~(k <= k - 1)
    BY <1>3
  <2>2. QED
    BY <1>2, <2>1
<1>5. PICK f \in [0 .. k - 1 -> Scanned] : Follows(f, p, t, k - 1)
  BY <1>4
<1> DEFINE g == [n \in 0 .. k |-> IF n = k THEN Advance(p, f[k - 1], t[k]) ELSE f[n]]
<1>6. g \in [0 .. k -> Scanned]
  <2>1. t[k] \in Atom /\ f[k - 1] \in Scanned
    BY <1>3, ElementOfSeq
  <2>2. \A n \in 0 .. k : n # k => f[n] \in Scanned
    OBVIOUS
  <2>3. QED
    BY <2>1, <2>2, AdvanceType
<1>7. Follows(g, p, t, k)
  <2>1. g[0] = Start
    BY <1>3, <1>5 DEF Follows
  <2>2. ASSUME NEW n \in 1 .. k
        PROVE  g[n] = Advance(p, g[n - 1], t[n])
    <3>1. g[n - 1] = f[n - 1]
      OBVIOUS
    <3>2. n # k => f[n] = Advance(p, f[n - 1], t[n])
      BY <1>5 DEF Follows
    <3>3. QED
      BY <3>1, <3>2
  <2>3. QED
    BY <2>1, <2>2 DEF Follows
<1>8. QED
  BY <1>6, <1>7

\* Two such records of texts that agree are the same.
LEMMA FollowsUnique ==
  ASSUME NEW p, NEW t, NEW u, NEW m \in Nat,
         \A n \in 1 .. m : t[n] = u[n],
         NEW f, NEW g, Follows(f, p, t, m), Follows(g, p, u, m)
  PROVE  \A n \in 0 .. m : f[n] = g[n]
<1> DEFINE Bad == {n \in 0 .. m : f[n] # g[n]}
<1>1. SUFFICES ASSUME Bad # {}
               PROVE  FALSE
  OBVIOUS
<1>2. PICK k \in Bad : \A j \in Bad : k <= j
  <2>1. Bad \in SUBSET Nat
    OBVIOUS
  <2> HIDE DEF Bad
  <2>2. QED
    BY <1>1, <2>1, Least
<1>3. k # 0
  BY DEF Follows
<1>4. f[k - 1] = g[k - 1]
  <2>1. k - 1 \in 0 .. m /\ ~(k <= k - 1)
    BY <1>3
  <2>2. QED
    BY <1>2, <2>1
<1>5. QED
  BY <1>3, <1>4 DEF Follows

\* `Scan` is the last entry of any such record.
LEMMA ScanFollows ==
  ASSUME NEW p \in Pattern, NEW t \in Seq(Atom),
         NEW f, Follows(f, p, t, Len(t))
  PROVE  Scan(p, t) = f[Len(t)]
<1> DEFINE after == CHOOSE g : g = [n \in 0 .. Len(t) |->
                      IF n = 0 THEN Start ELSE Advance(p, g[n - 1], t[n])]
<1>1. Scan(p, t) = after[Len(t)]
  BY DEF Scan
<1>2. PICK h \in [0 .. Len(t) -> Scanned] : Follows(h, p, t, Len(t))
  BY FollowsExists, LenProperties
<1>3. h = [n \in 0 .. Len(t) |-> IF n = 0 THEN Start ELSE Advance(p, h[n - 1], t[n])]
  <2>1. \A n \in 0 .. Len(t) : h[n] = IF n = 0 THEN Start ELSE Advance(p, h[n - 1], t[n])
    BY <1>2 DEF Follows
  <2>2. QED
    BY <2>1
<1>4. after = [n \in 0 .. Len(t) |-> IF n = 0 THEN Start ELSE Advance(p, after[n - 1], t[n])]
  BY <1>3
<1>5. Follows(after, p, t, Len(t))
  <2> HIDE DEF after
  <2>1. 0 \in 0 .. Len(t) /\ \A n \in 1 .. Len(t) : n \in 0 .. Len(t) /\ n # 0
    OBVIOUS
  <2>2. after[0] = Start
    BY <1>4, <2>1
  <2>3. \A n \in 1 .. Len(t) : after[n] = Advance(p, after[n - 1], t[n])
    BY <1>4, <2>1
  <2>4. QED
    BY <2>2, <2>3 DEF Follows
<1>6. after[Len(t)] = f[Len(t)]
  <2> HIDE DEF after
  <2>1. Len(t) \in Nat
    OBVIOUS
  <2>2. \A n \in 0 .. Len(t) : after[n] = f[n]
    BY <1>5, <2>1, FollowsUnique
  <2>3. QED
    BY <2>1, <2>2
<1>7. QED
  BY <1>1, <1>6

\* The equations of the fold, which are all that is used of it from here on.
LEMMA ScanType ==
  ASSUME NEW p \in Pattern, NEW t \in Seq(Atom)
  PROVE  Scan(p, t) \in Scanned
<1>1. PICK f \in [0 .. Len(t) -> Scanned] : Follows(f, p, t, Len(t))
  BY FollowsExists, LenProperties
<1>2. Scan(p, t) = f[Len(t)]
  BY <1>1, ScanFollows
<1>3. QED
  BY <1>1, <1>2

LEMMA ScanEmpty ==
  ASSUME NEW p \in Pattern
  PROVE  Scan(p, << >>) = Start
<1>1. PICK f \in [0 .. 0 -> Scanned] : Follows(f, p, << >>, 0)
  <2>1. << >> \in Seq(Atom) /\ 0 \in 0 .. Len(<< >>)
    OBVIOUS
  <2>2. QED
    BY <2>1, FollowsExists
<1>2. Scan(p, << >>) = f[0]
  BY <1>1, ScanFollows
<1>3. QED
  BY <1>1, <1>2 DEF Follows

LEMMA ScanAppend ==
  ASSUME NEW p \in Pattern, NEW t \in Seq(Atom), NEW a \in Atom
  PROVE  Scan(p, Append(t, a)) = Advance(p, Scan(p, t), a)
<1> DEFINE u == Append(t, a)
           m == Len(t)
<1>1. u \in Seq(Atom) /\ Len(u) = m + 1 /\ m \in Nat /\ u[m + 1] = a
      /\ \A n \in 1 .. m : u[n] = t[n]
  OBVIOUS
<1> HIDE DEF u, m
<1>2. PICK f \in [0 .. m + 1 -> Scanned] : Follows(f, p, u, m + 1)
  BY <1>1, FollowsExists
<1>3. Follows(f, p, t, m)
  BY <1>1, <1>2 DEF Follows
<1>4. Scan(p, t) = f[m]
  BY <1>3, ScanFollows DEF m
<1>5. Scan(p, u) = f[m + 1]
  BY <1>1, <1>2, ScanFollows
<1>6. f[m + 1] = Advance(p, f[m], a)
  BY <1>1, <1>2 DEF Follows
<1>7. QED
  BY <1>4, <1>5, <1>6 DEF u

-----------------------------------------------------------------------------
(***************************************************************************)
(* What the driver makes of the text the reader has read so far.           *)
(***************************************************************************)

Blocks  == Scan(BlockComment, text)
Lines   == Scan(LineComment, Blocks.out)
Singles == Scan(Literal("single"), Lines.out)
Doubles == Scan(Literal("double"), Singles.out)

\* Of a block comment that has not ended, the driver sees the text.
Opened == Scan(LineComment, Blocks.out \o Blocks.held)

LEMMA PatternType ==
  /\ BlockComment \in Pattern
  /\ LineComment \in Pattern
  /\ \A q \in Quote : Literal(q) \in Pattern
  /\ "single" \in Quote /\ "double" \in Quote /\ "newline" \in Atom
<1>1. {"open", "close", "line", "newline"} \cup Quote \subseteq Atom
  BY DEF Atom, Space, Quote
<1>2. << >> \in Seq(Atom) /\ << "newline" >> \in Seq(Atom)
      /\ \A q \in Quote : << q, q >> \in Seq(Atom)
  BY <1>1
<1>3. QED
  BY <1>1, <1>2 DEF Pattern, BlockComment, LineComment, Literal, Quote

LEMMA ScansType ==
  ASSUME text \in Seq(Atom)
  PROVE  /\ Blocks \in Scanned
         /\ Lines \in Scanned
         /\ Singles \in Scanned
         /\ Doubles \in Scanned
         /\ Opened \in Scanned
<1>1. Blocks \in Scanned
  BY PatternType, ScanType DEF Blocks
<1>2. Lines \in Scanned
  BY <1>1, PatternType, ScanType DEF Lines, Scanned
<1>3. Singles \in Scanned
  BY <1>2, PatternType, ScanType DEF Singles, Scanned
<1>4. Doubles \in Scanned
  BY <1>3, PatternType, ScanType DEF Doubles, Scanned
<1>5. Opened \in Scanned
  <2>1. Blocks.out \o Blocks.held \in Seq(Atom)
    BY <1>1 DEF Scanned
  <2>2. QED
    BY <2>1, PatternType, ScanType DEF Opened
<1>6. QED
  BY <1>1, <1>2, <1>3, <1>4, <1>5

\* Without its line comments, a text is what the scan has put out.
LEMMA WithoutLineIs ==
  ASSUME NEW t \in Seq(Atom)
  PROVE  WithoutLine(t) = Scan(LineComment, t).out
<1> DEFINE s == Scan(LineComment, t)
           e == Scan(LineComment, Append(t, "newline"))
<1>1. s \in Scanned
  BY PatternType, ScanType
<1>2. e = Advance(LineComment, s, "newline")
  BY PatternType, ScanAppend
<1> HIDE DEF s, e
<1>3. e.out = Append(s.out, "newline") /\ e.held = << >>
  <2>1. CASE s.in
    <3>1. e.out = s.out \o << "newline" >> /\ e.held = << >>
      BY <1>2, <2>1 DEF Advance, LineComment
    <3>2. QED
      BY <1>1, <3>1, PatternType, AppendIsConcat DEF Scanned
  <2>2. CASE ~s.in
    <3>1. e = [s EXCEPT !.out = Append(@, "newline")]
      BY <1>2, <2>2 DEF Advance, LineComment
    <3>2. QED
      BY <1>1, <2>2, <3>1 DEF Scanned
  <2>3. QED
    BY <2>1, <2>2
<1>4. Replace(LineComment, Append(t, "newline")) = Append(s.out, "newline")
  <2>1. Append(s.out, "newline") \in Seq(Atom)
    BY <1>1, PatternType DEF Scanned
  <2>2. QED
    BY <1>3, <2>1, ConcatEmptySeq DEF Replace, e
<1>5. Front(Append(s.out, "newline")) = s.out
  <2>1. s.out \in Seq(Atom) /\ Append(s.out, "newline") \in Seq(Atom)
        /\ Len(Append(s.out, "newline")) = Len(s.out) + 1
        /\ \A i \in 1 .. Len(s.out) : Append(s.out, "newline")[i] = s.out[i]
    BY <1>1, PatternType, AppendProperties DEF Scanned
  <2>2. QED
    BY <2>1 DEF Front
<1>6. QED
  BY <1>4, <1>5 DEF WithoutLine, s

\* The scans of a text that has one more atom.
LEMMA AdvanceCases ==
  ASSUME NEW p \in Pattern, NEW s \in Scanned, NEW a \in Atom
  PROVE  LET n == Advance(p, s, a) IN
         /\ s.in /\ a = p.closer    => ~n.in /\ n.out = s.out \o p.leave
         /\ s.in /\ a # p.closer    => n.in /\ n.out = s.out /\ n.held = Append(s.held, a)
         /\ ~s.in /\ a = p.opener   => n.in /\ n.out = s.out /\ n.held = << a >>
         /\ ~s.in /\ a # p.opener   => ~n.in /\ n.out = Append(s.out, a)
BY DEF Advance, Scanned

\* Two laws of sequences: the last atoms of a concatenation.
LEMMA ConcatPair ==
  ASSUME NEW t \in Seq(Atom), NEW b \in Atom
  PROVE  t \o << b, b >> = Append(Append(t, b), b)
<1> DEFINE l == t \o << b, b >>
           r == Append(Append(t, b), b)
<1>1. << b, b >> \in Seq(Atom) /\ Len(<< b, b >>) = 2
      /\ << b, b >>[1] = b /\ << b, b >>[2] = b
  OBVIOUS
<1>2. l \in Seq(Atom) /\ Len(l) = Len(t) + 2
      /\ \A i \in 1 .. Len(t) + 2 : l[i] = IF i <= Len(t) THEN t[i] ELSE b
  BY <1>1, ConcatProperties
<1>3. r \in Seq(Atom) /\ Len(r) = Len(t) + 2
      /\ \A i \in 1 .. Len(t) + 2 : r[i] = IF i <= Len(t) THEN t[i] ELSE b
  BY AppendProperties
<1> HIDE DEF l, r
<1>4. l = r
  BY <1>2, <1>3, SeqEqual
<1>5. QED
  BY <1>4 DEF l, r

LEMMA ConcatAppend ==
  ASSUME NEW t \in Seq(Atom), NEW u \in Seq(Atom), NEW b \in Atom
  PROVE  t \o Append(u, b) = Append(t \o u, b)
<1> DEFINE l == t \o Append(u, b)
           r == Append(t \o u, b)
           n == Len(t) + Len(u) + 1
<1>1. Append(u, b) \in Seq(Atom) /\ Len(Append(u, b)) = Len(u) + 1
      /\ \A i \in 1 .. Len(u) + 1 : Append(u, b)[i] = IF i <= Len(u) THEN u[i] ELSE b
  BY AppendProperties
<1>2. l \in Seq(Atom) /\ Len(l) = n
      /\ \A i \in 1 .. n : l[i] = IF i <= Len(t) THEN t[i]
                                  ELSE IF i < n THEN u[i - Len(t)] ELSE b
  BY <1>1, ConcatProperties
<1>3. r \in Seq(Atom) /\ Len(r) = n
      /\ \A i \in 1 .. n : r[i] = IF i <= Len(t) THEN t[i]
                                  ELSE IF i < n THEN u[i - Len(t)] ELSE b
  <2>1. t \o u \in Seq(Atom) /\ Len(t \o u) = Len(t) + Len(u)
        /\ \A i \in 1 .. Len(t) + Len(u) : (t \o u)[i] =
             IF i <= Len(t) THEN t[i] ELSE u[i - Len(t)]
    BY ConcatProperties
  <2> DEFINE v == t \o u
  <2> HIDE DEF v
  <2>2. Append(v, b) \in Seq(Atom) /\ Len(Append(v, b)) = Len(v) + 1
        /\ \A i \in 1 .. Len(v) + 1 : Append(v, b)[i] = IF i <= Len(v) THEN v[i] ELSE b
    <3>1. v \in Seq(Atom)
      BY <2>1 DEF v
    <3>2. QED
      BY <3>1, AppendProperties
  <2>3. r = Append(v, b)
    BY DEF v
  <2>4. QED
    BY <2>1, <2>2, <2>3 DEF v
<1> HIDE DEF l, r
<1>4. l = r
  BY <1>2, <1>3, SeqEqual
<1>5. QED
  BY <1>4 DEF l, r

LEMMA BlockAdvance ==
  ASSUME NEW s \in Scanned, NEW a \in Atom
  PROVE  LET n == Advance(BlockComment, s, a) IN
         /\ n.in <=> IF s.in THEN a # "close" ELSE a = "open"
         /\ n.out = IF ~s.in /\ a # "open" THEN Append(s.out, a) ELSE s.out
         /\ n.in => n.held = IF s.in THEN Append(s.held, a) ELSE << a >>
<1>1. BlockComment.opener = "open" /\ BlockComment.closer = "close"
      /\ BlockComment.leave = << >>
  BY DEF BlockComment
<1>2. s.out \o << >> = s.out
  BY ConcatEmptySeq DEF Scanned
<1>3. s.in \in BOOLEAN /\ BlockComment \in Pattern
  BY PatternType DEF Scanned
<1> DEFINE n == Advance(BlockComment, s, a)
<1>4. n \in Scanned
  BY <1>3, AdvanceType
<1> HIDE DEF n
<1>5. n.in \in BOOLEAN
  BY <1>4 DEF Scanned
<1>6. QED
  BY <1>1, <1>2, <1>3, <1>5 DEF Advance, Scanned, n

LEMMA LineAdvance ==
  ASSUME NEW s \in Scanned, NEW a \in Atom
  PROVE  LET n == Advance(LineComment, s, a) IN
         /\ n.in <=> IF s.in THEN a # "newline" ELSE a = "line"
         /\ n.out = IF (s.in /\ a = "newline") \/ (~s.in /\ a # "line")
                      THEN Append(s.out, a) ELSE s.out
<1>1. LineComment.opener = "line" /\ LineComment.closer = "newline"
      /\ LineComment.leave = << "newline" >>
  BY DEF LineComment
<1>2. s.out \o << "newline" >> = Append(s.out, "newline")
  BY PatternType, AppendIsConcat DEF Scanned
<1>3. s.in \in BOOLEAN /\ LineComment \in Pattern
  BY PatternType DEF Scanned
<1> DEFINE n == Advance(LineComment, s, a)
<1>4. n \in Scanned
  BY <1>3, AdvanceType
<1> HIDE DEF n
<1>5. n.in \in BOOLEAN
  BY <1>4 DEF Scanned
<1>6. QED
  BY <1>1, <1>2, <1>3, <1>5 DEF Advance, Scanned, n

LEMMA LiteralAdvance ==
  ASSUME NEW q \in Quote, NEW s \in Scanned, NEW a \in Atom
  PROVE  LET n == Advance(Literal(q), s, a) IN
         /\ n.in <=> IF s.in THEN a # q ELSE a = q
         /\ s.in /\ a = q   => n.out = Append(Append(s.out, q), q)
         /\ s.in /\ a # q   => n.out = s.out
         /\ ~s.in /\ a = q  => n.out = s.out
         /\ ~s.in /\ a # q  => n.out = Append(s.out, a)
<1>1. Literal(q).opener = q /\ Literal(q).closer = q /\ Literal(q).leave = << q, q >>
  BY DEF Literal
<1>2. s.out \o << q, q >> = Append(Append(s.out, q), q)
  BY ConcatPair DEF Scanned, Atom
<1>3. s.in \in BOOLEAN /\ Literal(q) \in Pattern
  BY PatternType DEF Scanned
<1> DEFINE n == Advance(Literal(q), s, a)
<1>4. n \in Scanned
  BY <1>3, AdvanceType
<1> HIDE DEF n
<1>5. n.in \in BOOLEAN
  BY <1>4 DEF Scanned
<1>6. QED
  BY <1>1, <1>2, <1>3, <1>5 DEF Advance, Scanned, n

LEMMA ScansOfNothing ==
  ASSUME text = << >>
  PROVE  Blocks = Start /\ Lines = Start /\ Singles = Start /\ Doubles = Start
         /\ Opened = Start
<1>1. Blocks = Start
  BY PatternType, ScanEmpty DEF Blocks
<1>2. Lines = Start
  BY <1>1, PatternType, ScanEmpty DEF Lines, Start
<1>3. Singles = Start
  BY <1>2, PatternType, ScanEmpty DEF Singles, Start
<1>4. Doubles = Start
  BY <1>3, PatternType, ScanEmpty DEF Doubles, Start
<1>5. Blocks.out \o Blocks.held = << >>
  BY <1>1 DEF Start
<1>6. QED
  BY <1>1, <1>2, <1>3, <1>4, <1>5, PatternType, ScanEmpty DEF Opened

LEMMA OpenedIsLines ==
  ASSUME text \in Seq(Atom), ~Blocks.in
  PROVE  Opened = Lines
<1>1. Blocks.held = << >> /\ Blocks.out \in Seq(Atom)
  BY ScansType DEF Scanned
<1>2. QED
  BY <1>1, ConcatEmptySeq DEF Opened, Lines

\* An atom outside of the block comments goes on to the next scan.
LEMMA KeptByBlocks ==
  ASSUME text \in Seq(Atom), NEW a \in Atom, text' = Append(text, a),
         ~Blocks.in, a # "open"
  PROVE  /\ ~Blocks'.in
         /\ Lines' = Advance(LineComment, Lines, a)
         /\ Opened' = Lines'
<1>1. Blocks' = Advance(BlockComment, Blocks, a)
  BY PatternType, ScanAppend DEF Blocks
<1>2. ~Blocks'.in /\ Blocks'.out = Append(Blocks.out, a)
  BY <1>1, BlockAdvance, ScansType
<1>3. Lines' = Advance(LineComment, Lines, a)
  BY <1>2, ScansType, PatternType, ScanAppend DEF Lines, Scanned
<1>4. text' \in Seq(Atom)
  OBVIOUS
<1>5. Opened' = Lines'
  <2>1. Blocks' \in Scanned
    BY <1>4, PatternType, ScanType DEF Blocks
  <2>2. Blocks'.held = << >> /\ Blocks'.out \in Seq(Atom)
    BY <1>2, <2>1 DEF Scanned
  <2>3. QED
    BY <2>2, ConcatEmptySeq DEF Opened, Lines
<1>6. QED
  BY <1>2, <1>3, <1>5

\* An atom of a block comment does not.
LEMMA HeldByBlocks ==
  ASSUME text \in Seq(Atom), NEW a \in Atom, text' = Append(text, a),
         Blocks.in \/ a = "open"
  PROVE  /\ Lines' = Lines /\ Singles' = Singles /\ Doubles' = Doubles
         /\ Blocks'.in <=> ~(Blocks.in /\ a = "close")
         /\ Opened' = IF Blocks'.in THEN Advance(LineComment, Opened, a) ELSE Lines
<1>1. Blocks' = Advance(BlockComment, Blocks, a)
  BY PatternType, ScanAppend DEF Blocks
<1>2. Blocks.out \in Seq(Atom) /\ Blocks.held \in Seq(Atom) /\ Blocks.out \o << >> = Blocks.out
  BY ScansType, ConcatEmptySeq DEF Scanned
<1>3. Blocks'.out = Blocks.out /\ (Blocks'.in <=> ~(Blocks.in /\ a = "close"))
  BY <1>1, BlockAdvance, ScansType
<1>4. Lines' = Lines
  BY <1>3 DEF Lines
<1>5. Singles' = Singles
  BY <1>4 DEF Singles
<1>6. Doubles' = Doubles
  BY <1>5 DEF Doubles
<1>7. CASE Blocks'.in
  <2>1. Blocks'.held = Append(Blocks.held, a)
    <3>1. Blocks'.held = IF Blocks.in THEN Append(Blocks.held, a) ELSE << a >>
      BY <1>1, <1>7, BlockAdvance, ScansType
    <3>2. ~Blocks.in => Blocks.held = << >>
      BY ScansType DEF Scanned
    <3>3. << a >> = Append(<< >>, a)
      OBVIOUS
    <3>4. QED
      BY <3>1, <3>2, <3>3
  <2>2. Blocks'.out \o Blocks'.held = Append(Blocks.out \o Blocks.held, a)
    <3>1. Blocks.out \o Append(Blocks.held, a) = Append(Blocks.out \o Blocks.held, a)
      BY <1>2, ConcatAppend
    <3>2. QED
      BY <1>3, <2>1, <3>1
  <2>3. Opened' = Advance(LineComment, Opened, a)
    <3>1. Blocks.out \o Blocks.held \in Seq(Atom)
      BY <1>2
    <3>2. Opened' = Scan(LineComment, Append(Blocks.out \o Blocks.held, a))
      BY <2>2 DEF Opened
    <3>3. Opened' = Advance(LineComment, Scan(LineComment, Blocks.out \o Blocks.held), a)
      BY <3>1, <3>2, PatternType, ScanAppend
    <3>4. QED
      BY <3>3 DEF Opened
  <2>4. QED
    BY <1>3, <1>4, <1>5, <1>6, <1>7, <2>3
<1>8. CASE ~Blocks'.in
  <2>1. text' \in Seq(Atom)
    OBVIOUS
  <2>2. Blocks' \in Scanned
    BY <2>1, PatternType, ScanType DEF Blocks
  <2>3. Blocks'.out \o Blocks'.held = Blocks.out
    BY <1>2, <1>3, <1>8, <2>2 DEF Scanned
  <2>4. QED
    BY <1>3, <1>4, <1>5, <1>6, <1>8, <2>3 DEF Opened, Lines
<1>9. QED
  BY <1>7, <1>8

\* What the blocks let through, the scan for line comments puts out ...
LEMMA KeptByLines ==
  ASSUME text \in Seq(Atom), NEW a \in Atom,
         Lines' = Advance(LineComment, Lines, a),
         IF Lines.in THEN a = "newline" ELSE a # "line"
  PROVE  /\ ~Lines'.in
         /\ Lines'.out = Append(Lines.out, a)
         /\ Singles' = Advance(Literal("single"), Singles, a)
<1>1. ~Lines'.in /\ Lines'.out = Append(Lines.out, a)
  BY LineAdvance, ScansType
<1>2. Singles' = Advance(Literal("single"), Singles, a)
  BY <1>1, ScansType, PatternType, ScanAppend DEF Singles, Scanned
<1>3. QED
  BY <1>1, <1>2

\* ... unless it is of a line comment.
LEMMA HeldByLines ==
  ASSUME text \in Seq(Atom), NEW a \in Atom,
         Lines' = Advance(LineComment, Lines, a),
         IF Lines.in THEN a # "newline" ELSE a = "line"
  PROVE  /\ Lines'.in
         /\ Lines'.out = Lines.out /\ Singles' = Singles /\ Doubles' = Doubles
<1>1. Lines'.in /\ Lines'.out = Lines.out
  BY LineAdvance, ScansType
<1>2. Singles' = Singles
  BY <1>1 DEF Singles
<1>3. QED
  BY <1>1, <1>2 DEF Doubles

\* In the same way for the literals, and then for the quoted names.
LEMMA KeptBySingles ==
  ASSUME text \in Seq(Atom), NEW a \in Atom,
         Singles' = Advance(Literal("single"), Singles, a),
         ~Singles.in, a # "single"
  PROVE  /\ ~Singles'.in
         /\ Doubles' = Advance(Literal("double"), Doubles, a)
<1>1. ~Singles'.in /\ Singles'.out = Append(Singles.out, a)
  BY LiteralAdvance, ScansType, PatternType
<1>2. Doubles' = Advance(Literal("double"), Doubles, a)
  <2>1. Singles.out \in Seq(Atom) /\ Literal("double") \in Pattern
    BY ScansType, PatternType DEF Scanned
  <2>2. QED
    BY <1>1, <2>1, ScanAppend DEF Doubles
<1>3. QED
  BY <1>1, <1>2

LEMMA HeldBySingles ==
  ASSUME text \in Seq(Atom), NEW a \in Atom,
         Singles' = Advance(Literal("single"), Singles, a),
         IF Singles.in THEN a # "single" ELSE a = "single"
  PROVE  Singles'.in /\ Doubles' = Doubles
<1>1. Singles'.in /\ Singles'.out = Singles.out
  BY LiteralAdvance, ScansType, PatternType
<1>2. QED
  BY <1>1 DEF Doubles

\* A literal that ends leaves its two quotes.
LEMMA LeftBySingles ==
  ASSUME text \in Seq(Atom),
         Singles' = Advance(Literal("single"), Singles, "single"),
         Singles.in, ~Doubles.in
  PROVE  /\ ~Singles'.in /\ ~Doubles'.in
         /\ Doubles'.out = Append(Append(Doubles.out, "single"), "single")
<1>1. "single" \in Atom /\ Singles.out \in Seq(Atom) /\ Literal("double") \in Pattern
  BY ScansType, PatternType DEF Atom, Scanned
<1>2. ~Singles'.in /\ Singles'.out = Append(Append(Singles.out, "single"), "single")
  BY <1>1, LiteralAdvance, ScansType, PatternType
<1> DEFINE d == Scan(Literal("double"), Append(Singles.out, "single"))
<1>3. d = Advance(Literal("double"), Doubles, "single")
  BY <1>1, ScanAppend DEF Doubles
<1>4. d \in Scanned /\ ~d.in /\ d.out = Append(Doubles.out, "single")
  <2>1. d \in Scanned
    BY <1>1, <1>3, AdvanceType, ScansType
  <2>2. QED
    BY <1>1, <1>3, <2>1, LiteralAdvance, ScansType, PatternType
<1>5. Doubles' = Advance(Literal("double"), d, "single")
  <2>1. Append(Singles.out, "single") \in Seq(Atom)
    BY <1>1
  <2>2. QED
    BY <1>1, <1>2, <2>1, ScanAppend DEF Doubles
<1> HIDE DEF d
<1>6. ~Doubles'.in /\ Doubles'.out = Append(d.out, "single")
  <2>1. "double" \in Quote /\ "single" \in Atom /\ d \in Scanned
    BY <1>1, <1>4 DEF Quote
  <2>2. LET n == Advance(Literal("double"), d, "single") IN
          /\ n.in <=> IF d.in THEN "single" # "double" ELSE "single" = "double"
          /\ ~d.in /\ "single" # "double" => n.out = Append(d.out, "single")
    BY ONLY <2>1, LiteralAdvance
  <2>3. QED
    BY <1>4, <1>5, <2>2
<1>7. QED
  BY <1>2, <1>4, <1>6

-----------------------------------------------------------------------------
(***************************************************************************)
(* The inductive invariant.                                                *)
(***************************************************************************)

Mode == {"text", "open", "line"} \cup Quote

\* Every variable keeps its type.
ReaderTypeOK ==
  /\ text \in Seq(Atom)
  /\ mode \in Mode
  /\ word \in Word \cup {"none"}
  /\ first \in Word \cup {"none"}
  /\ returning \in BOOLEAN /\ touching \in BOOLEAN /\ glued \in BOOLEAN /\ plain \in BOOLEAN

\* Each scan is in a comment or in quotes when the reader is.
InStep ==
  /\ Blocks.in  <=> mode = "open"
  /\ Lines.in   <=> mode = "line"
  /\ Singles.in <=> mode = "single"
  /\ Doubles.in <=> mode = "double"

\* RETURNING stands at i, as far as what is before i tells.
Lone(t, i) == t[i] = "returning" /\ (i > 1 => t[i - 1] \notin Word)

Found(t) == \E i \in DOMAIN t : Lone(t, i) /\ (i < Len(t) => t[i + 1] \notin Word)

\* ... and something that is not of a word comes after it.
FoundBefore(t) == \E i \in DOMAIN t : Lone(t, i) /\ i < Len(t) /\ t[i + 1] \notin Word

EndsInWord(t) == Len(t) > 0 /\ t[Len(t)] \in Word

\* The word in progress is the last one of the blanked text.
WordsAgree(t) ==
  IF mode \in Quote
    THEN word = "none" /\ (returning <=> Found(t))
    ELSE /\ returning <=> FoundBefore(t)
         /\ word = "none" <=> ~EndsInWord(t)
         /\ word = "returning" <=> EndsInWord(t) /\ Lone(t, Len(t))

Blank(t) == Consists(t, Space)

\* The first word or symbol of t is at i.
Begins(t, i) == i \in DOMAIN t /\ t[i] \notin Space /\ \A j \in 1 .. i - 1 : t[j] \in Space

\* ... and is no keyword, whatever comes after t.
NoKeyword(t, i) == t[i] = "write" => i < Len(t) /\ t[i + 1] \in Word

OnlyOps(t, i, j) == \A k \in i + 1 .. j : t[k] = "op"

\* ... and is a keyword, whatever comes after t.
Keyword(t, i) ==
  /\ t[i] = "write"
  /\ \E j \in i .. Len(t) - 1 : OnlyOps(t, i, j) /\ t[j + 1] \in Space

\* ... and is a keyword, unless something that is no space touches it.
Touched(t, i) == t[i] = "write" /\ OnlyOps(t, i, Len(t))

\* The first word is that of the uncommented text.
FirstAgrees(t) ==
  /\ first = "none" => touching
  /\ first = "none" /\ word = "none"  => Blank(t)
  /\ first = "none" /\ word = "write" => Begins(t, Len(t)) /\ t[Len(t)] = "write"
  /\ first = "none" /\ word \in Word \ {"write"} =>
       \E i \in DOMAIN t : Begins(t, i) /\ t[i] \in Word /\ NoKeyword(t, i)
  /\ first \in Word \ {"write"} => \E i \in DOMAIN t : Begins(t, i) /\ NoKeyword(t, i)
  /\ first = "write" /\ ~touching => \E i \in DOMAIN t : Begins(t, i) /\ Keyword(t, i)
  /\ first = "write" /\ touching =>
       word = "none" /\ \E i \in DOMAIN t : Begins(t, i) /\ Touched(t, i)

\* What a literal or a quoted name has in it touches no keyword.
QuotesAreApart == mode \in Quote => first # "none" /\ ~(first = "write" /\ touching)

\* The mark of a comment that has not ended is seen by the driver.
MarkIsSeen == mode = "open" => \E i \in DOMAIN Opened.out : Opened.out[i] = "open"

PlainInv ==
  /\ InStep
  /\ WordsAgree(Doubles.out)
  /\ FirstAgrees(Lines.out)
  /\ QuotesAreApart
  /\ MarkIsSeen

\* The driver has something to classify as soon as the server has.
SomethingSeen == First # "none" => ~Blank(Opened.out)

\* The driver adds no space that is not ASCII's.
NothingAdded ==
  "nbsp" \in ToSet(Lines.out) \cup ToSet(Opened.out) => "nbsp" \in ToSet(text)

IInv ==
  /\ ReaderTypeOK
  /\ plain => PlainInv
  /\ SomethingSeen
  /\ NothingAdded

-----------------------------------------------------------------------------
(***************************************************************************)
(* What one atom does to the uncommented text, Lines.out, and to the       *)
(* blanked one, Doubles.out, while the text is plain.                      *)
(***************************************************************************)

\* An atom of the text proper goes through all scans.
LEMMA TextAtom ==
  ASSUME ReaderTypeOK, InStep, NEW a \in Atom, text' = Append(text, a),
         \/ mode = "text" /\ a \notin {"open", "line"} \cup Quote
         \/ mode = "line" /\ a = "newline"
  PROVE  /\ Lines'.out = Append(Lines.out, a)
         /\ Doubles'.out = Append(Doubles.out, a)
         /\ Opened' = Lines'
         /\ mode' = "text" => InStep'
<1>1. text \in Seq(Atom) /\ ~Blocks.in /\ ~Singles.in /\ ~Doubles.in
      /\ a # "open" /\ a \notin Quote /\ IF Lines.in THEN a = "newline" ELSE a # "line"
  BY DEF ReaderTypeOK, InStep, Quote
<1>2. ~Blocks'.in /\ Lines' = Advance(LineComment, Lines, a) /\ Opened' = Lines'
  BY <1>1, KeptByBlocks
<1>3. ~Lines'.in /\ Lines'.out = Append(Lines.out, a)
      /\ Singles' = Advance(Literal("single"), Singles, a)
  BY <1>1, <1>2, KeptByLines
<1>4. ~Singles'.in /\ Doubles' = Advance(Literal("double"), Doubles, a)
  BY <1>1, <1>3, KeptBySingles DEF Quote
<1>5. ~Doubles'.in /\ Doubles'.out = Append(Doubles.out, a)
  <2>1. Doubles \in Scanned /\ "double" \in Quote /\ a # "double"
    BY <1>1, ScansType DEF Quote
  <2>2. QED
    BY <1>1, <1>4, <2>1, LiteralAdvance
<1>6. QED
  BY <1>2, <1>3, <1>4, <1>5 DEF InStep

\* One of a comment changes nothing.
LEMMA CommentAtom ==
  ASSUME ReaderTypeOK, InStep, NEW a \in Atom, text' = Append(text, a),
         \/ mode = "text" /\ a \in {"open", "line"}
         \/ mode = "open"
         \/ mode = "line" /\ a \notin {"newline", "open"}
  PROVE  /\ Lines'.out = Lines.out
         /\ Doubles'.out = Doubles.out
         /\ mode' = (IF mode = "text" THEN a
                     ELSE IF mode = "open" /\ a = "close" THEN "text" ELSE mode) => InStep'
         /\ Opened' = IF mode = "line" \/ (mode = "open" /\ a = "close") \/ (mode = "text" /\ a = "line")
                        THEN Lines' ELSE Advance(LineComment, Opened, a)
<1>1. text \in Seq(Atom) /\ ~Singles.in /\ ~Doubles.in
  BY DEF ReaderTypeOK, InStep
<1>2. CASE mode = "open" \/ a = "open"
  <2>1. Blocks.in \/ a = "open"
    BY <1>2 DEF InStep
  <2>2. /\ Lines' = Lines /\ Singles' = Singles /\ Doubles' = Doubles
        /\ Blocks'.in <=> ~(Blocks.in /\ a = "close")
        /\ Opened' = IF Blocks'.in THEN Advance(LineComment, Opened, a) ELSE Lines
    BY <1>1, <2>1, HeldByBlocks
  <2>3. CASE mode = "open" /\ a = "close"
    <3>1. Blocks.in /\ ~Lines.in /\ mode # "text"
      BY <2>3 DEF InStep
    <3>2. ~Blocks'.in /\ Opened' = Lines'
      BY <2>2, <2>3, <3>1
    <3>3. QED
      BY <1>1, <2>2, <2>3, <3>1, <3>2 DEF InStep
  <2>4. CASE mode = "open" /\ a # "close"
    BY <1>1, <2>2, <2>4 DEF InStep
  <2>5. CASE mode = "text" /\ a = "open"
    BY <1>1, <2>2, <2>5 DEF InStep
  <2>6. QED
    BY <1>2, <2>3, <2>4, <2>5
<1>3. CASE mode # "open" /\ a # "open"
  <2>1. ~Blocks.in /\ IF Lines.in THEN a # "newline" ELSE a = "line"
    BY <1>3 DEF InStep
  <2>2. ~Blocks'.in /\ Lines' = Advance(LineComment, Lines, a) /\ Opened' = Lines'
    BY <1>1, <1>3, <2>1, KeptByBlocks
  <2>3. Lines'.in /\ Lines'.out = Lines.out /\ Singles' = Singles /\ Doubles' = Doubles
    BY <1>1, <2>1, <2>2, HeldByLines
  <2>4. QED
    BY <1>1, <1>3, <2>2, <2>3 DEF InStep
<1>4. QED
  BY <1>2, <1>3

\* One that begins, continues or ends a literal or a quoted name is blanked, but
\* for the two quotes that remain at the end.
LEMMA QuotedAtom ==
  ASSUME ReaderTypeOK, InStep, NEW a \in Atom, text' = Append(text, a),
         \/ mode = "text" /\ a \in Quote
         \/ mode \in Quote /\ a \notin {"open", "line"} /\ ~(mode = "double" /\ a = "single")
  PROVE  /\ Lines'.out = Append(Lines.out, a)
         /\ Doubles'.out = IF mode = a THEN Append(Append(Doubles.out, a), a) ELSE Doubles.out
         /\ Opened' = Lines'
         /\ mode' = (IF mode = "text" THEN a ELSE IF mode = a THEN "text" ELSE mode) => InStep'
<1>1. text \in Seq(Atom) /\ ~Blocks.in /\ ~Lines.in /\ a \notin {"open", "line"}
  BY DEF ReaderTypeOK, InStep, Quote
<1>2. ~Blocks'.in /\ Lines' = Advance(LineComment, Lines, a) /\ Opened' = Lines'
  BY <1>1, KeptByBlocks
<1>3. ~Lines'.in /\ Lines'.out = Append(Lines.out, a)
      /\ Singles' = Advance(Literal("single"), Singles, a)
  BY <1>1, <1>2, KeptByLines
<1>4. CASE mode = "single" /\ a = "single"
  <2>1. Singles.in /\ ~Doubles.in
    BY <1>4 DEF InStep
  <2>2. ~Singles'.in /\ ~Doubles'.in
        /\ Doubles'.out = Append(Append(Doubles.out, "single"), "single")
    BY <1>1, <1>3, <1>4, <2>1, LeftBySingles
  <2>3. QED
    BY <1>2, <1>3, <1>4, <2>2 DEF InStep
<1>5. CASE (mode = "single" /\ a # "single") \/ (mode = "text" /\ a = "single")
  <2>1. ~Doubles.in /\ IF Singles.in THEN a # "single" ELSE a = "single"
    BY <1>5 DEF InStep
  <2>2. Singles'.in /\ Doubles' = Doubles
    BY <1>1, <1>3, <2>1, HeldBySingles
  <2>3. QED
    BY <1>2, <1>3, <1>5, <2>1, <2>2 DEF InStep
<1>6. CASE mode = "double" \/ (mode = "text" /\ a = "double")
  <2>1. ~Singles.in /\ a # "single" /\ (Doubles.in <=> mode = "double")
    BY <1>6 DEF InStep
  <2>2. ~Singles'.in /\ Doubles' = Advance(Literal("double"), Doubles, a)
    BY <1>1, <1>3, <2>1, KeptBySingles
  <2>3. /\ Doubles'.in <=> IF mode = "double" THEN a # "double" ELSE a = "double"
        /\ mode = "double" /\ a = "double" => Doubles'.out = Append(Append(Doubles.out, a), a)
        /\ ~(mode = "double" /\ a = "double") => Doubles'.out = Doubles.out
    <3>1. Doubles \in Scanned /\ "double" \in Quote
      BY <1>1, ScansType DEF Quote
    <3>2. QED
      BY <1>6, <2>1, <2>2, <3>1, LiteralAdvance
  <2>4. QED
    BY <1>2, <1>3, <1>6, <2>2, <2>3 DEF InStep
<1>7. QED
  BY <1>4, <1>5, <1>6 DEF Quote

-----------------------------------------------------------------------------
(***************************************************************************)
(* What the driver finds in a text that has one more atom.                 *)
(***************************************************************************)

LEMMA AppendEntries ==
  ASSUME NEW t \in Seq(Atom), NEW a \in Atom
  PROVE  /\ Append(t, a) \in Seq(Atom) /\ Len(Append(t, a)) = Len(t) + 1
         /\ Len(t) \in Nat /\ DOMAIN t = 1 .. Len(t) /\ DOMAIN Append(t, a) = 1 .. Len(t) + 1
         /\ \A i \in 1 .. Len(t) : Append(t, a)[i] = t[i]
         /\ Append(t, a)[Len(t) + 1] = a
OBVIOUS

\* RETURNING is found, or it may still become a longer word.
LEMMA FoundIs ==
  ASSUME NEW t \in Seq(Atom)
  PROVE  Found(t) <=> FoundBefore(t) \/ (EndsInWord(t) /\ Lone(t, Len(t)))
<1>1. Len(t) \in Nat /\ DOMAIN t = 1 .. Len(t) /\ "returning" \in Word
  BY DEF Word
<1>2. ASSUME Found(t)
      PROVE  FoundBefore(t) \/ (EndsInWord(t) /\ Lone(t, Len(t)))
  BY <1>1, <1>2 DEF Found, FoundBefore, EndsInWord, Lone
<1>3. ASSUME FoundBefore(t) \/ (EndsInWord(t) /\ Lone(t, Len(t)))
      PROVE  Found(t)
  BY <1>1, <1>3 DEF Found, FoundBefore, EndsInWord
<1>4. QED
  BY <1>2, <1>3

LEMMA FoundAfterOther ==
  ASSUME NEW t \in Seq(Atom), NEW a \in Atom \ Word
  PROVE  /\ FoundBefore(Append(t, a)) <=> Found(t)
         /\ ~EndsInWord(Append(t, a))
<1> DEFINE u == Append(t, a)
<1>1. /\ u \in Seq(Atom) /\ Len(u) = Len(t) + 1 /\ Len(t) \in Nat
      /\ DOMAIN t = 1 .. Len(t) /\ DOMAIN u = 1 .. Len(t) + 1
      /\ \A i \in 1 .. Len(t) : u[i] = t[i]
      /\ u[Len(t) + 1] = a
  BY AppendEntries
<1> HIDE DEF u
<1>2. \A i \in 1 .. Len(t) : Lone(u, i) <=> Lone(t, i)
  BY <1>1 DEF Lone
<1>3. \A i \in 1 .. Len(t) : (i < Len(u) /\ u[i + 1] \notin Word)
                             <=> (i < Len(t) => t[i + 1] \notin Word)
  BY <1>1
<1>4. FoundBefore(u) <=> Found(t)
  BY <1>1, <1>2, <1>3 DEF Found, FoundBefore
<1>5. ~EndsInWord(u)
  BY <1>1 DEF EndsInWord
<1>6. QED
  BY <1>4, <1>5 DEF u

LEMMA FoundAfterWord ==
  ASSUME NEW t \in Seq(Atom), NEW a \in Word
  PROVE  LET u == Append(t, a) IN
         /\ FoundBefore(u) <=> FoundBefore(t)
         /\ EndsInWord(u)
         /\ Lone(u, Len(u)) <=> a = "returning" /\ ~EndsInWord(t)
<1> DEFINE u == Append(t, a)
<1>1. /\ u \in Seq(Atom) /\ Len(u) = Len(t) + 1 /\ Len(t) \in Nat
      /\ DOMAIN t = 1 .. Len(t) /\ DOMAIN u = 1 .. Len(t) + 1
      /\ \A i \in 1 .. Len(t) : u[i] = t[i]
      /\ u[Len(t) + 1] = a
  <2>1. a \in Atom
    BY DEF Atom, Word
  <2>2. QED
    BY <2>1, AppendEntries
<1> HIDE DEF u
<1>2. \A i \in 1 .. Len(t) : Lone(u, i) <=> Lone(t, i)
  BY <1>1 DEF Lone
<1>3. \A i \in 1 .. Len(t) : (i < Len(u) /\ u[i + 1] \notin Word)
                             <=> (i < Len(t) /\ t[i + 1] \notin Word)
  BY <1>1
<1>4. FoundBefore(u) <=> FoundBefore(t)
  BY <1>1, <1>2, <1>3 DEF FoundBefore
<1>5. EndsInWord(u)
  BY <1>1 DEF EndsInWord
<1>6. Lone(u, Len(u)) <=> a = "returning" /\ ~EndsInWord(t)
  BY <1>1 DEF Lone, EndsInWord
<1>7. QED
  BY <1>4, <1>5, <1>6 DEF u

\* The first word or symbol stays the first, and what is known of it stays known.
LEMMA BeginsStays ==
  ASSUME NEW t \in Seq(Atom), NEW a \in Atom, NEW i \in DOMAIN t, Begins(t, i)
  PROVE  LET u == Append(t, a) IN
         /\ i \in DOMAIN u /\ u[i] = t[i] /\ Begins(u, i)
         /\ NoKeyword(t, i) => NoKeyword(u, i)
         /\ Keyword(t, i) => Keyword(u, i)
         /\ Touched(t, i) /\ a = "op" => Touched(u, i)
         /\ Touched(t, i) /\ a \in Space => Keyword(u, i)
         /\ i = Len(t) /\ t[i] = "write" => Touched(t, i)
         /\ i = Len(t) /\ a \in Word => NoKeyword(u, i)
<1> DEFINE u == Append(t, a)
<1>1. /\ Len(u) = Len(t) + 1 /\ Len(t) \in Nat
      /\ DOMAIN t = 1 .. Len(t) /\ DOMAIN u = 1 .. Len(t) + 1
      /\ \A k \in 1 .. Len(t) : u[k] = t[k]
      /\ u[Len(t) + 1] = a
  BY AppendEntries
<1> HIDE DEF u
<1>2. i \in DOMAIN u /\ u[i] = t[i] /\ Begins(u, i)
  BY <1>1 DEF Begins
<1>3. NoKeyword(t, i) => NoKeyword(u, i)
  BY <1>1 DEF NoKeyword
<1>4. Keyword(t, i) => Keyword(u, i)
  BY <1>1 DEF Keyword, OnlyOps
<1>5. Touched(t, i) /\ a = "op" => Touched(u, i)
  BY <1>1 DEF Touched, OnlyOps
<1>6. Touched(t, i) /\ a \in Space => Keyword(u, i)
  BY <1>1 DEF Touched, Keyword, OnlyOps
<1>7. i = Len(t) /\ t[i] = "write" => Touched(t, i)
  BY <1>1 DEF Touched, OnlyOps
<1>8. i = Len(t) /\ a \in Word => NoKeyword(u, i)
  BY <1>1 DEF NoKeyword
<1>9. QED
  BY <1>2, <1>3, <1>4, <1>5, <1>6, <1>7, <1>8 DEF u

LEMMA BlankEnds ==
  ASSUME NEW t \in Seq(Atom), NEW a \in Atom, Blank(t)
  PROVE  LET u == Append(t, a) IN
         /\ a \in Space => Blank(u)
         /\ a \notin Space => Begins(u, Len(u)) /\ u[Len(u)] = a
         /\ Len(u) \in DOMAIN u
         /\ a # "write" => NoKeyword(u, Len(u))
BY AppendEntries DEF Blank, Consists, Begins, NoKeyword

-----------------------------------------------------------------------------
(***************************************************************************)
(* Every atom keeps the invariant of the plain texts.                      *)
(***************************************************************************)

LEMMA AtomKinds ==
  /\ Word \subseteq Atom /\ Space \subseteq Atom /\ Quote \subseteq Atom
  /\ Word \cap Space = {} /\ Word \cap Quote = {} /\ Space \cap Quote = {}
  /\ "op" \notin Word \cup Space \cup Quote /\ "close" \notin Word \cup Space \cup Quote
  /\ "open" \notin Word \cup Space \cup Quote /\ "line" \notin Word \cup Space \cup Quote
  /\ "none" \notin Word /\ "write" \in Word /\ "returning" \in Word /\ "word" \in Word
  /\ "text" \notin Quote /\ "newline" \in Space /\ "nbsp" \in Space
BY DEF Atom, Word, Space, Quote

LEMMA OutputsType ==
  ASSUME ReaderTypeOK
  PROVE  Lines.out \in Seq(Atom) /\ Doubles.out \in Seq(Atom) /\ Opened.out \in Seq(Atom)
BY ScansType DEF ReaderTypeOK, Scanned

\* A word that ends before something that is not of a word.
LEMMA WordsAgreeOther ==
  ASSUME ReaderTypeOK, NEW t \in Seq(Atom), WordsAgree(t), mode \notin Quote,
         NEW a \in Atom \ Word, WordEnds
  PROVE  /\ returning' <=> FoundBefore(Append(t, a))
         /\ ~EndsInWord(Append(t, a))
<1>1. Found(t) <=> FoundBefore(t) \/ (EndsInWord(t) /\ Lone(t, Len(t)))
  BY FoundIs
<1>2. (FoundBefore(Append(t, a)) <=> Found(t)) /\ ~EndsInWord(Append(t, a))
  BY FoundAfterOther
<1>3. returning' <=> Found(t)
  BY <1>1 DEF WordsAgree, WordEnds, ReaderTypeOK
<1>4. QED
  BY <1>2, <1>3

LEMMA SpaceStep ==
  ASSUME ReaderTypeOK, PlainInv, NEW a \in Atom, text' = Append(text, a), ReadsSpace(a),
         mode = "text" \/ (mode = "line" /\ a = "newline")
  PROVE  PlainInv'
<1> DEFINE t == Lines.out
           w == Doubles.out
<1>1. t \in Seq(Atom) /\ w \in Seq(Atom)
  BY OutputsType
<1>2. a \in Space /\ a \notin Word /\ a \notin {"open", "line"} \cup Quote /\ mode' = "text"
  BY AtomKinds DEF ReadsSpace
<1>3. t' = Append(t, a) /\ w' = Append(w, a) /\ InStep'
  BY <1>2, TextAtom DEF PlainInv
<1>4. WordsAgree(w)'
  <2>1. mode \notin Quote /\ mode' \notin Quote
    BY <1>2, AtomKinds DEF Quote
  <2>2. (returning' <=> FoundBefore(Append(w, a))) /\ ~EndsInWord(Append(w, a))
    BY <1>1, <1>2, <2>1, WordsAgreeOther DEF PlainInv, ReadsSpace
  <2>3. word' = "none"
    BY DEF ReadsSpace, WordEnds
  <2> HIDE DEF w
  <2>4. QED
    BY <1>3, <2>1, <2>2, <2>3 DEF WordsAgree
<1>5. FirstAgrees(t)'
  <2> DEFINE u == Append(t, a)
  <2>1. word' = "none" /\ first' = First /\ touching' = (First = "none")
    BY DEF ReadsSpace, WordEnds
  <2>2. FirstAgrees(t)
    BY DEF PlainInv
  <2>3. CASE First = "none"
    <3>1. first = "none" /\ word = "none" /\ Blank(t)
      BY <2>2, <2>3, AtomKinds DEF First, FirstAgrees, ReaderTypeOK
    <3>2. Blank(u)
      BY <1>1, <1>2, <3>1, BlankEnds
    <3>3. QED
      BY <1>3, <2>1, <2>3, <3>2, AtomKinds DEF FirstAgrees
  <2>4. CASE First = "write"
    <3>1. \E i \in DOMAIN t : Begins(t, i) /\ (Keyword(t, i) \/ Touched(t, i))
      <4>1. CASE first = "none"
        <5>1. Begins(t, Len(t)) /\ t[Len(t)] = "write" /\ Len(t) \in DOMAIN t
          BY <2>2, <2>4, <4>1 DEF First, FirstAgrees, Begins
        <5>2. Touched(t, Len(t))
          BY <1>1, <1>2, <5>1, BeginsStays
        <5>3. QED
          BY <5>1, <5>2
      <4>2. CASE first # "none"
        BY <2>2, <2>4, <4>2 DEF First, FirstAgrees, ReaderTypeOK
      <4>3. QED
        BY <4>1, <4>2
    <3>2. \E i \in DOMAIN u : Begins(u, i) /\ Keyword(u, i)
      BY <1>1, <1>2, <3>1, BeginsStays
    <3>3. QED
      BY <1>3, <2>1, <2>4, <3>2 DEF FirstAgrees
  <2>5. CASE First \notin {"none", "write"}
    <3>1. \E i \in DOMAIN t : Begins(t, i) /\ NoKeyword(t, i)
      BY <2>2, <2>5 DEF First, FirstAgrees, ReaderTypeOK
    <3>2. \E i \in DOMAIN u : Begins(u, i) /\ NoKeyword(u, i)
      BY <1>1, <1>2, <3>1, BeginsStays
    <3>3. QED
      BY <1>3, <2>1, <2>5, <3>2 DEF FirstAgrees
  <2>6. QED
    BY <2>3, <2>4, <2>5
<1>6. QED
  BY <1>2, <1>3, <1>4, <1>5, AtomKinds DEF PlainInv, QuotesAreApart, MarkIsSeen

LEMMA WordStep ==
  ASSUME ReaderTypeOK, PlainInv, NEW a \in Atom, text' = Append(text, a), ReadsWord(a),
         mode = "text", plain'
  PROVE  PlainInv'
<1> DEFINE t == Lines.out
           w == Doubles.out
           u == Append(t, a)
<1>1. t \in Seq(Atom) /\ w \in Seq(Atom)
  BY OutputsType
<1>2. a \in Word /\ a \notin Space /\ a \notin {"open", "line"} \cup Quote
      /\ mode' = "text" /\ touching' = touching
  BY AtomKinds DEF ReadsWord
<1>3. t' = u /\ w' = Append(w, a) /\ InStep'
  BY <1>2, TextAtom DEF PlainInv
<1>4. FirstAgrees(t) /\ WordsAgree(w) /\ mode \notin Quote /\ mode' \notin Quote
  BY <1>2, AtomKinds DEF PlainInv, Quote
<1>5. /\ word = "none" => ~Touches /\ word' = a /\ first' = first /\ returning' = returning
      /\ word # "none" => ~glued /\ word' = "word" /\ first' = first /\ returning' = returning
  BY DEF ReadsWord, ReaderTypeOK, First
<1>6. WordsAgree(w)'
  <2>1. LET v == Append(w, a) IN
        /\ FoundBefore(v) <=> FoundBefore(w)
        /\ EndsInWord(v)
        /\ Lone(v, Len(v)) <=> a = "returning" /\ ~EndsInWord(w)
    BY <1>1, <1>2, FoundAfterWord
  <2>2. (returning <=> FoundBefore(w)) /\ (word = "none" <=> ~EndsInWord(w))
    BY <1>4 DEF WordsAgree
  <2>3. word' # "none" /\ returning' = returning
        /\ (word' = "returning" <=> a = "returning" /\ word = "none")
    BY <1>2, <1>5, AtomKinds
  <2> HIDE DEF w
  <2>4. QED
    BY <1>3, <1>4, <2>1, <2>2, <2>3 DEF WordsAgree
<1>7. FirstAgrees(t)'
  <2>1. CASE first = "none" /\ word = "none"
    <3>1. Begins(u, Len(u)) /\ u[Len(u)] = a /\ Len(u) \in DOMAIN u
          /\ (a # "write" => NoKeyword(u, Len(u)))
      BY <1>1, <1>2, <1>4, <2>1, BlankEnds DEF FirstAgrees
    <3>2. word' = a /\ first' = "none" /\ touching'
      BY <1>2, <1>4, <1>5, <2>1 DEF FirstAgrees
    <3>3. QED
      BY <1>2, <1>3, <3>1, <3>2, AtomKinds DEF FirstAgrees
  <2>2. CASE first = "none" /\ word # "none"
    <3>1. \E i \in DOMAIN t : Begins(t, i) /\ t[i] \in Word /\ (NoKeyword(t, i) \/ i = Len(t))
      <4>1. CASE word = "write"
        BY <1>4, <2>2, <4>1, AtomKinds DEF FirstAgrees, Begins
      <4>2. CASE word # "write"
        BY <1>4, <2>2, <4>2 DEF FirstAgrees, ReaderTypeOK
      <4>3. QED
        BY <4>1, <4>2
    <3>2. \E i \in DOMAIN u : Begins(u, i) /\ u[i] \in Word /\ NoKeyword(u, i)
      BY <1>1, <1>2, <3>1, BeginsStays
    <3>3. word' = "word" /\ first' = "none" /\ touching'
      BY <1>2, <1>4, <1>5, <2>2 DEF FirstAgrees
    <3>4. QED
      BY <1>3, <3>2, <3>3, AtomKinds DEF FirstAgrees
  <2>3. CASE first = "write"
    <3>1. ~touching
      <4>1. CASE word = "none"
        BY <1>5, <2>3, <4>1 DEF Touches, First
      <4>2. CASE word # "none"
        BY <1>4, <2>3, <4>2 DEF FirstAgrees
      <4>3. QED
        BY <4>1, <4>2
    <3>2. \E i \in DOMAIN u : Begins(u, i) /\ Keyword(u, i)
      BY <1>1, <1>4, <2>3, <3>1, BeginsStays DEF FirstAgrees
    <3>3. first' = "write" /\ ~touching'
      BY <1>2, <1>5, <2>3, <3>1
    <3>4. QED
      BY <1>3, <3>2, <3>3 DEF FirstAgrees
  <2>4. CASE first \in Word \ {"write"}
    <3>1. \E i \in DOMAIN u : Begins(u, i) /\ NoKeyword(u, i)
      BY <1>1, <1>4, <2>4, BeginsStays DEF FirstAgrees
    <3>2. first' = first
      BY <1>5
    <3>3. QED
      BY <1>3, <2>4, <3>1, <3>2, AtomKinds DEF FirstAgrees
  <2>5. QED
    BY <2>1, <2>2, <2>3, <2>4 DEF ReaderTypeOK
<1>8. QED
  BY <1>2, <1>3, <1>4, <1>6, <1>7 DEF PlainInv, QuotesAreApart, MarkIsSeen

LEMMA OpStep ==
  ASSUME ReaderTypeOK, PlainInv, NEW a \in Atom, text' = Append(text, a), ReadsOp(a),
         mode = "text", plain'
  PROVE  PlainInv'
<1> DEFINE t == Lines.out
           w == Doubles.out
           u == Append(t, a)
<1>1. t \in Seq(Atom) /\ w \in Seq(Atom)
  BY OutputsType
<1>2. a = "op" /\ a \notin Word /\ a \notin Space /\ a \notin {"open", "line"} \cup Quote
      /\ mode' = "text" /\ touching' = touching /\ word' = "none"
      /\ First # "none" /\ first' = First
  BY AtomKinds DEF ReadsOp, WordEnds
<1>3. t' = u /\ w' = Append(w, a) /\ InStep'
  BY <1>2, TextAtom DEF PlainInv
<1>4. FirstAgrees(t) /\ WordsAgree(w) /\ mode \notin Quote /\ mode' \notin Quote
  BY <1>2, AtomKinds DEF PlainInv, Quote
<1>5. WordsAgree(w)'
  <2>1. (returning' <=> FoundBefore(Append(w, a))) /\ ~EndsInWord(Append(w, a))
    BY <1>1, <1>2, <1>4, WordsAgreeOther DEF ReadsOp
  <2> HIDE DEF w
  <2>2. QED
    BY <1>2, <1>3, <1>4, <2>1 DEF WordsAgree
<1>6. FirstAgrees(t)'
  <2>1. CASE First = "write" /\ ~touching
    <3>1. first = "write"
      BY <1>4, <2>1 DEF First, FirstAgrees
    <3>2. \E i \in DOMAIN u : Begins(u, i) /\ Keyword(u, i)
      BY <1>1, <1>4, <2>1, <3>1, BeginsStays DEF FirstAgrees
    <3>3. QED
      BY <1>2, <1>3, <2>1, <3>2 DEF FirstAgrees
  <2>2. CASE First = "write" /\ touching
    <3>1. \E i \in DOMAIN t : Begins(t, i) /\ Touched(t, i)
      <4>1. CASE first = "none"
        <5>1. Begins(t, Len(t)) /\ t[Len(t)] = "write" /\ Len(t) \in DOMAIN t
          BY <1>4, <2>2, <4>1 DEF First, FirstAgrees, Begins
        <5>2. QED
          BY <1>1, <5>1, BeginsStays
      <4>2. CASE first # "none"
        BY <1>4, <2>2, <4>2 DEF First, FirstAgrees
      <4>3. QED
        BY <4>1, <4>2
    <3>2. \E i \in DOMAIN u : Begins(u, i) /\ Touched(u, i)
      BY <1>1, <1>2, <3>1, BeginsStays
    <3>3. QED
      BY <1>2, <1>3, <2>2, <3>2 DEF FirstAgrees
  <2>3. CASE First # "write"
    <3>1. \E i \in DOMAIN t : Begins(t, i) /\ NoKeyword(t, i)
      BY <1>2, <1>4, <2>3 DEF First, FirstAgrees, ReaderTypeOK
    <3>2. \E i \in DOMAIN u : Begins(u, i) /\ NoKeyword(u, i)
      BY <1>1, <3>1, BeginsStays
    <3>3. QED
      BY <1>2, <1>3, <2>3, <3>2 DEF FirstAgrees
  <2>4. QED
    BY <2>1, <2>2, <2>3
<1>7. QED
  BY <1>2, <1>3, <1>4, <1>5, <1>6 DEF PlainInv, QuotesAreApart, MarkIsSeen

LEMMA SymbolStep ==
  ASSUME ReaderTypeOK, PlainInv, NEW a \in Atom, text' = Append(text, a), ReadsSymbol(a),
         mode = "text", plain'
  PROVE  PlainInv'
<1> DEFINE t == Lines.out
           w == Doubles.out
           u == Append(t, a)
<1>1. t \in Seq(Atom) /\ w \in Seq(Atom)
  BY OutputsType
<1>2. a \in Quote \cup {"close"} /\ a \notin Word /\ a \notin Space /\ a # "write"
      /\ a \notin {"open", "line"} /\ touching' = touching /\ word' = "none" /\ ~Touches
      /\ first' = (IF First = "none" THEN "word" ELSE First)
      /\ mode' = (IF a \in Quote THEN a ELSE "text")
  BY AtomKinds DEF ReadsSymbol, WordEnds
<1>3. FirstAgrees(t) /\ WordsAgree(w) /\ mode \notin Quote
  BY AtomKinds DEF PlainInv, Quote
<1>4. t' = u /\ InStep' /\ w' = IF a \in Quote THEN w ELSE Append(w, a)
  <2>1. CASE a \in Quote
    BY <1>2, <2>1, QuotedAtom, AtomKinds DEF PlainInv
  <2>2. CASE a = "close"
    BY <1>2, <2>2, TextAtom, AtomKinds DEF PlainInv
  <2>3. QED
    BY <1>2, <2>1, <2>2, AtomKinds
<1>5. WordsAgree(w)'
  <2>1. CASE a \in Quote
    <3>1. Found(w) <=> FoundBefore(w) \/ (EndsInWord(w) /\ Lone(w, Len(w)))
      BY <1>1, FoundIs
    <3>2. returning' <=> Found(w)
      BY <1>3, <3>1 DEF WordsAgree, ReadsSymbol, WordEnds, ReaderTypeOK
    <3> HIDE DEF w
    <3>3. QED
      BY <1>2, <1>4, <2>1, <3>2 DEF WordsAgree
  <2>2. CASE a = "close"
    <3>1. (returning' <=> FoundBefore(Append(w, a))) /\ ~EndsInWord(Append(w, a))
      BY <1>1, <1>2, <1>3, WordsAgreeOther DEF ReadsSymbol
    <3>2. a \notin Quote /\ mode' \notin Quote
      BY <1>2, <2>2, AtomKinds
    <3> HIDE DEF w
    <3>3. QED
      BY <1>2, <1>4, <3>1, <3>2 DEF WordsAgree
  <2>3. QED
    BY <1>2, <2>1, <2>2
<1>6. FirstAgrees(t)'
  <2>1. CASE First = "none"
    <3>1. Blank(t)
      BY <1>3, <2>1, AtomKinds DEF First, FirstAgrees, ReaderTypeOK
    <3>2. Begins(u, Len(u)) /\ Len(u) \in DOMAIN u /\ NoKeyword(u, Len(u))
      BY <1>1, <1>2, <3>1, BlankEnds
    <3>3. first' = "word"
      BY <1>2, <2>1
    <3>4. QED
      BY <1>4, <3>2, <3>3 DEF FirstAgrees
  <2>2. CASE First = "write"
    <3>1. ~touching /\ first = "write"
      BY <1>2, <1>3, <2>2 DEF Touches, First, FirstAgrees
    <3>2. \E i \in DOMAIN u : Begins(u, i) /\ Keyword(u, i)
      BY <1>1, <1>3, <3>1, BeginsStays DEF FirstAgrees
    <3>3. first' = "write" /\ ~touching'
      BY <1>2, <2>2, <3>1
    <3>4. QED
      BY <1>4, <3>2, <3>3 DEF FirstAgrees
  <2>3. CASE First \notin {"none", "write"}
    <3>1. \E i \in DOMAIN t : Begins(t, i) /\ NoKeyword(t, i)
      BY <1>3, <2>3 DEF First, FirstAgrees, ReaderTypeOK
    <3>2. \E i \in DOMAIN u : Begins(u, i) /\ NoKeyword(u, i)
      BY <1>1, <3>1, BeginsStays
    <3>3. QED
      BY <1>2, <1>4, <2>3, <3>2 DEF FirstAgrees
  <2>4. QED
    BY <2>1, <2>2, <2>3
<1>7. QuotesAreApart'
  BY <1>2 DEF QuotesAreApart, Touches
<1>8. mode' # "open"
  BY <1>2, AtomKinds DEF Quote
<1>9. QED
  BY <1>4, <1>5, <1>6, <1>7, <1>8 DEF PlainInv, MarkIsSeen

\* The scan for line comments never takes back what it has put out.
LEMMA OutGrows ==
  ASSUME NEW s \in Scanned, NEW a \in Atom
  PROVE  LET n == Advance(LineComment, s, a) IN
         \A i \in DOMAIN s.out : i \in DOMAIN n.out /\ n.out[i] = s.out[i]
<1>1. s.out \in Seq(Atom)
  BY DEF Scanned
<1>2. LET n == Advance(LineComment, s, a) IN n.out = s.out \/ n.out = Append(s.out, a)
  BY LineAdvance
<1>3. QED
  BY <1>1, <1>2, AppendEntries

LEMMA CommentStep ==
  ASSUME ReaderTypeOK, PlainInv, NEW a \in Atom, text' = Append(text, a),
         \/ mode = "text" /\ ReadsComment(a)
         \/ InBlock(a)
         \/ mode = "line" /\ a # "newline" /\ InLine(a),
         plain'
  PROVE  PlainInv'
<1> DEFINE t == Lines.out
           w == Doubles.out
<1>1. /\ \/ mode = "text" /\ a \in {"open", "line"}
         \/ mode = "open"
         \/ mode = "line" /\ a \notin {"newline", "open"}
      /\ mode' = IF mode = "text" THEN a
                 ELSE IF mode = "open" /\ a = "close" THEN "text" ELSE mode
      /\ UNCHANGED << word, first, returning, touching >>
  BY DEF ReadsComment, InBlock, InLine
<1>2. t' = t /\ w' = w /\ InStep'
      /\ Opened' = IF mode = "line" \/ (mode = "open" /\ a = "close") \/ (mode = "text" /\ a = "line")
                     THEN Lines' ELSE Advance(LineComment, Opened, a)
  BY <1>1, CommentAtom DEF PlainInv
<1>3. mode \notin Quote /\ mode' \notin Quote
  BY <1>1, AtomKinds DEF Quote
<1> HIDE DEF t, w
<1>4. WordsAgree(w)'
  <2>1. WordsAgree(w)
    BY DEF PlainInv, w
  <2>2. QED
    BY <1>1, <1>2, <1>3, <2>1 DEF WordsAgree
<1>5. FirstAgrees(t)'
  <2>1. FirstAgrees(t)
    BY DEF PlainInv, t
  <2>2. QED
    BY <1>1, <1>2, <2>1 DEF FirstAgrees
<1>6. MarkIsSeen'
  <2>1. SUFFICES ASSUME mode' = "open"
                 PROVE  \E i \in DOMAIN Opened'.out : Opened'.out[i] = "open"
    BY DEF MarkIsSeen
  <2>2. Opened' = Advance(LineComment, Opened, a) /\ Opened \in Scanned
    BY <1>1, <1>2, <2>1, ScansType DEF ReaderTypeOK
  <2>3. CASE mode = "open"
    <3>1. PICK i \in DOMAIN Opened.out : Opened.out[i] = "open"
      BY <2>3 DEF PlainInv, MarkIsSeen
    <3>2. QED
      BY <2>2, <3>1, OutGrows
  <2>4. CASE mode = "text" /\ a = "open"
    <3>1. Opened = Lines /\ ~Lines.in
      BY <2>4, OpenedIsLines DEF PlainInv, InStep, ReaderTypeOK
    <3>2. Opened'.out = Append(Opened.out, "open")
      BY <2>2, <2>4, <3>1, LineAdvance
    <3>3. Opened.out \in Seq(Atom)
      BY <2>2 DEF Scanned
    <3>4. LET n == Len(Opened.out) + 1 IN
          n \in DOMAIN Append(Opened.out, a) /\ Append(Opened.out, a)[n] = a
      BY <3>3, AppendEntries
    <3>5. QED
      BY <2>4, <3>2, <3>4
  <2>5. QED
    BY <1>1, <2>1, <2>3, <2>4
<1>7. QED
  BY <1>2, <1>3, <1>4, <1>5, <1>6 DEF PlainInv, QuotesAreApart, t, w

LEMMA LiteralStep ==
  ASSUME ReaderTypeOK, PlainInv, NEW a \in Atom, text' = Append(text, a), InLiteral(a),
         plain'
  PROVE  PlainInv'
<1> DEFINE t == Lines.out
           w == Doubles.out
           u == Append(t, a)
<1>1. t \in Seq(Atom) /\ w \in Seq(Atom)
  BY OutputsType
<1>2. mode \in Quote /\ a \notin {"open", "line"} /\ ~(mode = "double" /\ a = "single")
      /\ mode' = (IF a = mode THEN "text" ELSE mode)
      /\ UNCHANGED << word, first, returning, touching >>
  BY DEF InLiteral
<1>3. t' = u /\ w' = (IF mode = a THEN Append(Append(w, a), a) ELSE w) /\ InStep'
  BY <1>2, QuotedAtom, AtomKinds DEF PlainInv
<1>4. FirstAgrees(t) /\ WordsAgree(w) /\ QuotesAreApart
  BY DEF PlainInv
<1>5. WordsAgree(w)'
  <2>1. word = "none" /\ (returning <=> Found(w))
    BY <1>2, <1>4 DEF WordsAgree
  <2>2. CASE a = mode
    <3> DEFINE v == Append(w, a)
    <3>1. a \in Atom \ Word /\ mode' \notin Quote
      BY <1>2, <2>2, AtomKinds
    <3>2. v \in Seq(Atom) /\ (FoundBefore(v) <=> Found(w)) /\ ~EndsInWord(v)
      BY <1>1, <3>1, FoundAfterOther
    <3>3. (FoundBefore(Append(v, a)) <=> Found(v)) /\ ~EndsInWord(Append(v, a))
      BY <3>1, <3>2, FoundAfterOther
    <3>4. Found(v) <=> FoundBefore(v)
      BY <3>2, FoundIs
    <3> HIDE DEF w
    <3>5. QED
      BY <1>2, <1>3, <2>1, <2>2, <3>1, <3>2, <3>3, <3>4 DEF WordsAgree
  <2>3. CASE a # mode
    <3> HIDE DEF w
    <3>1. QED
      BY <1>2, <1>3, <2>1, <2>3 DEF WordsAgree
  <2>4. QED
    BY <2>2, <2>3
<1>6. FirstAgrees(t)'
  <2>1. first # "none" /\ ~(first = "write" /\ touching)
    BY <1>2, <1>4 DEF QuotesAreApart
  <2>2. CASE first = "write"
    <3>1. \E i \in DOMAIN u : Begins(u, i) /\ Keyword(u, i)
      BY <1>1, <1>4, <2>1, <2>2, BeginsStays DEF FirstAgrees
    <3>2. QED
      BY <1>2, <1>3, <2>1, <2>2, <3>1 DEF FirstAgrees
  <2>3. CASE first # "write"
    <3>1. \E i \in DOMAIN u : Begins(u, i) /\ NoKeyword(u, i)
      BY <1>1, <1>4, <2>1, <2>3, BeginsStays DEF FirstAgrees, ReaderTypeOK
    <3>2. QED
      BY <1>2, <1>3, <2>1, <2>3, <3>1 DEF FirstAgrees
  <2>4. QED
    BY <2>2, <2>3
<1>7. QuotesAreApart' /\ mode' # "open"
  BY <1>2, <1>4 DEF QuotesAreApart, Quote
<1>8. QED
  BY <1>3, <1>5, <1>6, <1>7 DEF PlainInv, MarkIsSeen

LEMMA PlainStep ==
  ASSUME ReaderTypeOK, PlainInv, NEW a \in Atom, Read(a), plain'
  PROVE  PlainInv'
<1>1. text' = Append(text, a)
  BY DEF Read
<1>2. CASE InText(a)
  BY <1>1, <1>2, SpaceStep, WordStep, OpStep, SymbolStep, CommentStep DEF InText
<1>3. CASE InLiteral(a)
  BY <1>1, <1>3, LiteralStep
<1>4. CASE InBlock(a)
  BY <1>1, <1>4, CommentStep
<1>5. CASE InLine(a)
  <2>1. CASE a = "newline"
    BY <1>1, <1>5, <2>1, SpaceStep DEF InLine
  <2>2. CASE a # "newline"
    BY <1>1, <1>5, <2>2, CommentStep DEF InLine
  <2>3. QED
    BY <2>1, <2>2
<1>6. QED
  BY <1>2, <1>3, <1>4, <1>5 DEF Read

-----------------------------------------------------------------------------
(***************************************************************************)
(* The rest of the invariant, for every text.                              *)
(***************************************************************************)

\* Whatever the reader has for its first word, the driver has something there.
LEMMA FirstIsSeen ==
  ASSUME ReaderTypeOK, FirstAgrees(Lines.out), First # "none"
  PROVE  ~Blank(Lines.out)
<1> DEFINE t == Lines.out
<1>1. \E i \in DOMAIN t : Begins(t, i)
  <2>1. CASE first = "none" /\ word = "write"
    BY <2>1 DEF FirstAgrees, Begins
  <2>2. CASE first = "none" /\ word # "write"
    BY <2>2 DEF FirstAgrees, First, ReaderTypeOK
  <2>3. CASE first # "none"
    BY <2>3 DEF FirstAgrees, ReaderTypeOK
  <2>4. QED
    BY <2>1, <2>2, <2>3
<1>2. QED
  BY <1>1 DEF Begins, Blank, Consists

LEMMA SeenIfPlain == ReaderTypeOK /\ PlainInv => SomethingSeen
<1> SUFFICES ASSUME ReaderTypeOK, PlainInv, First # "none"
             PROVE  ~Blank(Opened.out)
  BY DEF SomethingSeen
<1>1. CASE mode = "open"
  <2>1. PICK i \in DOMAIN Opened.out : Opened.out[i] = "open"
    BY <1>1 DEF PlainInv, MarkIsSeen
  <2>2. QED
    BY <2>1, AtomKinds DEF Blank, Consists
<1>2. CASE mode # "open"
  <2>1. Opened = Lines
    BY <1>2, OpenedIsLines DEF PlainInv, InStep, ReaderTypeOK
  <2>2. QED
    BY <2>1, FirstIsSeen DEF PlainInv
<1>3. QED
  BY <1>1, <1>2

\* An atom that is no space, where the driver sees it.
LEMMA SymbolIsSeen ==
  ASSUME NEW t \in Seq(Atom), NEW a \in Atom \ Space
  PROVE  ~Blank(Append(t, a))
BY AppendEntries DEF Blank, Consists

LEMMA SeenStays ==
  ASSUME NEW s \in Scanned, NEW a \in Atom, ~Blank(s.out)
  PROVE  ~Blank(Advance(LineComment, s, a).out)
<1>1. PICK i \in DOMAIN s.out : s.out[i] \notin Space
  BY DEF Blank, Consists
<1>2. QED
  BY <1>1, OutGrows DEF Blank, Consists

\* The first text that is not plain.
LEMMA SeenOtherwise ==
  ASSUME ReaderTypeOK, PlainInv, NEW a \in Atom, Read(a), ~plain', (First # "none")'
  PROVE  ~Blank(Opened'.out)
<1>1. text' = Append(text, a) /\ plain
  BY DEF Read
<1>2. Opened \in Scanned /\ Lines \in Scanned /\ text \in Seq(Atom) /\ Lines.out \in Seq(Atom)
  BY ScansType DEF ReaderTypeOK, Scanned
<1>3. CASE InText(a)
  <2>1. a \notin Space \cup {"open", "line"}
    BY <1>1, <1>3, AtomKinds DEF InText, ReadsSpace, ReadsWord, ReadsOp, ReadsSymbol, ReadsComment
  <2>2. Lines'.out = Append(Lines.out, a) /\ Opened' = Lines'
    <3>1. mode = "text"
      BY <1>3 DEF InText
    <3>2. CASE a \in Quote
      BY <1>1, <3>1, <3>2, QuotedAtom DEF PlainInv
    <3>3. CASE a \notin Quote
      BY <1>1, <2>1, <3>1, <3>3, TextAtom DEF PlainInv
    <3>4. QED
      BY <3>2, <3>3
  <2>3. QED
    BY <1>2, <2>1, <2>2, SymbolIsSeen
<1>4. CASE InLiteral(a)
  <2>1. ~Blocks.in /\ ~Lines.in /\ Opened = Lines
    BY <1>2, <1>4, OpenedIsLines, AtomKinds DEF InLiteral, PlainInv, InStep, Quote
  <2>2. First # "none"
    BY <1>4 DEF InLiteral, PlainInv, QuotesAreApart, First
  <2>3. ~Blank(Lines.out)
    BY <2>2, FirstIsSeen DEF PlainInv
  <2>4. Opened' = Advance(LineComment, Lines, a)
    <3>1. CASE a = "open"
      <4>1. Blocks'.in
        BY <1>1, <1>2, <2>1, <3>1, HeldByBlocks
      <4>2. QED
        BY <1>1, <1>2, <2>1, <3>1, <4>1, HeldByBlocks
    <3>2. CASE a # "open"
      BY <1>1, <1>2, <2>1, <3>2, KeptByBlocks
    <3>3. QED
      BY <3>1, <3>2
  <2>5. QED
    BY <1>2, <2>3, <2>4, SeenStays
<1>5. CASE InBlock(a)
  <2>1. ~Blank(Opened.out)
    <3>1. PICK i \in DOMAIN Opened.out : Opened.out[i] = "open"
      BY <1>5 DEF InBlock, PlainInv, MarkIsSeen
    <3>2. QED
      BY <3>1, AtomKinds DEF Blank, Consists
  <2>2. Blocks.in /\ a = "open"
    BY <1>1, <1>5 DEF InBlock, PlainInv, InStep
  <2>3. Opened' = Advance(LineComment, Opened, a)
    BY <1>1, <1>2, <2>2, HeldByBlocks
  <2>4. QED
    BY <1>2, <2>1, <2>3, SeenStays
<1>6. CASE InLine(a)
  <2>1. a = "open" /\ UNCHANGED << word, first >> /\ mode = "line"
    BY <1>1, <1>6 DEF InLine, ReadsSpace
  <2>2. ~Blank(Lines.out)
    BY <2>1, FirstIsSeen DEF PlainInv, First
  <2>3. ~Blocks.in /\ Opened = Lines
    BY <1>2, <2>1, OpenedIsLines DEF PlainInv, InStep
  <2>4. Opened' = Advance(LineComment, Lines, a)
    <3>1. Blocks'.in
      BY <1>1, <1>2, <2>1, <2>3, HeldByBlocks
    <3>2. QED
      BY <1>1, <1>2, <2>1, <2>3, <3>1, HeldByBlocks
  <2>5. QED
    BY <1>2, <2>2, <2>4, SeenStays
<1>7. QED
  BY <1>3, <1>4, <1>5, <1>6 DEF Read

LEMMA NothingAddedStep ==
  ASSUME ReaderTypeOK, NothingAdded, NEW a \in Atom, text' = Append(text, a)
  PROVE  NothingAdded'
<1>1. text \in Seq(Atom) /\ Lines \in Scanned /\ Opened \in Scanned
      /\ Lines.out \in Seq(Atom) /\ Opened.out \in Seq(Atom)
  BY ScansType DEF ReaderTypeOK, Scanned
<1>2. \A t \in Seq(Atom) : ToSet(Append(t, a)) = ToSet(t) \cup {a}
  <2> SUFFICES ASSUME NEW t \in Seq(Atom)
               PROVE  ToSet(Append(t, a)) = ToSet(t) \cup {a}
    OBVIOUS
  <2>1. QED
    BY AppendEntries DEF ToSet
<1>3. \A s \in Scanned : ToSet(Advance(LineComment, s, a).out) \subseteq ToSet(s.out) \cup {a}
  <2> SUFFICES ASSUME NEW s \in Scanned
               PROVE  ToSet(Advance(LineComment, s, a).out) \subseteq ToSet(s.out) \cup {a}
    OBVIOUS
  <2>1. s.out \in Seq(Atom)
    BY DEF Scanned
  <2>2. LET n == Advance(LineComment, s, a) IN n.out = s.out \/ n.out = Append(s.out, a)
    BY LineAdvance
  <2>3. QED
    BY <1>2, <2>1, <2>2
<1>4. ToSet(Lines'.out) \cup ToSet(Opened'.out)
        \subseteq ToSet(Lines.out) \cup ToSet(Opened.out) \cup {a}
  <2>1. CASE Blocks.in \/ a = "open"
    <3>1. Lines' = Lines /\ (Opened' = Advance(LineComment, Opened, a) \/ Opened' = Lines)
      BY <1>1, <2>1, HeldByBlocks
    <3>2. QED
      BY <1>1, <1>3, <3>1
  <2>2. CASE ~Blocks.in /\ a # "open"
    <3>1. Lines' = Advance(LineComment, Lines, a) /\ Opened' = Lines'
      BY <1>1, <2>2, KeptByBlocks
    <3>2. QED
      BY <1>1, <1>3, <3>1
  <2>3. QED
    BY <2>1, <2>2
<1>5. ToSet(text') = ToSet(text) \cup {a}
  BY <1>1, <1>2
<1>6. QED
  BY <1>4, <1>5 DEF NothingAdded

LEMMA TypeStep ==
  ASSUME ReaderTypeOK, NEW a \in Atom, Read(a)
  PROVE  ReaderTypeOK'
<1>1. text' \in Seq(Atom)
  BY DEF ReaderTypeOK, Read
<1>2. First \in Word \cup {"none"} /\ "word" \in Word
  BY AtomKinds DEF ReaderTypeOK, First
<1>3. CASE InText(a)
  BY <1>1, <1>2, <1>3 DEF ReaderTypeOK, InText, ReadsSpace, ReadsWord, ReadsOp, ReadsSymbol,
       ReadsComment, WordEnds, Mode, Touches
<1>4. CASE InLiteral(a)
  BY <1>1, <1>4 DEF ReaderTypeOK, InLiteral, Mode
<1>5. CASE InBlock(a)
  BY <1>1, <1>5 DEF ReaderTypeOK, InBlock, Mode
<1>6. CASE InLine(a)
  BY <1>1, <1>2, <1>6 DEF ReaderTypeOK, InLine, ReadsSpace, WordEnds, Mode
<1>7. QED
  BY <1>3, <1>4, <1>5, <1>6 DEF Read

LEMMA InitInv == Init => IInv
<1> SUFFICES ASSUME Init
             PROVE  IInv
  OBVIOUS
<1>1. ReaderTypeOK
  <2>1. << >> \in Seq(Atom)
    OBVIOUS
  <2>2. QED
    BY <2>1 DEF Init, ReaderTypeOK, Mode
<1>2. Blocks = Start /\ Lines = Start /\ Singles = Start /\ Doubles = Start /\ Opened = Start
  BY ScansOfNothing DEF Init
<1>3. PlainInv
  <2>1. InStep
    BY <1>2 DEF InStep, Start, Init
  <2>2. WordsAgree(Doubles.out)
    BY <1>2, AtomKinds DEF WordsAgree, FoundBefore, EndsInWord, Start, Init
  <2>3. FirstAgrees(Lines.out)
    BY <1>2, AtomKinds DEF FirstAgrees, Blank, Consists, Start, Init
  <2>4. QuotesAreApart /\ MarkIsSeen
    BY AtomKinds DEF QuotesAreApart, MarkIsSeen, Init
  <2>5. QED
    BY <2>1, <2>2, <2>3, <2>4 DEF PlainInv
<1>4. NothingAdded
  BY <1>2 DEF NothingAdded, Start, ToSet
<1>5. QED
  BY <1>1, <1>3, <1>4, SeenIfPlain DEF IInv

LEMMA NextInv == IInv /\ [Next]_vars => IInv'
<1>1. SomethingSeen' \/ ~(ReaderTypeOK /\ PlainInv)'
  BY SeenIfPlain, PTL
<1> SUFFICES ASSUME IInv, [Next]_vars
             PROVE  IInv'
  OBVIOUS
<1>2. ASSUME NEW a \in Atom, Read(a)
      PROVE  IInv'
  <2>1. plain /\ text' = Append(text, a) /\ ReaderTypeOK /\ PlainInv
    BY <1>2 DEF Read, IInv
  <2>2. ReaderTypeOK'
    BY <1>2, <2>1, TypeStep
  <2>3. NothingAdded'
    BY <2>1, NothingAddedStep DEF IInv
  <2>4. CASE plain'
    <3>1. PlainInv'
      BY <1>2, <2>1, <2>4, PlainStep
    <3>2. SomethingSeen'
      BY <1>1, <2>2, <3>1
    <3>3. QED
      BY <2>2, <2>3, <3>1, <3>2 DEF IInv
  <2>5. CASE ~plain'
    <3>1. SomethingSeen'
      BY <1>2, <2>1, <2>5, SeenOtherwise DEF SomethingSeen
    <3>2. QED
      BY <2>2, <2>3, <2>5, <3>1 DEF IInv
  <2>6. QED
    BY <2>4, <2>5
<1>3. CASE UNCHANGED vars
  BY <1>3 DEF vars, IInv, ReaderTypeOK, PlainInv, InStep, WordsAgree, FirstAgrees,
    QuotesAreApart, MarkIsSeen, SomethingSeen, NothingAdded, First, Blocks, Lines, Singles,
    Doubles, Opened
<1>4. QED
  BY <1>2, <1>3 DEF Next

\* What the driver's scans and the server's reader have made of the text agree,
\* after every text, however long.
THEOREM Invariance == Spec => []IInv
BY InitInv, NextInv, PTL DEF Spec

-----------------------------------------------------------------------------
(***************************************************************************)
(* The properties.                                                         *)
(***************************************************************************)

LEMMA StrippedIs ==
  ASSUME text \in Seq(Atom)
  PROVE  StripSQLComments(text) = Opened.out
<1>1. Blocks.out \o Blocks.held \in Seq(Atom)
  BY ScansType DEF Scanned
<1>2. WithoutBlock(text) = Blocks.out \o Blocks.held
  BY DEF WithoutBlock, Replace, Blocks
<1>3. QED
  BY <1>1, <1>2, WithoutLineIs DEF StripSQLComments, Opened

LEMMA BlankedIs ==
  ASSUME text \in Seq(Atom), ~Singles.in, ~Doubles.in
  PROVE  BlankLiterals(Lines.out) = Doubles.out
<1>1. Singles.held = << >> /\ Singles.out \in Seq(Atom)
      /\ Doubles.held = << >> /\ Doubles.out \in Seq(Atom)
  BY ScansType DEF Scanned
<1>2. Replace(Literal("single"), Lines.out) = Singles.out
  <2>1. Replace(Literal("single"), Lines.out) = Singles.out \o Singles.held
    BY DEF Replace, Singles
  <2>2. QED
    BY <1>1, <2>1, ConcatEmptySeq
<1>3. Replace(Literal("double"), Singles.out) = Doubles.out
  <2>1. Replace(Literal("double"), Singles.out) = Doubles.out \o Doubles.held
    BY DEF Replace, Doubles
  <2>2. QED
    BY <1>1, <2>1, ConcatEmptySeq
<1>4. QED
  BY <1>2, <1>3 DEF BlankLiterals

LEMMA HasReturningIs ==
  ASSUME NEW t \in Seq(Atom), BlankLiterals(t) \in Seq(Atom)
  PROVE  HasReturningClause(t) <=> Found(BlankLiterals(t))
BY DEF HasReturningClause, Found, Lone

\* The first word, as isDDLDML takes it from the text, is a keyword.
LEMMA FirstWordIs ==
  ASSUME NEW t \in Seq(Atom), NEW i \in DOMAIN t, Begins(t, i)
  PROVE  /\ Keyword(t, i) \/ Touched(t, i) => FirstWordWrites(t)
         /\ NoKeyword(t, i) => ~FirstWordWrites(t)
<1>1. Len(t) \in Nat /\ DOMAIN t = 1 .. Len(t) /\ "op" \notin Word /\ Space \cap Word = {}
      /\ "write" \notin Space
  BY AtomKinds
<1>2. \A A : \A m \in 1 .. Len(t) + 1, n \in 0 .. Len(t) :
        Consists(SubSeq(t, m, n), A) <=> \A k \in m .. n : t[k] \in A
  <2> SUFFICES ASSUME NEW A, NEW m \in 1 .. Len(t) + 1, NEW n \in 0 .. Len(t)
               PROVE  Consists(SubSeq(t, m, n), A) <=> \A k \in m .. n : t[k] \in A
    OBVIOUS
  <2> DEFINE s == SubSeq(t, m, n)
  <2>1. CASE m <= n
    <3>1. Len(s) = n - m + 1 /\ DOMAIN s = 1 .. n - m + 1
          /\ \A k \in 1 .. n - m + 1 : s[k] = t[m + k - 1]
      BY <1>1, <2>1
    <3> HIDE DEF s
    <3>2. ASSUME Consists(s, A), NEW k \in m .. n
          PROVE  t[k] \in A
      <4>1. k - m + 1 \in 1 .. n - m + 1 /\ m + (k - m + 1) - 1 = k
        BY <1>1
      <4>2. QED
        BY <3>1, <3>2, <4>1 DEF Consists
    <3>3. ASSUME \A k \in m .. n : t[k] \in A
          PROVE  Consists(s, A)
      BY <1>1, <3>1, <3>3 DEF Consists
    <3>4. QED
      BY <3>2, <3>3 DEF s
  <2>2. CASE m > n
    <3>1. s = << >>
      BY <1>1, <2>2
    <3>2. QED
      BY <1>1, <2>2, <3>1 DEF Consists
  <2>3. QED
    BY <1>1, <2>1, <2>2
<1>3. FirstWordWrites(t) <=>
        \E h \in 1 .. Len(t) : Begins(t, h) /\ t[h] = "write" /\
          \E j \in h .. Len(t) : OnlyOps(t, h, j) /\ (j < Len(t) => t[j + 1] \in Space)
  <2>1. \A h \in 1 .. Len(t) : t[h] = "write" =>
          (Consists(SubSeq(t, 1, h - 1), Space) <=> Begins(t, h))
    <3> SUFFICES ASSUME NEW h \in 1 .. Len(t), t[h] = "write"
                 PROVE  Consists(SubSeq(t, 1, h - 1), Space) <=> Begins(t, h)
      OBVIOUS
    <3>1. 1 \in 1 .. Len(t) + 1 /\ h - 1 \in 0 .. Len(t)
      BY <1>1
    <3>2. Consists(SubSeq(t, 1, h - 1), Space) <=> \A k \in 1 .. h - 1 : t[k] \in Space
      BY <1>2, <3>1
    <3>3. QED
      BY <1>1, <3>2 DEF Begins
  <2>2. \A h \in 1 .. Len(t) : \A j \in h .. Len(t) :
          Consists(SubSeq(t, h + 1, j), {"op"}) <=> OnlyOps(t, h, j)
    <3> SUFFICES ASSUME NEW h \in 1 .. Len(t), NEW j \in h .. Len(t)
                 PROVE  Consists(SubSeq(t, h + 1, j), {"op"}) <=> OnlyOps(t, h, j)
      OBVIOUS
    <3>1. h + 1 \in 1 .. Len(t) + 1 /\ j \in 0 .. Len(t)
      BY <1>1
    <3>2. Consists(SubSeq(t, h + 1, j), {"op"}) <=> \A k \in h + 1 .. j : t[k] \in {"op"}
      BY <1>2, <3>1
    <3>3. QED
      BY <3>2 DEF OnlyOps
  <2>3. QED
    BY <1>1, <2>1, <2>2 DEF FirstWordWrites
<1>4. \A h \in 1 .. Len(t) : Begins(t, h) => h = i
  <2> SUFFICES ASSUME NEW h \in 1 .. Len(t), Begins(t, h)
               PROVE  h = i
    OBVIOUS
  <2>1. ~(h < i)
    BY <1>1 DEF Begins
  <2>2. ~(i < h)
    BY <1>1 DEF Begins
  <2>3. QED
    BY <1>1, <2>1, <2>2
<1>5. ASSUME Keyword(t, i) \/ Touched(t, i)
      PROVE  FirstWordWrites(t)
  <2>1. t[i] = "write" /\ i \in 1 .. Len(t)
    BY <1>1, <1>5 DEF Keyword, Touched
  <2>2. \E j \in i .. Len(t) : OnlyOps(t, i, j) /\ (j < Len(t) => t[j + 1] \in Space)
    BY <1>1, <1>5, <2>1 DEF Keyword, Touched
  <2>3. QED
    BY <1>3, <2>1, <2>2
<1>6. ASSUME NoKeyword(t, i), FirstWordWrites(t)
      PROVE  FALSE
  <2>1. PICK j \in i .. Len(t) : OnlyOps(t, i, j) /\ (j < Len(t) => t[j + 1] \in Space)
                                 /\ t[i] = "write"
    BY <1>3, <1>4, <1>6
  <2>2. i < Len(t) /\ t[i + 1] \in Word
    BY <1>6, <2>1 DEF NoKeyword
  <2>3. CASE j = i
    BY <1>1, <2>1, <2>2, <2>3
  <2>4. CASE j # i
    <3>1. i + 1 \in i + 1 .. j
      BY <1>1, <2>4
    <3>2. t[i + 1] = "op"
      BY <2>1, <3>1 DEF OnlyOps
    <3>3. QED
      BY <1>1, <2>2, <3>2
  <2>5. QED
    BY <2>3, <2>4
<1>7. QED
  BY <1>5, <1>6

LEMMA RoutedIfAgreed == IInv => RoutedAsMeant
<1> SUFFICES ASSUME IInv, plain, Complete
             PROVE  ClassOf(text) = Meaning
  BY DEF RoutedAsMeant
<1> DEFINE t == Lines.out
<1>1. /\ text \in Seq(Atom) /\ mode \in {"text", "line"} /\ mode \notin Quote /\ First # "none"
      /\ t \in Seq(Atom) /\ Doubles.out \in Seq(Atom)
      /\ InStep /\ WordsAgree(Doubles.out) /\ FirstAgrees(t)
  BY OutputsType, AtomKinds DEF IInv, PlainInv, Complete, ReaderTypeOK, Quote
<1>2. StripSQLComments(text) = t
  <2>1. ~Blocks.in
    BY <1>1 DEF InStep
  <2>2. QED
    BY <1>1, <2>1, StrippedIs, OpenedIsLines
<1>3. ~Panics(t)
  BY <1>1, FirstIsSeen DEF Panics, Blank, IInv
<1>4. HasReturningClause(t) <=> returning \/ word = "returning"
  <2>1. BlankLiterals(t) = Doubles.out
    BY <1>1, BlankedIs DEF InStep
  <2>2. HasReturningClause(t) <=> Found(Doubles.out)
    BY <1>1, <2>1, HasReturningIs
  <2>3. Found(Doubles.out) <=> returning \/ word = "returning"
    BY <1>1, FoundIs, AtomKinds DEF WordsAgree
  <2>4. QED
    BY <2>2, <2>3
<1>5. FirstWordWrites(t) <=> First = "write"
  <2>1. CASE First = "write"
    <3>1. \E i \in DOMAIN t : Begins(t, i) /\ (Keyword(t, i) \/ Touched(t, i))
      <4>1. CASE first = "none"
        <5>1. Begins(t, Len(t)) /\ t[Len(t)] = "write" /\ Len(t) \in DOMAIN t
          BY <1>1, <2>1, <4>1 DEF First, FirstAgrees, Begins
        <5>2. Touched(t, Len(t))
          BY <1>1, <5>1 DEF Touched, OnlyOps
        <5>3. QED
          BY <5>1, <5>2
      <4>2. CASE first # "none"
        BY <1>1, <2>1, <4>2 DEF First, FirstAgrees
      <4>3. QED
        BY <4>1, <4>2
    <3>2. QED
      BY <1>1, <2>1, <3>1, FirstWordIs
  <2>2. CASE First # "write"
    <3>1. \E i \in DOMAIN t : Begins(t, i) /\ NoKeyword(t, i)
      BY <1>1, <2>2 DEF First, FirstAgrees, IInv, ReaderTypeOK
    <3>2. QED
      BY <1>1, <2>2, <3>1, FirstWordIs
  <2>3. QED
    BY <2>1, <2>2
<1> HIDE DEF t
<1>6. QED
  BY <1>2, <1>3, <1>4, <1>5 DEF ClassOf, Meaning

LEMMA PanicsIfSeen == IInv => PanicsOnBlanks
<1> SUFFICES ASSUME IInv, ClassOf(text) = "panic"
             PROVE  First = "none" /\ "nbsp" \in ToSet(text)
  BY DEF PanicsOnBlanks
<1> DEFINE t == Opened.out
<1>1. text \in Seq(Atom) /\ t \in Seq(Atom) /\ StripSQLComments(text) = t
  BY OutputsType, StrippedIs DEF IInv, ReaderTypeOK
<1> HIDE DEF t
<1>2. Panics(t)
  BY <1>1 DEF ClassOf
<1>3. First = "none"
  BY <1>2 DEF Panics, Blank, IInv, SomethingSeen, t
<1>4. "nbsp" \in ToSet(t)
  <2>1. PICK i \in DOMAIN t : t[i] \in Space /\ t[i] \notin {"space", "newline"}
    BY <1>2 DEF Panics, Consists, Trimmed
  <2>2. QED
    BY <2>1 DEF Space, ToSet
<1>5. QED
  BY <1>3, <1>4 DEF IInv, NothingAdded, t

\* Every variable of the reader keeps its type.
THEOREM ReaderTypeCorrect == Spec => []ReaderTypeOK
<1>1. IInv => ReaderTypeOK
  BY DEF IInv
<1>2. QED
  BY <1>1, Invariance, PTL

\* A plain text of any length is routed by what it means to the server, wherever
\* it has comments, literals and quoted names: stripSQLComments,
\* hasReturningClause and isDDLDML neither leave a write to a reader nor run a
\* SELECT as an update.
THEOREM RoutedCorrect == Spec => []RoutedAsMeant
BY Invariance, RoutedIfAgreed, PTL

\* isDDLDML's fields[0] panics on no text that has a word or a symbol outside of
\* its comments, and on none without a space other than ASCII's.
THEOREM PanicCorrect == Spec => []PanicsOnBlanks
BY Invariance, PanicsIfSeen, PTL
=============================================================================
