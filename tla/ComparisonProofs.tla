-------------------------- MODULE ComparisonProofs --------------------------
(***************************************************************************)
(* Proofs about what compares encrypted values.  OreCompare: the ORE       *)
(* comparator returns the order of the plaintexts, for arrays and terms of *)
(* any length over any alphabet of blocks.  Aggregate, for every group of  *)
(* rows, every set of workers and every set of terms: each state, partial  *)
(* or combined, answers for exactly the rows behind it, hence the result is *)
(* exact; scalar columns are assumed to hold no value without a term.      *)
(***************************************************************************)
EXTENDS OreCompare, Aggregate, SequenceTheorems, TLAPS

(* The comparator.                                                         *)

\* An array is a sequence of terms.
LEMMA ArrayFacts ==
  ASSUME NEW s \in Arrays, s # Null
  PROVE  /\ Len(s) \in 0..MaxTerms /\ DOMAIN s = 1..Len(s)
         /\ \A j \in 1..Len(s) : s[j] \in ObTerms
<1>1. PICK n \in 0..MaxTerms : s \in [1..n -> ObTerms]
  BY DEF Arrays
<1>2. n \in Nat
  BY <1>1, BoundAssumption
<1>3. s \in Seq(ObTerms)
  BY <1>1, <1>2, SeqDef
<1>4. Len(s) \in Nat /\ DOMAIN s = 1..Len(s)
  BY <1>3, LenProperties
<1>5. DOMAIN s = 1..n
  BY <1>1
<1>6. Len(s) = n
  <2>. DEFINE m == Len(s)
  <2>1. m \in Nat /\ 1..m = 1..n
    BY <1>4, <1>5
  <2>. HIDE DEF m
  <2>2. m = n
    BY <1>2, <2>1
  <2>. QED
    BY <2>2 DEF m
<1>. QED
  BY <1>1, <1>5, <1>6

\* The blocks of a term are a sequence of bytes.
LEMMA BlockFacts ==
  ASSUME NEW x \in ObTerms, x # Null
  PROVE  /\ x.ragged \in BOOLEAN
         /\ x.blocks \in Seq(Bytes)
         /\ Len(x.blocks) \in 0..MaxBlocks /\ DOMAIN x.blocks = 1..Len(x.blocks)
         /\ \A j \in 1..Len(x.blocks) : x.blocks[j] \in Nat
         /\ x.blocks = <<>> <=> Len(x.blocks) = 0
<1>1. x \in Octets
  BY DEF ObTerms
<1>2. PICK n \in 0..MaxBlocks : x.blocks \in [1..n -> Bytes]
  BY <1>1 DEF Octets
<1>3. n \in Nat
  BY <1>2, BoundAssumption
<1>4. x.blocks \in Seq(Bytes)
  BY <1>2, <1>3, SeqDef
<1>5. Len(x.blocks) \in Nat /\ DOMAIN x.blocks = 1..Len(x.blocks)
  BY <1>4, LenProperties
<1>6. DOMAIN x.blocks = 1..n
  BY <1>2
<1>7. Len(x.blocks) = n
  BY <1>3, <1>5, <1>6
<1>8. x.blocks = <<>> <=> Len(x.blocks) = 0
  BY <1>4, EmptySeq
<1>. QED
  BY <1>1, <1>2, <1>4, <1>6, <1>7, <1>8, ByteAssumption DEF Octets

\* The first difference of two comparable terms decides their order.
LEMMA FirstDifference ==
  ASSUME NEW x \in ObTerms, NEW y \in ObTerms, Comparable(x, y),
         NEW k \in 1..Len(x.blocks),
         \A j \in 1..(k - 1) : x.blocks[j] = y.blocks[j],
         x.blocks[k] # y.blocks[k]
  PROVE  TermVerdict(IF x.blocks[k] > y.blocks[k] THEN "gt" ELSE "lt", x, y)
<1>1. /\ k \in DOMAIN x.blocks /\ k \in DOMAIN y.blocks
      /\ x.blocks[k] \in Nat /\ y.blocks[k] \in Nat
  BY BlockFacts DEF Comparable
<1>2. CASE x.blocks[k] > y.blocks[k]
  <2>1. Below(y.blocks, x.blocks)
    BY <1>1, <1>2 DEF Below
  <2>. QED
    BY <1>2, <2>1 DEF TermVerdict
<1>3. CASE x.blocks[k] < y.blocks[k]
  <2>1. Below(x.blocks, y.blocks)
    BY <1>1, <1>3 DEF Below
  <2>. QED
    BY <1>1, <1>3, <2>1 DEF TermVerdict
<1>. QED
  BY <1>1, <1>2, <1>3

\* Comparable terms all of whose blocks agree are equal.
LEMMA NoDifference ==
  ASSUME NEW x \in ObTerms, NEW y \in ObTerms, Comparable(x, y),
         \A j \in 1..Len(x.blocks) : x.blocks[j] = y.blocks[j]
  PROVE  TermVerdict("eq", x, y)
<1>1. x.blocks \in Seq(Bytes) /\ y.blocks \in Seq(Bytes) /\ Len(x.blocks) = Len(y.blocks)
  BY BlockFacts DEF Comparable
<1>2. x.blocks = y.blocks
  BY <1>1, SeqEqual
<1>. QED
  BY <1>2 DEF TermVerdict

\* The extractor hands every `ob` array on as it is, the empty one included.
LEMMA NullTested == AnArrayIsNull <=> (a = Null \/ b = Null)
<1>1. ASSUME NEW ob PROVE TermsOf(ob) = Null <=> ob = Null
  BY DEF TermsOf, ArrayAgg
<1>. QED
  BY <1>1 DEF AnArrayIsNull

\* What the guards of term comparison mean.
LEMMA Guards ==
  ASSUME NEW x \in ObTerms, NEW y \in ObTerms, x # Null, y # Null
  PROVE  SameLength(x, y) /\ WellFormed(x) <=> Comparable(x, y)
BY BlockFacts DEF SameLength, WellFormed, Comparable

\* The pair under comparison.
LEMMA PairFacts ==
  ASSUME CompareTyped, AtPair, at \in {"terms", "blocks", "decide"}
  PROVE  /\ a # Null /\ b # Null /\ i \in DOMAIN a /\ i \in DOMAIN b
         /\ i \in Nat /\ i >= 1 /\ i <= Len(a) /\ i <= Len(b)
         /\ Len(a) \in 0..MaxTerms /\ Len(b) \in 0..MaxTerms
         /\ a[i] \in ObTerms /\ b[i] \in ObTerms
BY ArrayFacts, BoundAssumption DEF CompareTyped, AtPair

\* A verdict on the pair reached, other than equality, is one on the arrays.
LEMMA PairDecides ==
  ASSUME CompareInv, at \in {"terms", "blocks", "decide"},
         NEW v \in Verdicts, v # "eq", TermVerdict(v, a[i], b[i])
  PROVE  ArrayVerdict(v)
<1>1. /\ a # Null /\ b # Null /\ i \in DOMAIN a \intersect DOMAIN b
      /\ PairsEqual(i - 1)
  BY PairFacts DEF CompareInv, Passed
<1>. QED
  BY <1>1 DEF ArrayVerdict

\* Returning a right verdict keeps the invariant.
LEMMA ReturnKeeps ==
  ASSUME CompareInv, NEW v \in Verdicts, Return(v), ArrayVerdict(v)
  PROVE  CompareInv'
<1>1. CompareTyped'
  BY DEF CompareInv, Return, CompareTyped
<1>2. VerdictIsOrder'
  BY DEF Return, VerdictIsOrder, ArrayVerdict, PairsEqual
<1>. QED
  BY <1>1, <1>2 DEF CompareInv, Return, Passed, AtPair, LoopSeen, Decided

\* Going on to the next pair keeps it if this pair is equal.
LEMMA TermsEqualKeeps ==
  ASSUME CompareInv, at \in {"terms", "blocks"}, TermVerdict("eq", a[i], b[i]), TermsEqual
  PROVE  CompareInv'
<1>1. /\ i \in Nat /\ i >= 1 /\ i <= Len(a) /\ i <= Len(b)
      /\ Len(a) \in 0..MaxTerms /\ Len(b) \in 0..MaxTerms
      /\ a # Null /\ b # Null
  BY PairFacts DEF CompareInv
<1>2. CompareTyped'
  BY <1>1, BoundAssumption DEF CompareInv, TermsEqual, CompareTyped
<1>3. PairsEqual(i - 1)
  BY <1>1 DEF CompareInv, Passed
<1>4. PairsEqual(i)
  BY <1>1, <1>3 DEF PairsEqual
<1>5. Passed'
  BY <1>1, <1>4 DEF TermsEqual, Passed, PairsEqual
<1>. QED
  BY <1>2, <1>5 DEF CompareInv, TermsEqual, AtPair, LoopSeen, Decided, VerdictIsOrder

\* The inductive invariant: what has been passed over was equal, and `unequal` is
\* the first block that differs, at every turn of both loops.
THEOREM CompareInvariance == CompareSpec => []CompareInv
<1>1. CompareInit => CompareInv
  <2>. SUFFICES ASSUME CompareInit PROVE CompareInv
    OBVIOUS
  <2>1. CompareTyped
    BY BoundAssumption DEF CompareInit, CompareTyped, Verdicts
  <2>2. Passed
    BY ArrayFacts DEF CompareInit, Passed, PairsEqual
  <2>. QED
    BY <2>1, <2>2 DEF CompareInit, CompareInv, AtPair, LoopSeen, Decided, VerdictIsOrder
<1>2. CompareInv /\ [CompareNext]_compareVars => CompareInv'
  <2>. SUFFICES ASSUME CompareInv, [CompareNext]_compareVars PROVE CompareInv'
    OBVIOUS
  <2>1. CASE NullArrays
    <3>1. ArrayVerdict("null") /\ Return("null")
      BY <2>1, NullTested DEF NullArrays, ArrayVerdict
    <3>. QED
      BY <3>1, ReturnKeeps DEF Verdicts
  <2>2. CASE ArrayEnds
    <3>1. /\ a # Null /\ b # Null /\ i \in Nat
          /\ Len(a) \in Nat /\ Len(b) \in Nat
          /\ i <= Len(a) + 1 /\ i <= Len(b) + 1 /\ PairsEqual(i - 1)
      BY <2>2, NullTested, ArrayFacts DEF ArrayEnds, CompareInv, CompareTyped, Passed
    <3>2. CASE i > Len(a) /\ i > Len(b) /\ Return("eq")
      <4>1. Len(a) = i - 1 /\ Len(b) = i - 1
        BY <3>1, <3>2
      <4>2. ArrayVerdict("eq")
        BY <3>1, <4>1 DEF ArrayVerdict
      <4>. QED
        BY <3>2, <4>2, ReturnKeeps DEF Verdicts
    <3>3. CASE i > Len(a) /\ i <= Len(b) /\ Return("lt")
      <4>1. Len(a) = i - 1 /\ Len(a) < Len(b)
        BY <3>1, <3>3
      <4>2. ArrayVerdict("lt")
        BY <3>1, <4>1 DEF ArrayVerdict
      <4>. QED
        BY <3>3, <4>2, ReturnKeeps DEF Verdicts
    <3>4. CASE i <= Len(a) /\ i > Len(b) /\ Return("gt")
      <4>1. Len(b) = i - 1 /\ Len(a) > Len(b)
        BY <3>1, <3>4
      <4>2. ArrayVerdict("gt")
        BY <3>1, <4>1 DEF ArrayVerdict
      <4>. QED
        BY <3>4, <4>2, ReturnKeeps DEF Verdicts
    <3>. QED
      BY <2>2, <3>2, <3>3, <3>4 DEF ArrayEnds
  <2>3. CASE NextPair
    <3>1. CompareTyped' /\ Passed'
      BY <2>3, NullTested DEF NextPair, CompareInv, CompareTyped, Passed, PairsEqual
    <3>2. AtPair'
      BY <2>3, NullTested, ArrayFacts DEF NextPair, CompareInv, CompareTyped, AtPair
    <3>. QED
      BY <2>3, <3>1, <3>2 DEF NextPair, CompareInv, LoopSeen, Decided, VerdictIsOrder
  <2>4. CASE NullTerms
    <3>1. at = "terms"
      BY <2>4 DEF NullTerms
    <3>2. CASE a[i] = Null /\ b[i] = Null /\ TermsEqual
      <4>1. TermVerdict("eq", a[i], b[i])
        BY <3>2 DEF TermVerdict
      <4>. QED
        BY <3>1, <3>2, <4>1, TermsEqualKeeps
    <3>3. CASE a[i] = Null /\ b[i] # Null /\ Return("lt")
      <4>1. TermVerdict("lt", a[i], b[i])
        BY <3>3 DEF TermVerdict
      <4>. QED
        BY <3>1, <3>3, <4>1, PairDecides, ReturnKeeps DEF Verdicts
    <3>4. CASE a[i] # Null /\ b[i] = Null /\ Return("gt")
      <4>1. TermVerdict("gt", a[i], b[i])
        BY <3>4 DEF TermVerdict
      <4>. QED
        BY <3>1, <3>4, <4>1, PairDecides, ReturnKeeps DEF Verdicts
    <3>. QED
      BY <2>4, <3>2, <3>3, <3>4 DEF NullTerms
  <2>5. CASE RefuseTerms
    <3>1. at = "terms" /\ a[i] # Null /\ b[i] # Null /\ Return("error")
      BY <2>5 DEF RefuseTerms
    <3>2. ~Comparable(a[i], b[i])
      BY <2>5, <3>1, PairFacts, Guards DEF RefuseTerms, CompareInv
    <3>3. TermVerdict("error", a[i], b[i])
      BY <3>1, <3>2 DEF TermVerdict
    <3>. QED
      BY <3>1, <3>3, PairDecides, ReturnKeeps DEF Verdicts
  <2>6. CASE StartBlocks
    <3>1. at = "terms" /\ a[i] # Null /\ b[i] # Null
      BY <2>6 DEF StartBlocks
    <3>2. Comparable(a[i], b[i]) /\ Len(X) \in 0..MaxBlocks
      BY <2>6, <3>1, PairFacts, Guards, BlockFacts DEF StartBlocks, CompareInv, X
    <3>3. CompareTyped' /\ Passed' /\ AtPair'
      BY <2>6, BoundAssumption DEF StartBlocks, CompareInv, CompareTyped, Passed, AtPair, PairsEqual
    <3>4. LoopSeen'
      BY <2>6, <3>2 DEF StartBlocks, LoopSeen, X, Y, SamePrefix
    <3>. QED
      BY <2>6, <3>3, <3>4 DEF StartBlocks, CompareInv, Decided, VerdictIsOrder
  <2>7. CASE CompareBlock
    <3>1. /\ at = "blocks" /\ block \in Nat /\ block + 1 <= Len(X)
          /\ Len(X) \in 0..MaxBlocks /\ unequal \in 0..MaxBlocks
      <4>1. at = "blocks" /\ block < Len(X) /\ Comparable(a[i], b[i])
        BY <2>7 DEF CompareBlock, CompareInv, LoopSeen
      <4>2. a[i] \in ObTerms /\ a[i] # Null
        BY <4>1, PairFacts DEF CompareInv, Comparable
      <4>3. Len(X) \in 0..MaxBlocks
        BY <4>2, BlockFacts DEF X
      <4>. QED
        BY <4>1, <4>3, BoundAssumption DEF CompareInv, CompareTyped
    <3>2. CompareTyped' /\ Passed' /\ AtPair'
      <4>1. /\ UNCHANGED <<a, b, i, at, result>>
            /\ block' = block + 1
            /\ unequal' = unequal \/ unequal' = block + 1
            /\ eq' = eq \/ eq' = FALSE
        BY <2>7 DEF CompareBlock
      <4>2. block' \in 0..MaxBlocks /\ unequal' \in 0..MaxBlocks
        BY <3>1, <4>1, BoundAssumption
      <4>3. CompareTyped'
        BY <4>1, <4>2 DEF CompareInv, CompareTyped
      <4>4. Passed'
        BY <4>1 DEF CompareInv, Passed, PairsEqual
      <4>5. AtPair'
        BY <4>1 DEF CompareInv, AtPair
      <4>. QED
        BY <4>3, <4>4, <4>5
    <3>3. eq => SamePrefix(block)
      BY <3>1 DEF CompareInv, LoopSeen
    <3>4. CASE SamePrefix(block + 1)
      <4>1. eq' = eq /\ unequal' = unequal /\ block' = block + 1
        BY <2>7, <3>4 DEF CompareBlock
      <4>2. ~eq => FALSE
        BY <3>1, <3>4 DEF CompareInv, LoopSeen, SamePrefix
      <4>. QED
        BY <2>7, <3>1, <3>2, <3>4, <4>1, <4>2
        DEF CompareBlock, CompareInv, LoopSeen, SamePrefix, X, Y, Decided, VerdictIsOrder
    <3>5. CASE ~SamePrefix(block + 1) /\ eq
      <4>1. eq' = FALSE /\ unequal' = block + 1 /\ block' = block + 1
        BY <2>7, <3>5 DEF CompareBlock
      <4>2. X[block + 1] # Y[block + 1]
        BY <3>1, <3>3, <3>5 DEF SamePrefix
      <4>. QED
        BY <2>7, <3>1, <3>2, <3>3, <3>5, <4>1, <4>2
        DEF CompareBlock, CompareInv, LoopSeen, SamePrefix, X, Y, Decided, VerdictIsOrder
    <3>6. CASE ~SamePrefix(block + 1) /\ ~eq
      <4>1. eq' = FALSE /\ unequal' = unequal /\ block' = block + 1
        BY <2>7, <3>6 DEF CompareBlock
      <4>2. at' = at /\ a' = a /\ b' = b /\ i' = i /\ result' = result
        BY <2>7 DEF CompareBlock
      <4>3. LoopSeen'
        BY <3>1, <3>6, <4>1, <4>2 DEF CompareInv, LoopSeen, SamePrefix, X, Y
      <4>4. Decided' /\ VerdictIsOrder'
        BY <3>1, <4>2 DEF CompareInv, Decided, VerdictIsOrder
      <4>. QED
        BY <3>2, <4>3, <4>4 DEF CompareInv
    <3>. QED
      BY <3>4, <3>5, <3>6
  <2>8. CASE EndBlocks
    <3>1. at = "blocks" /\ block = Len(X) /\ Comparable(a[i], b[i])
      BY <2>8 DEF EndBlocks, CompareInv, LoopSeen
    <3>2. CASE eq
      <4>1. TermVerdict("eq", a[i], b[i])
        BY <3>1, <3>2, PairFacts, NoDifference DEF CompareInv, LoopSeen, SamePrefix, X, Y
      <4>. QED
        BY <2>8, <3>1, <3>2, <4>1, TermsEqualKeeps DEF EndBlocks
    <3>3. CASE ~eq
      <4>1. CompareTyped' /\ Passed' /\ AtPair'
        BY <2>8, <3>1, <3>3 DEF EndBlocks, CompareInv, CompareTyped, Passed, AtPair, PairsEqual
      <4>. QED
        BY <2>8, <3>1, <3>3, <4>1
        DEF EndBlocks, CompareInv, LoopSeen, SamePrefix, X, Y, Decided, VerdictIsOrder
    <3>. QED
      BY <3>2, <3>3
  <2>9. CASE Decide
    <3>1. /\ at = "decide" /\ Comparable(a[i], b[i]) /\ unequal \in 1..Len(X)
          /\ SamePrefix(unequal - 1) /\ X[unequal] # Y[unequal]
      <4>1. at = "decide" /\ ~eq
        BY <2>9 DEF Decide, CompareInv, Decided
      <4>2. Len(X) \in Nat /\ block \in Nat
        BY <4>1, PairFacts, BlockFacts, BoundAssumption
        DEF CompareInv, LoopSeen, Comparable, X, CompareTyped
      <4>. QED
        BY <4>1, <4>2 DEF CompareInv, LoopSeen
    <3>2. PICK v \in {"lt", "gt"} :
            (v = "gt" <=> X[unequal] > Y[unequal]) /\ Return(v)
      BY <2>9, <3>1 DEF Decide
    <3>3. v = IF X[unequal] > Y[unequal] THEN "gt" ELSE "lt"
      BY <3>2
    <3>4. TermVerdict(v, a[i], b[i])
      BY <3>1, <3>3, PairFacts, FirstDifference DEF CompareInv, SamePrefix, X, Y
    <3>. QED
      BY <3>1, <3>2, <3>4, PairDecides, ReturnKeeps DEF Verdicts
  <2>10. CASE UNCHANGED compareVars
    BY <2>10 DEF compareVars, CompareInv, CompareTyped, Passed, AtPair, LoopSeen, Decided, VerdictIsOrder,
                 ArrayVerdict, PairsEqual, SamePrefix, X, Y
  <2>. QED
    BY <2>1, <2>2, <2>3, <2>4, <2>5, <2>6, <2>7, <2>8, <2>9, <2>10 DEF CompareNext
<1>. QED
  BY <1>1, <1>2, PTL DEF CompareSpec

\* For terms of any number of blocks and arrays of any length, the comparator's
\* verdict is the order of the plaintexts.
THEOREM VerdictIsOrderHolds == CompareSpec => []VerdictIsOrder
<1>1. CompareInv => VerdictIsOrder
  BY DEF CompareInv
<1>. QED
  BY <1>1, CompareInvariance, PTL

-----------------------------------------------------------------------------
(* The aggregates.                                                         *)

ColumnTypes == kind \in Kinds /\ value \in [Rows -> ValuesOf(kind)]

\* A row of a min or max that is not NULL either has a term or is an entry's.
LEMMA ScalarsOrderable ==
  ASSUME ~BareScalars, ColumnTypes, NEW r \in Rows, value[r] # Absent,
         kind \in {"scalar_min", "scalar_max"}
  PROVE  Orderable(r)
BY DEF ColumnTypes, ValuesOf, Orderable

\* The comparison of terms is a strict weak order on the rows that have one.
LEMMA BeatsIsOrder ==
  ASSUME ColumnTypes, kind # "grouped_value",
         NEW r \in Rows, NEW s \in Rows, NEW t \in Rows,
         Orderable(r), Orderable(s), Orderable(t)
  PROVE  /\ ~Beats(r, r)
         /\ Beats(s, r) => ~Beats(r, s)
         /\ ~Beats(r, s) /\ ~Beats(s, t) => ~Beats(r, t)
         /\ ~Beats(r, s) /\ Beats(t, s) => ~Beats(r, t)
<1>1. value[r] \in Int /\ value[s] \in Int /\ value[t] \in Int
  BY TermAssumption DEF Orderable
<1>2. kind \in {"entry_min", "scalar_min"} \/ kind \in {"entry_max", "scalar_max"}
  BY DEF ColumnTypes, Kinds
<1>3. ~(kind \in {"entry_min", "scalar_min"} /\ kind \in {"entry_max", "scalar_max"})
  OBVIOUS
<1>. QED
  BY <1>1, <1>2, <1>3 DEF Beats

\* Combining the answers for two sets of rows gives an answer for their union.
LEMMA CombineAnswers ==
  ASSUME ~BareScalars, ColumnTypes,
         NEW rs \in SUBSET Rows, NEW ts \in SUBSET Rows,
         NEW s \in States, NEW t \in Rows,
         Answers(s, rs), Answers(t, ts)
  PROVE  Answers(Transition(s, t), rs \union ts)
<1>1. t # None /\ t \in ts /\ value[t] # Absent
  BY RowAssumption DEF Answers
<1>2. CASE s = None
  <2>1. Transition(s, t) = t
    BY <1>1, <1>2 DEF Transition
  <2>2. \A r \in rs : ~Orderable(r)
    BY <1>2, TermAssumption DEF Answers, Orderable
  <2>. QED
    BY <1>1, <2>1, <2>2 DEF Answers
<1>3. CASE s # None
  <2>1. s \in Rows /\ s \in rs /\ value[s] # Absent
    BY <1>3 DEF Answers, States
  <2>2. Transition(s, t) = Sfunc(s, t) /\ Sfunc(s, t) \in {s, t}
    BY <1>1, <1>3 DEF Transition, Sfunc
  <2>3. CASE kind = "grouped_value"
    BY <1>1, <2>1, <2>2, <2>3, RowAssumption DEF Answers
  <2>4. CASE kind # "grouped_value"
    <3>. DEFINE u == Sfunc(s, t)
    <3>1. \A r \in rs : Orderable(r) => Orderable(s) /\ ~Beats(r, s)
      BY <1>3, <2>4 DEF Answers
    <3>2. \A r \in ts : Orderable(r) => Orderable(t) /\ ~Beats(r, t)
      BY <1>1, <2>4 DEF Answers
    <3>3. ASSUME Orderable(s), Orderable(t), NEW r \in rs \union ts, Orderable(r)
          PROVE  Orderable(u) /\ ~Beats(r, u)
      <4>1. u = IF Beats(t, s) THEN t ELSE s
        BY <3>3, <2>4 DEF Sfunc, ColumnTypes
      <4>2. CASE Beats(t, s)
        BY <4>1, <4>2, <3>1, <3>2, <3>3, <2>1, <2>4, BeatsIsOrder
      <4>3. CASE ~Beats(t, s)
        BY <4>1, <4>3, <3>1, <3>2, <3>3, <2>1, <2>4, BeatsIsOrder
      <4>. QED
        BY <4>2, <4>3
    <3>4. ASSUME ~Orderable(s), NEW r \in rs \union ts, Orderable(r)
          PROVE  Orderable(u) /\ ~Beats(r, u)
      <4>1. r \in ts /\ Orderable(t) /\ ~Beats(r, t)
        BY <3>1, <3>2, <3>4
      <4>2. kind \notin {"scalar_min", "scalar_max"}
        BY <2>1, <3>4, ScalarsOrderable
      <4>. QED
        BY <4>1, <4>2, <3>4, <2>4 DEF Sfunc
    <3>5. ASSUME Orderable(s), ~Orderable(t), NEW r \in rs \union ts, Orderable(r)
          PROVE  Orderable(u) /\ ~Beats(r, u)
      <4>1. r \in rs /\ ~Beats(r, s)
        BY <3>1, <3>2, <3>5
      <4>2. u = s
        BY <3>5, <2>4 DEF Sfunc, Beats
      <4>. QED
        BY <4>1, <4>2, <3>5
    <3>6. \A r \in rs \union ts : Orderable(r) => Orderable(u) /\ ~Beats(r, u)
      BY <3>3, <3>4, <3>5
    <3>. QED
      BY <1>1, <2>1, <2>2, <3>6, RowAssumption DEF Answers
  <2>. QED
    BY <2>3, <2>4
<1>. QED
  BY <1>2, <1>3

\* Scanning one more row keeps a partial state an answer.
LEMMA ScanAnswers ==
  ASSUME ~BareScalars, ColumnTypes, NEW rs \in SUBSET Rows,
         NEW s \in States, NEW r \in Rows, Answers(s, rs)
  PROVE  Answers(Transition(s, r), rs \union {r})
<1>1. CASE value[r] = Absent
  <2>1. Transition(s, r) = s /\ ~Orderable(r)
    BY <1>1, TermAssumption DEF Transition, Orderable
  <2>. QED
    BY <1>1, <2>1 DEF Answers
<1>2. CASE value[r] # Absent
  <2>1. Orderable(r) /\ kind # "grouped_value" => ~Beats(r, r)
    BY BeatsIsOrder
  <2>2. Answers(r, {r})
    BY <1>2, <2>1, RowAssumption DEF Answers
  <2>. QED
    BY <2>2, CombineAnswers
<1>. QED
  BY <1>1, <1>2

\* A transition stays within the states.
LEMMA TransitionType ==
  ASSUME NEW s \in States, NEW r \in Rows
  PROVE  Transition(s, r) \in States
BY DEF Transition, Sfunc, States

\* The inductive invariant: every state, at any moment and in any interleaving,
\* is the right answer for the rows it stands for, and no row is lost.
THEOREM AggregateInvariance == ASSUME ~BareScalars PROVE Spec => []IInv
<1>. USE DEF IInv
<1>1. Init => IInv
  <2>. SUFFICES ASSUME Init PROVE IInv
    OBVIOUS
  <2>1. TypeOK
    BY DEF Init, TypeOK, States
  <2>2. NothingLost
    BY DEF Init, NothingLost
  <2>3. Answers(None, {})
    BY DEF Answers
  <2>4. \A w \in Workers : Answers(partial[w], seen[w])
    BY <2>3 DEF Init
  <2>5. Answers(total, MergedRows)
    <3>1. MergedRows = {}
      BY DEF Init, MergedRows
    <3>. QED
      BY <3>1, <2>3 DEF Init
  <2>. QED
    BY <2>1, <2>2, <2>4, <2>5 DEF Init
<1>2. IInv /\ [Next]_vars => IInv'
  <2>. SUFFICES ASSUME IInv, [Next]_vars PROVE IInv'
    OBVIOUS
  <2>. ColumnTypes
    BY DEF TypeOK, ColumnTypes
  <2>1. CASE \E w \in Workers : Scan(w)
    <3>1. PICK w \in Workers, r \in pending :
            /\ phase = "scan" /\ pending' = pending \ {r}
            /\ partial' = [partial EXCEPT ![w] = Transition(@, r)]
            /\ seen' = [seen EXCEPT ![w] = @ \union {r}]
            /\ UNCHANGED <<kind, value, merged, total, phase>>
      BY <2>1 DEF Scan
    <3>2. /\ r \in Rows /\ partial[w] \in States /\ seen[w] \in SUBSET Rows
          /\ Transition(partial[w], r) \in States
      BY <3>1, TransitionType DEF TypeOK
    <3>3. TypeOK'
      BY <3>1, <3>2 DEF TypeOK, ValuesOf
    <3>4. NothingLost'
      BY <3>1, <3>2 DEF NothingLost, TypeOK
    <3>5. \A v \in Workers : Answers(partial[v], seen[v])'
      <4>1. Answers(Transition(partial[w], r), seen[w] \union {r})
        BY <3>2, ScanAnswers
      <4>. QED
        BY <4>1, <3>1 DEF Answers, Orderable, Beats, TypeOK
    <3>6. merged = {}
      BY <3>1
    <3>7. (Answers(total, MergedRows))'
      BY <3>1, <3>6 DEF MergedRows, Answers, Orderable, Beats
    <3>. QED
      BY <3>1, <3>3, <3>4, <3>5, <3>7
  <2>2. CASE \E w \in Workers : Combine(w)
    <3>1. PICK w \in Workers : Combine(w)
      BY <2>2
    <3>2. /\ partial[w] \in States /\ seen[w] \in SUBSET Rows
          /\ MergedRows \in SUBSET Rows /\ total \in States
      BY DEF TypeOK, MergedRows
    <3>3. MergedRows' = MergedRows \union seen[w]
      BY <3>1 DEF Combine, MergedRows
    <3>4. Answers(total', MergedRows \union seen[w]) /\ total' \in States
      <4>1. CASE partial[w] = None
        <5>1. \A r \in seen[w] : value[r] = Absent /\ ~Orderable(r)
          BY <4>1, TermAssumption DEF Answers, Orderable
        <5>. QED
          BY <3>1, <3>2, <4>1, <5>1 DEF Combine, Answers
      <4>2. CASE partial[w] # None
        <5>1. partial[w] \in Rows
          BY <3>2, <4>2 DEF States
        <5>. QED
          BY <3>1, <3>2, <4>2, <5>1, CombineAnswers, TransitionType DEF Combine
      <4>. QED
        BY <4>1, <4>2
    <3>5. TypeOK'
      BY <3>1, <3>4 DEF Combine, TypeOK, ValuesOf
    <3>6. (Answers(total, MergedRows))' /\ \A v \in Workers : Answers(partial[v], seen[v])'
      BY <3>1, <3>3, <3>4 DEF Combine, Answers, Orderable, Beats
    <3>. QED
      BY <3>1, <3>5, <3>6 DEF Combine, NothingLost
  <2>3. CASE ScanEnds \/ Finish \/ UNCHANGED vars
    <3>1. /\ UNCHANGED <<kind, value, pending, partial, merged, total, seen>>
          /\ phase' \in {"scan", "combine", "done"}
          /\ IF phase' = "scan" THEN merged = {} ELSE pending = {}
          /\ phase' = "done" => merged = Workers
      BY <2>3 DEF ScanEnds, Finish, vars, TypeOK
    <3>2. TypeOK'
      BY <3>1 DEF TypeOK, ValuesOf
    <3>3. (Answers(total, MergedRows))' /\ \A v \in Workers : Answers(partial[v], seen[v])'
      BY <3>1 DEF MergedRows, Answers, Orderable, Beats
    <3>. QED
      BY <3>1, <3>2, <3>3 DEF NothingLost
  <2>. QED
    BY <2>1, <2>2, <2>3 DEF Next
<1>. QED
  BY <1>1, <1>2, PTL DEF Spec

\* For every group, however it is spread over workers: the result of min, max and
\* grouped_value is the right answer for all its rows.
THEOREM ResultExactHolds == ASSUME ~BareScalars PROVE Spec => []ResultExact
<1>1. IInv => ResultExact
  <2>. SUFFICES ASSUME IInv, phase = "done" PROVE Answers(total, Rows)
    BY DEF ResultExact
  <2>1. MergedRows = Rows
    BY DEF IInv, NothingLost, MergedRows, TypeOK
  <2>. QED
    BY <2>1 DEF IInv
<1>. QED
  BY <1>1, AggregateInvariance, PTL
=============================================================================
