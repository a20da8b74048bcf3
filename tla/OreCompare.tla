----------------------------- MODULE OreCompare -----------------------------
(***************************************************************************)
(* The comparator behind ORE columns (src/v3/sem/ore_block_256): the       *)
(* recursion over two arrays of terms and, for each pair, the loop over    *)
(* their blocks, one turn per step.  A term stands for the plaintext it    *)
(* encrypts, one byte per block: left blocks are keyed by the whole prefix *)
(* up to their byte, so two are equal exactly if the prefixes are, and the *)
(* right block of b answers correctly only where the prefixes before it    *)
(* agree; anywhere else the bit it yields is noise.                        *)
(***************************************************************************)
EXTENDS Naturals, Sequences

CONSTANTS Bytes,     \* the values of a block
          MaxTerms,  \* bound on the terms of an `ob` array
          MaxBlocks, \* bound on the blocks of a term
          Null       \* SQL NULL, of an array or of a term

ASSUME ByteAssumption == Bytes \subseteq Nat
ASSUME BoundAssumption == MaxTerms \in Nat /\ MaxBlocks \in Nat

VARIABLES a, b,    \* the two `ob` arrays, by their terms
          i,       \* the term the recursion is at
          block,   \* blocks compared so far
          eq,      \* no block has differed yet
          unequal, \* the block to decide on
          at,      \* where the comparison is
          result   \* "lt", "eq", "gt", "error" or "null"

compareVars == <<a, b, i, block, eq, unequal, at, result>>

Verdicts == {"lt", "eq", "gt", "error", "null"}

\* An octet string of 49*N + 16 bytes; ragged if its length is of another form.
Octets == [blocks : UNION {[1..n -> Bytes] : n \in 0..MaxBlocks}, ragged : BOOLEAN]
ObTerms == Octets \union {Null}
Arrays == (UNION {[1..n -> ObTerms] : n \in 0..MaxTerms}) \union {Null}

CompareTyped ==
  /\ a \in Arrays /\ b \in Arrays
  /\ i \in 1..(MaxTerms + 1)
  /\ block \in 0..MaxBlocks /\ unequal \in 0..MaxBlocks /\ eq \in BOOLEAN
  /\ at \in {"arrays", "terms", "blocks", "decide", "done"}
  /\ result \in Verdicts

CompareInit ==
  /\ a \in Arrays /\ b \in Arrays
  /\ i = 1 /\ block = 0 /\ eq = TRUE /\ unequal = 0
  /\ at = "arrays" /\ result = "null"

Return(v) ==
  /\ result' = v /\ at' = "done"
  /\ UNCHANGED <<a, b, i, block, eq, unequal>>

X == a[i].blocks
Y == b[i].blocks

\* array_agg over no row at all is NULL.
ArrayAgg(ob) == IF ob = <<>> THEN Null ELSE ob

\* A bug to catch: the terms of an empty `ob` array are left NULL.
TermsOfAggregate(ob) == ArrayAgg(ob)

\* The terms that the extractor hands to the comparator: the COALESCE gives an empty
\* `ob` array back as an empty array.
TermsOf(ob) == IF ob # Null /\ ArrayAgg(ob) = Null THEN <<>> ELSE ArrayAgg(ob)

AnArrayIsNull == TermsOf(a) = Null \/ TermsOf(b) = Null

NullArrays ==
  /\ at = "arrays"
  /\ AnArrayIsNull
  /\ Return("null")

\* The cardinality guards on what is left of the arrays.
ArrayEnds ==
  /\ at = "arrays" /\ ~AnArrayIsNull
  /\ \/ i > Len(a) /\ i > Len(b) /\ Return("eq")
     \/ i > Len(a) /\ i <= Len(b) /\ Return("lt")
     \/ i <= Len(a) /\ i > Len(b) /\ Return("gt")

NextPair ==
  /\ at = "arrays" /\ ~AnArrayIsNull
  /\ i <= Len(a) /\ i <= Len(b)
  /\ at' = "terms"
  /\ UNCHANGED <<a, b, i, block, eq, unequal, result>>

TermsEqual ==
  /\ i' = i + 1 /\ at' = "arrays"
  /\ UNCHANGED <<a, b, block, eq, unequal, result>>

\* A NULL term is equal to another and before anything else.
NullTerms ==
  /\ at = "terms"
  /\ \/ a[i] = Null /\ b[i] = Null /\ TermsEqual
     \/ a[i] = Null /\ b[i] # Null /\ Return("lt")
     \/ a[i] # Null /\ b[i] = Null /\ Return("gt")

SameLength(x, y) == Len(x.blocks) = Len(y.blocks) /\ x.ragged = y.ragged

\* A bug to catch: a term of 16 bytes passes the modulo and has no blocks.
WellFormedByModulo(x) == ~x.ragged

WellFormed(x) == ~x.ragged /\ Len(x.blocks) > 0

RefuseTerms ==
  /\ at = "terms" /\ a[i] # Null /\ b[i] # Null
  /\ ~SameLength(a[i], b[i]) \/ ~WellFormed(a[i])
  /\ Return("error")

StartBlocks ==
  /\ at = "terms" /\ a[i] # Null /\ b[i] # Null
  /\ SameLength(a[i], b[i]) /\ WellFormed(a[i])
  /\ at' = "blocks" /\ block' = 0 /\ eq' = TRUE /\ unequal' = 0
  /\ UNCHANGED <<a, b, i, result>>

SamePrefix(n) == \A j \in 1..n : X[j] = Y[j]

\* A bug to catch: the last block that differs is remembered, not the first.
CompareLastBlock ==
  /\ at = "blocks" /\ block < Len(X)
  /\ block' = block + 1
  /\ IF SamePrefix(block + 1) THEN UNCHANGED <<eq, unequal>>
     ELSE eq' = FALSE /\ unequal' = block + 1
  /\ UNCHANGED <<a, b, i, at, result>>

\* One turn of the loop: the left blocks and permuted bytes at this position.
CompareBlock ==
  /\ at = "blocks" /\ block < Len(X)
  /\ block' = block + 1
  /\ IF SamePrefix(block + 1) THEN UNCHANGED <<eq, unequal>>
     ELSE eq' = FALSE /\ unequal' = IF eq THEN block + 1 ELSE unequal
  /\ UNCHANGED <<a, b, i, at, result>>

EndBlocks ==
  /\ at = "blocks" /\ block = Len(X)
  /\ IF eq THEN TermsEqual
     ELSE at' = "decide" /\ UNCHANGED <<a, b, i, block, eq, unequal, result>>

\* get_bit of the right block of b at a's byte, unmasked with a's left block.
Decide ==
  /\ at = "decide"
  /\ \E v \in {"lt", "gt"} :
       /\ SamePrefix(unequal - 1) => (v = "gt" <=> X[unequal] > Y[unequal])
       /\ Return(v)

CompareNext == NullArrays \/ ArrayEnds \/ NextPair \/ NullTerms \/ RefuseTerms
          \/ StartBlocks \/ CompareBlock \/ EndBlocks \/ Decide

CompareSpec == CompareInit /\ [][CompareNext]_compareVars

-----------------------------------------------------------------------------
\* The order that ORE promises, stated on plaintexts.  Terms are compared byte by
\* byte; NULL terms come first; terms of different or impossible lengths have no
\* order.
Below(x, y) == \E k \in DOMAIN x : x[k] < y[k] /\ \A j \in 1..(k - 1) : x[j] = y[j]

Comparable(x, y) ==
  /\ x # Null /\ y # Null
  /\ Len(x.blocks) = Len(y.blocks) /\ x.blocks # <<>> /\ ~x.ragged /\ ~y.ragged

TermVerdict(v, x, y) ==
  \/ v = "eq" /\ x = Null /\ y = Null
  \/ v = "lt" /\ x = Null /\ y # Null
  \/ v = "gt" /\ x # Null /\ y = Null
  \/ v = "error" /\ x # Null /\ y # Null /\ ~Comparable(x, y)
  \/ /\ Comparable(x, y)
     /\ \/ v = "eq" /\ x.blocks = y.blocks
        \/ v = "lt" /\ Below(x.blocks, y.blocks)
        \/ v = "gt" /\ Below(y.blocks, x.blocks)

\* Arrays are compared at the first pair of terms that is not equal, and a proper
\* prefix, the empty array first of all, comes before what it is a prefix of.
PairsEqual(n) == \A j \in 1..n : TermVerdict("eq", a[j], b[j])

ArrayVerdict(v) ==
  IF a = Null \/ b = Null THEN v = "null"
  ELSE \/ \E k \in DOMAIN a \intersect DOMAIN b :
            PairsEqual(k - 1) /\ v # "eq" /\ TermVerdict(v, a[k], b[k])
       \/ v = "eq" /\ Len(a) = Len(b) /\ PairsEqual(Len(a))
       \/ v = "lt" /\ Len(a) < Len(b) /\ PairsEqual(Len(a))
       \/ v = "gt" /\ Len(a) > Len(b) /\ PairsEqual(Len(b))

\* The comparator returns the order of the plaintexts, for terms of any number of
\* blocks and arrays of any length: never the noise of a block after the first
\* difference, never "equal" for a term too short to compare, and NULL only for a
\* NULL array, not for an empty one.  An index on the column is sorted by nothing else.
VerdictIsOrder == at = "done" => ArrayVerdict(result)

-----------------------------------------------------------------------------
\* The induction behind it: what has been passed over was equal, and unequal is
\* the first difference of the blocks seen.
Passed == at # "done" /\ a # Null /\ b # Null =>
            i <= Len(a) + 1 /\ i <= Len(b) + 1 /\ PairsEqual(i - 1)

AtPair == at \in {"terms", "blocks", "decide"} =>
            a # Null /\ b # Null /\ i \in DOMAIN a /\ i \in DOMAIN b

LoopSeen == at \in {"blocks", "decide"} =>
  /\ Comparable(a[i], b[i])
  /\ block <= Len(X)
  /\ eq => SamePrefix(block)
  /\ ~eq => /\ unequal \in 1..block /\ SamePrefix(unequal - 1)
            /\ X[unequal] # Y[unequal]

Decided == at = "decide" => ~eq

CompareInv == CompareTyped /\ Passed /\ AtPair /\ LoopSeen /\ Decided /\ VerdictIsOrder
=============================================================================
