---------------------------- MODULE SteVecProofs ----------------------------
(***************************************************************************)
(* Proofs about encrypted JSON documents, for any selectors and documents  *)
(* and needles of any length: the entry points of containment agree, the   *)
(* accessors agree, and what was stored can be taken out.                  *)
(***************************************************************************)
EXTENDS SteVec, FiniteSetTheorems, TLAPS

-----------------------------------------------------------------------------
(* Sets of numbers in order.                                               *)

Below == {ss \in Nat \X Nat : ss[1] < ss[2]}

\* A set of numbers has a least element.
LEMMA LeastFacts ==
  ASSUME NEW S \in SUBSET Nat, S # {}
  PROVE  Min(S) \in S /\ \A y \in S : Min(S) <= y
<1>1. IsWellFoundedOn(Below, Nat)
  BY NatLessThanWellFounded DEF OpToRel, Below
<1>2. PICK x \in S : \A y \in S : <<y, x>> \notin Below
  BY <1>1, WFMin
<1>3. ASSUME NEW y \in S PROVE x <= y
  <2>1. x \in Nat /\ y \in Nat
    OBVIOUS
  <2>2. y < x => <<y, x>> \in Below
    BY <2>1 DEF Below
  <2>. QED
    BY <1>2, <2>1, <2>2
<1>. QED
  BY <1>3 DEF Min

Increasing(q) == \A i, j \in DOMAIN q : i < j => q[i] < q[j]
Enumerations(S) == {q \in [1..Cardinality(S) -> S] : Increasing(q)}

LEMMA OneMore ==
  ASSUME NEW n \in Nat, NEW S \in SUBSET (1..(n + 1)), n + 1 \in S,
         Enumerations(S \ {n + 1}) # {}
  PROVE  Enumerations(S) # {}
<1>. DEFINE T == S \ {n + 1}
            k == Cardinality(T)
<1>1. T \in SUBSET (1..n) /\ IsFiniteSet(T)
  <2>1. T \subseteq 1..n
    OBVIOUS
  <2>2. IsFiniteSet(1..n)
    BY FS_Interval
  <2>. QED
    BY <2>1, <2>2, FS_Subset
<1>2. Cardinality(S) = k + 1 /\ k \in Nat
  <2>1. S = T \union {n + 1}
    OBVIOUS
  <2>. QED
    BY <1>1, <2>1, FS_AddElement, FS_CardinalityType
<1>3. PICK q \in [1..k -> T] : Increasing(q)
  BY DEF Enumerations
<1>. DEFINE more == [i \in 1..(k + 1) |-> IF i = k + 1 THEN n + 1 ELSE q[i]]
<1>. HIDE DEF k
<1>4. \A i \in 1..k : q[i] \in S /\ q[i] \in 1..n
  BY <1>1, <1>3
<1>5. more \in [1..(k + 1) -> S]
  BY <1>2, <1>4
<1>6. Increasing(more)
  <2>. SUFFICES ASSUME NEW i \in 1..(k + 1), NEW j \in 1..(k + 1), i < j
                PROVE  more[i] < more[j]
    BY DEF Increasing
  <2>1. i \in 1..k /\ more[i] = q[i]
    BY <1>2
  <2>2. CASE j = k + 1
    BY <1>4, <2>1, <2>2
  <2>3. CASE j # k + 1
    <3>1. j \in 1..k /\ more[j] = q[j]
      BY <1>2, <2>3
    <3>. QED
      BY <1>3, <2>1, <3>1 DEF Increasing
  <2>. QED
    BY <2>2, <2>3
<1>. QED
  BY <1>2, <1>5, <1>6 DEF Enumerations

\* Any set of positions can be listed in order.
LEMMA SortedExists ==
  ASSUME NEW n \in Nat, NEW S \in SUBSET (1..n)
  PROVE  Enumerations(S) # {}
<1>. DEFINE Good(m) == \A R \in SUBSET (1..m) : Enumerations(R) # {}
            bad == {m \in Nat : ~Good(m)}
<1>1. Good(0)
  <2>. SUFFICES ASSUME NEW R \in SUBSET (1..0) PROVE Enumerations(R) # {}
    OBVIOUS
  <2>1. R = {}
    OBVIOUS
  <2>2. Cardinality(R) = 0
    BY <2>1, FS_EmptySet
  <2>3. [i \in 1..0 |-> i] \in Enumerations(R)
    BY <2>1, <2>2 DEF Enumerations, Increasing
  <2>. QED
    BY <2>3
<1>2. ASSUME NEW m \in Nat, Good(m) PROVE Good(m + 1)
  <2>. SUFFICES ASSUME NEW R \in SUBSET (1..(m + 1)) PROVE Enumerations(R) # {}
    OBVIOUS
  <2>1. CASE m + 1 \in R
    <3>1. R \ {m + 1} \in SUBSET (1..m)
      OBVIOUS
    <3>. QED
      BY <1>2, <2>1, <3>1, OneMore
  <2>2. CASE m + 1 \notin R
    <3>1. R \in SUBSET (1..m)
      BY <2>2
    <3>. QED
      BY <1>2, <3>1
  <2>. QED
    BY <2>1, <2>2
<1>. HIDE DEF Good
<1>3. bad = {}
  <2>. SUFFICES ASSUME bad # {} PROVE FALSE
    OBVIOUS
  <2>1. Min(bad) \in bad /\ \A y \in bad : Min(bad) <= y
    BY LeastFacts
  <2>2. PICK m : m = Min(bad)
    OBVIOUS
  <2>3. m \in Nat /\ ~Good(m) /\ \A y \in bad : m <= y
    BY <2>1, <2>2
  <2>4. m # 0 /\ m - 1 \in Nat /\ m = (m - 1) + 1
    BY <1>1, <2>3
  <2>5. Good(m - 1)
    BY <2>3, <2>4
  <2>. QED
    BY <1>2, <2>3, <2>4, <2>5
<1>. QED
  BY <1>3 DEF Good

-----------------------------------------------------------------------------
(* Documents.                                                              *)

Hits(s) == {i \in DOMAIN doc.sv : doc.sv[i].s = s}

LEMMA DocumentFacts ==
  ASSUME NEW d \in Documents
  PROVE  /\ d.sv \in Seq(RawEntries) /\ DOMAIN d.sv = 1..Len(d.sv) /\ Len(d.sv) \in Nat
         /\ \A i \in DOMAIN d.sv : d.sv[i] \in RawEntries /\ IsEntryPayload(d.sv[i])
         /\ d.a \in {"absent", "false", "true", "null", "junk"}
<1>1. PICK n \in 0..MaxEntries : d.sv \in [1..n -> {e \in RawEntries : IsEntryPayload(e)}]
  BY DEF Documents, Lists
<1>2. n \in Nat
  BY FlagsAssumption
<1>3. d.a \in ArrayFlags
  BY DEF Documents
<1>4. d.sv \in Seq(RawEntries) /\ DOMAIN d.sv = 1..n /\ Len(d.sv) = n
  BY <1>1, <1>2
<1>5. ASSUME NEW i \in DOMAIN d.sv PROVE d.sv[i] \in RawEntries /\ IsEntryPayload(d.sv[i])
  <2>1. d.sv[i] \in {e \in RawEntries : IsEntryPayload(e)}
    BY <1>1, <1>4
  <2>. QED
    BY <2>1
<1>6. d.a \in {"absent", "false", "true", "null", "junk"}
  BY <1>3, FlagsAssumption
<1>. QED
  BY <1>2, <1>4, <1>5, <1>6

\* Matches lists the hits, each once and the first of them first.
LEMMA MatchesFacts ==
  ASSUME doc \in Documents, NEW s
  PROVE  LET q == Matches(s)
         IN  /\ q \in Seq(Nat) /\ ToSet(q) = Hits(s) /\ Len(q) = Cardinality(Hits(s))
             /\ q = <<>> <=> Hits(s) = {}
             /\ Hits(s) # {} => q[1] = Min(Hits(s))
<1>. DEFINE n == Len(doc.sv)
            k == Cardinality(Hits(s))
<1>1. n \in Nat /\ Hits(s) \in SUBSET (1..n) /\ IsFiniteSet(Hits(s)) /\ k \in Nat
  <2>1. n \in Nat /\ Hits(s) \in SUBSET (1..n)
    BY DocumentFacts DEF Hits
  <2>2. IsFiniteSet(1..n)
    BY <2>1, FS_Interval
  <2>3. IsFiniteSet(Hits(s))
    BY <2>1, <2>2, FS_Subset
  <2>. QED
    BY <2>1, <2>3, FS_CardinalityType
<1>2. PICK q : q = Matches(s)
  OBVIOUS
<1>3. q \in [1..k -> Hits(s)] /\ Increasing(q)
  <2>1. Enumerations(Hits(s)) # {}
    BY <1>1, SortedExists
  <2>2. q = CHOOSE r \in [1..k -> Hits(s)] : Increasing(r)
    BY <1>2 DEF Matches, Hits, Increasing
  <2>3. \E r \in [1..k -> Hits(s)] : Increasing(r)
    BY <2>1 DEF Enumerations
  <2>. QED
    BY <2>2, <2>3
<1>. HIDE DEF n, k
<1>4. Hits(s) \subseteq Nat
  BY <1>1
<1>5. q \in Seq(Nat) /\ DOMAIN q = 1..k /\ Len(q) = k
  BY <1>1, <1>3, <1>4
<1>6. q \in Injection(1..k, Hits(s))
  <2>1. ASSUME NEW i \in 1..k, NEW j \in 1..k, q[i] = q[j] PROVE i = j
    <3>1. q[i] \in Nat /\ q[j] \in Nat /\ ~(q[i] < q[j]) /\ ~(q[j] < q[i])
      BY <1>3, <1>4, <2>1
    <3>2. ~(i < j) /\ ~(j < i)
      BY <1>3, <1>5, <3>1 DEF Increasing
    <3>. QED
      BY <1>1, <3>2
  <2>. QED
    BY <1>3, <2>1 DEF Injection, IsInjective
<1>7. \A x \in Hits(s) : \E i \in 1..k : q[i] = x
  <2>1. Cardinality(1..k) = Cardinality(Hits(s))
    BY <1>1, FS_Interval DEF k
  <2>2. q \in Surjection(1..k, Hits(s))
    BY <1>1, <1>6, <2>1, FS_Injection
  <2>. QED
    BY <2>2 DEF Surjection
<1>8. ToSet(q) = Hits(s)
  BY <1>3, <1>5, <1>7 DEF ToSet
<1>9. k = 0 <=> Hits(s) = {}
  BY <1>1, FS_EmptySet DEF k
<1>10. q = <<>> <=> Hits(s) = {}
  BY <1>5, <1>9
<1>11. ASSUME Hits(s) # {} PROVE q[1] = Min(Hits(s))
  <2>1. 1 \in 1..k
    BY <1>1, <1>9, <1>11
  <2>2. \A i \in 1..k : q[1] <= q[i]
    <3>. SUFFICES ASSUME NEW i \in 1..k PROVE q[1] <= q[i]
      OBVIOUS
    <3>1. q[1] \in Nat /\ q[i] \in Nat
      BY <1>3, <1>4, <2>1
    <3>2. 1 < i => q[1] < q[i]
      BY <1>3, <1>5, <2>1 DEF Increasing
    <3>. QED
      BY <3>1, <3>2
  <2>3. q[1] \in Hits(s) /\ \A y \in Hits(s) : q[1] <= y
    BY <1>3, <1>7, <2>1, <2>2
  <2>4. Min(Hits(s)) \in Hits(s) /\ \A y \in Hits(s) : Min(Hits(s)) <= y
    BY <1>4, <1>11, LeastFacts
  <2>. QED
    BY <1>4, <2>3, <2>4
<1>. QED
  BY <1>2, <1>5, <1>8, <1>10, <1>11 DEF k

\* Every stored entry meets the CHECK of its new domain once the envelope is grafted on.
LEMMA AllFit ==
  ASSUME doc \in Documents, NEW positions, ToSet(positions) \subseteq DOMAIN doc.sv
  PROVE  Fits(positions)
<1>. SUFFICES ASSUME NEW i \in DOMAIN doc.sv PROVE IsEntry(Graft(doc.sv[i]))
  BY DEF Fits
<1>1. PICK e : e = doc.sv[i]
  OBVIOUS
<1>2. IsEntryPayload(e)
  BY <1>1, DocumentFacts
<1>3. DOMAIN Graft(e) = DOMAIN e \union {"i", "v", "h"}
  BY DEF Graft
<1>. QED
  BY <1>1, <1>2, <1>3 DEF IsEntry, IsEntryPayload, EntryKeys

\* The two ways to compare a document with a needle come to the same.
LEMMA ContainsIsSubset ==
  ASSUME NEW x, NEW y
  PROVE  /\ JsonbContains(ToSteVecQuery(x), ToSteVecQuery(y)) <=> SelectorsOf(y) \subseteq SelectorsOf(x)
         /\ JsonbArray(y) \subseteq JsonbArray(x) <=> SelectorsOf(y) \subseteq SelectorsOf(x)
<1>1. JsonbContains(ToSteVecQuery(x), ToSteVecQuery(y)) <=>
        \A j \in DOMAIN y : \E i \in DOMAIN x : x[i].s = y[j].s
  BY DEF JsonbContains, ToSteVecQuery
<1>2. ASSUME NEW sv PROVE SelectorsOf(sv) = {sv[i].s : i \in DOMAIN sv}
  BY DEF SelectorsOf, ToSet
<1>3. ASSUME NEW sv PROVE JsonbArray(sv) = {[k \in {"s"} |-> c] : c \in SelectorsOf(sv)}
  BY DEF JsonbArray, SelectorsOf
<1>4. \A b, c : [k \in {"s"} |-> b] = [k \in {"s"} |-> c] <=> b = c
  <2>. SUFFICES ASSUME NEW b, NEW c, [k \in {"s"} |-> b] = [k \in {"s"} |-> c] PROVE b = c
    OBVIOUS
  <2>1. [k \in {"s"} |-> b]["s"] = b /\ [k \in {"s"} |-> c]["s"] = c
    OBVIOUS
  <2>. QED
    BY <2>1
<1>5. JsonbArray(y) \subseteq JsonbArray(x) <=> SelectorsOf(y) \subseteq SelectorsOf(x)
  <2>. DEFINE object(c) == [k \in {"s"} |-> c]
  <2>1. JsonbArray(x) = {object(c) : c \in SelectorsOf(x)} /\ JsonbArray(y) = {object(c) : c \in SelectorsOf(y)}
    BY <1>3
  <2>2. \A b, c : object(b) = object(c) <=> b = c
    BY <1>4
  <2>. HIDE DEF object
  <2>. QED
    BY <2>1, <2>2
<1>. QED
  BY <1>1, <1>2, <1>5

-----------------------------------------------------------------------------
(* Each step keeps the invariant.                                          *)

LEMMA InitHolds == Init => IInv
<1>. SUFFICES ASSUME Init PROVE IInv
  OBVIOUS
<1>1. doc \in Documents /\ call.fn = "none" /\ call = Idle /\ rows = <<>> /\ answer = "pending"
  BY DEF Init, Idle
<1>. QED
  BY <1>1 DEF IInv, Quiet, Pending, ContainmentIsSubset, AccessorsAgree, EntriesComeOut,
              ArrayRowsComplete, Returned

LEMMA ContainStep ==
  ASSUME IInv, NEW fn \in OverDocuments \union OverQueries, NEW sv, Contain(fn, sv)
  PROVE  IInv'
<1>1. call'.fn = fn /\ call'.arg = sv /\ call' # Idle /\ doc' = doc
  BY DEF Contain, Ask, Idle, OverDocuments, OverQueries
<1>2. answer' = Truth(SelectorsOf(sv) \subseteq SelectorsOf(doc.sv))
  <2>1. answer' = Truth(IF fn \in {"jsonb_contains", "jsonb_contained_by"}
                        THEN JsonbArray(sv) \subseteq JsonbArray(doc.sv)
                        ELSE JsonbContains(ToSteVecQuery(doc.sv), ToSteVecQuery(sv)))
    BY DEF Contain, Answer
  <2>2. JsonbArray(sv) \subseteq JsonbArray(doc.sv) <=> SelectorsOf(sv) \subseteq SelectorsOf(doc.sv)
    BY ContainsIsSubset
  <2>3. JsonbContains(ToSteVecQuery(doc.sv), ToSteVecQuery(sv))
          <=> SelectorsOf(sv) \subseteq SelectorsOf(doc.sv)
    BY ContainsIsSubset
  <2>. QED
    BY <2>1, <2>2, <2>3 DEF Truth
<1>3. ContainmentIsSubset'
  BY <1>1, <1>2 DEF ContainmentIsSubset, Truth, SelectorsOf
<1>4. Quiet' /\ Pending' /\ AccessorsAgree' /\ EntriesComeOut' /\ ArrayRowsComplete'
  BY <1>1, <1>2 DEF Quiet, Pending, AccessorsAgree, EntriesComeOut, ArrayRowsComplete,
                    Returned, Truth, BySelector, OverDocuments, OverQueries
<1>. QED
  BY <1>1, <1>3, <1>4 DEF IInv

LEMMA CallDocumentContainsStep ==
  ASSUME IInv, NEW e \in RawEntries, CallDocumentContains(e)
  PROVE  IInv'
<1>1. /\ call'.fn = "jsonb_document_contains" /\ call'.arg = <<e>> /\ call' # Idle
      /\ doc' = doc /\ doc \in Documents /\ answer = "pending"
  BY DEF CallDocumentContains, Ask, Idle, IInv, Quiet
<1>2. AccessorsAgree' /\ EntriesComeOut' /\ ArrayRowsComplete' /\ Quiet'
  BY <1>1 DEF AccessorsAgree, EntriesComeOut, ArrayRowsComplete, Quiet, Returned, BySelector
<1>3. CASE doc.sv = <<>>
  <2>1. answer' = "null"
    BY <1>3 DEF CallDocumentContains, Answer
  <2>2. e.s \in SelectorsOf(call'.arg)
    <3>1. call'.arg[1] = e /\ 1 \in DOMAIN call'.arg
      BY <1>1
    <3>. QED
      BY <3>1 DEF SelectorsOf, ToSet
  <2>3. SelectorsOf(doc.sv) = {}
    BY <1>3 DEF SelectorsOf, ToSet
  <2>4. ContainmentIsSubset' /\ Pending'
    BY <1>1, <2>1, <2>2, <2>3 DEF ContainmentIsSubset, Pending, SelectorsOf
  <2>. QED
    BY <1>1, <1>2, <2>4 DEF IInv
<1>4. CASE doc.sv # <<>>
  <2>1. idx' = 1 /\ answer' = "pending"
    BY <1>1, <1>4 DEF CallDocumentContains, StartLoop
  <2>2. 1 \in DOMAIN doc.sv /\ 1..(1 - 1) = {}
    BY <1>1, <1>4, DocumentFacts
  <2>3. ContainmentIsSubset'
    BY <2>1 DEF ContainmentIsSubset, Returned
  <2>4. Pending'
    BY <1>1, <2>1, <2>2 DEF Pending
  <2>. QED
    BY <1>1, <1>2, <2>3, <2>4 DEF IInv
<1>. QED
  BY <1>3, <1>4

LEMMA DocumentContainsTurnStep ==
  ASSUME IInv, DocumentContainsTurn
  PROVE  IInv'
<1>1. /\ call.fn = "jsonb_document_contains" /\ call # Idle /\ answer = "pending"
      /\ doc' = doc /\ call' = call /\ doc \in Documents
  BY DEF DocumentContainsTurn, Running, IInv, Idle
<1>2. /\ call.arg = <<call.arg[1]>> /\ idx \in DOMAIN doc.sv
      /\ \A i \in 1..(idx - 1) : doc.sv[i].s # call.arg[1].s
  BY <1>1 DEF IInv, Pending
<1>3. AccessorsAgree' /\ EntriesComeOut' /\ ArrayRowsComplete' /\ Quiet'
  BY <1>1 DEF AccessorsAgree, EntriesComeOut, ArrayRowsComplete, Quiet, Returned, BySelector
<1>4. DOMAIN doc.sv = 1..Len(doc.sv) /\ Len(doc.sv) \in Nat
  BY <1>1, DocumentFacts
<1>5. PICK c : c = call.arg[1].s
  OBVIOUS
<1>6. SelectorsOf(call.arg) = {c}
  <2>1. DOMAIN call.arg = {1}
    BY <1>2
  <2>. QED
    BY <1>5, <2>1 DEF SelectorsOf, ToSet
<1>7. SelectorsOf(doc.sv) = {doc.sv[i].s : i \in DOMAIN doc.sv}
  BY DEF SelectorsOf, ToSet
<1>8. CASE doc.sv[idx].s = c
  <2>1. answer' = "t"
    BY <1>5, <1>8 DEF DocumentContainsTurn, Answer
  <2>2. c \in SelectorsOf(doc.sv)
    BY <1>2, <1>7, <1>8
  <2>3. ContainmentIsSubset' /\ Pending'
    BY <1>1, <1>6, <2>1, <2>2 DEF ContainmentIsSubset, Pending, SelectorsOf
  <2>. QED
    BY <1>1, <1>3, <2>3 DEF IInv
<1>9. CASE doc.sv[idx].s # c /\ idx = Len(doc.sv)
  <2>1. answer' = "f"
    BY <1>5, <1>9 DEF DocumentContainsTurn, Answer
  <2>2. ASSUME NEW i \in DOMAIN doc.sv PROVE doc.sv[i].s # c
    <3>1. i = idx \/ i \in 1..(idx - 1)
      BY <1>4, <1>9
    <3>. QED
      BY <1>2, <1>5, <1>9, <3>1
  <2>3. c \notin SelectorsOf(doc.sv)
    BY <1>7, <2>2
  <2>4. ContainmentIsSubset' /\ Pending'
    BY <1>1, <1>6, <2>1, <2>3 DEF ContainmentIsSubset, Pending, SelectorsOf
  <2>. QED
    BY <1>1, <1>3, <2>4 DEF IInv
<1>10. CASE doc.sv[idx].s # c /\ idx # Len(doc.sv)
  <2>1. idx' = idx + 1 /\ answer' = "pending"
    BY <1>1, <1>5, <1>10 DEF DocumentContainsTurn, NextTurn
  <2>2. idx + 1 \in DOMAIN doc.sv /\ (idx + 1) - 1 = idx
    BY <1>2, <1>4, <1>10
  <2>3. ASSUME NEW i \in 1..idx PROVE doc.sv[i].s # call.arg[1].s
    <3>1. i = idx \/ i \in 1..(idx - 1)
      BY <1>2, <1>4
    <3>. QED
      BY <1>2, <1>5, <1>10, <3>1
  <2>4. Pending'
    BY <1>1, <1>2, <2>1, <2>2, <2>3 DEF Pending
  <2>5. ContainmentIsSubset'
    BY <2>1 DEF ContainmentIsSubset, Returned
  <2>. QED
    BY <1>1, <1>3, <2>4, <2>5 DEF IInv
<1>. QED
  BY <1>8, <1>9, <1>10

LEMMA AccessStep ==
  ASSUME IInv, NEW fn \in BySelector, NEW s, Access(fn, s)
  PROVE  IInv'
<1>1. call'.fn = fn /\ call'.arg = s /\ call' # Idle /\ doc' = doc /\ doc \in Documents
  BY DEF Access, Ask, Idle, BySelector, IInv
<1>2. PICK q : q = Matches(s)
  OBVIOUS
<1>3. /\ q \in Seq(Nat) /\ ToSet(q) = Hits(s) /\ Len(q) = Cardinality(Hits(s))
      /\ q = <<>> <=> Hits(s) = {}
      /\ Hits(s) # {} => q[1] = Min(Hits(s))
  BY <1>1, <1>2, MatchesFacts
<1>4. PICK ps : ps = IF fn = "jsonb_path_query" \/ q = <<>> THEN q ELSE <<q[1]>>
  OBVIOUS
<1>5. ToSet(ps) \subseteq DOMAIN doc.sv
  <2>1. ToSet(ps) \subseteq ToSet(q)
    <3>1. CASE ps = q
      BY <3>1
    <3>2. CASE q # <<>> /\ ps = <<q[1]>>
      <4>1. 1 \in DOMAIN q /\ DOMAIN ps = {1} /\ ps[1] = q[1]
        BY <1>3, <3>2
      <4>. QED
        BY <4>1 DEF ToSet
    <3>. QED
      BY <1>4, <3>1, <3>2
  <2>. QED
    BY <1>3, <2>1 DEF Hits
<1>6. rows' = ps /\ answer' = "rows"
  <2>1. Fits(ps)
    BY <1>1, <1>5, AllFit
  <2>2. ReturnRows(ps)
    BY <1>2, <1>4 DEF Access
  <2>. QED
    BY <2>1, <2>2 DEF ReturnRows
<1>7. AccessorsAgree'
  <2>1. {i \in DOMAIN doc'.sv : doc'.sv[i].s = call'.arg} = Hits(s)
    BY <1>1 DEF Hits
  <2>2. fn = "jsonb_path_query" => ToSet(rows') = Hits(s) /\ Len(rows') = Cardinality(Hits(s))
    BY <1>3, <1>4, <1>6
  <2>3. fn # "jsonb_path_query" => rows' = IF Hits(s) = {} THEN <<>> ELSE <<Min(Hits(s))>>
    BY <1>3, <1>4, <1>6
  <2>4. fn # "jsonb_path_exists"
    BY DEF BySelector
  <2>. QED
    BY <1>1, <2>1, <2>2, <2>3, <2>4 DEF AccessorsAgree, Returned
<1>8. Quiet' /\ Pending' /\ ContainmentIsSubset' /\ EntriesComeOut' /\ ArrayRowsComplete'
  BY <1>1, <1>6 DEF Quiet, Pending, ContainmentIsSubset, EntriesComeOut,
                    ArrayRowsComplete, Returned, BySelector, OverDocuments, OverQueries
<1>. QED
  BY <1>1, <1>7, <1>8 DEF IInv

LEMMA PathExistsStep ==
  ASSUME IInv, NEW s, PathExists(s)
  PROVE  IInv'
<1>1. /\ call'.fn = "jsonb_path_exists" /\ call'.arg = s /\ call' # Idle
      /\ doc' = doc /\ doc \in Documents
  BY DEF PathExists, Ask, Idle, IInv
<1>2. answer' = Truth(Hits(s) # {})
  BY <1>1, MatchesFacts DEF PathExists, Answer
<1>3. AccessorsAgree'
  <2>1. {i \in DOMAIN doc'.sv : doc'.sv[i].s = call'.arg} = Hits(s)
    BY <1>1 DEF Hits
  <2>. QED
    BY <1>1, <1>2, <2>1 DEF AccessorsAgree, Returned, Truth
<1>4. Quiet' /\ Pending' /\ ContainmentIsSubset' /\ EntriesComeOut' /\ ArrayRowsComplete'
  BY <1>1, <1>2 DEF Quiet, Pending, ContainmentIsSubset, EntriesComeOut,
                    ArrayRowsComplete, Returned, BySelector, OverDocuments, OverQueries, Truth
<1>. QED
  BY <1>1, <1>3, <1>4 DEF IInv

\* What is_ste_vec_array makes of the flag.
LEMMA ArrayFlag ==
  ASSUME doc \in Documents
  PROVE  /\ IsSteVecArray(doc) = "t" <=> IsArray
         /\ IsSteVecArray(doc) = "error" <=> doc.a = "junk"
         /\ IsSteVecArray(doc) \in {"f", "error"} <=> doc.a \notin {"true", "null"}
<1>1. doc.a \in {"absent", "false", "true", "null", "junk"}
  BY DocumentFacts
<1>. QED
  BY <1>1 DEF IsSteVecArray, IsArray

LEMMA AccessByPositionStep ==
  ASSUME IInv, NEW n, AccessByPosition(n)
  PROVE  IInv'
<1>1. call'.fn = "-> n" /\ call' # Idle /\ doc' = doc /\ doc \in Documents
  BY DEF AccessByPosition, Ask, Idle, IInv
<1>2. PICK i : i = IF n >= 0 THEN n + 1 ELSE Len(doc.sv) + n + 1
  OBVIOUS
<1>3. PICK ps : ps = IF IsSteVecArray(doc) = "t" /\ i \in DOMAIN doc.sv THEN <<i>> ELSE <<>>
  OBVIOUS
<1>4. IF doc.a = "junk" THEN answer' = "error" ELSE ReturnRows(ps)
  BY <1>1, <1>2, <1>3, ArrayFlag DEF AccessByPosition, Answer
<1>5. ToSet(ps) \subseteq DOMAIN doc.sv
  <2>1. CASE ps = <<i>> /\ i \in DOMAIN doc.sv
    <3>1. DOMAIN ps = {1} /\ ps[1] = i
      BY <2>1
    <3>. QED
      BY <2>1, <3>1 DEF ToSet
  <2>2. CASE ps = <<>>
    BY <2>2 DEF ToSet
  <2>. QED
    BY <1>3, <2>1, <2>2
<1>6. answer' = IF doc.a = "junk" THEN "error" ELSE "rows"
  BY <1>1, <1>4, <1>5, AllFit DEF ReturnRows
<1>. QED
  BY <1>1, <1>6 DEF IInv, Quiet, Pending, ContainmentIsSubset, AccessorsAgree, EntriesComeOut,
                    ArrayRowsComplete, Returned, BySelector, OverDocuments, OverQueries

LEMMA CallArrayLengthStep ==
  ASSUME IInv, CallArrayLength
  PROVE  IInv'
<1>1. call'.fn = "jsonb_array_length" /\ call' # Idle /\ doc' = doc /\ doc \in Documents
  BY DEF CallArrayLength, Ask, Idle, IInv
<1>2. answer' \in {"error", "null", "length"} /\ (answer' = "error" <=> ~IsArray)
  BY <1>1, ArrayFlag DEF CallArrayLength, Answer
<1>. QED
  BY <1>1, <1>2 DEF IInv, Quiet, Pending, ContainmentIsSubset, AccessorsAgree, EntriesComeOut,
                    ArrayRowsComplete, Returned, BySelector, OverDocuments, OverQueries, IsArray

LEMMA CallArrayElementsStep ==
  ASSUME IInv, CallArrayElements
  PROVE  IInv'
<1>1. /\ call'.fn = "jsonb_array_elements" /\ call' # Idle /\ doc' = doc /\ doc \in Documents
      /\ answer = "pending" /\ rows = <<>> /\ rows' = rows
  BY DEF CallArrayElements, Ask, Idle, IInv, Quiet, Answer, StartLoop
<1>2. ContainmentIsSubset' /\ AccessorsAgree' /\ Quiet'
  BY <1>1 DEF ContainmentIsSubset, AccessorsAgree, Quiet, Returned, BySelector, OverDocuments, OverQueries
<1>3. CASE IsSteVecArray(doc) \in {"f", "error"} \/ doc.sv = <<>>
  <2>1. answer' = "error"
    BY <1>3 DEF CallArrayElements, Answer
  <2>2. doc.a \in {"true", "null"} => doc.sv = <<>>
    BY <1>1, <1>3, ArrayFlag
  <2>3. ArrayRowsComplete'
    <3>1. doc.sv = <<>> => [i \in DOMAIN doc.sv |-> i] = <<>>
      OBVIOUS
    <3>. QED
      BY <1>1, <2>2, <3>1 DEF ArrayRowsComplete, IsArray
  <2>4. Pending' /\ EntriesComeOut'
    BY <1>1, <2>1, <2>2 DEF Pending, EntriesComeOut, Returned, BySelector, IsArray
  <2>. QED
    BY <1>1, <1>2, <2>3, <2>4 DEF IInv
<1>4. CASE ~(IsSteVecArray(doc) \in {"f", "error"} \/ doc.sv = <<>>)
  <2>1. idx' = 1 /\ answer' = "pending"
    BY <1>1, <1>4 DEF CallArrayElements, StartLoop
  <2>2. 1 \in DOMAIN doc.sv /\ rows' = [i \in 1..(1 - 1) |-> i]
    BY <1>1, <1>4, DocumentFacts
  <2>3. Pending'
    BY <1>1, <1>4, <2>1, <2>2, ArrayFlag DEF Pending
  <2>4. EntriesComeOut' /\ ArrayRowsComplete'
    BY <2>1, <1>1 DEF EntriesComeOut, ArrayRowsComplete, Returned
  <2>. QED
    BY <1>1, <1>2, <2>3, <2>4 DEF IInv
<1>. QED
  BY <1>3, <1>4

LEMMA ArrayElementsTurnStep ==
  ASSUME IInv, ArrayElementsTurn
  PROVE  IInv'
<1>1. /\ call.fn = "jsonb_array_elements" /\ call # Idle /\ answer = "pending"
      /\ doc' = doc /\ call' = call /\ doc \in Documents
  BY DEF ArrayElementsTurn, Running, IInv, Idle
<1>2. idx \in DOMAIN doc.sv /\ rows = [i \in 1..(idx - 1) |-> i] /\ doc.a \in {"true", "null"}
  BY <1>1 DEF IInv, Pending
<1>3. ContainmentIsSubset' /\ AccessorsAgree' /\ Quiet'
  BY <1>1 DEF ContainmentIsSubset, AccessorsAgree, Quiet, Returned, BySelector, OverDocuments, OverQueries
<1>4. DOMAIN doc.sv = 1..Len(doc.sv) /\ Len(doc.sv) \in Nat
  BY <1>1, DocumentFacts
<1>5. Fits(<<idx>>)
  <2>1. DOMAIN <<idx>> = {1} /\ <<idx>>[1] = idx
    OBVIOUS
  <2>2. ToSet(<<idx>>) \subseteq DOMAIN doc.sv
    BY <1>2, <2>1 DEF ToSet
  <2>. QED
    BY <1>1, <2>2, AllFit
<1>6. rows' = [i \in 1..idx |-> i]
  <2>1. rows' = Append(rows, idx)
    BY <1>5 DEF ArrayElementsTurn
  <2>2. idx \in Nat /\ idx >= 1 /\ rows \in Seq(Nat) /\ Len(rows) = idx - 1
    BY <1>2, <1>4
  <2>. QED
    BY <1>2, <2>1, <2>2
<1>7. CASE idx = Len(doc.sv)
  <2>1. answer' = "rows"
    BY <1>5, <1>7 DEF ArrayElementsTurn
  <2>2. ArrayRowsComplete'
    BY <1>1, <1>4, <1>6, <1>7 DEF ArrayRowsComplete
  <2>3. doc.sv # <<>>
    BY <1>2
  <2>4. Pending' /\ EntriesComeOut'
    BY <1>1, <1>2, <2>1, <2>3 DEF Pending, EntriesComeOut, Returned, BySelector
  <2>. QED
    BY <1>1, <1>3, <2>2, <2>4 DEF IInv
<1>8. CASE idx # Len(doc.sv)
  <2>1. idx' = idx + 1 /\ answer' = "pending"
    BY <1>1, <1>5, <1>8 DEF ArrayElementsTurn
  <2>2. idx + 1 \in DOMAIN doc.sv /\ (idx + 1) - 1 = idx
    BY <1>2, <1>4, <1>8
  <2>3. Pending'
    BY <1>1, <1>2, <1>6, <2>1, <2>2 DEF Pending
  <2>4. EntriesComeOut' /\ ArrayRowsComplete'
    BY <1>1, <2>1 DEF EntriesComeOut, ArrayRowsComplete, Returned
  <2>. QED
    BY <1>1, <1>3, <2>3, <2>4 DEF IInv
<1>. QED
  BY <1>7, <1>8

LEMMA StutterStep ==
  ASSUME IInv, UNCHANGED vars
  PROVE  IInv'
<1>1. doc' = doc /\ call' = call /\ idx' = idx /\ rows' = rows /\ answer' = answer
  BY DEF vars
<1>. QED
  BY <1>1 DEF IInv, Quiet, Pending, ContainmentIsSubset, AccessorsAgree, EntriesComeOut,
              ArrayRowsComplete, Returned, IsArray, SelectorsOf

LEMMA EveryStep ==
  ASSUME IInv, [Next]_vars
  PROVE  IInv'
<1>1. CASE \E fn \in OverDocuments, d \in Documents : Contain(fn, d.sv)
  BY <1>1, ContainStep
<1>2. CASE \E fn \in OverQueries, sv \in Queries : Contain(fn, sv)
  BY <1>2, ContainStep
<1>3. CASE \E e \in RawEntries : CallDocumentContains(e)
  BY <1>3, CallDocumentContainsStep
<1>4. CASE \E fn \in BySelector, s \in Selectors : Access(fn, s)
  BY <1>4, AccessStep
<1>5. CASE \E s \in Selectors : PathExists(s)
  BY <1>5, PathExistsStep
<1>6. CASE \E n \in (-MaxEntries)..MaxEntries : AccessByPosition(n)
  BY <1>6, AccessByPositionStep
<1>7. CASE CallArrayLength
  BY <1>7, CallArrayLengthStep
<1>8. CASE CallArrayElements
  BY <1>8, CallArrayElementsStep
<1>9. CASE DocumentContainsTurn
  BY <1>9, DocumentContainsTurnStep
<1>10. CASE ArrayElementsTurn
  BY <1>10, ArrayElementsTurnStep
<1>11. CASE UNCHANGED vars
  BY <1>11, StutterStep
<1>. QED
  BY <1>1, <1>2, <1>3, <1>4, <1>5, <1>6, <1>7, <1>8, <1>9, <1>10, <1>11 DEF Next

-----------------------------------------------------------------------------
\* Every reachable state satisfies the invariant: what a call has answered is right,
\* and a loop under way has found nothing yet, or has returned what it has passed.
THEOREM Invariance == Spec => []IInv
<1>1. Init => IInv
  BY InitHolds
<1>2. IInv /\ [Next]_vars => IInv'
  BY EveryStep
<1>. QED
  BY <1>1, <1>2, PTL DEF Spec

\* Every entry point of containment answers whether the needle's selectors are
\* among the document's, the operators and functions of operators.sql as the loop
\* of jsonb_document_contains.
THEOREM ContainmentIsSubsetHolds == Spec => []ContainmentIsSubset
<1>1. IInv => ContainmentIsSubset
  BY DEF IInv
<1>. QED
  BY <1>1, Invariance, PTL

\* `->`, jsonb_path_query, jsonb_path_query_first and jsonb_path_exists agree on
\* which entries lie under a selector, and which of them comes first.
THEOREM AccessorsAgreeHolds == Spec => []AccessorsAgree
<1>1. IInv => AccessorsAgree
  BY DEF IInv
<1>. QED
  BY <1>1, Invariance, PTL

\* Of every document its domain let in each entry can be taken out: the CHECK of the
\* stored entries is as strict as that of the extracted ones.  An accessor raises only
\* for a flag that is no boolean, or for an array that is none or has no elements.
THEOREM EntriesComeOutHolds == Spec => []EntriesComeOut
<1>1. IInv => EntriesComeOut
  BY DEF IInv
<1>. QED
  BY <1>1, Invariance, PTL

\* jsonb_array_elements returns the entries of an array, all of them and in order.
THEOREM ArrayRowsCompleteHolds == Spec => []ArrayRowsComplete
<1>1. IInv => ArrayRowsComplete
  BY DEF IInv
<1>. QED
  BY <1>1, Invariance, PTL
=============================================================================
