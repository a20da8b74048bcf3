------------------------ MODULE OperatorSurfaceProofs ------------------------
(* What holds of OperatorSurface for every catalog, every set of plaintexts and every     *)
(* overload that PostgreSQL could run: an operator that EQL declares has one function     *)
(* behind it (no two files share a path, and a file is told by its row), a wrapper        *)
(* compares terms that the CHECKs guarantee and that answer rightly, the planner's rewrites *)
(* agree, and no operator of jsonb is left in the place of one that EQL declares.  And    *)
(* each file of the installer finds what it names among what it requires, and creates no  *)
(* object that another one creates.                                                     *)
EXTENDS OperatorSurface, CatalogProofs

(***************************************************************************)
(* The rows of the installer, each a path and its file.                    *)
(***************************************************************************)
Rows == HandWrittenFiles \union GeneratedFiles

Seamed == {f \in CatalogFamilies : CrossCandidates(f) # {}}
Queried == {f \in CatalogFamilies : Queryable(f) # {}}
Ordered == {p \in Scalars : IsOrdCapable(p[2].terms)}

ColumnStem(p) == FullName(p[1], p[2])
OperandStem(p) == QueryName(p[1], p[2])

TypesRow(f) == <<TypesPath(f), RenderTypesFile(f)>>
QueryTypesRow(f) == <<QueryTypesPath(f), RenderQueryTypesFile(f)>>
SeamFunctionsRow(f) == <<FunctionsPath(f, JsonEntryStem(f)), RenderCrossFunctions(f)>>
SeamOperatorsRow(f) == <<OperatorsPath(f, JsonEntryStem(f)), RenderCrossOperators(f)>>
ColumnFunctionsRow(p) == <<FunctionsPath(p[1], ColumnStem(p)), RenderFunctionsFile(p[1], p[2])>>
ColumnOperatorsRow(p) == <<OperatorsPath(p[1], ColumnStem(p)), RenderOperatorsFile(p[1], p[2])>>
OperandFunctionsRow(p) == <<FunctionsPath(p[1], OperandStem(p)), RenderQueryFunctionsFile(p[1], p[2])>>
OperandOperatorsRow(p) == <<OperatorsPath(p[1], OperandStem(p)), RenderQueryOperatorsFile(p[1], p[2])>>
AggregatesRow(p) == <<ScalarPath(p[1], ColumnStem(p), "aggregates"), RenderAggregatesFile(p[1], p[2])>>
FallbackRow == << <<"scalars", "ore_fallback">>, RenderOreFallback>>

FamilyRows ==
  {TypesRow(f) : f \in CatalogFamilies} \union {QueryTypesRow(f) : f \in Queried}
    \union {SeamFunctionsRow(f) : f \in Seamed} \union {SeamOperatorsRow(f) : f \in Seamed}
DomainRows ==
  {ColumnFunctionsRow(p) : p \in Scalars} \union {ColumnOperatorsRow(p) : p \in Scalars}
    \union {OperandFunctionsRow(p) : p \in Queryables} \union {OperandOperatorsRow(p) : p \in Queryables}
    \union {AggregatesRow(p) : p \in Ordered}

\* Every family has a scalar domain.
LEMMA FamiliesScalar == FamiliesWithScalarDomains = CatalogFamilies
<1>1. ASSUME NEW f \in CatalogFamilies PROVE Scalar(<<>>, <<>>) \in DomainsOf(f)
  BY DomainsListed
<1>2. IsScalar(Scalar(<<>>, <<>>))
  BY DEF IsScalar, Scalar, Domain
<1> QED  BY <1>1, <1>2 DEF FamiliesWithScalarDomains

\* A domain with a term is scalar.
LEMMA WithTerms ==
  ASSUME NEW f \in CatalogFamilies, NEW d \in DomainsOf(f), d.terms # <<>>
  PROVE  <<f, d>> \in Queryables /\ <<f, d>> \in Scalars
<1>1. IsScalar(d)
  BY DocumentDomain
<1>2. <<f, d>> \in Scalars
  BY <1>1 DEF Scalars
<1> QED  BY <1>2 DEF Queryables

LEMMA QueryablesTyped ==
  ASSUME NEW p \in Queryables
  PROVE  /\ p \in Scalars /\ p[2].terms # <<>> /\ p[2] \in Queryable(p[1]) /\ p[1] \in Queried
         /\ p[1] \in CatalogFamilies
<1>1. p \in Scalars /\ p[2].terms # <<>>
  BY DEF Queryables
<1>2. p[1] \in CatalogFamilies /\ p[2] \in DomainsOf(p[1])
  BY <1>1, ScalarsTyped
<1> QED  BY <1>1, <1>2 DEF Queried, Queryable

LEMMA GeneratedListed == GeneratedFiles = FamilyRows \union DomainRows \union {FallbackRow}
<1>1. GeneratedFiles = (UNION {RenderType(f) : f \in CatalogFamilies}) \union {FallbackRow}
  BY FamiliesScalar DEF GeneratedFiles, FallbackRow
<1>2. ASSUME NEW f \in CatalogFamilies, NEW r \in RenderType(f) PROVE r \in FamilyRows \union DomainRows
  <2>1. CASE r \in TypeFiles(f)
    BY <2>1 DEF TypeFiles, FamilyRows, TypesRow, QueryTypesRow, Queried
  <2>2. CASE r \in CrossFiles(f)
    <3>1. CrossDomains(f) \union CrossBlockedDomains(f) = CrossCandidates(f)
      BY DEF CrossDomains, CrossBlockedDomains
    <3> QED  BY <2>2, <3>1 DEF CrossFiles, FamilyRows, SeamFunctionsRow, SeamOperatorsRow,
                Seamed
  <2>3. ASSUME NEW d \in DomainsOf(f), IsScalar(d),
               r \in StorageFiles(f, d) \union QueryFiles(f, d) \union AggregateFiles(f, d)
        PROVE  r \in DomainRows
    <3> DEFINE p == <<f, d>>
    <3>1. p \in Scalars /\ p[1] = f /\ p[2] = d
      BY <2>3 DEF Scalars
    <3>2. d.terms # <<>> => p \in Queryables
      BY <3>1 DEF Queryables
    <3>3. IsOrdCapable(d.terms) => p \in Ordered
      BY <3>1 DEF Ordered
    <3> HIDE DEF p
    <3>4. CASE r \in StorageFiles(f, d)
      BY <3>1, <3>4 DEF StorageFiles, DomainRows, ColumnFunctionsRow, ColumnOperatorsRow,
         ColumnStem
    <3>5. CASE r \in QueryFiles(f, d)
      BY <3>1, <3>2, <3>5 DEF QueryFiles, DomainRows, OperandFunctionsRow,
         OperandOperatorsRow, OperandStem
    <3>6. CASE r \in AggregateFiles(f, d)
      BY <3>1, <3>3, <3>6 DEF AggregateFiles, DomainRows, AggregatesRow, ColumnStem
    <3> QED  BY <2>3, <3>4, <3>5, <3>6
  <2> QED  BY <2>1, <2>2, <2>3 DEF RenderType
<1>3. ASSUME NEW r \in FamilyRows PROVE \E f \in CatalogFamilies : r \in RenderType(f)
  <2>1. CASE \E f \in CatalogFamilies : r = TypesRow(f)
    <3>1. PICK f \in CatalogFamilies : r = TypesRow(f)
      BY <2>1
    <3>2. r \in TypeFiles(f)
      BY <3>1 DEF TypesRow, TypeFiles
    <3> QED  BY <3>2 DEF RenderType
  <2>2. CASE \E f \in Queried : r = QueryTypesRow(f)
    <3>1. PICK f \in Queried : r = QueryTypesRow(f)
      BY <2>2
    <3>2. f \in CatalogFamilies /\ r \in TypeFiles(f)
      BY <3>1 DEF QueryTypesRow, TypeFiles, Queried
    <3> QED  BY <3>2 DEF RenderType
  <2>3. CASE \E f \in Seamed : r \in {SeamFunctionsRow(f), SeamOperatorsRow(f)}
    <3>1. PICK f \in Seamed : r \in {SeamFunctionsRow(f), SeamOperatorsRow(f)}
      BY <2>3
    <3>2. CrossDomains(f) \union CrossBlockedDomains(f) = CrossCandidates(f)
      BY DEF CrossDomains, CrossBlockedDomains
    <3>3. f \in CatalogFamilies /\ r \in CrossFiles(f)
      BY <3>1, <3>2 DEF SeamFunctionsRow, SeamOperatorsRow, CrossFiles, Seamed
    <3> QED  BY <3>3 DEF RenderType
  <2> QED  BY <2>1, <2>2, <2>3 DEF FamilyRows
<1>4. ASSUME NEW r \in DomainRows PROVE \E f \in CatalogFamilies : r \in RenderType(f)
  <2>1. PICK p \in Scalars :
          \/ r \in {ColumnFunctionsRow(p), ColumnOperatorsRow(p)}
          \/ p \in Queryables /\ r \in {OperandFunctionsRow(p), OperandOperatorsRow(p)}
          \/ p \in Ordered /\ r = AggregatesRow(p)
    BY DEF DomainRows, Queryables, Ordered
  <2>2. p[1] \in CatalogFamilies /\ p[2] \in DomainsOf(p[1]) /\ IsScalar(p[2])
    BY ScalarsTyped
  <2>3. r \in StorageFiles(p[1], p[2]) \union QueryFiles(p[1], p[2]) \union AggregateFiles(p[1], p[2])
    <3>1. CASE r \in {ColumnFunctionsRow(p), ColumnOperatorsRow(p)}
      BY <3>1 DEF StorageFiles, ColumnFunctionsRow, ColumnOperatorsRow, ColumnStem
    <3>2. CASE p \in Queryables /\ r \in {OperandFunctionsRow(p), OperandOperatorsRow(p)}
      BY <3>2 DEF QueryFiles, OperandFunctionsRow, OperandOperatorsRow, OperandStem, Queryables
    <3>3. CASE p \in Ordered /\ r = AggregatesRow(p)
      BY <3>3 DEF AggregateFiles, AggregatesRow, ColumnStem, Ordered
    <3> QED  BY <2>1, <3>1, <3>2, <3>3
  <2>4. r \in RenderType(p[1])
    BY <2>2, <2>3 DEF RenderType
  <2> QED  BY <2>2, <2>4
<1> QED  BY <1>1, <1>2, <1>3, <1>4

(***************************************************************************)
(* No two files have one path.                                             *)
(***************************************************************************)
\* The domains whose files have a stem.
ColumnsAt(f, n) == {p \in Scalars : p[1] = f /\ ColumnStem(p) = n}
OperandsAt(f, n) == {p \in Scalars : p[1] = f /\ OperandStem(p) = n}
The(S) == CHOOSE p \in S : TRUE

\* The generated file under a path.
FileAt(f, n, x) ==
  LET column == The(ColumnsAt(f, n))[2]
      operand == The(OperandsAt(f, n))[2]
  IN CASE x = "types" -> IF n = <<f>> THEN RenderTypesFile(f) ELSE RenderQueryTypesFile(f)
       [] x = "functions" ->
            IF n = JsonEntryStem(f) THEN RenderCrossFunctions(f)
            ELSE IF ColumnsAt(f, n) # {} THEN RenderFunctionsFile(f, column)
            ELSE RenderQueryFunctionsFile(f, operand)
       [] x = "operators" ->
            IF n = JsonEntryStem(f) THEN RenderCrossOperators(f)
            ELSE IF ColumnsAt(f, n) # {} THEN RenderOperatorsFile(f, column)
            ELSE RenderQueryOperatorsFile(f, operand)
       [] OTHER -> RenderAggregatesFile(f, column)

LEMMA TheOne == ASSUME NEW p PROVE The({p}) = p
BY DEF The

LEMMA StemsTell ==
  ASSUME NEW p \in Scalars
  PROVE  /\ ColumnsAt(p[1], ColumnStem(p)) = {p} /\ OperandsAt(p[1], OperandStem(p)) = {p}
         /\ ColumnsAt(p[1], OperandStem(p)) = {}
         /\ ColumnStem(p) # JsonEntryStem(p[1]) /\ OperandStem(p) # JsonEntryStem(p[1])
<1>1. \A q \in Scalars : /\ q[1] \in CatalogFamilies /\ q[2] \in DomainsOf(q[1]) /\ IsScalar(q[2])
                         /\ q = <<q[1], q[2]>>
  BY ScalarsTyped
<1>2. ASSUME NEW q \in Scalars, ColumnStem(q) = ColumnStem(p) PROVE q = p
  <2>1. <<q[1]>> \o q[2].name = <<p[1]>> \o p[2].name
    BY <1>1, <1>2, ScalarNames DEF ColumnStem
  <2>2. /\ q[1] \in CatalogFamilies /\ q[2] \in DomainsOf(q[1])
        /\ p[1] \in CatalogFamilies /\ p[2] \in DomainsOf(p[1])
    BY <1>1
  <2>. DEFINE Stem(f, d) == <<f>> \o d.name
  <2>3. \A f, g \in CatalogFamilies : \A d \in DomainsOf(f) : \A e \in DomainsOf(g) :
          Stem(f, d) = Stem(g, e) => f = g /\ d = e
    BY FullNameTells, Zenon
  <2>4. Stem(q[1], q[2]) = Stem(p[1], p[2])
    BY <2>1
  <2>. HIDE DEF Stem
  <2>5. q[1] = p[1] /\ q[2] = p[2]
    BY <2>2, <2>3, <2>4
  <2> QED  BY <1>1, <2>5
<1>3. ASSUME NEW q \in Scalars, OperandStem(q) = OperandStem(p) PROVE q = p
  <2>1. /\ q[1] \in CatalogFamilies /\ q[2] \in DomainsOf(q[1])
        /\ p[1] \in CatalogFamilies /\ p[2] \in DomainsOf(p[1])
        /\ IsScalar(q[2]) /\ IsScalar(p[2])
    BY <1>1
  <2>2. QueryName(q[1], q[2]) = QueryName(p[1], p[2])
    BY <1>3 DEF OperandStem
  <2>3. q[1] = p[1] /\ q[2] = p[2]
    BY <2>1, <2>2, QueryNameTells
  <2> QED  BY <1>1, <2>3
<1>4. ASSUME NEW q \in Scalars, q[1] = p[1], ColumnStem(q) = OperandStem(p) PROVE FALSE
  <2>1. /\ Len(ColumnStem(q)) = Len(q[2].name) + 1 /\ Len(q[2].name) \in Nat
        /\ q[2].name # <<>> => ColumnStem(q)[2] \in {"eq", "match", "ord", "search"}
        /\ ColumnStem(q)[1] = q[1]
    BY Stems DEF ColumnStem
  <2>2. /\ Len(OperandStem(p)) = Len(p[2].name) + 2 /\ Len(p[2].name) \in Nat
        /\ OperandStem(p)[1] = "query" /\ OperandStem(p)[2] = p[1]
    BY Stems DEF OperandStem
  <2>3. q[2].name # <<>>
    BY <1>4, <2>1, <2>2
  <2> QED  BY <1>4, <2>1, <2>2, <2>3
<1>5. /\ Len(JsonEntryStem(p[1])) = 3 /\ JsonEntryStem(p[1])[1] = "json"
  BY DEF JsonEntryStem
<1>6. OperandStem(p) # JsonEntryStem(p[1])
  BY <1>5, Stems DEF OperandStem
<1>7. ASSUME ColumnStem(p) = JsonEntryStem(p[1]) PROVE FALSE
  <2>1. Len(ColumnStem(p)) = Len(p[2].name) + 1 /\ ColumnStem(p)[1] = p[1]
    BY Stems DEF ColumnStem
  <2>2. p[1] = "json"
    BY <1>5, <1>7, <2>1
  <2>3. Len(p[2].name) = 0
    BY <2>2, DocumentScalar
  <2> QED  BY <1>5, <1>7, <2>1, <2>3
<1>8. ColumnsAt(p[1], ColumnStem(p)) = {p} /\ OperandsAt(p[1], OperandStem(p)) = {p}
  BY <1>2, <1>3 DEF ColumnsAt, OperandsAt
<1>9. ColumnsAt(p[1], OperandStem(p)) = {}
  BY <1>4 DEF ColumnsAt
<1> QED  BY <1>6, <1>7, <1>8, <1>9

\* What is under a path that the generator writes to.
Placed(r) ==
  \E f, x \in PathSegments : \E n \in Seq(PathSegments) : r = <<ScalarPath(f, n, x), FileAt(f, n, x)>>

LEMMA FamilyRowPlaced ==
  ASSUME NEW r \in FamilyRows
  PROVE  Placed(r)
<1>1. /\ "types" \in PathSegments /\ "functions" \in PathSegments /\ "operators" \in PathSegments
      /\ "json" \in PathSegments /\ "entry" \in PathSegments /\ "query" \in PathSegments
      /\ \A f \in CatalogFamilies : f \in PathSegments
  BY DEF PathSegments, Segments, Words
<1>2. ASSUME NEW f \in CatalogFamilies, r = TypesRow(f) PROVE Placed(r)
  <2>1. r = <<ScalarPath(f, <<f>>, "types"), FileAt(f, <<f>>, "types")>>
    BY <1>2 DEF TypesRow, TypesPath, FileAt
  <2>2. <<f>> \in Seq(PathSegments)
    BY <1>1
  <2> QED  BY <1>1, <2>1, <2>2 DEF Placed
<1>3. ASSUME NEW f \in CatalogFamilies, r = QueryTypesRow(f) PROVE Placed(r)
  <2> DEFINE n == <<"query", f>>
  <2>1. n \in Seq(PathSegments) /\ n # <<f>>
    BY <1>1
  <2>2. r = <<ScalarPath(f, n, "types"), RenderQueryTypesFile(f)>>
    BY <1>3 DEF QueryTypesRow, QueryTypesPath
  <2> HIDE DEF n
  <2>3. FileAt(f, n, "types") = RenderQueryTypesFile(f)
    BY <2>1 DEF FileAt
  <2> QED  BY <1>1, <2>1, <2>2, <2>3 DEF Placed
<1>4. ASSUME NEW f \in CatalogFamilies, r \in {SeamFunctionsRow(f), SeamOperatorsRow(f)} PROVE Placed(r)
  <2> DEFINE n == JsonEntryStem(f)
  <2>1. n \in Seq(PathSegments)
    BY <1>1 DEF JsonEntryStem
  <2>2. \/ r = <<ScalarPath(f, n, "functions"), RenderCrossFunctions(f)>>
        \/ r = <<ScalarPath(f, n, "operators"), RenderCrossOperators(f)>>
    BY <1>4 DEF SeamFunctionsRow, SeamOperatorsRow, FunctionsPath, OperatorsPath
  <2>3. FileAt(f, n, "functions") = RenderCrossFunctions(f) /\ FileAt(f, n, "operators") = RenderCrossOperators(f)
    BY DEF FileAt
  <2> HIDE DEF n
  <2> QED  BY <1>1, <2>1, <2>2, <2>3 DEF Placed
<1> QED  BY <1>2, <1>3, <1>4 DEF FamilyRows, Queried, Seamed

LEMMA DomainRowPlaced ==
  ASSUME NEW r \in DomainRows
  PROVE  Placed(r)
<1>1. "functions" \in PathSegments /\ "operators" \in PathSegments /\ "aggregates" \in PathSegments
  BY DEF PathSegments
<1>2. ASSUME NEW p \in Scalars, r \in {ColumnFunctionsRow(p), ColumnOperatorsRow(p), AggregatesRow(p)}
      PROVE  Placed(r)
  <2> DEFINE f == p[1]
             n == ColumnStem(p)
  <2>1. f \in PathSegments /\ n \in Seq(PathSegments)
    BY Stems DEF ColumnStem
  <2>2. ColumnsAt(f, n) = {p} /\ n # JsonEntryStem(f)
    BY StemsTell
  <2>3. \/ r = <<ScalarPath(f, n, "functions"), RenderFunctionsFile(f, p[2])>>
        \/ r = <<ScalarPath(f, n, "operators"), RenderOperatorsFile(f, p[2])>>
        \/ r = <<ScalarPath(f, n, "aggregates"), RenderAggregatesFile(f, p[2])>>
    BY <1>2 DEF ColumnFunctionsRow, ColumnOperatorsRow, AggregatesRow, FunctionsPath,
       OperatorsPath
  <2> HIDE DEF f, n
  <2>4. /\ FileAt(f, n, "functions") = RenderFunctionsFile(f, p[2])
        /\ FileAt(f, n, "operators") = RenderOperatorsFile(f, p[2])
        /\ FileAt(f, n, "aggregates") = RenderAggregatesFile(f, p[2])
    <3>1. ColumnsAt(f, n) # {} /\ The(ColumnsAt(f, n)) = p
      BY <2>2, TheOne
    <3> QED  BY <2>2, <3>1 DEF FileAt
  <2> QED  BY <1>1, <2>1, <2>3, <2>4 DEF Placed
<1>3. ASSUME NEW p \in Scalars, r \in {OperandFunctionsRow(p), OperandOperatorsRow(p)}
      PROVE  Placed(r)
  <2> DEFINE f == p[1]
             n == OperandStem(p)
  <2>1. f \in PathSegments /\ n \in Seq(PathSegments)
    BY Stems DEF OperandStem
  <2>2. ColumnsAt(f, n) = {} /\ OperandsAt(f, n) = {p} /\ n # JsonEntryStem(f)
    BY StemsTell
  <2>3. \/ r = <<ScalarPath(f, n, "functions"), RenderQueryFunctionsFile(f, p[2])>>
        \/ r = <<ScalarPath(f, n, "operators"), RenderQueryOperatorsFile(f, p[2])>>
    BY <1>3 DEF OperandFunctionsRow, OperandOperatorsRow, FunctionsPath, OperatorsPath
  <2> HIDE DEF f, n
  <2>4. /\ FileAt(f, n, "functions") = RenderQueryFunctionsFile(f, p[2])
        /\ FileAt(f, n, "operators") = RenderQueryOperatorsFile(f, p[2])
    <3>1. The(OperandsAt(f, n)) = p
      BY <2>2, TheOne
    <3> QED  BY <2>2, <3>1 DEF FileAt
  <2> QED  BY <1>1, <2>1, <2>3, <2>4 DEF Placed
<1>4. PICK p \in Scalars :
        \/ r \in {ColumnFunctionsRow(p), ColumnOperatorsRow(p), AggregatesRow(p)}
        \/ r \in {OperandFunctionsRow(p), OperandOperatorsRow(p)}
  BY DEF DomainRows, Queryables, Ordered
<1> QED  BY <1>2, <1>3, <1>4

LEMMA PlacedTell ==
  ASSUME NEW r, NEW s, Placed(r), Placed(s), r[1] = s[1]
  PROVE  r = s
<1>1. PICK f \in PathSegments, x \in PathSegments, n \in Seq(PathSegments) :
        r = <<ScalarPath(f, n, x), FileAt(f, n, x)>>
  BY DEF Placed
<1>2. PICK g \in PathSegments, y \in PathSegments, m \in Seq(PathSegments) :
        s = <<ScalarPath(g, m, y), FileAt(g, m, y)>>
  BY DEF Placed
<1>3. ScalarPath(f, n, x) = ScalarPath(g, m, y)
  BY <1>1, <1>2
<1>4. f = g /\ n = m /\ x = y
  BY <1>3, PathTells
<1> QED  BY <1>1, <1>2, <1>4

LEMMA PlacedDeep ==
  ASSUME NEW r, Placed(r)
  PROVE  Len(r[1]) \notin {1, 2}
<1>1. PICK f \in PathSegments, x \in PathSegments, n \in Seq(PathSegments) :
        r = <<ScalarPath(f, n, x), FileAt(f, n, x)>>
  BY DEF Placed
<1>2. Spells(r[1], f, n, x)
  BY <1>1, PathNamed
<1>3. Len(n) \in Nat
  BY LenProperties
<1> QED  BY <1>2, <1>3 DEF Spells

\* The hand-written file under a path.
TermOf(ctor) == CHOOSE t \in Terms : Ctor[t] = ctor

HandFile(path) ==
  IF path \in PlainPaths THEN PlainFile(path)
  ELSE IF path[1] = "json"
    THEN CASE path[2] = "types" -> JsonTypesFile
           [] path[2] = "functions" -> JsonFunctionsFile
           [] path[2] = "operators" -> JsonOperatorsFile
           [] path[2] = "blockers" -> JsonBlockersFile
           [] OTHER -> JsonAggregatesFile
    ELSE CASE path[2] = "types" -> TermTypesFile(TermOf(path[1]))
           [] path[2] = "functions" -> TermFunctionsFile(TermOf(path[1]))
           [] path[2] = "operators" -> OreOperatorsFile
           [] OTHER -> OreOpclassFile

LEMMA CtorTells ==
  /\ \A t \in Terms : TermOf(Ctor[t]) = t
  /\ \A t \in Terms : Ctor[t] \in {"hmac_256", "ore_block_256", "bloom_filter", "ope_cllw"}
<1>1. /\ Ctor["Hm"] = "hmac_256" /\ Ctor["Ore"] = "ore_block_256"
      /\ Ctor["Bloom"] = "bloom_filter" /\ Ctor["Ope"] = "ope_cllw"
  BY DEF Ctor
<1>2. \A t, u \in Terms : Ctor[t] = Ctor[u] => t = u
  BY <1>1 DEF Terms
<1>3. ASSUME NEW t \in Terms PROVE TermOf(Ctor[t]) = t
  <2>1. \E u \in Terms : Ctor[u] = Ctor[t]
    OBVIOUS
  <2>2. TermOf(Ctor[t]) \in Terms /\ Ctor[TermOf(Ctor[t])] = Ctor[t]
    BY <2>1 DEF TermOf
  <2> QED  BY <1>2, <2>2
<1> QED  BY <1>1, <1>3 DEF Terms

HandPlaced(r) ==
  \E path : /\ r = <<path, HandFile(path)>> /\ Len(path) \in {1, 2}
            /\ path[1] = "scalars" => path = ScalarsBlocker

LEMMA HandWrittenPlaced ==
  ASSUME NEW r \in HandWrittenFiles
  PROVE  HandPlaced(r)
<1>1. CASE \E path \in PlainPaths : r = <<path, PlainFile(path)>>
  <2>1. PICK path \in PlainPaths : r = <<path, PlainFile(path)>>
    BY <1>1
  <2>2. Len(path) \in {1, 2} /\ (path[1] = "scalars" => path = ScalarsBlocker)
    BY DEF PlainPaths, Schema, ScalarsBlocker
  <2> QED  BY <2>1, <2>2 DEF HandFile, HandPlaced
<1>2. CASE \E t \in Terms : r \in TermSqlFiles(t)
  <2>1. PICK t \in Terms : r \in TermSqlFiles(t)
    BY <1>2
  <2> DEFINE c == Ctor[t]
  <2>2. r = << <<c, "types">>, TermTypesFile(t)>> \/ r = << <<c, "functions">>, TermFunctionsFile(t)>>
    BY <2>1 DEF TermSqlFiles, TermTypesPath, TermFunctionsPath
  <2>3. TermOf(c) = t /\ c \in {"hmac_256", "ore_block_256", "bloom_filter", "ope_cllw"}
    BY CtorTells
  <2> HIDE DEF c
  <2>4. /\ <<c, "types">> \notin PlainPaths /\ <<c, "functions">> \notin PlainPaths
        /\ c # "json" /\ c # "scalars"
    BY <2>3 DEF PlainPaths, Schema, ScalarsBlocker
  <2>5. /\ HandFile(<<c, "types">>) = TermTypesFile(t)
        /\ HandFile(<<c, "functions">>) = TermFunctionsFile(t)
    BY <2>3, <2>4 DEF HandFile
  <2>6. \A x : <<c, x>>[1] = c /\ Len(<<c, x>>) = 2
    OBVIOUS
  <2> QED  BY <2>2, <2>4, <2>5, <2>6 DEF HandPlaced
<1>3. CASE r \in OreFiles
  <2>1. r = <<OreOperators, OreOperatorsFile>> \/ r = <<OreOpclass, OreOpclassFile>>
    BY <1>3 DEF OreFiles
  <2>2. OreOperators \notin PlainPaths /\ OreOpclass \notin PlainPaths
    BY DEF PlainPaths, Schema, ScalarsBlocker, OreOperators, OreOpclass
  <2>3. /\ OreOperators[1] = "ore_block_256" /\ OreOperators[2] = "operators" /\ Len(OreOperators) = 2
        /\ OreOpclass[1] = "ore_block_256" /\ OreOpclass[2] = "operator_class" /\ Len(OreOpclass) = 2
    BY DEF OreOperators, OreOpclass
  <2>4. HandFile(OreOperators) = OreOperatorsFile
    BY <2>2, <2>3 DEF HandFile
  <2>5. HandFile(OreOpclass) = OreOpclassFile
    BY <2>2, <2>3 DEF HandFile
  <2> QED  BY <2>1, <2>3, <2>4, <2>5 DEF HandPlaced
<1>4. CASE r \in JsonFiles
  <2>1. \/ r = << <<"json", "types">>, JsonTypesFile>>
        \/ r = << <<"json", "functions">>, JsonFunctionsFile>>
        \/ r = << <<"json", "operators">>, JsonOperatorsFile>>
        \/ r = << <<"json", "blockers">>, JsonBlockersFile>>
        \/ r = << <<"json", "aggregates">>, JsonAggregatesFile>>
    BY <1>4 DEF JsonFiles, JsonTypes, JsonFunctions
  <2>2. \A word : <<"json", word>> \notin PlainPaths
    BY DEF PlainPaths, Schema, ScalarsBlocker
  <2>3. /\ HandFile(<<"json", "types">>) = JsonTypesFile
        /\ HandFile(<<"json", "functions">>) = JsonFunctionsFile
        /\ HandFile(<<"json", "operators">>) = JsonOperatorsFile
        /\ HandFile(<<"json", "blockers">>) = JsonBlockersFile
        /\ HandFile(<<"json", "aggregates">>) = JsonAggregatesFile
    <3>1. \A path : path \notin PlainPaths /\ path[1] = "json" =>
            HandFile(path) =
              CASE path[2] = "types" -> JsonTypesFile
                [] path[2] = "functions" -> JsonFunctionsFile
                [] path[2] = "operators" -> JsonOperatorsFile
                [] path[2] = "blockers" -> JsonBlockersFile
                [] OTHER -> JsonAggregatesFile
      BY DEF HandFile
    <3> DEFINE path(word) == <<"json", word>>
    <3>2. \A word : path(word) \notin PlainPaths /\ path(word)[1] = "json" /\ path(word)[2] = word
      BY <2>2
    <3> HIDE DEF path
    <3>3. HandFile(path("types")) = JsonTypesFile
      BY <3>1, <3>2
    <3>4. HandFile(path("functions")) = JsonFunctionsFile
      BY <3>1, <3>2
    <3>5. HandFile(path("operators")) = JsonOperatorsFile
      BY <3>1, <3>2
    <3>6. HandFile(path("blockers")) = JsonBlockersFile
      BY <3>1, <3>2
    <3>7. HandFile(path("aggregates")) = JsonAggregatesFile
      BY <3>1, <3>2
    <3> QED  BY <3>3, <3>4, <3>5, <3>6, <3>7 DEF path
  <2>4. \A word : Len(<<"json", word>>) = 2 /\ <<"json", word>>[1] # "scalars"
    OBVIOUS
  <2>5. PICK word : r = << <<"json", word>>, HandFile(<<"json", word>>)>>
    BY <2>1, <2>3
  <2> QED  BY <2>4, <2>5 DEF HandPlaced
<1> QED  BY <1>1, <1>2, <1>3, <1>4 DEF HandWrittenFiles

LEMMA RowsTell ==
  ASSUME NEW r \in Rows, NEW s \in Rows, r[1] = s[1]
  PROVE  r = s
<1>1. \A q \in Rows : q \in HandWrittenFiles \/ q = FallbackRow \/ Placed(q)
  BY GeneratedListed, FamilyRowPlaced, DomainRowPlaced DEF Rows
<1>2. /\ FallbackRow[1] = <<"scalars", "ore_fallback">> /\ Len(FallbackRow[1]) \in {1, 2}
      /\ FallbackRow[1][1] = "scalars" /\ FallbackRow[1] # ScalarsBlocker
  BY DEF FallbackRow, ScalarsBlocker
<1>4. ASSUME NEW q \in HandWrittenFiles, NEW z, z = FallbackRow \/ Placed(z), q[1] = z[1] PROVE FALSE
  <2>1. Len(q[1]) \in {1, 2} /\ (q[1][1] = "scalars" => q[1] = ScalarsBlocker)
    BY HandWrittenPlaced DEF HandPlaced
  <2>2. CASE z = FallbackRow
    BY <1>2, <1>4, <2>1, <2>2
  <2>3. CASE Placed(z)
    <3>1. Len(z[1]) \notin {1, 2}
      BY <2>3, PlacedDeep
    <3> QED  BY <1>4, <2>1, <3>1, Zenon
  <2> QED  BY <1>4, <2>2, <2>3
<1>5. CASE r \in HandWrittenFiles
  <2>1. s \in HandWrittenFiles
    BY <1>1, <1>4, <1>5
  <2>2. PICK path : r = <<path, HandFile(path)>>
    BY <1>5, HandWrittenPlaced DEF HandPlaced
  <2>3. PICK other : s = <<other, HandFile(other)>>
    BY <2>1, HandWrittenPlaced DEF HandPlaced
  <2> QED  BY <2>2, <2>3
<1>6. CASE s \in HandWrittenFiles
  BY <1>1, <1>4, <1>5, <1>6
<1>7. CASE r = FallbackRow \/ s = FallbackRow
  <2>1. ASSUME NEW z, Placed(z) PROVE z[1] # FallbackRow[1]
    <3>1. Len(z[1]) \notin {1, 2}
      BY <2>1, PlacedDeep
    <3> QED  BY <1>2, <3>1, Zenon
  <2> QED  BY <1>1, <1>5, <1>6, <1>7, <2>1
<1> QED  BY <1>1, <1>5, <1>6, <1>7, PlacedTell

\* The files of the installer are the rows, each under its path.
LEMMA Installed ==
  /\ DOMAIN Files = {r[1] : r \in Rows}
  /\ \A r \in Rows : r[1] \in DOMAIN Files /\ Files[r[1]] = r[2]
  /\ Contents = {r[2] : r \in Rows}
<1>1. Files = Table(Rows)
  BY DEF Files, Rows
<1>2. DOMAIN Files = {r[1] : r \in Rows}
  BY <1>1 DEF Table
<1>3. ASSUME NEW r \in Rows PROVE r[1] \in DOMAIN Files /\ Files[r[1]] = r[2]
  <2>1. \A s \in Rows : s[1] = r[1] => s[2] = r[2]
    BY RowsTell
  <2> DEFINE chosenRow == CHOOSE s \in Rows : s[1] = r[1]
  <2>2. chosenRow \in Rows /\ chosenRow[1] = r[1]
    OBVIOUS
  <2>3. Files[r[1]] = chosenRow[2]
    BY <1>1 DEF Table
  <2> HIDE DEF chosenRow
  <2> QED  BY <1>2, <2>1, <2>2, <2>3
<1>4. Contents = {Files[path] : path \in DOMAIN Files}
  BY DEF Contents, Range
<1>5. Contents = {r[2] : r \in Rows}
  BY <1>2, <1>3, <1>4
<1> QED  BY <1>2, <1>3, <1>5

(***************************************************************************)
(* What the files declare.                                                 *)
(***************************************************************************)
LEMMA FileFields ==
  ASSUME NEW requires, NEW types, NEW functions, NEW operators, NEW calls
  PROVE  /\ File(requires, types, functions, operators, calls).requires = requires
         /\ File(requires, types, functions, operators, calls).types = types
         /\ File(requires, types, functions, operators, calls).functions = functions
         /\ File(requires, types, functions, operators, calls).operators = operators
         /\ File(requires, types, functions, operators, calls).calls = calls
         /\ TypesOnly(requires, types).types = types
         /\ TypesOnly(requires, types).functions = {} /\ TypesOnly(requires, types).operators = {}
         /\ FunctionsFile(requires, functions).functions = functions
         /\ FunctionsFile(requires, functions).types = {} /\ FunctionsFile(requires, functions).operators = {}
         /\ OperatorsFile(requires, operators).operators = operators
         /\ OperatorsFile(requires, operators).types = {} /\ OperatorsFile(requires, operators).functions = {}
BY DEF File, TypesOnly, FunctionsFile, OperatorsFile

TypesFiles ==
  {RenderTypesFile(f) : f \in CatalogFamilies} \union {RenderQueryTypesFile(f) : f \in Queried}
    \union {TermTypesFile(t) : t \in Terms} \union {JsonTypesFile}
FunctionsFiles ==
  {RenderFunctionsFile(p[1], p[2]) : p \in Scalars} \union {RenderQueryFunctionsFile(p[1], p[2]) : p \in Queryables}
    \union {RenderCrossFunctions(f) : f \in Seamed} \union {TermFunctionsFile(t) : t \in Terms}
    \union {JsonFunctionsFile}
OperatorsFiles ==
  {RenderOperatorsFile(p[1], p[2]) : p \in Scalars} \union {RenderQueryOperatorsFile(p[1], p[2]) : p \in Queryables}
    \union {RenderCrossOperators(f) : f \in Seamed}
BothFiles == {JsonOperatorsFile, JsonBlockersFile, OreOperatorsFile}
CallersFiles ==
  {PlainFile(path) : path \in PlainPaths} \union {RenderAggregatesFile(p[1], p[2]) : p \in Ordered}
    \union {RenderOreFallback, OreOpclassFile, JsonAggregatesFile}

LEMMA ContentsListed ==
  Contents = TypesFiles \union FunctionsFiles \union OperatorsFiles \union BothFiles \union CallersFiles
<1> DEFINE All == TypesFiles \union FunctionsFiles \union OperatorsFiles \union BothFiles \union CallersFiles
<1>1. ASSUME NEW r \in HandWrittenFiles PROVE r[2] \in All
  <2>1. CASE \E path \in PlainPaths : r = <<path, PlainFile(path)>>
    BY <2>1 DEF CallersFiles
  <2>2. CASE \E t \in Terms : r \in TermSqlFiles(t)
    BY <2>2 DEF TermSqlFiles, TypesFiles, FunctionsFiles
  <2>3. CASE r \in OreFiles
    BY <2>3 DEF OreFiles, BothFiles, CallersFiles
  <2>4. CASE r \in JsonFiles
    BY <2>4 DEF JsonFiles, TypesFiles, FunctionsFiles, BothFiles, CallersFiles
  <2> QED  BY <2>1, <2>2, <2>3, <2>4 DEF HandWrittenFiles
<1>2. ASSUME NEW r \in FamilyRows PROVE r[2] \in All
  <2>1. CASE \E f \in CatalogFamilies : r = TypesRow(f)
    BY <2>1 DEF TypesRow, TypesFiles
  <2>2. CASE \E f \in Queried : r = QueryTypesRow(f)
    BY <2>2 DEF QueryTypesRow, TypesFiles
  <2>3. CASE \E f \in Seamed : r = SeamFunctionsRow(f)
    BY <2>3 DEF SeamFunctionsRow, FunctionsFiles
  <2>4. CASE \E f \in Seamed : r = SeamOperatorsRow(f)
    BY <2>4 DEF SeamOperatorsRow, OperatorsFiles
  <2> QED  BY <2>1, <2>2, <2>3, <2>4 DEF FamilyRows
<1>3. ASSUME NEW r \in DomainRows PROVE r[2] \in All
  <2>1. CASE \E p \in Scalars : r = ColumnFunctionsRow(p)
    BY <2>1 DEF ColumnFunctionsRow, FunctionsFiles
  <2>2. CASE \E p \in Scalars : r = ColumnOperatorsRow(p)
    BY <2>2 DEF ColumnOperatorsRow, OperatorsFiles
  <2>3. CASE \E p \in Queryables : r = OperandFunctionsRow(p)
    BY <2>3 DEF OperandFunctionsRow, FunctionsFiles
  <2>4. CASE \E p \in Queryables : r = OperandOperatorsRow(p)
    BY <2>4 DEF OperandOperatorsRow, OperatorsFiles
  <2>5. CASE \E p \in Ordered : r = AggregatesRow(p)
    BY <2>5 DEF AggregatesRow, CallersFiles
  <2> QED  BY <2>1, <2>2, <2>3, <2>4, <2>5 DEF DomainRows
<1>4. Contents \subseteq All
  <2>1. FallbackRow[2] \in All
    BY DEF FallbackRow, CallersFiles
  <2> HIDE DEF All
  <2> QED  BY <1>1, <1>2, <1>3, <2>1, Installed, GeneratedListed DEF Rows
<1>5. ASSUME NEW path, NEW file_, <<path, file_>> \in HandWrittenFiles \union FamilyRows \union DomainRows \union {FallbackRow}
      PROVE  file_ \in Contents
  BY <1>5, Installed, GeneratedListed DEF Rows
<1>6. ASSUME NEW c \in TypesFiles PROVE c \in Contents
  <2>1. ASSUME NEW f \in CatalogFamilies PROVE RenderTypesFile(f) \in Contents
    <3>1. <<TypesPath(f), RenderTypesFile(f)>> \in FamilyRows
      BY DEF FamilyRows, TypesRow
    <3> QED  BY <1>5, <3>1
  <2>2. ASSUME NEW f \in Queried PROVE RenderQueryTypesFile(f) \in Contents
    <3>1. <<QueryTypesPath(f), RenderQueryTypesFile(f)>> \in FamilyRows
      BY DEF FamilyRows, QueryTypesRow
    <3> QED  BY <1>5, <3>1
  <2>3. ASSUME NEW t \in Terms PROVE TermTypesFile(t) \in Contents
    <3>1. <<TermTypesPath(t), TermTypesFile(t)>> \in HandWrittenFiles
      BY DEF HandWrittenFiles, TermSqlFiles
    <3> QED  BY <1>5, <3>1
  <2>4. JsonTypesFile \in Contents
    <3>1. <<JsonTypes, JsonTypesFile>> \in HandWrittenFiles
      BY DEF HandWrittenFiles, JsonFiles
    <3> QED  BY <1>5, <3>1
  <2> QED  BY <2>1, <2>2, <2>3, <2>4 DEF TypesFiles
<1>7. ASSUME NEW c \in FunctionsFiles PROVE c \in Contents
  <2>1. ASSUME NEW p \in Scalars PROVE RenderFunctionsFile(p[1], p[2]) \in Contents
    <3>1. ColumnFunctionsRow(p) \in DomainRows
      BY DEF DomainRows
    <3> QED  BY <1>5, <3>1 DEF ColumnFunctionsRow
  <2>2. ASSUME NEW p \in Queryables PROVE RenderQueryFunctionsFile(p[1], p[2]) \in Contents
    <3>1. OperandFunctionsRow(p) \in DomainRows
      BY DEF DomainRows
    <3> QED  BY <1>5, <3>1 DEF OperandFunctionsRow
  <2>3. ASSUME NEW f \in Seamed PROVE RenderCrossFunctions(f) \in Contents
    <3>1. SeamFunctionsRow(f) \in FamilyRows
      BY DEF FamilyRows
    <3> QED  BY <1>5, <3>1 DEF SeamFunctionsRow
  <2>4. ASSUME NEW t \in Terms PROVE TermFunctionsFile(t) \in Contents
    <3>1. <<TermFunctionsPath(t), TermFunctionsFile(t)>> \in HandWrittenFiles
      BY DEF HandWrittenFiles, TermSqlFiles
    <3> QED  BY <1>5, <3>1
  <2>5. JsonFunctionsFile \in Contents
    <3>1. <<JsonFunctions, JsonFunctionsFile>> \in HandWrittenFiles
      BY DEF HandWrittenFiles, JsonFiles
    <3> QED  BY <1>5, <3>1
  <2> QED  BY <2>1, <2>2, <2>3, <2>4, <2>5 DEF FunctionsFiles
<1>8. ASSUME NEW c \in OperatorsFiles PROVE c \in Contents
  <2>1. ASSUME NEW p \in Scalars PROVE RenderOperatorsFile(p[1], p[2]) \in Contents
    <3>1. ColumnOperatorsRow(p) \in DomainRows
      BY DEF DomainRows
    <3> QED  BY <1>5, <3>1 DEF ColumnOperatorsRow
  <2>2. ASSUME NEW p \in Queryables PROVE RenderQueryOperatorsFile(p[1], p[2]) \in Contents
    <3>1. OperandOperatorsRow(p) \in DomainRows
      BY DEF DomainRows
    <3> QED  BY <1>5, <3>1 DEF OperandOperatorsRow
  <2>3. ASSUME NEW f \in Seamed PROVE RenderCrossOperators(f) \in Contents
    <3>1. SeamOperatorsRow(f) \in FamilyRows
      BY DEF FamilyRows
    <3> QED  BY <1>5, <3>1 DEF SeamOperatorsRow
  <2> QED  BY <2>1, <2>2, <2>3 DEF OperatorsFiles
<1>9. ASSUME NEW c \in BothFiles \union CallersFiles PROVE c \in Contents
  <2>1. /\ << <<"json", "operators">>, JsonOperatorsFile>> \in HandWrittenFiles
        /\ << <<"json", "blockers">>, JsonBlockersFile>> \in HandWrittenFiles
        /\ << <<"json", "aggregates">>, JsonAggregatesFile>> \in HandWrittenFiles
    BY DEF HandWrittenFiles, JsonFiles
  <2>2. /\ <<OreOperators, OreOperatorsFile>> \in HandWrittenFiles
        /\ <<OreOpclass, OreOpclassFile>> \in HandWrittenFiles
    BY DEF HandWrittenFiles, OreFiles
  <2>3. ASSUME NEW path \in PlainPaths PROVE PlainFile(path) \in Contents
    <3>1. <<path, PlainFile(path)>> \in HandWrittenFiles
      BY DEF HandWrittenFiles
    <3> QED  BY <1>5, <3>1
  <2>4. ASSUME NEW p \in Ordered PROVE RenderAggregatesFile(p[1], p[2]) \in Contents
    <3>1. AggregatesRow(p) \in DomainRows
      BY DEF DomainRows
    <3> QED  BY <1>5, <3>1 DEF AggregatesRow
  <2>5. RenderOreFallback \in Contents
    BY <1>5 DEF FallbackRow
  <2>6. {JsonOperatorsFile, JsonBlockersFile, JsonAggregatesFile, OreOperatorsFile, OreOpclassFile} \subseteq Contents
    BY <1>5, <2>1, <2>2
  <2> QED  BY <2>3, <2>4, <2>5, <2>6 DEF BothFiles, CallersFiles
<1> QED  BY <1>4, <1>6, <1>7, <1>8, <1>9

\* Which field a file may have something in.
LEMMA FileKinds ==
  /\ \A c \in TypesFiles : c.functions = {} /\ c.operators = {}
  /\ \A c \in FunctionsFiles : c.types = {} /\ c.operators = {}
  /\ \A c \in OperatorsFiles : c.types = {} /\ c.functions = {}
  /\ \A c \in BothFiles : c.types = {}
  /\ \A c \in CallersFiles : c.types = {} /\ c.functions = {} /\ c.operators = {}
<1>1. ASSUME NEW c \in TypesFiles PROVE c.functions = {} /\ c.operators = {}
  <2>1. \A f : RenderTypesFile(f).functions = {} /\ RenderTypesFile(f).operators = {}
    BY FileFields DEF RenderTypesFile
  <2>2. \A f : RenderQueryTypesFile(f).functions = {} /\ RenderQueryTypesFile(f).operators = {}
    BY FileFields DEF RenderQueryTypesFile
  <2>3. \A t : TermTypesFile(t).functions = {} /\ TermTypesFile(t).operators = {}
    BY FileFields DEF TermTypesFile
  <2>4. JsonTypesFile.functions = {} /\ JsonTypesFile.operators = {}
    BY FileFields DEF JsonTypesFile
  <2> QED  BY <2>1, <2>2, <2>3, <2>4 DEF TypesFiles
<1>2. ASSUME NEW c \in FunctionsFiles PROVE c.types = {} /\ c.operators = {}
  <2>1. \A f, d : RenderFunctionsFile(f, d).types = {} /\ RenderFunctionsFile(f, d).operators = {}
    BY DEF RenderFunctionsFile, FunctionsFile, File
  <2>2. \A f, d : RenderQueryFunctionsFile(f, d).types = {} /\ RenderQueryFunctionsFile(f, d).operators = {}
    BY DEF RenderQueryFunctionsFile, FunctionsFile, File
  <2>3. \A f : RenderCrossFunctions(f).types = {} /\ RenderCrossFunctions(f).operators = {}
    BY FileFields DEF RenderCrossFunctions
  <2>4. \A t : TermFunctionsFile(t).types = {} /\ TermFunctionsFile(t).operators = {}
    BY DEF TermFunctionsFile, FunctionsFile, File
  <2>5. JsonFunctionsFile.types = {} /\ JsonFunctionsFile.operators = {}
    BY FileFields DEF JsonFunctionsFile
  <2> QED  BY <2>1, <2>2, <2>3, <2>4, <2>5 DEF FunctionsFiles
<1>3. ASSUME NEW c \in OperatorsFiles PROVE c.types = {} /\ c.functions = {}
  <2>1. \A f, d : RenderOperatorsFile(f, d).types = {} /\ RenderOperatorsFile(f, d).functions = {}
    BY FileFields DEF RenderOperatorsFile
  <2>2. \A f, d : RenderQueryOperatorsFile(f, d).types = {} /\ RenderQueryOperatorsFile(f, d).functions = {}
    BY DEF RenderQueryOperatorsFile, OperatorsFile, File
  <2>3. \A f : RenderCrossOperators(f).types = {} /\ RenderCrossOperators(f).functions = {}
    BY FileFields DEF RenderCrossOperators
  <2> QED  BY <2>1, <2>2, <2>3 DEF OperatorsFiles
<1>4. ASSUME NEW c \in BothFiles PROVE c.types = {}
  <2>1. JsonOperatorsFile.types = {} /\ JsonBlockersFile.types = {} /\ OreOperatorsFile.types = {}
    BY DEF JsonOperatorsFile, JsonBlockersFile, OreOperatorsFile, File
  <2> QED  BY <2>1 DEF BothFiles
<1>5. ASSUME NEW c \in CallersFiles PROVE c.types = {} /\ c.functions = {} /\ c.operators = {}
  <2>1. \A path : PlainFile(path).types = {} /\ PlainFile(path).functions = {} /\ PlainFile(path).operators = {}
    BY FileFields DEF PlainFile
  <2>2. \A f, d : /\ RenderAggregatesFile(f, d).types = {} /\ RenderAggregatesFile(f, d).functions = {}
                 /\ RenderAggregatesFile(f, d).operators = {}
    BY FileFields DEF RenderAggregatesFile
  <2>3. /\ RenderOreFallback.types = {} /\ RenderOreFallback.functions = {} /\ RenderOreFallback.operators = {}
        /\ OreOpclassFile.types = {} /\ OreOpclassFile.functions = {} /\ OreOpclassFile.operators = {}
        /\ JsonAggregatesFile.types = {} /\ JsonAggregatesFile.functions = {} /\ JsonAggregatesFile.operators = {}
    BY FileFields DEF RenderOreFallback, OreOpclassFile, JsonAggregatesFile
  <2> QED  BY <2>1, <2>2, <2>3 DEF CallersFiles
<1> QED  BY <1>1, <1>2, <1>3, <1>4, <1>5

LEMMA DeclarationsListed ==
  /\ Domains = UNION {c.types : c \in TypesFiles}
  /\ Entries = (UNION {c.functions : c \in FunctionsFiles}) \union UNION {c.functions : c \in BothFiles}
  /\ DeclaredOperators = (UNION {c.operators : c \in OperatorsFiles}) \union UNION {c.operators : c \in BothFiles}
BY ContentsListed, FileKinds DEF Domains, Entries, DeclaredOperators

(***************************************************************************)
(* The wrappers: at which operands each operator is answered, and by which *)
(* term.                                                                   *)
(***************************************************************************)
ColumnPairs(p) == {<<Column(p), Jsonb>>, <<Jsonb, Column(p)>>, <<Column(p), Column(p)>>}
OperandPairs(p) == BothWays(Column(p), Operand(p))
SeamPairs(p) == BothWays(JsonEntryType, Operand(p))

WrappedColumn(p, op, s, t) ==
  p \in Scalars /\ op \in OperatorsForTerms(p[2].terms) /\ t \in TermForOperator(p[2].terms, op) /\ s \in ColumnPairs(p)
WrappedOperand(p, op, s, t) ==
  p \in Queryables /\ op \in OperatorsForTerms(p[2].terms) /\ t \in TermForOperator(p[2].terms, op) /\ s \in OperandPairs(p)
WrappedSeam(p, op, s) ==
  p \in Queryables /\ p[2] \in CrossDomains(p[1]) /\ op \in OrderOps /\ s \in SeamPairs(p)
WrappedEntry(op, s) == op \in OrderOps /\ s = <<JsonEntryType, JsonEntryType>>

\* The domain of a wrapper for op at the pair s of operands, by term t.
Wrapped(op, s, t, dom) ==
  \/ \E p \in Scalars : WrappedColumn(p, op, s, t) /\ dom = Column(p)
  \/ \E p \in Scalars : WrappedOperand(p, op, s, t) /\ dom = Operand(p)
  \/ \E p \in Scalars : WrappedSeam(p, op, s) /\ t = JsonEntryTerm /\ dom = JsonEntryType
  \/ WrappedEntry(op, s) /\ t = JsonEntryTerm /\ dom = JsonEntryType

LEMMA EntryFields ==
  /\ \A dom, op, a, b, t : WrapperEntry(dom, op, a, b, t).kind = "wrapper"
  /\ \A dom, op, a, b, t :
       WrapperEntry(dom, op, a, b, t).fn = Fn("eql_v3", WrapperFunctionName(op), <<a, b>>)
  /\ \A dom, op, a, b, t : WrapperEntry(dom, op, a, b, t).op = BodyOperator(op)
  /\ \A dom, op, a, b, t : WrapperEntry(dom, op, a, b, t).term = t
  /\ \A dom, op, a, b, t : WrapperEntry(dom, op, a, b, t).dom = dom
  /\ \A dom, t : ExtractorEntry(dom, t).kind = "extractor"
  /\ \A op, a, b : UnsupportedEntry(op, a, b).kind = "blocker"
BY DEF WrapperEntry, ExtractorEntry, UnsupportedEntry, Entry

\* A signature with a domain in it.
At(sig, T) == <<Rendered(sig[1], T), Rendered(sig[2], T)>>

ColumnAnswers(p, op, sig) == IsSupported(p[2], op) /\ ~BlockerOnly(op, sig)

LEMMA ColumnEntries ==
  ASSUME NEW p \in Scalars, NEW e
  PROVE  e \in RenderFunctionsFile(p[1], p[2]).functions <=>
           \/ \E t \in ExtractorTerms(p[2].terms) : e = ExtractorEntry(Column(p), t)
           \/ \E op \in OperatorSymbols : \E sig \in Signatures(op) :
                IF ColumnAnswers(p, op, sig)
                THEN \E t \in TermForOperator(p[2].terms, op) :
                       e = WrapperEntry(Column(p), op, At(sig, Column(p))[1], At(sig, Column(p))[2], t)
                ELSE e = UnsupportedEntry(op, At(sig, Column(p))[1], At(sig, Column(p))[2])
<1> DEFINE dom == DomainName(p[1], p[2])
           EntryOf(op, sig) ==
             LET a == Rendered(sig[1], dom)
                 b == Rendered(sig[2], dom)
             IN IF IsSupported(p[2], op) /\ ~BlockerOnly(op, sig)
                  THEN {WrapperEntry(dom, op, a, b, t) : t \in TermForOperator(p[2].terms, op)}
                  ELSE {UnsupportedEntry(op, a, b)}
           extractors == {ExtractorEntry(dom, t) : t \in ExtractorTerms(p[2].terms)}
<1>1. RenderFunctionsFile(p[1], p[2]).functions =
        extractors \union UNION {EntryOf(r[1], r[2]) : r \in RowsOf(OperatorSymbols)}
  BY DEF RenderFunctionsFile, FunctionsFile, File
<1>2. dom = Column(p)
  BY DEF Column
<1>3. ASSUME NEW op, NEW sig
      PROVE  e \in EntryOf(op, sig) <=>
               IF ColumnAnswers(p, op, sig)
               THEN \E t \in TermForOperator(p[2].terms, op) :
                      e = WrapperEntry(Column(p), op, At(sig, Column(p))[1], At(sig, Column(p))[2], t)
               ELSE e = UnsupportedEntry(op, At(sig, Column(p))[1], At(sig, Column(p))[2])
  BY <1>2 DEF ColumnAnswers, At
<1>4. \A r : r \in RowsOf(OperatorSymbols) <=> \E op \in OperatorSymbols : \E sig \in Signatures(op) : r = <<op, sig>>
  BY DEF RowsOf
<1>5. e \in extractors <=> \E t \in ExtractorTerms(p[2].terms) : e = ExtractorEntry(Column(p), t)
  BY <1>2
<1> HIDE DEF extractors, EntryOf, dom
<1>6. e \in UNION {EntryOf(r[1], r[2]) : r \in RowsOf(OperatorSymbols)} <=>
        \E op \in OperatorSymbols : \E sig \in Signatures(op) : e \in EntryOf(op, sig)
  <2>1. e \in UNION {EntryOf(r[1], r[2]) : r \in RowsOf(OperatorSymbols)} <=>
          \E r \in RowsOf(OperatorSymbols) : e \in EntryOf(r[1], r[2])
    OBVIOUS
  <2>2. ASSUME NEW op \in OperatorSymbols, NEW sig \in Signatures(op), e \in EntryOf(op, sig)
        PROVE  \E r \in RowsOf(OperatorSymbols) : e \in EntryOf(r[1], r[2])
    <3>1. <<op, sig>> \in RowsOf(OperatorSymbols) /\ <<op, sig>>[1] = op /\ <<op, sig>>[2] = sig
      BY <1>4
    <3> QED  BY <2>2, <3>1
  <2>3. ASSUME NEW r \in RowsOf(OperatorSymbols), e \in EntryOf(r[1], r[2])
        PROVE  \E op \in OperatorSymbols : \E sig \in Signatures(op) : e \in EntryOf(op, sig)
    <3>1. PICK op \in OperatorSymbols : \E sig \in Signatures(op) : r = <<op, sig>>
      BY <1>4
    <3>2. r[1] = op /\ r[2] \in Signatures(op)
      BY <3>1
    <3> QED  BY <2>3, <3>2
  <2> QED  BY <2>1, <2>2, <2>3
<1> QED  BY <1>1, <1>3, <1>5, <1>6

LEMMA OperandEntries ==
  ASSUME NEW p \in Scalars, NEW e
  PROVE  e \in RenderQueryFunctionsFile(p[1], p[2]).functions <=>
           \/ \E t \in ExtractorTerms(p[2].terms) : e = ExtractorEntry(Operand(p), t)
           \/ \E op \in OperatorsForTerms(p[2].terms) : \E s \in OperandPairs(p) :
                \E t \in TermForOperator(p[2].terms, op) : e = WrapperEntry(Operand(p), op, s[1], s[2], t)
<1> DEFINE query == QueryDomainName(p[1], p[2])
           Wraps(op) == {WrapperEntry(query, op, s[1], s[2], t) :
                           s \in BothWays(DomainName(p[1], p[2]), query), t \in TermForOperator(p[2].terms, op)}
           extractors == {ExtractorEntry(query, t) : t \in ExtractorTerms(p[2].terms)}
<1>1. RenderQueryFunctionsFile(p[1], p[2]).functions =
        extractors \union UNION {Wraps(op) : op \in OperatorsForTerms(p[2].terms)}
  BY DEF RenderQueryFunctionsFile, FunctionsFile, File
<1>2. query = Operand(p) /\ BothWays(DomainName(p[1], p[2]), query) = OperandPairs(p)
  BY DEF Operand, OperandPairs, Column
<1>3. ASSUME NEW op
      PROVE  e \in Wraps(op) <=> \E s \in OperandPairs(p) : \E t \in TermForOperator(p[2].terms, op) :
                                    e = WrapperEntry(Operand(p), op, s[1], s[2], t)
  BY <1>2
<1>4. e \in extractors <=> \E t \in ExtractorTerms(p[2].terms) : e = ExtractorEntry(Operand(p), t)
  BY <1>2
<1> HIDE DEF extractors, Wraps
<1> QED  BY <1>1, <1>3, <1>4

\* The seam's rows, operand by operand.
LEMMA SeamRows ==
  ASSUME NEW f \in CatalogFamilies, NEW r
  PROVE  r \in CrossRows(f) <=>
           \E p \in Queryables : \E op \in Comparisons : \E s \in SeamPairs(p) :
             /\ p[1] = f /\ JsonEntryTerm \in ToSet(p[2].terms)
             /\ r = <<op, s, op \in OrderOps /\ p[2] \in CrossDomains(f)>>
<1>1. CrossOps = OrderOps /\ CrossOps \union CrossBlockedOps = Comparisons
  BY DEF CrossOps, CrossBlockedOps, TermOperators, JsonEntryTerm, OrderOps, EqualityOps,
     Comparisons
<1>2. CrossDomains(f) \union CrossBlockedDomains(f) = CrossCandidates(f)
  BY DEF CrossDomains, CrossBlockedDomains
<1>3. r \in CrossRows(f) <=>
        \E d \in CrossCandidates(f) : \E op \in Comparisons : \E s \in BothWays(JsonEntryType, QueryDomainName(f, d)) :
          r = <<op, s, op \in OrderOps /\ d \in CrossDomains(f)>>
  BY <1>1, <1>2 DEF CrossRows
<1>4. ASSUME NEW d \in CrossCandidates(f)
      PROVE  /\ <<f, d>> \in Queryables /\ JsonEntryTerm \in ToSet(d.terms)
             /\ BothWays(JsonEntryType, QueryDomainName(f, d)) = SeamPairs(<<f, d>>)
  <2>1. d \in DomainsOf(f) /\ JsonEntryTerm \in ToSet(d.terms)
    BY DEF CrossCandidates
  <2>2. d.terms # <<>>
    BY <2>1, TupleElements
  <2> QED  BY <2>1, <2>2, WithTerms DEF SeamPairs, Operand
<1>5. ASSUME NEW p \in Queryables, p[1] = f, JsonEntryTerm \in ToSet(p[2].terms)
      PROVE  p[2] \in CrossCandidates(f) /\ BothWays(JsonEntryType, QueryDomainName(f, p[2])) = SeamPairs(p)
  <2>1. p[2] \in DomainsOf(f)
    BY <1>5, QueryablesTyped DEF Queryable
  <2> QED  BY <1>5, <2>1 DEF CrossCandidates, SeamPairs, Operand
<1>6. ASSUME r \in CrossRows(f)
      PROVE  \E p \in Queryables : \E op \in Comparisons : \E s \in SeamPairs(p) :
               /\ p[1] = f /\ JsonEntryTerm \in ToSet(p[2].terms)
               /\ r = <<op, s, op \in OrderOps /\ p[2] \in CrossDomains(f)>>
  <2>1. PICK d \in CrossCandidates(f) : \E op \in Comparisons :
               \E s \in BothWays(JsonEntryType, QueryDomainName(f, d)) :
                 r = <<op, s, op \in OrderOps /\ d \in CrossDomains(f)>>
    BY <1>3, <1>6
  <2> DEFINE p == <<f, d>>
  <2>2. p \in Queryables /\ p[1] = f /\ p[2] = d /\ JsonEntryTerm \in ToSet(p[2].terms)
    BY <1>4
  <2>3. BothWays(JsonEntryType, QueryDomainName(f, d)) = SeamPairs(p)
    BY <1>4
  <2> HIDE DEF p
  <2> QED  BY <2>1, <2>2, <2>3
<1> QED  BY <1>3, <1>5, <1>6

LEMMA SearchedSymbols ==
  ASSUME NEW p \in Scalars, NEW op \in OperatorsForTerms(p[2].terms)
  PROVE  op \in SearchOps /\ op \in OperatorSymbols
<1>1. PICK t \in Terms : op \in TermOperators[t]
  BY ScalarsTyped DEF OperatorsForTerms
<1>2. op \in SearchOps
  BY <1>1 DEF TermOperators, Terms, SearchOps
<1> QED  BY <1>2 DEF SearchOps, OperatorSymbols, Comparisons

\* A pair is a pair of its two sides.
LEMMA PairsTyped ==
  ASSUME NEW p
  PROVE  \A s \in ColumnPairs(p) \union OperandPairs(p) \union SeamPairs(p) : s = <<s[1], s[2]>>
BY DEF ColumnPairs, OperandPairs, SeamPairs, BothWays

LEMMA SymmetricSlots ==
  ASSUME NEW p, NEW op \in SearchOps
  PROVE  /\ \A sig \in Signatures(op) : ~BlockerOnly(op, sig) => At(sig, Column(p)) \in ColumnPairs(p)
         /\ \A s \in ColumnPairs(p) : \E sig \in Signatures(op) : ~BlockerOnly(op, sig) /\ s = At(sig, Column(p))
<1>1. /\ op # "@@" => Signatures(op) = SymmetricSignatures
      /\ op = "@@" => Signatures(op) = SymmetricSignatures \union JsonpathSignatures
  BY DEF SearchOps, Signatures, Comparisons, EqualityOps, OrderOps
<1>2. /\ At(<<"Domain", "jsonb">>, Column(p)) = <<Column(p), Jsonb>>
      /\ At(<<"jsonb", "Domain">>, Column(p)) = <<Jsonb, Column(p)>>
      /\ At(<<"Domain", "Domain">>, Column(p)) = <<Column(p), Column(p)>>
  BY DEF At, Rendered, Jsonb
<1>3. /\ \A sig \in SymmetricSignatures : At(sig, Column(p)) \in ColumnPairs(p) /\ ~BlockerOnly(op, sig)
      /\ \A s \in ColumnPairs(p) : \E sig \in SymmetricSignatures : s = At(sig, Column(p))
  BY <1>2 DEF SymmetricSignatures, ColumnPairs, BlockerOnly
<1>4. op = "@@" => \A sig \in JsonpathSignatures : BlockerOnly(op, sig)
  BY DEF JsonpathSignatures, BlockerOnly
<1> QED  BY <1>1, <1>3, <1>4

LEMMA SeamFunctions ==
  ASSUME NEW f \in CatalogFamilies, NEW e
  PROVE  e \in RenderCrossFunctions(f).functions <=>
           \E r \in CrossRows(f) :
             e = IF r[3] THEN WrapperEntry(JsonEntryType, r[1], r[2][1], r[2][2], JsonEntryTerm)
                 ELSE UnsupportedEntry(r[1], r[2][1], r[2][2])
BY DEF RenderCrossFunctions, FunctionsFile, File

LEMMA HandWrittenFunctions ==
  /\ \A t : \A e \in TermFunctionsFile(t).functions : e.kind = "constructor"
  /\ \A e \in JsonFunctionsFile.functions : e.kind = "extractor"
  /\ \A e \in JsonBlockersFile.functions \union OreOperatorsFile.functions : e.kind # "wrapper"
  /\ \A e \in JsonOperatorsFile.functions :
       e.kind = "wrapper" =>
         \E op \in OrderOps : e = WrapperEntry(JsonEntryType, op, JsonEntryType, JsonEntryType, JsonEntryTerm)
  /\ \A op \in OrderOps :
       WrapperEntry(JsonEntryType, op, JsonEntryType, JsonEntryType, JsonEntryTerm) \in JsonOperatorsFile.functions
<1>1. ASSUME NEW t, NEW e \in TermFunctionsFile(t).functions PROVE e.kind = "constructor"
  <2>1. e \in {Entry("constructor", Fn("eql_v3_internal", Ctor[t], <<Jsonb>>), "", Jsonb, t, {Type(TermType(t))})}
    BY DEF TermFunctionsFile, FunctionsFile, File
  <2>2. \A fn, calls : Entry("constructor", fn, "", Jsonb, t, calls).kind = "constructor"
    BY DEF Entry
  <2> QED  BY <2>1, <2>2
<1>2. ASSUME NEW e \in JsonFunctionsFile.functions PROVE e.kind = "extractor"
  <2>1. e = ExtractorEntry(JsonEntryType, JsonEntryTerm)
    BY DEF JsonFunctionsFile, FunctionsFile, File
  <2> QED  BY <2>1, EntryFields
<1>3. ASSUME NEW e \in JsonBlockersFile.functions PROVE e.kind # "wrapper"
  <2>1. PICK r \in JsonBlocked : e = Entry("blocker", BlockedFn(r), r[1], JsonSearchType, "", {})
    BY DEF JsonBlockersFile, File
  <2> QED  BY <2>1 DEF Entry
<1>4. ASSUME NEW e \in OreOperatorsFile.functions PROVE e.kind # "wrapper"
  BY DEF OreOperatorsFile, File, Entry
<1> DEFINE documents == {Entry("document", DocumentFn(r), r[1], JsonSearchType, "", {}) : r \in JsonAnswered}
           wrappers == {WrapperEntry(JsonEntryType, op, JsonEntryType, JsonEntryType, JsonEntryTerm) : op \in OrderOps}
           refusals == {EntryRefusal(op) : op \in EqualityOps}
<1>5. JsonOperatorsFile.functions = documents \union wrappers \union refusals
  BY DEF JsonOperatorsFile, File
<1>6. ASSUME NEW e \in documents PROVE e.kind # "wrapper"
  <2>1. PICK r \in JsonAnswered : e = Entry("document", DocumentFn(r), r[1], JsonSearchType, "", {})
    OBVIOUS
  <2> QED  BY <2>1 DEF Entry
<1>7. ASSUME NEW e \in refusals PROVE e.kind # "wrapper"
  <2>1. PICK op \in EqualityOps : e = EntryRefusal(op)
    OBVIOUS
  <2> QED  BY <2>1 DEF EntryRefusal, Entry
<1>8. \A e : e \in wrappers <=>
        \E op \in OrderOps : e = WrapperEntry(JsonEntryType, op, JsonEntryType, JsonEntryType, JsonEntryTerm)
  OBVIOUS
<1> HIDE DEF documents, wrappers, refusals
<1> QED  BY <1>1, <1>2, <1>3, <1>4, <1>5, <1>6, <1>7, <1>8

LEMMA ColumnWrappers ==
  ASSUME NEW p \in Scalars
  PROVE  /\ \A e \in RenderFunctionsFile(p[1], p[2]).functions :
              e.kind = "wrapper" =>
                \E op, s, t : WrappedColumn(p, op, s, t) /\ e = WrapperEntry(Column(p), op, s[1], s[2], t)
         /\ \A op, s, t : WrappedColumn(p, op, s, t) =>
              WrapperEntry(Column(p), op, s[1], s[2], t) \in RenderFunctionsFile(p[1], p[2]).functions
<1>1. ASSUME NEW e \in RenderFunctionsFile(p[1], p[2]).functions, e.kind = "wrapper"
      PROVE  \E op, s, t : WrappedColumn(p, op, s, t) /\ e = WrapperEntry(Column(p), op, s[1], s[2], t)
  <2>1. \A t : e # ExtractorEntry(Column(p), t)
    BY <1>1, EntryFields
  <2>2. PICK op \in OperatorSymbols : \E sig \in Signatures(op) :
          IF ColumnAnswers(p, op, sig)
          THEN \E t \in TermForOperator(p[2].terms, op) :
                 e = WrapperEntry(Column(p), op, At(sig, Column(p))[1], At(sig, Column(p))[2], t)
          ELSE e = UnsupportedEntry(op, At(sig, Column(p))[1], At(sig, Column(p))[2])
    BY <2>1, ColumnEntries
  <2>3. PICK sig \in Signatures(op) :
          IF ColumnAnswers(p, op, sig)
          THEN \E t \in TermForOperator(p[2].terms, op) :
                 e = WrapperEntry(Column(p), op, At(sig, Column(p))[1], At(sig, Column(p))[2], t)
          ELSE e = UnsupportedEntry(op, At(sig, Column(p))[1], At(sig, Column(p))[2])
    BY <2>2
  <2>4. ColumnAnswers(p, op, sig)
    BY <1>1, <2>3, EntryFields
  <2>5. PICK t \in TermForOperator(p[2].terms, op) :
          e = WrapperEntry(Column(p), op, At(sig, Column(p))[1], At(sig, Column(p))[2], t)
    BY <2>3, <2>4
  <2>6. op \in OperatorsForTerms(p[2].terms) /\ ~BlockerOnly(op, sig)
    BY <2>4 DEF ColumnAnswers, IsSupported
  <2>7. At(sig, Column(p)) \in ColumnPairs(p)
    BY <2>6, SearchedSymbols, SymmetricSlots
  <2>8. WrappedColumn(p, op, At(sig, Column(p)), t)
    BY <2>6, <2>7 DEF WrappedColumn
  <2> QED  BY <2>5, <2>8
<1>2. ASSUME NEW op, NEW s, NEW t, WrappedColumn(p, op, s, t)
      PROVE  WrapperEntry(Column(p), op, s[1], s[2], t) \in RenderFunctionsFile(p[1], p[2]).functions
  <2>1. op \in OperatorsForTerms(p[2].terms) /\ t \in TermForOperator(p[2].terms, op) /\ s \in ColumnPairs(p)
    BY <1>2 DEF WrappedColumn
  <2>2. op \in SearchOps /\ op \in OperatorSymbols
    BY <2>1, SearchedSymbols
  <2>3. PICK sig \in Signatures(op) : ~BlockerOnly(op, sig) /\ s = At(sig, Column(p))
    BY <2>1, <2>2, SymmetricSlots
  <2>4. ColumnAnswers(p, op, sig)
    BY <2>1, <2>3 DEF ColumnAnswers, IsSupported
  <2> DEFINE e == WrapperEntry(Column(p), op, s[1], s[2], t)
  <2>5. IF ColumnAnswers(p, op, sig)
        THEN \E u \in TermForOperator(p[2].terms, op) :
               e = WrapperEntry(Column(p), op, At(sig, Column(p))[1], At(sig, Column(p))[2], u)
        ELSE e = UnsupportedEntry(op, At(sig, Column(p))[1], At(sig, Column(p))[2])
    BY <2>1, <2>3, <2>4
  <2> HIDE DEF e
  <2>6. e \in RenderFunctionsFile(p[1], p[2]).functions
    BY <2>2, <2>5, ColumnEntries
  <2> QED  BY <2>6 DEF e
<1> QED  BY <1>1, <1>2

LEMMA OperandWrappers ==
  ASSUME NEW p \in Queryables
  PROVE  /\ \A e \in RenderQueryFunctionsFile(p[1], p[2]).functions :
              e.kind = "wrapper" =>
                \E op, s, t : WrappedOperand(p, op, s, t) /\ e = WrapperEntry(Operand(p), op, s[1], s[2], t)
         /\ \A op, s, t : WrappedOperand(p, op, s, t) =>
              WrapperEntry(Operand(p), op, s[1], s[2], t) \in RenderQueryFunctionsFile(p[1], p[2]).functions
<1>1. p \in Scalars
  BY QueryablesTyped
<1>2. ASSUME NEW e \in RenderQueryFunctionsFile(p[1], p[2]).functions, e.kind = "wrapper"
      PROVE  \E op, s, t : WrappedOperand(p, op, s, t) /\ e = WrapperEntry(Operand(p), op, s[1], s[2], t)
  <2>1. \A t : e # ExtractorEntry(Operand(p), t)
    BY <1>2, EntryFields
  <2> DEFINE wraps == \E op \in OperatorsForTerms(p[2].terms) : \E s \in OperandPairs(p) :
                        \E t \in TermForOperator(p[2].terms, op) : e = WrapperEntry(Operand(p), op, s[1], s[2], t)
  <2>2. (\E t \in ExtractorTerms(p[2].terms) : e = ExtractorEntry(Operand(p), t)) \/ wraps
    BY <1>1, <1>2, OperandEntries
  <2>3. wraps
    BY <2>1, <2>2
  <2>4. PICK op \in OperatorsForTerms(p[2].terms), s \in OperandPairs(p) :
          \E t \in TermForOperator(p[2].terms, op) : e = WrapperEntry(Operand(p), op, s[1], s[2], t)
    BY <2>3
  <2> QED  BY <2>4 DEF WrappedOperand
<1>3. ASSUME NEW op, NEW s, NEW t, WrappedOperand(p, op, s, t)
      PROVE  WrapperEntry(Operand(p), op, s[1], s[2], t) \in RenderQueryFunctionsFile(p[1], p[2]).functions
  <2> DEFINE e == WrapperEntry(Operand(p), op, s[1], s[2], t)
  <2>1. \E o \in OperatorsForTerms(p[2].terms) : \E z \in OperandPairs(p) :
          \E u \in TermForOperator(p[2].terms, o) : e = WrapperEntry(Operand(p), o, z[1], z[2], u)
    BY <1>3 DEF WrappedOperand
  <2> HIDE DEF e
  <2>2. e \in RenderQueryFunctionsFile(p[1], p[2]).functions
    BY <1>1, <2>1, OperandEntries
  <2> QED  BY <2>2 DEF e
<1> QED  BY <1>2, <1>3

LEMMA SeamWrappers ==
  ASSUME NEW f \in CatalogFamilies
  PROVE  /\ \A e \in RenderCrossFunctions(f).functions :
              e.kind = "wrapper" =>
                \E p \in Queryables : \E op, s :
                  WrappedSeam(p, op, s) /\ e = WrapperEntry(JsonEntryType, op, s[1], s[2], JsonEntryTerm)
         /\ \A p \in Queryables : \A op, s : p[1] = f /\ WrappedSeam(p, op, s) =>
              WrapperEntry(JsonEntryType, op, s[1], s[2], JsonEntryTerm) \in RenderCrossFunctions(f).functions
<1>1. ASSUME NEW e \in RenderCrossFunctions(f).functions, e.kind = "wrapper"
      PROVE  \E p \in Queryables : \E op, s :
               WrappedSeam(p, op, s) /\ e = WrapperEntry(JsonEntryType, op, s[1], s[2], JsonEntryTerm)
  <2>1. PICK r \in CrossRows(f) :
          e = IF r[3] THEN WrapperEntry(JsonEntryType, r[1], r[2][1], r[2][2], JsonEntryTerm)
              ELSE UnsupportedEntry(r[1], r[2][1], r[2][2])
    BY SeamFunctions
  <2>2. PICK p \in Queryables, op \in Comparisons : \E s \in SeamPairs(p) :
          p[1] = f /\ r = <<op, s, op \in OrderOps /\ p[2] \in CrossDomains(f)>>
    BY SeamRows
  <2>3. PICK s \in SeamPairs(p) : p[1] = f /\ r = <<op, s, op \in OrderOps /\ p[2] \in CrossDomains(f)>>
    BY <2>2
  <2>4. r[1] = op /\ r[2] = s /\ (r[3] <=> op \in OrderOps /\ p[2] \in CrossDomains(f))
    BY <2>3
  <2>5. r[3]
    BY <1>1, <2>1, EntryFields
  <2>6. e = WrapperEntry(JsonEntryType, op, s[1], s[2], JsonEntryTerm)
    BY <2>1, <2>4, <2>5
  <2>7. WrappedSeam(p, op, s)
    BY <2>3, <2>4, <2>5 DEF WrappedSeam
  <2> QED  BY <2>6, <2>7
<1>2. ASSUME NEW p \in Queryables, NEW op, NEW s, p[1] = f, WrappedSeam(p, op, s)
      PROVE  WrapperEntry(JsonEntryType, op, s[1], s[2], JsonEntryTerm) \in RenderCrossFunctions(f).functions
  <2>1. op \in OrderOps /\ op \in Comparisons /\ p[2] \in CrossDomains(f) /\ s \in SeamPairs(p)
    BY <1>2 DEF WrappedSeam, Comparisons
  <2>2. JsonEntryTerm \in ToSet(p[2].terms)
    BY <2>1 DEF CrossDomains, CrossCandidates
  <2> DEFINE r == <<op, s, op \in OrderOps /\ p[2] \in CrossDomains(f)>>
  <2>3. r \in CrossRows(f)
    BY <1>2, <2>1, <2>2, SeamRows
  <2>4. r[1] = op /\ r[2] = s /\ r[3]
    BY <2>1
  <2> DEFINE e == WrapperEntry(JsonEntryType, op, s[1], s[2], JsonEntryTerm)
  <2> HIDE DEF r
  <2>5. e = IF r[3] THEN WrapperEntry(JsonEntryType, r[1], r[2][1], r[2][2], JsonEntryTerm)
            ELSE UnsupportedEntry(r[1], r[2][1], r[2][2])
    BY <2>4
  <2> HIDE DEF e
  <2>6. e \in RenderCrossFunctions(f).functions
    BY <2>3, <2>5, SeamFunctions
  <2> QED  BY <2>6 DEF e
<1> QED  BY <1>1, <1>2

LEMMA WrappersListed ==
  ASSUME NEW e \in Entries, e.kind = "wrapper"
  PROVE  \E op, s, t, dom : Wrapped(op, s, t, dom) /\ e = WrapperEntry(dom, op, s[1], s[2], t)
<1>1. CASE \E c \in FunctionsFiles : e \in c.functions
  <2>1. PICK c \in FunctionsFiles : e \in c.functions
    BY <1>1
  <2>2. CASE \E p \in Scalars : c = RenderFunctionsFile(p[1], p[2])
    <3>1. PICK p \in Scalars : c = RenderFunctionsFile(p[1], p[2])
      BY <2>2
    <3>2. PICK op, s, t : WrappedColumn(p, op, s, t) /\ e = WrapperEntry(Column(p), op, s[1], s[2], t)
      BY <2>1, <3>1, ColumnWrappers
    <3> QED  BY <3>2 DEF Wrapped
  <2>3. CASE \E p \in Queryables : c = RenderQueryFunctionsFile(p[1], p[2])
    <3>1. PICK p \in Queryables : c = RenderQueryFunctionsFile(p[1], p[2])
      BY <2>3
    <3>2. PICK op, s, t : WrappedOperand(p, op, s, t) /\ e = WrapperEntry(Operand(p), op, s[1], s[2], t)
      BY <2>1, <3>1, OperandWrappers
    <3>3. p \in Scalars
      BY QueryablesTyped
    <3> QED  BY <3>2, <3>3 DEF Wrapped
  <2>4. CASE \E f \in Seamed : c = RenderCrossFunctions(f)
    <3>1. PICK f \in Seamed : c = RenderCrossFunctions(f)
      BY <2>4
    <3>2. f \in CatalogFamilies
      BY DEF Seamed
    <3>3. PICK p \in Queryables : \E op, s :
            WrappedSeam(p, op, s) /\ e = WrapperEntry(JsonEntryType, op, s[1], s[2], JsonEntryTerm)
      BY <2>1, <3>1, <3>2, SeamWrappers
    <3>4. p \in Scalars
      BY QueryablesTyped
    <3> QED  BY <3>3, <3>4 DEF Wrapped
  <2>5. CASE \E t \in Terms : c = TermFunctionsFile(t)
    BY <2>1, <2>5, HandWrittenFunctions
  <2>6. CASE c = JsonFunctionsFile
    BY <2>1, <2>6, HandWrittenFunctions
  <2> QED  BY <2>1, <2>2, <2>3, <2>4, <2>5, <2>6 DEF FunctionsFiles
<1>2. CASE \E c \in BothFiles : e \in c.functions
  <2>1. e \in JsonOperatorsFile.functions
    BY <1>2, HandWrittenFunctions DEF BothFiles
  <2>2. PICK op \in OrderOps : e = WrapperEntry(JsonEntryType, op, JsonEntryType, JsonEntryType, JsonEntryTerm)
    BY <2>1, HandWrittenFunctions
  <2> DEFINE s == <<JsonEntryType, JsonEntryType>>
  <2>3. WrappedEntry(op, s) /\ s[1] = JsonEntryType /\ s[2] = JsonEntryType
    BY DEF WrappedEntry
  <2> HIDE DEF s
  <2> QED  BY <2>2, <2>3 DEF Wrapped
<1> QED  BY <1>1, <1>2, DeclarationsListed

LEMMA WrappedInstalled ==
  ASSUME NEW op, NEW s, NEW t, NEW dom, Wrapped(op, s, t, dom)
  PROVE  WrapperEntry(dom, op, s[1], s[2], t) \in Entries
<1> DEFINE e == WrapperEntry(dom, op, s[1], s[2], t)
<1>1. \A c \in FunctionsFiles \union BothFiles : e \in c.functions => e \in Entries
  BY DeclarationsListed
<1>2. CASE \E p \in Scalars : WrappedColumn(p, op, s, t) /\ dom = Column(p)
  <2>1. PICK p \in Scalars : WrappedColumn(p, op, s, t) /\ dom = Column(p)
    BY <1>2
  <2>2. e \in RenderFunctionsFile(p[1], p[2]).functions
    BY <2>1, ColumnWrappers
  <2>3. RenderFunctionsFile(p[1], p[2]) \in FunctionsFiles
    BY DEF FunctionsFiles
  <2> QED  BY <1>1, <2>2, <2>3
<1>3. CASE \E p \in Scalars : WrappedOperand(p, op, s, t) /\ dom = Operand(p)
  <2>1. PICK p \in Scalars : WrappedOperand(p, op, s, t) /\ dom = Operand(p)
    BY <1>3
  <2>2. p \in Queryables
    BY <2>1 DEF WrappedOperand
  <2>3. e \in RenderQueryFunctionsFile(p[1], p[2]).functions
    BY <2>1, <2>2, OperandWrappers
  <2>4. RenderQueryFunctionsFile(p[1], p[2]) \in FunctionsFiles
    BY <2>2 DEF FunctionsFiles
  <2> QED  BY <1>1, <2>3, <2>4
<1>4. CASE \E p \in Scalars : WrappedSeam(p, op, s) /\ t = JsonEntryTerm /\ dom = JsonEntryType
  <2>1. PICK p \in Scalars : WrappedSeam(p, op, s) /\ t = JsonEntryTerm /\ dom = JsonEntryType
    BY <1>4
  <2>2. p \in Queryables /\ p[2] \in CrossDomains(p[1])
    BY <2>1 DEF WrappedSeam
  <2>3. p[1] \in CatalogFamilies /\ p[1] \in Seamed
    BY <2>2, QueryablesTyped DEF Seamed, CrossDomains
  <2>4. e \in RenderCrossFunctions(p[1]).functions
    BY <2>1, <2>2, <2>3, SeamWrappers
  <2>5. RenderCrossFunctions(p[1]) \in FunctionsFiles
    BY <2>3 DEF FunctionsFiles
  <2> QED  BY <1>1, <2>4, <2>5
<1>5. CASE WrappedEntry(op, s) /\ t = JsonEntryTerm /\ dom = JsonEntryType
  <2>1. op \in OrderOps /\ s[1] = JsonEntryType /\ s[2] = JsonEntryType
    BY <1>5 DEF WrappedEntry
  <2>2. e \in JsonOperatorsFile.functions
    BY <1>5, <2>1, HandWrittenFunctions
  <2>3. JsonOperatorsFile \in BothFiles
    BY DEF BothFiles
  <2> QED  BY <1>1, <2>2, <2>3
<1> QED  BY <1>2, <1>3, <1>4, <1>5 DEF Wrapped

\* The term of a wrapper has its operator, and is exact for the equality of texts.
LEMMA WrappedTerm ==
  ASSUME NEW op, NEW s, NEW t, NEW dom, Wrapped(op, s, t, dom)
  PROVE  /\ s = <<s[1], s[2]>> /\ op \in SearchOps
         /\ t \in Terms /\ op \in TermOperators[t]
         /\ FamilyOf(s) = "text" /\ op \in EqualityOps => t = "Hm"
<1>1. /\ Jsonb \in BaseTypes /\ Jsonb # JsonEntryType /\ JsonEntryType \in HandWrittenTypes
      /\ JsonEntryType[3] = "json"
  BY HandWrittenNames DEF BaseTypes, HandWrittenTypes
<1>2. ASSUME NEW p \in Scalars, op \in OperatorsForTerms(p[2].terms), t \in TermForOperator(p[2].terms, op),
             s = <<s[1], s[2]>>, FamilyOf(s) = p[1]
      PROVE  /\ s = <<s[1], s[2]>> /\ op \in SearchOps
             /\ t \in Terms /\ op \in TermOperators[t]
             /\ FamilyOf(s) = "text" /\ op \in EqualityOps => t = "Hm"
  BY <1>2, SearchedSymbols, TermFound
<1>3. CASE \E p \in Scalars : WrappedColumn(p, op, s, t)
  <2>1. PICK p \in Scalars : WrappedColumn(p, op, s, t)
    BY <1>3
  <2>2. Column(p) \notin BaseTypes /\ Column(p) # JsonEntryType /\ Column(p)[3] = p[1]
    BY <1>1, ColumnApart, ColumnName
  <2>3. s \in ColumnPairs(p)
    BY <2>1 DEF WrappedColumn
  <2>4. FamilyOf(s) = p[1] /\ s = <<s[1], s[2]>>
    BY <1>1, <2>2, <2>3 DEF ColumnPairs, FamilyOf
  <2> QED  BY <1>2, <2>1, <2>4 DEF WrappedColumn
<1>4. CASE \E p \in Scalars : WrappedOperand(p, op, s, t)
  <2>1. PICK p \in Scalars : WrappedOperand(p, op, s, t)
    BY <1>4
  <2>2. /\ Column(p) \notin BaseTypes /\ Column(p) # JsonEntryType /\ Column(p)[3] = p[1]
        /\ Operand(p) \notin BaseTypes /\ Operand(p) # JsonEntryType /\ Operand(p)[3] = p[1]
    BY <1>1, <2>1, ColumnApart, ColumnName, OperandApart, OperandName DEF WrappedOperand
  <2>3. s \in OperandPairs(p)
    BY <2>1 DEF WrappedOperand
  <2>4. FamilyOf(s) = p[1] /\ s = <<s[1], s[2]>>
    BY <1>1, <2>2, <2>3 DEF OperandPairs, BothWays, FamilyOf
  <2> QED  BY <1>2, <2>1, <2>4 DEF WrappedOperand
<1>5. CASE op \in OrderOps /\ t = JsonEntryTerm /\ s = <<s[1], s[2]>>
  <2>1. op \in SearchOps /\ op \notin EqualityOps /\ t \in Terms /\ op \in TermOperators[t]
    BY <1>5 DEF OrderOps, EqualityOps, SearchOps, JsonEntryTerm, Terms, TermOperators
  <2> QED  BY <1>5, <2>1
<1>6. CASE \E p \in Scalars : WrappedSeam(p, op, s) /\ t = JsonEntryTerm
  BY <1>5, <1>6, PairsTyped DEF WrappedSeam
<1>7. CASE WrappedEntry(op, s) /\ t = JsonEntryTerm
  BY <1>5, <1>7 DEF WrappedEntry
<1> QED  BY <1>3, <1>4, <1>6, <1>7 DEF Wrapped

(***************************************************************************)
(* The operators: which one has a wrapper behind it.                       *)
(***************************************************************************)
Answers(op, s) == \E t, dom : Wrapped(op, s, t, dom)

Sides(s) == {s[1], s[2]}

\* The operands that no operator is answered at, and those where only some are.
LEMMA AnswersOnly ==
  ASSUME NEW op, NEW s, Answers(op, s)
  PROVE  /\ JsonSearchType \notin Sides(s)
         /\ \A t \in Terms : TermType(t) \notin Sides(s)
         /\ \A T \in BaseTypes \ {Jsonb} : T \notin Sides(s)
         /\ s = <<JsonEntryType, JsonEntryType>> => op \in OrderOps
         /\ \A p \in Scalars : Column(p) \in Sides(s) => op \in OperatorsForTerms(p[2].terms)
         /\ \A p \in Queryables : s \in SeamPairs(p) => op \in OrderOps /\ p[2] \in CrossDomains(p[1])
<1>1. /\ Jsonb \in BaseTypes /\ JsonEntryType \notin BaseTypes /\ JsonSearchType \notin BaseTypes
      /\ \A t \in Terms : TermType(t) \notin BaseTypes
      /\ JsonEntryType # JsonSearchType
      /\ \A t \in Terms : JsonEntryType # TermType(t)
      /\ JsonEntryType \in HandWrittenTypes /\ JsonSearchType \in HandWrittenTypes
  BY HandWrittenNames DEF BaseTypes, HandWrittenTypes
<1>2. ASSUME NEW p \in Scalars
      PROVE  /\ Column(p) \notin BaseTypes \union {JsonEntryType, JsonSearchType}
             /\ \A t \in Terms : Column(p) # TermType(t)
             /\ \A q \in Scalars : Column(p) # Operand(q) /\ (Column(p) = Column(q) => p = q)
  <2>1. \A t \in Terms : Column(p) # TermType(t)
    BY ColumnApart DEF HandWrittenTypes
  <2> QED  BY <1>1, <2>1, ColumnApart, ColumnTells
<1>3. ASSUME NEW p \in Queryables
      PROVE  /\ p \in Scalars
             /\ Operand(p) \notin BaseTypes \union {JsonEntryType, JsonSearchType}
             /\ \A t \in Terms : Operand(p) # TermType(t)
             /\ \A q \in Queryables : Operand(p) = Operand(q) => p = q
  <2>1. p \in Scalars
    BY QueryablesTyped
  <2>2. \A t \in Terms : Operand(p) # TermType(t)
    BY OperandApart DEF HandWrittenTypes
  <2>3. \A q \in Queryables : q \in Scalars
    BY QueryablesTyped
  <2> QED  BY <1>1, <2>1, <2>2, <2>3, OperandApart, OperandTells
<1>4. PICK t, dom : Wrapped(op, s, t, dom)
  BY DEF Answers
<1>5. CASE \E p \in Scalars : WrappedColumn(p, op, s, t)
  <2>1. PICK p \in Scalars : WrappedColumn(p, op, s, t)
    BY <1>5
  <2>2. op \in OperatorsForTerms(p[2].terms) /\ s \in ColumnPairs(p)
    BY <2>1 DEF WrappedColumn
  <2>3. Sides(s) \subseteq {Column(p), Jsonb} /\ Column(p) \in Sides(s)
    BY <2>2 DEF ColumnPairs, Sides
  <2>4. \A q \in Queryables : s \notin SeamPairs(q)
    <3>1. \A q : s \in SeamPairs(q) => JsonEntryType \in Sides(s)
      BY DEF SeamPairs, BothWays, Sides
    <3> QED  BY <1>1, <1>2, <2>3, <3>1
  <2>5. s # <<JsonEntryType, JsonEntryType>>
    BY <1>2, <2>3 DEF Sides
  <2> QED  BY <1>1, <1>2, <2>2, <2>3, <2>4, <2>5
<1>6. CASE \E p \in Scalars : WrappedOperand(p, op, s, t)
  <2>1. PICK p \in Scalars : WrappedOperand(p, op, s, t)
    BY <1>6
  <2>2. op \in OperatorsForTerms(p[2].terms) /\ s \in OperandPairs(p) /\ p \in Queryables
    BY <2>1 DEF WrappedOperand
  <2>3. Sides(s) = {Column(p), Operand(p)}
    BY <2>2 DEF OperandPairs, BothWays, Sides
  <2>4. \A q \in Queryables : s \notin SeamPairs(q)
    <3>1. \A q : s \in SeamPairs(q) => JsonEntryType \in Sides(s)
      BY DEF SeamPairs, BothWays, Sides
    <3> QED  BY <1>2, <1>3, <2>2, <2>3, <3>1
  <2>5. s # <<JsonEntryType, JsonEntryType>>
    BY <1>2, <2>3 DEF Sides
  <2> QED  BY <1>1, <1>2, <1>3, <2>2, <2>3, <2>4, <2>5
<1>7. CASE \E p \in Scalars : WrappedSeam(p, op, s)
  <2>1. PICK p \in Scalars : WrappedSeam(p, op, s)
    BY <1>7
  <2>2. op \in OrderOps /\ s \in SeamPairs(p) /\ p \in Queryables /\ p[2] \in CrossDomains(p[1])
    BY <2>1 DEF WrappedSeam
  <2>3. Sides(s) = {JsonEntryType, Operand(p)}
    BY <2>2 DEF SeamPairs, BothWays, Sides
  <2>4. \A q \in Queryables : s \in SeamPairs(q) => q = p
    <3>1. \A q : s \in SeamPairs(q) => Operand(q) \in Sides(s)
      BY DEF SeamPairs, BothWays, Sides
    <3> QED  BY <1>3, <2>2, <2>3, <3>1
  <2> QED  BY <1>1, <1>2, <1>3, <2>2, <2>3, <2>4
<1>8. CASE WrappedEntry(op, s)
  <2>1. op \in OrderOps /\ Sides(s) = {JsonEntryType}
    BY <1>8 DEF WrappedEntry, Sides
  <2>2. \A q \in Queryables : s \notin SeamPairs(q)
    <3>1. \A q : s \in SeamPairs(q) => Operand(q) \in Sides(s)
      BY DEF SeamPairs, BothWays, Sides
    <3> QED  BY <1>3, <2>1, <3>1
  <2> QED  BY <1>1, <1>2, <2>1, <2>2
<1> QED  BY <1>4, <1>5, <1>6, <1>7, <1>8 DEF Wrapped

\* No two operators have wrappers of one name.
LEMMA WrapperNames ==
  /\ \A op, other \in SearchOps : WrapperFunctionName(op) = WrapperFunctionName(other) => op = other
  /\ \A op \in EqualityOps : FunctionName(op) = WrapperFunctionName(op) /\ op \in SearchOps
  /\ \A op \in SearchOps : WrapperFunctionName(op) \notin {"->", "->>", "@>", "<@"}
<1>1. /\ FunctionName("=") = "eq" /\ FunctionName("<>") = "neq" /\ FunctionName("<") = "lt"
      /\ FunctionName("<=") = "lte" /\ FunctionName(">") = "gt" /\ FunctionName(">=") = "gte"
  BY DEF FunctionName, BlockerNames, Comparisons, EqualityOps, OrderOps
<1>2. /\ WrapperFunctionName("=") = "eq" /\ WrapperFunctionName("<>") = "neq" /\ WrapperFunctionName("<") = "lt"
      /\ WrapperFunctionName("<=") = "lte" /\ WrapperFunctionName(">") = "gt"
      /\ WrapperFunctionName(">=") = "gte" /\ WrapperFunctionName("@@") = "matches"
  BY <1>1 DEF WrapperFunctionName
<1>3. SearchOps = {"=", "<>", "<", "<=", ">", ">=", "@@"} /\ EqualityOps = {"=", "<>"}
  BY DEF SearchOps, EqualityOps, OrderOps
<1> QED  BY <1>1, <1>2, <1>3

LEMMA OperatorFields ==
  /\ \A op, a, b : /\ OperatorEntry(op, a, b, TRUE).op = Op(op, a, b)
                   /\ OperatorEntry(op, a, b, TRUE).procedure = Fn("eql_v3", WrapperFunctionName(op), <<a, b>>)
                   /\ OperatorEntry(op, a, b, TRUE).commutator = Commutator(op)
                   /\ OperatorEntry(op, a, b, TRUE).negator = Negator(op)
  /\ \A op, a, b : /\ OperatorEntry(op, a, b, FALSE).op = Op(op, a, b)
                   /\ OperatorEntry(op, a, b, FALSE).procedure.schema = "eql_v3_internal"
  /\ \A r, fn : DeclareJson(r, fn).op = Op(r[1], r[2], r[3]) /\ DeclareJson(r, fn).procedure = fn
  /\ \A schema, name, args : /\ Fn(schema, name, args).schema = schema
                             /\ Fn(schema, name, args).name = name
                             /\ Fn(schema, name, args).args = args
  /\ \A op, a, b : Op(op, a, b).name = op /\ Op(op, a, b).args = <<a, b>>
BY DEF OperatorEntry, DeclareJson, Fn, Op, Object

\* An operator with a wrapper behind it, and one that refuses or that is a document's.
Serves(o) == \E op, s : Answers(op, s) /\ o = OperatorEntry(op, s[1], s[2], TRUE)
Unwrapped(o) == \A op, s : Answers(op, s) => o.procedure # Fn("eql_v3", WrapperFunctionName(op), s)
Refuses(o) ==
  Unwrapped(o) /\ \E op, s : ~Answers(op, s) /\ s = <<s[1], s[2]>> /\ o.op = Op(op, s[1], s[2])

LEMMA BlockersUnwrapped ==
  ASSUME NEW o, o.procedure.schema = "eql_v3_internal"
  PROVE  Unwrapped(o)
BY OperatorFields DEF Unwrapped

LEMMA ColumnOperators ==
  ASSUME NEW p \in Scalars, NEW o
  PROVE  o \in RenderOperatorsFile(p[1], p[2]).operators <=>
           \E op \in OperatorSymbols : \E sig \in Signatures(op) :
             o = OperatorEntry(op, At(sig, Column(p))[1], At(sig, Column(p))[2], ColumnAnswers(p, op, sig))
<1> DEFINE dom == DomainName(p[1], p[2])
           Given(op, sig) == OperatorEntry(op, Rendered(sig[1], dom), Rendered(sig[2], dom),
                                           IsSupported(p[2], op) /\ ~BlockerOnly(op, sig))
<1>1. RenderOperatorsFile(p[1], p[2]).operators = {Given(r[1], r[2]) : r \in RowsOf(OperatorSymbols)}
  BY DEF RenderOperatorsFile, OperatorsFile, File
<1>2. \A op, sig : Given(op, sig) =
        OperatorEntry(op, At(sig, Column(p))[1], At(sig, Column(p))[2], ColumnAnswers(p, op, sig))
  BY DEF At, ColumnAnswers, Column
<1>3. \A r : r \in RowsOf(OperatorSymbols) <=> \E op \in OperatorSymbols : \E sig \in Signatures(op) : r = <<op, sig>>
  BY DEF RowsOf
<1> HIDE DEF Given
<1>4. ASSUME NEW r \in RowsOf(OperatorSymbols), o = Given(r[1], r[2])
      PROVE  \E op \in OperatorSymbols : \E sig \in Signatures(op) : o = Given(op, sig)
  <2>1. PICK op \in OperatorSymbols : \E sig \in Signatures(op) : r = <<op, sig>>
    BY <1>3
  <2>2. r[1] = op /\ r[2] \in Signatures(op)
    BY <2>1
  <2> QED  BY <1>4, <2>2
<1>5. ASSUME NEW op \in OperatorSymbols, NEW sig \in Signatures(op), o = Given(op, sig)
      PROVE  \E r \in RowsOf(OperatorSymbols) : o = Given(r[1], r[2])
  <2>1. <<op, sig>> \in RowsOf(OperatorSymbols) /\ <<op, sig>>[1] = op /\ <<op, sig>>[2] = sig
    BY <1>3
  <2> QED  BY <1>5, <2>1
<1> QED  BY <1>1, <1>2, <1>4, <1>5

SupportedEntry(op, s) == OperatorEntry(op, s[1], s[2], TRUE)
SupportedEntries(p) == {SupportedEntry(op, s) : op \in OperatorsForTerms(p[2].terms), s \in OperandPairs(p)}

LEMMA OperandOperators ==
  ASSUME NEW p \in Scalars, NEW o
  PROVE  o \in RenderQueryOperatorsFile(p[1], p[2]).operators <=> o \in SupportedEntries(p)
<1>1. RenderQueryOperatorsFile(p[1], p[2]).operators =
        {OperatorEntry(op, s[1], s[2], TRUE) : op \in OperatorsForTerms(p[2].terms),
                                               s \in BothWays(DomainName(p[1], p[2]), QueryDomainName(p[1], p[2]))}
  BY DEF RenderQueryOperatorsFile, OperatorsFile, File
<1> QED  BY <1>1 DEF SupportedEntries, SupportedEntry, OperandPairs, Column, Operand

LEMMA SeamOperators ==
  ASSUME NEW f \in CatalogFamilies, NEW o
  PROVE  o \in RenderCrossOperators(f).operators <=>
           \E r \in CrossRows(f) : o = OperatorEntry(r[1], r[2][1], r[2][2], r[3])
BY DEF RenderCrossOperators, OperatorsFile, File

\* A column's operator has a wrapper where the terms of its domain answer.
LEMMA ColumnAnswered ==
  ASSUME NEW p \in Scalars, NEW op \in OperatorSymbols, NEW sig \in Signatures(op)
  PROVE  ColumnAnswers(p, op, sig) <=> Answers(op, At(sig, Column(p)))
<1> DEFINE s == At(sig, Column(p))
<1>1. ASSUME ColumnAnswers(p, op, sig) PROVE Answers(op, s)
  <2>1. op \in OperatorsForTerms(p[2].terms) /\ ~BlockerOnly(op, sig)
    BY <1>1 DEF ColumnAnswers, IsSupported
  <2>2. s \in ColumnPairs(p)
    BY <2>1, SearchedSymbols, SymmetricSlots
  <2>3. PICK t \in TermForOperator(p[2].terms, op) : TRUE
    BY <2>1, TermFound
  <2>4. WrappedColumn(p, op, s, t)
    BY <2>1, <2>2, <2>3 DEF WrappedColumn
  <2> QED  BY <2>4 DEF Answers, Wrapped
<1>2. ASSUME Answers(op, s) PROVE ColumnAnswers(p, op, sig)
  <2>1. Column(p) \in Sides(s)
    <3>1. sig \in SymmetricSignatures \union JsonpathSignatures \union ArrowSignatures \union DeleteSignatures
                   \union TextArraySignatures \union {<<"Domain", "text">>}
      BY DEF Signatures
    <3>2. sig[1] = "Domain" \/ sig[2] = "Domain"
      BY <3>1 DEF SymmetricSignatures, JsonpathSignatures, ArrowSignatures, DeleteSignatures,
         TextArraySignatures
    <3> QED  BY <3>2 DEF At, Sides, Rendered
  <2>2. op \in OperatorsForTerms(p[2].terms)
    BY <1>2, <2>1, AnswersOnly
  <2>3. ~BlockerOnly(op, sig)
    <3> SUFFICES ASSUME BlockerOnly(op, sig) PROVE FALSE
      OBVIOUS
    <3>1. s[2] = <<"jsonpath">> /\ <<"jsonpath">> \in BaseTypes \ {Jsonb}
      BY DEF BlockerOnly, At, Rendered, BaseTypes, Jsonb
    <3>2. <<"jsonpath">> \in Sides(s)
      BY <3>1 DEF Sides
    <3> QED  BY <1>2, <3>1, <3>2, AnswersOnly
  <2> QED  BY <2>2, <2>3 DEF ColumnAnswers, IsSupported
<1> QED  BY <1>1, <1>2

LEMMA OperandAnswered ==
  ASSUME NEW p \in Queryables, NEW op \in OperatorsForTerms(p[2].terms), NEW s \in OperandPairs(p)
  PROVE  Answers(op, s)
<1>1. p \in Scalars
  BY QueryablesTyped
<1>2. PICK t \in TermForOperator(p[2].terms, op) : TRUE
  BY <1>1, TermFound
<1>3. WrappedOperand(p, op, s, t)
  BY <1>2 DEF WrappedOperand
<1> QED  BY <1>1, <1>3 DEF Answers, Wrapped

LEMMA SeamAnswered ==
  ASSUME NEW p \in Queryables, NEW op, NEW s \in SeamPairs(p)
  PROVE  op \in OrderOps /\ p[2] \in CrossDomains(p[1]) <=> Answers(op, s)
<1>1. ASSUME op \in OrderOps, p[2] \in CrossDomains(p[1]) PROVE Answers(op, s)
  <2>1. p \in Scalars /\ WrappedSeam(p, op, s)
    BY <1>1, QueryablesTyped DEF WrappedSeam
  <2> QED  BY <2>1 DEF Answers, Wrapped
<1> QED  BY <1>1, AnswersOnly

LEMMA GeneratedDeclaration ==
  ASSUME NEW op, NEW s, NEW answered \in BOOLEAN, s = <<s[1], s[2]>>, answered <=> Answers(op, s),
         NEW o, o = OperatorEntry(op, s[1], s[2], answered)
  PROVE  Serves(o) \/ Refuses(o)
<1>1. CASE answered
  BY <1>1 DEF Serves
<1>2. CASE ~answered
  <2>1. o = OperatorEntry(op, s[1], s[2], FALSE)
    BY <1>2
  <2>2. o.op = Op(op, s[1], s[2]) /\ o.procedure.schema = "eql_v3_internal"
    BY <2>1 DEF OperatorEntry, Fn, Object
  <2> QED  BY <1>2, <2>2, BlockersUnwrapped DEF Refuses
<1> QED  BY <1>1, <1>2

\* A document is one of the operands of whatever is declared for documents.
LEMMA DocumentRows ==
  /\ \A r \in JsonAnswered : JsonSearchType \in {r[2], r[3]} /\ r[1] \in {"->", "->>", "@>", "<@"}
  /\ \A r \in JsonBlocked : JsonSearchType \in {r[2], r[3]}
<1>1. ASSUME NEW r \in JsonAnswered
      PROVE  JsonSearchType \in {r[2], r[3]} /\ r[1] \in {"->", "->>", "@>", "<@"}
  BY DEF JsonAnswered
<1>2. ASSUME NEW r \in JsonBlocked PROVE JsonSearchType \in {r[2], r[3]}
  BY DEF JsonBlocked, BothWays
<1> QED  BY <1>1, <1>2

LEMMA DocumentDeclared ==
  /\ \A o \in JsonOperatorsFile.operators : Serves(o) \/ Refuses(o)
  /\ \A o \in JsonBlockersFile.operators : Refuses(o)
  /\ \A op \in OrderOps : OperatorEntry(op, JsonEntryType, JsonEntryType, TRUE) \in JsonOperatorsFile.operators
<1> DEFINE documents == {DeclareJson(r, DocumentFn(r)) : r \in JsonAnswered}
           ordered == {OperatorEntry(op, JsonEntryType, JsonEntryType, TRUE) : op \in OrderOps}
           refused == {DeclareJson(<<op, JsonEntryType, JsonEntryType>>, EntryRefusal(op).fn) : op \in EqualityOps}
           blocked == {DeclareJson(r, BlockedFn(r)) : r \in JsonBlocked}
           E2 == <<JsonEntryType, JsonEntryType>>
<1>1. /\ JsonOperatorsFile.operators = documents \union ordered \union refused
      /\ JsonBlockersFile.operators = blocked
  BY DEF JsonOperatorsFile, JsonBlockersFile, File
<1>2. ASSUME NEW r, JsonSearchType \in {r[2], r[3]}, NEW fn
      PROVE  LET o == DeclareJson(r, fn) IN
             \E op, s : ~Answers(op, s) /\ s = <<s[1], s[2]>> /\ o.op = Op(op, s[1], s[2])
  <2> DEFINE s == <<r[2], r[3]>>
  <2>1. s = <<s[1], s[2]>> /\ s[1] = r[2] /\ s[2] = r[3] /\ JsonSearchType \in Sides(s)
    BY <1>2 DEF Sides
  <2> HIDE DEF s
  <2>2. ~Answers(r[1], s)
    BY <2>1, AnswersOnly
  <2>3. DeclareJson(r, fn).op = Op(r[1], s[1], s[2])
    BY <2>1, OperatorFields
  <2> QED  BY <2>1, <2>2, <2>3
<1>3. ASSUME NEW o \in documents PROVE Refuses(o)
  <2>1. PICK r \in JsonAnswered : o = DeclareJson(r, DocumentFn(r))
    OBVIOUS
  <2>2. JsonSearchType \in {r[2], r[3]} /\ r[1] \in {"->", "->>", "@>", "<@"}
    BY DocumentRows
  <2>3. o.procedure = Fn("eql_v3", r[1], <<r[2], r[3]>>)
    BY <2>1, OperatorFields DEF DocumentFn
  <2>4. ASSUME NEW op, NEW s, Answers(op, s) PROVE o.procedure # Fn("eql_v3", WrapperFunctionName(op), s)
    <3>1. op \in SearchOps
      BY <2>4, WrappedTerm DEF Answers
    <3>2. WrapperFunctionName(op) # r[1]
      BY <2>2, <3>1, WrapperNames
    <3> QED  BY <2>3, <3>2, OperatorFields
  <2> QED  BY <1>2, <2>1, <2>2, <2>4 DEF Refuses, Unwrapped
<1>4. ASSUME NEW o \in blocked PROVE Refuses(o)
  <2>1. PICK r \in JsonBlocked : o = DeclareJson(r, BlockedFn(r))
    OBVIOUS
  <2>2. JsonSearchType \in {r[2], r[3]}
    BY DocumentRows
  <2>3. o.procedure.schema = "eql_v3_internal"
    BY <2>1, OperatorFields DEF BlockedFn
  <2> QED  BY <1>2, <2>1, <2>2, <2>3, BlockersUnwrapped DEF Refuses
<1>5. ASSUME NEW op \in OrderOps PROVE Answers(op, E2)
  <2>1. WrappedEntry(op, E2)
    BY DEF WrappedEntry
  <2> QED  BY <2>1 DEF Answers, Wrapped
<1>6. E2[1] = JsonEntryType /\ E2[2] = JsonEntryType /\ E2 = <<E2[1], E2[2]>>
  OBVIOUS
<1>7. ASSUME NEW op \in OrderOps PROVE Serves(OperatorEntry(op, JsonEntryType, JsonEntryType, TRUE))
  <2> HIDE DEF E2
  <2> QED  BY <1>5, <1>6 DEF Serves
<1>8. ASSUME NEW o \in refused PROVE Refuses(o)
  <2>1. PICK op \in EqualityOps : o = DeclareJson(<<op, JsonEntryType, JsonEntryType>>, EntryRefusal(op).fn)
    OBVIOUS
  <2>2. o.op = Op(op, E2[1], E2[2])
    BY <2>1, OperatorFields
  <2>3. o.procedure = Fn("eql_v3", WrapperFunctionName(op), E2)
    <3>1. EntryRefusal(op).fn = Fn("eql_v3", FunctionName(op), E2)
      BY DEF EntryRefusal, Entry
    <3>2. o.procedure = EntryRefusal(op).fn
      BY <2>1, OperatorFields
    <3> QED  BY <3>1, <3>2, WrapperNames
  <2>4. op \notin OrderOps /\ op \in SearchOps
    BY DEF EqualityOps, OrderOps, SearchOps
  <2>5. ~Answers(op, E2)
    BY <2>4, AnswersOnly
  <2>6. ASSUME NEW other, NEW s, Answers(other, s) PROVE o.procedure # Fn("eql_v3", WrapperFunctionName(other), s)
    <3> SUFFICES ASSUME o.procedure = Fn("eql_v3", WrapperFunctionName(other), s) PROVE FALSE
      OBVIOUS
    <3> HIDE DEF E2
    <3>1. WrapperFunctionName(op) = WrapperFunctionName(other) /\ s = E2
      BY <2>3, OperatorFields
    <3>2. other \in SearchOps
      BY <2>6, WrappedTerm DEF Answers
    <3>3. other = op
      BY <2>4, <3>1, <3>2, WrapperNames
    <3> QED  BY <2>5, <2>6, <3>1, <3>3
  <2> HIDE DEF E2
  <2> QED  BY <1>6, <2>2, <2>5, <2>6 DEF Refuses, Unwrapped
<1>9. \A op \in OrderOps : OperatorEntry(op, JsonEntryType, JsonEntryType, TRUE) \in ordered
  OBVIOUS
<1>10. \A o \in ordered : Serves(o)
  BY <1>7
<1> HIDE DEF documents, ordered, refused, blocked
<1> QED  BY <1>1, <1>3, <1>4, <1>8, <1>9, <1>10

LEMMA OreDeclared ==
  ASSUME NEW o \in OreOperatorsFile.operators
  PROVE  Refuses(o)
<1>1. PICK op \in Comparisons :
        o = [op |-> Op(op, OreType, OreType), procedure |-> OreComparator(op),
             commutator |-> Commutator(op), negator |-> Negator(op)]
  BY DEF OreOperatorsFile, File
<1> DEFINE s == <<OreType, OreType>>
<1>2. o.op = Op(op, s[1], s[2]) /\ o.procedure = OreComparator(op) /\ s = <<s[1], s[2]>>
  BY <1>1
<1>3. o.procedure.schema = "eql_v3_internal"
  BY <1>2, OperatorFields DEF OreComparator
<1>4. "Ore" \in Terms /\ TermType("Ore") \in Sides(s)
  BY DEF Terms, Sides, OreType
<1> HIDE DEF s
<1>5. ~Answers(op, s)
  BY <1>4, AnswersOnly
<1> QED  BY <1>2, <1>3, <1>5, BlockersUnwrapped DEF Refuses

\* Each operator that EQL declares either has a wrapper behind it or runs none.
LEMMA DeclarationKinds ==
  ASSUME NEW o \in DeclaredOperators
  PROVE  Serves(o) \/ Refuses(o)
<1>1. CASE \E c \in OperatorsFiles : o \in c.operators
  <2>1. PICK c \in OperatorsFiles : o \in c.operators
    BY <1>1
  <2>2. CASE \E p \in Scalars : c = RenderOperatorsFile(p[1], p[2])
    <3>1. PICK p \in Scalars : c = RenderOperatorsFile(p[1], p[2])
      BY <2>2
    <3>2. PICK op \in OperatorSymbols : \E sig \in Signatures(op) :
            o = OperatorEntry(op, At(sig, Column(p))[1], At(sig, Column(p))[2], ColumnAnswers(p, op, sig))
      BY <2>1, <3>1, ColumnOperators
    <3>3. PICK sig \in Signatures(op) :
            o = OperatorEntry(op, At(sig, Column(p))[1], At(sig, Column(p))[2], ColumnAnswers(p, op, sig))
      BY <3>2
    <3>4. At(sig, Column(p)) = <<At(sig, Column(p))[1], At(sig, Column(p))[2]>>
      BY DEF At
    <3>5. ColumnAnswers(p, op, sig) \in BOOLEAN
      BY DEF ColumnAnswers, IsSupported, BlockerOnly
    <3>6. ColumnAnswers(p, op, sig) <=> Answers(op, At(sig, Column(p)))
      BY ColumnAnswered
    <3> QED  BY <3>3, <3>4, <3>5, <3>6, GeneratedDeclaration
  <2>3. CASE \E p \in Queryables : c = RenderQueryOperatorsFile(p[1], p[2])
    <3>1. PICK p \in Queryables : c = RenderQueryOperatorsFile(p[1], p[2])
      BY <2>3
    <3>2. p \in Scalars
      BY QueryablesTyped
    <3>3. o \in RenderQueryOperatorsFile(p[1], p[2]).operators
      BY <2>1, <3>1
    <3>4. PICK op \in OperatorsForTerms(p[2].terms), s \in OperandPairs(p) : o = SupportedEntry(op, s)
      <4>1. o \in SupportedEntries(p)
        BY <3>2, <3>3, OperandOperators
      <4> QED  BY <4>1 DEF SupportedEntries
    <3>5. Answers(op, s)
      BY OperandAnswered
    <3> QED  BY <3>4, <3>5 DEF Serves, SupportedEntry
  <2>4. CASE \E f \in Seamed : c = RenderCrossOperators(f)
    <3>1. PICK f \in Seamed : c = RenderCrossOperators(f)
      BY <2>4
    <3>2. f \in CatalogFamilies
      BY DEF Seamed
    <3>3. PICK r \in CrossRows(f) : o = OperatorEntry(r[1], r[2][1], r[2][2], r[3])
      BY <2>1, <3>1, <3>2, SeamOperators
    <3>4. PICK p \in Queryables, op \in Comparisons : \E s \in SeamPairs(p) :
            p[1] = f /\ r = <<op, s, op \in OrderOps /\ p[2] \in CrossDomains(f)>>
      BY <3>2, SeamRows
    <3>5. PICK s \in SeamPairs(p) : p[1] = f /\ r = <<op, s, op \in OrderOps /\ p[2] \in CrossDomains(f)>>
      BY <3>4
    <3> DEFINE answered == op \in OrderOps /\ p[2] \in CrossDomains(f)
    <3>6. o = OperatorEntry(op, s[1], s[2], answered)
      BY <3>3, <3>5
    <3>7. answered \in BOOLEAN /\ (answered <=> Answers(op, s))
      BY <3>5, SeamAnswered
    <3>8. s = <<s[1], s[2]>>
      BY PairsTyped
    <3> HIDE DEF answered
    <3> QED  BY <3>6, <3>7, <3>8, GeneratedDeclaration
  <2> QED  BY <2>1, <2>2, <2>3, <2>4 DEF OperatorsFiles
<1>2. CASE \E c \in BothFiles : o \in c.operators
  BY <1>2, DocumentDeclared, OreDeclared DEF BothFiles
<1> QED  BY <1>1, <1>2, DeclarationsListed

\* Wherever there is a wrapper, there is an operator to run it.
LEMMA AnsweredDeclared ==
  ASSUME NEW op, NEW s, Answers(op, s)
  PROVE  OperatorEntry(op, s[1], s[2], TRUE) \in DeclaredOperators
<1> DEFINE o == OperatorEntry(op, s[1], s[2], TRUE)
<1>1. \A c \in OperatorsFiles \union BothFiles : o \in c.operators => o \in DeclaredOperators
  BY DeclarationsListed
<1>2. PICK t, dom : Wrapped(op, s, t, dom)
  BY DEF Answers
<1>3. CASE \E p \in Scalars : WrappedColumn(p, op, s, t)
  <2>1. PICK p \in Scalars : WrappedColumn(p, op, s, t)
    BY <1>3
  <2>2. op \in OperatorsForTerms(p[2].terms) /\ s \in ColumnPairs(p)
    BY <2>1 DEF WrappedColumn
  <2>3. op \in SearchOps /\ op \in OperatorSymbols
    BY <2>2, SearchedSymbols
  <2>4. PICK sig \in Signatures(op) : ~BlockerOnly(op, sig) /\ s = At(sig, Column(p))
    BY <2>2, <2>3, SymmetricSlots
  <2>5. ColumnAnswers(p, op, sig) = TRUE
    BY <2>2, <2>4 DEF ColumnAnswers, IsSupported
  <2>6. o = OperatorEntry(op, At(sig, Column(p))[1], At(sig, Column(p))[2], ColumnAnswers(p, op, sig))
    BY <2>4, <2>5
  <2> HIDE DEF o
  <2>7. o \in RenderOperatorsFile(p[1], p[2]).operators
    BY <2>3, <2>6, ColumnOperators
  <2>8. RenderOperatorsFile(p[1], p[2]) \in OperatorsFiles
    BY DEF OperatorsFiles
  <2>9. o \in DeclaredOperators
    BY <1>1, <2>7, <2>8
  <2> QED  BY <2>9 DEF o
<1>4. CASE \E p \in Scalars : WrappedOperand(p, op, s, t)
  <2>1. PICK p \in Scalars : WrappedOperand(p, op, s, t)
    BY <1>4
  <2>2. p \in Queryables /\ op \in OperatorsForTerms(p[2].terms) /\ s \in OperandPairs(p)
    BY <2>1 DEF WrappedOperand
  <2>3. o \in RenderQueryOperatorsFile(p[1], p[2]).operators
    <3>1. SupportedEntry(op, s) \in SupportedEntries(p)
      BY <2>2 DEF SupportedEntries
    <3>2. o \in SupportedEntries(p)
      BY <3>1 DEF SupportedEntry, o
    <3> QED  BY <2>2, <3>2, QueryablesTyped, OperandOperators
  <2>4. RenderQueryOperatorsFile(p[1], p[2]) \in OperatorsFiles
    BY <2>2 DEF OperatorsFiles
  <2> QED  BY <1>1, <2>3, <2>4
<1>5. CASE \E p \in Scalars : WrappedSeam(p, op, s)
  <2>1. PICK p \in Scalars : WrappedSeam(p, op, s)
    BY <1>5
  <2>2. p \in Queryables /\ op \in OrderOps /\ op \in Comparisons /\ p[2] \in CrossDomains(p[1]) /\ s \in SeamPairs(p)
    BY <2>1 DEF WrappedSeam, Comparisons
  <2>3. p[1] \in CatalogFamilies /\ p[1] \in Seamed /\ JsonEntryTerm \in ToSet(p[2].terms)
    BY <2>2, QueryablesTyped DEF Seamed, CrossDomains, CrossCandidates
  <2> DEFINE r == <<op, s, op \in OrderOps /\ p[2] \in CrossDomains(p[1])>>
  <2>4. r \in CrossRows(p[1])
    BY <2>2, <2>3, SeamRows
  <2>5. r[1] = op /\ r[2] = s /\ r[3] = TRUE
    BY <2>2
  <2> HIDE DEF r
  <2>6. o = OperatorEntry(r[1], r[2][1], r[2][2], r[3])
    BY <2>5
  <2> HIDE DEF o
  <2>7. o \in RenderCrossOperators(p[1]).operators
    BY <2>3, <2>4, <2>6, SeamOperators
  <2>8. RenderCrossOperators(p[1]) \in OperatorsFiles
    BY <2>3 DEF OperatorsFiles
  <2>9. o \in DeclaredOperators
    BY <1>1, <2>7, <2>8
  <2> QED  BY <2>9 DEF o
<1>6. CASE WrappedEntry(op, s)
  <2>1. op \in OrderOps /\ s[1] = JsonEntryType /\ s[2] = JsonEntryType
    BY <1>6 DEF WrappedEntry
  <2>2. o \in JsonOperatorsFile.operators
    BY <2>1, DocumentDeclared
  <2> QED  BY <1>1, <2>2 DEF BothFiles
<1> QED  BY <1>2, <1>3, <1>4, <1>5, <1>6 DEF Wrapped

(***************************************************************************)
(* The table of operators.                                                 *)
(***************************************************************************)
Row(d) ==
  [commutator |-> d.commutator, negator |-> d.negator, behind |-> {e \in Entries : e.fn = d.procedure}]

LEMMA TableRow ==
  ASSUME NEW op \in OperatorSymbols, NEW s, s \in DOMAIN OperatorTable[op]
  PROVE  \E d \in DeclaredOperators : d.op.name = op /\ d.op.args = s /\ OperatorTable[op][s] = Row(d)
<1> DEFINE named == {o \in DeclaredOperators : o.op.name = op}
           d == CHOOSE p \in named : p.op.args = s
<1>1. OperatorTable[op] = ByOperands(named, Entries)
  BY DEF OperatorTable, DeclaredOf
<1>2. \E o \in named : o.op.args = s
  BY <1>1 DEF ByOperands
<1>3. d \in named /\ d.op.args = s
  BY <1>2
<1>4. OperatorTable[op][s] = Row(d)
  BY <1>1, <1>2 DEF ByOperands, Row
<1> QED  BY <1>3, <1>4

LEMMA DeclaredRow ==
  ASSUME NEW d \in DeclaredOperators, d.op.name \in OperatorSymbols
  PROVE  d.op.args \in DOMAIN OperatorTable[d.op.name]
<1> DEFINE named == {o \in DeclaredOperators : o.op.name = d.op.name}
<1>1. OperatorTable[d.op.name] = ByOperands(named, Entries)
  BY DEF OperatorTable, DeclaredOf
<1>2. d \in named
  OBVIOUS
<1> HIDE DEF named
<1> QED  BY <1>1, <1>2 DEF ByOperands

LEMMA OperatorsApart ==
  /\ \A op, a, b, other, c, d : Op(op, a, b) = Op(other, c, d) => op = other /\ <<a, b>> = <<c, d>>
  /\ \A name, args, other, rest :
       Fn("eql_v3", name, args) = Fn("eql_v3", other, rest) => name = other /\ args = rest
BY DEF Op, Fn, Object

\* What runs behind an operator is a wrapper made for it.
LEMMA BehindWrapped ==
  ASSUME NEW o, o.name \in OperatorSymbols, NEW e \in Wrappers(o)
  PROVE  /\ o # None /\ o.args \in DOMAIN OperatorTable[o.name]
         /\ \E t, dom : /\ Wrapped(o.name, o.args, t, dom)
                        /\ e = WrapperEntry(dom, o.name, o.args[1], o.args[2], t)
<1>1. o # None /\ o.args \in DOMAIN OperatorTable[o.name] /\ e \in OperatorTable[o.name][o.args].behind
      /\ e.kind = "wrapper"
  BY DEF Wrappers, Declared
<1>2. PICK d \in DeclaredOperators : /\ d.op.name = o.name /\ d.op.args = o.args
                                     /\ OperatorTable[o.name][o.args] = Row(d)
  BY <1>1, TableRow
<1>3. e \in Entries /\ e.fn = d.procedure
  BY <1>1, <1>2 DEF Row
<1>4. PICK w, z, t, dom : Wrapped(w, z, t, dom) /\ e = WrapperEntry(dom, w, z[1], z[2], t)
  BY <1>1, <1>3, WrappersListed
<1>5. Answers(w, z) /\ w \in SearchOps /\ z = <<z[1], z[2]>>
  BY <1>4, WrappedTerm DEF Answers
<1>6. d.procedure = Fn("eql_v3", WrapperFunctionName(w), z)
  <2>1. e.fn = Fn("eql_v3", WrapperFunctionName(w), <<z[1], z[2]>>)
    BY <1>4, EntryFields
  <2> QED  BY <1>3, <1>5, <2>1
<1>7. Serves(d)
  BY <1>5, <1>6, DeclarationKinds DEF Refuses, Unwrapped
<1>8. PICK op, s : Answers(op, s) /\ d = OperatorEntry(op, s[1], s[2], TRUE)
  BY <1>7 DEF Serves
<1>9. op \in SearchOps /\ s = <<s[1], s[2]>>
  BY <1>8, WrappedTerm DEF Answers
<1>10. d.op = Op(op, s[1], s[2]) /\ d.procedure = Fn("eql_v3", WrapperFunctionName(op), <<s[1], s[2]>>)
  BY <1>8 DEF OperatorEntry
<1>11. op = o.name /\ s = o.args
  BY <1>2, <1>9, <1>10 DEF Op, Object
<1>12. w = op /\ z = s
  BY <1>5, <1>6, <1>9, <1>10, OperatorsApart, WrapperNames
<1> QED  BY <1>1, <1>4, <1>11, <1>12

\* Where operands are answered, there is one operator for them and it has a wrapper.
LEMMA AnsweredRow ==
  ASSUME NEW op, NEW s, Answers(op, s)
  PROVE  LET o == Op(op, s[1], s[2]) IN
         /\ o.name = op /\ o.args = s /\ op \in OperatorSymbols
         /\ Declared(o) /\ Wrappers(o) # {}
         /\ OperatorTable[op][s].commutator = Commutator(op)
         /\ OperatorTable[op][s].negator = Negator(op)
<1> DEFINE o == Op(op, s[1], s[2])
           given == OperatorEntry(op, s[1], s[2], TRUE)
<1>1. op \in SearchOps /\ s = <<s[1], s[2]>>
  BY WrappedTerm DEF Answers
<1>2. op \in OperatorSymbols
  BY <1>1 DEF SearchOps, OperatorSymbols, Comparisons
<1>3. o.name = op /\ o.args = s
  BY <1>1, OperatorFields
<1>4. given \in DeclaredOperators /\ given.op = o
  BY AnsweredDeclared DEF OperatorEntry
<1>5. s \in DOMAIN OperatorTable[op]
  BY <1>2, <1>3, <1>4, DeclaredRow
<1>6. o # None
  BY <1>4, MarkersAssumption DEF Overloads
<1>7. PICK d \in DeclaredOperators : d.op.name = op /\ d.op.args = s /\ OperatorTable[op][s] = Row(d)
  BY <1>2, <1>5, TableRow
<1>8. ~Refuses(d)
  <2> SUFFICES ASSUME Refuses(d) PROVE FALSE
    OBVIOUS
  <2>1. PICK other, z : ~Answers(other, z) /\ z = <<z[1], z[2]>> /\ d.op = Op(other, z[1], z[2])
    BY DEF Refuses
  <2>2. other = op /\ z = s
    BY <1>7, <2>1 DEF Op, Object
  <2> QED  BY <2>1, <2>2
<1>9. PICK other, z : Answers(other, z) /\ d = OperatorEntry(other, z[1], z[2], TRUE)
  BY <1>8, DeclarationKinds DEF Serves
<1>10. z = <<z[1], z[2]>>
  BY <1>9, WrappedTerm DEF Answers
<1>11. other = op /\ z = s
  <2>1. d.op = Op(other, z[1], z[2])
    BY <1>9 DEF OperatorEntry
  <2> QED  BY <1>7, <1>10, <2>1 DEF Op, Object
<1>12. /\ d.procedure = Fn("eql_v3", WrapperFunctionName(op), s)
       /\ d.commutator = Commutator(op) /\ d.negator = Negator(op)
  BY <1>1, <1>9, <1>11 DEF OperatorEntry
<1>13. PICK t, dom : Wrapped(op, s, t, dom)
  BY DEF Answers
<1> DEFINE e == WrapperEntry(dom, op, s[1], s[2], t)
<1>14. e \in Entries /\ e.kind = "wrapper" /\ e.fn = Fn("eql_v3", WrapperFunctionName(op), s)
  BY <1>1, <1>13, WrappedInstalled, EntryFields
<1> HIDE DEF e, o
<1>15. e \in OperatorTable[op][s].behind
  BY <1>7, <1>12, <1>14 DEF Row
<1>16. Declared(o) /\ e \in Wrappers(o)
  BY <1>3, <1>5, <1>6, <1>14, <1>15 DEF Declared, Wrappers
<1>17. OperatorTable[op][s].commutator = Commutator(op) /\ OperatorTable[op][s].negator = Negator(op)
  BY <1>7, <1>12 DEF Row
<1> QED  BY <1>2, <1>3, <1>16, <1>17 DEF o

\* Whatever wrapper PostgreSQL runs, its answer is the one that any term owes.
LEMMA EvaluatesAsTerm ==
  ASSUME NEW o, o.name \in OperatorSymbols, NEW e \in Wrappers(o), NEW x, NEW y
  PROVE  /\ o.name \in SearchOps
         /\ Evaluate(e, o, x, y) = TermAnswer(FamilyOf(o.args), o.name, x, y)
<1>1. PICK t, dom : /\ Wrapped(o.name, o.args, t, dom)
                    /\ e = WrapperEntry(dom, o.name, o.args[1], o.args[2], t)
  BY BehindWrapped
<1> DEFINE f == FamilyOf(o.args)
           op == o.name
<1>2. /\ op \in SearchOps /\ t \in Terms /\ op \in TermOperators[t]
      /\ f = "text" /\ op \in EqualityOps => t = "Hm"
  BY <1>1, WrappedTerm
<1>3. e.term = t /\ e.op = BodyOperator(op)
  BY <1>1, EntryFields
<1> DEFINE a == Encrypt(t, f, x)
           b == Encrypt(t, f, y)
           given == Compare(BodyOperator(op), a, b) /\ (NeedsEmptyBloomGuard(op) => b # {} \/ a = {})
<1>4. Evaluate(e, o, x, y) = given
  BY <1>3 DEF Evaluate
<1> HIDE DEF f, op
<1>5. TermAnswer(f, op, x, y) <=> given
  BY <1>2, TermsAgree
<1>6. TermAnswer(f, op, x, y) \in BOOLEAN /\ given \in BOOLEAN
  BY <1>2, TermAnswerBoolean
<1>7. TermAnswer(f, op, x, y) = given
  <2> HIDE DEF given
  <2> QED  BY <1>5, <1>6
<1> QED  BY <1>2, <1>4, <1>7 DEF f, op

(***************************************************************************)
(* What a rewrite of the planner finds.                                    *)
(***************************************************************************)
LEMMA RewritesServed ==
  ASSUME NEW p \in Scalars, NEW op \in OperatorsForTerms(p[2].terms), op \in EqualityOps \union OrderOps
  PROVE  Commutator(op) \in OperatorsForTerms(p[2].terms) /\ Negator(op) \in OperatorsForTerms(p[2].terms)
<1>1. PICK t \in ToSet(p[2].terms) : op \in TermOperators[t]
  BY DEF OperatorsForTerms
<1>2. t \in Terms
  BY ScalarsTyped
<1>3. Commutator(op) \in TermOperators[t] /\ Negator(op) \in TermOperators[t]
  <2>1. /\ TermOperators["Hm"] = EqualityOps /\ TermOperators["Ore"] = EqualityOps \union OrderOps
        /\ TermOperators["Ope"] = EqualityOps \union OrderOps /\ TermOperators["Bloom"] = {"@@"}
    BY DEF TermOperators
  <2>2. "@@" \notin EqualityOps \union OrderOps /\ (op \in OrderOps => op \notin EqualityOps)
    BY DEF EqualityOps, OrderOps
  <2> QED  BY <1>1, <1>2, <2>1, <2>2, RewritesTyped DEF Terms
<1> QED  BY <1>1, <1>3 DEF OperatorsForTerms

LEMMA AnswersRewritten ==
  ASSUME NEW op \in EqualityOps \union OrderOps, NEW s, Answers(op, s)
  PROVE  /\ Answers(Commutator(op), <<s[2], s[1]>>) /\ Answers(Negator(op), s)
         /\ FamilyOf(<<s[2], s[1]>>) = FamilyOf(s)
<1> DEFINE swapped == <<s[2], s[1]>>
<1>1. swapped[1] = s[2] /\ swapped[2] = s[1]
  OBVIOUS
<1>2. /\ Jsonb \in BaseTypes /\ JsonEntryType \in HandWrittenTypes
      /\ op \in OrderOps => Commutator(op) \in OrderOps /\ Negator(op) \in OrderOps
  BY RewritesTyped DEF BaseTypes, HandWrittenTypes
<1>3. PICK t, dom : Wrapped(op, s, t, dom)
  BY DEF Answers
<1>4. CASE \E p \in Scalars : WrappedColumn(p, op, s, t)
  <2>1. PICK p \in Scalars : WrappedColumn(p, op, s, t)
    BY <1>4
  <2>2. op \in OperatorsForTerms(p[2].terms) /\ s \in ColumnPairs(p)
    BY <2>1 DEF WrappedColumn
  <2>3. Commutator(op) \in OperatorsForTerms(p[2].terms) /\ Negator(op) \in OperatorsForTerms(p[2].terms)
    BY <2>2, RewritesServed
  <2>4. swapped \in ColumnPairs(p)
    BY <2>2 DEF ColumnPairs
  <2>5. Column(p) \notin BaseTypes /\ Column(p) # JsonEntryType
    BY <1>2, ColumnApart
  <2>6. FamilyOf(swapped) = FamilyOf(s)
    BY <1>1, <1>2, <2>2, <2>5 DEF ColumnPairs, FamilyOf
  <2>7. PICK u \in TermForOperator(p[2].terms, Commutator(op)) : TRUE
    BY <2>3, TermFound
  <2>8. PICK v \in TermForOperator(p[2].terms, Negator(op)) : TRUE
    BY <2>3, TermFound
  <2> HIDE DEF swapped
  <2>9. WrappedColumn(p, Commutator(op), swapped, u) /\ WrappedColumn(p, Negator(op), s, v)
    BY <2>2, <2>3, <2>4, <2>7, <2>8 DEF WrappedColumn
  <2>10. Answers(Commutator(op), swapped) /\ Answers(Negator(op), s)
    BY <2>9 DEF Answers, Wrapped
  <2> QED  BY <2>6, <2>10 DEF swapped
<1>5. CASE \E p \in Scalars : WrappedOperand(p, op, s, t)
  <2>1. PICK p \in Scalars : WrappedOperand(p, op, s, t)
    BY <1>5
  <2>2. op \in OperatorsForTerms(p[2].terms) /\ s \in OperandPairs(p) /\ p \in Queryables
    BY <2>1 DEF WrappedOperand
  <2>3. Commutator(op) \in OperatorsForTerms(p[2].terms) /\ Negator(op) \in OperatorsForTerms(p[2].terms)
    BY <2>2, RewritesServed
  <2>4. swapped \in OperandPairs(p)
    BY <2>2 DEF OperandPairs, BothWays
  <2>5. /\ Column(p) \notin BaseTypes /\ Column(p) # JsonEntryType /\ Column(p)[3] = p[1]
        /\ Operand(p) \notin BaseTypes /\ Operand(p) # JsonEntryType /\ Operand(p)[3] = p[1]
    BY <1>2, <2>2, ColumnApart, OperandApart, ColumnName, OperandName
  <2>6. FamilyOf(swapped) = FamilyOf(s)
    BY <1>1, <2>2, <2>5 DEF OperandPairs, BothWays, FamilyOf
  <2> HIDE DEF swapped
  <2>7. Answers(Commutator(op), swapped) /\ Answers(Negator(op), s)
    BY <2>2, <2>3, <2>4, OperandAnswered
  <2> QED  BY <2>6, <2>7 DEF swapped
<1>6. CASE \E p \in Scalars : WrappedSeam(p, op, s)
  <2>1. PICK p \in Scalars : WrappedSeam(p, op, s)
    BY <1>6
  <2>2. p \in Queryables /\ p[2] \in CrossDomains(p[1]) /\ op \in OrderOps /\ s \in SeamPairs(p)
    BY <2>1 DEF WrappedSeam
  <2>3. swapped \in SeamPairs(p)
    BY <2>2 DEF SeamPairs, BothWays
  <2>4. Operand(p) \notin BaseTypes /\ Operand(p) # JsonEntryType
    BY <1>2, <2>2, OperandApart
  <2>5. FamilyOf(swapped) = FamilyOf(s)
    BY <1>1, <2>2, <2>4 DEF SeamPairs, BothWays, FamilyOf
  <2> HIDE DEF swapped
  <2>6. Answers(Commutator(op), swapped) /\ Answers(Negator(op), s)
    BY <1>2, <2>2, <2>3, SeamAnswered
  <2> QED  BY <2>5, <2>6 DEF swapped
<1>7. CASE WrappedEntry(op, s)
  <2>1. op \in OrderOps /\ s = <<JsonEntryType, JsonEntryType>> /\ swapped = s
    BY <1>7 DEF WrappedEntry
  <2>2. WrappedEntry(Commutator(op), s) /\ WrappedEntry(Negator(op), s)
    BY <1>2, <2>1 DEF WrappedEntry
  <2>3. Answers(Commutator(op), s) /\ Answers(Negator(op), s)
    BY <2>2 DEF Answers, Wrapped
  <2> QED  BY <2>1, <2>3
<1> QED  BY <1>3, <1>4, <1>5, <1>6, <1>7 DEF Wrapped

(***************************************************************************)
(* The answers.                                                            *)
(***************************************************************************)
\* PostgreSQL runs one of the overloads, or none.
LEMMA Resolved ==
  ASSUME NEW overloads, NEW op, NEW args
  PROVE  Resolve(overloads, op, args) \in overloads \union {None}
<1>1. ASSUME NEW candidates, candidates \subseteq overloads
      PROVE  Only(candidates) \in overloads \union {None}
  <2>1. CASE candidates = {}
    BY <2>1, FS_EmptySet DEF Only
  <2>2. CASE candidates # {}
    BY <1>1, <2>2 DEF Only
  <2> QED  BY <2>1, <2>2
<1> DEFINE best == BestOf(Viable(overloads, args), args)
<1>2. best \subseteq overloads /\ PreferText(best, args) \subseteq overloads
  BY DEF BestOf, Viable, PreferText
<1>3. Only(best) \in overloads \union {None} /\ Only(PreferText(best, args)) \in overloads \union {None}
  BY <1>1, <1>2
<1> HIDE DEF best
<1> DEFINE known == IF args[1] = Unknown THEN args[2] ELSE args[1]
           same == [i \in 1 .. 2 |-> IF args[i] = Unknown THEN known ELSE args[i]]
           exact == Op(op, same[1], same[2])
           base == Op(op, Base(known), Base(known))
<1>4. Resolve(overloads, op, args) =
        CASE exact \in overloads -> exact
          [] exact \notin overloads /\ Unknown \in ToSet(args) /\ base \in overloads -> base
          [] OTHER -> IF Cardinality(best) > 1 /\ Unknown \in ToSet(args)
                        THEN Only(PreferText(best, args)) ELSE Only(best)
  BY DEF Resolve, best
<1> HIDE DEF known, same, exact, base
<1> QED  BY <1>3, <1>4

\* The overload chosen is one of the operators that can be asked for, and an answer is
\* that of a wrapper behind it.
Known(o) == o = None \/ o.name \in OperatorSymbols
AnswersInv ==
  /\ phase \in {"resolved", "answered"} => Known(chosen)
  /\ phase = "answered" =>
       \E x, y \in Plaintexts : /\ plain = <<x, y>>
                                /\ \E e \in Wrappers(chosen) : answer = Evaluate(e, chosen, x, y)

LEMMA AnswersInvInit == Init => AnswersInv
BY DEF Init, AnswersInv

LEMMA AnswersInvStep == AnswersInv /\ [Next]_vars => AnswersInv'
<1> SUFFICES ASSUME AnswersInv, [Next]_vars PROVE AnswersInv'
  OBVIOUS
<1>1. CASE Require
  BY <1>1 DEF Require, AnswersInv
<1>2. CASE RunFile
  BY <1>2 DEF RunFile, AnswersInv
<1>3. CASE Ask
  <2>1. phase' = "resolved"
    BY <1>3 DEF Ask
  <2>2. PICK e \in Expressions : chosen' = Resolve(OverloadsOf[e.op], e.op, e.args)
    BY <1>3 DEF Ask
  <2>3. e.op \in OperatorSymbols
    BY DEF Expressions
  <2>4. chosen' \in OverloadsOf[e.op] \union {None}
    BY <2>2, Resolved
  <2>5. Known(chosen')
    BY <2>3, <2>4 DEF OverloadsOf, Known
  <2> QED  BY <2>1, <2>5 DEF AnswersInv
<1>4. ASSUME NEW x \in Plaintexts, NEW y \in Plaintexts, Answer(x, y) PROVE AnswersInv'
  <2>1. phase = "resolved" /\ plain' = <<x, y>> /\ chosen' = chosen
    BY <1>4 DEF Answer
  <2>2. \E e \in Wrappers(chosen) : answer' = Evaluate(e, chosen, x, y)
    BY <1>4 DEF Answer
  <2>3. Known(chosen)
    BY <2>1 DEF AnswersInv
  <2> QED  BY <2>1, <2>2, <2>3 DEF AnswersInv
<1>5. CASE Commute
  BY <1>5 DEF Commute, AnswersInv
<1>6. CASE Negate
  BY <1>6 DEF Negate, AnswersInv
<1>7. CASE UNCHANGED vars
  BY <1>7 DEF vars, AnswersInv
<1> QED  BY <1>1, <1>2, <1>3, <1>4, <1>5, <1>6, <1>7 DEF Next

(* The overload that runs is an operator that can be asked for, and an answer is that of a *)
(* wrapper behind it to the two plaintexts.                                              *)
THEOREM AnswersInvHolds == Spec => []AnswersInv
<1> QED  BY AnswersInvInit, AnswersInvStep, PTL DEF Spec

\* What the wrapper behind the overload answered.
LEMMA Answered ==
  ASSUME AnswersInv, phase = "answered"
  PROVE  /\ chosen.name \in OperatorSymbols /\ Answers(chosen.name, chosen.args) /\ chosen.name \in SearchOps
         /\ \E x, y \in Plaintexts : /\ plain = <<x, y>>
                                     /\ answer = TermAnswer(FamilyOf(chosen.args), chosen.name, x, y)
<1>1. PICK x \in Plaintexts, y \in Plaintexts :
        plain = <<x, y>> /\ \E e \in Wrappers(chosen) : answer = Evaluate(e, chosen, x, y)
  BY DEF AnswersInv
<1>2. PICK e \in Wrappers(chosen) : answer = Evaluate(e, chosen, x, y)
  BY <1>1
<1>3. chosen # None
  BY <1>2 DEF Wrappers, Declared
<1>4. chosen.name \in OperatorSymbols
  BY <1>3 DEF AnswersInv, Known
<1>5. Answers(chosen.name, chosen.args)
  BY <1>2, <1>4, BehindWrapped DEF Answers
<1>6. chosen.name \in SearchOps /\ answer = TermAnswer(FamilyOf(chosen.args), chosen.name, x, y)
  BY <1>2, <1>4, EvaluatesAsTerm
<1> QED  BY <1>1, <1>4, <1>5, <1>6

(* An answer is right about the plaintexts, in every catalog: equality always, order     *)
(* but for texts that an ordering term takes for one, a match by the n-grams.            *)
THEOREM AnswersExact == Spec => []AnswerExact
<1>1. ASSUME AnswersInv PROVE AnswerExact
  <2> SUFFICES ASSUME phase = "answered"
               PROVE  RightAnswer(FamilyOf(chosen.args), chosen.name, plain[1], plain[2], answer)
    BY DEF AnswerExact
  <2>1. PICK x \in Plaintexts, y \in Plaintexts :
          plain = <<x, y>> /\ answer = TermAnswer(FamilyOf(chosen.args), chosen.name, x, y)
    BY <1>1, Answered
  <2>2. chosen.name \in SearchOps
    BY <1>1, Answered
  <2>3. plain[1] = x /\ plain[2] = y
    BY <2>1
  <2> QED  BY <2>1, <2>2, <2>3, TermAnswerRight
<1> QED  BY <1>1, AnswersInvHolds, PTL

(* The commutator and the negator that the planner is told of exist where it applies     *)
(* them, and answer the same and the opposite.                                         *)
THEOREM PlannerRewrites == Spec => PlannerRewritesAgree
<1>1. ASSUME AnswersInv, Commute PROVE answer' = answer
  <2> DEFINE op == chosen.name
             s == chosen.args
             swapped == <<s[2], s[1]>>
             o == Op(Commutator(op), swapped[1], swapped[2])
  <2>1. phase = "answered"
    BY <1>1 DEF Commute
  <2>2. op \in OperatorSymbols /\ Answers(op, s) /\ op \in SearchOps
    BY <1>1, <2>1, Answered
  <2>3. PICK x \in Plaintexts, y \in Plaintexts : plain = <<x, y>> /\ answer = TermAnswer(FamilyOf(s), op, x, y)
    BY <1>1, <2>1, Answered
  <2>4. Commuted(chosen) = o
    BY <2>2, AnsweredRow DEF Commuted
  <2>5. RewriteAs(Wrappers(o), o, <<plain[2], plain[1]>>)
    BY <1>1, <2>4 DEF Commute
  <2>6. o.name = Commutator(op)
    BY OperatorFields
  <2>7. op \in EqualityOps \union OrderOps
    <3>1. Commutator(op) # "none"
      BY <2>5, <2>6 DEF RewriteAs
    <3>2. Commutator("@@") = "none"
      BY DEF Commutator, EqualityOps
    <3> QED  BY <2>2, <3>1, <3>2 DEF SearchOps
  <2> HIDE DEF op, s
  <2>8. Answers(Commutator(op), swapped) /\ FamilyOf(swapped) = FamilyOf(s)
    BY <2>2, <2>7, AnswersRewritten
  <2>9. o.args = swapped /\ Wrappers(o) # {} /\ o.name \in OperatorSymbols
    <3> HIDE DEF swapped
    <3> QED  BY <2>6, <2>8, AnsweredRow
  <2>10. PICK e \in Wrappers(o) : answer' = Evaluate(e, o, plain[2], plain[1])
    <3>1. \E e \in Wrappers(o) : answer' = Evaluate(e, o, <<plain[2], plain[1]>>[1], <<plain[2], plain[1]>>[2])
      BY <2>5, <2>9 DEF RewriteAs
    <3> QED  BY <3>1
  <2>11. plain[1] = x /\ plain[2] = y
    BY <2>3
  <2> HIDE DEF swapped, o
  <2>12. answer' = TermAnswer(FamilyOf(s), Commutator(op), y, x)
    BY <2>6, <2>8, <2>9, <2>10, <2>11, EvaluatesAsTerm
  <2> QED  BY <2>3, <2>7, <2>12, TermAnswerRewrites
<1>2. ASSUME AnswersInv, Negate PROVE answer' = ~answer
  <2> DEFINE op == chosen.name
             s == chosen.args
             o == Op(Negator(op), s[1], s[2])
  <2>1. phase = "answered"
    BY <1>2 DEF Negate
  <2>2. op \in OperatorSymbols /\ Answers(op, s) /\ op \in SearchOps
    BY <1>2, <2>1, Answered
  <2>3. PICK x \in Plaintexts, y \in Plaintexts : plain = <<x, y>> /\ answer = TermAnswer(FamilyOf(s), op, x, y)
    BY <1>2, <2>1, Answered
  <2>4. Negated(chosen) = o
    BY <2>2, AnsweredRow DEF Negated
  <2>5. RewriteAs(Wrappers(o), o, plain)
    BY <1>2, <2>4 DEF Negate
  <2>6. o.name = Negator(op)
    BY OperatorFields
  <2>7. op \in EqualityOps \union OrderOps
    <3>1. Negator(op) # "none"
      BY <2>5, <2>6 DEF RewriteAs
    <3>2. Negator("@@") = "none"
      BY DEF Negator
    <3> QED  BY <2>2, <3>1, <3>2 DEF SearchOps
  <2> HIDE DEF op, s
  <2>8. Answers(Negator(op), s)
    BY <2>2, <2>7, AnswersRewritten
  <2>9. o.args = s /\ Wrappers(o) # {} /\ o.name \in OperatorSymbols
    BY <2>6, <2>8, AnsweredRow
  <2>10. PICK e \in Wrappers(o) : answer' = Evaluate(e, o, plain[1], plain[2])
    BY <2>5, <2>9 DEF RewriteAs
  <2>11. plain[1] = x /\ plain[2] = y
    BY <2>3
  <2> HIDE DEF o
  <2>12. answer' = TermAnswer(FamilyOf(s), Negator(op), x, y)
    BY <2>6, <2>9, <2>10, <2>11, EvaluatesAsTerm
  <2> QED  BY <2>3, <2>7, <2>12, TermAnswerRewrites
<1>3. ASSUME AnswersInv, [Next]_vars
      PROVE  [ /\ phase' = "commuted" => answer' = answer
               /\ phase' = "negated" => answer' = ~answer ]_vars
  <2>1. CASE Require
    BY <2>1 DEF Require
  <2>2. CASE RunFile
    BY <2>2 DEF RunFile
  <2>3. CASE Ask
    BY <2>3 DEF Ask
  <2>4. CASE \E x, y \in Plaintexts : Answer(x, y)
    BY <2>4 DEF Answer
  <2>5. CASE Commute
    <3>1. phase' = "commuted"
      BY <2>5 DEF Commute
    <3>2. answer' = answer
      BY <1>1, <1>3, <2>5
    <3> QED  BY <3>1, <3>2
  <2>6. CASE Negate
    <3>1. phase' = "negated"
      BY <2>6 DEF Negate
    <3>2. answer' = ~answer
      BY <1>2, <1>3, <2>6
    <3> QED  BY <3>1, <3>2
  <2>7. CASE UNCHANGED vars
    BY <2>7
  <2> QED  BY <1>3, <2>1, <2>2, <2>3, <2>4, <2>5, <2>6, <2>7 DEF Next
<1> QED  BY <1>3, AnswersInvHolds, PTL DEF Spec, PlannerRewritesAgree

(***************************************************************************)
(* The domains, and what their CHECKs ask for.                             *)
(***************************************************************************)
LEMMA BlocksListed ==
  ASSUME NEW b
  PROVE  b \in Domains <=>
           \/ \E p \in Scalars : b = DomainBlock(p[1], p[2])
           \/ \E p \in Queryables : b = QueryDomainBlock(p[1], p[2])
           \/ \E T \in HandWrittenTypes : b = Bare(T)
<1>1. \A f : RenderTypesFile(f).types = {DomainBlock(f, d) : d \in {e \in DomainsOf(f) : IsScalar(e)}}
  BY DEF RenderTypesFile, TypesOnly, File
<1>2. \A f : RenderQueryTypesFile(f).types = {QueryDomainBlock(f, d) : d \in Queryable(f)}
  BY DEF RenderQueryTypesFile, TypesOnly, File
<1>3. \A t : TermTypesFile(t).types = {Bare(TermType(t))}
  BY DEF TermTypesFile, TypesOnly, File
<1>4. JsonTypesFile.types = {Bare(JsonSearchType), Bare(JsonEntryType), Bare(JsonQueryType)}
  BY DEF JsonTypesFile, TypesOnly, File
<1>5. b \in Domains <=> \E c \in TypesFiles : b \in c.types
  BY DeclarationsListed
<1>6. ASSUME NEW c \in TypesFiles, b \in c.types
      PROVE  \/ \E p \in Scalars : b = DomainBlock(p[1], p[2])
             \/ \E p \in Queryables : b = QueryDomainBlock(p[1], p[2])
             \/ \E T \in HandWrittenTypes : b = Bare(T)
  <2>1. CASE \E f \in CatalogFamilies : c = RenderTypesFile(f)
    <3>1. PICK f \in CatalogFamilies : c = RenderTypesFile(f)
      BY <2>1
    <3>2. PICK d \in DomainsOf(f) : IsScalar(d) /\ b = DomainBlock(f, d)
      BY <1>1, <1>6, <3>1
    <3>3. <<f, d>> \in Scalars /\ <<f, d>>[1] = f /\ <<f, d>>[2] = d
      BY <3>2 DEF Scalars
    <3> QED  BY <3>2, <3>3
  <2>2. CASE \E f \in Queried : c = RenderQueryTypesFile(f)
    <3>1. PICK f \in Queried : c = RenderQueryTypesFile(f)
      BY <2>2
    <3>2. PICK d \in Queryable(f) : b = QueryDomainBlock(f, d)
      BY <1>2, <1>6, <3>1
    <3>3. <<f, d>> \in Queryables /\ <<f, d>>[1] = f /\ <<f, d>>[2] = d
      BY WithTerms DEF Queryable, Queried
    <3> QED  BY <3>2, <3>3
  <2>3. CASE \E t \in Terms : c = TermTypesFile(t)
    BY <1>3, <1>6, <2>3 DEF HandWrittenTypes
  <2>4. CASE c = JsonTypesFile
    BY <1>4, <1>6, <2>4 DEF HandWrittenTypes
  <2> QED  BY <1>6, <2>1, <2>2, <2>3, <2>4 DEF TypesFiles
<1>7. ASSUME NEW p \in Scalars, b = DomainBlock(p[1], p[2]) PROVE \E c \in TypesFiles : b \in c.types
  <2>1. p[1] \in CatalogFamilies /\ p[2] \in DomainsOf(p[1]) /\ IsScalar(p[2])
    BY ScalarsTyped
  <2>2. RenderTypesFile(p[1]) \in TypesFiles
    BY <2>1 DEF TypesFiles
  <2>3. b \in RenderTypesFile(p[1]).types
    BY <1>1, <1>7, <2>1
  <2> QED  BY <2>2, <2>3
<1>8. ASSUME NEW p \in Queryables, b = QueryDomainBlock(p[1], p[2]) PROVE \E c \in TypesFiles : b \in c.types
  <2>1. p[2] \in Queryable(p[1]) /\ p[1] \in Queried
    BY QueryablesTyped
  <2>2. RenderQueryTypesFile(p[1]) \in TypesFiles
    BY <2>1 DEF TypesFiles
  <2>3. b \in RenderQueryTypesFile(p[1]).types
    BY <1>2, <1>8, <2>1
  <2> QED  BY <2>2, <2>3
<1>9. ASSUME NEW T \in HandWrittenTypes, b = Bare(T) PROVE \E c \in TypesFiles : b \in c.types
  <2>1. CASE T \in {JsonEntryType, JsonSearchType, JsonQueryType}
    BY <1>4, <1>9, <2>1 DEF TypesFiles
  <2>2. CASE \E t \in Terms : T = TermType(t)
    BY <1>3, <1>9, <2>2 DEF TypesFiles
  <2> QED  BY <2>1, <2>2 DEF HandWrittenTypes
<1> QED  BY <1>5, <1>6, <1>7, <1>8, <1>9

LEMMA BlockFields ==
  /\ \A p : DomainBlock(p[1], p[2]).typname = Column(p) /\ QueryDomainBlock(p[1], p[2]).typname = Operand(p)
  /\ \A T : Bare(T).typname = T
BY DEF DomainBlock, QueryDomainBlock, Bare, Column, Operand

\* A column's domain and an operand's are each created once.
LEMMA BlocksFound ==
  /\ \A p \in Scalars : BlockOf[Column(p)] = DomainBlock(p[1], p[2])
  /\ \A p \in Queryables : BlockOf[Operand(p)] = QueryDomainBlock(p[1], p[2])
<1>1. ASSUME NEW given \in Domains, \A b \in Domains : b.typname = given.typname => b = given
      PROVE  BlockOf[given.typname] = given
  BY <1>1 DEF BlockOf, ByName
<1>2. ASSUME NEW p \in Scalars PROVE BlockOf[Column(p)] = DomainBlock(p[1], p[2])
  <2> DEFINE given == DomainBlock(p[1], p[2])
  <2>1. given \in Domains /\ given.typname = Column(p)
    BY BlocksListed, BlockFields
  <2>2. ASSUME NEW b \in Domains, b.typname = Column(p) PROVE b = given
    <3>1. CASE \E q \in Scalars : b = DomainBlock(q[1], q[2])
      BY <2>2, <3>1, BlockFields, ColumnTells
    <3>2. CASE \E q \in Queryables : b = QueryDomainBlock(q[1], q[2])
      BY <2>2, <3>2, BlockFields, ColumnApart, QueryablesTyped
    <3>3. CASE \E T \in HandWrittenTypes : b = Bare(T)
      BY <2>2, <3>3, BlockFields, ColumnApart
    <3> QED  BY <3>1, <3>2, <3>3, BlocksListed
  <2> HIDE DEF given
  <2>3. BlockOf[given.typname] = given
    BY <1>1, <2>1, <2>2
  <2> QED  BY <2>1, <2>3 DEF given
<1>3. ASSUME NEW p \in Queryables PROVE BlockOf[Operand(p)] = QueryDomainBlock(p[1], p[2])
  <2> DEFINE given == QueryDomainBlock(p[1], p[2])
  <2>1. given \in Domains /\ given.typname = Operand(p) /\ p \in Scalars
    BY BlocksListed, BlockFields, QueryablesTyped
  <2>2. ASSUME NEW b \in Domains, b.typname = Operand(p) PROVE b = given
    <3>1. CASE \E q \in Scalars : b = DomainBlock(q[1], q[2])
      BY <2>1, <2>2, <3>1, BlockFields, ColumnApart
    <3>2. CASE \E q \in Queryables : b = QueryDomainBlock(q[1], q[2])
      <4>1. PICK q \in Queryables : b = QueryDomainBlock(q[1], q[2])
        BY <3>2
      <4>2. q \in Scalars /\ Operand(q) = Operand(p)
        BY <2>2, <4>1, BlockFields, QueryablesTyped
      <4> QED  BY <2>1, <4>1, <4>2, OperandTells
    <3>3. CASE \E T \in HandWrittenTypes : b = Bare(T)
      BY <2>2, <3>3, BlockFields, OperandApart
    <3> QED  BY <3>1, <3>2, <3>3, BlocksListed
  <2> HIDE DEF given
  <2>3. BlockOf[given.typname] = given
    BY <1>1, <2>1, <2>2
  <2> QED  BY <2>1, <2>3 DEF given
<1> QED  BY <1>2, <1>3

\* A domain that has a term asks for it.
Asks(T, t) == JsonKey[t] \in BlockOf[T].keys /\ (t = "Ore" => JsonKey[t] \in BlockOf[T].nonempty)

LEMMA TermsAsked ==
  ASSUME NEW p \in Scalars, NEW t \in ToSet(p[2].terms)
  PROVE  Asks(Column(p), t) /\ (p \in Queryables => Asks(Operand(p), t))
<1> DEFINE terms == p[2].terms
<1>1. JsonKey[t] \in TermJsonKeys(terms) /\ (t = "Ore" => JsonKey[t] \in NonemptyArrayKeys(terms))
  BY DEF TermJsonKeys, NonemptyArrayKeys, HasNonemptyArray
<1>2. /\ DomainBlock(p[1], p[2]).keys = EnvelopeKeys \union TermJsonKeys(terms)
      /\ DomainBlock(p[1], p[2]).nonempty = NonemptyArrayKeys(terms)
  BY DEF DomainBlock
<1>3. /\ QueryDomainBlock(p[1], p[2]).keys = (EnvelopeKeys \ {"c"}) \union TermJsonKeys(terms)
      /\ QueryDomainBlock(p[1], p[2]).nonempty = NonemptyArrayKeys(terms)
  BY DEF QueryDomainBlock
<1> HIDE DEF terms
<1> QED  BY <1>1, <1>2, <1>3, BlocksFound DEF Asks

LEMMA WrappedAsked ==
  ASSUME NEW op, NEW s, NEW t, NEW dom, Wrapped(op, s, t, dom),
         NEW T, T \in {IF s[1] = Jsonb THEN dom ELSE s[1], IF s[2] = Jsonb THEN dom ELSE s[2]}, T # JsonEntryType
  PROVE  Asks(T, t)
<1>1. CASE \E p \in Scalars : WrappedColumn(p, op, s, t) /\ dom = Column(p)
  <2>1. PICK p \in Scalars : WrappedColumn(p, op, s, t) /\ dom = Column(p)
    BY <1>1
  <2>2. t \in ToSet(p[2].terms)
    BY <2>1, TermFound DEF WrappedColumn
  <2>3. T = Column(p)
    BY <2>1 DEF WrappedColumn, ColumnPairs
  <2> QED  BY <2>2, <2>3, TermsAsked
<1>2. CASE \E p \in Scalars : WrappedOperand(p, op, s, t) /\ dom = Operand(p)
  <2>1. PICK p \in Scalars : WrappedOperand(p, op, s, t) /\ dom = Operand(p)
    BY <1>2
  <2>2. t \in ToSet(p[2].terms) /\ p \in Queryables
    BY <2>1, TermFound DEF WrappedOperand
  <2>3. T = Column(p) \/ T = Operand(p)
    BY <2>1 DEF WrappedOperand, OperandPairs, BothWays
  <2> QED  BY <2>2, <2>3, TermsAsked
<1>3. CASE \E p \in Scalars : WrappedSeam(p, op, s) /\ t = JsonEntryTerm /\ dom = JsonEntryType
  <2>1. PICK p \in Scalars : WrappedSeam(p, op, s) /\ t = JsonEntryTerm /\ dom = JsonEntryType
    BY <1>3
  <2>2. t \in ToSet(p[2].terms) /\ p \in Queryables
    BY <2>1 DEF WrappedSeam, CrossDomains, CrossCandidates
  <2>3. T = Operand(p)
    BY <2>1 DEF WrappedSeam, SeamPairs, BothWays
  <2> QED  BY <2>2, <2>3, TermsAsked
<1>4. CASE WrappedEntry(op, s) /\ dom = JsonEntryType
  BY <1>4 DEF WrappedEntry
<1> QED  BY <1>1, <1>2, <1>3, <1>4 DEF Wrapped

\* A value that asks for a term has it, or holds a null or, for `bf`, something else.
Yields(T, t) ==
  \A field \in Admitted(BlockOf[T], JsonKey[t]) :
    /\ t = "Ore" => TermRead(t, field) = "term"
    /\ TermRead(t, field) = "NULL" => field = "null" \/ (t = "Bloom" /\ field = "text")

LEMMA AskedYields ==
  ASSUME NEW T, NEW t \in Terms, Asks(T, t)
  PROVE  Yields(T, t)
<1> SUFFICES ASSUME NEW field \in Admitted(BlockOf[T], JsonKey[t])
             PROVE  /\ t = "Ore" => TermRead(t, field) = "term"
                    /\ TermRead(t, field) = "NULL" => field = "null" \/ (t = "Bloom" /\ field = "text")
  BY DEF Yields
<1>1. field \in {"null", "text", "empty array", "array"} /\ (t = "Ore" => field = "array")
  BY DEF Asks, Admitted, FieldKinds
<1>2. CASE t = "Hm"
  BY <1>1, <1>2 DEF TermRead, HmacOf
<1>3. CASE t = "Ope"
  BY <1>1, <1>3 DEF TermRead, OpeOf, HmacOf, Arrays
<1>4. CASE t = "Bloom"
  BY <1>1, <1>4 DEF TermRead, BloomOf, Arrays
<1>5. CASE t = "Ore"
  BY <1>1, <1>5 DEF TermRead, OreOf, Arrays
<1> QED  BY <1>2, <1>3, <1>4, <1>5 DEF Terms

(* Whatever passes the CHECK of an operand's domain, an ORE term comes out of it, and     *)
(* the term that a wrapper compares is NULL only for a JSON null or a `bf` that is not an  *)
(* array, never for want of the key.                                                    *)
THEOREM TermsGuaranteed == Spec => []TermGuaranteed
<1>1. ASSUME AnswersInv PROVE TermGuaranteed
  <2> SUFFICES ASSUME phase = "resolved", NEW e \in Wrappers(chosen), NEW i \in 1 .. 2,
                      CheckedAs(e, chosen.args[i]) # JsonEntryType
               PROVE  Yields(CheckedAs(e, chosen.args[i]), e.term)
    BY DEF TermGuaranteed, Yields
  <2>1. chosen.name \in OperatorSymbols
    BY <1>1 DEF AnswersInv, Known, Wrappers, Declared
  <2>2. PICK t, dom : /\ Wrapped(chosen.name, chosen.args, t, dom)
                      /\ e = WrapperEntry(dom, chosen.name, chosen.args[1], chosen.args[2], t)
    BY <2>1, BehindWrapped
  <2>3. e.term = t /\ e.dom = dom
    BY <2>2, EntryFields
  <2>4. i = 1 \/ i = 2
    OBVIOUS
  <2>5. CheckedAs(e, chosen.args[i]) \in
          {IF chosen.args[1] = Jsonb THEN dom ELSE chosen.args[1],
           IF chosen.args[2] = Jsonb THEN dom ELSE chosen.args[2]}
    BY <2>3, <2>4 DEF CheckedAs
  <2>6. Asks(CheckedAs(e, chosen.args[i]), t)
    BY <2>2, <2>5, WrappedAsked
  <2>7. t \in Terms
    BY <2>2, WrappedTerm
  <2> QED  BY <2>3, <2>6, <2>7, AskedYields
<1> QED  BY <1>1, AnswersInvHolds, PTL

(***************************************************************************)
(* The overload for exactly the operands' types.                           *)
(***************************************************************************)
Offered(op, s) == \E o \in DeclaredOperators : o.op = Op(op, s[1], s[2])

\* The type that stands for an operand: a literal's is the other operand's.
Taken(args, i) ==
  IF args[i] = Unknown THEN (IF args[1] = Unknown THEN args[2] ELSE args[1]) ELSE args[i]

LEMMA OfferedDeclared ==
  ASSUME NEW op \in OperatorSymbols, NEW s, s = <<s[1], s[2]>>, Offered(op, s)
  PROVE  Op(op, s[1], s[2]) \in OverloadsOf[op] /\ Declared(Op(op, s[1], s[2]))
<1>1. PICK o \in DeclaredOperators : o.op = Op(op, s[1], s[2])
  BY DEF Offered
<1>2. o.op.name = op /\ o.op.args = s
  BY <1>1, OperatorFields
<1>3. s \in DOMAIN OperatorTable[op]
  BY <1>2, DeclaredRow
<1>4. o.op \in Overloads /\ o.op # None
  BY MarkersAssumption DEF Overloads
<1> QED  BY <1>1, <1>2, <1>3, <1>4 DEF OverloadsOf, Declared

LEMMA ExactRuns ==
  ASSUME NEW op \in OperatorSymbols, NEW args, NEW s, s = <<s[1], s[2]>>, Offered(op, s),
         s[1] = Taken(args, 1), s[2] = Taken(args, 2)
  PROVE  Declared(Resolve(OverloadsOf[op], op, args))
<1> DEFINE known == IF args[1] = Unknown THEN args[2] ELSE args[1]
           same == [i \in 1 .. 2 |-> IF args[i] = Unknown THEN known ELSE args[i]]
           exact == Op(op, same[1], same[2])
           base == Op(op, Base(known), Base(known))
           best == BestOf(Viable(OverloadsOf[op], args), args)
<1>1. Resolve(OverloadsOf[op], op, args) =
        CASE exact \in OverloadsOf[op] -> exact
          [] exact \notin OverloadsOf[op] /\ Unknown \in ToSet(args) /\ base \in OverloadsOf[op] -> base
          [] OTHER -> IF Cardinality(best) > 1 /\ Unknown \in ToSet(args)
                        THEN Only(PreferText(best, args)) ELSE Only(best)
  BY DEF Resolve
<1>2. same[1] = Taken(args, 1) /\ same[2] = Taken(args, 2)
  BY DEF Taken
<1> HIDE DEF known, same, base, best
<1>3. exact = Op(op, s[1], s[2])
  BY <1>2
<1>4. exact \in OverloadsOf[op] /\ Declared(exact)
  BY <1>3, OfferedDeclared
<1> HIDE DEF exact
<1> QED  BY <1>1, <1>4

\* Every type that a column, an operand or a document can have.
LEMMA DomainsKnown ==
  /\ \A p \in Scalars : Column(p) \in JsonbDomains
  /\ \A p \in Queryables : Operand(p) \in JsonbDomains
  /\ JsonEntryType \in JsonbDomains /\ JsonSearchType \in JsonbDomains
  /\ \A T \in StorageTypes : T \in {JsonEntryType, JsonSearchType} \/ \E p \in Scalars : T = Column(p)
<1>1. TermDomains \subseteq HandWrittenTypes /\ \A T \in TermDomains : Len(T) = 2
  BY HandWrittenNames DEF TermDomains, HandWrittenTypes
<1>2. /\ \A p \in Scalars : Column(p) \notin TermDomains
      /\ \A p \in Queryables : Operand(p) \notin TermDomains
      /\ JsonEntryType \notin TermDomains /\ JsonSearchType \notin TermDomains
  BY <1>1, ColumnApart, OperandApart, HandWrittenNames
<1>3. ASSUME NEW p \in Scalars PROVE Column(p) \in JsonbDomains
  <2>1. DomainBlock(p[1], p[2]) \in Domains /\ DomainBlock(p[1], p[2]).typname = Column(p)
    BY BlocksListed, BlockFields
  <2> QED  BY <1>2, <2>1 DEF JsonbDomains
<1>4. ASSUME NEW p \in Queryables PROVE Operand(p) \in JsonbDomains
  <2>1. QueryDomainBlock(p[1], p[2]) \in Domains /\ QueryDomainBlock(p[1], p[2]).typname = Operand(p)
    BY BlocksListed, BlockFields
  <2> QED  BY <1>2, <2>1 DEF JsonbDomains
<1>5. ASSUME NEW T \in {JsonEntryType, JsonSearchType} PROVE T \in JsonbDomains
  <2>1. Bare(T) \in Domains /\ Bare(T).typname = T
    BY BlocksListed, BlockFields DEF HandWrittenTypes
  <2> QED  BY <1>2, <2>1 DEF JsonbDomains
<1>6. ASSUME NEW T \in StorageTypes
      PROVE  T \in {JsonEntryType, JsonSearchType} \/ \E p \in Scalars : T = Column(p)
  <2>1. PICK b \in Domains : b.typname = T /\ T \notin TermDomains /\ T[1] = "public"
    BY DEF StorageTypes, JsonbDomains
  <2>2. CASE \E p \in Scalars : b = DomainBlock(p[1], p[2])
    BY <2>1, <2>2, BlockFields
  <2>3. CASE \E p \in Queryables : b = QueryDomainBlock(p[1], p[2])
    <3>1. PICK p \in Queryables : b = QueryDomainBlock(p[1], p[2])
      BY <2>3
    <3>2. T[1] = "eql_v3"
      BY <2>1, <3>1, BlockFields, QueryablesTyped, OperandName
    <3> QED  BY <2>1, <3>2
  <2>4. CASE \E U \in HandWrittenTypes : b = Bare(U)
    <3>1. T \in HandWrittenTypes
      BY <2>1, <2>4, BlockFields
    <3> QED  BY <2>1, <3>1, HandWrittenNames DEF HandWrittenTypes, TermDomains
  <2> QED  BY <2>2, <2>3, <2>4, BlocksListed
<1> QED  BY <1>3, <1>4, <1>5, <1>6

LEMMA ColumnOffered ==
  ASSUME NEW p \in Scalars, NEW op \in OperatorSymbols, NEW sig \in Signatures(op)
  PROVE  Offered(op, At(sig, Column(p)))
<1> DEFINE o == OperatorEntry(op, At(sig, Column(p))[1], At(sig, Column(p))[2], ColumnAnswers(p, op, sig))
<1>1. o \in RenderOperatorsFile(p[1], p[2]).operators
  BY ColumnOperators
<1>2. RenderOperatorsFile(p[1], p[2]) \in OperatorsFiles
  BY DEF OperatorsFiles
<1>3. o \in DeclaredOperators
  BY <1>1, <1>2, DeclarationsListed
<1>4. o.op = Op(op, At(sig, Column(p))[1], At(sig, Column(p))[2])
  BY DEF OperatorEntry
<1> QED  BY <1>3, <1>4 DEF Offered

LEMMA SeamOffered ==
  ASSUME NEW p \in Queryables, JsonEntryTerm \in ToSet(p[2].terms), NEW op \in Comparisons, NEW s \in SeamPairs(p)
  PROVE  Offered(op, s)
<1> DEFINE r == <<op, s, op \in OrderOps /\ p[2] \in CrossDomains(p[1])>>
           o == OperatorEntry(r[1], r[2][1], r[2][2], r[3])
<1>1. p[1] \in CatalogFamilies /\ p[1] \in Seamed
  BY QueryablesTyped DEF Seamed, CrossCandidates, Queryable
<1>2. r \in CrossRows(p[1])
  BY <1>1, SeamRows
<1>3. o.op = Op(op, s[1], s[2])
  BY DEF OperatorEntry
<1> HIDE DEF r
<1>4. o \in RenderCrossOperators(p[1]).operators
  BY <1>1, <1>2, SeamOperators
<1>5. RenderCrossOperators(p[1]) \in OperatorsFiles
  BY <1>1 DEF OperatorsFiles
<1> HIDE DEF o
<1>6. o \in DeclaredOperators
  BY <1>4, <1>5, DeclarationsListed
<1> QED  BY <1>3, <1>6 DEF Offered

LEMMA DocumentOffered ==
  ASSUME NEW op, NEW a, NEW b, <<op, a, b>> \in JsonAnswered \union JsonBlocked
  PROVE  Offered(op, <<a, b>>)
<1> DEFINE r == <<op, a, b>>
<1>1. r[1] = op /\ r[2] = a /\ r[3] = b /\ <<a, b>>[1] = a /\ <<a, b>>[2] = b
  OBVIOUS
<1>2. PICK fn : \E c \in BothFiles : DeclareJson(r, fn) \in c.operators
  <2>1. r \in JsonAnswered => DeclareJson(r, DocumentFn(r)) \in JsonOperatorsFile.operators
    BY DEF JsonOperatorsFile, File
  <2>2. r \in JsonBlocked => DeclareJson(r, BlockedFn(r)) \in JsonBlockersFile.operators
    BY DEF JsonBlockersFile, File
  <2> HIDE DEF r
  <2>3. r \in JsonAnswered \union JsonBlocked
    BY DEF r
  <2> QED  BY <2>1, <2>2, <2>3 DEF BothFiles
<1>3. DeclareJson(r, fn).op = Op(op, a, b)
  BY <1>1, OperatorFields
<1>4. DeclareJson(r, fn) \in DeclaredOperators
  BY <1>2, DeclarationsListed
<1> QED  BY <1>1, <1>3, <1>4 DEF Offered

\* The signature that PostgreSQL looks for first, of an expression with T in the place of
\* a jsonb.
LEMMA NativeTaken ==
  ASSUME NEW op \in OperatorSymbols, NEW args, NEW T, T \in {args[1], args[2]}, T # Unknown, T \notin BaseTypes,
         InPlaceOfJsonb(T, op, args)
  PROVE  \E k \in NativeSlots(op) : LET s == <<Taken(args, 1), Taken(args, 2)>> IN
           IF k = "jsonb" THEN /\ s \in {<<T, Jsonb>>, <<Jsonb, T>>, <<T, T>>}
                               /\ s = <<T, T>> => Jsonb \notin {args[1], args[2]}
           ELSE s = <<T, <<k>> >>
<1> DEFINE s == <<Taken(args, 1), Taken(args, 2)>>
<1>1. PICK o \in JsonbOperators :
        /\ o.name = op
        /\ \A i \in 1 .. 2 : args[i] \in IF o.args[i] = Jsonb THEN {T, Jsonb, Unknown} ELSE {o.args[i]}
  BY DEF InPlaceOfJsonb
<1>2. PICK other \in OperatorSymbols : \E k \in NativeSlots(other) : o = Op(other, Jsonb, <<k>>)
  BY DEF JsonbOperators
<1>3. PICK k \in NativeSlots(other) : o = Op(other, Jsonb, <<k>>)
  BY <1>2
<1>4. other = op /\ o.args[1] = Jsonb /\ o.args[2] = <<k>>
  BY <1>1, <1>3 DEF Op, Object
<1>5. k \in {"jsonb", "text", "integer", "text[]", "jsonpath"}
  BY DEF NativeSlots
<1>6. /\ <<k>> \in BaseTypes /\ Jsonb \in BaseTypes
      /\ <<k>> = Jsonb <=> k = "jsonb"
  BY <1>5 DEF BaseTypes, Jsonb
<1>7. Unknown \notin BaseTypes
  BY MarkersAssumption
<1>8. /\ args[1] \in {T, Jsonb, Unknown}
      /\ args[2] \in IF k = "jsonb" THEN {T, Jsonb, Unknown} ELSE {<<k>>}
  BY <1>1, <1>4, <1>6
<1>9. CASE k = "jsonb"
  <2>1. /\ s \in {<<T, Jsonb>>, <<Jsonb, T>>, <<T, T>>}
        /\ s = <<T, T>> => Jsonb \notin {args[1], args[2]}
    BY <1>6, <1>7, <1>8, <1>9 DEF Taken
  <2> QED  BY <1>4, <1>9, <2>1
<1>10. CASE k # "jsonb"
  <2>1. args[1] = T /\ args[2] = <<k>>
    BY <1>6, <1>8, <1>10
  <2>2. s = <<T, <<k>> >>
    BY <1>6, <1>7, <2>1 DEF Taken
  <2> QED  BY <1>4, <1>10, <2>2
<1> QED  BY <1>9, <1>10

LEMMA NativeSigned ==
  ASSUME NEW op \in OperatorSymbols, NEW k \in NativeSlots(op)
  PROVE  IF k = "jsonb" THEN Signatures(op) = SymmetricSignatures ELSE <<"Domain", k>> \in Signatures(op)
BY DEF OperatorSymbols, NativeSlots, Signatures, Comparisons, EqualityOps, OrderOps,
   JsonpathSignatures,
       ArrowSignatures, DeleteSignatures, TextArraySignatures

LEMMA NativeOnColumn ==
  ASSUME NEW p \in Scalars, NEW op \in OperatorSymbols, NEW k \in NativeSlots(op), NEW s,
         IF k = "jsonb" THEN s \in ColumnPairs(p) ELSE s = <<Column(p), <<k>> >>
  PROVE  Offered(op, s)
<1>1. CASE k = "jsonb"
  <2>1. /\ At(<<"Domain", "jsonb">>, Column(p)) = <<Column(p), Jsonb>>
        /\ At(<<"jsonb", "Domain">>, Column(p)) = <<Jsonb, Column(p)>>
        /\ At(<<"Domain", "Domain">>, Column(p)) = <<Column(p), Column(p)>>
    BY DEF At, Rendered, Jsonb
  <2>2. \E sig \in Signatures(op) : s = At(sig, Column(p))
    BY <1>1, <2>1, NativeSigned DEF SymmetricSignatures, ColumnPairs
  <2> QED  BY <2>2, ColumnOffered
<1>2. CASE k # "jsonb"
  <2>1. k # "Domain"
    BY DEF NativeSlots
  <2>2. At(<<"Domain", k>>, Column(p)) = s
    BY <1>2, <2>1 DEF At, Rendered
  <2>3. <<"Domain", k>> \in Signatures(op)
    BY <1>2, NativeSigned
  <2> QED  BY <2>2, <2>3, ColumnOffered
<1> QED  BY <1>1, <1>2

LEMMA NativeOnDocument ==
  ASSUME NEW op \in OperatorSymbols, NEW k \in NativeSlots(op), NEW s,
         IF k = "jsonb" THEN s \in {<<JsonSearchType, Jsonb>>, <<Jsonb, JsonSearchType>>}
                               \/ (s = <<JsonSearchType, JsonSearchType>> /\ op # "||")
         ELSE s = <<JsonSearchType, <<k>> >>
  PROVE  Offered(op, s)
<1>1. CASE k = "jsonb"
  <2>1. op \in Comparisons \union {"@>", "<@", "||"}
    BY <1>1 DEF NativeSlots
  <2>2. CASE s = <<JsonSearchType, JsonSearchType>>
    <3>1. op \in Comparisons => <<op, JsonSearchType, JsonSearchType>> \in JsonBlocked
      BY DEF JsonBlocked
    <3>2. op \in {"@>", "<@"} => <<op, JsonSearchType, JsonSearchType>> \in JsonAnswered
      BY DEF JsonAnswered
    <3>3. op # "||"
      BY <1>1, <2>2, HandWrittenNames DEF Jsonb, BaseTypes
    <3> QED  BY <2>1, <2>2, <3>1, <3>2, <3>3, DocumentOffered
  <2>3. CASE s = <<JsonSearchType, Jsonb>>
    <3>1. <<op, JsonSearchType, Jsonb>> \in JsonBlocked
      BY <2>1 DEF JsonBlocked, BothWays
    <3> QED  BY <2>3, <3>1, DocumentOffered
  <2>4. CASE s = <<Jsonb, JsonSearchType>>
    <3>1. <<op, Jsonb, JsonSearchType>> \in JsonBlocked
      BY <2>1 DEF JsonBlocked, BothWays
    <3> QED  BY <2>4, <3>1, DocumentOffered
  <2> QED  BY <1>1, <2>2, <2>3, <2>4
<1>2. CASE k # "jsonb"
  <2>1. \/ op \in {"->", "->>"} /\ k \in {"text", "integer"}
        \/ <<op, k>> \in ({"?", "-"} \X {"text"}) \union ({"?|", "?&", "#>", "#>>", "-", "#-"} \X {"text[]"})
                           \union ({"@?", "@@"} \X {"jsonpath"}) \union {<<"-", "integer">>}
    BY <1>2 DEF NativeSlots, OperatorSymbols
  <2>2. CASE op \in {"->", "->>"} /\ k \in {"text", "integer"}
    <3>1. <<op, JsonSearchType, <<k>> >> \in JsonAnswered
      BY <2>2 DEF JsonAnswered
    <3> QED  BY <1>2, <3>1, DocumentOffered
  <2>3. CASE <<op, k>> \in ({"?", "-"} \X {"text"}) \union ({"?|", "?&", "#>", "#>>", "-", "#-"} \X {"text[]"})
                             \union ({"@?", "@@"} \X {"jsonpath"}) \union {<<"-", "integer">>}
    <3> DEFINE z == <<op, k>>
    <3>1. z[1] = op /\ z[2] = k
      OBVIOUS
    <3> HIDE DEF z
    <3>2. <<z[1], JsonSearchType, <<z[2]>> >> \in JsonBlocked
      BY <2>3 DEF JsonBlocked, z
    <3>3. <<op, JsonSearchType, <<k>> >> \in JsonBlocked
      BY <3>1, <3>2
    <3> QED  BY <1>2, <3>3, DocumentOffered
  <2> QED  BY <2>1, <2>2, <2>3
<1> QED  BY <1>1, <1>2

\* What an expression's overload was chosen for.
ChosenInv ==
  phase = "resolved" =>
    /\ asked.op \in OperatorSymbols
    /\ \A i \in 1 .. 2 : asked.args[i] \in JsonbDomains \union BaseTypes \union {Unknown}
    /\ ToSet(asked.args) = {asked.args[1], asked.args[2]}
    /\ chosen = Resolve(OverloadsOf[asked.op], asked.op, asked.args)

LEMMA ChosenInvStep == ChosenInv /\ [Next]_vars => ChosenInv'
<1> SUFFICES ASSUME ChosenInv, [Next]_vars PROVE ChosenInv'
  OBVIOUS
<1>1. CASE Require
  BY <1>1 DEF Require, ChosenInv
<1>2. CASE RunFile
  BY <1>2 DEF RunFile, ChosenInv
<1>3. CASE Ask
  <2>1. PICK e \in Expressions : asked' = e /\ chosen' = Resolve(OverloadsOf[e.op], e.op, e.args)
    BY <1>3 DEF Ask
  <2> DEFINE types == JsonbDomains \union BaseTypes \union {Unknown}
  <2>2. e.op \in OperatorSymbols /\ e.args \in types \X types
    BY DEF Expressions
  <2> HIDE DEF types
  <2>3. PICK a \in types, b \in types : e.args = <<a, b>>
    BY <2>2
  <2>4. ToSet(e.args) = {a, b} /\ e.args[1] = a /\ e.args[2] = b
    BY <2>3, TupleElements
  <2> QED  BY <2>1, <2>2, <2>4 DEF ChosenInv, types
<1>4. CASE \E x, y \in Plaintexts : Answer(x, y)
  BY <1>4 DEF Answer, ChosenInv
<1>5. CASE Commute
  BY <1>5 DEF Commute, ChosenInv
<1>6. CASE Negate
  BY <1>6 DEF Negate, ChosenInv
<1>7. CASE UNCHANGED vars
  BY <1>7 DEF vars, ChosenInv
<1> QED  BY <1>1, <1>2, <1>3, <1>4, <1>5, <1>6, <1>7 DEF Next

(* What runs for an expression of columns, base types and literals is the overload that    *)
(* PostgreSQL resolves it to.                                                            *)
THEOREM ChosenInvHolds == Spec => []ChosenInv
<1>1. Init => ChosenInv
  BY DEF Init, ChosenInv
<1> QED  BY <1>1, ChosenInvStep, PTL DEF Spec

(* At every signature of jsonb's own operators, with a column in the place of jsonb, an   *)
(* operator of EQL runs: no query falls through to jsonb and reads ciphertext as a value. *)
THEOREM NativeSignaturesBlocked == Spec => []NativeSignatureBlocked
<1>1. ASSUME ChosenInv PROVE NativeSignatureBlocked
  <2> SUFFICES ASSUME phase = "resolved",
                      NEW T \in (StorageTypes \ {JsonEntryType}) \intersect ToSet(asked.args),
                      InPlaceOfJsonb(T, asked.op, asked.args),
                      ~ (T = JsonSearchType /\ asked.op = "||" /\ Jsonb \notin ToSet(asked.args))
               PROVE  Declared(chosen)
    BY DEF NativeSignatureBlocked
  <2> DEFINE op == asked.op
             args == asked.args
             s == <<Taken(args, 1), Taken(args, 2)>>
  <2>1. op \in OperatorSymbols /\ ToSet(args) = {args[1], args[2]} /\ chosen = Resolve(OverloadsOf[op], op, args)
    BY <1>1 DEF ChosenInv
  <2>2. s = <<s[1], s[2]>> /\ s[1] = Taken(args, 1) /\ s[2] = Taken(args, 2)
    OBVIOUS
  <2>3. T \in JsonbDomains /\ T # Unknown
    BY MarkersAssumption DEF StorageTypes
  <2>4. T = JsonSearchType \/ \E p \in Scalars : T = Column(p)
    BY DomainsKnown
  <2>5. T \notin BaseTypes
    BY <2>4, ColumnApart, HandWrittenNames
  <2>6. PICK k \in NativeSlots(op) :
          IF k = "jsonb" THEN /\ s \in {<<T, Jsonb>>, <<Jsonb, T>>, <<T, T>>}
                              /\ s = <<T, T>> => Jsonb \notin {args[1], args[2]}
          ELSE s = <<T, <<k>> >>
    BY <2>1, <2>3, <2>5, NativeTaken
  <2> HIDE DEF op, args, s
  <2>7. Offered(op, s)
    <3>1. CASE T = JsonSearchType
      <4>1. op = "||" => Jsonb \in {args[1], args[2]}
        BY <2>1, <3>1 DEF op, args
      <4> QED  BY <2>1, <2>6, <3>1, <4>1, NativeOnDocument
    <3>2. CASE \E p \in Scalars : T = Column(p)
      BY <2>1, <2>6, <3>2, NativeOnColumn DEF ColumnPairs
    <3> QED  BY <2>4, <3>1, <3>2
  <2> QED  BY <2>1, <2>2, <2>7, ExactRuns
<1> QED  BY <1>1, ChosenInvHolds, PTL

(* An entry compared with a query operand that has its term is answered or refused by    *)
(* EQL, in either order.                                                               *)
THEOREM SeamsClosed == Spec => []SeamClosed
<1>1. ASSUME ChosenInv PROVE SeamClosed
  <2> SUFFICES ASSUME phase = "resolved", asked.op \in Comparisons, NEW f \in CatalogFamilies,
                      NEW T \in CrossOperands(f), asked.args \in BothWays(JsonEntryType, T)
               PROVE  Declared(chosen)
    BY DEF SeamClosed
  <2> DEFINE op == asked.op
             args == asked.args
  <2>1. op \in OperatorSymbols /\ chosen = Resolve(OverloadsOf[op], op, args)
    BY <1>1 DEF ChosenInv
  <2>2. PICK d \in CrossCandidates(f) : T = QueryDomainName(f, d)
    BY DEF CrossOperands
  <2> DEFINE p == <<f, d>>
  <2>3. p \in Queryables /\ JsonEntryTerm \in ToSet(p[2].terms) /\ T = Operand(p)
    <3>1. d \in DomainsOf(f) /\ JsonEntryTerm \in ToSet(d.terms)
      BY DEF CrossCandidates
    <3>2. d.terms # <<>>
      BY <3>1, TupleElements
    <3> QED  BY <2>2, <3>1, <3>2, WithTerms DEF Operand
  <2> HIDE DEF p
  <2>4. args \in SeamPairs(p) /\ args = <<args[1], args[2]>> /\ {args[1], args[2]} \subseteq {JsonEntryType, T}
    BY <2>3 DEF SeamPairs, BothWays
  <2>5. JsonEntryType # Unknown /\ T # Unknown
    BY <2>3, DomainsKnown, MarkersAssumption
  <2>6. args[1] = Taken(args, 1) /\ args[2] = Taken(args, 2)
    BY <2>4, <2>5 DEF Taken
  <2>7. Offered(op, args)
    BY <2>3, <2>4, SeamOffered
  <2> HIDE DEF op, args
  <2> QED  BY <2>1, <2>4, <2>6, <2>7, ExactRuns
<1> QED  BY <1>1, ChosenInvHolds, PTL

(***************************************************************************)
(* Installation: the files, one by one.                                    *)
(***************************************************************************)
LEMMA RowsListed ==
  ASSUME NEW r \in Rows
  PROVE  \/ \E path \in PlainPaths : r = <<path, PlainFile(path)>>
         \/ \E t \in Terms : r \in TermSqlFiles(t)
         \/ r \in OreFiles \union JsonFiles \union {FallbackRow}
         \/ \E f \in CatalogFamilies : r = TypesRow(f)
         \/ \E f \in Queried : r = QueryTypesRow(f)
         \/ \E f \in Seamed : r \in {SeamFunctionsRow(f), SeamOperatorsRow(f)}
         \/ \E p \in Scalars : r \in {ColumnFunctionsRow(p), ColumnOperatorsRow(p)}
         \/ \E p \in Queryables : r \in {OperandFunctionsRow(p), OperandOperatorsRow(p)}
         \/ \E p \in Ordered : r = AggregatesRow(p)
<1>1. r \in HandWrittenFiles \/ r \in FamilyRows \/ r \in DomainRows \/ r = FallbackRow
  BY GeneratedListed DEF Rows
<1>2. CASE r \in HandWrittenFiles
  BY <1>2 DEF HandWrittenFiles
<1>3. CASE r \in FamilyRows
  BY <1>3 DEF FamilyRows
<1>4. CASE r \in DomainRows
  BY <1>4 DEF DomainRows
<1> QED  BY <1>1, <1>2, <1>3, <1>4

LEMMA RowsInstalled ==
  /\ \A path \in PlainPaths : <<path, PlainFile(path)>> \in Rows
  /\ \A t \in Terms : TermSqlFiles(t) \subseteq Rows
  /\ OreFiles \union JsonFiles \union {FallbackRow} \subseteq Rows
  /\ \A f \in CatalogFamilies : TypesRow(f) \in Rows
  /\ \A f \in Queried : QueryTypesRow(f) \in Rows
  /\ \A f \in Seamed : SeamFunctionsRow(f) \in Rows /\ SeamOperatorsRow(f) \in Rows
  /\ \A p \in Scalars : ColumnFunctionsRow(p) \in Rows /\ ColumnOperatorsRow(p) \in Rows
  /\ \A p \in Queryables : OperandFunctionsRow(p) \in Rows /\ OperandOperatorsRow(p) \in Rows
  /\ \A p \in Ordered : AggregatesRow(p) \in Rows
<1>1. HandWrittenFiles \subseteq Rows /\ FamilyRows \subseteq Rows /\ DomainRows \subseteq Rows /\ FallbackRow \in Rows
  BY GeneratedListed DEF Rows
<1>2. /\ \A path \in PlainPaths : <<path, PlainFile(path)>> \in HandWrittenFiles
      /\ \A t \in Terms : TermSqlFiles(t) \subseteq HandWrittenFiles
      /\ OreFiles \union JsonFiles \subseteq HandWrittenFiles
  BY DEF HandWrittenFiles
<1>3. /\ \A f \in CatalogFamilies : TypesRow(f) \in FamilyRows
      /\ \A f \in Queried : QueryTypesRow(f) \in FamilyRows
      /\ \A f \in Seamed : SeamFunctionsRow(f) \in FamilyRows /\ SeamOperatorsRow(f) \in FamilyRows
  BY DEF FamilyRows
<1>4. /\ \A p \in Scalars : ColumnFunctionsRow(p) \in DomainRows /\ ColumnOperatorsRow(p) \in DomainRows
      /\ \A p \in Queryables : OperandFunctionsRow(p) \in DomainRows /\ OperandOperatorsRow(p) \in DomainRows
      /\ \A p \in Ordered : AggregatesRow(p) \in DomainRows
  BY DEF DomainRows
<1> QED  BY <1>1, <1>2, <1>3, <1>4

LEMMA PathsInstalled ==
  /\ PlainPaths \subseteq DOMAIN Files
  /\ \A t \in Terms : TermTypesPath(t) \in DOMAIN Files /\ TermFunctionsPath(t) \in DOMAIN Files
  /\ {OreOperators, OreOpclass, JsonTypes, JsonFunctions} \subseteq DOMAIN Files
  /\ \A f \in CatalogFamilies : TypesPath(f) \in DOMAIN Files
  /\ \A f \in Queried : QueryTypesPath(f) \in DOMAIN Files
  /\ \A f \in Seamed : FunctionsPath(f, JsonEntryStem(f)) \in DOMAIN Files
  /\ \A p \in Scalars : /\ FunctionsPath(p[1], ColumnStem(p)) \in DOMAIN Files
                        /\ OperatorsPath(p[1], ColumnStem(p)) \in DOMAIN Files
  /\ \A p \in Queryables : FunctionsPath(p[1], OperandStem(p)) \in DOMAIN Files
<1>1. ASSUME NEW path, NEW content, <<path, content>> \in Rows PROVE path \in DOMAIN Files
  BY <1>1, Installed
<1>2. ASSUME NEW path \in PlainPaths PROVE path \in DOMAIN Files
  BY <1>1, RowsInstalled
<1>3. ASSUME NEW t \in Terms PROVE TermTypesPath(t) \in DOMAIN Files /\ TermFunctionsPath(t) \in DOMAIN Files
  <2>1. /\ <<TermTypesPath(t), TermTypesFile(t)>> \in Rows
        /\ <<TermFunctionsPath(t), TermFunctionsFile(t)>> \in Rows
    BY RowsInstalled DEF TermSqlFiles
  <2> QED  BY <1>1, <2>1
<1>4. {OreOperators, OreOpclass, JsonTypes, JsonFunctions} \subseteq DOMAIN Files
  <2>1. /\ <<OreOperators, OreOperatorsFile>> \in Rows /\ <<OreOpclass, OreOpclassFile>> \in Rows
        /\ <<JsonTypes, JsonTypesFile>> \in Rows /\ <<JsonFunctions, JsonFunctionsFile>> \in Rows
    BY RowsInstalled DEF OreFiles, JsonFiles
  <2> QED  BY <1>1, <2>1
<1>5. ASSUME NEW f \in CatalogFamilies PROVE TypesPath(f) \in DOMAIN Files
  BY <1>1, RowsInstalled DEF TypesRow
<1>6. ASSUME NEW f \in Queried PROVE QueryTypesPath(f) \in DOMAIN Files
  BY <1>1, RowsInstalled DEF QueryTypesRow
<1>7. ASSUME NEW f \in Seamed PROVE FunctionsPath(f, JsonEntryStem(f)) \in DOMAIN Files
  BY <1>1, RowsInstalled DEF SeamFunctionsRow
<1>8. ASSUME NEW p \in Scalars PROVE /\ FunctionsPath(p[1], ColumnStem(p)) \in DOMAIN Files
                                     /\ OperatorsPath(p[1], ColumnStem(p)) \in DOMAIN Files
  <2>1. ColumnFunctionsRow(p) \in Rows /\ ColumnOperatorsRow(p) \in Rows
    BY RowsInstalled
  <2> QED  BY <1>1, <2>1 DEF ColumnFunctionsRow, ColumnOperatorsRow
<1>9. ASSUME NEW p \in Queryables PROVE FunctionsPath(p[1], OperandStem(p)) \in DOMAIN Files
  <2>1. OperandFunctionsRow(p) \in Rows
    BY RowsInstalled
  <2> QED  BY <1>1, <2>1 DEF OperandFunctionsRow
<1> QED  BY <1>2, <1>3, <1>4, <1>5, <1>6, <1>7, <1>8, <1>9

LEMMA TermFilesInstalled ==
  ASSUME NEW t \in Terms
  PROVE  /\ TermFiles[t] \subseteq DOMAIN Files
         /\ TermFunctionsPath(t) \in TermFiles[t]
         /\ t = "Ore" => OreOperators \in TermFiles[t]
         /\ TermPrerequisites(t) \subseteq DOMAIN Files
<1>1. TermFiles[t] = IF t = "Ore" THEN {TermFunctionsPath(t), OreOperators} ELSE {TermFunctionsPath(t)}
  <2>1. /\ TermFiles["Hm"] = {<<Ctor["Hm"], "functions">>} /\ TermFiles["Bloom"] = {<<Ctor["Bloom"], "functions">>}
        /\ TermFiles["Ope"] = {<<Ctor["Ope"], "functions">>}
    BY DEF TermFiles, Ctor
  <2>2. TermFiles["Ore"] = {<<Ctor["Ore"], "functions">>, OreOperators}
    BY DEF TermFiles, Ctor, OreOperators
  <2> QED  BY <2>1, <2>2 DEF TermFunctionsPath, Terms
<1>2. {<<"crypto">>, <<"common">>, Schema} \subseteq PlainPaths
  BY DEF PlainPaths
<1> QED  BY <1>1, <1>2, PathsInstalled DEF TermPrerequisites

\* What each file asks for.
LEMMA RequiresOf ==
  /\ \A path : PlainFile(path).requires \subseteq {Schema}
  /\ \A t : TermTypesFile(t).requires = {Schema} /\ TermFunctionsFile(t).requires = TermPrerequisites(t)
  /\ OreOperatorsFile.requires = OreRequires /\ OreOpclassFile.requires = OreRequires \union {OreOperators}
  /\ JsonTypesFile.requires = {Schema}
  /\ JsonFunctionsFile.requires =
       {Schema, JsonTypes, TermTypesPath(JsonEntryTerm), TermFunctionsPath(JsonEntryTerm)}
  /\ JsonOperatorsFile.requires =
       {Schema, JsonTypes, JsonFunctions, ScalarsBlocker, TermTypesPath(JsonEntryTerm)}
  /\ JsonBlockersFile.requires = {Schema, JsonTypes, ScalarsBlocker}
  /\ JsonAggregatesFile.requires = {JsonTypes, JsonFunctions, TermTypesPath(JsonEntryTerm)}
  /\ \A f : RenderTypesFile(f).requires = {Schema} /\ RenderQueryTypesFile(f).requires = {Schema}
  /\ \A f : RenderCrossFunctions(f).requires =
              {Schema, JsonTypes, JsonFunctions, QueryTypesPath(f)}
                \union {FunctionsPath(f, QueryName(f, d)) : d \in CrossDomains(f)}
  /\ \A f : RenderCrossOperators(f).requires =
              {Schema, JsonTypes, QueryTypesPath(f), FunctionsPath(f, JsonEntryStem(f))}
  /\ \A p : RenderFunctionsFile(p[1], p[2]).requires =
              {Schema, TypesPath(p[1]), ScalarsBlocker} \union TermRequires(p[2].terms)
  /\ \A p : RenderOperatorsFile(p[1], p[2]).requires =
              {Schema, TypesPath(p[1]), FunctionsPath(p[1], ColumnStem(p))}
  /\ \A p : RenderQueryFunctionsFile(p[1], p[2]).requires =
              {Schema, QueryTypesPath(p[1]), FunctionsPath(p[1], ColumnStem(p))}
  /\ \A p : RenderQueryOperatorsFile(p[1], p[2]).requires =
              {Schema, QueryTypesPath(p[1]), FunctionsPath(p[1], OperandStem(p))}
  /\ \A p : RenderAggregatesFile(p[1], p[2]).requires =
              {Schema, TypesPath(p[1]), FunctionsPath(p[1], ColumnStem(p)), OperatorsPath(p[1], ColumnStem(p))}
  /\ RenderOreFallback.requires =
       {Schema, OreOpclass} \union UNION {{TypesPath(f), QueryTypesPath(f)} : f \in OreFamilies}
<1>1. \A path : PlainFile(path).requires \subseteq {Schema}
  BY DEF PlainFile, File
<1>2. \A t : TermTypesFile(t).requires = {Schema} /\ TermFunctionsFile(t).requires = TermPrerequisites(t)
  BY DEF TermTypesFile, TermFunctionsFile, TypesOnly, FunctionsFile, File
<1>3. OreOperatorsFile.requires = OreRequires /\ OreOpclassFile.requires = OreRequires \union {OreOperators}
  BY DEF OreOperatorsFile, OreOpclassFile, File
<1>4. /\ JsonTypesFile.requires = {Schema}
      /\ JsonFunctionsFile.requires =
           {Schema, JsonTypes, TermTypesPath(JsonEntryTerm), TermFunctionsPath(JsonEntryTerm)}
      /\ JsonAggregatesFile.requires = {JsonTypes, JsonFunctions, TermTypesPath(JsonEntryTerm)}
  BY DEF JsonTypesFile, JsonFunctionsFile, JsonAggregatesFile, TypesOnly, FunctionsFile, File
<1>5. /\ JsonOperatorsFile.requires =
           {Schema, JsonTypes, JsonFunctions, ScalarsBlocker, TermTypesPath(JsonEntryTerm)}
      /\ JsonBlockersFile.requires = {Schema, JsonTypes, ScalarsBlocker}
  BY DEF JsonOperatorsFile, JsonBlockersFile, File
<1>6. \A f : RenderTypesFile(f).requires = {Schema} /\ RenderQueryTypesFile(f).requires = {Schema}
  BY DEF RenderTypesFile, RenderQueryTypesFile, TypesOnly, File
<1>7. \A f : RenderCrossFunctions(f).requires =
               {Schema, JsonTypes, JsonFunctions, QueryTypesPath(f)}
                 \union {FunctionsPath(f, QueryName(f, d)) : d \in CrossDomains(f)}
  BY DEF RenderCrossFunctions, FunctionsFile, File
<1>8. \A f : RenderCrossOperators(f).requires =
               {Schema, JsonTypes, QueryTypesPath(f), FunctionsPath(f, JsonEntryStem(f))}
  BY DEF RenderCrossOperators, OperatorsFile, File
<1>9. \A p : RenderFunctionsFile(p[1], p[2]).requires =
               {Schema, TypesPath(p[1]), ScalarsBlocker} \union TermRequires(p[2].terms)
  BY DEF RenderFunctionsFile, FunctionsRequires, FunctionsFile, File
<1>10. \A p : RenderOperatorsFile(p[1], p[2]).requires =
                {Schema, TypesPath(p[1]), FunctionsPath(p[1], ColumnStem(p))}
  BY DEF RenderOperatorsFile, OperatorsFile, File, ColumnStem
<1>11. \A p : RenderQueryFunctionsFile(p[1], p[2]).requires =
                {Schema, QueryTypesPath(p[1]), FunctionsPath(p[1], ColumnStem(p))}
  BY DEF RenderQueryFunctionsFile, FunctionsFile, File, ColumnStem
<1>12. \A p : RenderQueryOperatorsFile(p[1], p[2]).requires =
                {Schema, QueryTypesPath(p[1]), FunctionsPath(p[1], OperandStem(p))}
  BY DEF RenderQueryOperatorsFile, OperatorsFile, File, OperandStem
<1>13. \A p : RenderAggregatesFile(p[1], p[2]).requires =
                {Schema, TypesPath(p[1]), FunctionsPath(p[1], ColumnStem(p)), OperatorsPath(p[1], ColumnStem(p))}
  BY DEF RenderAggregatesFile, File, ColumnStem
<1>14. RenderOreFallback.requires =
         {Schema, OreOpclass} \union UNION {{TypesPath(f), QueryTypesPath(f)} : f \in OreFamilies}
  BY DEF RenderOreFallback, File
<1> QED  BY <1>1, <1>2, <1>3, <1>4, <1>5, <1>6, <1>7, <1>8, <1>9, <1>10, <1>11, <1>12, <1>13,
            <1>14, Zenon

\* The domains that are compared with an entry, and those with an ORE term, have operands.
LEMMA SeamDomains ==
  ASSUME NEW f \in CatalogFamilies, NEW d \in CrossCandidates(f)
  PROVE  <<f, d>> \in Queryables /\ JsonEntryTerm \in ToSet(d.terms) /\ f \in Queried /\ f \in Seamed
<1>1. d \in DomainsOf(f) /\ JsonEntryTerm \in ToSet(d.terms)
  BY DEF CrossCandidates
<1>2. d.terms # <<>>
  BY <1>1, TupleElements
<1> QED  BY <1>1, <1>2, WithTerms DEF Queried, Queryable, Seamed

LEMMA OreDomainsQueried ==
  ASSUME NEW f \in OreFamilies
  PROVE  f \in CatalogFamilies /\ f \in Queried /\ \A d \in OreDomains(f) : <<f, d>> \in Queryables
<1>1. f \in CatalogFamilies /\ OreDomains(f) # {}
  BY DEF OreFamilies, ScalarFamilies
<1>2. ASSUME NEW d \in OreDomains(f) PROVE <<f, d>> \in Queryables /\ f \in Queried
  <2>1. d \in DomainsOf(f) /\ "Ore" \in ToSet(d.terms)
    BY DEF OreDomains
  <2>2. d.terms # <<>>
    BY <2>1, TupleElements
  <2> QED  BY <1>1, <2>1, <2>2, WithTerms DEF Queried, Queryable
<1> QED  BY <1>1, <1>2

\* Whatever a file requires is a file of the installer.
LEMMA RequiresInstalled ==
  ASSUME NEW r \in Rows
  PROVE  r[2].requires \subseteq DOMAIN Files
<1>1. Schema \in PlainPaths /\ ScalarsBlocker \in PlainPaths
  BY DEF PlainPaths
<1>2. Schema \in DOMAIN Files /\ ScalarsBlocker \in DOMAIN Files
  BY <1>1, PathsInstalled
<1>3. JsonEntryTerm \in Terms /\ "Ore" \in Terms
  BY DEF JsonEntryTerm, Terms
<1>4. CASE \E path \in PlainPaths : r = <<path, PlainFile(path)>>
  BY <1>2, <1>4, RequiresOf
<1>5. CASE \E t \in Terms : r \in TermSqlFiles(t)
  <2>1. PICK t \in Terms : r[2] \in {TermTypesFile(t), TermFunctionsFile(t)}
    BY <1>5 DEF TermSqlFiles
  <2>2. TermTypesFile(t).requires = {Schema} /\ TermFunctionsFile(t).requires = TermPrerequisites(t)
    BY RequiresOf
  <2> QED  BY <1>2, <2>1, <2>2, TermFilesInstalled
<1>6. CASE r \in OreFiles
  <2>1. r[2] \in {OreOperatorsFile, OreOpclassFile}
    BY <1>6 DEF OreFiles
  <2>2. OreRequires \union {OreOperators} \subseteq DOMAIN Files
    BY <1>2, <1>3, PathsInstalled DEF OreRequires
  <2>3. OreOperatorsFile.requires = OreRequires /\ OreOpclassFile.requires = OreRequires \union {OreOperators}
    BY RequiresOf
  <2> QED  BY <2>1, <2>2, <2>3
<1>7. CASE r \in JsonFiles
  <2>1. r[2] \in {JsonTypesFile, JsonFunctionsFile, JsonOperatorsFile, JsonBlockersFile, JsonAggregatesFile}
    BY <1>7 DEF JsonFiles
  <2>2. {JsonTypes, JsonFunctions, TermTypesPath(JsonEntryTerm), TermFunctionsPath(JsonEntryTerm)}
          \subseteq DOMAIN Files
    BY <1>3, PathsInstalled
  <2> QED  BY <1>2, <2>1, <2>2, RequiresOf
<1>8. CASE r = FallbackRow
  <2>1. r[2].requires = {Schema, OreOpclass} \union UNION {{TypesPath(f), QueryTypesPath(f)} : f \in OreFamilies}
    BY <1>8, RequiresOf DEF FallbackRow
  <2>2. OreOpclass \in DOMAIN Files
    BY PathsInstalled
  <2>3. \A f \in OreFamilies : TypesPath(f) \in DOMAIN Files /\ QueryTypesPath(f) \in DOMAIN Files
    BY OreDomainsQueried, PathsInstalled
  <2> QED  BY <1>2, <2>1, <2>2, <2>3
<1>9. CASE (\E f \in CatalogFamilies : r = TypesRow(f)) \/ \E f \in Queried : r = QueryTypesRow(f)
  <2>1. r[2].requires = {Schema}
    BY <1>9, RequiresOf DEF TypesRow, QueryTypesRow
  <2> QED  BY <1>2, <2>1
<1>10. CASE \E f \in Seamed : r \in {SeamFunctionsRow(f), SeamOperatorsRow(f)}
  <2>1. PICK f \in Seamed : r[2] \in {RenderCrossFunctions(f), RenderCrossOperators(f)}
    BY <1>10 DEF SeamFunctionsRow, SeamOperatorsRow
  <2>2. f \in CatalogFamilies /\ f \in Queried
    BY SeamDomains DEF Seamed
  <2>3. {JsonTypes, JsonFunctions, QueryTypesPath(f), FunctionsPath(f, JsonEntryStem(f))} \subseteq DOMAIN Files
    BY <2>2, PathsInstalled
  <2>4. ASSUME NEW d \in CrossDomains(f) PROVE FunctionsPath(f, QueryName(f, d)) \in DOMAIN Files
    <3> DEFINE p == <<f, d>>
    <3>1. p \in Queryables
      BY <2>2, SeamDomains DEF CrossDomains
    <3>2. p[1] = f /\ OperandStem(p) = QueryName(f, d)
      BY DEF OperandStem
    <3> HIDE DEF p
    <3> QED  BY <3>1, <3>2, PathsInstalled
  <2>5. /\ RenderCrossFunctions(f).requires =
              {Schema, JsonTypes, JsonFunctions, QueryTypesPath(f)}
                \union {FunctionsPath(f, QueryName(f, d)) : d \in CrossDomains(f)}
        /\ RenderCrossOperators(f).requires =
              {Schema, JsonTypes, QueryTypesPath(f), FunctionsPath(f, JsonEntryStem(f))}
    BY RequiresOf
  <2> QED  BY <1>2, <2>1, <2>3, <2>4, <2>5
<1>11. CASE \E p \in Scalars : r \in {ColumnFunctionsRow(p), ColumnOperatorsRow(p)}
  <2>1. PICK p \in Scalars : r[2] \in {RenderFunctionsFile(p[1], p[2]), RenderOperatorsFile(p[1], p[2])}
    BY <1>11 DEF ColumnFunctionsRow, ColumnOperatorsRow
  <2>2. p[1] \in CatalogFamilies /\ ToSet(p[2].terms) \subseteq Terms
    BY ScalarsTyped
  <2>3. TypesPath(p[1]) \in DOMAIN Files /\ FunctionsPath(p[1], ColumnStem(p)) \in DOMAIN Files
    BY <2>2, PathsInstalled
  <2>4. TermRequires(p[2].terms) \subseteq DOMAIN Files
    BY <2>2, TermFilesInstalled DEF TermRequires
  <2>5. /\ RenderFunctionsFile(p[1], p[2]).requires =
             {Schema, TypesPath(p[1]), ScalarsBlocker} \union TermRequires(p[2].terms)
        /\ RenderOperatorsFile(p[1], p[2]).requires =
             {Schema, TypesPath(p[1]), FunctionsPath(p[1], ColumnStem(p))}
    BY RequiresOf
  <2> QED  BY <1>2, <2>1, <2>3, <2>4, <2>5
<1>12. CASE \E p \in Queryables : r \in {OperandFunctionsRow(p), OperandOperatorsRow(p)}
  <2>1. PICK p \in Queryables : r[2] \in {RenderQueryFunctionsFile(p[1], p[2]), RenderQueryOperatorsFile(p[1], p[2])}
    BY <1>12 DEF OperandFunctionsRow, OperandOperatorsRow
  <2>2. /\ QueryTypesPath(p[1]) \in DOMAIN Files /\ FunctionsPath(p[1], ColumnStem(p)) \in DOMAIN Files
        /\ FunctionsPath(p[1], OperandStem(p)) \in DOMAIN Files
    BY QueryablesTyped, PathsInstalled
  <2>3. /\ RenderQueryFunctionsFile(p[1], p[2]).requires =
             {Schema, QueryTypesPath(p[1]), FunctionsPath(p[1], ColumnStem(p))}
        /\ RenderQueryOperatorsFile(p[1], p[2]).requires =
             {Schema, QueryTypesPath(p[1]), FunctionsPath(p[1], OperandStem(p))}
    BY RequiresOf
  <2> QED  BY <1>2, <2>1, <2>2, <2>3
<1>13. CASE \E p \in Ordered : r = AggregatesRow(p)
  <2>1. PICK p \in Ordered : r[2] = RenderAggregatesFile(p[1], p[2])
    BY <1>13 DEF AggregatesRow
  <2>2. p \in Scalars /\ p[1] \in CatalogFamilies
    BY ScalarsTyped DEF Ordered
  <2>3. r[2].requires =
          {Schema, TypesPath(p[1]), FunctionsPath(p[1], ColumnStem(p)), OperatorsPath(p[1], ColumnStem(p))}
    BY <2>1, RequiresOf
  <2> QED  BY <1>2, <2>2, <2>3, PathsInstalled
<1> QED  BY <1>4, <1>5, <1>6, <1>7, <1>8, <1>9, <1>10, <1>11, <1>12, <1>13, RowsListed

(***************************************************************************)
(* Files that come with all they require, and what they bring.             *)
(***************************************************************************)
Closed(paths) == paths \subseteq DOMAIN Files /\ RequiredBy(paths) \subseteq paths
Provided(paths) == UNION {Creates(Files[q]) : q \in paths}

LEMMA ClosedRow ==
  ASSUME NEW M, Closed(M), NEW r \in Rows, r[1] \in M
  PROVE  r[2].requires \subseteq M /\ Creates(r[2]) \subseteq Provided(M)
<1>1. Files[r[1]] = r[2]
  BY Installed
<1> QED  BY <1>1 DEF Closed, RequiredBy, Provided

LEMMA CreatesParts ==
  ASSUME NEW c
  PROVE  /\ \A b \in c.types : Type(b.typname) \in Creates(c)
         /\ \A e \in c.functions : e.fn \in Creates(c)
         /\ \A o \in c.operators : o.op \in Creates(c)
BY DEF Creates

\* The blocks of each file of types.
LEMMA TypesOf ==
  /\ \A p \in Scalars : DomainBlock(p[1], p[2]) \in RenderTypesFile(p[1]).types
  /\ \A p \in Queryables : QueryDomainBlock(p[1], p[2]) \in RenderQueryTypesFile(p[1]).types
  /\ \A t : TermTypesFile(t).types = {Bare(TermType(t))}
  /\ JsonTypesFile.types = {Bare(JsonSearchType), Bare(JsonEntryType), Bare(JsonQueryType)}
<1>1. ASSUME NEW p \in Scalars PROVE DomainBlock(p[1], p[2]) \in RenderTypesFile(p[1]).types
  <2>1. p[2] \in DomainsOf(p[1]) /\ IsScalar(p[2])
    BY ScalarsTyped
  <2> QED  BY <2>1 DEF RenderTypesFile, TypesOnly, File
<1>2. ASSUME NEW p \in Queryables PROVE QueryDomainBlock(p[1], p[2]) \in RenderQueryTypesFile(p[1]).types
  <2>1. p[2] \in Queryable(p[1])
    BY QueryablesTyped
  <2> QED  BY <2>1 DEF RenderQueryTypesFile, TypesOnly, File
<1>3. \A t : TermTypesFile(t).types = {Bare(TermType(t))}
  BY DEF TermTypesFile, TypesOnly, File
<1>4. JsonTypesFile.types = {Bare(JsonSearchType), Bare(JsonEntryType), Bare(JsonQueryType)}
  BY DEF JsonTypesFile, TypesOnly, File
<1> QED  BY <1>1, <1>2, <1>3, <1>4

LEMMA TypesProvided ==
  ASSUME NEW M, Closed(M)
  PROVE  /\ \A p \in Scalars : TypesPath(p[1]) \in M => Type(Column(p)) \in Provided(M)
         /\ \A p \in Queryables : QueryTypesPath(p[1]) \in M => Type(Operand(p)) \in Provided(M)
         /\ \A t \in Terms : TermTypesPath(t) \in M => Type(TermType(t)) \in Provided(M)
         /\ JsonTypes \in M =>
              \A T \in {JsonSearchType, JsonEntryType, JsonQueryType} : Type(T) \in Provided(M)
<1>1. ASSUME NEW r \in Rows, r[1] \in M, NEW b \in r[2].types PROVE Type(b.typname) \in Provided(M)
  BY <1>1, ClosedRow, CreatesParts
<1>2. ASSUME NEW p \in Scalars, TypesPath(p[1]) \in M PROVE Type(Column(p)) \in Provided(M)
  <2>1. TypesRow(p[1]) \in Rows
    BY ScalarsTyped, RowsInstalled
  <2>2. TypesRow(p[1])[1] = TypesPath(p[1]) /\ TypesRow(p[1])[2] = RenderTypesFile(p[1])
    BY DEF TypesRow
  <2>3. Type(DomainBlock(p[1], p[2]).typname) \in Provided(M)
    BY <1>1, <1>2, <2>1, <2>2, TypesOf
  <2> QED  BY <2>3, BlockFields
<1>3. ASSUME NEW p \in Queryables, QueryTypesPath(p[1]) \in M PROVE Type(Operand(p)) \in Provided(M)
  <2>1. QueryTypesRow(p[1]) \in Rows
    BY QueryablesTyped, RowsInstalled
  <2>2. QueryTypesRow(p[1])[1] = QueryTypesPath(p[1]) /\ QueryTypesRow(p[1])[2] = RenderQueryTypesFile(p[1])
    BY DEF QueryTypesRow
  <2>3. Type(QueryDomainBlock(p[1], p[2]).typname) \in Provided(M)
    BY <1>1, <1>3, <2>1, <2>2, TypesOf
  <2> QED  BY <2>3, BlockFields
<1>4. ASSUME NEW t \in Terms, TermTypesPath(t) \in M PROVE Type(TermType(t)) \in Provided(M)
  <2> DEFINE r == <<TermTypesPath(t), TermTypesFile(t)>>
  <2>1. r \in Rows /\ r[1] = TermTypesPath(t) /\ r[2] = TermTypesFile(t)
    BY RowsInstalled DEF TermSqlFiles
  <2> HIDE DEF r
  <2>2. Bare(TermType(t)) \in r[2].types
    BY <2>1, TypesOf
  <2>3. Type(Bare(TermType(t)).typname) \in Provided(M)
    BY <1>1, <1>4, <2>1, <2>2
  <2> QED  BY <2>3, BlockFields
<1>5. ASSUME JsonTypes \in M, NEW T \in {JsonSearchType, JsonEntryType, JsonQueryType}
      PROVE  Type(T) \in Provided(M)
  <2> DEFINE r == <<JsonTypes, JsonTypesFile>>
  <2>1. r \in Rows /\ r[1] = JsonTypes /\ r[2] = JsonTypesFile
    BY RowsInstalled DEF JsonFiles
  <2> HIDE DEF r
  <2>2. Bare(T) \in r[2].types
    BY <2>1, TypesOf
  <2>3. Type(Bare(T).typname) \in Provided(M)
    BY <1>1, <1>5, <2>1, <2>2
  <2> QED  BY <2>3, BlockFields
<1> QED  BY <1>2, <1>3, <1>4, <1>5

\* The hand-written functions and operators that generated files call.
LEMMA HandWrittenProvided ==
  ASSUME NEW M, Closed(M)
  PROVE  /\ \A t \in Terms : TermFunctionsPath(t) \in M =>
              /\ Fn("eql_v3_internal", Ctor[t], <<Jsonb>>) \in Provided(M)
              /\ Type(TermType(t)) \in Provided(M)
         /\ OreOperators \in M =>
              \A op \in Comparisons : /\ Op(op, OreType, OreType) \in Provided(M)
                                      /\ OreComparator(op) \in Provided(M)
         /\ JsonFunctions \in M => Fn("eql_v3", Extractor[JsonEntryTerm], <<JsonEntryType>>) \in Provided(M)
<1>1. ASSUME NEW t \in Terms, TermFunctionsPath(t) \in M
      PROVE  /\ Fn("eql_v3_internal", Ctor[t], <<Jsonb>>) \in Provided(M)
             /\ Type(TermType(t)) \in Provided(M)
  <2> DEFINE r == <<TermFunctionsPath(t), TermFunctionsFile(t)>>
             e == Entry("constructor", Fn("eql_v3_internal", Ctor[t], <<Jsonb>>), "", Jsonb, t, {Type(TermType(t))})
  <2>1. r \in Rows /\ r[1] = TermFunctionsPath(t) /\ r[2] = TermFunctionsFile(t)
    BY RowsInstalled DEF TermSqlFiles
  <2>2. e \in TermFunctionsFile(t).functions
    BY DEF TermFunctionsFile, FunctionsFile, File
  <2>3. e.fn = Fn("eql_v3_internal", Ctor[t], <<Jsonb>>)
    BY DEF Entry
  <2> HIDE DEF r, e
  <2>4. r[2].requires \subseteq M /\ Creates(r[2]) \subseteq Provided(M)
    BY <1>1, <2>1, ClosedRow
  <2>5. TermTypesPath(t) \in M
    BY <2>1, <2>4, RequiresOf DEF TermPrerequisites
  <2>6. Type(TermType(t)) \in Provided(M)
    BY <2>5, TypesProvided
  <2> QED  BY <2>1, <2>2, <2>3, <2>4, <2>6, CreatesParts
<1>2. ASSUME OreOperators \in M, NEW op \in Comparisons
      PROVE  Op(op, OreType, OreType) \in Provided(M) /\ OreComparator(op) \in Provided(M)
  <2> DEFINE r == <<OreOperators, OreOperatorsFile>>
             e == Entry("comparison", OreComparator(op), op, OreType, "Ore", {})
             o == [op |-> Op(op, OreType, OreType), procedure |-> OreComparator(op),
                   commutator |-> Commutator(op), negator |-> Negator(op)]
  <2>1. r \in Rows /\ r[1] = OreOperators /\ r[2] = OreOperatorsFile
    BY RowsInstalled DEF OreFiles
  <2>2. e \in OreOperatorsFile.functions /\ o \in OreOperatorsFile.operators
    BY DEF OreOperatorsFile, File
  <2>3. e.fn = OreComparator(op) /\ o.op = Op(op, OreType, OreType)
    BY DEF Entry
  <2> HIDE DEF r, e, o
  <2>4. Creates(r[2]) \subseteq Provided(M)
    BY <1>2, <2>1, ClosedRow
  <2> QED  BY <2>1, <2>2, <2>3, <2>4, CreatesParts
<1>3. ASSUME JsonFunctions \in M PROVE Fn("eql_v3", Extractor[JsonEntryTerm], <<JsonEntryType>>) \in Provided(M)
  <2> DEFINE r == <<JsonFunctions, JsonFunctionsFile>>
             e == ExtractorEntry(JsonEntryType, JsonEntryTerm)
  <2>1. r \in Rows /\ r[1] = JsonFunctions /\ r[2] = JsonFunctionsFile
    BY RowsInstalled DEF JsonFiles
  <2>2. e \in JsonFunctionsFile.functions
    BY DEF JsonFunctionsFile, FunctionsFile, File
  <2>3. e.fn = Fn("eql_v3", Extractor[JsonEntryTerm], <<JsonEntryType>>)
    BY DEF ExtractorEntry, Entry
  <2> HIDE DEF r, e
  <2>4. Creates(r[2]) \subseteq Provided(M)
    BY <1>3, <2>1, ClosedRow
  <2> QED  BY <2>1, <2>2, <2>3, <2>4, CreatesParts
<1> QED  BY <1>1, <1>2, <1>3

\* Every term of a domain has its extractor, its own or that of an earlier term.
LEMMA ExtractorFound ==
  ASSUME NEW p \in Scalars, NEW t \in ToSet(p[2].terms)
  PROVE  \E u \in ExtractorTerms(p[2].terms) : Extractor[u] = Extractor[t]
<1> DEFINE terms == p[2].terms
           same(i, j) == Extractor[terms[i]] = Extractor[terms[j]]
<1>1. \/ DOMAIN terms = {} \/ DOMAIN terms = {1} \/ DOMAIN terms = {1, 2} \/ DOMAIN terms = {1, 2, 3}
  <2>1. terms \in TermLists(p[1])
    BY ScalarsTyped, ScalarDomain
  <2>2. terms \in {<<>>, <<"Hm">>, <<"Ore">>, <<"Ope">>, <<"Bloom">>, <<"Hm", "Ore">>, <<"Hm", "Ope">>,
                   <<"Hm", "Ore", "Bloom">>, <<"Hm", "Ope", "Bloom">>}
    BY <2>1 DEF TermLists
  <2>3. /\ DOMAIN <<>> = {}
        /\ \A a : DOMAIN <<a>> = {1}
        /\ \A a, b : DOMAIN <<a, b>> = {1, 2}
        /\ \A a, b, c : DOMAIN <<a, b, c>> = {1, 2, 3}
    OBVIOUS
  <2> HIDE DEF terms
  <2> QED  BY <2>2, <2>3
<1>2. PICK i \in DOMAIN terms : terms[i] = t
  BY DEF ToSet
<1>3. ExtractorTerms(terms) =
        {terms[k] : k \in {j \in DOMAIN terms : \A m \in 1 .. j - 1 : ~same(m, j)}}
  BY DEF ExtractorTerms, DedupeBy
<1>4. \A a, b, c : same(a, b) /\ same(b, c) => same(a, c)
  OBVIOUS
<1>5. \A a : same(a, a)
  OBVIOUS
<1> HIDE DEF same
<1>6. \E j \in DOMAIN terms : same(j, i) /\ \A m \in 1 .. j - 1 : ~same(m, j)
  <2>1. i = 1 \/ i = 2 \/ i = 3
    BY <1>1
  <2>2. /\ 2 \in DOMAIN terms => 1 \in DOMAIN terms
        /\ 3 \in DOMAIN terms => 1 \in DOMAIN terms /\ 2 \in DOMAIN terms
    BY <1>1
  <2> HIDE DEF terms
  <2>3. /\ \A m \in 1 .. 1 - 1 : FALSE
        /\ \A m \in 1 .. 2 - 1 : m = 1
        /\ \A m \in 1 .. 3 - 1 : m = 1 \/ m = 2
    OBVIOUS
  <2>4. CASE i = 1
    BY <1>5, <2>3, <2>4
  <2>5. CASE i = 2
    <3>1. CASE same(1, 2)
      BY <2>2, <2>3, <2>5, <3>1
    <3>2. CASE ~same(1, 2)
      BY <1>5, <2>3, <2>5, <3>2
    <3> QED  BY <3>1, <3>2
  <2>6. CASE i = 3
    <3>1. CASE same(1, 3)
      BY <2>2, <2>3, <2>6, <3>1
    <3>2. CASE ~same(1, 3) /\ same(2, 3)
      <4>1. ~same(1, 2)
        BY <1>4, <3>2
      <4> QED  BY <2>2, <2>3, <2>6, <3>2, <4>1
    <3>3. CASE ~same(1, 3) /\ ~same(2, 3)
      BY <1>5, <2>3, <2>6, <3>3
    <3> QED  BY <3>1, <3>2, <3>3
  <2> QED  BY <2>1, <2>4, <2>5, <2>6
<1>7. PICK j \in DOMAIN terms : same(j, i) /\ \A m \in 1 .. j - 1 : ~same(m, j)
  BY <1>6
<1>8. terms[j] \in ExtractorTerms(terms)
  BY <1>3, <1>7
<1>9. Extractor[terms[j]] = Extractor[t]
  BY <1>2, <1>7 DEF same
<1> QED  BY <1>8, <1>9

LEMMA ExtractorFields ==
  \A dom, t : /\ ExtractorEntry(dom, t).fn = Fn("eql_v3", Extractor[t], <<dom>>)
              /\ ExtractorEntry(dom, t).calls = {Fn("eql_v3_internal", Ctor[t], <<Jsonb>>)}
BY DEF ExtractorEntry, Entry

\* What comes with the functions of a column.
LEMMA ColumnProvided ==
  ASSUME NEW M, Closed(M), NEW p \in Scalars, FunctionsPath(p[1], ColumnStem(p)) \in M
  PROVE  /\ Type(Column(p)) \in Provided(M)
         /\ \A e \in RenderFunctionsFile(p[1], p[2]).functions : e.fn \in Provided(M)
         /\ \A t \in ToSet(p[2].terms) :
              /\ Fn("eql_v3", Extractor[t], <<Column(p)>>) \in Provided(M)
              /\ Fn("eql_v3_internal", Ctor[t], <<Jsonb>>) \in Provided(M)
              /\ t = "Ore" => \A op \in Comparisons : Op(op, OreType, OreType) \in Provided(M)
<1> DEFINE r == ColumnFunctionsRow(p)
           c == RenderFunctionsFile(p[1], p[2])
<1>1. r \in Rows /\ r[1] = FunctionsPath(p[1], ColumnStem(p)) /\ r[2] = c
  BY RowsInstalled DEF ColumnFunctionsRow
<1> HIDE DEF r
<1>2. c.requires \subseteq M /\ Creates(c) \subseteq Provided(M)
  BY <1>1, ClosedRow
<1>3. c.requires = {Schema, TypesPath(p[1]), ScalarsBlocker} \union TermRequires(p[2].terms)
  BY RequiresOf
<1> HIDE DEF c
<1>4. TypesPath(p[1]) \in M /\ TermRequires(p[2].terms) \subseteq M
  BY <1>2, <1>3
<1>5. Type(Column(p)) \in Provided(M)
  BY <1>4, TypesProvided
<1>6. \A e \in c.functions : e.fn \in Provided(M)
  BY <1>2, CreatesParts
<1>7. ASSUME NEW t \in ToSet(p[2].terms)
      PROVE  /\ Fn("eql_v3", Extractor[t], <<Column(p)>>) \in Provided(M)
             /\ Fn("eql_v3_internal", Ctor[t], <<Jsonb>>) \in Provided(M)
             /\ t = "Ore" => \A op \in Comparisons : Op(op, OreType, OreType) \in Provided(M)
  <2>1. t \in Terms /\ TermFiles[t] \subseteq M
    BY <1>4, ScalarsTyped DEF TermRequires
  <2>2. TermFunctionsPath(t) \in M /\ (t = "Ore" => OreOperators \in M)
    BY <2>1, TermFilesInstalled
  <2>3. /\ Fn("eql_v3_internal", Ctor[t], <<Jsonb>>) \in Provided(M)
        /\ t = "Ore" => \A op \in Comparisons : Op(op, OreType, OreType) \in Provided(M)
    BY <2>1, <2>2, HandWrittenProvided
  <2>4. PICK u \in ExtractorTerms(p[2].terms) : Extractor[u] = Extractor[t]
    BY ExtractorFound
  <2>5. ExtractorEntry(Column(p), u) \in c.functions
    BY ColumnEntries DEF c
  <2>6. ExtractorEntry(Column(p), u).fn = Fn("eql_v3", Extractor[t], <<Column(p)>>)
    BY <2>4, ExtractorFields
  <2> QED  BY <1>6, <2>3, <2>5, <2>6
<1> QED  BY <1>5, <1>6, <1>7 DEF c

\* What comes with the functions of an operand.
LEMMA OperandProvided ==
  ASSUME NEW M, Closed(M), NEW p \in Queryables, FunctionsPath(p[1], OperandStem(p)) \in M
  PROVE  /\ Type(Operand(p)) \in Provided(M)
         /\ FunctionsPath(p[1], ColumnStem(p)) \in M
         /\ \A e \in RenderQueryFunctionsFile(p[1], p[2]).functions : e.fn \in Provided(M)
         /\ \A t \in ToSet(p[2].terms) : Fn("eql_v3", Extractor[t], <<Operand(p)>>) \in Provided(M)
<1> DEFINE r == OperandFunctionsRow(p)
           c == RenderQueryFunctionsFile(p[1], p[2])
<1>1. r \in Rows /\ r[1] = FunctionsPath(p[1], OperandStem(p)) /\ r[2] = c
  BY RowsInstalled DEF OperandFunctionsRow
<1> HIDE DEF r
<1>2. c.requires \subseteq M /\ Creates(c) \subseteq Provided(M)
  BY <1>1, ClosedRow
<1>3. c.requires = {Schema, QueryTypesPath(p[1]), FunctionsPath(p[1], ColumnStem(p))}
  BY RequiresOf
<1> HIDE DEF c
<1>4. Type(Operand(p)) \in Provided(M)
  BY <1>2, <1>3, TypesProvided
<1>5. \A e \in c.functions : e.fn \in Provided(M)
  BY <1>2, CreatesParts
<1>6. ASSUME NEW t \in ToSet(p[2].terms) PROVE Fn("eql_v3", Extractor[t], <<Operand(p)>>) \in Provided(M)
  <2>1. p \in Scalars
    BY QueryablesTyped
  <2>2. PICK u \in ExtractorTerms(p[2].terms) : Extractor[u] = Extractor[t]
    BY <2>1, ExtractorFound
  <2>3. ExtractorEntry(Operand(p), u) \in c.functions
    BY <2>1, OperandEntries DEF c
  <2>4. ExtractorEntry(Operand(p), u).fn = Fn("eql_v3", Extractor[t], <<Operand(p)>>)
    BY <2>2, ExtractorFields
  <2> QED  BY <1>5, <2>3, <2>4
<1> QED  BY <1>2, <1>3, <1>4, <1>5, <1>6 DEF c

(***************************************************************************)
(* What the files read.                                                    *)
(***************************************************************************)
ReadBy(e) == Typed(e.fn.args) \union e.calls

LEMMA ReadsParts ==
  ASSUME NEW c, NEW S, \A e \in c.functions : ReadBy(e) \subseteq S,
         \A o \in c.operators : Typed(o.op.args) \subseteq S /\ o.procedure \in S, c.calls \subseteq S
  PROVE  Reads(c) \subseteq S
BY DEF Reads, ReadBy

Found(T, S) == T \in BaseTypes \/ Type(T) \in S

LEMMA TypedFound ==
  /\ \A a, S : Found(a, S) => Typed(<<a>>) \subseteq S
  /\ \A a, b, S : Found(a, S) /\ Found(b, S) => Typed(<<a, b>>) \subseteq S
<1>1. ASSUME NEW a, NEW S, Found(a, S) PROVE Typed(<<a>>) \subseteq S
  <2>1. ToSet(<<a>>) = {a}
    BY TupleElements
  <2> QED  BY <1>1, <2>1 DEF Typed, Found
<1>2. ASSUME NEW a, NEW b, NEW S, Found(a, S), Found(b, S) PROVE Typed(<<a, b>>) \subseteq S
  <2>1. ToSet(<<a, b>>) = {a, b}
    BY TupleElements
  <2> QED  BY <1>2, <2>1 DEF Typed, Found
<1> QED  BY <1>1, <1>2

LEMMA UnsupportedReads ==
  ASSUME NEW op, NEW a, NEW b, NEW S, Found(a, S), Found(b, S)
  PROVE  ReadBy(UnsupportedEntry(op, a, b)) \subseteq S
<1> DEFINE e == UnsupportedEntry(op, a, b)
<1>1. e.fn = Fn("eql_v3_internal", FunctionName(op), <<a, b>>) /\ e.calls = {}
  BY DEF UnsupportedEntry, Entry
<1>2. e.fn.args = <<a, b>>
  BY <1>1, OperatorFields
<1> HIDE DEF e
<1>3. ReadBy(e) \subseteq S
  BY <1>1, <1>2, TypedFound DEF ReadBy
<1> QED  BY <1>3 DEF e

LEMMA ExtractorReads ==
  ASSUME NEW dom, NEW t, NEW S, Found(dom, S), Fn("eql_v3_internal", Ctor[t], <<Jsonb>>) \in S
  PROVE  ReadBy(ExtractorEntry(dom, t)) \subseteq S
<1> DEFINE e == ExtractorEntry(dom, t)
<1>1. /\ e.fn = Fn("eql_v3", Extractor[t], <<dom>>)
      /\ e.calls = {Fn("eql_v3_internal", Ctor[t], <<Jsonb>>)}
  BY ExtractorFields
<1> HIDE DEF e
<1>2. e.fn.args = <<dom>>
  BY <1>1 DEF Fn, Object
<1>3. ReadBy(e) \subseteq S
  BY <1>1, <1>2, TypedFound DEF ReadBy
<1> QED  BY <1>3 DEF e

\* The domain that an operand of type T is read at.
ReadAt(dom, T) == IF T = Jsonb THEN dom ELSE T
Extracted(dom, T, t, S) == Fn("eql_v3", Extractor[t], <<ReadAt(dom, T)>>) \in S

LEMMA WrapperReads ==
  ASSUME NEW dom, NEW op, NEW a, NEW b, NEW t, NEW S, Found(a, S), Found(b, S),
         Extracted(dom, a, t, S), Extracted(dom, b, t, S), t = "Ore" => Op(BodyOperator(op), OreType, OreType) \in S
  PROVE  ReadBy(WrapperEntry(dom, op, a, b, t)) \subseteq S
<1> DEFINE e == WrapperEntry(dom, op, a, b, t)
<1>1. /\ e.fn = Fn("eql_v3", WrapperFunctionName(op), <<a, b>>)
      /\ e.calls = {ExtractArg(a, t, dom), ExtractArg(b, t, dom)} \union BodyCalls(BodyOperator(op), t)
  BY DEF WrapperEntry, Entry
<1>2. e.fn.args = <<a, b>>
  BY <1>1, OperatorFields
<1>3. ExtractArg(a, t, dom) \in S /\ ExtractArg(b, t, dom) \in S
  BY DEF ExtractArg, Extracted, ReadAt
<1>4. BodyCalls(BodyOperator(op), t) \subseteq S
  BY DEF BodyCalls, OreType
<1> HIDE DEF e
<1>5. ReadBy(e) \subseteq S
  BY <1>1, <1>2, <1>3, <1>4, TypedFound DEF ReadBy
<1> QED  BY <1>5 DEF e

LEMMA UnsupportedFunction ==
  \A op, a, b : UnsupportedEntry(op, a, b).fn = Fn("eql_v3_internal", FunctionName(op), <<a, b>>)
BY DEF UnsupportedEntry, Entry

LEMMA SlotsFound ==
  ASSUME NEW op \in OperatorSymbols, NEW sig \in Signatures(op), NEW T, NEW S, Found(T, S)
  PROVE  Found(At(sig, T)[1], S) /\ Found(At(sig, T)[2], S)
<1>1. \A slot \in {"Domain", "jsonb", "text", "integer", "text[]", "jsonpath"} : Found(Rendered(slot, T), S)
  BY DEF Rendered, Found, BaseTypes, Jsonb
<1>2. /\ sig[1] \in {"Domain", "jsonb", "text", "integer", "text[]", "jsonpath"}
      /\ sig[2] \in {"Domain", "jsonb", "text", "integer", "text[]", "jsonpath"}
  BY DEF Signatures, SymmetricSignatures, JsonpathSignatures, ArrowSignatures, DeleteSignatures,
     TextArraySignatures
<1>3. At(sig, T)[1] = Rendered(sig[1], T) /\ At(sig, T)[2] = Rendered(sig[2], T)
  BY DEF At
<1> QED  BY <1>1, <1>2, <1>3

LEMMA ExtractorsOwned ==
  ASSUME NEW terms
  PROVE  ExtractorTerms(terms) \subseteq ToSet(terms)
BY DEF ExtractorTerms, DedupeBy, ToSet

LEMMA OreCompared ==
  ASSUME NEW op, op \in TermOperators["Ore"]
  PROVE  BodyOperator(op) \in Comparisons
BY DEF TermOperators, BodyOperator, Comparisons, EqualityOps, OrderOps

LEMMA ColumnFunctionsRead ==
  ASSUME NEW M, Closed(M), NEW p \in Scalars, FunctionsPath(p[1], ColumnStem(p)) \in M
  PROVE  Reads(RenderFunctionsFile(p[1], p[2])) \subseteq Provided(M)
<1> DEFINE c == RenderFunctionsFile(p[1], p[2])
           S == Provided(M)
<1>1. Found(Column(p), S)
  BY ColumnProvided DEF Found
<1>2. c.operators = {} /\ c.calls = {}
  BY DEF RenderFunctionsFile, FunctionsFile, File
<1>3. ASSUME NEW e \in c.functions PROVE ReadBy(e) \subseteq S
  <2>1. CASE \E t \in ExtractorTerms(p[2].terms) : e = ExtractorEntry(Column(p), t)
    <3>1. PICK t \in ExtractorTerms(p[2].terms) : e = ExtractorEntry(Column(p), t)
      BY <2>1
    <3>2. t \in ToSet(p[2].terms)
      BY ExtractorsOwned
    <3>3. Fn("eql_v3_internal", Ctor[t], <<Jsonb>>) \in S
      BY <3>2, ColumnProvided
    <3> HIDE DEF S
    <3> QED  BY <1>1, <3>1, <3>3, ExtractorReads
  <2>2. ASSUME NEW op \in OperatorSymbols, NEW sig \in Signatures(op), ColumnAnswers(p, op, sig),
               NEW t \in TermForOperator(p[2].terms, op),
               e = WrapperEntry(Column(p), op, At(sig, Column(p))[1], At(sig, Column(p))[2], t)
        PROVE  ReadBy(e) \subseteq S
    <3> DEFINE s == At(sig, Column(p))
    <3>1. op \in OperatorsForTerms(p[2].terms) /\ ~BlockerOnly(op, sig)
      BY <2>2 DEF ColumnAnswers, IsSupported
    <3>2. t \in ToSet(p[2].terms) /\ op \in TermOperators[t]
      BY <3>1, TermFound
    <3>3. s \in ColumnPairs(p)
      BY <3>1, SearchedSymbols, SymmetricSlots
    <3>4. ReadAt(Column(p), s[1]) = Column(p) /\ ReadAt(Column(p), s[2]) = Column(p)
      <4> HIDE DEF s
      <4>1. s[1] \in {Column(p), Jsonb} /\ s[2] \in {Column(p), Jsonb}
        BY <3>3 DEF ColumnPairs
      <4> QED  BY <4>1 DEF ReadAt
    <3>5. Found(s[1], S) /\ Found(s[2], S)
      BY <1>1, SlotsFound
    <3>6. Fn("eql_v3", Extractor[t], <<Column(p)>>) \in S
      BY <3>2, ColumnProvided
    <3>7. t = "Ore" => Op(BodyOperator(op), OreType, OreType) \in S
      BY <3>2, ColumnProvided, OreCompared
    <3>8. e = WrapperEntry(Column(p), op, s[1], s[2], t)
      BY <2>2
    <3> HIDE DEF S, s
    <3>9. Extracted(Column(p), s[1], t, S) /\ Extracted(Column(p), s[2], t, S)
      BY <3>4, <3>6 DEF Extracted
    <3> QED  BY <3>5, <3>7, <3>8, <3>9, WrapperReads
  <2>3. ASSUME NEW op \in OperatorSymbols, NEW sig \in Signatures(op),
               e = UnsupportedEntry(op, At(sig, Column(p))[1], At(sig, Column(p))[2])
        PROVE  ReadBy(e) \subseteq S
    <3> HIDE DEF S
    <3>1. Found(At(sig, Column(p))[1], S) /\ Found(At(sig, Column(p))[2], S)
      BY <1>1, SlotsFound
    <3> QED  BY <2>3, <3>1, UnsupportedReads
  <2>4. \/ \E t \in ExtractorTerms(p[2].terms) : e = ExtractorEntry(Column(p), t)
        \/ \E op \in OperatorSymbols : \E sig \in Signatures(op) :
             IF ColumnAnswers(p, op, sig)
             THEN \E t \in TermForOperator(p[2].terms, op) :
                    e = WrapperEntry(Column(p), op, At(sig, Column(p))[1], At(sig, Column(p))[2], t)
             ELSE e = UnsupportedEntry(op, At(sig, Column(p))[1], At(sig, Column(p))[2])
    BY ColumnEntries
  <2> HIDE DEF c, S
  <2> QED  BY <2>1, <2>2, <2>3, <2>4
<1> HIDE DEF c, S
<1>4. Reads(c) \subseteq S
  BY <1>2, <1>3, ReadsParts
<1> QED  BY <1>4 DEF c, S

LEMMA ColumnOperatorsRead ==
  ASSUME NEW M, Closed(M), NEW p \in Scalars, FunctionsPath(p[1], ColumnStem(p)) \in M
  PROVE  Reads(RenderOperatorsFile(p[1], p[2])) \subseteq Provided(M)
<1> DEFINE c == RenderOperatorsFile(p[1], p[2])
           S == Provided(M)
<1>1. Found(Column(p), S)
  BY ColumnProvided DEF Found
<1>2. c.functions = {} /\ c.calls = {}
  BY DEF RenderOperatorsFile, OperatorsFile, File
<1>3. ASSUME NEW o \in c.operators PROVE Typed(o.op.args) \subseteq S /\ o.procedure \in S
  <2>0. PICK op \in OperatorSymbols : \E sig \in Signatures(op) :
          o = OperatorEntry(op, At(sig, Column(p))[1], At(sig, Column(p))[2], ColumnAnswers(p, op, sig))
    BY ColumnOperators
  <2>1. PICK sig \in Signatures(op) :
          o = OperatorEntry(op, At(sig, Column(p))[1], At(sig, Column(p))[2], ColumnAnswers(p, op, sig))
    BY <2>0
  <2> DEFINE s == At(sig, Column(p))
             answered == ColumnAnswers(p, op, sig)
  <2>2. answered \in BOOLEAN /\ o = OperatorEntry(op, s[1], s[2], answered)
    BY <2>1 DEF ColumnAnswers, IsSupported
  <2>3. Found(s[1], S) /\ Found(s[2], S)
    BY <1>1, SlotsFound
  <2>4. CASE answered
    <3>1. op \in OperatorsForTerms(p[2].terms)
      BY <2>4 DEF ColumnAnswers, IsSupported
    <3>2. PICK t : t \in TermForOperator(p[2].terms, op)
      BY <3>1, TermFound
    <3>3. WrapperEntry(Column(p), op, s[1], s[2], t) \in RenderFunctionsFile(p[1], p[2]).functions
      BY <2>4, <3>2, ColumnEntries
    <3>4. WrapperEntry(Column(p), op, s[1], s[2], t).fn \in S
      BY <3>3, ColumnProvided
    <3> HIDE DEF S, s, answered
    <3>5. /\ o.op = Op(op, s[1], s[2])
          /\ o.procedure = Fn("eql_v3", WrapperFunctionName(op), <<s[1], s[2]>>)
      BY <2>2, <2>4 DEF OperatorEntry
    <3>6. o.procedure = WrapperEntry(Column(p), op, s[1], s[2], t).fn
      BY <3>5, EntryFields
    <3>7. o.op.args = <<s[1], s[2]>>
      BY <3>5, OperatorFields
    <3> QED  BY <2>3, <3>4, <3>6, <3>7, TypedFound
  <2>5. CASE ~answered
    <3>1. UnsupportedEntry(op, s[1], s[2]) \in RenderFunctionsFile(p[1], p[2]).functions
      BY <2>5, ColumnEntries
    <3>2. UnsupportedEntry(op, s[1], s[2]).fn \in S
      BY <3>1, ColumnProvided
    <3> HIDE DEF S, s, answered
    <3>3. /\ o.op = Op(op, s[1], s[2])
          /\ o.procedure = Fn("eql_v3_internal", FunctionName(op), <<s[1], s[2]>>)
      BY <2>2, <2>5 DEF OperatorEntry
    <3>4. o.op.args = <<s[1], s[2]>> /\ o.procedure = UnsupportedEntry(op, s[1], s[2]).fn
      BY <3>3, OperatorFields, UnsupportedFunction
    <3> QED  BY <2>3, <3>2, <3>4, TypedFound
  <2> QED  BY <2>4, <2>5
<1> HIDE DEF c, S
<1>4. Reads(c) \subseteq S
  BY <1>2, <1>3, ReadsParts
<1> QED  BY <1>4 DEF c, S

LEMMA OperandFunctionsRead ==
  ASSUME NEW M, Closed(M), NEW p \in Queryables, FunctionsPath(p[1], OperandStem(p)) \in M
  PROVE  Reads(RenderQueryFunctionsFile(p[1], p[2])) \subseteq Provided(M)
<1> DEFINE c == RenderQueryFunctionsFile(p[1], p[2])
           S == Provided(M)
<1>1. p \in Scalars /\ FunctionsPath(p[1], ColumnStem(p)) \in M
  BY QueryablesTyped, OperandProvided
<1>2. Found(Column(p), S) /\ Found(Operand(p), S)
  BY <1>1, ColumnProvided, OperandProvided DEF Found
<1>3. c.operators = {} /\ c.calls = {}
  BY DEF RenderQueryFunctionsFile, FunctionsFile, File
<1>4. ASSUME NEW e \in c.functions PROVE ReadBy(e) \subseteq S
  <2>1. CASE \E t \in ExtractorTerms(p[2].terms) : e = ExtractorEntry(Operand(p), t)
    <3>1. PICK t \in ExtractorTerms(p[2].terms) : e = ExtractorEntry(Operand(p), t)
      BY <2>1
    <3>2. t \in ToSet(p[2].terms)
      BY ExtractorsOwned
    <3>3. Fn("eql_v3_internal", Ctor[t], <<Jsonb>>) \in S
      BY <1>1, <3>2, ColumnProvided
    <3> HIDE DEF S
    <3> QED  BY <1>2, <3>1, <3>3, ExtractorReads
  <2>2. ASSUME NEW op \in OperatorsForTerms(p[2].terms), NEW s \in OperandPairs(p),
               NEW t \in TermForOperator(p[2].terms, op), e = WrapperEntry(Operand(p), op, s[1], s[2], t)
        PROVE  ReadBy(e) \subseteq S
    <3>1. t \in ToSet(p[2].terms) /\ op \in TermOperators[t]
      BY <1>1, TermFound
    <3>2. s[1] \in {Column(p), Operand(p)} /\ s[2] \in {Column(p), Operand(p)}
      BY DEF OperandPairs, BothWays
    <3>3. Column(p) # Jsonb /\ Operand(p) # Jsonb
      BY <1>1, ColumnApart, OperandApart DEF BaseTypes
    <3>4. ReadAt(Operand(p), s[1]) \in {Column(p), Operand(p)} /\ ReadAt(Operand(p), s[2]) \in {Column(p), Operand(p)}
      BY <3>2, <3>3 DEF ReadAt
    <3>5. \A T \in {Column(p), Operand(p)} : Fn("eql_v3", Extractor[t], <<T>>) \in S
      BY <1>1, <3>1, ColumnProvided, OperandProvided
    <3>6. t = "Ore" => Op(BodyOperator(op), OreType, OreType) \in S
      BY <1>1, <3>1, ColumnProvided, OreCompared
    <3>7. Found(s[1], S) /\ Found(s[2], S)
      BY <1>2, <3>2
    <3> HIDE DEF S
    <3>8. Extracted(Operand(p), s[1], t, S) /\ Extracted(Operand(p), s[2], t, S)
      BY <3>4, <3>5 DEF Extracted
    <3> QED  BY <2>2, <3>6, <3>7, <3>8, WrapperReads
  <2>3. \/ \E t \in ExtractorTerms(p[2].terms) : e = ExtractorEntry(Operand(p), t)
        \/ \E op \in OperatorsForTerms(p[2].terms) : \E s \in OperandPairs(p) :
             \E t \in TermForOperator(p[2].terms, op) : e = WrapperEntry(Operand(p), op, s[1], s[2], t)
    BY <1>1, OperandEntries
  <2> HIDE DEF c, S
  <2> QED  BY <2>1, <2>2, <2>3
<1> HIDE DEF c, S
<1>5. Reads(c) \subseteq S
  BY <1>3, <1>4, ReadsParts
<1> QED  BY <1>5 DEF c, S

LEMMA OperandOperatorsRead ==
  ASSUME NEW M, Closed(M), NEW p \in Queryables, FunctionsPath(p[1], OperandStem(p)) \in M
  PROVE  Reads(RenderQueryOperatorsFile(p[1], p[2])) \subseteq Provided(M)
<1> DEFINE c == RenderQueryOperatorsFile(p[1], p[2])
           S == Provided(M)
<1>1. p \in Scalars /\ FunctionsPath(p[1], ColumnStem(p)) \in M
  BY QueryablesTyped, OperandProvided
<1>2. Found(Column(p), S) /\ Found(Operand(p), S)
  BY <1>1, ColumnProvided, OperandProvided DEF Found
<1>3. c.functions = {} /\ c.calls = {}
  BY DEF RenderQueryOperatorsFile, OperatorsFile, File
<1>4. ASSUME NEW o \in c.operators PROVE Typed(o.op.args) \subseteq S /\ o.procedure \in S
  <2>1. o \in SupportedEntries(p)
    BY <1>1, OperandOperators
  <2>2. PICK op \in OperatorsForTerms(p[2].terms), s \in OperandPairs(p) : o = SupportedEntry(op, s)
    BY <2>1 DEF SupportedEntries
  <2>3. /\ o.op = Op(op, s[1], s[2])
        /\ o.procedure = Fn("eql_v3", WrapperFunctionName(op), <<s[1], s[2]>>)
    BY <2>2 DEF SupportedEntry, OperatorEntry
  <2>4. PICK t : t \in TermForOperator(p[2].terms, op)
    BY <1>1, TermFound
  <2>5. WrapperEntry(Operand(p), op, s[1], s[2], t) \in RenderQueryFunctionsFile(p[1], p[2]).functions
    BY <1>1, <2>4, OperandEntries
  <2>6. WrapperEntry(Operand(p), op, s[1], s[2], t).fn \in S
    BY <2>5, OperandProvided
  <2>7. Found(s[1], S) /\ Found(s[2], S)
    BY <1>2 DEF OperandPairs, BothWays
  <2> HIDE DEF S
  <2>8. o.op.args = <<s[1], s[2]>> /\ o.procedure = WrapperEntry(Operand(p), op, s[1], s[2], t).fn
    BY <2>3, OperatorFields, EntryFields
  <2> QED  BY <2>6, <2>7, <2>8, TypedFound
<1> HIDE DEF c, S
<1>5. Reads(c) \subseteq S
  BY <1>3, <1>4, ReadsParts
<1> QED  BY <1>5 DEF c, S

\* What a seam has its operands and their extractors from.
LEMMA SeamProvided ==
  ASSUME NEW M, Closed(M), NEW f \in Seamed, FunctionsPath(f, JsonEntryStem(f)) \in M
  PROVE  /\ f \in CatalogFamilies
         /\ Found(JsonEntryType, Provided(M))
         /\ Fn("eql_v3", Extractor[JsonEntryTerm], <<JsonEntryType>>) \in Provided(M)
         /\ \A p \in Queryables : p[1] = f =>
              /\ Found(Operand(p), Provided(M))
              /\ p[2] \in CrossDomains(f) => Fn("eql_v3", Extractor[JsonEntryTerm], <<Operand(p)>>) \in Provided(M)
         /\ \A e \in RenderCrossFunctions(f).functions : e.fn \in Provided(M)
<1> DEFINE r == SeamFunctionsRow(f)
           c == RenderCrossFunctions(f)
<1>1. r \in Rows /\ r[1] = FunctionsPath(f, JsonEntryStem(f)) /\ r[2] = c
  BY RowsInstalled DEF SeamFunctionsRow
<1> HIDE DEF r
<1>2. c.requires \subseteq M /\ Creates(c) \subseteq Provided(M)
  BY <1>1, ClosedRow
<1>3. c.requires = {Schema, JsonTypes, JsonFunctions, QueryTypesPath(f)}
                     \union {FunctionsPath(f, QueryName(f, d)) : d \in CrossDomains(f)}
  BY RequiresOf
<1> HIDE DEF c
<1>4. f \in CatalogFamilies
  BY DEF Seamed
<1>5. JsonTypes \in M /\ JsonFunctions \in M /\ QueryTypesPath(f) \in M
  BY <1>2, <1>3
<1>6. Found(JsonEntryType, Provided(M))
  BY <1>5, TypesProvided DEF Found
<1>7. Fn("eql_v3", Extractor[JsonEntryTerm], <<JsonEntryType>>) \in Provided(M)
  BY <1>5, HandWrittenProvided
<1>8. ASSUME NEW p \in Queryables, p[1] = f PROVE Found(Operand(p), Provided(M))
  BY <1>5, <1>8, TypesProvided DEF Found
<1>9. ASSUME NEW p \in Queryables, p[1] = f, p[2] \in CrossDomains(f)
      PROVE  Fn("eql_v3", Extractor[JsonEntryTerm], <<Operand(p)>>) \in Provided(M)
  <2>1. FunctionsPath(f, QueryName(f, p[2])) \in M
    BY <1>2, <1>3, <1>9
  <2>2. FunctionsPath(p[1], OperandStem(p)) \in M
    BY <1>9, <2>1 DEF OperandStem
  <2>3. JsonEntryTerm \in ToSet(p[2].terms)
    BY <1>9 DEF CrossDomains, CrossCandidates
  <2> QED  BY <2>2, <2>3, OperandProvided
<1>10. \A e \in c.functions : e.fn \in Provided(M)
  BY <1>2, CreatesParts
<1> QED  BY <1>4, <1>6, <1>7, <1>8, <1>9, <1>10 DEF c

LEMMA SeamFunctionsRead ==
  ASSUME NEW M, Closed(M), NEW f \in Seamed, FunctionsPath(f, JsonEntryStem(f)) \in M
  PROVE  Reads(RenderCrossFunctions(f)) \subseteq Provided(M)
<1> DEFINE c == RenderCrossFunctions(f)
           S == Provided(M)
<1>1. f \in CatalogFamilies /\ Found(JsonEntryType, S)
  BY SeamProvided
<1>2. c.operators = {} /\ c.calls = {}
  BY DEF RenderCrossFunctions, FunctionsFile, File
<1>3. ASSUME NEW e \in c.functions PROVE ReadBy(e) \subseteq S
  <2>1. PICK r \in CrossRows(f) :
          e = IF r[3] THEN WrapperEntry(JsonEntryType, r[1], r[2][1], r[2][2], JsonEntryTerm)
              ELSE UnsupportedEntry(r[1], r[2][1], r[2][2])
    BY <1>1, SeamFunctions
  <2>2. \E p \in Queryables : \E op \in Comparisons : \E s \in SeamPairs(p) :
          /\ p[1] = f /\ JsonEntryTerm \in ToSet(p[2].terms)
          /\ r = <<op, s, op \in OrderOps /\ p[2] \in CrossDomains(f)>>
    BY <1>1, SeamRows
  <2>3. PICK p \in Queryables : \E op \in Comparisons : \E s \in SeamPairs(p) :
          p[1] = f /\ r = <<op, s, op \in OrderOps /\ p[2] \in CrossDomains(f)>>
    BY <2>2
  <2>4. /\ r[2] \in SeamPairs(p) /\ p[1] = f
        /\ r[3] => p[2] \in CrossDomains(f)
    <3>1. PICK op \in Comparisons : \E s \in SeamPairs(p) :
            p[1] = f /\ r = <<op, s, op \in OrderOps /\ p[2] \in CrossDomains(f)>>
      BY <2>3
    <3> DEFINE served == op \in OrderOps /\ p[2] \in CrossDomains(f)
    <3>2. PICK s \in SeamPairs(p) : p[1] = f /\ r = <<op, s, served>>
      BY <3>1
    <3>3. served => p[2] \in CrossDomains(f)
      OBVIOUS
    <3> HIDE DEF served
    <3>4. r[2] = s /\ r[3] = served
      BY <3>2
    <3> QED  BY <3>2, <3>3, <3>4
  <2> DEFINE s == r[2]
  <2>5. s[1] \in {JsonEntryType, Operand(p)} /\ s[2] \in {JsonEntryType, Operand(p)}
    BY <2>4 DEF SeamPairs, BothWays
  <2>6. Found(s[1], S) /\ Found(s[2], S)
    BY <1>1, <2>4, <2>5, SeamProvided
  <2>7. CASE r[3]
    <3>1. \A T \in {JsonEntryType, Operand(p)} : Fn("eql_v3", Extractor[JsonEntryTerm], <<T>>) \in S
      BY <2>4, <2>7, SeamProvided
    <3>2. JsonEntryType # Jsonb /\ Operand(p) # Jsonb
      BY OperandApart, HandWrittenNames DEF BaseTypes
    <3>3. ReadAt(JsonEntryType, s[1]) = s[1] /\ ReadAt(JsonEntryType, s[2]) = s[2]
      BY <2>5, <3>2 DEF ReadAt
    <3>4. e = WrapperEntry(JsonEntryType, r[1], s[1], s[2], JsonEntryTerm)
      BY <2>1, <2>7
    <3>5. JsonEntryTerm # "Ore"
      BY DEF JsonEntryTerm
    <3> HIDE DEF S, s
    <3>6. Extracted(JsonEntryType, s[1], JsonEntryTerm, S) /\ Extracted(JsonEntryType, s[2], JsonEntryTerm, S)
      BY <2>5, <3>1, <3>3 DEF Extracted
    <3> QED  BY <2>6, <3>4, <3>5, <3>6, WrapperReads
  <2>8. CASE ~r[3]
    <3>1. e = UnsupportedEntry(r[1], s[1], s[2])
      BY <2>1, <2>8
    <3> HIDE DEF S, s
    <3> QED  BY <2>6, <3>1, UnsupportedReads
  <2> QED  BY <2>7, <2>8
<1> HIDE DEF c, S
<1>4. Reads(c) \subseteq S
  BY <1>2, <1>3, ReadsParts
<1> QED  BY <1>4 DEF c, S

LEMMA SeamOperatorsRead ==
  ASSUME NEW M, Closed(M), NEW f \in Seamed, FunctionsPath(f, JsonEntryStem(f)) \in M
  PROVE  Reads(RenderCrossOperators(f)) \subseteq Provided(M)
<1> DEFINE c == RenderCrossOperators(f)
           S == Provided(M)
<1>1. f \in CatalogFamilies /\ Found(JsonEntryType, S)
  BY SeamProvided
<1>2. c.functions = {} /\ c.calls = {}
  BY DEF RenderCrossOperators, OperatorsFile, File
<1>3. ASSUME NEW o \in c.operators PROVE Typed(o.op.args) \subseteq S /\ o.procedure \in S
  <2>1. PICK r \in CrossRows(f) : o = OperatorEntry(r[1], r[2][1], r[2][2], r[3])
    BY <1>1, SeamOperators
  <2>2. PICK p \in Queryables : \E op \in Comparisons : \E s \in SeamPairs(p) :
          p[1] = f /\ r = <<op, s, op \in OrderOps /\ p[2] \in CrossDomains(f)>>
    BY <1>1, SeamRows
  <2>3. r[2] \in SeamPairs(p) /\ p[1] = f
    BY <2>2
  <2> DEFINE s == r[2]
  <2>4. s[1] \in {JsonEntryType, Operand(p)} /\ s[2] \in {JsonEntryType, Operand(p)}
    BY <2>3 DEF SeamPairs, BothWays
  <2>5. Found(s[1], S) /\ Found(s[2], S)
    BY <1>1, <2>3, <2>4, SeamProvided
  <2>6. o.op = Op(r[1], s[1], s[2])
    BY <2>1 DEF OperatorEntry
  <2>7. CASE r[3]
    <3> DEFINE e == WrapperEntry(JsonEntryType, r[1], s[1], s[2], JsonEntryTerm)
    <3>1. e \in RenderCrossFunctions(f).functions
      BY <1>1, <2>7, SeamFunctions
    <3>2. e.fn \in S
      BY <3>1, SeamProvided
    <3>3. e.fn = Fn("eql_v3", WrapperFunctionName(r[1]), <<s[1], s[2]>>)
      BY EntryFields
    <3>4. o.procedure = Fn("eql_v3", WrapperFunctionName(r[1]), <<s[1], s[2]>>)
      BY <2>1, <2>7 DEF OperatorEntry
    <3> HIDE DEF e, S, s
    <3>5. o.op.args = <<s[1], s[2]>>
      BY <2>6, OperatorFields
    <3> QED  BY <2>5, <3>2, <3>3, <3>4, <3>5, TypedFound
  <2>8. CASE ~r[3]
    <3> DEFINE e == UnsupportedEntry(r[1], s[1], s[2])
    <3>1. e \in RenderCrossFunctions(f).functions
      BY <1>1, <2>8, SeamFunctions
    <3>2. e.fn \in S
      BY <3>1, SeamProvided
    <3>3. e.fn = Fn("eql_v3_internal", FunctionName(r[1]), <<s[1], s[2]>>)
      BY UnsupportedFunction
    <3>4. o.procedure = Fn("eql_v3_internal", FunctionName(r[1]), <<s[1], s[2]>>)
      BY <2>1, <2>8 DEF OperatorEntry
    <3> HIDE DEF e, S, s
    <3>5. o.op.args = <<s[1], s[2]>>
      BY <2>6, OperatorFields
    <3> QED  BY <2>5, <3>2, <3>3, <3>4, <3>5, TypedFound
  <2> QED  BY <2>7, <2>8
<1> HIDE DEF c, S
<1>4. Reads(c) \subseteq S
  BY <1>2, <1>3, ReadsParts
<1> QED  BY <1>4 DEF c, S

\* An aggregate compares by the operators of its domain.
LEMMA AggregatesRead ==
  ASSUME NEW M, Closed(M), NEW p \in Scalars, OperatorsPath(p[1], ColumnStem(p)) \in M
  PROVE  Reads(RenderAggregatesFile(p[1], p[2])) \subseteq Provided(M)
<1> DEFINE c == RenderAggregatesFile(p[1], p[2])
           S == Provided(M)
           r == ColumnOperatorsRow(p)
<1>1. r \in Rows /\ r[1] = OperatorsPath(p[1], ColumnStem(p)) /\ r[2] = RenderOperatorsFile(p[1], p[2])
  BY RowsInstalled DEF ColumnOperatorsRow
<1> HIDE DEF r
<1>2. Creates(RenderOperatorsFile(p[1], p[2])) \subseteq S
  BY <1>1, ClosedRow
<1>3. ASSUME NEW op \in OrderOps PROVE Op(op, Column(p), Column(p)) \in S
  <2> DEFINE sig == <<"Domain", "Domain">>
  <2>1. op \in OperatorSymbols /\ sig \in Signatures(op)
    BY DEF OperatorSymbols, Comparisons, Signatures, SymmetricSignatures, OrderOps
  <2>2. At(sig, Column(p))[1] = Column(p) /\ At(sig, Column(p))[2] = Column(p)
    BY DEF At, Rendered
  <2> HIDE DEF sig
  <2> DEFINE o == OperatorEntry(op, At(sig, Column(p))[1], At(sig, Column(p))[2], ColumnAnswers(p, op, sig))
  <2>3. o \in RenderOperatorsFile(p[1], p[2]).operators
    BY <2>1, ColumnOperators
  <2>4. o.op = Op(op, Column(p), Column(p))
    BY <2>2 DEF OperatorEntry
  <2> HIDE DEF o, S
  <2> QED  BY <1>2, <2>3, <2>4, CreatesParts
<1>4. c.functions = {} /\ c.operators = {}
  BY DEF RenderAggregatesFile, File
<1>5. c.calls = {Op(AggregateOps[a], Column(p), Column(p)) : a \in DOMAIN AggregateOps}
  BY DEF RenderAggregatesFile, File, Column
<1>6. \A a \in DOMAIN AggregateOps : AggregateOps[a] \in OrderOps
  BY DEF AggregateOps, OrderOps
<1>7. c.calls \subseteq S
  BY <1>3, <1>5, <1>6
<1> HIDE DEF c, S
<1>8. Reads(c) \subseteq S
  BY <1>4, <1>7, ReadsParts
<1> QED  BY <1>8 DEF c, S

LEMMA FallbackReads ==
  ASSUME NEW M, Closed(M), FallbackRow[1] \in M
  PROVE  Reads(RenderOreFallback) \subseteq Provided(M)
<1> DEFINE c == RenderOreFallback
           S == Provided(M)
<1>1. c.functions = {} /\ c.operators = {}
  BY DEF RenderOreFallback, File
<1>2. c.requires \subseteq M
  <2>1. FallbackRow \in Rows /\ FallbackRow[2] = c
    BY RowsInstalled DEF FallbackRow
  <2> QED  BY <2>1, ClosedRow
<1>3. ASSUME NEW f \in OreFamilies, NEW d \in OreDomains(f)
      PROVE  Type(DomainName(f, d)) \in S /\ Type(QueryDomainName(f, d)) \in S
  <2> DEFINE p == <<f, d>>
  <2>1. p \in Queryables /\ p[1] = f /\ Column(p) = DomainName(f, d) /\ Operand(p) = QueryDomainName(f, d)
    BY OreDomainsQueried DEF Column, Operand
  <2>2. TypesPath(f) \in M /\ QueryTypesPath(f) \in M
    BY <1>2, RequiresOf
  <2> HIDE DEF p
  <2>3. p \in Scalars
    BY <2>1, QueryablesTyped
  <2> QED  BY <2>1, <2>2, <2>3, TypesProvided
<1>4. c.calls = UNION {UNION {{Type(DomainName(f, d)), Type(QueryDomainName(f, d))} : d \in OreDomains(f)} :
                         f \in OreFamilies}
  BY DEF RenderOreFallback, File
<1> HIDE DEF c, S
<1>5. c.calls \subseteq S
  BY <1>3, <1>4
<1>6. Reads(c) \subseteq S
  BY <1>1, <1>5, ReadsParts
<1> QED  BY <1>6 DEF c, S

\* The types files and those that only mark a step read nothing.
LEMMA TypesFilesRead ==
  ASSUME NEW c, c.functions = {}, c.operators = {}, c.calls = {}
  PROVE  Reads(c) = {}
BY DEF Reads

LEMMA TermFunctionsRead ==
  ASSUME NEW M, Closed(M), NEW t \in Terms, TermFunctionsPath(t) \in M
  PROVE  Reads(TermFunctionsFile(t)) \subseteq Provided(M)
<1> DEFINE c == TermFunctionsFile(t)
           S == Provided(M)
           e == Entry("constructor", Fn("eql_v3_internal", Ctor[t], <<Jsonb>>), "", Jsonb, t, {Type(TermType(t))})
<1>1. c.functions = {e} /\ c.operators = {} /\ c.calls = {}
  BY DEF TermFunctionsFile, FunctionsFile, File
<1>2. e.fn = Fn("eql_v3_internal", Ctor[t], <<Jsonb>>) /\ e.calls = {Type(TermType(t))}
  BY DEF Entry
<1>3. Type(TermType(t)) \in S
  BY HandWrittenProvided
<1>4. Found(Jsonb, S)
  BY DEF Found, BaseTypes
<1> HIDE DEF c, S, e
<1>5. e.fn.args = <<Jsonb>>
  BY <1>2, OperatorFields
<1>6. ReadBy(e) \subseteq S
  BY <1>2, <1>3, <1>4, <1>5, TypedFound DEF ReadBy
<1>7. Reads(c) \subseteq S
  BY <1>1, <1>6, ReadsParts
<1> QED  BY <1>7 DEF c, S

LEMMA OreRead ==
  ASSUME NEW M, Closed(M)
  PROVE  /\ OreOperators \in M => Reads(OreOperatorsFile) \subseteq Provided(M)
         /\ OreOpclass \in M => Reads(OreOpclassFile) \subseteq Provided(M)
<1> DEFINE S == Provided(M)
<1>1. "Ore" \in Terms
  BY DEF Terms
<1>2. ASSUME OreOperators \in M PROVE Reads(OreOperatorsFile) \subseteq S
  <2> DEFINE c == OreOperatorsFile
             r == <<OreOperators, c>>
  <2>1. r \in Rows /\ r[1] = OreOperators /\ r[2] = c
    BY RowsInstalled DEF OreFiles
  <2> HIDE DEF r
  <2>2. TermTypesPath("Ore") \in M
    BY <1>2, <2>1, ClosedRow, RequiresOf DEF OreRequires
  <2>3. Found(OreType, S)
    BY <1>1, <2>2, TypesProvided DEF Found, OreType
  <2>4. ASSUME NEW e \in c.functions PROVE ReadBy(e) \subseteq S
    <3>1. PICK op \in Comparisons : e = Entry("comparison", OreComparator(op), op, OreType, "Ore", {})
      BY DEF OreOperatorsFile, File
    <3>2. e.fn = Fn("eql_v3_internal", op, <<OreType, OreType>>) /\ e.calls = {}
      BY <3>1 DEF Entry, OreComparator
    <3>3. e.fn.args = <<OreType, OreType>>
      BY <3>2, OperatorFields
    <3> HIDE DEF S
    <3> QED  BY <2>3, <3>2, <3>3, TypedFound DEF ReadBy
  <2>5. ASSUME NEW o \in c.operators PROVE Typed(o.op.args) \subseteq S /\ o.procedure \in S
    <3>1. PICK op \in Comparisons :
            o = [op |-> Op(op, OreType, OreType), procedure |-> OreComparator(op),
                 commutator |-> Commutator(op), negator |-> Negator(op)]
      BY DEF OreOperatorsFile, File
    <3>2. o.op = Op(op, OreType, OreType) /\ o.procedure = OreComparator(op)
      BY <3>1
    <3>3. o.op.args = <<OreType, OreType>>
      BY <3>2, OperatorFields
    <3>4. OreComparator(op) \in S
      BY <1>2, HandWrittenProvided
    <3> HIDE DEF S
    <3> QED  BY <2>3, <3>2, <3>3, <3>4, TypedFound
  <2>6. c.calls = {}
    BY DEF OreOperatorsFile, File
  <2> HIDE DEF c, S
  <2>7. Reads(c) \subseteq S
    BY <2>4, <2>5, <2>6, ReadsParts
  <2> QED  BY <2>7 DEF c
<1>3. ASSUME OreOpclass \in M PROVE Reads(OreOpclassFile) \subseteq S
  <2> DEFINE c == OreOpclassFile
             r == <<OreOpclass, c>>
  <2>1. r \in Rows /\ r[1] = OreOpclass /\ r[2] = c
    BY RowsInstalled DEF OreFiles
  <2> HIDE DEF r
  <2>2. OreOperators \in M
    BY <1>3, <2>1, ClosedRow, RequiresOf
  <2>3. c.functions = {} /\ c.operators = {}
    BY DEF OreOpclassFile, File
  <2>4. c.calls = {Op(op, OreType, OreType) : op \in Comparisons \ {"<>"}}
    BY DEF OreOpclassFile, File
  <2>5. c.calls \subseteq S
    BY <2>2, <2>4, HandWrittenProvided
  <2> HIDE DEF c, S
  <2>6. Reads(c) \subseteq S
    BY <2>3, <2>5, ReadsParts
  <2> QED  BY <2>6 DEF c
<1> QED  BY <1>2, <1>3

\* The types in what is declared for documents.
LEMMA DocumentTypes ==
  ASSUME NEW r \in JsonAnswered \union JsonBlocked
  PROVE  /\ r[2] \in BaseTypes \union {JsonSearchType, JsonEntryType, JsonQueryType}
         /\ r[3] \in BaseTypes \union {JsonSearchType, JsonEntryType, JsonQueryType}
<1>1. \A word \in {"text", "integer", "text[]", "jsonpath"} : <<word>> \in BaseTypes
  BY DEF BaseTypes
<1>2. Jsonb \in BaseTypes
  BY DEF BaseTypes
<1>3. CASE r \in JsonAnswered
  BY <1>1, <1>3 DEF JsonAnswered
<1>4. CASE r \in JsonBlocked
  <2>1. CASE \E s \in ({"?", "-"} \X {"text"}) \union ({"?|", "?&", "#>", "#>>", "-", "#-"} \X {"text[]"})
                        \union ({"@?", "@@"} \X {"jsonpath"}) \union {<<"-", "integer">>} :
               r = <<s[1], JsonSearchType, <<s[2]>> >>
    <3>1. PICK s \in ({"?", "-"} \X {"text"}) \union ({"?|", "?&", "#>", "#>>", "-", "#-"} \X {"text[]"})
                       \union ({"@?", "@@"} \X {"jsonpath"}) \union {<<"-", "integer">>} :
                 r = <<s[1], JsonSearchType, <<s[2]>> >>
      BY <2>1
    <3>2. s[2] \in {"text", "integer", "text[]", "jsonpath"}
      OBVIOUS
    <3>3. r[2] = JsonSearchType /\ r[3] = <<s[2]>>
      BY <3>1
    <3> QED  BY <1>1, <3>2, <3>3
  <2>2. CASE \E op \in Comparisons : r = <<op, JsonSearchType, JsonSearchType>>
    BY <2>2
  <2>3. CASE \E op \in Comparisons \union {"@>", "<@", "||"} : \E s \in BothWays(JsonSearchType, Jsonb) :
               r = <<op, s[1], s[2]>>
    BY <1>2, <2>3 DEF BothWays
  <2>4. CASE r \in {<<"@>", JsonSearchType, JsonEntryType>>, <<"<@", JsonEntryType, JsonSearchType>>}
    BY <2>4
  <2> QED  BY <1>4, <2>1, <2>2, <2>3, <2>4 DEF JsonBlocked
<1> QED  BY <1>3, <1>4

\* What is declared for a document: its type, its function and its operator.
LEMMA DocumentDeclares ==
  ASSUME NEW S, \A T \in {JsonSearchType, JsonEntryType, JsonQueryType} : Type(T) \in S,
         NEW r \in JsonAnswered \union JsonBlocked
  PROVE  /\ \A e : e.fn.args = <<r[2], r[3]>> /\ e.calls = {} => ReadBy(e) \subseteq S
         /\ \A fn : fn \in S => LET o == DeclareJson(r, fn) IN Typed(o.op.args) \subseteq S /\ o.procedure \in S
<1>1. Found(r[2], S) /\ Found(r[3], S)
  BY DocumentTypes DEF Found
<1>2. Typed(<<r[2], r[3]>>) \subseteq S
  BY <1>1, TypedFound
<1>3. \A e : e.fn.args = <<r[2], r[3]>> /\ e.calls = {} => ReadBy(e) \subseteq S
  BY <1>2 DEF ReadBy
<1>4. ASSUME NEW fn \in S
      PROVE  LET o == DeclareJson(r, fn) IN Typed(o.op.args) \subseteq S /\ o.procedure \in S
  <2> DEFINE o == DeclareJson(r, fn)
  <2>1. o.op = Op(r[1], r[2], r[3]) /\ o.procedure = fn
    BY OperatorFields
  <2>2. o.op.args = <<r[2], r[3]>>
    BY <2>1, OperatorFields
  <2> HIDE DEF o
  <2>3. Typed(o.op.args) \subseteq S /\ o.procedure \in S
    BY <1>2, <2>1, <2>2
  <2> QED  BY <2>3 DEF o
<1> QED  BY <1>3, <1>4

JsonOperators == <<"json", "operators">>
JsonBlockers == <<"json", "blockers">>
JsonAggregates == <<"json", "aggregates">>

LEMMA JsonFunctionsRead ==
  ASSUME NEW M, Closed(M), JsonFunctions \in M
  PROVE  Reads(JsonFunctionsFile) \subseteq Provided(M)
<1> DEFINE c == JsonFunctionsFile
           S == Provided(M)
           r == <<JsonFunctions, c>>
           e == ExtractorEntry(JsonEntryType, JsonEntryTerm)
<1>1. r \in Rows /\ r[1] = JsonFunctions /\ r[2] = c
  BY RowsInstalled DEF JsonFiles
<1>2. c.functions = {e} /\ c.operators = {} /\ c.calls = {}
  BY DEF JsonFunctionsFile, FunctionsFile, File
<1> HIDE DEF r, e
<1>3. JsonTypes \in M /\ TermFunctionsPath(JsonEntryTerm) \in M
  BY <1>1, ClosedRow, RequiresOf
<1>4. JsonEntryTerm \in Terms
  BY DEF JsonEntryTerm, Terms
<1>5. Found(JsonEntryType, S) /\ Fn("eql_v3_internal", Ctor[JsonEntryTerm], <<Jsonb>>) \in S
  BY <1>3, <1>4, TypesProvided, HandWrittenProvided DEF Found
<1> HIDE DEF c, S
<1>6. ReadBy(e) \subseteq S
  BY <1>5, ExtractorReads DEF e
<1>7. Reads(c) \subseteq S
  BY <1>2, <1>6, ReadsParts
<1> QED  BY <1>7 DEF c, S

LEMMA JsonOperatorsRead ==
  ASSUME NEW M, Closed(M), JsonOperators \in M
  PROVE  Reads(JsonOperatorsFile) \subseteq Provided(M)
<1> DEFINE c == JsonOperatorsFile
           S == Provided(M)
           row == <<JsonOperators, c>>
<1>1. row \in Rows /\ row[1] = JsonOperators /\ row[2] = c
  BY RowsInstalled DEF JsonFiles, JsonOperators
<1> HIDE DEF row
<1>2. JsonTypes \in M /\ JsonFunctions \in M
  BY <1>1, ClosedRow, RequiresOf
<1>3. \A T \in {JsonSearchType, JsonEntryType, JsonQueryType} : Type(T) \in S
  BY <1>2, TypesProvided
<1>4. Found(JsonEntryType, S) /\ Fn("eql_v3", Extractor[JsonEntryTerm], <<JsonEntryType>>) \in S
  BY <1>2, <1>3, HandWrittenProvided DEF Found
<1>5. \A e \in c.functions : e.fn \in S
  BY <1>1, ClosedRow, CreatesParts
<1>6. ASSUME NEW r \in JsonAnswered
      PROVE  Entry("document", DocumentFn(r), r[1], JsonSearchType, "", {}) \in c.functions
  BY DEF JsonOperatorsFile, File
<1>7. ASSUME NEW op \in OrderOps
      PROVE  WrapperEntry(JsonEntryType, op, JsonEntryType, JsonEntryType, JsonEntryTerm) \in c.functions
  BY DEF JsonOperatorsFile, File
<1>8. ASSUME NEW op \in EqualityOps PROVE EntryRefusal(op) \in c.functions
  BY DEF JsonOperatorsFile, File
<1>9. ASSUME NEW e \in c.functions PROVE ReadBy(e) \subseteq S
  <2>1. CASE \E r \in JsonAnswered : e = Entry("document", DocumentFn(r), r[1], JsonSearchType, "", {})
    <3>1. PICK r \in JsonAnswered : e = Entry("document", DocumentFn(r), r[1], JsonSearchType, "", {})
      BY <2>1
    <3>2. e.fn = Fn("eql_v3", r[1], <<r[2], r[3]>>) /\ e.calls = {}
      BY <3>1 DEF Entry, DocumentFn
    <3>3. e.fn.args = <<r[2], r[3]>>
      BY <3>2, OperatorFields
    <3> HIDE DEF S, c
    <3> QED  BY <1>3, <3>2, <3>3, DocumentDeclares
  <2>2. CASE \E op \in OrderOps :
               e = WrapperEntry(JsonEntryType, op, JsonEntryType, JsonEntryType, JsonEntryTerm)
    <3>1. PICK op \in OrderOps : e = WrapperEntry(JsonEntryType, op, JsonEntryType, JsonEntryType, JsonEntryTerm)
      BY <2>2
    <3>2. JsonEntryTerm # "Ore"
      BY DEF JsonEntryTerm
    <3>3. Extracted(JsonEntryType, JsonEntryType, JsonEntryTerm, S)
      <4>1. ReadAt(JsonEntryType, JsonEntryType) = JsonEntryType
        BY DEF ReadAt
      <4> QED  BY <1>4, <4>1 DEF Extracted
    <3> HIDE DEF S, c
    <3> QED  BY <1>4, <3>1, <3>2, <3>3, WrapperReads
  <2>3. CASE \E op \in EqualityOps : e = EntryRefusal(op)
    <3>1. PICK op \in EqualityOps : e = EntryRefusal(op)
      BY <2>3
    <3>2. e.fn = Fn("eql_v3", FunctionName(op), <<JsonEntryType, JsonEntryType>>) /\ e.calls = {}
      BY <3>1 DEF Entry, EntryRefusal
    <3>3. e.fn.args = <<JsonEntryType, JsonEntryType>>
      BY <3>2, OperatorFields
    <3> HIDE DEF S, c
    <3> QED  BY <1>4, <3>2, <3>3, TypedFound DEF ReadBy
  <2> QED  BY <2>1, <2>2, <2>3 DEF JsonOperatorsFile, File
<1>10. ASSUME NEW o \in c.operators PROVE Typed(o.op.args) \subseteq S /\ o.procedure \in S
  <2>1. CASE \E r \in JsonAnswered : o = DeclareJson(r, DocumentFn(r))
    <3>1. PICK r \in JsonAnswered : o = DeclareJson(r, DocumentFn(r))
      BY <2>1
    <3>2. Entry("document", DocumentFn(r), r[1], JsonSearchType, "", {}).fn = DocumentFn(r)
      BY DEF Entry
    <3> HIDE DEF S, c
    <3>3. DocumentFn(r) \in S
      BY <1>5, <1>6, <3>2
    <3> QED  BY <1>3, <3>1, <3>3, DocumentDeclares
  <2>2. CASE \E op \in OrderOps : o = OperatorEntry(op, JsonEntryType, JsonEntryType, TRUE)
    <3>1. PICK op \in OrderOps : o = OperatorEntry(op, JsonEntryType, JsonEntryType, TRUE)
      BY <2>2
    <3> DEFINE e == WrapperEntry(JsonEntryType, op, JsonEntryType, JsonEntryType, JsonEntryTerm)
    <3>2. /\ o.op = Op(op, JsonEntryType, JsonEntryType)
          /\ o.procedure = Fn("eql_v3", WrapperFunctionName(op), <<JsonEntryType, JsonEntryType>>)
      BY <3>1 DEF OperatorEntry
    <3>3. e.fn = Fn("eql_v3", WrapperFunctionName(op), <<JsonEntryType, JsonEntryType>>)
      BY EntryFields
    <3>4. e.fn \in S
      BY <1>5, <1>7
    <3>5. o.op.args = <<JsonEntryType, JsonEntryType>>
      BY <3>2, OperatorFields
    <3> HIDE DEF S, c, e
    <3> QED  BY <1>4, <3>2, <3>3, <3>4, <3>5, TypedFound
  <2>3. CASE \E op \in EqualityOps :
               o = DeclareJson(<<op, JsonEntryType, JsonEntryType>>, EntryRefusal(op).fn)
    <3>1. PICK op \in EqualityOps : o = DeclareJson(<<op, JsonEntryType, JsonEntryType>>, EntryRefusal(op).fn)
      BY <2>3
    <3>2. o.op = Op(op, JsonEntryType, JsonEntryType) /\ o.procedure = EntryRefusal(op).fn
      BY <3>1 DEF DeclareJson
    <3>3. o.op.args = <<JsonEntryType, JsonEntryType>>
      BY <3>2, OperatorFields
    <3> HIDE DEF S, c
    <3> QED  BY <1>4, <1>5, <1>8, <3>2, <3>3, TypedFound
  <2> QED  BY <2>1, <2>2, <2>3 DEF JsonOperatorsFile, File
<1>11. c.calls = {}
  BY DEF JsonOperatorsFile, File
<1> HIDE DEF c, S
<1>12. Reads(c) \subseteq S
  BY <1>9, <1>10, <1>11, ReadsParts
<1> QED  BY <1>12 DEF c, S

LEMMA JsonBlockersRead ==
  ASSUME NEW M, Closed(M), JsonBlockers \in M
  PROVE  Reads(JsonBlockersFile) \subseteq Provided(M)
<1> DEFINE c == JsonBlockersFile
           S == Provided(M)
           row == <<JsonBlockers, c>>
<1>1. row \in Rows /\ row[1] = JsonBlockers /\ row[2] = c
  BY RowsInstalled DEF JsonFiles, JsonBlockers
<1> HIDE DEF row
<1>2. JsonTypes \in M
  BY <1>1, ClosedRow, RequiresOf
<1>3. \A T \in {JsonSearchType, JsonEntryType, JsonQueryType} : Type(T) \in S
  BY <1>2, TypesProvided
<1>4. \A e \in c.functions : e.fn \in S
  BY <1>1, ClosedRow, CreatesParts
<1>5. ASSUME NEW r \in JsonBlocked
      PROVE  Entry("blocker", BlockedFn(r), r[1], JsonSearchType, "", {}) \in c.functions
  BY DEF JsonBlockersFile, File
<1>6. ASSUME NEW e \in c.functions PROVE ReadBy(e) \subseteq S
  <2>1. PICK r \in JsonBlocked : e = Entry("blocker", BlockedFn(r), r[1], JsonSearchType, "", {})
    BY DEF JsonBlockersFile, File
  <2>2. e.fn = Fn("eql_v3_internal", r[1], <<r[2], r[3]>>) /\ e.calls = {}
    BY <2>1 DEF Entry, BlockedFn
  <2>3. e.fn.args = <<r[2], r[3]>>
    BY <2>2, OperatorFields
  <2> HIDE DEF S, c
  <2> QED  BY <1>3, <2>2, <2>3, DocumentDeclares
<1>7. ASSUME NEW o \in c.operators PROVE Typed(o.op.args) \subseteq S /\ o.procedure \in S
  <2>1. PICK r \in JsonBlocked : o = DeclareJson(r, BlockedFn(r))
    BY DEF JsonBlockersFile, File
  <2>2. Entry("blocker", BlockedFn(r), r[1], JsonSearchType, "", {}).fn = BlockedFn(r)
    BY DEF Entry
  <2> HIDE DEF S, c
  <2>3. BlockedFn(r) \in S
    BY <1>4, <1>5, <2>2
  <2> QED  BY <1>3, <2>1, <2>3, DocumentDeclares
<1>8. c.calls = {}
  BY DEF JsonBlockersFile, File
<1> HIDE DEF c, S
<1>9. Reads(c) \subseteq S
  BY <1>6, <1>7, <1>8, ReadsParts
<1> QED  BY <1>9 DEF c, S

LEMMA JsonAggregatesRead ==
  ASSUME NEW M, Closed(M), JsonAggregates \in M
  PROVE  Reads(JsonAggregatesFile) \subseteq Provided(M)
<1> DEFINE c == JsonAggregatesFile
           S == Provided(M)
           row == <<JsonAggregates, c>>
<1>1. row \in Rows /\ row[1] = JsonAggregates /\ row[2] = c
  BY RowsInstalled DEF JsonFiles, JsonAggregates
<1>2. /\ c.functions = {} /\ c.operators = {}
      /\ c.calls = {Type(JsonEntryType), Fn("eql_v3", Extractor[JsonEntryTerm], <<JsonEntryType>>)}
  BY DEF JsonAggregatesFile, File
<1> HIDE DEF row
<1>3. JsonTypes \in M /\ JsonFunctions \in M
  BY <1>1, ClosedRow, RequiresOf
<1>4. c.calls \subseteq S
  BY <1>2, <1>3, TypesProvided, HandWrittenProvided
<1> HIDE DEF c, S
<1>5. Reads(c) \subseteq S
  BY <1>2, <1>4, ReadsParts
<1> QED  BY <1>5 DEF c, S

\* Whatever a file names, the files that come with it bring.
LEMMA ReadsProvided ==
  ASSUME NEW M, Closed(M), NEW r \in Rows, r[1] \in M
  PROVE  Reads(r[2]) \subseteq Provided(M)
<1> DEFINE S == Provided(M)
<1>1. CASE \E path \in PlainPaths : r = <<path, PlainFile(path)>>
  <2>1. r[2].functions = {} /\ r[2].operators = {} /\ r[2].calls = {}
    BY <1>1 DEF PlainFile, File
  <2> QED  BY <2>1, TypesFilesRead
<1>2. CASE \E t \in Terms : r \in TermSqlFiles(t)
  <2>1. PICK t \in Terms : r \in TermSqlFiles(t)
    BY <1>2
  <2>2. CASE r = <<TermTypesPath(t), TermTypesFile(t)>>
    <3>1. r[2].functions = {} /\ r[2].operators = {} /\ r[2].calls = {}
      BY <2>2 DEF TermTypesFile, TypesOnly, File
    <3> QED  BY <3>1, TypesFilesRead
  <2>3. CASE r = <<TermFunctionsPath(t), TermFunctionsFile(t)>>
    <3>1. r[1] = TermFunctionsPath(t) /\ r[2] = TermFunctionsFile(t)
      BY <2>3
    <3> QED  BY <3>1, TermFunctionsRead
  <2> QED  BY <2>1, <2>2, <2>3 DEF TermSqlFiles
<1>3. CASE r \in OreFiles
  <2>1. \/ r[1] = OreOperators /\ r[2] = OreOperatorsFile
        \/ r[1] = OreOpclass /\ r[2] = OreOpclassFile
    BY <1>3 DEF OreFiles
  <2> QED  BY <2>1, OreRead
<1>4. CASE r \in JsonFiles
  <2>1. \/ r[1] = JsonTypes /\ r[2] = JsonTypesFile
        \/ r[1] = JsonFunctions /\ r[2] = JsonFunctionsFile
        \/ r[1] = JsonOperators /\ r[2] = JsonOperatorsFile
        \/ r[1] = JsonBlockers /\ r[2] = JsonBlockersFile
        \/ r[1] = JsonAggregates /\ r[2] = JsonAggregatesFile
    BY <1>4 DEF JsonFiles, JsonOperators, JsonBlockers, JsonAggregates
  <2>2. JsonTypesFile.functions = {} /\ JsonTypesFile.operators = {} /\ JsonTypesFile.calls = {}
    BY DEF JsonTypesFile, TypesOnly, File
  <2> QED  BY <2>1, <2>2, TypesFilesRead, JsonFunctionsRead, JsonOperatorsRead, JsonBlockersRead, JsonAggregatesRead
<1>5. CASE r = FallbackRow
  <2>1. r[2] = RenderOreFallback
    BY <1>5 DEF FallbackRow
  <2> QED  BY <1>5, <2>1, FallbackReads
<1>6. CASE \E f \in CatalogFamilies : r = TypesRow(f)
  <2>1. r[2].functions = {} /\ r[2].operators = {} /\ r[2].calls = {}
    BY <1>6 DEF TypesRow, RenderTypesFile, TypesOnly, File
  <2> QED  BY <2>1, TypesFilesRead
<1>7. CASE \E f \in Queried : r = QueryTypesRow(f)
  <2>1. r[2].functions = {} /\ r[2].operators = {} /\ r[2].calls = {}
    BY <1>7 DEF QueryTypesRow, RenderQueryTypesFile, TypesOnly, File
  <2> QED  BY <2>1, TypesFilesRead
<1>8. CASE \E f \in Seamed : r \in {SeamFunctionsRow(f), SeamOperatorsRow(f)}
  <2>1. PICK f \in Seamed : r \in {SeamFunctionsRow(f), SeamOperatorsRow(f)}
    BY <1>8
  <2>2. CASE r = SeamFunctionsRow(f)
    <3>1. r[1] = FunctionsPath(f, JsonEntryStem(f)) /\ r[2] = RenderCrossFunctions(f)
      BY <2>2 DEF SeamFunctionsRow
    <3> QED  BY <3>1, SeamFunctionsRead
  <2>3. CASE r = SeamOperatorsRow(f)
    <3>1. r[2] = RenderCrossOperators(f)
      BY <2>3 DEF SeamOperatorsRow
    <3>2. FunctionsPath(f, JsonEntryStem(f)) \in M
      BY <3>1, ClosedRow, RequiresOf
    <3> QED  BY <3>1, <3>2, SeamOperatorsRead
  <2> QED  BY <2>1, <2>2, <2>3
<1>9. CASE \E p \in Scalars : r \in {ColumnFunctionsRow(p), ColumnOperatorsRow(p)}
  <2>1. PICK p \in Scalars : r \in {ColumnFunctionsRow(p), ColumnOperatorsRow(p)}
    BY <1>9
  <2>2. CASE r = ColumnFunctionsRow(p)
    <3>1. r[1] = FunctionsPath(p[1], ColumnStem(p)) /\ r[2] = RenderFunctionsFile(p[1], p[2])
      BY <2>2 DEF ColumnFunctionsRow
    <3> QED  BY <3>1, ColumnFunctionsRead
  <2>3. CASE r = ColumnOperatorsRow(p)
    <3>1. r[2] = RenderOperatorsFile(p[1], p[2])
      BY <2>3 DEF ColumnOperatorsRow
    <3>2. RenderOperatorsFile(p[1], p[2]).requires = {Schema, TypesPath(p[1]), FunctionsPath(p[1], ColumnStem(p))}
      BY RequiresOf
    <3>3. FunctionsPath(p[1], ColumnStem(p)) \in M
      BY <3>1, <3>2, ClosedRow
    <3> QED  BY <3>1, <3>3, ColumnOperatorsRead
  <2> QED  BY <2>1, <2>2, <2>3
<1>10. CASE \E p \in Queryables : r \in {OperandFunctionsRow(p), OperandOperatorsRow(p)}
  <2>1. PICK p \in Queryables : r \in {OperandFunctionsRow(p), OperandOperatorsRow(p)}
    BY <1>10
  <2>2. CASE r = OperandFunctionsRow(p)
    <3>1. r[1] = FunctionsPath(p[1], OperandStem(p)) /\ r[2] = RenderQueryFunctionsFile(p[1], p[2])
      BY <2>2 DEF OperandFunctionsRow
    <3> QED  BY <3>1, OperandFunctionsRead
  <2>3. CASE r = OperandOperatorsRow(p)
    <3>1. r[2] = RenderQueryOperatorsFile(p[1], p[2])
      BY <2>3 DEF OperandOperatorsRow
    <3>2. FunctionsPath(p[1], OperandStem(p)) \in M
      BY <3>1, ClosedRow, RequiresOf
    <3> QED  BY <3>1, <3>2, OperandOperatorsRead
  <2> QED  BY <2>1, <2>2, <2>3
<1>11. CASE \E p \in Ordered : r = AggregatesRow(p)
  <2>1. PICK p \in Ordered : r = AggregatesRow(p)
    BY <1>11
  <2>2. p \in Scalars
    BY DEF Ordered
  <2>3. r[2] = RenderAggregatesFile(p[1], p[2])
    BY <2>1 DEF AggregatesRow
  <2>4. OperatorsPath(p[1], ColumnStem(p)) \in RenderAggregatesFile(p[1], p[2]).requires
    BY RequiresOf
  <2>5. OperatorsPath(p[1], ColumnStem(p)) \in M
    BY <2>3, <2>4, ClosedRow
  <2> QED  BY <2>2, <2>3, <2>5, AggregatesRead
<1> QED  BY <1>1, <1>2, <1>3, <1>4, <1>5, <1>6, <1>7, <1>8, <1>9, <1>10, <1>11, RowsListed

(***************************************************************************)
(* Each object is created by one file, which its kind and the types of its *)
(* operands tell.                                                          *)
(***************************************************************************)
OperandTypes(x) == ToSet(x.args)

ColumnMark(p, S) == Column(p) \in S /\ S \subseteq {Column(p)} \union BaseTypes
OperandMark(p, S) == Operand(p) \in S /\ S \subseteq {Column(p), Operand(p)}
SeamMark(p, S) == S = {JsonEntryType, Operand(p)}
HandMark(S) == S \subseteq BaseTypes \union HandWrittenTypes

ColumnRow(p, kind) ==
  IF kind = "type" THEN TypesRow(p[1])
  ELSE IF kind = "function" THEN ColumnFunctionsRow(p) ELSE ColumnOperatorsRow(p)
OperandRow(p, kind) ==
  IF kind = "type" THEN QueryTypesRow(p[1])
  ELSE IF kind = "function" THEN OperandFunctionsRow(p) ELSE OperandOperatorsRow(p)
SeamRow(p, kind) == IF kind = "function" THEN SeamFunctionsRow(p[1]) ELSE SeamOperatorsRow(p[1])

ByColumn(r, x) == \E p \in Scalars : ColumnMark(p, OperandTypes(x)) /\ r = ColumnRow(p, x.kind)
ByOperand(r, x) == \E p \in Queryables : OperandMark(p, OperandTypes(x)) /\ r = OperandRow(p, x.kind)
BySeam(r, x) == \E p \in Queryables : SeamMark(p, OperandTypes(x)) /\ r = SeamRow(p, x.kind)

\* No set of types has two marks.
LEMMA MarksTell ==
  ASSUME NEW S
  PROVE  /\ \A p \in Scalars : ColumnMark(p, S) =>
              /\ \A q \in Scalars : ColumnMark(q, S) => q = p
              /\ \A q \in Queryables : ~OperandMark(q, S) /\ ~SeamMark(q, S)
              /\ ~HandMark(S)
         /\ \A p \in Queryables : OperandMark(p, S) =>
              /\ \A q \in Queryables : (OperandMark(q, S) => q = p) /\ ~SeamMark(q, S)
              /\ ~HandMark(S)
         /\ \A p \in Queryables : SeamMark(p, S) => (\A q \in Queryables : SeamMark(q, S) => q = p) /\ ~HandMark(S)
<1>1. JsonEntryType \in HandWrittenTypes
  BY DEF HandWrittenTypes
<1>2. ASSUME NEW p \in Scalars, ColumnMark(p, S)
      PROVE  /\ \A q \in Scalars : ColumnMark(q, S) => q = p
             /\ \A q \in Queryables : ~OperandMark(q, S) /\ ~SeamMark(q, S)
             /\ ~HandMark(S)
  <2>1. Column(p) \in S /\ S \subseteq {Column(p)} \union BaseTypes
    BY <1>2 DEF ColumnMark
  <2>2. ASSUME NEW q \in Scalars, ColumnMark(q, S) PROVE q = p
    <3>1. Column(q) = Column(p)
      BY <2>1, <2>2, ColumnApart DEF ColumnMark
    <3> QED  BY <3>1, ColumnTells
  <2>3. ASSUME NEW q \in Queryables, Operand(q) \in S PROVE FALSE
    BY <2>1, <2>3, ColumnApart, OperandApart, QueryablesTyped
  <2>4. ~HandMark(S)
    BY <2>1, ColumnApart DEF HandMark
  <2> QED  BY <2>2, <2>3, <2>4 DEF OperandMark, SeamMark
<1>3. ASSUME NEW p \in Queryables, OperandMark(p, S)
      PROVE  /\ \A q \in Queryables : (OperandMark(q, S) => q = p) /\ ~SeamMark(q, S)
             /\ ~HandMark(S)
  <2>1. Operand(p) \in S /\ S \subseteq {Column(p), Operand(p)} /\ p \in Scalars
    BY <1>3, QueryablesTyped DEF OperandMark
  <2>2. ASSUME NEW q \in Queryables, OperandMark(q, S) PROVE q = p
    <3>1. q \in Scalars /\ Operand(q) \in {Column(p), Operand(p)}
      BY <2>1, <2>2, QueryablesTyped DEF OperandMark
    <3>2. Operand(q) = Operand(p)
      BY <2>1, <3>1, ColumnApart
    <3> QED  BY <2>1, <3>1, <3>2, OperandTells
  <2>3. ASSUME NEW q \in Queryables, SeamMark(q, S) PROVE FALSE
    <3>1. JsonEntryType \in {Column(p), Operand(p)}
      BY <2>1, <2>3 DEF SeamMark
    <3> QED  BY <1>1, <2>1, <3>1, ColumnApart, OperandApart
  <2>4. ~HandMark(S)
    BY <2>1, OperandApart DEF HandMark
  <2> QED  BY <2>2, <2>3, <2>4
<1>4. ASSUME NEW p \in Queryables, SeamMark(p, S)
      PROVE  (\A q \in Queryables : SeamMark(q, S) => q = p) /\ ~HandMark(S)
  <2>1. S = {JsonEntryType, Operand(p)} /\ p \in Scalars
    BY <1>4, QueryablesTyped DEF SeamMark
  <2>2. ASSUME NEW q \in Queryables, SeamMark(q, S) PROVE q = p
    <3>1. q \in Scalars /\ Operand(q) \in {JsonEntryType, Operand(p)}
      BY <2>1, <2>2, QueryablesTyped DEF SeamMark
    <3>2. Operand(q) = Operand(p)
      BY <1>1, <3>1, OperandApart
    <3> QED  BY <2>1, <3>1, <3>2, OperandTells
  <2>3. ~HandMark(S)
    BY <2>1, OperandApart DEF HandMark
  <2> QED  BY <2>2, <2>3
<1> QED  BY <1>2, <1>3, <1>4

LEMMA ObjectFields ==
  /\ \A T : Type(T).kind = "type" /\ Type(T).args = <<T>>
  /\ \A schema, name, args : /\ Fn(schema, name, args).kind = "function"
                             /\ Fn(schema, name, args).args = args
  /\ \A op, a, b : Op(op, a, b).kind = "operator" /\ Op(op, a, b).args = <<a, b>>
BY DEF Type, Fn, Op, Object

LEMMA TypesTell ==
  /\ \A T : Type(T).kind = "type" /\ OperandTypes(Type(T)) = {T}
  /\ \A schema, name, a : OperandTypes(Fn(schema, name, <<a>>)) = {a}
  /\ \A schema, name, a, b : OperandTypes(Fn(schema, name, <<a, b>>)) = {a, b}
  /\ \A op, a, b : OperandTypes(Op(op, a, b)) = {a, b}
<1>1. /\ \A a : ToSet(<<a>>) = {a}
      /\ \A a, b : ToSet(<<a, b>>) = {a, b}
  BY TupleElements
<1>2. ASSUME NEW T PROVE Type(T).kind = "type" /\ OperandTypes(Type(T)) = {T}
  BY <1>1, ObjectFields DEF OperandTypes
<1>3. ASSUME NEW schema, NEW name, NEW a PROVE OperandTypes(Fn(schema, name, <<a>>)) = {a}
  BY <1>1, ObjectFields DEF OperandTypes
<1>4. ASSUME NEW schema, NEW name, NEW a, NEW b PROVE OperandTypes(Fn(schema, name, <<a, b>>)) = {a, b}
  BY <1>1, ObjectFields DEF OperandTypes
<1>5. ASSUME NEW op, NEW a, NEW b PROVE OperandTypes(Op(op, a, b)) = {a, b}
  <2> DEFINE x == Op(op, a, b)
  <2>1. x.args = <<a, b>>
    BY ObjectFields
  <2> HIDE DEF x
  <2>2. OperandTypes(x) = {a, b}
    BY <1>1, <2>1 DEF OperandTypes
  <2> QED  BY <2>2 DEF x
<1> QED  BY <1>2, <1>3, <1>4, <1>5

\* At its signatures, an operator has the domain and types of PostgreSQL's own.
LEMMA SlotsMarked ==
  ASSUME NEW op \in OperatorSymbols, NEW sig \in Signatures(op), NEW p
  PROVE  ColumnMark(p, {At(sig, Column(p))[1], At(sig, Column(p))[2]})
<1>1. /\ sig[1] \in {"Domain", "jsonb", "text", "integer", "text[]", "jsonpath"}
      /\ sig[2] \in {"Domain", "jsonb", "text", "integer", "text[]", "jsonpath"}
      /\ sig[1] = "Domain" \/ sig[2] = "Domain"
  <2>1. sig \in SymmetricSignatures \union JsonpathSignatures \union ArrowSignatures \union DeleteSignatures
                 \union TextArraySignatures \union {<<"Domain", "text">>}
    BY DEF Signatures
  <2> QED  BY <2>1 DEF SymmetricSignatures, JsonpathSignatures, ArrowSignatures, DeleteSignatures,
       TextArraySignatures
<1>2. \A word \in {"jsonb", "text", "integer", "text[]", "jsonpath"} : <<word>> \in BaseTypes
  BY DEF BaseTypes, Jsonb
<1>3. /\ Rendered(sig[1], Column(p)) \in {Column(p)} \union BaseTypes
      /\ Rendered(sig[2], Column(p)) \in {Column(p)} \union BaseTypes
      /\ Column(p) \in {Rendered(sig[1], Column(p)), Rendered(sig[2], Column(p))}
  BY <1>1, <1>2 DEF Rendered
<1>4. At(sig, Column(p))[1] = Rendered(sig[1], Column(p)) /\ At(sig, Column(p))[2] = Rendered(sig[2], Column(p))
  BY DEF At
<1> QED  BY <1>3, <1>4 DEF ColumnMark

\* What the files of a column create.
LEMMA ColumnCreates ==
  ASSUME NEW p \in Scalars
  PROVE  /\ \A x \in Creates(RenderFunctionsFile(p[1], p[2])) : ByColumn(ColumnFunctionsRow(p), x)
         /\ \A x \in Creates(RenderOperatorsFile(p[1], p[2])) : ByColumn(ColumnOperatorsRow(p), x)
<1>1. ASSUME NEW e \in RenderFunctionsFile(p[1], p[2]).functions
      PROVE  e.fn.kind = "function" /\ ColumnMark(p, OperandTypes(e.fn))
  <2>1. CASE \E t \in ExtractorTerms(p[2].terms) : e = ExtractorEntry(Column(p), t)
    <3>1. PICK t \in ExtractorTerms(p[2].terms) : e = ExtractorEntry(Column(p), t)
      BY <2>1
    <3>2. e.fn = Fn("eql_v3", Extractor[t], <<Column(p)>>)
      BY <3>1, ExtractorFields
    <3>3. e.fn.kind = "function" /\ OperandTypes(e.fn) = {Column(p)}
      BY <3>2, ObjectFields, TypesTell
    <3> QED  BY <3>3 DEF ColumnMark
  <2>2. ASSUME NEW op \in OperatorSymbols, NEW sig \in Signatures(op), NEW schema, NEW name,
               e.fn = Fn(schema, name, <<At(sig, Column(p))[1], At(sig, Column(p))[2]>>)
        PROVE  e.fn.kind = "function" /\ ColumnMark(p, OperandTypes(e.fn))
    <3>1. e.fn.kind = "function" /\ OperandTypes(e.fn) = {At(sig, Column(p))[1], At(sig, Column(p))[2]}
      BY <2>2, ObjectFields, TypesTell
    <3> QED  BY <3>1, SlotsMarked
  <2>3. CASE \E op \in OperatorSymbols : \E sig \in Signatures(op) :
               IF ColumnAnswers(p, op, sig)
               THEN \E t \in TermForOperator(p[2].terms, op) :
                      e = WrapperEntry(Column(p), op, At(sig, Column(p))[1], At(sig, Column(p))[2], t)
               ELSE e = UnsupportedEntry(op, At(sig, Column(p))[1], At(sig, Column(p))[2])
    <3>1. PICK op \in OperatorSymbols : \E sig \in Signatures(op) :
                 \/ \E t \in TermForOperator(p[2].terms, op) :
                      e = WrapperEntry(Column(p), op, At(sig, Column(p))[1], At(sig, Column(p))[2], t)
                 \/ e = UnsupportedEntry(op, At(sig, Column(p))[1], At(sig, Column(p))[2])
      BY <2>3
    <3>2. PICK sig \in Signatures(op) :
                 \/ \E t \in TermForOperator(p[2].terms, op) :
                      e = WrapperEntry(Column(p), op, At(sig, Column(p))[1], At(sig, Column(p))[2], t)
                 \/ e = UnsupportedEntry(op, At(sig, Column(p))[1], At(sig, Column(p))[2])
      BY <3>1
    <3>3. \/ e.fn = Fn("eql_v3", WrapperFunctionName(op), <<At(sig, Column(p))[1], At(sig, Column(p))[2]>>)
          \/ e.fn = Fn("eql_v3_internal", FunctionName(op), <<At(sig, Column(p))[1], At(sig, Column(p))[2]>>)
      BY <3>2, EntryFields, UnsupportedFunction
    <3> QED  BY <2>2, <3>3
  <2> QED  BY <2>1, <2>3, ColumnEntries
<1>2. ASSUME NEW o \in RenderOperatorsFile(p[1], p[2]).operators
      PROVE  o.op.kind = "operator" /\ ColumnMark(p, OperandTypes(o.op))
  <2>1. PICK op \in OperatorSymbols : \E sig \in Signatures(op) :
          o = OperatorEntry(op, At(sig, Column(p))[1], At(sig, Column(p))[2], ColumnAnswers(p, op, sig))
    BY ColumnOperators
  <2>2. PICK sig \in Signatures(op) :
          o = OperatorEntry(op, At(sig, Column(p))[1], At(sig, Column(p))[2], ColumnAnswers(p, op, sig))
    BY <2>1
  <2>3. o.op = Op(op, At(sig, Column(p))[1], At(sig, Column(p))[2])
    BY <2>2 DEF OperatorEntry
  <2>4. o.op.kind = "operator" /\ OperandTypes(o.op) = {At(sig, Column(p))[1], At(sig, Column(p))[2]}
    BY <2>3, ObjectFields, TypesTell
  <2> QED  BY <2>4, SlotsMarked
<1>3. /\ Creates(RenderFunctionsFile(p[1], p[2])) = {e.fn : e \in RenderFunctionsFile(p[1], p[2]).functions}
      /\ Creates(RenderOperatorsFile(p[1], p[2])) = {o.op : o \in RenderOperatorsFile(p[1], p[2]).operators}
  <2>1. RenderFunctionsFile(p[1], p[2]) \in FunctionsFiles /\ RenderOperatorsFile(p[1], p[2]) \in OperatorsFiles
    BY DEF FunctionsFiles, OperatorsFiles
  <2> QED  BY <2>1, FileKinds DEF Creates
<1> QED  BY <1>1, <1>2, <1>3 DEF ByColumn, ColumnRow

\* What the files of an operand create.
LEMMA OperandCreates ==
  ASSUME NEW p \in Queryables
  PROVE  /\ \A x \in Creates(RenderQueryFunctionsFile(p[1], p[2])) : ByOperand(OperandFunctionsRow(p), x)
         /\ \A x \in Creates(RenderQueryOperatorsFile(p[1], p[2])) : ByOperand(OperandOperatorsRow(p), x)
<1>1. p \in Scalars
  BY QueryablesTyped
<1>2. ASSUME NEW s \in OperandPairs(p) PROVE OperandMark(p, {s[1], s[2]})
  BY DEF OperandPairs, BothWays, OperandMark
<1>3. ASSUME NEW e \in RenderQueryFunctionsFile(p[1], p[2]).functions
      PROVE  e.fn.kind = "function" /\ OperandMark(p, OperandTypes(e.fn))
  <2>1. CASE \E t \in ExtractorTerms(p[2].terms) : e = ExtractorEntry(Operand(p), t)
    <3>1. PICK t \in ExtractorTerms(p[2].terms) : e = ExtractorEntry(Operand(p), t)
      BY <2>1
    <3>2. e.fn = Fn("eql_v3", Extractor[t], <<Operand(p)>>)
      BY <3>1, ExtractorFields
    <3>3. e.fn.kind = "function" /\ OperandTypes(e.fn) = {Operand(p)}
      BY <3>2, ObjectFields, TypesTell
    <3> QED  BY <3>3 DEF OperandMark
  <2>2. CASE \E op \in OperatorsForTerms(p[2].terms) : \E s \in OperandPairs(p) :
               \E t \in TermForOperator(p[2].terms, op) : e = WrapperEntry(Operand(p), op, s[1], s[2], t)
    <3>1. PICK op \in OperatorsForTerms(p[2].terms) : \E s \in OperandPairs(p) :
                 \E t \in TermForOperator(p[2].terms, op) : e = WrapperEntry(Operand(p), op, s[1], s[2], t)
      BY <2>2
    <3>2. PICK s \in OperandPairs(p) : e.fn = Fn("eql_v3", WrapperFunctionName(op), <<s[1], s[2]>>)
      BY <3>1, EntryFields
    <3>3. e.fn.kind = "function" /\ OperandTypes(e.fn) = {s[1], s[2]}
      BY <3>2, ObjectFields, TypesTell
    <3> QED  BY <1>2, <3>3
  <2> QED  BY <1>1, <2>1, <2>2, OperandEntries
<1>4. ASSUME NEW o \in RenderQueryOperatorsFile(p[1], p[2]).operators
      PROVE  o.op.kind = "operator" /\ OperandMark(p, OperandTypes(o.op))
  <2>1. o \in SupportedEntries(p)
    BY <1>1, OperandOperators
  <2>2. PICK op \in OperatorsForTerms(p[2].terms) : \E s \in OperandPairs(p) : o = SupportedEntry(op, s)
    BY <2>1 DEF SupportedEntries
  <2>3. PICK s \in OperandPairs(p) : o = SupportedEntry(op, s)
    BY <2>2
  <2>4. o.op = Op(op, s[1], s[2])
    BY <2>3 DEF SupportedEntry, OperatorEntry
  <2>5. o.op.kind = "operator" /\ OperandTypes(o.op) = {s[1], s[2]}
    BY <2>4, ObjectFields, TypesTell
  <2> QED  BY <1>2, <2>5
<1>5. /\ Creates(RenderQueryFunctionsFile(p[1], p[2])) = {e.fn : e \in RenderQueryFunctionsFile(p[1], p[2]).functions}
      /\ Creates(RenderQueryOperatorsFile(p[1], p[2])) = {o.op : o \in RenderQueryOperatorsFile(p[1], p[2]).operators}
  <2>1. /\ RenderQueryFunctionsFile(p[1], p[2]) \in FunctionsFiles
        /\ RenderQueryOperatorsFile(p[1], p[2]) \in OperatorsFiles
    BY DEF FunctionsFiles, OperatorsFiles
  <2> QED  BY <2>1, FileKinds DEF Creates
<1> QED  BY <1>3, <1>4, <1>5 DEF ByOperand, OperandRow

\* What the files of a seam create.
LEMMA SeamCreates ==
  ASSUME NEW f \in Seamed
  PROVE  /\ \A x \in Creates(RenderCrossFunctions(f)) : BySeam(SeamFunctionsRow(f), x)
         /\ \A x \in Creates(RenderCrossOperators(f)) : BySeam(SeamOperatorsRow(f), x)
<1>1. f \in CatalogFamilies
  BY DEF Seamed
<1>2. ASSUME NEW r \in CrossRows(f)
      PROVE  \E p \in Queryables : p[1] = f /\ SeamMark(p, {r[2][1], r[2][2]})
  <2>1. PICK p \in Queryables : \E op \in Comparisons : \E s \in SeamPairs(p) :
          p[1] = f /\ r = <<op, s, op \in OrderOps /\ p[2] \in CrossDomains(f)>>
    BY <1>1, SeamRows
  <2>2. r[2] \in SeamPairs(p) /\ p[1] = f
    BY <2>1
  <2> DEFINE s == r[2]
  <2>3. s \in SeamPairs(p)
    BY <2>2
  <2> HIDE DEF s
  <2>4. SeamMark(p, {s[1], s[2]})
    BY <2>3 DEF SeamPairs, BothWays, SeamMark
  <2> QED  BY <2>2, <2>4 DEF s
<1>3. ASSUME NEW e \in RenderCrossFunctions(f).functions
      PROVE  e.fn.kind = "function" /\ \E p \in Queryables : p[1] = f /\ SeamMark(p, OperandTypes(e.fn))
  <2>1. PICK r \in CrossRows(f) : e = IF r[3] THEN WrapperEntry(JsonEntryType, r[1], r[2][1], r[2][2], JsonEntryTerm)
                                      ELSE UnsupportedEntry(r[1], r[2][1], r[2][2])
    BY <1>1, SeamFunctions
  <2>2. \/ e.fn = Fn("eql_v3", WrapperFunctionName(r[1]), <<r[2][1], r[2][2]>>)
        \/ e.fn = Fn("eql_v3_internal", FunctionName(r[1]), <<r[2][1], r[2][2]>>)
    BY <2>1, EntryFields, UnsupportedFunction
  <2>3. e.fn.kind = "function" /\ OperandTypes(e.fn) = {r[2][1], r[2][2]}
    BY <2>2, ObjectFields, TypesTell
  <2> QED  BY <1>2, <2>3
<1>4. ASSUME NEW o \in RenderCrossOperators(f).operators
      PROVE  o.op.kind = "operator" /\ \E p \in Queryables : p[1] = f /\ SeamMark(p, OperandTypes(o.op))
  <2>1. PICK r \in CrossRows(f) : o = OperatorEntry(r[1], r[2][1], r[2][2], r[3])
    BY <1>1, SeamOperators
  <2>2. o.op = Op(r[1], r[2][1], r[2][2])
    BY <2>1 DEF OperatorEntry
  <2>3. o.op.kind = "operator" /\ OperandTypes(o.op) = {r[2][1], r[2][2]}
    BY <2>2, ObjectFields, TypesTell
  <2> QED  BY <1>2, <2>3
<1>5. /\ Creates(RenderCrossFunctions(f)) = {e.fn : e \in RenderCrossFunctions(f).functions}
      /\ Creates(RenderCrossOperators(f)) = {o.op : o \in RenderCrossOperators(f).operators}
  <2>1. RenderCrossFunctions(f) \in FunctionsFiles /\ RenderCrossOperators(f) \in OperatorsFiles
    BY DEF FunctionsFiles, OperatorsFiles
  <2> QED  BY <2>1, FileKinds DEF Creates
<1> QED  BY <1>3, <1>4, <1>5 DEF BySeam, SeamRow

(***************************************************************************)
(* The hand-written files: what tells theirs apart.                        *)
(***************************************************************************)
DocumentTypeNames == {JsonSearchType, JsonEntryType, JsonQueryType}

\* The hand-written file that creates x.
HandRow(x) ==
  CASE x.kind = "type" ->
         IF x.args[1] \in DocumentTypeNames THEN <<JsonTypes, JsonTypesFile>>
         ELSE LET t == TermOf(x.args[1][2]) IN <<TermTypesPath(t), TermTypesFile(t)>>
    [] x.kind # "type" /\ x.args = <<Jsonb>> ->
         LET t == TermOf(x.name) IN <<TermFunctionsPath(t), TermFunctionsFile(t)>>
    [] x.kind # "type" /\ x.args = <<JsonEntryType>> -> <<JsonFunctions, JsonFunctionsFile>>
    [] x.kind # "type" /\ x.args = <<OreType, OreType>> -> <<OreOperators, OreOperatorsFile>>
    [] OTHER ->
         IF IF x.kind = "function" THEN x.schema = "eql_v3" ELSE <<x.name, x.args[1], x.args[2]>> \notin JsonBlocked
         THEN <<JsonOperators, JsonOperatorsFile>> ELSE <<JsonBlockers, JsonBlockersFile>>

ByHand(r, x) == HandMark(OperandTypes(x)) /\ r = HandRow(x)

LEMMA DocumentNamesTell ==
  /\ DocumentTypeNames \subseteq HandWrittenTypes /\ OreType \in HandWrittenTypes
  /\ JsonSearchType # JsonEntryType /\ JsonSearchType # JsonQueryType /\ JsonEntryType # JsonQueryType
  /\ \A T \in DocumentTypeNames : T \notin BaseTypes /\ \A t : T # TermType(t)
  /\ OreType \notin BaseTypes \union DocumentTypeNames
  /\ Jsonb \in BaseTypes
<1>1. "Ore" \in Terms
  BY DEF Terms
<1>2. DocumentTypeNames \subseteq HandWrittenTypes /\ OreType \in HandWrittenTypes
  BY <1>1 DEF DocumentTypeNames, HandWrittenTypes, OreType
<1>3. JsonSearchType # JsonEntryType /\ JsonSearchType # JsonQueryType /\ JsonEntryType # JsonQueryType
  BY HandWrittenNames
<1>4. \A T \in DocumentTypeNames : T \notin BaseTypes /\ \A t : T # TermType(t)
  BY HandWrittenNames DEF DocumentTypeNames
<1>5. OreType \notin BaseTypes
  BY HandWrittenNames DEF OreType
<1>6. OreType \notin DocumentTypeNames
  BY <1>4 DEF OreType
<1> QED  BY <1>2, <1>3, <1>4, <1>5, <1>6 DEF BaseTypes

\* What is answered for documents is not refused.
LEMMA DocumentsTold ==
  /\ JsonAnswered \intersect JsonBlocked = {}
  /\ \A op : <<op, JsonEntryType, JsonEntryType>> \notin JsonBlocked
<1>1. /\ JsonSearchType # Jsonb /\ JsonQueryType # Jsonb /\ JsonSearchType # JsonEntryType
      /\ JsonSearchType # JsonQueryType /\ JsonEntryType # JsonQueryType
  BY DocumentNamesTell DEF DocumentTypeNames
<1>2. ASSUME NEW op PROVE <<op, JsonEntryType, JsonEntryType>> \notin JsonBlocked
  <2> DEFINE r == <<op, JsonEntryType, JsonEntryType>>
  <2>1. r[2] = JsonEntryType /\ r[3] = JsonEntryType
    OBVIOUS
  <2> HIDE DEF r
  <2>2. r \notin JsonBlocked
    BY <1>1, <2>1, DocumentRows
  <2> QED  BY <2>2 DEF r
<1>3. ASSUME NEW r \in JsonAnswered, r \in JsonBlocked PROVE FALSE
  <2>1. r[1] \in {"->", "->>", "@>", "<@"}
    BY DocumentRows
  <2>2. r[1] \in {"@>", "<@"}
    <3>1. r[1] \in {"?", "-", "?|", "?&", "#>", "#>>", "#-", "@?", "@@", "||", "@>", "<@"} \union Comparisons
      BY <1>3 DEF JsonBlocked
    <3>2. "->" \notin Comparisons /\ "->>" \notin Comparisons
      BY DEF Comparisons, EqualityOps, OrderOps
    <3> QED  BY <2>1, <3>1, <3>2
  <2>3. <<r[2], r[3]>> \in {<<JsonSearchType, JsonSearchType>>, <<JsonSearchType, JsonQueryType>>,
                            <<JsonQueryType, JsonSearchType>>}
    BY <2>2 DEF JsonAnswered
  <2>4. \/ <<r[2], r[3]>> \in {<<JsonSearchType, Jsonb>>, <<Jsonb, JsonSearchType>>,
                               <<JsonSearchType, JsonEntryType>>, <<JsonEntryType, JsonSearchType>>}
        \/ r[1] \in {"?", "-", "?|", "?&", "#>", "#>>", "#-", "@?", "@@"} \union Comparisons
    BY <1>3 DEF JsonBlocked, BothWays
  <2>5. "@>" \notin Comparisons /\ "<@" \notin Comparisons
    BY DEF Comparisons, EqualityOps, OrderOps
  <2> QED  BY <1>1, <2>2, <2>3, <2>4, <2>5
<1> QED  BY <1>2, <1>3

LEMMA Lengths ==
  /\ \A a : Len(<<a>>) = 1
  /\ \A a, b : Len(<<a, b>>) = 2
OBVIOUS

\* The objects that hand-written files create, by their kinds.
LEMMA HandRows ==
  /\ \A T \in DocumentTypeNames : HandRow(Type(T)) = <<JsonTypes, JsonTypesFile>>
  /\ \A t \in Terms : /\ HandRow(Type(TermType(t))) = <<TermTypesPath(t), TermTypesFile(t)>>
                      /\ HandRow(Fn("eql_v3_internal", Ctor[t], <<Jsonb>>)) = <<TermFunctionsPath(t), TermFunctionsFile(t)>>
  /\ \A name : HandRow(Fn("eql_v3", name, <<JsonEntryType>>)) = <<JsonFunctions, JsonFunctionsFile>>
  /\ \A op : /\ HandRow(OreComparator(op)) = <<OreOperators, OreOperatorsFile>>
             /\ HandRow(Op(op, OreType, OreType)) = <<OreOperators, OreOperatorsFile>>
  /\ \A name, a, b : a \in BaseTypes \union DocumentTypeNames =>
       /\ HandRow(Fn("eql_v3", name, <<a, b>>)) = <<JsonOperators, JsonOperatorsFile>>
       /\ HandRow(Fn("eql_v3_internal", name, <<a, b>>)) = <<JsonBlockers, JsonBlockersFile>>
       /\ HandRow(Op(name, a, b)) = IF <<name, a, b>> \in JsonBlocked THEN <<JsonBlockers, JsonBlockersFile>>
                                    ELSE <<JsonOperators, JsonOperatorsFile>>
<1>1. \A a, b, c : <<a, b>> # <<c>>
  BY Lengths
<1>2. ASSUME NEW T \in DocumentTypeNames PROVE HandRow(Type(T)) = <<JsonTypes, JsonTypesFile>>
  <2> DEFINE x == Type(T)
  <2>1. x.kind = "type" /\ x.args[1] = T
    BY ObjectFields
  <2> HIDE DEF x
  <2>2. HandRow(x) = <<JsonTypes, JsonTypesFile>>
    BY <2>1 DEF HandRow
  <2> QED  BY <2>2 DEF x
<1>3. ASSUME NEW t \in Terms PROVE HandRow(Type(TermType(t))) = <<TermTypesPath(t), TermTypesFile(t)>>
  <2> DEFINE x == Type(TermType(t))
  <2>1. x.kind = "type" /\ x.args[1] = TermType(t)
    BY ObjectFields
  <2>2. TermType(t)[2] = Ctor[t]
    BY DEF TermType
  <2>3. TermOf(Ctor[t]) = t /\ TermType(t) \notin DocumentTypeNames
    BY CtorTells, DocumentNamesTell
  <2> HIDE DEF x
  <2>4. HandRow(x) = <<TermTypesPath(t), TermTypesFile(t)>>
    BY <2>1, <2>2, <2>3 DEF HandRow
  <2> QED  BY <2>4 DEF x
<1>4. ASSUME NEW t \in Terms
      PROVE  HandRow(Fn("eql_v3_internal", Ctor[t], <<Jsonb>>)) = <<TermFunctionsPath(t), TermFunctionsFile(t)>>
  <2> DEFINE x == Fn("eql_v3_internal", Ctor[t], <<Jsonb>>)
  <2>1. x.kind = "function" /\ x.args = <<Jsonb>> /\ x.name = Ctor[t]
    BY ObjectFields, OperatorFields
  <2>2. TermOf(Ctor[t]) = t
    BY CtorTells
  <2>3. <<Jsonb>> # <<JsonEntryType>> /\ <<Jsonb>> # <<OreType, OreType>>
    <3>1. Jsonb # JsonEntryType
      BY DocumentNamesTell DEF DocumentTypeNames
    <3> QED  BY <1>1, <3>1
  <2> HIDE DEF x
  <2>4. HandRow(x) = <<TermFunctionsPath(t), TermFunctionsFile(t)>>
    BY <2>1, <2>2, <2>3 DEF HandRow
  <2> QED  BY <2>4 DEF x
<1>5. ASSUME NEW name PROVE HandRow(Fn("eql_v3", name, <<JsonEntryType>>)) = <<JsonFunctions, JsonFunctionsFile>>
  <2> DEFINE x == Fn("eql_v3", name, <<JsonEntryType>>)
  <2>1. x.kind = "function" /\ x.args = <<JsonEntryType>>
    BY ObjectFields
  <2>2. <<Jsonb>> # <<JsonEntryType>> /\ <<JsonEntryType>> # <<OreType, OreType>>
    <3>1. Jsonb # JsonEntryType
      BY DocumentNamesTell DEF DocumentTypeNames
    <3> QED  BY <1>1, <3>1
  <2> HIDE DEF x
  <2>3. HandRow(x) = <<JsonFunctions, JsonFunctionsFile>>
    BY <2>1, <2>2 DEF HandRow
  <2> QED  BY <2>3 DEF x
<1>6. ASSUME NEW x, x.kind # "type", x.args = <<OreType, OreType>>
      PROVE  HandRow(x) = <<OreOperators, OreOperatorsFile>>
  <2>1. <<OreType, OreType>> # <<JsonEntryType>> /\ <<OreType, OreType>> # <<Jsonb>>
    BY <1>1
  <2> QED  BY <1>6, <2>1 DEF HandRow
<1>7. ASSUME NEW x, NEW a \in BaseTypes \union DocumentTypeNames, NEW b, x.kind # "type", x.args = <<a, b>>
      PROVE  HandRow(x) =
               IF IF x.kind = "function" THEN x.schema = "eql_v3" ELSE <<x.name, a, b>> \notin JsonBlocked
               THEN <<JsonOperators, JsonOperatorsFile>> ELSE <<JsonBlockers, JsonBlockersFile>>
  <2>1. a # OreType
    BY DocumentNamesTell
  <2>2. <<a, b>> # <<Jsonb>> /\ <<a, b>> # <<JsonEntryType>> /\ <<a, b>> # <<OreType, OreType>>
    BY <1>1, <2>1
  <2>3. x.args[1] = a /\ x.args[2] = b
    BY <1>7
  <2> QED  BY <1>7, <2>2, <2>3 DEF HandRow
<1>8. ASSUME NEW op
      PROVE  /\ HandRow(OreComparator(op)) = <<OreOperators, OreOperatorsFile>>
             /\ HandRow(Op(op, OreType, OreType)) = <<OreOperators, OreOperatorsFile>>
  BY <1>6, ObjectFields DEF OreComparator
<1>9. ASSUME NEW name, NEW a \in BaseTypes \union DocumentTypeNames, NEW b
      PROVE  /\ HandRow(Fn("eql_v3", name, <<a, b>>)) = <<JsonOperators, JsonOperatorsFile>>
             /\ HandRow(Fn("eql_v3_internal", name, <<a, b>>)) = <<JsonBlockers, JsonBlockersFile>>
  <2>1. ASSUME NEW schema
        PROVE  HandRow(Fn(schema, name, <<a, b>>)) =
                 IF schema = "eql_v3" THEN <<JsonOperators, JsonOperatorsFile>> ELSE <<JsonBlockers, JsonBlockersFile>>
    <3> DEFINE x == Fn(schema, name, <<a, b>>)
    <3>1. x.kind = "function" /\ x.args = <<a, b>> /\ x.schema = schema
      BY ObjectFields, OperatorFields
    <3> HIDE DEF x
    <3>2. HandRow(x) = IF schema = "eql_v3" THEN <<JsonOperators, JsonOperatorsFile>>
                       ELSE <<JsonBlockers, JsonBlockersFile>>
      BY <1>7, <3>1
    <3> QED  BY <3>2 DEF x
  <2> QED  BY <2>1
<1>10. ASSUME NEW name, NEW a \in BaseTypes \union DocumentTypeNames, NEW b
       PROVE  HandRow(Op(name, a, b)) = IF <<name, a, b>> \in JsonBlocked THEN <<JsonBlockers, JsonBlockersFile>>
                                        ELSE <<JsonOperators, JsonOperatorsFile>>
  <2> DEFINE x == Op(name, a, b)
  <2>1. x.kind = "operator" /\ x.args = <<a, b>> /\ x.name = name
    BY ObjectFields, OperatorFields
  <2> HIDE DEF x
  <2>2. HandRow(x) = IF <<name, a, b>> \in JsonBlocked THEN <<JsonBlockers, JsonBlockersFile>>
                     ELSE <<JsonOperators, JsonOperatorsFile>>
    BY <1>7, <2>1
  <2> QED  BY <2>2 DEF x
<1> QED  BY <1>2, <1>3, <1>4, <1>5, <1>8, <1>9, <1>10

\* What each hand-written file creates.
LEMMA HandCreates ==
  /\ \A t \in Terms : /\ Creates(TermTypesFile(t)) = {Type(TermType(t))}
                      /\ Creates(TermFunctionsFile(t)) = {Fn("eql_v3_internal", Ctor[t], <<Jsonb>>)}
  /\ Creates(JsonTypesFile) = {Type(T) : T \in DocumentTypeNames}
  /\ Creates(JsonFunctionsFile) = {Fn("eql_v3", Extractor[JsonEntryTerm], <<JsonEntryType>>)}
  /\ Creates(OreOperatorsFile) =
       {OreComparator(op) : op \in Comparisons} \union {Op(op, OreType, OreType) : op \in Comparisons}
<1>1. ASSUME NEW t \in Terms
      PROVE  /\ Creates(TermTypesFile(t)) = {Type(TermType(t))}
             /\ Creates(TermFunctionsFile(t)) = {Fn("eql_v3_internal", Ctor[t], <<Jsonb>>)}
  <2>1. Creates(TermTypesFile(t)) = {Type(TermType(t))}
    <3>1. TermTypesFile(t).types = {Bare(TermType(t))}
      BY TypesOf
    <3>2. TermTypesFile(t).functions = {} /\ TermTypesFile(t).operators = {}
      BY FileFields DEF TermTypesFile
    <3>3. Bare(TermType(t)).typname = TermType(t)
      BY BlockFields
    <3> QED  BY <3>1, <3>2, <3>3 DEF Creates
  <2>2. Creates(TermFunctionsFile(t)) = {Fn("eql_v3_internal", Ctor[t], <<Jsonb>>)}
    <3> DEFINE e == Entry("constructor", Fn("eql_v3_internal", Ctor[t], <<Jsonb>>), "", Jsonb, t,
                          {Type(TermType(t))})
    <3>1. TermFunctionsFile(t).functions = {e}
      BY DEF TermFunctionsFile, FunctionsFile, File
    <3>2. TermFunctionsFile(t).types = {} /\ TermFunctionsFile(t).operators = {}
      BY DEF TermFunctionsFile, FunctionsFile, File
    <3>3. e.fn = Fn("eql_v3_internal", Ctor[t], <<Jsonb>>)
      BY DEF Entry
    <3> HIDE DEF e
    <3> QED  BY <3>1, <3>2, <3>3 DEF Creates
  <2> QED  BY <2>1, <2>2
<1>2. Creates(JsonTypesFile) = {Type(T) : T \in DocumentTypeNames}
  <2>1. JsonTypesFile.types = {Bare(T) : T \in DocumentTypeNames}
    BY TypesOf DEF DocumentTypeNames
  <2>2. JsonTypesFile.functions = {} /\ JsonTypesFile.operators = {}
    BY FileFields DEF JsonTypesFile
  <2>3. \A T : Bare(T).typname = T
    BY BlockFields
  <2> QED  BY <2>1, <2>2, <2>3 DEF Creates
<1>3. Creates(JsonFunctionsFile) = {Fn("eql_v3", Extractor[JsonEntryTerm], <<JsonEntryType>>)}
  <2> DEFINE e == ExtractorEntry(JsonEntryType, JsonEntryTerm)
  <2>1. JsonFunctionsFile.functions = {e}
    BY DEF JsonFunctionsFile, FunctionsFile, File
  <2>2. JsonFunctionsFile.types = {} /\ JsonFunctionsFile.operators = {}
    BY FileFields DEF JsonFunctionsFile
  <2>3. e.fn = Fn("eql_v3", Extractor[JsonEntryTerm], <<JsonEntryType>>)
    BY ExtractorFields
  <2> HIDE DEF e
  <2> QED  BY <2>1, <2>2, <2>3 DEF Creates
<1>4. Creates(OreOperatorsFile) =
        {OreComparator(op) : op \in Comparisons} \union {Op(op, OreType, OreType) : op \in Comparisons}
  <2>1. OreOperatorsFile.types = {}
    BY FileKinds DEF BothFiles
  <2>2. {e.fn : e \in OreOperatorsFile.functions} = {OreComparator(op) : op \in Comparisons}
    <3>1. OreOperatorsFile.functions =
            {Entry("comparison", OreComparator(op), op, OreType, "Ore", {}) : op \in Comparisons}
      BY DEF OreOperatorsFile, File
    <3>2. \A op : Entry("comparison", OreComparator(op), op, OreType, "Ore", {}).fn = OreComparator(op)
      BY DEF Entry
    <3> QED  BY <3>1, <3>2
  <2>3. {o.op : o \in OreOperatorsFile.operators} = {Op(op, OreType, OreType) : op \in Comparisons}
    <3> DEFINE Given(op) == [op |-> Op(op, OreType, OreType), procedure |-> OreComparator(op),
                             commutator |-> Commutator(op), negator |-> Negator(op)]
    <3>1. OreOperatorsFile.operators = {Given(op) : op \in Comparisons}
      BY DEF OreOperatorsFile, File
    <3>2. \A op : Given(op).op = Op(op, OreType, OreType)
      OBVIOUS
    <3> HIDE DEF Given
    <3> QED  BY <3>1, <3>2
  <2> QED  BY <2>1, <2>2, <2>3 DEF Creates
<1> QED  BY <1>1, <1>2, <1>3, <1>4

\* The types in what is declared for documents, the first and the second.
LEMMA DocumentSlots ==
  ASSUME NEW r \in JsonAnswered \union JsonBlocked
  PROVE  /\ r[2] \in BaseTypes \union DocumentTypeNames /\ r[3] \in BaseTypes \union DocumentTypeNames
         /\ HandMark({r[2], r[3]})
<1>1. r[2] \in BaseTypes \union DocumentTypeNames /\ r[3] \in BaseTypes \union DocumentTypeNames
  BY DocumentTypes DEF DocumentTypeNames
<1> QED  BY <1>1, DocumentNamesTell DEF HandMark

\* What the operators of documents and their blockers create.
LEMMA DocumentCreates ==
  /\ \A x \in Creates(JsonOperatorsFile) : ByHand(<<JsonOperators, JsonOperatorsFile>>, x)
  /\ \A x \in Creates(JsonBlockersFile) : ByHand(<<JsonBlockers, JsonBlockersFile>>, x)
<1> DEFINE served == <<JsonOperators, JsonOperatorsFile>>
           barred == <<JsonBlockers, JsonBlockersFile>>
<1>1. ASSUME NEW name, NEW a \in BaseTypes \union DocumentTypeNames, NEW b \in BaseTypes \union DocumentTypeNames
      PROVE  /\ ByHand(served, Fn("eql_v3", name, <<a, b>>))
             /\ ByHand(barred, Fn("eql_v3_internal", name, <<a, b>>))
             /\ <<name, a, b>> \in JsonBlocked => ByHand(barred, Op(name, a, b))
             /\ <<name, a, b>> \notin JsonBlocked => ByHand(served, Op(name, a, b))
  <2>1. HandMark({a, b})
    BY DocumentNamesTell DEF HandMark
  <2>2. /\ OperandTypes(Fn("eql_v3", name, <<a, b>>)) = {a, b}
        /\ OperandTypes(Fn("eql_v3_internal", name, <<a, b>>)) = {a, b}
        /\ OperandTypes(Op(name, a, b)) = {a, b}
    BY TypesTell
  <2> QED  BY <2>1, <2>2, HandRows DEF ByHand
<1>2. JsonEntryType \in BaseTypes \union DocumentTypeNames
  BY DEF DocumentTypeNames
<1>3. ASSUME NEW e \in JsonOperatorsFile.functions PROVE ByHand(served, e.fn)
  <2>1. CASE \E r \in JsonAnswered : e = Entry("document", DocumentFn(r), r[1], JsonSearchType, "", {})
    <3>1. PICK r \in JsonAnswered : e = Entry("document", DocumentFn(r), r[1], JsonSearchType, "", {})
      BY <2>1
    <3>2. e.fn = Fn("eql_v3", r[1], <<r[2], r[3]>>)
      BY <3>1 DEF Entry, DocumentFn
    <3> HIDE DEF served, barred
    <3> QED  BY <1>1, <3>2, DocumentSlots
  <2>2. CASE \E op \in OrderOps :
               e = WrapperEntry(JsonEntryType, op, JsonEntryType, JsonEntryType, JsonEntryTerm)
    <3>1. PICK op \in OrderOps : e = WrapperEntry(JsonEntryType, op, JsonEntryType, JsonEntryType, JsonEntryTerm)
      BY <2>2
    <3>2. e.fn = Fn("eql_v3", WrapperFunctionName(op), <<JsonEntryType, JsonEntryType>>)
      BY <3>1, EntryFields
    <3> HIDE DEF served, barred
    <3> QED  BY <1>1, <1>2, <3>2
  <2>3. CASE \E op \in EqualityOps : e = EntryRefusal(op)
    <3>1. PICK op \in EqualityOps : e = EntryRefusal(op)
      BY <2>3
    <3>2. e.fn = Fn("eql_v3", FunctionName(op), <<JsonEntryType, JsonEntryType>>)
      BY <3>1 DEF Entry, EntryRefusal
    <3> HIDE DEF served, barred
    <3> QED  BY <1>1, <1>2, <3>2
  <2> QED  BY <2>1, <2>2, <2>3 DEF JsonOperatorsFile, File
<1>4. ASSUME NEW o \in JsonOperatorsFile.operators PROVE ByHand(served, o.op)
  <2>1. CASE \E r \in JsonAnswered : o = DeclareJson(r, DocumentFn(r))
    <3>1. PICK r \in JsonAnswered : o = DeclareJson(r, DocumentFn(r))
      BY <2>1
    <3>2. o.op = Op(r[1], r[2], r[3])
      BY <3>1, OperatorFields
    <3>3. <<r[1], r[2], r[3]>> \notin JsonBlocked
      <4>1. r = <<r[1], r[2], r[3]>>
        BY DEF JsonAnswered
      <4> QED  BY <4>1, DocumentsTold
    <3> HIDE DEF served, barred
    <3> QED  BY <1>1, <3>2, <3>3, DocumentSlots
  <2>2. CASE \E op \in OrderOps : o = OperatorEntry(op, JsonEntryType, JsonEntryType, TRUE)
    <3>1. PICK op \in OrderOps : o = OperatorEntry(op, JsonEntryType, JsonEntryType, TRUE)
      BY <2>2
    <3>2. o.op = Op(op, JsonEntryType, JsonEntryType)
      BY <3>1 DEF OperatorEntry
    <3> HIDE DEF served, barred
    <3> QED  BY <1>1, <1>2, <3>2, DocumentsTold
  <2>3. CASE \E op \in EqualityOps :
               o = DeclareJson(<<op, JsonEntryType, JsonEntryType>>, EntryRefusal(op).fn)
    <3>1. PICK op \in EqualityOps : o = DeclareJson(<<op, JsonEntryType, JsonEntryType>>, EntryRefusal(op).fn)
      BY <2>3
    <3>2. o.op = Op(op, JsonEntryType, JsonEntryType)
      BY <3>1 DEF DeclareJson
    <3> HIDE DEF served, barred
    <3> QED  BY <1>1, <1>2, <3>2, DocumentsTold
  <2> QED  BY <2>1, <2>2, <2>3 DEF JsonOperatorsFile, File
<1>5. ASSUME NEW e \in JsonBlockersFile.functions PROVE ByHand(barred, e.fn)
  <2>1. PICK r \in JsonBlocked : e = Entry("blocker", BlockedFn(r), r[1], JsonSearchType, "", {})
    BY DEF JsonBlockersFile, File
  <2>2. e.fn = Fn("eql_v3_internal", r[1], <<r[2], r[3]>>)
    BY <2>1 DEF Entry, BlockedFn
  <2> HIDE DEF served, barred
  <2> QED  BY <1>1, <2>2, DocumentSlots
<1>6. ASSUME NEW o \in JsonBlockersFile.operators PROVE ByHand(barred, o.op)
  <2>1. PICK r \in JsonBlocked : o = DeclareJson(r, BlockedFn(r))
    BY DEF JsonBlockersFile, File
  <2>2. o.op = Op(r[1], r[2], r[3])
    BY <2>1, OperatorFields
  <2>3. r = <<r[1], r[2], r[3]>>
    BY DEF JsonBlocked
  <2> HIDE DEF served, barred
  <2> QED  BY <1>1, <2>2, <2>3, DocumentSlots
<1>7. JsonOperatorsFile.types = {} /\ JsonBlockersFile.types = {}
  BY FileKinds DEF BothFiles
<1> HIDE DEF served, barred
<1>8. /\ \A x \in Creates(JsonOperatorsFile) : ByHand(served, x)
      /\ \A x \in Creates(JsonBlockersFile) : ByHand(barred, x)
  BY <1>3, <1>4, <1>5, <1>6, <1>7 DEF Creates
<1> QED  BY <1>8 DEF served, barred

\* What tells the file that creates an object.
LEMMA MadeBy ==
  ASSUME NEW r \in Rows, NEW x \in Creates(r[2])
  PROVE  ByColumn(r, x) \/ ByOperand(r, x) \/ BySeam(r, x) \/ ByHand(r, x)
<1>1. CASE \E path \in PlainPaths : r = <<path, PlainFile(path)>>
  <2>1. r[2] \in CallersFiles
    BY <1>1 DEF CallersFiles
  <2> QED  BY <2>1, FileKinds DEF Creates
<1>2. CASE \E t \in Terms : r \in TermSqlFiles(t)
  <2>1. PICK t \in Terms : r \in TermSqlFiles(t)
    BY <1>2
  <2>2. CASE r = <<TermTypesPath(t), TermTypesFile(t)>>
    <3>1. x = Type(TermType(t))
      BY <2>2, HandCreates
    <3>2. OperandTypes(x) = {TermType(t)} /\ HandRow(x) = r
      BY <2>2, <3>1, TypesTell, HandRows
    <3> QED  BY <3>2 DEF ByHand, HandMark, HandWrittenTypes
  <2>3. CASE r = <<TermFunctionsPath(t), TermFunctionsFile(t)>>
    <3>1. x = Fn("eql_v3_internal", Ctor[t], <<Jsonb>>)
      BY <2>3, HandCreates
    <3>2. OperandTypes(x) = {Jsonb} /\ HandRow(x) = r
      BY <2>3, <3>1, TypesTell, HandRows
    <3> QED  BY <3>2, DocumentNamesTell DEF ByHand, HandMark
  <2> QED  BY <2>1, <2>2, <2>3 DEF TermSqlFiles
<1>3. CASE r \in OreFiles
  <2>1. CASE r = <<OreOperators, OreOperatorsFile>>
    <3>1. PICK op \in Comparisons : x = OreComparator(op) \/ x = Op(op, OreType, OreType)
      BY <2>1, HandCreates
    <3>2. OperandTypes(x) = {OreType}
      BY <3>1, TypesTell DEF OreComparator
    <3>3. HandRow(x) = r
      BY <2>1, <3>1, HandRows
    <3> QED  BY <3>2, <3>3, DocumentNamesTell DEF ByHand, HandMark
  <2>2. CASE r = <<OreOpclass, OreOpclassFile>>
    <3>1. r[2] \in CallersFiles
      BY <2>2 DEF CallersFiles
    <3> QED  BY <3>1, FileKinds DEF Creates
  <2> QED  BY <1>3, <2>1, <2>2 DEF OreFiles
<1>4. CASE r \in JsonFiles
  <2>1. CASE r = <<JsonTypes, JsonTypesFile>>
    <3>1. PICK T \in DocumentTypeNames : x = Type(T)
      BY <2>1, HandCreates
    <3>2. OperandTypes(x) = {T} /\ HandRow(x) = r
      BY <2>1, <3>1, TypesTell, HandRows
    <3> QED  BY <3>2, DocumentNamesTell DEF ByHand, HandMark
  <2>2. CASE r = <<JsonFunctions, JsonFunctionsFile>>
    <3>1. x = Fn("eql_v3", Extractor[JsonEntryTerm], <<JsonEntryType>>)
      BY <2>2, HandCreates
    <3>2. OperandTypes(x) = {JsonEntryType} /\ HandRow(x) = r
      BY <2>2, <3>1, TypesTell, HandRows
    <3> QED  BY <3>2 DEF ByHand, HandMark, HandWrittenTypes
  <2>3. CASE r \in {<<JsonOperators, JsonOperatorsFile>>, <<JsonBlockers, JsonBlockersFile>>}
    <3>1. \/ r[2] = JsonOperatorsFile /\ r = <<JsonOperators, JsonOperatorsFile>>
          \/ r[2] = JsonBlockersFile /\ r = <<JsonBlockers, JsonBlockersFile>>
      BY <2>3
    <3>2. ByHand(r, x)
      BY <3>1, DocumentCreates
    <3> QED  BY <3>2
  <2>4. CASE r = <<JsonAggregates, JsonAggregatesFile>>
    <3>1. r[2] \in CallersFiles
      BY <2>4 DEF CallersFiles
    <3> QED  BY <3>1, FileKinds DEF Creates
  <2> QED  BY <1>4, <2>1, <2>2, <2>3, <2>4 DEF JsonFiles, JsonOperators, JsonBlockers, JsonAggregates
<1>5. CASE r = FallbackRow
  <2>1. r[2] \in CallersFiles
    BY <1>5 DEF CallersFiles, FallbackRow
  <2> QED  BY <2>1, FileKinds DEF Creates
<1>6. CASE \E f \in CatalogFamilies : r = TypesRow(f)
  <2>1. PICK f \in CatalogFamilies : r = TypesRow(f)
    BY <1>6
  <2>2. r[2].types = {DomainBlock(f, d) : d \in {e \in DomainsOf(f) : IsScalar(e)}}
    BY <2>1 DEF TypesRow, RenderTypesFile, TypesOnly, File
  <2>3. r[2] \in TypesFiles
    BY <2>1 DEF TypesRow, TypesFiles
  <2>4. PICK d \in DomainsOf(f) : IsScalar(d) /\ x = Type(DomainBlock(f, d).typname)
    BY <2>2, <2>3, FileKinds DEF Creates
  <2> DEFINE p == <<f, d>>
  <2>5. p \in Scalars /\ p[1] = f /\ p[2] = d
    BY <2>4 DEF Scalars
  <2> HIDE DEF p
  <2>6. x = Type(Column(p))
    BY <2>4, <2>5 DEF DomainBlock, Column
  <2>7. x.kind = "type" /\ OperandTypes(x) = {Column(p)}
    BY <2>6, TypesTell
  <2>8. ColumnMark(p, OperandTypes(x)) /\ r = ColumnRow(p, x.kind)
    BY <2>1, <2>5, <2>7 DEF ColumnMark, ColumnRow
  <2> QED  BY <2>5, <2>8 DEF ByColumn
<1>7. CASE \E f \in Queried : r = QueryTypesRow(f)
  <2>1. PICK f \in Queried : r = QueryTypesRow(f)
    BY <1>7
  <2>2. r[2].types = {QueryDomainBlock(f, d) : d \in Queryable(f)}
    BY <2>1 DEF QueryTypesRow, RenderQueryTypesFile, TypesOnly, File
  <2>3. r[2] \in TypesFiles
    BY <2>1 DEF QueryTypesRow, TypesFiles
  <2>4. PICK d \in Queryable(f) : x = Type(QueryDomainBlock(f, d).typname)
    BY <2>2, <2>3, FileKinds DEF Creates
  <2> DEFINE p == <<f, d>>
  <2>5. p \in Queryables /\ p[1] = f /\ p[2] = d
    BY WithTerms DEF Queryable, Queried
  <2> HIDE DEF p
  <2>6. x = Type(Operand(p))
    BY <2>4, <2>5 DEF QueryDomainBlock, Operand
  <2>7. x.kind = "type" /\ OperandTypes(x) = {Operand(p)}
    BY <2>6, TypesTell
  <2>8. OperandMark(p, OperandTypes(x)) /\ r = OperandRow(p, x.kind)
    BY <2>1, <2>5, <2>7 DEF OperandMark, OperandRow
  <2> QED  BY <2>5, <2>8 DEF ByOperand
<1>8. CASE \E f \in Seamed : r \in {SeamFunctionsRow(f), SeamOperatorsRow(f)}
  <2>1. PICK f \in Seamed : r \in {SeamFunctionsRow(f), SeamOperatorsRow(f)}
    BY <1>8
  <2>2. CASE r = SeamFunctionsRow(f)
    <3>1. r[2] = RenderCrossFunctions(f)
      BY <2>2 DEF SeamFunctionsRow
    <3> QED  BY <2>2, <3>1, SeamCreates
  <2>3. CASE r = SeamOperatorsRow(f)
    <3>1. r[2] = RenderCrossOperators(f)
      BY <2>3 DEF SeamOperatorsRow
    <3> QED  BY <2>3, <3>1, SeamCreates
  <2> QED  BY <2>1, <2>2, <2>3
<1>9. CASE \E p \in Scalars : r \in {ColumnFunctionsRow(p), ColumnOperatorsRow(p)}
  <2>1. PICK p \in Scalars : r \in {ColumnFunctionsRow(p), ColumnOperatorsRow(p)}
    BY <1>9
  <2>2. CASE r = ColumnFunctionsRow(p)
    <3>1. r[2] = RenderFunctionsFile(p[1], p[2])
      BY <2>2 DEF ColumnFunctionsRow
    <3> QED  BY <2>2, <3>1, ColumnCreates
  <2>3. CASE r = ColumnOperatorsRow(p)
    <3>1. r[2] = RenderOperatorsFile(p[1], p[2])
      BY <2>3 DEF ColumnOperatorsRow
    <3> QED  BY <2>3, <3>1, ColumnCreates
  <2> QED  BY <2>1, <2>2, <2>3
<1>10. CASE \E p \in Queryables : r \in {OperandFunctionsRow(p), OperandOperatorsRow(p)}
  <2>1. PICK p \in Queryables : r \in {OperandFunctionsRow(p), OperandOperatorsRow(p)}
    BY <1>10
  <2>2. CASE r = OperandFunctionsRow(p)
    <3>1. r[2] = RenderQueryFunctionsFile(p[1], p[2])
      BY <2>2 DEF OperandFunctionsRow
    <3> QED  BY <2>2, <3>1, OperandCreates
  <2>3. CASE r = OperandOperatorsRow(p)
    <3>1. r[2] = RenderQueryOperatorsFile(p[1], p[2])
      BY <2>3 DEF OperandOperatorsRow
    <3> QED  BY <2>3, <3>1, OperandCreates
  <2> QED  BY <2>1, <2>2, <2>3
<1>11. CASE \E p \in Ordered : r = AggregatesRow(p)
  <2>1. r[2] \in CallersFiles
    BY <1>11 DEF CallersFiles, AggregatesRow
  <2> QED  BY <2>1, FileKinds DEF Creates
<1> QED  BY <1>1, <1>2, <1>3, <1>4, <1>5, <1>6, <1>7, <1>8, <1>9, <1>10, <1>11, RowsListed

\* No two files create one object.
LEMMA CreatedOnce ==
  ASSUME NEW r \in Rows, NEW s \in Rows, NEW x, x \in Creates(r[2]), x \in Creates(s[2])
  PROVE  r = s
<1>1. /\ ByColumn(r, x) \/ ByOperand(r, x) \/ BySeam(r, x) \/ ByHand(r, x)
      /\ ByColumn(s, x) \/ ByOperand(s, x) \/ BySeam(s, x) \/ ByHand(s, x)
  BY MadeBy
<1>2. CASE ByColumn(r, x) \/ ByColumn(s, x)
  BY <1>1, <1>2, MarksTell DEF ByColumn, ByOperand, BySeam, ByHand
<1>3. CASE ByOperand(r, x) \/ ByOperand(s, x)
  BY <1>1, <1>3, MarksTell DEF ByColumn, ByOperand, BySeam, ByHand
<1>4. CASE BySeam(r, x) \/ BySeam(s, x)
  BY <1>1, <1>4, MarksTell DEF ByColumn, ByOperand, BySeam, ByHand
<1>5. CASE ByHand(r, x) /\ ByHand(s, x)
  BY <1>5 DEF ByHand
<1> QED  BY <1>1, <1>2, <1>3, <1>4, <1>5

\* The files that are examined, and those that come with them, are the installer's.
InstallInv ==
  /\ phase # "failed"
  /\ phase = "install" => file \in DOMAIN Files /\ loaded \subseteq DOMAIN Files

LEMMA Loading ==
  ASSUME NEW path \in DOMAIN Files, NEW before, before \subseteq DOMAIN Files,
         RequiredBy(before \union {path}) \subseteq before
  PROVE  Loads(Files, path, before)
<1> DEFINE M == before \union {path}
<1>1. Closed(M)
  BY DEF Closed
<1>2. Provided(M) = (UNION {Creates(Files[q]) : q \in before}) \union Creates(Files[path])
  BY DEF Provided
<1>3. PICK r \in Rows : r[1] = path
  BY Installed
<1>4. Files[path] = r[2]
  BY <1>3, Installed
<1>5. path \in M
  OBVIOUS
<1> HIDE DEF M
<1>6. Reads(Files[path]) \subseteq Provided(M)
  BY <1>1, <1>3, <1>4, <1>5, ReadsProvided
<1>7. ASSUME NEW p \in DOMAIN Files \ {path} PROVE Creates(Files[p]) \intersect Creates(Files[path]) = {}
  <2>1. PICK s \in Rows : s[1] = p
    BY Installed
  <2>2. Files[p] = s[2] /\ s # r
    BY <1>3, <2>1, Installed
  <2> QED  BY <1>4, <2>2, CreatedOnce
<1> QED  BY <1>2, <1>6, <1>7 DEF Loads

LEMMA RequiredInstalled ==
  ASSUME NEW M, M \subseteq DOMAIN Files
  PROVE  RequiredBy(M) \subseteq DOMAIN Files
<1>1. ASSUME NEW path \in M PROVE Files[path].requires \subseteq DOMAIN Files
  <2>1. PICK r \in Rows : r[1] = path
    BY Installed
  <2>2. Files[path] = r[2]
    BY <2>1, Installed
  <2> QED  BY <2>2, RequiresInstalled
<1> QED  BY <1>1 DEF RequiredBy

(* Whatever the catalog, and in whatever order the installer runs the files that a file  *)
(* does not require: each finds what it names and creates nothing twice.                *)
THEOREM InstallsCleanly == Spec => []LoadsCleanly
<1>1. Init => InstallInv
  BY DEF Init, InstallInv
<1>2. ASSUME InstallInv, [Next]_vars PROVE InstallInv'
  <2>1. CASE Require
    <3>1. file \in DOMAIN Files /\ loaded \subseteq DOMAIN Files
      BY <1>2, <2>1 DEF Require, InstallInv
    <3>2. loaded' \subseteq DOMAIN Files
      <4>1. loaded \union {file} \subseteq DOMAIN Files
        BY <3>1
      <4>2. RequiredBy(loaded \union {file}) \subseteq DOMAIN Files
        BY <4>1, RequiredInstalled
      <4> QED  BY <2>1, <3>1, <4>2 DEF Require
    <3> QED  BY <1>2, <2>1, <3>1, <3>2 DEF Require, InstallInv
  <2>2. CASE RunFile
    <3>1. file \in DOMAIN Files /\ loaded \subseteq DOMAIN Files /\ RequiredBy(loaded \union {file}) \subseteq loaded
      BY <1>2, <2>2 DEF RunFile, InstallInv
    <3>2. Loads(Files, file, loaded)
      BY <3>1, Loading
    <3>3. phase' = "installed"
      BY <2>2, <3>1, <3>2 DEF RunFile
    <3> QED  BY <3>3 DEF InstallInv
  <2>3. CASE Ask
    BY <2>3 DEF Ask, InstallInv
  <2>4. CASE \E x, y \in Plaintexts : Answer(x, y)
    BY <2>4 DEF Answer, InstallInv
  <2>5. CASE Commute \/ Negate
    BY <2>5 DEF Commute, Negate, InstallInv
  <2>6. CASE UNCHANGED vars
    BY <1>2, <2>6 DEF vars, InstallInv
  <2> QED  BY <1>2, <2>1, <2>2, <2>3, <2>4, <2>5, <2>6 DEF Next
<1>3. InstallInv => LoadsCleanly
  BY DEF InstallInv, LoadsCleanly
<1> QED  BY <1>1, <1>2, <1>3, PTL DEF Spec

=============================================================================
