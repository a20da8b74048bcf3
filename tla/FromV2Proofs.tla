---------------------------- MODULE FromV2Proofs ----------------------------
(* What the conversion does for every catalog, every payload and every target.          *)
EXTENDS FromV2, CatalogProofs

(***************************************************************************)
(* The bits of a bloom filter.                                             *)
(***************************************************************************)
\* The wrap of a position, without the remainder.
LEMMA AsI16Wraps ==
  ASSUME NEW n \in Int, InRange(n)
  PROVE  AsI16(n) = IF n > 32767 THEN n - 65536 ELSE n
<1>1. CASE n < 0
  <2>1. n % 65536 = n + 65536  BY <1>1, SMT DEF InRange
  <2> QED  BY <1>1, <2>1, SMT DEF InRange, AsI16
<1>2. CASE n >= 0
  <2>1. n % 65536 = n  BY <1>2, SMT DEF InRange
  <2> QED  BY <1>2, <2>1, SMT DEF InRange, AsI16
<1> QED  BY <1>1, <1>2

(* Every position that convert_bloom accepts lands among the smallints, a smallint stays   *)
(* what it is, and two of them land on one bit only if they are one modulo 2^16: no bit     *)
(* that a client set is lost or confused with another.                                   *)
THEOREM BitsKept ==
  ASSUME NEW a \in Int, NEW b \in Int, InRange(a), InRange(b)
  PROVE  /\ IsI16(AsI16(a))
         /\ IsI16(a) => AsI16(a) = a
         /\ AsI16(a) = AsI16(b) <=> a = b \/ a = b + 65536 \/ b = a + 65536
BY AsI16Wraps, SMT DEF InRange, IsI16

\* What it accepts, the strict parse accepts as a filter.
LEMMA BloomFits ==
  ASSUME NEW bf, \A n \in DOMAIN bf[2] : IsNum(bf[2][n]) => bf[2][n][2] \in Int, ConvertBloom(bf).ok
  PROVE  FitsNewtype("BloomFilter", ConvertBloom(bf).value)
<1>1. IsArr(bf) /\ \A n \in DOMAIN bf[2] : IsNum(bf[2][n]) /\ InRange(bf[2][n][2])
  BY DEF ConvertBloom, Refused
<1>2. ConvertBloom(bf).value = Arr([n \in DOMAIN bf[2] |-> Num(AsI16(bf[2][n][2]))])
  BY <1>1 DEF ConvertBloom, Ok
<1>3. \A n \in DOMAIN bf[2] : IsI16(AsI16(bf[2][n][2]))
  BY <1>1, BitsKept
<1> QED  BY <1>1, <1>2, <1>3 DEF FitsNewtype, Arr, Num, IsArr, IsNum

(***************************************************************************)
(* A converted payload is not converted again.                             *)
(***************************************************************************)
Versioned(j) == j = Absent \/ Get(j, "v") = Num(EqlSchemaVersion)

LEMMA HoistVersions ==
  ASSUME NEW v2, NEW copied, NEW t
  PROVE  Versioned(Hoist(v2, copied, t).value)
<1> DEFINE bf == ConvertBloom(Get(v2, "bf"))
           keys == {"v"} \union (copied \intersect Keys(v2)) \union t.term_keys
           fields == [key \in keys |-> IF key = "v" THEN Num(EqlSchemaVersion)
                                       ELSE IF key = "bf" THEN bf.value ELSE Get(v2, key)]
<1>1. \/ Hoist(v2, copied, t) = Ok(Obj(fields))
      \/ Hoist(v2, copied, t) = Refused("MissingTerm")
      \/ Hoist(v2, copied, t) = bf /\ ~bf.ok
  <2> HIDE DEF fields, bf
  <2> QED  BY DEF Hoist, fields, bf
<1>2. Get(Obj(fields), "v") = Num(EqlSchemaVersion)
  <2>1. "v" \in DOMAIN fields /\ fields["v"] = Num(EqlSchemaVersion)
    OBVIOUS
  <2> HIDE DEF fields
  <2> QED  BY <2>1 DEF Get, Keys, IsObj, Obj
<1>3. ~bf.ok => bf.value = Absent
  BY DEF ConvertBloom, Refused, Ok
<1> HIDE DEF fields, bf
<1> QED  BY <1>1, <1>2, <1>3 DEF Versioned, Ok, Refused

LEMMA ParsedVersions ==
  ASSUME NEW structs, NEW result, Versioned(result.value)
  PROVE  Versioned(ParsedThrough(structs, result).value)
BY DEF ParsedThrough, Refused, Versioned

\* Whatever a conversion is given, its result is under version 3, or there is none.
LEMMA ConvertedVersions ==
  ASSUME NEW v2, NEW t
  PROVE  Versioned(FromV2Wire(v2, t).value) /\ Versioned(FromV2Query(v2, t).value)
<1>1. Versioned(Convert(v2, t).value)
  BY HoistVersions DEF Convert, ConvertScalar, KindRefused, Refused, Versioned
<1>2. Versioned(ConvertQuery(v2, t).value)
  BY HoistVersions DEF ConvertQuery, ConvertScalarQuery, KindRefused, Refused, Versioned
<1> QED  BY <1>1, <1>2, ParsedVersions DEF FromV2Wire, FromV2Query

LEMMA ParsedIsResult ==
  ASSUME NEW structs, NEW result, ParsedThrough(structs, result).ok
  PROVE  result.ok
BY DEF ParsedThrough, Refused

\* What is under version 3, or is no object at all, no conversion takes.
LEMMA VersionedRefused ==
  ASSUME NEW j, NEW t, Versioned(j)
  PROVE  ~FromV2Wire(j, t).ok /\ ~FromV2Query(j, t).ok
<1>1. Get(j, "v") # Num(V2WireVersion)
  BY DEF Versioned, Get, Keys, IsObj, Absent, Num, EqlSchemaVersion, V2WireVersion
<1>2. IsObj(j) => Get(j, "v") # Absent
  BY DEF Versioned, IsObj, Absent, Num
<1>3. ~Convert(j, t).ok
  BY <1>1 DEF Convert, Refused
<1>4. ~ConvertQuery(j, t).ok
  BY <1>1, <1>2 DEF ConvertQuery, ConvertScalarQuery, Refused
<1> QED  BY <1>3, <1>4, ParsedIsResult DEF FromV2Wire, FromV2Query

\* What has been converted is under version 3.
Converted == Versioned(out) /\ Versioned(needle)

LEMMA ConvertedInit == Init => Converted
BY DEF Init, Converted, Versioned

LEMMA ConvertedInvariant == Converted /\ [Next]_vars => Converted'
<1> SUFFICES ASSUME Converted, [Next]_vars PROVE Converted'
  OBVIOUS
<1> USE DEF Converted
<1>1. ASSUME NEW x \in Plaintexts, NEW signed \in BOOLEAN, Emit(x, signed) PROVE Converted'
  BY <1>1 DEF Emit, Versioned
<1>2. ASSUME NEW name \in Names, ConvertStored(name) PROVE Converted'
  <2>1. out' = FromV2Wire(input, ParseTarget(name)).value /\ needle' = needle
    BY <1>2 DEF ConvertStored
  <2> QED  BY <2>1, ConvertedVersions DEF Versioned
<1>3. CASE Insert
  BY <1>3 DEF Insert, Versioned
<1>4. ASSUME NEW y \in Plaintexts, NEW signed \in BOOLEAN, ConvertNeedle(y, signed) PROVE Converted'
  <2>1. out' = out
    BY <1>4 DEF ConvertNeedle
  <2>2. PICK query : needle' = FromV2Query(query, target).value
    BY <1>4 DEF ConvertNeedle
  <2> QED  BY <2>1, <2>2, ConvertedVersions DEF Versioned
<1>5. CASE Answer
  BY <1>5 DEF Answer, Versioned
<1>6. CASE UNCHANGED vars
  BY <1>6 DEF vars, Versioned
<1> QED  BY <1>1, <1>2, <1>3, <1>4, <1>5, <1>6 DEF Next

(* No conversion takes what a conversion has made, whatever payload came in and for        *)
(* whatever target either is asked for: require_v2_envelope and its like for queries        *)
(* refuse the version that every result is under.                                       *)
THEOREM ConvertedOnce == Spec => []RefusedAgain
<1>1. Converted => RefusedAgain
  BY VersionedRefused DEF Converted, RefusedAgain
<1> QED  BY <1>1, ConvertedInit, ConvertedInvariant, PTL DEF Spec

(***************************************************************************)
(* The strict parse and the CHECK of a domain, rendered from one catalog.   *)
(***************************************************************************)
\* The keys of a rendered struct, and what is under the two that a CHECK looks into.
LEMMA RenderedFields ==
  ASSUME NEW terms, ToSet(terms) \subseteq Terms, NEW envelope \in {Envelope, QueryEnvelope}
  PROVE  /\ DOMAIN Fields(envelope, terms) = DOMAIN envelope \union TermJsonKeys(terms)
         /\ Fields(envelope, terms)["v"] = "SchemaVersion"
         /\ "Ore" \in ToSet(terms) => Fields(envelope, terms)["ob"] = "OreBlock256"
<1>1. "v" \in DOMAIN envelope /\ envelope["v"] = "SchemaVersion" /\ "ob" \notin DOMAIN envelope
  BY DEF Envelope, QueryEnvelope
<1>2. ASSUME "Ore" \in ToSet(terms) PROVE Fields(envelope, terms)["ob"] = "OreBlock256"
  <2>1. "ob" \in TermJsonKeys(terms)
    BY <1>2 DEF TermJsonKeys, JsonKey
  <2>2. TermAt(terms, "ob") = "Ore"
    <3>1. \A t \in ToSet(terms) : JsonKey[t] = "ob" => t = "Ore"
      BY DEF Terms, JsonKey
    <3>2. JsonKey["Ore"] = "ob"
      BY DEF JsonKey
    <3>3. TermAt(terms, "ob") \in ToSet(terms) /\ JsonKey[TermAt(terms, "ob")] = "ob"
      BY <1>2, <3>2, Zenon DEF TermAt
    <3> QED  BY <3>1, <3>3
  <2> QED  BY <1>1, <2>1, <2>2 DEF Fields, BindingNewtype
<1> QED  BY <1>1, <1>2 DEF Fields

\* A value that fits the struct has what the block asks for.
LEMMA FieldsAdmitted ==
  ASSUME NEW struct, NEW block, NEW j, Deserializes(struct, j),
         struct.optional = {},
         block.keys = DOMAIN struct.fields,
         "v" \in block.keys, struct.fields["v"] = "SchemaVersion",
         block.forbidden \intersect block.keys = {},
         block.nonempty \subseteq {"ob"} \intersect block.keys,
         "ob" \in block.nonempty => struct.fields["ob"] = "OreBlock256" /\ Get(j, "ob")[2] # <<>>
  PROVE  CheckAdmits(block, j)
<1>1. IsObj(j) /\ Keys(j) = block.keys
  BY DEF Deserializes, HasFields
<1>2. \A key \in block.keys : FitsField(struct.fields[key], Get(j, key))
  BY <1>1 DEF Deserializes, NullOption
<1>3. Get(j, "v") = Num(EqlSchemaVersion)
  <2>1. FitsField("SchemaVersion", Get(j, "v"))
    BY <1>2
  <2> QED  BY <2>1 DEF FitsField, FitsNewtype, Strings
<1>4. ASSUME "ob" \in block.nonempty PROVE IsArr(Get(j, "ob"))
  <2>1. FitsField("OreBlock256", Get(j, "ob"))
    BY <1>2, <1>4
  <2> QED  BY <2>1 DEF FitsField, FitsNewtype, Strings
<1> QED  BY <1>1, <1>3, <1>4 DEF CheckAdmits

(* Whatever terms the catalog gives a domain: a payload that its generated struct parses,  *)
(* stored or as a query operand, passes the CHECK that is rendered for the domain, unless   *)
(* its ORE term is without a block, which OreBlock256 takes and the CHECK does not.        *)
THEOREM StrictImpliesCheck ==
  ASSUME NEW f, NEW d, ToSet(d.terms) \subseteq Terms, NEW j,
         "ob" \in Keys(j) => Get(j, "ob")[2] # <<>>
  PROVE  /\ Deserializes(RenderStruct(f, d), j) => CheckAdmits(DomainBlock(f, d), j)
         /\ Deserializes(RenderQueryStruct(f, d), j) => CheckAdmits(QueryDomainBlock(f, d), j)
<1>1. NonemptyArrayKeys(d.terms) \subseteq {"ob"} \intersect TermJsonKeys(d.terms)
  BY DEF NonemptyArrayKeys, HasNonemptyArray, TermJsonKeys, JsonKey
<1>2. "ob" \in NonemptyArrayKeys(d.terms) => "Ore" \in ToSet(d.terms)
  BY DEF NonemptyArrayKeys, HasNonemptyArray
<1>3. "c" \notin TermJsonKeys(d.terms)
  BY DEF TermJsonKeys, JsonKey, Terms
<1>4. ASSUME Deserializes(RenderStruct(f, d), j) PROVE CheckAdmits(DomainBlock(f, d), j)
  <2> DEFINE struct == RenderStruct(f, d)
             block == DomainBlock(f, d)
  <2>1. struct.fields = Fields(Envelope, d.terms) /\ struct.optional = {}
    BY DEF RenderStruct, Struct
  <2>2. /\ block.keys = EnvelopeKeys \union TermJsonKeys(d.terms)
        /\ block.nonempty = NonemptyArrayKeys(d.terms) /\ block.forbidden = {}
    BY DEF DomainBlock
  <2>3. block.keys = DOMAIN struct.fields
    BY <2>1, <2>2, RenderedFields DEF Envelope, EnvelopeKeys
  <2>4. struct.fields["v"] = "SchemaVersion"
    BY <2>1, RenderedFields
  <2>5. "ob" \in block.nonempty => struct.fields["ob"] = "OreBlock256" /\ "ob" \in Keys(j)
    <3>1. "Ore" \in ToSet(d.terms) => Fields(Envelope, d.terms)["ob"] = "OreBlock256"
      BY RenderedFields
    <3>2. DOMAIN struct.fields \subseteq Keys(j)
      BY <2>1, <1>4 DEF Deserializes, HasFields
    <3> HIDE DEF struct, block
    <3> QED  BY <2>1, <2>2, <2>3, <1>1, <1>2, <3>1, <3>2
  <2>6. block.nonempty \subseteq {"ob"} \intersect block.keys /\ "v" \in block.keys
    BY <2>2, <1>1 DEF EnvelopeKeys
  <2>7. block.forbidden \intersect block.keys = {}
    BY <2>2
  <2> HIDE DEF struct, block
  <2> QED  BY <2>1, <2>3, <2>4, <2>5, <2>6, <2>7, <1>4, FieldsAdmitted DEF struct, block
<1>5. ASSUME Deserializes(RenderQueryStruct(f, d), j) PROVE CheckAdmits(QueryDomainBlock(f, d), j)
  <2> DEFINE struct == RenderQueryStruct(f, d)
             block == QueryDomainBlock(f, d)
  <2>1. struct.fields = Fields(QueryEnvelope, d.terms) /\ struct.optional = {}
    BY DEF RenderQueryStruct, Struct
  <2>2. /\ block.keys = (EnvelopeKeys \ {"c"}) \union TermJsonKeys(d.terms)
        /\ block.nonempty = NonemptyArrayKeys(d.terms) /\ block.forbidden = {"c"}
    BY DEF QueryDomainBlock
  <2>3. block.keys = DOMAIN struct.fields
    <3>1. DOMAIN QueryEnvelope = EnvelopeKeys \ {"c"}
      BY DEF QueryEnvelope, EnvelopeKeys
    <3>2. DOMAIN Fields(QueryEnvelope, d.terms) = DOMAIN QueryEnvelope \union TermJsonKeys(d.terms)
      BY RenderedFields
    <3> QED  BY <2>1, <2>2, <3>1, <3>2
  <2>4. struct.fields["v"] = "SchemaVersion"
    BY <2>1, RenderedFields
  <2>5. "ob" \in block.nonempty => struct.fields["ob"] = "OreBlock256" /\ "ob" \in Keys(j)
    <3>1. "Ore" \in ToSet(d.terms) => Fields(QueryEnvelope, d.terms)["ob"] = "OreBlock256"
      BY RenderedFields
    <3>2. DOMAIN struct.fields \subseteq Keys(j)
      BY <2>1, <1>5 DEF Deserializes, HasFields
    <3> HIDE DEF struct, block
    <3> QED  BY <2>1, <2>2, <2>3, <1>1, <1>2, <3>1, <3>2
  <2>6. block.nonempty \subseteq {"ob"} \intersect block.keys /\ "v" \in block.keys
    BY <2>2, <1>1 DEF EnvelopeKeys
  <2>7. block.forbidden \intersect block.keys = {}
    BY <2>2, <1>3
  <2> HIDE DEF struct, block
  <2> QED  BY <2>1, <2>3, <2>4, <2>5, <2>6, <2>7, <1>5, FieldsAdmitted DEF struct, block
<1> QED  BY <1>4, <1>5

(***************************************************************************)
(* Structs and the tables that find them.                                  *)
(***************************************************************************)
\* No stored struct is named as the struct of a query operand.
LEMMA NoQueryName ==
  ASSUME NEW f \in CatalogFamilies, NEW n \in NamesTold, n \in Seq(Segments), NEW m \in Seq(Segments)
  PROVE  <<f>> \o n # (<<f>> \o m) \o <<"query">>
<1> SUFFICES ASSUME <<f>> \o n = (<<f>> \o m) \o <<"query">> PROVE FALSE
  OBVIOUS
<1>1. f \in Segments /\ <<f>> \in Seq(Segments) /\ <<"query">> \in Seq(Segments)
      /\ Len(<<"query">>) = 1 /\ <<"query">>[1] = "query"
  BY DEF Segments, Words
<1> DEFINE last == m \o <<"query">>
<1>2. last \in Seq(Segments) /\ Len(last) = Len(m) + 1 /\ Len(m) \in Nat /\ last[Len(m) + 1] = "query"
  <2>1. Len(m) \in Nat
    BY LenProperties
  <2>2. Len(m) + 1 \in 1 .. Len(m) + 1 /\ ~(Len(m) + 1 <= Len(m)) /\ (Len(m) + 1) - Len(m) = 1
    BY <2>1
  <2> QED  BY <1>1, <2>1, <2>2, ConcatProperties
<1>3. (<<f>> \o m) \o <<"query">> = <<f>> \o last
  BY <1>1, ConcatAssociative
<1> HIDE DEF last
<1>4. n = last
  BY <1>1, <1>2, <1>3, ConsedEqual
<1>5. Len(n) > 0 /\ n[Len(n)] = "query"
  BY <1>2, <1>4
<1> QED  BY <1>5 DEF NamesTold

LEMMA FamilyStruct ==
  ASSUME NEW f \in CatalogFamilies, f # "json", NEW d \in DomainsOf(f)
  PROVE  /\ IsScalar(d)
         /\ \A s \in Modules[f] : s.ident = RustStructName(f, d) => s = RenderStruct(f, d)
         /\ \A s \in Modules[f] :
               s.ident = RustStructName(f, d) \o <<"query">> => s = RenderQueryStruct(f, d)
         /\ RenderStruct(f, d) \in Modules[f]
         /\ d.terms # <<>> => RenderQueryStruct(f, d) \in Modules[f]
<1>1. \A e \in DomainsOf(f) : IsScalar(e)
  BY DocumentDomain
<1>2. f \in FamiliesWithScalarDomains /\ f \in ScalarFamilies
  BY <1>1, ScalarFamily DEF FamiliesWithScalarDomains
<1>3. Modules[f] = RenderFamilyBindings(f)
  BY <1>2 DEF Modules
<1>4. \A e \in DomainsOf(f) : /\ RustStructName(f, e) = <<f>> \o e.name
                              /\ e.name \in NamesTold
                              /\ e.name \in Seq(Segments)
  BY <1>1, ScalarNames, ScalarDomain, NameSegments
<1>5. /\ \A e : RenderStruct(f, e).ident = RustStructName(f, e)
      /\ \A e : RenderQueryStruct(f, e).ident = RustStructName(f, e) \o <<"query">>
  BY DEF RenderStruct, RenderQueryStruct, Struct
<1>6. ASSUME NEW s \in Modules[f], s.ident = RustStructName(f, d) PROVE s = RenderStruct(f, d)
  <2>1. CASE \E e \in DomainsOf(f) : s = RenderStruct(f, e)
    <3>1. PICK e \in DomainsOf(f) : s = RenderStruct(f, e)
      BY <2>1
    <3>2. <<f>> \o d.name = <<f>> \o e.name
      BY <1>4, <1>5, <1>6, <3>1
    <3> QED  BY <3>1, <3>2, FullNameTells
  <2>2. CASE \E e \in Queryable(f) : s = RenderQueryStruct(f, e)
    <3>1. PICK e \in DomainsOf(f) : s = RenderQueryStruct(f, e)
      BY <2>2 DEF Queryable
    <3>2. <<f>> \o d.name = (<<f>> \o e.name) \o <<"query">>
      BY <1>4, <1>5, <1>6, <3>1
    <3> QED  BY <1>4, <3>2, NoQueryName
  <2> QED  BY <1>3, <1>6, <2>1, <2>2 DEF RenderFamilyBindings
<1>7. ASSUME NEW s \in Modules[f], s.ident = RustStructName(f, d) \o <<"query">>
      PROVE  s = RenderQueryStruct(f, d)
  <2>1. CASE \E e \in DomainsOf(f) : s = RenderStruct(f, e)
    <3>1. PICK e \in DomainsOf(f) : s = RenderStruct(f, e)
      BY <2>1
    <3>2. <<f>> \o e.name = (<<f>> \o d.name) \o <<"query">>
      BY <1>4, <1>5, <1>7, <3>1
    <3> QED  BY <1>4, <3>2, NoQueryName
  <2>2. CASE \E e \in Queryable(f) : s = RenderQueryStruct(f, e)
    <3>1. PICK e \in DomainsOf(f) : s = RenderQueryStruct(f, e)
      BY <2>2 DEF Queryable
    <3>2. (<<f>> \o e.name) \o <<"query">> = (<<f>> \o d.name) \o <<"query">>
      BY <1>4, <1>5, <1>7, <3>1
    <3>3. f \in Segments /\ <<"query">> \in Seq(Segments)
      BY DEF Segments, Words
    <3>4. <<f>> \o e.name \in Seq(Segments) /\ <<f>> \o d.name \in Seq(Segments)
      BY <1>4, <3>3, Consed
    <3>5. <<f>> \o e.name = <<f>> \o d.name
      BY <3>2, <3>3, <3>4, ConcatSimplifications
    <3> QED  BY <3>1, <3>5, FullNameTells
  <2> QED  BY <1>3, <1>7, <2>1, <2>2 DEF RenderFamilyBindings
<1>8. RenderStruct(f, d) \in Modules[f]
  BY <1>3 DEF RenderFamilyBindings
<1>9. d.terms # <<>> => RenderQueryStruct(f, d) \in Modules[f]
  BY <1>3 DEF RenderFamilyBindings, Queryable
<1> QED  BY <1>1, <1>6, <1>7, <1>8, <1>9

DocumentStructs == {SteVecDocument, SteVecEntry, SteVecQuery}

LEMMA JsonStruct ==
  ASSUME "json" \in CatalogFamilies, NEW d \in DomainsOf("json")
  PROVE  /\ IsScalar(d) => StructAt("json", RustStructName("json", d)) = RenderStruct("json", d)
         /\ ~IsScalar(d) => StructAt("json", RustStructName("json", d)) \in DocumentStructs
<1> DEFINE plainDomain == Scalar(<<>>, <<>>)
<1>1. plainDomain \in DomainsOf("json") /\ IsScalar(plainDomain)
  BY DomainsListed DEF IsScalar, Scalar, Domain
<1>2. \A e \in DomainsOf("json") : IsScalar(e) => e = plainDomain
  BY ScalarDomain
<1>3. Queryable("json") = {}
  BY DomainsListed DEF Queryable, Scalar, Domain
<1>4. "json" \in FamiliesWithScalarDomains /\ "json" \notin ScalarFamilies
  BY <1>1, ScalarFamily DEF FamiliesWithScalarDomains
<1>5. Modules["json"] = DocumentStructs \union {RenderStruct("json", plainDomain)}
  <2>1. Modules["json"] = JsonModule("json")
    BY <1>4 DEF Modules
  <2>2. RenderScalarOnlyBindings("json") = {RenderStruct("json", plainDomain)}
    <3> HIDE DEF plainDomain
    <3> QED  BY <1>1, <1>2, <1>3 DEF RenderScalarOnlyBindings
  <2> QED  BY <2>1, <2>2 DEF JsonModule, DocumentStructs
<1>6. RenderStruct("json", plainDomain).ident = <<"json">>
  <2>1. RenderStruct("json", plainDomain).ident = <<"json">> \o <<>>
    BY <1>1 DEF RenderStruct, Struct, RustStructName, FullName, IsSteVecQuery, IsScalar,
       Scalar, Domain
  <2> QED  BY <2>1
<1>7. /\ SteVecDocument.ident = <<"ste", "vec", "document">>
      /\ SteVecEntry.ident = <<"ste", "vec", "entry">>
      /\ SteVecQuery.ident = <<"ste", "vec", "query">>
  BY DEF SteVecDocument, SteVecEntry, SteVecQuery, Struct
<1> HIDE DEF plainDomain
<1>8. ASSUME IsScalar(d) PROVE StructAt("json", RustStructName("json", d)) = RenderStruct("json", d)
  <2>1. d = plainDomain
    BY <1>2, <1>8
  <2>2. RustStructName("json", d) = <<"json">>
    BY <1>6, <2>1 DEF RenderStruct, Struct
  <2>3. \A s \in DocumentStructs : s.ident # <<"json">>
    BY <1>7 DEF DocumentStructs
  <2> QED  BY <1>5, <1>6, <2>1, <2>2, <2>3, Zenon DEF StructAt
<1>9. ASSUME ~IsScalar(d) PROVE StructAt("json", RustStructName("json", d)) \in DocumentStructs
  <2>1. /\ d.name \in {<<"search">>, <<"entry">>, <<"query">>}
        /\ d.shape = "SteVec"
    BY <1>9, DocumentDomain
  <2>2. RustStructName("json", d) \in
          {<<"ste", "vec", "document">>, <<"ste", "vec", "entry">>, <<"ste", "vec", "query">>}
    <3>1. /\ <<"ste", "vec">> \o <<"entry">> = <<"ste", "vec", "entry">>
          /\ <<"ste", "vec">> \o <<"query">> = <<"ste", "vec", "query">>
      BY AppendedPair
    <3>2. RustStructName("json", d) =
            IF d.name = <<"search">> THEN <<"ste", "vec", "document">> ELSE <<"ste", "vec">> \o d.name
      BY <1>9, <2>1 DEF RustStructName
    <3> QED  BY <2>1, <3>1, <3>2
  <2>3. RustStructName("json", d) # <<"json">>
    BY <2>2
  <2>4. \E s \in Modules["json"] : s.ident = RustStructName("json", d)
    BY <1>5, <1>7, <2>2 DEF DocumentStructs
  <2>5. /\ StructAt("json", RustStructName("json", d)) \in Modules["json"]
        /\ StructAt("json", RustStructName("json", d)).ident = RustStructName("json", d)
    BY <2>4, Zenon DEF StructAt
  <2> QED  BY <1>5, <1>6, <2>3, <2>5
<1> QED  BY <1>8, <1>9

\* What the generated tables refer to by module and identifier is what was rendered.
LEMMA StructFound ==
  ASSUME NEW f \in CatalogFamilies, NEW d \in DomainsOf(f)
  PROVE  /\ IsScalar(d) => StructAt(f, RustStructName(f, d)) = RenderStruct(f, d)
         /\ ~IsScalar(d) => StructAt(f, RustStructName(f, d)) \in DocumentStructs
         /\ IsScalar(d) /\ d.terms # <<>> =>
              StructAt(f, RustStructName(f, d) \o <<"query">>) = RenderQueryStruct(f, d)
<1>1. CASE f = "json"
  <2>1. d.terms = <<>>
    <3>1. IsScalar(d) => d = Scalar(<<>>, <<>>)
      BY <1>1, ScalarDomain
    <3> QED  BY <3>1, DocumentDomain DEF Scalar, Domain
  <2> QED  BY <1>1, <2>1, JsonStruct
<1>2. CASE f # "json"
  <2>1. RenderStruct(f, d).ident = RustStructName(f, d)
    BY DEF RenderStruct, Struct
  <2>2. RenderQueryStruct(f, d).ident = RustStructName(f, d) \o <<"query">>
    BY DEF RenderQueryStruct, Struct
  <2>3. /\ \A s \in Modules[f] : s.ident = RustStructName(f, d) => s = RenderStruct(f, d)
        /\ \A s \in Modules[f] :
              s.ident = RustStructName(f, d) \o <<"query">> => s = RenderQueryStruct(f, d)
        /\ RenderStruct(f, d) \in Modules[f]
        /\ d.terms # <<>> => RenderQueryStruct(f, d) \in Modules[f]
    BY <1>2, FamilyStruct
  <2>4. StructAt(f, RustStructName(f, d)) = RenderStruct(f, d)
    BY <2>1, <2>3, Zenon DEF StructAt
  <2>5. d.terms # <<>> => StructAt(f, RustStructName(f, d) \o <<"query">>) = RenderQueryStruct(f, d)
    BY <2>2, <2>3, Zenon DEF StructAt
  <2> QED  BY <1>2, <2>4, <2>5, FamilyStruct
<1> QED  BY <1>1, <1>2

\* What an inventory holds.
LEMMA InventoryStructs ==
  /\ \A s \in Inventory :
       \/ s \in DocumentStructs
       \/ \E f \in CatalogFamilies : \E d \in DomainsOf(f) : IsScalar(d) /\ s = RenderStruct(f, d)
  /\ \A f \in CatalogFamilies : \A d \in DomainsOf(f) : IsScalar(d) => RenderStruct(f, d) \in Inventory
<1>1. ASSUME NEW s \in Inventory
      PROVE  \/ s \in DocumentStructs
             \/ \E f \in CatalogFamilies : \E d \in DomainsOf(f) : IsScalar(d) /\ s = RenderStruct(f, d)
  <2>1. PICK f, d : f \in CatalogFamilies /\ d \in DomainsOf(f) /\ s = StructAt(f, RustStructName(f, d))
    BY DEF Inventory, RenderInventory
  <2> QED  BY <2>1, StructFound
<1>2. ASSUME NEW f \in CatalogFamilies, NEW d \in DomainsOf(f), IsScalar(d)
      PROVE  RenderStruct(f, d) \in Inventory
  <2>1. StructAt(f, RustStructName(f, d)) \in Inventory
    BY DEF Inventory, RenderInventory
  <2> QED  BY <1>2, <2>1, StructFound
<1> QED  BY <1>1, <1>2

LEMMA DocumentNames ==
  ASSUME NEW s \in DocumentStructs
  PROVE  /\ s.term_keys = {}
         /\ \A f \in CatalogFamilies : \A d \in DomainsOf(f) :
              IsScalar(d) => UnqualifiedDomain(s) # SqlTypname(f, d)
<1>1. s.term_keys = {}
  BY DEF DocumentStructs, SteVecDocument, SteVecEntry, SteVecQuery, Struct
<1>2. UnqualifiedDomain(s) \in
        {<<"eql_v3", "json", "search">>, <<"eql_v3", "json", "entry">>, <<"query", "json">>}
  <2>1. s.sql_domain \in {JsonSearchType, JsonEntryType, JsonQueryType}
    BY DEF DocumentStructs, SteVecDocument, SteVecEntry, SteVecQuery, Struct
  <2>2. /\ Tail(JsonSearchType) = <<"eql_v3", "json", "search">>
        /\ Tail(JsonEntryType) = <<"eql_v3", "json", "entry">>
    <3>1. /\ JsonSearchType = <<"public", "eql_v3", "json", "search">>
          /\ JsonEntryType = <<"public", "eql_v3", "json", "entry">>
      <4>1. <<"public", "eql_v3", "json">> \o <<"search">> = <<"public", "eql_v3", "json", "search">>
        BY AppendedWord
      <4>2. <<"public", "eql_v3", "json">> \o <<"entry">> = <<"public", "eql_v3", "json", "entry">>
        BY AppendedWord
      <4> QED  BY <4>1, <4>2 DEF JsonSearchType, JsonEntryType, JsonType
    <3> QED  BY <3>1
  <2>3. Tail(JsonQueryType) = <<"query", "json">>
    BY DEF JsonQueryType
  <2> QED  BY <2>1, <2>2, <2>3 DEF UnqualifiedDomain
<1>3. ASSUME NEW f \in CatalogFamilies, NEW d \in DomainsOf(f), IsScalar(d)
      PROVE  UnqualifiedDomain(s) # SqlTypname(f, d)
  <2>1. /\ SqlTypname(f, d) = <<"eql_v3">> \o FullName(f, d)
        /\ FullName(f, d) \in Seq(Segments)
    BY <1>3, ScalarNames
  <2>3. Head(SqlTypname(f, d)) = "eql_v3"
    BY <2>1, Consed DEF Segments, Words
  <2>4. Head(<<"query", "json">>) # "eql_v3"
    OBVIOUS
  <2>5. Head(Tail(SqlTypname(f, d))) = f /\ Tail(Tail(SqlTypname(f, d))) = d.name
    <3>1. f \in Segments /\ d.name \in Seq(Segments)
      BY NameSegments DEF Segments
    <3>2. Head(<<f>> \o d.name) = f /\ Tail(<<f>> \o d.name) = d.name
      BY <3>1, Consed
    <3>3. Tail(SqlTypname(f, d)) = <<f>> \o d.name
      BY <1>3, ScalarNames
    <3> QED  BY <3>2, <3>3
  <2>6. /\ Head(Tail(<<"eql_v3", "json", "search">>)) = "json"
        /\ Tail(Tail(<<"eql_v3", "json", "search">>)) = <<"search">>
        /\ Head(Tail(<<"eql_v3", "json", "entry">>)) = "json"
        /\ Tail(Tail(<<"eql_v3", "json", "entry">>)) = <<"entry">>
    OBVIOUS
  <2>7. f = "json" => d.name = <<>>
    BY <1>3, ScalarDomain DEF Scalar, Domain
  <2>8. <<>> # <<"search">> /\ <<>> # <<"entry">>
    OBVIOUS
  <2> QED  BY <1>2, <2>3, <2>4, <2>5, <2>6, <2>7, <2>8
<1> QED  BY <1>1, <1>3

\* An inventory has one struct under the name of a scalar domain: the domain's.
LEMMA InventoryNamed ==
  ASSUME NEW f \in CatalogFamilies, NEW d \in DomainsOf(f), IsScalar(d)
  PROVE  {s \in Inventory : UnqualifiedDomain(s) = SqlTypname(f, d)} = {RenderStruct(f, d)}
<1>1. \A g \in CatalogFamilies : \A e \in DomainsOf(g) :
        IsScalar(e) => UnqualifiedDomain(RenderStruct(g, e)) = SqlTypname(g, e)
  <2>1. \A g, e : RenderStruct(g, e).sql_domain = DomainName(g, e)
    BY DEF RenderStruct, Struct
  <2> QED  BY <2>1, ScalarNames DEF UnqualifiedDomain
<1>2. RenderStruct(f, d) \in Inventory /\ UnqualifiedDomain(RenderStruct(f, d)) = SqlTypname(f, d)
  BY <1>1, InventoryStructs
<1>3. ASSUME NEW s \in Inventory, UnqualifiedDomain(s) = SqlTypname(f, d)
      PROVE  s = RenderStruct(f, d)
  <2>1. s \notin DocumentStructs
    BY <1>3, DocumentNames
  <2>2. PICK g, e : g \in CatalogFamilies /\ e \in DomainsOf(g) /\ IsScalar(e) /\ s = RenderStruct(g, e)
    BY <2>1, InventoryStructs
  <2>3. SqlTypname(f, d) = SqlTypname(g, e)
    BY <1>1, <1>3, <2>2
  <2>4. f = g /\ d = e
    BY <2>2, <2>3, SqlTypnameTells
  <2> QED  BY <2>2, <2>4
<1> QED  BY <1>2, <1>3

\* The target of a name: a scalar domain's, or one that no payload is converted for.
LEMMA TargetNamed ==
  ASSUME NEW name
  PROVE  /\ ParseTarget(name).domain = name
         /\ ParseTarget(name).kind = "Scalar" =>
              \E f \in CatalogFamilies : \E d \in DomainsOf(f) :
                /\ IsScalar(d)
                /\ ParseTarget(name) = Target("Scalar", SqlTypname(f, d), TermJsonKeys(d.terms))
         /\ ParseTarget(name).kind # "Scalar" => ParseTarget(name).term_keys = {}
<1> DEFINE found == {s \in Inventory : UnqualifiedDomain(s) = name}
           chosen == CHOOSE s \in found : TRUE
<1>1. CASE found = {}
  <2>1. ParseTarget(name) = Target("UnknownDomain", name, {})
    BY <1>1 DEF ParseTarget
  <2> QED  BY <2>1 DEF Target
<1>2. CASE found # {}
  <2>1. chosen \in Inventory /\ UnqualifiedDomain(chosen) = name
    BY <1>2
  <2>2. ParseTarget(name) = TargetOf(chosen)
    BY <1>2 DEF ParseTarget
  <2> HIDE DEF found, chosen
  <2>3. CASE chosen.term_keys = {}
    <3>1. TargetOf(chosen) \in {Target("Json", name, {}), Target("UnknownDomain", name, {})}
      BY <2>1, <2>3 DEF TargetOf
    <3> QED  BY <2>2, <3>1 DEF Target
  <2>4. CASE chosen.term_keys # {}
    <3>1. chosen \notin DocumentStructs
      BY <2>4, DocumentNames
    <3>2. PICK f, d : /\ f \in CatalogFamilies /\ d \in DomainsOf(f)
                      /\ IsScalar(d) /\ chosen = RenderStruct(f, d)
      BY <2>1, <3>1, InventoryStructs
    <3>3. name = SqlTypname(f, d)
      <4>1. RenderStruct(f, d).sql_domain = DomainName(f, d)
        BY DEF RenderStruct, Struct
      <4> QED  BY <2>1, <3>2, <4>1, ScalarNames DEF UnqualifiedDomain
    <3>4. chosen.term_keys = {TermJsonKeys(d.terms)}
      BY <3>2 DEF RenderStruct, Struct
    <3>5. UNION chosen.term_keys = TermJsonKeys(d.terms)
      BY <3>4
    <3>6. name # JsonSearch
      <4>1. SteVecDocument \in DocumentStructs /\ UnqualifiedDomain(SteVecDocument) = JsonSearch
        <5>1. SteVecDocument.sql_domain = <<"public", "eql_v3", "json", "search">>
          BY AppendedWord DEF SteVecDocument, Struct, JsonSearchType, JsonType
        <5> QED  BY <5>1 DEF DocumentStructs, UnqualifiedDomain, JsonSearch
      <4> QED  BY <3>2, <3>3, <4>1, DocumentNames
    <3>7. ParseTarget(name) = Target("Scalar", name, UNION chosen.term_keys)
      BY <2>1, <2>2, <2>4, <3>6 DEF TargetOf
    <3>8. ParseTarget(name) = Target("Scalar", SqlTypname(f, d), TermJsonKeys(d.terms))
      BY <3>3, <3>5, <3>7
    <3> QED  BY <3>2, <3>3, <3>8 DEF Target
  <2> QED  BY <2>3, <2>4
<1> QED  BY <1>1, <1>2

\* So do the tables of payloads and of query payloads.
LEMMA StoredTable ==
  ASSUME NEW f \in CatalogFamilies, NEW d \in DomainsOf(f), IsScalar(d)
  PROVE  InTable(DomainPayload, SqlTypname(f, d)) = {RenderStruct(f, d)}
<1> DEFINE name == SqlTypname(f, d)
           rows == {<<SqlTypname(p[1], p[2]), StoredStruct(p)>> : p \in StoredPayloadDomains}
<1>1. <<name, RenderStruct(f, d)>> \in rows
  <2>1. <<f, d>> \in StoredPayloadDomains
    BY DEF StoredPayloadDomains
  <2>2. StoredStruct(<<f, d>>) = RenderStruct(f, d)
    BY StructFound DEF StoredStruct
  <2> QED  BY <2>1, <2>2
<1>2. ASSUME NEW r \in rows, r[1] = name PROVE r[2] = RenderStruct(f, d)
  <2>1. PICK p \in StoredPayloadDomains : r = <<SqlTypname(p[1], p[2]), StoredStruct(p)>>
    OBVIOUS
  <2>2. p[1] \in CatalogFamilies /\ p[2] \in DomainsOf(p[1])
    BY DEF StoredPayloadDomains
  <2>3. f = p[1] /\ d = p[2]
    BY <1>2, <2>1, <2>2, SqlTypnameTells
  <2> QED  BY <2>1, <2>3, StructFound DEF StoredStruct
<1>3. DomainPayload = Table(rows)
  BY DEF DomainPayload, RenderPayload
<1> HIDE DEF rows, name
<1>4. name \in DOMAIN DomainPayload /\ DomainPayload[name] = RenderStruct(f, d)
  BY <1>1, <1>2, <1>3, Tabled
<1>5. InTable(DomainPayload, name) = {RenderStruct(f, d)}
  BY <1>4 DEF InTable
<1> QED  BY <1>5 DEF name

LEMMA QueryTable ==
  ASSUME NEW f \in CatalogFamilies, NEW d \in DomainsOf(f), IsScalar(d), d.terms # <<>>
  PROVE  InTable(QueryPayload, QueryName(f, d)) = {RenderQueryStruct(f, d)}
<1> DEFINE name == QueryName(f, d)
           scalars == {<<QueryName(p[1], p[2]), QueryStruct(p)>> : p \in QueryPayloadDomains}
           documents == << <<"query", "json">>, StructAt("json", SteVecQuery.ident)>>
           rows == scalars \union {documents}
<1>1. f # "json"
  BY ScalarDomain DEF Scalar, Domain
<1>2. <<name, RenderQueryStruct(f, d)>> \in rows
  <2>1. <<f, d>> \in QueryPayloadDomains
    BY <1>1, ScalarFamily DEF QueryPayloadDomains, Queryable
  <2>2. QueryStruct(<<f, d>>) = RenderQueryStruct(f, d)
    BY StructFound DEF QueryStruct
  <2> QED  BY <2>1, <2>2
<1>3. ASSUME NEW r \in scalars, r[1] = name PROVE r[2] = RenderQueryStruct(f, d)
  <2>1. PICK p \in QueryPayloadDomains : r = <<QueryName(p[1], p[2]), QueryStruct(p)>>
    OBVIOUS
  <2>2. p[1] \in ScalarFamilies /\ p[2] \in DomainsOf(p[1])
    BY DEF QueryPayloadDomains, Queryable
  <2>3. p[1] \in CatalogFamilies /\ IsScalar(p[2])
    BY <2>2 DEF ScalarFamilies
  <2>4. f = p[1] /\ d = p[2]
    BY <1>3, <2>1, <2>2, <2>3, QueryNameTells
  <2> QED  BY <2>1, <2>4, StructFound DEF QueryStruct
<1>4. documents[1] # name
  <2>1. Tail(name) = <<f>> \o d.name
    <3>1. name = <<"query">> \o FullName(f, d) /\ FullName(f, d) \in Seq(Segments)
          /\ FullName(f, d) = <<f>> \o d.name
      BY ScalarNames
    <3>2. "query" \in Segments
      BY DEF Segments, Words
    <3> QED  BY <3>1, <3>2, Consed
  <2>2. Head(<<f>> \o d.name) = f
    BY NameSegments, Consed DEF Segments
  <2>3. Head(Tail(<<"query", "json">>)) = "json"
    OBVIOUS
  <2> HIDE DEF name
  <2> QED  BY <1>1, <2>1, <2>2, <2>3
<1>5. QueryPayload = Table(rows)
  BY DEF QueryPayload, RenderQueryPayload
<1>6. \A r \in rows : r[1] = name => r[2] = RenderQueryStruct(f, d)
  BY <1>3, <1>4
<1> HIDE DEF rows, name
<1>7. name \in DOMAIN QueryPayload /\ QueryPayload[name] = RenderQueryStruct(f, d)
  BY <1>2, <1>5, <1>6, Tabled
<1>8. InTable(QueryPayload, name) = {RenderQueryStruct(f, d)}
  BY <1>7 DEF InTable
<1> QED  BY <1>8 DEF name

(***************************************************************************)
(* Targets.                                                                *)
(***************************************************************************)
ScalarTarget(p) == Target("Scalar", SqlTypname(p[1], p[2]), TermJsonKeys(p[2].terms))

\* A target is that of a scalar domain, or one without a term.
TargetTyped(t) == (t.kind # "Scalar" /\ t.term_keys = {}) \/ \E p \in Scalars : t = ScalarTarget(p)

LEMMA TargetsTyped == \A name : TargetTyped(ParseTarget(name))
<1> SUFFICES ASSUME NEW name PROVE TargetTyped(ParseTarget(name))
  OBVIOUS
<1>1. CASE ParseTarget(name).kind # "Scalar"
  BY <1>1, TargetNamed DEF TargetTyped
<1>2. CASE ParseTarget(name).kind = "Scalar"
  <2>1. PICK f, d : /\ f \in CatalogFamilies /\ d \in DomainsOf(f) /\ IsScalar(d)
                    /\ ParseTarget(name) = Target("Scalar", SqlTypname(f, d), TermJsonKeys(d.terms))
    BY <1>2, TargetNamed
  <2>2. <<f, d>> \in Scalars /\ ParseTarget(name) = ScalarTarget(<<f, d>>)
    BY <2>1 DEF Scalars, ScalarTarget
  <2> QED  BY <2>2 DEF TargetTyped
<1> QED  BY <1>1, <1>2

\* The rendered domain, struct and query struct of a target.
LEMMA TargetFinds ==
  ASSUME NEW p \in Scalars, NEW t, t = ScalarTarget(p)
  PROVE  /\ t.kind = "Scalar" /\ t.domain = SqlTypname(p[1], p[2])
         /\ t.term_keys = TermJsonKeys(p[2].terms)
         /\ DomainsNamed(t.domain) = {p}
         /\ {s \in Inventory : UnqualifiedDomain(s) = t.domain} = {RenderStruct(p[1], p[2])}
         /\ InTable(DomainPayload, t.domain) = {RenderStruct(p[1], p[2])}
         /\ t.term_keys # {} =>
              InTable(QueryPayload, QueryDomainNameOf(t)) = {RenderQueryStruct(p[1], p[2])}
<1>1. p[1] \in CatalogFamilies /\ p[2] \in DomainsOf(p[1]) /\ IsScalar(p[2]) /\ p = <<p[1], p[2]>>
  BY ScalarsTyped
<1>2. t.kind = "Scalar" /\ t.domain = SqlTypname(p[1], p[2]) /\ t.term_keys = TermJsonKeys(p[2].terms)
  BY DEF ScalarTarget, Target
<1>3. DomainsNamed(t.domain) = {p}
  <2>1. p \in DomainsNamed(t.domain)
    BY <1>1, <1>2 DEF DomainsNamed
  <2>2. ASSUME NEW q \in DomainsNamed(t.domain) PROVE q = p
    <3>1. /\ q[1] \in CatalogFamilies /\ q[2] \in DomainsOf(q[1]) /\ q = <<q[1], q[2]>>
          /\ SqlTypname(q[1], q[2]) = SqlTypname(p[1], p[2])
      BY <1>2 DEF DomainsNamed
    <3>2. p[1] = q[1] /\ p[2] = q[2]
      BY <1>1, <3>1, SqlTypnameTells
    <3> QED  BY <1>1, <3>1, <3>2
  <2> QED  BY <2>1, <2>2
<1>4. {s \in Inventory : UnqualifiedDomain(s) = t.domain} = {RenderStruct(p[1], p[2])}
  BY <1>1, <1>2, InventoryNamed
<1>5. InTable(DomainPayload, t.domain) = {RenderStruct(p[1], p[2])}
  BY <1>1, <1>2, StoredTable
<1>6. ASSUME t.term_keys # {}
      PROVE  InTable(QueryPayload, QueryDomainNameOf(t)) = {RenderQueryStruct(p[1], p[2])}
  <2>1. p[2].terms # <<>>
    BY <1>2, <1>6, ScalarsTyped
  <2>2. QueryDomainNameOf(t) = <<"query">> \o Tail(SqlTypname(p[1], p[2]))
    BY <1>2 DEF QueryDomainNameOf
  <2>3. QueryDomainNameOf(t) = QueryName(p[1], p[2])
    BY <1>1, <2>2, ScalarNames
  <2> QED  BY <1>1, <2>1, <2>3, QueryTable
<1> QED  BY <1>2, <1>3, <1>4, <1>5, <1>6

(***************************************************************************)
(* What a conversion makes.                                                *)
(***************************************************************************)
TermKeys == {"hm", "ob", "bf", "op"}

LEMMA KeysOfTerms ==
  /\ \A t \in Terms : JsonKey[t] \in TermKeys
  /\ \A s, t \in Terms : JsonKey[s] = JsonKey[t] => s = t
  /\ \A terms : ToSet(terms) \subseteq Terms => TermJsonKeys(terms) \subseteq TermKeys
  /\ \A terms : \A t \in ToSet(terms) :
       ToSet(terms) \subseteq Terms => TermAt(terms, JsonKey[t]) = t /\ JsonKey[t] \in TermJsonKeys(terms)
<1>1. \A t \in Terms : JsonKey[t] \in TermKeys
  BY DEF Terms, JsonKey, TermKeys
<1>2. \A s, t \in Terms : JsonKey[s] = JsonKey[t] => s = t
  BY DEF Terms, JsonKey
<1>3. \A terms : ToSet(terms) \subseteq Terms => TermJsonKeys(terms) \subseteq TermKeys
  BY <1>1 DEF TermJsonKeys
<1>4. ASSUME NEW terms, NEW t \in ToSet(terms), ToSet(terms) \subseteq Terms
      PROVE  TermAt(terms, JsonKey[t]) = t /\ JsonKey[t] \in TermJsonKeys(terms)
  <2>1. TermAt(terms, JsonKey[t]) \in ToSet(terms) /\ JsonKey[TermAt(terms, JsonKey[t])] = JsonKey[t]
    BY Zenon DEF TermAt
  <2> QED  BY <1>2, <1>4, <2>1 DEF TermJsonKeys
<1> QED  BY <1>1, <1>2, <1>3, <1>4

\* What is hoisted: the version, what is copied and the terms.
LEMMA Hoisted ==
  ASSUME NEW v2, NEW copied, NEW t, copied \subseteq {"i", "c"}, t.term_keys \subseteq TermKeys
  PROVE  LET result == Hoist(v2, copied, t)
         IN /\ result.ok => t.term_keys \subseteq Keys(v2)
            /\ result.ok => /\ IsObj(result.value)
                            /\ Keys(result.value) = {"v"} \union (copied \intersect Keys(v2)) \union t.term_keys
                            /\ Get(result.value, "v") = Num(EqlSchemaVersion)
                            /\ \A key \in Keys(result.value) \ {"v", "bf"} :
                                 Get(result.value, key) = Get(v2, key)
                            /\ "bf" \in t.term_keys =>
                                 Get(result.value, "bf") = ConvertBloom(Get(v2, "bf")).value
            /\ ~result.ok => result.value = Absent
            /\ result.ok <=> /\ t.term_keys \subseteq Keys(v2)
                             /\ "bf" \in t.term_keys => ConvertBloom(Get(v2, "bf")).ok
            /\ result.error # "panic"
<1> DEFINE bf == ConvertBloom(Get(v2, "bf"))
           keys == {"v"} \union (copied \intersect Keys(v2)) \union t.term_keys
           fields == [key \in keys |-> IF key = "v" THEN Num(EqlSchemaVersion)
                                       ELSE IF key = "bf" THEN bf.value ELSE Get(v2, key)]
           possible == t.term_keys \subseteq Keys(v2) /\ ("bf" \in t.term_keys => bf.ok)
<1>1. Hoist(v2, copied, t) = IF ~ t.term_keys \subseteq Keys(v2) THEN Refused("MissingTerm")
                             ELSE IF "bf" \in t.term_keys /\ ~bf.ok THEN bf ELSE Ok(Obj(fields))
  BY DEF Hoist
<1>2. bf.error # "panic" /\ (~bf.ok => bf.value = Absent)
  BY DEF ConvertBloom, Refused, Ok
<1>3. /\ \A e : Refused(e).ok = FALSE /\ Refused(e).value = Absent /\ Refused(e).error = e
      /\ \A j : Ok(j).ok = TRUE /\ Ok(j).value = j /\ Ok(j).error = "none"
  BY DEF Refused, Ok
<1>4. /\ IsObj(Obj(fields)) /\ Keys(Obj(fields)) = keys
      /\ \A key \in keys : Get(Obj(fields), key) = fields[key]
  <2>1. DOMAIN fields = keys
    OBVIOUS
  <2> HIDE DEF fields, keys
  <2> QED  BY <2>1 DEF IsObj, Obj, Keys, Get
<1>5. /\ "v" \in keys /\ fields["v"] = Num(EqlSchemaVersion)
      /\ \A key \in keys \ {"v", "bf"} : fields[key] = Get(v2, key)
      /\ "bf" \in t.term_keys => "bf" \in keys /\ fields["bf"] = bf.value
  OBVIOUS
<1> HIDE DEF bf, fields
<1>6. CASE ~possible
  <2>1. Hoist(v2, copied, t) = Refused("MissingTerm") \/ (Hoist(v2, copied, t) = bf /\ ~bf.ok)
    BY <1>1, <1>6
  <2> QED  BY <1>2, <1>3, <1>6, <2>1 DEF bf
<1>7. CASE possible
  <2>1. Hoist(v2, copied, t) = Ok(Obj(fields))
    BY <1>1, <1>7
  <2>2. Hoist(v2, copied, t).ok /\ Hoist(v2, copied, t).value = Obj(fields)
        /\ Hoist(v2, copied, t).error = "none"
    BY <1>3, <2>1
  <2> QED  BY <1>4, <1>5, <1>7, <2>2 DEF bf
<1> QED  BY <1>6, <1>7

(***************************************************************************)
(* What a client emits.                                                    *)
(***************************************************************************)
LEMMA SetInSequence ==
  ASSUME NEW S, IsFiniteSet(S)
  PROVE  /\ SetToSeq(S) \in [1 .. Cardinality(S) -> S]
         /\ \A x \in S : \E n \in 1 .. Cardinality(S) : SetToSeq(S)[n] = x
<1>1. Cardinality(S) \in Nat /\ ExistsBijection(1 .. Cardinality(S), S)
  BY FS_CardinalityType
<1>2. \E f \in [1 .. Cardinality(S) -> S] : IsInjective(f)
  BY <1>1, Zenon DEF ExistsBijection, Bijection, Injection
<1>3. SetToSeq(S) \in [1 .. Cardinality(S) -> S] /\ IsInjective(SetToSeq(S))
  BY <1>2, Zenon DEF SetToSeq
<1>4. SetToSeq(S) \in Injection(1 .. Cardinality(S), S)
  BY <1>3 DEF Injection
<1>5. IsFiniteSet(1 .. Cardinality(S)) /\ Cardinality(1 .. Cardinality(S)) = Cardinality(S)
  BY <1>1, FS_Interval
<1>6. SetToSeq(S) \in Surjection(1 .. Cardinality(S), S)
  BY <1>4, <1>5, FS_Injection
<1> QED  BY <1>3, <1>6 DEF Surjection

LEMMA GramPlaced ==
  ASSUME NEW x \in Plaintexts
  PROVE  \A n \in 1 .. Cardinality(Grams[x]) : SetToSeq(Grams[x])[n] \in DOMAIN Position
<1>1. IsFiniteSet(Grams[x]) /\ Grams[x] \subseteq DOMAIN Position
  BY PositionAssumption
<1>2. SetToSeq(Grams[x]) \in [1 .. Cardinality(Grams[x]) -> Grams[x]]
  BY <1>1, SetInSequence
<1> QED  BY <1>1, <1>2

\* The smallint that a position wraps to, and the terms of a converted payload.
Bit(g) == IF Position[g] > 32767 THEN Position[g] - 65536 ELSE Position[g]
WireTerm(t, f, x) ==
  IF t = "Bloom" THEN Arr([n \in 1 .. Cardinality(Grams[x]) |-> Num(Bit(SetToSeq(Grams[x])[n]))])
  ELSE ClientTerm(t, f, x, FALSE)

LEMMA BitTyped ==
  ASSUME NEW g \in DOMAIN Position
  PROVE  /\ Position[g] \in Int /\ InRange(Position[g]) /\ AsI16(Position[g]) = Bit(g)
         /\ Bit(g) \in Int /\ InRange(Bit(g)) /\ AsI16(Bit(g)) = Bit(g) /\ IsI16(Bit(g))
<1>1. Position[g] \in Int /\ 0 <= Position[g] /\ Position[g] <= 65535
  BY PositionAssumption
<1>2. InRange(Position[g]) /\ Bit(g) \in Int /\ InRange(Bit(g)) /\ Bit(g) <= 32767
  BY <1>1 DEF InRange, Bit
<1>3. AsI16(Position[g]) = Bit(g)
  BY <1>1, <1>2, AsI16Wraps DEF Bit
<1>4. AsI16(Bit(g)) = Bit(g)
  BY <1>2, AsI16Wraps
<1> QED  BY <1>1, <1>2, <1>3, <1>4 DEF IsI16, InRange

LEMMA ConvertedBloom ==
  ASSUME NEW f, NEW x \in Plaintexts, NEW signed
  PROVE  ConvertBloom(ClientBloom(x, signed)) = Ok(WireTerm("Bloom", f, x))
<1> DEFINE n == Cardinality(Grams[x])
           gram(k) == SetToSeq(Grams[x])[k]
           bit(g) == IF signed /\ Position[g] > 32767 THEN Position[g] - 65536 ELSE Position[g]
           bits == [k \in 1 .. n |-> Num(bit(gram(k)))]
           bf == Arr(bits)
<1>1. ClientBloom(x, signed) = bf
  BY DEF ClientBloom
<1>2. \A k \in 1 .. n : gram(k) \in DOMAIN Position
  BY GramPlaced
<1>3. \A g \in DOMAIN Position : InRange(bit(g)) /\ AsI16(bit(g)) = Bit(g)
  BY BitTyped DEF Bit
<1> HIDE DEF n, gram, bit
<1>4. bf[2] = bits /\ IsArr(bf) /\ DOMAIN bits = 1 .. n
  BY DEF Arr, IsArr
<1>5. \A k \in 1 .. n : bits[k] = Num(bit(gram(k)))
  OBVIOUS
<1>6. \A k \in 1 .. n : IsNum(bits[k]) /\ bits[k][2] = bit(gram(k))
  BY <1>5 DEF Num, IsNum
<1> HIDE DEF bf, bits
<1>7. \A k \in DOMAIN bf[2] : IsNum(bf[2][k]) /\ InRange(bf[2][k][2])
  BY <1>2, <1>3, <1>4, <1>6
<1>8. ConvertBloom(bf) = Ok(Arr([k \in DOMAIN bf[2] |-> Num(AsI16(bf[2][k][2]))]))
  BY <1>4, <1>7 DEF ConvertBloom
<1>9. [k \in DOMAIN bf[2] |-> Num(AsI16(bf[2][k][2]))] = [k \in 1 .. n |-> Num(Bit(gram(k)))]
  BY <1>2, <1>3, <1>4, <1>6
<1> QED  BY <1>1, <1>8, <1>9 DEF WireTerm, n, gram

\* Every term of a converted payload fits its newtype.
LEMMA WireTermFits ==
  ASSUME NEW f, NEW x \in Plaintexts, NEW t \in Terms
  PROVE  FitsField(BindingNewtype[t], WireTerm(t, f, x))
<1>1. CASE t = "Bloom"
  <2> DEFINE bits == [n \in 1 .. Cardinality(Grams[x]) |-> Num(Bit(SetToSeq(Grams[x])[n]))]
  <2>1. \A n \in 1 .. Cardinality(Grams[x]) : SetToSeq(Grams[x])[n] \in DOMAIN Position
    BY GramPlaced
  <2>2. DOMAIN bits = 1 .. Cardinality(Grams[x])
        /\ \A n \in DOMAIN bits : IsNum(bits[n]) /\ IsI16(bits[n][2])
    BY <2>1, BitTyped DEF Num, IsNum
  <2>3. WireTerm(t, f, x) = Arr(bits) /\ BindingNewtype[t] = "BloomFilter"
    BY <1>1 DEF WireTerm, BindingNewtype
  <2> HIDE DEF bits
  <2>4. IsArr(Arr(bits)) /\ Arr(bits)[2] = bits
    BY DEF Arr, IsArr
  <2> QED  BY <2>2, <2>3, <2>4 DEF FitsField, FitsNewtype
<1>2. CASE t = "Ore"
  <2> DEFINE block == <<Str(Encrypt(t, f, x))>>
  <2>1. WireTerm(t, f, x) \in {Arr(<<>>), Arr(block)} /\ BindingNewtype[t] = "OreBlock256"
    BY <1>2 DEF WireTerm, ClientTerm, BindingNewtype
  <2>2. \A n \in DOMAIN block : IsStr(block[n])
    BY DEF Str, IsStr
  <2>3. \A n \in DOMAIN <<>> : IsStr(<<>>[n])
    OBVIOUS
  <2> HIDE DEF block
  <2>4. \A e : IsArr(Arr(e)) /\ Arr(e)[2] = e
    BY DEF Arr, IsArr
  <2> QED  BY <2>1, <2>2, <2>3, <2>4 DEF FitsField, FitsNewtype
<1>3. CASE t \in {"Hm", "Ope"}
  <2>1. WireTerm(t, f, x) = Str(Encrypt(t, f, x)) /\ BindingNewtype[t] \in Strings
    BY <1>3 DEF WireTerm, ClientTerm, BindingNewtype, Strings
  <2>2. IsStr(Str(Encrypt(t, f, x)))
    BY DEF Str, IsStr
  <2> QED  BY <2>1, <2>2 DEF FitsField, FitsNewtype
<1> QED  BY <1>1, <1>2, <1>3 DEF Terms

\* The fields of a client's payload, and what is left of a payload.
LEMMA ClientFields ==
  ASSUME NEW f, NEW d, ToSet(d.terms) \subseteq Terms, NEW x, NEW signed
  PROVE  LET j == ClientPayload(f, d, x, signed)
         IN /\ IsObj(j) /\ Keys(j) = {"v", "k", "i", "c"} \union TermJsonKeys(d.terms)
            /\ Get(j, "v") = Num(V2WireVersion) /\ Get(j, "k") = Str("ct")
            /\ Get(j, "i") = Identifier /\ Get(j, "c") = Str(x)
            /\ \A t \in ToSet(d.terms) : Get(j, JsonKey[t]) = ClientTerm(t, f, x, signed)
<1> DEFINE envelope == [v |-> Num(V2WireVersion), k |-> Str("ct"), i |-> Identifier, c |-> Str(x)]
           keys == DOMAIN envelope \union TermJsonKeys(d.terms)
           fields == [key \in keys |-> IF key \in DOMAIN envelope THEN envelope[key]
                                       ELSE ClientTerm(TermAt(d.terms, key), f, x, signed)]
           j == ClientPayload(f, d, x, signed)
<1>1. j = Obj(fields) /\ DOMAIN fields = keys
  BY DEF ClientPayload
<1>2. DOMAIN envelope = {"v", "k", "i", "c"}
  OBVIOUS
<1>3. \A t \in ToSet(d.terms) :
        /\ JsonKey[t] \in TermJsonKeys(d.terms) /\ JsonKey[t] \notin {"v", "k", "i", "c"}
        /\ TermAt(d.terms, JsonKey[t]) = t
  BY KeysOfTerms DEF TermKeys
<1>4. \A key \in keys : fields[key] = IF key \in DOMAIN envelope THEN envelope[key]
                                      ELSE ClientTerm(TermAt(d.terms, key), f, x, signed)
  OBVIOUS
<1>5. /\ envelope["v"] = Num(V2WireVersion) /\ envelope["k"] = Str("ct")
      /\ envelope["i"] = Identifier /\ envelope["c"] = Str(x)
  OBVIOUS
<1>6. keys = {"v", "k", "i", "c"} \union TermJsonKeys(d.terms)
  BY <1>2
<1> HIDE DEF fields, keys, envelope
<1>7. IsObj(j) /\ Keys(j) = keys /\ \A key \in keys : Get(j, key) = fields[key]
  BY <1>1 DEF IsObj, Obj, Keys, Get
<1>8. \A t \in ToSet(d.terms) : Get(j, JsonKey[t]) = ClientTerm(t, f, x, signed)
  BY <1>2, <1>3, <1>4, <1>6, <1>7
<1>9. /\ Get(j, "v") = Num(V2WireVersion) /\ Get(j, "k") = Str("ct")
      /\ Get(j, "i") = Identifier /\ Get(j, "c") = Str(x)
  BY <1>2, <1>4, <1>5, <1>6, <1>7
<1> QED  BY <1>6, <1>7, <1>8, <1>9

LEMMA WithoutFields ==
  ASSUME NEW j, NEW dropped
  PROVE  /\ IsObj(Without(j, dropped)) /\ Keys(Without(j, dropped)) = Keys(j) \ dropped
         /\ \A key \in Keys(j) \ dropped : Get(Without(j, dropped), key) = Get(j, key)
<1> DEFINE rest == [key \in Keys(j) \ dropped |-> Get(j, key)]
           part == Without(j, dropped)
<1>1. part = Obj(rest) /\ DOMAIN rest = Keys(j) \ dropped
      /\ \A key \in DOMAIN rest : rest[key] = Get(j, key)
  BY DEF Without
<1> HIDE DEF rest, part
<1>2. IsObj(part) /\ Keys(part) = DOMAIN rest /\ \A key \in DOMAIN rest : Get(part, key) = rest[key]
  BY <1>1 DEF IsObj, Obj, Keys, Get
<1>3. IsObj(part) /\ Keys(part) = Keys(j) \ dropped /\ \A key \in Keys(j) \ dropped : Get(part, key) = Get(j, key)
  BY <1>1, <1>2
<1> QED  BY <1>3 DEF part

\* The terms of plaintext x of family f, as a converted payload holds them.
HoldsTerms(j, keys, f, x) == \A t \in Terms : JsonKey[t] \in keys => Get(j, JsonKey[t]) = WireTerm(t, f, x)

\* A client's terms are hoisted, if the target's are among them.
LEMMA TermsHoisted ==
  ASSUME NEW f, NEW x \in Plaintexts, NEW signed,
         NEW copied, copied \subseteq {"i", "c"}, NEW t, t.term_keys \subseteq TermKeys,
         NEW v2, \A u \in Terms : JsonKey[u] \in Keys(v2) => Get(v2, JsonKey[u]) = ClientTerm(u, f, x, signed)
  PROVE  /\ Hoist(v2, copied, t).ok <=> t.term_keys \subseteq Keys(v2)
         /\ Hoist(v2, copied, t).ok => HoldsTerms(Hoist(v2, copied, t).value, t.term_keys, f, x)
<1> DEFINE result == Hoist(v2, copied, t)
<1>1. "Bloom" \in Terms /\ JsonKey["Bloom"] = "bf"
  BY DEF Terms, JsonKey
<1>2. "bf" \in Keys(v2) => /\ ConvertBloom(Get(v2, "bf")).ok
                           /\ ConvertBloom(Get(v2, "bf")).value = WireTerm("Bloom", f, x)
  <2>1. "bf" \in Keys(v2) => Get(v2, "bf") = ClientBloom(x, signed)
    BY <1>1 DEF ClientTerm
  <2> QED  BY <2>1, ConvertedBloom DEF Ok
<1>3. result.ok <=> t.term_keys \subseteq Keys(v2)
  BY <1>2, Hoisted
<1>4. result.ok => /\ Keys(result.value) = {"v"} \union (copied \intersect Keys(v2)) \union t.term_keys
                   /\ \A key \in Keys(result.value) \ {"v", "bf"} :
                        Get(result.value, key) = Get(v2, key)
                   /\ "bf" \in t.term_keys =>
                        Get(result.value, "bf") = ConvertBloom(Get(v2, "bf")).value
  BY Hoisted
<1> HIDE DEF result
<1>5. ASSUME result.ok, NEW u \in Terms, JsonKey[u] \in t.term_keys
      PROVE  Get(result.value, JsonKey[u]) = WireTerm(u, f, x)
  <2>1. JsonKey[u] \in Keys(v2)
    BY <1>3, <1>5
  <2>2. CASE u = "Bloom"
    <3>1. "bf" \in t.term_keys /\ "bf" \in Keys(v2) /\ JsonKey[u] = "bf"
      BY <1>1, <1>5, <2>1, <2>2
    <3>2. Get(result.value, "bf") = ConvertBloom(Get(v2, "bf")).value
      BY <1>4, <1>5, <3>1
    <3> QED  BY <1>2, <2>2, <3>1, <3>2
  <2>3. CASE u # "Bloom"
    <3>1. JsonKey[u] \notin {"v", "bf"}
      BY <2>3 DEF Terms, JsonKey
    <3>2. JsonKey[u] \in Keys(result.value)
      BY <1>4, <1>5
    <3>3. Get(result.value, JsonKey[u]) = Get(v2, JsonKey[u])
      BY <1>4, <1>5, <3>1, <3>2
    <3>4. ClientTerm(u, f, x, signed) = WireTerm(u, f, x)
      BY <2>3 DEF ClientTerm, WireTerm
    <3> QED  BY <2>1, <3>3, <3>4
  <2> QED  BY <2>2, <2>3
<1>6. result.ok => HoldsTerms(result.value, t.term_keys, f, x)
  BY <1>5 DEF HoldsTerms
<1> QED  BY <1>3, <1>6 DEF result

\* With the terms of its domain and its envelope, a payload fits the domain's struct.
LEMMA TermsFit ==
  ASSUME NEW f, NEW x \in Plaintexts, NEW p \in Scalars, NEW envelope \in {Envelope, QueryEnvelope},
         NEW struct, struct.fields = Fields(envelope, p[2].terms), struct.optional = {},
         NEW j, IsObj(j), Keys(j) = DOMAIN envelope \union TermJsonKeys(p[2].terms),
         Get(j, "v") = Num(EqlSchemaVersion), Get(j, "i") = Identifier,
         "c" \in DOMAIN envelope => IsStr(Get(j, "c")),
         HoldsTerms(j, TermJsonKeys(p[2].terms), f, x)
  PROVE  Deserializes(struct, j)
<1>1. ToSet(p[2].terms) \subseteq Terms
  BY ScalarsTyped
<1>2. DOMAIN struct.fields = Keys(j)
  BY DEF Fields
<1>3. ASSUME NEW key \in DOMAIN envelope PROVE FitsField(struct.fields[key], Get(j, key))
  <2>1. struct.fields[key] = envelope[key]
    BY DEF Fields
  <2>2. /\ key \in {"v", "i", "c"}
        /\ envelope[key] = IF key = "v" THEN "SchemaVersion" ELSE IF key = "i" THEN "Identifier" ELSE "Ciphertext"
    BY DEF Envelope, QueryEnvelope
  <2>3. FitsField("SchemaVersion", Num(EqlSchemaVersion))
    BY DEF FitsField, FitsNewtype
  <2>4. FitsField("Identifier", Identifier)
    <3>1. /\ Keys(Identifier) = {"t", "c"}
          /\ Get(Identifier, "t") = Str("users") /\ Get(Identifier, "c") = Str("email")
      BY DEF Identifier, Keys, Get, Obj, IsObj
    <3>2. IsStr(Str("users")) /\ IsStr(Str("email"))
      BY DEF Str, IsStr
    <3> QED  BY <3>1, <3>2 DEF FitsField, FitsNewtype, FitsIdentifier
  <2>5. IsStr(Get(j, "c")) => FitsField("Ciphertext", Get(j, "c"))
    BY DEF FitsField, FitsNewtype, Strings
  <2> QED  BY <2>1, <2>2, <2>3, <2>4, <2>5
<1>4. ASSUME NEW key \in TermJsonKeys(p[2].terms) \ DOMAIN envelope
      PROVE  FitsField(struct.fields[key], Get(j, key))
  <2>1. PICK t \in ToSet(p[2].terms) : key = JsonKey[t]
    BY DEF TermJsonKeys
  <2>2. t \in Terms /\ TermAt(p[2].terms, key) = t
    BY <1>1, <2>1, KeysOfTerms
  <2>3. struct.fields[key] = BindingNewtype[t]
    BY <1>4, <2>2 DEF Fields
  <2>4. Get(j, key) = WireTerm(t, f, x)
    BY <1>4, <2>1, <2>2 DEF HoldsTerms
  <2> QED  BY <2>2, <2>3, <2>4, WireTermFits
<1> QED  BY <1>2, <1>3, <1>4 DEF Deserializes, HasFields

(***************************************************************************)
(* What the two conversions do for a target.                               *)
(***************************************************************************)
Shaped(r) ==
  /\ r = [ok |-> r.ok, value |-> r.value, error |-> r.error] /\ r.ok \in BOOLEAN
  /\ ~r.ok => r.value = Absent
  /\ r.ok => IsObj(r.value)

LEMMA RefusedShaped == \A e : Shaped(Refused(e)) /\ ~Refused(e).ok /\ Refused(e).error = e
BY DEF Shaped, Refused

LEMMA HoistShaped ==
  ASSUME NEW v2, NEW copied, NEW t, copied \subseteq {"i", "c"}, t.term_keys \subseteq TermKeys
  PROVE  Shaped(Hoist(v2, copied, t)) /\ Hoist(v2, copied, t).error # "panic"
<1> DEFINE bf == ConvertBloom(Get(v2, "bf"))
           result == Hoist(v2, copied, t)
<1>1. bf = [ok |-> bf.ok, value |-> bf.value, error |-> bf.error] /\ bf.ok \in BOOLEAN
  BY DEF ConvertBloom, Refused, Ok
<1>2. \/ \E j : result = Ok(j)
      \/ result = Refused("MissingTerm")
      \/ result = bf
  <2> HIDE DEF bf
  <2> QED  BY DEF Hoist, bf
<1> HIDE DEF bf
<1>3. \A j : Ok(j) = [ok |-> Ok(j).ok, value |-> Ok(j).value, error |-> Ok(j).error] /\ Ok(j).ok \in BOOLEAN
  BY DEF Ok
<1>4. result = [ok |-> result.ok, value |-> result.value, error |-> result.error] /\ result.ok \in BOOLEAN
  <2>1. CASE \E j : result = Ok(j)
    BY <2>1, <1>3
  <2>2. CASE result = Refused("MissingTerm")
    <3>1. \A e : Refused(e) = [ok |-> Refused(e).ok, value |-> Refused(e).value, error |-> Refused(e).error]
                 /\ Refused(e).ok \in BOOLEAN
      BY DEF Refused
    <3> QED  BY <2>2, <3>1
  <2>3. CASE result = bf
    BY <2>3, <1>1
  <2> QED  BY <1>2, <2>1, <2>2, <2>3
<1>5. /\ ~result.ok => result.value = Absent
      /\ result.ok => IsObj(result.value)
      /\ result.error # "panic"
  BY Hoisted
<1> QED  BY <1>4, <1>5 DEF Shaped

\* The keys of a target are those of terms.
LEMMA TargetKeys ==
  ASSUME NEW t, TargetTyped(t)
  PROVE  t.term_keys \subseteq TermKeys
<1>1. CASE \E p \in Scalars : t = ScalarTarget(p)
  BY <1>1, TargetFinds, ScalarsTyped, KeysOfTerms
<1> QED  BY <1>1 DEF TargetTyped

\* A stored payload: hoisted for a target of a scalar domain and refused for any other.
LEMMA ConvertCases ==
  ASSUME NEW v2, NEW t, TargetTyped(t)
  PROVE  /\ Shaped(Convert(v2, t)) /\ Convert(v2, t).error # "panic"
         /\ t.kind # "Scalar" => ~Convert(v2, t).ok
         /\ t.kind = "Scalar" /\ Get(v2, "v") = Num(V2WireVersion) /\ Get(v2, "k") = Str("ct") =>
              Convert(v2, t) = Hoist(v2, {"i", "c"}, t)
         /\ Convert(v2, t).ok => /\ Get(v2, "k") = Str("ct")
                                 /\ Convert(v2, t) = Hoist(v2, {"i", "c"}, t)
<1> DEFINE result == Convert(v2, t)
           hoist == Hoist(v2, {"i", "c"}, t)
           cases == {"UnknownDomain", "UnsupportedVersion", "UnconvertibleSteVecDocument", "KindMismatch",
                     "UnknownKind"}
<1>1. /\ \/ /\ t.kind = "Scalar" /\ Get(v2, "k") = Str("ct")
            /\ result = hoist
         \/ \E e \in cases : result = Refused(e)
      /\ t.kind = "Scalar" /\ Get(v2, "v") = Num(V2WireVersion) /\ Get(v2, "k") = Str("ct") => result = hoist
  BY DEF Convert, ConvertScalar, KindRefused
<1>2. Shaped(hoist) /\ hoist.error # "panic"
  BY TargetKeys, HoistShaped
<1>3. "panic" \notin cases
  OBVIOUS
<1> HIDE DEF result, hoist, cases
<1>4. \A e \in cases : Shaped(Refused(e)) /\ ~Refused(e).ok /\ Refused(e).error # "panic"
  BY <1>3, RefusedShaped
<1>5. Shaped(result) /\ result.error # "panic"
  BY <1>1, <1>2, <1>4
<1>6. (t.kind # "Scalar" => ~result.ok) /\ (result.ok => Get(v2, "k") = Str("ct") /\ result = hoist)
  BY <1>1, <1>4
<1> QED  BY <1>1, <1>5, <1>6 DEF result, hoist

\* A query payload likewise.
LEMMA QueryCases ==
  ASSUME NEW v2, NEW t, TargetTyped(t)
  PROVE  /\ Shaped(ConvertQuery(v2, t)) /\ ConvertQuery(v2, t).error # "panic"
         /\ /\ t.kind = "Scalar" /\ t.term_keys # {} /\ IsObj(v2)
            /\ Get(v2, "v") \in {Absent, Num(V2WireVersion)} /\ Get(v2, "k") \in {Absent, Str("ct")}
            => ConvertQuery(v2, t) = Hoist(v2, {"i"}, t)
         /\ ConvertQuery(v2, t).ok => /\ t.kind = "Scalar" /\ t.term_keys # {}
                                      /\ ConvertQuery(v2, t) = Hoist(v2, {"i"}, t)
<1> DEFINE result == ConvertQuery(v2, t)
           hoist == Hoist(v2, {"i"}, t)
           cases == {"UnknownDomain", "UnconvertibleSteVecQuery", "UnsupportedQueryTarget", "Invalid",
                     "UnsupportedVersion", "KindMismatch", "UnknownKind"}
<1>1. t.kind # "Scalar" => t.term_keys = {}
  BY TargetFinds DEF TargetTyped
<1>2. /\ \/ t.term_keys # {} /\ result = hoist
         \/ \E e \in cases : result = Refused(e)
      /\ /\ t.kind = "Scalar" /\ t.term_keys # {} /\ IsObj(v2)
         /\ Get(v2, "v") \in {Absent, Num(V2WireVersion)} /\ Get(v2, "k") \in {Absent, Str("ct")}
         => result = hoist
  BY DEF ConvertQuery, ConvertScalarQuery, KindRefused
<1>3. Shaped(hoist) /\ hoist.error # "panic"
  BY TargetKeys, HoistShaped
<1>4. "panic" \notin cases
  OBVIOUS
<1> HIDE DEF result, hoist, cases
<1>5. \A e \in cases : Shaped(Refused(e)) /\ ~Refused(e).ok /\ Refused(e).error # "panic"
  BY <1>4, RefusedShaped
<1>6. Shaped(result) /\ result.error # "panic"
  BY <1>2, <1>3, <1>5
<1>7. result.ok => t.kind = "Scalar" /\ t.term_keys # {} /\ result = hoist
  BY <1>1, <1>2, <1>5
<1> QED  BY <1>2, <1>6, <1>7 DEF result, hoist

\* A result that its one struct parses is let through, and any other refused.
LEMMA ParsedCases ==
  ASSUME NEW structs, NEW result, Shaped(result), result.error # "panic",
         result.ok => structs # {}
  PROVE  LET parsed == ParsedThrough(structs, result)
         IN /\ Shaped(parsed) /\ parsed.error # "panic"
            /\ parsed.ok => parsed = result /\ \A s \in structs : Deserializes(s, result.value)
            /\ result.ok /\ (\A s \in structs : Deserializes(s, result.value)) => parsed.ok
<1>1. \A e : Shaped(Refused(e)) /\ ~Refused(e).ok /\ Refused(e).error = e
  BY RefusedShaped
<1>2. CASE ~result.ok
  <2>1. ParsedThrough(structs, result) = result
    BY <1>2 DEF ParsedThrough
  <2> QED  BY <1>2, <2>1
<1>3. CASE result.ok /\ \A s \in structs : Deserializes(s, result.value)
  <2>1. ParsedThrough(structs, result) = result
    BY <1>3 DEF ParsedThrough
  <2> QED  BY <1>3, <2>1
<1>4. CASE result.ok /\ ~ \A s \in structs : Deserializes(s, result.value)
  <2>1. ParsedThrough(structs, result) = Refused("Invalid")
    BY <1>4 DEF ParsedThrough
  <2> QED  BY <1>1, <1>4, <2>1
<1> QED  BY <1>2, <1>3, <1>4

\* from_v2_typed and from_v2 are one function, and parse through the target's struct.
LEMMA WireCases ==
  ASSUME NEW v2, NEW t, TargetTyped(t)
  PROVE  LET result == FromV2Wire(v2, t)
         IN /\ FromV2Typed(v2, t) = result
            /\ Shaped(result) /\ result.error # "panic"
            /\ result.ok => /\ Get(v2, "k") = Str("ct")
                            /\ result = Hoist(v2, {"i", "c"}, t)
                            /\ \E p \in Scalars : t = ScalarTarget(p)
            /\ \A p \in Scalars : t = ScalarTarget(p) =>
                 /\ result.ok => Deserializes(RenderStruct(p[1], p[2]), result.value)
                 /\ Convert(v2, t).ok /\ Deserializes(RenderStruct(p[1], p[2]), Convert(v2, t).value) =>
                      result.ok
<1> DEFINE converted == Convert(v2, t)
           found == {s \in Inventory : UnqualifiedDomain(s) = t.domain}
           typed == InTable(DomainPayload, t.domain)
<1>1. /\ Shaped(converted) /\ converted.error # "panic"
      /\ t.kind # "Scalar" => ~converted.ok
      /\ converted.ok => Get(v2, "k") = Str("ct") /\ converted = Hoist(v2, {"i", "c"}, t)
  BY ConvertCases
<1>2. FromV2Wire(v2, t) = ParsedThrough(found, converted) /\ FromV2Typed(v2, t) = ParsedThrough(typed, converted)
  BY DEF FromV2Wire, FromV2Typed
<1>3. \A p \in Scalars : t = ScalarTarget(p) => found = {RenderStruct(p[1], p[2])} /\ typed = found
  BY TargetFinds
<1>4. converted.ok => \E p \in Scalars : t = ScalarTarget(p)
  BY <1>1 DEF TargetTyped
<1> HIDE DEF converted, found, typed
<1>5. converted.ok => found # {} /\ typed = found
  BY <1>3, <1>4
<1>6. ParsedThrough(typed, converted) = ParsedThrough(found, converted)
  BY <1>5 DEF ParsedThrough
<1> DEFINE parsed == ParsedThrough(found, converted)
<1>7. /\ Shaped(parsed) /\ parsed.error # "panic"
      /\ parsed.ok => parsed = converted /\ \A s \in found : Deserializes(s, converted.value)
      /\ converted.ok /\ (\A s \in found : Deserializes(s, converted.value)) => parsed.ok
  BY <1>1, <1>5, ParsedCases
<1> HIDE DEF parsed
<1>8. parsed.ok => /\ Get(v2, "k") = Str("ct") /\ parsed = Hoist(v2, {"i", "c"}, t)
                   /\ \E p \in Scalars : t = ScalarTarget(p)
  BY <1>1, <1>4, <1>7
<1>9. ASSUME NEW p \in Scalars, t = ScalarTarget(p)
      PROVE  /\ parsed.ok => Deserializes(RenderStruct(p[1], p[2]), parsed.value)
             /\ converted.ok /\ Deserializes(RenderStruct(p[1], p[2]), converted.value) => parsed.ok
  BY <1>3, <1>7, <1>9
<1>10. parsed = FromV2Wire(v2, t) /\ parsed = FromV2Typed(v2, t)
  BY <1>2, <1>6 DEF parsed
<1> QED  BY <1>7, <1>8, <1>9, <1>10 DEF converted

LEMMA NeedleCases ==
  ASSUME NEW v2, NEW t, TargetTyped(t)
  PROVE  LET result == FromV2Query(v2, t)
         IN /\ Shaped(result) /\ result.error # "panic"
            /\ result.ok => /\ t.term_keys # {}
                            /\ result = Hoist(v2, {"i"}, t)
                            /\ \E p \in Scalars : t = ScalarTarget(p)
            /\ \A p \in Scalars : t = ScalarTarget(p) =>
                 /\ result.ok => Deserializes(RenderQueryStruct(p[1], p[2]), result.value)
                 /\ ConvertQuery(v2, t).ok /\ Deserializes(RenderQueryStruct(p[1], p[2]), ConvertQuery(v2, t).value) =>
                      result.ok
<1> DEFINE converted == ConvertQuery(v2, t)
           found == InTable(QueryPayload, QueryDomainNameOf(t))
<1>1. /\ Shaped(converted) /\ converted.error # "panic"
      /\ converted.ok => t.kind = "Scalar" /\ t.term_keys # {} /\ converted = Hoist(v2, {"i"}, t)
  BY QueryCases
<1>2. FromV2Query(v2, t) = ParsedThrough(found, converted)
  BY DEF FromV2Query
<1>3. \A p \in Scalars : t = ScalarTarget(p) /\ t.term_keys # {} => found = {RenderQueryStruct(p[1], p[2])}
  BY TargetFinds
<1>4. converted.ok => \E p \in Scalars : t = ScalarTarget(p)
  BY <1>1 DEF TargetTyped
<1> HIDE DEF converted, found
<1>5. converted.ok => found # {}
  BY <1>1, <1>3, <1>4
<1> DEFINE parsed == ParsedThrough(found, converted)
<1>6. /\ Shaped(parsed) /\ parsed.error # "panic"
      /\ parsed.ok => parsed = converted /\ \A s \in found : Deserializes(s, converted.value)
      /\ converted.ok /\ (\A s \in found : Deserializes(s, converted.value)) => parsed.ok
  BY <1>1, <1>5, ParsedCases
<1> HIDE DEF parsed
<1>7. parsed.ok => /\ t.term_keys # {} /\ parsed = Hoist(v2, {"i"}, t)
                   /\ \E p \in Scalars : t = ScalarTarget(p)
  BY <1>1, <1>4, <1>6
<1>8. ASSUME NEW p \in Scalars, t = ScalarTarget(p)
      PROVE  /\ parsed.ok => Deserializes(RenderQueryStruct(p[1], p[2]), parsed.value)
             /\ converted.ok /\ Deserializes(RenderQueryStruct(p[1], p[2]), converted.value) => parsed.ok
  BY <1>1, <1>3, <1>6, <1>8
<1>9. parsed = FromV2Query(v2, t)
  BY <1>2 DEF parsed
<1> QED  BY <1>6, <1>7, <1>8, <1>9 DEF converted

\* Keys of a payload that are not a term's.
NoTerm(keys) == keys \subseteq {"v", "k", "i", "c"}

\* Payload j has the terms of plaintext x that the domain of p stores, as the client writes them.
Carries(j, p, x, signed) ==
  /\ Keys(j) \intersect TermKeys = TermJsonKeys(p[2].terms)
  /\ \A u \in Terms : JsonKey[u] \in Keys(j) => Get(j, JsonKey[u]) = ClientTerm(u, p[1], x, signed)

\* A client's payload does, whatever was left out of its envelope.
LEMMA ClientTerms ==
  ASSUME NEW p \in Scalars, NEW x, NEW signed, NEW dropped, NoTerm(dropped)
  PROVE  /\ Carries(ClientPayload(p[1], p[2], x, signed), p, x, signed)
         /\ Carries(Without(ClientPayload(p[1], p[2], x, signed), dropped), p, x, signed)
<1> DEFINE whole == ClientPayload(p[1], p[2], x, signed)
           part == Without(whole, dropped)
           held == TermJsonKeys(p[2].terms)
<1>1. ToSet(p[2].terms) \subseteq Terms
  BY ScalarsTyped
<1>2. /\ Keys(whole) = {"v", "k", "i", "c"} \union held
      /\ \A u \in ToSet(p[2].terms) : Get(whole, JsonKey[u]) = ClientTerm(u, p[1], x, signed)
      /\ Keys(part) = Keys(whole) \ dropped
      /\ \A key \in Keys(part) : Get(part, key) = Get(whole, key)
  <2>1. /\ Keys(whole) = {"v", "k", "i", "c"} \union held
        /\ \A u \in ToSet(p[2].terms) : Get(whole, JsonKey[u]) = ClientTerm(u, p[1], x, signed)
    BY <1>1, ClientFields
  <2> HIDE DEF whole
  <2> QED  BY <2>1, WithoutFields
<1>3. held \subseteq TermKeys /\ TermKeys \intersect {"v", "k", "i", "c"} = {}
  BY <1>1, KeysOfTerms DEF TermKeys
<1>4. ASSUME NEW u \in Terms, JsonKey[u] \in held PROVE u \in ToSet(p[2].terms)
  <2>1. PICK s \in ToSet(p[2].terms) : JsonKey[s] = JsonKey[u]
    BY <1>4 DEF TermJsonKeys
  <2> QED  BY <1>1, <2>1, KeysOfTerms
<1>5. \A u \in Terms : JsonKey[u] \in TermKeys
  BY KeysOfTerms
<1> HIDE DEF whole, part, held
<1>6. Keys(whole) \intersect TermKeys = held /\ Keys(part) \intersect TermKeys = held
  BY <1>2, <1>3 DEF NoTerm
<1>7. ASSUME NEW u \in Terms, JsonKey[u] \in Keys(whole)
      PROVE  Get(whole, JsonKey[u]) = ClientTerm(u, p[1], x, signed)
  <2>1. JsonKey[u] \in held
    BY <1>5, <1>6, <1>7
  <2> QED  BY <1>2, <1>4, <2>1
<1>8. ASSUME NEW u \in Terms, JsonKey[u] \in Keys(part)
      PROVE  Get(part, JsonKey[u]) = ClientTerm(u, p[1], x, signed)
  BY <1>2, <1>7, <1>8
<1>9. \A u \in Terms : JsonKey[u] \in Keys(whole) => Get(whole, JsonKey[u]) = ClientTerm(u, p[1], x, signed)
  BY <1>7
<1>10. \A u \in Terms : JsonKey[u] \in Keys(part) => Get(part, JsonKey[u]) = ClientTerm(u, p[1], x, signed)
  BY <1>8
<1> QED  BY <1>6, <1>9, <1>10 DEF whole, part, held, Carries

\* A client's payload is converted for every target whose terms it has, and holds them then.
LEMMA ClientConverted ==
  ASSUME NEW p \in Scalars, NEW x \in Plaintexts, NEW signed, NEW t, TargetTyped(t)
  PROVE  LET v2 == ClientPayload(p[1], p[2], x, signed)
             result == FromV2Wire(v2, t)
         IN /\ t.kind = "Scalar" /\ t.term_keys \subseteq TermJsonKeys(p[2].terms) => result.ok
            /\ result.ok => /\ t.term_keys \subseteq TermJsonKeys(p[2].terms)
                            /\ HoldsTerms(result.value, t.term_keys, p[1], x)
<1> DEFINE v2 == ClientPayload(p[1], p[2], x, signed)
           hoist == Hoist(v2, {"i", "c"}, t)
           held == TermJsonKeys(p[2].terms)
<1>1. t.term_keys \subseteq TermKeys /\ ToSet(p[2].terms) \subseteq Terms
  BY TargetKeys, ScalarsTyped
<1>2. /\ IsObj(v2) /\ Keys(v2) = {"v", "k", "i", "c"} \union held
      /\ Get(v2, "v") = Num(V2WireVersion) /\ Get(v2, "k") = Str("ct")
      /\ Get(v2, "i") = Identifier /\ Get(v2, "c") = Str(x)
  BY <1>1, ClientFields
<1>3. /\ Keys(v2) \intersect TermKeys = held
      /\ \A u \in Terms : JsonKey[u] \in Keys(v2) => Get(v2, JsonKey[u]) = ClientTerm(u, p[1], x, signed)
  <2>1. NoTerm({})
    BY DEF NoTerm
  <2>2. Carries(v2, p, x, signed)
    BY <2>1, ClientTerms
  <2> HIDE DEF v2, held
  <2> QED  BY <2>2 DEF Carries, v2, held
<1>4. t.term_keys \subseteq Keys(v2) <=> t.term_keys \subseteq held
  BY <1>1, <1>3
<1> HIDE DEF v2, held
<1>5. /\ hoist.ok <=> t.term_keys \subseteq held
      /\ hoist.ok => HoldsTerms(hoist.value, t.term_keys, p[1], x)
  <2>1. /\ hoist.ok <=> t.term_keys \subseteq Keys(v2)
        /\ hoist.ok => HoldsTerms(hoist.value, t.term_keys, p[1], x)
    BY <1>1, <1>3, TermsHoisted
  <2> QED  BY <1>4, <2>1
<1>6. hoist.ok => /\ IsObj(hoist.value) /\ Keys(hoist.value) = {"v", "i", "c"} \union t.term_keys
                  /\ Get(hoist.value, "v") = Num(EqlSchemaVersion)
                  /\ Get(hoist.value, "i") = Identifier /\ Get(hoist.value, "c") = Str(x)
  <2>1. hoist.ok => /\ IsObj(hoist.value)
                    /\ Keys(hoist.value) = {"v"} \union ({"i", "c"} \intersect Keys(v2)) \union t.term_keys
                    /\ Get(hoist.value, "v") = Num(EqlSchemaVersion)
                    /\ \A key \in Keys(hoist.value) \ {"v", "bf"} : Get(hoist.value, key) = Get(v2, key)
    BY <1>1, Hoisted
  <2> HIDE DEF hoist
  <2> QED  BY <1>2, <2>1
<1> HIDE DEF hoist
<1>7. FromV2Wire(v2, t).ok => FromV2Wire(v2, t) = hoist
  BY WireCases DEF hoist
<1>8. ASSUME t.kind = "Scalar", t.term_keys \subseteq held PROVE FromV2Wire(v2, t).ok
  <2>1. PICK q \in Scalars : t = ScalarTarget(q)
    BY <1>8 DEF TargetTyped
  <2>2. t.term_keys = TermJsonKeys(q[2].terms)
    BY <2>1, TargetFinds
  <2>3. Convert(v2, t) = hoist
    BY <1>2, <1>8, ConvertCases DEF hoist
  <2>4. Deserializes(RenderStruct(q[1], q[2]), hoist.value)
    <3> DEFINE struct == RenderStruct(q[1], q[2])
    <3>1. struct.fields = Fields(Envelope, q[2].terms) /\ struct.optional = {}
      BY DEF RenderStruct, Struct
    <3>2. DOMAIN Envelope = {"v", "i", "c"} /\ IsStr(Str(x))
      BY DEF Envelope, IsStr, Str
    <3>3. hoist.ok /\ Keys(hoist.value) = DOMAIN Envelope \union TermJsonKeys(q[2].terms)
      BY <1>5, <1>6, <1>8, <2>2, <3>2
    <3>4. HoldsTerms(hoist.value, TermJsonKeys(q[2].terms), p[1], x)
      BY <1>5, <2>2, <3>3
    <3>5. "c" \in DOMAIN Envelope => IsStr(Get(hoist.value, "c"))
      BY <1>6, <3>2, <3>3
    <3> HIDE DEF struct
    <3>6. Deserializes(struct, hoist.value)
      BY <1>6, <3>1, <3>3, <3>4, <3>5, TermsFit
    <3> QED  BY <3>6 DEF struct
  <2>5. hoist.ok
    BY <1>5, <1>8
  <2>6. Convert(v2, t).ok /\ Deserializes(RenderStruct(q[1], q[2]), Convert(v2, t).value)
    BY <2>3, <2>4, <2>5
  <2> QED  BY <2>1, <2>6, WireCases
<1>9. ASSUME FromV2Wire(v2, t).ok
      PROVE  t.term_keys \subseteq held /\ HoldsTerms(FromV2Wire(v2, t).value, t.term_keys, p[1], x)
  <2>1. FromV2Wire(v2, t) = hoist /\ hoist.ok
    BY <1>7, <1>9
  <2> QED  BY <1>5, <2>1
<1> QED  BY <1>8, <1>9 DEF v2, held

\* And for a query, if the target has a term.
LEMMA ClientQueried ==
  ASSUME NEW p \in Scalars, NEW x \in Plaintexts, NEW signed, NEW t, TargetTyped(t),
         NEW dropped \in {{}, {"c"}, {"v", "k", "c"}}
  PROVE  LET v2 == Without(ClientPayload(p[1], p[2], x, signed), dropped)
             result == FromV2Query(v2, t)
         IN /\ t.kind = "Scalar" /\ t.term_keys # {} /\ t.term_keys \subseteq TermJsonKeys(p[2].terms) =>
                 result.ok
            /\ result.ok => HoldsTerms(result.value, t.term_keys, p[1], x)
<1> DEFINE whole == ClientPayload(p[1], p[2], x, signed)
           query == Without(ClientPayload(p[1], p[2], x, signed), dropped)
           hoist == Hoist(query, {"i"}, t)
           held == TermJsonKeys(p[2].terms)
<1>1. t.term_keys \subseteq TermKeys /\ ToSet(p[2].terms) \subseteq Terms
  BY TargetKeys, ScalarsTyped
<1>2. /\ Keys(whole) = {"v", "k", "i", "c"} \union held
      /\ Get(whole, "v") = Num(V2WireVersion) /\ Get(whole, "k") = Str("ct")
      /\ Get(whole, "i") = Identifier
      /\ IsObj(query) /\ Keys(query) = Keys(whole) \ dropped
      /\ \A key \in Keys(query) : Get(query, key) = Get(whole, key)
  <2>1. /\ Keys(whole) = {"v", "k", "i", "c"} \union held
        /\ Get(whole, "v") = Num(V2WireVersion) /\ Get(whole, "k") = Str("ct")
        /\ Get(whole, "i") = Identifier
    BY <1>1, ClientFields
  <2>2. query = Without(whole, dropped)
    OBVIOUS
  <2> HIDE DEF whole, query
  <2> QED  BY <2>1, <2>2, WithoutFields
<1>3. /\ Keys(query) \intersect TermKeys = held
      /\ \A u \in Terms : JsonKey[u] \in Keys(query) => Get(query, JsonKey[u]) = ClientTerm(u, p[1], x, signed)
  <2>1. NoTerm(dropped)
    BY DEF NoTerm
  <2>2. Carries(query, p, x, signed)
    BY <2>1, ClientTerms
  <2> HIDE DEF query
  <2> QED  BY <2>2 DEF Carries
<1>4. \A key : key \notin Keys(query) => Get(query, key) = Absent
  BY DEF Get
<1> HIDE DEF query, held
<1>5. t.term_keys \subseteq Keys(query) <=> t.term_keys \subseteq held
  BY <1>1, <1>3
<1>6. /\ Get(query, "v") \in {Absent, Num(V2WireVersion)} /\ Get(query, "k") \in {Absent, Str("ct")}
      /\ "i" \in Keys(query) /\ Get(query, "i") = Identifier
  BY <1>2, <1>4
<1>7. /\ hoist.ok <=> t.term_keys \subseteq held
      /\ hoist.ok => HoldsTerms(hoist.value, t.term_keys, p[1], x)
  <2>1. /\ hoist.ok <=> t.term_keys \subseteq Keys(query)
        /\ hoist.ok => HoldsTerms(hoist.value, t.term_keys, p[1], x)
    BY <1>1, <1>3, TermsHoisted
  <2> QED  BY <1>5, <2>1
<1>8. hoist.ok => /\ IsObj(hoist.value) /\ Keys(hoist.value) = {"v", "i"} \union t.term_keys
                  /\ Get(hoist.value, "v") = Num(EqlSchemaVersion)
                  /\ Get(hoist.value, "i") = Identifier
  <2>1. hoist.ok => /\ IsObj(hoist.value)
                    /\ Keys(hoist.value) = {"v"} \union ({"i"} \intersect Keys(query)) \union t.term_keys
                    /\ Get(hoist.value, "v") = Num(EqlSchemaVersion)
                    /\ \A key \in Keys(hoist.value) \ {"v", "bf"} : Get(hoist.value, key) = Get(query, key)
    BY <1>1, Hoisted
  <2> HIDE DEF hoist
  <2> QED  BY <1>6, <2>1
<1> HIDE DEF hoist
<1>9. FromV2Query(query, t).ok => FromV2Query(query, t) = hoist
  BY NeedleCases DEF hoist
<1>10. ASSUME t.kind = "Scalar", t.term_keys # {}, t.term_keys \subseteq held PROVE FromV2Query(query, t).ok
  <2>1. PICK q \in Scalars : t = ScalarTarget(q)
    BY <1>10 DEF TargetTyped
  <2>2. t.term_keys = TermJsonKeys(q[2].terms)
    BY <2>1, TargetFinds
  <2>3. ConvertQuery(query, t) = hoist
    BY <1>2, <1>6, <1>10, QueryCases DEF hoist
  <2>4. Deserializes(RenderQueryStruct(q[1], q[2]), hoist.value)
    <3> DEFINE struct == RenderQueryStruct(q[1], q[2])
    <3>1. struct.fields = Fields(QueryEnvelope, q[2].terms) /\ struct.optional = {}
      BY DEF RenderQueryStruct, Struct
    <3>2. DOMAIN QueryEnvelope = {"v", "i"}
      BY DEF QueryEnvelope
    <3>3. hoist.ok /\ Keys(hoist.value) = DOMAIN QueryEnvelope \union TermJsonKeys(q[2].terms)
      BY <1>7, <1>8, <1>10, <2>2, <3>2
    <3>4. HoldsTerms(hoist.value, TermJsonKeys(q[2].terms), p[1], x)
      BY <1>7, <2>2, <3>3
    <3>5. "c" \notin DOMAIN QueryEnvelope
      BY <3>2
    <3> HIDE DEF struct
    <3>6. Deserializes(struct, hoist.value)
      BY <1>8, <3>1, <3>3, <3>4, <3>5, TermsFit
    <3> QED  BY <3>6 DEF struct
  <2>5. hoist.ok
    BY <1>7, <1>10
  <2>6. ConvertQuery(query, t).ok /\ Deserializes(RenderQueryStruct(q[1], q[2]), ConvertQuery(query, t).value)
    BY <2>3, <2>4, <2>5
  <2> QED  BY <2>1, <2>6, NeedleCases
<1>11. ASSUME FromV2Query(query, t).ok PROVE HoldsTerms(FromV2Query(query, t).value, t.term_keys, p[1], x)
  <2>1. FromV2Query(query, t) = hoist /\ hoist.ok
    BY <1>9, <1>11
  <2> QED  BY <1>7, <2>1
<1>12. /\ t.kind = "Scalar" /\ t.term_keys # {} /\ t.term_keys \subseteq held => FromV2Query(query, t).ok
       /\ FromV2Query(query, t).ok => HoldsTerms(FromV2Query(query, t).value, t.term_keys, p[1], x)
  BY <1>10, <1>11
<1> QED  BY <1>12 DEF query, held

(***************************************************************************)
(* An ORE term without a block.                                            *)
(***************************************************************************)
\* An ORE term is a value with its kind.
BlockPaired(j) == "ob" \in Keys(j) => Get(j, "ob") = <<Get(j, "ob")[1], Get(j, "ob")[2]>>

LEMMA AbsentPaired == BlockPaired(Absent) /\ BlockPaired(ClientDocument)
<1>1. Keys(Absent) = {}
  BY DEF Keys, IsObj, Absent
<1>2. Keys(ClientDocument) = {"v", "k", "i", "sv"}
  BY DEF Keys, IsObj, ClientDocument, Obj
<1> QED  BY <1>1, <1>2 DEF BlockPaired

LEMMA ClientPaired ==
  ASSUME NEW p \in Scalars, NEW x, NEW signed, NEW dropped, NoTerm(dropped)
  PROVE  /\ BlockPaired(ClientPayload(p[1], p[2], x, signed))
         /\ BlockPaired(Without(ClientPayload(p[1], p[2], x, signed), dropped))
<1>1. "Ore" \in Terms /\ JsonKey["Ore"] = "ob"
  BY DEF Terms, JsonKey
<1>2. \A f : ClientTerm("Ore", f, x, signed) = <<ClientTerm("Ore", f, x, signed)[1], ClientTerm("Ore", f, x, signed)[2]>>
  <2>1. \A e : Arr(e) = <<Arr(e)[1], Arr(e)[2]>>
    BY DEF Arr
  <2> QED  BY <2>1 DEF ClientTerm
<1> DEFINE whole == ClientPayload(p[1], p[2], x, signed)
           part == Without(whole, dropped)
<1>3. \A q \in {whole, part} : \A u \in Terms :
        JsonKey[u] \in Keys(q) => Get(q, JsonKey[u]) = ClientTerm(u, p[1], x, signed)
  <2>1. Carries(whole, p, x, signed) /\ Carries(part, p, x, signed)
    BY ClientTerms
  <2> HIDE DEF whole, part
  <2> QED  BY <2>1 DEF Carries
<1> HIDE DEF whole, part
<1>4. BlockPaired(whole) /\ BlockPaired(part)
  BY <1>1, <1>2, <1>3 DEF BlockPaired
<1> QED  BY <1>4 DEF whole, part

\* Nor does any damage undo it.
LEMMA DamagedPaired ==
  ASSUME NEW j, BlockPaired(j), IsObj(j), NEW d \in Damaged(j)
  PROVE  BlockPaired(d)
<1>1. CASE \E key \in Keys(j) : d = Without(j, {key})
  <2>1. PICK key \in Keys(j) : d = Without(j, {key})
    BY <1>1
  <2>2. "ob" \in Keys(d) => "ob" \in Keys(j) /\ Get(d, "ob") = Get(j, "ob")
    BY <2>1, WithoutFields
  <2> QED  BY <2>2 DEF BlockPaired
<1>2. CASE \E key \in Keys(j) : \E x \in Misfits(key) : d = Obj([j[2] EXCEPT ![key] = x])
  <2>1. PICK key, x : key \in Keys(j) /\ x \in Misfits(key) /\ d = Obj([j[2] EXCEPT ![key] = x])
    BY <1>2
  <2>2. x = <<x[1], x[2]>>
    <3>1. \E kind, content : x = <<kind, content>>
      <4>1. \/ x \in {Num(3), Null, Arr(<<>>), Arr(<<Null>>), Arr(<<Num(-32769)>>),
                     Arr(<<Num(0), Num(65536)>>), Obj([t |-> Str("users")])}
            \/ x \in {Str("ct"), Str("sv"), Str("other")}
            \/ x = Arr(<<Str("users"), Str("email")>>)
        BY <2>1 DEF Misfits
      <4>2. /\ \A n : Num(n) = <<"num", n>>
            /\ \A e : Arr(e) = <<"arr", e>> /\ Obj(e) = <<"obj", e>> /\ Str(e) = <<"str", e>>
            /\ Null = <<"null", 0>>
        BY DEF Num, Null, Arr, Obj, Str
      <4> QED  BY <4>1, <4>2
    <3>2. PICK kind, content : x = <<kind, content>>
      BY <3>1
    <3> QED  BY <3>2
  <2> DEFINE fields == [j[2] EXCEPT ![key] = x]
  <2>3. Keys(j) = DOMAIN j[2]
    BY DEF Keys
  <2>4. DOMAIN fields = Keys(j) /\ \A k \in Keys(j) : fields[k] = IF k = key THEN x ELSE j[2][k]
    BY <2>3
  <2> HIDE DEF fields
  <2>5. Keys(d) = Keys(j) /\ \A k \in Keys(j) : Get(d, k) = fields[k] /\ Get(j, k) = j[2][k]
    BY <2>1, <2>4 DEF fields, Keys, Get, IsObj, Obj
  <2>6. "ob" \in Keys(d) => Get(d, "ob") = x \/ Get(d, "ob") = Get(j, "ob")
    BY <2>4, <2>5
  <2> QED  BY <2>2, <2>5, <2>6 DEF BlockPaired
<1>3. CASE d = WithUnknown(j)
  <2> DEFINE fields == [key \in Keys(j) \union {"unknown"} |->
                          IF key \in Keys(j) THEN Get(j, key) ELSE Num(3)]
  <2>1. DOMAIN fields = Keys(j) \union {"unknown"} /\ \A key \in Keys(j) : fields[key] = Get(j, key)
    OBVIOUS
  <2>2. d = Obj(fields)
    BY <1>3 DEF WithUnknown
  <2> HIDE DEF fields
  <2>3. Keys(d) = DOMAIN fields /\ \A key \in DOMAIN fields : Get(d, key) = fields[key]
    BY <2>2 DEF Keys, Get, IsObj, Obj
  <2>4. "ob" # "unknown"
    OBVIOUS
  <2> QED  BY <2>1, <2>3, <2>4 DEF BlockPaired
<1>4. CASE d = Str("other")
  BY <1>4 DEF BlockPaired, Keys, IsObj, Str
<1>5. \/ \E key \in Keys(j) : d = Without(j, {key})
      \/ \E key \in Keys(j) : \E x \in Misfits(key) : d = Obj([j[2] EXCEPT ![key] = x])
      \/ d = WithUnknown(j) \/ d = Str("other")
  <2> DEFINE lost == {Without(j, {key}) : key \in Keys(j)}
             changed(key) == {Obj([j[2] EXCEPT ![key] = x]) : x \in Misfits(key)}
             changes == UNION {changed(key) : key \in Keys(j)}
  <2>1. Damaged(j) = lost \union changes \union {WithUnknown(j), Str("other")}
    BY DEF Damaged
  <2>2. \A key : d \in changed(key) => \E x \in Misfits(key) : d = Obj([j[2] EXCEPT ![key] = x])
    OBVIOUS
  <2> HIDE DEF changed
  <2>3. d \in lost => \E key \in Keys(j) : d = Without(j, {key})
    OBVIOUS
  <2>4. d \in changes => \E key \in Keys(j) : d \in changed(key)
    OBVIOUS
  <2> HIDE DEF lost, changes
  <2>5. d \in lost \/ d \in changes \/ d \in {WithUnknown(j), Str("other")}
    BY <2>1
  <2> QED  BY <2>2, <2>3, <2>4, <2>5
<1> QED  BY <1>1, <1>2, <1>3, <1>4, <1>5

LEMMA HoistPaired ==
  ASSUME NEW v2, BlockPaired(v2), NEW copied, NEW t, copied \subseteq {"i", "c"}, t.term_keys \subseteq TermKeys,
         Hoist(v2, copied, t).ok
  PROVE  BlockPaired(Hoist(v2, copied, t).value)
<1> DEFINE j == Hoist(v2, copied, t).value
<1>1. /\ t.term_keys \subseteq Keys(v2)
      /\ Keys(j) = {"v"} \union (copied \intersect Keys(v2)) \union t.term_keys
      /\ \A key \in Keys(j) \ {"v", "bf"} : Get(j, key) = Get(v2, key)
  BY Hoisted
<1> HIDE DEF j
<1>2. "ob" \in Keys(j) => "ob" \in Keys(v2) /\ Get(j, "ob") = Get(v2, "ob")
  BY <1>1
<1>3. BlockPaired(j)
  BY <1>2 DEF BlockPaired
<1> QED  BY <1>3 DEF j

\* All that a strict parse takes and a CHECK does not.
LEMMA RefusedByCheck ==
  ASSUME NEW p \in Scalars, NEW j, BlockPaired(j)
  PROVE  /\ Deserializes(RenderStruct(p[1], p[2]), j) => CheckAdmits(DomainBlock(p[1], p[2]), j) \/ EmptyOre(j)
         /\ Deserializes(RenderQueryStruct(p[1], p[2]), j) =>
              CheckAdmits(QueryDomainBlock(p[1], p[2]), j) \/ EmptyOre(j)
<1>1. ToSet(p[2].terms) \subseteq Terms
  BY ScalarsTyped
<1>2. CASE "ob" \in Keys(j) => Get(j, "ob")[2] # <<>>
  BY <1>1, <1>2, StrictImpliesCheck
<1>3. CASE "ob" \in Keys(j) /\ Get(j, "ob")[2] = <<>>
  <2>1. ASSUME NEW envelope \in {Envelope, QueryEnvelope}, NEW struct,
               struct.fields = Fields(envelope, p[2].terms), struct.optional = {}, Deserializes(struct, j)
        PROVE  EmptyOre(j)
    <3>1. "ob" \in DOMAIN envelope \union TermJsonKeys(p[2].terms)
      <4>1. DOMAIN struct.fields = DOMAIN envelope \union TermJsonKeys(p[2].terms)
        BY <2>1 DEF Fields
      <4>2. Keys(j) \subseteq DOMAIN struct.fields
        BY <2>1 DEF Deserializes, HasFields
      <4> QED  BY <1>3, <4>1, <4>2
    <3>2. "ob" \notin DOMAIN envelope
      BY DEF Envelope, QueryEnvelope
    <3>3. "Ore" \in ToSet(p[2].terms)
      BY <1>1, <3>1, <3>2 DEF TermJsonKeys, JsonKey, Terms
    <3>4. struct.fields["ob"] = "OreBlock256"
      <4>1. Fields(envelope, p[2].terms)["ob"] = "OreBlock256"
        BY <1>1, <3>3, RenderedFields
      <4> QED  BY <2>1, <4>1
    <3>5. FitsField("OreBlock256", Get(j, "ob"))
      BY <1>3, <2>1, <3>4 DEF Deserializes, NullOption
    <3>6. Get(j, "ob")[1] = "arr"
      BY <3>5 DEF FitsField, FitsNewtype, Strings, IsArr
    <3>7. Get(j, "ob") = <<Get(j, "ob")[1], Get(j, "ob")[2]>>
      BY <1>3 DEF BlockPaired
    <3> QED  BY <1>3, <3>6, <3>7 DEF EmptyOre, Arr
  <2>2. RenderStruct(p[1], p[2]).fields = Fields(Envelope, p[2].terms) /\ RenderStruct(p[1], p[2]).optional = {}
    BY DEF RenderStruct, Struct
  <2>3. /\ RenderQueryStruct(p[1], p[2]).fields = Fields(QueryEnvelope, p[2].terms)
        /\ RenderQueryStruct(p[1], p[2]).optional = {}
    BY DEF RenderQueryStruct, Struct
  <2> QED  BY <2>1, <2>2, <2>3
<1> QED  BY <1>2, <1>3

\* Who probes for v3 payloads finds no query operand, and a stored one unless its
\* identifier is an array.
LEMMA ProbedAsPayload ==
  ASSUME NEW p \in Scalars, NEW j
  PROVE  /\ Deserializes(RenderStruct(p[1], p[2]), j) => IsV3Payload(j) \/ IsArr(Get(j, "i"))
         /\ Deserializes(RenderQueryStruct(p[1], p[2]), j) => ~IsV3Payload(j)
<1>1. ToSet(p[2].terms) \subseteq Terms /\ TermJsonKeys(p[2].terms) \subseteq TermKeys
  BY ScalarsTyped, KeysOfTerms
<1>2. ASSUME Deserializes(RenderStruct(p[1], p[2]), j) PROVE IsV3Payload(j) \/ IsArr(Get(j, "i"))
  <2> DEFINE struct == RenderStruct(p[1], p[2])
  <2>1. struct.fields = Fields(Envelope, p[2].terms) /\ struct.optional = {}
    BY DEF RenderStruct, Struct
  <2>2. DOMAIN Envelope = {"v", "i", "c"} /\ Envelope["v"] = "SchemaVersion"
        /\ Envelope["i"] = "Identifier" /\ Envelope["c"] = "Ciphertext"
    BY DEF Envelope
  <2>3. /\ {"v", "i", "c"} \subseteq DOMAIN struct.fields
        /\ \A key \in {"v", "i", "c"} : struct.fields[key] = Envelope[key]
    BY <2>1, <2>2 DEF Fields
  <2> HIDE DEF struct
  <2>4. \A key \in {"v", "i", "c"} : FitsField(struct.fields[key], Get(j, key))
    BY <1>2, <2>1, <2>3 DEF struct, Deserializes, HasFields, NullOption
  <2>5. /\ FitsField("SchemaVersion", Get(j, "v")) /\ FitsField("Identifier", Get(j, "i"))
        /\ FitsField("Ciphertext", Get(j, "c"))
    BY <2>2, <2>3, <2>4
  <2>6. Get(j, "v") = Num(EqlSchemaVersion)
    BY <2>5 DEF FitsField, FitsNewtype, Strings
  <2>7. IsObj(Get(j, "i")) \/ IsArr(Get(j, "i"))
    <3>1. Keys(Get(j, "i")) = {"t", "c"} \/ IsArr(Get(j, "i"))
      BY <2>5 DEF FitsField, FitsNewtype, FitsIdentifier, Strings
    <3> QED  BY <3>1 DEF Keys
  <2>8. IsStr(Get(j, "c"))
    BY <2>5 DEF FitsField, FitsNewtype, Strings
  <2> QED  BY <2>6, <2>7, <2>8 DEF IsV3Payload
<1>3. ASSUME Deserializes(RenderQueryStruct(p[1], p[2]), j) PROVE ~IsV3Payload(j)
  <2>1. DOMAIN RenderQueryStruct(p[1], p[2]).fields = DOMAIN QueryEnvelope \union TermJsonKeys(p[2].terms)
    BY <1>1, RenderedFields DEF RenderQueryStruct, Struct
  <2>2. "c" \notin Keys(j) /\ "sv" \notin Keys(j)
    BY <1>1, <1>3, <2>1 DEF Deserializes, HasFields, QueryEnvelope, TermKeys
  <2>3. Get(j, "c") = Absent /\ Get(j, "sv") = Absent
    BY <2>2 DEF Get
  <2> QED  BY <2>3 DEF IsV3Payload, Absent, IsStr, IsArr
<1> QED  BY <1>2, <1>3

(***************************************************************************)
(* What an operator answers over the terms.                                *)
(***************************************************************************)
\* The value that a constructor takes from a term: the plaintext's, or its bits.
LEMMA ConstructedTerm ==
  ASSUME NEW f, NEW x \in Plaintexts, NEW t \in Terms, NEW j, Get(j, JsonKey[t]) = WireTerm(t, f, x),
         t = "Ore" => Get(j, "ob")[2] # <<>>
  PROVE  Constructed(t, j) = IF t = "Bloom" THEN {Bit(g) : g \in Grams[x]} ELSE Encrypt(t, f, x)
<1> DEFINE field == Get(j, JsonKey[t])
<1>1. CASE t = "Bloom"
  <2> DEFINE n == Cardinality(Grams[x])
             gram(k) == SetToSeq(Grams[x])[k]
             bits == [k \in 1 .. n |-> Num(Bit(gram(k)))]
  <2>1. field = Arr(bits)
    BY <1>1 DEF WireTerm
  <2>2. DOMAIN bits = 1 .. n /\ \A k \in 1 .. n : bits[k] = Num(Bit(gram(k)))
    OBVIOUS
  <2>3. /\ \A k \in 1 .. n : gram(k) \in Grams[x]
        /\ \A g \in Grams[x] : \E k \in 1 .. n : gram(k) = g
    <3>1. IsFiniteSet(Grams[x])
      BY PositionAssumption
    <3> QED  BY <3>1, SetInSequence
  <2>4. Constructed(t, j) = {element[2] : element \in ToSet(field[2])}
    BY <1>1 DEF Constructed
  <2> HIDE DEF bits, n, gram, field
  <2>5. ToSet(field[2]) = {Num(Bit(gram(k))) : k \in 1 .. n}
    BY <2>1, <2>2 DEF ToSet, Arr
  <2>6. \A g : Num(Bit(g))[2] = Bit(g)
    BY DEF Num
  <2>7. {element[2] : element \in ToSet(field[2])} = {Bit(gram(k)) : k \in 1 .. n}
    BY <2>5, <2>6
  <2>8. {Bit(gram(k)) : k \in 1 .. n} = {Bit(g) : g \in Grams[x]}
    BY <2>3
  <2> QED  BY <1>1, <2>4, <2>7, <2>8
<1>2. CASE t = "Ore"
  <2>1. field[2] = <<Str(Encrypt(t, f, x))>>
    <3>1. field[2] = <<>> \/ field[2] = <<Str(Encrypt(t, f, x))>>
      BY <1>2 DEF WireTerm, ClientTerm, Arr
    <3>2. JsonKey[t] = "ob"
      BY <1>2 DEF JsonKey
    <3> QED  BY <1>2, <3>1, <3>2
  <2>2. Constructed(t, j) = field[2][1][2]
    BY <1>2 DEF Constructed
  <2> HIDE DEF field
  <2> QED  BY <1>2, <2>1, <2>2 DEF Str
<1>3. CASE t \in {"Hm", "Ope"}
  <2>1. field = Str(Encrypt(t, f, x))
    BY <1>3 DEF WireTerm, ClientTerm
  <2>2. Constructed(t, j) = field[2]
    BY <1>3 DEF Constructed
  <2> HIDE DEF field
  <2> QED  BY <1>3, <2>1, <2>2 DEF Str
<1> QED  BY <1>1, <1>2, <1>3 DEF Terms

\* No two n-grams share a bit.
BitsDistinct == \A g, h \in DOMAIN Position : Position[g] = Position[h] => g = h

\* What a match says of the texts even if n-grams share bits.
OvermatchesOnly(x, y, given) ==
  (Matches(x, y) => given) /\ (given /\ Grams[y] = {} => Grams[x] = {})

LEMMA BitsMatch ==
  ASSUME NEW x \in Plaintexts, NEW y \in Plaintexts
  PROVE  LET bits(z) == {Bit(g) : g \in Grams[z]}
             given == bits(y) \subseteq bits(x) /\ (bits(y) # {} \/ bits(x) = {})
         IN /\ Matches(x, y) => given
            /\ given /\ Grams[y] = {} => Grams[x] = {}
            /\ BitsDistinct /\ given => Matches(x, y)
<1> DEFINE bits(z) == {Bit(g) : g \in Grams[z]}
           given == bits(y) \subseteq bits(x) /\ (bits(y) # {} \/ bits(x) = {})
<1>1. Grams[x] \subseteq DOMAIN Position /\ Grams[y] \subseteq DOMAIN Position
  BY PositionAssumption
<1>2. \A z : bits(z) = {} <=> Grams[z] = {}
  OBVIOUS
<1>3. Grams[y] \subseteq Grams[x] => bits(y) \subseteq bits(x)
  OBVIOUS
<1>4. ASSUME BitsDistinct, bits(y) \subseteq bits(x), NEW g \in Grams[y] PROVE g \in Grams[x]
  <2>1. PICK h \in Grams[x] : Bit(h) = Bit(g)
    BY <1>4
  <2>2. Position[g] = Position[h]
    <3>1. /\ g \in DOMAIN Position /\ h \in DOMAIN Position
          /\ Position[g] \in Int /\ 0 <= Position[g] /\ Position[g] <= 65535
          /\ Position[h] \in Int /\ 0 <= Position[h] /\ Position[h] <= 65535
      BY <1>1, PositionAssumption
    <3> QED  BY <2>1, <3>1 DEF Bit
  <2> QED  BY <1>1, <1>4, <2>2 DEF BitsDistinct
<1> HIDE DEF bits
<1>5. /\ Matches(x, y) => given
      /\ given /\ Grams[y] = {} => Grams[x] = {}
      /\ BitsDistinct /\ given => Matches(x, y)
  BY <1>2, <1>3, <1>4 DEF Matches
<1> QED  BY <1>5 DEF bits

\* What an operator of a domain answers over converted terms: a match may err to a hit, if
\* n-grams share bits, and never to a miss.
LEMMA OperatorAnswers ==
  ASSUME NEW p \in Scalars, NEW op \in OperatorsForTerms(p[2].terms),
         NEW x \in Plaintexts, NEW y \in Plaintexts, NEW j, NEW k,
         HoldsTerms(j, TermJsonKeys(p[2].terms), p[1], x), HoldsTerms(k, TermJsonKeys(p[2].terms), p[1], y),
         "ob" \in TermJsonKeys(p[2].terms) => Get(j, "ob")[2] # <<>> /\ Get(k, "ob")[2] # <<>>
  PROVE  LET given == Operate(p[2], op, j, k)
         IN /\ op # "@@" \/ BitsDistinct => RightAnswer(p[1], op, x, y, given)
            /\ op = "@@" => OvermatchesOnly(x, y, given)
<1> DEFINE t == CHOOSE u \in TermForOperator(p[2].terms, op) : TRUE
           a == Constructed(t, j)
           b == Constructed(t, k)
           given == Operate(p[2], op, j, k)
<1>1. /\ t \in ToSet(p[2].terms) /\ t \in Terms /\ op \in TermOperators[t]
      /\ p[1] = "text" /\ op \in EqualityOps => t = "Hm"
  <2>1. t \in TermForOperator(p[2].terms, op)
    BY TermFound
  <2> HIDE DEF t
  <2> QED  BY <2>1, TermFound
<1>2. given <=> Compare(BodyOperator(op), a, b) /\ (NeedsEmptyBloomGuard(op) => b # {} \/ a = {})
  BY DEF Operate
<1> HIDE DEF t, given
<1>3. JsonKey[t] \in TermJsonKeys(p[2].terms) /\ (t = "Ore" => JsonKey[t] = "ob")
  BY <1>1 DEF TermJsonKeys, JsonKey
<1>4. a = IF t = "Bloom" THEN {Bit(g) : g \in Grams[x]} ELSE Encrypt(t, p[1], x)
  <2>1. Get(j, JsonKey[t]) = WireTerm(t, p[1], x) /\ (t = "Ore" => Get(j, "ob")[2] # <<>>)
    BY <1>1, <1>3 DEF HoldsTerms
  <2> QED  BY <1>1, <2>1, ConstructedTerm
<1>5. b = IF t = "Bloom" THEN {Bit(g) : g \in Grams[y]} ELSE Encrypt(t, p[1], y)
  <2>1. Get(k, JsonKey[t]) = WireTerm(t, p[1], y) /\ (t = "Ore" => Get(k, "ob")[2] # <<>>)
    BY <1>1, <1>3 DEF HoldsTerms
  <2> QED  BY <1>1, <2>1, ConstructedTerm
<1>6. given \in BOOLEAN
  BY DEF given, Operate
<1>7. CASE t = "Bloom"
  <2>1. op = "@@"
    BY <1>1, <1>7 DEF TermOperators
  <2>2. BodyOperator(op) = "@>" /\ NeedsEmptyBloomGuard(op)
    BY <2>1 DEF BodyOperator, NeedsEmptyBloomGuard
  <2>3. given <=> b \subseteq a /\ (b # {} \/ a = {})
    BY <1>2, <2>2 DEF Compare
  <2>4. OvermatchesOnly(x, y, given) /\ (BitsDistinct /\ given => Matches(x, y))
    <3>1. a = {Bit(g) : g \in Grams[x]} /\ b = {Bit(g) : g \in Grams[y]}
      BY <1>4, <1>5, <1>7
    <3> HIDE DEF a, b
    <3> QED  BY <2>3, <3>1, BitsMatch DEF OvermatchesOnly
  <2>5. RightAnswer(p[1], op, x, y, given) <=> given = Matches(x, y)
    BY <2>1 DEF RightAnswer, Matches, OrderOps
  <2>6. Matches(x, y) \in BOOLEAN
    BY DEF Matches
  <2>7. BitsDistinct => given = Matches(x, y)
    BY <1>6, <2>4, <2>6 DEF OvermatchesOnly
  <2> QED  BY <2>1, <2>4, <2>5, <2>7 DEF given
<1>8. CASE t # "Bloom"
  <2>1. op \in SearchOps /\ op # "@@"
    BY <1>1, <1>8 DEF Terms, TermOperators, SearchOps, EqualityOps, OrderOps
  <2>2. given <=> TermAnswer(p[1], op, x, y)
    <3>1. a = Encrypt(t, p[1], x) /\ b = Encrypt(t, p[1], y)
      BY <1>4, <1>5, <1>8
    <3>2. TermAnswer(p[1], op, x, y) <=>
            /\ Compare(BodyOperator(op), Encrypt(t, p[1], x), Encrypt(t, p[1], y))
            /\ NeedsEmptyBloomGuard(op) => Encrypt(t, p[1], y) # {} \/ Encrypt(t, p[1], x) = {}
      BY <1>1, TermsAgree
    <3> HIDE DEF a, b
    <3> QED  BY <1>2, <3>1, <3>2
  <2>3. given = TermAnswer(p[1], op, x, y)
    BY <1>6, <2>1, <2>2, TermAnswerBoolean
  <2>4. RightAnswer(p[1], op, x, y, given)
    BY <2>1, <2>3, TermAnswerRight
  <2> QED  BY <2>1, <2>4 DEF given
<1> QED  BY <1>7, <1>8

(***************************************************************************)
(* The invariant.                                                          *)
(***************************************************************************)
Typed ==
  /\ <<family, source>> \in Scalars
  /\ TargetTyped(target)
  /\ phase # "idle" => plain[1] \in Plaintexts
  /\ needle # Absent => plain[2] \in Plaintexts

\* What there is in each phase.
Phases ==
  /\ phase \in {"idle", "emitted"} => out = Absent
  /\ phase \in {"idle", "emitted", "converted", "refused", "stored"} => needle = Absent
  /\ phase \in {"converted", "stored", "asked", "answered"} => out # Absent
  /\ phase \in {"asked", "answered"} => needle # Absent

\* What was converted has been parsed through the target's struct.
Parsed ==
  /\ out # Absent =>
       \E p \in Scalars : target = ScalarTarget(p) /\ Deserializes(RenderStruct(p[1], p[2]), out)
  /\ needle # Absent =>
       \E p \in Scalars : target = ScalarTarget(p) /\ Deserializes(RenderQueryStruct(p[1], p[2]), needle)

Paired == BlockPaired(input) /\ BlockPaired(out) /\ BlockPaired(needle)

\* What an honest client's payload is, and what it was converted to.
Emitted ==
  phase = "emitted" /\ honest =>
    input = ClientDocument \/ \E signed : input = ClientPayload(family, source, plain[1], signed)

Held ==
  /\ out # Absent /\ honest => /\ target.term_keys \subseteq TermJsonKeys(source.terms)
                               /\ HoldsTerms(out, target.term_keys, family, plain[1])
                               /\ Get(out, "i") = Identifier
  /\ needle # Absent => honest /\ HoldsTerms(needle, target.term_keys, family, plain[2])

\* A CHECK decides what is stored, and refuses only ORE terms without a block.
Checked ==
  /\ phase \in {"stored", "asked", "answered"} =>
       \A p \in DomainsNamed(target.domain) : CheckAdmits(DomainBlock(p[1], p[2]), out)
  /\ phase = "rejected" => EmptyOre(out) \/ EmptyOre(needle)

IInv == Typed /\ Phases /\ Parsed /\ Paired /\ Emitted /\ Held /\ Checked /\ ConvertsWhatClientsEmit

LEMMA IInvInit == Init => IInv
<1> SUFFICES ASSUME Init PROVE IInv
  OBVIOUS
<1>1. /\ phase = "idle" /\ family \in CatalogFamilies /\ source \in DomainsOf(family) /\ IsScalar(source)
      /\ input = Absent /\ target = NoTarget /\ out = Absent /\ needle = Absent /\ error = "none"
  BY DEF Init
<1>2. NoTarget.kind = "UnknownDomain" /\ NoTarget.term_keys = {}
  BY DEF NoTarget, Target
<1>3. Typed
  BY <1>1, <1>2 DEF Typed, TargetTyped, Scalars
<1>4. Phases /\ Parsed /\ Emitted /\ Held /\ Checked
  BY <1>1 DEF Phases, Parsed, Emitted, Held, Checked
<1>5. Paired
  BY <1>1, AbsentPaired DEF Paired
<1>6. ConvertsWhatClientsEmit
  BY <1>1 DEF ConvertsWhatClientsEmit
<1> QED  BY <1>3, <1>4, <1>5, <1>6 DEF IInv

LEMMA EmitKeeps ==
  ASSUME IInv, NEW x \in Plaintexts, NEW signed \in BOOLEAN, Emit(x, signed)
  PROVE  IInv'
<1> DEFINE payload == ClientPayload(family, source, x, signed)
           p == <<family, source>>
<1>1. /\ phase = "idle" /\ phase' = "emitted" /\ plain' = <<x, 0>>
      /\ family' = family /\ source' = source /\ target' = target /\ out' = out /\ needle' = needle
      /\ error' = error
  BY DEF Emit
<1>2. \E sent \in {{payload}, {payload, ClientDocument}} :
        input' \in sent \union UNION {Damaged(q) : q \in sent} /\ honest' = (input' \in sent)
  BY DEF Emit
<1>3. p \in Scalars /\ p[1] = family /\ p[2] = source /\ TargetTyped(target) /\ out = Absent /\ needle = Absent
  BY <1>1 DEF IInv, Typed, Phases
<1>4. BlockPaired(payload) /\ IsObj(payload)
  <2>1. ToSet(source.terms) \subseteq Terms
    BY <1>3, ScalarsTyped
  <2>2. IsObj(payload)
    BY <2>1, ClientFields
  <2>3. BlockPaired(ClientPayload(p[1], p[2], x, signed))
    <3>1. NoTerm({})
      BY DEF NoTerm
    <3> QED  BY <1>3, <3>1, ClientPaired
  <2> QED  BY <2>2, <2>3
<1>5. BlockPaired(ClientDocument) /\ IsObj(ClientDocument)
  BY AbsentPaired DEF ClientDocument, IsObj, Obj
<1> HIDE DEF payload, p
<1>6. BlockPaired(input')
  <2>1. PICK sent \in {{payload}, {payload, ClientDocument}} :
          input' \in sent \union UNION {Damaged(q) : q \in sent}
    BY <1>2
  <2>2. \A q \in sent : BlockPaired(q) /\ IsObj(q)
    BY <1>4, <1>5, <2>1
  <2>3. input' \in sent \/ \E q \in sent : input' \in Damaged(q)
    BY <2>1
  <2> QED  BY <2>2, <2>3, DamagedPaired
<1>7. honest' => input' = ClientDocument \/ input' = payload
  BY <1>2
<1>8. Typed'
  BY <1>1, <1>3 DEF Typed, p
<1>9. Phases' /\ Parsed' /\ Held' /\ Checked'
  BY <1>1, <1>3 DEF Phases, Parsed, Held, Checked
<1>10. Paired'
  BY <1>1, <1>6 DEF IInv, Paired
<1>11. Emitted'
  <2>1. plain'[1] = x
    BY <1>1
  <2> QED  BY <1>1, <1>7, <2>1 DEF Emitted, payload
<1>12. ConvertsWhatClientsEmit'
  <2>1. error' # "panic"
    BY <1>1 DEF IInv, ConvertsWhatClientsEmit
  <2> QED  BY <1>1, <2>1 DEF ConvertsWhatClientsEmit
<1> QED  BY <1>8, <1>9, <1>10, <1>11, <1>12 DEF IInv

LEMMA ConvertStoredKeeps ==
  ASSUME IInv, NEW name \in Names, ConvertStored(name)
  PROVE  IInv'
<1> DEFINE t == ParseTarget(name)
           result == FromV2Wire(input, t)
           p == <<family, source>>
<1>1. /\ phase = "emitted" /\ target' = t /\ out' = result.value /\ error' = result.error
      /\ phase' = IF result.ok THEN "converted" ELSE "refused"
      /\ family' = family /\ source' = source /\ honest' = honest /\ plain' = plain
      /\ input' = input /\ needle' = needle
  BY DEF ConvertStored
<1>2. TargetTyped(t)
  BY TargetsTyped
<1>3. /\ p \in Scalars /\ p[1] = family /\ p[2] = source /\ plain[1] \in Plaintexts /\ needle = Absent
      /\ BlockPaired(input) /\ BlockPaired(needle)
  BY <1>1 DEF IInv, Typed, Phases, Paired
<1>4. honest => input = ClientDocument \/ \E signed : input = ClientPayload(p[1], p[2], plain[1], signed)
  BY <1>1, <1>3 DEF IInv, Emitted
<1> HIDE DEF t, p
<1>5. /\ FromV2Typed(input, t) = result
      /\ Shaped(result) /\ result.error # "panic"
      /\ result.ok => /\ Get(input, "k") = Str("ct")
                      /\ result = Hoist(input, {"i", "c"}, t)
                      /\ \E q \in Scalars : t = ScalarTarget(q)
      /\ \A q \in Scalars : t = ScalarTarget(q) /\ result.ok =>
           Deserializes(RenderStruct(q[1], q[2]), result.value)
  BY <1>2, WireCases
<1>6. ASSUME NEW signed, input = ClientPayload(p[1], p[2], plain[1], signed)
      PROVE  /\ t.kind = "Scalar" /\ t.term_keys \subseteq TermJsonKeys(source.terms) => result.ok
             /\ result.ok => /\ t.term_keys \subseteq TermJsonKeys(source.terms)
                             /\ HoldsTerms(result.value, t.term_keys, family, plain[1])
  BY <1>2, <1>3, <1>6, ClientConverted
<1>7. Get(ClientDocument, "k") # Str("ct")
  <2>1. Get(ClientDocument, "k") = Str("sv")
    BY DEF ClientDocument, Get, Keys, IsObj, Obj
  <2> QED  BY <2>1 DEF Str
<1> HIDE DEF result
<1>8. ~IsObj(Absent)
  BY DEF IsObj, Absent
<1>9. result.ok \in BOOLEAN /\ (result.ok <=> out' # Absent)
      /\ result = [ok |-> result.ok, value |-> result.value, error |-> result.error]
  BY <1>1, <1>5, <1>8 DEF Shaped
<1>10. Typed'
  BY <1>1, <1>2, <1>3 DEF Typed, p
<1>11. Phases' /\ Emitted' /\ Checked'
  BY <1>1, <1>3, <1>9 DEF Phases, Emitted, Checked
<1>12. Parsed'
  BY <1>1, <1>3, <1>5, <1>9 DEF Parsed
<1>13. Paired'
  <2>1. CASE result.ok
    <3>1. BlockPaired(Hoist(input, {"i", "c"}, t).value)
      BY <1>2, <1>3, <1>5, <2>1, HoistPaired, TargetKeys
    <3> QED  BY <1>1, <1>3, <1>5, <2>1, <3>1 DEF Paired
  <2>2. CASE ~result.ok
    BY <1>1, <1>3, <1>9, <2>2, AbsentPaired DEF Paired
  <2> QED  BY <2>1, <2>2
<1>14. Held'
  <2>1. ASSUME out' # Absent, honest'
        PROVE  /\ t.term_keys \subseteq TermJsonKeys(source.terms)
               /\ HoldsTerms(result.value, t.term_keys, family, plain[1])
               /\ Get(result.value, "i") = Identifier
    <3>1. result.ok /\ honest
      BY <1>1, <1>9, <2>1
    <3>2. PICK signed : input = ClientPayload(p[1], p[2], plain[1], signed)
      BY <1>4, <1>5, <1>7, <3>1
    <3>3. "i" \in Keys(input) /\ Get(input, "i") = Identifier
      <4>1. ToSet(p[2].terms) \subseteq Terms
        BY <1>3, ScalarsTyped
      <4> QED  BY <3>2, <4>1, ClientFields
    <3>4. Get(result.value, "i") = Identifier
      BY <1>2, <1>5, <3>1, <3>3, Hoisted, TargetKeys
    <3> QED  BY <1>6, <3>1, <3>2, <3>4
  <2> QED  BY <1>1, <1>3, <2>1 DEF Held
<1>15. ConvertsWhatClientsEmit'
  <2>1. error' # "panic"
    BY <1>1, <1>5
  <2>2. FromV2Typed(input', target') = [ok |-> phase' = "converted", value |-> out', error |-> error']
    <3>1. (phase' = "converted") = result.ok
      BY <1>1, <1>9
    <3> QED  BY <1>1, <1>5, <1>9, <3>1
  <2>3. ASSUME phase' = "refused", honest', input' # ClientDocument, target'.kind = "Scalar"
        PROVE  out' = Absent /\ ~ target'.term_keys \subseteq TermJsonKeys(source'.terms)
    <3>1. ~result.ok /\ honest
      BY <1>1, <1>9, <2>3
    <3>2. PICK signed : input = ClientPayload(p[1], p[2], plain[1], signed)
      BY <1>1, <1>4, <2>3, <3>1
    <3> QED  BY <1>1, <1>6, <1>9, <2>3, <3>1, <3>2
  <2> QED  BY <2>1, <2>2, <2>3 DEF ConvertsWhatClientsEmit
<1> QED  BY <1>10, <1>11, <1>12, <1>13, <1>14, <1>15 DEF IInv

LEMMA InsertKeeps ==
  ASSUME IInv, Insert
  PROVE  IInv'
<1>1. /\ phase = "converted" /\ input' = Absent
      /\ phase' = IF \A p \in DomainsNamed(target.domain) : CheckAdmits(DomainBlock(p[1], p[2]), out)
                    THEN "stored" ELSE "rejected"
      /\ family' = family /\ source' = source /\ honest' = honest /\ plain' = plain /\ target' = target
      /\ out' = out /\ needle' = needle /\ error' = error
  BY DEF Insert
<1>2. out # Absent /\ needle = Absent
  BY <1>1 DEF IInv, Phases
<1>3. PICK q \in Scalars : target = ScalarTarget(q) /\ Deserializes(RenderStruct(q[1], q[2]), out)
  BY <1>2 DEF IInv, Parsed
<1>4. DomainsNamed(target.domain) = {q}
  BY <1>3, TargetFinds
<1>5. CheckAdmits(DomainBlock(q[1], q[2]), out) \/ EmptyOre(out)
  BY <1>3, RefusedByCheck DEF IInv, Paired
<1>6. phase' \in {"stored", "rejected"}
  BY <1>1
<1>7. Typed'
  BY <1>1, <1>2 DEF IInv, Typed
<1>8. Phases' /\ Emitted'
  BY <1>1, <1>2, <1>6 DEF Phases, Emitted
<1>9. Parsed' /\ Held'
  BY <1>1 DEF IInv, Parsed, Held
<1>10. Paired'
  BY <1>1, AbsentPaired DEF IInv, Paired
<1>11. Checked'
  <2>1. phase' = "rejected" => EmptyOre(out')
    BY <1>1, <1>4, <1>5 DEF EmptyOre
  <2>2. phase' = "stored" =>
          \A p \in DomainsNamed(target'.domain) : CheckAdmits(DomainBlock(p[1], p[2]), out')
    BY <1>1
  <2> QED  BY <1>6, <2>1, <2>2 DEF Checked
<1>12. ConvertsWhatClientsEmit'
  <2>1. error' # "panic"
    BY <1>1 DEF IInv, ConvertsWhatClientsEmit
  <2> QED  BY <1>6, <2>1 DEF ConvertsWhatClientsEmit
<1> QED  BY <1>7, <1>8, <1>9, <1>10, <1>11, <1>12 DEF IInv

LEMMA ConvertNeedleKeeps ==
  ASSUME IInv, NEW y \in Plaintexts, NEW signed \in BOOLEAN, ConvertNeedle(y, signed)
  PROVE  IInv'
<1> DEFINE p == <<family, source>>
<1>1. /\ phase = "stored" /\ honest /\ plain' = <<plain[1], y>>
      /\ family' = family /\ source' = source /\ honest' = honest /\ target' = target /\ out' = out
  BY DEF ConvertNeedle
<1>2. PICK dropped \in {{}, {"c"}, {"v", "k", "c"}} :
        LET query == Without(ClientPayload(family, source, y, signed), dropped)
            result == FromV2Query(query, target)
        IN /\ input' = query /\ needle' = result.value /\ error' = result.error
           /\ phase' = IF result.ok THEN "asked" ELSE "refused"
  BY DEF ConvertNeedle
<1> DEFINE query == Without(ClientPayload(p[1], p[2], y, signed), dropped)
           result == FromV2Query(query, target)
<1>3. /\ input' = query /\ needle' = result.value /\ error' = result.error
      /\ phase' = IF result.ok THEN "asked" ELSE "refused"
  BY <1>2
<1>4. /\ p \in Scalars /\ p[1] = family /\ p[2] = source /\ plain[1] \in Plaintexts
      /\ TargetTyped(target) /\ out # Absent /\ BlockPaired(out)
      /\ target.term_keys \subseteq TermJsonKeys(source.terms)
      /\ HoldsTerms(out, target.term_keys, family, plain[1]) /\ Get(out, "i") = Identifier
  BY <1>1 DEF IInv, Typed, Phases, Paired, Held
<1>5. BlockPaired(query)
  <2>1. NoTerm(dropped)
    BY DEF NoTerm
  <2> QED  BY <1>4, <2>1, ClientPaired
<1>6. target.kind = "Scalar"
  <2>1. PICK q \in Scalars : target = ScalarTarget(q)
    BY <1>4 DEF IInv, Parsed
  <2> QED  BY <2>1, TargetFinds
<1>7. /\ target.term_keys # {} => result.ok
      /\ result.ok => HoldsTerms(result.value, target.term_keys, family, y)
  <2>1. /\ target.kind = "Scalar" /\ target.term_keys # {} /\ target.term_keys \subseteq TermJsonKeys(p[2].terms)
              => result.ok
        /\ result.ok => HoldsTerms(result.value, target.term_keys, p[1], y)
    BY <1>4, ClientQueried
  <2> HIDE DEF result, p
  <2> QED  BY <1>4, <1>6, <2>1
<1> HIDE DEF p, query
<1>8. /\ Shaped(result) /\ result.error # "panic"
      /\ result.ok => /\ result = Hoist(query, {"i"}, target)
                      /\ \E q \in Scalars : target = ScalarTarget(q)
      /\ \A q \in Scalars : target = ScalarTarget(q) /\ result.ok =>
           Deserializes(RenderQueryStruct(q[1], q[2]), result.value)
  BY <1>4, NeedleCases
<1> HIDE DEF result
<1>9. result.ok \in BOOLEAN /\ (result.ok <=> needle' # Absent)
  <2>1. ~IsObj(Absent)
    BY DEF IsObj, Absent
  <2> QED  BY <1>3, <1>8, <2>1 DEF Shaped
<1>10. plain'[1] = plain[1] /\ plain'[2] = y
  BY <1>1
<1>11. Typed'
  BY <1>1, <1>4, <1>10 DEF Typed, p
<1>12. Phases' /\ Emitted'
  BY <1>1, <1>3, <1>4, <1>9 DEF Phases, Emitted
<1>13. Parsed'
  <2>1. \E q \in Scalars : target = ScalarTarget(q) /\ Deserializes(RenderStruct(q[1], q[2]), out)
    BY <1>4 DEF IInv, Parsed
  <2>2. needle' # Absent =>
          \E q \in Scalars : target = ScalarTarget(q) /\ Deserializes(RenderQueryStruct(q[1], q[2]), needle')
    BY <1>3, <1>8, <1>9
  <2> QED  BY <1>1, <2>1, <2>2 DEF Parsed
<1>14. Paired'
  <2>1. BlockPaired(needle')
    <3>1. CASE result.ok
      <4>1. BlockPaired(Hoist(query, {"i"}, target).value)
        BY <1>4, <1>5, <1>8, <3>1, HoistPaired, TargetKeys
      <4> QED  BY <1>3, <1>8, <3>1, <4>1
    <3>2. CASE ~result.ok
      BY <1>3, <1>9, <3>2, AbsentPaired
    <3> QED  BY <3>1, <3>2
  <2> QED  BY <1>1, <1>3, <1>4, <1>5, <2>1 DEF Paired
<1>15. Held'
  BY <1>1, <1>3, <1>4, <1>7, <1>9, <1>10 DEF Held
<1>16. Checked'
  <2>1. \A q \in DomainsNamed(target.domain) : CheckAdmits(DomainBlock(q[1], q[2]), out)
    BY <1>1 DEF IInv, Checked
  <2>2. phase' # "rejected"
    BY <1>3
  <2> QED  BY <1>1, <2>1, <2>2 DEF Checked
<1>17. ConvertsWhatClientsEmit'
  <2>1. error' # "panic"
    BY <1>3, <1>8
  <2>2. phase' # "converted" /\ out' # Absent
    BY <1>1, <1>3, <1>4
  <2>3. phase' = "refused" => target'.term_keys = {}
    BY <1>1, <1>3, <1>7
  <2> QED  BY <2>1, <2>2, <2>3 DEF ConvertsWhatClientsEmit
<1> QED  BY <1>11, <1>12, <1>13, <1>14, <1>15, <1>16, <1>17 DEF IInv

LEMMA AnswerKeeps ==
  ASSUME IInv, Answer
  PROVE  IInv'
<1>1. /\ phase = "asked"
      /\ family' = family /\ source' = source /\ honest' = honest /\ plain' = plain /\ input' = input
      /\ target' = target /\ out' = out /\ needle' = needle /\ error' = error
  BY DEF Answer
<1>2. PICK p \in DomainsNamed(target.domain) :
        phase' = IF CheckAdmits(QueryDomainBlock(p[1], p[2]), needle) THEN "answered" ELSE "rejected"
  BY DEF Answer
<1>3. out # Absent /\ needle # Absent
  BY <1>1 DEF IInv, Phases
<1>4. PICK q \in Scalars : target = ScalarTarget(q) /\ Deserializes(RenderQueryStruct(q[1], q[2]), needle)
  BY <1>3 DEF IInv, Parsed
<1>5. p = q
  BY <1>4, TargetFinds
<1>6. CheckAdmits(QueryDomainBlock(q[1], q[2]), needle) \/ EmptyOre(needle)
  BY <1>4, RefusedByCheck DEF IInv, Paired
<1>7. phase' \in {"answered", "rejected"} /\ (phase' = "rejected" => EmptyOre(needle))
  BY <1>2, <1>5, <1>6
<1>8. Typed' /\ Parsed' /\ Paired' /\ Held'
  BY <1>1, <1>7 DEF IInv, Typed, Parsed, Paired, Held
<1>9. Phases' /\ Emitted'
  BY <1>1, <1>3, <1>7 DEF Phases, Emitted
<1>10. Checked'
  BY <1>1, <1>7 DEF IInv, Checked, EmptyOre
<1>11. ConvertsWhatClientsEmit'
  <2>1. error' # "panic"
    BY <1>1 DEF IInv, ConvertsWhatClientsEmit
  <2> QED  BY <1>7, <2>1 DEF ConvertsWhatClientsEmit
<1> QED  BY <1>8, <1>9, <1>10, <1>11 DEF IInv

LEMMA IInvInvariant == IInv /\ [Next]_vars => IInv'
<1> SUFFICES ASSUME IInv, [Next]_vars PROVE IInv'
  OBVIOUS
<1>1. ASSUME NEW x \in Plaintexts, NEW signed \in BOOLEAN, Emit(x, signed) PROVE IInv'
  BY <1>1, EmitKeeps
<1>2. ASSUME NEW name \in Names, ConvertStored(name) PROVE IInv'
  BY <1>2, ConvertStoredKeeps
<1>3. CASE Insert
  BY <1>3, InsertKeeps
<1>4. ASSUME NEW y \in Plaintexts, NEW signed \in BOOLEAN, ConvertNeedle(y, signed) PROVE IInv'
  BY <1>4, ConvertNeedleKeeps
<1>5. CASE Answer
  BY <1>5, AnswerKeeps
<1>6. CASE UNCHANGED vars
  <2>1. Typed' /\ Phases' /\ Parsed' /\ Paired'
    BY <1>6 DEF vars, IInv, Typed, Phases, Parsed, Paired
  <2>2. Emitted' /\ Held' /\ Checked' /\ ConvertsWhatClientsEmit'
    BY <1>6 DEF vars, IInv, Emitted, Held, Checked, ConvertsWhatClientsEmit, EmptyOre
  <2> QED  BY <2>1, <2>2 DEF IInv
<1> QED  BY <1>1, <1>2, <1>3, <1>4, <1>5, <1>6 DEF Next

LEMMA IInvHolds == Spec => []IInv
BY IInvInit, IInvInvariant, PTL DEF Spec

(* For every catalog of families, payload and target: what from_v2 and its like for        *)
(* queries let through, the CHECK of the column's domain or of its operand admits, but for  *)
(* an ORE term without a block; the probe for v3 payloads takes no query operand for one    *)
(* and misses no stored payload but one that came with an array for its identifier.        *)
THEOREM ConvertedAdmitted == Spec => []AdmittedByCheck
<1>1. ASSUME IInv PROVE AdmittedByCheck
  <2>1. phase = "rejected" => EmptyOre(out) \/ EmptyOre(needle)
    BY <1>1 DEF IInv, Checked
  <2>2. ASSUME out # Absent, ~IsV3Payload(out) PROVE ~honest /\ IsArr(Get(out, "i"))
    <3>1. IsArr(Get(out, "i"))
      BY <1>1, <2>2, ProbedAsPayload DEF IInv, Parsed
    <3>2. ~IsArr(Identifier)
      BY DEF Identifier, IsArr, Obj
    <3> QED  BY <1>1, <2>2, <3>1, <3>2 DEF IInv, Held
  <2>3. ~IsV3Payload(needle)
    <3>1. ~IsV3Payload(Absent)
      BY DEF IsV3Payload, Get, Keys, IsObj, Absent, Num
    <3> QED  BY <1>1, <3>1, ProbedAsPayload DEF IInv, Parsed
  <2> QED  BY <2>1, <2>2, <2>3 DEF AdmittedByCheck
<1> QED  BY <1>1, IInvHolds, PTL

(* A client's payload is converted for every target whose terms it has and a query for      *)
(* every target with a term; from_v2 and from_v2_typed agree on everything, and no lookup    *)
(* in a generated table panics.                                                         *)
THEOREM ClientsConverted == Spec => []ConvertsWhatClientsEmit
<1>1. IInv => ConvertsWhatClientsEmit
  BY DEF IInv
<1> QED  BY <1>1, IInvHolds, PTL

\* What is answered: at worst a match too many.
AnswersOrOvermatches ==
  phase = "answered" /\ SameFamily =>
    IF answer[1] = "@@" THEN OvermatchesOnly(plain[1], plain[2], answer[2])
    ELSE RightAnswer(family, answer[1], plain[1], plain[2], answer[2])

LEMMA AnsweredInit == Init => AnswersOrOvermatches /\ AnswersAsPlaintext
BY DEF Init, AnswersOrOvermatches, AnswersAsPlaintext

LEMMA AnsweredInvariant ==
  ASSUME IInv, [Next]_vars
  PROVE  /\ AnswersOrOvermatches => AnswersOrOvermatches'
         /\ BitsDistinct /\ AnswersAsPlaintext => AnswersAsPlaintext'
<1>1. CASE Answer
  <2>1. /\ phase = "asked"
        /\ family' = family /\ plain' = plain /\ target' = target /\ out' = out /\ needle' = needle
    BY <1>1 DEF Answer
  <2>2. PICK p \in DomainsNamed(target.domain) :
          IF CheckAdmits(QueryDomainBlock(p[1], p[2]), needle)
            THEN /\ phase' = "answered"
                 /\ \E op \in OperatorsForTerms(p[2].terms) : answer' = <<op, Operate(p[2], op, out, needle)>>
            ELSE phase' = "rejected"
    BY <1>1 DEF Answer
  <2>3. /\ out # Absent /\ needle # Absent /\ honest
        /\ HoldsTerms(out, target.term_keys, family, plain[1])
        /\ HoldsTerms(needle, target.term_keys, family, plain[2])
        /\ plain[1] \in Plaintexts /\ plain[2] \in Plaintexts
        /\ \A q \in DomainsNamed(target.domain) : CheckAdmits(DomainBlock(q[1], q[2]), out)
    BY <2>1 DEF IInv, Phases, Held, Typed, Checked
  <2>4. PICK q \in Scalars : target = ScalarTarget(q)
    BY <2>3 DEF IInv, Parsed
  <2>5. p = q /\ DomainsNamed(target.domain) = {q} /\ target.term_keys = TermJsonKeys(q[2].terms)
    BY <2>4, TargetFinds
  <2>6. SUFFICES ASSUME phase' = "answered", SameFamily'
                 PROVE  /\ IF answer'[1] = "@@" THEN OvermatchesOnly(plain[1], plain[2], answer'[2])
                            ELSE RightAnswer(family, answer'[1], plain[1], plain[2], answer'[2])
                        /\ BitsDistinct => RightAnswer(family, answer'[1], plain[1], plain[2], answer'[2])
    BY <2>1 DEF AnswersOrOvermatches, AnswersAsPlaintext
  <2>7. q[1] = family
    BY <2>1, <2>5, <2>6 DEF SameFamily
  <2>8. CheckAdmits(DomainBlock(q[1], q[2]), out) /\ CheckAdmits(QueryDomainBlock(q[1], q[2]), needle)
    BY <2>2, <2>3, <2>5, <2>6
  <2>9. PICK op \in OperatorsForTerms(q[2].terms) : answer' = <<op, Operate(q[2], op, out, needle)>>
    BY <2>2, <2>5, <2>6
  <2>10. "ob" \in TermJsonKeys(q[2].terms) => Get(out, "ob")[2] # <<>> /\ Get(needle, "ob")[2] # <<>>
    <3>1. ASSUME "ob" \in TermJsonKeys(q[2].terms) PROVE "ob" \in NonemptyArrayKeys(q[2].terms)
      <4>1. ToSet(q[2].terms) \subseteq Terms
        BY ScalarsTyped
      <4> QED  BY <3>1, <4>1 DEF TermJsonKeys, NonemptyArrayKeys, HasNonemptyArray, JsonKey,
                  Terms
    <3>2. /\ DomainBlock(q[1], q[2]).nonempty = NonemptyArrayKeys(q[2].terms)
          /\ QueryDomainBlock(q[1], q[2]).nonempty = NonemptyArrayKeys(q[2].terms)
      BY DEF DomainBlock, QueryDomainBlock
    <3> QED  BY <2>8, <3>1, <3>2 DEF CheckAdmits
  <2>11. /\ HoldsTerms(out, TermJsonKeys(q[2].terms), q[1], plain[1])
         /\ HoldsTerms(needle, TermJsonKeys(q[2].terms), q[1], plain[2])
    BY <2>3, <2>5, <2>7
  <2>12. /\ op # "@@" \/ BitsDistinct => RightAnswer(family, op, plain[1], plain[2], Operate(q[2], op, out, needle))
         /\ op = "@@" => OvermatchesOnly(plain[1], plain[2], Operate(q[2], op, out, needle))
    BY <2>3, <2>7, <2>10, <2>11, OperatorAnswers
  <2>13. answer'[1] = op /\ answer'[2] = Operate(q[2], op, out, needle)
    BY <2>9
  <2> QED  BY <2>12, <2>13
<1>2. CASE UNCHANGED vars
  BY <1>2 DEF vars, AnswersOrOvermatches, AnswersAsPlaintext, SameFamily
<1>3. CASE \/ \E x \in Plaintexts, signed \in BOOLEAN : Emit(x, signed)
           \/ \E name \in Names : ConvertStored(name)
           \/ Insert
           \/ \E y \in Plaintexts, signed \in BOOLEAN : ConvertNeedle(y, signed)
  <2>1. phase' # "answered"
    BY <1>3 DEF Emit, ConvertStored, Insert, ConvertNeedle
  <2> QED  BY <2>1 DEF AnswersOrOvermatches, AnswersAsPlaintext
<1> QED  BY <1>1, <1>2, <1>3 DEF Next

(* Whatever client, family and column: every answer but that of a fuzzy match is the one   *)
(* that the plaintexts give, a fuzzy match misses no row that it should find, and a needle   *)
(* without an n-gram matches no row that has one, bits shared or not.                      *)
THEOREM NoMatchMissed == Spec => []AnswersOrOvermatches
<1>1. IInv /\ AnswersOrOvermatches /\ [Next]_vars => AnswersOrOvermatches'
  BY AnsweredInvariant
<1>2. Init => AnswersOrOvermatches
  BY AnsweredInit
<1> QED  BY <1>1, <1>2, IInvHolds, PTL DEF Spec

(* If no two n-grams share a bit of the filter, a fuzzy match finds no row too many either: *)
(* every operator of every domain then answers as the plaintexts would.                  *)
THEOREM AnsweredAsPlaintext ==
  ASSUME BitsDistinct
  PROVE  Spec => []AnswersAsPlaintext
<1>1. IInv /\ AnswersAsPlaintext /\ [Next]_vars => AnswersAsPlaintext'
  BY AnsweredInvariant
<1>2. Init => AnswersAsPlaintext
  BY AnsweredInit
<1> QED  BY <1>1, <1>2, IInvHolds, PTL DEF Spec

=============================================================================
