------------------------------ MODULE Bindings ------------------------------
(* The Rust payload types: the structs that crates/eql-codegen renders from the        *)
(* catalog (bindings.rs), the hand-written structs of documents, the tables that find    *)
(* a struct by the name of its domain, and the strict parse of a JSON value through one  *)
(* (crates/eql-bindings, lib.rs and v3/).                                               *)
(*                                                                                    *)
(* A JSON value is tagged with its kind: a number, a string, an array (a sequence of     *)
(* values) or an object (a function from its keys to values).                            *)
EXTENDS SqlRendering, Integers

Num(n) == <<"num", n>>
Str(x) == <<"str", x>>
Arr(elements) == <<"arr", elements>>
Obj(fields) == <<"obj", fields>>
Null == <<"null", 0>>
Absent == <<"absent", 0>>

IsNum(j) == j[1] = "num"
IsBool(j) == j[1] = "bool"
IsStr(j) == j[1] = "str"
IsArr(j) == j[1] = "arr"
IsObj(j) == j[1] = "obj"
Keys(j) == IF IsObj(j) THEN DOMAIN j[2] ELSE {}
Get(j, key) == IF key \in Keys(j) THEN j[2][key] ELSE Absent

(***************************************************************************)
(* Structs.  A field has the newtype of its key; the option of term keys    *)
(* is a set of at most one set of keys.                                     *)
(***************************************************************************)
IsI16(n) == -32768 <= n /\ n <= 32767
EqlSchemaVersion == 3

Struct(ident, sql_domain, term_keys, fields, optional) ==
  [ident |-> ident, sql_domain |-> sql_domain, term_keys |-> term_keys,
   fields |-> fields, optional |-> optional]

Envelope == [v |-> "SchemaVersion", i |-> "Identifier", c |-> "Ciphertext"]
QueryEnvelope == [v |-> "SchemaVersion", i |-> "Identifier"]

TermAt(terms, key) == CHOOSE t \in ToSet(terms) : JsonKey[t] = key

\* The envelope and the terms.
Fields(envelope, terms) ==
  [key \in DOMAIN envelope \union TermJsonKeys(terms) |->
     IF key \in DOMAIN envelope THEN envelope[key]
     ELSE BindingNewtype[TermAt(terms, key)]]

RenderStruct(f, d) ==
  Struct(RustStructName(f, d), DomainName(f, d), {TermJsonKeys(d.terms)},
         Fields(Envelope, d.terms), {})

\* A query operand carries no ciphertext.
RenderQueryStruct(f, d) ==
  Struct(RustStructName(f, d) \o <<"query">>, QueryDomainName(f, d), {TermJsonKeys(d.terms)},
         Fields(QueryEnvelope, d.terms), {})

RenderScalarOnlyBindings(f) ==
  {RenderStruct(f, d) : d \in {e \in DomainsOf(f) : IsScalar(e)}}
    \union {RenderQueryStruct(f, d) : d \in {e \in Queryable(f) : IsScalar(e)}}

RenderFamilyBindings(f) ==
  {RenderStruct(f, d) : d \in DomainsOf(f)} \union {RenderQueryStruct(f, d) : d \in Queryable(f)}

\* Documents, whose terms are in their entries, are written by hand.
SteVecDocument ==
  Struct(<<"ste", "vec", "document">>, JsonSearchType, {},
         [v |-> "SchemaVersion", k |-> "SteVecForm", i |-> "Identifier", h |-> "KeyHeader",
          sv |-> "Vec<SteVecEntry>"], {})
SteVecEntry ==
  Struct(<<"ste", "vec", "entry">>, JsonEntryType, {},
         [s |-> "Selector", c |-> "EntryCiphertext", a |-> "bool", op |-> "OpeCllw",
          i |-> "Identifier", v |-> "SchemaVersion", h |-> "KeyHeader"],
         {"a", "op", "i", "v", "h"})
SteVecQueryEntry ==
  Struct(<<"ste", "vec", "query", "entry">>, <<>>, {}, [s |-> "Selector", op |-> "OpeCllw"], {"op"})
SteVecQuery ==
  Struct(<<"ste", "vec", "query">>, JsonQueryType, {}, [sv |-> "Vec<SteVecQueryEntry>"], {})

JsonModule(f) == {SteVecDocument, SteVecEntry, SteVecQuery} \union RenderScalarOnlyBindings(f)

(***************************************************************************)
(* The generated tables, which name a struct by its module and identifier.  *)
(***************************************************************************)
Modules ==
  [f \in FamiliesWithScalarDomains |->
     IF f \in ScalarFamilies THEN RenderFamilyBindings(f) ELSE JsonModule(f)]
StructAt(module, ident) == CHOOSE s \in Modules[module] : s.ident = ident

RenderInventory ==
  UNION {{StructAt(f, RustStructName(f, d)) : d \in DomainsOf(f)} : f \in CatalogFamilies}

StoredPayloadDomains ==
  UNION {{f} \X {d \in DomainsOf(f) : IsScalar(d) \/ FullName(f, d) = <<"json", "search">>} :
           f \in CatalogFamilies}

StoredStruct(p) == StructAt(p[1], RustStructName(p[1], p[2]))

\* A bug to catch: the table keyed by the name without its version prefix.
RenderPayloadUnprefixed ==
  Table({<<FullName(p[1], p[2]), StoredStruct(p)>> : p \in StoredPayloadDomains})

RenderPayload == Table({<<SqlTypname(p[1], p[2]), StoredStruct(p)>> : p \in StoredPayloadDomains})

QueryPayloadDomains ==
  UNION {{f} \X Queryable(f) : f \in ScalarFamilies}

QueryStruct(p) == StructAt(p[1], RustStructName(p[1], p[2]) \o <<"query">>)

RenderQueryPayload ==
  Table({<<QueryName(p[1], p[2]), QueryStruct(p)>> : p \in QueryPayloadDomains}
          \union {<< <<"query", "json">>, StructAt("json", SteVecQuery.ident)>>})

(***************************************************************************)
(* The strict parse.                                                        *)
(***************************************************************************)
Strings == {"Ciphertext", "Hmac256", "OpeCllw", "KeyHeader", "EntryCiphertext", "Selector"}

\* A derived struct takes the sequence of its fields for the object.
FitsIdentifier(j) ==
  \/ Keys(j) = {"t", "c"} /\ IsStr(Get(j, "t")) /\ IsStr(Get(j, "c"))
  \/ IsArr(j) /\ DOMAIN j[2] = 1 .. 2 /\ IsStr(j[2][1]) /\ IsStr(j[2][2])

FitsNewtype(newtype, j) ==
  \/ newtype \in Strings /\ IsStr(j)
  \/ newtype = "bool" /\ IsBool(j)
  \/ newtype = "SchemaVersion" /\ j = Num(EqlSchemaVersion)
  \/ newtype = "SteVecForm" /\ j = Str("sv")
  \/ newtype = "Identifier" /\ FitsIdentifier(j)
  \/ newtype = "OreBlock256" /\ IsArr(j) /\ \A n \in DOMAIN j[2] : IsStr(j[2][n])
  \/ newtype = "BloomFilter" /\ IsArr(j) /\ \A n \in DOMAIN j[2] : IsNum(j[2][n]) /\ IsI16(j[2][n][2])

\* Every field that is not optional, and no other key; an optional field may be null.
HasFields(struct, j) ==
  /\ IsObj(j)
  /\ DOMAIN struct.fields \ struct.optional \subseteq Keys(j)
  /\ Keys(j) \subseteq DOMAIN struct.fields
NullOption(struct, key, j) == key \in struct.optional /\ Get(j, key) = Null

\* An entry of a document is flat.
ParsesEntry(struct, j) ==
  /\ HasFields(struct, j)
  /\ \A key \in Keys(j) : FitsNewtype(struct.fields[key], Get(j, key)) \/ NullOption(struct, key, j)

FitsField(newtype, j) ==
  \/ FitsNewtype(newtype, j)
  \/ /\ IsArr(j)
     /\ \/ newtype = "Vec<SteVecEntry>" /\ \A n \in DOMAIN j[2] : ParsesEntry(SteVecEntry, j[2][n])
        \/ newtype = "Vec<SteVecQueryEntry>" /\ \A n \in DOMAIN j[2] : ParsesEntry(SteVecQueryEntry, j[2][n])

Deserializes(struct, j) ==
  /\ HasFields(struct, j)
  /\ \A key \in Keys(j) : FitsField(struct.fields[key], Get(j, key)) \/ NullOption(struct, key, j)

\* The name without its schema.
UnqualifiedDomain(struct) == Tail(struct.sql_domain)

Inventory == RenderInventory
DomainPayload == RenderPayload
QueryPayload == RenderQueryPayload

=============================================================================
