------------------------------ MODULE Catalog ------------------------------
(* The catalog that every generated artefact is rendered from: the search terms, the  *)
(* domains of a family as lists of terms, and the names both get                      *)
(* (crates/eql-domains).  It is a constant table with a few functions over it; the    *)
(* modules that render SQL and Rust from it extend this one.                          *)
(*                                                                                    *)
(* A name is the sequence of its segments, which the code joins with `_`: the domain  *)
(* `eql_v3_text_ord_ore` is <<"eql_v3", "text", "ord", "ore">>.                       *)
EXTENDS Naturals, Sequences, SequencesExt

CONSTANT
  \* The families of the catalog: eql-domains lists eleven, of which eight share one
  \* list of domains.
  CatalogFamilies

(***************************************************************************)
(* Terms.                                                                  *)
(***************************************************************************)
Terms == {"Hm", "Ore", "Bloom", "Ope"}

JsonKey == [Hm |-> "hm", Ore |-> "ob", Bloom |-> "bf", Ope |-> "op"]

\* The SQL function that reads the term, and the internal constructor it calls.
Extractor == [Hm |-> "eq_term", Ore |-> "ord_term_ore", Bloom |-> "match_term", Ope |-> "ord_term"]
Ctor == [Hm |-> "hmac_256", Ore |-> "ore_block_256", Bloom |-> "bloom_filter", Ope |-> "ope_cllw"]

\* The Rust type of the term in a payload struct.
BindingNewtype == [Hm |-> "Hmac256", Ore |-> "OreBlock256", Bloom |-> "BloomFilter", Ope |-> "OpeCllw"]

EqualityOps == {"=", "<>"}
OrderOps == {"<", "<=", ">", ">="}

TermOperators ==
  [Hm |-> EqualityOps, Ore |-> EqualityOps \union OrderOps, Bloom |-> {"@@"},
   Ope |-> EqualityOps \union OrderOps]

\* The hand-written files a term needs installed before its extractor.
TermFiles ==
  [Hm |-> {<<"hmac_256", "functions">>},
   Ore |-> {<<"ore_block_256", "functions">>, <<"ore_block_256", "operators">>},
   Bloom |-> {<<"bloom_filter", "functions">>},
   Ope |-> {<<"ope_cllw", "functions">>}]

ProvidesOrdering(t) == t \in {"Ore", "Ope"}

\* A bug to catch: a filter without a bit refused too.
HasNonemptyArrayAny(t) == t \in {"Ore", "Bloom"}

\* A term whose value is an array that the CHECK of a domain requires not to be empty.
HasNonemptyArray(t) == t = "Ore"

(***************************************************************************)
(* Functions over the list of terms of a domain.                           *)
(***************************************************************************)
\* The terms with a key of their own, the first of those that share one; their order is
\* left out.
DedupeBy(terms, key) ==
  {terms[i] : i \in {j \in DOMAIN terms : \A k \in 1 .. j - 1 : key[terms[k]] # key[terms[j]]}}

OperatorsForTerms(terms) == UNION {TermOperators[t] : t \in ToSet(terms)}
TermJsonKeys(terms) == {JsonKey[t] : t \in ToSet(terms)}
NonemptyArrayKeys(terms) == {JsonKey[t] : t \in {u \in ToSet(terms) : HasNonemptyArray(u)}}
ExtractorTerms(terms) == DedupeBy(terms, Extractor)
TermRequires(terms) == UNION {TermFiles[t] : t \in ToSet(terms)}

\* The first term of the list that answers the operator, if there is one.
TermForOperator(terms, op) ==
  {terms[i] : i \in {j \in DOMAIN terms : /\ op \in TermOperators[terms[j]]
                                          /\ \A k \in 1 .. j - 1 : op \notin TermOperators[terms[k]]}}

(***************************************************************************)
(* Families and their domains.                                             *)
(***************************************************************************)
Domain(name, terms, shape) == [name |-> name, terms |-> terms, shape |-> shape]
Scalar(name, terms) == Domain(name, terms, "Scalar")

OrderedDomains ==
  <<Scalar(<<>>, <<>>), Scalar(<<"eq">>, <<"Hm">>), Scalar(<<"ord", "ore">>, <<"Ore">>),
    Scalar(<<"ord">>, <<"Ope">>), Scalar(<<"ord", "ope">>, <<"Ope">>)>>

\* A bug to catch: the ordering term before `hm`.
TextDomainsOrdFirst ==
  <<Scalar(<<>>, <<>>), Scalar(<<"eq">>, <<"Hm">>), Scalar(<<"match">>, <<"Bloom">>),
    Scalar(<<"ord", "ore">>, <<"Ore", "Hm">>), Scalar(<<"ord">>, <<"Ope", "Hm">>),
    Scalar(<<"ord", "ope">>, <<"Ope", "Hm">>),
    Scalar(<<"search", "ore">>, <<"Ore", "Hm", "Bloom">>),
    Scalar(<<"search">>, <<"Ope", "Hm", "Bloom">>)>>

\* Text equality is decided by `hm`: the ordering terms are not exact for text.
TextDomains ==
  <<Scalar(<<>>, <<>>), Scalar(<<"eq">>, <<"Hm">>), Scalar(<<"match">>, <<"Bloom">>),
    Scalar(<<"ord", "ore">>, <<"Hm", "Ore">>), Scalar(<<"ord">>, <<"Hm", "Ope">>),
    Scalar(<<"ord", "ope">>, <<"Hm", "Ope">>),
    Scalar(<<"search", "ore">>, <<"Hm", "Ore", "Bloom">>),
    Scalar(<<"search">>, <<"Hm", "Ope", "Bloom">>)>>

StorageOnlyDomains == <<Scalar(<<>>, <<>>)>>

JsonDomains ==
  <<Domain(<<"search">>, <<>>, "SteVec"), Domain(<<"entry">>, <<>>, "SteVec"),
    Domain(<<"query">>, <<>>, "SteVec"), Scalar(<<>>, <<>>)>>

Catalog ==
  [f \in CatalogFamilies |->
     CASE f = "text" -> TextDomains
       [] f = "boolean" -> StorageOnlyDomains
       [] f = "json" -> JsonDomains
       [] OTHER -> OrderedDomains]

DomainsOf(f) == ToSet(Catalog[f])
IsScalar(d) == d.shape = "Scalar"
ScalarFamilies == {f \in CatalogFamilies : \A d \in DomainsOf(f) : IsScalar(d)}
FamiliesWithScalarDomains == {f \in CatalogFamilies : \E d \in DomainsOf(f) : IsScalar(d)}

(***************************************************************************)
(* Names.                                                                  *)
(***************************************************************************)
IsSteVecQuery(d) == d.shape = "SteVec" /\ d.name = <<"query">>

FullName(f, d) == IF IsSteVecQuery(d) THEN <<"query", f>> ELSE <<f>> \o d.name
SqlTypname(f, d) == IF IsSteVecQuery(d) THEN FullName(f, d) ELSE <<"eql_v3">> \o FullName(f, d)
QueryName(f, d) == <<"query">> \o FullName(f, d)

\* The Rust type, its segments capitalised and joined.
RustStructName(f, d) ==
  CASE IsScalar(d) -> FullName(f, d)
    [] d.shape = "SteVec" /\ d.name = <<"search">> -> <<"ste", "vec", "document">>
    [] OTHER -> <<"ste", "vec">> \o d.name

EnvelopeKeys == {"v", "i", "c"}

=============================================================================
