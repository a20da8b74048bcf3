---------------------------- MODULE SqlRendering ----------------------------
(* The SQL that crates/eql-codegen renders from the catalog: which files it writes,   *)
(* which objects each creates and calls, and which files each names in its REQUIRE    *)
(* lines.  The text of a statement is left out; what it creates, reads and checks is   *)
(* kept.                                                                              *)
(*                                                                                    *)
(* A type is the sequence of its name's segments, its schema first.  A file is        *)
(*   [requires, types, functions, operators, calls]: the files it requires, the        *)
(* domains it creates, its functions and operators, and what else it refers to.       *)
EXTENDS Catalog, FiniteSets

\* The rows <<key, value>> as a function from keys to values.
Table(rows) == [key \in {r[1] : r \in rows} |-> (CHOOSE r \in rows : r[1] = key)[2]]

(***************************************************************************)
(* Types.                                                                  *)
(***************************************************************************)
Jsonb == <<"jsonb">>
BaseTypes == {Jsonb, <<"text">>, <<"integer">>, <<"text[]">>, <<"jsonpath">>}

\* Storage domains live in `public`, query operands in `eql_v3`.
DomainName(f, d) == <<"public">> \o SqlTypname(f, d)
QueryDomainName(f, d) == <<"eql_v3">> \o QueryName(f, d)

JsonType(name) == <<"public", "eql_v3", "json">> \o name
JsonEntryType == JsonType(<<"entry">>)
JsonSearchType == JsonType(<<"search">>)
JsonQueryType == <<"eql_v3", "query", "json">>

(***************************************************************************)
(* The operators of jsonb that every domain must answer or block, with the *)
(* signatures they are declared at.  "Domain" stands for the domain itself *)
(* in a signature.                                                         *)
(***************************************************************************)
Comparisons == EqualityOps \union OrderOps

\* A bug to catch: jsonb on the left forgotten.
SymmetricFromTheLeft == {<<"Domain", "jsonb">>, <<"Domain", "Domain">>}

\* A bug to catch: only the pairs with jsonb, for that is what clients send.
SymmetricMixed == {<<"Domain", "jsonb">>, <<"jsonb", "Domain">>}

SymmetricSignatures == {<<"Domain", "jsonb">>, <<"jsonb", "Domain">>, <<"Domain", "Domain">>}
ArrowSignatures == {<<"Domain", "text">>, <<"Domain", "integer">>, <<"jsonb", "Domain">>}
TextArraySignatures == {<<"Domain", "text[]">>}
JsonpathSignatures == {<<"Domain", "jsonpath">>}
DeleteSignatures == {<<"Domain", "text">>, <<"Domain", "integer">>, <<"Domain", "text[]">>}

OperatorSymbols ==
  Comparisons \union {"@>", "<@", "->", "->>", "?", "?|", "?&", "@?", "@@", "#>", "#>>", "-", "#-", "||"}

Signatures(op) ==
  CASE op \in Comparisons \union {"@>", "<@", "||"} -> SymmetricSignatures
    [] op = "@@" -> SymmetricSignatures \union JsonpathSignatures
    [] op \in {"->", "->>"} -> ArrowSignatures
    [] op = "?" -> {<<"Domain", "text">>}
    [] op = "@?" -> JsonpathSignatures
    [] op = "-" -> DeleteSignatures
    [] OTHER -> TextArraySignatures

\* `@@` is a jsonpath predicate of jsonb and the fuzzy match of a domain: the
\* signature of the former is a blocker on every domain.
BlockerOnly(op, sig) == op = "@@" /\ sig = <<"Domain", "jsonpath">>

Rendered(slot, dom) == IF slot = "Domain" THEN dom ELSE <<slot>>

\* The function behind a blocker has the quoted symbol for a name, if not one of these.
BlockerNames == [s \in Comparisons \union {"@>", "<@"} |->
  CASE s = "=" -> "eq" [] s = "<>" -> "neq" [] s = "<" -> "lt" [] s = "<=" -> "lte"
    [] s = ">" -> "gt" [] s = ">=" -> "gte" [] s = "@>" -> "contains" [] OTHER -> "contained_by"]
FunctionName(op) == IF op \in DOMAIN BlockerNames THEN BlockerNames[op] ELSE op

WrapperFunctionName(op) == IF op = "@@" THEN "matches" ELSE FunctionName(op)
BodyOperator(op) == IF op = "@@" THEN "@>" ELSE op

\* The empty set is contained in every other: an empty needle must not match a row
\* that is not empty itself.
NeedsEmptyBloomGuard(op) == op = "@@"

\* What the planner is told: a OP b as b OP' a, and NOT (a OP b) as a OP' b.
Negator(op) ==
  CASE op = "=" -> "<>" [] op = "<>" -> "=" [] op = "<" -> ">=" [] op = ">=" -> "<"
    [] op = ">" -> "<=" [] op = "<=" -> ">" [] OTHER -> "none"

\* A bug to catch: the negator where the commutator belongs.
CommutatorNegates(op) ==
  IF op \in OrderOps THEN Negator(op) ELSE IF op \in EqualityOps THEN op ELSE "none"

Commutator(op) ==
  CASE op \in EqualityOps -> op
    [] op = "<" -> ">" [] op = ">" -> "<" [] op = "<=" -> ">=" [] op = ">=" -> "<="
    [] op = "@>" -> "<@" [] op = "<@" -> "@>" [] OTHER -> "none"

(***************************************************************************)
(* Objects, and the entries of a functions file and of an operators file.  *)
(***************************************************************************)
Object(kind, schema, name, args) == [kind |-> kind, schema |-> schema, name |-> name, args |-> args]
Fn(schema, name, args) == Object("function", schema, name, args)
Op(symbol, left, right) == Object("operator", "public", symbol, <<left, right>>)
Type(T) == Object("type", T[1], "", <<T>>)

\* The type that a term's extractor returns.
TermType(t) == <<"eql_v3_internal", Ctor[t]>>

\* Ordinary comparison of text, bytea and smallint[] serves three of the terms; ORE
\* brings operators of its own.
BodyCalls(op, t) == IF t = "Ore" THEN {Op(op, TermType(t), TermType(t))} ELSE {}

Entry(kind, fn, op, dom, term, calls) ==
  [kind |-> kind, fn |-> fn, op |-> op, dom |-> dom, term |-> term, calls |-> calls]

ExtractorEntry(dom, t) ==
  Entry("extractor", Fn("eql_v3", Extractor[t], <<dom>>), "", dom, t,
        {Fn("eql_v3_internal", Ctor[t], <<Jsonb>>)})

\* An operand of type jsonb is cast to the domain first.
ExtractArg(arg, t, dom) == Fn("eql_v3", Extractor[t], <<IF arg = Jsonb THEN dom ELSE arg>>)

WrapperEntry(dom, op, a, b, t) ==
  Entry("wrapper", Fn("eql_v3", WrapperFunctionName(op), <<a, b>>), BodyOperator(op), dom, t,
        {ExtractArg(a, t, dom), ExtractArg(b, t, dom)} \union BodyCalls(BodyOperator(op), t))

\* A blocker raises by itself and calls nothing.
UnsupportedEntry(op, a, b) ==
  Entry("blocker", Fn("eql_v3_internal", FunctionName(op), <<a, b>>), op, a, "", {})

OperatorEntry(op, a, b, supported) ==
  [op |-> Op(op, a, b),
   procedure |-> IF supported THEN Fn("eql_v3", WrapperFunctionName(op), <<a, b>>)
                 ELSE Fn("eql_v3_internal", FunctionName(op), <<a, b>>),
   commutator |-> IF supported THEN Commutator(op) ELSE "none",
   negator |-> IF supported THEN Negator(op) ELSE "none"]

File(requires, types, functions, operators, calls) ==
  [requires |-> requires, types |-> types, functions |-> functions,
   operators |-> operators, calls |-> calls]

TypesOnly(requires, types) == File(requires, types, {}, {}, {})
FunctionsFile(requires, entries) == File(requires, {}, entries, {}, {})
OperatorsFile(requires, entries) == File(requires, {}, {}, entries, {})

(***************************************************************************)
(* The CHECK of a domain: the keys a payload must have, those of them that *)
(* must hold an array with something in it, and those it must not have.    *)
(***************************************************************************)
DomainBlock(f, d) ==
  [typname |-> DomainName(f, d), keys |-> EnvelopeKeys \union TermJsonKeys(d.terms),
   nonempty |-> NonemptyArrayKeys(d.terms), forbidden |-> {}]

\* A bug to catch: a query operand checked for its envelope alone.
QueryDomainBlockEnvelope(f, d) ==
  [typname |-> QueryDomainName(f, d), keys |-> EnvelopeKeys \ {"c"}, nonempty |-> {}, forbidden |-> {"c"}]

QueryDomainBlock(f, d) ==
  [typname |-> QueryDomainName(f, d), keys |-> (EnvelopeKeys \ {"c"}) \union TermJsonKeys(d.terms),
   nonempty |-> NonemptyArrayKeys(d.terms), forbidden |-> {"c"}]

(***************************************************************************)
(* The files of a family.  A path is a sequence of segments too.           *)
(***************************************************************************)
Schema == <<"schema">>
ScalarsBlocker == <<"scalars", "functions">>
OreOpclass == <<"ore_block_256", "operator_class">>
JsonTypes == <<"json", "types">>
JsonFunctions == <<"json", "functions">>

ScalarPath(f, name, suffix) == <<"scalars", f>> \o name \o <<suffix>>
TypesPath(f) == ScalarPath(f, <<f>>, "types")
QueryTypesPath(f) == ScalarPath(f, <<"query", f>>, "types")
FunctionsPath(f, name) == ScalarPath(f, name, "functions")
OperatorsPath(f, name) == ScalarPath(f, name, "operators")
JsonEntryStem(f) == <<"json", "entry", f>>

RenderTypesFile(f) ==
  TypesOnly({Schema}, {DomainBlock(f, d) : d \in {e \in DomainsOf(f) : IsScalar(e)}})

\* A domain without a term has nothing to be queried by.
Queryable(f) == {d \in DomainsOf(f) : d.terms # <<>>}
RenderQueryTypesFile(f) == TypesOnly({Schema}, {QueryDomainBlock(f, d) : d \in Queryable(f)})

\* A bug to catch: the files of the terms left out.
FunctionsRequiresOwn(f, terms) == {Schema, TypesPath(f), ScalarsBlocker}

FunctionsRequires(f, terms) == {Schema, TypesPath(f), ScalarsBlocker} \union TermRequires(terms)

IsSupported(d, op) == op \in OperatorsForTerms(d.terms)
RowsOf(ops) == UNION {{op} \X Signatures(op) : op \in ops}

RenderFunctionsFile(f, d) ==
  LET dom == DomainName(f, d)
      EntryOf(op, sig) ==
        LET a == Rendered(sig[1], dom)
            b == Rendered(sig[2], dom)
        IN IF IsSupported(d, op) /\ ~BlockerOnly(op, sig)
             THEN {WrapperEntry(dom, op, a, b, t) : t \in TermForOperator(d.terms, op)}
             ELSE {UnsupportedEntry(op, a, b)}
  IN FunctionsFile(FunctionsRequires(f, d.terms),
       {ExtractorEntry(dom, t) : t \in ExtractorTerms(d.terms)}
         \union UNION {EntryOf(r[1], r[2]) : r \in RowsOf(OperatorSymbols)})

RenderOperatorsFile(f, d) ==
  LET dom == DomainName(f, d)
      name == FullName(f, d)
  IN OperatorsFile({Schema, TypesPath(f), FunctionsPath(f, name)},
       {OperatorEntry(r[1], Rendered(r[2][1], dom), Rendered(r[2][2], dom),
                      IsSupported(d, r[1]) /\ ~BlockerOnly(r[1], r[2])) : r \in RowsOf(OperatorSymbols)})

\* A column against its query operand, in either order, where the terms answer.
BothWays(a, b) == {<<a, b>>, <<b, a>>}

RenderQueryFunctionsFile(f, d) ==
  LET query == QueryDomainName(f, d)
      Wrappers(op) == {WrapperEntry(query, op, s[1], s[2], t) :
                         s \in BothWays(DomainName(f, d), query), t \in TermForOperator(d.terms, op)}
  IN FunctionsFile({Schema, QueryTypesPath(f), FunctionsPath(f, FullName(f, d))},
       {ExtractorEntry(query, t) : t \in ExtractorTerms(d.terms)}
         \union UNION {Wrappers(op) : op \in OperatorsForTerms(d.terms)})

RenderQueryOperatorsFile(f, d) ==
  OperatorsFile({Schema, QueryTypesPath(f), FunctionsPath(f, QueryName(f, d))},
    {OperatorEntry(op, s[1], s[2], TRUE) :
       op \in OperatorsForTerms(d.terms), s \in BothWays(DomainName(f, d), QueryDomainName(f, d))})

(***************************************************************************)
(* An entry of an encrypted document against the query operand of a        *)
(* scalar.  An entry has the OPE term and no other, so that order is       *)
(* answered and equality blocked; a date is text in a document and a       *)
(* domain with a bloom filter asks for a term no entry has, so that both   *)
(* are blocked as a whole.                                                 *)
(***************************************************************************)
JsonEntryTerm == "Ope"

HasNativeJsonLeaf(f) == f \notin {"date", "timestamp", "json"}

CrossCandidates(f) == {d \in DomainsOf(f) : JsonEntryTerm \in ToSet(d.terms)}
CrossDomains(f) ==
  IF HasNativeJsonLeaf(f) THEN {d \in CrossCandidates(f) : "Bloom" \notin ToSet(d.terms)} ELSE {}
CrossBlockedDomains(f) == CrossCandidates(f) \ CrossDomains(f)

CrossOps == TermOperators[JsonEntryTerm] \ TermOperators["Hm"]
CrossBlockedOps == TermOperators[JsonEntryTerm] \ CrossOps

\* A bug to catch: the operands that are not served left undeclared.
CrossRowsServed(f) ==
  {<<op, s, op \in CrossOps>> : op \in CrossOps \union CrossBlockedOps,
     s \in UNION {BothWays(JsonEntryType, QueryDomainName(f, d)) : d \in CrossDomains(f)}}

\* Every pair of operands at which the seam declares an operator, and whether it is
\* answered there.
CrossRows(f) ==
  UNION {{<<op, s, op \in CrossOps /\ d \in CrossDomains(f)>> :
            op \in CrossOps \union CrossBlockedOps, s \in BothWays(JsonEntryType, QueryDomainName(f, d))} :
           d \in CrossDomains(f) \union CrossBlockedDomains(f)}

RenderCrossFunctions(f) ==
  FunctionsFile({Schema, JsonTypes, JsonFunctions, QueryTypesPath(f)}
                  \union {FunctionsPath(f, QueryName(f, d)) : d \in CrossDomains(f)},
    {IF r[3] THEN WrapperEntry(JsonEntryType, r[1], r[2][1], r[2][2], JsonEntryTerm)
     ELSE UnsupportedEntry(r[1], r[2][1], r[2][2]) : r \in CrossRows(f)})

RenderCrossOperators(f) ==
  OperatorsFile({Schema, JsonTypes, QueryTypesPath(f), FunctionsPath(f, JsonEntryStem(f))},
    {OperatorEntry(r[1], r[2][1], r[2][2], r[3]) : r \in CrossRows(f)})

(***************************************************************************)
(* Aggregates, and the file that takes the ORE domains out of service.     *)
(***************************************************************************)
AggregateOps == [min |-> "<", max |-> ">"]
IsOrdCapable(terms) == \E t \in ToSet(terms) : ProvidesOrdering(t)

RenderAggregatesFile(f, d) ==
  LET dom == DomainName(f, d)
      name == FullName(f, d)
  IN File({Schema, TypesPath(f), FunctionsPath(f, name), OperatorsPath(f, name)}, {}, {}, {},
          {Op(AggregateOps[a], dom, dom) : a \in DOMAIN AggregateOps})

OreDomains(f) == {d \in DomainsOf(f) : "Ore" \in ToSet(d.terms)}
OreFamilies == {f \in ScalarFamilies : OreDomains(f) # {}}

RenderOreFallback ==
  File({Schema, OreOpclass} \union UNION {{TypesPath(f), QueryTypesPath(f)} : f \in OreFamilies},
       {}, {}, {},
       UNION {UNION {{Type(DomainName(f, d)), Type(QueryDomainName(f, d))} : d \in OreDomains(f)} : f \in OreFamilies})

(***************************************************************************)
(* All files of a family, with their paths.                                *)
(***************************************************************************)
StorageFiles(f, d) ==
  {<<FunctionsPath(f, FullName(f, d)), RenderFunctionsFile(f, d)>>,
   <<OperatorsPath(f, FullName(f, d)), RenderOperatorsFile(f, d)>>}

\* A domain without a term gets no query twin: there is nothing to query it by.
QueryFiles(f, d) ==
  IF d.terms = <<>> THEN {}
  ELSE {<<FunctionsPath(f, QueryName(f, d)), RenderQueryFunctionsFile(f, d)>>,
        <<OperatorsPath(f, QueryName(f, d)), RenderQueryOperatorsFile(f, d)>>}

AggregateFiles(f, d) ==
  IF IsOrdCapable(d.terms)
    THEN {<<ScalarPath(f, FullName(f, d), "aggregates"), RenderAggregatesFile(f, d)>>} ELSE {}

CrossFiles(f) ==
  IF CrossDomains(f) \union CrossBlockedDomains(f) = {} THEN {}
  ELSE {<<FunctionsPath(f, JsonEntryStem(f)), RenderCrossFunctions(f)>>,
        <<OperatorsPath(f, JsonEntryStem(f)), RenderCrossOperators(f)>>}

TypeFiles(f) ==
  {<<TypesPath(f), RenderTypesFile(f)>>}
    \union (IF Queryable(f) = {} THEN {} ELSE {<<QueryTypesPath(f), RenderQueryTypesFile(f)>>})

RenderType(f) ==
  TypeFiles(f) \union CrossFiles(f)
    \union UNION {StorageFiles(f, d) \union QueryFiles(f, d) \union AggregateFiles(f, d) :
                    d \in {e \in DomainsOf(f) : IsScalar(e)}}

\* generate_all renders every family with a scalar domain, and the ORE fallback.
GeneratedFiles ==
  (UNION {RenderType(f) : f \in FamiliesWithScalarDomains})
    \union {<< <<"scalars", "ore_fallback">>, RenderOreFallback>>}

=============================================================================
