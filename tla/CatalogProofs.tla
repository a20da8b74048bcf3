---------------------------- MODULE CatalogProofs ----------------------------
(* What holds of every catalog: the lists of domains and terms, the names that tell one  *)
(* domain from another, and what the terms of a domain answer.  The proofs about what is  *)
(* rendered from the catalog rest on these lemmas.                                      *)
EXTENDS SqlRendering, TermSemantics, SequenceTheorems, FiniteSetTheorems, TLAPS

(***************************************************************************)
(* Short sequences, and the names that the catalog makes of them.          *)
(***************************************************************************)
\* Literal tuples end to end.
LEMMA AppendedPair ==
  ASSUME NEW a, NEW b, NEW c
  PROVE  <<a, b>> \o <<c>> = <<a, b, c>>
<1> DEFINE S == {a, b, c}
           s == <<a, b>> \o <<c>>
           t == <<a, b, c>>
<1>1. /\ <<a, b>> \in Seq(S) /\ <<c>> \in Seq(S) /\ t \in Seq(S)
      /\ Len(<<a, b>>) = 2 /\ Len(<<c>>) = 1 /\ Len(t) = 3
  OBVIOUS
<1>2. /\ t[1] = a /\ t[2] = b /\ t[3] = c
      /\ <<a, b>>[1] = a /\ <<a, b>>[2] = b /\ <<c>>[1] = c
  OBVIOUS
<1> HIDE DEF S, t
<1>3. /\ s \in Seq(S) /\ Len(s) = 3
      /\ \A i \in 1 .. 3 : s[i] = IF i <= 2 THEN <<a, b>>[i] ELSE <<c>>[i - 2]
  BY <1>1, ConcatProperties
<1> HIDE DEF s
<1>4. s[1] = a /\ s[2] = b /\ s[3] = c
  BY <1>2, <1>3
<1>5. \A i \in 1 .. 3 : s[i] = t[i]
  BY <1>2, <1>4
<1>6. s = t
  BY <1>1, <1>3, <1>5, SeqEqual
<1> QED  BY <1>6 DEF s, t

LEMMA AppendedWord ==
  ASSUME NEW a, NEW b, NEW c, NEW d
  PROVE  <<a, b, c>> \o <<d>> = <<a, b, c, d>>
<1> DEFINE S == {a, b, c, d}
           s == <<a, b, c>> \o <<d>>
           t == <<a, b, c, d>>
<1>1. /\ <<a, b, c>> \in Seq(S) /\ <<d>> \in Seq(S) /\ t \in Seq(S)
      /\ Len(<<a, b, c>>) = 3 /\ Len(<<d>>) = 1 /\ Len(t) = 4
  OBVIOUS
<1>2. /\ t[1] = a /\ t[2] = b /\ t[3] = c /\ t[4] = d
      /\ <<a, b, c>>[1] = a /\ <<a, b, c>>[2] = b /\ <<a, b, c>>[3] = c /\ <<d>>[1] = d
  OBVIOUS
<1> HIDE DEF S, t
<1>3. /\ s \in Seq(S) /\ Len(s) = 4
      /\ \A i \in 1 .. 4 : s[i] = IF i <= 3 THEN <<a, b, c>>[i] ELSE <<d>>[i - 3]
  BY <1>1, ConcatProperties
<1> HIDE DEF s
<1>4. s[1] = a /\ s[2] = b /\ s[3] = c /\ s[4] = d
  BY <1>2, <1>3
<1>5. \A i \in 1 .. 4 : s[i] = t[i]
  BY <1>2, <1>4
<1>6. s = t
  BY <1>1, <1>3, <1>5, SeqEqual
<1> QED  BY <1>6 DEF s, t

\* The segments of a name.
Words ==
  {"eq", "match", "ord", "ore", "ope", "search", "entry", "query", "eql_v3", "public", "ste", "vec",
   "document"}
Segments == CatalogFamilies \union Words

LEMMA Consed ==
  ASSUME NEW S, NEW a \in S, NEW s \in Seq(S)
  PROVE  /\ <<a>> \o s \in Seq(S)
         /\ Len(<<a>> \o s) = Len(s) + 1
         /\ Head(<<a>> \o s) = a
         /\ Tail(<<a>> \o s) = s
<1>1. <<a>> \in Seq(S) /\ Len(<<a>>) = 1 /\ <<a>>[1] = a
  OBVIOUS
<1>2. /\ <<a>> \o s \in Seq(S)
      /\ Len(<<a>> \o s) = 1 + Len(s)
      /\ \A i \in 1 .. 1 + Len(s) : (<<a>> \o s)[i] = IF i <= 1 THEN <<a>>[i] ELSE s[i - 1]
  BY <1>1, ConcatProperties
<1>3. Len(s) \in Nat
  BY LenProperties
<1>4. <<a>> \o s # <<>>
  BY <1>2, <1>3, EmptySeq
<1>5. Head(<<a>> \o s) = a
  BY <1>1, <1>2, <1>3, <1>4
<1>6. Tail(<<a>> \o s) = s
  <2>1. /\ Tail(<<a>> \o s) \in Seq(S)
        /\ Len(Tail(<<a>> \o s)) = Len(<<a>> \o s) - 1
        /\ \A i \in 1 .. Len(Tail(<<a>> \o s)) : Tail(<<a>> \o s)[i] = (<<a>> \o s)[i + 1]
    BY <1>2, <1>4, HeadTailProperties
  <2>2. Len(Tail(<<a>> \o s)) = Len(s)
    BY <1>2, <1>3, <2>1
  <2>3. \A i \in 1 .. Len(s) : Tail(<<a>> \o s)[i] = s[i]
    <3> SUFFICES ASSUME NEW i \in 1 .. Len(s) PROVE Tail(<<a>> \o s)[i] = s[i]
      OBVIOUS
    <3>1. i + 1 \in 1 .. 1 + Len(s) /\ ~(i + 1 <= 1) /\ (i + 1) - 1 = i
      BY <1>3
    <3>2. (<<a>> \o s)[i + 1] = s[i]
      BY <1>2, <3>1
    <3> QED  BY <2>1, <2>2, <3>2
  <2> QED  BY <2>1, <2>2, <2>3, SeqEqual
<1> QED  BY <1>2, <1>3, <1>5, <1>6

LEMMA ConsedEqual ==
  ASSUME NEW S, NEW a \in S, NEW s \in Seq(S), NEW b \in S, NEW t \in Seq(S),
         <<a>> \o s = <<b>> \o t
  PROVE  a = b /\ s = t
<1>1. a = b
  <2>1. Head(<<a>> \o s) = a
    BY Consed
  <2>2. Head(<<b>> \o t) = b
    BY Consed
  <2> QED  BY <2>1, <2>2
<1>2. s = t
  <2>1. Tail(<<a>> \o s) = s
    BY Consed
  <2>2. Tail(<<b>> \o t) = t
    BY Consed
  <2> QED  BY <2>1, <2>2
<1> QED  BY <1>1, <1>2

\* The elements of the lists of the catalog.
LEMMA TupleElements ==
  /\ ToSet(<<>>) = {}
  /\ \A a : ToSet(<<a>>) = {a}
  /\ \A a, b : ToSet(<<a, b>>) = {a, b}
  /\ \A a, b, c : ToSet(<<a, b, c>>) = {a, b, c}
  /\ \A a, b, c, d : ToSet(<<a, b, c, d>>) = {a, b, c, d}
  /\ \A a, b, c, d, e : ToSet(<<a, b, c, d, e>>) = {a, b, c, d, e}
  /\ \A a, b, c, d, e, g, h, i : ToSet(<<a, b, c, d, e, g, h, i>>) = {a, b, c, d, e, g, h, i}
BY DEF ToSet

\* The names that the domains of a family have, which tell them apart.
NamesTold ==
  {<<>>, <<"eq">>, <<"match">>, <<"ord", "ore">>, <<"ord">>, <<"ord", "ope">>, <<"search", "ore">>,
   <<"search">>}

\* The lists of terms, those of text with their exact term first.
TermLists(f) ==
  IF f = "text"
    THEN {<<>>, <<"Hm">>, <<"Bloom">>, <<"Hm", "Ore">>, <<"Hm", "Ope">>, <<"Hm", "Ore", "Bloom">>,
          <<"Hm", "Ope", "Bloom">>}
    ELSE {<<>>, <<"Hm">>, <<"Ore">>, <<"Ope">>}

LEMMA DomainsListed ==
  ASSUME NEW f \in CatalogFamilies
  PROVE  DomainsOf(f) =
           CASE f = "text" ->
                  {Scalar(<<>>, <<>>), Scalar(<<"eq">>, <<"Hm">>), Scalar(<<"match">>, <<"Bloom">>),
                   Scalar(<<"ord", "ore">>, <<"Hm", "Ore">>), Scalar(<<"ord">>, <<"Hm", "Ope">>),
                   Scalar(<<"ord", "ope">>, <<"Hm", "Ope">>),
                   Scalar(<<"search", "ore">>, <<"Hm", "Ore", "Bloom">>),
                   Scalar(<<"search">>, <<"Hm", "Ope", "Bloom">>)}
             [] f = "boolean" -> {Scalar(<<>>, <<>>)}
             [] f = "json" ->
                  {Domain(<<"search">>, <<>>, "SteVec"), Domain(<<"entry">>, <<>>, "SteVec"),
                   Domain(<<"query">>, <<>>, "SteVec"), Scalar(<<>>, <<>>)}
             [] OTHER ->
                  {Scalar(<<>>, <<>>), Scalar(<<"eq">>, <<"Hm">>), Scalar(<<"ord", "ore">>, <<"Ore">>),
                   Scalar(<<"ord">>, <<"Ope">>), Scalar(<<"ord", "ope">>, <<"Ope">>)}
<1>1. CASE f = "text"
  <2>1. DomainsOf(f) = ToSet(TextDomains)
    BY <1>1 DEF DomainsOf, Catalog
  <2>2. ToSet(TextDomains) =
          {Scalar(<<>>, <<>>), Scalar(<<"eq">>, <<"Hm">>), Scalar(<<"match">>, <<"Bloom">>),
           Scalar(<<"ord", "ore">>, <<"Hm", "Ore">>), Scalar(<<"ord">>, <<"Hm", "Ope">>),
           Scalar(<<"ord", "ope">>, <<"Hm", "Ope">>),
           Scalar(<<"search", "ore">>, <<"Hm", "Ore", "Bloom">>),
           Scalar(<<"search">>, <<"Hm", "Ope", "Bloom">>)}
    BY DEF TextDomains, ToSet
  <2> QED  BY <1>1, <2>1, <2>2
<1>2. CASE f = "boolean"
  <2>1. DomainsOf(f) = ToSet(StorageOnlyDomains)
    BY <1>2 DEF DomainsOf, Catalog
  <2> QED  BY <1>2, <2>1, TupleElements DEF StorageOnlyDomains
<1>3. CASE f = "json"
  <2>1. DomainsOf(f) = ToSet(JsonDomains)
    BY <1>3 DEF DomainsOf, Catalog
  <2> QED  BY <1>3, <2>1, TupleElements DEF JsonDomains
<1>4. CASE f \notin {"text", "boolean", "json"}
  <2>1. DomainsOf(f) = ToSet(OrderedDomains)
    BY <1>4 DEF DomainsOf, Catalog
  <2>2. ToSet(OrderedDomains) =
          {Scalar(<<>>, <<>>), Scalar(<<"eq">>, <<"Hm">>), Scalar(<<"ord", "ore">>, <<"Ore">>),
           Scalar(<<"ord">>, <<"Ope">>), Scalar(<<"ord", "ope">>, <<"Ope">>)}
    BY DEF OrderedDomains, ToSet
  <2> QED  BY <1>4, <2>1, <2>2
<1> QED  BY <1>1, <1>2, <1>3, <1>4

\* The scalar domains of a family.
LEMMA ScalarDomain ==
  ASSUME NEW f \in CatalogFamilies, NEW d \in DomainsOf(f), IsScalar(d)
  PROVE  /\ d.name \in NamesTold
         /\ d.terms \in TermLists(f)
         /\ f = "json" => d = Scalar(<<>>, <<>>)
         /\ d = Scalar(d.name, d.terms)
BY DomainsListed DEF Scalar, Domain, IsScalar, NamesTold, TermLists

\* The domains of documents.
LEMMA DocumentDomain ==
  ASSUME NEW f \in CatalogFamilies, NEW d \in DomainsOf(f), ~IsScalar(d)
  PROVE  /\ f = "json"
         /\ d.name \in {<<"search">>, <<"entry">>, <<"query">>}
         /\ d.shape = "SteVec"
         /\ d.terms = <<>>
BY DomainsListed DEF Scalar, Domain, IsScalar

LEMMA NamesTell ==
  ASSUME NEW f \in CatalogFamilies, NEW d \in DomainsOf(f), NEW e \in DomainsOf(f), d.name = e.name
  PROVE  d = e
<1>1. \A name, terms, shape : Domain(name, terms, shape).name = name
  BY DEF Domain
<1>2. \A name, terms : Scalar(name, terms).name = name
  BY DEF Domain, Scalar
<1>3. /\ \A a : <<>> # <<a>>
      /\ \A a, b : <<>> # <<a, b>>
      /\ \A a, b, c : <<a>> # <<b, c>>
      /\ \A a, b : <<a>> = <<b>> => a = b
      /\ \A a, b, c, g : <<a, b>> = <<c, g>> => a = c /\ b = g
  OBVIOUS
<1>4. CASE f = "text"
  BY <1>2, <1>3, <1>4, DomainsListed
<1>5. CASE f = "boolean"
  BY <1>5, DomainsListed
<1>6. CASE f = "json"
  BY <1>1, <1>2, <1>3, <1>6, DomainsListed
<1>7. CASE f \notin {"text", "boolean", "json"}
  BY <1>2, <1>3, <1>7, DomainsListed
<1> QED  BY <1>4, <1>5, <1>6, <1>7

(***************************************************************************)
(* Names.                                                                  *)
(***************************************************************************)
LEMMA NameSegments ==
  ASSUME NEW f \in CatalogFamilies, NEW d \in DomainsOf(f)
  PROVE  d.name \in Seq(Segments)
<1>1. /\ <<>> \in Seq(Segments)
      /\ \A a \in Segments : <<a>> \in Seq(Segments)
      /\ \A a, b \in Segments : <<a, b>> \in Seq(Segments)
  OBVIOUS
<1>2. /\ "eq" \in Segments /\ "match" \in Segments /\ "ord" \in Segments /\ "ore" \in Segments
      /\ "ope" \in Segments /\ "search" \in Segments /\ "entry" \in Segments /\ "query" \in Segments
  BY DEF Segments, Words
<1>3. CASE IsScalar(d)
  <2>1. d.name \in NamesTold
    BY <1>3, ScalarDomain
  <2> QED  BY <1>1, <1>2, <2>1 DEF NamesTold
<1>4. CASE ~IsScalar(d)
  <2>1. d.name \in {<<"search">>, <<"entry">>, <<"query">>}
    BY <1>4, DocumentDomain
  <2> QED  BY <1>1, <1>2, <2>1
<1> QED  BY <1>3, <1>4

\* The names of a scalar domain, stored and as a query operand.
LEMMA ScalarNames ==
  ASSUME NEW f \in CatalogFamilies, NEW d \in DomainsOf(f), IsScalar(d)
  PROVE  /\ FullName(f, d) = <<f>> \o d.name
         /\ RustStructName(f, d) = FullName(f, d)
         /\ FullName(f, d) \in Seq(Segments)
         /\ SqlTypname(f, d) = <<"eql_v3">> \o FullName(f, d)
         /\ SqlTypname(f, d) \in Seq(Segments)
         /\ Tail(SqlTypname(f, d)) = FullName(f, d)
         /\ Tail(DomainName(f, d)) = SqlTypname(f, d)
         /\ QueryName(f, d) = <<"query">> \o FullName(f, d)
         /\ QueryName(f, d) \in Seq(Segments)
         /\ Tail(QueryDomainName(f, d)) = QueryName(f, d)
<1>1. FullName(f, d) = <<f>> \o d.name /\ SqlTypname(f, d) = <<"eql_v3">> \o FullName(f, d)
  BY DEF IsScalar, IsSteVecQuery, FullName, SqlTypname
<1>2. f \in Segments /\ {"eql_v3", "public", "query"} \subseteq Segments /\ d.name \in Seq(Segments)
  BY NameSegments DEF Segments, Words
<1>3. FullName(f, d) \in Seq(Segments)
  BY <1>1, <1>2, Consed
<1>4. SqlTypname(f, d) \in Seq(Segments) /\ Tail(SqlTypname(f, d)) = FullName(f, d)
  BY <1>1, <1>2, <1>3, Consed
<1>5. Tail(DomainName(f, d)) = SqlTypname(f, d)
  BY <1>2, <1>4, Consed DEF DomainName
<1>6. QueryName(f, d) \in Seq(Segments) /\ QueryName(f, d) = <<"query">> \o FullName(f, d)
  BY <1>2, <1>3, Consed DEF QueryName
<1>7. Tail(QueryDomainName(f, d)) = QueryName(f, d)
  BY <1>2, <1>6, Consed DEF QueryDomainName
<1>8. RustStructName(f, d) = FullName(f, d)
  BY DEF RustStructName, IsScalar
<1> QED  BY <1>1, <1>3, <1>4, <1>5, <1>6, <1>7, <1>8

\* The name of a scalar domain is no other domain's.
LEMMA FullNameTells ==
  ASSUME NEW f \in CatalogFamilies, NEW d \in DomainsOf(f),
         NEW g \in CatalogFamilies, NEW e \in DomainsOf(g),
         <<f>> \o d.name = <<g>> \o e.name
  PROVE  f = g /\ d = e
<1>1. f \in Segments /\ g \in Segments
  BY DEF Segments, Words
<1>2. f = g /\ d.name = e.name
  BY <1>1, NameSegments, ConsedEqual
<1> QED  BY <1>2, NamesTell

LEMMA SqlTypnameTells ==
  ASSUME NEW f \in CatalogFamilies, NEW d \in DomainsOf(f), IsScalar(d),
         NEW g \in CatalogFamilies, NEW e \in DomainsOf(g),
         SqlTypname(f, d) = SqlTypname(g, e)
  PROVE  f = g /\ d = e
<1>1. SqlTypname(f, d) = <<"eql_v3">> \o (<<f>> \o d.name)
  BY ScalarNames
<1>2. f \in Segments /\ g \in Segments /\ {"eql_v3", "query"} \subseteq Segments
  BY DEF Segments, Words
<1>3. <<f>> \o d.name \in Seq(Segments) /\ <<g>> \o e.name \in Seq(Segments)
  BY <1>2, NameSegments, Consed
<1>4. ~IsSteVecQuery(e)
  <2> SUFFICES ASSUME IsSteVecQuery(e) PROVE FALSE
    OBVIOUS
  <2>1. SqlTypname(g, e) = <<"query", g>>
    BY DEF SqlTypname, FullName
  <2>2. Head(SqlTypname(g, e)) = "query"
    BY <2>1
  <2>3. Head(SqlTypname(f, d)) = "eql_v3"
    BY <1>1, <1>2, <1>3, Consed
  <2> QED  BY <2>2, <2>3
<1>5. SqlTypname(g, e) = <<"eql_v3">> \o (<<g>> \o e.name)
  BY <1>4 DEF SqlTypname, FullName
<1>6. <<f>> \o d.name = <<g>> \o e.name
  <2> DEFINE s == <<f>> \o d.name
             t == <<g>> \o e.name
  <2>1. "eql_v3" \in Segments /\ s \in Seq(Segments) /\ t \in Seq(Segments)
    BY <1>2, <1>3
  <2>2. <<"eql_v3">> \o s = <<"eql_v3">> \o t
    BY <1>1, <1>5
  <2> HIDE DEF s, t
  <2>3. s = t
    BY <2>1, <2>2, ConsedEqual
  <2> QED  BY <2>3 DEF s, t
<1> QED  BY <1>6, FullNameTells

LEMMA QueryNameTells ==
  ASSUME NEW f \in CatalogFamilies, NEW d \in DomainsOf(f), IsScalar(d),
         NEW g \in CatalogFamilies, NEW e \in DomainsOf(g), IsScalar(e),
         QueryName(f, d) = QueryName(g, e)
  PROVE  f = g /\ d = e
<1>1. "query" \in Segments
  BY DEF Segments, Words
<1>2. FullName(f, d) = FullName(g, e)
  <2>1. QueryName(f, d) = <<"query">> \o FullName(f, d) /\ FullName(f, d) \in Seq(Segments)
    BY ScalarNames
  <2>2. QueryName(g, e) = <<"query">> \o FullName(g, e) /\ FullName(g, e) \in Seq(Segments)
    BY ScalarNames
  <2> QED  BY <1>1, <2>1, <2>2, ConsedEqual
<1>3. FullName(f, d) = <<f>> \o d.name /\ FullName(g, e) = <<g>> \o e.name
  BY ScalarNames
<1> QED  BY <1>2, <1>3, FullNameTells

\* Documents are the one family whose domains are not all scalar.
LEMMA ScalarFamily ==
  ASSUME NEW f \in CatalogFamilies
  PROVE  f \in ScalarFamilies <=> f # "json"
<1>1. CASE f = "json"
  <2>1. Domain(<<"search">>, <<>>, "SteVec") \in DomainsOf(f)
    BY <1>1, DomainsListed
  <2>2. ~IsScalar(Domain(<<"search">>, <<>>, "SteVec"))
    BY DEF IsScalar, Domain
  <2> QED  BY <1>1, <2>1, <2>2 DEF ScalarFamilies
<1>2. CASE f # "json"
  BY <1>2, DocumentDomain DEF ScalarFamilies
<1> QED  BY <1>1, <1>2

\* A table has under a key what its rows agree on.
LEMMA Tabled ==
  ASSUME NEW rows, NEW key, NEW value, <<key, value>> \in rows,
         \A r \in rows : r[1] = key => r[2] = value
  PROVE  key \in DOMAIN Table(rows) /\ Table(rows)[key] = value
<1>1. key \in {r[1] : r \in rows}
  OBVIOUS
<1>2. \E r \in rows : r[1] = key
  OBVIOUS
<1> DEFINE chosen == CHOOSE r \in rows : r[1] = key
<1>3. chosen \in rows /\ chosen[1] = key
  BY <1>2
<1> QED  BY <1>1, <1>3 DEF Table

(***************************************************************************)
(* The terms of a domain.                                                  *)
(***************************************************************************)
\* The scalar domains of all families.
Scalars == UNION {{f} \X {d \in DomainsOf(f) : IsScalar(d)} : f \in CatalogFamilies}

LEMMA ScalarsTyped ==
  ASSUME NEW p \in Scalars
  PROVE  /\ p[1] \in CatalogFamilies /\ p[2] \in DomainsOf(p[1]) /\ IsScalar(p[2])
         /\ p = <<p[1], p[2]>>
         /\ ToSet(p[2].terms) \subseteq Terms
         /\ p[2].terms = <<>> <=> TermJsonKeys(p[2].terms) = {}
<1>1. p[1] \in CatalogFamilies /\ p[2] \in DomainsOf(p[1]) /\ IsScalar(p[2]) /\ p = <<p[1], p[2]>>
  BY DEF Scalars
<1>2. p[2].terms \in TermLists(p[1])
  BY <1>1, ScalarDomain
<1>3. p[2].terms \in {<<>>, <<"Hm">>, <<"Ore">>, <<"Ope">>, <<"Bloom">>, <<"Hm", "Ore">>, <<"Hm", "Ope">>,
                      <<"Hm", "Ore", "Bloom">>, <<"Hm", "Ope", "Bloom">>}
  BY <1>2 DEF TermLists
<1>4. /\ ToSet(p[2].terms) \subseteq Terms
      /\ p[2].terms = <<>> <=> ToSet(p[2].terms) = {}
  <2> DEFINE terms == p[2].terms
  <2>1. "Hm" \in Terms /\ "Ore" \in Terms /\ "Bloom" \in Terms /\ "Ope" \in Terms
    BY DEF Terms
  <2>2. \/ terms = <<>>
        \/ \E a \in Terms : terms = <<a>>
        \/ \E a, b \in Terms : terms = <<a, b>>
        \/ \E a, b, c \in Terms : terms = <<a, b, c>>
    BY <1>3, <2>1
  <2> HIDE DEF terms
  <2>3. CASE terms = <<>>
    BY <2>3, TupleElements DEF terms
  <2>4. CASE \E a \in Terms : terms = <<a>>
    <3>1. PICK a \in Terms : terms = <<a>>
      BY <2>4
    <3>2. ToSet(terms) = {a} /\ terms # <<>>
      BY <3>1, TupleElements
    <3> QED  BY <3>2 DEF terms
  <2>5. CASE \E a, b \in Terms : terms = <<a, b>>
    <3>1. PICK a \in Terms, b \in Terms : terms = <<a, b>>
      BY <2>5
    <3>2. ToSet(terms) = {a, b} /\ terms # <<>>
      BY <3>1, TupleElements
    <3> QED  BY <3>2 DEF terms
  <2>6. CASE \E a, b, c \in Terms : terms = <<a, b, c>>
    <3>1. PICK a \in Terms, b \in Terms, c \in Terms : terms = <<a, b, c>>
      BY <2>6
    <3>2. ToSet(terms) = {a, b, c} /\ terms # <<>>
      BY <3>1, TupleElements
    <3> QED  BY <3>2 DEF terms
  <2> QED  BY <2>2, <2>3, <2>4, <2>5, <2>6
<1>5. p[2].terms = <<>> <=> TermJsonKeys(p[2].terms) = {}
  BY <1>4 DEF TermJsonKeys
<1> QED  BY <1>1, <1>4, <1>5

\* The operators of a scalar domain each have a term, and equality of text has `hm`.
LEMMA TermFound ==
  ASSUME NEW p \in Scalars, NEW op \in OperatorsForTerms(p[2].terms)
  PROVE  /\ TermForOperator(p[2].terms, op) # {}
         /\ \A t \in TermForOperator(p[2].terms, op) :
              /\ t \in ToSet(p[2].terms) /\ t \in Terms /\ op \in TermOperators[t]
              /\ p[1] = "text" /\ op \in EqualityOps => t = "Hm"
<1> DEFINE terms == p[2].terms
           answers(i) == op \in TermOperators[terms[i]]
           first(i) == answers(i) /\ \A m \in 1 .. i - 1 : ~answers(m)
<1>1. ToSet(terms) \subseteq Terms /\ terms \in TermLists(p[1])
  BY ScalarsTyped, ScalarDomain
<1>2. \/ DOMAIN terms = {} \/ DOMAIN terms = {1} \/ DOMAIN terms = {1, 2} \/ DOMAIN terms = {1, 2, 3}
  <2>1. terms \in {<<>>, <<"Hm">>, <<"Ore">>, <<"Ope">>, <<"Bloom">>, <<"Hm", "Ore">>, <<"Hm", "Ope">>,
                   <<"Hm", "Ore", "Bloom">>, <<"Hm", "Ope", "Bloom">>}
    BY <1>1 DEF TermLists
  <2>2. /\ DOMAIN <<>> = {}
        /\ \A a : DOMAIN <<a>> = {1}
        /\ \A a, b : DOMAIN <<a, b>> = {1, 2}
        /\ \A a, b, c : DOMAIN <<a, b, c>> = {1, 2, 3}
    OBVIOUS
  <2> HIDE DEF terms
  <2> QED  BY <2>1, <2>2
<1>3. p[1] = "text" => terms = <<>> \/ terms = <<"Bloom">> \/ (1 \in DOMAIN terms /\ terms[1] = "Hm")
  <2>1. p[1] = "text" => terms \in {<<>>, <<"Bloom">>, <<"Hm">>, <<"Hm", "Ore">>, <<"Hm", "Ope">>,
                                    <<"Hm", "Ore", "Bloom">>, <<"Hm", "Ope", "Bloom">>}
    BY <1>1 DEF TermLists
  <2> HIDE DEF terms
  <2> QED  BY <2>1
<1>4. ToSet(terms) = {terms[i] : i \in DOMAIN terms}
  BY DEF ToSet
<1>5. OperatorsForTerms(terms) = UNION {TermOperators[u] : u \in ToSet(terms)}
  BY DEF OperatorsForTerms
<1>6. PICK i \in DOMAIN terms : answers(i)
  <2>1. op \in OperatorsForTerms(terms)
    OBVIOUS
  <2> HIDE DEF terms
  <2> QED  BY <1>4, <1>5, <2>1
<1>7. TermForOperator(terms, op) = {terms[k] : k \in {j \in DOMAIN terms : first(j)}}
  BY DEF TermForOperator
<1> HIDE DEF terms, answers
<1>8. \E j \in DOMAIN terms : first(j)
  <2>1. DOMAIN terms \subseteq {1, 2, 3} /\ \A j \in DOMAIN terms : \A m \in 1 .. j - 1 : m \in DOMAIN terms
    BY <1>2
  <2>2. CASE 1 \in DOMAIN terms /\ answers(1)
    BY <2>2
  <2>3. CASE ~(1 \in DOMAIN terms /\ answers(1)) /\ 2 \in DOMAIN terms /\ answers(2)
    <3>1. 1 \in DOMAIN terms
      BY <2>1, <2>3
    <3>2. \A m \in 1 .. 2 - 1 : m = 1
      OBVIOUS
    <3> QED  BY <2>3, <3>1, <3>2
  <2>4. CASE ~(1 \in DOMAIN terms /\ answers(1)) /\ ~(2 \in DOMAIN terms /\ answers(2))
    <3>1. i = 3
      BY <1>6, <2>1, <2>4
    <3>2. \A m \in 1 .. 3 - 1 : m = 1 \/ m = 2
      OBVIOUS
    <3> QED  BY <1>6, <2>1, <2>4, <3>1, <3>2
  <2> QED  BY <2>2, <2>3, <2>4
<1>9. TermForOperator(terms, op) # {}
  BY <1>7, <1>8, Zenon
<1>10. ASSUME NEW t \in TermForOperator(terms, op)
       PROVE  /\ t \in ToSet(terms) /\ t \in Terms /\ op \in TermOperators[t]
              /\ p[1] = "text" /\ op \in EqualityOps => t = "Hm"
  <2>1. PICK j \in DOMAIN terms : t = terms[j] /\ first(j)
    BY <1>7
  <2>2. t \in ToSet(terms) /\ t \in Terms /\ op \in TermOperators[t]
    BY <1>1, <1>4, <2>1 DEF answers
  <2>3. ASSUME p[1] = "text", op \in EqualityOps PROVE t = "Hm"
    <3>1. CASE 1 \in DOMAIN terms /\ terms[1] = "Hm"
      <4>1. answers(1)
        BY <2>3, <3>1 DEF answers, TermOperators
      <4>2. j = 1
        BY <1>2, <2>1, <4>1
      <4> QED  BY <2>1, <3>1, <4>2
    <3>2. CASE terms = <<"Bloom">>
      <4>1. t = "Bloom"
        BY <2>1, <3>2
      <4>2. op = "@@"
        BY <2>2, <4>1 DEF TermOperators
      <4> QED  BY <2>3, <4>2 DEF EqualityOps
    <3>3. CASE terms = <<>>
      BY <2>1, <3>3
    <3> QED  BY <1>3, <2>3, <3>1, <3>2, <3>3
  <2> QED  BY <2>2, <2>3
<1> QED  BY <1>9, <1>10 DEF terms

(***************************************************************************)
(* What terms answer.                                                      *)
(***************************************************************************)
SearchOps == EqualityOps \union OrderOps \union {"@@"}

\* Every n-gram of the needle is in the text, and a needle without one matches no text with one.
Matches(x, y) == Grams[y] \subseteq Grams[x] /\ (Grams[y] = {} => Grams[x] = {})

\* The answer that any term which has the operator gives, if text has `hm` for equality.
TermAnswer(f, op, x, y) ==
  CASE op = "@@" -> Matches(x, y)
    [] op \in OrderOps /\ f = "text" -> Compare(op, Coarse[x], Coarse[y])
    [] OTHER -> Compare(op, x, y)

LEMMA ComparesBoolean ==
  ASSUME NEW op \in EqualityOps \union OrderOps, NEW a, NEW b
  PROVE  Compare(op, a, b) \in BOOLEAN
<1>1. /\ Compare("=", a, b) \in BOOLEAN /\ Compare("<>", a, b) \in BOOLEAN
      /\ Compare("<", a, b) \in BOOLEAN /\ Compare("<=", a, b) \in BOOLEAN
      /\ Compare(">", a, b) \in BOOLEAN /\ Compare(">=", a, b) \in BOOLEAN
  BY DEF Compare
<1> QED  BY <1>1 DEF EqualityOps, OrderOps

LEMMA TermAnswerBoolean ==
  ASSUME NEW f, NEW op \in SearchOps, NEW x, NEW y
  PROVE  TermAnswer(f, op, x, y) \in BOOLEAN
<1>1. CASE op = "@@"
  <2>1. Matches(x, y) \in BOOLEAN
    BY DEF Matches
  <2> QED  BY <1>1, <2>1 DEF TermAnswer, OrderOps
<1>2. CASE op # "@@"
  <2>1. op \in EqualityOps \union OrderOps
    BY <1>2 DEF SearchOps
  <2> QED  BY <1>2, <2>1, ComparesBoolean DEF TermAnswer
<1> QED  BY <1>1, <1>2

LEMMA TermsAgree ==
  ASSUME NEW f, NEW t \in Terms, NEW op \in TermOperators[t], f = "text" /\ op \in EqualityOps => t = "Hm",
         NEW x, NEW y
  PROVE  LET a == Encrypt(t, f, x)
             b == Encrypt(t, f, y)
         IN /\ op \in SearchOps
            /\ TermAnswer(f, op, x, y) <=>
                 Compare(BodyOperator(op), a, b) /\ (NeedsEmptyBloomGuard(op) => b # {} \/ a = {})
<1> DEFINE a == Encrypt(t, f, x)
           b == Encrypt(t, f, y)
<1>1. CASE t = "Bloom"
  <2>1. op = "@@" /\ op \in SearchOps
    BY <1>1 DEF TermOperators, SearchOps
  <2>2. BodyOperator(op) = "@>" /\ NeedsEmptyBloomGuard(op)
    BY <2>1 DEF BodyOperator, NeedsEmptyBloomGuard
  <2>3. Encrypt("Bloom", f, x) = Grams[x] /\ Encrypt("Bloom", f, y) = Grams[y]
    BY DEF Encrypt, ProvidesOrdering
  <2>4. Compare("@>", Grams[x], Grams[y]) <=> Grams[y] \subseteq Grams[x]
    BY DEF Compare
  <2>5. TermAnswer(f, op, x, y) = Matches(x, y)
    BY <2>1 DEF TermAnswer, OrderOps
  <2>6. Matches(x, y) <=> Compare("@>", Grams[x], Grams[y]) /\ (Grams[y] # {} \/ Grams[x] = {})
    BY <2>4 DEF Matches
  <2> QED  BY <1>1, <2>1, <2>2, <2>3, <2>5, <2>6
<1>2. CASE t # "Bloom"
  <2>1. op \in EqualityOps \union OrderOps /\ (op \in OrderOps => t \in {"Ore", "Ope"})
    BY <1>2 DEF Terms, TermOperators, EqualityOps, OrderOps
  <2>2. BodyOperator(op) = op /\ ~NeedsEmptyBloomGuard(op) /\ op # "@@" /\ op \in SearchOps
    BY <2>1 DEF BodyOperator, NeedsEmptyBloomGuard, EqualityOps, OrderOps, SearchOps
  <2>3. CASE op \in OrderOps /\ f = "text"
    <3>1. a = Coarse[x] /\ b = Coarse[y]
      BY <2>1, <2>3 DEF Encrypt, ProvidesOrdering
    <3> QED  BY <2>2, <2>3, <3>1 DEF TermAnswer
  <2>4. CASE ~(op \in OrderOps /\ f = "text")
    <3>1. f = "text" => t = "Hm"
      BY <2>1, <2>4
    <3>2. a = x /\ b = y
      BY <1>2, <3>1 DEF Encrypt, ProvidesOrdering
    <3> QED  BY <2>2, <2>4, <3>2 DEF TermAnswer
  <2> QED  BY <2>3, <2>4
<1> QED  BY <1>1, <1>2

LEMMA TermAnswerRight ==
  ASSUME NEW f, NEW op \in SearchOps, NEW x \in Plaintexts, NEW y \in Plaintexts
  PROVE  RightAnswer(f, op, x, y, TermAnswer(f, op, x, y))
<1> DEFINE given == TermAnswer(f, op, x, y)
<1>1. CASE op = "@@"
  <2>1. given = Matches(x, y)
    BY <1>1 DEF TermAnswer, OrderOps
  <2>2. RightAnswer(f, op, x, y, given) <=> given = Matches(x, y)
    BY <1>1 DEF RightAnswer, Matches, OrderOps
  <2> QED  BY <2>1, <2>2
<1>2. CASE op # "@@" /\ op \in OrderOps /\ f = "text"
  <2>1. /\ x \in Nat /\ y \in Nat /\ Coarse[x] \in Nat /\ Coarse[y] \in Nat
        /\ x <= y => Coarse[x] <= Coarse[y]
        /\ y <= x => Coarse[y] <= Coarse[x]
    BY PlaintextsAssumption
  <2>2. given = Compare(op, Coarse[x], Coarse[y])
    BY <1>2 DEF TermAnswer
  <2>3. op \in {"<", "<=", ">", ">="}
    BY <1>2 DEF OrderOps
  <2>4. RightAnswer(f, op, x, y, given) <=>
          IF op \in {"<", ">"} THEN given => Compare(op, x, y) ELSE Compare(op, x, y) => given
    BY <1>2 DEF RightAnswer
  <2>5. given <=> Compare(op, Coarse[x], Coarse[y])
    BY <2>2
  <2> HIDE DEF given
  <2>6. IF op \in {"<", ">"} THEN given => Compare(op, x, y) ELSE Compare(op, x, y) => given
    BY <2>1, <2>3, <2>5 DEF Compare
  <2> QED  BY <2>4, <2>6 DEF given
<1>3. CASE op # "@@" /\ ~(op \in OrderOps /\ f = "text")
  <2>1. given = Compare(op, x, y)
    BY <1>3 DEF TermAnswer
  <2> QED  BY <1>3, <2>1 DEF RightAnswer
<1> QED  BY <1>1, <1>2, <1>3

LEMMA ComparisonsRewrite ==
  ASSUME NEW op \in EqualityOps \union OrderOps, NEW a \in Nat, NEW b \in Nat
  PROVE  /\ Compare(Commutator(op), b, a) <=> Compare(op, a, b)
         /\ Compare(Negator(op), a, b) <=> ~Compare(op, a, b)
<1>1. op \in {"=", "<>", "<", "<=", ">", ">="}
  BY DEF EqualityOps, OrderOps
<1> QED  BY <1>1 DEF Commutator, Negator, Compare, EqualityOps

LEMMA RewritesTyped ==
  ASSUME NEW op \in EqualityOps \union OrderOps
  PROVE  /\ op \in EqualityOps => Commutator(op) \in EqualityOps /\ Negator(op) \in EqualityOps
         /\ op \in OrderOps => Commutator(op) \in OrderOps /\ Negator(op) \in OrderOps
BY DEF Commutator, Negator, EqualityOps, OrderOps

LEMMA TermAnswerRewrites ==
  ASSUME NEW f, NEW op \in EqualityOps \union OrderOps, NEW x \in Plaintexts, NEW y \in Plaintexts
  PROVE  /\ TermAnswer(f, Commutator(op), y, x) = TermAnswer(f, op, x, y)
         /\ TermAnswer(f, Negator(op), x, y) = ~TermAnswer(f, op, x, y)
<1>1. /\ op # "@@" /\ op \in SearchOps
      /\ Commutator(op) # "@@" /\ Commutator(op) \in SearchOps
      /\ Negator(op) # "@@" /\ Negator(op) \in SearchOps
      /\ op \in OrderOps <=> Commutator(op) \in OrderOps
      /\ op \in OrderOps <=> Negator(op) \in OrderOps
  BY DEF Commutator, Negator, EqualityOps, OrderOps, SearchOps
<1>2. x \in Nat /\ y \in Nat /\ Coarse[x] \in Nat /\ Coarse[y] \in Nat
  BY PlaintextsAssumption
<1>3. PICK a, b : /\ a \in Nat /\ b \in Nat
                  /\ TermAnswer(f, op, x, y) = Compare(op, a, b)
                  /\ TermAnswer(f, Commutator(op), y, x) = Compare(Commutator(op), b, a)
                  /\ TermAnswer(f, Negator(op), x, y) = Compare(Negator(op), a, b)
  <2>1. CASE op \in OrderOps /\ f = "text"
    <3>1. /\ TermAnswer(f, op, x, y) = Compare(op, Coarse[x], Coarse[y])
          /\ TermAnswer(f, Commutator(op), y, x) = Compare(Commutator(op), Coarse[y], Coarse[x])
          /\ TermAnswer(f, Negator(op), x, y) = Compare(Negator(op), Coarse[x], Coarse[y])
      BY <1>1, <2>1 DEF TermAnswer, OrderOps
    <3> QED  BY <1>2, <3>1
  <2>2. CASE ~(op \in OrderOps /\ f = "text")
    <3>1. /\ TermAnswer(f, op, x, y) = Compare(op, x, y)
          /\ TermAnswer(f, Commutator(op), y, x) = Compare(Commutator(op), y, x)
          /\ TermAnswer(f, Negator(op), x, y) = Compare(Negator(op), x, y)
      BY <1>1, <2>2 DEF TermAnswer
    <3> QED  BY <1>2, <3>1
  <2> QED  BY <2>1, <2>2
<1>4. /\ TermAnswer(f, Commutator(op), y, x) <=> TermAnswer(f, op, x, y)
      /\ TermAnswer(f, Negator(op), x, y) <=> ~TermAnswer(f, op, x, y)
  BY <1>3, ComparisonsRewrite
<1>5. /\ TermAnswer(f, op, x, y) \in BOOLEAN
      /\ TermAnswer(f, Commutator(op), y, x) \in BOOLEAN
      /\ TermAnswer(f, Negator(op), x, y) \in BOOLEAN
  BY <1>1, TermAnswerBoolean
<1> QED  BY <1>4, <1>5

(***************************************************************************)
(* The types of the domains, which no other type shares a name with.       *)
(***************************************************************************)
Column(p) == DomainName(p[1], p[2])
Operand(p) == QueryDomainName(p[1], p[2])

\* The scalar domains that have a query operand.
Queryables == {p \in Scalars : p[2].terms # <<>>}

HandWrittenTypes == {JsonEntryType, JsonSearchType, JsonQueryType} \union {TermType(t) : t \in Terms}

LEMMA ConsedAt ==
  ASSUME NEW S, NEW a \in S, NEW s \in Seq(S)
  PROVE  /\ (<<a>> \o s)[1] = a
         /\ \A i \in 1 .. Len(s) : (<<a>> \o s)[i + 1] = s[i]
<1>1. <<a>> \in Seq(S) /\ Len(<<a>>) = 1 /\ <<a>>[1] = a
  OBVIOUS
<1>2. \A i \in 1 .. 1 + Len(s) : (<<a>> \o s)[i] = IF i <= 1 THEN <<a>>[i] ELSE s[i - 1]
  BY <1>1, ConcatProperties
<1>3. Len(s) \in Nat
  BY LenProperties
<1>4. ASSUME NEW i \in 1 .. Len(s) PROVE (<<a>> \o s)[i + 1] = s[i]
  <2>1. i + 1 \in 1 .. 1 + Len(s) /\ ~(i + 1 <= 1) /\ (i + 1) - 1 = i
    BY <1>3
  <2> QED  BY <1>2, <2>1
<1>5. (<<a>> \o s)[1] = a
  BY <1>1, <1>2, <1>3
<1> QED  BY <1>4, <1>5

\* Two words and a name after them.
LEMMA Prefixed ==
  ASSUME NEW S, NEW a \in S, NEW b \in S, NEW c \in S, NEW s \in Seq(S)
  PROVE  LET name == <<a>> \o (<<b>> \o (<<c>> \o s))
         IN /\ name \in Seq(S) /\ Len(name) = Len(s) + 3
            /\ name[1] = a /\ name[2] = b /\ name[3] = c
            /\ \A i \in 1 .. Len(s) : name[i + 3] = s[i]
<1> DEFINE one == <<c>> \o s
           two == <<b>> \o one
           name == <<a>> \o two
<1>1. one \in Seq(S) /\ Len(one) = Len(s) + 1 /\ one[1] = c /\ \A i \in 1 .. Len(s) : one[i + 1] = s[i]
  BY Consed, ConsedAt
<1> HIDE DEF one
<1>2. two \in Seq(S) /\ Len(two) = Len(one) + 1 /\ two[1] = b /\ \A i \in 1 .. Len(one) : two[i + 1] = one[i]
  BY <1>1, Consed, ConsedAt
<1> HIDE DEF two
<1>3. name \in Seq(S) /\ Len(name) = Len(two) + 1 /\ name[1] = a /\ \A i \in 1 .. Len(two) : name[i + 1] = two[i]
  BY <1>2, Consed, ConsedAt
<1> HIDE DEF name
<1>4. Len(s) \in Nat /\ Len(one) \in Nat /\ Len(two) \in Nat
  BY <1>1, <1>2, LenProperties
<1>5. name[2] = b /\ name[3] = c
  <2>1. 1 \in 1 .. Len(one) /\ 1 \in 1 .. Len(two) /\ 2 \in 1 .. Len(two) /\ 1 + 1 = 2 /\ 2 + 1 = 3
    BY <1>1, <1>2, <1>4
  <2> QED  BY <1>1, <1>2, <1>3, <2>1
<1>6. ASSUME NEW i \in 1 .. Len(s) PROVE name[i + 3] = s[i]
  <2>1. /\ i \in Int /\ i + 1 \in 1 .. Len(one) /\ (i + 1) + 1 \in 1 .. Len(two)
        /\ ((i + 1) + 1) + 1 = i + 3
    BY <1>1, <1>2, <1>4
  <2>2. name[((i + 1) + 1) + 1] = two[(i + 1) + 1] /\ two[(i + 1) + 1] = one[i + 1] /\ one[i + 1] = s[i]
    BY <1>1, <1>2, <1>3, <2>1
  <2> QED  BY <2>1, <2>2
<1>7. Len(name) = Len(s) + 3
  BY <1>1, <1>2, <1>3, <1>4
<1>8. /\ name \in Seq(S) /\ Len(name) = Len(s) + 3
      /\ name[1] = a /\ name[2] = b /\ name[3] = c
      /\ \A i \in 1 .. Len(s) : name[i + 3] = s[i]
  BY <1>3, <1>5, <1>6, <1>7
<1> QED  BY <1>8 DEF name, two, one

LEMMA ColumnName ==
  ASSUME NEW p \in Scalars
  PROVE  /\ Column(p) \in Seq(Segments) /\ Len(Column(p)) = Len(p[2].name) + 3
         /\ Column(p)[1] = "public" /\ Column(p)[2] = "eql_v3" /\ Column(p)[3] = p[1]
<1>1. p[1] \in CatalogFamilies /\ p[2] \in DomainsOf(p[1]) /\ IsScalar(p[2])
  BY ScalarsTyped
<1>2. Column(p) = <<"public">> \o (<<"eql_v3">> \o (<<p[1]>> \o p[2].name))
  BY <1>1, ScalarNames DEF Column, DomainName
<1>3. "public" \in Segments /\ "eql_v3" \in Segments /\ p[1] \in Segments /\ p[2].name \in Seq(Segments)
  BY <1>1, NameSegments DEF Segments, Words
<1> QED  BY <1>2, <1>3, Prefixed

LEMMA OperandName ==
  ASSUME NEW p \in Scalars
  PROVE  /\ Operand(p) \in Seq(Segments) /\ Len(Operand(p)) = Len(p[2].name) + 3
         /\ Operand(p)[1] = "eql_v3" /\ Operand(p)[2] = "query" /\ Operand(p)[3] = p[1]
<1>1. p[1] \in CatalogFamilies /\ p[2] \in DomainsOf(p[1]) /\ IsScalar(p[2])
  BY ScalarsTyped
<1>2. Operand(p) = <<"eql_v3">> \o (<<"query">> \o (<<p[1]>> \o p[2].name))
  BY <1>1, ScalarNames DEF Operand, QueryDomainName
<1>3. "query" \in Segments /\ "eql_v3" \in Segments /\ p[1] \in Segments /\ p[2].name \in Seq(Segments)
  BY <1>1, NameSegments DEF Segments, Words
<1> QED  BY <1>2, <1>3, Prefixed

LEMMA ColumnTells ==
  ASSUME NEW p \in Scalars, NEW q \in Scalars, Column(p) = Column(q)
  PROVE  p = q
<1>1. /\ p[1] \in CatalogFamilies /\ p[2] \in DomainsOf(p[1]) /\ IsScalar(p[2]) /\ p = <<p[1], p[2]>>
      /\ q[1] \in CatalogFamilies /\ q[2] \in DomainsOf(q[1]) /\ IsScalar(q[2]) /\ q = <<q[1], q[2]>>
  BY ScalarsTyped
<1>2. SqlTypname(p[1], p[2]) = SqlTypname(q[1], q[2])
  <2>1. Tail(Column(p)) = SqlTypname(p[1], p[2]) /\ Tail(Column(q)) = SqlTypname(q[1], q[2])
    BY <1>1, ScalarNames DEF Column
  <2> QED  BY <2>1
<1>3. p[1] = q[1] /\ p[2] = q[2]
  BY <1>1, <1>2, SqlTypnameTells
<1> QED  BY <1>1, <1>3

LEMMA OperandTells ==
  ASSUME NEW p \in Scalars, NEW q \in Scalars, Operand(p) = Operand(q)
  PROVE  p = q
<1>1. /\ p[1] \in CatalogFamilies /\ p[2] \in DomainsOf(p[1]) /\ IsScalar(p[2]) /\ p = <<p[1], p[2]>>
      /\ q[1] \in CatalogFamilies /\ q[2] \in DomainsOf(q[1]) /\ IsScalar(q[2]) /\ q = <<q[1], q[2]>>
  BY ScalarsTyped
<1>2. QueryName(p[1], p[2]) = QueryName(q[1], q[2])
  <2>1. Tail(Operand(p)) = QueryName(p[1], p[2]) /\ Tail(Operand(q)) = QueryName(q[1], q[2])
    BY <1>1, ScalarNames DEF Operand
  <2> QED  BY <2>1
<1>3. p[1] = q[1] /\ p[2] = q[2]
  BY <1>1, <1>2, QueryNameTells
<1> QED  BY <1>1, <1>3

LEMMA HandWrittenNames ==
  /\ \A T \in BaseTypes : Len(T) = 1
  /\ \A t : Len(TermType(t)) = 2
  /\ Len(JsonEntryType) = 4 /\ JsonEntryType[1] = "public" /\ JsonEntryType[3] = "json"
  /\ Len(JsonSearchType) = 4 /\ JsonSearchType[1] = "public" /\ JsonSearchType[3] = "json"
  /\ Len(JsonQueryType) = 3 /\ JsonQueryType[1] = "eql_v3" /\ JsonQueryType[3] = "json"
  /\ JsonEntryType # JsonSearchType
<1>1. JsonEntryType = <<"public", "eql_v3", "json", "entry">>
  BY AppendedWord DEF JsonEntryType, JsonType
<1>2. JsonSearchType = <<"public", "eql_v3", "json", "search">>
  BY AppendedWord DEF JsonSearchType, JsonType
<1>3. /\ \A T \in BaseTypes : Len(T) = 1
      /\ \A t : Len(TermType(t)) = 2
  BY DEF BaseTypes, Jsonb, TermType
<1>4. /\ Len(JsonEntryType) = 4 /\ JsonEntryType[1] = "public" /\ JsonEntryType[3] = "json"
      /\ JsonEntryType[4] = "entry"
  BY <1>1
<1>5. /\ Len(JsonSearchType) = 4 /\ JsonSearchType[1] = "public" /\ JsonSearchType[3] = "json"
      /\ JsonSearchType[4] = "search"
  BY <1>2
<1>6. Len(JsonQueryType) = 3 /\ JsonQueryType[1] = "eql_v3" /\ JsonQueryType[3] = "json"
  BY DEF JsonQueryType
<1>7. JsonEntryType # JsonSearchType
  BY <1>4, <1>5
<1> QED  BY <1>3, <1>4, <1>5, <1>6, <1>7

\* The documents' scalar domain is the one that has no name, and no term.
LEMMA DocumentScalar ==
  ASSUME NEW p \in Scalars, p[1] = "json"
  PROVE  Len(p[2].name) = 0 /\ p[2].terms = <<>>
<1>1. p[1] \in CatalogFamilies /\ p[2] \in DomainsOf(p[1]) /\ IsScalar(p[2])
  BY ScalarsTyped
<1>2. p[2] = Scalar(<<>>, <<>>)
  BY <1>1, ScalarDomain
<1>3. Scalar(<<>>, <<>>).name = <<>> /\ Scalar(<<>>, <<>>).terms = <<>>
  BY DEF Scalar, Domain
<1> QED  BY <1>2, <1>3

LEMMA ColumnApart ==
  ASSUME NEW p \in Scalars
  PROVE  /\ Column(p) \notin BaseTypes
         /\ Column(p) \notin HandWrittenTypes
         /\ \A q \in Scalars : Column(p) # Operand(q)
<1>1. Len(p[2].name) \in Nat
  BY ScalarsTyped, NameSegments, LenProperties
<1>2. Len(Column(p)) = Len(p[2].name) + 3 /\ Column(p)[1] = "public" /\ Column(p)[3] = p[1]
  BY ColumnName
<1>3. Column(p) \notin BaseTypes /\ \A t : Column(p) # TermType(t)
  BY <1>1, <1>2, HandWrittenNames
<1>4. Column(p) # JsonQueryType
  BY <1>2, HandWrittenNames
<1>5. ASSUME Column(p) \in {JsonEntryType, JsonSearchType} PROVE FALSE
  <2>1. p[1] = "json" /\ Len(Column(p)) = 4
    BY <1>2, <1>5, HandWrittenNames
  <2>2. p[1] = "json" => Len(p[2].name) = 0
    BY DocumentScalar, Zenon
  <2>. DEFINE named == Len(p[2].name)
              long == Len(Column(p))
  <2>3. long = named + 3 /\ named = 0 /\ long = 4
    BY <1>2, <2>1, <2>2
  <2>. HIDE DEF named, long
  <2> QED  BY <2>3
<1>6. \A q \in Scalars : Column(p) # Operand(q)
  BY <1>2, OperandName
<1> QED  BY <1>3, <1>4, <1>5, <1>6 DEF HandWrittenTypes

LEMMA OperandApart ==
  ASSUME NEW p \in Queryables
  PROVE  /\ Operand(p) \notin BaseTypes
         /\ Operand(p) \notin HandWrittenTypes
<1>1. p \in Scalars /\ p[2].terms # <<>>
  BY DEF Queryables
<1>2. Len(p[2].name) \in Nat
  BY <1>1, ScalarsTyped, NameSegments, LenProperties
<1>3. Len(Operand(p)) = Len(p[2].name) + 3 /\ Operand(p)[1] = "eql_v3" /\ Operand(p)[3] = p[1]
  BY <1>1, OperandName
<1>4. Operand(p) \notin BaseTypes /\ \A t : Operand(p) # TermType(t)
  BY <1>2, <1>3, HandWrittenNames
<1>5. Operand(p) # JsonQueryType
  BY <1>1, <1>3, HandWrittenNames, DocumentScalar
<1>6. Operand(p) # JsonEntryType /\ Operand(p) # JsonSearchType
  BY <1>3, HandWrittenNames
<1> QED  BY <1>4, <1>5, <1>6 DEF HandWrittenTypes

(***************************************************************************)
(* The paths of the generated files.                                       *)
(***************************************************************************)
PathSegments ==
  Segments \union {"scalars", "types", "functions", "operators", "aggregates", "json"}

\* A path segment by segment.
Spells(path, f, n, x) ==
  /\ path \in Seq(PathSegments) /\ Len(path) = Len(n) + 3
  /\ path[1] = "scalars" /\ path[2] = f /\ path[Len(n) + 3] = x
  /\ \A i \in 1 .. Len(n) : path[i + 2] = n[i]

LEMMA PathNamed ==
  ASSUME NEW f \in PathSegments, NEW n \in Seq(PathSegments), NEW x \in PathSegments
  PROVE  Spells(ScalarPath(f, n, x), f, n, x)
<1> DEFINE pair == <<"scalars", f>>
           stem == pair \o n
           last == <<x>>
           path == stem \o last
<1>1. /\ pair \in Seq(PathSegments) /\ Len(pair) = 2 /\ pair[1] = "scalars" /\ pair[2] = f
      /\ last \in Seq(PathSegments) /\ Len(last) = 1 /\ last[1] = x
  <2>1. "scalars" \in PathSegments
    BY DEF PathSegments
  <2> QED  BY <2>1
<1>2. Len(n) \in Nat
  BY LenProperties
<1> HIDE DEF pair, last
<1>3. stem \in Seq(PathSegments) /\ Len(stem) = 2 + Len(n)
      /\ \A i \in 1 .. 2 + Len(n) : stem[i] = IF i <= 2 THEN pair[i] ELSE n[i - 2]
  <2>1. /\ stem \in Seq(PathSegments) /\ Len(stem) = Len(pair) + Len(n)
        /\ \A i \in 1 .. Len(pair) + Len(n) : stem[i] = IF i <= Len(pair) THEN pair[i] ELSE n[i - Len(pair)]
    BY <1>1, ConcatProperties, Zenon
  <2> QED  BY <1>1, <2>1
<1> HIDE DEF stem
<1>4. path \in Seq(PathSegments) /\ Len(path) = Len(stem) + 1
      /\ \A i \in 1 .. Len(stem) + 1 : path[i] = IF i <= Len(stem) THEN stem[i] ELSE last[i - Len(stem)]
  <2>1. /\ path \in Seq(PathSegments) /\ Len(path) = Len(stem) + Len(last)
        /\ \A i \in 1 .. Len(stem) + Len(last) : path[i] = IF i <= Len(stem) THEN stem[i] ELSE last[i - Len(stem)]
    BY <1>1, <1>3, ConcatProperties, Zenon
  <2> QED  BY <1>1, <2>1
<1> HIDE DEF path
<1>5. path[1] = "scalars" /\ path[2] = f
  BY <1>1, <1>2, <1>3, <1>4
<1>6. path[Len(n) + 3] = x
  <2>1. /\ Len(n) + 3 \in 1 .. Len(stem) + 1 /\ ~(Len(n) + 3 <= Len(stem))
        /\ (Len(n) + 3) - Len(stem) = 1
    BY <1>2, <1>3
  <2> QED  BY <1>1, <1>4, <2>1
<1>7. ASSUME NEW i \in 1 .. Len(n) PROVE path[i + 2] = n[i]
  <2>1. i + 2 \in 1 .. Len(stem) + 1 /\ i + 2 <= Len(stem) /\ i + 2 \in 1 .. 2 + Len(n)
        /\ ~(i + 2 <= 2) /\ (i + 2) - 2 = i
    BY <1>2, <1>3
  <2> QED  BY <1>3, <1>4, <2>1
<1>8. Len(path) = Len(n) + 3
  BY <1>2, <1>3, <1>4
<1> QED  BY <1>4, <1>5, <1>6, <1>7, <1>8 DEF path, stem, pair, last, ScalarPath, Spells

LEMMA PathTells ==
  ASSUME NEW f \in PathSegments, NEW n \in Seq(PathSegments), NEW x \in PathSegments,
         NEW g \in PathSegments, NEW m \in Seq(PathSegments), NEW y \in PathSegments,
         ScalarPath(f, n, x) = ScalarPath(g, m, y)
  PROVE  f = g /\ n = m /\ x = y
<1> DEFINE path == ScalarPath(f, n, x)
<1>1. /\ Len(path) = Len(n) + 3 /\ path[2] = f /\ path[Len(n) + 3] = x
      /\ \A i \in 1 .. Len(n) : path[i + 2] = n[i]
  <2>1. Spells(path, f, n, x)
    BY PathNamed
  <2> HIDE DEF path
  <2> QED  BY <2>1 DEF Spells
<1>2. /\ Len(path) = Len(m) + 3 /\ path[2] = g /\ path[Len(m) + 3] = y
      /\ \A i \in 1 .. Len(m) : path[i + 2] = m[i]
  <2>1. Spells(ScalarPath(g, m, y), g, m, y)
    BY PathNamed
  <2>2. Spells(path, g, m, y)
    BY <2>1
  <2> HIDE DEF path
  <2> QED  BY <2>2 DEF Spells
<1> HIDE DEF path
<1>3. Len(n) \in Nat /\ Len(m) \in Nat
  BY LenProperties
<1>4. Len(n) = Len(m)
  BY <1>1, <1>2, <1>3
<1>5. \A i \in 1 .. Len(n) : n[i] = m[i]
  BY <1>1, <1>2, <1>4
<1>6. n = m
  BY <1>4, <1>5, SeqEqual
<1> QED  BY <1>1, <1>2, <1>4, <1>6

\* The stems of the paths: stored, query and entry names.
LEMMA Stems ==
  ASSUME NEW p \in Scalars
  PROVE  /\ p[1] \in PathSegments
         /\ FullName(p[1], p[2]) \in Seq(PathSegments) /\ QueryName(p[1], p[2]) \in Seq(PathSegments)
         /\ Len(FullName(p[1], p[2])) = Len(p[2].name) + 1
         /\ FullName(p[1], p[2])[1] = p[1] /\ QueryName(p[1], p[2])[1] = "query"
         /\ Len(p[2].name) \in Nat
         /\ p[2].name # <<>> => FullName(p[1], p[2])[2] \in {"eq", "match", "ord", "search"}
         /\ QueryName(p[1], p[2])[2] = p[1]
         /\ Len(QueryName(p[1], p[2])) = Len(p[2].name) + 2
<1> DEFINE name == p[2].name
           full == FullName(p[1], p[2])
           query == QueryName(p[1], p[2])
<1>1. p[1] \in CatalogFamilies /\ p[2] \in DomainsOf(p[1]) /\ IsScalar(p[2])
  BY ScalarsTyped
<1>2. p[1] \in Segments /\ "query" \in Segments /\ name \in Seq(Segments) /\ name \in NamesTold
  BY <1>1, NameSegments, ScalarDomain DEF Segments, Words
<1>3. full = <<p[1]>> \o name /\ query = <<"query">> \o full
  BY <1>1, ScalarNames
<1>4. Len(name) \in Nat
  BY <1>2, LenProperties
<1>5. full \in Seq(Segments) /\ Len(full) = Len(name) + 1 /\ full[1] = p[1]
      /\ \A i \in 1 .. Len(name) : full[i + 1] = name[i]
  <2> HIDE DEF name
  <2> QED  BY <1>2, <1>3, Consed, ConsedAt
<1>6. query \in Seq(Segments) /\ Len(query) = Len(full) + 1 /\ query[1] = "query"
      /\ \A i \in 1 .. Len(full) : query[i + 1] = full[i]
  <2> HIDE DEF full
  <2> QED  BY <1>2, <1>3, <1>5, Consed, ConsedAt
<1>7. name # <<>> => 1 \in 1 .. Len(name) /\ name[1] \in {"eq", "match", "ord", "search"}
  <2> HIDE DEF name
  <2> QED  BY <1>2 DEF NamesTold
<1>8. \A s \in Seq(Segments) : s \in Seq(PathSegments)
  <2>1. Segments \subseteq PathSegments
    BY DEF PathSegments
  <2> QED  BY <2>1, SeqMonotonic
<1> HIDE DEF name, full, query
<1>9. query[2] = p[1] /\ Len(query) = Len(name) + 2
  <2>1. 1 \in 1 .. Len(full) /\ 1 + 1 = 2
    BY <1>4, <1>5
  <2> QED  BY <1>4, <1>5, <1>6, <2>1
<1>10. name # <<>> => full[2] \in {"eq", "match", "ord", "search"}
  <2>1. 1 + 1 = 2
    OBVIOUS
  <2> QED  BY <1>5, <1>7, <2>1
<1>11. p[1] \in PathSegments
  BY <1>2 DEF PathSegments
<1> QED  BY <1>4, <1>5, <1>6, <1>8, <1>9, <1>10, <1>11 DEF name, full, query

=============================================================================
