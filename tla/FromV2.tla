------------------------------- MODULE FromV2 -------------------------------
(* The conversion of payloads of EQL v2.3 into v3 (crates/eql-bindings, from_v2), from   *)
(* the client that made the payload to the answer a query gets: a stored payload is      *)
(* converted for the domain of its column and inserted under the domain's CHECK, a query  *)
(* payload is converted for the same domain and cast to its query operand, and an        *)
(* operator compares the two.                                                           *)
EXTENDS Bindings, TermSemantics

CONSTANTS
  Names,        \* the names of conversion targets that callers ask for
  Position      \* the bit of a bloom filter that an n-gram sets

ASSUME PositionAssumption ==
  /\ \A x \in Plaintexts : IsFiniteSet(Grams[x]) /\ Grams[x] \subseteq DOMAIN Position
  /\ \A g \in DOMAIN Position : Position[g] \in Nat /\ Position[g] <= 65535

(***************************************************************************)
(* Results and targets.                                                     *)
(***************************************************************************)
Ok(j) == [ok |-> TRUE, value |-> j, error |-> "none"]
Refused(error) == [ok |-> FALSE, value |-> Absent, error |-> error]

V2WireVersion == 2

JsonSearch == <<"eql_v3", "json", "search">>

Target(kind, domain, term_keys) == [kind |-> kind, domain |-> domain, term_keys |-> term_keys]

\* Of the structs of documents, which list no term keys, only one is a target.
TargetOf(struct) ==
  LET name == UnqualifiedDomain(struct)
  IN CASE struct.term_keys # {} -> Target("Scalar", name, UNION struct.term_keys)
       [] name = JsonSearch -> Target("Json", name, {})
       [] OTHER -> Target("UnknownDomain", name, {})

ParseTarget(name) ==
  LET found == {s \in Inventory : UnqualifiedDomain(s) = name}
  IN IF found = {} THEN Target("UnknownDomain", name, {}) ELSE TargetOf(CHOOSE s \in found : TRUE)

\* `query_` before the bare name: the prefix of public domains comes off.
QueryDomainNameOf(target) ==
  IF target.kind = "Json" THEN <<"query", "json">> ELSE <<"query">> \o Tail(target.domain)

(***************************************************************************)
(* The conversion.                                                          *)
(***************************************************************************)
\* A bug to catch: the unsigned half clamped.
AsI16Clamped(n) == IF n > 32767 THEN 32767 ELSE n

\* Two's complement: what lies above the largest smallint wraps around.
AsI16(n) == IF n % 65536 > 32767 THEN (n % 65536) - 65536 ELSE n % 65536

InRange(n) == -32768 <= n /\ n <= 65535

\* The first element that is none of it decides how the array is refused.
ConvertBloom(bf) ==
  LET Bad(n) == ~IsNum(bf[2][n]) \/ ~InRange(bf[2][n][2])
      first == CHOOSE n \in DOMAIN bf[2] : Bad(n) /\ \A m \in 1 .. n - 1 : ~Bad(m)
  IN IF ~IsArr(bf) THEN Refused("Invalid")
     ELSE IF \E n \in DOMAIN bf[2] : Bad(n)
       THEN Refused(IF IsNum(bf[2][first]) THEN "BloomOutOfRange" ELSE "Invalid")
     ELSE Ok(Arr([n \in DOMAIN bf[2] |-> Num(AsI16(bf[2][n][2]))]))

\* What is copied if present and the terms that the target needs, under version 3; `bf`
\* is the last term of every domain in the catalog.
Hoist(v2, copied, target) ==
  LET bf == ConvertBloom(Get(v2, "bf"))
      keys == {"v"} \union (copied \intersect Keys(v2)) \union target.term_keys
  IN IF ~ target.term_keys \subseteq Keys(v2) THEN Refused("MissingTerm")
     ELSE IF "bf" \in target.term_keys /\ ~bf.ok THEN bf
     ELSE Ok(Obj([key \in keys |-> IF key = "v" THEN Num(EqlSchemaVersion)
                                   ELSE IF key = "bf" THEN bf.value ELSE Get(v2, key)]))

KindRefused(kind) == Refused(IF kind \in {Str("ct"), Str("sv")} THEN "KindMismatch" ELSE "UnknownKind")

ConvertScalar(v2, target) == Hoist(v2, {"i", "c"}, target)

Convert(v2, target) ==
  LET kind == Get(v2, "k")
  IN IF target.kind = "UnknownDomain" THEN Refused("UnknownDomain")
     ELSE IF Get(v2, "v") # Num(V2WireVersion) THEN Refused("UnsupportedVersion")
     ELSE IF target.kind = "Scalar" /\ kind = Str("ct") THEN ConvertScalar(v2, target)
     ELSE IF target.kind = "Json" /\ kind = Str("sv") THEN Refused("UnconvertibleSteVecDocument")
     ELSE KindRefused(kind)

\* A bug to catch: the version not looked at.
ConvertScalarQueryAnyVersion(v2, target) ==
  IF target.term_keys = {} THEN Refused("UnsupportedQueryTarget")
  ELSE IF Get(v2, "k") \notin {Absent, Str("ct")} THEN KindRefused(Get(v2, "k"))
  ELSE Hoist(v2, {"i"}, target)

\* A query payload may come without its envelope, but not with that of another.
ConvertScalarQuery(v2, target) ==
  IF target.term_keys = {} THEN Refused("UnsupportedQueryTarget")
  ELSE IF ~IsObj(v2) THEN Refused("Invalid")
  ELSE IF Get(v2, "v") \notin {Absent, Num(V2WireVersion)} THEN Refused("UnsupportedVersion")
  ELSE IF Get(v2, "k") \notin {Absent, Str("ct")} THEN KindRefused(Get(v2, "k"))
  ELSE Hoist(v2, {"i"}, target)

ConvertQuery(v2, target) ==
  IF target.kind = "UnknownDomain" THEN Refused("UnknownDomain")
  ELSE IF target.kind = "Json" THEN Refused("UnconvertibleSteVecQuery")
  ELSE ConvertScalarQuery(v2, target)

\* The strict parse of a result through the struct that a table holds for the name: a
\* name without one is a panic.
ParsedThrough(structs, result) ==
  IF ~result.ok THEN result
  ELSE IF structs = {} THEN Refused("panic")
  ELSE IF \A s \in structs : Deserializes(s, result.value) THEN result ELSE Refused("Invalid")

InTable(table, name) == {table[n] : n \in DOMAIN table \intersect {name}}

\* from_v2 parses through the inventory, from_v2_typed through the table of payloads.
FromV2Wire(v2, target) ==
  ParsedThrough({s \in Inventory : UnqualifiedDomain(s) = target.domain}, Convert(v2, target))
FromV2Typed(v2, target) == ParsedThrough(InTable(DomainPayload, target.domain), Convert(v2, target))
FromV2Query(v2, target) ==
  ParsedThrough(InTable(QueryPayload, QueryDomainNameOf(target)), ConvertQuery(v2, target))

IsV3Payload(j) ==
  /\ Get(j, "v") = Num(EqlSchemaVersion)
  /\ IsObj(Get(j, "i"))
  /\ IsStr(Get(j, "c")) \/ IsArr(Get(j, "sv"))

(***************************************************************************)
(* The database: the CHECK of a domain, and the comparison of two terms.    *)
(***************************************************************************)
DomainsNamed(name) ==
  UNION {{f} \X {d \in DomainsOf(f) : IsScalar(d) /\ SqlTypname(f, d) = name} : f \in CatalogFamilies}

CheckAdmits(block, j) ==
  /\ IsObj(j)
  /\ block.keys \subseteq Keys(j)
  /\ block.forbidden \intersect Keys(j) = {}
  /\ \A key \in block.nonempty : IsArr(Get(j, key)) /\ Get(j, key)[2] # <<>>
  /\ Get(j, "v") \in {Num(EqlSchemaVersion), Str("3")}

\* The value that a term's constructor takes from its key.
Constructed(t, j) ==
  LET field == Get(j, JsonKey[t])
  IN CASE t = "Bloom" -> {element[2] : element \in ToSet(field[2])}
       [] t = "Ore" -> field[2][1][2]
       [] OTHER -> field[2]

\* The operator of domain d between a column and its query operand.
Operate(d, op, column, operand) ==
  LET t == CHOOSE u \in TermForOperator(d.terms, op) : TRUE
      a == Constructed(t, column)
      b == Constructed(t, operand)
  IN Compare(BodyOperator(op), a, b) /\ (NeedsEmptyBloomGuard(op) => b # {} \/ a = {})

(***************************************************************************)
(* The client.  It emits the terms that a domain of the family has, the     *)
(* position of a bit as it is or as the smallint that it wraps to, and no    *)
(* ORE term block for the empty text (which is plaintext 0).                 *)
(***************************************************************************)
Identifier == Obj([t |-> Str("users"), c |-> Str("email")])

ClientBloom(x, signed) ==
  LET bit(g) == IF signed /\ Position[g] > 32767 THEN Position[g] - 65536 ELSE Position[g]
  IN Arr([n \in 1 .. Cardinality(Grams[x]) |-> Num(bit(SetToSeq(Grams[x])[n]))])

ClientTerm(t, f, x, signed) ==
  CASE t = "Bloom" -> ClientBloom(x, signed)
    [] t = "Ore" -> Arr(IF f = "text" /\ x = 0 THEN <<>> ELSE <<Str(Encrypt(t, f, x))>>)
    [] OTHER -> Str(Encrypt(t, f, x))

ClientPayload(f, d, x, signed) ==
  LET envelope == [v |-> Num(V2WireVersion), k |-> Str("ct"), i |-> Identifier, c |-> Str(x)]
  IN Obj([key \in DOMAIN envelope \union TermJsonKeys(d.terms) |->
            IF key \in DOMAIN envelope THEN envelope[key]
            ELSE ClientTerm(TermAt(d.terms, key), f, x, signed)])

ClientDocument == Obj([v |-> Num(V2WireVersion), k |-> Str("sv"), i |-> Identifier, sv |-> Arr(<<>>)])

Without(j, dropped) == Obj([key \in Keys(j) \ dropped |-> Get(j, key)])
WithUnknown(j) ==
  Obj([key \in Keys(j) \union {"unknown"} |-> IF key \in Keys(j) THEN Get(j, key) ELSE Num(3)])

\* What else may stand where a payload or one of its fields should.
Misfits(key) ==
  {Num(3), Null, Arr(<<>>), Arr(<<Null>>), Arr(<<Num(-32769)>>), Arr(<<Num(0), Num(65536)>>),
   Obj([t |-> Str("users")])}
    \union (IF key = "k" THEN {Str("ct"), Str("sv"), Str("other")} ELSE {})
    \union (IF key = "i" THEN {Arr(<<Str("users"), Str("email")>>)} ELSE {})

Damaged(j) ==
  {Without(j, {key}) : key \in Keys(j)}
    \union (UNION {{Obj([j[2] EXCEPT ![key] = x]) : x \in Misfits(key)} : key \in Keys(j)})
    \union {WithUnknown(j), Str("other")}

(***************************************************************************)
(* State.                                                                   *)
(***************************************************************************)
VARIABLES
  phase,    \* idle, emitted, converted, stored, asked, answered; refused or rejected
  family,   \* the family of the column
  source,   \* the domain whose terms the client emits
  honest,   \* whether what the client emitted arrived
  plain,    \* the plaintexts of what is stored and what is asked for
  input,    \* the payload to convert
  target,   \* the domain it is converted for
  out,      \* what it was converted to
  needle,   \* what the query payload was converted to
  error,    \* why a payload was refused
  answer    \* the operator asked for and its answer

vars == <<phase, family, source, honest, plain, input, target, out, needle, error, answer>>

NoTarget == Target("UnknownDomain", <<>>, {})

Init ==
  /\ phase = "idle"
  /\ family \in CatalogFamilies
  /\ source \in {d \in DomainsOf(family) : IsScalar(d)}
  /\ honest = TRUE
  /\ plain = <<0, 0>> /\ input = Absent /\ target = NoTarget
  /\ out = Absent /\ needle = Absent /\ error = "none" /\ answer = None

Emit(x, signed) ==
  LET sent == IF family \in ScalarFamilies THEN {ClientPayload(family, source, x, signed)}
              ELSE {ClientPayload(family, source, x, signed), ClientDocument}
  IN /\ phase = "idle"
     /\ phase' = "emitted"
     /\ plain' = <<x, 0>>
     /\ input' \in sent \union UNION {Damaged(p) : p \in sent}
     /\ honest' = (input' \in sent)
     /\ UNCHANGED <<family, source, target, out, needle, error, answer>>

ConvertStored(name) ==
  LET result == FromV2Wire(input, ParseTarget(name))
  IN /\ phase = "emitted"
     /\ target' = ParseTarget(name)
     /\ out' = result.value
     /\ error' = result.error
     /\ phase' = IF result.ok THEN "converted" ELSE "refused"
     /\ UNCHANGED <<family, source, honest, plain, input, needle, answer>>

\* The INSERT, under the CHECK of the column's domain.
Insert ==
  /\ phase = "converted"
  /\ phase' = IF \A p \in DomainsNamed(target.domain) : CheckAdmits(DomainBlock(p[1], p[2]), out)
                THEN "stored" ELSE "rejected"
  /\ input' = Absent
  /\ UNCHANGED <<family, source, honest, plain, target, out, needle, error, answer>>

\* A query payload of the same column, with its envelope, without its ciphertext or
\* without either; queries for rows of a payload that arrived intact suffice.
ConvertNeedle(y, signed) ==
  /\ phase = "stored" /\ honest
  /\ \E dropped \in {{}, {"c"}, {"v", "k", "c"}} :
       LET query == Without(ClientPayload(family, source, y, signed), dropped)
           result == FromV2Query(query, target)
       IN /\ input' = query
          /\ needle' = result.value
          /\ error' = result.error
          /\ phase' = IF result.ok THEN "asked" ELSE "refused"
  /\ plain' = <<plain[1], y>>
  /\ UNCHANGED <<family, source, honest, target, out, answer>>

\* The query, the operand cast to its domain.
Answer ==
  /\ phase = "asked"
  /\ \E p \in DomainsNamed(target.domain) :
       IF CheckAdmits(QueryDomainBlock(p[1], p[2]), needle)
         THEN /\ phase' = "answered"
              /\ \E op \in OperatorsForTerms(p[2].terms) : answer' = <<op, Operate(p[2], op, out, needle)>>
         ELSE phase' = "rejected" /\ UNCHANGED answer
  /\ UNCHANGED <<family, source, honest, plain, input, target, out, needle, error>>

Next ==
  \/ \E x \in Plaintexts, signed \in BOOLEAN : Emit(x, signed)
  \/ \E name \in Names : ConvertStored(name)
  \/ Insert
  \/ \E y \in Plaintexts, signed \in BOOLEAN : ConvertNeedle(y, signed)
  \/ Answer

Spec == Init /\ [][Next]_vars

-----------------------------------------------------------------------------
(* Properties.                                                             *)

EmptyOre(j) == Get(j, "ob") = Arr(<<>>)

(* What the converter lets through, the CHECK of the column's domain admits, or that of   *)
(* the query operand, and a consumer that probes for v3 payloads takes a query operand for *)
(* none and a stored one for one, unless its identifier came as an array, which no client   *)
(* sends and the strict parse lets pass.  Excepted, too, is an ORE term without a block     *)
(* (README, divergences).                                                               *)
AdmittedByCheck ==
  /\ phase = "rejected" => EmptyOre(out) \/ EmptyOre(needle)
  /\ out # Absent /\ ~IsV3Payload(out) => ~honest /\ IsArr(Get(out, "i"))
  /\ ~IsV3Payload(needle)

(* A client's payload is converted whenever it has the terms that the target needs, and a  *)
(* query payload whenever the target can be queried; on any other input, from_v2 and        *)
(* from_v2_typed, which parse through different generated tables, refuse alike, and no      *)
(* lookup in these tables panics.                                                       *)
ConvertsWhatClientsEmit ==
  /\ error # "panic"
  /\ phase \in {"converted", "refused"} /\ needle = Absent /\ (phase = "refused" => out = Absent) =>
       FromV2Typed(input, target) = [ok |-> phase = "converted", value |-> out, error |-> error]
  /\ phase = "refused" /\ honest /\ input # ClientDocument /\ target.kind = "Scalar" =>
       IF out = Absent THEN ~ target.term_keys \subseteq TermJsonKeys(source.terms)
       ELSE target.term_keys = {}

SameFamily == \A p \in DomainsNamed(target.domain) : p[1] = family

(* A converted row answers a converted query as the plaintexts would, for every operator  *)
(* of the domain, whether a bit of a bloom filter came unsigned or as a smallint.         *)
AnswersAsPlaintext ==
  phase = "answered" /\ SameFamily => RightAnswer(family, answer[1], plain[1], plain[2], answer[2])

(* What was converted is not converted again, for any target: a job that is run once more  *)
(* over rows it has dealt with, or a client that converts an operand twice, is refused.    *)
RefusedAgain ==
  \A name \in Names : \A j \in {out, needle} :
    ~FromV2Wire(j, ParseTarget(name)).ok /\ ~FromV2Query(j, ParseTarget(name)).ok

=============================================================================
