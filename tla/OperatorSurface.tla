--------------------------- MODULE OperatorSurface ---------------------------
(* What an expression over encrypted columns means in a database where EQL is         *)
(* installed: PostgreSQL resolves the operator among the overloads that EQL declares   *)
(* and the jsonb operators below its domains, runs the function behind it, and may     *)
(* rewrite the expression by the commutator and the negator that were declared.        *)
(*                                                                                    *)
(* Installation is examined one file at a time, with nothing before it but what its    *)
(* REQUIRE lines ask for: the order of the files promises no more (SurfaceOrder).      *)
EXTENDS SqlRendering, TermSemantics

CONSTANT
  Unknown       \* the type of an untyped literal

(***************************************************************************)
(* The hand-written files.                                                 *)
(***************************************************************************)
Bare(T) == [typname |-> T, keys |-> {}, nonempty |-> {}, forbidden |-> {}]

TermTypesPath(t) == <<Ctor[t], "types">>
TermFunctionsPath(t) == <<Ctor[t], "functions">>
TermPrerequisites(t) ==
  {Schema, TermTypesPath(t)} \union (IF t = "Ore" THEN {<<"crypto">>, <<"common">>} ELSE {})

TermTypesFile(t) == TypesOnly({Schema}, {Bare(TermType(t))})
TermFunctionsFile(t) ==
  FunctionsFile(TermPrerequisites(t),
                {Entry("constructor", Fn("eql_v3_internal", Ctor[t], <<Jsonb>>), "", Jsonb, t,
                       {Type(TermType(t))})})

TermSqlFiles(t) ==
  {<<TermTypesPath(t), TermTypesFile(t)>>, <<TermFunctionsPath(t), TermFunctionsFile(t)>>}

\* The operators of an ORE term, and the operator class over them.
OreOperators == <<"ore_block_256", "operators">>
OreType == TermType("Ore")
OreComparator(op) == Fn("eql_v3_internal", op, <<OreType, OreType>>)
OreRequires == {Schema, TermTypesPath("Ore"), TermFunctionsPath("Ore")}

OreOperatorsFile ==
  File(OreRequires, {}, {Entry("comparison", OreComparator(op), op, OreType, "Ore", {}) : op \in Comparisons},
       {[op |-> Op(op, OreType, OreType), procedure |-> OreComparator(op),
         commutator |-> Commutator(op), negator |-> Negator(op)] : op \in Comparisons}, {})
OreOpclassFile ==
  File(OreRequires \union {OreOperators}, {}, {}, {},
       {Op(op, OreType, OreType) : op \in Comparisons \ {"<>"}})

OreFiles == {<<OreOperators, OreOperatorsFile>>, <<OreOpclass, OreOpclassFile>>}

\* Documents: what json/operators.sql answers, refuses, and json/blockers.sql blocks.
JsonAnswered ==
  {<<op, JsonSearchType, k>> : op \in {"->", "->>"}, k \in {<<"text">>, <<"integer">>}}
    \union {<<op, JsonSearchType, JsonSearchType>> : op \in {"@>", "<@"}}
    \union {<<"@>", JsonSearchType, JsonQueryType>>, <<"<@", JsonQueryType, JsonSearchType>>}

JsonBlocked ==
  {<<s[1], JsonSearchType, <<s[2]>> >> :
     s \in ({"?", "-"} \X {"text"}) \union ({"?|", "?&", "#>", "#>>", "-", "#-"} \X {"text[]"})
             \union ({"@?", "@@"} \X {"jsonpath"}) \union {<<"-", "integer">>}}
    \union {<<op, JsonSearchType, JsonSearchType>> : op \in Comparisons}
    \union {<<op, s[1], s[2]>> : op \in Comparisons \union {"@>", "<@", "||"},
                                 s \in BothWays(JsonSearchType, Jsonb)}
    \union {<<"@>", JsonSearchType, JsonEntryType>>, <<"<@", JsonEntryType, JsonSearchType>>}

DeclareJson(r, fn) == [op |-> Op(r[1], r[2], r[3]), procedure |-> fn, commutator |-> "none", negator |-> "none"]
DocumentFn(r) == Fn("eql_v3", r[1], <<r[2], r[3]>>)
BlockedFn(r) == Fn("eql_v3_internal", r[1], <<r[2], r[3]>>)

\* An entry is compared by order, and refuses to be compared for equality.
EntryRefusal(op) ==
  Entry("blocker", Fn("eql_v3", FunctionName(op), <<JsonEntryType, JsonEntryType>>), op, JsonEntryType, "", {})

JsonTypesFile == TypesOnly({Schema}, {Bare(JsonSearchType), Bare(JsonEntryType), Bare(JsonQueryType)})
JsonFunctionsFile ==
  FunctionsFile({Schema, JsonTypes, TermTypesPath(JsonEntryTerm), TermFunctionsPath(JsonEntryTerm)},
                {ExtractorEntry(JsonEntryType, JsonEntryTerm)})
JsonOperatorsFile ==
  File({Schema, JsonTypes, JsonFunctions, ScalarsBlocker, TermTypesPath(JsonEntryTerm)}, {},
       {Entry("document", DocumentFn(r), r[1], JsonSearchType, "", {}) : r \in JsonAnswered}
         \union {WrapperEntry(JsonEntryType, op, JsonEntryType, JsonEntryType, JsonEntryTerm) : op \in OrderOps}
         \union {EntryRefusal(op) : op \in EqualityOps},
       {DeclareJson(r, DocumentFn(r)) : r \in JsonAnswered}
         \union {OperatorEntry(op, JsonEntryType, JsonEntryType, TRUE) : op \in OrderOps}
         \union {DeclareJson(<<op, JsonEntryType, JsonEntryType>>, EntryRefusal(op).fn) : op \in EqualityOps},
       {})
JsonBlockersFile ==
  File({Schema, JsonTypes, ScalarsBlocker}, {},
       {Entry("blocker", BlockedFn(r), r[1], JsonSearchType, "", {}) : r \in JsonBlocked},
       {DeclareJson(r, BlockedFn(r)) : r \in JsonBlocked}, {})
JsonAggregatesFile ==
  File({JsonTypes, JsonFunctions, TermTypesPath(JsonEntryTerm)}, {}, {}, {},
       {Type(JsonEntryType), Fn("eql_v3", Extractor[JsonEntryTerm], <<JsonEntryType>>)})

JsonFiles ==
  {<<JsonTypes, JsonTypesFile>>, <<JsonFunctions, JsonFunctionsFile>>,
   << <<"json", "operators">>, JsonOperatorsFile>>, << <<"json", "blockers">>, JsonBlockersFile>>,
   << <<"json", "aggregates">>, JsonAggregatesFile>>}

\* Files that create nothing which another one names.
PlainPaths == {Schema, <<"crypto">>, <<"common">>, ScalarsBlocker}
PlainFile(path) == File(IF path = Schema THEN {} ELSE {Schema}, {}, {}, {}, {})

HandWrittenFiles ==
  {<<path, PlainFile(path)>> : path \in PlainPaths}
    \union (UNION {TermSqlFiles(t) : t \in Terms}) \union OreFiles \union JsonFiles

(***************************************************************************)
(* The installed surface.  These are constants: TLC computes each once.    *)
(***************************************************************************)
Files == Table(HandWrittenFiles \union GeneratedFiles)

Typed(args) == {Type(T) : T \in {U \in ToSet(args) : U \notin BaseTypes}}

Creates(file) ==
  {Type(b.typname) : b \in file.types} \union {e.fn : e \in file.functions}
    \union {o.op : o \in file.operators}

Reads(file) ==
  (UNION {Typed(e.fn.args) \union e.calls : e \in file.functions})
    \union (UNION {Typed(o.op.args) \union {o.procedure} : o \in file.operators}) \union file.calls

\* What the files declare, taken together.
Contents == Range(Files)
Domains == UNION {c.types : c \in Contents}
DeclaredOperators == UNION {c.operators : c \in Contents}
Entries == UNION {c.functions : c \in Contents}

\* An operator by its operands, with the functions behind it: one, if every file is in
\* order.
ByOperands(operators, entries) ==
  [args \in {o.op.args : o \in operators} |->
     LET o == CHOOSE p \in operators : p.op.args = args
     IN [commutator |-> o.commutator, negator |-> o.negator,
         behind |-> {e \in entries : e.fn = o.procedure}]]
DeclaredOf == [op \in OperatorSymbols |-> {o \in DeclaredOperators : o.op.name = op}]
OperatorTable == [op \in OperatorSymbols |-> ByOperands(DeclaredOf[op], Entries)]

ByName(blocks) == [T \in {b.typname : b \in blocks} |-> CHOOSE b \in blocks : b.typname = T]
BlockOf == ByName(Domains)

\* The domains over jsonb, columns first.
TermDomains == {TermType(t) : t \in Terms}
JsonbDomains == {b.typname : b \in Domains} \ TermDomains
StorageTypes == {T \in JsonbDomains : T[1] = "public"}
CrossOperands(f) == {QueryDomainName(f, d) : d \in CrossCandidates(f)}

(***************************************************************************)
(* PostgreSQL: the operators of jsonb, and the choice among overloads.     *)
(***************************************************************************)
AnyNonArray == <<"anynonarray">>

NativeSlots(op) ==
  CASE op \in Comparisons \union {"@>", "<@", "||"} -> {"jsonb"}
    [] op = "-" -> {"text", "integer", "text[]"}
    [] op \in {"->", "->>"} -> {"text", "integer"}
    [] op = "?" -> {"text"}
    [] op \in {"@?", "@@"} -> {"jsonpath"}
    [] OTHER -> {"text[]"}

JsonbOperators == UNION {{Op(op, Jsonb, <<k>>) : k \in NativeSlots(op)} : op \in OperatorSymbols}
NativeOperators ==
  JsonbOperators \union {Op("||", AnyNonArray, <<"text">>), Op("||", <<"text">>, AnyNonArray)}

Overloads == NativeOperators \union {o.op : o \in DeclaredOperators}
OverloadsOf == [op \in OperatorSymbols |-> {o \in Overloads : o.name = op}]

\* Every other type is a domain over jsonb.
OwnBase == BaseTypes \union TermDomains \union {Unknown, AnyNonArray}
Base(T) == IF T \in OwnBase THEN T ELSE Jsonb
Coercible(from, to) ==
  \/ from = Unknown
  \/ from = to
  \/ Base(from) = Jsonb /\ Base(to) = Jsonb
  \/ to = AnyNonArray /\ from # <<"text[]">>

Viable(overloads, args) == {o \in overloads : \A i \in 1 .. 2 : Coercible(args[i], o.args[i])}
ExactPositions(o, args) == {i \in 1 .. 2 : args[i] # Unknown /\ o.args[i] = Base(args[i])}

BestOf(candidates, args) ==
  {o \in candidates : \A p \in candidates :
     Cardinality(ExactPositions(o, args)) >= Cardinality(ExactPositions(p, args))}

\* An untyped literal prefers to be text.
PreferText(candidates, args) ==
  {o \in candidates : \A i \in 1 .. 2 : args[i] = Unknown => o.args[i] = <<"text">>}

Only(candidates) == IF Cardinality(candidates) = 1 THEN CHOOSE o \in candidates : TRUE ELSE None

\* First the overload for exactly these types, an untyped literal taken for the type of
\* the other operand; then for that type's base; then the best of all that the operands
\* can be coerced to, where only a base type counts as a match.
Resolve(overloads, op, args) ==
  LET known == IF args[1] = Unknown THEN args[2] ELSE args[1]
      same == [i \in 1 .. 2 |-> IF args[i] = Unknown THEN known ELSE args[i]]
      exact == Op(op, same[1], same[2])
      base == Op(op, Base(known), Base(known))
      best == BestOf(Viable(overloads, args), args)
  IN CASE exact \in overloads -> exact
       [] exact \notin overloads /\ Unknown \in ToSet(args) /\ base \in overloads -> base
       [] OTHER -> IF Cardinality(best) > 1 /\ Unknown \in ToSet(args)
                     THEN Only(PreferText(best, args)) ELSE Only(best)

\* What stands for no type and no operator is none.
ASSUME MarkersAssumption ==
  /\ Unknown \notin JsonbDomains \union BaseTypes
  /\ None \notin Overloads

(***************************************************************************)
(* What a value holds under the key of a term, and what the constructor    *)
(* behind the extractor makes of it.  A text stands for a well-formed term. *)
(***************************************************************************)
FieldKinds == {"absent", "null", "text", "empty array", "array"}
Arrays == {"empty array", "array"}

\* What the CHECK of a domain lets through.
Admitted(block, key) ==
  {field \in FieldKinds :
     /\ key \in block.keys => field # "absent"
     /\ key \in block.nonempty => field = "array"
     /\ key \in block.forbidden => field = "absent"}

\* `->>` is NULL for an absent key and for a JSON null, and a text for anything else, of
\* which decode takes no array.
HmacOf(field) == IF field \in {"absent", "null"} THEN "NULL" ELSE "term"
OpeOf(field) == IF field \in Arrays THEN "error" ELSE HmacOf(field)
BloomOf(field) == IF field \in Arrays THEN "term" ELSE "NULL"
OreOf(field) == IF field \in Arrays THEN "term" ELSE "error"

TermRead(t, field) ==
  CASE t = "Hm" -> HmacOf(field)
    [] t = "Ope" -> OpeOf(field)
    [] t = "Bloom" -> BloomOf(field)
    [] t = "Ore" -> OreOf(field)

(***************************************************************************)
(* The answer of an overload to plaintexts x and y.                        *)
(***************************************************************************)
\* The family of an operand is the third segment of its type's name.
FamilyOf(args) ==
  LET T == IF args[1] \in BaseTypes \union {JsonEntryType} THEN args[2] ELSE args[1] IN T[3]

\* The overloads that EQL declares, and the comparison of terms in which one may end.
Declared(o) == o # None /\ o.args \in DOMAIN OperatorTable[o.name]
Wrappers(o) ==
  IF Declared(o) THEN {e \in OperatorTable[o.name][o.args].behind : e.kind = "wrapper"} ELSE {}

\* The wrapper compares the term of a with the term of b.
Evaluate(e, o, x, y) ==
  LET f == FamilyOf(o.args)
      a == Encrypt(e.term, f, x)
      b == Encrypt(e.term, f, y)
  IN Compare(e.op, a, b) /\ (NeedsEmptyBloomGuard(o.name) => b # {} \/ a = {})

(***************************************************************************)
(* State.                                                                  *)
(***************************************************************************)
VARIABLES
  phase,    \* install, failed, installed, resolved, answered, commuted or negated
  file,     \* the file under examination
  loaded,   \* the files it can rely on
  asked,    \* the operator and operand types of the expression
  chosen,   \* the overload PostgreSQL runs for it
  plain,    \* the operands' plaintexts
  answer    \* what it answers

vars == <<phase, file, loaded, asked, chosen, plain, answer>>

Init ==
  /\ phase = "install"
  /\ file \in DOMAIN Files
  /\ loaded = {}
  /\ asked = None /\ chosen = None /\ plain = None /\ answer = None

RequiredBy(paths) == UNION {Files[p].requires : p \in paths}

\* Each reference of the file at path resolves, and no other file creates the same object.
Loads(files, path, before) ==
  LET present == UNION {Creates(files[p]) : p \in before}
      own == Creates(files[path])
  IN /\ Reads(files[path]) \subseteq present \union own
     /\ \A p \in DOMAIN files \ {path} : Creates(files[p]) \intersect own = {}

\* The installer puts what a file requires before it, and what that requires.
Require ==
  /\ phase = "install"
  /\ ~ RequiredBy(loaded \union {file}) \subseteq loaded
  /\ loaded' = loaded \union RequiredBy(loaded \union {file})
  /\ UNCHANGED <<phase, file, asked, chosen, plain, answer>>

RunFile ==
  /\ phase = "install"
  /\ RequiredBy(loaded \union {file}) \subseteq loaded
  /\ IF loaded \subseteq DOMAIN Files /\ Loads(Files, file, loaded)
       THEN phase' = "installed" /\ file' = None /\ loaded' = {}
       ELSE phase' = "failed" /\ UNCHANGED <<file, loaded>>
  /\ UNCHANGED <<asked, chosen, plain, answer>>

Expressions ==
  LET types == JsonbDomains \union BaseTypes \union {Unknown}
  IN {e \in [op : OperatorSymbols, args : types \X types] : \E T \in ToSet(e.args) : T \notin OwnBase}

\* A query comes with any of them.
Ask ==
  /\ phase = "installed"
  /\ phase' = "resolved"
  /\ \E e \in Expressions :
       /\ asked' = e
       /\ chosen' = Resolve(OverloadsOf[e.op], e.op, e.args)
  /\ UNCHANGED <<file, loaded, plain, answer>>

Answer(x, y) ==
  /\ phase = "resolved"
  /\ phase' = "answered"
  /\ plain' = <<x, y>>
  /\ \E e \in Wrappers(chosen) : answer' = Evaluate(e, chosen, x, y)
  /\ UNCHANGED <<file, loaded, asked, chosen>>

\* The planner runs the operator it was told of, with these operands; an operator it
\* was told of that does not exist answers nothing.
RewriteAs(wrappers, o, xy) ==
  /\ o.name # "none"
  /\ chosen' = o
  /\ plain' = xy
  /\ IF wrappers = {} THEN answer' = None
     ELSE \E e \in wrappers : answer' = Evaluate(e, o, xy[1], xy[2])
  /\ UNCHANGED <<file, loaded, asked>>

Commuted(o) == Op(OperatorTable[o.name][o.args].commutator, o.args[2], o.args[1])
Negated(o) == Op(OperatorTable[o.name][o.args].negator, o.args[1], o.args[2])

Commute ==
  /\ phase = "answered" /\ phase' = "commuted"
  /\ \E o \in {Commuted(chosen)} : RewriteAs(Wrappers(o), o, <<plain[2], plain[1]>>)
Negate ==
  /\ phase = "answered" /\ phase' = "negated"
  /\ \E o \in {Negated(chosen)} : RewriteAs(Wrappers(o), o, plain)

Next ==
  \/ Require
  \/ RunFile
  \/ Ask
  \/ \E x, y \in Plaintexts : Answer(x, y)
  \/ Commute
  \/ Negate

Spec == Init /\ [][Next]_vars

-----------------------------------------------------------------------------
(* Properties.                                                             *)

(* Every file, hand-written or generated, finds each domain, function and operator it  *)
(* names among what its REQUIRE lines bring in, whatever else the installer has or has  *)
(* not run, and creates nothing that another file creates too.                         *)
LoadsCleanly == phase # "failed"

\* The operands of a jsonb operator with T, or a literal, in the place of jsonb.
InPlaceOfJsonb(T, op, args) ==
  \E o \in JsonbOperators :
    /\ o.name = op
    /\ \A i \in 1 .. 2 : args[i] \in IF o.args[i] = Jsonb THEN {T, Jsonb, Unknown} ELSE {o.args[i]}

(* No jsonb operator runs on an encrypted column: at every signature of jsonb's own     *)
(* operators, with the column's domain in the place of one jsonb or both and a literal  *)
(* or a jsonb in the other, PostgreSQL picks an overload that EQL declares.  Excepted   *)
(* are the concatenation of a document with a document or a literal (README, divergences) *)
(* and an entry, which is no column's type.  What a literal meets elsewhere is stated by   *)
(* LiteralsReachJsonb.                                                                  *)
NativeSignatureBlocked ==
  phase = "resolved" =>
    \A T \in (StorageTypes \ {JsonEntryType}) \intersect ToSet(asked.args) :
      /\ InPlaceOfJsonb(T, asked.op, asked.args)
      /\ ~ (T = JsonSearchType /\ asked.op = "||" /\ Jsonb \notin ToSet(asked.args))
      => Declared(chosen)

(* An untyped literal to the right of a column slips past EQL exactly where no operator of *)
(* two such columns is declared: `->`, `?` and others whose right operand is no jsonb, as   *)
(* the comment of json/operators.sql warns, and `||` and `@@` of a document.  Elsewhere the literal   *)
(* is taken for the column's own domain, and EQL answers or refuses, though                *)
(* docs/reference/json-support.md:40 says of any operator that jsonb's is resolved, blockers *)
(* bypassed, and query_types.sql.j2:12 that none is (README, divergences).                *)
LiteralsReachJsonb ==
  phase = "resolved" =>
    \A T \in StorageTypes \ {JsonEntryType} :
      asked.args = <<T, Unknown>> =>
        (~Declared(chosen) <=> \/ asked.op \notin Comparisons \union {"@>", "<@", "@@", "||"}
                               \/ asked.op \in {"@@", "||"} /\ T = JsonSearchType)

(* An entry of a document compared with any query operand that has its term is answered *)
(* or refused by EQL, in either order: the jsonb comparison below both domains would     *)
(* answer without an error, and wrongly.                                                *)
SeamClosed ==
  phase = "resolved" /\ asked.op \in Comparisons =>
    \A f \in CatalogFamilies : \A T \in CrossOperands(f) :
      asked.args \in BothWays(JsonEntryType, T) => Declared(chosen)

(* What answers is right about the plaintexts: equality always, order always but for    *)
(* text, whose ordering term may take two texts for one, and then errs to equality; a    *)
(* match holds when every n-gram of the needle is in the text, and a needle without one   *)
(* matches nothing but a text without one.                                              *)
AnswerExact ==
  phase = "answered" => RightAnswer(FamilyOf(chosen.args), chosen.name, plain[1], plain[2], answer)

\* The domain whose CHECK an operand has passed when the wrapper reads it.
CheckedAs(e, T) == IF T = Jsonb THEN e.dom ELSE T

(* The CHECK of an operand's domain, stored or query, and the extractor behind the       *)
(* wrapper fit together: whatever a value that passed the CHECK holds under the key of    *)
(* the compared term, an ORE term comes out of it, and no term is missing because the     *)
(* key is.  What the CHECK does let through without a term is a JSON null under `hm`, `op` *)
(* and `bf`, and anything but an array under `bf`: there the extractor is NULL, and the   *)
(* row silently does not match (README, divergences).  An entry of a document may lack    *)
(* its term by design.                                                                  *)
TermGuaranteed ==
  phase = "resolved" =>
    \A e \in Wrappers(chosen) : \A i \in 1 .. 2 :
      LET T == CheckedAs(e, chosen.args[i])
      IN T # JsonEntryType =>
           \A field \in Admitted(BlockOf[T], JsonKey[e.term]) :
             /\ e.term = "Ore" => TermRead(e.term, field) = "term"
             /\ TermRead(e.term, field) = "NULL" => field = "null" \/ (e.term = "Bloom" /\ field = "text")

(* The planner may rewrite an expression at will: with the operands swapped under the    *)
(* declared commutator it answers the same, under the declared negator the opposite, and  *)
(* both exist at these types.                                                           *)
PlannerRewritesAgree ==
  [][ /\ phase' = "commuted" => answer' = answer
      /\ phase' = "negated" => answer' = ~answer ]_vars

=============================================================================
