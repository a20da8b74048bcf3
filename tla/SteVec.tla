------------------------------- MODULE SteVec -------------------------------
(***************************************************************************)
(* Encrypted JSON documents (src/v3/json/types.sql, functions.sql and      *)
(* operators.sql): the domains that admit a payload, the entry points that *)
(* test containment, the accessors that hand out entries, and the array    *)
(* functions.  One call is under way at a time, on any stored document,    *)
(* with any operand; the plpgsql loops run one turn per step.  SQL's three *)
(* truth values are "t", "f" and "null"; a raised exception is "error".    *)
(***************************************************************************)
EXTENDS Integers, SequencesExt, FiniteSetsExt

CONSTANTS Selectors, \* encrypted selectors
          ArrayFlags, \* what the `a` key of a document may hold: a spelling of a
                     \* boolean, null, or anything else, which is "junk"
          MaxEntries \* bound on the entries of a document or needle

ASSUME FlagsAssumption ==
  ArrayFlags \subseteq {"absent", "false", "true", "null", "junk"} /\ MaxEntries \in Nat

VARIABLES doc,    \* the stored document: its `a` flag and its entries
          call,   \* the call under way: a function and its operand
          idx,    \* the turn of its loop
          rows,   \* the rows returned so far: positions of entries
          answer  \* "pending", "rows", a truth value, "error" or "length"

vars == <<doc, call, idx, rows, answer>>

-----------------------------------------------------------------------------
\* Payloads.  A jsonb object is the function of its keys; only the selector and
\* the ordering term have values that matter.
Object(keys, s) == [k \in keys |-> IF k = "s" THEN s ELSE "text"]

RawEntries ==
  {Object(keys, s) : s \in Selectors,
     keys \in {{"s"}, {"s", "op"}, {"s", "c"}, {"s", "c", "op"},
               {"s", "c", "a"}, {"s", "c", "h"}, {"s", "c", "hm"}}}

EntryKeys == {"s", "c", "a", "op", "i", "v", "h"}

\* A bug to catch: the CHECK of extracted entries was not widened to `h`.
IsEntryWithoutHeader(e) ==
  /\ {"s", "c"} \subseteq DOMAIN e
  /\ DOMAIN e \subseteq EntryKeys \ {"h"}

\* The inline CHECK of eql_v3_json_entry, which extracted entries meet.
IsEntry(e) ==
  /\ {"s", "c"} \subseteq DOMAIN e
  /\ "hm" \notin DOMAIN e
  /\ DOMAIN e \subseteq EntryKeys

\* eql_v3_is_valid_ste_vec_entry_payload, which stored entries meet.
IsEntryPayload(e) ==
  /\ {"s", "c"} \subseteq DOMAIN e
  /\ "hm" \notin DOMAIN e
  /\ DOMAIN e \subseteq EntryKeys

Lists(entries) == UNION {[1..n -> entries] : n \in 0..MaxEntries}

\* Payloads the CHECKs of eql_v3_json_search and query_json let through.
Documents == [a : ArrayFlags, sv : Lists({e \in RawEntries : IsEntryPayload(e)})]
Queries == Lists({e \in RawEntries : DOMAIN e \subseteq {"s", "op"}})

-----------------------------------------------------------------------------
\* PostgreSQL's `@>` on jsonb: each element of y is an object whose fields some
\* element of x has with the same values.
JsonbContains(x, y) ==
  \A j \in DOMAIN y : \E i \in DOMAIN x :
    DOMAIN y[j] \subseteq DOMAIN x[i] /\ \A k \in DOMAIN y[j] : x[i][k] = y[j][k]

Truth(b) == IF b THEN "t" ELSE "f"

\* A bug to catch: the ordering terms of a needle take part.
ToSteVecQueryKeepsOp(sv) ==
  [i \in DOMAIN sv |-> [k \in DOMAIN sv[i] \intersect {"s", "op"} |-> sv[i][k]]]

\* to_ste_vec_query, of a document as of a needle.
ToSteVecQuery(sv) == [i \in DOMAIN sv |-> [k \in {"s"} |-> sv[i].s]]

\* jsonb_array: the distinct elements, cut down to their selectors.
JsonbArray(sv) == {[k \in {"s"} |-> e.s] : e \in ToSet(sv)}

\* is_ste_vec_array, a boolean that may be NULL.  The CHECK of documents leaves `a`
\* free, and the cast to boolean raises on what is no boolean.
IsSteVecArray(d) ==
  CASE d.a = "true" -> "t"
    [] d.a \in {"absent", "false"} -> "f"
    [] d.a = "null" -> "null"
    [] d.a = "junk" -> "error"

\* meta_data(val) || elem: the envelope's keys, under the entry's own.
Graft(e) == [k \in DOMAIN e \union {"i", "v", "h"} |->
               IF k \in DOMAIN e THEN e[k] ELSE "text"]

\* The cast of a grafted element to eql_v3_json_entry raises if it does not fit.
Fits(positions) == \A i \in ToSet(positions) : IsEntry(Graft(doc.sv[i]))

-----------------------------------------------------------------------------
OverDocuments == {"doc @> doc", "doc <@ doc", "jsonb_contains", "jsonb_contained_by"}
OverQueries == {"doc @> query", "query <@ doc", "jsonb_contains", "jsonb_contained_by"}
BySelector == {"->", "jsonb_path_query", "jsonb_path_query_first"}

Idle == [fn |-> "none"]

Init == doc \in Documents /\ call = Idle /\ idx = 0 /\ rows = <<>> /\ answer = "pending"

Ask(fn, arg) == call = Idle /\ call' = [fn |-> fn, arg |-> arg] /\ UNCHANGED doc
Running(fn) == call.fn = fn /\ answer = "pending" /\ UNCHANGED <<doc, call>>

Answer(value) == answer' = value /\ UNCHANGED <<idx, rows>>
StartLoop == idx' = 1 /\ UNCHANGED <<rows, answer>>
NextTurn == idx' = idx + 1 /\ UNCHANGED <<rows, answer>>
ReturnRows(positions) ==
  IF Fits(positions) THEN rows' = positions /\ answer' = "rows" /\ UNCHANGED idx
                     ELSE Answer("error")

\* The containment entry points; in the `<@` forms the document is on the right.
Contain(fn, sv) ==
  /\ Ask(fn, sv)
  /\ Answer(Truth(
       IF fn \in {"jsonb_contains", "jsonb_contained_by"}
       THEN JsonbArray(sv) \subseteq JsonbArray(doc.sv)
       ELSE JsonbContains(ToSteVecQuery(doc.sv), ToSteVecQuery(sv))))

\* jsonb_document_contains(ste_vec(doc), element): NULL in, NULL out; then a loop.
CallDocumentContains(e) ==
  /\ Ask("jsonb_document_contains", <<e>>)
  /\ IF doc.sv = <<>> THEN Answer("null") ELSE StartLoop

\* A bug to catch: the last element decides.
DocumentContainsTurnForgets ==
  /\ Running("jsonb_document_contains")
  /\ IF idx = Len(doc.sv) THEN Answer(Truth(doc.sv[idx].s = call.arg[1].s)) ELSE NextTurn

DocumentContainsTurn ==
  /\ Running("jsonb_document_contains")
  /\ IF doc.sv[idx].s = call.arg[1].s THEN Answer("t")
     ELSE IF idx = Len(doc.sv) THEN Answer("f") ELSE NextTurn

\* The positions of the entries under s, in the order of the document.
Matches(s) ==
  LET hits == {i \in DOMAIN doc.sv : doc.sv[i].s = s}
  IN  CHOOSE q \in [1..Cardinality(hits) -> hits] :
        \A i, j \in DOMAIN q : i < j => q[i] < q[j]

\* A bug to catch: the first entry of the document in place of the first match.
AccessFirst(fn, s) ==
  /\ Ask(fn, s)
  /\ ReturnRows(IF fn = "jsonb_path_query" \/ Matches(s) = <<>> THEN Matches(s) ELSE <<1>>)

\* `->`, path_query_first: the first match, no row standing for NULL; path_query: all.
Access(fn, s) ==
  /\ Ask(fn, s)
  /\ ReturnRows(IF fn = "jsonb_path_query" \/ Matches(s) = <<>> THEN Matches(s)
                ELSE <<Matches(s)[1]>>)

PathExists(s) == Ask("jsonb_path_exists", s) /\ Answer(Truth(Matches(s) # <<>>))

\* `-> n`: from 0, negative positions from the end, on arrays only.
AccessByPosition(n) ==
  /\ Ask("-> n", n)
  /\ LET i == IF n >= 0 THEN n + 1 ELSE Len(doc.sv) + n + 1
     IN  IF IsSteVecArray(doc) = "error" THEN Answer("error")
         ELSE ReturnRows(IF IsSteVecArray(doc) = "t" /\ i \in DOMAIN doc.sv THEN <<i>> ELSE <<>>)

\* array_length of an empty array is NULL.
CallArrayLength ==
  /\ Ask("jsonb_array_length", Len(doc.sv))
  /\ Answer(IF IsSteVecArray(doc) # "t" THEN "error"
            ELSE IF doc.sv = <<>> THEN "null" ELSE "length")

\* IF NOT NULL does not raise; the loop's bound raises if it is NULL.
CallArrayElements ==
  /\ Ask("jsonb_array_elements", <<>>)
  /\ IF IsSteVecArray(doc) \in {"f", "error"} \/ doc.sv = <<>> THEN Answer("error")
     ELSE StartLoop

\* A bug to catch: the last element is left out.
ArrayElementsTurnShort ==
  /\ Running("jsonb_array_elements")
  /\ IF idx = Len(doc.sv) THEN Answer("rows")
     ELSE idx' = idx + 1 /\ rows' = Append(rows, idx) /\ UNCHANGED answer

ArrayElementsTurn ==
  /\ Running("jsonb_array_elements")
  /\ IF ~Fits(<<idx>>) THEN Answer("error")
     ELSE /\ rows' = Append(rows, idx)
          /\ IF idx = Len(doc.sv) THEN answer' = "rows" /\ UNCHANGED idx
             ELSE idx' = idx + 1 /\ UNCHANGED answer

Next ==
  \/ \E fn \in OverDocuments, d \in Documents : Contain(fn, d.sv)
  \/ \E fn \in OverQueries, sv \in Queries : Contain(fn, sv)
  \/ \E e \in RawEntries : CallDocumentContains(e)
  \/ \E fn \in BySelector, s \in Selectors : Access(fn, s)
  \/ \E s \in Selectors : PathExists(s)
  \/ \E n \in (-MaxEntries)..MaxEntries : AccessByPosition(n)
  \/ CallArrayLength \/ CallArrayElements
  \/ DocumentContainsTurn \/ ArrayElementsTurn

Spec == Init /\ [][Next]_vars

-----------------------------------------------------------------------------
SelectorsOf(sv) == {e.s : e \in ToSet(sv)}
Returned(fns) == answer # "pending" /\ call.fn \in fns
IsArray == doc.a = "true"

\* Containment is selector-set containment whichever entry point answers: the
\* operators over every pair of types, their commuted forms, the function forms
\* and the loop all agree, ordering terms or not.
ContainmentIsSubset ==
  Returned(OverDocuments \union OverQueries \union {"jsonb_document_contains"}) =>
    (answer = "t" <=> SelectorsOf(call.arg) \subseteq SelectorsOf(doc.sv))

\* The ways to get at a selector agree: `->` and jsonb_path_query_first return the
\* first row of jsonb_path_query, which are all the entries under that selector,
\* and jsonb_path_exists says whether there is one.
AccessorsAgree ==
  LET hits == {i \in DOMAIN doc.sv : doc.sv[i].s = call.arg}
  IN  /\ Returned({"jsonb_path_exists"}) => answer = Truth(hits # {})
      /\ Returned({"jsonb_path_query"}) => ToSet(rows) = hits /\ Len(rows) = Cardinality(hits)
      /\ Returned({"->", "jsonb_path_query_first"}) =>
           rows = IF hits = {} THEN <<>> ELSE <<Min(hits)>>

\* Of whatever document was let into the column every entry can be taken out: grafted
\* with the envelope it meets the CHECK of its new domain, so no accessor by selector
\* raises, and the others raise for the document's sake alone.  These are a flag that
\* is no boolean, which only they read, and where an array is asked for a document that
\* is none, or an array without elements, for the loop's bound is NULL.  (A flag that is
\* null is not false to jsonb_array_elements, and not true to jsonb_array_length.)
EntriesComeOut ==
  /\ Returned(BySelector) => answer = "rows"
  /\ Returned({"-> n"}) => answer = IF doc.a = "junk" THEN "error" ELSE "rows"
  /\ Returned({"jsonb_array_elements"}) =>
       answer = IF doc.a \in {"true", "null"} /\ doc.sv # <<>> THEN "rows" ELSE "error"
  /\ Returned({"jsonb_array_length"}) => (answer = "error" <=> ~IsArray)

\* jsonb_array_elements returns one row per element of an array, in order.
ArrayRowsComplete ==
  Returned({"jsonb_array_elements"}) /\ IsArray => rows = [i \in DOMAIN doc.sv |-> i]

-----------------------------------------------------------------------------
(* The inductive invariant.                                                *)

\* Nothing has been answered before a call.
Quiet == call = Idle => answer = "pending" /\ rows = <<>>

\* Nothing has been asked, or a loop is under way and all turns before idx are done.
Pending ==
  answer = "pending" =>
    \/ call = Idle
    \/ /\ call.fn = "jsonb_document_contains" /\ call.arg = <<call.arg[1]>>
       /\ idx \in DOMAIN doc.sv
       /\ \A i \in 1..(idx - 1) : doc.sv[i].s # call.arg[1].s
    \/ /\ call.fn = "jsonb_array_elements" /\ doc.a \in {"true", "null"}
       /\ idx \in DOMAIN doc.sv /\ rows = [i \in 1..(idx - 1) |-> i]

\* What every reachable state satisfies: an answer, once given, is the right one.
IInv ==
  /\ doc \in Documents /\ Quiet /\ Pending
  /\ ContainmentIsSubset /\ AccessorsAgree /\ EntriesComeOut /\ ArrayRowsComplete
=============================================================================
