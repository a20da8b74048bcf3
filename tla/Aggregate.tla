----------------------------- MODULE Aggregate -----------------------------
(***************************************************************************)
(* min and max over encrypted values and grouped_value, as PostgreSQL runs *)
(* them: STRICT state functions, PARALLEL SAFE, the state function again   *)
(* as combine function (src/v3/json/aggregates.sql, the generated          *)
(* <domain>_aggregates.sql files and src/v3/aggregates.sql).  The rows of  *)
(* a group reach the workers' partial states in any order, and the leader  *)
(* combines the partial states in any order.                               *)
(***************************************************************************)
EXTENDS Integers, FiniteSets

CONSTANTS Rows,      \* the rows of one group
          Workers,   \* processes with a partial state, the leader included
          Terms,     \* order-preserving terms, as numbers
          None,      \* a state not yet seeded
          Absent,    \* a row that is SQL NULL
          Bare,      \* a value without an `op` term: its ord_term is NULL
          BareScalars \* a scalar column may hold values with "op": null

ASSUME RowAssumption == None \notin Rows
ASSUME TermAssumption ==
  /\ Terms \subseteq Int /\ BareScalars \in BOOLEAN
  /\ Absent \notin Terms /\ Bare \notin Terms /\ Absent # Bare

Kinds == {"entry_min", "entry_max", "scalar_min", "scalar_max", "grouped_value"}

VARIABLES kind,    \* the aggregate the query calls
          value,   \* what each row holds: Absent, Bare or its term
          pending, \* rows the parallel scan has not handed out
          partial, \* each worker's running state, a row or None
          merged,  \* workers whose partial state the leader has combined
          total,   \* the leader's combined state
          seen,    \* history: the rows behind each partial state
          phase

vars == <<kind, value, pending, partial, merged, total, seen, phase>>

States == Rows \union {None}

\* What a column of the aggregate's argument type can hold.  Entries may lack
\* `op` by design; the scalar domains only check that the key is present.
ValuesOf(k) ==
  {Absent} \union Terms \union
    (IF k \in {"scalar_min", "scalar_max"} /\ ~BareScalars THEN {} ELSE {Bare})

Init ==
  /\ kind \in Kinds
  /\ value \in [Rows -> ValuesOf(kind)]
  /\ pending = Rows
  /\ partial = [w \in Workers |-> None]
  /\ merged = {}
  /\ total = None
  /\ seen = [w \in Workers |-> {}]
  /\ phase = "scan"

Orderable(r) == value[r] \in Terms

\* value_ope < state_ope, or > for max: NULL, hence not true, if either is NULL.
Beats(v, s) ==
  /\ Orderable(v) /\ Orderable(s)
  /\ \/ kind \in {"entry_min", "scalar_min"} /\ value[v] < value[s]
     \/ kind \in {"entry_max", "scalar_max"} /\ value[v] > value[s]

\* A bug to catch: entries compared the way scalars are.
SfuncNaive(s, v) == IF Beats(v, s) THEN v ELSE s

\* The state functions.  The one of entries skips candidates without a term and
\* lets any other replace a state without one; the one of scalars only compares;
\* the one of grouped_value keeps what it has.
Sfunc(s, v) ==
  CASE kind = "grouped_value" -> s
    [] kind \in {"scalar_min", "scalar_max"} -> IF Beats(v, s) THEN v ELSE s
    [] OTHER -> IF Orderable(v) /\ (~Orderable(s) \/ Beats(v, s)) THEN v ELSE s

\* A bug to catch: a NULL row seeds or resets the state, as if not STRICT.
TransitionLax(s, r) == IF s = None \/ value[r] = Absent THEN r ELSE Sfunc(s, r)

\* How PostgreSQL applies a STRICT function to a state and an input row: NULL
\* inputs are skipped, the first other one is the state.
Transition(s, r) ==
  IF value[r] = Absent THEN s
  ELSE IF s = None THEN r
  ELSE Sfunc(s, r)

\* A worker takes the next row of the scan.
Scan(w) ==
  /\ phase = "scan"
  /\ \E r \in pending :
       /\ pending' = pending \ {r}
       /\ partial' = [partial EXCEPT ![w] = Transition(@, r)]
       /\ seen' = [seen EXCEPT ![w] = @ \union {r}]
  /\ UNCHANGED <<kind, value, merged, total, phase>>

\* The scan is exhausted: the workers hand their partial states over.
ScanEnds ==
  /\ phase = "scan"
  /\ pending = {}
  /\ phase' = "combine"
  /\ UNCHANGED <<kind, value, pending, partial, merged, total, seen>>

\* The strict combine function: a state that was never seeded counts for nothing.
Combine(w) ==
  /\ phase = "combine"
  /\ w \notin merged
  /\ merged' = merged \union {w}
  /\ total' = IF partial[w] = None THEN total ELSE Transition(total, partial[w])
  /\ UNCHANGED <<kind, value, pending, partial, seen, phase>>

Finish ==
  /\ phase = "combine"
  /\ merged = Workers
  /\ phase' = "done"
  /\ UNCHANGED <<kind, value, pending, partial, merged, total, seen>>

Next == (\E w \in Workers : Scan(w) \/ Combine(w)) \/ ScanEnds \/ Finish

Spec == Init /\ [][Next]_vars

-----------------------------------------------------------------------------
\* s is a right answer for the rows rs.  None only if all are NULL; otherwise one
\* of them that is not NULL; and for min and max, if any of them has a term, one
\* with a term that no other one beats.
Answers(s, rs) ==
  /\ s = None <=> \A r \in rs : value[r] = Absent
  /\ s # None => s \in rs /\ value[s] # Absent
  /\ s # None /\ kind # "grouped_value" =>
       \A r \in rs : Orderable(r) => Orderable(s) /\ ~Beats(r, s)

\* The aggregate's result is the extremum of the group, whatever the order in
\* which rows without a term, with equal terms and NULLs arrive, and however they
\* are spread over workers: no value without a term survives next to one with a
\* term, and NULL is returned for a group of NULLs alone.
ResultExact == phase = "done" => Answers(total, Rows)

-----------------------------------------------------------------------------
TypeOK ==
  /\ kind \in Kinds
  /\ value \in [Rows -> ValuesOf(kind)]
  /\ pending \subseteq Rows
  /\ partial \in [Workers -> States]
  /\ merged \subseteq Workers
  /\ total \in States
  /\ seen \in [Workers -> SUBSET Rows]
  /\ phase \in {"scan", "combine", "done"}

MergedRows == UNION {seen[w] : w \in merged}

\* Every row is pending or behind some partial state.
NothingLost == Rows = pending \union UNION {seen[w] : w \in Workers}

\* The induction behind ResultExact: each state answers for the rows behind it.
IInv ==
  /\ TypeOK
  /\ NothingLost
  /\ \A w \in Workers : Answers(partial[w], seen[w])
  /\ Answers(total, MergedRows)
  /\ IF phase = "scan" THEN merged = {} ELSE pending = {}
  /\ phase = "done" => merged = Workers
=============================================================================
