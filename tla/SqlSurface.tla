----------------------------- MODULE SqlSurface -----------------------------
(***************************************************************************)
(* The input of `eql-codegen order`: every .sql file walked under src/v3   *)
(* with the targets of its `-- REQUIRE:` lines, and what                   *)
(* crates/eql-codegen/src/ordering.rs reads out of them.                   *)
(***************************************************************************)
EXTENDS Naturals, FiniteSets, Sequences

CONSTANTS Files,        \* the walked .sql files, each as its rank in byte order
          MaxRequires,  \* bound on the `-- REQUIRE:` targets one file lists
          Missing,      \* a target under src/v3 that is not a walked file
          Outside       \* a target that is not under src/v3

ASSUME FilesAssumption == Files \subseteq Nat /\ IsFiniteSet(Files)
ASSUME TargetsAssumption == Missing \notin Files /\ Outside \notin Files
ASSUME BoundAssumption == MaxRequires \in Nat

RequireTargets == Files \union {Missing, Outside}

\* The targets of one file, in the order of its lines; one may be listed twice.
Requires == UNION {[1..n -> RequireTargets] : n \in 0..MaxRequires}

\* The positions of r[f] that topo_order counts: a node other than f itself.
Blocking(r, f) == {i \in DOMAIN r[f] : r[f][i] \in Files \ {f}}

ListsOutside(r) == \E f \in Files : \E i \in DOMAIN r[f] : r[f][i] = Outside
ListsUnknown(r) == \E f \in Files : \E i \in DOMAIN r[f] : r[f][i] = Missing
ListsSelf(r)    == \E f \in Files : \E i \in DOMAIN r[f] : r[f][i] = f

\* surface_order's verdict on r before it sorts.  Outside comes first: such a
\* target is unknown too, and the breach of the surface is the better diagnosis.
Rejection(r) ==
  IF ListsOutside(r) THEN "outside"
  ELSE IF ListsUnknown(r) THEN "unknown"
  ELSE IF ListsSelf(r) THEN "self" ELSE "none"

\* A set of files each of which waits for another of the set: there is one
\* exactly when the requirements contain a cycle.
Knot(r, S) == S # {} /\ \A f \in S : \E i \in Blocking(r, f) : r[f][i] \in S
=============================================================================
