---------------------------- MODULE SurfaceOrder ----------------------------
(***************************************************************************)
(* The order of the SQL installer (crates/eql-codegen/src/ordering.rs):    *)
(* surface_order validates the `-- REQUIRE:` targets of the walked files   *)
(* and topo_order linearizes them with Kahn's algorithm over a min-heap    *)
(* keyed by path.  The inner loop over `dependents` is one step per edge.  *)
(***************************************************************************)
EXTENDS SqlSurface

VARIABLES req,      \* the targets each file lists, as requires_of reads them
          status,   \* where surface_order is, or what it returned
          indeg,    \* topo_order's in-degree counters
          ready,    \* the min-heap of files whose counter is zero
          order,    \* the files popped so far
          edges     \* entries of dependents[n] the inner loop has yet to visit

orderVars == <<req, status, indeg, ready, order, edges>>

Returned == {"ok", "cycle", "outside", "unknown", "self"}

Emitted == {order[i] : i \in DOMAIN order}

OrderTyped ==
  /\ req \in [Files -> Requires]
  /\ status \in {"validate", "sort"} \union Returned
  /\ indeg \in [Files -> Nat]
  /\ ready \subseteq Files
  /\ order \in Seq(Files)
  /\ edges \subseteq Files \X (1..MaxRequires)

OrderInit ==
  /\ req \in [Files -> Requires]
  /\ status = "validate"
  /\ indeg = [f \in Files |-> 0]
  /\ ready = {}
  /\ order = <<>>
  /\ edges = {}

Reject ==
  /\ status = "validate"
  /\ Rejection(req) # "none"
  /\ status' = Rejection(req)
  /\ UNCHANGED <<req, indeg, ready, order, edges>>

BuildGraph ==
  /\ status = "validate"
  /\ Rejection(req) = "none"
  /\ status' = "sort"
  /\ indeg' = [f \in Files |-> Cardinality(Blocking(req, f))]
  /\ ready' = {f \in Files : Blocking(req, f) = {}}
  /\ UNCHANGED <<req, order, edges>>

\* A bug to catch: one dependents entry per file although indeg counts each line.
DependentsOncePerFile(n) ==
  {e \in Files \X (1..MaxRequires) :
     /\ e[2] \in Blocking(req, e[1]) /\ req[e[1]][e[2]] = n
     /\ \A i \in Blocking(req, e[1]) : req[e[1]][i] = n => e[2] <= i}

\* dependents[n]: one entry for every line that names n, duplicates included.
Dependents(n) ==
  {e \in Files \X (1..MaxRequires) :
     e[2] \in Blocking(req, e[1]) /\ req[e[1]][e[2]] = n}

\* A bug to catch: a stack in place of the min-heap.
PopAnyReady ==
  /\ status = "sort"
  /\ edges = {}
  /\ \E n \in ready :
       /\ order' = Append(order, n)
       /\ ready' = ready \ {n}
       /\ edges' = Dependents(n)
  /\ UNCHANGED <<req, status, indeg>>

Pop ==
  /\ status = "sort"
  /\ edges = {}
  /\ \E n \in ready :
       /\ \A m \in ready : n <= m
       /\ order' = Append(order, n)
       /\ ready' = ready \ {n}
       /\ edges' = Dependents(n)
  /\ UNCHANGED <<req, status, indeg>>

\* A bug to catch: the file is pushed on its first decrement.
RelaxPushEarly ==
  /\ status = "sort"
  /\ \E e \in edges :
       /\ edges' = edges \ {e}
       /\ indeg' = [indeg EXCEPT ![e[1]] = @ - 1]
       /\ ready' = ready \union {e[1]}
  /\ UNCHANGED <<req, status, order>>

\* A bug to catch: the decrement is forgotten, so the loop never ends.
RelaxForgetEdge ==
  /\ status = "sort"
  /\ \E e \in edges :
       /\ edges' = edges
       /\ indeg' = [indeg EXCEPT ![e[1]] = IF @ = 0 THEN 0 ELSE @ - 1]
       /\ ready' = ready
  /\ UNCHANGED <<req, status, order>>

\* One turn of `for d in deps`.  The code visits the entries in insertion order;
\* any order is allowed here, so "push order does not matter" is part of the claim.
Relax ==
  /\ status = "sort"
  /\ \E e \in edges :
       /\ edges' = edges \ {e}
       /\ indeg' = [indeg EXCEPT ![e[1]] = @ - 1]
       /\ ready' = IF indeg[e[1]] = 1 THEN ready \union {e[1]} ELSE ready
  /\ UNCHANGED <<req, status, order>>

Finish ==
  /\ status = "sort"
  /\ edges = {}
  /\ ready = {}
  /\ status' = IF Len(order) = Cardinality(Files) THEN "ok" ELSE "cycle"
  /\ UNCHANGED <<req, indeg, ready, order, edges>>

OrderNext == Reject \/ BuildGraph \/ Pop \/ Relax \/ Finish

OrderSpec == OrderInit /\ [][OrderNext]_orderVars

\* The sort is one thread of a build tool that runs to its end.
FairSpec == OrderSpec /\ WF_orderVars(OrderNext)

-----------------------------------------------------------------------------
\* No file is written before a file it requires, at any point of the sort: the
\* installer that build.sh concatenates never uses an object before its file.
RequiresFirst ==
  \A k \in DOMAIN order : \A i \in Blocking(req, order[k]) :
    \E j \in 1..(k - 1) : order[j] = req[order[k]][i]

\* "You order exactly the set you walk": a successful sort holds every file
\* once.  topo_order only compares lengths, which a file popped twice would fool.
NothingDropped ==
  status = "ok" => /\ Emitted = Files
                   /\ \A i, j \in DOMAIN order : order[i] = order[j] => i = j

\* The cycle error is raised exactly when there is a cycle, and the files it
\* names as `remaining` are themselves a knot that no order can write.
CycleVerdictExact ==
  /\ status = "cycle" => Knot(req, Files \ Emitted)
  /\ status = "ok" => \A S \in SUBSET Files : ~Knot(req, S)

\* Sorting always returns.
Returns == <>(status \in Returned)

\* The heap, the counters and the relaxation loop implement the promise: every
\* pop is the first writable path by name, so the order depends on the
\* requirements alone and the installer is reproducible byte for byte.
Promise == INSTANCE Linearization WITH
             verdict <- IF status \in Returned THEN status ELSE "pending"
ImplementsPromise == Promise!Spec

-----------------------------------------------------------------------------
\* The induction behind the properties.  Outstanding(f) are the lines of f whose
\* decrement is still to come; the counter is their number at every step.
Outstanding(f) ==
  {i \in Blocking(req, f) : req[f][i] \notin Emitted \/ <<f, i>> \in edges}

Sorting == status \in {"sort", "ok", "cycle"}

Counters == Sorting => \A f \in Files : indeg[f] = Cardinality(Outstanding(f))

HeapExact == Sorting => ready = {f \in Files \ Emitted : Outstanding(f) = {}}

EdgesWait ==
  \A e \in edges : /\ e[2] \in Blocking(req, e[1])
                   /\ req[e[1]][e[2]] \in Emitted
                   /\ e[1] \notin Emitted

Unstarted == ~Sorting => order = <<>> /\ ready = {} /\ edges = {}

Accepted == Sorting => Rejection(req) = "none"

NoRepeat == \A i, j \in DOMAIN order : order[i] = order[j] => i = j

KnotsWait == \A S \in SUBSET Files : Knot(req, S) => S \cap Emitted = {}

Settled ==
  /\ status \in {"ok", "cycle"} => edges = {} /\ ready = {}
  /\ status = "ok" => Emitted = Files
  /\ status = "cycle" => Emitted # Files

OrderInv == /\ OrderTyped /\ Counters /\ HeapExact /\ EdgesWait /\ Unstarted
        /\ Accepted /\ NoRepeat /\ RequiresFirst /\ KnotsWait /\ Settled
=============================================================================
