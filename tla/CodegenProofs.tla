--------------------------- MODULE CodegenProofs ----------------------------
(***************************************************************************)
(* Proofs about the generator.  SurfaceOrder, for every finite set of files *)
(* and every list of requirements: the inductive invariant OrderInv, the   *)
(* safety properties it implies, and that the heap implements              *)
(* Linearization.  CodegenTree, for any number of generators, cleans and   *)
(* edits over any catalogs and trees: the inductive invariant IInv, the    *)
(* safety properties it implies, and what a step may not do to a file.     *)
(***************************************************************************)
EXTENDS SurfaceOrder, CodegenTree, FiniteSetTheorems,
        WellFoundedInduction, TLAPS

(* The order of the installer.                                             *)

\* The lines of a file are finite and each one names a target.
LEMMA BlockingFacts ==
  ASSUME req \in [Files -> Requires], NEW f \in Files
  PROVE  /\ Blocking(req, f) \subseteq 1..MaxRequires
         /\ IsFiniteSet(Blocking(req, f))
         /\ \A i \in Blocking(req, f) : req[f][i] \in Files \ {f}
<1>1. PICK n \in 0..MaxRequires : req[f] \in [1..n -> RequireTargets]
  BY DEF Requires
<1>2. DOMAIN req[f] = 1..n
  BY <1>1
<1>3. Blocking(req, f) \subseteq 1..MaxRequires
  BY <1>1, <1>2, BoundAssumption DEF Blocking
<1>4. IsFiniteSet(1..MaxRequires)
  BY BoundAssumption, FS_Interval
<1>. QED
  BY <1>3, <1>4, FS_Subset DEF Blocking

\* What Append adds to a sequence of files.
LEMMA AppendFacts ==
  ASSUME order \in Seq(Files), NEW n \in Files, order' = Append(order, n)
  PROVE  /\ order' \in Seq(Files)
         /\ DOMAIN order = 1..Len(order)
         /\ Len(order) \in Nat
         /\ DOMAIN order' = 1..(Len(order) + 1)
         /\ \A i \in 1..Len(order) : order'[i] = order[i]
         /\ order'[Len(order) + 1] = n
         /\ Emitted' = Emitted \union {n}
<1>1. /\ order' \in Seq(Files) /\ DOMAIN order = 1..Len(order) /\ Len(order) \in Nat
      /\ DOMAIN order' = 1..(Len(order) + 1)
      /\ \A i \in 1..Len(order) : order'[i] = order[i]
      /\ order'[Len(order) + 1] = n
  OBVIOUS
<1>2. Emitted' = Emitted \union {n}
  BY <1>1 DEF Emitted
<1>. QED
  BY <1>1, <1>2

\* A sequence without repetition is as long as the set it lists, so comparing
\* lengths, as topo_order does, tells whether every file was written.
LEMMA LengthTells ==
  ASSUME order \in Seq(Files), NoRepeat
  PROVE  Len(order) = Cardinality(Files) <=> Emitted = Files
<1>1. /\ Len(order) \in Nat
      /\ DOMAIN order = 1..Len(order)
      /\ order \in [1..Len(order) -> Files]
  OBVIOUS
<1>2. order \in Bijection(1..Len(order), Emitted)
  BY <1>1 DEF Bijection, Injection, IsInjective, Surjection, Emitted, NoRepeat
<1>3. ExistsBijection(1..Len(order), Emitted)
  BY <1>2 DEF ExistsBijection
<1>4. IsFiniteSet(1..Len(order)) /\ Cardinality(1..Len(order)) = Len(order)
  BY <1>1, FS_Interval
<1>5. Cardinality(Emitted) = Len(order)
  BY <1>3, <1>4, FS_Bijection
<1>6. Emitted \subseteq Files
  BY <1>1 DEF Emitted
<1>. QED
  BY <1>5, <1>6, FilesAssumption, FS_Subset

\* The counter of a file is zero exactly when none of its lines is outstanding.
LEMMA OutstandingFacts ==
  ASSUME req \in [Files -> Requires], NEW f \in Files
  PROVE  /\ IsFiniteSet(Outstanding(f))
         /\ Cardinality(Outstanding(f)) \in Nat
         /\ Cardinality(Outstanding(f)) = 0 <=> Outstanding(f) = {}
<1>1. Outstanding(f) \in SUBSET Blocking(req, f)
  BY DEF Outstanding
<1>2. IsFiniteSet(Outstanding(f))
  BY <1>1, BlockingFacts, FS_Subset
<1>. QED
  BY <1>2, FS_CardinalityType, FS_EmptySet

LEMMA OrderInitInv == OrderInit => OrderInv
<1>. SUFFICES ASSUME OrderInit PROVE OrderInv
  OBVIOUS
<1>1. Emitted = {}
  BY DEF OrderInit, Emitted
<1>2. OrderTyped
  BY DEF OrderInit, OrderTyped
<1>3. ~Sorting
  BY DEF OrderInit, Sorting
<1>. QED
  BY <1>1, <1>2, <1>3 DEF OrderInit, OrderInv, Counters, HeapExact, EdgesWait, Unstarted,
     Accepted, NoRepeat, RequiresFirst, KnotsWait, Settled, Sorting

LEMMA RejectOrderInv == OrderInv /\ Reject => OrderInv'
<1>. SUFFICES ASSUME OrderInv, Reject PROVE OrderInv'
  OBVIOUS
<1>1. Rejection(req) \in {"outside", "unknown", "self"}
  BY DEF Reject, Rejection
<1>2. ~Sorting' /\ ~Sorting
  BY <1>1 DEF Reject, Sorting
<1>3. order = <<>> /\ ready = {} /\ edges = {}
  BY <1>2 DEF OrderInv, Unstarted
<1>4. OrderTyped'
  BY <1>1 DEF Reject, OrderInv, OrderTyped, Returned
<1>5. Settled'
  BY <1>1 DEF Reject, Settled
<1>. QED
  BY <1>2, <1>3, <1>4, <1>5 DEF Reject, OrderInv, Counters, HeapExact, EdgesWait,
     Unstarted, Accepted, NoRepeat, RequiresFirst, KnotsWait, Emitted

LEMMA BuildOrderInv == OrderInv /\ BuildGraph => OrderInv'
<1>. SUFFICES ASSUME OrderInv, BuildGraph PROVE OrderInv'
  OBVIOUS
<1>. USE DEF BuildGraph
<1>1. ~Sorting
  BY DEF Sorting
<1>2. order = <<>> /\ edges = {} /\ order' = <<>> /\ edges' = {}
  BY <1>1 DEF OrderInv, Unstarted
<1>3. Emitted = {} /\ Emitted' = {}
  BY <1>2 DEF Emitted
<1>4. req \in [Files -> Requires] /\ req' = req
  BY DEF OrderInv, OrderTyped
<1>5. \A f \in Files : Outstanding(f)' = Blocking(req, f)
  BY <1>3, <1>4 DEF Outstanding, Blocking
<1>6. \A f \in Files : Cardinality(Blocking(req, f)) \in Nat
  BY <1>4, BlockingFacts, FS_CardinalityType
<1>7. OrderTyped'
  BY <1>6 DEF OrderInv, OrderTyped
<1>8. Counters' /\ HeapExact'
  BY <1>3, <1>5 DEF Counters, HeapExact
<1>9. Unstarted' /\ Settled' /\ Accepted' /\ EdgesWait'
  BY <1>2, <1>4 DEF Unstarted, Settled, Accepted, Sorting, EdgesWait
<1>10. NoRepeat' /\ RequiresFirst' /\ KnotsWait'
  BY <1>2, <1>3 DEF NoRepeat, RequiresFirst, KnotsWait
<1>. QED
  BY <1>7, <1>8, <1>9, <1>10 DEF OrderInv

LEMMA PopOrderInv == OrderInv /\ Pop => OrderInv'
<1>. SUFFICES ASSUME OrderInv, Pop PROVE OrderInv'
  OBVIOUS
<1>1. PICK n \in ready : /\ order' = Append(order, n)
                         /\ ready' = ready \ {n}
                         /\ edges' = Dependents(n)
  BY DEF Pop
<1>2. /\ Sorting /\ Sorting' /\ edges = {} /\ status = "sort" /\ status' = "sort"
      /\ UNCHANGED <<req, indeg>>
  BY DEF Pop, Sorting
<1>3. /\ req \in [Files -> Requires] /\ order \in Seq(Files) /\ n \in Files
      /\ ready \subseteq Files
  BY <1>1 DEF OrderInv, OrderTyped
<1>4. n \notin Emitted /\ Outstanding(n) = {}
  BY <1>1, <1>2 DEF OrderInv, HeapExact
<1>5. \A i \in Blocking(req, n) : req[n][i] \in Emitted
  BY <1>4 DEF Outstanding
<1>6. Emitted' = Emitted \union {n}
  BY <1>1, <1>3, AppendFacts
<1>7. \A f \in Files : Blocking(req, f)' = Blocking(req, f)
  BY <1>2
<1>8. \A f \in Files : \A i : <<f, i>> \in edges' <=>
                          i \in Blocking(req, f) /\ req[f][i] = n
  BY <1>1, <1>3, BlockingFacts DEF Dependents
<1>9. \A f \in Files : Outstanding(f)' = Outstanding(f)
  BY <1>2, <1>6, <1>7, <1>8, <1>4 DEF Outstanding
<1>10. OrderTyped'
  BY <1>1, <1>2, <1>3, AppendFacts DEF OrderInv, OrderTyped, Dependents
<1>11. Counters'
  BY <1>2, <1>9 DEF OrderInv, Counters
<1>12. HeapExact'
  BY <1>1, <1>2, <1>6, <1>9 DEF OrderInv, HeapExact
<1>13. EdgesWait'
  <2>. SUFFICES ASSUME NEW e \in edges'
                PROVE  /\ e[2] \in Blocking(req, e[1])
                       /\ req[e[1]][e[2]] \in Emitted'
                       /\ e[1] \notin Emitted'
    BY <1>2 DEF EdgesWait
  <2>1. e[2] \in Blocking(req, e[1]) /\ req[e[1]][e[2]] = n /\ e[1] \in Files
    BY <1>1 DEF Dependents
  <2>2. e[1] # n
    BY <2>1 DEF Blocking
  <2>3. e[1] \notin Emitted
    <3>. SUFFICES ASSUME e[1] \in Emitted PROVE FALSE
      OBVIOUS
    <3>1. PICK k \in DOMAIN order : order[k] = e[1]
      BY DEF Emitted
    <3>2. PICK j \in 1..(k - 1) : order[j] = n
      BY <3>1, <2>1 DEF OrderInv, RequiresFirst
    <3>3. DOMAIN order = 1..Len(order) /\ Len(order) \in Nat
      BY <1>3
    <3>4. n \in Emitted
      BY <3>1, <3>2, <3>3 DEF Emitted
    <3>. QED
      BY <3>4, <1>4
  <2>. QED
    BY <2>1, <2>2, <2>3, <1>6
<1>14. Unstarted' /\ Settled' /\ Accepted'
  BY <1>2 DEF OrderInv, Unstarted, Settled, Accepted, Sorting
<1>15. NoRepeat'
  BY <1>1, <1>3, <1>4, AppendFacts DEF OrderInv, NoRepeat, Emitted
<1>16. RequiresFirst'
  <2>. SUFFICES ASSUME NEW k \in DOMAIN order', NEW i \in Blocking(req, order'[k])
                PROVE  \E j \in 1..(k - 1) : order'[j] = req[order'[k]][i]
    BY <1>2 DEF RequiresFirst
  <2>1. CASE k \in DOMAIN order
    <3>1. order'[k] = order[k]
      BY <2>1, <1>1, <1>3, AppendFacts
    <3>2. PICK j \in 1..(k - 1) : order[j] = req[order[k]][i]
      BY <2>1, <3>1 DEF OrderInv, RequiresFirst
    <3>3. order'[j] = order[j]
      BY <2>1, <1>1, <1>3, AppendFacts
    <3>. QED
      BY <3>1, <3>2, <3>3
  <2>2. CASE k \notin DOMAIN order
    <3>1. k = Len(order) + 1 /\ order'[k] = n
      BY <2>2, <1>1, <1>3, AppendFacts
    <3>2. PICK j \in DOMAIN order : order[j] = req[n][i]
      BY <3>1, <1>5 DEF Emitted
    <3>3. order'[j] = order[j] /\ j \in 1..(k - 1)
      BY <3>1, <1>1, <1>3, AppendFacts
    <3>. QED
      BY <3>1, <3>2, <3>3
  <2>. QED
    BY <2>1, <2>2
<1>17. KnotsWait'
  <2>. SUFFICES ASSUME NEW S \in SUBSET Files, Knot(req, S), n \in S
                PROVE  FALSE
    BY <1>2, <1>6 DEF OrderInv, KnotsWait
  <2>1. PICK i \in Blocking(req, n) : req[n][i] \in S
    BY DEF Knot
  <2>2. S \cap Emitted = {}
    BY DEF OrderInv, KnotsWait
  <2>. QED
    BY <2>1, <2>2, <1>5
<1>. QED
  BY <1>10, <1>11, <1>12, <1>13, <1>14, <1>15, <1>16, <1>17 DEF OrderInv

LEMMA RelaxOrderInv == OrderInv /\ Relax => OrderInv'
<1>. SUFFICES ASSUME OrderInv, Relax PROVE OrderInv'
  OBVIOUS
<1>1. PICK e \in edges :
        /\ edges' = edges \ {e}
        /\ indeg' = [indeg EXCEPT ![e[1]] = @ - 1]
        /\ ready' = IF indeg[e[1]] = 1 THEN ready \union {e[1]} ELSE ready
  BY DEF Relax
<1>2. /\ Sorting /\ Sorting' /\ status = "sort" /\ status' = "sort"
      /\ UNCHANGED <<req, order>> /\ Emitted' = Emitted
  BY DEF Relax, Sorting, Emitted
<1>. DEFINE f == e[1]
            i == e[2]
<1>3. /\ req \in [Files -> Requires] /\ f \in Files /\ e = <<f, i>>
      /\ indeg \in [Files -> Nat] /\ ready \subseteq Files
  BY <1>1 DEF OrderInv, OrderTyped
<1>4. i \in Blocking(req, f) /\ req[f][i] \in Emitted /\ f \notin Emitted
  BY DEF OrderInv, EdgesWait
<1>5. Outstanding(f)' = Outstanding(f) \ {i} /\ i \in Outstanding(f)
  BY <1>1, <1>2, <1>3, <1>4 DEF Outstanding
<1>6. \A g \in Files \ {f} : Outstanding(g)' = Outstanding(g)
  BY <1>1, <1>2, <1>3 DEF Outstanding
<1>7. /\ IsFiniteSet(Outstanding(f)) /\ indeg[f] = Cardinality(Outstanding(f))
  BY <1>2, <1>3, OutstandingFacts DEF OrderInv, Counters
<1>8. Cardinality(Outstanding(f)') = indeg[f] - 1
  <2>. DEFINE old == Outstanding(f)
              new == Outstanding(f)'
  <2>1. IsFiniteSet(old) /\ i \in old /\ new = old \ {i} /\ indeg[f] = Cardinality(old)
    BY <1>5, <1>7
  <2>. HIDE DEF old, new
  <2>2. Cardinality(new) = Cardinality(old) - 1
    BY <2>1, FS_RemoveElement
  <2>. QED
    BY <2>1, <2>2 DEF new
<1>9. indeg[f] \in Nat \ {0}
  BY <1>3, <1>5, <1>7, OutstandingFacts
<1>10. indeg[f] = 1 <=> Outstanding(f)' = {}
  <2>1. IsFiniteSet(Outstanding(f)')
    BY <1>5, <1>7, FS_RemoveElement
  <2>2. Cardinality(Outstanding(f)') = 0 <=> Outstanding(f)' = {}
    BY <2>1, FS_EmptySet
  <2>. QED
    BY <2>2, <1>8, <1>9
<1>11. OrderTyped'
  BY <1>1, <1>2, <1>3, <1>9 DEF OrderInv, OrderTyped
<1>12. Counters'
  BY <1>1, <1>2, <1>3, <1>6, <1>8 DEF OrderInv, Counters
<1>13. HeapExact'
  BY <1>1, <1>2, <1>3, <1>4, <1>5, <1>6, <1>10 DEF OrderInv, HeapExact
<1>14. EdgesWait'
  BY <1>1, <1>2 DEF OrderInv, EdgesWait
<1>15. Unstarted' /\ Settled' /\ Accepted'
  BY <1>2 DEF OrderInv, Unstarted, Settled, Accepted, Sorting
<1>16. NoRepeat' /\ RequiresFirst' /\ KnotsWait'
  BY <1>2 DEF OrderInv, NoRepeat, RequiresFirst, KnotsWait
<1>. QED
  BY <1>11, <1>12, <1>13, <1>14, <1>15, <1>16 DEF OrderInv

LEMMA FinishOrderInv == OrderInv /\ Finish => OrderInv'
<1>. SUFFICES ASSUME OrderInv, Finish PROVE OrderInv'
  OBVIOUS
<1>1. /\ status = "sort" /\ status' \in {"ok", "cycle"} /\ edges = {} /\ ready = {}
      /\ UNCHANGED <<req, indeg, ready, order, edges>>
  BY DEF Finish
<1>2. Sorting /\ Sorting' /\ Emitted' = Emitted
  BY <1>1 DEF Sorting, Emitted
<1>3. Len(order) = Cardinality(Files) <=> Emitted = Files
  BY LengthTells DEF OrderInv, OrderTyped
<1>4. Settled'
  BY <1>1, <1>2, <1>3 DEF Finish, Settled
<1>5. \A f \in Files : Outstanding(f)' = Outstanding(f)
  BY <1>1, <1>2 DEF Outstanding
<1>6. Counters' /\ HeapExact'
  BY <1>1, <1>2, <1>5 DEF OrderInv, Counters, HeapExact
<1>7. OrderTyped' /\ EdgesWait' /\ Unstarted' /\ Accepted'
  BY <1>1, <1>2 DEF OrderInv, OrderTyped, Returned, EdgesWait, Unstarted, Accepted
<1>8. NoRepeat' /\ RequiresFirst' /\ KnotsWait'
  BY <1>1, <1>2 DEF OrderInv, NoRepeat, RequiresFirst, KnotsWait
<1>. QED
  BY <1>4, <1>6, <1>7, <1>8 DEF OrderInv

LEMMA StutterOrderInv == OrderInv /\ UNCHANGED orderVars => OrderInv'
<1>. SUFFICES ASSUME OrderInv, UNCHANGED orderVars PROVE OrderInv'
  OBVIOUS
<1>1. Emitted' = Emitted /\ (Sorting' <=> Sorting)
  BY DEF orderVars, Emitted, Sorting
<1>2. \A f \in Files : Outstanding(f)' = Outstanding(f)
  BY <1>1 DEF orderVars, Outstanding
<1>. QED
  BY <1>1, <1>2 DEF orderVars, OrderInv, OrderTyped, Counters, HeapExact, EdgesWait, Unstarted,
     Accepted, NoRepeat, RequiresFirst, KnotsWait, Settled

\* Type correctness and everything the sort relies on, at every step.
THEOREM OrderInvariance == OrderSpec => []OrderInv
<1>1. OrderInv /\ [OrderNext]_orderVars => OrderInv'
  BY RejectOrderInv, BuildOrderInv, PopOrderInv, RelaxOrderInv, FinishOrderInv, StutterOrderInv DEF OrderNext
<1>. QED
  BY <1>1, OrderInitInv, PTL DEF OrderSpec

-----------------------------------------------------------------------------
\* No file is ever written before a file it requires.
THEOREM RequiresFirstHolds == OrderSpec => []RequiresFirst
<1>1. OrderInv => RequiresFirst
  BY DEF OrderInv
<1>. QED
  BY <1>1, OrderInvariance, PTL

\* A successful sort writes every walked file exactly once.
THEOREM NothingDroppedHolds == OrderSpec => []NothingDropped
<1>1. OrderInv => NothingDropped
  BY DEF OrderInv, Settled, NoRepeat, NothingDropped
<1>. QED
  BY <1>1, OrderInvariance, PTL

\* When nothing is ready or to be relaxed, every file left waits for a file left.
LEMMA StuckIsKnot ==
  ASSUME OrderInv, Sorting, ready = {}, edges = {}, Emitted # Files
  PROVE  Knot(req, Files \ Emitted)
<1>1. Emitted \subseteq Files /\ req \in [Files -> Requires]
  BY DEF OrderInv, OrderTyped, Emitted
<1>2. ASSUME NEW f \in Files \ Emitted
      PROVE  \E i \in Blocking(req, f) : req[f][i] \in Files \ Emitted
  <2>1. Outstanding(f) # {}
    BY DEF OrderInv, HeapExact
  <2>2. PICK i \in Blocking(req, f) : req[f][i] \notin Emitted
    BY <2>1 DEF Outstanding
  <2>. QED
    BY <2>2, <1>1, BlockingFacts
<1>. QED
  BY <1>1, <1>2 DEF Knot

\* The sort fails exactly when the requirements contain a cycle, and the files
\* the error names all wait for each other.
THEOREM CycleVerdictExactHolds == OrderSpec => []CycleVerdictExact
<1>1. ASSUME OrderInv PROVE CycleVerdictExact
  <2>1. CASE status = "cycle"
    BY <2>1, <1>1, StuckIsKnot DEF CycleVerdictExact, OrderInv, Settled, Sorting
  <2>2. CASE status = "ok"
    BY <2>2, <1>1 DEF CycleVerdictExact, OrderInv, Settled, KnotsWait, Knot
  <2>. QED
    BY <2>1, <2>2 DEF CycleVerdictExact
<1>. QED
  BY <1>1, OrderInvariance, PTL

-----------------------------------------------------------------------------
\* With no edge left to relax the heap holds exactly the writable files.
LEMMA HeapIsWritable ==
  ASSUME OrderInv, Sorting, edges = {}
  PROVE  ready = Promise!Writable
<1>1. \A f \in Files : Outstanding(f) = {} <=>
                       \A i \in Blocking(req, f) : req[f][i] \in Emitted
  BY DEF Outstanding
<1>2. Promise!Emitted = Emitted
  BY DEF Promise!Emitted, Emitted
<1>3. \A f \in Files : Promise!Blocking(req, f) = Blocking(req, f)
  BY DEF Promise!Blocking, Blocking
<1>. QED
  BY <1>1, <1>2, <1>3 DEF OrderInv, HeapExact, Promise!Writable

LEMMA SameRejection == Promise!Rejection(req) = Rejection(req)
BY DEF Promise!Rejection, Rejection, Promise!ListsOutside, ListsOutside,
   Promise!ListsUnknown, ListsUnknown, Promise!ListsSelf, ListsSelf

LEMMA InitPromise == OrderInit => Promise!Init
BY DEF OrderInit, Promise!Init, Returned, Promise!Requires, Requires, Promise!RequireTargets,
   RequireTargets

\* Every step of the heap is a step of the promise or leaves its state alone.
LEMMA StepPromise ==
  ASSUME OrderInv, [OrderNext]_orderVars
  PROVE  [Promise!Next]_<<req, IF status \in Returned THEN status ELSE "pending", order>>
<1>. DEFINE verdict == IF status \in Returned THEN status ELSE "pending"
<1>1. CASE Reject
  <2>1. status' \in Returned /\ verdict = "pending" /\ verdict' = Rejection(req)
    BY <1>1 DEF Reject, Rejection, Returned
  <2>2. Promise!Refuse
    BY <1>1, <2>1, SameRejection DEF Reject, Promise!Refuse
  <2>. QED
    BY <2>2 DEF Promise!Next
<1>2. CASE BuildGraph
  BY <1>2 DEF BuildGraph, Returned
<1>3. CASE Pop
  <2>1. verdict = "pending" /\ verdict' = "pending" /\ Sorting /\ edges = {}
    BY <1>3 DEF Pop, Returned, Sorting
  <2>2. ready = Promise!Writable
    BY <2>1, HeapIsWritable
  <2>3. Promise!Rejection(req) = "none"
    BY <2>1, SameRejection DEF OrderInv, Accepted
  <2>4. Promise!Emit
    BY <1>3, <2>1, <2>2, <2>3 DEF Pop, Promise!Emit
  <2>. QED
    BY <2>4 DEF Promise!Next
<1>4. CASE Relax
  BY <1>4 DEF Relax, Returned
<1>5. CASE Finish
  <2>1. verdict = "pending" /\ Sorting /\ edges = {} /\ ready = {}
    BY <1>5 DEF Finish, Returned, Sorting
  <2>2. Promise!Writable = {}
    BY <2>1, HeapIsWritable
  <2>3. Promise!Rejection(req) = "none"
    BY <2>1, SameRejection DEF OrderInv, Accepted
  <2>4. Len(order) = Cardinality(Files) <=> Promise!Emitted = Files
    BY LengthTells DEF OrderInv, OrderTyped, Promise!Emitted, Emitted
  <2>5. verdict' = IF Promise!Emitted = Files THEN "ok" ELSE "cycle"
    BY <1>5, <2>4 DEF Finish, Returned
  <2>6. Promise!Answer
    BY <1>5, <2>1, <2>2, <2>3, <2>5 DEF Finish, Promise!Answer
  <2>. QED
    BY <2>6 DEF Promise!Next
<1>6. CASE UNCHANGED orderVars
  BY <1>6 DEF orderVars
<1>. QED
  BY <1>1, <1>2, <1>3, <1>4, <1>5, <1>6 DEF OrderNext

\* Kahn's algorithm with a min-heap implements the promise of Linearization.
THEOREM ImplementsPromiseHolds == OrderSpec => ImplementsPromise
<1>1. OrderInv /\ [OrderNext]_orderVars =>
        [Promise!Next]_<<req, IF status \in Returned THEN status ELSE "pending", order>>
  BY StepPromise
<1>. QED
  BY <1>1, OrderInvariance, InitPromise, PTL DEF OrderSpec, ImplementsPromise, Promise!Spec

-----------------------------------------------------------------------------
(* The generated tree.                                                     *)

\* The numbers are well founded, so a set of them has a least element.
Below == {ss \in Nat \X Nat : ss[1] < ss[2]}

LEMMA BelowWellFounded == IsWellFoundedOn(Below, Nat)
BY NatLessThanWellFounded DEF OpToRel, Below

LEMMA MinFacts ==
  ASSUME NEW S \in SUBSET Nat, S # {}
  PROVE  Min(S) \in S /\ \A y \in S : Min(S) <= y
<1>1. PICK x \in S : \A y \in S : <<y, x>> \notin Below
  BY BelowWellFounded, WFMin
<1>2. ASSUME NEW y \in S PROVE x <= y
  <2>1. x \in Nat /\ y \in Nat
    OBVIOUS
  <2>2. y < x => <<y, x>> \in Below
    BY <2>1 DEF Below
  <2>. QED
    BY <1>1, <2>1, <2>2
<1>. QED
  BY <1>2 DEF Min

LEMMA MinPath ==
  ASSUME NEW S \in SUBSET Paths, S # {}
  PROVE  Min(S) \in S
BY MinFacts, CatalogAssumption

LEMMA DirFacts ==
  /\ Dirs \subseteq Nat /\ Root \in Dirs /\ Root = 0
  /\ \A p \in Paths : DirOf[p] \in Dirs /\ (DirOf[p] # Root => DirOf[p] \in TypeDirs)
BY CatalogAssumption DEF Dirs, TypeDirs, Root

\* generate_all goes through the types in order and skips none that has a target.
LEMMA NextDirFacts ==
  ASSUME NEW g \in Generators, NEW d \in Nat
  PROVE  /\ NextDir(g, d) \in Dirs
         /\ \A p \in Catalog[g] : d < DirOf[p] =>
              NextDir(g, d) # Root /\ NextDir(g, d) <= DirOf[p]
<1>. DEFINE later == {e \in TypeDirs : e > d /\ Targets(g, e) # {}}
<1>1. later \in SUBSET Nat /\ later \subseteq TypeDirs /\ Root \notin later
  BY DirFacts DEF Dirs, TypeDirs
<1>2. ASSUME NEW p \in Catalog[g], d < DirOf[p]
      PROVE  DirOf[p] \in later
  <2>1. p \in Paths /\ p \in Targets(g, DirOf[p])
    BY CatalogAssumption DEF Targets
  <2>2. DirOf[p] \in Nat /\ DirOf[p] # Root
    BY <1>2, <2>1, CatalogAssumption DEF Root
  <2>. QED
    BY <1>2, <2>1, <2>2, DirFacts
<1>. HIDE DEF later
<1>3. later # {} => Min(later) \in later /\ \A e \in later : Min(later) <= e
  BY <1>1, MinFacts
<1>4. NextDir(g, d) = IF later = {} THEN Root ELSE Min(later)
  BY DEF NextDir, later
<1>. QED
  BY <1>1, <1>2, <1>3, <1>4, DirFacts DEF Dirs

LEMMA NextSweptFacts ==
  ASSUME NEW g \in Runs, queue[g] \in SUBSET Dirs, queue[g] # {}
  PROVE  NextSwept(g) \in queue[g]
<1>1. queue[g] \in SUBSET Nat /\ queue[g] \ {Root} \in SUBSET Nat
  BY DirFacts
<1>2. CASE g \in Generators /\ queue[g] # {Root}
  <2>1. Min(queue[g] \ {Root}) \in queue[g] \ {Root}
    BY <1>1, <1>2, MinFacts
  <2>. QED
    BY <1>2, <2>1 DEF NextSwept
<1>3. CASE ~(g \in Generators /\ queue[g] # {Root})
  BY <1>1, <1>3, MinFacts DEF NextSwept
<1>. QED
  BY <1>2, <1>3

-----------------------------------------------------------------------------
LEMMA InitIInv == Init => IInv
<1>. SUFFICES ASSUME Init PROVE IInv
  OBVIOUS
<1>. USE CatalogAssumption DEF Init
<1>1. TypeOK
  BY MinPath, DirFacts DEF TypeOK, Labels
<1>2. NeverTorn /\ Own /\ Guarded /\ Quiet /\ Writing
  BY DEF NeverTorn, Own, TempName, Guarded, Quiet, Writing
<1>3. Written /\ Covered /\ Sweeping /\ Spared /\ Pruned
  BY DEF Written, Covered, Sweeping, Spared, Pruned, Runs
<1>. QED
  BY <1>1, <1>2, <1>3 DEF IInv

\* A run that starts has written, checked and listed nothing.
LEMMA StartIInv ==
  ASSUME IInv, NEW g \in Runs, Start(g)
  PROVE  IInv'
<1>. USE CatalogAssumption DEF Start, Goto, Runs
<1>1. g \in Generators => /\ NextDir(g, Root) \in Dirs
                          /\ \A p \in Catalog[g] : DirOf[p] # Root =>
                               NextDir(g, Root) # Root /\ NextDir(g, Root) <= DirOf[p]
  BY NextDirFacts, DirFacts
<1>2. TypeOK'
  BY <1>1 DEF IInv, TypeOK, Labels
<1>3. Covered'
  <2>1. ASSUME NEW p \in Catalog[g], g \in Generators PROVE CoveredBy(g, p)'
    <3>1. dir'[g] = NextDir(g, Root) /\ at'[g] = "preflight" /\ p \in Paths
      BY <2>1 DEF IInv, TypeOK
    <3>2. NextDir(g, Root) \in Nat /\ DirOf[p] \in Nat
      BY <1>1, <2>1, <3>1, DirFacts
    <3>3. DirOf[p] # Root => dir'[g] # Root /\ ~(DirOf[p] < dir'[g])
      BY <1>1, <2>1, <3>1, <3>2
    <3>. QED
      BY <3>1, <3>3 DEF CoveredBy
  <2>2. ASSUME NEW h \in Generators \ {g}, NEW p \in Catalog[h], at'[h] # "idle"
        PROVE  CoveredBy(h, p)'
    BY <2>2 DEF IInv, TypeOK, Covered, CoveredBy
  <2>. QED
    BY <2>1, <2>2 DEF Covered
<1>4. NeverTorn' /\ Own' /\ Guarded' /\ Quiet' /\ Writing'
  BY DEF IInv, TypeOK, NeverTorn, Own, TempName, Guarded, Quiet, Writing
<1>5. Written' /\ Sweeping' /\ Spared' /\ Pruned'
  BY DEF IInv, TypeOK, Written, Sweeping, Spared, Pruned
<1>. QED
  BY <1>2, <1>3, <1>4, <1>5 DEF IInv
\* The targets of the type are all there is to write.
LEMMA PreflightIInv ==
  ASSUME IInv, NEW g \in Generators, Preflight(g)
  PROVE  IInv'
<1>. USE CatalogAssumption DEF Preflight, Goto, Runs, Targets, Over
<1>1. TypeOK' /\ NeverTorn' /\ Own'
  BY DEF IInv, TypeOK, NeverTorn, Own, TempName, Labels
<1>2. Guarded' /\ Quiet' /\ Writing'
  BY DEF IInv, TypeOK, Guarded, Quiet, Writing
<1>3. Written' /\ Covered'
  BY DEF IInv, TypeOK, Written, Covered, CoveredBy
<1>4. Sweeping' /\ Spared' /\ Pruned'
  BY DEF IInv, TypeOK, Sweeping, Spared, Pruned
<1>. QED
  BY <1>1, <1>2, <1>3, <1>4 DEF IInv

\* What is about to be written is a target that holds nothing of a developer.
LEMMA CheckOwnerIInv ==
  ASSUME IInv, NEW g \in Generators, CheckOwner(g)
  PROVE  IInv'
<1>. USE CatalogAssumption DEF CheckOwner, Goto, Runs
<1>1. todo[g] \in SUBSET Paths /\ todo[g] # {} /\ Min(todo[g]) \in todo[g]
  BY MinPath DEF IInv, TypeOK
<1>2. TypeOK' /\ NeverTorn' /\ Own'
  BY <1>1 DEF IInv, TypeOK, NeverTorn, Own, TempName, Labels, Over
<1>3. Guarded' /\ Quiet' /\ Writing'
  BY <1>1 DEF IInv, TypeOK, Guarded, Quiet, Writing
<1>4. Written' /\ Covered'
  BY DEF IInv, TypeOK, Written, Covered, CoveredBy
<1>5. Sweeping' /\ Spared' /\ Pruned'
  BY DEF IInv, TypeOK, Sweeping, Spared, Pruned
<1>. QED
  BY <1>2, <1>3, <1>4, <1>5 DEF IInv

\* No two runs stage in the same temp file, for the pid is part of its name.
LEMMA TempNames ==
  \A g, h \in Runs : g # h => TempName(g) # TempName(h) /\ TempName(g) # TempName(h)'
BY DEF TempName

\* The temp file is opened, and nobody else's is disturbed.
LEMMA StageIInv ==
  ASSUME IInv, NEW g \in Generators, Stage(g)
  PROVE  IInv'
<1>. USE CatalogAssumption DEF Stage, Goto, Runs
<1>1. TypeOK'
  BY DEF IInv, TypeOK, Labels, Writing, Targets, TempName, Holding
<1>2. Own'
  BY TempNames DEF IInv, TypeOK, Own, TempName, Holding
<1>3. NeverTorn' /\ Guarded' /\ Quiet' /\ Writing'
  BY DEF IInv, TypeOK, NeverTorn, Guarded, Quiet, Writing
<1>4. Written' /\ Covered'
  BY DEF IInv, TypeOK, Written, Covered, CoveredBy
<1>5. Sweeping' /\ Spared' /\ Pruned'
  BY DEF IInv, TypeOK, Sweeping, Spared, Pruned
<1>. QED
  BY <1>1, <1>2, <1>3, <1>4, <1>5 DEF IInv

\* What the temp file holds once it is written is the run's own text.
LEMMA StagedIInv ==
  ASSUME IInv, NEW g \in Generators, Staged(g)
  PROVE  IInv'
<1>. USE CatalogAssumption DEF Staged, Goto, Runs
<1>1. TypeOK'
  BY DEF IInv, TypeOK, Labels, Writing, Targets, TempName, Holding
<1>2. Own'
  BY TempNames DEF IInv, TypeOK, Own, TempName, Holding
<1>3. NeverTorn' /\ Guarded' /\ Quiet' /\ Writing'
  BY DEF IInv, TypeOK, NeverTorn, Guarded, Quiet, Writing
<1>4. Written' /\ Covered'
  BY DEF IInv, TypeOK, Written, Covered, CoveredBy
<1>5. Sweeping' /\ Spared' /\ Pruned'
  BY DEF IInv, TypeOK, Sweeping, Spared, Pruned
<1>. QED
  BY <1>1, <1>2, <1>3, <1>4, <1>5 DEF IInv

\* The path is the run's own again; every other run takes it for touched.
LEMMA RenameIInv ==
  ASSUME IInv, NEW g \in Generators, Rename(g)
  PROVE  IInv'
<1>. USE CatalogAssumption DEF Rename, Goto, Put, Runs
<1>0. temp[TempName(g)] = Version[g]
  BY DEF IInv, Own
<1>1. cur[g] \in Catalog[g] /\ cur[g] \in Paths
  BY DEF IInv, TypeOK, Writing, Targets
<1>2. TypeOK' /\ NeverTorn' /\ Own'
  <2>1. TypeOK'
    BY <1>1 DEF IInv, TypeOK, Labels, Without
  <2>2. NeverTorn'
    BY <1>0, <1>1 DEF IInv, TypeOK, NeverTorn
  <2>3. Own'
    BY TempNames DEF IInv, TypeOK, Own, TempName, Without
  <2>. QED
    BY <2>1, <2>2, <2>3
<1>3. Guarded' /\ Quiet' /\ Writing'
  BY <1>0 DEF IInv, TypeOK, Guarded, Quiet, Writing
<1>4. Written'
  <2>1. ASSUME NEW h \in Generators \ {g}, NEW p \in written'[h] \ touched'[h]
        PROVE  content'[p] = Version[h]
    <3>1. at[h] # "idle" /\ p \in written[h] \ touched[h] /\ p # cur[g]
      BY <2>1 DEF IInv, TypeOK, Quiet
    <3>. QED
      BY <3>1 DEF IInv, TypeOK, Written
  <2>2. ASSUME NEW p \in written'[g] \ touched'[g]
        PROVE  content'[p] = Version[g]
    BY <1>0, <1>1, <2>2 DEF IInv, TypeOK, Written
  <2>3. \A h \in Generators : written'[h] \subseteq Catalog[h]
    BY <1>1 DEF IInv, TypeOK, Written
  <2>. QED
    BY <2>1, <2>2, <2>3 DEF Written
<1>5. Covered'
  BY DEF IInv, TypeOK, Covered, CoveredBy
<1>6. Sweeping' /\ Spared' /\ Pruned'
  BY DEF IInv, TypeOK, Sweeping, Spared, Pruned
<1>. QED
  BY <1>2, <1>3, <1>4, <1>5, <1>6 DEF IInv

\* Whether the temp file goes with the failure or stays, nobody else looks at it.
LEMMA WriteFailsIInv ==
  ASSUME IInv, NEW g \in Generators, WriteFails(g)
  PROVE  IInv'
<1>. USE CatalogAssumption DEF WriteFails, Goto, Runs, Over
<1>1. TypeOK' /\ NeverTorn' /\ Own'
  <2>1. TypeOK' /\ NeverTorn'
    BY DEF IInv, TypeOK, NeverTorn, Labels, Without
  <2>2. Own'
    BY TempNames DEF IInv, TypeOK, Own, TempName, Without
  <2>. QED
    BY <2>1, <2>2
<1>2. Guarded' /\ Quiet' /\ Writing'
  BY DEF IInv, TypeOK, Guarded, Quiet, Writing
<1>3. Written' /\ Covered'
  BY DEF IInv, TypeOK, Written, Covered, CoveredBy
<1>4. Sweeping' /\ Spared' /\ Pruned'
  BY DEF IInv, TypeOK, Sweeping, Spared, Pruned
<1>. QED
  BY <1>1, <1>2, <1>3, <1>4 DEF IInv

\* Everything left of what was written and lies in the scope of the sweep is spared.
LEMMA BeginSweepIInv ==
  ASSUME IInv, NEW g \in Generators, BeginSweep(g)
  PROVE  IInv'
<1>. USE CatalogAssumption DEF BeginSweep, Goto, Runs
<1>1. TypeOK'
  BY DEF IInv, TypeOK, Labels, Dirs, Normalized
<1>2. NeverTorn' /\ Own' /\ Guarded' /\ Quiet' /\ Writing'
  BY DEF IInv, TypeOK, NeverTorn, Own, TempName, Guarded, Quiet, Writing
<1>3. Written' /\ Covered'
  BY DEF IInv, TypeOK, Written, Covered, CoveredBy
<1>4. Sweeping'
  BY DEF IInv, TypeOK, Sweeping, Normalized
<1>5. Spared'
  <2>1. ASSUME NEW p \in written[g], dir[g] = Root \/ DirOf[p] = dir[g],
               CanonicalRoot \/ p \notin touched[g]
        PROVE  p \in keep'[g]
    <3>1. p \in written[g] /\ p \in Paths /\ (~CanonicalRoot => content[p] # "absent")
      BY <2>1 DEF IInv, TypeOK, Written
    <3>2. p \in Normalized(written[g]) /\
          (DirOf[p] = dir[g] => p \in Normalized({q \in written[g] : DirOf[q] = dir[g]}))
      BY <3>1 DEF Normalized
    <3>. QED
      BY <2>1, <3>2 DEF IInv, TypeOK
  <2>. QED
    BY <2>1 DEF IInv, TypeOK, Spared
<1>6. Pruned'
  BY DirFacts DEF IInv, TypeOK, Pruned
<1>. QED
  BY <1>1, <1>2, <1>3, <1>4, <1>5, <1>6 DEF IInv

\* What is not listed of a directory when it is read was not there.
LEMMA ReadDirIInv ==
  ASSUME IInv, NEW g \in Runs, ReadDir(g)
  PROVE  IInv'
<1>. USE CatalogAssumption DEF ReadDir, Goto
<1>1. NextSwept(g) \in queue[g] /\ listed[g] = {}
  BY NextSweptFacts DEF IInv, TypeOK, Sweeping
<1>2. TypeOK'
  BY DEF IInv, TypeOK, Labels
<1>3. NeverTorn' /\ Own' /\ Guarded' /\ Quiet' /\ Writing'
  BY DEF IInv, TypeOK, NeverTorn, Own, TempName, Guarded, Quiet, Writing
<1>4. Written' /\ Covered'
  BY DEF IInv, TypeOK, Written, Covered, CoveredBy, Runs
<1>5. Sweeping'
  BY <1>1 DEF IInv, TypeOK, Sweeping
<1>6. Spared'
  BY DEF IInv, TypeOK, Spared, Runs
<1>7. Pruned'
  <2>1. ASSUME g \in Generators, dir[g] = Root,
               NEW p \in Paths \ (Catalog[g] \union touched[g]),
               DirOf[p] \notin queue'[g], p \notin listed'[g]
        PROVE  ~Generated(content[p])
    <3>1. CASE DirOf[p] = NextSwept(g)
      BY <2>1, <3>1 DEF IInv, TypeOK, Generated
    <3>2. CASE DirOf[p] # NextSwept(g)
      BY <2>1, <3>2, <1>1 DEF IInv, TypeOK, Pruned
    <3>. QED
      BY <3>1, <3>2
  <2>. QED
    BY <2>1 DEF IInv, TypeOK, Pruned, Runs
<1>. QED
  BY <1>2, <1>3, <1>4, <1>5, <1>6, <1>7 DEF IInv

\* An entry is dropped from the list if it is spared or nothing of the generator's.
LEMMA ExamineIInv ==
  ASSUME IInv, NEW g \in Runs, Examine(g)
  PROVE  IInv'
<1>. USE CatalogAssumption DEF Examine, Goto
<1>. DEFINE p == Min(listed[g])
<1>1. listed[g] \in SUBSET Paths /\ p \in listed[g] /\ p \in Paths
  BY MinPath DEF IInv, TypeOK
<1>2. \/ at'[g] = "sweep" /\ (p \in keep[g] \/ ~Generated(content[p]))
      \/ at'[g] = "unlink" /\ p \notin keep[g] /\ Generated(content[p])
      \/ at'[g] = "failed"
  BY DEF IInv, TypeOK
<1>3. TypeOK'
  BY <1>1 DEF IInv, TypeOK, Labels, Over
<1>4. NeverTorn' /\ Own' /\ Quiet' /\ Writing'
  BY DEF IInv, TypeOK, NeverTorn, Own, TempName, Quiet, Writing
<1>5. Guarded'
  BY DEF IInv, TypeOK, Guarded, Generated
<1>6. Written' /\ Covered'
  BY DEF IInv, TypeOK, Written, Covered, CoveredBy, Runs
<1>7. Sweeping'
  BY <1>1 DEF IInv, TypeOK, Sweeping
<1>8. Spared'
  BY DEF IInv, TypeOK, Spared, Runs
<1>9. Pruned'
  <2>1. ASSUME g \in Generators, dir[g] = Root, at'[g] = "sweep",
               NEW q \in Paths \ (Catalog[g] \union touched[g]),
               DirOf[q] \notin queue[g], q \notin listed[g] \ {p}
        PROVE  ~Generated(content[q])
    <3>1. CASE q = p
      BY <2>1, <3>1, <1>2 DEF IInv, TypeOK, Sweeping, Written
    <3>2. CASE q # p
      BY <2>1, <3>2 DEF IInv, TypeOK, Pruned
    <3>. QED
      BY <3>1, <3>2
  <2>2. at'[g] = "sweep" => listed'[g] = listed[g] \ {p}
    BY DEF IInv, TypeOK
  <2>3. at'[g] = "unlink" => listed'[g] = listed[g]
    BY DEF IInv, TypeOK
  <2>. HIDE DEF p
  <2>. QED
    BY <1>2, <2>1, <2>2, <2>3 DEF IInv, TypeOK, Pruned, Runs
<1>. QED
  BY <1>3, <1>4, <1>5, <1>6, <1>7, <1>8, <1>9 DEF IInv

\* Of what the run itself has written nothing goes that is still as it was written.
LEMMA UnlinkIInv ==
  ASSUME IInv, NEW g \in Runs, Unlink(g)
  PROVE  IInv'
<1>. USE CatalogAssumption DEF Unlink, Goto, Put
<1>1. cur[g] \in listed[g] \ keep[g] /\ cur[g] \in Paths
  BY DEF IInv, TypeOK, Sweeping
<1>2. g \in Generators => cur[g] \notin written[g] \ touched[g]
  BY <1>1 DEF IInv, TypeOK, Sweeping, Spared
<1>3. TypeOK' /\ NeverTorn' /\ Own'
  <2>1. TypeOK'
    <3>1. DOMAIN content' = Paths /\ at' \in [Runs -> Labels]
      BY <1>1 DEF IInv, TypeOK, Labels, Over
    <3>2. touched' \in [Runs -> SUBSET Paths]
      BY <1>1 DEF IInv, TypeOK
    <3>3. listed' \in [Runs -> SUBSET Paths]
      BY DEF IInv, TypeOK
    <3>. QED
      BY <3>1, <3>2, <3>3 DEF IInv, TypeOK
  <2>2. NeverTorn'
    BY <1>1 DEF IInv, TypeOK, NeverTorn
  <2>3. Own'
    BY DEF IInv, TypeOK, Own, TempName
  <2>. QED
    BY <2>1, <2>2, <2>3
<1>4. Guarded' /\ Quiet' /\ Writing'
  BY DEF IInv, TypeOK, Guarded, Quiet, Writing
<1>5. Written'
  <2>1. ASSUME NEW h \in Generators, NEW p \in written'[h] \ touched'[h]
        PROVE  content'[p] = Version[h]
    <3>1. p \in written[h] \ touched[h] /\ at[h] # "idle"
      BY <2>1 DEF IInv, TypeOK, Quiet, Runs
    <3>2. p # cur[g] \/ content' = content
      BY <2>1, <3>1, <1>1, <1>2 DEF IInv, TypeOK, Runs
    <3>. QED
      BY <3>1, <3>2 DEF IInv, TypeOK, Written
  <2>. QED
    BY <2>1 DEF IInv, Written
<1>6. Covered'
  BY DEF IInv, TypeOK, Covered, CoveredBy, Runs
<1>7. Sweeping' /\ Spared'
  BY DEF IInv, TypeOK, Sweeping, Spared, Runs
<1>8. Pruned'
  BY DEF IInv, TypeOK, Pruned, Generated, Runs
<1>. QED
  BY <1>3, <1>4, <1>5, <1>6, <1>7, <1>8 DEF IInv

\* Nothing of the directory is left to be looked at.
LEMMA DirDoneIInv ==
  ASSUME IInv, NEW g \in Runs, DirDone(g)
  PROVE  IInv'
<1>. USE CatalogAssumption DEF DirDone, Goto, progress, Runs
<1>1. TypeOK' /\ NeverTorn' /\ Own'
  BY DEF IInv, TypeOK, NeverTorn, Own, TempName, Labels
<1>2. Guarded' /\ Quiet' /\ Writing'
  BY DEF IInv, TypeOK, Guarded, Quiet, Writing
<1>3. Written' /\ Covered'
  BY DEF IInv, TypeOK, Written, Covered, CoveredBy
<1>4. Sweeping' /\ Spared' /\ Pruned'
  BY DEF IInv, TypeOK, Sweeping, Spared, Pruned
<1>. QED
  BY <1>1, <1>2, <1>3, <1>4 DEF IInv

\* The next type is the first of those that are left: none is passed over.
LEMMA SweepDoneIInv ==
  ASSUME IInv, NEW g \in Runs, SweepDone(g)
  PROVE  IInv'
<1>. USE CatalogAssumption DEF SweepDone, Goto, Runs
<1>1. /\ dir[g] \in Dirs /\ dir[g] \in Nat
      /\ g \in Generators => NextDir(g, dir[g]) \in Dirs
  BY NextDirFacts, DirFacts DEF IInv, TypeOK
<1>2. TypeOK'
  BY <1>1 DEF IInv, TypeOK, Labels, Over
<1>3. Covered'
  <2>1. ASSUME NEW p \in Catalog[g], g \in Generators PROVE CoveredBy(g, p)'
    <3>1. CASE dir[g] = Root
      BY <2>1, <3>1 DEF IInv, TypeOK, Covered, CoveredBy
    <3>2. CASE dir[g] # Root
      <4>1. /\ dir'[g] = NextDir(g, dir[g]) /\ at'[g] = "preflight"
            /\ p \in Paths /\ CoveredBy(g, p)
        BY <2>1, <3>2 DEF IInv, TypeOK, Covered
      <4>2. NextDir(g, dir[g]) \in Nat /\ DirOf[p] \in Nat
        BY <1>1, <2>1, <4>1, DirFacts
      <4>3. dir[g] < DirOf[p] => dir'[g] # Root /\ ~(DirOf[p] < dir'[g])
        BY <1>1, <2>1, <4>1, <4>2, NextDirFacts
      <4>4. ~(dir[g] < DirOf[p]) /\ DirOf[p] # Root => p \in written[g]
        BY <1>1, <3>2, <4>1, <4>2 DEF CoveredBy
      <4>. QED
        BY <4>1, <4>3, <4>4 DEF CoveredBy
    <3>. QED
      BY <3>1, <3>2
  <2>2. ASSUME NEW h \in Generators \ {g}, NEW p \in Catalog[h], at'[h] # "idle"
        PROVE  CoveredBy(h, p)'
    BY <2>2 DEF IInv, TypeOK, Covered, CoveredBy
  <2>. QED
    BY <2>1, <2>2 DEF Covered
<1>4. NeverTorn' /\ Own' /\ Guarded' /\ Quiet' /\ Writing'
  BY DEF IInv, TypeOK, NeverTorn, Own, TempName, Guarded, Quiet, Writing
<1>5. Written' /\ Sweeping' /\ Spared' /\ Pruned'
  BY DEF IInv, TypeOK, Written, Sweeping, Spared, Pruned
<1>. QED
  BY <1>2, <1>3, <1>4, <1>5 DEF IInv

\* A kill leaves the files as they are.
LEMMA KillIInv ==
  ASSUME IInv, NEW g \in Runs, Kill(g)
  PROVE  IInv'
<1>. USE CatalogAssumption DEF Kill, Goto, Over, progress, Runs
<1>1. TypeOK' /\ NeverTorn' /\ Own'
  BY DEF IInv, TypeOK, NeverTorn, Own, TempName, Labels
<1>2. Guarded' /\ Quiet' /\ Writing'
  BY DEF IInv, TypeOK, Guarded, Quiet, Writing
<1>3. Written' /\ Covered'
  BY DEF IInv, TypeOK, Written, Covered, CoveredBy
<1>4. Sweeping' /\ Spared' /\ Pruned'
  BY DEF IInv, TypeOK, Sweeping, Spared, Pruned
<1>. QED
  BY <1>1, <1>2, <1>3, <1>4 DEF IInv

\* Whoever is under way takes the path for touched, and its check for outdated.
LEMMA EditIInv ==
  ASSUME IInv, NEW p \in Paths, Edit(p)
  PROVE  IInv'
<1>. USE CatalogAssumption DEF Edit, progress
<1>1. TypeOK' /\ NeverTorn' /\ Own'
  BY DEF IInv, TypeOK, NeverTorn, Own, TempName
<1>2. Guarded' /\ Quiet' /\ Writing'
  BY DEF IInv, TypeOK, Guarded, Quiet, Writing
<1>3. Written' /\ Covered'
  BY DEF IInv, TypeOK, Quiet, Written, Covered, CoveredBy, Runs
<1>4. Sweeping' /\ Spared'
  BY DEF IInv, TypeOK, Sweeping, Spared, Runs
<1>5. Pruned'
  BY DEF IInv, TypeOK, Pruned, Generated, Runs
<1>. QED
  BY <1>1, <1>2, <1>3, <1>4, <1>5 DEF IInv

LEMMA StutterIInv == IInv /\ UNCHANGED vars => IInv'
BY DEF vars, IInv, TypeOK, NeverTorn, Own, TempName, Guarded, Quiet, Writing, Written, Covered,
   CoveredBy, Sweeping, Spared, Pruned, Normalized

\* Type correctness and all that the runs rely on, at every step.
THEOREM TreeInvariance == Spec => []IInv
<1>1. ASSUME IInv, [Next]_vars PROVE IInv'
  <2>1. ASSUME NEW g \in Runs, RunStep(g) PROVE IInv'
    BY <1>1, <2>1, StartIInv, ReadDirIInv, ExamineIInv, UnlinkIInv, DirDoneIInv, SweepDoneIInv,
       KillIInv, PreflightIInv, CheckOwnerIInv, StageIInv, StagedIInv, RenameIInv, WriteFailsIInv,
       BeginSweepIInv DEF RunStep
  <2>. QED
    BY <1>1, <2>1, EditIInv, StutterIInv DEF Next, AllOver
<1>. QED
  BY <1>1, InitIInv, PTL DEF Spec

-----------------------------------------------------------------------------
\* No reader of the tree meets a half-written file: "it sees either the old contents
\* or the complete new ones" (writer.rs).
THEOREM NeverTornHolds == Spec => []NeverTorn
<1>1. IInv => NeverTorn
  BY DEF IInv
<1>. QED
  BY <1>1, TreeInvariance, PTL

\* A generate_all that reports success leaves exactly its catalog, but for the paths
\* that somebody else changed meanwhile.
THEOREM SuccessIsExactHolds == Spec => []SuccessIsExact
<1>1. ASSUME IInv PROVE SuccessIsExact
  <2>. SUFFICES ASSUME NEW g \in Generators, at[g] = "ok", NEW p \in Paths \ touched[g]
                PROVE  IF p \in Catalog[g] THEN content[p] = Version[g] ELSE ~Generated(content[p])
    BY DEF SuccessIsExact
  <2>1. dir[g] = Root /\ queue[g] = {} /\ listed[g] = {}
    BY <1>1 DEF IInv, Sweeping, Runs
  <2>2. CASE p \in Catalog[g]
    <3>1. p \in written[g]
      BY <1>1, <2>1, <2>2 DEF IInv, Covered, CoveredBy
    <3>. QED
      BY <1>1, <2>2, <3>1 DEF IInv, Written
  <2>3. CASE p \notin Catalog[g]
    BY <1>1, <2>1, <2>3 DEF IInv, Pruned
  <2>. QED
    BY <2>2, <2>3
<1>. QED
  BY <1>1, TreeInvariance, PTL

\* A hand-written file is lost only to an edit made between a run's look at it and its
\* write or removal: what write_generated_file and remove_generated_orphans check again
\* right before they act.
THEOREM HandWrittenKeptHolds == Spec => HandWrittenKept
<1>1. ASSUME IInv, [Next]_vars,
             NEW p \in Paths, content[p] = "hand", content'[p] # "hand"
      PROVE  \E g \in raced : cur[g] = p /\ at[g] \in {"rename", "unlink"}
  <2>1. PICK g \in Runs : Rename(g) \/ Unlink(g)
    BY <1>1 DEF IInv, TypeOK, Next, vars, RunStep, Start, Preflight, CheckOwner, Stage, Staged, WriteFails,
       BeginSweep, ReadDir, Examine, DirDone, SweepDone, Kill, Edit, AllOver
  <2>2. cur[g] = p /\ at[g] \in {"rename", "unlink"}
    BY <1>1, <2>1 DEF IInv, TypeOK, Rename, Unlink, Put
  <2>3. g \in raced
    BY <1>1, <2>2 DEF IInv, Guarded
  <2>. QED
    BY <2>2, <2>3
<1>2. IInv /\ [Next]_vars =>
        [\A p \in Paths : content[p] = "hand" /\ content'[p] # "hand" =>
           \E g \in raced : cur[g] = p /\ at[g] \in {"rename", "unlink"}]_vars
  BY <1>1
<1>. QED
  BY <1>2, TreeInvariance, PTL DEF Spec, HandWrittenKept

\* A path of its own catalog that a generator is about to remove was changed by somebody
\* else since it was written, and the out root is not canonical.
LEMMA StripsOnlyTouched ==
  ASSUME IInv, NEW g \in Generators, at[g] = "unlink", cur[g] \in Catalog[g]
  PROVE  ~CanonicalRoot /\ cur[g] \in touched[g]
<1>1. cur[g] \in listed[g] \ keep[g] /\ g \in Runs /\ cur[g] \in Paths /\ dir[g] \in Dirs
  BY DEF IInv, TypeOK, Sweeping, Runs
<1>2. dir[g] = Root \/ DirOf[cur[g]] = dir[g]
  BY <1>1 DEF IInv, Sweeping
<1>3. cur[g] \in written[g]
  BY <1>2 DEF IInv, Covered, CoveredBy
<1>. QED
  BY <1>1, <1>2, <1>3 DEF IInv, Spared

\* Below a canonical out root a generator never removes a file that its catalog renders,
\* whatever other runs and developers do meanwhile.
THEOREM NeverStrippedHolds == CanonicalRoot => (Spec => NeverStripped)
<1>. SUFFICES ASSUME CanonicalRoot PROVE Spec => NeverStripped
  OBVIOUS
<1>1. IInv /\ [Next]_vars =>
        [\A g \in Generators : \A p \in Catalog[g] :
           at[g] = "unlink" /\ cur[g] = p /\ at'[g] = "sweep" => content'[p] # "absent"]_vars
  BY StripsOnlyTouched
<1>. QED
  BY <1>1, TreeInvariance, PTL DEF Spec, NeverStripped

\* Below any out root it removes one only after somebody else has changed it.
THEOREM StripsOnlyTouchedHolds ==
  Spec => [][\A g \in Generators : \A p \in Catalog[g] \ touched[g] :
               at[g] = "unlink" /\ cur[g] = p /\ at'[g] = "sweep" => content'[p] # "absent"]_vars
<1>1. IInv /\ [Next]_vars =>
        [\A g \in Generators : \A p \in Catalog[g] \ touched[g] :
           at[g] = "unlink" /\ cur[g] = p /\ at'[g] = "sweep" => content'[p] # "absent"]_vars
  BY StripsOnlyTouched
<1>. QED
  BY <1>1, TreeInvariance, PTL DEF Spec
=============================================================================
