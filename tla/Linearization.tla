--------------------------- MODULE Linearization ---------------------------
(***************************************************************************)
(* What `eql-codegen order` promises, with no heap, no in-degree counters  *)
(* and no relaxation loop: one file after another is written, always the   *)
(* first path in byte order whose requirements are all written, until      *)
(* every file is written or none can be.  SurfaceOrder implements it.      *)
(***************************************************************************)
EXTENDS SqlSurface

VARIABLES req,      \* the targets each file lists, as read off disk
          verdict,  \* "pending", or what surface_order returned
          order     \* the files in the order they go into the installer

Emitted == {order[i] : i \in DOMAIN order}

\* The files that are not written and wait for nothing.
Writable ==
  {f \in Files \ Emitted : \A i \in Blocking(req, f) : req[f][i] \in Emitted}

Init ==
  /\ req \in [Files -> Requires]
  /\ verdict = "pending"
  /\ order = <<>>

Refuse ==
  /\ verdict = "pending"
  /\ Rejection(req) # "none"
  /\ verdict' = Rejection(req)
  /\ UNCHANGED <<req, order>>

Emit ==
  /\ verdict = "pending"
  /\ Rejection(req) = "none"
  /\ \E n \in Writable :
       /\ \A m \in Writable : n <= m
       /\ order' = Append(order, n)
  /\ UNCHANGED <<req, verdict>>

Answer ==
  /\ verdict = "pending"
  /\ Rejection(req) = "none"
  /\ Writable = {}
  /\ verdict' = IF Emitted = Files THEN "ok" ELSE "cycle"
  /\ UNCHANGED <<req, order>>

Next == Refuse \/ Emit \/ Answer

Spec == Init /\ [][Next]_<<req, verdict, order>>
=============================================================================
