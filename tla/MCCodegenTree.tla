--------------------------- MODULE MCCodegenTree ---------------------------
(***************************************************************************)
(* Four paths: two files of type 1 (the second of a domain the new catalog *)
(* dropped), one of type 2 (dropped altogether), and ore_fallback.sql at   *)
(* the root; three generators, one of them of the old catalog, and a       *)
(* clean, of which any two run.                                            *)
(***************************************************************************)
EXTENDS CodegenTree, TLC

CONSTANTS old, new, new2, c1

FourPaths == 1..4
FourDirs == <<1, 1, 2, 0>>
Catalogs == (old :> FourPaths) @@ (new :> {1, 4}) @@ (new2 :> {1, 4})
Texts == (old :> "v0") @@ (new :> "v1") @@ (new2 :> "v1")

\* The two runs of the new catalog are alike.
Alike == Permutations({new, new2})

\* A checkout of the old catalog, with a hand-written file anywhere or nowhere,
\* or one that was never generated.
FourTrees ==
  {[p \in FourPaths |-> IF p = hand THEN "hand" ELSE "v0"] : hand \in FourPaths \union {0}}
    \union {[p \in FourPaths |-> "absent"]}
=============================================================================
