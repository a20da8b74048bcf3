------------------------------ MODULE MCFromV2 ------------------------------
(* Three texts whose n-grams set the last bit that a smallint holds, the first that it    *)
(* does not, and the last there is; every name of the inventory, one of a domain without   *)
(* its prefix, and one of no domain.                                                    *)
EXTENDS FromV2, TLC

ThreeTexts == 0 .. 2
CoarseTerm == 0 :> 0 @@ 1 :> 1 @@ 2 :> 1
TextGrams == 0 :> {} @@ 1 :> {"a", "b"} @@ 2 :> {"a", "b", "c"}
BitOfGram == "a" :> 32767 @@ "b" :> 32768 @@ "c" :> 65535

TargetNames ==
  {UnqualifiedDomain(s) : s \in Inventory}
    \union {<<"integer", "eq">>, <<"eql_v3", "uuid">>, <<"query", "text", "eq">>}

=============================================================================
