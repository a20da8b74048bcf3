---------------------------- MODULE TermSemantics ----------------------------
(* What the terms of the catalog say of the plaintexts they were made from, and the    *)
(* answer an operator over them owes its caller.  The terms are made by the encrypting  *)
(* client, outside the repository; what is assumed of it here is what eql-domains says   *)
(* of each term.                                                                       *)
EXTENDS Catalog

CONSTANTS
  Plaintexts,   \* the values of a family, in order
  Coarse,       \* what an ordering term of text keeps of a plaintext
  Grams,        \* the n-grams of a plaintext of text
  None

ASSUME PlaintextsAssumption ==
  /\ Plaintexts \subseteq Nat
  /\ \A x \in Plaintexts : Coarse[x] \in Nat
  /\ \A x, y \in Plaintexts : x <= y => Coarse[x] <= Coarse[y]

\* The term of plaintext x: only `hm` is exact for text.
Encrypt(t, f, x) ==
  CASE t = "Bloom" -> Grams[x]
    [] f = "text" /\ ProvidesOrdering(t) -> Coarse[x]
    [] OTHER -> x

Compare(body, a, b) ==
  CASE body = "=" -> a = b [] body = "<>" -> a # b [] body = "<" -> a < b
    [] body = "<=" -> a <= b [] body = ">" -> a > b [] body = ">=" -> a >= b
    [] OTHER -> b \subseteq a

\* Equality is always right, and order but for text, whose ordering term may take two
\* texts for one, and then errs to equality; a match holds when every n-gram of the
\* needle is in the text, and a needle without one matches only a text without one.
RightAnswer(f, op, x, y, answer) ==
  CASE op = "@@" -> answer = (Grams[y] \subseteq Grams[x] /\ (Grams[y] = {} => Grams[x] = {}))
    [] op \in OrderOps /\ f = "text" ->
         IF op \in {"<", ">"} THEN answer => Compare(op, x, y) ELSE Compare(op, x, y) => answer
    [] OTHER -> answer = Compare(op, x, y)

=============================================================================
