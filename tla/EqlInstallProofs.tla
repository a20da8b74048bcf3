-------------------------- MODULE EqlInstallProofs --------------------------
(***************************************************************************)
(* Proofs about the install and uninstall scripts, for any number of       *)
(* deployers, roles, scripts and ways of feeding them.                     *)
(***************************************************************************)
EXTENDS EqlInstall, TLAPS

-----------------------------------------------------------------------------
(* The catalog.                                                            *)

LEMMA AllObjects ==
  Objects = {"eql_v3", "internal", "query_ore", "query_json", "ord_term_ore", "ord_term",
             "version", "ore_block_256", "ore_opclass", "ore_domain_unavailable", "dom_ore",
             "dom_ope", "dom_json", "dom_entry", "validators", "json_check", "col_ore", "col_ope",
             "col_json", "col_query", "ix_ope", "ix_ore", "ix_record", "poison_ore", "poison_query"}
BY DEF Objects, OwnedSchemas, InEql, InInternal, InPublic, Domains, Columns, Indexes, Poison

LEMMA NeedsTable ==
  /\ Needs("eql_v3") = {} /\ Needs("internal") = {}
  /\ Needs("query_ore") = {"eql_v3"} /\ Needs("query_json") = {"eql_v3", "validators"}
  /\ Needs("ord_term_ore") = {"eql_v3", "dom_ore", "ore_block_256"}
  /\ Needs("ord_term") = {"eql_v3", "dom_ope"} /\ Needs("version") = {"eql_v3"}
  /\ Needs("ore_block_256") = {"internal"} /\ Needs("ore_opclass") = {"internal", "ore_block_256"}
  /\ Needs("ore_domain_unavailable") = {"internal"}
  /\ Needs("dom_ore") = {} /\ Needs("dom_ope") = {} /\ Needs("dom_json") = {}
  /\ Needs("dom_entry") = {} /\ Needs("validators") = {}
  /\ Needs("json_check") = {"dom_json", "validators"}
  /\ Needs("poison_ore") = {"dom_ore", "ore_domain_unavailable"}
  /\ Needs("poison_query") = {"query_ore", "ore_domain_unavailable"}
  /\ Needs("col_ore") = {"dom_ore"} /\ Needs("col_ope") = {"dom_ope"}
  /\ Needs("col_json") = {"dom_json"} /\ Needs("col_query") = {"query_ore"}
  /\ Needs("ix_ope") = {"col_ope", "ord_term"}
  /\ Needs("ix_ore") = {"col_ore", "ord_term_ore", "ore_opclass"}
  /\ Needs("ix_record") = {"col_ore", "ord_term_ore"}
BY DEF Needs, Home, Uses, InEql, InInternal

\* How deep in the catalog an object stands.
Depth(o) ==
  IF o \in (OwnedSchemas \union InPublic) \ {"json_check"} THEN 0
  ELSE IF o \in {"query_ore", "query_json", "ord_term", "version", "ore_block_256",
                 "ore_domain_unavailable", "json_check", "col_ore", "col_ope", "col_json"} THEN 1
  ELSE IF o \in {"ix_ope", "ord_term_ore", "ore_opclass", "col_query"} \union Poison THEN 2
  ELSE 3

LEMMA NeedsAreShallower ==
  ASSUME NEW o \in Objects, NEW n \in Needs(o)
  PROVE  n \in Objects /\ Depth(n) < Depth(o) /\ Depth(o) \in 0..3 /\ Depth(n) \in 0..3
<1>1. ASSUME NEW x \in Objects PROVE Depth(x) \in 0..3
  BY DEF Depth
<1>2. n \in Objects
  BY AllObjects, NeedsTable
<1>3. CASE Depth(o) = 0
  <2>1. o \in {"eql_v3", "internal", "dom_ore", "dom_ope", "dom_json", "dom_entry", "validators"}
    BY <1>3 DEF Depth, OwnedSchemas, InPublic, Domains
  <2>. QED
    BY <2>1, NeedsTable
<1>4. CASE Depth(o) = 1
  <2>1. o \in {"query_ore", "query_json", "ord_term", "version", "ore_block_256",
               "ore_domain_unavailable", "json_check", "col_ore", "col_ope", "col_json"}
    BY <1>4 DEF Depth
  <2>2. n \in {"eql_v3", "internal", "validators", "dom_ore", "dom_ope", "dom_json"}
    BY <2>1, NeedsTable
  <2>3. Depth(n) = 0
    BY <2>2 DEF Depth, OwnedSchemas, InPublic, Domains
  <2>. QED
    BY <1>1, <1>2, <1>4, <2>3
<1>5. CASE Depth(o) = 2
  <2>1. o \in {"ix_ope", "ord_term_ore", "ore_opclass", "col_query", "poison_ore", "poison_query"}
    BY <1>5 DEF Depth, Poison
  <2>2. n \in {"eql_v3", "internal", "dom_ore", "col_ope", "ord_term", "ore_block_256",
               "query_ore", "ore_domain_unavailable"}
    BY <2>1, NeedsTable
  <2>3. Depth(n) < 2
    BY <2>2 DEF Depth, OwnedSchemas, InPublic, Domains
  <2>. QED
    BY <1>1, <1>2, <1>5, <2>3
<1>6. CASE Depth(o) = 3
  <2>1. o \in {"ix_ore", "ix_record"}
    BY <1>6, AllObjects DEF Depth, OwnedSchemas, InPublic, Domains, Poison
  <2>2. n \in {"col_ore", "ord_term_ore", "ore_opclass"}
    BY <2>1, NeedsTable
  <2>3. Depth(n) < 3
    BY <2>2 DEF Depth
  <2>. QED
    BY <1>1, <1>2, <1>6, <2>3
<1>. QED
  BY <1>1, <1>3, <1>4, <1>5, <1>6

\* CASCADE takes all that needs what it takes, ...
LEMMA CascadeClosed ==
  ASSUME NEW S \in SUBSET Objects, NEW present \in SUBSET Objects
  PROVE  /\ S \subseteq Cascade(S, present)
         /\ Cascade(S, present) \subseteq S \union present
         /\ \A x \in present : Needs(x) \cap Cascade(S, present) # {} => x \in Cascade(S, present)
<1>. DEFINE T(Q) == Takes(Q, present)
            one == T(S)
            two == T(one)
            three == T(two)
            four == T(three)
<1>1. four = Cascade(S, present)
  BY DEF Cascade
<1>2. ASSUME NEW Q \in SUBSET Objects
      PROVE  /\ Q \subseteq T(Q) /\ T(Q) \subseteq Q \union present /\ T(Q) \in SUBSET Objects
             /\ \A x \in present : Needs(x) \cap Q # {} => x \in T(Q)
             /\ \A x \in T(Q) \ Q : Needs(x) \cap Q # {}
  BY DEF Takes
<1>. HIDE DEF T
<1>3. /\ one \in SUBSET Objects /\ two \in SUBSET Objects
      /\ three \in SUBSET Objects /\ four \in SUBSET Objects
  BY <1>2
<1>4. \A o \in Objects : Depth(o) \in 0..3
  BY DEF Depth
<1>. HIDE DEF one, two, three, four
<1>5. \A x \in two \ one : Depth(x) >= 1
  <2>. SUFFICES ASSUME NEW x \in two \ one PROVE Depth(x) >= 1
    OBVIOUS
  <2>1. x \in Objects /\ Needs(x) \cap one # {}
    BY <1>2, <1>3 DEF two
  <2>2. PICK y \in Needs(x) : y \in one
    BY <2>1
  <2>. QED
    BY <2>1, <2>2, NeedsAreShallower
<1>6. \A x \in three \ two : Depth(x) >= 2
  <2>. SUFFICES ASSUME NEW x \in three \ two PROVE Depth(x) >= 2
    OBVIOUS
  <2>1. x \in Objects /\ x \in present /\ Needs(x) \cap two # {} /\ Needs(x) \cap one = {}
    BY <1>2, <1>3 DEF three, two, one
  <2>2. PICK y \in Needs(x) : y \in two \ one
    BY <2>1
  <2>. QED
    BY <1>5, <2>1, <2>2, NeedsAreShallower
<1>7. \A x \in four \ three : Depth(x) >= 3
  <2>. SUFFICES ASSUME NEW x \in four \ three PROVE Depth(x) >= 3
    OBVIOUS
  <2>1. x \in Objects /\ x \in present /\ Needs(x) \cap three # {} /\ Needs(x) \cap two = {}
    BY <1>2, <1>3 DEF four, three, two, one
  <2>2. PICK y \in Needs(x) : y \in three \ two
    BY <2>1
  <2>. QED
    BY <1>6, <2>1, <2>2, NeedsAreShallower
<1>8. ASSUME NEW x \in present, Needs(x) \cap four # {} PROVE x \in four
  <2>1. PICK y \in Needs(x) : y \in four
    BY <1>8
  <2>2. y \in three
    BY <1>4, <1>7, <2>1, NeedsAreShallower
  <2>. QED
    BY <1>2, <1>3, <2>1, <2>2 DEF four
<1>9. S \subseteq four /\ four \subseteq S \union present
  BY <1>2, <1>3 DEF one, two, three, four
<1>. QED
  BY <1>1, <1>8, <1>9

\* ... and spares what needs nothing but what is spared.
LEMMA CascadeSpares ==
  ASSUME NEW S, NEW present, NEW K, K \cap S = {}, \A x \in K : Needs(x) \subseteq K
  PROVE  K \cap Cascade(S, present) = {}
<1>1. ASSUME NEW Q, K \cap Q = {} PROVE K \cap Takes(Q, present) = {}
  BY <1>1 DEF Takes
<1>. QED
  BY <1>1 DEF Cascade

-----------------------------------------------------------------------------
(* Statements.                                                             *)

\* What no script ever takes away: public objects, and the columns typed with them.
Kept == InPublic \union (Columns \ {"col_query"})

LEMMA KeptFacts ==
  /\ Kept = {"dom_ore", "dom_ope", "dom_json", "dom_entry", "validators", "json_check",
             "col_ore", "col_ope", "col_json"}
  /\ Kept \subseteq Objects /\ \A x \in Kept : Needs(x) \subseteq Kept
<1>1. Kept = {"dom_ore", "dom_ope", "dom_json", "dom_entry", "validators", "json_check",
             "col_ore", "col_ope", "col_json"}
  BY DEF Kept, InPublic, Domains, Columns
<1>. QED
  BY <1>1, NeedsTable, AllObjects

\* What any statement does: nothing at all if it fails, and never to what is kept.
Behaves(db, out, r) ==
  /\ out.ok \in BOOLEAN /\ out.db \in DbType /\ Sound(out.db)
  /\ ~out.ok => out.db = db
  /\ Kept \cap db.have \subseteq out.db.have
  /\ out.db.have \cap (Columns \union Indexes) \subseteq db.have
  /\ \A o \in out.db.have :
       out.db.owner[o] = r \/ (o \in db.have /\ out.db.owner[o] = db.owner[o])
  /\ out.db.crypto = "other" => db.crypto = "other"

LEMMA FailedBehaves ==
  ASSUME NEW db \in DbType, NEW r, Sound(db)
  PROVE  Behaves(db, Failed(db), r)
BY DEF Behaves, Failed

LEMMA DoneBehaves ==
  ASSUME NEW db \in DbType, NEW r, Sound(db)
  PROVE  Behaves(db, Done(db), r)
BY DEF Behaves, Done

LEMMA CreateBehaves ==
  ASSUME NEW db \in DbType, NEW os \in SUBSET Objects, NEW r \in Roles, NEW v \in Nat,
         Sound(db), os \cap (Columns \union Indexes) = {},
         \A o \in os : Needs(o) \subseteq db.have \union os,
         "dom_json" \in os => "json_check" \in db.have \union os
  PROVE  Behaves(db, Done(Create(db, os, r, v)), r)
<1>0. PICK new : new = Create(db, os, r, v)
  OBVIOUS
<1>1. /\ new \in DbType /\ new.have = db.have \union os /\ new.crypto = db.crypto
      /\ \A o \in Objects : new.owner[o] = IF o \in os \ db.have THEN r ELSE db.owner[o]
  BY <1>0 DEF Create, DbType
<1>2. db.have \subseteq Objects
  BY DEF DbType
<1>3. Sound(new)
  BY <1>1 DEF Sound
<1>4. \A o \in new.have :
        new.owner[o] = r \/ (o \in db.have /\ new.owner[o] = db.owner[o])
  BY <1>1, <1>2
<1>. QED
  BY <1>0, <1>1, <1>3, <1>4 DEF Behaves, Done

LEMMA DropFacts ==
  ASSUME NEW db \in DbType, NEW s \in OwnedSchemas, NEW r \in Roles, Sound(db)
  PROVE  LET out == DropSchema(db, s, r)
         IN  /\ Behaves(db, out, r) /\ out.db.have \subseteq db.have
             /\ out.ok => s \notin out.db.have /\ out.db.crypto = db.crypto
             /\ out.ok => \A o \in out.db.have :
                            out.db.ver[o] = db.ver[o] /\ out.db.owner[o] = db.owner[o]
             /\ OwnedSchemas \cap db.have \subseteq {s} \union out.db.have
             /\ ~out.ok => db.owner[s] # r /\ r \notin super /\ s \in db.have
<1>. DEFINE out == DropSchema(db, s, r)
<1>1. CASE s \notin db.have
  BY <1>1, DoneBehaves DEF DropSchema, Done
<1>2. CASE s \in db.have /\ ~MayAlter(db, s, r)
  BY <1>2, FailedBehaves DEF DropSchema, Failed, MayAlter
<1>3. CASE s \in db.have /\ MayAlter(db, s, r)
  <2>. DEFINE gone == Cascade({s}, db.have)
              new == [db EXCEPT !.have = @ \ gone,
                                !.owner = [o \in Objects |-> IF o \in gone THEN Nobody ELSE @[o]],
                                !.ver = [o \in Objects |-> IF o \in gone THEN 0 ELSE @[o]]]
  <2>1. out = Done(new)
    BY <1>3 DEF DropSchema
  <2>2. {s} \in SUBSET Objects /\ db.have \in SUBSET Objects
    BY DEF DbType, Objects
  <2>3. /\ s \in gone /\ gone \subseteq {s} \union db.have
        /\ \A x \in db.have : Needs(x) \cap gone # {} => x \in gone
    BY <2>2, CascadeClosed
  <2>4. s \notin Kept
    BY KeptFacts DEF OwnedSchemas
  <2>5. Kept \cap gone = {}
    BY <2>4, KeptFacts, CascadeSpares
  <2>6. (OwnedSchemas \ {s}) \cap gone = {}
    <3>1. \A x \in OwnedSchemas \ {s} : Needs(x) = {}
      BY NeedsTable DEF OwnedSchemas
    <3>. QED
      BY <3>1, CascadeSpares
  <2>7. Nobody \in Roles
    BY ScriptsAssumption DEF Nobody
  <2>. HIDE DEF gone
  <2>8. /\ new \in DbType /\ new.have = db.have \ gone /\ new.crypto = db.crypto
        /\ \A o \in new.have : new.owner[o] = db.owner[o] /\ new.ver[o] = db.ver[o]
    BY <2>2, <2>7 DEF DbType
  <2>. HIDE DEF new
  <2>9. Sound(new)
    <3>1. "json_check" \notin gone
      BY <2>5, KeptFacts
    <3>. QED
      BY <2>3, <2>8, <3>1 DEF Sound
  <2>10. Behaves(db, Done(new), r)
    BY <2>5, <2>8, <2>9 DEF Behaves, Done
  <2>. QED
    BY <2>1, <2>3, <2>6, <2>8, <2>10 DEF Done
<1>. QED
  BY <1>1, <1>2, <1>3

LEMMA CreateNewFacts ==
  ASSUME NEW db \in DbType, NEW os \in SUBSET Objects, NEW r \in Roles, NEW v \in Nat,
         Sound(db), os \cap (Columns \union Indexes) = {}, "dom_json" \notin os
  PROVE  LET out == CreateNew(db, os, r, v)
         IN  /\ Behaves(db, out, r)
             /\ out.ok => out.db = Create(db, os, r, v)
             /\ ~out.ok => \/ os \cap db.have # {}
                           \/ \E o \in os : ~(Needs(o) \subseteq db.have \union os)
                           \/ \E s \in OwnedSchemas \cap db.have : db.owner[s] # r /\ r \notin super
<1>1. CASE \/ os \cap db.have # {}
           \/ \E o \in os : ~(Needs(o) \subseteq db.have \union os)
           \/ \E o \in os : \E s \in Needs(o) \cap OwnedSchemas \cap db.have : ~MayAlter(db, s, r)
  <2>1. CreateNew(db, os, r, v) = Failed(db)
    BY <1>1 DEF CreateNew
  <2>. QED
    BY <1>1, <2>1, FailedBehaves DEF Failed, MayAlter
<1>2. CASE ~(\/ os \cap db.have # {}
             \/ \E o \in os : ~(Needs(o) \subseteq db.have \union os)
             \/ \E o \in os : \E s \in Needs(o) \cap OwnedSchemas \cap db.have : ~MayAlter(db, s, r))
  <2>1. CreateNew(db, os, r, v) = Done(Create(db, os, r, v))
    BY <1>2 DEF CreateNew
  <2>2. \A o \in os : Needs(o) \subseteq db.have \union os
    BY <1>2
  <2>. QED
    BY <2>1, <2>2, CreateBehaves DEF Done
<1>. QED
  BY <1>1, <1>2

LEMMA EnsureFacts ==
  ASSUME NEW db \in DbType, NEW ds \in SUBSET Domains, NEW parts \in SUBSET {"json_check"},
         NEW r \in Roles, NEW v \in Nat, Sound(db),
         "json_check" \in parts <=> "dom_json" \in ds
  PROVE  LET out == EnsureDomains(db, ds, parts, r, v)
         IN  /\ Behaves(db, out, r)
             /\ out.ok => \E made \in SUBSET (ds \union parts) :
                            out.db = Create(db, made, r, v) /\ ds \ db.have \subseteq made
             /\ ~out.ok => \/ \E d \in Domains \cap db.have : db.owner[d] # r /\ r \notin super
                           \/ "validators" \notin db.have
<1>. DEFINE new == ds \ db.have
            made == new \union {p \in parts : Needs(p) \cap new # {}}
            bad == \/ \E d \in ds \cap db.have : ~MayAlter(db, d, r)
                   \/ \E o \in made : ~(Needs(o) \subseteq db.have \union made)
            out == EnsureDomains(db, ds, parts, r, v)
<1>1. /\ \A d \in Domains : Needs(d) = {} /\ d \in Objects /\ d \notin Columns \union Indexes
      /\ Needs("json_check") = {"dom_json", "validators"}
      /\ "json_check" \in Objects /\ "json_check" \notin Columns \union Indexes
      /\ made \subseteq ds \union parts
  BY NeedsTable, AllObjects DEF Domains, Columns, Indexes
<1>2. CASE bad
  <2>1. out = Failed(db)
    BY <1>2 DEF EnsureDomains
  <2>2. \/ \E d \in Domains \cap db.have : db.owner[d] # r /\ r \notin super
        \/ "validators" \notin db.have
    <3>1. CASE \E d \in ds \cap db.have : ~MayAlter(db, d, r)
      BY <3>1 DEF MayAlter
    <3>2. CASE \E o \in made : ~(Needs(o) \subseteq db.have \union made)
      <4>1. PICK o \in made : ~(Needs(o) \subseteq db.have \union made)
        BY <3>2
      <4>2. o = "json_check" /\ "dom_json" \in new
        BY <1>1, <4>1 DEF Domains
      <4>. QED
        BY <1>1, <4>1, <4>2
    <3>. QED
      BY <1>2, <3>1, <3>2
  <2>. QED
    BY <2>1, <2>2, FailedBehaves DEF Failed
<1>3. CASE ~bad
  <2>1. out = Done(Create(db, made, r, v))
    BY <1>3 DEF EnsureDomains
  <2>2. "dom_json" \in made => "json_check" \in made
    BY <1>1 DEF Domains
  <2>3. made \in SUBSET Objects /\ made \cap (Columns \union Indexes) = {}
    BY <1>1
  <2>4. \A o \in made : Needs(o) \subseteq db.have \union made
    BY <1>3
  <2>. HIDE DEF made
  <2>5. Behaves(db, out, r)
    BY <2>1, <2>2, <2>3, <2>4, CreateBehaves
  <2>6. ds \ db.have \subseteq made
    BY DEF made
  <2>. QED
    BY <1>1, <2>1, <2>5, <2>6 DEF Done
<1>. QED
  BY <1>2, <1>3

\* Why a script may fail: pgcrypto is elsewhere, or something there is not the role's own.
Excuse(db, r) ==
  \/ db.crypto = "other"
  \/ r \notin super /\ \E o \in db.have \ (Columns \union Indexes) : db.owner[o] # r

LEMMA DropExcuse ==
  ASSUME NEW db \in DbType, NEW s \in OwnedSchemas, NEW r \in Roles, Sound(db),
         ~DropSchema(db, s, r).ok
  PROVE  Excuse(db, r)
BY DropFacts DEF Excuse, OwnedSchemas, Columns, Indexes

\* Creating what is not there, of what is.
LEMMA CreateStep ==
  ASSUME NEW db \in DbType, NEW os \in SUBSET Objects, NEW r \in Roles, NEW v \in Nat,
         Sound(db), os \cap (Columns \union Indexes) = {}, "dom_json" \notin os,
         NEW out, out = CreateNew(db, os, r, v)
  PROVE  /\ Behaves(db, out, r)
         /\ out.ok => /\ out.db.have = db.have \union os /\ out.db.crypto = db.crypto
                      /\ \A o \in Objects : out.db.ver[o] = IF o \in os THEN v ELSE db.ver[o]
         /\ ~out.ok => \/ os \cap db.have # {}
                       \/ \E o \in os : ~(Needs(o) \subseteq db.have \union os)
                       \/ Excuse(db, r)
<1>1. /\ Behaves(db, out, r)
      /\ out.ok => out.db = Create(db, os, r, v)
      /\ ~out.ok => \/ os \cap db.have # {}
                    \/ \E o \in os : ~(Needs(o) \subseteq db.have \union os)
                    \/ \E s \in OwnedSchemas \cap db.have : db.owner[s] # r /\ r \notin super
  BY CreateNewFacts
<1>2. OwnedSchemas \cap (Columns \union Indexes) = {}
  BY DEF OwnedSchemas, Columns, Indexes
<1>3. Create(db, os, r, v).have = db.have \union os /\ Create(db, os, r, v).crypto = db.crypto
      /\ \A o \in Objects : Create(db, os, r, v).ver[o] = IF o \in os THEN v ELSE db.ver[o]
  BY DEF Create, DbType
<1>. QED
  BY <1>1, <1>2, <1>3 DEF Excuse

\* What comes of domains that are wanted there, with the parts they are created with.
Ensured(db, out, ds, parts, r) ==
  /\ Behaves(db, out, r)
  /\ out.ok => /\ ds \subseteq out.db.have /\ db.have \subseteq out.db.have
               /\ out.db.have \subseteq db.have \union ds \union parts
               /\ out.db.crypto = db.crypto
               /\ \A o \in Objects \ (ds \union parts) : out.db.ver[o] = db.ver[o]
  /\ ~out.ok => Excuse(db, r) \/ "validators" \notin db.have

LEMMA EnsureStep ==
  ASSUME NEW db \in DbType, NEW ds \in SUBSET Domains, NEW parts \in SUBSET {"json_check"},
         NEW r \in Roles, NEW v \in Nat, Sound(db),
         "json_check" \in parts <=> "dom_json" \in ds
  PROVE  Ensured(db, EnsureDomains(db, ds, parts, r, v), ds, parts, r)
<1>. DEFINE out == EnsureDomains(db, ds, parts, r, v)
<1>1. /\ Behaves(db, out, r)
      /\ out.ok => \E made \in SUBSET (ds \union parts) :
                     out.db = Create(db, made, r, v) /\ ds \ db.have \subseteq made
      /\ ~out.ok => \/ \E d \in Domains \cap db.have : db.owner[d] # r /\ r \notin super
                    \/ "validators" \notin db.have
  BY EnsureFacts
<1>2. Domains \cap (Columns \union Indexes) = {}
  BY DEF Domains, Columns, Indexes
<1>3. ASSUME out.ok
      PROVE  /\ ds \subseteq out.db.have /\ db.have \subseteq out.db.have
             /\ out.db.have \subseteq db.have \union ds \union parts
             /\ out.db.crypto = db.crypto
             /\ \A o \in Objects \ (ds \union parts) : out.db.ver[o] = db.ver[o]
  <2>1. PICK made \in SUBSET (ds \union parts) :
          out.db = Create(db, made, r, v) /\ ds \ db.have \subseteq made
    BY <1>1, <1>3
  <2>2. Create(db, made, r, v).have = db.have \union made /\ Create(db, made, r, v).crypto = db.crypto
        /\ \A o \in Objects : Create(db, made, r, v).ver[o] = IF o \in made THEN v ELSE db.ver[o]
    BY DEF Create, DbType
  <2>. QED
    BY <2>1, <2>2
<1>. QED
  BY <1>1, <1>2, <1>3 DEF Ensured, Excuse

LEMMA ValidatorsStep ==
  ASSUME NEW db \in DbType, NEW r \in Roles, NEW v \in Nat, Sound(db),
         NEW out, out = ReplaceValidators(db, r, v)
  PROVE  /\ Behaves(db, out, r)
         /\ out.ok => /\ out.db.have = db.have \union {"validators"} /\ out.db.crypto = db.crypto
                      /\ \A o \in Objects :
                           out.db.ver[o] = IF o = "validators" THEN v ELSE db.ver[o]
         /\ ~out.ok => Excuse(db, r)
<1>1. CASE "validators" \in db.have /\ ~MayAlter(db, "validators", r)
  <2>1. out = Failed(db)
    BY <1>1 DEF ReplaceValidators
  <2>2. Excuse(db, r)
    BY <1>1 DEF Excuse, MayAlter, Columns, Indexes
  <2>. QED
    BY <2>1, <2>2, FailedBehaves DEF Failed
<1>2. CASE ~("validators" \in db.have /\ ~MayAlter(db, "validators", r))
  <2>1. out = Done(Create(db, {"validators"}, r, v))
    BY <1>2 DEF ReplaceValidators
  <2>2. /\ {"validators"} \in SUBSET Objects /\ {"validators"} \cap (Columns \union Indexes) = {}
        /\ Needs("validators") = {}
    BY AllObjects, NeedsTable DEF Columns, Indexes
  <2>3. Behaves(db, Done(Create(db, {"validators"}, r, v)), r)
    BY <2>2, CreateBehaves
  <2>4. Create(db, {"validators"}, r, v).have = db.have \union {"validators"}
        /\ Create(db, {"validators"}, r, v).crypto = db.crypto
        /\ \A o \in Objects :
             Create(db, {"validators"}, r, v).ver[o] = IF o = "validators" THEN v ELSE db.ver[o]
    BY DEF Create, DbType
  <2>. QED
    BY <2>1, <2>3, <2>4 DEF Done
<1>. QED
  BY <1>1, <1>2

LEMMA CryptoStep ==
  ASSUME NEW db \in DbType, NEW r \in Roles, Sound(db), NEW out, out = RequirePgcrypto(db)
  PROVE  /\ Behaves(db, out, r)
         /\ out.ok => /\ out.db.have = db.have /\ out.db.ver = db.ver
                      /\ out.db.crypto \in {"extensions", "public"}
         /\ ~out.ok => Excuse(db, r)
<1>1. CASE db.crypto = "none"
  <2>1. out = Done([db EXCEPT !.crypto = "extensions"])
    BY <1>1 DEF RequirePgcrypto
  <2>2. PICK new : new = [db EXCEPT !.crypto = "extensions"]
    OBVIOUS
  <2>3. /\ new \in DbType /\ new.have = db.have /\ new.ver = db.ver /\ new.owner = db.owner
        /\ new.crypto = "extensions" /\ db.have \subseteq Objects
    BY <2>2 DEF DbType
  <2>4. Sound(new)
    BY <2>3 DEF Sound
  <2>5. Behaves(db, Done(new), r)
    BY <2>3, <2>4 DEF Behaves, Done
  <2>. QED
    <3>1. out = Done(new)
      BY <2>1, <2>2
    <3>2. out.ok /\ out.db = new
      BY <3>1 DEF Done
    <3>. QED
      BY <2>3, <2>5, <3>1, <3>2
<1>2. CASE db.crypto \in {"extensions", "public"}
  BY <1>2, DoneBehaves DEF RequirePgcrypto, Done
<1>3. CASE db.crypto = "other"
  BY <1>3, FailedBehaves DEF RequirePgcrypto, Failed, Excuse
<1>. QED
  BY <1>1, <1>2, <1>3 DEF DbType

LEMMA OpclassStep ==
  ASSUME NEW db \in DbType, NEW r \in Roles, NEW v \in Nat, Sound(db),
         NEW out, out = TryOpclass(db, r, v)
  PROVE  /\ Behaves(db, out, r)
         /\ out.ok => /\ out.db.have \in {db.have, db.have \union {"ore_opclass"}}
                      /\ out.db.crypto = db.crypto
                      /\ \A o \in Objects \ {"ore_opclass"} : out.db.ver[o] = db.ver[o]
                      /\ "ore_opclass" \in out.db.have \ db.have => out.db.ver["ore_opclass"] = v
         /\ ~out.ok => \/ "ore_opclass" \in db.have \/ "internal" \notin db.have
                       \/ "ore_block_256" \notin db.have \/ Excuse(db, r)
<1>1. CASE r \notin super
  BY <1>1, DoneBehaves DEF TryOpclass, Done
<1>2. CASE r \in super
  <2>1. out = CreateNew(db, {"ore_opclass"}, r, v)
    BY <1>2 DEF TryOpclass
  <2>2. /\ {"ore_opclass"} \in SUBSET Objects /\ {"ore_opclass"} \cap (Columns \union Indexes) = {}
        /\ Needs("ore_opclass") = {"internal", "ore_block_256"} /\ "dom_json" \notin {"ore_opclass"}
    BY AllObjects, NeedsTable DEF Columns, Indexes
  <2>3. /\ Behaves(db, out, r)
        /\ out.ok => /\ out.db.have = db.have \union {"ore_opclass"} /\ out.db.crypto = db.crypto
                     /\ \A o \in Objects : out.db.ver[o] = IF o \in {"ore_opclass"} THEN v ELSE db.ver[o]
        /\ ~out.ok => \/ {"ore_opclass"} \cap db.have # {}
                      \/ \E o \in {"ore_opclass"} : ~(Needs(o) \subseteq db.have \union {"ore_opclass"})
                      \/ Excuse(db, r)
    <3>. DEFINE os == {"ore_opclass"}
    <3>1. os \in SUBSET Objects /\ os \cap (Columns \union Indexes) = {} /\ "dom_json" \notin os
      BY <2>2
    <3>2. out = CreateNew(db, os, r, v)
      BY <2>1
    <3>. HIDE DEF os
    <3>3. /\ Behaves(db, out, r)
          /\ out.ok => /\ out.db.have = db.have \union os /\ out.db.crypto = db.crypto
                       /\ \A o \in Objects : out.db.ver[o] = IF o \in os THEN v ELSE db.ver[o]
          /\ ~out.ok => \/ os \cap db.have # {}
                        \/ \E o \in os : ~(Needs(o) \subseteq db.have \union os)
                        \/ Excuse(db, r)
      BY <3>1, <3>2, CreateStep
    <3>. QED
      BY <3>3 DEF os
  <2>. QED
    BY <2>2, <2>3
<1>. QED
  BY <1>1, <1>2

\* What makes the ORE domains refuse every value.
Refusal == {"ore_domain_unavailable"} \union Poison

LEMMA FallbackStep ==
  ASSUME NEW db \in DbType, NEW r \in Roles, NEW v \in Nat, Sound(db),
         NEW out, out = Fallback(db, r, v)
  PROVE  /\ Behaves(db, out, r)
         /\ out.ok /\ "ore_opclass" \in db.have => out.db = db
         /\ out.ok /\ "ore_opclass" \notin db.have =>
              /\ out.db.have = db.have \union Refusal /\ out.db.crypto = db.crypto
              /\ \A o \in Objects : out.db.ver[o] = IF o \in Refusal THEN v ELSE db.ver[o]
         /\ ~out.ok => \/ ~({"ore_block_256", "internal", "dom_ore", "query_ore"} \subseteq db.have)
                       \/ "ore_opclass" \notin db.have /\ Refusal \cap db.have # {}
                       \/ Excuse(db, r)
<1>1. CASE "ore_block_256" \notin db.have
  BY <1>1, FailedBehaves DEF Fallback, Failed
<1>2. CASE "ore_block_256" \in db.have /\ "ore_opclass" \in db.have
  BY <1>2, DoneBehaves DEF Fallback, Done
<1>3. CASE /\ "ore_block_256" \in db.have /\ "ore_opclass" \notin db.have
           /\ \E d \in {"dom_ore", "query_ore"} \cap db.have : ~MayAlter(db, d, r)
  <2>1. out = Failed(db)
    BY <1>3 DEF Fallback
  <2>2. Excuse(db, r)
    BY <1>3 DEF Excuse, MayAlter, Columns, Indexes
  <2>. QED
    BY <1>3, <2>1, <2>2, FailedBehaves DEF Failed
<1>4. CASE /\ "ore_block_256" \in db.have /\ "ore_opclass" \notin db.have
           /\ ~(\E d \in {"dom_ore", "query_ore"} \cap db.have : ~MayAlter(db, d, r))
  <2>1. out = CreateNew(db, Refusal, r, v)
    BY <1>4 DEF Fallback, Refusal
  <2>2. /\ Refusal \in SUBSET Objects /\ Refusal \cap (Columns \union Indexes) = {} /\ "dom_json" \notin Refusal
        /\ \A o \in Refusal : Needs(o) \subseteq Refusal \union {"internal", "dom_ore", "query_ore"}
    BY AllObjects, NeedsTable DEF Columns, Indexes, Poison, Refusal
  <2>3. /\ Behaves(db, out, r)
        /\ out.ok => /\ out.db.have = db.have \union Refusal /\ out.db.crypto = db.crypto
                     /\ \A o \in Objects : out.db.ver[o] = IF o \in Refusal THEN v ELSE db.ver[o]
        /\ ~out.ok => \/ Refusal \cap db.have # {}
                      \/ \E o \in Refusal : ~(Needs(o) \subseteq db.have \union Refusal)
                      \/ Excuse(db, r)
    <3>. DEFINE os == Refusal
    <3>1. os \in SUBSET Objects /\ os \cap (Columns \union Indexes) = {} /\ "dom_json" \notin os
      BY <2>2
    <3>2. out = CreateNew(db, os, r, v)
      BY <2>1
    <3>. HIDE DEF os
    <3>3. /\ Behaves(db, out, r)
          /\ out.ok => /\ out.db.have = db.have \union os /\ out.db.crypto = db.crypto
                       /\ \A o \in Objects : out.db.ver[o] = IF o \in os THEN v ELSE db.ver[o]
          /\ ~out.ok => \/ os \cap db.have # {}
                        \/ \E o \in os : ~(Needs(o) \subseteq db.have \union os)
                        \/ Excuse(db, r)
      BY <3>1, <3>2, CreateStep
    <3>. QED
      BY <3>3 DEF os
  <2>. QED
    BY <1>4, <2>2, <2>3
<1>. QED
  BY <1>1, <1>2, <1>3, <1>4

-----------------------------------------------------------------------------
(* Scripts.                                                                *)

\* What comes out of statement i, if all went well until then and in any case.
Proceeds(i, db, out, r, v) ==
  /\ Behaves(db, out, r)
  /\ Built(i, db, v) => IF out.ok THEN Built(i + 1, out.db, v) ELSE Excuse(db, r)

LEMMA DropEqlStep ==
  ASSUME NEW db \in DbType, NEW r \in Roles, NEW v \in Nat, Sound(db)
  PROVE  /\ Proceeds(1, db, DropSchema(db, "eql_v3", r), r, v)
         /\ DropSchema(db, "eql_v3", r).ok =>
              "ix_record" \notin DropSchema(db, "eql_v3", r).db.have
<1>. DEFINE out == DropSchema(db, "eql_v3", r)
<1>1. /\ Behaves(db, out, r)
      /\ out.ok => "eql_v3" \notin out.db.have
      /\ ~out.ok => Excuse(db, r)
  BY DropFacts, DropExcuse DEF OwnedSchemas
<1>. HIDE DEF out
<1>2. Sound(out.db)
  BY <1>1 DEF Behaves
<1>3. out.ok => Built(2, out.db, v) /\ "ix_record" \notin out.db.have
  BY <1>1, <1>2, NeedsTable DEF Built, Sound
<1>. QED
  BY <1>1, <1>3 DEF Proceeds, out

LEMMA CreateEqlStep ==
  ASSUME NEW db \in DbType, NEW r \in Roles, NEW v \in Nat, Sound(db)
  PROVE  Proceeds(2, db, CreateNew(db, {"eql_v3"}, r, v), r, v)
<1>. DEFINE os == {"eql_v3"}
            out == CreateNew(db, os, r, v)
<1>1. /\ os \in SUBSET Objects /\ os \cap (Columns \union Indexes) = {} /\ "dom_json" \notin os
      /\ \A o \in os : Needs(o) \subseteq {}
  BY AllObjects, NeedsTable DEF Columns, Indexes
<1>. HIDE DEF os
<1>2. /\ Behaves(db, out, r)
      /\ out.ok => /\ out.db.have = db.have \union os /\ out.db.crypto = db.crypto
                   /\ \A o \in Objects : out.db.ver[o] = IF o \in os THEN v ELSE db.ver[o]
      /\ ~out.ok => \/ os \cap db.have # {}
                    \/ \E o \in os : ~(Needs(o) \subseteq db.have \union os)
                    \/ Excuse(db, r)
  BY <1>1, CreateStep
<1>. HIDE DEF out
<1>3. Built(2, db, v) => IF out.ok THEN Built(3, out.db, v) ELSE Excuse(db, r)
  BY <1>1, <1>2, AllObjects DEF Built, os, Poison
<1>. QED
  BY <1>2, <1>3 DEF Proceeds, out, os

LEMMA DropInternalStep ==
  ASSUME NEW db \in DbType, NEW r \in Roles, NEW v \in Nat, Sound(db)
  PROVE  Proceeds(3, db, DropSchema(db, "internal", r), r, v)
<1>. DEFINE out == DropSchema(db, "internal", r)
<1>1. /\ Behaves(db, out, r) /\ out.db.have \subseteq db.have
      /\ out.ok => "internal" \notin out.db.have
      /\ out.ok => \A o \in out.db.have : out.db.ver[o] = db.ver[o]
      /\ "eql_v3" \in db.have => "eql_v3" \in out.db.have
      /\ ~out.ok => Excuse(db, r)
  BY DropFacts, DropExcuse DEF OwnedSchemas
<1>. HIDE DEF out
<1>2. Sound(out.db)
  BY <1>1 DEF Behaves
<1>3. out.ok => {"ore_block_256", "ore_opclass", "ore_domain_unavailable", "poison_ore",
                 "poison_query"} \cap out.db.have = {}
  BY <1>1, <1>2, NeedsTable DEF Sound
<1>4. Built(3, db, v) => IF out.ok THEN Built(4, out.db, v) ELSE Excuse(db, r)
  BY <1>1, <1>3 DEF Built, Poison
<1>. QED
  BY <1>1, <1>4 DEF Proceeds, out

LEMMA CreateInternalStep ==
  ASSUME NEW db \in DbType, NEW r \in Roles, NEW v \in Nat, Sound(db)
  PROVE  Proceeds(4, db, CreateNew(db, {"internal"}, r, v), r, v)
<1>. DEFINE os == {"internal"}
            out == CreateNew(db, os, r, v)
<1>1. /\ os \in SUBSET Objects /\ os \cap (Columns \union Indexes) = {} /\ "dom_json" \notin os
      /\ \A o \in os : Needs(o) \subseteq {}
  BY AllObjects, NeedsTable DEF Columns, Indexes
<1>. HIDE DEF os
<1>2. /\ Behaves(db, out, r)
      /\ out.ok => /\ out.db.have = db.have \union os /\ out.db.crypto = db.crypto
                   /\ \A o \in Objects : out.db.ver[o] = IF o \in os THEN v ELSE db.ver[o]
      /\ ~out.ok => \/ os \cap db.have # {}
                    \/ \E o \in os : ~(Needs(o) \subseteq db.have \union os)
                    \/ Excuse(db, r)
  BY <1>1, CreateStep
<1>. HIDE DEF out
<1>3. Built(4, db, v) => IF out.ok THEN Built(5, out.db, v) ELSE Excuse(db, r)
  BY <1>1, <1>2, AllObjects DEF Built, os, Poison
<1>. QED
  BY <1>2, <1>3 DEF Proceeds, out, os

LEMMA RequireCryptoStep ==
  ASSUME NEW db \in DbType, NEW r \in Roles, NEW v \in Nat, Sound(db)
  PROVE  Proceeds(5, db, RequirePgcrypto(db), r, v)
<1>1. PICK out : out = RequirePgcrypto(db)
  OBVIOUS
<1>2. /\ Behaves(db, out, r)
      /\ out.ok => /\ out.db.have = db.have /\ out.db.ver = db.ver
                   /\ out.db.crypto \in {"extensions", "public"}
      /\ ~out.ok => Excuse(db, r)
  BY <1>1, CryptoStep
<1>3. Built(5, db, v) => IF out.ok THEN Built(6, out.db, v) ELSE Excuse(db, r)
  BY <1>2 DEF Built
<1>. QED
  BY <1>1, <1>2, <1>3 DEF Proceeds

LEMMA CreateValidatorsStep ==
  ASSUME NEW db \in DbType, NEW r \in Roles, NEW v \in Nat, Sound(db)
  PROVE  Proceeds(6, db, ReplaceValidators(db, r, v), r, v)
<1>1. PICK out : out = ReplaceValidators(db, r, v)
  OBVIOUS
<1>2. /\ Behaves(db, out, r)
      /\ out.ok => /\ out.db.have = db.have \union {"validators"} /\ out.db.crypto = db.crypto
                   /\ \A o \in Objects : out.db.ver[o] = IF o = "validators" THEN v ELSE db.ver[o]
      /\ ~out.ok => Excuse(db, r)
  BY <1>1, ValidatorsStep
<1>3. Built(6, db, v) => IF out.ok THEN Built(7, out.db, v) ELSE Excuse(db, r)
  BY <1>2, AllObjects DEF Built, Poison
<1>. QED
  BY <1>1, <1>2, <1>3 DEF Proceeds

LEMMA EnsureJsonStep ==
  ASSUME NEW db \in DbType, NEW r \in Roles, NEW v \in Nat, Sound(db)
  PROVE  Proceeds(7, db, EnsureDomains(db, {"dom_json"}, {"json_check"}, r, v), r, v)
<1>1. PICK out, ds, parts : /\ out = EnsureDomains(db, ds, parts, r, v)
                           /\ ds = {"dom_json"} /\ parts = {"json_check"}
  OBVIOUS
<1>2. /\ ds \in SUBSET Domains /\ parts \in SUBSET {"json_check"}
      /\ "json_check" \in parts <=> "dom_json" \in ds
  BY <1>1 DEF Domains
<1>3. Ensured(db, out, ds, parts, r)
  BY <1>1, <1>2, EnsureStep
<1>4. ds \union parts \subseteq {"dom_ore", "dom_ope", "dom_json", "dom_entry", "json_check"}
  BY <1>1
<1>5. Built(7, db, v) => IF out.ok THEN Built(8, out.db, v) ELSE Excuse(db, r)
  BY <1>1, <1>3, <1>4, AllObjects DEF Ensured, Built, Poison
<1>. QED
  BY <1>1, <1>3, <1>5 DEF Ensured, Proceeds

LEMMA EnsureEntryStep ==
  ASSUME NEW db \in DbType, NEW r \in Roles, NEW v \in Nat, Sound(db)
  PROVE  Proceeds(8, db, EnsureDomains(db, {"dom_entry"}, {}, r, v), r, v)
<1>1. PICK out, ds, parts : /\ out = EnsureDomains(db, ds, parts, r, v)
                           /\ ds = {"dom_entry"} /\ parts = {}
  OBVIOUS
<1>2. /\ ds \in SUBSET Domains /\ parts \in SUBSET {"json_check"}
      /\ "json_check" \in parts <=> "dom_json" \in ds
  BY <1>1 DEF Domains
<1>3. Ensured(db, out, ds, parts, r)
  BY <1>1, <1>2, EnsureStep
<1>4. ds \union parts \subseteq {"dom_ore", "dom_ope", "dom_json", "dom_entry", "json_check"}
  BY <1>1
<1>5. Built(8, db, v) => IF out.ok THEN Built(9, out.db, v) ELSE Excuse(db, r)
  BY <1>1, <1>3, <1>4, AllObjects DEF Ensured, Built, Poison
<1>. QED
  BY <1>1, <1>3, <1>5 DEF Ensured, Proceeds

LEMMA EnsureScalarsStep ==
  ASSUME NEW db \in DbType, NEW r \in Roles, NEW v \in Nat, Sound(db)
  PROVE  Proceeds(9, db, EnsureDomains(db, {"dom_ore", "dom_ope"}, {}, r, v), r, v)
<1>1. PICK out, ds, parts : /\ out = EnsureDomains(db, ds, parts, r, v)
                           /\ ds = {"dom_ore", "dom_ope"} /\ parts = {}
  OBVIOUS
<1>2. /\ ds \in SUBSET Domains /\ parts \in SUBSET {"json_check"}
      /\ "json_check" \in parts <=> "dom_json" \in ds
  BY <1>1 DEF Domains
<1>3. Ensured(db, out, ds, parts, r)
  BY <1>1, <1>2, EnsureStep
<1>4. ds \union parts \subseteq {"dom_ore", "dom_ope", "dom_json", "dom_entry", "json_check"}
  BY <1>1
<1>5. Built(9, db, v) => IF out.ok THEN Built(10, out.db, v) ELSE Excuse(db, r)
  BY <1>1, <1>3, <1>4, AllObjects DEF Ensured, Built, Poison
<1>. QED
  BY <1>1, <1>3, <1>5 DEF Ensured, Proceeds

LEMMA CreateQueriesStep ==
  ASSUME NEW db \in DbType, NEW r \in Roles, NEW v \in Nat, Sound(db)
  PROVE  Proceeds(10, db, CreateNew(db, {"query_ore", "query_json"}, r, v), r, v)
<1>. DEFINE os == {"query_ore", "query_json"}
            out == CreateNew(db, os, r, v)
<1>1. /\ os \in SUBSET Objects /\ os \cap (Columns \union Indexes) = {} /\ "dom_json" \notin os
      /\ \A o \in os : Needs(o) \subseteq {"eql_v3", "validators"}
  BY AllObjects, NeedsTable DEF Columns, Indexes
<1>. HIDE DEF os
<1>2. /\ Behaves(db, out, r)
      /\ out.ok => /\ out.db.have = db.have \union os /\ out.db.crypto = db.crypto
                   /\ \A o \in Objects : out.db.ver[o] = IF o \in os THEN v ELSE db.ver[o]
      /\ ~out.ok => \/ os \cap db.have # {}
                    \/ \E o \in os : ~(Needs(o) \subseteq db.have \union os)
                    \/ Excuse(db, r)
  BY <1>1, CreateStep
<1>. HIDE DEF out
<1>3. Built(10, db, v) => IF out.ok THEN Built(11, out.db, v) ELSE Excuse(db, r)
  BY <1>1, <1>2, AllObjects DEF Built, os, Poison
<1>. QED
  BY <1>2, <1>3 DEF Proceeds, out, os

LEMMA CreateOreStep ==
  ASSUME NEW db \in DbType, NEW r \in Roles, NEW v \in Nat, Sound(db)
  PROVE  Proceeds(11, db, CreateNew(db, {"ore_block_256"}, r, v), r, v)
<1>. DEFINE os == {"ore_block_256"}
            out == CreateNew(db, os, r, v)
<1>1. /\ os \in SUBSET Objects /\ os \cap (Columns \union Indexes) = {} /\ "dom_json" \notin os
      /\ \A o \in os : Needs(o) \subseteq {"internal"}
  BY AllObjects, NeedsTable DEF Columns, Indexes
<1>. HIDE DEF os
<1>2. /\ Behaves(db, out, r)
      /\ out.ok => /\ out.db.have = db.have \union os /\ out.db.crypto = db.crypto
                   /\ \A o \in Objects : out.db.ver[o] = IF o \in os THEN v ELSE db.ver[o]
      /\ ~out.ok => \/ os \cap db.have # {}
                    \/ \E o \in os : ~(Needs(o) \subseteq db.have \union os)
                    \/ Excuse(db, r)
  BY <1>1, CreateStep
<1>. HIDE DEF out
<1>3. Built(11, db, v) => IF out.ok THEN Built(12, out.db, v) ELSE Excuse(db, r)
  BY <1>1, <1>2, AllObjects DEF Built, os, Poison
<1>. QED
  BY <1>2, <1>3 DEF Proceeds, out, os

LEMMA CreateTermsStep ==
  ASSUME NEW db \in DbType, NEW r \in Roles, NEW v \in Nat, Sound(db)
  PROVE  Proceeds(12, db, CreateNew(db, {"ord_term", "ord_term_ore", "version"}, r, v), r, v)
<1>. DEFINE os == {"ord_term", "ord_term_ore", "version"}
            out == CreateNew(db, os, r, v)
<1>1. /\ os \in SUBSET Objects /\ os \cap (Columns \union Indexes) = {} /\ "dom_json" \notin os
      /\ \A o \in os : Needs(o) \subseteq {"eql_v3", "dom_ope", "dom_ore", "ore_block_256"}
  BY AllObjects, NeedsTable DEF Columns, Indexes
<1>. HIDE DEF os
<1>2. /\ Behaves(db, out, r)
      /\ out.ok => /\ out.db.have = db.have \union os /\ out.db.crypto = db.crypto
                   /\ \A o \in Objects : out.db.ver[o] = IF o \in os THEN v ELSE db.ver[o]
      /\ ~out.ok => \/ os \cap db.have # {}
                    \/ \E o \in os : ~(Needs(o) \subseteq db.have \union os)
                    \/ Excuse(db, r)
  BY <1>1, CreateStep
<1>. HIDE DEF out
<1>3. Built(12, db, v) => IF out.ok THEN Built(13, out.db, v) ELSE Excuse(db, r)
  BY <1>1, <1>2, AllObjects DEF Built, os, Poison
<1>. QED
  BY <1>2, <1>3 DEF Proceeds, out, os

LEMMA TryOpclassStep ==
  ASSUME NEW db \in DbType, NEW r \in Roles, NEW v \in Nat, Sound(db)
  PROVE  Proceeds(13, db, TryOpclass(db, r, v), r, v)
<1>1. PICK out : out = TryOpclass(db, r, v)
  OBVIOUS
<1>2. /\ Behaves(db, out, r)
      /\ out.ok => /\ out.db.have \in {db.have, db.have \union {"ore_opclass"}}
                   /\ out.db.crypto = db.crypto
                   /\ \A o \in Objects \ {"ore_opclass"} : out.db.ver[o] = db.ver[o]
                   /\ "ore_opclass" \in out.db.have \ db.have => out.db.ver["ore_opclass"] = v
      /\ ~out.ok => \/ "ore_opclass" \in db.have \/ "internal" \notin db.have
                    \/ "ore_block_256" \notin db.have \/ Excuse(db, r)
  BY <1>1, OpclassStep
<1>3. Built(13, db, v) => IF out.ok THEN Built(14, out.db, v) ELSE Excuse(db, r)
  BY <1>2, AllObjects DEF Built, Poison
<1>. QED
  BY <1>1, <1>2, <1>3 DEF Proceeds

LEMMA FallbackProceeds ==
  ASSUME NEW db \in DbType, NEW r \in Roles, NEW v \in Nat, Sound(db)
  PROVE  Proceeds(14, db, Fallback(db, r, v), r, v)
<1>1. PICK out : out = Fallback(db, r, v)
  OBVIOUS
<1>2. /\ Behaves(db, out, r)
      /\ out.ok /\ "ore_opclass" \in db.have => out.db = db
      /\ out.ok /\ "ore_opclass" \notin db.have =>
           /\ out.db.have = db.have \union Refusal /\ out.db.crypto = db.crypto
           /\ \A o \in Objects : out.db.ver[o] = IF o \in Refusal THEN v ELSE db.ver[o]
      /\ ~out.ok => \/ ~({"ore_block_256", "internal", "dom_ore", "query_ore"} \subseteq db.have)
                    \/ "ore_opclass" \notin db.have /\ Refusal \cap db.have # {}
                    \/ Excuse(db, r)
  BY <1>1, FallbackStep
<1>3. Refusal = {"ore_domain_unavailable", "poison_ore", "poison_query"}
  BY DEF Refusal, Poison
<1>4. Built(14, db, v) => IF out.ok THEN Built(15, out.db, v) ELSE Excuse(db, r)
  <2>1. CASE "ore_opclass" \in db.have
    BY <1>2, <1>3, <2>1, AllObjects DEF Built, Poison
  <2>2. CASE "ore_opclass" \notin db.have
    BY <1>2, <1>3, <2>2, AllObjects DEF Built, Poison
  <2>. QED
    BY <2>1, <2>2
<1>. QED
  BY <1>1, <1>2, <1>4 DEF Proceeds

LEMMA InstallProceeds ==
  ASSUME NEW db \in DbType, NEW r \in Roles, NEW v \in Nat, Sound(db), NEW i \in 1..InstallLength
  PROVE  /\ Proceeds(i, db, InstallStatement(i, db, r, v), r, v)
         /\ i = 1 /\ InstallStatement(i, db, r, v).ok =>
              "ix_record" \notin InstallStatement(i, db, r, v).db.have
<1>1. CASE i = 1
  BY <1>1, DropEqlStep DEF InstallStatement
<1>2. CASE i = 2
  BY <1>2, CreateEqlStep DEF InstallStatement
<1>3. CASE i = 3
  BY <1>3, DropInternalStep DEF InstallStatement
<1>4. CASE i = 4
  BY <1>4, CreateInternalStep DEF InstallStatement
<1>5. CASE i = 5
  BY <1>5, RequireCryptoStep DEF InstallStatement
<1>6. CASE i = 6
  BY <1>6, CreateValidatorsStep DEF InstallStatement
<1>7. CASE i = 7
  BY <1>7, EnsureJsonStep DEF InstallStatement
<1>8. CASE i = 8
  BY <1>8, EnsureEntryStep DEF InstallStatement
<1>9. CASE i = 9
  BY <1>9, EnsureScalarsStep DEF InstallStatement
<1>10. CASE i = 10
  BY <1>10, CreateQueriesStep DEF InstallStatement
<1>11. CASE i = 11
  BY <1>11, CreateOreStep DEF InstallStatement
<1>12. CASE i = 12
  BY <1>12, CreateTermsStep DEF InstallStatement
<1>13. CASE i = 13
  BY <1>13, TryOpclassStep DEF InstallStatement
<1>14. CASE i = 14
  BY <1>14, FallbackProceeds DEF InstallStatement
<1>. QED
  BY <1>1, <1>2, <1>3, <1>4, <1>5, <1>6, <1>7,
     <1>8, <1>9, <1>10, <1>11, <1>12, <1>13, <1>14 DEF InstallLength

LEMMA UninstallProceeds ==
  ASSUME NEW db \in DbType, NEW r \in Roles, NEW v \in Nat, Sound(db), NEW i \in 1..UninstallLength
  PROVE  LET out == UninstallStatement(i, db, r, v)
         IN  /\ Behaves(db, out, r) /\ out.db.have \subseteq db.have
             /\ out.ok => (IF i = 1 THEN "eql_v3" ELSE "internal") \notin out.db.have
             /\ ~out.ok => Excuse(db, r)
<1>1. i \in {1, 2}
  BY DEF UninstallLength
<1>2. CASE i = 1
  BY <1>2, DropFacts, DropExcuse DEF UninstallStatement, OwnedSchemas
<1>3. CASE i = 2
  BY <1>3, DropFacts, DropExcuse DEF UninstallStatement, OwnedSchemas
<1>. QED
  BY <1>1, <1>2, <1>3

\* What the statements before i of a script have made of db0, in one transaction.
Through(script, i, db0, out, r, v) ==
  /\ out.ok \in BOOLEAN /\ out.db \in DbType /\ Sound(out.db)
  /\ Kept \cap db0.have \subseteq out.db.have
  /\ out.db.have \cap (Columns \union Indexes) \subseteq db0.have
  /\ \A o \in out.db.have :
       out.db.owner[o] = r \/ (o \in db0.have /\ out.db.owner[o] = db0.owner[o])
  /\ out.db.crypto = "other" => db0.crypto = "other"
  /\ ~out.ok => Excuse(db0, r)
  /\ script = "install" /\ out.ok =>
       Built(i, out.db, v) /\ (i > 1 => "ix_record" \notin out.db.have)
  /\ script = "uninstall" =>
       /\ out.db.have \subseteq db0.have
       /\ out.ok /\ i > 1 => "eql_v3" \notin out.db.have
       /\ out.ok /\ i > 2 => "internal" \notin out.db.have

LEMMA ThenStep ==
  ASSUME NEW script \in {"install", "uninstall"}, NEW i \in 1..Length(script), NEW db0, NEW out,
         NEW r \in Roles, NEW v \in Nat, Through(script, i, db0, out, r, v)
  PROVE  Through(script, i + 1, db0, Then(out, i, script, r, v), r, v)
<1>1. CASE ~out.ok
  <2>1. Then(out, i, script, r, v) = out
    BY <1>1 DEF Then
  <2>. QED
    BY <1>1, <2>1 DEF Through
<1>2. CASE out.ok
  <2>1. PICK new : new = Statement(script, i, out.db, r, v)
    OBVIOUS
  <2>2. Then(out, i, script, r, v) = new
    BY <1>2, <2>1 DEF Then
  <2>3. out.db \in DbType /\ Sound(out.db) /\ i \in Nat
    BY DEF Through
  <2>4. /\ Behaves(out.db, new, r)
        /\ ~new.ok => Excuse(out.db, r)
        /\ script = "install" /\ new.ok =>
             Built(i + 1, new.db, v) /\ (i = 1 => "ix_record" \notin new.db.have)
        /\ script = "uninstall" =>
             /\ new.db.have \subseteq out.db.have
             /\ new.ok => (IF i = 1 THEN "eql_v3" ELSE "internal") \notin new.db.have
    <3>1. CASE script = "install"
      <4>1. new = InstallStatement(i, out.db, r, v) /\ i \in 1..InstallLength
        BY <2>1, <3>1 DEF Statement, Length
      <4>2. Built(i, out.db, v)
        BY <1>2, <3>1 DEF Through
      <4>. QED
        BY <2>3, <3>1, <4>1, <4>2, InstallProceeds DEF Proceeds
    <3>2. CASE script = "uninstall"
      <4>1. new = UninstallStatement(i, out.db, r, v) /\ i \in 1..UninstallLength
        BY <2>1, <3>2 DEF Statement, Length
      <4>. QED
        BY <2>3, <3>2, <4>1, UninstallProceeds
    <3>. QED
      BY <3>1, <3>2
  <2>5. Excuse(out.db, r) => Excuse(db0, r)
    BY DEF Excuse, Through
  <2>6. \A o \in new.db.have :
          new.db.owner[o] = r \/ (o \in db0.have /\ new.db.owner[o] = db0.owner[o])
    BY <2>4 DEF Behaves, Through
  <2>7. /\ Kept \cap db0.have \subseteq new.db.have
        /\ new.db.have \cap (Columns \union Indexes) \subseteq db0.have
        /\ new.db.have \cap (Columns \union Indexes) \subseteq out.db.have
        /\ new.db.crypto = "other" => db0.crypto = "other"
    BY <2>4 DEF Behaves, Through
  <2>8. script = "install" /\ new.ok /\ i + 1 > 1 => "ix_record" \notin new.db.have
    <3>1. "ix_record" \in Indexes
      BY DEF Indexes
    <3>. QED
      BY <1>2, <2>3, <2>4, <2>7, <3>1 DEF Through
  <2>9. script = "uninstall" =>
          /\ new.db.have \subseteq db0.have
          /\ new.ok /\ i + 1 > 1 => "eql_v3" \notin new.db.have
          /\ new.ok /\ i + 1 > 2 => "internal" \notin new.db.have
    BY <1>2, <2>3, <2>4 DEF Through
  <2>. QED
    BY <2>2, <2>4, <2>5, <2>6, <2>7, <2>8, <2>9 DEF Behaves, Through
<1>. QED
  BY <1>1, <1>2 DEF Through

LEMMA RunScriptThrough ==
  ASSUME NEW script \in {"install", "uninstall"}, NEW db \in DbType, Sound(db),
         NEW r \in Roles, NEW v \in Nat
  PROVE  Through(script, Length(script) + 1, db, RunScript(script, db, r, v), r, v)
<1>1. Through(script, 1, db, Done(db), r, v)
  BY DEF Through, Done, Built
<1>2. ASSUME NEW i \in 1..Length(script), i + 1 \in 1..Length(script), NEW out,
             Through(script, i, db, out, r, v)
      PROVE  Through(script, i + 2, db, Then2(out, i, script, r, v), r, v)
  <2>1. Through(script, i + 1, db, Then(out, i, script, r, v), r, v)
    BY <1>2, ThenStep
  <2>2. Through(script, i + 1 + 1, db, Then2(out, i, script, r, v), r, v)
    BY <1>2, <2>1, ThenStep DEF Then2
  <2>3. i + 1 + 1 = i + 2
    OBVIOUS
  <2>. QED
    BY <2>2, <2>3
<1>. DEFINE two == Then2(Done(db), 1, script, r, v)
<1>3. Through(script, 3, db, two, r, v)
  BY <1>1, <1>2 DEF Length, InstallLength, UninstallLength
<1>. HIDE DEF two
<1>4. CASE script = "uninstall"
  <2>1. RunScript(script, db, r, v) = two /\ Length(script) + 1 = 3
    BY <1>4 DEF RunScript, Length, UninstallLength, two
  <2>. QED
    BY <1>3, <2>1
<1>5. CASE script = "install"
  <2>1. Length(script) = 14
    BY <1>5 DEF Length, InstallLength
  <2>2. ASSUME NEW i \in {3, 7, 11}, NEW out, Through(script, i, db, out, r, v)
        PROVE  Through(script, i + 4, db, Then4(out, i, script, r, v), r, v)
    <3>1. Through(script, i + 2, db, Then2(out, i, script, r, v), r, v)
      BY <1>2, <2>1, <2>2
    <3>2. Through(script, i + 2 + 2, db, Then4(out, i, script, r, v), r, v)
      BY <1>2, <2>1, <2>2, <3>1 DEF Then4
    <3>3. i + 2 + 2 = i + 4
      OBVIOUS
    <3>. QED
      BY <3>2, <3>3
  <2>. DEFINE six == Then4(two, 3, script, r, v)
              ten == Then4(six, 7, script, r, v)
  <2>3. Through(script, 7, db, six, r, v)
    BY <1>3, <2>2
  <2>. HIDE DEF six
  <2>4. Through(script, 11, db, ten, r, v)
    BY <2>2, <2>3
  <2>. HIDE DEF ten
  <2>5. Through(script, 15, db, Then4(ten, 11, script, r, v), r, v)
    BY <2>2, <2>4
  <2>6. RunScript(script, db, r, v) = Then4(ten, 11, script, r, v)
    BY <1>5 DEF RunScript, ten, six, two
  <2>. QED
    BY <2>1, <2>5, <2>6
<1>. QED
  BY <1>4, <1>5

-----------------------------------------------------------------------------
(* The inductive invariant.                                                *)

LEMMA SetDbIs ==
  ASSUME NEW db \in DbType, SetDb(db)
  PROVE  Db' = db
BY DEF SetDb, Db, DbType

LEMMA RunningFacts ==
  ASSUME TypeOK, NEW d \in Deployers, session[d].state = "running"
  PROVE  /\ session[d] \in SessionType /\ Db \in DbType
         /\ session[d].pc \in 1..Length(session[d].script)
<1>1. session[d] # Idle
  BY DEF Idle
<1>. QED
  BY <1>1 DEF TypeOK

\* Nothing EQL owns is an index or a column.
LEMMA BuiltStays ==
  ASSUME NEW i, NEW v, NEW db, NEW new, NEW c \in Columns \union Indexes, Built(i, db, v),
         new.have = db.have \union {c}, new.ver = db.ver, new.crypto = db.crypto
  PROVE  Built(i, new, v)
BY DEF Built, Columns, Indexes, Poison

LEMMA InitInv == Init => IInv
<1>. SUFFICES ASSUME Init PROVE IInv
  OBVIOUS
<1>1. Db \in DbType
  BY ScriptsAssumption DEF Init, Db, DbType, Nobody
<1>2. \A d \in Deployers : session[d] = Idle /\ session[d].state = "idle"
  BY DEF Init, Idle
<1>3. TypeOK
  BY <1>1, <1>2, ScriptsAssumption DEF Init, TypeOK
<1>4. Sound(Db)
  BY DEF Init, Db, Sound
<1>. QED
  BY <1>2, <1>3, <1>4
     DEF Init, IInv, Transactional, UninstallsSweep, PoisonKept, InstallsBuild,
         OreIndexUsesItsClass, DisabledStaysDisabled

LEMMA BeginInv ==
  ASSUME IInv, NEW d \in Deployers, Begin(d)
  PROVE  IInv'
<1>1. PICK r \in Roles, m \in Modes, script \in {"install", "uninstall"} :
        /\ session' = [session EXCEPT ![d] =
             [state |-> "running", script |-> script, role |-> r, mode |-> m,
              version |-> IF Upgrades THEN ran + 1 ELSE 1, pc |-> 1, ok |-> TRUE]]
        /\ piecemeal' = (piecemeal \/ m # "txn")
        /\ disabled' = (disabled /\ script = "install")
  BY DEF Begin
<1>2. PICK t : t = [state |-> "running", script |-> script, role |-> r, mode |-> m,
                    version |-> IF Upgrades THEN ran + 1 ELSE 1, pc |-> 1, ok |-> TRUE]
  OBVIOUS
<1>3. /\ t \in SessionType /\ t.state = "running" /\ t.mode = m /\ t.pc = 1 /\ t.ok
      /\ 1 \in 1..Length(t.script)
  BY <1>2 DEF IInv, TypeOK, SessionType, InstallLength, UninstallLength, Length
<1>4. /\ session' = [session EXCEPT ![d] = t] /\ session \in [Deployers -> {Idle} \union SessionType]
      /\ \A e \in Deployers \ {d} : session'[e] = session[e]
      /\ session'[d] = t
  BY <1>1, <1>2 DEF IInv, TypeOK
<1>5. Db' = Db /\ have' = have /\ lateOre' = lateOre
  BY DEF Begin, Db
<1>6. TypeOK'
  <2>1. session' \in [Deployers -> {Idle} \union SessionType]
    BY <1>3, <1>4
  <2>2. \A e \in Deployers : session'[e].state = "running" =>
          session'[e].pc \in 1..Length(session'[e].script)
    BY <1>3, <1>4 DEF IInv, TypeOK
  <2>3. disabled' \in BOOLEAN /\ piecemeal' \in BOOLEAN
    BY <1>1
  <2>4. rows' \in BOOLEAN /\ lateOre' \in BOOLEAN /\ super' \subseteq Roles /\ ran' \in Nat
    BY DEF IInv, TypeOK, Begin
  <2>. QED
    BY <1>5, <2>1, <2>2, <2>3, <2>4 DEF IInv, TypeOK
<1>7. Transactional'
  BY <1>1, <1>3, <1>4 DEF IInv, Transactional
<1>8. UninstallsSweep'
  <2>1. Swept(t)'
    BY <1>3 DEF Swept
  <2>. QED
    BY <1>3, <1>4, <2>1 DEF UninstallsSweep, Swept
<1>9. InstallsBuild'
  <2>1. Built(1, Db', t.version)
    BY DEF Built
  <2>2. OneDeployer => \A e \in Deployers : e = d
    BY DEF OneDeployer
  <2>. QED
    BY <1>3, <1>4, <2>1, <2>2 DEF InstallsBuild, OneDeployer
<1>. QED
  BY <1>1, <1>5, <1>6, <1>7, <1>8, <1>9
     DEF IInv, Sound, PoisonKept, OreIndexUsesItsClass, DisabledStaysDisabled

LEMMA ExecuteInv ==
  ASSUME IInv, NEW d \in Deployers, Execute(d)
  PROVE  IInv'
<1>1. PICK s : s = session[d]
  OBVIOUS
<1>2. PICK out : out = Statement(s.script, s.pc, Db, s.role, s.version)
  OBVIOUS
<1>. DEFINE ok == s.ok /\ out.ok
            last == s.pc = Length(s.script) \/ (~ok /\ s.mode = "stop")
<1>3. PICK t : t = [s EXCEPT !.ok = ok,
                             !.pc = IF last THEN @ ELSE @ + 1,
                             !.state = IF last THEN "ended" ELSE @]
  OBVIOUS
<1>4. /\ s.state = "running" /\ s.mode # "txn" /\ SetDb(out.db)
      /\ session' = [session EXCEPT ![d] = t]
      /\ IF last THEN Settle(s.script, ok, out.db) ELSE UNCHANGED disabled
      /\ UNCHANGED <<super, ran, rows, lateOre, piecemeal>>
  BY <1>1, <1>2, <1>3, Zenon DEF Execute
<1>5. /\ s \in SessionType /\ Db \in DbType /\ Sound(Db) /\ s.pc \in 1..Length(s.script)
      /\ s.role \in Roles /\ s.version \in Nat /\ s.script \in {"install", "uninstall"}
  BY <1>1, <1>4, RunningFacts DEF IInv, SessionType
<1>6. /\ Behaves(Db, out, s.role)
      /\ s.script = "install" => Proceeds(s.pc, Db, out, s.role, s.version)
      /\ s.script = "uninstall" =>
           /\ out.db.have \subseteq Db.have
           /\ out.ok => (IF s.pc = 1 THEN "eql_v3" ELSE "internal") \notin out.db.have
  <2>1. CASE s.script = "install"
    <3>1. out = InstallStatement(s.pc, Db, s.role, s.version) /\ s.pc \in 1..InstallLength
      BY <1>2, <1>5, <2>1 DEF Statement, Length
    <3>. QED
      BY <1>5, <2>1, <3>1, InstallProceeds DEF Proceeds
  <2>2. CASE s.script = "uninstall"
    <3>1. out = UninstallStatement(s.pc, Db, s.role, s.version) /\ s.pc \in 1..UninstallLength
      BY <1>2, <1>5, <2>2 DEF Statement, Length
    <3>. QED
      BY <1>5, <2>2, <3>1, UninstallProceeds
  <2>. QED
    BY <1>5, <2>1, <2>2
<1>7. /\ Db' = out.db /\ out.db \in DbType /\ Sound(out.db) /\ out.ok \in BOOLEAN
      /\ have' = out.db.have /\ Db.have = have
  BY <1>4, <1>6, SetDbIs DEF Behaves, SetDb, Db
<1>8. /\ t \in SessionType /\ t.script = s.script /\ t.version = s.version /\ t.ok = ok
      /\ t.state \in {"running", "ended"}
      /\ t.state = "running" => t.pc = s.pc + 1 /\ t.pc \in 1..Length(s.script)
      /\ t.state = "ended" => last
  <2>1. ok \in BOOLEAN
    BY <1>5, <1>7 DEF SessionType
  <2>2. ~last => s.pc + 1 \in 1..Length(s.script) /\ s.pc + 1 \in 1..InstallLength
    BY <1>5 DEF Length, InstallLength, UninstallLength
  <2>. HIDE DEF ok, last
  <2>. QED
    BY <1>3, <1>4, <1>5, <2>1, <2>2 DEF SessionType
<1>9. /\ session' \in [Deployers -> {Idle} \union SessionType] /\ session'[d] = t
      /\ \A e \in Deployers \ {d} : session'[e] = session[e]
  BY <1>4, <1>8 DEF IInv, TypeOK
<1>10. t.ok /\ t.state = "ended" => s.pc = Length(s.script)
  BY <1>8
<1>11. disabled' \in BOOLEAN
  BY <1>4, Zenon DEF Settle, IInv, TypeOK
<1>. HIDE DEF ok, last
<1>12. TypeOK'
  BY <1>4, <1>7, <1>8, <1>9, <1>11 DEF IInv, TypeOK
<1>13. piecemeal /\ piecemeal'
  BY <1>1, <1>4 DEF IInv, Transactional
<1>14. UninstallsSweep'
  <2>. SUFFICES ASSUME \A e \in Deployers : session'[e].state # "idle" =>
                         session'[e].script = "uninstall"
                PROVE  \E e \in Deployers : session'[e].state # "idle" /\ Swept(session[e])'
    BY <1>8, <1>9 DEF UninstallsSweep
  <2>1. /\ s.script = "uninstall"
        /\ \A e \in Deployers : session[e].state # "idle" => session[e].script = "uninstall"
    BY <1>1, <1>8, <1>9
  <2>2. PICK e \in Deployers : session[e].state # "idle" /\ Swept(session[e])
    BY <1>1, <1>4, <2>1 DEF IInv, UninstallsSweep
  <2>3. have' \subseteq have
    BY <1>6, <1>7, <2>1
  <2>4. CASE e # d
    <3>1. session'[e] = session[e]
      BY <1>9, <2>4
    <3>. QED
      BY <2>2, <2>3, <3>1 DEF Swept
  <2>5. CASE e = d
    <3>1. s.ok => (s.pc > 1 => "eql_v3" \notin have)
      BY <1>1, <2>2, <2>5 DEF Swept
    <3>2. t.ok => s.ok /\ out.ok
      BY <1>8 DEF ok
    <3>3. t.ok => "eql_v3" \notin have'
      BY <1>5, <1>6, <1>7, <2>1, <2>3, <3>1, <3>2 DEF Length, UninstallLength
    <3>4. t.ok /\ t.state = "ended" => "internal" \notin have'
      BY <1>6, <1>7, <1>10, <2>1, <3>2 DEF Length, UninstallLength
    <3>5. Swept(session[d])'
      BY <1>9, <3>3, <3>4 DEF Swept
    <3>. QED
      BY <1>8, <1>9, <3>5
  <2>. QED
    BY <2>4, <2>5
<1>15. InstallsBuild'
  <2>. SUFFICES ASSUME OneDeployer, t.script = "install", t.ok
                PROVE  Built(IF t.state = "ended" THEN InstallLength + 1 ELSE t.pc,
                             Db', t.version)
    BY <1>9 DEF InstallsBuild, OneDeployer
  <2>1. s.ok /\ out.ok
    BY <1>8 DEF ok
  <2>2. Built(s.pc, Db, s.version)
    BY <1>1, <1>4, <1>8, <2>1 DEF IInv, InstallsBuild
  <2>3. Built(s.pc + 1, Db', t.version)
    BY <1>6, <1>7, <1>8, <2>1, <2>2 DEF Proceeds
  <2>4. (IF t.state = "ended" THEN InstallLength + 1 ELSE t.pc) = s.pc + 1
    BY <1>8, <1>10 DEF Length
  <2>. QED
    BY <2>3, <2>4
<1>. QED
  BY <1>7, <1>12, <1>13, <1>14, <1>15
     DEF IInv, Transactional, PoisonKept, OreIndexUsesItsClass, DisabledStaysDisabled

LEMMA ExecuteTxnInv ==
  ASSUME IInv, NEW d \in Deployers, ExecuteTxn(d)
  PROVE  IInv'
<1>1. PICK s : s = session[d]
  OBVIOUS
<1>2. PICK out : out = RunScript(s.script, Db, s.role, s.version)
  OBVIOUS
<1>3. PICK t : t = [s EXCEPT !.ok = out.ok, !.state = "ended"]
  OBVIOUS
<1>4. /\ s.state = "running" /\ SetDb(IF out.ok THEN out.db ELSE Db)
      /\ session' = [session EXCEPT ![d] = t] /\ Settle(s.script, out.ok, out.db)
      /\ UNCHANGED <<super, ran, rows, lateOre, piecemeal>>
  BY <1>1, <1>2, <1>3, Zenon DEF ExecuteTxn
<1>5. /\ s \in SessionType /\ Db \in DbType /\ Sound(Db) /\ Db.have = have
      /\ s.role \in Roles /\ s.version \in Nat /\ s.script \in {"install", "uninstall"}
  BY <1>1, <1>4, RunningFacts DEF IInv, SessionType, Db
<1>6. Through(s.script, Length(s.script) + 1, Db, out, s.role, s.version)
  BY <1>2, <1>5, RunScriptThrough
<1>7. /\ out.ok \in BOOLEAN /\ Db' \in DbType /\ Sound(Db') /\ have' = Db'.have
      /\ out.ok => Db' = out.db
      /\ ~out.ok => Db' = Db
  BY <1>4, <1>5, <1>6, SetDbIs DEF Through, Db
<1>8. /\ t \in SessionType /\ t.script = s.script /\ t.version = s.version /\ t.ok = out.ok
      /\ t.state = "ended"
  BY <1>3, <1>5, <1>7 DEF SessionType
<1>9. /\ session' \in [Deployers -> {Idle} \union SessionType] /\ session'[d] = t
      /\ \A e \in Deployers \ {d} : session'[e] = session[e]
  BY <1>4, <1>8 DEF IInv, TypeOK
<1>10. /\ s.script = "install" /\ out.ok =>
            Built(InstallLength + 1, Db', s.version) /\ "ix_record" \notin have'
       /\ s.script = "uninstall" => have' \subseteq have
       /\ s.script = "uninstall" /\ out.ok => OwnedSchemas \cap have' = {}
  BY <1>5, <1>6, <1>7
     DEF Through, Length, InstallLength, UninstallLength, OwnedSchemas
<1>11. disabled' \in BOOLEAN
  BY <1>4, Zenon DEF Settle, IInv, TypeOK
<1>12. TypeOK'
  BY <1>4, <1>7, <1>8, <1>9, <1>11 DEF IInv, TypeOK
<1>13. Transactional'
  BY <1>4, <1>8, <1>9 DEF IInv, Transactional
<1>14. UninstallsSweep'
  <2>1. t.script = "uninstall" => Swept(t)'
    BY <1>8, <1>10 DEF Swept, OwnedSchemas
  <2>. QED
    BY <1>8, <1>9, <2>1 DEF UninstallsSweep
<1>15. PoisonKept'
  <2>1. CASE ~out.ok
    BY <1>4, <1>5, <1>7, <2>1 DEF IInv, PoisonKept, Settle
  <2>2. CASE out.ok
    <3>1. disabled' => s.script = "install" /\ "ore_opclass" \notin have'
      BY <1>4, <1>7, <2>2 DEF Settle
    <3>2. s.script = "install" /\ "ore_opclass" \notin have' => "poison_ore" \in have'
      BY <1>7, <1>10, <2>2 DEF Built, InstallLength, Poison
    <3>. QED
      BY <3>1, <3>2 DEF PoisonKept
  <2>. QED
    BY <1>7, <2>1, <2>2
<1>16. InstallsBuild'
  BY <1>8, <1>9, <1>10 DEF InstallsBuild, OneDeployer
<1>17. OreIndexUsesItsClass'
  BY <1>4, <1>5, <1>7, <1>10 DEF IInv, OreIndexUsesItsClass
<1>. QED
  BY <1>4, <1>7, <1>12, <1>13, <1>14, <1>15, <1>16, <1>17 DEF IInv, DisabledStaysDisabled

LEMMA DisconnectInv ==
  ASSUME IInv, NEW d \in Deployers, Disconnect(d)
  PROVE  IInv'
<1>1. PICK t : t = [session[d] EXCEPT !.ok = FALSE, !.state = "lost"]
  OBVIOUS
<1>2. /\ session[d].state = "running" /\ session' = [session EXCEPT ![d] = t]
      /\ UNCHANGED <<have, owner, ver, crypto, super, ran, rows, disabled, lateOre, piecemeal>>
      /\ session[d] \in SessionType
  BY <1>1, RunningFacts DEF Disconnect, IInv
<1>3. t \in SessionType /\ t.state = "lost" /\ ~t.ok /\ t.script = session[d].script
  BY <1>1, <1>2 DEF SessionType
<1>4. /\ session' \in [Deployers -> {Idle} \union SessionType] /\ session'[d] = t
      /\ \A e \in Deployers \ {d} : session'[e] = session[e]
  BY <1>2, <1>3 DEF IInv, TypeOK
<1>5. Db' = Db
  BY <1>2 DEF Db
<1>6. TypeOK'
  BY <1>2, <1>3, <1>4, <1>5 DEF IInv, TypeOK
<1>7. Transactional'
  BY <1>2, <1>3, <1>4 DEF IInv, Transactional
<1>8. UninstallsSweep'
  <2>1. Swept(t)'
    BY <1>3 DEF Swept
  <2>. QED
    BY <1>3, <1>4, <2>1 DEF UninstallsSweep
<1>9. InstallsBuild'
  BY <1>3, <1>4, <1>5 DEF IInv, InstallsBuild, OneDeployer
<1>. QED
  BY <1>2, <1>5, <1>6, <1>7, <1>8, <1>9
     DEF IInv, Sound, PoisonKept, OreIndexUsesItsClass, DisabledStaysDisabled

LEMMA DemoteInv ==
  ASSUME IInv, NEW r \in Roles, Demote(r)
  PROVE  IInv'
<1>1. Db' = Db
  BY DEF Demote, Db
<1>2. TypeOK'
  BY <1>1 DEF Demote, IInv, TypeOK
<1>. QED
  BY <1>1, <1>2
     DEF Demote, IInv, Sound, Transactional, UninstallsSweep, Swept, PoisonKept, InstallsBuild,
         OreIndexUsesItsClass, DisabledStaysDisabled

\* The application's columns and indexes stand on what is there.
LEMMA AddInv ==
  ASSUME IInv, NEW c \in Columns \union Indexes,
         \/ c \in Columns /\ AddColumn(c)
         \/ c \in Indexes /\ AddIndex(c)
  PROVE  IInv'
<1>1. /\ Needs(c) \subseteq have /\ have' = have \union {c}
      /\ c = "ix_record" => "ore_opclass" \notin have
      /\ UNCHANGED <<owner, ver, crypto, super, session, ran, rows, disabled, lateOre, piecemeal>>
  BY DEF AddColumn, AddIndex, Columns
<1>2. c \in Objects /\ c \notin OwnedSchemas \union {"dom_json", "ore_opclass"}
  BY AllObjects DEF Columns, Indexes, OwnedSchemas
<1>3. /\ Db' \in DbType /\ Db'.have = Db.have \union {c}
      /\ Db'.ver = Db.ver /\ Db'.crypto = Db.crypto /\ Db.have = have
  BY <1>1, <1>2 DEF IInv, TypeOK, Db, DbType
<1>4. TypeOK'
  BY <1>1, <1>3 DEF IInv, TypeOK
<1>5. Sound(Db')
  BY <1>1, <1>2, <1>3 DEF IInv, Sound
<1>6. UninstallsSweep'
  BY <1>1, <1>2 DEF IInv, UninstallsSweep, Swept, OwnedSchemas
<1>7. InstallsBuild'
  BY <1>1, <1>3, BuiltStays DEF IInv, InstallsBuild
<1>8. OreIndexUsesItsClass'
  BY <1>1, <1>2 DEF IInv, OreIndexUsesItsClass
<1>. QED
  BY <1>1, <1>4, <1>5, <1>6, <1>7, <1>8
     DEF IInv, Transactional, PoisonKept, DisabledStaysDisabled

LEMMA InsertOreInv ==
  ASSUME IInv, InsertOre
  PROVE  IInv'
<1>1. Db' = Db
  BY DEF InsertOre, Db
<1>2. TypeOK'
  BY <1>1 DEF InsertOre, IInv, TypeOK
<1>. QED
  BY <1>1, <1>2
     DEF InsertOre, IInv, Sound, Transactional, UninstallsSweep, Swept, PoisonKept, InstallsBuild,
         OreIndexUsesItsClass, DisabledStaysDisabled

LEMMA StutterInv ==
  ASSUME IInv, UNCHANGED vars
  PROVE  IInv'
<1>1. Db' = Db
  BY DEF vars, Db
<1>. QED
  BY <1>1
     DEF vars, IInv, TypeOK, Sound, Transactional, UninstallsSweep, Swept, PoisonKept,
         InstallsBuild, OreIndexUsesItsClass, DisabledStaysDisabled

\* Every step of every session, role and application preserves the invariant.
THEOREM Invariance == Spec => []IInv
<1>1. IInv /\ [Next]_vars => IInv'
  <2>. SUFFICES ASSUME IInv, [Next]_vars PROVE IInv'
    OBVIOUS
  <2>1. ASSUME NEW d \in Deployers, Begin(d) \/ Execute(d) \/ ExecuteTxn(d) \/ Disconnect(d)
        PROVE  IInv'
    BY <2>1, BeginInv, ExecuteInv, ExecuteTxnInv, DisconnectInv
  <2>2. ASSUME NEW r \in Roles, Demote(r) PROVE IInv'
    BY <2>2, DemoteInv
  <2>3. ASSUME NEW c \in Columns, AddColumn(c) PROVE IInv'
    <3>1. c \in Columns \union Indexes
      OBVIOUS
    <3>. QED
      BY <2>3, <3>1, AddInv, Zenon
  <2>4. ASSUME NEW i \in Indexes, AddIndex(i) PROVE IInv'
    <3>1. i \in Columns \union Indexes
      OBVIOUS
    <3>. QED
      BY <2>4, <3>1, AddInv, Zenon
  <2>. QED
    BY <2>1, <2>2, <2>3, <2>4, InsertOreInv, StutterInv DEF Next
<1>. QED
  BY InitInv, <1>1, PTL DEF Spec

-----------------------------------------------------------------------------
(* What follows.                                                           *)

\* A searchable-document domain always has the CHECK that validates its rows, although
\* every install replaces the functions that CHECK calls (json_check, validators).
THEOREM DocumentsStayCheckedHolds == Spec => []DocumentsStayChecked
<1>1. IInv => DocumentsStayChecked
  BY DEF IInv, Sound, Db, DocumentsStayChecked
<1>. QED
  BY <1>1, Invariance, PTL

\* As long as every script runs in one transaction no ORE index is left on the generic
\* record comparison while the operator class is there.
THEOREM OreIndexUsesItsClassHolds == Spec => []OreIndexUsesItsClass
<1>1. IInv => OreIndexUsesItsClass
  BY DEF IInv
<1>. QED
  BY <1>1, Invariance, PTL

\* As long as every script runs in one transaction, a domain that ore_fallback.sql has
\* disabled accepts no value.
THEOREM DisabledStaysDisabledHolds == Spec => []DisabledStaysDisabled
<1>1. IInv => DisabledStaysDisabled
  BY DEF IInv
<1>. QED
  BY <1>1, Invariance, PTL

\* Uninstalls that reported no error have left the public domains and their columns,
\* without poison and without an index that needs more.
THEOREM UninstalledIsGoneHolds == Spec => []UninstalledIsGone
<1>1. ASSUME IInv, AllReported("uninstall")
      PROVE  have \subseteq InPublic \union (Columns \ {"col_query"})
  <2>1. PICK d \in Deployers : session[d].state # "idle" /\ Swept(session[d])
    BY <1>1 DEF IInv, AllReported, UninstallsSweep
  <2>2. "eql_v3" \notin have /\ "internal" \notin have
    BY <1>1, <2>1 DEF AllReported, Swept
  <2>3. have \subseteq Objects /\ \A o \in have : Needs(o) \subseteq have
    BY <1>1 DEF IInv, TypeOK, DbType, Sound, Db
  <2>4. {"query_ore", "query_json", "ord_term_ore", "ord_term", "version", "ore_block_256",
         "ore_opclass", "ore_domain_unavailable"} \cap have = {}
    BY <2>2, <2>3, NeedsTable
  <2>5. {"poison_ore", "poison_query", "col_query", "ix_ope", "ix_ore", "ix_record"} \cap have = {}
    BY <2>3, <2>4, NeedsTable
  <2>. QED
    BY <2>2, <2>3, <2>4, <2>5, AllObjects DEF InPublic, Domains, Columns
<1>2. IInv => UninstalledIsGone
  BY <1>1 DEF UninstalledIsGone
<1>. QED
  BY <1>2, Invariance, PTL

\* An install that one deployer was told is good is whole, all of it but the public
\* domains and their CHECKs of its own release, and ORE is either served or refused.
THEOREM InstalledIsWholeHolds == OneDeployer => (Spec => []InstalledIsWhole)
<1>. SUFFICES ASSUME OneDeployer PROVE Spec => []InstalledIsWhole
  OBVIOUS
<1>1. ASSUME IInv, AllReported("install")
      PROVE  /\ OwnedSchemas \union InPublic \union InEql \union {"ore_block_256"} \subseteq have
             /\ \A o \in have \ (Domains \union {"json_check"} \union Columns \union Indexes) :
                  \E d \in Deployers : session[d].state # "idle" /\ ver[o] = session[d].version
             /\ crypto \in {"extensions", "public"}
             /\ IF "ore_opclass" \in have THEN Poison \cap have = {} ELSE Poison \subseteq have
  <2>1. PICK d \in Deployers : session[d].state # "idle"
    BY <1>1 DEF AllReported
  <2>2. session[d].state = "ended" /\ session[d].script = "install" /\ session[d].ok
    BY <1>1, <2>1 DEF AllReported
  <2>3. PICK v : v = session[d].version
    OBVIOUS
  <2>4. Built(15, Db, v)
    BY <1>1, <2>2, <2>3 DEF IInv, InstallsBuild, InstallLength
  <2>5. /\ {"eql_v3", "internal", "validators", "dom_json", "dom_entry", "dom_ore", "dom_ope",
            "query_ore", "query_json", "ore_block_256", "ord_term", "ord_term_ore",
            "version"} \subseteq have
        /\ \A o \in {"eql_v3", "internal", "validators", "query_ore", "query_json",
                     "ore_block_256", "ord_term", "ord_term_ore", "version"} : ver[o] = v
        /\ crypto \in {"extensions", "public"}
        /\ "ore_opclass" \in have =>
             ver["ore_opclass"] = v
             /\ {"ore_domain_unavailable", "poison_ore", "poison_query"} \cap have = {}
        /\ "ore_opclass" \notin have =>
             \A o \in {"ore_domain_unavailable", "poison_ore", "poison_query"} :
               o \in have /\ ver[o] = v
    BY <2>4 DEF Built, Db, Poison
  <2>6. "json_check" \in have /\ have \subseteq Objects
    BY <1>1, <2>5 DEF IInv, Sound, TypeOK, DbType, Db
  <2>7. ASSUME NEW o \in have \ (Domains \union {"json_check"} \union Columns \union Indexes)
        PROVE  ver[o] = v
    BY <2>5, <2>6, <2>7, AllObjects DEF Domains, Columns, Indexes
  <2>. QED
    BY <2>1, <2>3, <2>5, <2>6, <2>7 DEF OwnedSchemas, InPublic, Domains, InEql, Poison
<1>2. IInv => InstalledIsWhole
  BY <1>1 DEF InstalledIsWhole
<1>. QED
  BY <1>2, Invariance, PTL

\* What each step of a script leaves of what is kept.
LEMMA StepKeeps ==
  ASSUME IInv, NEW d \in Deployers, Execute(d) \/ ExecuteTxn(d)
  PROVE  Kept \cap have \subseteq have'
<1>1. PICK s : s = session[d]
  OBVIOUS
<1>2. /\ Db \in DbType /\ Sound(Db) /\ s.pc \in 1..Length(s.script) /\ Db.have = have
      /\ s.role \in Roles /\ s.version \in Nat /\ s.script \in {"install", "uninstall"}
  BY <1>1, RunningFacts DEF Execute, ExecuteTxn, IInv, SessionType, Db
<1>3. CASE Execute(d)
  <2>1. PICK out : out = Statement(s.script, s.pc, Db, s.role, s.version)
    OBVIOUS
  <2>2. have' = out.db.have
    BY <1>1, <1>3, <2>1 DEF Execute, SetDb
  <2>3. Behaves(Db, out, s.role)
    BY <1>2, <2>1, InstallProceeds, UninstallProceeds DEF Statement, Length, Proceeds
  <2>. QED
    BY <1>2, <2>2, <2>3 DEF Behaves
<1>4. CASE ExecuteTxn(d)
  <2>1. PICK out : out = RunScript(s.script, Db, s.role, s.version)
    OBVIOUS
  <2>2. have' = IF out.ok THEN out.db.have ELSE have
    BY <1>1, <1>2, <1>4, <2>1 DEF ExecuteTxn, SetDb
  <2>3. Through(s.script, Length(s.script) + 1, Db, out, s.role, s.version)
    BY <1>2, <2>1, RunScriptThrough
  <2>. QED
    BY <1>2, <2>2, <2>3 DEF Through
<1>. QED
  BY <1>3, <1>4

\* No step of an install, re-install, upgrade, uninstall, failure or disconnection takes
\* a column typed with a public domain: DROP SCHEMA ... CASCADE never reaches it.
THEOREM DataSurvivesHolds == Spec => DataSurvives
<1>1. ASSUME IInv, [Next]_vars PROVE have \cap (Columns \ {"col_query"}) \subseteq have'
  <2>1. CASE \E d \in Deployers : Execute(d) \/ ExecuteTxn(d)
    BY <1>1, <2>1, StepKeeps DEF Kept
  <2>2. CASE ~\E d \in Deployers : Execute(d) \/ ExecuteTxn(d)
    <3>1. CASE \/ \E d \in Deployers : Begin(d) \/ Disconnect(d)
               \/ \E r \in Roles : Demote(r)
               \/ InsertOre \/ UNCHANGED vars
      <4>1. ASSUME NEW d \in Deployers, Begin(d) PROVE have' = have
        BY <4>1 DEF Begin
      <4>2. ASSUME NEW d \in Deployers, Disconnect(d) PROVE have' = have
        BY <4>2 DEF Disconnect
      <4>. QED
        BY <3>1, <4>1, <4>2 DEF vars, Demote, InsertOre
    <3>2. CASE \/ \E c \in Columns : AddColumn(c)
               \/ \E i \in Indexes : AddIndex(i)
      BY <3>2 DEF AddColumn, AddIndex
    <3>. QED
      BY <1>1, <2>2, <3>1, <3>2, Zenon DEF Next
  <2>. QED
    BY <2>1, <2>2
<1>2. IInv /\ [Next]_vars => [have \cap (Columns \ {"col_query"}) \subseteq have']_vars
  BY <1>1
<1>. QED
  BY <1>2, Invariance, PTL DEF Spec, DataSurvives

\* The first error of a single deployer's script is a missing privilege or a pgcrypto in
\* the wrong schema, whatever earlier scripts, failures and disconnections left behind.
THEOREM RerunRepairsHolds == OneDeployer => (Spec => RerunRepairs)
<1>. SUFFICES ASSUME OneDeployer PROVE Spec => RerunRepairs
  OBVIOUS
<1>1. ASSUME IInv, [Next]_vars, NEW d \in Deployers, session[d].state = "running",
             session[d].ok, session'[d].state # "lost", ~session'[d].ok
      PROVE  Excuse(Db, session[d].role)
  <2>1. PICK s : s = session[d]
    OBVIOUS
  <2>2. /\ Db \in DbType /\ Sound(Db) /\ s.pc \in 1..Length(s.script) /\ s \in SessionType
        /\ s.role \in Roles /\ s.version \in Nat /\ s.script \in {"install", "uninstall"}
    BY <1>1, <2>1, RunningFacts DEF IInv, SessionType
  <2>3. session \in [Deployers -> {Idle} \union SessionType] /\ \A e \in Deployers : e = d
    BY <1>1 DEF IInv, TypeOK, OneDeployer
  <2>4. Execute(d) \/ ExecuteTxn(d)
    <3>1. ~Begin(d)
      BY <1>1 DEF Begin
    <3>2. ~Disconnect(d)
      <4>1. PICK t : t = [s EXCEPT !.ok = FALSE, !.state = "lost"]
        OBVIOUS
      <4>2. Disconnect(d) => session' = [session EXCEPT ![d] = t]
        BY <2>1, <4>1 DEF Disconnect
      <4>3. t.state = "lost"
        BY <2>2, <4>1 DEF SessionType
      <4>. QED
        BY <1>1, <2>3, <4>2, <4>3
    <3>3. session' # session
      BY <1>1
    <3>. QED
      BY <1>1, <2>3, <3>1, <3>2, <3>3 DEF Next, vars, Demote, AddColumn, AddIndex, InsertOre
  <2>5. CASE Execute(d)
    <3>1. PICK out : out = Statement(s.script, s.pc, Db, s.role, s.version)
      OBVIOUS
    <3>2. ~out.ok
      <4>. DEFINE ok == s.ok /\ out.ok
                  last == s.pc = Length(s.script) \/ (~ok /\ s.mode = "stop")
      <4>1. PICK t : t = [s EXCEPT !.ok = ok,
                                   !.pc = IF last THEN @ ELSE @ + 1,
                                   !.state = IF last THEN "ended" ELSE @]
        OBVIOUS
      <4>2. session' = [session EXCEPT ![d] = t]
        BY <2>1, <2>5, <3>1, <4>1, Zenon DEF Execute
      <4>. HIDE DEF ok, last
      <4>3. t.ok = ok /\ session'[d] = t
        BY <2>2, <2>3, <4>1, <4>2 DEF SessionType
      <4>4. ~ok
        BY <1>1, <4>3
      <4>. QED
        BY <1>1, <2>1, <4>4 DEF ok
    <3>3. CASE s.script = "install"
      <4>1. out = InstallStatement(s.pc, Db, s.role, s.version) /\ s.pc \in 1..InstallLength
        BY <2>2, <3>1, <3>3 DEF Statement, Length
      <4>2. Built(s.pc, Db, s.version)
        BY <1>1, <2>1, <3>3 DEF IInv, InstallsBuild
      <4>3. Proceeds(s.pc, Db, out, s.role, s.version)
        BY <2>2, <4>1, InstallProceeds
      <4>. QED
        BY <2>1, <3>2, <4>2, <4>3 DEF Proceeds
    <3>4. CASE s.script = "uninstall"
      <4>1. out = UninstallStatement(s.pc, Db, s.role, s.version) /\ s.pc \in 1..UninstallLength
        BY <2>2, <3>1, <3>4 DEF Statement, Length
      <4>. QED
        BY <2>1, <2>2, <3>2, <4>1, UninstallProceeds
    <3>. QED
      BY <2>2, <3>3, <3>4
  <2>6. CASE ExecuteTxn(d)
    <3>1. PICK out : out = RunScript(s.script, Db, s.role, s.version)
      OBVIOUS
    <3>2. ~out.ok
      BY <1>1, <2>1, <2>2, <2>3, <2>6, <3>1 DEF ExecuteTxn
    <3>3. Through(s.script, Length(s.script) + 1, Db, out, s.role, s.version)
      BY <2>2, <3>1, RunScriptThrough
    <3>. QED
      BY <2>1, <3>2, <3>3 DEF Through
  <2>. QED
    BY <2>4, <2>5, <2>6
<1>2. IInv /\ [Next]_vars =>
        [\A d \in Deployers :
           LET s == session[d] IN
           s.state = "running" /\ s.ok /\ session'[d].state # "lost" /\ ~session'[d].ok =>
             \/ crypto = "other"
             \/ s.role \notin super /\ \E o \in have \ (Columns \union Indexes) : owner[o] # s.role
        ]_vars
  BY <1>1 DEF Excuse, Db
<1>. QED
  BY <1>2, Invariance, PTL DEF Spec, RerunRepairs
=============================================================================
