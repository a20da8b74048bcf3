----------------------------- MODULE EqlInstall -----------------------------
(***************************************************************************)
(* The life of EQL in one database: the install script (schema.sql first,  *)
(* the pin script last), the uninstaller, re-installs and upgrades by      *)
(* roles that may or may not be superuser, and the application that owns   *)
(* columns, rows and indexes meanwhile.  The catalog is a set of objects   *)
(* that need each other; DROP SCHEMA ... CASCADE follows those needs.      *)
(* One object stands for each kind the scripts treat alike.                *)
(***************************************************************************)
EXTENDS Naturals, Sequences, FiniteSets

CONSTANTS Deployers,     \* sessions that run the scripts
          Roles,         \* database roles
          Modes,         \* how a script is fed: "psql", "stop" or "txn"
          InitialSuper,  \* the roles that are superuser at first
          Pgcrypto,      \* where pgcrypto may be found at first
          Upgrades,      \* every script is of a later release than the one before
          MaxScripts     \* bound on script executions

ASSUME ScriptsAssumption ==
  /\ Modes \subseteq {"psql", "stop", "txn"} /\ Roles # {} /\ InitialSuper \subseteq Roles
  /\ Pgcrypto \subseteq {"none", "extensions", "public", "other"}
  /\ Upgrades \in BOOLEAN /\ MaxScripts \in Nat

VARIABLES have,      \* the objects in the catalog
          owner,     \* the role that created each
          ver,       \* the release whose text each has
          crypto,    \* the schema pgcrypto is in, or "none"
          super,     \* the roles that are superuser now
          session,   \* what each deployer is doing
          ran,       \* script executions so far
          rows,      \* an ORE value is stored
          disabled,  \* history: the last completed install disabled ORE
          lateOre,   \* history: an ORE value was accepted while disabled
          piecemeal  \* history: a script was fed by psql, statement by statement

vars == <<have, owner, ver, crypto, super, session, ran, rows, disabled, lateOre,
          piecemeal>>

-----------------------------------------------------------------------------
\* The catalog.  Schema(o) is where an object lives.
OwnedSchemas == {"eql_v3", "internal"}
InEql == {"query_ore", "query_json", "ord_term_ore", "ord_term", "version"}
InInternal == {"ore_block_256", "ore_opclass", "ore_domain_unavailable"}
Domains == {"dom_ore", "dom_ope", "dom_json", "dom_entry"}
InPublic == Domains \union {"validators", "json_check"}
Columns == {"col_ore", "col_ope", "col_json", "col_query"}
Indexes == {"ix_ope", "ix_ore", "ix_record"}
Poison == {"poison_ore", "poison_query"}
Objects == OwnedSchemas \union InEql \union InInternal \union InPublic \union
           Columns \union Indexes \union Poison

\* A bug to catch: the validators live in the internal schema, with the rest.
HomeInternalValidators(o) ==
  IF o \in InEql THEN {"eql_v3"}
  ELSE IF o \in InInternal \union {"validators"} THEN {"internal"} ELSE {}

\* A bug to catch: column domains are created in eql_v3, as query domains are.
HomeEqlDomains(o) ==
  IF o \in InEql \union Domains THEN {"eql_v3"}
  ELSE IF o \in InInternal THEN {"internal"} ELSE {}

\* The owned schema an object lives in, if any: all that DROP SCHEMA looks at.
Home(o) ==
  IF o \in InEql THEN {"eql_v3"} ELSE IF o \in InInternal THEN {"internal"} ELSE {}

\* What pg_depend records of an object's definition.
Uses(o) ==
  CASE o = "ord_term" -> {"dom_ope"}
    [] o = "ord_term_ore" -> {"dom_ore", "ore_block_256"}
    [] o = "query_json" -> {"validators"}
    [] o = "ore_opclass" -> {"ore_block_256"}
    [] o = "json_check" -> {"dom_json", "validators"}
    [] o = "poison_ore" -> {"dom_ore", "ore_domain_unavailable"}
    [] o = "poison_query" -> {"query_ore", "ore_domain_unavailable"}
    [] o = "col_ore" -> {"dom_ore"} [] o = "col_ope" -> {"dom_ope"}
    [] o = "col_json" -> {"dom_json"} [] o = "col_query" -> {"query_ore"}
    [] o = "ix_ope" -> {"col_ope", "ord_term"}
    [] o = "ix_ore" -> {"col_ore", "ord_term_ore", "ore_opclass"}
    [] o = "ix_record" -> {"col_ore", "ord_term_ore"}
    [] OTHER -> {}

Needs(o) == Home(o) \union Uses(o)

\* Everything CASCADE takes with the objects of S: what needs them, and so on.  No
\* chain of needs is longer than four.
Takes(S, present) == S \union {x \in present : Needs(x) \cap S # {}}
Cascade(S, present) ==
  Takes(Takes(Takes(Takes(S, present), present), present), present)

-----------------------------------------------------------------------------
\* A database as one value, so that a transaction can be rolled back.
Db == [have |-> have, owner |-> owner, ver |-> ver, crypto |-> crypto]

\* Stands for the owner of what is not there.
Nobody == CHOOSE r \in Roles : TRUE

Failed(db) == [ok |-> FALSE, db |-> db]
Done(db) == [ok |-> TRUE, db |-> db]
MayAlter(db, o, r) == db.owner[o] = r \/ r \in super

Create(db, os, r, v) ==
  [db EXCEPT !.have = @ \union os,
             !.owner = [o \in Objects |-> IF o \in os \ db.have THEN r ELSE @[o]],
             !.ver = [o \in Objects |-> IF o \in os THEN v ELSE @[o]]]

\* DROP SCHEMA IF EXISTS s CASCADE
DropSchema(db, s, r) ==
  IF s \notin db.have THEN Done(db)
  ELSE IF ~MayAlter(db, s, r) THEN Failed(db)
  ELSE LET gone == Cascade({s}, db.have)
       IN  Done([db EXCEPT !.have = @ \ gone,
                           !.owner = [o \in Objects |-> IF o \in gone THEN Nobody ELSE @[o]],
                           !.ver = [o \in Objects |-> IF o \in gone THEN 0 ELSE @[o]]])

\* CREATE of something that must not be there, in a schema the role owns.
CreateNew(db, os, r, v) ==
  IF \/ os \cap db.have # {}
     \/ \E o \in os : ~(Needs(o) \subseteq db.have \union os)
     \/ \E o \in os : \E s \in Needs(o) \cap OwnedSchemas \cap db.have : ~MayAlter(db, s, r)
  THEN Failed(db) ELSE Done(Create(db, os, r, v))

\* A DO block of CREATE DOMAIN IF NOT EXISTS, each followed by COMMENT ON DOMAIN,
\* which only the owner may issue.  An existing domain keeps its CHECK.
EnsureDomains(db, ds, parts, r, v) ==
  LET new == ds \ db.have
      made == new \union {p \in parts : Needs(p) \cap new # {}}
  IN  IF \/ \E d \in ds \cap db.have : ~MayAlter(db, d, r)
         \/ \E o \in made : ~(Needs(o) \subseteq db.have \union made)
      THEN Failed(db) ELSE Done(Create(db, made, r, v))

\* CREATE OR REPLACE FUNCTION public.eql_v3_is_valid_ste_vec_*
ReplaceValidators(db, r, v) ==
  IF "validators" \in db.have /\ ~MayAlter(db, "validators", r) THEN Failed(db)
  ELSE Done(Create(db, {"validators"}, r, v))

\* crypto.sql: pgcrypto goes to extensions, and may also be in public.
RequirePgcrypto(db) ==
  IF db.crypto = "none" THEN Done([db EXCEPT !.crypto = "extensions"])
  ELSE IF db.crypto \in {"extensions", "public"} THEN Done(db) ELSE Failed(db)

\* operator_class.sql: insufficient_privilege is caught, other errors are not.
TryOpclass(db, r, v) ==
  IF r \in super THEN CreateNew(db, {"ore_opclass"}, r, v) ELSE Done(db)

\* A bug to catch: only the column domain is poisoned, not its query twin.
FallbackColumnOnly(db, r, v) ==
  IF "ore_block_256" \notin db.have THEN Failed(db)
  ELSE IF "ore_opclass" \in db.have THEN Done(db)
  ELSE CreateNew(db, {"ore_domain_unavailable", "poison_ore"}, r, v)

\* A bug to catch: a domain that columns already use is spared the poison.
FallbackSparesUsed(db, r, v) ==
  IF "ore_block_256" \notin db.have THEN Failed(db)
  ELSE IF "ore_opclass" \in db.have THEN Done(db)
  ELSE CreateNew(db, {"ore_domain_unavailable", "poison_query"} \union
                     (IF "col_ore" \in db.have THEN {} ELSE {"poison_ore"}), r, v)

\* A bug to catch: no NOT VALID, so the poison is run against the stored rows.
FallbackValidates(db, r, v) ==
  IF "ore_block_256" \notin db.have THEN Failed(db)
  ELSE IF "ore_opclass" \in db.have THEN Done(db)
  ELSE IF rows /\ "col_ore" \in db.have THEN Failed(db)
  ELSE CreateNew(db, {"ore_domain_unavailable"} \union Poison, r, v)

\* ore_fallback.sql: without the class, one DO block creates the raising function
\* and adds its CHECK, NOT VALID, to every ORE domain and its query twin.
Fallback(db, r, v) ==
  IF "ore_block_256" \notin db.have THEN Failed(db)
  ELSE IF "ore_opclass" \in db.have THEN Done(db)
  ELSE IF \E d \in {"dom_ore", "query_ore"} \cap db.have : ~MayAlter(db, d, r)
       THEN Failed(db)
  ELSE CreateNew(db, {"ore_domain_unavailable"} \union Poison, r, v)

\* A bug to catch: an upgrade in place, which drops nothing and fills the gaps.
InstallInPlace(i, db, r, v) ==
  CASE i = 5 -> RequirePgcrypto(db)
    [] i = 6 -> ReplaceValidators(db, r, v)
    [] i = 7 -> EnsureDomains(db, {"dom_json"}, {"json_check"}, r, v)
    [] i = 8 -> EnsureDomains(db, {"dom_entry"}, {}, r, v)
    [] i = 9 -> EnsureDomains(db, {"dom_ore", "dom_ope"}, {}, r, v)
    [] i = 12 -> CreateNew(db, (OwnedSchemas \union InEql \union {"ore_block_256"})
                               \ db.have, r, v)
    [] i = 13 -> IF "ore_opclass" \in db.have THEN Done(db) ELSE TryOpclass(db, r, v)
    [] i = 14 -> IF Poison \subseteq db.have THEN Done(db) ELSE Fallback(db, r, v)
    [] OTHER -> Done(db)

\* The install script, statement by statement in installer order.
InstallLength == 14
InstallStatement(i, db, r, v) ==
  CASE i = 1 -> DropSchema(db, "eql_v3", r)
    [] i = 2 -> CreateNew(db, {"eql_v3"}, r, v)
    [] i = 3 -> DropSchema(db, "internal", r)
    [] i = 4 -> CreateNew(db, {"internal"}, r, v)
    [] i = 5 -> RequirePgcrypto(db)
    [] i = 6 -> ReplaceValidators(db, r, v)
    [] i = 7 -> EnsureDomains(db, {"dom_json"}, {"json_check"}, r, v)
    [] i = 8 -> EnsureDomains(db, {"dom_entry"}, {}, r, v)
    [] i = 9 -> EnsureDomains(db, {"dom_ore", "dom_ope"}, {}, r, v)
    [] i = 10 -> CreateNew(db, {"query_ore", "query_json"}, r, v)
    [] i = 11 -> CreateNew(db, {"ore_block_256"}, r, v)
    [] i = 12 -> CreateNew(db, {"ord_term", "ord_term_ore", "version"}, r, v)
    [] i = 13 -> TryOpclass(db, r, v)
    [] i = 14 -> Fallback(db, r, v)

\* A bug to catch: the uninstaller trusts CASCADE to reach the internal schema.
UninstallPublicOnly(i, db, r, v) ==
  IF i = 1 THEN DropSchema(db, "eql_v3", r) ELSE Done(db)

UninstallLength == 2
UninstallStatement(i, db, r, v) ==
  CASE i = 1 -> DropSchema(db, "eql_v3", r)
    [] i = 2 -> DropSchema(db, "internal", r)

Length(script) == IF script = "install" THEN InstallLength ELSE UninstallLength
Statement(script, i, db, r, v) ==
  IF script = "install" THEN InstallStatement(i, db, r, v)
                        ELSE UninstallStatement(i, db, r, v)

\* Statement i after what came out of those before it, unless one of them failed.
Then(out, i, script, r, v) == IF out.ok THEN Statement(script, i, out.db, r, v) ELSE out
Then2(out, i, script, r, v) == Then(Then(out, i, script, r, v), i + 1, script, r, v)
Then4(out, i, script, r, v) == Then2(Then2(out, i, script, r, v), i + 2, script, r, v)

\* All the statements of a script on db, in order, until one fails.
RunScript(script, db, r, v) ==
  LET two == Then2(Done(db), 1, script, r, v)
  IN  IF script = "uninstall" THEN two
      ELSE Then4(Then4(Then4(two, 3, script, r, v), 7, script, r, v), 11, script, r, v)

-----------------------------------------------------------------------------
Idle == [state |-> "idle"]

Init ==
  /\ have = {} /\ owner = [o \in Objects |-> Nobody]
  /\ ver = [o \in Objects |-> 0]
  /\ crypto \in Pgcrypto
  /\ super = InitialSuper
  /\ session = [d \in Deployers |-> Idle]
  /\ ran = 0 /\ rows = FALSE /\ disabled = FALSE /\ lateOre = FALSE
  /\ piecemeal = FALSE

SetDb(db) == /\ have' = db.have /\ owner' = db.owner
             /\ ver' = db.ver /\ crypto' = db.crypto

\* What is remembered of a script that reported no error.
Settle(script, ok, db) ==
  disabled' = IF ok THEN script = "install" /\ "ore_opclass" \notin db.have ELSE disabled

Begin(d) ==
  /\ session[d].state # "running" /\ ran < MaxScripts
  /\ ran' = ran + 1
  /\ \E r \in Roles, m \in Modes, script \in {"install", "uninstall"} :
       /\ session' = [session EXCEPT ![d] =
            [state |-> "running", script |-> script, role |-> r, mode |-> m,
             version |-> IF Upgrades THEN ran + 1 ELSE 1, pc |-> 1, ok |-> TRUE]]
       /\ piecemeal' = (piecemeal \/ m # "txn")
       \* An uninstall takes the promise of a disabled domain back.
       /\ disabled' = (disabled /\ script = "install")
  /\ UNCHANGED <<have, owner, ver, crypto, super, rows, lateOre>>

\* One statement of a script fed by psql, committed by itself.  psql -f carries on
\* after an error; with ON_ERROR_STOP it does not.
Execute(d) ==
  LET s == session[d] IN
  /\ s.state = "running" /\ s.mode # "txn"
  /\ LET out == Statement(s.script, s.pc, Db, s.role, s.version)
         ok == s.ok /\ out.ok
         last == s.pc = Length(s.script) \/ (~ok /\ s.mode = "stop")
     IN  /\ SetDb(out.db)
         /\ session' = [session EXCEPT ![d] =
              [s EXCEPT !.ok = ok,
                        !.pc = IF last THEN @ ELSE @ + 1,
                        !.state = IF last THEN "ended" ELSE @]]
         /\ IF last THEN Settle(s.script, ok, out.db) ELSE UNCHANGED disabled
  /\ UNCHANGED <<super, ran, rows, lateOre, piecemeal>>

\* The whole script in one transaction: all of it or none of it.
ExecuteTxn(d) ==
  LET s == session[d] IN
  /\ s.state = "running" /\ s.mode = "txn"
  /\ LET out == RunScript(s.script, Db, s.role, s.version)
     IN  /\ SetDb(IF out.ok THEN out.db ELSE Db)
         /\ session' = [session EXCEPT ![d] = [s EXCEPT !.ok = out.ok, !.state = "ended"]]
         /\ Settle(s.script, out.ok, out.db)
  /\ UNCHANGED <<super, ran, rows, lateOre, piecemeal>>

\* The connection is lost between two statements.
Disconnect(d) ==
  /\ session[d].state = "running"
  /\ session' = [session EXCEPT ![d] = [@ EXCEPT !.ok = FALSE, !.state = "lost"]]
  /\ UNCHANGED <<have, owner, ver, crypto, super, ran, rows, disabled, lateOre, piecemeal>>

\* A managed platform takes superuser away from a role.
Demote(r) ==
  /\ r \in super
  /\ super' = super \ {r}
  /\ UNCHANGED <<have, owner, ver, crypto, session, ran, rows, disabled, lateOre, piecemeal>>

\* The application adds a column of a domain it finds.
AddColumn(c) ==
  /\ c \notin have /\ Needs(c) \subseteq have
  /\ have' = have \union {c}
  /\ UNCHANGED <<owner, ver, crypto, super, session, ran, rows, disabled, lateOre, piecemeal>>

\* It creates a functional index; over ORE, PostgreSQL takes the default operator
\* class if there is one and falls back to record_ops if there is none.
AddIndex(i) ==
  /\ i \notin have /\ Needs(i) \subseteq have
  /\ i = "ix_record" => "ore_opclass" \notin have
  /\ have' = have \union {i}
  /\ UNCHANGED <<owner, ver, crypto, super, session, ran, rows, disabled, lateOre, piecemeal>>

\* It stores an ORE value: the coercion runs every CHECK of the domain.
InsertOre ==
  /\ "col_ore" \in have /\ "poison_ore" \notin have
  /\ ~rows \/ (disabled /\ ~lateOre)
  /\ rows' = TRUE
  /\ lateOre' = (lateOre \/ disabled)
  /\ UNCHANGED <<have, owner, ver, crypto, super, session, ran, disabled, piecemeal>>

Next ==
  \/ \E d \in Deployers : Begin(d) \/ Execute(d) \/ ExecuteTxn(d) \/ Disconnect(d)
  \/ \E r \in Roles : Demote(r)
  \/ \E c \in Columns : AddColumn(c)
  \/ \E i \in Indexes : AddIndex(i)
  \/ InsertOre

Spec == Init /\ [][Next]_vars

-----------------------------------------------------------------------------
\* Some script of the kind has ended well, and every script that ended did so.
AllReported(script) ==
  /\ \E d \in Deployers : session[d].state # "idle"
  /\ \A d \in Deployers : session[d].state # "idle" =>
       session[d].state = "ended" /\ session[d].script = script /\ session[d].ok

\* Columns typed with a public domain survive every install, re-install, upgrade,
\* uninstall, failure and disconnection (a column of a query domain does not).
DataSurvives == [][have \cap (Columns \ {"col_query"}) \subseteq have']_vars

\* A searchable-document column never loses the CHECK that validates its rows,
\* although that CHECK calls functions every install replaces.
DocumentsStayChecked == "dom_json" \in have => "json_check" \in have

\* After an install that reported no error everything is there, all of it but the
\* public domains and their CHECKs by this very script, and ORE is either served
\* (operator class, no poison) or disabled in every ORE domain and twin.
InstalledIsWhole ==
  AllReported("install") =>
    /\ OwnedSchemas \union InPublic \union InEql \union {"ore_block_256"} \subseteq have
    /\ \A o \in have \ (Domains \union {"json_check"} \union Columns \union Indexes) :
         \E d \in Deployers : session[d].state # "idle" /\ ver[o] = session[d].version
    /\ crypto \in {"extensions", "public"}
    /\ IF "ore_opclass" \in have THEN Poison \cap have = {} ELSE Poison \subseteq have

\* After an uninstall that reported no error nothing of EQL's schemas is left, no
\* index that would need it, and no poison: public domains are plain again.
UninstalledIsGone ==
  AllReported("uninstall") => have \subseteq InPublic \union (Columns \ {"col_query"})

\* A rerun repairs: whatever earlier scripts, failures and disconnections left
\* behind, the first error of a script is a missing privilege or a pgcrypto in the
\* wrong schema, never an object that is already there or no longer there, and
\* never a row stored before the installing role was demoted.
RerunRepairs ==
  [][\A d \in Deployers :
       LET s == session[d] IN
       s.state = "running" /\ s.ok /\ session'[d].state # "lost" /\ ~session'[d].ok =>
         \/ crypto = "other"
         \/ s.role \notin super /\ \E o \in have \ (Columns \union Indexes) : owner[o] # s.role
    ]_vars

\* As long as every script runs in one transaction, an
\* ORE index is never left on the generic record comparison while the database has
\* the ORE operator class.
OreIndexUsesItsClass == ~piecemeal => ~({"ix_record", "ore_opclass"} \subseteq have)

\* As long as every script runs in one transaction: once an install has disabled ORE, no ORE
\* value gets in until another install brings the operator class or EQL is uninstalled.
DisabledStaysDisabled == ~piecemeal => ~lateOre

-----------------------------------------------------------------------------
(* The inductive invariant.                                                *)

SessionType ==
  [state: {"running", "ended", "lost"}, script: {"install", "uninstall"}, role: Roles,
   mode: Modes, version: Nat, pc: 1..InstallLength, ok: BOOLEAN]
DbType ==
  [have: SUBSET Objects, owner: [Objects -> Roles], ver: [Objects -> Nat],
   crypto: {"none", "extensions", "public", "other"}]

TypeOK ==
  /\ Db \in DbType /\ super \subseteq Roles /\ ran \in Nat
  /\ session \in [Deployers -> {Idle} \union SessionType]
  /\ \A d \in Deployers : session[d].state = "running" =>
       session[d].pc \in 1..Length(session[d].script)
  /\ {rows, disabled, lateOre, piecemeal} \subseteq BOOLEAN

\* Nothing is there without what it needs, nor a document domain without its CHECK.
Sound(db) ==
  /\ \A o \in db.have : Needs(o) \subseteq db.have
  /\ "dom_json" \in db.have => "json_check" \in db.have

\* While nothing but scripts in one transaction ran, nothing else runs.
Transactional ==
  ~piecemeal => \A d \in Deployers : session[d].state = "running" => session[d].mode = "txn"

\* What an uninstall that has met no error has dropped so far.
Swept(s) ==
  s.ok => /\ s.pc > 1 \/ s.state = "ended" => "eql_v3" \notin have
          /\ s.state = "ended" => "internal" \notin have

\* Once every session is on an uninstall, one of them has all it dropped to its credit.
UninstallsSweep ==
  LET busy == {d \in Deployers : session[d].state # "idle"}
  IN  busy # {} /\ (\A d \in busy : session[d].script = "uninstall") =>
        \E d \in busy : Swept(session[d])

\* As long as every script runs in one transaction a promise to refuse ORE is kept by the poison.
PoisonKept == ~piecemeal /\ disabled => "poison_ore" \in have

\* What an install of version v that met no error has made of db by statement i: what it
\* is yet to create is gone, and what it was to create is there and its own.
Built(i, db, v) ==
  LET absent(os, first, last) == i \in first..last => os \cap db.have = {}
      own(os, after) == i > after => os \subseteq db.have /\ \A o \in os : db.ver[o] = v
      made(os, dropped, at) == absent(os, dropped + 1, at) /\ own(os, at)
      fallback == {"ore_domain_unavailable"} \union Poison
  IN  /\ made({"eql_v3"}, 1, 2) /\ made({"internal"}, 3, 4)
      /\ i > 5 => db.crypto \in {"extensions", "public"}
      /\ own({"validators"}, 6) /\ (i > 7 => "dom_json" \in db.have)
      /\ i > 8 => "dom_entry" \in db.have
      /\ i > 9 => {"dom_ore", "dom_ope"} \subseteq db.have
      /\ made({"query_ore", "query_json"}, 1, 10) /\ made({"ore_block_256"}, 3, 11)
      /\ made({"ord_term", "ord_term_ore", "version"}, 1, 12)
      /\ absent({"ore_opclass"}, 4, 13) /\ absent(fallback, 4, 14)
      /\ i > 13 /\ "ore_opclass" \in db.have => db.ver["ore_opclass"] = v
      /\ i > 14 => IF "ore_opclass" \in db.have THEN fallback \cap db.have = {}
                                               ELSE own(fallback, 14)

OneDeployer == \A d, e \in Deployers : d = e

InstallsBuild ==
  OneDeployer =>
    \A d \in Deployers :
      LET s == session[d]
      IN  s.state \in {"running", "ended"} /\ s.script = "install" /\ s.ok =>
            Built(IF s.state = "ended" THEN InstallLength + 1 ELSE s.pc, Db, s.version)

\* Together inductive: each script accounts for the catalog it leaves between statements.
IInv ==
  /\ TypeOK /\ Sound(Db) /\ Transactional /\ UninstallsSweep /\ PoisonKept
  /\ InstallsBuild /\ OreIndexUsesItsClass /\ DisabledStaysDisabled

-----------------------------------------------------------------------------
\* "The first value coerced into the domain fails loudly": however the scripts are fed,
\* and `psql -f` is how the README installs, a disabled domain accepts no value.
FailsLoudly == ~lateOre
=============================================================================
