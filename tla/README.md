# Verification of EQL v3

TLA+ models of the Encrypt Query Language repository: the catalog of encrypted types and the SQL and
Rust rendered from it, the tools that order and publish the SQL installer, the life of that installer
in a database, what the installed operators and functions answer, and the conversion of older
payloads. TLC checks every property below on small instances; TLAPS proves all but four of those that hold for
every value of the constants. Paths are relative to the repository root; `v3/` stands for `src/v3/`,
`codegen/` for `crates/eql-codegen/`.

## The system

EQL stores encrypted values as jsonb payloads in PostgreSQL columns and makes them searchable through
the terms a payload carries (`hm`, `bf`, `op`, `ob`, `sv`). There is no server of its own. What can go
wrong lies in long chains of steps by several actors:

- **Catalog to SQL and Rust.** Fifty-three domains are lists of search terms; from a list `eql-codegen` renders
  a CHECK, extractors, wrappers, blockers, operators with their planner metadata, a query twin and a Rust
  struct, each by a function of its own that must agree with the others.
- **SQL to disk.** The generator writes these into the tree `v3/scalars`, beside hand-written files.
  Concurrent or killed runs, edits under way, files of dropped types.
- **SQL to installer.** `eql-codegen order` walks `v3`, reads the `-- REQUIRE:` lines and sorts; `tasks/build.sh`
  concatenates. Cycles, repeated lines, files that silently drop out.
- **Installer to database.** The script drops two schemas with CASCADE and builds them again around
  public domains that columns use, as superuser or not, in a transaction or statement by statement.
- **Expression to answer.** PostgreSQL picks an operator among those of EQL and those of jsonb below
  every domain, and the planner rewrites what it picked. A missing overload is no error but a wrong answer.
- **Client to column.** Payloads of v2 clients are converted for a column, checked by the domain, and compared
  with a converted operand: three copies of the same list of keys.
- **Database to answers.** The comparator behind ORE indexes, the parallel aggregates, the containment
  and access functions of encrypted JSON documents.
- **Repository to world.** GitHub workflows publish one version as npm package, crate, SQL release,
  docs and image, with failing jobs, re-runs, queued and cancelled runs.

### Components

| component | state it keeps | operations | module |
|---|---|---|---|
| Installer ordering, `codegen/src/ordering.rs` | in-degrees, heap, output | validate, build graph, pop, relax, finish | `SqlSurface`, `Linearization`, `SurfaceOrder` |
| Generated tree, `codegen/src/{writer,generate,main}.rs` | files on disk; per run: written and kept paths | preflight, check owner, temp file, rename, prune, clean | `CodegenTree` |
| Install, upgrade, uninstall, `v3/*.sql`, `tasks/uninstall-v3.sql` | the PostgreSQL catalog, columns, indexes, rows | the scripts' statements | `EqlInstall` |
| ORE comparator, `v3/sem/ore_block_256` | recursion and loop position | compare arrays, terms, blocks | `OreCompare` |
| Aggregates, `v3/aggregates.sql`, `v3/json/aggregates.sql`, `aggregates.sql.j2` | partial states | transition, combine | `Aggregate` |
| Encrypted JSON documents, `v3/json` | a stored document | containment, `->`, path queries, array functions | `SteVec` |
| Release pipeline, `.github/workflows` | commits, runs and their jobs, what is published | classify, publish, tag, dispatch, re-run | `ReleasePipeline` |
| Catalog, `crates/eql-domains` | a constant table | names, keys, operators and files of a list of terms | `Catalog`, `TermSemantics` |
| Rendering, `codegen/src/{generate,context,operator_surface,bindings}.rs`, templates | — | one function per generated file | `SqlRendering`, `Bindings` |
| Operator surface, generated and hand-written operators and blockers | files loaded; an expression, its overload, its answer | load a file, resolve, answer, commute, negate | `OperatorSurface` |
| Payload bindings and conversion, `crates/eql-bindings` | a payload on its way | parse, convert stored and query payloads | `Bindings`, `FromV2` |
| Installer build, `tasks/build.sh` and its gates | files of a checkout | generate, order, concatenate, verify | not modelled, see below |
| Lint, pinning, tests, packaging | — | — | not modelled, see below |

The components meet through files and the catalog. `Catalog` is the data of four modules: `SqlRendering`
extends it with the generated SQL, `OperatorSurface` installs that beside the hand-written files and
`FromV2` inserts payloads under its CHECKs and compares them with its operators; both take from
`TermSemantics` what a term says of a plaintext. What is rendered where on disk is `CodegenTree`'s; the tree is the surface that `SurfaceOrder` sorts (a torn file there would be a wrong
`REQUIRE` list here, hence `NeverTorn`); the order is the order of statements in
`EqlInstall.InstallStatement`; the functions those statements create are `OreCompare`, `Aggregate`
and `SteVec`; `ReleasePipeline` carries the installer out. Each boundary is a plain data structure, so
the modules are checked apart; `SurfaceOrder` and `Linearization` share `SqlSurface`.

### What makes each part correct

- Catalog and rendering: every file names all it needs; every operator of a column is EQL's; what is
  answered is right for the plaintexts; a CHECK guarantees the keys its extractors read.
- Conversion: what is converted is admitted by the CHECK, answers as the plaintexts would, and is refused
  a second time; nothing a client emits is refused for no reason.
- Ordering: no file before one it requires; every file once; a cycle reported exactly if there is one.
- Tree: no half-written file, no hand-written file lost, success means exactly this catalog.
- Install: columns and their CHECKs survive everything; a script that reports success is complete;
  a rerun repairs what an interrupted one left; ORE is served or refused, never half of each.
- Comparator: the order of the plaintexts. Aggregates: the extremum whatever the arrival order.
- Documents: all entry points agree; what may be stored may be taken out.
- Releases: one source commit per version, docs before packages, retries converge.

## Modules and how they follow the code

**`Catalog`** transcribes the tables of `eql-domains`: four terms, the lists of domains, the helpers over
them. A name is a sequence of segments. `CatalogFamilies` picks the families: of the eleven, eight share
the list of the integers. **`TermSemantics`** states what a term keeps of its plaintext (`hm` all, the ordering terms all
but for text, a filter the n-grams) and the answer an operator owes (`RightAnswer`).

**`SqlRendering`** has one operator per renderer of `generate.rs`, over those of `context.rs` and the operator table
of `operator_surface.rs`. A file is the set of files it requires, the domains, functions and operators it
declares, and what it calls; a CHECK is the keys it wants, wants non-empty and forbids. SQL text is left out.

**`OperatorSurface`** joins the generated files with the hand-written ones (terms, document operators and
blockers). Its behaviour is an installation followed by a query: `Require` and `RunFile` load a file with nothing
before it but what it requires, for `SurfaceOrder` promises no more; `Ask` resolves an operator over two operand
types by PostgreSQL's rules (exact match, literal taken for the other's type, base types, most exact matches);
`Answer` runs the wrapper on encrypted plaintexts; `Commute` and `Negate` are the planner's rewrites by the
declared metadata. The jsonb operators and the rules of resolution are external, and so marked.

**`Bindings`** has the rendered structs, the hand-written ones of documents, the tables `inventory.rs`, `payload.rs`
and `query_payload.rs`, and the strict parse over tagged JSON values. **`FromV2`** is `from_v2/mod.rs` and
`target.rs` with its surroundings: a client `Emit`s a payload or a damaged variant of one, `ConvertStored` and
`ConvertNeedle` convert it, `Insert` applies the rendered CHECK, `Answer` the rendered operator. Errors are the
variants of `FromV2Error`, in the order in which the code finds them; a failed lookup is the answer `panic`.

**`SqlSurface`** is the data of `ordering.rs`: `req` maps a file to the list of targets of its `REQUIRE`
lines, repeated lines kept. `Rejection` is the validation of `surface_order` in the order of the code:
edges outside `v3`, unknown targets, self-edges.

**`Linearization`** is the abstract promise: write the least file whose requirements are all written,
refuse a bad surface, answer "cycle" when stuck.

**`SurfaceOrder`** is `topo_order`: `BuildGraph` counts in-degrees, `Pop` takes the heap's minimum,
`Relax` is one turn of the loop over dependents, `Finish` compares the lengths. The code visits
dependents in insertion order; the model allows any, so the result's independence of it is part of what
is checked. `Promise` is the refinement mapping.

**`CodegenTree`** has one action per system call that another process could see: the preflight of a type,
the ownership check before a write, the temp file, the rename, `read_dir`, the check and the `unlink` of each
entry. `write_atomic` is three of them: `Stage` creates a temp file under a name that carries the process id and truncates what
was there, `Staged` is the end of the write, `Rename` publishes whatever lies under that name. A file is absent, hand-written (no marker),
partial, or the text of a catalog version. `Kill` may strike anywhere, leaving the temp file as it is; `WriteFails` at any of the three,
and its removal of the temp file may fail too, which the code ignores; `Edit` is a developer's. Reads within one
preflight are one step, since every target is looked at again right before its write.
`MCCodegenTree` fixes the paths and catalogs. `NextSwept` is the order of sweeping: subdirectories sorted, the root last.

**`EqlInstall`** keeps a catalog of objects with `Home` (schema) and `Uses` (pg_depend); `Cascade` is
`DROP SCHEMA ... CASCADE`, four rounds of taking what needs what was taken: no chain of needs is longer, which is
proved (`CascadeClosed`). One object stands for each kind the scripts treat alike. The script is fourteen
statements; a transaction runs them as one step, psql one by one, going on after an error or (with
`ON_ERROR_STOP`) not. With `Upgrades` every execution carries a text of its own, so a later one is an upgrade. History
variables remember whether the last completed install disabled ORE (`disabled`), whether a value got in
nevertheless (`lateOre`), and whether any script was fed piecemeal.

**`OreCompare`** models the recursion over arrays and the loop over blocks, one turn per step. A term is
abstracted to the plaintext bytes it encrypts: left blocks are equal exactly if the prefixes up to them
are, and a right block answers correctly only where the prefixes before it agree; elsewhere `Decide` may
return anything. Terms have any number of blocks (the code's types use 8 to 14), and may be ragged or empty.
The arrays are taken as stored: `TermsOf` is what the extractor makes of one, with the COALESCE that keeps an empty `ob` from becoming NULL.

**`Aggregate`** models PostgreSQL's driving of a STRICT, parallel-safe aggregate and the three families
of state functions. A row is NULL, without a term, or has a term; ties are equal terms.

**`SteVec`** models the domains' CHECKs as sets of payloads, and one call at a time on any stored
document. SQL's NULL truth value and raised exceptions are answers.

**`ReleasePipeline`** has runs with a status and a state for each job. A concurrency group holds one running
and one pending run; a newcomer cancels the pending one. A job may fail at any step it has; people re-run
failed jobs or the whole run, or dispatch a new one. A commit is a number, and each artefact maps a version to
the commit it was built from. A version PR merges if nobody else bumped the version meanwhile. Marker
commits may lack the prepared SQL bundle, which release-plz refuses.

Operators named "a bug to catch" are faulty variants of a definition next to them. They are used by no
specification; each property is known to fail when one of them replaces the original.

## Runs

| run | states | what it shows |
|---|---|---|
| `surface` | 53k | Each file of the installer over one family of each kind, loaded with only what it requires; then each of 20 operators over every pair of operand types, its answers, and the planner's rewrites. |
| `convert` | 65k | Every payload of a v2 client for every domain, whole or with any field missing, added or wrong, converted for every target, inserted, queried, converted again. |
| `order` | 61k | Every surface of three files with up to two `REQUIRE` lines each: rejected ones, repeated lines, self-edges, all cycles. Requirements first, the inductive invariant of the proof, exact cycle verdict, termination, refinement of `Linearization`. |
| `tree` | 3.2M | Any two of {two runs of the new catalog, one of the old, a clean}, over a tree of the old catalog with a hand-written file anywhere or none, or an empty tree; one edit, kills and write failures anywhere. |
| `install` | 1.6M | Three scripts, each an install or uninstall, in one transaction, by psql, or by psql with `ON_ERROR_STOP`; two roles, one superuser until demoted; pgcrypto missing or in a foreign schema; an application adding columns, indexes and rows. |
| `install_unpoisoned` | — | Violated: see divergences. |
| `aggregate` | 250k | Four rows, two workers, all five functions. |
| `aggregate_bare_scalars` | — | Violated: see divergences. |
| `stevec` | 155k | Documents and needles of up to two entries over two selectors, the array flag `a` absent, null, true, false or anything else. |
| `ore_compare` | 197k | Arrays of up to two terms of up to two blocks of two values, NULLs and malformed terms included. |
| `release` | 372k | One branch with a prerelease identity, a feature on main and the version PR for it, three commits, four runs that people start and the runs these dispatch, one failure, every re-run. |
| `release_lockstep` | — | Violated: see divergences. |

### Why the bounds are enough

- `order`: the counters can only go wrong through a repeated line (two lines suffice), a diamond or a cycle
  beside an orderable file (three files suffice). The proofs remove the bound.
- `tree`: two concurrent processes bring about every pairwise interleaving of system calls, and the tree
  has one path of each fate: kept, dropped with its type kept, dropped with its type, and at the root. The
  out root is taken not to be canonical, the harder case. `new` and `new2` run the same code on the
  same catalog, hence the symmetry.
- `install`: an interrupted script, a repairing one, and one more after a demotion. Each object
  stands for a kind; more domains of a kind would be treated alike in the same statement.
- `aggregate`: a row without a term before and after one with, a tie, and a NULL need four rows; two workers
  give an unseeded and a badly seeded partial state. Proved without bounds.
- `stevec`: duplicates of a selector and a needle with an entry missing from the document need two
  entries and two selectors. The loops keep no state over turns but the position.
- `ore_compare`: a difference before a difference needs two blocks, a prefix two terms. Proved without bounds.
- `release`: a marker commit and one more on the branch, or a feature, its version PR and a feature in between on
  main; a failing job and the run that repairs it, beside a release-plz run of each origin. `MaxRuns` bounds
  pushes to main and dispatches only; re-runs are unbounded.
- `surface` and `convert`: one family of each list of domains; others repeat a list under another name. `date`
  is in `surface` for the seam, which treats families without a leaf in JSON otherwise. Three plaintexts: the empty
  text, which has no n-gram and no ORE block, and two that share an ordering term and differ in `hm` and in
  n-grams. The bits of the n-grams are the last smallint, the first position that is none, and the last there is.
  Queries follow payloads that arrived whole: a damaged one that passes the strict parse is no different.

Runs other than `tree` set `CHECK_DEADLOCK FALSE`: a call that has returned, an expression that was answered,
an installed database that nobody touches, and a repository at rest have no next step, and the bounds end the rest. In `tree` the only
state without work is `AllOver`, so a stuck process would be reported.

### Fairness

`SurfaceOrder.FairSpec` assumes weak fairness of the sort's steps: one thread that runs to its end.
`ReleasePipeline.FairSpec` assumes that GitHub goes on with a run in progress (`Progress`), and that somebody
re-runs what failed or was cancelled (`Rerun`), which is what `docs/development/releasing.md` tells people to do
("a rerun after a partial failure converges"). Nothing is assumed of pushes, merges, dispatches or failures;
failures are bounded in number. No other run has a liveness property: scripts may be abandoned and
processes killed for good.

## Properties beyond types

- `LoadsCleanly`, `NativeSignatureBlocked`, `LiteralsReachJsonb`, `SeamClosed`, `AnswerExact`, `TermGuaranteed`, `PlannerRewritesAgree` (surface).
- `AdmittedByCheck`, `ConvertsWhatClientsEmit`, `AnswersAsPlaintext`, `RefusedAgain` (conversion).
- `RequiresFirst`, `CycleVerdictExact`, `Returns`, `ImplementsPromise` (ordering).
- `NeverTorn`, `HandWrittenKept`, `NeverStripped`, `SuccessIsExact` (tree). `SuccessIsExact` speaks of
  the paths nobody else changed since the run started: with a concurrent run of another catalog no more can be had.
- `DataSurvives`, `DocumentsStayChecked`, `InstalledIsWhole`, `UninstalledIsGone`, `RerunRepairs`,
  `OreIndexUsesItsClass`, `DisabledStaysDisabled` (install). The last two hold only as long as scripts run in one
  transaction; fed piecemeal, a script opens a window, and an index made in it stays as it is.
- `ResultExact` (aggregates); `VerdictIsOrder` (comparator).
- `ContainmentIsSubset`, `AccessorsAgree`, `EntriesComeOut`, `ArrayRowsComplete` (documents). `EntriesComeOut` says when taking an
  entry out raises, and that what comes out otherwise is a valid entry.
- `OneSource`, `DocsBeforePackages`, `TagMeansPublished`, `CratesAlone`, `Converges` (releases).

## Proofs

All proofs are of the specification TLC checks, with no constant fixed.
Each component's inductive invariant (`IInv`, `OrderInv`, `CompareInv`) is checked by TLC before it is proved. Four runs (`tree`,
`install`, `release`, `stevec`) check only the properties it implies, and check it too with one more line
`INVARIANT IInv` in the configuration. Eight modules hold theorems: `CodegenProofs` those of `SurfaceOrder` and
`CodegenTree`, `ComparisonProofs` those of `OreCompare` and `Aggregate`, `CatalogProofs` the lemmas about catalog and terms
on which `OperatorSurfaceProofs` and `FromV2Proofs` rest, and one module each the installation, the releases and
the documents. Where a module holds the proofs of two specifications, the one is `Spec` and the other `OrderSpec` or
`CompareSpec`.

**`CodegenProofs`, the order** (assumes: files are a finite set of numbers, the two bad targets are not files, the bound
is a number). `OrderInvariance` proves `OrderSpec => []OrderInv`. The counter of a file is the number of its
*outstanding* requirement lines: those whose target is not written or whose decrement is still queued.
From it the heap is exactly the set of unwritten files with nothing outstanding (`HeapExact`), no file is
written twice, and no member of a *knot*, a set each of whose files requires another of the set, is ever
written. `RequiresFirst` alone is not inductive, for nothing in it says that a file on the heap has all its
requirements written. `NothingDroppedHolds` turns the code's comparison of lengths into equality of sets by
`LengthTells`; `CycleVerdictExactHolds` needs `StuckIsKnot`: what is left when the heap is empty is a knot.
`ImplementsPromiseHolds` maps `Pop` to `Emit`, `Reject` to `Refuse`, `Finish` to `Answer` and the rest to stutters.

**`ComparisonProofs`, the aggregates** (assumes: `None` is no row, terms are numbers, `Absent` and `Bare` are no terms; and
`~BareScalars` for the theorems, the hypothesis whose failure is `aggregate_bare_scalars`). The invariant says
that each partial state is a right answer (`Answers`) for exactly the rows behind it, so combination is the
union of answers (`CombineAnswers`), in any order and with workers that saw no row.

**`ComparisonProofs`, the comparator** (assumes: bytes are numbers, bounds are numbers). `CompareInvariance`: all pairs passed over are
equal, the loop's `unequal` is the first block that differs, and `Decide` is reached only with a
difference. `VerdictIsOrderHolds` follows: at the first difference the prefixes agree, so the bit is no noise.

**`OperatorSurfaceProofs`** (assumes of plaintexts what the next module does, and that the marks for a literal without a type and
for "no operator" are no type and no operator). The catalog is any choice of `CatalogFamilies`: nothing is computed, each fact
about the tables of the surface is derived from the renderers. Two rows of the installer never share a path (`RowsTell`),
for the segments of a path tell family, domain and kind of file; hence the installed files are the rendered ones
(`Installed`), and what they declare is listed (`WrappersListed`, `DeclarationKinds`, `BlocksListed`): the wrappers of columns, of
query operands and of the seam, the blockers, the operators of documents and those of ORE terms. An operator's entry
in the table has one function behind it, and for an operator that searches it is the wrapper of the first term that serves it
(`AnsweredRow`). From there the ways part.

- `AnswersExact`: a wrapper's term is one of the domain's, and `TermAnswerRight` (`CatalogProofs`) goes through the four terms.
  The order of the terms in a list enters here: equality of text is exact because `hm` comes first.
- `PlannerRewrites` needs that the operator the planner is told of is declared at these very types (`AnswersRewritten`): a
  wrapper for a column and an operand comes with its twin for operand and column.
- `TermsGuaranteed`: the domain of each operand is one whose CHECK was rendered from the same list of terms (`TermsAsked`),
  told from all others by its name; what such a CHECK admits is then extracted case by case (`AskedYields`).
- `NativeSignaturesBlocked` and `SeamsClosed`: an operator declared at exactly the operands' types is what PostgreSQL
  runs (`ExactRuns`, over the whole of `Resolve`), and one is declared at every signature of jsonb (`ColumnOffered`,
  `SeamOffered`, `DocumentOffered`); `NativeSigned` lists those signatures.

- `InstallsCleanly`: a set of files closed under REQUIRE creates every object one of its files names (`ReadsProvided`, one
  lemma for each kind of file and of object), and an object is told by its kind, its name and its operands' types: among
  them is one that names the domain, the seam or the hand-written file it is made for, so no two files create it
  (`CreatedOnce`). A file whose requirements have all been taken in thus loads (`Loading`).

The state adds little: `AnswersInv` and `ChosenInv` say that what runs was resolved for what was asked, and that an answer
is its wrapper's; `InstallInv`, that the file examined and those taken in before it are the installer's.

**`FromV2Proofs`** (assumes: a plaintext has finitely many n-grams, each with a 16-bit position; plaintexts are numbers and
a coarse term keeps their order). The catalog is any choice of `CatalogFamilies`; clients, damage, targets and needles are arbitrary.
`BitsKept`: on everything `convert_bloom` accepts, the wrap lands among the smallints, leaves a smallint alone and
confuses two positions only if they are one modulo 2^16. `ConvertedOnce` proves `Spec => []RefusedAgain` from the invariant
that what was converted is `Absent` or carries `v = 3`, which both conversions refuse before anything else could go wrong.
`StrictImpliesCheck`: for every list of terms, what the rendered struct parses strictly, the rendered CHECK admits,
unless its `ob` is empty; the same for the query struct and the query CHECK. It justifies `from_v2/mod.rs:48` up to that
exception, once the struct is the right one. That is the matter of the names: `NamesTell` and its corollaries show that no two
domains share a typname, a full name or a struct name (by reading a name from its end), `TargetsTyped` that `parse` yields a
target of the catalog, and `TargetFinds` that the tables of `payload.rs` and `query_payload.rs` then hold the struct
rendered for it. The other three properties follow from one invariant, `IInv`, which speaks of the journey of a
payload. `Parsed`: what was converted was parsed as the struct of its target. `Emitted` and `Held`: the terms of an honest
client's payload, before and after, are those of its plaintext, bits wrapped. `Checked`: what is
stored passed the CHECK. `Paired` keeps the ORE term's shape. `ConvertedAdmitted` and `ClientsConverted` read it directly;
`AnsweredAsPlaintext` and `NoMatchMissed` add `OperatorAnswers`, which goes through the operators of each term. Whether
`@@` is exact depends on the data: two n-grams may share a bit, so `AnsweredAsPlaintext` has the hypothesis `BitsDistinct`
(the run's instance meets it), and `NoMatchMissed` says what holds without it.

**`CodegenProofs`, the tree** (assumes what the code guarantees of its inputs: paths and directories are numbers in sort order,
every catalog renders a file at the root, a version is no marker of a file's absence or authorship, no tree is found with
a half-written file). Any number of generators, catalogs, cleaners and edits. `NeverTorn` rests on `Own`: the temp file a run is
about to rename is one that it wrote to its end, because no other process uses the name. The rest needs an account of where a run is. `Guarded`: what a run is about to touch is still
what it saw, or the path is in its window's history (`raced`). `Written`: what it wrote is there unless `touched`.
`Covered`: once a type is done all of its targets are written. `Spared`: a written file is in the set `keep` a sweep
spares, unless the out root is not canonical and somebody touched the file. `Pruned`: nothing generated outside the
catalog is left in a directory that is swept. `SuccessIsExactHolds` joins the last four where the queue is empty.
`NeverStrippedHolds` has the hypothesis `CanonicalRoot`, without which it is false (see divergences); what holds anyway
is `StripsOnlyTouchedHolds`. The run takes the harder case, where two processes cannot yet violate it.

**`ReleasePipelineProofs`** (assumes: versions are numbers, final and prerelease ones distinct, the first is final; no branch is
named like main or the version PR's). Any branches, versions, commits, runs, failures and re-runs. No property is inductive:
each speaks of what is published, and what is published next is up to the runs. `Placed` says what a run is for: a final
version from main, a prerelease from a marker commit, or the crate of one, which is dispatched when SQL and docs are
out. `Done` says what it has left: of a job that is "ok" the artefact, of the npm job the package before the tag, of a
release job the version at the run's own commit. Both are kept through failures, re-runs, supersession and dispatches
because a run never changes its commit. From `Done`, a job starts only after what it needs is published
(`DocsBeforePackagesHolds`, `TagMeansPublishedHolds`). `FinalFromNpm` and `PrereleaseFromMarker` trace every artefact to
npm's commit or a marker commit, hence `OneSourceHolds`. `OnePerGroup` gives `CratesAloneHolds`, because all release-plz
runs share a group, whatever their ref.

**`EqlInstallProofs`** (assumes: there is a role, the first superusers are roles, pgcrypto is somewhere known or
nowhere, the modes are those of psql). Any number of deployers, roles, scripts, demotions and disconnections.
`Sound(Db)` says that the catalog is closed under `Needs` and that a document domain has its CHECK. It is kept by a
drop because a cascade is closed upward and spares what needs only what is spared (`CascadeClosed`, `CascadeSpares`),
which is also why columns survive (`DataSurvivesHolds`). What a statement does whatever the catalog is
`Behaves`: nothing if it fails, never to what is kept. What it does when all went well before is `Proceeds`: from
`Built(i)` to `Built(i + 1)`, or an excuse (a missing privilege or a misplaced pgcrypto). One lemma for each of the
fourteen statements proves it; `RunScriptThrough` strings them together for a transaction, and psql takes them one by
one, so both modes rest on the same lemmas. `InstalledIsWholeHolds` reads `Built(15)`, `RerunRepairsHolds` the excuse. Both have the hypothesis `OneDeployer`, for `Built` speaks of one script
alone: a second psql session that drops and creates the same schemas makes the first fail on an object that is already
there, for which there is no excuse. `UninstalledIsGoneHolds` needs no such hypothesis: `UninstallsSweep` says that once every
session is on an uninstall, the one that began last has all it dropped to its credit, and nobody creates any more.
`PoisonKept`, needed for `DisabledStaysDisabledHolds`, says where the promise is: in the CHECK, as long as scripts are
transactions. A transaction is one step of the model. That PostgreSQL makes two of them serial is assumed: each begins by
dropping and creating the same schema, which locks it, or fails on the other's, until the commit.

**`SteVecProofs`** (assumes: the five array flags, a bound that is a number). Any selectors, and documents and needles of any
length. The invariant says that a loop under way has found nothing in, or returned exactly, what it has passed, and that a
given answer is right. `ContainsIsSubset`: an element-wise `@>` of objects cut down to their selectors and a subset test of
distinct elements are both inclusion of selectors, for every document and needle (`ContainmentIsSubsetHolds`).
`MatchesFacts` needs that every set of positions can be listed in order (`SortedExists`, by its least counterexample); it gives the
accessors their rows (`AccessorsAgreeHolds`). `AllFit` is why `EntriesComeOutHolds`: what the stored entries' validator
accepts meets the CHECK of the extracted ones, grafted keys included.

Every invariant and every action property of the passing runs has its theorem, but for `LiteralsReachJsonb`, of which the
one half, that EQL answers where the literal stands for a jsonb, is part of `NativeSignaturesBlocked`. Only model-checked, too: the liveness
properties `Returns` and `Converges`, since liveness under fairness is beyond the prover. The refinement of `Linearization` is proved for its steps; its fairness
is checked only.

## Divergences

Three disagreements between the documentation and the code are kept as runs that TLC refutes:

- `install_unpoisoned` (`FailsLoudly`): the ORE domains are poisoned "so the first value coerced into the domain fails
  loudly", and the README installs with `psql -f`. A re-install drops the poison with the internal schema and
  restores it near the end of the script; in between, or for good if the script stops, a disabled domain
  accepts values.
- `aggregate_bare_scalars` (`ResultExact`): a scalar with `"op": null` passes its domain's CHECK; if it arrives first,
  the generated min and max return it whatever else the group holds. The aggregates of JSON entries guard against
  this case.
- `release_lockstep` (`Lockstep`): if a feature reaches main between the making of a version PR and its merge, the
  crate is published and npm and the SQL release never follow, though every run ends well.

The following are built into the models, and the properties except them:

- `jsonb_array_length` of an array without elements is NULL, and `jsonb_array_elements` of it raises
  (`v3/json/functions.sql:463`, `:491`): `array_length` of nothing is NULL. A document with `"a": null` is no array
  and its elements are returned all the same (`:484`). `ArrayRowsComplete` and `EntriesComeOut` say so.
- The CHECK of a document leaves its root `a` free (`v3/json/types.sql:95`), and `is_ste_vec_array` casts it to a boolean
  (`v3/json/functions.sql:215`): for a value that is none, it raises, and so does what asks it. `EntriesComeOut` says so.
- The CHECKs ask for a key and not for a term: a JSON null under `hm`, `op` or `bf`, or a `bf` that is no array, is stored and
  its term is NULL (`v3/sem/bloom_filter/functions.sql:39` says so of `bf`). `TermGuaranteed` excepts it; for `op` it is also
  behind `aggregate_bare_scalars`.
- An identity that two marker commits pin, the second after a run of the first failed, is built from both
  (`release.yml:333`); `OneSource` excepts it.
- A tag pushed beside a failed Rust dispatch makes a fresh dispatch skip everything, crate included
  (`release.yml:90`); a release job that fails after npm publish is re-run without the SQL jobs (`:182`); a
  pending release-plz run of a prerelease is cancelled by the next push to main (`release-plz.yml:46`).
  `Converges` promises the npm tag and not the crate.
- The uninstaller leaves the public domains, the columns typed with them and the SteVec validators, though
  `tasks/uninstall-v3.sql:1` says that such columns go; `UninstalledIsGone` states what goes. An upgrade keeps the
  inline CHECK of existing domains while it replaces the validators that mirror them; `InstalledIsWhole` excepts it.
- With three concurrent processes below an out root that is not canonical, a sweep can remove a file its own run wrote
  (`codegen/src/writer.rs:100`): the kept path of a file that is gone at that moment stays under its raw name. Two
  processes, which the run has, cannot bring this about.
- The documentation says that an untyped literal to the right of a column
  reaches jsonb's own operator, blockers bypassed (`docs/reference/json-support.md:40`, `docs/reference/database-indexes.md:248`,
  `README.md:289`), or that it is ambiguous and will not resolve (`codegen/templates/query_types.sql.j2:12`,
  `docs/reference/sql-support.md:95`). PostgreSQL first takes the literal for the type of the other operand and looks for
  an operator of exactly these types (`binary_oper_exact` of its parser). Every comparison and containment operator is
  declared for (domain, domain), so EQL's overload runs, or refuses, and the literal must pass the domain's CHECK. The
  documentation is right for `->`, `->>`, `?` and others whose right operand is no jsonb, and for `||` and `@@` of a document.
  `LiteralsReachJsonb` states which is which.
- A write that fails removes its temp file, "so a failed write leaves no debris" (`codegen/src/writer.rs:207`), but the result
  of the removal is discarded (`:223`, `:227`): if it fails too, the run ends with an error and the temp file stays. Nothing
  but debris comes of it: no other process uses its name, and no walk looks at names that do not end in `.sql`.
- `||` between two documents, or a document and an untyped literal, runs jsonb's own operator: the blockers exist for a
  jsonb on one side only (`v3/json/blockers.sql:251`, `:271`), though the file says that `||` is blocked.
  `NativeSignatureBlocked` excepts it.
- A stored column compared with a query operand by an operator that its domain does not support reaches jsonb's own
  operator: `codegen/src/generate.rs:280` says that the storage domain's blocker takes it, `:419` (of the seam) and the
  model that two domains over jsonb flatten to jsonb and its operator matches exactly.
  `NativeSignatureBlocked` therefore speaks of jsonb's own signatures, and `SeamClosed` of the seam.
- `from_v2/mod.rs:48` promises that nothing is emitted that the CHECK would reject. The empty text has `ob: []`, which
  the struct takes and the CHECK refuses. `AdmittedByCheck` and `StrictImpliesCheck` except it.
- The struct of the identifier is derived and takes an array of two strings for its object (`crates/eql-bindings/src/lib.rs:109`).
  `from_v2` copies `i` as it is (`from_v2/mod.rs:367`), so such an envelope is converted and passes the CHECK, and
  `is_v3_payload` (`:317`) is false of it. No client emits one; `AdmittedByCheck` excepts it and says that nothing else is.
- `crates/eql-bindings/src/v3/mod.rs:26` gives `_ord` the term `ob`; the catalog gives it `op`, as modelled.

## Not modelled

- Wording, layout and escaping of what is rendered: pinned by committed snapshots. The JSON dump of the catalog and the
  TypeScript and JSON Schema exports list what `Bindings` has and decide nothing.
- The installer build: `tasks/build.sh` is a sequential script over `CodegenTree` and `SurfaceOrder`; its gates count
  lines. Nothing runs two of them over a checkout, and no promise is made of a killed one.
- That the derived structs of documents and their entries also take an array for an object: no conversion reaches them with one,
  `require` having refused it. That of the identifier is modelled.
- A loss of power: `write_atomic` does not sync, and what a crash of the machine leaves of a rename is the file system's.
- Unprepared marker commits (`Prepared = {FALSE}`), and two deployers at once: the modules and the proofs have them, the
  runs do not.
- Lint queries and `tasks/pin_search_path_v3.sql`: read-only, or idempotent on functions the models do not tell apart.
- Cryptography: terms are taken to mean what their construction promises.
- PostgreSQL's locks: two DDL statements are serial, as they are on one schema.
- Tests, docs tooling, packaging scripts, the image's own workflow, npm dist-tags.

## Plan

Done, in this order: ordering with its proofs, the tree, the life of an installation, aggregates and comparator
with their proofs, documents, releases; catalog, rendering and operator surface; bindings and conversion with
their proofs; the proofs of the tree, the installation, the releases, the documents and the operator surface. Next:

1. An abstract `Installation` (nothing, served, disabled, broken) that `EqlInstall` implements for transactional scripts.
