--------------------------- MODULE ReleasePipeline ---------------------------
(***************************************************************************)
(* The release workflows (.github/workflows/release.yml, release-plz.yml,  *)
(* _build-sql.yml, _build-docs.yml): runs of jobs that need each other,    *)
(* queued by concurrency group, failing anywhere, re-run in part or whole  *)
(* or dispatched again, publishing one version to npm, to crates.io and as *)
(* a GitHub release.  A commit is a number; 0 stands for "not published".  *)
(***************************************************************************)
EXTENDS Naturals, FiniteSets, SequencesExt

CONSTANTS Branches,    \* branches that prereleases are cut from
          Finals,      \* versions without a `-`, as numbers in order
          Prereleases, \* versions with one
          Prepared,    \* may a marker commit (not) carry the prepared SQL bundle
          MaxCommits,  \* bound on the commits pushed
          MaxRuns,     \* nobody pushes to main or dispatches when there are as many
          MaxFailures  \* bound on the jobs that fail

VARIABLES commits,  \* all commits pushed: version, pending changesets, marker, bundle
          head,     \* the last commit of each ref
          pr,       \* the commit the open "Version Packages" PR was made for
          runs,     \* the workflow runs
          npm, crates, sql, docs, images, \* version -> commit its artefact is built from
          sqlTag,   \* version -> commit of the tag eql-V
          tsTag,    \* version -> commit of the tag eql-typescript-vV
          failures  \* how many jobs have failed for a reason not modelled

published == <<npm, crates, sql, docs, images, sqlTag, tsTag>>
repo == <<commits, head, pr>>
vars == <<repo, runs, published, failures>>

Versions == Finals \union Prereleases
Refs == {"main"} \union Branches
Nothing == [v \in Versions |-> 0]

ASSUME PipelineAssumption ==
  /\ Branches \intersect {"main", "release/eql"} = {}
  /\ Finals \subseteq Nat /\ Prereleases \subseteq Nat /\ Finals \intersect Prereleases = {}
  /\ 1 \in Finals /\ Prepared \subseteq BOOLEAN
  /\ MaxCommits \in Nat /\ MaxRuns \in Nat /\ MaxFailures \in Nat

-----------------------------------------------------------------------------
\* Jobs, and what each waits for, by the mode that classify or the trigger gives.

\* A bug to catch: packages do not wait for the docs.
BeforePackagesSqlOnly == {"sql"}

BeforePackages == {"sql", "docs"}

Needs ==
  [production |-> [release |-> {}, sql |-> {"release"}, docs |-> {"release", "sql"},
                   image |-> {"release", "sql", "docs"}],
   prerelease |-> [sql |-> {}, docs |-> {"sql"}, npm |-> BeforePackages, rust |-> BeforePackages],
   crate |-> [crate |-> {}]]

Modes == DOMAIN Needs
Jobs == UNION {DOMAIN Needs[m] : m \in Modes}

Commit(r) == commits[r.commit]
Version(r) == Commit(r).version

\* Every job but release is conditional on its output in production.
Enabled(r, j) ==
  /\ r.status = "running" /\ r.mode \in Modes /\ j \in DOMAIN Needs[r.mode]
  /\ r.jobs[j] \in {"todo", "part"}
  /\ \A k \in Needs[r.mode][j] : r.jobs[k] = "ok"
  /\ r.mode = "production" /\ j # "release" => r.released

\* A bug to catch: release-plz runs queue by ref.
GroupByRef(r) == <<r.wf, r.ref>>

Group(r) == IF r.wf = "release" THEN <<"release", r.ref>> ELSE <<"release-plz">>

NewRun(wf, ref, commit) ==
  [wf |-> wf, ref |-> ref, commit |-> commit, status |-> "new",
   mode |-> IF wf = "release" THEN "new" ELSE "crate",
   released |-> FALSE, jobs |-> [j \in Jobs |-> "todo"]]

\* A group holds one run in progress and one pending: a newcomer takes the free
\* place, or cancels the pending run to take its own.
Admitted(rs, r) ==
  [r EXCEPT !.status = IF \E k \in DOMAIN rs : rs[k].status = "running" /\ Group(rs[k]) = Group(r)
                       THEN "pending" ELSE "running"]
Supersede(rs, r) ==
  [i \in DOMAIN rs |-> IF rs[i].status = "pending" /\ Group(rs[i]) = Group(r)
                       THEN [rs[i] EXCEPT !.status = "cancelled"] ELSE rs[i]]

Enqueue(rs, r) == Append(Supersede(rs, r), Admitted(rs, r))

Init ==
  /\ commits = <<[version |-> 1, changesets |-> {}, marker |-> FALSE, prepared |-> TRUE]>>
  /\ head = [r \in Refs |-> 1] /\ pr = 0 /\ runs = <<>>
  /\ npm = [Nothing EXCEPT ![1] = 1] /\ crates = npm /\ sql = npm /\ docs = npm
  /\ images = npm /\ sqlTag = npm /\ tsTag = npm
  /\ failures = 0

-----------------------------------------------------------------------------
\* What people do: push, merge, dispatch, re-run.
Push(ref, c) ==
  /\ Len(commits) < MaxCommits
  /\ commits' = Append(commits, c) /\ head' = [head EXCEPT ![ref] = Len(commits) + 1]
  /\ IF ref = "main"
     THEN /\ Len(runs) + 2 <= MaxRuns
          /\ runs' = Enqueue(Enqueue(runs, NewRun("release", ref, Len(commits) + 1)),
                             NewRun("release-plz", ref, Len(commits) + 1))
     ELSE UNCHANGED runs
  /\ UNCHANGED <<published, failures>>

MergeFeature ==
  /\ Push("main", [commits[head["main"]] EXCEPT !.changesets = @ \union {Len(commits) + 1}])
  /\ UNCHANGED pr

\* The PR holds the changesets of the commit it was made for, consumed; it merges
\* as long as nobody else bumped the version.
MergeVersionPR ==
  /\ pr # 0 /\ commits[pr].version = commits[head["main"]].version
  /\ commits[pr].version + 1 \in Finals
  /\ Push("main", [commits[head["main"]] EXCEPT
                     !.version = @ + 1, !.changesets = @ \ commits[pr].changesets])
  /\ pr' = 0

PushMarker(ref, v) ==
  /\ \E ready \in Prepared :
       Push(ref, [version |-> v, changesets |-> {}, marker |-> TRUE, prepared |-> ready])
  /\ UNCHANGED pr

PushOther(ref) == Push(ref, [commits[head[ref]] EXCEPT !.marker = FALSE]) /\ UNCHANGED pr

Dispatch(ref) ==
  /\ Len(runs) < MaxRuns
  /\ runs' = Enqueue(runs, NewRun("release", ref, head[ref]))
  /\ UNCHANGED <<repo, published, failures>>

Failed(r) == \E j \in Jobs : r.jobs[j] = "failed"
Unfinished(r) == r.status = "cancelled" \/ (r.status = "done" /\ Failed(r))

\* People re-run what failed or was cancelled.  "Re-run failed jobs" keeps the jobs
\* that are done and their outputs; "Re-run all jobs" starts over.  Either is the same
\* run, at its own commit.
Rerun(i) ==
  LET again == [runs[i] EXCEPT !.jobs = [j \in Jobs |-> IF @[j] = "ok" THEN "ok" ELSE "todo"]]
      afresh == NewRun(runs[i].wf, runs[i].ref, runs[i].commit)
  IN  /\ Unfinished(runs[i])
      /\ \E r \in IF Failed(runs[i]) THEN {again, afresh} ELSE {afresh} :
           runs' = [Supersede(runs, r) EXCEPT ![i] = Admitted(runs, r)]
      /\ UNCHANGED <<repo, published, failures>>

-----------------------------------------------------------------------------
\* What GitHub does: end a run when no job can go on, and let the pending one in.
Finish(i) ==
  /\ runs[i].status = "running" /\ runs[i].mode # "new"
  /\ \A j \in Jobs : ~Enabled(runs[i], j)
  /\ runs' = [k \in DOMAIN runs |->
                IF k = i THEN [runs[k] EXCEPT !.status = "done"]
                ELSE IF runs[k].status = "pending" /\ Group(runs[k]) = Group(runs[i])
                     THEN [runs[k] EXCEPT !.status = "running"] ELSE runs[k]]
  /\ UNCHANGED <<repo, published, failures>>

JobFails(i) ==
  /\ failures < MaxFailures /\ failures' = failures + 1
  /\ \E j \in Jobs : Enabled(runs[i], j) /\ runs' = [runs EXCEPT ![i].jobs[j] = "failed"]
  /\ UNCHANGED <<repo, published>>

\* What the jobs do.  Each step of a job that another run could see is an action.
Step(i, j, from, to) ==
  /\ Enabled(runs[i], j) /\ runs[i].jobs[j] = from
  /\ runs' = [runs EXCEPT ![i].jobs[j] = to]

Keep == UNCHANGED failures

Classify(i) ==
  LET r == runs[i] IN
  /\ r.status = "running" /\ r.mode = "new"
  /\ \E mode \in {"production", "prerelease", "skip", "refused"} :
       /\ runs' = [runs EXCEPT ![i].mode = mode]
       /\ mode = "production" <=> r.ref = "main"
       /\ mode = "refused" <=> r.ref # "main" /\ Commit(r).marker /\ Version(r) \in Finals
       /\ mode = "prerelease" <=> /\ r.ref # "main" /\ Commit(r).marker
                                  /\ Version(r) \in Prereleases /\ tsTag[Version(r)] = 0
  /\ UNCHANGED <<repo, published>> /\ Keep

\* changesets/action: pending changesets make a PR, otherwise what npm lacks goes out.
OpenVersionPR(i) ==
  /\ Commit(runs[i]).changesets # {}
  /\ Step(i, "release", "todo", "ok") /\ pr' = runs[i].commit
  /\ UNCHANGED <<commits, head, published>> /\ Keep

PublishFinal(i) ==
  LET v == Version(runs[i]) IN
  /\ Commit(runs[i]).changesets = {}
  /\ IF npm[v] = 0
     THEN Step(i, "release", "todo", "part") /\ npm' = [npm EXCEPT ![v] = runs[i].commit]
     ELSE Step(i, "release", "todo", "ok") /\ UNCHANGED npm
  /\ UNCHANGED <<repo, crates, sql, docs, images, sqlTag, tsTag>> /\ Keep

ResolveVersion(i) ==
  /\ Enabled(runs[i], "release") /\ runs[i].jobs.release = "part"
  /\ runs' = [runs EXCEPT ![i].jobs.release = "ok", ![i].released = TRUE]
  /\ UNCHANGED <<repo, published>> /\ Keep

TagAt(tags, v, commit) == [tags EXCEPT ![v] = IF @ = 0 THEN commit ELSE @]

\* Assets of an existing release are replaced; its tag stays where it is.
BuildSql(i) ==
  LET v == Version(runs[i]) IN
  /\ Step(i, "sql", "todo", "ok")
  /\ sql' = [sql EXCEPT ![v] = runs[i].commit]
  /\ sqlTag' = TagAt(sqlTag, v, runs[i].commit)
  /\ UNCHANGED <<repo, npm, crates, docs, images, tsTag>> /\ Keep

BuildDocs(i) ==
  /\ Step(i, "docs", "todo", "ok")
  /\ docs' = [docs EXCEPT ![Version(runs[i])] = runs[i].commit]
  /\ UNCHANGED <<repo, npm, crates, sql, images, sqlTag, tsTag>> /\ Keep

BuildImage(i) ==
  /\ Step(i, "image", "todo", "ok")
  /\ images' = [images EXCEPT ![Version(runs[i])] = sqlTag[Version(runs[i])]]
  /\ UNCHANGED <<repo, npm, crates, sql, docs, sqlTag, tsTag>> /\ Keep

\* A bug to catch: a package that is out already fails the job.
PublishNpmOnce(i) ==
  /\ npm[Version(runs[i])] = 0
  /\ Step(i, "npm", "todo", "part")
  /\ npm' = [npm EXCEPT ![Version(runs[i])] = runs[i].commit]
  /\ UNCHANGED <<repo, crates, sql, docs, images, sqlTag, tsTag>> /\ Keep

PublishNpm(i) ==
  /\ Step(i, "npm", "todo", "part")
  /\ npm' = TagAt(npm, Version(runs[i]), runs[i].commit)
  /\ UNCHANGED <<repo, crates, sql, docs, images, sqlTag, tsTag>> /\ Keep

\* A bug to catch: the tag is pushed before the package.
TagTypescriptFirst(i) ==
  /\ (Step(i, "npm", "todo", "todo") \/ Step(i, "npm", "part", "ok"))
  /\ tsTag' = TagAt(tsTag, Version(runs[i]), runs[i].commit)
  /\ UNCHANGED <<repo, npm, crates, sql, docs, images, sqlTag>> /\ Keep

TagTypescript(i) ==
  /\ Step(i, "npm", "part", "ok")
  /\ tsTag' = TagAt(tsTag, Version(runs[i]), runs[i].commit)
  /\ UNCHANGED <<repo, npm, crates, sql, docs, images, sqlTag>> /\ Keep

\* A bug to catch: release-plz is dispatched against the branch, not this commit.
DispatchRustAtBranch(i) ==
  /\ Enabled(runs[i], "rust")
  /\ runs' = Enqueue([runs EXCEPT ![i].jobs.rust = "ok"],
                     NewRun("release-plz", "release/eql", head[runs[i].ref]))
  /\ UNCHANGED <<repo, published>> /\ Keep

\* Pin release/eql-V at the commit and dispatch release-plz against it.
DispatchRust(i) ==
  /\ Enabled(runs[i], "rust")
  /\ runs' = Enqueue([runs EXCEPT ![i].jobs.rust = "ok"],
                     NewRun("release-plz", "release/eql", runs[i].commit))
  /\ UNCHANGED <<repo, published>> /\ Keep

\* release-plz: nothing to do, or refused for its bundle, or published.
PublishCrate(i) ==
  LET v == Version(runs[i]) IN
  /\ IF crates[v] = 0 /\ Commit(runs[i]).prepared
     THEN Step(i, "crate", "todo", "ok") /\ crates' = [crates EXCEPT ![v] = runs[i].commit]
     ELSE /\ Step(i, "crate", "todo", IF crates[v] = 0 THEN "failed" ELSE "ok")
          /\ UNCHANGED crates
  /\ UNCHANGED <<repo, npm, sql, docs, images, sqlTag, tsTag>> /\ Keep

Next ==
  \/ MergeFeature \/ MergeVersionPR
  \/ \E ref \in Branches : PushOther(ref) \/ Dispatch(ref)
                           \/ \E v \in Prereleases \union {1} : PushMarker(ref, v)
  \/ \E i \in DOMAIN runs :
       \/ Rerun(i) \/ Finish(i) \/ JobFails(i) \/ Classify(i)
       \/ OpenVersionPR(i) \/ PublishFinal(i) \/ ResolveVersion(i)
       \/ BuildSql(i) \/ BuildDocs(i) \/ BuildImage(i)
       \/ PublishNpm(i) \/ TagTypescript(i) \/ DispatchRust(i) \/ PublishCrate(i)

Spec == Init /\ [][Next]_vars

\* GitHub runs what is queued, and somebody re-runs what failed or was cancelled.
Progress(i) == i \in DOMAIN runs /\
  (\/ Finish(i) \/ Classify(i) \/ OpenVersionPR(i) \/ PublishFinal(i) \/ ResolveVersion(i)
   \/ BuildSql(i) \/ BuildDocs(i) \/ BuildImage(i)
   \/ PublishNpm(i) \/ TagTypescript(i) \/ DispatchRust(i) \/ PublishCrate(i))

\* An identity is only taken up again after a failure, so dispatches are bounded too.
LastRun == MaxRuns + MaxFailures + Cardinality(Branches \X Prereleases)

FairSpec == Spec /\ \A i \in 1..LastRun : WF_vars(Progress(i)) /\ WF_vars(i \in DOMAIN runs /\ Rerun(i))

-----------------------------------------------------------------------------
Sources(v, artefacts) == {f[v] : f \in artefacts} \ {0}
AtMostOne(S) == \A x, y \in S : x = y

MarkedOnce(v) ==
  \A c, d \in {k \in DOMAIN commits : commits[k].marker /\ commits[k].version = v} : c = d

\* All artefacts of a version are built from one commit, however its runs fail, are
\* re-run or are dispatched again, and however far the branch has moved on.  Two
\* exceptions: the crate of a final version, which release-plz may publish from a
\* later commit of main, and an identity that two marker commits pin, one after a
\* run of the other failed: nothing compares the commits.
OneSource ==
  /\ \A v \in Finals : AtMostOne(Sources(v, {npm, sql, docs, images, sqlTag}))
  /\ \A v \in Prereleases :
       MarkedOnce(v) => AtMostOne(Sources(v, {npm, sql, docs, sqlTag, tsTag, crates}))

\* No package of a prerelease goes out before its SQL and its docs: "a failed docs
\* build blocks the package publish", for every run, re-run and dispatched run.
DocsBeforePackages ==
  \A v \in Prereleases : npm[v] # 0 \/ crates[v] # 0 => sql[v] # 0 /\ docs[v] # 0

\* The tag that makes classify skip an identity means that its package is out.
TagMeansPublished == \A v \in Prereleases : tsTag[v] # 0 => npm[v] # 0

\* "Two release-plz invocations never race a tag/publish": no two runs that publish
\* crates are in progress together, from whatever ref they were started.
CratesAlone ==
  \A i, k \in DOMAIN runs :
    {runs[i].wf, runs[k].wf} = {"release-plz"} /\ {runs[i].status, runs[k].status} = {"running"}
      => i = k

\* "A rerun after a partial failure converges": a published package gets its tag.
Converges == \A v \in Prereleases : npm[v] # 0 ~> tsTag[v] # 0

-----------------------------------------------------------------------------
(* The inductive invariant.                                                *)

CommitType ==
  [version: Versions, changesets: SUBSET Nat, marker: BOOLEAN, prepared: BOOLEAN]
RunType ==
  [wf: {"release", "release-plz"}, ref: Refs \union {"release/eql"}, commit: Nat,
   status: {"new", "running", "pending", "cancelled", "done"},
   mode: {"new", "skip", "refused"} \union Modes, released: BOOLEAN,
   jobs: [Jobs -> {"todo", "part", "ok", "failed"}]]

TypeOK ==
  /\ commits \in Seq(CommitType) /\ head \in [Refs -> DOMAIN commits]
  /\ pr \in {0} \union DOMAIN commits /\ runs \in Seq(RunType)
  /\ {npm, crates, sql, docs, images, sqlTag, tsTag} \subseteq [Versions -> Nat]
  /\ failures \in Nat

\* Of a group, one run is in progress and one is pending at most.
OnePerGroup ==
  \A i, k \in DOMAIN runs :
    Group(runs[i]) = Group(runs[k]) /\ runs[i].status = runs[k].status
      => runs[i].status \notin {"running", "pending"} \/ i = k

\* main only ever holds final versions.
MainIsFinal == commits[head["main"]].version \in Finals

Pinned(r) == Commit(r).marker /\ Version(r) \in Prereleases

\* What a run is started for: a final version from main, a prerelease from a marker
\* commit, or the crate of one, dispatched once its SQL and docs were out.
Placed(r) ==
  /\ r.commit \in DOMAIN commits
  /\ (r.wf = "release-plz") = (r.mode = "crate")
  /\ r.ref = "main" => Version(r) \in Finals
  /\ r.mode = "production" => r.ref = "main"
  /\ r.mode = "prerelease" => Pinned(r)
  /\ r.mode = "crate" /\ r.ref # "main" =>
       Pinned(r) /\ sql[Version(r)] # 0 /\ docs[Version(r)] # 0

\* What a run has done, whatever became of the run since.
Done(r) ==
  /\ r.mode = "new" => ~r.released /\ (\A j \in Jobs : r.jobs[j] = "todo")
  /\ r.mode = "production" /\ (r.released \/ r.jobs["release"] = "part") =>
       npm[Version(r)] = r.commit
  /\ r.mode = "prerelease" =>
       /\ r.jobs["sql"] = "ok" => sql[Version(r)] # 0
       /\ r.jobs["docs"] = "ok" => docs[Version(r)] # 0
       /\ r.jobs["npm"] \in {"part", "ok"} => npm[Version(r)] # 0

Accounted == \A i \in DOMAIN runs : Placed(runs[i]) /\ Done(runs[i])

\* A final version is what npm has of it, a prerelease what a marker commit made it.
FinalFromNpm ==
  \A v \in Finals : {sql[v], docs[v], images[v], sqlTag[v]} \subseteq {0, npm[v]}

Markers(v) == {k \in DOMAIN commits : commits[k].marker /\ commits[k].version = v}
PrereleaseFromMarker ==
  \A v \in Prereleases :
    {npm[v], sql[v], docs[v], sqlTag[v], tsTag[v], crates[v]} \subseteq {0} \union Markers(v)

\* Together inductive: whoever publishes is alone in it and publishes what it was started for.
IInv ==
  /\ TypeOK /\ OnePerGroup /\ MainIsFinal /\ Accounted
  /\ FinalFromNpm /\ PrereleaseFromMarker /\ DocsBeforePackages /\ TagMeansPublished

-----------------------------------------------------------------------------
\* What the documentation says and the workflows do not do.
Green == \A r \in ToSet(runs) : r.status = "done" /\ ~Failed(r)

\* "Every release publishes the same four artifacts at one lockstep version": once
\* every run has ended well, a final version's crate has not come alone.
Lockstep == Green => \A v \in Finals : crates[v] # 0 => npm[v] # 0
=============================================================================
