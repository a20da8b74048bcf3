------------------------ MODULE ReleasePipelineProofs ------------------------
(***************************************************************************)
(* Proofs about the release workflows, for any number of branches,         *)
(* versions, runs, pushes and failures.                                    *)
(***************************************************************************)
EXTENDS ReleasePipeline, SequenceTheorems, TLAPS

-----------------------------------------------------------------------------
(* Jobs and queues.                                                        *)

LEMMA JobNames ==
  /\ Modes = {"production", "prerelease", "crate"}
  /\ Jobs = {"release", "sql", "docs", "image", "npm", "rust", "crate"}
BY DEF Modes, Jobs, Needs, BeforePackages

\* What it takes for a job to be due.
LEMMA EnabledFacts ==
  ASSUME NEW r \in RunType, NEW j, Enabled(r, j)
  PROVE  /\ j \in Jobs /\ r.status = "running" /\ r.jobs[j] \in {"todo", "part"}
         /\ j \in {"sql", "docs"} => r.mode \in {"production", "prerelease"}
         /\ j \in {"release", "image"} => r.mode = "production"
         /\ j \in {"npm", "rust"} =>
              r.mode = "prerelease" /\ r.jobs["sql"] = "ok" /\ r.jobs["docs"] = "ok"
         /\ j = "crate" => r.mode = "crate"
         /\ r.mode = "production" /\ j # "release" => r.released
<1>1. CASE r.mode = "production"
  <2>1. j \in {"release", "sql", "docs", "image"}
    BY <1>1 DEF Enabled, Needs
  <2>. QED
    BY <1>1, <2>1, JobNames DEF Enabled
<1>2. CASE r.mode = "prerelease"
  <2>1. /\ j \in {"sql", "docs", "npm", "rust"}
        /\ j \in {"npm", "rust"} => Needs[r.mode][j] = {"sql", "docs"}
    BY <1>2 DEF Enabled, Needs, BeforePackages
  <2>. QED
    BY <1>2, <2>1, JobNames DEF Enabled
<1>3. CASE r.mode = "crate"
  <2>1. j = "crate"
    BY <1>3 DEF Enabled, Needs
  <2>. QED
    BY <1>3, <2>1, JobNames DEF Enabled
<1>. QED
  BY <1>1, <1>2, <1>3, JobNames DEF Enabled

\* Equal but for the status, which is all the queue decides.
Alike(a, b) ==
  /\ a.wf = b.wf /\ a.ref = b.ref /\ a.commit = b.commit
  /\ a.mode = b.mode /\ a.released = b.released /\ a.jobs = b.jobs

Exclusive(rs) ==
  \A i, k \in DOMAIN rs :
    Group(rs[i]) = Group(rs[k]) /\ rs[i].status = rs[k].status
      => rs[i].status \notin {"running", "pending"} \/ i = k

LEMMA NewRunFacts ==
  ASSUME NEW wf \in {"release", "release-plz"}, NEW ref \in Refs \union {"release/eql"},
         NEW c \in Nat
  PROVE  /\ NewRun(wf, ref, c) \in RunType
         /\ NewRun(wf, ref, c).wf = wf /\ NewRun(wf, ref, c).ref = ref
         /\ NewRun(wf, ref, c).commit = c /\ ~NewRun(wf, ref, c).released
         /\ NewRun(wf, ref, c).mode = IF wf = "release" THEN "new" ELSE "crate"
         /\ \A j \in Jobs : NewRun(wf, ref, c).jobs[j] = "todo"
BY JobNames DEF NewRun, RunType

\* Putting a run in its place changes that place and no other.
LEMMA SetRun ==
  ASSUME NEW rs \in Seq(RunType), NEW i \in DOMAIN rs, NEW r \in RunType
  PROVE  /\ [rs EXCEPT ![i] = r] \in Seq(RunType)
         /\ DOMAIN [rs EXCEPT ![i] = r] = DOMAIN rs
         /\ [rs EXCEPT ![i] = r][i] = r
         /\ \A k \in DOMAIN rs \ {i} : [rs EXCEPT ![i] = r][k] = rs[k]
<1>1. i \in 1..Len(rs)
  OBVIOUS
<1>2. [rs EXCEPT ![i] = r] \in Seq(RunType)
  BY <1>1, ExceptSeq
<1>. QED
  BY <1>2

LEMMA SupersedeFacts ==
  ASSUME NEW rs \in Seq(RunType), NEW r \in RunType
  PROVE  /\ Supersede(rs, r) \in Seq(RunType) /\ DOMAIN Supersede(rs, r) = DOMAIN rs
         /\ Len(Supersede(rs, r)) = Len(rs)
         /\ \A k \in DOMAIN rs :
              /\ Supersede(rs, r)[k] \in RunType /\ Alike(Supersede(rs, r)[k], rs[k])
              /\ Supersede(rs, r)[k].status =
                   IF rs[k].status = "pending" /\ Group(rs[k]) = Group(r) THEN "cancelled"
                   ELSE rs[k].status
<1>. DEFINE sup == Supersede(rs, r)
<1>1. \A k \in DOMAIN rs : rs[k] \in RunType
  OBVIOUS
<1>2. DOMAIN sup = DOMAIN rs /\ DOMAIN rs = 1..Len(rs) /\ Len(rs) \in Nat
  BY DEF Supersede
<1>3. \A k \in DOMAIN rs :
        /\ sup[k] \in RunType /\ Alike(sup[k], rs[k])
        /\ sup[k].status = IF rs[k].status = "pending" /\ Group(rs[k]) = Group(r)
                           THEN "cancelled" ELSE rs[k].status
  <2>. SUFFICES ASSUME NEW k \in DOMAIN rs
                PROVE  /\ sup[k] \in RunType /\ Alike(sup[k], rs[k])
                       /\ sup[k].status = IF rs[k].status = "pending" /\ Group(rs[k]) = Group(r)
                                          THEN "cancelled" ELSE rs[k].status
    OBVIOUS
  <2>1. PICK a : a = rs[k]
    OBVIOUS
  <2>2. a \in RunType
    BY <1>1, <2>1
  <2>3. sup[k] = IF a.status = "pending" /\ Group(a) = Group(r)
                 THEN [a EXCEPT !.status = "cancelled"] ELSE a
    BY <2>1 DEF Supersede
  <2>4. CASE a.status = "pending" /\ Group(a) = Group(r)
    <3>. DEFINE b == [a EXCEPT !.status = "cancelled"]
    <3>1. b \in RunType /\ b.status = "cancelled" /\ Alike(b, a)
      BY <2>2 DEF RunType, Alike
    <3>. QED
      BY <2>1, <2>3, <2>4, <3>1
  <2>5. CASE ~(a.status = "pending" /\ Group(a) = Group(r))
    BY <2>1, <2>2, <2>3, <2>5 DEF Alike
  <2>. QED
    BY <2>4, <2>5
<1>4. sup = [k \in 1..Len(rs) |-> sup[k]]
  BY <1>2 DEF Supersede
<1>5. sup \in Seq(RunType)
  BY <1>2, <1>3, <1>4, IsASeq
<1>6. Len(sup) = Len(rs)
  BY <1>2, <1>5
<1>. QED
  BY <1>2, <1>3, <1>5, <1>6

LEMMA AdmittedFacts ==
  ASSUME NEW rs \in Seq(RunType), NEW r \in RunType
  PROVE  /\ Admitted(rs, r) \in RunType /\ Alike(Admitted(rs, r), r)
         /\ Admitted(rs, r).status \in {"running", "pending"}
         /\ Admitted(rs, r).status = "running" =>
              \A k \in DOMAIN rs : ~(rs[k].status = "running" /\ Group(rs[k]) = Group(r))
BY DEF Admitted, RunType, Alike

\* A group depends on nothing but the workflow and the ref.
LEMMA AlikeGroup == \A a, b : a.wf = b.wf /\ a.ref = b.ref => Group(a) = Group(b)
BY DEF Group

\* A newcomer is alone in its status, whichever it gets.
LEMMA EnqueueFacts ==
  ASSUME NEW rs \in Seq(RunType), NEW r \in RunType, Exclusive(rs)
  PROVE  /\ Enqueue(rs, r) \in Seq(RunType) /\ Exclusive(Enqueue(rs, r))
         /\ Len(Enqueue(rs, r)) = Len(rs) + 1
         /\ \A k \in DOMAIN rs : Alike(Enqueue(rs, r)[k], rs[k])
         /\ Alike(Enqueue(rs, r)[Len(rs) + 1], r)
<1>. DEFINE sup == Supersede(rs, r)
            new == Admitted(rs, r)
            q == Append(sup, new)
            n == Len(rs) + 1
<1>1. /\ sup \in Seq(RunType) /\ DOMAIN sup = DOMAIN rs /\ Len(sup) = Len(rs)
      /\ \A k \in DOMAIN rs :
           /\ Alike(sup[k], rs[k])
           /\ sup[k].status = IF rs[k].status = "pending" /\ Group(rs[k]) = Group(r)
                              THEN "cancelled" ELSE rs[k].status
  BY SupersedeFacts
<1>2. /\ new \in RunType /\ Alike(new, r) /\ new.status \in {"running", "pending"}
      /\ new.status = "running" =>
           \A k \in DOMAIN rs : ~(rs[k].status = "running" /\ Group(rs[k]) = Group(r))
  BY AdmittedFacts
<1>3. q = Enqueue(rs, r)
  BY DEF Enqueue
<1>. HIDE DEF sup, new
<1>4. /\ q \in Seq(RunType) /\ Len(q) = n /\ DOMAIN q = DOMAIN rs \union {n}
      /\ (\A k \in DOMAIN rs : q[k] = sup[k] /\ k # n)
      /\ q[n] = new
  BY <1>1, <1>2, AppendProperties
<1>. HIDE DEF q, n
<1>5. /\ \A k \in DOMAIN rs : Alike(q[k], rs[k]) /\ Group(q[k]) = Group(rs[k])
      /\ Alike(q[n], r) /\ Group(q[n]) = Group(r)
  BY <1>1, <1>2, <1>4, AlikeGroup DEF Alike
<1>6. ASSUME NEW k \in DOMAIN rs, Group(rs[k]) = Group(r) PROVE q[k].status # q[n].status
  BY <1>1, <1>2, <1>4, <1>6
<1>7. ASSUME NEW k \in DOMAIN rs, q[k].status \in {"running", "pending"}
      PROVE  q[k].status = rs[k].status
  BY <1>1, <1>4, <1>7
<1>8. Exclusive(q)
  BY <1>4, <1>5, <1>6, <1>7 DEF Exclusive
<1>. QED
  BY <1>3, <1>4, <1>5, <1>8 DEF n

LEMMA SameQueue ==
  ASSUME NEW rs, NEW qs, DOMAIN qs = DOMAIN rs, Exclusive(rs),
         \A k \in DOMAIN rs :
           qs[k].wf = rs[k].wf /\ qs[k].ref = rs[k].ref /\ qs[k].status = rs[k].status
  PROVE  Exclusive(qs)
<1>1. \A k \in DOMAIN rs : Group(qs[k]) = Group(rs[k])
  BY AlikeGroup
<1>. QED
  BY <1>1 DEF Exclusive

-----------------------------------------------------------------------------
(* What a run is accountable for stays true of it.                         *)

\* Commits stay, and what is out stays out; in npm it never moves.
Grows ==
  /\ \A c \in DOMAIN commits : c \in DOMAIN commits' /\ commits'[c] = commits[c]
  /\ \A v \in Versions :
       /\ npm[v] # 0 => npm'[v] = npm[v]
       /\ sql[v] # 0 => sql'[v] # 0
       /\ docs[v] # 0 => docs'[v] # 0

Sound(r) == Placed(r)' /\ Done(r)'

LEMMA VersionType ==
  ASSUME TypeOK, NEW r, r.commit \in DOMAIN commits
  PROVE  Version(r) \in Versions /\ r.commit \in Nat \ {0} /\ r.commit \in 1..Len(commits)
<1>1. DOMAIN commits = 1..Len(commits) /\ Len(commits) \in Nat
  BY DEF TypeOK
<1>2. commits[r.commit] \in CommitType
  BY <1>1, ElementOfSeq DEF TypeOK
<1>. QED
  BY <1>1, <1>2 DEF Version, Commit, CommitType

LEMMA KeptRun ==
  ASSUME TypeOK, Grows, NEW r, NEW a, Placed(r), Done(r), Alike(a, r)
  PROVE  Sound(a)
<1>1. /\ Version(r) \in Versions /\ r.commit # 0 /\ r.commit \in DOMAIN commits
      /\ commits'[r.commit] = commits[r.commit] /\ r.commit \in DOMAIN commits'
  BY VersionType DEF Placed, Grows
<1>2. Placed(a)'
  BY <1>1 DEF Placed, Pinned, Version, Commit, Grows, Alike
<1>3. Done(a)'
  BY <1>1 DEF Done, Version, Commit, Grows, Alike
<1>. QED
  BY <1>2, <1>3 DEF Sound

LEMMA AllSound ==
  ASSUME NEW qs, qs = runs', Exclusive(qs), \A k \in DOMAIN qs : Sound(qs[k])
  PROVE  OnePerGroup' /\ Accounted'
<1>1. OnePerGroup'
  BY DEF OnePerGroup, Exclusive
<1>2. Accounted'
  BY DEF Accounted, Sound, Placed, Done, Pinned, Version, Commit
<1>. QED
  BY <1>1, <1>2

\* Runs that are as they were, but for their status.
LEMMA KeptRuns ==
  ASSUME TypeOK, Grows, Accounted, NEW rs, rs = runs,
         NEW k \in DOMAIN rs, NEW a, Alike(a, rs[k])
  PROVE  Sound(a)
<1>1. Placed(rs[k]) /\ Done(rs[k])
  BY DEF Accounted
<1>. QED
  BY <1>1, KeptRun

\* Job j of run r goes on to `to` (and the run counts as released as `out` says), and
\* what that stands for is out.
Advances(rs, i, r, j, to, out, a, qs) ==
  /\ rs = runs /\ i \in DOMAIN rs /\ r = rs[i] /\ Enabled(r, j)
  /\ to \in {"todo", "part", "ok", "failed"} /\ out \in BOOLEAN
  /\ out => r.released \/ r.jobs["release"] = "part"
  /\ a = [r EXCEPT !.jobs = [r.jobs EXCEPT ![j] = to], !.released = out]
  /\ qs = [rs EXCEPT ![i] = a]
  /\ j = "release" /\ to = "part" => npm'[Version(r)] = r.commit
  /\ j = "sql" /\ to = "ok" => sql'[Version(r)] # 0
  /\ j = "docs" /\ to = "ok" => docs'[Version(r)] # 0
  /\ j = "npm" /\ to \in {"part", "ok"} => npm'[Version(r)] # 0

\* That leaves the queue as it is, and the run accountable.
LEMMA JobChange ==
  ASSUME TypeOK, OnePerGroup, Accounted, Grows,
         NEW rs, NEW i, NEW r, NEW j, NEW to, NEW out, NEW a, NEW qs,
         Advances(rs, i, r, j, to, out, a, qs)
  PROVE  /\ qs \in Seq(RunType) /\ DOMAIN qs = DOMAIN rs /\ Exclusive(qs)
         /\ \A k \in DOMAIN qs : Sound(qs[k])
         /\ qs[i] = a /\ \A k \in DOMAIN rs \ {i} : qs[k] = rs[k]
<1>. USE DEF Advances
<1>1. r \in RunType /\ rs \in Seq(RunType)
  BY ElementOfSeq DEF TypeOK
<1>2. /\ j \in Jobs /\ a \in RunType /\ r.mode \in Modes
  <2>1. j \in Jobs /\ r.mode \in Modes
    BY <1>1, EnabledFacts DEF Enabled
  <2>2. [r.jobs EXCEPT ![j] = to] \in [Jobs -> {"todo", "part", "ok", "failed"}]
    BY <1>1 DEF RunType
  <2>3. a \in RunType
    BY <1>1, <2>2 DEF RunType
  <2>. QED
    BY <2>1, <2>3
<1>3. /\ qs \in Seq(RunType) /\ DOMAIN qs = DOMAIN rs /\ qs[i] = a
      /\ \A k \in DOMAIN rs \ {i} : qs[k] = rs[k]
  BY <1>1, <1>2, SetRun
<1>4. /\ a.wf = r.wf /\ a.ref = r.ref /\ a.commit = r.commit /\ a.mode = r.mode
      /\ a.status = r.status /\ a.released = out
      /\ \A k \in Jobs : a.jobs[k] = IF k = j THEN to ELSE r.jobs[k]
  BY <1>1, <1>2 DEF RunType
<1>5. Exclusive(qs)
  <2>1. Exclusive(rs)
    BY DEF OnePerGroup, Exclusive
  <2>2. \A k \in DOMAIN rs :
          qs[k].wf = rs[k].wf /\ qs[k].ref = rs[k].ref /\ qs[k].status = rs[k].status
    BY <1>3, <1>4
  <2>3. DOMAIN qs = DOMAIN rs
    BY <1>3
  <2>. HIDE DEF Advances
  <2>. QED
    BY <2>1, <2>2, <2>3, SameQueue
<1>6. Placed(r) /\ Done(r) /\ Sound(r)
  BY KeptRun DEF Accounted, Alike
<1>7. Sound(a)
  <2>1. Placed(a)'
    BY <1>4, <1>6 DEF Sound, Placed, Pinned, Version, Commit
  <2>2. /\ commits'[a.commit].version = Version(r)
        /\ Version(r) \in Versions /\ r.commit # 0
    BY <1>4, <1>6, VersionType DEF Version, Commit, Grows, Placed
  <2>3. a.mode # "new" /\ a.mode = r.mode
    BY <1>2, <1>4, JobNames
  <2>4. a.mode = "production" /\ (a.released \/ a.jobs["release"] = "part") =>
          npm'[Version(r)] = r.commit
    BY <1>2, <1>4, <1>6, <2>2, JobNames DEF Done, Grows
  <2>5. a.mode = "prerelease" =>
          /\ a.jobs["sql"] = "ok" => sql'[Version(r)] # 0
          /\ a.jobs["docs"] = "ok" => docs'[Version(r)] # 0
          /\ a.jobs["npm"] \in {"part", "ok"} => npm'[Version(r)] # 0
    BY <1>2, <1>4, <1>6, <2>2, JobNames DEF Done, Grows
  <2>6. Done(a)'
    <3>. DEFINE v == Version(r)
    <3>. HIDE DEF v
    <3>. QED
      BY <1>4, <2>2, <2>3, <2>4, <2>5 DEF Done, Version, Commit
  <2>. QED
    BY <2>1, <2>6 DEF Sound
<1>8. ASSUME NEW k \in DOMAIN rs \ {i} PROVE Sound(rs[k])
  BY KeptRuns DEF Alike
<1>. QED
  BY <1>3, <1>5, <1>7, <1>8

-----------------------------------------------------------------------------
(* One lemma for each action.                                              *)

\* What is published, as the invariant sees it.
Published ==
  /\ {npm, crates, sql, docs, images, sqlTag, tsTag} \subseteq [Versions -> Nat]
  /\ FinalFromNpm /\ PrereleaseFromMarker /\ DocsBeforePackages /\ TagMeansPublished

RepoOK ==
  /\ commits \in Seq(CommitType) /\ head \in [Refs -> DOMAIN commits]
  /\ pr \in {0} \union DOMAIN commits /\ MainIsFinal

LEMMA Parts ==
  IInv <=> /\ RepoOK /\ Published /\ runs \in Seq(RunType) /\ OnePerGroup /\ Accounted
           /\ failures \in Nat
BY DEF IInv, TypeOK, Published, RepoOK

\* A table is written by an action, and the six others are as they were.
LEMMA TablesKept ==
  ASSUME IInv,
         \A a \in {<<npm, npm'>>, <<crates, crates'>>, <<sql, sql'>>, <<docs, docs'>>,
                  <<images, images'>>, <<sqlTag, sqlTag'>>, <<tsTag, tsTag'>>} :
           a[2] = a[1] \/ a[2] \in [Versions -> Nat]
  PROVE  {npm', crates', sql', docs', images', sqlTag', tsTag'} \subseteq [Versions -> Nat]
<1>1. {npm, crates, sql, docs, images, sqlTag, tsTag} \subseteq [Versions -> Nat]
  BY DEF IInv, TypeOK
<1>. DEFINE T == [Versions -> Nat]
<1>2. npm \in T /\ crates \in T /\ sql \in T /\ docs \in T /\ images \in T /\ sqlTag \in T /\ tsTag \in T
  BY <1>1
<1>. HIDE DEF T
<1>3. /\ npm' = npm \/ npm' \in T
      /\ crates' = crates \/ crates' \in T
      /\ sql' = sql \/ sql' \in T
      /\ docs' = docs \/ docs' \in T
      /\ images' = images \/ images' \in T
      /\ sqlTag' = sqlTag \/ sqlTag' \in T
      /\ tsTag' = tsTag \/ tsTag' \in T
  BY DEF T
<1>4. /\ npm' \in T /\ crates' \in T /\ sql' \in T /\ docs' \in T /\ images' \in T
      /\ sqlTag' \in T /\ tsTag' \in T
  BY <1>2, <1>3
<1>. QED
  BY <1>4 DEF T

LEMMA Whole ==
  ASSUME RepoOK', Published', runs' \in Seq(RunType), OnePerGroup', Accounted', failures' \in Nat
  PROVE  IInv'
BY DEF IInv, TypeOK, Published, RepoOK

LEMMA JobStep ==
  ASSUME IInv, Grows, NEW i \in DOMAIN runs, NEW j, NEW from,
         NEW to \in {"todo", "part", "ok", "failed"}, Step(i, j, from, to),
         j = "release" /\ to = "part" => npm'[Version(runs[i])] = runs[i].commit,
         j = "sql" /\ to = "ok" => sql'[Version(runs[i])] # 0,
         j = "docs" /\ to = "ok" => docs'[Version(runs[i])] # 0,
         j = "npm" /\ to \in {"part", "ok"} => npm'[Version(runs[i])] # 0
  PROVE  runs' \in Seq(RunType) /\ OnePerGroup' /\ Accounted'
<1>1. PICK rs, r, a, qs, out :
        /\ rs = runs /\ r = rs[i] /\ qs = runs' /\ out = r.released
        /\ a = [r EXCEPT !.jobs = [r.jobs EXCEPT ![j] = to], !.released = out]
  OBVIOUS
<1>2. r \in RunType /\ out \in BOOLEAN
  <2>1. r \in RunType
    BY <1>1, ElementOfSeq DEF IInv, TypeOK
  <2>. QED
    BY <1>1, <2>1 DEF RunType
<1>3. a = [r EXCEPT !.jobs = [r.jobs EXCEPT ![j] = to]]
  BY <1>1, <1>2 DEF RunType
<1>4. qs = [rs EXCEPT ![i] = a]
  BY <1>1, <1>3 DEF Step
<1>5. /\ qs \in Seq(RunType) /\ Exclusive(qs)
      /\ \A k \in DOMAIN qs : Sound(qs[k])
  <2>1. TypeOK /\ OnePerGroup /\ Accounted
    BY DEF IInv
  <2>2. Advances(rs, i, r, j, to, out, a, qs)
    BY <1>1, <1>2, <1>4 DEF Advances, Step
  <2>. QED
    BY <2>1, <2>2, JobChange
<1>. QED
  BY <1>1, <1>5, AllSound

\* What a run builds, it builds for the version it was started for.
LEMMA RunFacts ==
  ASSUME IInv, NEW i \in DOMAIN runs
  PROVE  LET v == Version(runs[i])
         IN  /\ runs[i] \in RunType /\ v \in Versions /\ runs[i].commit \in Nat \ {0}
             /\ runs[i].mode = "production" => v \in Finals /\ v \notin Prereleases
             /\ runs[i].mode = "prerelease" => v \in Prereleases /\ v \notin Finals
             /\ v \in Prereleases /\ runs[i].mode \in {"prerelease", "crate"} =>
                  runs[i].commit \in Markers(v)
             /\ v \in Prereleases /\ runs[i].mode = "crate" => sql[v] # 0 /\ docs[v] # 0
<1>1. runs[i] \in RunType
  BY ElementOfSeq DEF IInv, TypeOK
<1>2. Placed(runs[i])
  BY DEF IInv, Accounted
<1>3. Version(runs[i]) \in Versions /\ runs[i].commit \in Nat \ {0}
  BY <1>2, VersionType DEF IInv, Placed
<1>. QED
  BY <1>1, <1>2, <1>3, PipelineAssumption DEF Placed, Pinned, Markers, Version, Commit

LEMMA OpenVersionPRIInv ==
  ASSUME IInv, NEW i \in DOMAIN runs, OpenVersionPR(i)
  PROVE  IInv'
<1>. USE DEF OpenVersionPR, Keep, published
<1>1. Grows
  BY DEF Grows
<1>2. runs' \in Seq(RunType) /\ OnePerGroup' /\ Accounted'
  BY <1>1, JobStep
<1>3. Published'
  BY Parts DEF Published, FinalFromNpm, PrereleaseFromMarker, Markers, DocsBeforePackages, TagMeansPublished
<1>4. RepoOK' /\ failures' \in Nat
  BY Parts, RunFacts DEF RepoOK, MainIsFinal, IInv, Accounted, Placed
<1>. QED
  BY <1>2, <1>3, <1>4, Whole

LEMMA PublishFinalIInv ==
  ASSUME IInv, NEW i \in DOMAIN runs, PublishFinal(i)
  PROVE  IInv'
<1>. DEFINE v == Version(runs[i])
<1>. USE DEF PublishFinal, Keep, repo
<1>1. /\ runs[i].mode = "production" /\ v \in Finals /\ v \notin Prereleases
      /\ v \in Versions /\ runs[i].commit \in Nat \ {0}
  BY RunFacts, EnabledFacts DEF Step
<1>2. npm \in [Versions -> Nat] /\ npm' \in [Versions -> Nat]
  BY <1>1 DEF IInv, TypeOK
<1>3. Grows
  BY <1>1, <1>2 DEF Grows
<1>4. runs' \in Seq(RunType) /\ OnePerGroup' /\ Accounted'
  BY <1>1, <1>2, <1>3, JobStep
<1>5. Published'
  <2>1. \A w \in Versions \ {v} : npm'[w] = npm[w]
    BY <1>1, <1>2
  <2>2. npm[v] # 0 => npm'[v] = npm[v]
    BY <1>1, <1>2
  <2>3. FinalFromNpm'
    BY <1>1, <2>1, <2>2 DEF IInv, FinalFromNpm, Versions
  <2>4. PrereleaseFromMarker' /\ DocsBeforePackages' /\ TagMeansPublished'
    BY <1>1, <2>1 DEF IInv, PrereleaseFromMarker, Markers, DocsBeforePackages, TagMeansPublished,
      Versions
  <2>5. {npm', crates', sql', docs', images', sqlTag', tsTag'} \subseteq [Versions -> Nat]
    BY <1>2, TablesKept
  <2>. QED
    BY <2>3, <2>4, <2>5 DEF Published
<1>6. RepoOK' /\ failures' \in Nat
  BY Parts DEF RepoOK, MainIsFinal
<1>. QED
  BY <1>4, <1>5, <1>6, Whole

LEMMA BuildSqlIInv ==
  ASSUME IInv, NEW i \in DOMAIN runs, BuildSql(i)
  PROVE  IInv'
<1>. DEFINE v == Version(runs[i])
<1>. USE DEF BuildSql, Keep, repo, TagAt
<1>1. /\ v \in Versions /\ runs[i].commit \in Nat \ {0}
      /\ \/ v \in Finals /\ v \notin Prereleases /\ npm[v] = runs[i].commit
         \/ v \in Prereleases /\ v \notin Finals /\ runs[i].commit \in Markers(v)
  BY RunFacts, EnabledFacts DEF Step, IInv, Accounted, Done
<1>2. /\ sql \in [Versions -> Nat] /\ sql' \in [Versions -> Nat]
      /\ sqlTag \in [Versions -> Nat] /\ sqlTag' \in [Versions -> Nat]
  BY <1>1 DEF IInv, TypeOK
<1>3. Grows
  BY <1>1, <1>2 DEF Grows
<1>4. runs' \in Seq(RunType) /\ OnePerGroup' /\ Accounted'
  BY <1>1, <1>2, <1>3, JobStep
<1>5. FinalFromNpm'
  BY <1>1, <1>2 DEF IInv, FinalFromNpm
<1>6. PrereleaseFromMarker'
  BY <1>1, <1>2 DEF IInv, PrereleaseFromMarker, Markers
<1>7. Published'
  <2>1. {npm', crates', sql', docs', images', sqlTag', tsTag'} \subseteq [Versions -> Nat]
    BY <1>2, TablesKept
  <2>2. DocsBeforePackages'
    BY <1>1, <1>2 DEF IInv, DocsBeforePackages
  <2>3. TagMeansPublished'
    BY <1>1, <1>2 DEF IInv, TagMeansPublished
  <2>. QED
    BY <1>5, <1>6, <2>1, <2>2, <2>3 DEF Published
<1>8. RepoOK' /\ failures' \in Nat
  BY Parts DEF RepoOK, MainIsFinal
<1>. QED
  BY <1>4, <1>7, <1>8, Whole

LEMMA BuildDocsIInv ==
  ASSUME IInv, NEW i \in DOMAIN runs, BuildDocs(i)
  PROVE  IInv'
<1>. DEFINE v == Version(runs[i])
<1>. USE DEF BuildDocs, Keep, repo
<1>1. /\ v \in Versions /\ runs[i].commit \in Nat \ {0}
      /\ \/ v \in Finals /\ v \notin Prereleases /\ npm[v] = runs[i].commit
         \/ v \in Prereleases /\ v \notin Finals /\ runs[i].commit \in Markers(v)
  BY RunFacts, EnabledFacts DEF Step, IInv, Accounted, Done
<1>2. docs \in [Versions -> Nat] /\ docs' \in [Versions -> Nat]
  BY <1>1 DEF IInv, TypeOK
<1>3. Grows
  BY <1>1, <1>2 DEF Grows
<1>4. runs' \in Seq(RunType) /\ OnePerGroup' /\ Accounted'
  BY <1>1, <1>2, <1>3, JobStep
<1>5. FinalFromNpm'
  BY <1>1, <1>2 DEF IInv, FinalFromNpm
<1>6. PrereleaseFromMarker'
  BY <1>1, <1>2 DEF IInv, PrereleaseFromMarker, Markers
<1>7. Published'
  <2>1. {npm', crates', sql', docs', images', sqlTag', tsTag'} \subseteq [Versions -> Nat]
    BY <1>2, TablesKept
  <2>2. DocsBeforePackages'
    BY <1>1, <1>2 DEF IInv, DocsBeforePackages
  <2>3. TagMeansPublished'
    BY <1>1, <1>2 DEF IInv, TagMeansPublished
  <2>. QED
    BY <1>5, <1>6, <2>1, <2>2, <2>3 DEF Published
<1>8. RepoOK' /\ failures' \in Nat
  BY Parts DEF RepoOK, MainIsFinal
<1>. QED
  BY <1>4, <1>7, <1>8, Whole

LEMMA BuildImageIInv ==
  ASSUME IInv, NEW i \in DOMAIN runs, BuildImage(i)
  PROVE  IInv'
<1>. DEFINE v == Version(runs[i])
<1>. USE DEF BuildImage, Keep, repo
<1>1. v \in Versions /\ v \in Finals /\ v \notin Prereleases
  BY RunFacts, EnabledFacts DEF Step
<1>2. /\ images \in [Versions -> Nat] /\ images' \in [Versions -> Nat]
      /\ sqlTag \in [Versions -> Nat]
  BY <1>1 DEF IInv, TypeOK
<1>3. Grows
  BY DEF Grows
<1>4. runs' \in Seq(RunType) /\ OnePerGroup' /\ Accounted'
  BY <1>3, JobStep
<1>5. FinalFromNpm'
  BY <1>1, <1>2 DEF IInv, FinalFromNpm
<1>6. PrereleaseFromMarker'
  BY DEF IInv, PrereleaseFromMarker, Markers
<1>7. Published'
  BY <1>2, <1>5, <1>6 DEF Published, IInv, TypeOK, DocsBeforePackages, TagMeansPublished
<1>8. RepoOK' /\ failures' \in Nat
  BY Parts DEF RepoOK, MainIsFinal
<1>. QED
  BY <1>4, <1>7, <1>8, Whole

LEMMA PublishNpmIInv ==
  ASSUME IInv, NEW i \in DOMAIN runs, PublishNpm(i)
  PROVE  IInv'
<1>. DEFINE v == Version(runs[i])
<1>. USE DEF PublishNpm, Keep, repo, TagAt
<1>1. /\ v \in Versions /\ runs[i].commit \in Nat \ {0}
      /\ v \in Prereleases /\ v \notin Finals /\ runs[i].commit \in Markers(v)
      /\ sql[v] # 0 /\ docs[v] # 0
  BY RunFacts, EnabledFacts DEF Step, IInv, Accounted, Done
<1>2. npm \in [Versions -> Nat] /\ npm' \in [Versions -> Nat]
  BY <1>1 DEF IInv, TypeOK
<1>3. Grows
  BY <1>1, <1>2 DEF Grows
<1>4. runs' \in Seq(RunType) /\ OnePerGroup' /\ Accounted'
  BY <1>1, <1>2, <1>3, JobStep
<1>5. FinalFromNpm'
  BY <1>1, <1>2 DEF IInv, FinalFromNpm, Versions
<1>6. PrereleaseFromMarker'
  BY <1>1, <1>2 DEF IInv, PrereleaseFromMarker, Markers
<1>7. Published'
  <2>1. {npm', crates', sql', docs', images', sqlTag', tsTag'} \subseteq [Versions -> Nat]
    BY <1>2, TablesKept
  <2>2. DocsBeforePackages'
    BY <1>1, <1>2 DEF IInv, DocsBeforePackages
  <2>3. TagMeansPublished'
    BY <1>1, <1>2 DEF IInv, TagMeansPublished
  <2>. QED
    BY <1>5, <1>6, <2>1, <2>2, <2>3 DEF Published
<1>8. RepoOK' /\ failures' \in Nat
  BY Parts DEF RepoOK, MainIsFinal
<1>. QED
  BY <1>4, <1>7, <1>8, Whole

LEMMA TagTypescriptIInv ==
  ASSUME IInv, NEW i \in DOMAIN runs, TagTypescript(i)
  PROVE  IInv'
<1>. DEFINE v == Version(runs[i])
<1>. USE DEF TagTypescript, Keep, repo, TagAt
<1>1. /\ v \in Versions /\ runs[i].commit \in Nat \ {0}
      /\ v \in Prereleases /\ v \notin Finals /\ runs[i].commit \in Markers(v)
      /\ npm[v] # 0
  BY RunFacts, EnabledFacts DEF Step, IInv, Accounted, Done
<1>2. tsTag \in [Versions -> Nat] /\ tsTag' \in [Versions -> Nat]
  BY <1>1 DEF IInv, TypeOK
<1>3. Grows
  BY DEF Grows
<1>4. runs' \in Seq(RunType) /\ OnePerGroup' /\ Accounted'
  BY <1>1, <1>3, JobStep
<1>5. FinalFromNpm'
  BY DEF IInv, FinalFromNpm
<1>6. PrereleaseFromMarker'
  BY <1>1, <1>2 DEF IInv, PrereleaseFromMarker, Markers
<1>7. Published'
  <2>1. {npm', crates', sql', docs', images', sqlTag', tsTag'} \subseteq [Versions -> Nat]
    BY <1>2, TablesKept
  <2>2. DocsBeforePackages'
    BY <1>1, <1>2 DEF IInv, DocsBeforePackages
  <2>3. TagMeansPublished'
    BY <1>1, <1>2 DEF IInv, TagMeansPublished
  <2>. QED
    BY <1>5, <1>6, <2>1, <2>2, <2>3 DEF Published
<1>8. RepoOK' /\ failures' \in Nat
  BY Parts DEF RepoOK, MainIsFinal
<1>. QED
  BY <1>4, <1>7, <1>8, Whole

LEMMA PublishCrateIInv ==
  ASSUME IInv, NEW i \in DOMAIN runs, PublishCrate(i)
  PROVE  IInv'
<1>. DEFINE v == Version(runs[i])
<1>. USE DEF PublishCrate, Keep, repo
<1>1. /\ v \in Versions /\ runs[i].commit \in Nat \ {0}
      /\ v \in Prereleases => runs[i].commit \in Markers(v) /\ sql[v] # 0 /\ docs[v] # 0
  BY RunFacts, EnabledFacts DEF Step
<1>2. crates \in [Versions -> Nat] /\ crates' \in [Versions -> Nat]
  BY <1>1 DEF IInv, TypeOK
<1>3. Grows
  BY DEF Grows
<1>4. runs' \in Seq(RunType) /\ OnePerGroup' /\ Accounted'
  BY <1>3, JobStep
<1>5. FinalFromNpm'
  BY DEF IInv, FinalFromNpm
<1>6. PrereleaseFromMarker' /\ DocsBeforePackages'
  <2>1. \A w \in Versions \ {v} : crates'[w] = crates[w]
    BY <1>1, <1>2
  <2>2. crates'[v] \in {crates[v], runs[i].commit}
    BY <1>1, <1>2
  <2>. QED
    BY <1>1, <2>1, <2>2 DEF IInv, PrereleaseFromMarker, Markers, DocsBeforePackages, Versions
<1>7. Published'
  <2>1. {npm', crates', sql', docs', images', sqlTag', tsTag'} \subseteq [Versions -> Nat]
    BY <1>2, TablesKept
  <2>2. TagMeansPublished'
    BY <1>1, <1>2 DEF IInv, TagMeansPublished
  <2>. QED
    BY <1>5, <1>6, <2>1, <2>2 DEF Published
<1>8. RepoOK' /\ failures' \in Nat
  BY Parts DEF RepoOK, MainIsFinal
<1>. QED
  BY <1>4, <1>7, <1>8, Whole

LEMMA JobFailsIInv ==
  ASSUME IInv, NEW i \in DOMAIN runs, JobFails(i)
  PROVE  IInv'
<1>. USE DEF JobFails, repo, published
<1>1. Grows
  BY DEF Grows
<1>2. PICK j \in Jobs : Step(i, j, runs[i].jobs[j], "failed")
  BY DEF Step
<1>3. runs' \in Seq(RunType) /\ OnePerGroup' /\ Accounted'
  BY <1>1, <1>2, JobStep
<1>4. Published'
  BY Parts DEF Published, FinalFromNpm, PrereleaseFromMarker, Markers, DocsBeforePackages, TagMeansPublished
<1>5. RepoOK' /\ failures' \in Nat
  BY Parts DEF RepoOK, MainIsFinal
<1>. QED
  BY <1>3, <1>4, <1>5, Whole

LEMMA ResolveVersionIInv ==
  ASSUME IInv, NEW i \in DOMAIN runs, ResolveVersion(i)
  PROVE  IInv'
<1>. USE DEF ResolveVersion, Keep, repo, published
<1>1. Grows
  BY DEF Grows
<1>2. PICK rs, r, a, qs :
        /\ rs = runs /\ r = rs[i] /\ qs = runs'
        /\ a = [r EXCEPT !.jobs = [r.jobs EXCEPT !["release"] = "ok"], !.released = TRUE]
  OBVIOUS
<1>3. r \in RunType /\ rs \in Seq(RunType)
  BY <1>2, ElementOfSeq DEF IInv, TypeOK
<1>4. qs = [rs EXCEPT ![i] = a]
  BY <1>2, <1>3 DEF RunType
<1>5. Advances(rs, i, r, "release", "ok", TRUE, a, qs)
  BY <1>2, <1>3, <1>4 DEF Advances
<1>6. runs' \in Seq(RunType) /\ OnePerGroup' /\ Accounted'
  <2>1. TypeOK /\ OnePerGroup /\ Accounted
    BY DEF IInv
  <2>2. /\ qs \in Seq(RunType) /\ Exclusive(qs)
        /\ \A k \in DOMAIN qs : Sound(qs[k])
    BY <1>1, <1>5, <2>1, JobChange
  <2>. QED
    BY <1>2, <2>2, AllSound
<1>7. Published'
  BY Parts DEF Published, FinalFromNpm, PrereleaseFromMarker, Markers, DocsBeforePackages, TagMeansPublished
<1>8. RepoOK' /\ failures' \in Nat
  BY Parts DEF RepoOK, MainIsFinal
<1>. QED
  BY <1>6, <1>7, <1>8, Whole

LEMMA AlikeSound ==
  ASSUME NEW a, NEW b, Alike(a, b), Sound(b)
  PROVE  Sound(a)
BY DEF Alike, Sound, Placed, Done, Pinned, Version, Commit

LEMMA EnqueueSound ==
  ASSUME NEW rs \in Seq(RunType), Exclusive(rs), \A k \in DOMAIN rs : Sound(rs[k]),
         NEW r \in RunType, Sound(r), NEW qs, qs = Enqueue(rs, r)
  PROVE  /\ qs \in Seq(RunType) /\ Exclusive(qs) /\ \A k \in DOMAIN qs : Sound(qs[k])
<1>1. /\ qs \in Seq(RunType) /\ Exclusive(qs) /\ Len(qs) = Len(rs) + 1
      /\ \A k \in DOMAIN rs : Alike(qs[k], rs[k])
      /\ Alike(qs[Len(rs) + 1], r)
  BY EnqueueFacts
<1>2. \A k \in DOMAIN qs : k \in DOMAIN rs \/ k = Len(rs) + 1
  BY <1>1
<1>3. ASSUME NEW k \in DOMAIN qs PROVE Sound(qs[k])
  <2>1. CASE k \in DOMAIN rs
    BY <1>1, <2>1, AlikeSound
  <2>2. CASE k = Len(rs) + 1
    BY <1>1, <2>2, AlikeSound
  <2>. QED
    BY <1>2, <2>1, <2>2
<1>. QED
  BY <1>1, <1>3

LEMMA RunsSound ==
  ASSUME IInv, Grows, NEW rs, rs = runs
  PROVE  /\ rs \in Seq(RunType) /\ Exclusive(rs)
         /\ \A k \in DOMAIN rs : rs[k] \in RunType /\ Sound(rs[k]) /\ Placed(rs[k]) /\ Done(rs[k])
<1>1. rs \in Seq(RunType) /\ Exclusive(rs)
  BY DEF IInv, TypeOK, OnePerGroup, Exclusive
<1>2. ASSUME NEW k \in DOMAIN rs
      PROVE  rs[k] \in RunType /\ Sound(rs[k]) /\ Placed(rs[k]) /\ Done(rs[k])
  <2>1. rs[k] \in RunType /\ Alike(rs[k], rs[k])
    BY <1>1, ElementOfSeq DEF Alike
  <2>2. TypeOK /\ Accounted
    BY DEF IInv
  <2>3. Placed(rs[k]) /\ Done(rs[k])
    BY <2>2 DEF Accounted
  <2>. QED
    BY <2>1, <2>2, <2>3, KeptRun
<1>. QED
  BY <1>1, <1>2

\* What GitHub and people do to the queue alone.
LEMMA QueueOnly ==
  ASSUME IInv, UNCHANGED <<repo, published, failures>>,
         runs' \in Seq(RunType), OnePerGroup', Accounted'
  PROVE  IInv'
<1>1. Published'
  BY Parts DEF Published, FinalFromNpm, PrereleaseFromMarker, Markers, DocsBeforePackages,
     TagMeansPublished, published, repo
<1>2. RepoOK' /\ failures' \in Nat
  BY Parts DEF RepoOK, MainIsFinal, repo
<1>. QED
  BY <1>1, <1>2, Whole

LEMMA DispatchRustIInv ==
  ASSUME IInv, NEW i \in DOMAIN runs, DispatchRust(i)
  PROVE  IInv'
<1>1. Grows
  BY DEF Grows, DispatchRust, repo, published
<1>2. PICK rs, r, a, mid, new, qs :
        /\ rs = runs /\ r = rs[i] /\ qs = runs'
        /\ a = [r EXCEPT !.jobs = [r.jobs EXCEPT !["rust"] = "ok"], !.released = r.released]
        /\ mid = [rs EXCEPT ![i] = a] /\ new = NewRun("release-plz", "release/eql", r.commit)
  OBVIOUS
<1>3. r \in RunType /\ rs \in Seq(RunType) /\ Enabled(r, "rust") /\ Placed(r) /\ Done(r)
  BY <1>1, <1>2, RunsSound DEF DispatchRust
<1>4. qs = Enqueue(mid, new) /\ r.released \in BOOLEAN
  BY <1>2, <1>3 DEF DispatchRust, RunType
<1>5. Advances(rs, i, r, "rust", "ok", r.released, a, mid)
  BY <1>2, <1>3, <1>4 DEF Advances
<1>6. mid \in Seq(RunType) /\ Exclusive(mid) /\ \A k \in DOMAIN mid : Sound(mid[k])
  BY <1>1, <1>5, JobChange DEF IInv
<1>7. /\ r.mode = "prerelease" /\ Pinned(r) /\ Version(r) \in Versions
      /\ sql[Version(r)] # 0 /\ docs[Version(r)] # 0 /\ r.commit \in Nat /\ r.commit \in DOMAIN commits
  BY <1>3, EnabledFacts, VersionType DEF Placed, Done, IInv
<1>8. new \in RunType /\ Sound(new)
  <2>1. /\ new \in RunType /\ new.wf = "release-plz" /\ new.ref = "release/eql" /\ ~new.released
        /\ new.commit = r.commit /\ new.mode = "crate" /\ \A j \in Jobs : new.jobs[j] = "todo"
    BY <1>2, <1>7, NewRunFacts
  <2>2. /\ r.commit \in DOMAIN commits' /\ commits'[r.commit] = commits[r.commit]
        /\ sql'[Version(r)] # 0 /\ docs'[Version(r)] # 0
    BY <1>1, <1>7 DEF Grows
  <2>. QED
    BY <1>7, <2>1, <2>2 DEF Sound, Placed, Done, Pinned, Version, Commit
<1>9. qs \in Seq(RunType) /\ Exclusive(qs) /\ \A k \in DOMAIN qs : Sound(qs[k])
  BY <1>4, <1>6, <1>8, EnqueueSound
<1>. QED
  BY <1>2, <1>9, AllSound, QueueOnly DEF DispatchRust, Keep

LEMMA ClassifyIInv ==
  ASSUME IInv, NEW i \in DOMAIN runs, Classify(i)
  PROVE  IInv'
<1>1. Grows
  BY DEF Grows, Classify, repo, published
<1>2. PICK rs, r, qs, mode, a :
        /\ rs = runs /\ r = rs[i] /\ qs = runs' /\ r.mode = "new"
        /\ mode \in {"production", "prerelease", "skip", "refused"}
        /\ a = [r EXCEPT !.mode = mode] /\ runs' = [runs EXCEPT ![i].mode = mode]
        /\ mode = "production" <=> r.ref = "main"
        /\ mode = "prerelease" <=> /\ r.ref # "main" /\ Commit(r).marker
                                   /\ Version(r) \in Prereleases /\ tsTag[Version(r)] = 0
  BY DEF Classify
<1>3. /\ rs \in Seq(RunType) /\ Exclusive(rs)
      /\ \A k \in DOMAIN rs : Sound(rs[k])
      /\ r \in RunType /\ Sound(r) /\ Placed(r) /\ Done(r)
  BY <1>1, <1>2, RunsSound
<1>4. /\ a \in RunType /\ a.wf = r.wf /\ a.ref = r.ref /\ a.commit = r.commit
      /\ a.status = r.status /\ a.jobs = r.jobs /\ a.released = r.released /\ a.mode = mode
  <2>1. mode \in {"new", "skip", "refused"} \union Modes
    BY <1>2, JobNames
  <2>2. a = [r EXCEPT !.mode = mode] /\ r \in RunType
    BY <1>2, <1>3
  <2>. QED
    BY <2>1, <2>2 DEF RunType
<1>5. /\ qs \in Seq(RunType) /\ DOMAIN qs = DOMAIN rs /\ qs[i] = a
      /\ \A k \in DOMAIN rs \ {i} : qs[k] = rs[k]
  <2>1. qs = [rs EXCEPT ![i] = a]
    BY <1>2, <1>3
  <2>. QED
    BY <1>2, <1>3, <1>4, <2>1, SetRun
<1>6. Exclusive(qs)
  <2>1. \A k \in DOMAIN rs :
          qs[k].wf = rs[k].wf /\ qs[k].ref = rs[k].ref /\ qs[k].status = rs[k].status
    BY <1>2, <1>4, <1>5
  <2>. QED
    BY <1>3, <1>5, <2>1, SameQueue
<1>7. Sound(a)
  <2>1. /\ commits'[a.commit] = commits[r.commit] /\ a.commit \in DOMAIN commits'
    BY <1>1, <1>3, <1>4 DEF Grows, Placed
  <2>2. Placed(a)'
    BY <1>2, <1>3, <1>4, <2>1 DEF Placed, Pinned, Version, Commit
  <2>3. ~a.released /\ a.jobs["release"] = "todo" /\ a.jobs["sql"] = "todo"
        /\ a.jobs["docs"] = "todo" /\ a.jobs["npm"] = "todo"
    BY <1>2, <1>3, <1>4, JobNames DEF Done
  <2>4. Done(a)'
    BY <1>2, <1>4, <2>3 DEF Done
  <2>. QED
    BY <2>2, <2>4 DEF Sound
<1>8. \A k \in DOMAIN qs : Sound(qs[k])
  BY <1>3, <1>5, <1>7
<1>. QED
  BY <1>2, <1>5, <1>6, <1>8, AllSound, QueueOnly DEF Classify, Keep

LEMMA FinishIInv ==
  ASSUME IInv, NEW i \in DOMAIN runs, Finish(i)
  PROVE  IInv'
<1>1. Grows
  BY DEF Grows, Finish, repo, published
<1>2. PICK rs, qs :
        /\ rs = runs /\ qs = runs' /\ rs[i].status = "running" /\ i \in DOMAIN rs
        /\ qs = [k \in DOMAIN rs |->
                   IF k = i THEN [rs[k] EXCEPT !.status = "done"]
                   ELSE IF rs[k].status = "pending" /\ Group(rs[k]) = Group(rs[i])
                        THEN [rs[k] EXCEPT !.status = "running"] ELSE rs[k]]
  BY DEF Finish
<1>3. /\ rs \in Seq(RunType) /\ Exclusive(rs) /\ DOMAIN rs = 1..Len(rs) /\ Len(rs) \in Nat
      /\ \A k \in DOMAIN rs : rs[k] \in RunType /\ Sound(rs[k])
  BY <1>1, <1>2, RunsSound
<1>4. \A k \in DOMAIN rs :
        /\ qs[k] \in RunType /\ Alike(qs[k], rs[k])
        /\ qs[k].status = IF k = i THEN "done"
                          ELSE IF rs[k].status = "pending" /\ Group(rs[k]) = Group(rs[i])
                               THEN "running" ELSE rs[k].status
  <2>. SUFFICES ASSUME NEW k \in DOMAIN rs
                PROVE  /\ qs[k] \in RunType /\ Alike(qs[k], rs[k])
                       /\ qs[k].status = IF k = i THEN "done"
                                         ELSE IF rs[k].status = "pending" /\ Group(rs[k]) = Group(rs[i])
                                              THEN "running" ELSE rs[k].status
    OBVIOUS
  <2>1. rs[k] \in RunType
    BY <1>3
  <2>2. CASE k = i
    BY <1>2, <2>1, <2>2 DEF RunType, Alike
  <2>3. CASE k # i /\ rs[k].status = "pending" /\ Group(rs[k]) = Group(rs[i])
    BY <1>2, <2>1, <2>3 DEF RunType, Alike
  <2>4. CASE k # i /\ ~(rs[k].status = "pending" /\ Group(rs[k]) = Group(rs[i]))
    BY <1>2, <2>1, <2>4 DEF Alike
  <2>. QED
    BY <2>2, <2>3, <2>4
<1>5. qs \in Seq(RunType) /\ DOMAIN qs = DOMAIN rs
  <2>1. qs = [k \in 1..Len(rs) |-> qs[k]]
    BY <1>2, <1>3
  <2>. QED
    BY <1>3, <1>4, <2>1, IsASeq
<1>6. Exclusive(qs)
  <2>1. \A k \in DOMAIN rs : Group(qs[k]) = Group(rs[k])
    BY <1>4, AlikeGroup DEF Alike
  <2>. SUFFICES ASSUME NEW h \in DOMAIN rs, NEW k \in DOMAIN rs, Group(rs[h]) = Group(rs[k]),
                       qs[h].status = qs[k].status, qs[h].status \in {"running", "pending"}
                PROVE  h = k
    BY <1>5, <2>1 DEF Exclusive
  <2>2. h # i /\ k # i
    BY <1>4
  <2>3. CASE Group(rs[h]) = Group(rs[i])
    <3>1. rs[h].status # "running" /\ rs[k].status # "running"
      BY <1>2, <1>3, <2>2, <2>3 DEF Exclusive
    <3>2. rs[h].status = "pending" /\ rs[k].status = "pending"
      BY <1>4, <2>2, <2>3, <3>1
    <3>. QED
      BY <1>3, <3>2 DEF Exclusive
  <2>4. CASE Group(rs[h]) # Group(rs[i])
    BY <1>3, <1>4, <2>2, <2>4 DEF Exclusive
  <2>. QED
    BY <2>3, <2>4
<1>7. \A k \in DOMAIN qs : Sound(qs[k])
  BY <1>3, <1>4, <1>5, AlikeSound
<1>. QED
  BY <1>2, <1>5, <1>6, <1>7, AllSound, QueueOnly DEF Finish

LEMMA DispatchIInv ==
  ASSUME IInv, NEW ref \in Branches, Dispatch(ref)
  PROVE  IInv'
<1>1. Grows
  BY DEF Grows, Dispatch, repo, published
<1>2. PICK rs, new, qs :
        rs = runs /\ qs = runs' /\ new = NewRun("release", ref, head[ref])
  OBVIOUS
<1>3. /\ rs \in Seq(RunType) /\ Exclusive(rs) /\ \A k \in DOMAIN rs : Sound(rs[k])
  BY <1>1, <1>2, RunsSound
<1>4. head[ref] \in DOMAIN commits /\ head[ref] \in Nat /\ ref \in Refs /\ ref # "main"
  BY PipelineAssumption DEF IInv, TypeOK, Refs
<1>5. /\ new \in RunType /\ new.wf = "release" /\ new.ref = ref /\ ~new.released
      /\ new.commit = head[ref] /\ new.mode = "new" /\ \A j \in Jobs : new.jobs[j] = "todo"
  BY <1>2, <1>4, NewRunFacts
<1>6. Sound(new)
  <2>1. new.commit \in DOMAIN commits'
    BY <1>1, <1>4, <1>5 DEF Grows
  <2>. QED
    BY <1>4, <1>5, <2>1 DEF Sound, Placed, Done
<1>7. qs \in Seq(RunType) /\ Exclusive(qs) /\ \A k \in DOMAIN qs : Sound(qs[k])
  BY <1>2, <1>3, <1>5, <1>6, EnqueueSound DEF Dispatch
<1>. QED
  BY <1>2, <1>7, AllSound, QueueOnly DEF Dispatch

LEMMA RerunIInv ==
  ASSUME IInv, NEW i \in DOMAIN runs, Rerun(i)
  PROVE  IInv'
<1>1. Grows
  BY DEF Grows, Rerun, repo, published
<1>2. PICK rs, qs, old, r :
        /\ rs = runs /\ qs = runs' /\ old = rs[i] /\ i \in DOMAIN rs
        /\ old.status \in {"cancelled", "done"}
        /\ \/ r = [old EXCEPT !.jobs = [j \in Jobs |-> IF old.jobs[j] = "ok" THEN "ok" ELSE "todo"]]
           \/ r = NewRun(old.wf, old.ref, old.commit)
        /\ qs = [Supersede(rs, r) EXCEPT ![i] = Admitted(rs, r)]
  BY DEF Rerun, Unfinished
<1>3. /\ rs \in Seq(RunType) /\ Exclusive(rs)
      /\ \A k \in DOMAIN rs : Sound(rs[k])
      /\ old \in RunType /\ Sound(old) /\ Placed(old) /\ Done(old)
  BY <1>1, <1>2, RunsSound
<1>4. /\ commits'[old.commit] = commits[old.commit] /\ old.commit \in DOMAIN commits'
      /\ old.commit \in Nat /\ old.wf \in {"release", "release-plz"}
      /\ old.ref \in Refs \union {"release/eql"}
  BY <1>1, <1>3 DEF Grows, Placed, RunType
<1>5. r \in RunType /\ Group(r) = Group(old) /\ Sound(r)
  <2>1. CASE r = [old EXCEPT !.jobs = [j \in Jobs |-> IF old.jobs[j] = "ok" THEN "ok" ELSE "todo"]]
    <3>1. /\ r \in RunType /\ r.wf = old.wf /\ r.ref = old.ref /\ r.commit = old.commit
          /\ r.mode = old.mode /\ r.released = old.released
          /\ \A j \in Jobs : r.jobs[j] = IF old.jobs[j] = "ok" THEN "ok" ELSE "todo"
      BY <1>3, <2>1 DEF RunType
    <3>2. Placed(r)'
      BY <1>3, <3>1 DEF Sound, Placed, Pinned, Version, Commit
    <3>3. Done(r)'
      BY <1>3, <3>1, JobNames DEF Sound, Done, Version, Commit
    <3>. QED
      BY <3>1, <3>2, <3>3, AlikeGroup DEF Sound
  <2>2. CASE r = NewRun(old.wf, old.ref, old.commit)
    <3>1. /\ r \in RunType /\ r.wf = old.wf /\ r.ref = old.ref /\ r.commit = old.commit
          /\ r.mode = (IF old.wf = "release" THEN "new" ELSE "crate") /\ ~r.released
          /\ \A j \in Jobs : r.jobs[j] = "todo"
      BY <1>4, <2>2, NewRunFacts
    <3>2. Placed(r)'
      BY <1>3, <1>4, <3>1 DEF Sound, Placed, Pinned, Version, Commit
    <3>3. Done(r)'
      BY <3>1 DEF Done
    <3>. QED
      BY <3>1, <3>2, <3>3, AlikeGroup DEF Sound
  <2>. QED
    BY <1>2, <2>1, <2>2
<1>. DEFINE sup == Supersede(rs, r)
            new == Admitted(rs, r)
<1>6. /\ sup \in Seq(RunType) /\ DOMAIN sup = DOMAIN rs
      /\ \A k \in DOMAIN rs :
           /\ Alike(sup[k], rs[k])
           /\ sup[k].status = IF rs[k].status = "pending" /\ Group(rs[k]) = Group(r)
                              THEN "cancelled" ELSE rs[k].status
  <2>1. rs \in Seq(RunType) /\ r \in RunType
    BY <1>3, <1>5
  <2>. QED
    BY <2>1, SupersedeFacts
<1>7. /\ new \in RunType /\ Alike(new, r) /\ new.status \in {"running", "pending"}
      /\ new.status = "running" =>
           \A k \in DOMAIN rs : ~(rs[k].status = "running" /\ Group(rs[k]) = Group(r))
  BY <1>3, <1>5, AdmittedFacts
<1>. HIDE DEF sup, new
<1>8. /\ qs \in Seq(RunType) /\ DOMAIN qs = DOMAIN rs /\ qs[i] = new
      /\ \A k \in DOMAIN rs \ {i} : qs[k] = sup[k]
  <2>1. qs = [sup EXCEPT ![i] = new]
    BY <1>2 DEF sup, new
  <2>2. sup \in Seq(RunType) /\ i \in DOMAIN sup /\ new \in RunType /\ DOMAIN sup = DOMAIN rs
    BY <1>2, <1>6, <1>7
  <2>. QED
    BY <2>1, <2>2, SetRun
<1>9. Exclusive(qs)
  <2>1. \A k \in DOMAIN rs : Group(qs[k]) = Group(rs[k])
    BY <1>2, <1>5, <1>6, <1>7, <1>8, AlikeGroup DEF Alike
  <2>2. ASSUME NEW k \in DOMAIN rs \ {i}, qs[k].status \in {"running", "pending"}
        PROVE  qs[k].status = rs[k].status
    BY <1>6, <1>8, <2>2
  <2>3. ASSUME NEW k \in DOMAIN rs \ {i}, Group(rs[k]) = Group(rs[i])
        PROVE  qs[k].status # qs[i].status
    BY <1>2, <1>5, <1>6, <1>7, <1>8, <2>3
  <2>. QED
    BY <1>2, <1>3, <1>8, <2>1, <2>2, <2>3 DEF Exclusive
<1>10. \A k \in DOMAIN qs : Sound(qs[k])
  <2>1. Sound(new)
    BY <1>5, <1>7, AlikeSound
  <2>2. ASSUME NEW k \in DOMAIN rs PROVE Sound(sup[k])
    BY <1>3, <1>6, AlikeSound
  <2>. QED
    BY <1>8, <2>1, <2>2
<1>. QED
  BY <1>2, <1>8, <1>9, <1>10, AllSound, QueueOnly DEF Rerun

\* A commit more, and on main a run of each workflow for it.
LEMMA PushIInv ==
  ASSUME IInv, NEW ref \in Refs, NEW c \in CommitType, Push(ref, c), pr' \in {0, pr},
         ref = "main" => c.version \in Finals
  PROVE  IInv'
<1>. DEFINE n == Len(commits) + 1
<1>1. /\ commits' \in Seq(CommitType) /\ n \in DOMAIN commits' /\ commits'[n] = c /\ n \in Nat
      /\ DOMAIN commits' = DOMAIN commits \union {n}
      /\ \A k \in DOMAIN commits : commits'[k] = commits[k]
  BY AppendProperties DEF Push, IInv, TypeOK
<1>2. Grows
  BY <1>1 DEF Grows, Push, published
<1>. HIDE DEF n
<1>3. RepoOK' /\ failures' \in Nat
  BY <1>1 DEF Push, IInv, TypeOK, RepoOK, MainIsFinal, Refs, n
<1>4. Published'
  <2>1. \A v \in Versions : Markers(v) \subseteq Markers(v)'
    BY <1>1 DEF Markers
  <2>2. PrereleaseFromMarker'
    BY <2>1 DEF Push, published, IInv, PrereleaseFromMarker, Versions
  <2>. QED
    BY <2>2 DEF Push, published, IInv, TypeOK, Published, FinalFromNpm, DocsBeforePackages,
       TagMeansPublished
<1>5. PICK rs, qs : rs = runs /\ qs = runs'
  OBVIOUS
<1>6. /\ rs \in Seq(RunType) /\ Exclusive(rs) /\ \A k \in DOMAIN rs : Sound(rs[k])
  BY <1>2, <1>5, RunsSound
<1>7. qs \in Seq(RunType) /\ Exclusive(qs) /\ \A k \in DOMAIN qs : Sound(qs[k])
  <2>1. CASE ref # "main"
    BY <1>5, <1>6, <2>1 DEF Push
  <2>2. CASE ref = "main"
    <3>1. PICK one, two, mid :
            /\ one = NewRun("release", ref, n) /\ two = NewRun("release-plz", ref, n)
            /\ mid = Enqueue(rs, one) /\ qs = Enqueue(mid, two)
      BY <1>5, <2>2 DEF Push, n
    <3>2. one \in RunType /\ Sound(one)
      <4>1. /\ one \in RunType /\ one.wf = "release" /\ one.ref = ref /\ ~one.released
            /\ one.commit = n /\ one.mode = "new" /\ \A j \in Jobs : one.jobs[j] = "todo"
        BY <1>1, <3>1, NewRunFacts
      <4>. QED
        BY <1>1, <2>2, <4>1 DEF Sound, Placed, Done, Version, Commit
    <3>3. two \in RunType /\ Sound(two)
      <4>1. /\ two \in RunType /\ two.wf = "release-plz" /\ two.ref = ref /\ ~two.released
            /\ two.commit = n /\ two.mode = "crate" /\ \A j \in Jobs : two.jobs[j] = "todo"
        BY <1>1, <3>1, NewRunFacts
      <4>. QED
        BY <1>1, <2>2, <4>1 DEF Sound, Placed, Done, Version, Commit
    <3>4. mid \in Seq(RunType) /\ Exclusive(mid) /\ \A k \in DOMAIN mid : Sound(mid[k])
      BY <1>6, <3>1, <3>2, EnqueueSound
    <3>. QED
      BY <3>1, <3>3, <3>4, EnqueueSound
  <2>. QED
    BY <2>1, <2>2
<1>8. runs' \in Seq(RunType) /\ OnePerGroup' /\ Accounted'
  BY <1>5, <1>7, AllSound
<1>. QED
  BY <1>3, <1>4, <1>8, Whole

LEMMA HeadType ==
  ASSUME IInv, NEW ref \in Refs
  PROVE  /\ commits[head[ref]] \in CommitType
         /\ ref = "main" => commits[head[ref]].version \in Finals
BY ElementOfSeq DEF IInv, TypeOK, MainIsFinal

LEMMA PeopleIInv ==
  ASSUME IInv, MergeFeature \/ MergeVersionPR
                 \/ \E ref \in Branches : \/ PushOther(ref) \/ Dispatch(ref)
                                         \/ \E v \in Prereleases \union {1} : PushMarker(ref, v)
  PROVE  IInv'
<1>. USE DEF Refs
<1>1. Len(commits) \in Nat
  BY DEF IInv, TypeOK
<1>2. CASE MergeFeature
  <2>1. [commits[head["main"]] EXCEPT !.changesets = @ \union {Len(commits) + 1}] \in CommitType
    BY <1>1, HeadType DEF CommitType
  <2>2. [commits[head["main"]] EXCEPT !.changesets = @ \union {Len(commits) + 1}].version \in Finals
    BY HeadType DEF CommitType
  <2>. QED
    BY <1>2, <2>1, <2>2, PushIInv DEF MergeFeature
<1>3. CASE MergeVersionPR
  <2>. DEFINE c == [commits[head["main"]] EXCEPT !.version = @ + 1,
                                                 !.changesets = @ \ commits[pr].changesets]
  <2>1. c \in CommitType /\ c.version \in Finals
    BY <1>3, HeadType DEF CommitType, MergeVersionPR, Versions
  <2>2. Push("main", c) /\ pr' = 0
    BY <1>3 DEF MergeVersionPR
  <2>. QED
    BY <2>1, <2>2, PushIInv
<1>4. CASE \E ref \in Branches : PushOther(ref)
  <2>1. PICK ref \in Branches : PushOther(ref)
    BY <1>4
  <2>2. [commits[head[ref]] EXCEPT !.marker = FALSE] \in CommitType /\ ref # "main"
    BY HeadType, PipelineAssumption DEF CommitType
  <2>. QED
    BY <2>1, <2>2, PushIInv DEF PushOther
<1>5. CASE \E ref \in Branches : \E v \in Prereleases \union {1} : PushMarker(ref, v)
  <2>1. PICK ref \in Branches, v \in Prereleases \union {1}, ready \in Prepared :
          /\ Push(ref, [version |-> v, changesets |-> {}, marker |-> TRUE, prepared |-> ready])
          /\ UNCHANGED pr
    BY <1>5 DEF PushMarker
  <2>2. /\ [version |-> v, changesets |-> {}, marker |-> TRUE, prepared |-> ready] \in CommitType
        /\ ref # "main"
    BY PipelineAssumption DEF CommitType, Versions
  <2>. QED
    BY <2>1, <2>2, PushIInv
<1>. QED
  BY <1>2, <1>3, <1>4, <1>5, DispatchIInv

LEMMA InitIInv == Init => IInv
<1>. SUFFICES ASSUME Init PROVE IInv
  OBVIOUS
<1>. USE PipelineAssumption
<1>1. npm = [v \in Versions |-> IF v = 1 THEN 1 ELSE 0] /\ 1 \in Versions
  BY DEF Init, Nothing, Versions
<1>2. /\ commits \in Seq(CommitType) /\ DOMAIN commits = {1} /\ commits[1].version = 1
  BY <1>1 DEF Init, CommitType
<1>3. TypeOK
  <2>1. /\ npm \in [Versions -> Nat] /\ crates = npm /\ sql = npm /\ docs = npm /\ images = npm
        /\ sqlTag = npm /\ tsTag = npm
    <3>1. npm \in [Versions -> Nat]
      BY <1>1
    <3>. QED
      BY <3>1 DEF Init
  <2>2. head \in [Refs -> DOMAIN commits] /\ pr \in {0} \union DOMAIN commits
    BY <1>2 DEF Init
  <2>3. runs \in Seq(RunType) /\ failures \in Nat
    BY DEF Init
  <2>. QED
    BY <1>2, <2>1, <2>2, <2>3 DEF TypeOK
<1>4. OnePerGroup /\ Accounted /\ MainIsFinal
  BY <1>2 DEF Init, OnePerGroup, Accounted, MainIsFinal, Refs
<1>5. FinalFromNpm /\ PrereleaseFromMarker /\ DocsBeforePackages /\ TagMeansPublished
  <2>1. npm \in [Versions -> Nat] /\ \A v \in Versions : npm[v] = IF v = 1 THEN 1 ELSE 0
    BY <1>1
  <2>2. crates = npm /\ sql = npm /\ docs = npm /\ images = npm /\ sqlTag = npm /\ tsTag = npm
    BY DEF Init
  <2>3. FinalFromNpm
    BY <2>1, <2>2 DEF FinalFromNpm, Versions
  <2>4. PrereleaseFromMarker
    BY <2>1, <2>2 DEF PrereleaseFromMarker, Versions
  <2>5. DocsBeforePackages /\ TagMeansPublished
    BY <2>1, <2>2 DEF DocsBeforePackages, TagMeansPublished, Versions
  <2>. QED
    BY <2>3, <2>4, <2>5
<1>. QED
  BY <1>3, <1>4, <1>5 DEF IInv

-----------------------------------------------------------------------------
\* Type correctness, and everything a run of the workflows is accountable for.
THEOREM Invariance == Spec => []IInv
<1>1. ASSUME IInv, [Next]_vars PROVE IInv'
  <2>1. ASSUME NEW i \in DOMAIN runs,
               \/ Rerun(i) \/ Finish(i) \/ JobFails(i) \/ Classify(i)
               \/ OpenVersionPR(i) \/ PublishFinal(i) \/ ResolveVersion(i)
               \/ BuildSql(i) \/ BuildDocs(i) \/ BuildImage(i)
               \/ PublishNpm(i) \/ TagTypescript(i) \/ DispatchRust(i) \/ PublishCrate(i)
        PROVE  IInv'
    BY <1>1, <2>1, RerunIInv, FinishIInv, JobFailsIInv, ClassifyIInv, OpenVersionPRIInv,
       PublishFinalIInv, ResolveVersionIInv, BuildSqlIInv, BuildDocsIInv, BuildImageIInv,
       PublishNpmIInv, TagTypescriptIInv, DispatchRustIInv, PublishCrateIInv
  <2>2. CASE UNCHANGED vars
    <3>1. /\ runs' = runs /\ commits' = commits /\ npm' = npm /\ sql' = sql /\ docs' = docs
          /\ crates' = crates /\ tsTag' = tsTag
      BY <2>2 DEF vars, repo, published
    <3>2. runs' \in Seq(RunType) /\ OnePerGroup'
      BY <1>1, <3>1 DEF IInv, TypeOK, OnePerGroup
    <3>3. Accounted'
      BY <1>1, <3>1 DEF IInv, Accounted, Placed, Done, Pinned, Version, Commit
    <3>. QED
      BY <1>1, <2>2, <3>2, <3>3, QueueOnly DEF vars
  <2>. QED
    BY <1>1, <2>1, <2>2, PeopleIInv DEF Next
<1>. QED
  BY <1>1, InitIInv, PTL DEF Spec

\* No two runs that publish crates are ever in progress together.
THEOREM CratesAloneHolds == Spec => []CratesAlone
<1>1. IInv => CratesAlone
  BY DEF IInv, OnePerGroup, CratesAlone, Group
<1>. QED
  BY <1>1, Invariance, PTL

\* No package of a prerelease is out before its SQL and its docs are.
THEOREM DocsBeforePackagesHolds == Spec => []DocsBeforePackages
<1>1. IInv => DocsBeforePackages
  BY DEF IInv
<1>. QED
  BY <1>1, Invariance, PTL

\* The tag that makes classify skip an identity means that its package is out.
THEOREM TagMeansPublishedHolds == Spec => []TagMeansPublished
<1>1. IInv => TagMeansPublished
  BY DEF IInv
<1>. QED
  BY <1>1, Invariance, PTL

\* All artefacts of a version are built from one commit.
THEOREM OneSourceHolds == Spec => []OneSource
<1>1. IInv => OneSource
  <2>. SUFFICES ASSUME IInv PROVE OneSource
    OBVIOUS
  <2>1. ASSUME NEW v \in Finals PROVE AtMostOne(Sources(v, {npm, sql, docs, images, sqlTag}))
    BY DEF IInv, FinalFromNpm, AtMostOne, Sources
  <2>2. ASSUME NEW v \in Prereleases, MarkedOnce(v)
        PROVE  AtMostOne(Sources(v, {npm, sql, docs, sqlTag, tsTag, crates}))
    <3>1. Sources(v, {npm, sql, docs, sqlTag, tsTag, crates}) \subseteq Markers(v)
      BY DEF IInv, PrereleaseFromMarker, Sources
    <3>2. AtMostOne(Markers(v))
      BY <2>2 DEF MarkedOnce, AtMostOne, Markers
    <3>. QED
      BY <3>1, <3>2 DEF AtMostOne
  <2>. QED
    BY <2>1, <2>2 DEF OneSource
<1>. QED
  BY <1>1, Invariance, PTL

=============================================================================
