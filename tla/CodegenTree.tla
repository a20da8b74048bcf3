---------------------------- MODULE CodegenTree ----------------------------
(***************************************************************************)
(* The generated SQL tree src/v3/scalars and the processes that rewrite it *)
(* (crates/eql-codegen/src/writer.rs and generate.rs): `eql-codegen`,      *)
(* which renders, preflights, writes each file by temp + rename and then   *)
(* prunes orphans, and `eql-codegen clean`.  Runs may be concurrent, may   *)
(* come from checkouts with different catalogs, may fail on I/O and may be *)
(* killed at any step, and developers edit files under them.  A file is    *)
(* "absent", "hand" (no marker on line 1), "partial" or the version of the *)
(* catalog that generated it.                                              *)
(***************************************************************************)
EXTENDS Naturals, FiniteSetsExt

CONSTANTS Paths,         \* .sql paths under the tree, ranked in sort order
          DirOf,         \* the directory of a path: a type's number, or Root
          Generators,    \* runs of `eql-codegen`
          Cleaners,      \* runs of `eql-codegen clean`
          Catalog,       \* the paths a generator's catalog renders
          Version,       \* the text a generator renders
          InitialTrees,  \* the trees the runs may find
          CanonicalRoot, \* the out root has no symlink, "." or ".." in it
          MaxStarts,     \* bound on the runs that are started
          MaxEdits       \* bound on edits by developers

Runs == Generators \union Cleaners
Root == 0                  \* src/v3/scalars itself, home of ore_fallback.sql
TypeDirs == {DirOf[p] : p \in Paths} \ {Root}
Dirs == TypeDirs \union {Root}

ASSUME CatalogAssumption ==
  /\ Paths \in (SUBSET Nat) \ {{}} /\ DirOf \in [Paths -> Nat]
  /\ Generators \intersect Cleaners = {}
  /\ Catalog \in [Generators -> SUBSET Paths]
  /\ \A g \in Generators : \E p \in Catalog[g] : DirOf[p] = Root
  /\ \A g \in Generators : Version[g] \notin {"absent", "hand", "partial"}
  /\ \A tree \in InitialTrees :
       DOMAIN tree = Paths /\ \A p \in Paths : tree[p] # "partial"
  /\ CanonicalRoot \in BOOLEAN /\ MaxStarts \in 1..Cardinality(Runs) /\ MaxEdits \in Nat

VARIABLES content,  \* what each path holds
          at,       \* where each run is
          dir,      \* the type a generator is on, Root once types are done
          todo,     \* targets of dir still to write
          written,  \* everything the run has written (all_written)
          cur,      \* the path a run has checked and is about to touch
          keep,     \* the set a sweep spares
          queue,    \* directories still to sweep
          listed,   \* entries of the directory being swept, as read_dir saw them
          temp,     \* what the temp files on disk hold, by their names
          edits,
          raced,    \* history: runs whose cur was edited since they checked it
          touched   \* history: paths others changed since the run started

vars == <<content, at, dir, todo, written, cur, keep, queue, listed, temp,
          edits, raced, touched>>
progress == <<dir, todo, written, cur, keep, queue, listed, temp>>

Generated(c) == c \notin {"absent", "hand"}
Targets(g, d) == {p \in Catalog[g] : DirOf[p] = d}
Over == {"ok", "failed", "killed"}
Started == {g \in Runs : at[g] # "idle"}

Init ==
  /\ content \in InitialTrees
  /\ at = [g \in Runs |-> "idle"]
  /\ dir = [g \in Runs |-> Root]
  /\ todo = [g \in Runs |-> {}] /\ written = [g \in Runs |-> {}]
  /\ cur = [g \in Runs |-> Min(Paths)]
  /\ keep = [g \in Runs |-> {}] /\ queue = [g \in Runs |-> {}]
  /\ listed = [g \in Runs |-> {}]
  /\ temp = <<>> /\ edits = 0 /\ raced = {}
  /\ touched = [g \in Runs |-> {}]

Goto(g, label) == at' = [at EXCEPT ![g] = label]

\* Path p now holds c by the hand of run g; everyone else's view is outdated.
Put(g, p, c) ==
  /\ content' = [content EXCEPT ![p] = c]
  /\ touched' = [h \in Runs |-> IF h # g /\ at[h] # "idle"
                                THEN touched[h] \union {p} ELSE touched[h]]

\* The type generate_all renders after d, in catalog order, or Root when done.
NextDir(g, d) ==
  LET later == {e \in TypeDirs : e > d /\ Targets(g, e) # {}}
  IN  IF later = {} THEN Root ELSE Min(later)

Start(g) ==
  /\ at[g] = "idle" /\ Cardinality(Started) < MaxStarts
  /\ IF g \in Generators
     THEN /\ dir' = [dir EXCEPT ![g] = NextDir(g, Root)]
          /\ Goto(g, "preflight")
          /\ UNCHANGED queue
     ELSE /\ queue' = [queue EXCEPT ![g] = Dirs]
          /\ Goto(g, "list")
          /\ UNCHANGED dir
  /\ UNCHANGED <<content, todo, written, cur, keep, listed, temp, edits, raced, touched>>

\* ensure_generated_paths_writable over all of a type's targets, before any write.
\* The reads are one step: each target is looked at again right before its write.
Preflight(g) ==
  /\ at[g] = "preflight"
  /\ IF \E p \in Targets(g, dir[g]) : content[p] = "hand"
     THEN Goto(g, "failed") /\ UNCHANGED todo
     ELSE Goto(g, "write") /\ todo' = [todo EXCEPT ![g] = Targets(g, dir[g])]
  /\ UNCHANGED <<content, dir, written, cur, keep, queue, listed, temp, edits, raced, touched>>

\* A bug to catch: write_generated_file trusts the preflight.
CheckOwnerSkipped(g) ==
  /\ at[g] = "write" /\ todo[g] # {}
  /\ cur' = [cur EXCEPT ![g] = Min(todo[g])]
  /\ raced' = raced \ {g}
  /\ Goto(g, "stage")
  /\ UNCHANGED <<content, dir, todo, written, keep, queue, listed, temp, edits, touched>>

\* The ownership check of write_generated_file.  A file that vanishes between its
\* lstat and its read is reported as an error.
CheckOwner(g) ==
  /\ at[g] = "write" /\ todo[g] # {}
  /\ LET p == Min(todo[g])
     IN  /\ cur' = [cur EXCEPT ![g] = p]
         /\ \/ content[p] = "hand" /\ Goto(g, "failed")
            \/ content[p] = "absent" /\ p \in touched[g] /\ Goto(g, "failed")
            \/ content[p] # "hand" /\ Goto(g, "stage")
  /\ raced' = raced \ {g}
  /\ UNCHANGED <<content, dir, todo, written, keep, queue, listed, temp, edits, touched>>

\* A bug to catch: the pid is left out, and the counter starts at 0 in every process.
TempNameShared(g) == [file |-> cur[g], n |-> Cardinality(written[g])]

\* ".{file_name}.tmp.{pid}.{n}" beside the target; n counts what the process has written.
TempName(g) == [file |-> cur[g], n |-> Cardinality(written[g]), pid |-> g]

Holding(name, c) ==
  [x \in DOMAIN temp \union {name} |-> IF x = name THEN c ELSE temp[x]]
Without(name) == [x \in DOMAIN temp \ {name} |-> temp[x]]

\* fs::write opens the temp file, empties it and is at writing the body.  No walk
\* meets the file: its name does not end in .sql.
Stage(g) ==
  /\ at[g] = "stage"
  /\ temp' = Holding(TempName(g), "partial")
  /\ Goto(g, "staging")
  /\ UNCHANGED <<content, dir, todo, written, cur, keep, queue, listed, edits, raced, touched>>

\* fs::write is through.
Staged(g) ==
  /\ at[g] = "staging"
  /\ temp' = Holding(TempName(g), Version[g])
  /\ Goto(g, "rename")
  /\ UNCHANGED <<content, dir, todo, written, cur, keep, queue, listed, edits, raced, touched>>

\* Whatever the temp file holds by now is what the target holds from here on.
Rename(g) ==
  /\ at[g] = "rename" /\ TempName(g) \in DOMAIN temp
  /\ Put(g, cur[g], temp[TempName(g)])
  /\ temp' = Without(TempName(g))
  /\ written' = [written EXCEPT ![g] = @ \union {cur[g]}]
  /\ todo' = [todo EXCEPT ![g] = @ \ {cur[g]}]
  /\ Goto(g, "write")
  /\ UNCHANGED <<dir, cur, keep, queue, listed, edits, raced>>

\* create_dir_all, fs::write or fs::rename fails, and the run returns the error.  That
\* the temp file could not be removed either is not looked at.
WriteFails(g) ==
  /\ at[g] \in {"stage", "staging", "rename"}
  /\ temp' \in {temp, Without(TempName(g))}
  /\ Goto(g, "failed")
  /\ UNCHANGED <<content, dir, todo, written, cur, keep, queue, listed, edits, raced, touched>>

\* normalized_set: a path that is gone cannot be canonicalised and is kept under
\* its raw name, which is the name a sweep looks up only if the root is canonical.
Normalized(ps) == IF CanonicalRoot THEN ps ELSE {p \in ps : content[p] # "absent"}

\* A bug to catch: the last sweep spares only what was written last.
BeginSweepForgetful(g) ==
  /\ at[g] = "write" /\ todo[g] = {}
  /\ keep' = [keep EXCEPT ![g] = Normalized({p \in written[g] : DirOf[p] = dir[g]})]
  /\ queue' = [queue EXCEPT ![g] = IF dir[g] = Root THEN Dirs ELSE {dir[g]}]
  /\ Goto(g, "list")
  /\ UNCHANGED <<content, dir, todo, written, cur, listed, temp, edits, raced, touched>>

\* A bug to catch: only directories the generator revisits are swept.
BeginSweepRevisited(g) ==
  /\ at[g] = "write" /\ todo[g] = {}
  /\ keep' = [keep EXCEPT ![g] = Normalized(IF dir[g] = Root THEN written[g]
                            ELSE {p \in written[g] : DirOf[p] = dir[g]})]
  /\ queue' = [queue EXCEPT ![g] = {dir[g]}]
  /\ Goto(g, "list")
  /\ UNCHANGED <<content, dir, todo, written, cur, listed, temp, edits, raced, touched>>

\* After a type: prune its own directory.  After ore_fallback.sql, the last file
\* written: prune every type directory, then the root, sparing all_written.
BeginSweep(g) ==
  /\ at[g] = "write" /\ todo[g] = {}
  /\ IF dir[g] = Root
     THEN /\ keep' = [keep EXCEPT ![g] = Normalized(written[g])]
          /\ queue' = [queue EXCEPT ![g] = Dirs]
     ELSE /\ keep' = [keep EXCEPT ![g] =
                        Normalized({p \in written[g] : DirOf[p] = dir[g]})]
          /\ queue' = [queue EXCEPT ![g] = {dir[g]}]
  /\ Goto(g, "list")
  /\ UNCHANGED <<content, dir, todo, written, cur, listed, temp, edits, raced, touched>>

\* The types are swept in order; a generator leaves the root for the last, a clean
\* begins with it.
NextSwept(g) ==
  IF g \in Generators /\ queue[g] # {Root} THEN Min(queue[g] \ {Root}) ELSE Min(queue[g])

ReadDir(g) ==
  /\ at[g] = "list" /\ queue[g] # {}
  /\ listed' = [listed EXCEPT ![g] =
                  {p \in Paths : DirOf[p] = NextSwept(g) /\ content[p] # "absent"}]
  /\ queue' = [queue EXCEPT ![g] = @ \ {NextSwept(g)}]
  /\ Goto(g, "sweep")
  /\ UNCHANGED <<content, dir, todo, written, cur, keep, temp, edits, raced, touched>>

\* One entry: spared, not generated, or to be removed.  One that is gone by now
\* is skipped, or is an error if it went between is_file and the read.
Examine(g) ==
  /\ at[g] = "sweep" /\ listed[g] # {}
  /\ LET p == Min(listed[g])
     IN  /\ cur' = [cur EXCEPT ![g] = p]
         /\ \/ /\ p \in keep[g] \/ ~Generated(content[p])
               /\ listed' = [listed EXCEPT ![g] = @ \ {p}]
               /\ UNCHANGED at
            \/ /\ p \notin keep[g] /\ Generated(content[p])
               /\ Goto(g, "unlink") /\ UNCHANGED listed
            \/ /\ p \notin keep[g] /\ content[p] = "absent"
               /\ Goto(g, "failed") /\ UNCHANGED listed
  /\ raced' = raced \ {g}
  /\ UNCHANGED <<content, dir, todo, written, keep, queue, temp, edits, touched>>

Unlink(g) ==
  /\ at[g] = "unlink"
  /\ IF content[cur[g]] = "absent"
     THEN Goto(g, "failed") /\ UNCHANGED <<content, touched, listed>>
     ELSE /\ Put(g, cur[g], "absent")
          /\ listed' = [listed EXCEPT ![g] = @ \ {cur[g]}]
          /\ Goto(g, "sweep")
  /\ UNCHANGED <<dir, todo, written, cur, keep, queue, temp, edits, raced>>

DirDone(g) ==
  /\ at[g] = "sweep" /\ listed[g] = {}
  /\ Goto(g, "list")
  /\ UNCHANGED <<content, progress, edits, raced, touched>>

SweepDone(g) ==
  /\ at[g] = "list" /\ queue[g] = {}
  /\ IF g \in Cleaners \/ dir[g] = Root
     THEN Goto(g, "ok") /\ UNCHANGED dir
     ELSE Goto(g, "preflight") /\ dir' = [dir EXCEPT ![g] = NextDir(g, @)]
  /\ UNCHANGED <<content, todo, written, cur, keep, queue, listed, temp, edits, raced, touched>>

\* Ctrl-C, a CI timeout, a crash: the process is gone, its temp file is not.
Kill(g) ==
  /\ at[g] \notin Over \union {"idle"}
  /\ Goto(g, "killed")
  /\ UNCHANGED <<content, progress, edits, raced, touched>>

\* A developer writes a file by hand, or strips the marker of a generated one.
Edit(p) ==
  /\ edits < MaxEdits /\ content[p] # "hand"
  /\ edits' = edits + 1
  /\ content' = [content EXCEPT ![p] = "hand"]
  /\ touched' = [h \in Runs |-> IF at[h] # "idle" THEN touched[h] \union {p}
                                                  ELSE touched[h]]
  /\ raced' = raced \union {g \in Runs : cur[g] = p}
  /\ UNCHANGED <<at, progress>>

RunStep(g) ==
  \/ Start(g) \/ ReadDir(g) \/ Examine(g) \/ Unlink(g) \/ DirDone(g) \/ SweepDone(g)
  \/ Kill(g)
  \/ /\ g \in Generators
     /\ \/ Preflight(g) \/ CheckOwner(g) \/ Stage(g) \/ Staged(g) \/ Rename(g)
        \/ WriteFails(g) \/ BeginSweep(g)

\* Nothing is left to do.
AllOver ==
  /\ Cardinality(Started) = MaxStarts /\ \A g \in Started : at[g] \in Over
  /\ UNCHANGED vars

Next == (\E g \in Runs : RunStep(g)) \/ (\E p \in Paths : Edit(p)) \/ AllOver

Spec == Init /\ [][Next]_vars

-----------------------------------------------------------------------------
(* The inductive invariant.                                                *)

Labels == {"idle", "preflight", "write", "stage", "staging", "rename", "list", "sweep", "unlink"} \union Over

TypeOK ==
  /\ DOMAIN content = Paths
  /\ at \in [Runs -> Labels] /\ dir \in [Runs -> Dirs]
  /\ todo \in [Runs -> SUBSET Paths] /\ written \in [Runs -> SUBSET Paths]
  /\ cur \in [Runs -> Paths] /\ keep \in [Runs -> SUBSET Paths]
  /\ queue \in [Runs -> SUBSET Dirs] /\ listed \in [Runs -> SUBSET Paths]
  /\ \A name \in DOMAIN temp : name.file \in Paths /\ name.pid \in Runs
  /\ edits \in Nat /\ raced \subseteq Runs
  /\ touched \in [Runs -> SUBSET Paths]

\* What a run has checked is without a hand-written file until somebody edits it.
Guarded ==
  \A g \in Runs \ raced : at[g] \in {"stage", "staging", "rename", "unlink"} => content[cur[g]] # "hand"

\* What a run is about to rename is all of its own text, though other runs stage the same
\* path: the pid in the name keeps them apart.
Own ==
  \A g \in Runs : at[g] = "rename" => /\ TempName(g) \in DOMAIN temp
                                     /\ temp[TempName(g)] = Version[g]

\* A run touches nothing before it starts, and a clean writes nothing.
Quiet == \A g \in Runs : at[g] = "idle" \/ g \in Cleaners => written[g] = {}

\* Only generators write, each on what is left of the targets of its type.
Writing ==
  \A g \in Runs :
    /\ at[g] \in {"preflight", "write", "stage", "staging", "rename"} => g \in Generators
    /\ at[g] \in {"write", "stage", "staging", "rename"} => todo[g] \subseteq Targets(g, dir[g])
    /\ at[g] \in {"stage", "staging", "rename"} => cur[g] \in todo[g]

\* Nothing but its own catalog is written, and it stays unless somebody else changes it.
Written ==
  \A g \in Generators :
    /\ written[g] \subseteq Catalog[g]
    /\ \A p \in written[g] \ touched[g] : content[p] = Version[g]

\* The types before the present one are written, and of the present one all but todo.
CoveredBy(g, p) ==
  /\ DirOf[p] # Root /\ (dir[g] = Root \/ DirOf[p] < dir[g]) => p \in written[g]
  /\ DirOf[p] = dir[g] /\ at[g] \in {"write", "stage", "staging", "rename"} =>
       p \in written[g] \union todo[g]
  /\ DirOf[p] = dir[g] /\ at[g] \in {"list", "sweep", "unlink", "ok"} => p \in written[g]

Covered == \A g \in Generators : \A p \in Catalog[g] : at[g] # "idle" => CoveredBy(g, p)

\* What a sweep is about to remove is not spared, and what it has listed is in its scope.
Sweeping ==
  \A g \in Runs :
    /\ at[g] \notin {"sweep", "unlink", "failed", "killed"} => listed[g] = {}
    /\ at[g] = "unlink" => cur[g] \in listed[g] \ keep[g]
    /\ g \in Generators /\ at[g] \in {"list", "sweep", "unlink"} =>
         /\ keep[g] \subseteq written[g]
         /\ dir[g] # Root => /\ queue[g] \subseteq {dir[g]}
                             /\ \A p \in listed[g] : DirOf[p] = dir[g]
    /\ g \in Generators /\ at[g] = "ok" => dir[g] = Root /\ queue[g] = {}

\* Everything written in its scope is spared, but for what somebody else has removed.
Spared ==
  \A g \in Generators : at[g] \in {"list", "sweep", "unlink"} =>
    \A p \in written[g] :
      /\ dir[g] = Root \/ DirOf[p] = dir[g]
      /\ CanonicalRoot \/ p \notin touched[g]
      => p \in keep[g]

\* The last sweep leaves nothing generated behind it that is not of the catalog.
Pruned ==
  \A g \in Generators : dir[g] = Root /\ at[g] \in {"list", "sweep", "unlink", "ok"} =>
    \A p \in Paths \ (Catalog[g] \union touched[g]) :
      DirOf[p] \notin queue[g] /\ p \notin listed[g] => ~Generated(content[p])

-----------------------------------------------------------------------------
\* "Hand-written files are always preserved": no run overwrites or deletes a file
\* that was without marker when the run looked at it, and it looks again right
\* before each write and each removal.  Only an edit inside that window is lost.
HandWrittenKept ==
  [][\A p \in Paths : content[p] = "hand" /\ content'[p] # "hand" =>
       \E g \in raced : cur[g] = p /\ at[g] \in {"rename", "unlink"}]_vars

\* A reader of the tree, such as `eql-codegen order` or the concatenation of
\* build.sh, never meets a half-written file: no rename publishes a temp file that
\* somebody is still writing, be it another run that generates the same path.
NeverTorn == \A p \in Paths : content[p] # "partial"

\* An aborted or concurrent run never leaves the tree stripped: a generator
\* removes no file its own catalog renders.
NeverStripped ==
  [][\A g \in Generators : \A p \in Catalog[g] :
       at[g] = "unlink" /\ cur[g] = p /\ at'[g] = "sweep" => content'[p] # "absent"]_vars

\* A run that reports success leaves exactly its catalog, whatever killed, failed
\* or concurrent runs left before or around it: every path nobody else changed in
\* the meantime holds its own text, or is no generated file at all.
SuccessIsExact ==
  \A g \in Generators : at[g] = "ok" =>
    \A p \in Paths \ touched[g] :
      IF p \in Catalog[g] THEN content[p] = Version[g] ELSE ~Generated(content[p])

\* Together inductive: what a run has written, checked, spared and swept is as it left it,
\* but for what others touched since.
IInv ==
  /\ TypeOK /\ NeverTorn /\ Own /\ Guarded /\ Quiet /\ Writing /\ Written /\ Covered
  /\ Sweeping /\ Spared /\ Pruned
=============================================================================
