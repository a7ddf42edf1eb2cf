--------------------------- MODULE DeployRelease ---------------------------
(***************************************************************************)
(* The release of a deploy repo: people deploy on chain, cut a snapshot in *)
(* a pull request that the append-only gate checks (frozen_snapshots.rs,   *)
(* at the grain of one record per version), merge it and push a sol-v tag; *)
(* rainix-tag-release.yaml then checks the tagged commit (release_guard.rs)*)
(* and publishes.  Nothing serializes the jobs, and tags may be pushed on  *)
(* any commit, again and again.                                            *)
(*                                                                         *)
(* Pins are a function of the source (CREATE2), and injective: the pins of *)
(* a source are written as the source itself.  Versions are in the order   *)
(* of release_guard.rs's tag_cmp.                                          *)
(***************************************************************************)
EXTENDS Integers, Sequences, FiniteSets

CONSTANTS
  Sources,     \* what the contracts' source can be
  NoPins,      \* stands for an absent snapshot
  MaxVersion,  \* versions are 1..MaxVersion
  MaxPRs,      \* bound on pull requests
  MaxRuns,     \* bound on tag pushes
  MaxWipes,    \* bound on pull requests that delete all of src/generated
  MaxFailures  \* bound on failing steps

ASSUME ReleaseAssumption ==
  /\ Sources # {}
  /\ NoPins \notin Sources
  /\ MaxVersion \in Nat
  /\ MaxPRs \in Nat
  /\ MaxRuns \in Nat
  /\ MaxWipes \in Nat
  /\ MaxFailures \in Nat

VARIABLES
  main,      \* the trees of the release branch
  prs,       \* the pull requests: [base, tree, state]
  chain,     \* the sources whose contracts are deployed on chain
  runs,      \* the workflow runs, one per tag push: [version, at, step]
  registry,  \* registry[v]: the revision published as v, a set of at most one
  releases,  \* the versions with a GitHub release
  failures   \* how many steps failed

vars == <<main, prs, chain, runs, registry, releases, failures>>

Versions == 1..MaxVersion
Pins == Sources \cup {NoPins}
Tree == [source : Sources, candidate : Pins, record : [Versions -> Pins],
         version : 0..MaxVersion]
\* A commit is a commit of main or the head of a pull request.
Place == [on : {"main", "pr"}, index : Nat \ {0}]
Steps == {"guard", "attest", "check", "publish", "release", "success", "failure"}

TypeOK ==
  /\ main \in Seq(Tree)
  /\ prs \in Seq([base : Nat \ {0}, tree : Tree,
                  state : {"open", "merged", "squashed"}, wipes : BOOLEAN])
  /\ chain \subseteq Sources
  /\ runs \in Seq([version : Versions, at : Place, step : Steps])
  /\ registry \in [Versions -> SUBSET [pins : Sources, source : Sources, run : Nat \ {0}]]
  /\ \A v \in Versions : Cardinality(registry[v]) <= 1
  /\ releases \subseteq Versions
  /\ failures \in Nat

Tip == main[Len(main)]
Frozen(tree) == {v \in Versions : tree.record[v] # NoPins}
Latest(tree) == IF Frozen(tree) = {} THEN 0
                ELSE CHOOSE v \in Frozen(tree) : \A w \in Frozen(tree) : w <= v
TreeAt(place) ==
  IF place.on = "main" THEN main[place.index] ELSE prs[place.index].tree

-----------------------------------------------------------------------------
\* The append-only gate on a pull request, against its merge base: every
\* snapshot of the base survives.  It is skipped when HEAD has no src/generated.
HasGenerated(tree) == tree.candidate # NoPins \/ Frozen(tree) # {}
AppendOnlyKeepsEdits(base, tree) ==
  HasGenerated(tree) => Frozen(base) \subseteq Frozen(tree)
AppendOnly(base, tree) ==
  HasGenerated(tree) => \A v \in Frozen(base) : tree.record[v] = base.record[v]

\* What people propose on top of main: new source, regenerated or not; a cut
\* of a version; a version without a cut; any edit of a snapshot by hand; the
\* removal of src/generated.
\* The gate is required: a pull request it fails is never merged, and a tag on
\* its head is refused like one on any other unmerged commit.
Edits(tree) ==
  (UNION {{[tree EXCEPT !.source = s, !.candidate = c] :
             c \in {s, tree.candidate}} : s \in Sources})
  \cup {[tree EXCEPT !.record[v] = tree.candidate, !.version = v] : v \in Versions}
  \cup {[tree EXCEPT !.version = v] : v \in Versions}
  \cup {[tree EXCEPT !.record[v] = p] : v \in Versions, p \in Pins}
Wiped(tree) ==
  [tree EXCEPT !.candidate = NoPins, !.record = [v \in Versions |-> NoPins]]

Open(tree, wipes) ==
  /\ Len(prs) < MaxPRs
  /\ tree # Tip
  /\ AppendOnly(Tip, tree)
  /\ prs' = Append(prs, [base |-> Len(main), tree |-> tree, state |-> "open",
                         wipes |-> wipes])
  /\ UNCHANGED <<main, chain, runs, registry, releases, failures>>

OpenPR == \E tree \in Edits(Tip) : Open(tree, FALSE)
OpenWipe ==
  /\ Cardinality({i \in 1..Len(prs) : prs[i].wipes}) < MaxWipes
  /\ Open(Wiped(Tip), TRUE)

\* Git's three-way merge of one file, and when it conflicts.
Merge3(base, ours, theirs) == IF theirs = base THEN ours ELSE theirs
Clean3(base, ours, theirs) == ~(theirs # base /\ ours # base /\ ours # theirs)

CleanMerge(base, ours, theirs) ==
  /\ Clean3(base.source, ours.source, theirs.source)
  /\ Clean3(base.candidate, ours.candidate, theirs.candidate)
  /\ Clean3(base.version, ours.version, theirs.version)
  /\ \A v \in Versions : Clean3(base.record[v], ours.record[v], theirs.record[v])
Merged(base, ours, theirs) ==
  [source |-> Merge3(base.source, ours.source, theirs.source),
   candidate |-> Merge3(base.candidate, ours.candidate, theirs.candidate),
   version |-> Merge3(base.version, ours.version, theirs.version),
   record |-> [v \in Versions |->
                Merge3(base.record[v], ours.record[v], theirs.record[v])]]

\* The gate's verdict is not repeated when main moves.  A merge commit makes the
\* head of the pull request an ancestor of main, a squash does not.
MergePR(i, how) ==
  /\ prs[i].state = "open"
  /\ CleanMerge(main[prs[i].base], Tip, prs[i].tree)
  /\ main' = Append(main, Merged(main[prs[i].base], Tip, prs[i].tree))
  /\ prs' = [prs EXCEPT ![i].state = how]
  /\ UNCHANGED <<chain, runs, registry, releases, failures>>

\* rainix-manual-sol-artifacts, dispatched by people on a commit.
Deploy(s) ==
  /\ s \notin chain
  /\ s \in {main[i].source : i \in 1..Len(main)} \cup {prs[i].tree.source : i \in 1..Len(prs)}
  /\ chain' = chain \cup {s}
  /\ UNCHANGED <<main, prs, runs, registry, releases, failures>>

\* A sol-v tag is pushed, on any commit and possibly not for the first time.
PushTag(v, place) ==
  /\ Len(runs) < MaxRuns
  /\ place.index <= (IF place.on = "main" THEN Len(main) ELSE Len(prs))
  /\ runs' = Append(runs, [version |-> v, at |-> place, step |-> "guard"])
  /\ UNCHANGED <<main, prs, chain, registry, releases, failures>>

-----------------------------------------------------------------------------
StepIs(r, step) == runs[r].step = step
Goto(r, step) == runs' = [runs EXCEPT ![r].step = step]
Tagged(r) == TreeAt(runs[r].at)

\* Job guard: the tagged commit is an ancestor of the release branch now.
OnMainOrOpen(place) == place.on = "main" \/ prs[place.index].state # "squashed"
OnMain(place) == place.on = "main" \/ prs[place.index].state = "merged"

Guard(r) ==
  /\ StepIs(r, "guard")
  /\ Goto(r, IF OnMain(runs[r].at) THEN "attest" ELSE "failure")
  /\ UNCHANGED <<main, prs, chain, registry, releases, failures>>

\* The fork suite, on the tagged tree's rolling pins.
Attest(r) ==
  /\ StepIs(r, "attest")
  /\ Goto(r, IF Tagged(r).candidate \in chain THEN "check" ELSE "failure")
  /\ UNCHANGED <<main, prs, chain, registry, releases, failures>>

\* The regeneration and release-guard's four invariants.
RegeneratedSkipped(tree) == tree.candidate
Regenerated(tree) == tree.source
VersionMatches(tree, v) == tree.version = v
NewerByTwo(tree, v) == {w \in Frozen(tree) : w > v + 1}
Newer(tree, v) == {w \in Frozen(tree) : w > v}
CleanTree(tree) == tree.candidate = Regenerated(tree)
RecordMatches(tree, v) == v \in Frozen(tree) /\ tree.record[v] = Regenerated(tree)

GuardAccepts(tree, v) ==
  /\ VersionMatches(tree, v)
  /\ Newer(tree, v) = {}
  /\ CleanTree(tree)
  /\ RecordMatches(tree, v)

Check(r) ==
  /\ StepIs(r, "check")
  /\ Goto(r, IF GuardAccepts(Tagged(r), runs[r].version) THEN "publish" ELSE "failure")
  /\ UNCHANGED <<main, prs, chain, registry, releases, failures>>

\* The registry refuses a version it has; an upload may be stored although the
\* step fails.
Revision(r) ==
  [pins |-> Tagged(r).record[runs[r].version], source |-> Tagged(r).source, run |-> r]

Publish(r) ==
  /\ StepIs(r, "publish")
  /\ LET v == runs[r].version IN
       \/ /\ registry[v] # {}
          /\ Goto(r, "failure")
          /\ UNCHANGED <<registry, failures>>
       \/ /\ registry[v] = {}
          /\ registry' = [registry EXCEPT ![v] = {Revision(r)}]
          /\ \/ Goto(r, "release") /\ UNCHANGED failures
             \/ /\ failures < MaxFailures
                /\ failures' = failures + 1
                /\ Goto(r, "failure")
  /\ UNCHANGED <<main, prs, chain, releases>>

Release(r) ==
  /\ StepIs(r, "release")
  /\ releases' = releases \cup {runs[r].version}
  /\ Goto(r, "success")
  /\ UNCHANGED <<main, prs, chain, registry, failures>>

Crash(r) ==
  /\ ~StepIs(r, "success") /\ ~StepIs(r, "failure")
  /\ failures < MaxFailures
  /\ failures' = failures + 1
  /\ Goto(r, "failure")
  /\ UNCHANGED <<main, prs, chain, registry, releases>>

\* People re-run a failed job; it starts over on the same commit.
Rerun(r) ==
  /\ StepIs(r, "failure")
  /\ Goto(r, "guard")
  /\ UNCHANGED <<main, prs, chain, registry, releases, failures>>

-----------------------------------------------------------------------------
\* A deploy repo before its first release: source, fresh candidate, no record.
Init ==
  /\ \E s \in Sources :
       main = <<[source |-> s, candidate |-> s, version |-> 0,
                 record |-> [v \in Versions |-> NoPins]]>>
  /\ prs = <<>>
  /\ chain = {}
  /\ runs = <<>>
  /\ registry = [v \in Versions |-> {}]
  /\ releases = {}
  /\ failures = 0

People ==
  \/ OpenPR \/ OpenWipe
  \/ \E i \in 1..Len(prs), how \in {"merged", "squashed"} : MergePR(i, how)
  \/ \E s \in Sources : Deploy(s)
  \/ \E v \in Versions, on \in {"main", "pr"}, index \in 1..(MaxPRs + 1) :
       PushTag(v, [on |-> on, index |-> index])

Workflow(r) ==
  \/ Guard(r) \/ Attest(r) \/ Check(r) \/ Publish(r) \/ Release(r)
  \/ Crash(r) \/ Rerun(r)

Next == People \/ \E r \in 1..Len(runs) : Workflow(r)

Spec == Init /\ [][Next]_vars

-----------------------------------------------------------------------------
(***************************************************************************)
(* Properties.                                                             *)
(***************************************************************************)

\* Published pins are the pins of the published source and are on the chain,
\* although the suite attests the committed candidate before the regeneration,
\* and the record, the candidate and the source are edited by hand in separate
\* pull requests (header of release_guard.rs, invariant 4).
PublishedPinsAreDeployed ==
  \A v \in Versions : \A rev \in registry[v] : rev.pins = rev.source /\ rev.pins \in chain

\* Consumers may rely on published pins: from then on the release branch
\* carries them in every commit, whichever pull requests, cut before or after
\* the publish, are merged (header of frozen_snapshots.rs).  The gate's action
\* knows one way around it, the removal of all of src/generated, which is left
\* out here as it is there.
PublishedRecordStands ==
  (\A i \in 1..Len(prs) : ~prs[i].wipes) =>
   \A v \in Versions : \A rev \in registry[v] : Tip.record[v] = rev.pins

\* What is published was merged: no commit that only a branch has is released,
\* and GitHub releases name published versions (job guard, step GitHub Release).
PublishedIsMerged ==
  /\ \A v \in Versions : \A rev \in registry[v] : LET at == runs[rev.run].at IN
       at.on = "pr" => prs[at.index].state = "merged"
  /\ \A v \in releases : registry[v] # {}

\* "Re-tagging a version the record has already moved past is not a release"
\* (header of release_guard.rs, invariant 3). The record is the tagged commit's
\* own: what is published is the newest version that commit has frozen, and the
\* version its manifest names, whatever order tags and merges came in. A tag on
\* an older commit does not see what the branch has frozen since.
ReleaseFollowsItsRecord ==
  \A v \in Versions : \A rev \in registry[v] :
    LET tree == TreeAt(runs[rev.run].at)
    IN  Latest(tree) = v /\ tree.version = v
=============================================================================
