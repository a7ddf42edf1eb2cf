----------------------------- MODULE BranchLane -----------------------------
(***************************************************************************)
(* The cargo and npm lanes of rainix-autopublish.yaml.  Unlike the Soldeer *)
(* lane they write the branch: the job bumps the version in a release      *)
(* commit, rebases it onto whatever was pushed meanwhile, pushes commit    *)
(* and tags, and only then publishes, package after package.               *)
(*                                                                         *)
(* A position is an index of the branch, which only grows.  The registry   *)
(* keeps, for every published revision, the position whose tree was        *)
(* uploaded.  Versions are counted in bumps.                               *)
(***************************************************************************)
EXTENDS Integers, Sequences, FiniteSets

CONSTANTS
  MaxPushes,     \* bound on commits people push
  MaxBumps,      \* bound on versions people change by hand
  MaxBranch,     \* bound on the length of the branch
  Texts,         \* what the packaged content can be
  Packages,      \* number of crates, published in the order 1, 2, ...
  Npm,           \* the npm lane, with one package, or the cargo lane
  MaxReruns,     \* bound on job re-runs
  MaxFailures    \* bound on failing steps

Positions == 1..MaxBranch
Order == 1..Packages

ASSUME BranchAssumption ==
  /\ MaxPushes \in Nat
  /\ MaxBumps \in Nat
  /\ MaxBranch \in Nat
  /\ Texts # {}
  /\ Packages \in Nat \ {0}
  /\ Npm \in BOOLEAN
  /\ MaxReruns \in Nat
  /\ MaxFailures \in Nat

VARIABLES
  branch,    \* the commits of the release branch: [text, ver, by]
  ci,        \* ci[p]: the other workflow runs on commit p, green or not
  job,       \* job[p]: where the job of the push of p is
  head,      \* head[p]: the local HEAD of that job, [ver, env, top, ahead]
  turn,      \* turn[p]: the package that job publishes next
  registry,  \* registry[k]: the revisions of package k, [text, ver, top]
  tags,      \* the pushed package tags: a set of <<package, version, position>>
  reruns,    \* how many jobs were re-run
  failures,  \* how many steps failed
  green      \* history: the positions whose CI was green at some moment

local  == <<head, turn>>
remote == <<branch, registry, tags>>
vars == <<remote, ci, job, local, reruns, failures, green>>

Running  == {"gate", "ci", "bump", "rebase", "push", "pushTags", "publish"}
Finished == {"success", "failure", "cancelled"}
Commit   == [text : Texts, ver : Nat, by : {"human", "release"}]
\* `env`: the version as bumped (NPM_VERSION); `top`: the branch position HEAD
\* sits on; `ahead`: release commits on top of it.
LocalHead ==
  [ver : Nat, env : Nat, top : 0..MaxBranch, ahead : 0..1]
Revision == [text : Texts, ver : Nat, top : Positions]

TypeOK ==
  /\ branch \in Seq(Commit)
  /\ Len(branch) <= MaxBranch
  /\ ci \in [Positions -> {"green", "other"}]
  /\ job \in [Positions -> {"none", "pending"} \cup Running \cup Finished]
  /\ head \in [Positions -> LocalHead]
  /\ turn \in [Positions -> Order]
  /\ registry \in [Order -> Seq(Revision)]
  /\ tags \subseteq Order \X Nat \X Positions
  /\ reruns \in Nat
  /\ failures \in Nat
  /\ green \subseteq Positions

Newest(k) == registry[k][Len(registry[k])]
Pushes == {p \in 1..Len(branch) : branch[p].by = "human"}

-----------------------------------------------------------------------------
\* The concurrency group, as in SoldeerLane.
Enqueue(p) ==
  job' = [q \in Positions |-> IF q = p THEN "pending"
                              ELSE IF job[q] = "pending" THEN "cancelled"
                              ELSE job[q]]
GroupFreeUngrouped == TRUE
GroupFree == \A p \in Positions : job[p] \notin Running

\* People push on top of the branch, with a version bump of their own or
\* without.  A release commit is pushed by its own job (PushCommit) and queues
\* nothing: the `if` on "Package Release".
VersionAt(p) == IF p = 0 THEN 0 ELSE branch[p].ver
Bumps == {p \in Pushes : branch[p].ver # VersionAt(p - 1)}

Push(text, bump) ==
  /\ Cardinality(Pushes) < MaxPushes
  /\ Len(branch) < MaxBranch
  /\ Cardinality(Bumps) + bump <= MaxBumps
  /\ branch' = Append(branch,
       [text |-> text, ver |-> VersionAt(Len(branch)) + bump, by |-> "human"])
  /\ Enqueue(Len(branch) + 1)
  /\ UNCHANGED <<registry, tags, ci, local, reruns, failures, green>>

CiReports(p, s) ==
  /\ p \in Pushes
  /\ ci' = [ci EXCEPT ![p] = s]
  /\ green' = IF s = "green" THEN green \cup {p} ELSE green
  /\ UNCHANGED <<remote, job, local, reruns, failures>>

Rerun(p) ==
  /\ job[p] \in Finished
  /\ reruns < MaxReruns
  /\ reruns' = reruns + 1
  /\ Enqueue(p)
  /\ UNCHANGED <<remote, ci, local, failures, green>>

-----------------------------------------------------------------------------
\* A release commit changes the version only.
HeadText(p) == branch[head[p].top].text

At(p, step) == job[p] = step
Goto(p, step) == job' = [job EXCEPT ![p] = step]

\* The runner's checkout is gone with the job.
NoHead == [ver |-> 0, env |-> 0, top |-> 0, ahead |-> 0]
Finish(p, result) ==
  /\ Goto(p, result)
  /\ head' = [head EXCEPT ![p] = NoHead]
  /\ turn' = [turn EXCEPT ![p] = 1]

\* Checkout of the pushed commit, whatever the branch holds by now.
Start(p) ==
  /\ At(p, "pending")
  /\ GroupFree
  /\ head' = [head EXCEPT ![p] =
       [ver |-> branch[p].ver, env |-> 0, top |-> p, ahead |-> 0]]
  /\ Goto(p, "gate")
  /\ UNCHANGED <<remote, ci, turn, reruns, failures, green>>

\* Cargo hashes / NPM hashes: the packages release as a unit, if any differs
\* from its newest revision.  The crate hash blanks the version, the npm
\* shasum does not.
Differs(p, k) ==
  registry[k] # <<>> => \/ Newest(k).text # HeadText(p)
                        \/ Npm /\ Newest(k).ver # head[p].ver
AnyChangedFirst(p) == Differs(p, 1)
AnyChanged(p) == \E k \in Order : Differs(p, k)

\* `cargo package` may fail on a crate whose sibling is not published in the
\* version it asks for; such a crate counts as changed.
HasVersion(k, v) == \E i \in 1..Len(registry[k]) : registry[k][i].ver = v
MayNotPackage(p) == \E k \in Order \ {1} : ~HasVersion(k - 1, head[p].ver)

ContentGate(p) ==
  /\ At(p, "gate")
  /\ \/ (AnyChanged(p) \/ MayNotPackage(p)) /\ Goto(p, "ci") /\ UNCHANGED local
     \/ ~AnyChanged(p) /\ Finish(p, "success")
  /\ UNCHANGED <<remote, ci, reruns, failures, green>>

CiGate(p) ==
  /\ At(p, "ci")
  /\ IF ci[p] = "green" THEN Goto(p, "bump") /\ UNCHANGED local ELSE Finish(p, "failure")
  /\ UNCHANGED <<remote, ci, reruns, failures, green>>

\* cargo release / npm version: a "Package Release" commit on the local HEAD.
\* The npm step also puts the version in the job's environment.
Bump(p) ==
  /\ At(p, "bump")
  /\ head' = [head EXCEPT ![p].ver = @ + 1, ![p].env = head[p].ver + 1,
                             ![p].ahead = 1]
  /\ Goto(p, "rebase")
  /\ UNCHANGED <<remote, ci, turn, reruns, failures, green>>

\* The release commit rebased onto the fetched branch.  Git drops it when the
\* branch holds the same bump; a version changed in another way is a conflict
\* outside Cargo.lock and ends the job.
Tip == branch[Len(branch)]
Dropped(p) ==
  \/ Tip.ver = head[p].ver
  \/ \E q \in (head[p].top + 1)..Len(branch) :
       branch[q].by = "release" /\ branch[q].ver = head[p].ver
RebaseConflicts(p) == ~Dropped(p) /\ Tip.ver + 1 # head[p].ver
Rebased(p) ==
  [ver |-> IF Dropped(p) THEN Tip.ver ELSE head[p].ver,
   env |-> head[p].env,
   top |-> Len(branch),
   ahead |-> IF Dropped(p) THEN 0 ELSE 1]

\* The cargo tags take the version from the rebased tree, the npm tag from the
\* environment.  `git tag` refuses a tag that exists, and the fetch has
\* brought all of them.
TagVersion(h) == IF Npm THEN h.env ELSE h.ver
TagExistsNever(v) == FALSE
TagExists(v) == \E t \in tags : t[2] = v

Rebase(p) ==
  /\ At(p, "rebase")
  /\ IF RebaseConflicts(p) \/ TagExists(TagVersion(Rebased(p)))
       THEN Finish(p, "failure")
       ELSE /\ head' = [head EXCEPT ![p] = Rebased(p)]
            /\ Goto(p, "push")
            /\ UNCHANGED turn
  /\ UNCHANGED <<remote, ci, reruns, failures, green>>

\* `git push origin HEAD`: refused when the branch moved since the fetch.
PushCommit(p) ==
  /\ At(p, "push")
  /\ IF Len(branch) # head[p].top
       THEN Finish(p, "failure") /\ UNCHANGED branch
       ELSE IF head[p].ahead = 1
         THEN /\ Len(branch) < MaxBranch
              /\ branch' = Append(branch,
                   [text |-> HeadText(p), ver |-> head[p].ver, by |-> "release"])
              /\ head' = [head EXCEPT ![p].top = @ + 1, ![p].ahead = 0]
              /\ Goto(p, "pushTags")
              /\ UNCHANGED turn
         ELSE Goto(p, "pushTags") /\ UNCHANGED <<branch, local>>
  /\ UNCHANGED <<registry, tags, ci, reruns, failures, green>>

TaggedPositionIsSha(p) == p
TaggedPosition(p) == head[p].top

PushTags(p) ==
  /\ At(p, "pushTags")
  /\ tags' = tags \cup {<<k, TagVersion(head[p]), TaggedPosition(p)>> : k \in Order}
  /\ Goto(p, "publish")
  /\ UNCHANGED <<branch, registry, ci, local, reruns, failures, green>>

\* One package is uploaded; the upload may be stored although the step fails.
LastTurn(p) == turn[p] = Packages

Upload(p) ==
  registry' = [registry EXCEPT ![turn[p]] =
    Append(@, [text |-> HeadText(p), ver |-> head[p].ver, top |-> head[p].top])]

PublishPackage(p) ==
  /\ At(p, "publish")
  /\ \/ /\ ~HasVersion(turn[p], head[p].ver)
        /\ Upload(p)
        /\ IF LastTurn(p)
             THEN Finish(p, "success")
             ELSE turn' = [turn EXCEPT ![p] = @ + 1] /\ UNCHANGED <<job, head>>
        /\ UNCHANGED failures
     \/ /\ ~HasVersion(turn[p], head[p].ver)
        /\ failures < MaxFailures
        /\ failures' = failures + 1
        /\ Upload(p)
        /\ Finish(p, "failure")
     \/ /\ HasVersion(turn[p], head[p].ver)   \* the registry refuses it
        /\ Finish(p, "failure")
        /\ UNCHANGED <<registry, failures>>
  /\ UNCHANGED <<branch, tags, ci, reruns, green>>

Crash(p) ==
  /\ job[p] \in Running
  /\ failures < MaxFailures
  /\ failures' = failures + 1
  /\ Finish(p, "failure")
  /\ UNCHANGED <<remote, ci, reruns, green>>

-----------------------------------------------------------------------------
Init ==
  /\ branch = <<>>
  /\ ci = [p \in Positions |-> "other"]
  /\ job = [p \in Positions |-> "none"]
  /\ head = [p \in Positions |-> NoHead]
  /\ turn = [p \in Positions |-> 1]
  /\ registry = [k \in Order |-> <<>>]
  /\ tags = {}
  /\ reruns = 0
  /\ failures = 0
  /\ green = {}

JobStep(p) ==
  \/ Start(p) \/ ContentGate(p) \/ CiGate(p) \/ Bump(p) \/ Rebase(p)
  \/ PushCommit(p) \/ PushTags(p) \/ PublishPackage(p)

Next ==
  \/ \E text \in Texts, bump \in 0..1 : Push(text, bump)
  \/ \E p \in Positions :
       \/ \E s \in {"green", "other"} : CiReports(p, s)
       \/ Rerun(p) \/ JobStep(p) \/ Crash(p)

Spec == Init /\ [][Next]_vars

-----------------------------------------------------------------------------
(***************************************************************************)
(* Properties.                                                             *)
(***************************************************************************)

\* A revision is uploaded from the very tree its tag names: the package tag
\* was pushed before, at a position of the branch with that text and version,
\* although the branch moved between checkout, bump, rebase and push.
PublishedIsTagged ==
  \A k \in Order : \A i \in 1..Len(registry[k]) :
    LET r == registry[k][i] IN
      /\ <<k, r.ver, r.top>> \in tags
      /\ branch[r.top].text = r.text
      /\ branch[r.top].ver = r.ver

\* The tags are the lock on versions: a cargo job that comes to upload never
\* finds its version taken, whatever was half done before it.
UploadIsNew ==
  \A p \in Positions : At(p, "publish") => ~HasVersion(turn[p], head[p].ver)

\* Re-runs, crashes and half-done uploads never take a registry back in the
\* branch: later revisions have higher versions, of later positions.
RegistryFollowsBranch ==
  \A k \in Order : \A i, j \in 1..Len(registry[k]) : i < j =>
    /\ registry[k][i].ver < registry[k][j].ver
    /\ registry[k][i].top < registry[k][j].top

\* No push is lost: when the job of the last push succeeded and none runs,
\* every package's newest revision has that push's text.  That job may have
\* published nothing: an earlier one may have taken its text along.
LastPush == CHOOSE p \in Pushes : \A q \in Pushes : q <= p
QuietRegistryIsHead ==
  (Pushes # {} /\ job[LastPush] = "success" /\ GroupFree) =>
    \A k \in Order : registry[k] # <<>> /\ Newest(k).text = branch[LastPush].text

\* "Nothing bumps, tags or publishes until every other workflow run on that
\* same commit has finished green" (README, "what publishes, and when"): the
\* last push below every published tree was green at some moment.
PublishedWasGreen ==
  \A k \in Order : \A i \in 1..Len(registry[k]) :
    LET below == {p \in Pushes : p <= registry[k][i].top}
    IN  \E p \in below : p \in green /\ \A q \in below : q <= p

\* `npm-<version>` is "the published npm package" (README, tag namespaces): a
\* tag names a tree of its version.
TagNamesItsTree == \A t \in tags : branch[t[3]].ver = t[2]
=============================================================================
