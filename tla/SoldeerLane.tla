---------------------------- MODULE SoldeerLane -----------------------------
(***************************************************************************)
(* The Soldeer lane of .github/workflows/rainix-autopublish.yaml: one job  *)
(* per push to the release branch, serialized by a concurrency group, that *)
(* compares the pushed content with the registry, waits for the commit's   *)
(* CI, publishes, tags and creates a release.                              *)
(*                                                                         *)
(* Commits are numbered in branch order, so commit c contains everything   *)
(* the commits before it contain.  A job may fail in any step (a crashed   *)
(* runner, a step that exits nonzero), an upload may reach the registry    *)
(* although the step reports a failure, and a finished job may be re-run   *)
(* on its own commit.                                                      *)
(***************************************************************************)
EXTENDS SoldeerVersion, Sequences, FiniteSets

CONSTANTS
  MaxCommits,      \* bound on pushes to the release branch
  Contents,        \* what the packaged source can be, up to norm_hash
  IntentVersions,  \* versions people may ask for with next-v tags
  MaxTags,         \* bound on next-v tags
  MaxReruns,       \* bound on job re-runs
  MaxFailures      \* bound on failing steps

Commits == 1..MaxCommits

ASSUME LaneAssumption ==
  /\ MaxCommits \in Nat
  /\ Contents # {}
  /\ IntentVersions \subseteq Version \cup {Malformed}
  /\ MaxTags \in Nat
  /\ MaxReruns \in Nat
  /\ MaxFailures \in Nat

VARIABLES
  head,      \* number of commits pushed
  content,   \* content[c]: the packaged source at commit c
  intents,   \* the next-v tags: a set of <<commit, version>>
  ci,        \* ci[c]: the other workflow runs on c, as ci-gate reads them
  job,       \* job[c]: where the autopublish job of commit c is
  version,   \* version[c]: the `version` output of c's content gate
  registry,  \* the revisions in publish order, each with the commit it is of
  solv,      \* the sol-v tags: a set of <<version, commit>>
  releases,  \* the versions with a GitHub release
  reruns,    \* how many jobs were re-run
  failures,  \* how many steps failed
  green      \* history: the commits whose CI was green at some moment

repo   == <<head, content, intents, ci>>
output == <<registry, solv, releases>>
budget == <<reruns, failures>>
vars == <<repo, job, version, output, budget, green>>

Running  == {"gate", "ci", "push", "tag", "release"}
Finished == {"success", "failure", "cancelled"}
Revision == [version : Version, content : Contents, commit : Commits]

TypeOK ==
  /\ head \in 0..MaxCommits
  /\ content \in [Commits -> Contents]
  /\ intents \subseteq Commits \X IntentVersions
  /\ ci \in [Commits -> {"pending", "green", "red"}]
  /\ job \in [Commits -> {"none", "pending"} \cup Running \cup Finished]
  /\ version \in [Commits -> Version \cup {NoVersion}]
  /\ registry \in Seq(Revision)
  /\ solv \subseteq Version \X Commits
  /\ releases \subseteq Version
  /\ reruns \in Nat
  /\ failures \in Nat
  /\ green \subseteq Commits

Newest == registry[Len(registry)]
RemoteVersion == IF registry = <<>> THEN NoVersion ELSE Newest.version
Published == {registry[i].version : i \in 1..Len(registry)}

-----------------------------------------------------------------------------
(***************************************************************************)
(* The concurrency group.  A new job waits; it replaces a job that was     *)
(* already waiting, and never the one that runs.                           *)
(***************************************************************************)
EnqueueBehind(c) == job' = [job EXCEPT ![c] = "pending"]
Enqueue(c) ==
  job' = [d \in Commits |-> IF d = c THEN "pending"
                            ELSE IF job[d] = "pending" THEN "cancelled"
                            ELSE job[d]]

GroupFreeUngrouped == TRUE
GroupFreeOfWaiting == \A c \in Commits : job[c] \notin Running \cup {"pending"}
GroupFree == \A c \in Commits : job[c] \notin Running

\* A push adds a commit to the branch and queues its job.
Push(text) ==
  /\ head < MaxCommits
  /\ head' = head + 1
  /\ content' = [content EXCEPT ![head + 1] = text]
  /\ Enqueue(head + 1)
  /\ UNCHANGED <<intents, ci, version, output, budget, green>>

\* Someone tags a commit of the branch, before or after its job ran.
PlaceIntent(c, v) ==
  /\ c <= head
  /\ Cardinality(intents) < MaxTags
  /\ \A t \in intents : t[2] # v
  /\ intents' = intents \cup {<<c, v>>}
  /\ UNCHANGED <<head, content, ci, job, version, output, budget, green>>

\* The commit's other workflow runs finish, or are started again.
CiReports(c, s) ==
  /\ c <= head
  /\ ci' = [ci EXCEPT ![c] = s]
  /\ green' = IF s = "green" THEN green \cup {c} ELSE green
  /\ UNCHANGED <<head, content, intents, job, version, output, budget>>

\* A finished job is run again: same commit, same content, today's tags.
Rerun(c) ==
  /\ job[c] \in Finished
  /\ reruns < MaxReruns
  /\ reruns' = reruns + 1
  /\ Enqueue(c)
  /\ UNCHANGED <<repo, version, output, failures, green>>

-----------------------------------------------------------------------------
(***************************************************************************)
(* The job.                                                                *)
(***************************************************************************)
At(c, step) == job[c] = step

\* The next step of the job; the end of the job, whose outputs go with it.
Goto(c, step) == job' = [job EXCEPT ![c] = step] /\ UNCHANGED version
Finish(c, result) ==
  /\ job' = [job EXCEPT ![c] = result]
  /\ version' = [version EXCEPT ![c] = NoVersion]

Start(c) ==
  /\ At(c, "pending")
  /\ GroupFree
  /\ Goto(c, "gate")
  /\ UNCHANGED <<repo, output, budget, green>>

\* The next-v tags reachable from the commit.
Merged(c) == {t[2] : t \in {u \in intents : u[1] <= c}}

\* `old_hash != new_hash`, with nothing published hashing to "none".
Changed(c) == registry = <<>> \/ Newest.content # content[c]

\* The content gate: tags, registry, version, then the comparison.  A version
\* that cannot be derived fails the job even when nothing changed; without a
\* change every later step is skipped and the job succeeds.
ContentGate(c) ==
  /\ At(c, "gate")
  /\ \/ /\ IntentReadable(Merged(c))
        /\ \E intent \in NewestIntent(Merged(c)) :
             /\ CanDerive(RemoteVersion, intent)
             /\ IF Changed(c)
                  THEN /\ job' = [job EXCEPT ![c] = "ci"]
                       /\ version' = [version EXCEPT ![c] = PublishVersion(RemoteVersion, intent)]
                  ELSE Finish(c, "success")
     \/ /\ IntentReadable(Merged(c)) =>
             \E intent \in NewestIntent(Merged(c)) : ~CanDerive(RemoteVersion, intent)
        /\ Finish(c, "failure")
  /\ UNCHANGED <<repo, output, budget, green>>

\* Gate on commit CI: what module CIGate does, reduced to its promise.  It
\* passes a green commit, refuses a red one, and gives up on one that never
\* finishes; until then it waits.
CiAcceptsUnfinished(c) == ci[c] # "red"
CiAccepts(c) == ci[c] = "green"

CiGate(c) ==
  /\ At(c, "ci")
  /\ IF CiAccepts(c) THEN Goto(c, "push") ELSE Finish(c, "failure")
  /\ UNCHANGED <<repo, output, budget, green>>

\* `forge soldeer push`: the registry refuses a version it already has.  The
\* upload may be stored although the step then fails.
PublishToSoldeer(c) ==
  /\ At(c, "push")
  /\ IF version[c] \in Published
       THEN Finish(c, "failure") /\ UNCHANGED <<registry, failures>>
       ELSE /\ registry' = Append(registry,
                 [version |-> version[c], content |-> content[c], commit |-> c])
            /\ \/ Goto(c, "tag") /\ UNCHANGED failures
               \/ /\ failures < MaxFailures
                  /\ failures' = failures + 1
                  /\ Finish(c, "failure")
  /\ UNCHANGED <<repo, solv, releases, reruns, green>>

\* Tag the commit that triggered the run.  An existing tag is not moved.
TaggedCommitIsHead(c) == head
TaggedCommit(c) == c

TagRelease(c) ==
  /\ At(c, "tag")
  /\ IF \E t \in solv : t[1] = version[c]
       THEN Finish(c, "failure") /\ UNCHANGED solv
       ELSE solv' = solv \cup {<<version[c], TaggedCommit(c)>>} /\ Goto(c, "release")
  /\ UNCHANGED <<repo, registry, releases, budget, green>>

CreateRelease(c) ==
  /\ At(c, "release")
  /\ releases' = releases \cup {version[c]}
  /\ Finish(c, "success")
  /\ UNCHANGED <<repo, registry, solv, budget, green>>

\* A step exits nonzero, the runner dies, somebody cancels the run.
Crash(c) ==
  /\ job[c] \in Running
  /\ failures < MaxFailures
  /\ failures' = failures + 1
  /\ Finish(c, "failure")
  /\ UNCHANGED <<repo, output, reruns, green>>

-----------------------------------------------------------------------------
Init ==
  /\ head = 0
  /\ content = [c \in Commits |-> CHOOSE text \in Contents : TRUE]
  /\ intents = {}
  /\ ci = [c \in Commits |-> "pending"]
  /\ job = [c \in Commits |-> "none"]
  /\ version = [c \in Commits |-> NoVersion]
  /\ registry = <<>>
  /\ solv = {}
  /\ releases = {}
  /\ reruns = 0
  /\ failures = 0
  /\ green = {}

People ==
  \/ \E text \in Contents : Push(text)
  \/ \E c \in Commits : \/ \E v \in IntentVersions : PlaceIntent(c, v)
                        \/ \E s \in {"pending", "green", "red"} : CiReports(c, s)
                        \/ Rerun(c)

JobStep(c) ==
  \/ Start(c) \/ ContentGate(c) \/ CiGate(c)
  \/ PublishToSoldeer(c) \/ TagRelease(c) \/ CreateRelease(c)

Next == People \/ \E c \in Commits : JobStep(c) \/ Crash(c)

Spec == Init /\ [][Next]_vars

\* GitHub dispatches a waiting job when its group is free, and every step of a
\* running job ends: the gates are bounded by their own timeouts (see
\* CIGate!Terminates), everything else by the runner's job timeout.
FairSpec == Spec /\ \A c \in Commits : WF_vars(JobStep(c))

-----------------------------------------------------------------------------
(***************************************************************************)
(* Properties.                                                             *)
(***************************************************************************)

\* The lane implements the ledger: through crashes, re-runs, half-failed
\* uploads and tags pushed at any time, versions strictly increase in publish
\* order and no revision repeats the content before it.  The version and the
\* verdict are derived long before the upload, across the wait for CI; the
\* concurrency group is what keeps them true until then.
Ledger == INSTANCE VersionLedger WITH
  ledger <- [i \in 1..Len(registry) |->
               [version |-> registry[i].version, content |-> registry[i].content]]
ImplementsLedger == Ledger!LedgerSpec

\* "Nothing publishes until every other workflow run on that commit is green":
\* every revision is of a commit whose CI was green at some moment.
PublishedWasGreen == \A i \in 1..Len(registry) : registry[i].commit \in green

\* A sol-v tag names the very commit its revision was published from, and a
\* GitHub release has a tag (steps "Tag Soldeer release", "GitHub Release").
TagsNameTheirRevision ==
  /\ \A t \in solv : \E i \in 1..Len(registry) :
       registry[i].version = t[1] /\ registry[i].commit = t[2]
  /\ \A v \in releases : \E t \in solv : t[1] = v

\* Every job that waits gets its turn or is replaced, and every job that runs
\* ends: the group never waits on itself.
QueuedJobEnds ==
  \A c \in Commits : job[c] = "pending" ~> job[c] \in Finished

\* The replaced job loses nothing: "a superseded PENDING job is replaced by the
\* newest queued one, whose checkout contains everything the superseded push
\* contained" (comment on `concurrency`).  So when the last pushed commit's job
\* has succeeded and none runs, the newest revision is that commit's content.
QuietRegistryIsHead ==
  (head > 0 /\ job[head] = "success" /\ GroupFree) =>
    registry # <<>> /\ Newest.content = content[head]

\* And revisions never go back in the branch's history.
RegistryFollowsBranch ==
  \A i, j \in 1..Len(registry) : i < j => registry[i].commit <= registry[j].commit

\* `sol-v<x.y.z>` is "the published release" (README, tag namespaces): when a
\* commit's job ended in success and none runs, every revision of that commit
\* has its tag.
SuccessLeavesTag ==
  GroupFree => \A i \in 1..Len(registry) :
    job[registry[i].commit] = "success" =>
      \E t \in solv : t[1] = registry[i].version
=============================================================================
