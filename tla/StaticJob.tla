------------------------------ MODULE StaticJob ------------------------------
(***************************************************************************)
(* The static job of a Solidity repository                                 *)
(* (.github/workflows/rainix-sol-static.yaml): a list of steps run in      *)
(* order on one checkout, the first that fails ending the job. The steps   *)
(* that are rainix-static subcommands are modelled with the tools they     *)
(* call, git and scc, which may fail: no-submodules, agent-context-cap     *)
(* (module ContextWalk, one step of it at a time), comment-loc-cap,        *)
(* relative-src-imports and, as a pre-commit hook, env-ignored. The other  *)
(* steps (grep scripts, forge, slither, the append-only and ledger gates)  *)
(* pass or fail.                                                           *)
(***************************************************************************)
EXTENDS ContextWalk

CONSTANT Repositories  \* the repositories the job is started on

\* scc counts the lines of finitely many files, and a directory lists neither
\* itself nor its parent.
ASSUME RepositoriesAssumption ==
  \A r \in Repositories :
    /\ r.tree \in Tree
    /\ IsFiniteSet(r.files)
    /\ \A f \in r.files : f.comment \in Nat /\ f.code \in Nat
    /\ r.entries \intersect {"", ".", ".."} = {}

VARIABLES
  repo,   \* the checkout, the walk's tree apart
  step,   \* the step running, an index of Steps
  job,    \* the job's conclusion
  disk,   \* the entries of the repository root
  failed  \* the steps at which git did not answer

vars == <<walkVars, repo, step, job, disk, failed>>
jobVars == <<repo, step, job, disk, failed>>

Steps == <<"no-ignored-tests", "no-submodules", "agent-context-cap",
           "snapshots-append-only", "mutation-ledger", "no-custom-natspec",
           "comment-loc-cap", "install", "relative-src-imports",
           "slither-fmt-lint", "env-ignored", "single-contract">>
External == {"no-ignored-tests", "snapshots-append-only", "mutation-ledger",
             "no-custom-natspec", "slither-fmt-lint", "single-contract"}

DefaultBuckets == <<{"src", ".github"}, {"test"}>>

-----------------------------------------------------------------------------
Init ==
  \E r \in Repositories :
    /\ WalkInit(r.tree)
    /\ repo = r
    /\ step = 1
    /\ job = "running"
    /\ disk = r.entries
    /\ failed = {}

At(s) == job = "running" /\ Steps[step] = s

\* A step that passes hands over to the next; one that fails ends the job.
Conclude(passes) ==
  /\ job' = IF ~passes THEN "red" ELSE IF step = Len(Steps) THEN "green" ELSE job
  /\ step' = IF passes /\ step < Len(Steps) THEN step + 1 ELSE step

ExternalStep ==
  /\ job = "running"
  /\ Steps[step] \in External
  /\ \E passes \in BOOLEAN : Conclude(passes)
  /\ UNCHANGED <<walkVars, repo, disk, failed>>

\* Whether git answers at this step.
Git(answers) == failed' = IF answers THEN failed ELSE failed \union {Steps[step]}

\* A root .gitmodules is an offence, and so is a gitlink in the index; an index
\* git cannot list holds none.
NoSubmodules ==
  /\ At("no-submodules")
  /\ \E git \in BOOLEAN :
       /\ Git(git)
       /\ Conclude(~repo.gitmodules /\ ~(git /\ repo.gitlinks))
  /\ UNCHANGED <<walkVars, repo, disk>>

\* `collect` walks, step by step; `check` compares its total with the cap.
AgentContextWalk ==
  /\ At("agent-context-cap")
  /\ WalkNext
  /\ UNCHANGED jobVars
AgentContextCap ==
  /\ At("agent-context-cap")
  /\ phase = "done"
  /\ Conclude(WithinCap)
  /\ UNCHANGED <<walkVars, repo, disk, failed>>

\* Whether a tracked file counts, by its extension and its directories.
IsCounted(f) == f.source /\ ~f.deprecated
Scan(paths) == {f \in repo.files : f.dir \in paths /\ IsCounted(f)}
Lines(files) == [comment |-> MapThenSumSet(LAMBDA f : f.comment, files),
                 code    |-> MapThenSumSet(LAMBDA f : f.code, files)]
Over(files) == Lines(files).comment > 2 * Lines(files).code

CallerNamed == repo.buckets # <<>>
BucketsOf == IF CallerNamed THEN repo.buckets ELSE DefaultBuckets
BucketFiles == {Scan(BucketsOf[b]) : b \in DOMAIN BucketsOf}

\* An empty bucket is refused when a caller named it, and when every bucket is
\* empty; the others are each under the cap. A broken git or scc is a failure.
CommentLocPasses(git, scc) ==
  /\ git
  /\ CallerNamed => {} \notin BucketFiles
  /\ BucketFiles # {{}}
  /\ scc
  /\ \A files \in BucketFiles : ~Over(files)
CommentLocCap ==
  /\ At("comment-loc-cap")
  /\ \E git, scc \in BOOLEAN : Git(git) /\ Conclude(CommentLocPasses(git, scc))
  /\ UNCHANGED <<walkVars, repo, disk>>

\* The dependencies are installed when there is a soldeer.lock.
Install ==
  /\ At("install")
  /\ \/ ~repo.lock /\ Conclude(TRUE) /\ UNCHANGED disk
     \/ repo.lock /\ Conclude(TRUE) /\ disk' = disk \union {"dependencies"}
     \/ repo.lock /\ Conclude(FALSE) /\ UNCHANGED disk
  /\ UNCHANGED <<walkVars, repo, failed>>

\* The first segment of an import names an entry of the root.
IsRepoRootedAtCheckout(segment) ==
  segment \notin {"", ".", ".."} /\ segment \in repo.entries
IsRepoRooted(segment) == segment \notin {"", ".", ".."} /\ segment \in disk
RelativeSrcImports ==
  /\ At("relative-src-imports")
  /\ \E git \in BOOLEAN :
       Git(git) /\ Conclude(git /\ \A i \in repo.imports : ~IsRepoRooted(i))
  /\ UNCHANGED <<walkVars, repo, disk>>

\* The pattern that decides on `.env` ignores it and stands in a tracked file,
\* and no file named .env is tracked.
EnvIgnoredPasses(git) ==
  /\ git
  /\ repo.rule.pattern = "ignore"
  /\ repo.rule.tracked
  /\ ~repo.envTracked
EnvIgnored ==
  /\ At("env-ignored")
  /\ \E git \in BOOLEAN : Git(git) /\ Conclude(EnvIgnoredPasses(git))
  /\ UNCHANGED <<walkVars, repo, disk>>

Done == job # "running" /\ UNCHANGED vars

Next ==
  \/ ExternalStep
  \/ NoSubmodules
  \/ AgentContextWalk
  \/ AgentContextCap
  \/ CommentLocCap
  \/ Install
  \/ RelativeSrcImports
  \/ EnvIgnored
  \/ Done

Spec == Init /\ [][Next]_vars
\* The runner executes the job: a step that can be taken is taken.
FairSpec == Spec /\ WF_vars(Next)

-----------------------------------------------------------------------------
(* Properties *)

\* Every variable holds a value of its kind.
TypeOK ==
  /\ WalkTypeOK
  /\ step \in DOMAIN Steps
  /\ job \in {"running", "green", "red"}
  /\ failed \subseteq {Steps[i] : i \in DOMAIN Steps}

\* Comment and code lines of one tree, over the files a repository maintains.
OwnRatioHolds(dir) ==
  LET own == {f \in repo.files : f.dir = dir /\ f.source /\ ~f.deprecated}
  IN  Lines(own).comment <= 2 * Lines(own).code

\* The bytes a session certainly loads: the first memory file with the files it
\* imports, and the rules without `paths:`.
LaunchCore ==
  (IF tree.roots # <<>> /\ tree.roots[1] \in tree.readable
   THEN {tree.roots[1]} \union Targets(tree.roots[1]) ELSE {})
    \intersect tree.readable

\* A green job says what its steps are for. The published src imports nothing
\* through a directory of the repository, the installed `dependencies/`
\* included; `test` did not pay for the prose in src; no submodule is
\* committed, unless git did not list the index; the context every session
\* loads fits the cap; a fresh clone ignores .env.
GreenTreeIsClean ==
  job = "green" =>
    /\ repo.lock => "dependencies" \notin repo.imports
    /\ repo.imports \intersect repo.entries = {}
    /\ ~CallerNamed => OwnRatioHolds("test")
    /\ ~CallerNamed /\ (\A f \in repo.files : f.dir # ".github") => OwnRatioHolds("src")
    /\ failed \subseteq {"no-submodules"}
    /\ ~repo.gitmodules
    /\ repo.gitlinks => "no-submodules" \in failed
    /\ MapThenSumSet(LAMBDA f : Size[f], LaunchCore \union LaunchRules) <= Cap
    /\ repo.rule.pattern = "ignore" /\ repo.rule.tracked /\ ~repo.envTracked

\* Cyclic imports and cyclic links among the rules do not hang the job.
JobEnds == <>(job # "running")
=============================================================================
