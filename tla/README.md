# A TLA+ model of rainix

rainix is the shared CI of the rainlanguage repositories: reusable GitHub
workflows and composite actions (`.github/`), the tools they call (one Rust
binary, `rainix-static`), a token forwarder in Python, and shell scripts
(`lib/`). Three parts have behaviour that tests hardly reach, and all three are
modelled: **publishing**, where jobs race each other, the people pushing, the
registry and the rest of CI; the **static job** and its gates, where walks,
matchings, histories and scanners must be exact; and the **tools** that probe
RPC endpoints, share tokens, deploy subgraphs and regenerate files, where
anything may fail half way.

## Inventory

| component | state it keeps | operations | what is hard |
| --- | --- | --- | --- |
| `ci-gate` (`ci_gate.rs`) | the listing in progress, the last wait, clock | resolve own workflow, list pages, classify, judge, sleep | the list shifts under the paging; runs register late, are re-run, hang; the API fails |
| `soldeer-gate` (`soldeer_gate.rs`) | none; reads registry and tags | compare content, derive version | its answer is used hours later; `u64` versions, malformed tags |
| `rainix-autopublish`, Soldeer lane | registry, `sol-v` tags, releases, job queue | gate, CI gate, upload, tag, release | superseded jobs, re-runs, half-failed uploads, intent tags at any time |
| `rainix-autopublish`, cargo and npm lanes | the branch itself, registries, tags | gate, CI gate, bump, rebase, push, tag, publish each package | the branch moves under the job; commit, tags and packages are pushed one after another |
| `release-guard`, `rainix-tag-release` | registry, GitHub releases | ancestry, attestation, regeneration, guard, publish | tags on any commit, pull requests merged around it |
| `snapshots-append-only` (`frozen_snapshots.rs`) | none | pair deletions with additions, judge changes | augmenting paths; an old verdict used after main moved |
| `rainix-sol-static` | the checkout, `dependencies/` | the static checks, one after another | the install between checks changes what they see; git fails |
| `agent-context-cap`, `prompt-cap` (`context_bytes.rs`) | the seen set and stack of a walk | follow references, charge bytes, walk rules | cycles, depth limit against seen set |
| `mutation-ledger` | the ledger file, git history | shape check, ancestry of every name | squash merges, shallow checkouts |
| `comment-loc-cap`, `env-ignored`, `no-submodules`, `relative-src-imports` | none | one pass over files | a failing tool must not read as a clean tree |
| `rpc-preflight` (`rpc_preflight.rs`) | candidate pools, verdicts, environment file | probe, choose, mask, export | endpoints are balancers; throttling; a paid key to spare |
| `rpc-proxy/own-node-auth.py` | token cache, lock | take a token, mint, forward, retry | concurrent requests, expiry in flight |
| `ormi-probe`, `lib/subgraph-deploy.sh` | what Ormi hosts | build, hash, probe with retries, deploy | transient answers must not read as "missing"; concurrent tasks |
| `rainix-copy-artifacts`, `codegen-declaration`, `install-staged-config` | files and modification times | mark, regenerate, install, verify, diff | order of steps, any of them failing |

How they interact: `rainix-autopublish` runs `soldeer-gate`, then `ci-gate`
(which waits for every *other* workflow run of the same commit: the static job,
tests, copy-artifacts), then publishes. `rainix-tag-release` relies on what
`snapshots-append-only` enforced on the pull requests before it, and calls
`release-guard`. `rpc-preflight` gives fork tests an endpoint, or gives the
local proxy its upstreams, our own node behind the token forwarder among them.

What makes each correct: the gate publishes only over a complete green listing
and always ends; derived versions strictly increase; registries follow the
branch; tags name what was published; published pins are deployed pins and stay
on main; the append-only and ledger gates are right in both directions; the caps
bill exactly what loads; a green job says what its steps are for; an exported
endpoint has answered everything and the paid key is spared; tokens are minted
when due and a request is given up only when its tries are spent; a deploy follows
a true "missing", and a green check vouches for every committed file a hook
declares, writes or stages.

## Modules

| module | models | checked by |
| --- | --- | --- |
| `CIGate` | `ci_gate.rs` against GitHub's run list | `MCCIGate` |
| `SoldeerVersion` | version order, intent tags, derivation | the Soldeer lane |
| `VersionLedger` | abstract: an append-only, strictly increasing ledger | refined by `SoldeerLane` |
| `SoldeerLane` | the Soldeer lane job and its queue | `MCSoldeerLane` |
| `BranchLane` | the cargo and the npm lane | `MCBranchLane` |
| `DeployRelease` | pull requests, tags and the tag-release jobs | `MCTools` |
| `ContextWalk` | `context_bytes.rs`, both caps | `StaticJob` |
| `StaticJob` | the static job and its one-pass checks | `MCStaticJob` |
| `MutationLedger` | the ledger, its history and its gate | `MCStaticJob` |
| `FrozenSnapshots` | `augment` and `find_offenders` | `MCStaticJob` |
| `TextScanners` | the lexers and matchers other modules take as given | `MCStaticJob` |
| `RpcPreflight` | `rpc-preflight`, both modes | `MCTools` |
| `AuthForwarder` | the token forwarder's threads and cache | `MCTools` |
| `SubgraphDeploy` | the deploy loop, the probe, Ormi | `MCTools` |
| `CopyArtifacts` | mark, hooks, install, verify, diff | `MCTools` |
| `GateProofs` (`CIGate`, `FrozenSnapshots`, `TextScanners`), `SoldeerLaneProofs`, `BranchLaneProofs`, `DeployReleaseProofs`, `StaticJobProofs`, `RpcPreflightProofs`, `ToolsProofs` | theorems about these modules | the prover |
| `Induction` | lemmas on induction and recursive functions | the prover |

`SoldeerLane` extends `SoldeerVersion` and instantiates `VersionLedger` under a
refinement mapping; `StaticJob` extends `ContextWalk` and takes one step of it
at a time. The lanes treat `ci-gate` as one step that reads the commit's CI;
`CIGate` justifies it: a publish rests on a complete green listing
(`PublishOnlyFromGreenListing`), and the step ends (`Terminates`).

`MCStaticJob` and `MCTools` check several machines that share no state in one
run each, the latter the release of a deploy repository beside the tools: `turn` is
chosen initially and says which one moves. That adds their
state spaces up and does not multiply them.

### CIGate

GitHub's side (`reg`, `count`, `status`) registers a run at any moment up to
`MaxLag`, concludes it, re-runs it. The list is ordered newest first, so
position is registration order reversed, and each page is an answer of its own.
The gate's side follows the code: `FetchOwn` (fetch_own_workflow_id with its
loop), `BeginListing`/`FetchPage` (list_runs: `total_count` re-read with every
page, duplicates kept in `all`), `Judge` (verdict and decide),
`SleepOrTimeOut` (the deadline check before every sleep), `WakeUp`.
`FetchPageFails` is a transient failure or, on the first loop, the same. Time
passes between any two steps (`Tick`), so a listing may outlast the grace. The
two reads of the clock in one iteration are one step; deletion of workflow runs
is not modelled (the page order would shift the other way). `begun`, `judged`,
`answer` are history that no guard reads.

### SoldeerLane

One job per pushed commit in a concurrency group: a new job replaces the one
waiting (`Enqueue`), and starts when nothing runs (`Start`). The job's steps are
the workflow's: content gate, CI gate, upload, tag, release; `Crash` ends it in
any of them, an upload may be stored although the step fails, and `Rerun` starts
a finished job again on its own commit. `green` is history. One release branch
is modelled: the group name contains the ref, so two branches of one package
would not be ordered against each other, and no document says what should
happen then. `norm_hash` is equality of contents; what it strips is in
`TextScanners`. Checkout and content gate are one step, so tags are read at the
gate.

### BranchLane

The local checkout is `head[p]`: the position of the branch it sits on, its
version, the version in the environment (`NPM_VERSION`), and whether a release
commit is on top. `Rebase` moves it onto the fetched branch; git drops a bump
that is already there, whether in an equal patch or because the tree has it. The
tag check belongs to the same step, since `git tag` refuses before anything is
pushed. `PushCommit`, `PushTags` and each `PublishPackage` are separate steps
because each leaves something behind. People may bump the version by hand.
Versions are counted in bumps. GitHub releases come last, with `|| true` on the
cargo side, and no property reads them.

### DeployRelease

Trees are records of the source, the committed rolling pins (`candidate`), the
frozen record per version and the manifest version. Pins are written as the
source they are a function of. People open pull requests (new source, with or
without regeneration; a cut; a version bump without one; an edit of a snapshot
by hand; the removal of everything), merge them later by merge commit or squash
under git's three-way merge, deploy sources, and push tags on any commit,
unmerged heads included. The job's steps are those of the workflow. Frozen
records are compared whole; the grain of files, renames and appended text is
`FrozenSnapshots`.

### StaticJob and ContextWalk

A step of the job is an action whose guard is its place in `Steps`; the checks
read `repo`, and `relative-src-imports` reads `disk`, which the install of the
dependencies changes between two steps. Every git call may fail (`failed`
remembers where), and each check treats that as its code does: some fail, and
`no-submodules` takes a git that does not answer for an index without gitlinks,
which `GreenTreeIsClean` excepts.

The context cap is the one step that takes many: each iteration of `follow` is a
step of `ContextWalk`, whose `stack` is the call stack of the recursion. A file
is seen when it is taken, before it is known whether its depth lets its
references be followed. Files are canonical paths; what the tokenizer finds in
one is `refs`. Then the walk of `.claude/rules` visits directories, links
included, marks each, and charges unscoped rules as leaves.

### MutationLedger

`parents` and `ledger` hold a history of two lines, `main` and `branch`, with merge
commits and squashes, which is where names stop being ancestors. Records are appended on
either side, in every form a hand-written one may have. `Start` takes a full
or a shallow checkout, `Unshallow` deepens it, and then `Probe` asks for one name
per step; a git that fails is an
error, never a verdict.

### FrozenSnapshots and TextScanners

Each behaviour of `FrozenSnapshots` is one call of find_offenders. The initial
state is a branch's changes; `StartSearch` begins the search for the next
deletion's carrier. The recursion of `augment` is the stack `calls`, each call
with the snapshot it places and the added file its loop is at: one step is one
turn of the innermost loop, which takes a free file (`TakeFree`: every call
returns true and writes its carrier), calls itself for the snapshot a file
carries (`TryRehoming`) or runs out (`GiveUp`). `visited` is `seen`, shared by
the calls of one search. Texts are sequences of pieces, already stripped by
without_dependencies.

`TextScanners` has four loops, one action per way a turn can go, next to
definitions that read nothing in order: the lines of `foundry.toml` that the
content gate ignores (`KeepLine`, `StripSection`), the DEPENDENCIES declaration
that the append-only gate ignores (`ReadSpace`, `ReadComment`, `ReadCode`), the
path of an import (`ReadImport`), and the match of a glob segment (`MatchOne`,
`MeetStar`, `Backtrack`, `Mismatch`, `NameEnds`). A text is a sequence of the
kinds of line, token or character that the scanner tells apart. Names that hold
a `*` are left out (`SamplesAssumption`): the code compares characters before it
looks for a wildcard, so there `*` does not match `*b`.

### RpcPreflight

`input` is a repository and its configuration. Each network that files mention
gets a pool, and each candidate is probed: its chain id, the network's pinned
depths or the head, `Samples` full passes, then the load rounds. Each request is
a step, answered by one backend of the endpoint, or by a failure of every shape
the source quotes from a provider; the classification (`Finish`) is the code's,
from curl's exit, status, JSON shape, error code and wording. A load round is
one step with the number of requests that were throttled. In mode `proxy` the
depths of our own node and of the public endpoints are measured by descending a
table, and the paid key is asked for its chain id and nothing else: every request
of every check is counted by the endpoint it goes to (`Sends`), and the count of
those to the secret's endpoints (`paidCalls`) is what `PaidKeyIsGuarded` bounds.
`WindowIsServed` speaks of the windows that are declared after an answer: an
upstream without a declared window, and the 128 blocks that a node is left with
when it refused every depth, promise nothing that was asked for.

### AuthForwarder

A thread takes the lock, finds the cached token due or not, mints while holding
the lock, releases it, and sends. The way to the gate has the legs the code gives
it: over a kept connection (`open`) the request is sent at once; otherwise
`conn.request` first looks the name up, then opens the connection in any number
of operations (addresses, reads of the handshake), then sends. The timeouts of
the script bound one socket operation each (`OpTime`), so neither a mint nor a
try has a bound as a whole. Any operation may fail, which drops the connection.
The gate judges the token as the request arrives: it finds an expired one
expired, and may refuse a live one, since its clock may run ahead.

### SubgraphDeploy

Several tasks walk their revision's networks with no order among them. Ormi is a
set of hosted versions that sync for a while; between it and the task stand
transient failures. `Probe` retries as ormi_probe.rs does and ends in live,
missing, or an error that the loop collects.

### CopyArtifacts

The order of the workflow, any step of which may fail: mark, hooks, with the staged
files installed one by one after `script/Build.sol`, declarations checked against
the modification times, the diff. Hooks belong to the repository: each removes,
writes, stages and declares what its description says.

## Runs

| run | question | expected |
| --- | --- | --- |
| `gate` | is a publish always over a complete green listing, are the other verdicts true, does the gate end | holds |
| `gate_lag` | does the grace cover registration lag | violated |
| `lane` | does the lane implement the ledger, publish green commits only, tag truthfully | holds |
| `lane_once` | without re-runs: is no push lost, does the registry follow the branch, does every queued job end | holds |
| `lane_rerun` | and with re-runs | violated |
| `lane_tag` | does success leave a tag | violated |
| `branch_cargo` | is the tagged tree what is uploaded, no version used twice, no push lost, with two crates | holds |
| `branch_green` | was everything published green | violated |
| `branch_npm` | does an npm tag name a tree of its version | violated |
| `static` | does green mean what the steps are for; is the bill exact, the ledger verdict true, the pairing maximum and its verdict exact; do the scanners find what they should; does the job end on cycles | holds |
| `tools` | has an exported endpoint answered everything and is the paid key spared; is a due token minted once and no request given up early; are deploys justified and never taken back; does green mean current and hosted; are the pins a tag publishes deployed, merged, above what their own record holds, and kept on main for ever | holds |
| `token` | is a token that passed the margin check alive at the gate | violated |

What the violated runs show, with the sentence of the repository they
contradict, is under `findings` in `PROJECT.json`. In short:

- **gate_lag**: `decide` compares the grace with a clock read *after* the
  listing; a listing of several pages, or one slow request, that began before a
  run registered is judged as if it were recent.
- **lane_rerun**: the content gate tests for *different* content, not newer, so
  a re-run on an older commit publishes old content as the newest revision.
- **lane_tag**: an upload stored by a step that failed is never tagged: the
  re-run sees nothing changed and succeeds.
- **branch_green**: the release commit is rebased onto commits whose CI nobody
  waited for, and that tree is tagged and published.
- **branch_npm**: the npm tag is named from the environment although the rebase
  may have dropped the bump in favour of a later version.
- **token**: the margin of 60 seconds covers two operations of 30, and a try over
  a new connection has more: a token with just the margin left reaches the gate
  expired although each of three operations took 20 seconds and the name resolved
  at once. It costs one of the three sends, and the request only when drops take
  the others (`GivesUpOnlyWhenSpent`).

### Differences met while modelling, and not a run

The models do what the code does here; the properties are stated so that these
cases are excepted by name, or do not speak of them.

- `ci-gate`: the runs named by a timeout stem from the last *waiting* verdict.
  After an API outage that lasts until the deadline they may be runs that a
  later listing saw conclude. `TimeoutHasCause` shows the list right when the
  last call was a listing.
- cargo and npm lanes: a failure between pushing package tags and publishing
  leaves tags without packages, which a re-run cannot repair.
- `release-guard` decides from the tagged commit's own tree whether a larger
  tag is frozen, so a tag on an old commit does not see later releases.
  `ReleaseFollowsItsRecord` says "its own record".
- `rpc-preflight`, proxy mode: a public endpoint throttled at `eth_chainId`
  counts as transient and joins the upstreams although its chain is unknown; an
  `eth_getBalance` that answers `0x` counts as an answer.
- `own-node-auth.py`: drops and a refused token share three sends, so two drops
  and then a 401 answer the 401 without a fresh token, while drops alone are
  retried twice.
- `context_bytes.rs`: the walk is depth first, so a file may be seen first at
  the last hop and again nearer to a root; the second visit does not follow it,
  and what it references stays uncharged though it is within the depth.
  `FollowedWhole` excepts files reached at the last hop.
- `prompt_cap.rs`: two `**` in one glob share one guard against revisiting
  directories, and with linked directories an alias path can be missed; a name
  that itself contains `*` is compared as if the pattern's `*` were literal; a
  second HTML comment that begins on a prose line is stripped as well.
- `no-submodules` takes a git failure for "no gitlinks".
- `lib/subgraph-deploy.sh`: a `jq` that cannot list `networks.json` leaves a
  green task that deployed nothing (`GreenIsHosted` excepts it), and an entry
  without an address ends the task before the networks after it.
- copy-artifacts: `install_staged_config.rs` asks that some file was staged, not
  that `foundry.toml` is among them, so a staging directory without it passes with
  the committed block as it is; and a generated file that is not tracked is not
  seen by `git diff`. `GreenIsCurrent` speaks of committed files that some hook
  declares, writes or stages, and of a generated block only that some hook staged
  something.

### Bounds, and why they are enough

- `CIGate`: the gate's own run and two others, one entry per page, three pages:
  every listing of two runs spans pages and can be disturbed between any two;
  the clock reaches past the deadline; `MaxLag` beyond the clock means that runs
  register at any time. `gate_lag` bounds the lag below the grace, which is what
  makes the violation one. Symmetry of the two other runs is used only where no
  liveness is checked.
- `SoldeerLane`: two commits (three without re-runs), two contents, two tags
  (one), one re-run and one failure: a superseded job needs three commits, a
  half-failed upload and its re-run need one of each. Components go up to 2 so
  that a patch can be at its maximum.
- `BranchLane`: three pushes, a branch of six, two crates, a hand-made bump, one
  re-run, one failure. `MaxBranch` leaves room for one release commit per push;
  at the bound `PushCommit` is disabled, which only cuts behaviours short.
- `DeployRelease` (in `tools`): two versions, two sources, two pull requests open or merged
  in any order, one tag push that may fail and be re-run. Jobs read only their
  own commit, main's ancestry and the chain, which only grow, and meet in the
  registry, which the re-run exercises. Deadlock is not checked because a
  repository whose people have done everything the bounds allow is at rest.
- `static`: four files that import each other in every way (two imports for the
  first, one for the rest) from one or two roots, with depth 2 and a cap of 3:
  cycles of every length, a file reached at the last hop and below it, and a
  bill above, at and under the cap. Two rule directories with every link between
  them. A repository is clean but for one aspect at a time, since a step reads
  no other's. Four ledger commits: a record on a branch, a merge or squash of
  it, and a check of either side. Three deletions and three additions over a
  chain of three texts: augmenting paths of every length up to three. Every
  metadata text of five lines, import of five tokens, glob of four characters
  against names of three, and declarations with up to two tokens before them;
  the proofs take over where these texts end.
- `tools`: `Samples` 2 and `BurstSize` 3, so that a pass may follow a failed one
  and a round may be throttled in part; a head at block 10 with depths above, at
  and below what backends serve; three endpoints in every combination of the
  lists that matters (none, the key, the key and a public one), and one network
  at a time except where files mention two. Two threads and one
  audience (tokens of two audiences meet only in the lock, and the proofs hold for
  any number of both), and units of 20 seconds: tokens of five, a margin
  of three, one for an operation, six of time, and tokens in the cache at the
  start or none: a token falls due, is minted by one thread while another waits,
  and expires. A lookup may take all the time there is. `token` has the same
  bounds, but names resolve at once, so that no operation without a timeout is
  needed for what it shows, and no release is attempted. Two subgraph tasks of equal or different revisions over two
  networks, two probe tries. Three paths and three hooks. Deadlock is not
  checked: each of these programs stops.

### Fairness

`CIGate!FairSpec` assumes that the gate takes its next step (curl bounds every
transfer, sleeps return) and that time passes, and nothing of GitHub.
`SoldeerLane!FairSpec` assumes that a waiting job is dispatched when its group is
free and that each step ends: the gate because of `Terminates`, everything else
because of the runner's job timeout. `StaticJob!FairSpec` assumes that the runner
executes the job. Nothing is assumed of people. The tools are checked for safety
alone: their retries are counted, so that they end is plain.

## Proofs

Everything below is proved for every value of the constants, under the
assumptions that the modules name: any number of commits, runs, packages, pull
requests, files, hooks, threads, tasks, networks. Where a theorem has a
hypothesis of its own, it is named with its reason. Each safety proof has one
shape: `Init => IInv`, one lemma per action for `IInv /\ [Next]_vars => IInv'`,
and `IInv => property`.

**`GateProofs`** proves three things.

*The publish gate*: type correctness; `PublishOnlyFromGreenListing`,
`NoCiMeansNothingElseRan`, `PagingLosesNothing`, `TimeoutHasCause`. That a
publish is complete is not inductive by itself, because what a listing will
contain when it ends depends on what has moved since it began.
`PagingLosesNothing` is the missing part: a run registered at the beginning has
been seen or lies beyond the pages read, since positions only grow, and no more
entries were collected than those pages hold, so reaching `total_count` means
the end was reached. `TimeoutsHaveCause` assumes `Grace <= Deadline`, 120 and
7200 seconds by default (otherwise the gate may time out while it waits for runs
to register, and has none to name).

*The append-only gate*: `PairingIsMaximum` and `AcceptsExactlySurvivors`, for
any diff in any order. That no larger pairing exists cannot be seen from the
pairing, so the invariant keeps a certificate (`DeadEndInv`): a set of files
that all carry a snapshot no file outside the set could carry, and that are all
that the deletions left unpaired could have. More deletions than are paired
would need more files than there are in it. A search that fails extends the
certificate by what it visited (`VisitedInv`: a visited file's snapshot has no
carrier outside `visited`, unless a call still waits for it); a search that
succeeds never entered it (`PathAvoidsDeadEnds`), and moving the snapshots along
its calls keeps the pairing one to one (`PathInv`, `Rehoming`). The verdict
follows because the frozen text is a prefix exactly when it survives.

*The scanners*: `ScansAreExact`, for texts of any length. Each loop has its
invariant. A metadata header owns the lines from the comment block above it to
the block above the next header, and the lines stripped so far are those of the
headers met (`MetadataInv`). The tokens kept of a statement are its first ones,
up to a brace (`OpensAt`), enough to tell a declaration from anything else; depth
and span are those of the definition (`DependencyInv`, for balanced braces). An
import waits while no string and no `;` followed it (`ImportInv`). For the glob
(`GlobInv`) the pattern read fits the name read, and if the whole name fits, it
still does from where the matcher stands: characters behind the last `*` keep
step, so the matcher is never past a cut that works, and going back to earlier
stars is never needed.

**`SoldeerLaneProofs`**: the version order is a strict total order; the derived
version is above the newest published one, and the least that is and respects
the intents. Then type correctness, `PublishedWasGreen`,
`TagsNameTheirRevision`, and that the lane implements `VersionLedger`: a step
maps to a ledger publish or a stutter. The invariant has one conjunct per
reason: at most one job runs (`OneJobRuns`, the concurrency group), hence what
the content gate derived is still true at the upload (`DerivationIsFresh`), and
what was uploaded is still the newest while it is tagged (`UploadIsNewest`).
`RegistryFollowsBranch` and `QuietRegistryIsHead` need `OrderInv` besides: the
job that runs is the newest that ever ran (`JobOrder`), revisions are of commits
no later than it (`RegistryOrder`), and the last push's job, while unfinished,
is queued or running (`LastJobCounts`). They assume `MaxReruns = 0`; `lane_rerun`
shows that with re-runs they are false.

**`BranchLaneProofs`**: all four properties of the cargo lane. The invariant
says that one job runs, that the branch's versions never go back and a tag names
a tree of its version (`BranchInv`, `TagInv`), and for each place in a job what
it has in its checkout (`JobInv`): past the rebase it sits on a commit of the
branch whose version no job has tagged, and while it uploads its tag is out and
the packages before its turn have their revision. `QuietInv` keeps what the last
push published. They assume `~Npm`: `branch_npm` shows where the npm lane
departs.

**`DeployReleaseProofs`**: type correctness and all four properties. What the
steps behind a run have established stays true (`RunInv`), because main only
grows, a merged pull request stays merged and the chain forgets nothing; a
revision names the commit it was taken from (`RevisionInv`). For
`PublishedRecordStands`: every open pull request passed the append-only gate
against its *own* merge base (`PrInv`), yet main has moved since; while the gate
was never skipped, each snapshot of main is on every later main, and those of a
merged pull request are on main (`RecordInv`, for three-way merges and
squashes).

**`StaticJobProofs`**: type correctness of the job and its walk; `FollowedWhole`
and `BillIsExact` for every graph of files and directories, cycles included;
`GreenTreeIsClean` for every checkout and every git that fails; `VerdictIsTrue`
of the mutation ledger. The walk's invariant relates three things that move
together: what was taken is billed unless it cannot be read (`TakenInv`), a file
that was followed has its references behind it or is still on the stack
(`FollowInv`), and nothing is billed that the recursive definition of reach does
not hold (`ReachInv`, with `RulesInv` for the directories). `PassedInv` says
what each step that a job has passed showed of the checkout. For the ledger,
`GateInv` says that a verdict rests on every name asked so far. Assumed of the
inputs: repositories are what the walk expects (`RepositoriesAssumption`) and
there are finitely many directories. That a commit's parents are older is proved
(`HistoryInv`).

**`ToolsProofs`**, for the forwarder: `GivesUpOnlyWhenSpent` and
`MintedOnlyWhenDue`, whatever the times and the margin are. The lock is held
exactly through a mint, and what made the mint due when it began still does
(`LockInv`, with `ClockInv`: it began in the past); tries are spent on drops and
one on a refusal (`TriesInv`). For the deploy loop: `GreenIsHosted`,
`DeploysOnlyMissing`, `HostedStands`, since every network of a task is waiting,
lost or hosted (`TaskInv`); of the revisions it assumes what a build gives
(`IsRevision`). For the artifacts check: `GreenIsCurrent`. A path is as it was
checked out, gone, or was written after the mark (`PathInv`). It assumes of the
hooks that only those up to `script/Build.sol` stage files (`IsProject`), which
is whose protocol staging is; the last clause of the property is false of a hook
that stages after the install.

**`RpcPreflightProofs`**: `ExportsMatchDemand`, `PaidKeyIsGuarded`,
`WindowIsServed`, `SelectedAnsweredAll`, for any lists, endpoints and answers.
The invariant follows a candidate from the pool to the environment: the
candidates still to do are a tail of the pool (`TodoInv`), upstreams are in
order of tier and masked where they are secret (`UpsInv`), the check in progress
has passed those before it (`ProbeInv`), each depth has been answered as many
times as whole passes were made (`ReadsInv`), the proxy has sent each entry of
the secret it dealt with at most one `eth_chainId`, and nothing else to any of
them (`PaidInv`), and a demanded network is waiting or settled (`EnvInv`). `InputsAssumption` says that our own node is not on the list
of endpoints we pay for, and that pins are blocks there are;
`ResponsesAssumption`, which shapes an answer has.

**`Induction`** has what those need: induction over the naturals and over
finite sets, stated of sets, from the library's well-founded induction without
its operators as parameters. With it the recursive functions of the models
(`Reach`, `Ancestors`, the folds behind sums of sizes) are shown to exist, so
that their equations may be used.

Only model-checked: liveness under fairness (`Terminates`, `QueuedJobEnds`,
`JobEnds`), which is out of the prover's reach. Every safety invariant and
action property of the passing runs is a theorem.

Theorems worth proving next:

1. The npm lane: no version is used twice and later revisions have higher
   versions, although tags may name another tree.
2. `SoldeerLane` with re-runs of the last push's job only, under which the order
   theorems should still hold.

## Not modelled

- Argument parsing and dispatch, HTTP request construction and message texts;
  Nix packaging, developer tasks and the linear workflows: there is no state to
  explore, and what they report enters the models as the CI of a commit.
- eRPC, the external proxy in front of the upstreams, with the policy text it is
  given: its scheduler is its own.
- The tokenizers of the context caps and the expansion of `**` over directories:
  a file's references are an input of `ContextWalk`.
- The zip entries and hash of a package, registry JSON, and git's output:
  equality of contents and the values parsed.
- The hole that the append-only action's own comment names: a branch that
  deletes all of `src/generated` skips the gate. `DeployRelease` has such pull
  requests (`MaxWipes`), and `PublishedRecordStands` speaks of a main that none
  of them reached.
