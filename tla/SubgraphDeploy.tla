-------------------------- MODULE SubgraphDeploy --------------------------
(***************************************************************************)
(* subgraph-deploy (lib/subgraph-deploy.sh): every network of a revision   *)
(* is built, labelled by the hash of its build (subgraph-build-hash),      *)
(* probed on Ormi (ormi-probe) and deployed when the version is confirmed  *)
(* missing. Tasks of several revisions may run at once: the workflow       *)
(* serializes nothing. Ormi is external: it hosts versions, each of which  *)
(* syncs for a while after its deploy.                                     *)
(***************************************************************************)
EXTENDS Integers, Sequences

CONSTANTS
  Task,       \* runs of the task
  Network,    \* keys of networks.json
  PlainName,  \* those that are plain labels
  Build,      \* what `graph build` can write for a network
  NoBuild,    \* no build yet
  ProbeTries  \* ATTEMPTS of ormi_probe.rs

ASSUME DeployAssumption ==
  /\ PlainName \subseteq Network
  /\ NoBuild \notin Build
  /\ ProbeTries \in Nat \ {0}

VARIABLES
  revision,  \* the revision each task deploys
  ormi,      \* the versions Ormi hosts, by network and label
  queue,     \* the networks each task has not dealt with
  at,        \* what each task is doing
  built,     \* the build of the network in progress
  tries,     \* the probes of it that did not answer
  lost,      \* the networks each task recorded as not completed
  outcome,   \* how each task ended
  unlisted,  \* history: the tasks whose networks jq did not list
  wasHosted  \* history: whether the version was hosted when a task probed it

history == <<unlisted, wasHosted>>
subgraphVars == <<revision, ormi, queue, at, built, tries, lost, outcome, history>>

\* The label of a version is the address and the hash of the build. The build
\* carries its address, and the digest frames every path and content, so the
\* label is as good as the build.
Version == [net : Network, label : Build, build : Build, synced : BOOLEAN]
Hosted(n, label) == \E v \in ormi : v.net = n /\ v.label = label

-----------------------------------------------------------------------------
(* ormi-probe *)

\* valid_label and valid_base: names and bases that may shape a URL.
Plain(n, base) == n \in PlainName /\ base = "https"

\* What the endpoint may send about a version it hosts or does not. A version
\* still syncing, or failed, answers with errors beside its data; the account
\* may be wrong; a proxy may answer instead.
Says(status, body) == [status |-> status, body |-> body]
Truth(n, label) ==
  IF ~Hosted(n, label) THEN Says(200, "name_error")
  ELSE IF \E v \in ormi : v.net = n /\ v.label = label /\ v.synced
       THEN Says(200, "block") ELSE Says(200, "block_and_errors")
Noise ==
  {Says(0, "transport"), Says(429, "name_error"), Says(503, "block"),
   Says(404, "name_error"), Says(200, "html"), Says(200, "list"),
   Says(200, "account_error"), Says(200, "name_error_and_more")}

\* classify: an answer, worth another try, or neither.
ProbeVerdictByBody(r) ==
  IF r.body = "block" THEN "deployed" ELSE IF r.body = "name_error" THEN "missing" ELSE "retry"
ProbeVerdict(r) ==
  IF r.status = 0 \/ r.status = 429 \/ r.status >= 500 THEN "retry"
  ELSE IF r.status # 200 THEN "fatal"
  ELSE IF r.body = "block" THEN "deployed"
  ELSE IF r.body = "name_error" THEN "missing" ELSE "fatal"

-----------------------------------------------------------------------------
(* The task *)

\* Each task is given a revision: its networks in order, their builds, those
\* whose entry holds no address, and the scheme of the query base.
SubgraphInit(assigned) ==
  /\ revision \in [Task -> assigned]
  /\ ormi = {}
  /\ queue = [t \in Task |-> <<>>]
  /\ at = [t \in Task |-> "start"]
  /\ built = [t \in Task |-> NoBuild]
  /\ tries = [t \in Task |-> 0]
  /\ lost = [t \in Task |-> {}]
  /\ outcome = [t \in Task |-> "running"]
  /\ unlisted = {}
  /\ wasHosted = [t \in Task |-> FALSE]

Going(t, where) == outcome[t] = "running" /\ at[t] = where
MoveTo(t, where) == at' = [at EXCEPT ![t] = where]
Current(t) == Head(queue[t])
LabelOfAddress(t) == [address |-> built[t].address, code |-> 0]
Label(t) == built[t]

\* The environment is there and npm installed, or the task fails; then jq lists
\* the networks. Its failure leaves the list empty: the loop runs for none.
ListNetworks(t) ==
  /\ Going(t, "start")
  /\ \/ /\ queue' = [queue EXCEPT ![t] = revision[t].networks]
        /\ MoveTo(t, "next")
        /\ UNCHANGED <<outcome, unlisted>>
     \/ /\ unlisted' = unlisted \union {t}
        /\ MoveTo(t, "next")
        /\ UNCHANGED <<queue, outcome>>
     \/ /\ outcome' = [outcome EXCEPT ![t] = "red"]
        /\ UNCHANGED <<queue, at, unlisted>>
  /\ UNCHANGED <<revision, ormi, built, tries, lost, wasHosted>>

\* A network without an address ends the task on the spot; one whose build or
\* hash fails is recorded and never probed.
BuildNetwork(t) ==
  /\ Going(t, "next")
  /\ queue[t] # <<>>
  /\ \/ /\ Current(t) \notin revision[t].unaddressed
        /\ built' = [built EXCEPT ![t] = revision[t].builds[Current(t)]]
        /\ MoveTo(t, "probe")
        /\ UNCHANGED <<queue, lost, outcome>>
     \/ /\ Current(t) \notin revision[t].unaddressed
        /\ lost' = [lost EXCEPT ![t] = @ \union {Current(t)}]
        /\ queue' = [queue EXCEPT ![t] = Tail(@)]
        /\ UNCHANGED <<at, built, outcome>>
     \/ /\ Current(t) \in revision[t].unaddressed
        /\ outcome' = [outcome EXCEPT ![t] = "red"]
        /\ UNCHANGED <<queue, at, built, lost>>
  /\ UNCHANGED <<revision, ormi, tries, history>>

\* The network is dealt with, completed or not.
NetworkDone(t, completed) ==
  /\ lost' = [lost EXCEPT ![t] = IF completed THEN @ ELSE @ \union {Current(t)}]
  /\ queue' = [queue EXCEPT ![t] = Tail(@)]
  /\ built' = [built EXCEPT ![t] = NoBuild]
  /\ tries' = [tries EXCEPT ![t] = 0]
  /\ MoveTo(t, "next")

\* probe_with: one fetch; a transient failure is retried while tries are left.
ProbeOnce(t) ==
  /\ Going(t, "probe")
  /\ IF ~Plain(Current(t), revision[t].base)
     THEN NetworkDone(t, FALSE)
     ELSE \E r \in Noise \union {Truth(Current(t), Label(t))} :
            CASE ProbeVerdict(r) = "deployed" -> NetworkDone(t, TRUE)
              [] ProbeVerdict(r) = "missing" ->
                   MoveTo(t, "deploy") /\ UNCHANGED <<queue, built, tries, lost>>
              [] ProbeVerdict(r) = "retry" /\ tries[t] + 1 < ProbeTries ->
                   tries' = [tries EXCEPT ![t] = @ + 1] /\ UNCHANGED <<queue, at, built, lost>>
              [] OTHER -> NetworkDone(t, FALSE)
  /\ wasHosted' = [wasHosted EXCEPT ![t] = Hosted(Current(t), Label(t))]
  /\ UNCHANGED <<revision, ormi, outcome, unlisted>>

\* graph deploy, which compiles the same build again. Ormi refuses a build it
\* hosts under another label. A deploy that fails may have reached Ormi.
DeployBuild(t) ==
  /\ Going(t, "deploy")
  /\ LET new == [net |-> Current(t), label |-> Label(t), build |-> built[t], synced |-> FALSE]
         refused == \E v \in ormi : v.net = new.net /\ v.build = new.build /\ v.label # new.label
         kept == {v \in ormi : v.net # new.net \/ v.label # new.label}
     IN  \/ ~refused /\ ormi' = kept \union {new} /\ NetworkDone(t, TRUE)
         \/ ~refused /\ ormi' = kept \union {new} /\ NetworkDone(t, FALSE)
         \/ UNCHANGED ormi /\ NetworkDone(t, FALSE)
  /\ UNCHANGED <<revision, outcome, history>>

TaskEnds(t) ==
  /\ Going(t, "next")
  /\ queue[t] = <<>>
  /\ outcome' = [outcome EXCEPT ![t] = IF lost[t] = {} THEN "green" ELSE "red"]
  /\ UNCHANGED <<revision, ormi, queue, at, built, tries, lost, history>>

\* Ormi catches up with the chain.
Sync ==
  /\ \E v \in ormi : ~v.synced /\ ormi' = (ormi \ {v}) \union {[v EXCEPT !.synced = TRUE]}
  /\ UNCHANGED <<revision, queue, at, built, tries, lost, outcome, history>>

TaskStep(t) ==
  ListNetworks(t) \/ BuildNetwork(t) \/ ProbeOnce(t) \/ DeployBuild(t) \/ TaskEnds(t)
SubgraphNext == Sync \/ \E t \in Task : TaskStep(t)
SubgraphSpec(assigned) == SubgraphInit(assigned) /\ [][SubgraphNext]_subgraphVars

-----------------------------------------------------------------------------
(* Properties *)

Listed(t) == {revision[t].networks[i] : i \in DOMAIN revision[t].networks}

\* A green task means that Ormi hosts the build of every network of its
\* revision: no failed build, probe or deploy reads as done. The one way to be
\* green without it is a networks.json that jq could not list.
GreenIsHosted ==
  \A t \in Task :
    outcome[t] = "green" /\ t \notin unlisted =>
      \A n \in Listed(t) : Hosted(n, revision[t].builds[n])

\* A live version is never taken away, and what a label stands for never
\* changes, though two tasks may find it missing at once and both deploy it.
HostedStands ==
  [][ \A v \in ormi : \E w \in ormi' :
        w.net = v.net /\ w.label = v.label /\ w.build = v.build ]_subgraphVars

\* A deploy follows a true answer: whatever stands between the task and Ormi,
\* it deploys only a version that was missing when it probed, of a network that
\* is a plain label, through an https base.
DeploysOnlyMissing ==
  \A t \in Task :
    at[t] = "deploy" =>
      ~wasHosted[t] /\ Current(t) \in PlainName /\ revision[t].base = "https"

=============================================================================
