------------------------------- MODULE CIGate -------------------------------
(***************************************************************************)
(* `rainix-static ci-gate`: the step of the autopublish job that refuses   *)
(* to release a commit before every other workflow run on that commit is   *)
(* green (rainix-static/src/ci_gate.rs).                                   *)
(*                                                                         *)
(* Two parties.  GitHub registers workflow runs on the commit at any       *)
(* moment, concludes them, and lets people re-run them.  The gate resolves *)
(* the workflow it runs in, then lists the runs page by page, judges the   *)
(* list against the clock and publishes, fails, or sleeps and lists again. *)
(* A listing is NOT atomic: every page is a separate HTTP answer, GitHub   *)
(* orders the list newest first, so a run registered between two answers   *)
(* moves every older run one position down.                                *)
(***************************************************************************)
EXTENDS Integers, FiniteSets

CONSTANTS
  Runs,       \* every workflow run GitHub may register on the commit
  OwnRuns,    \* the runs of the release workflow itself
  Self,       \* the run the gate is executing in
  PerPage,    \* `per_page` of the list request (100 in the code)
  MaxPages,   \* pages after which the gate refuses to go on (20 in the code)
  Poll,       \* seconds slept between two iterations
  Grace,      \* the discovery grace period
  Deadline,   \* the timeout
  MaxLag,     \* no run registers after this moment (the environment's promise)
  MaxTime     \* bound on the clock

ASSUME ConstantsAssumption ==
  /\ OwnRuns \subseteq Runs
  /\ Self \in OwnRuns
  /\ PerPage \in Nat \ {0}
  /\ MaxPages \in Nat \ {0}
  /\ Poll \in Nat \ {0}
  /\ Grace \in Nat
  /\ Deadline \in Nat
  /\ MaxLag \in Nat
  /\ MaxTime \in Nat

VARIABLES
  \* GitHub
  reg,        \* reg[r] is r's registration number, 0 while unregistered
  count,      \* how many runs are registered: the API's total_count
  status,     \* what the API says of a registered run
  now,        \* seconds since the gate started
  \* the gate
  pc,         \* where the gate is
  resume,     \* the loop a sleeping gate wakes up in
  wake,       \* when the sleep is over
  page,       \* the page to request next
  got,        \* all.len(): entries collected so far, duplicates included
  seen,       \* what this listing said of each run: a set of <<run, status>>
  lastWait,   \* the pending runs of the last verdict that had some
  outcome,    \* "running", or how the gate ended
  \* history, read by no guard
  begun,      \* the runs registered when the current listing began
  judged,     \* the last complete listing
  answer      \* what the last iteration obtained: a listing, or a failure

github  == <<reg, count, status>>
listing == <<page, got, seen, begun>>
report  == <<lastWait, judged, answer>>
vars == <<github, now, pc, resume, wake, listing, report, outcome>>

Status == {"pending", "green", "red", "unrecognized"}
Observation == Runs \X Status

TypeOK ==
  /\ reg \in [Runs -> Nat]
  /\ count \in Nat
  /\ status \in [Runs -> Status]
  /\ now \in Nat
  /\ pc \in {"queued", "own", "list", "judge", "asleep", "done"}
  /\ resume \in {"own", "list"}
  /\ wake \in Nat
  /\ page \in Nat \ {0}
  /\ got \in Nat
  /\ seen \subseteq Observation
  /\ lastWait \subseteq Runs
  /\ outcome \in {"running", "published", "red", "noCi", "timeout", "fatal"}
  /\ begun \subseteq Runs
  /\ judged \subseteq Observation
  /\ answer \in {"none", "listing", "failure"}

-----------------------------------------------------------------------------
(***************************************************************************)
(* The list endpoint.  Position counts from 1 at the newest run.           *)
(***************************************************************************)
Registered  == {r \in Runs : reg[r] # 0}
Position(r) == count - reg[r] + 1

\* The runs on page p, and how many entries the page has.
PageOf(p)  == {r \in Registered : (p - 1) * PerPage < Position(r) /\ Position(r) <= p * PerPage}
PageLen(p) == IF count <= (p - 1) * PerPage THEN 0
              ELSE IF count <= p * PerPage THEN count - (p - 1) * PerPage
              ELSE PerPage

(***************************************************************************)
(* GitHub's own steps.                                                     *)
(***************************************************************************)
\* A run appears at the head of the list.
Register(r) ==
  /\ reg[r] = 0
  /\ now <= MaxLag
  /\ reg' = [reg EXCEPT ![r] = count + 1]
  /\ count' = count + 1
  /\ status' = [status EXCEPT ![r] = "pending"]
  /\ UNCHANGED <<now, pc, resume, wake, listing, report, outcome>>

\* A run completes.  The run the gate sits in cannot: the gate is its step.
Conclude(r) ==
  /\ reg[r] # 0
  /\ r # Self
  /\ status[r] = "pending"
  /\ \E s \in Status \ {"pending"} : status' = [status EXCEPT ![r] = s]
  /\ UNCHANGED <<reg, count, now, pc, resume, wake, listing, report, outcome>>

\* Somebody re-runs a completed run: it is pending again, under the same id.
Rerun(r) ==
  /\ reg[r] # 0
  /\ status[r] # "pending"
  /\ status' = [status EXCEPT ![r] = "pending"]
  /\ UNCHANGED <<reg, count, now, pc, resume, wake, listing, report, outcome>>

\* The gate's clock starts with the gate.
Tick ==
  /\ pc # "queued"
  /\ now < MaxTime
  /\ now' = now + 1
  /\ UNCHANGED <<github, pc, resume, wake, listing, report, outcome>>

-----------------------------------------------------------------------------
(***************************************************************************)
(* The gate.                                                               *)
(***************************************************************************)
End(how) ==
  /\ outcome' = how
  /\ pc' = "done"
  /\ UNCHANGED <<resume, wake>>

Sleep(loop) ==
  /\ pc' = "asleep"
  /\ resume' = loop
  /\ wake' = now + Poll
  /\ UNCHANGED outcome

BeginListingAtZero ==
  /\ pc' = "list"
  /\ page' = 0
  /\ got' = 0
  /\ seen' = {}
  /\ begun' = Registered
  /\ UNCHANGED <<resume, wake, outcome>>
BeginListing ==
  /\ pc' = "list"
  /\ page' = 1
  /\ got' = 0
  /\ seen' = {}
  /\ begun' = Registered
  /\ UNCHANGED <<resume, wake, outcome>>

\* The end of an iteration that decided nothing.
SleepForEver(loop) == Sleep(loop)
SleepOrTimeOut(loop) ==
  IF now >= Deadline THEN End("timeout") ELSE Sleep(loop)

\* The gate's own run reaches the gate's step, after any number of the
\* commit's other runs were registered.
Start ==
  /\ pc = "queued"
  /\ reg[Self] # 0
  /\ pc' = "own"
  /\ UNCHANGED <<github, now, resume, wake, listing, report, outcome>>

\* The lookup of the workflow the gate belongs to: answered, refused for
\* good, or failed in a way that is retried until the deadline.
FetchOwn ==
  /\ pc = "own"
  /\ \/ BeginListing
     \/ End("fatal") /\ UNCHANGED listing
     \/ SleepOrTimeOut("own") /\ UNCHANGED listing
  /\ UNCHANGED <<github, now, report>>

\* The listing is complete when it holds as many entries as the last answer
\* said there are, or when a page comes back empty.
ListingCompleteOneShort(entries, onPage) == entries + 1 >= count \/ onPage = 0
ListingCompleteFirstPage(entries, onPage) == TRUE
ListingComplete(entries, onPage) == entries >= count \/ onPage = 0

\* One page of the list arrives.
FetchPage ==
  /\ pc = "list"
  /\ got' = got + PageLen(page)
  /\ seen' = seen \cup {<<r, status[r]>> : r \in PageOf(page)}
  /\ IF ListingComplete(got', PageLen(page))
       THEN pc' = "judge" /\ UNCHANGED <<page, resume, wake, outcome>>
       ELSE /\ page' = page + 1
            /\ IF page + 1 > MaxPages THEN End("fatal")
               ELSE UNCHANGED <<pc, resume, wake, outcome>>
  /\ UNCHANGED <<github, now, begun, report>>

\* A page request fails.  A transient failure throws the partial list away.
FetchPageFails ==
  /\ pc = "list"
  /\ \/ End("fatal") /\ UNCHANGED answer
     \/ SleepOrTimeOut("list") /\ answer' = "failure"
  /\ UNCHANGED <<github, now, listing, lastWait, judged>>

\* The verdict on a complete listing: runs of the release workflow itself are
\* invisible, and a conclusion the gate does not know beats every other one.
OthersUnfiltered == seen
Others == {o \in seen : o[1] \notin OwnRuns}
HasOther(s) == \E o \in Others : o[2] = s
PendingOthers == {r \in Runs : r \notin OwnRuns /\ <<r, "pending">> \in seen}

Verdict ==
  IF HasOther("unrecognized") THEN "error"
  ELSE IF HasOther("red") THEN "red"
  ELSE IF HasOther("pending") THEN "wait"
  ELSE IF Others = {} THEN "noOtherCi"
  ELSE "pass"

WithinGrace == now < Grace

\* The verdict against the clock: only the two verdicts that registration lag
\* can misreport are deferred within the grace.
Judge ==
  /\ pc = "judge"
  /\ judged' = seen
  /\ answer' = "listing"
  /\ lastWait' = IF Verdict = "wait" THEN PendingOthers ELSE lastWait
  /\ \/ Verdict = "error" /\ End("fatal")
     \/ Verdict = "red" /\ End("red")
     \/ Verdict = "wait" /\ SleepOrTimeOut("list")
     \/ Verdict \in {"noOtherCi", "pass"} /\ WithinGrace /\ SleepOrTimeOut("list")
     \/ Verdict = "noOtherCi" /\ ~WithinGrace /\ End("noCi")
     \/ Verdict = "pass" /\ ~WithinGrace /\ End("published")
  /\ UNCHANGED <<github, now, listing>>

WakeUp ==
  /\ pc = "asleep"
  /\ now >= wake
  /\ IF resume = "list" THEN BeginListing
     ELSE pc' = "own" /\ UNCHANGED <<resume, wake, outcome, listing>>
  /\ UNCHANGED <<github, now, report>>

-----------------------------------------------------------------------------
Init ==
  /\ reg = [r \in Runs |-> 0]
  /\ count = 0
  /\ status = [r \in Runs |-> "pending"]
  /\ now = 0
  /\ pc = "queued"
  /\ resume = "own"
  /\ wake = 0
  /\ page = 1
  /\ got = 0
  /\ seen = {}
  /\ lastWait = {}
  /\ outcome = "running"
  /\ begun = {}
  /\ judged = {}
  /\ answer = "none"

Environment == \E r \in Runs : Register(r) \/ Conclude(r) \/ Rerun(r)
Gate == FetchOwn \/ FetchPage \/ FetchPageFails \/ Judge \/ WakeUp

\* The process has exited: nothing else has to happen.
Ended == pc = "done" /\ UNCHANGED vars

Next == Environment \/ Tick \/ Start \/ Gate \/ Ended

Spec == Init /\ [][Next]_vars

\* curl bounds every transfer (connect-timeout, max-time) and a sleep returns,
\* so a started gate always takes its next step, and time passes.  Nothing is
\* assumed of GitHub: runs may hang and the API may fail for ever.
FairSpec == Spec /\ WF_vars(Gate) /\ WF_vars(Tick)

-----------------------------------------------------------------------------
(***************************************************************************)
(* Properties.                                                             *)
(***************************************************************************)

\* The gate publishes only over a listing that holds a green observation of
\* EVERY other run registered when the listing began, although the listing is
\* several HTTP answers and runs are registered, concluded and re-run between
\* them (list_runs, verdict, decide).
PublishOnlyFromGreenListing ==
  outcome = "published" =>
    /\ Others # {}
    /\ \A r \in begun \ OwnRuns : <<r, "green">> \in seen
    /\ \A o \in Others : o[2] = "green"

\* "No workflow run besides this release workflow exists" is only said when
\* none existed at the moment the listing began: no run is lost between pages
\* (the FailNoOtherCi arm of run).
NoCiMeansNothingElseRan == outcome = "noCi" => begun \subseteq OwnRuns

\* The gate never waits on itself: when it times out although its last listing
\* succeeded, it names OTHER runs, and each was pending in that very listing
\* (the filter on own_workflow_id, last_wait and the deadline check of run;
\* needs Grace <= Deadline).
TimeoutHasCause ==
  (outcome = "timeout" /\ answer = "listing") =>
    /\ lastWait # {}
    /\ \A r \in lastWait : r \notin OwnRuns /\ <<r, "pending">> \in judged

\* Whatever GitHub does, hanging runs and an API that fails for ever
\* included, the gate ends once it has started (the two deadline checks of run).
Terminates == pc = "own" ~> outcome # "running"

\* Why pages may shift under the gate and still lose nothing: a run registered
\* when the listing began has been seen, or lies beyond the pages read so far
\* (runs only move down), and no more entries were collected than those pages
\* hold.  This is the inductive heart of PublishOnlyFromGreenListing.
SeenRuns == {o[1] : o \in seen}
PagingLosesNothing ==
  /\ pc = "list" =>
       /\ got <= (page - 1) * PerPage
       /\ \A r \in begun \ SeenRuns : Position(r) > (page - 1) * PerPage
  /\ pc = "judge" => begun \subseteq SeenRuns

\* What the header of ci_gate.rs promises of the grace period: registration
\* lags the push, and an all-green set observed earlier is re-checked until
\* the grace has passed.  So when every run registers within the grace, a
\* publish has seen every registered run green.
GraceCoversRegistrationLag ==
  (outcome = "published" /\ MaxLag < Grace) =>
    \A r \in Registered \ OwnRuns : <<r, "green">> \in seen
=============================================================================
