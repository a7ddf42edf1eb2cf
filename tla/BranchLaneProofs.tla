-------------------------- MODULE BranchLaneProofs --------------------------
(***************************************************************************)
(* The cargo lane, for any number of pushes, crates, re-runs and failures: *)
(* what is published is tagged, new, in the order of the branch, and not   *)
(* older than the last push whose job succeeded.                           *)
(***************************************************************************)
EXTENDS BranchLane, SequenceTheorems, TLAPS

\* The concurrency group: at most one job runs, and only pushes have jobs.
OneJobRuns ==
  /\ \A p, q \in Positions : job[p] \in Running /\ job[q] \in Running => p = q
  /\ \A p \in Positions : job[p] # "none" => p \in Pushes

\* The branch: versions never go back, and the release commits on top of a
\* commit keep its text.
BranchInv ==
  \A a, b \in 1..Len(branch) : a <= b =>
    /\ branch[a].ver <= branch[b].ver
    /\ (\A q \in (a + 1)..b : branch[q].by = "release") => branch[a].text = branch[b].text

\* A package tag names a tree of its version.
TagInv == \A t \in tags : t[3] \in 1..Len(branch) /\ branch[t[3]].ver = t[2]

\* What a job has in its checkout.  Past the rebase it sits on a commit of the
\* branch whose version no job has tagged before; while it uploads, that tag is
\* out, and the packages before its turn have their revision.
Delivering == {"push", "pushTags", "publish"}
OnBranch(p) == head[p].top \in 1..Len(branch) /\ p <= head[p].top
JobInv(p) ==
  /\ job[p] \in {"gate", "ci"} => head[p].top = p
  /\ job[p] \in Delivering => OnBranch(p)
  /\ job[p] = "push" =>
       /\ head[p].ver = branch[head[p].top].ver + head[p].ahead
       /\ \A t \in tags : t[2] # head[p].ver
  /\ job[p] \in {"pushTags", "publish"} => head[p].ver = branch[head[p].top].ver
  /\ job[p] = "pushTags" => \A t \in tags : t[2] < head[p].ver /\ t[3] < head[p].top
  /\ job[p] = "publish" => \A k \in Order :
       /\ <<k, head[p].ver, head[p].top>> \in tags
       /\ IF k < turn[p]
          THEN registry[k] # <<>> /\ Newest(k).top = head[p].top
          ELSE \A i \in 1..Len(registry[k]) :
                 registry[k][i].ver < head[p].ver /\ registry[k][i].top < head[p].top

\* Once the job of the last push has succeeded, its text is published, and
\* whatever a later re-run uploads sits on top of that push.
IsLastPush(l) == l \in Pushes /\ \A q \in Pushes : q <= l
LastInv == Pushes # {} => \E l \in Pushes : IsLastPush(l)
QuietInv ==
  \A l \in Positions : IsLastPush(l) /\ job[l] = "success" =>
    /\ \A k \in Order : registry[k] # <<>> /\ Newest(k).text = branch[l].text
    /\ \A p \in Positions : job[p] \in Delivering => l <= head[p].top

\* Only a job that publishes has come past its first package.
TurnInv == \A p \in Positions : job[p] # "publish" => turn[p] = 1

LedgerInv == BranchInv /\ TagInv /\ PublishedIsTagged /\ RegistryFollowsBranch /\ LastInv

IInv == TypeOK /\ OneJobRuns /\ LedgerInv /\ (\A p \in Positions : JobInv(p)) /\ QuietInv
-----------------------------------------------------------------------------
(* The sequences: a branch that grows, a registry with a newest revision.    *)

\* A commit appended to the branch moves no position of it.
LEMMA BranchGrows ==
  ASSUME TypeOK, NEW c \in Commit, branch' = Append(branch, c), Len(branch) < MaxBranch
  PROVE  /\ branch' \in Seq(Commit)
         /\ Len(branch) \in Nat
         /\ Len(branch') = Len(branch) + 1
         /\ \A q \in 1..Len(branch) : branch'[q] = branch[q]
         /\ branch'[Len(branch) + 1] = c
         /\ Len(branch) + 1 \in Positions
<1>1. branch \in Seq(Commit)
  BY DEF TypeOK
<1>2. Len(branch) \in Nat
  BY <1>1, LenProperties
<1>3. MaxBranch \in Nat
  BY BranchAssumption DEF BranchAssumption
<1> QED
  BY <1>1, <1>2, <1>3, AppendProperties DEF Positions

\* What the type invariant says of the branch and of the pushes on it.
LEMMA BranchTypes ==
  ASSUME TypeOK
  PROVE  /\ Len(branch) \in Nat
         /\ MaxBranch \in Nat
         /\ 1..Len(branch) \subseteq Positions
         /\ \A q \in 1..Len(branch) : branch[q] \in Commit
         /\ Pushes \subseteq 1..Len(branch)
<1>1. branch \in Seq(Commit)
  BY DEF TypeOK
<1>2. Len(branch) \in Nat
  BY <1>1, LenProperties
<1>3. MaxBranch \in Nat /\ Len(branch) <= MaxBranch
  BY BranchAssumption DEF BranchAssumption, TypeOK
<1>4. \A q \in 1..Len(branch) : branch[q] \in Commit
  BY <1>1, ElementOfSeq
<1> QED
  BY <1>2, <1>3, <1>4 DEF Positions, Pushes

\* The newest revision of a registry is one of its revisions.
LEMMA NewestOf ==
  ASSUME TypeOK, NEW k \in Order
  PROVE  /\ Len(registry[k]) \in Nat
         /\ registry[k] # <<>> => Len(registry[k]) \in 1..Len(registry[k])
         /\ \A i \in 1..Len(registry[k]) : registry[k][i] \in Revision
<1>1. registry[k] \in Seq(Revision)
  BY DEF TypeOK
<1>2. Len(registry[k]) \in Nat
  BY <1>1, LenProperties
<1>3. registry[k] # <<>> => Len(registry[k]) # 0
  BY <1>1, EmptySeq
<1> QED
  BY <1>1, <1>2, <1>3, ElementOfSeq

\* An upload adds one revision to one registry, on top of those it has.
LEMMA RegistryGrows ==
  ASSUME TypeOK, NEW k \in Order, NEW r \in Revision,
         registry' = [registry EXCEPT ![k] = Append(@, r)]
  PROVE  /\ registry' \in [Order -> Seq(Revision)]
         /\ \A j \in Order \ {k} : registry'[j] = registry[j]
         /\ registry'[k] # <<>>
         /\ Len(registry'[k]) = Len(registry[k]) + 1
         /\ \A i \in 1..Len(registry[k]) : registry'[k][i] = registry[k][i]
         /\ registry'[k][Len(registry[k]) + 1] = r
<1>1. registry[k] \in Seq(Revision) /\ registry'[k] = Append(registry[k], r)
  BY DEF TypeOK
<1>2. Append(registry[k], r) \in Seq(Revision)
  BY <1>1, AppendProperties
<1>3. registry' \in [Order -> Seq(Revision)] /\ \A j \in Order \ {k} : registry'[j] = registry[j]
  BY <1>1, <1>2 DEF TypeOK
<1>4. /\ Append(registry[k], r) # <<>>
      /\ Len(Append(registry[k], r)) = Len(registry[k]) + 1
      /\ \A i \in 1..Len(registry[k]) : Append(registry[k], r)[i] = registry[k][i]
      /\ Append(registry[k], r)[Len(registry[k]) + 1] = r
  BY <1>1, AppendProperties
<1> QED
  BY <1>1, <1>3, <1>4

-----------------------------------------------------------------------------
(* What leaves what alone.                                                   *)

\* A job that does not run, or that a step does not touch.
LEMMA JobRests ==
  ASSUME NEW p \in Positions, job'[p] \notin Running
  PROVE  JobInv(p)'
  BY DEF JobInv, Delivering, Running

\* A job that a step does not touch keeps its invariant.
LEMMA JobStays ==
  ASSUME NEW p \in Positions, JobInv(p), UNCHANGED remote,
         job'[p] = job[p], head'[p] = head[p], turn'[p] = turn[p]
  PROVE  JobInv(p)'
<1>1. OnBranch(p)' = OnBranch(p)
  BY DEF OnBranch, remote
<1> QED
  BY <1>1 DEF JobInv, Newest, remote

\* A step that leaves branch, tags and registries alone keeps what is said of
\* them.
LEMMA LedgerStays == LedgerInv /\ UNCHANGED remote => LedgerInv'
<1> SUFFICES ASSUME LedgerInv, UNCHANGED remote PROVE LedgerInv'
  OBVIOUS
<1>1. Pushes' = Pushes
  BY DEF Pushes, remote
<1>2. BranchInv' /\ TagInv' /\ PublishedIsTagged' /\ RegistryFollowsBranch'
  <2>1. BranchInv'
    BY DEF LedgerInv, BranchInv, remote
  <2>2. TagInv'
    BY DEF LedgerInv, TagInv, remote
  <2>3. PublishedIsTagged'
    BY DEF LedgerInv, PublishedIsTagged, remote
  <2>4. RegistryFollowsBranch'
    BY DEF LedgerInv, RegistryFollowsBranch, remote
  <2> QED
    BY <2>1, <2>2, <2>3, <2>4
<1>3. LastInv'
  BY <1>1 DEF LedgerInv, LastInv, IsLastPush
<1> QED
  BY <1>2, <1>3 DEF LedgerInv

\* A step that publishes nothing, lets no job succeed and brings no job to its
\* push keeps what a success has settled.
LEMMA QuietStays ==
  ASSUME QuietInv, UNCHANGED remote,
         \A p \in Positions : job'[p] = "success" => job[p] = "success",
         \A p \in Positions : job'[p] \in Delivering =>
           job[p] \in Delivering /\ head'[p].top = head[p].top
  PROVE  QuietInv'
<1>1. Pushes' = Pushes
  BY DEF Pushes, remote
<1>2. \A l : IsLastPush(l)' = IsLastPush(l)
  BY <1>1 DEF IsLastPush
<1>3. \A k \in Order : Newest(k)' = Newest(k)
  BY DEF Newest, remote
<1> QED
  BY <1>2, <1>3 DEF QuietInv, remote

\* While no job starts, at most one runs.
LEMMA OneStays ==
  ASSUME OneJobRuns, Pushes \subseteq Pushes',
         \A p \in Positions : job'[p] \in Running => job[p] \in Running,
         \A p \in Positions : job'[p] # "none" => job[p] # "none" \/ p \in Pushes'
  PROVE  OneJobRuns'
  BY DEF OneJobRuns

\* The queue takes the new job and may replace the one waiting; it touches no
\* other.
LEMMA EnqueueJobs ==
  ASSUME NEW p \in Positions, Enqueue(p)
  PROVE  /\ job'[p] = "pending"
         /\ \A q \in Positions : q # p => job'[q] = job[q] \/ (job'[q] = "cancelled" /\ job[q] = "pending")
         /\ TypeOK => job' \in [Positions -> {"none", "pending"} \cup Running \cup Finished]
<1>1. job' = [q \in Positions |-> IF q = p THEN "pending"
                                ELSE IF job[q] = "pending" THEN "cancelled" ELSE job[q]]
  BY DEF Enqueue
<1>2. \A q \in Positions : job'[q] = IF q = p THEN "pending"
                                ELSE IF job[q] = "pending" THEN "cancelled" ELSE job[q]
  BY <1>1
<1>3. TypeOK => \A q \in Positions : job'[q] \in {"none", "pending"} \cup Running \cup Finished
  BY <1>2 DEF TypeOK, Finished
<1>4. TypeOK => job' \in [Positions -> {"none", "pending"} \cup Running \cup Finished]
  BY <1>1, <1>3
<1>5. job'[p] = "pending"
  BY <1>2
<1>6. ASSUME NEW q \in Positions, q # p
      PROVE  job'[q] = job[q] \/ (job'[q] = "cancelled" /\ job[q] = "pending")
  <2>1. CASE job[q] = "pending"
    BY <1>2, <1>6, <2>1
  <2>2. CASE job[q] # "pending"
    BY <1>2, <1>6, <2>2
  <2> QED
    BY <2>1, <2>2
<1> QED
  BY <1>4, <1>5, <1>6

\* A job that ends.
LEMMA FinishJobs ==
  ASSUME TypeOK, NEW p \in Positions, NEW result \in Finished, Finish(p, result)
  PROVE  /\ job' \in [Positions -> {"none", "pending"} \cup Running \cup Finished]
         /\ head' \in [Positions -> LocalHead] /\ turn' \in [Positions -> Order]
         /\ job'[p] = result /\ result \notin Running
         /\ \A q \in Positions : q # p =>
              job'[q] = job[q] /\ head'[q] = head[q] /\ turn'[q] = turn[q]
<1>1. NoHead \in LocalHead /\ 1 \in Order
  BY BranchAssumption DEF BranchAssumption, NoHead, LocalHead, Order
<1> QED
  BY <1>1 DEF TypeOK, Finish, Goto, Finished, Running
-----------------------------------------------------------------------------
(* The steps.                                                                *)

\* The empty branch satisfies the invariant.
LEMMA InitIInv == Init => IInv
<1> SUFFICES ASSUME Init PROVE IInv
  OBVIOUS
<1> USE BranchAssumption DEF BranchAssumption, Init
<1>1. NoHead \in LocalHead /\ 1 \in Order /\ Len(branch) = 0 /\ branch \in Seq(Commit)
  BY EmptySeq DEF NoHead, LocalHead, Order
<1>2. TypeOK
  <2>1. registry \in [Order -> Seq(Revision)]
    BY EmptySeq
  <2> QED
    BY <1>1, <2>1 DEF TypeOK
<1>3. Pushes = {}
  BY <1>1 DEF Pushes
<1>4. OneJobRuns /\ (\A p \in Positions : JobInv(p)) /\ QuietInv
  BY <1>3 DEF OneJobRuns, JobInv, QuietInv, IsLastPush, Running, Delivering
<1>5. LedgerInv
  <2>1. BranchInv /\ TagInv /\ LastInv
    BY <1>1, <1>3 DEF BranchInv, TagInv, LastInv
  <2>2. \A k \in Order : Len(registry[k]) = 0
    BY EmptySeq
  <2> QED
    BY <2>1, <2>2 DEF LedgerInv, PublishedIsTagged, RegistryFollowsBranch
<1> QED
  BY <1>2, <1>4, <1>5 DEF IInv

\* A commit on top of the branch moves nothing below it.
LEMMA LedgerOnTop ==
  ASSUME IInv, NEW c \in Commit, branch' = Append(branch, c), Len(branch) < MaxBranch,
         UNCHANGED <<registry, tags>>,
         c.ver >= VersionAt(Len(branch)),
         c.by = "release" => Len(branch) # 0 /\ c.text = branch[Len(branch)].text
  PROVE  LedgerInv'
<1> USE DEF IInv
<1> DEFINE n == Len(branch)
<1>1. /\ branch' \in Seq(Commit) /\ n \in Nat /\ Len(branch') = n + 1
      /\ \A q \in 1..n : branch'[q] = branch[q]
      /\ branch'[n + 1] = c /\ n + 1 \in Positions
  BY BranchGrows
<1>2. \A q \in 1..n : branch[q].ver \in Nat
  BY BranchTypes DEF Commit
<1> HIDE DEF n
<1>3. BranchInv'
  <2> SUFFICES ASSUME NEW a \in 1..Len(branch'), NEW b \in 1..Len(branch'), a <= b
               PROVE  /\ branch'[a].ver <= branch'[b].ver
                      /\ (\A q \in (a + 1)..b : branch'[q].by = "release")
                           => branch'[a].text = branch'[b].text
    BY DEF BranchInv
  <2> a \in 1..(n + 1) /\ b \in 1..(n + 1)
    BY <1>1
  <2>0. LedgerInv /\ BranchInv
    BY DEF LedgerInv
  <2>1. CASE b <= n
    <3>1. a \in 1..n /\ b \in 1..n /\ (a + 1)..b \subseteq 1..n
      BY <1>1, <2>1
    <3>2. branch'[a] = branch[a] /\ branch'[b] = branch[b]
           /\ \A q \in (a + 1)..b : branch'[q] = branch[q]
      BY <1>1, <3>1
    <3> QED
      BY <2>0, <3>1, <3>2 DEF BranchInv, n
  <2>2. CASE a = n + 1 /\ b = n + 1
    BY <1>1, <2>2 DEF Commit
  <2>3. CASE a <= n /\ b = n + 1
    <3>1. a \in 1..n /\ n \in 1..n /\ (a + 1)..n \subseteq 1..n /\ n + 1 \in (a + 1)..b
           /\ (a + 1)..n \subseteq (a + 1)..b /\ a <= n
      BY <1>1, <2>3
    <3>2. branch[a].ver <= branch[n].ver
      BY <2>0, <3>1 DEF BranchInv, n
    <3>3. branch[n].ver <= c.ver /\ c.ver \in Nat
      BY <3>1 DEF VersionAt, n, Commit
    <3>4. branch'[a].ver <= branch'[b].ver
      BY <1>1, <1>2, <2>3, <3>1, <3>2, <3>3
    <3>5. ASSUME \A q \in (a + 1)..b : branch'[q].by = "release"
          PROVE  branch'[a].text = branch'[b].text
      <4>1. c.by = "release" /\ \A q \in (a + 1)..n : branch[q].by = "release"
        BY <1>1, <3>1, <3>5
      <4>2. branch[a].text = branch[n].text
        BY <2>0, <3>1, <4>1 DEF BranchInv, n
      <4> QED
        BY <1>1, <2>3, <3>1, <4>1, <4>2 DEF n
    <3> QED
      BY <3>4, <3>5
  <2> QED
    BY <1>1, <2>1, <2>2, <2>3
<1>4. TagInv'
  <2>1. TagInv
    BY DEF LedgerInv
  <2> QED
    BY <1>1, <2>1 DEF TagInv, n
<1>5. PublishedIsTagged'
  <2> SUFFICES ASSUME NEW k \in Order, NEW i \in 1..Len(registry[k])
               PROVE  LET r == registry[k][i] IN
                        /\ <<k, r.ver, r.top>> \in tags
                        /\ branch'[r.top].text = r.text
                        /\ branch'[r.top].ver = r.ver
    BY DEF PublishedIsTagged
  <2>1. LET r == registry[k][i] IN
          <<k, r.ver, r.top>> \in tags /\ branch[r.top].text = r.text /\ branch[r.top].ver = r.ver
    BY DEF LedgerInv, PublishedIsTagged
  <2>2. registry[k][i].top \in 1..n
    BY <2>1 DEF LedgerInv, TagInv, n
  <2> QED
    BY <1>1, <2>1, <2>2
<1>6. RegistryFollowsBranch'
  BY DEF LedgerInv, RegistryFollowsBranch
<1>7. LastInv'
  <2>1. CASE c.by = "human"
    <3>1. n + 1 \in Pushes' /\ \A q \in Pushes' : q <= n + 1
      BY <1>1, <2>1 DEF Pushes
    <3> QED
      BY <3>1 DEF LastInv, IsLastPush
  <2>2. CASE c.by = "release"
    <3>1. Pushes' = Pushes
      <4>1. \A q \in 1..(n + 1) : branch'[q].by = "human" <=> (q \in 1..n /\ branch[q].by = "human")
        BY <1>1, <2>2
      <4> QED
        BY <1>1, <4>1 DEF Pushes, n
    <3> QED
      BY <3>1 DEF LedgerInv, LastInv, IsLastPush
  <2> QED
    BY <2>1, <2>2 DEF Commit
<1> QED
  BY <1>3, <1>4, <1>5, <1>6, <1>7 DEF LedgerInv

\* Jobs that no step of theirs brings forward.
LEMMA JobsRest ==
  ASSUME IInv, UNCHANGED remote,
         \A p \in Positions : \/ job'[p] \notin Running
                              \/ job'[p] = job[p] /\ head'[p] = head[p] /\ turn'[p] = turn[p],
         \A p \in Positions : job'[p] = "success" => job[p] = "success"
  PROVE  LedgerInv' /\ (\A p \in Positions : JobInv(p)') /\ QuietInv'
<1>1. LedgerInv'
  BY LedgerStays DEF IInv
<1>2. ASSUME NEW p \in Positions PROVE JobInv(p)'
  BY <1>2, JobRests, JobStays DEF IInv
<1>3. Delivering \subseteq Running
  BY DEF Delivering, Running
<1>4. QuietInv'
  BY <1>3, QuietStays DEF IInv
<1> QED
  BY <1>1, <1>2, <1>4

\* A push keeps the invariant: it appends a commit and queues its job.
LEMMA PushStep ==
  ASSUME IInv, NEW text \in Texts, NEW bump \in 0..1, Push(text, bump) PROVE IInv'
<1> USE DEF IInv
<1> DEFINE c == [text |-> text, ver |-> VersionAt(Len(branch)) + bump, by |-> "human"]
           n == Len(branch)
<1>1. /\ branch' = Append(branch, c) /\ n < MaxBranch /\ Enqueue(n + 1)
      /\ UNCHANGED <<registry, tags, ci, head, turn, reruns, failures, green>>
  BY DEF Push, local
<1>2. n \in Nat /\ VersionAt(n) \in Nat
  BY BranchTypes DEF VersionAt, Commit
<1>3. c \in Commit /\ c.ver >= VersionAt(n) /\ c.by = "human"
  BY <1>2 DEF Commit
<1> HIDE DEF c
<1>4. /\ branch' \in Seq(Commit) /\ Len(branch') = n + 1
      /\ \A q \in 1..n : branch'[q] = branch[q]
      /\ branch'[n + 1] = c /\ n + 1 \in Positions
  BY <1>1, <1>3, BranchGrows
<1> HIDE DEF n
<1>5. /\ job'[n + 1] = "pending"
      /\ \A q \in Positions : q # n + 1 =>
           job'[q] = job[q] \/ (job'[q] = "cancelled" /\ job[q] = "pending")
      /\ job' \in [Positions -> {"none", "pending"} \cup Running \cup Finished]
  BY <1>1, <1>4, EnqueueJobs
<1>6. TypeOK'
  <2>1. Len(branch') <= MaxBranch
    BY <1>1, <1>2, <1>4, BranchTypes DEF n
  <2> QED
    BY <1>1, <1>4, <1>5, <2>1 DEF TypeOK
<1>7. LedgerInv'
  BY <1>1, <1>3, LedgerOnTop DEF n
<1>8. Pushes' = Pushes \cup {n + 1}
  <2>1. \A q \in 1..(n + 1) : branch'[q].by = "human" <=> (q = n + 1 \/ (q \in 1..n /\ branch[q].by = "human"))
    BY <1>2, <1>3, <1>4
  <2> QED
    BY <1>2, <1>4, <2>1 DEF Pushes, n
<1>9. OneJobRuns'
  <2>1. \A q \in Positions : job'[q] \in Running => job[q] \in Running
    BY <1>5 DEF Running
  <2>2. \A q \in Positions : job'[q] # "none" => job[q] # "none" \/ q \in Pushes'
    BY <1>5, <1>8
  <2> QED
    BY <1>8, <2>1, <2>2, OneStays
<1>10. ASSUME NEW p \in Positions PROVE JobInv(p)'
  <2>1. CASE job'[p] \notin Running
    BY <2>1, JobRests
  <2>2. CASE job'[p] \in Running
    <3>1. job'[p] = job[p] /\ head'[p] = head[p] /\ turn'[p] = turn[p]
      BY <1>1, <1>5, <2>2 DEF Running
    <3>2. JobInv(p)
      OBVIOUS
    <3>3. OnBranch(p) => OnBranch(p)' /\ branch'[head[p].top] = branch[head[p].top]
      BY <1>2, <1>4, <3>1 DEF OnBranch, n
    <3>4. job[p] \in Delivering => OnBranch(p)' /\ branch'[head[p].top] = branch[head[p].top]
      BY <3>2, <3>3 DEF JobInv
    <3> QED
      BY <1>1, <3>1, <3>2, <3>4 DEF JobInv, Newest, Delivering
  <2> QED
    BY <2>1, <2>2
<1>11. QuietInv'
  <2>1. \A l : IsLastPush(l)' => l = n + 1
    BY <1>2, <1>8, BranchTypes DEF IsLastPush, n
  <2>2. job'[n + 1] # "success"
    BY <1>5
  <2> QED
    BY <2>1, <2>2 DEF QuietInv
<1> QED
  BY <1>6, <1>7, <1>9, <1>10, <1>11

\* The steps that touch no job, and those that let one wait or start.
LEMMA IdleStep ==
  ASSUME IInv, (\E p \in Positions, s \in {"green", "other"} : CiReports(p, s)) \/ UNCHANGED vars
  PROVE  IInv'
<1> USE DEF IInv
<1>1. UNCHANGED <<remote, job, head, turn, reruns, failures>>
  BY DEF CiReports, vars, local
<1>2. TypeOK'
  BY <1>1 DEF TypeOK, CiReports, vars, remote
<1>3. Pushes' = Pushes
  BY <1>1 DEF remote, Pushes
<1>4. OneJobRuns'
  BY <1>1, <1>3 DEF OneJobRuns
<1>5. LedgerInv' /\ (\A p \in Positions : JobInv(p)') /\ QuietInv'
  BY <1>1, JobsRest
<1> QED
  BY <1>2, <1>4, <1>5

\* A re-run keeps it: the job comes back to the queue as it was pushed.
LEMMA RerunStep == ASSUME IInv, NEW p \in Positions, Rerun(p) PROVE IInv'
<1> USE DEF IInv
<1>1. /\ job[p] \in Finished /\ reruns' = reruns + 1 /\ Enqueue(p)
      /\ UNCHANGED <<remote, ci, head, turn, failures, green>>
  BY DEF Rerun, local
<1>2. /\ job'[p] = "pending"
      /\ \A q \in Positions : q # p =>
           job'[q] = job[q] \/ (job'[q] = "cancelled" /\ job[q] = "pending")
      /\ job' \in [Positions -> {"none", "pending"} \cup Running \cup Finished]
  BY <1>1, EnqueueJobs
<1>3. TypeOK'
  BY <1>1, <1>2 DEF TypeOK, remote
<1>4. /\ Pushes' = Pushes
      /\ \A q \in Positions : job'[q] \in Running => job[q] \in Running
      /\ \A q \in Positions : job'[q] # "none" => job[q] # "none"
      /\ \A q \in Positions : job'[q] \in Running => job'[q] = job[q]
      /\ \A q \in Positions : job'[q] = "success" => job[q] = "success"
  BY <1>1, <1>2 DEF remote, Pushes, Running, Finished
<1>5. OneJobRuns'
  BY <1>4, OneStays
<1>6. LedgerInv' /\ (\A q \in Positions : JobInv(q)') /\ QuietInv'
  BY <1>1, <1>4, JobsRest
<1> QED
  BY <1>3, <1>5, <1>6

\* A job that ends without having published.
LEMMA EndStep ==
  ASSUME IInv, NEW p \in Positions, job[p] \in Running, Finish(p, "failure"),
         UNCHANGED <<remote, ci, reruns, green>>, failures' \in Nat
  PROVE  IInv'
<1> USE DEF IInv
<1>1. /\ job' \in [Positions -> {"none", "pending"} \cup Running \cup Finished]
      /\ head' \in [Positions -> LocalHead] /\ turn' \in [Positions -> Order]
      /\ job'[p] = "failure" /\ "failure" \notin Running
      /\ \A q \in Positions : q # p =>
              job'[q] = job[q] /\ head'[q] = head[q] /\ turn'[q] = turn[q]
  BY FinishJobs DEF Finished, Running
<1>2. TypeOK'
  BY <1>1 DEF TypeOK, remote
<1>3. Pushes' = Pushes /\ job[p] # "none"
  BY DEF remote, Pushes, Running
<1>4. OneJobRuns'
  BY <1>1, <1>3, OneStays
<1>5. \A q \in Positions : \/ job'[q] \notin Running
                           \/ job'[q] = job[q] /\ head'[q] = head[q] /\ turn'[q] = turn[q]
  BY <1>1
<1>6. \A q \in Positions : job'[q] = "success" => job[q] = "success"
  BY <1>1
<1>7. LedgerInv' /\ (\A q \in Positions : JobInv(q)') /\ QuietInv'
  BY <1>5, <1>6, JobsRest
<1> QED
  BY <1>2, <1>4, <1>7

\* The one job that runs, or the first to start, goes on to another step.
LEMMA JobMoves ==
  ASSUME IInv, NEW p \in Positions, NEW step \in Running,
         job[p] \in Running \/ (job[p] = "pending" /\ GroupFree),
         job' = [job EXCEPT ![p] = step]
  PROVE  /\ job' \in [Positions -> {"none", "pending"} \cup Running \cup Finished]
         /\ job'[p] = step
         /\ \A q \in Positions : q # p => job'[q] = job[q] /\ job'[q] \notin Running
         /\ p \in Pushes
         /\ Pushes \subseteq Pushes' => OneJobRuns'
<1> USE DEF IInv
<1>1. job' \in [Positions -> {"none", "pending"} \cup Running \cup Finished] /\ job'[p] = step
      /\ \A q \in Positions : q # p => job'[q] = job[q]
  BY DEF TypeOK
<1>2. \A q \in Positions : q # p => job'[q] \notin Running
  BY <1>1 DEF OneJobRuns, GroupFree
<1>3. p \in Pushes
  BY DEF OneJobRuns, Running
<1>4. Pushes \subseteq Pushes' => OneJobRuns'
  BY <1>1, <1>2, <1>3 DEF OneJobRuns
<1> QED
  BY <1>1, <1>2, <1>3, <1>4

\* It does so without touching branch, tags and registry, and what it has in
\* its checkout fits its new step.
LEMMA WorkStep ==
  ASSUME IInv, NEW p \in Positions, NEW step \in Running,
         job[p] \in Running \/ (job[p] = "pending" /\ GroupFree),
         job' = [job EXCEPT ![p] = step],
         NEW h \in LocalHead, head' = [head EXCEPT ![p] = h],
         UNCHANGED <<remote, ci, turn, reruns, failures, green>>,
         JobInv(p)',
         step \in Delivering => \A l \in Pushes : l <= h.top
  PROVE  IInv'
<1> USE DEF IInv
<1>1. /\ job' \in [Positions -> {"none", "pending"} \cup Running \cup Finished]
      /\ job'[p] = step
      /\ \A q \in Positions : q # p => job'[q] = job[q] /\ job'[q] \notin Running
  BY JobMoves
<1>2. Pushes' = Pushes
  BY DEF Pushes, remote
<1>3. OneJobRuns'
  BY <1>2, JobMoves
<1>4. TypeOK'
  BY <1>1 DEF TypeOK, remote
<1>5. LedgerInv'
  BY LedgerStays
<1>6. \A q \in Positions : JobInv(q)'
  BY <1>1, JobRests
<1>7. QuietInv'
  <2> SUFFICES ASSUME NEW l \in Positions, IsLastPush(l)', job'[l] = "success"
               PROVE  /\ \A k \in Order : registry'[k] # <<>> /\ Newest(k)'.text = branch'[l].text
                      /\ \A q \in Positions : job'[q] \in Delivering => l <= head'[q].top
    BY DEF QuietInv
  <2>1. IsLastPush(l) /\ job[l] = "success"
    BY <1>1, <1>2 DEF IsLastPush, Running
  <2>2. \A k \in Order : registry'[k] # <<>> /\ Newest(k)'.text = branch'[l].text
    BY <2>1 DEF QuietInv, Newest, remote
  <2>3. ASSUME NEW q \in Positions, job'[q] \in Delivering PROVE l <= head'[q].top
    <3>1. q = p
      BY <1>1, <2>3 DEF Delivering, Running
    <3>2. head'[p] = h
      BY DEF TypeOK
    <3> QED
      BY <1>1, <2>1, <2>3, <3>1, <3>2 DEF IsLastPush
  <2> QED
    BY <2>2, <2>3
<1> QED
  BY <1>3, <1>4, <1>5, <1>6, <1>7

\* A start keeps it: nothing else runs, and the job has no version yet.
LEMMA StartStep == ASSUME IInv, NEW p \in Positions, Start(p) PROVE IInv'
<1> USE DEF IInv
<1> DEFINE h == [ver |-> branch[p].ver, env |-> 0, top |-> p, ahead |-> 0]
<1>1. /\ job[p] = "pending" /\ GroupFree /\ job' = [job EXCEPT ![p] = "gate"]
      /\ head' = [head EXCEPT ![p] = h]
      /\ UNCHANGED <<remote, ci, turn, reruns, failures, green>>
  BY DEF Start, At, Goto
<1>2. branch[p].ver \in Nat /\ p \in 0..MaxBranch
  <2>1. p \in Pushes
    BY <1>1 DEF OneJobRuns
  <2> QED
    BY <2>1, BranchTypes DEF Commit, Positions
<1>3. h \in LocalHead /\ h.top = p
  BY <1>2 DEF LocalHead
<1> HIDE DEF h
<1>4. head'[p] = h /\ job'[p] = "gate"
  BY <1>1 DEF TypeOK
<1>5. JobInv(p)'
  BY <1>3, <1>4 DEF JobInv, Delivering
<1> QED
  BY <1>1, <1>3, <1>5, WorkStep DEF Running, Delivering

\* A step that leaves the checkout as it is.
LEMMA GateMoves ==
  ASSUME IInv, NEW p \in Positions, NEW step \in {"ci", "bump"}, job[p] \in {"gate", "ci"},
         job' = [job EXCEPT ![p] = step],
         UNCHANGED <<remote, ci, head, turn, reruns, failures, green>>
  PROVE  IInv'
<1> USE DEF IInv
<1>1. head' = [head EXCEPT ![p] = head[p]] /\ head[p] \in LocalHead
  BY DEF TypeOK
<1>2. head[p].top = p /\ JobInv(p)
  BY DEF JobInv
<1>3. JobInv(p)'
  BY <1>2 DEF TypeOK, JobInv, Delivering
<1> QED
  BY <1>1, <1>3, WorkStep DEF Running, Delivering

\* A job that finds nothing to publish has found its own text in the registry.
LEMMA GateStep == ASSUME IInv, ~Npm, NEW p \in Positions, ContentGate(p) PROVE IInv'
<1> USE DEF IInv
<1>0. job[p] = "gate" /\ UNCHANGED <<remote, ci, reruns, failures, green>>
  BY DEF ContentGate, At
<1>1. CASE Goto(p, "ci") /\ UNCHANGED local
  BY <1>0, <1>1, GateMoves DEF Goto, local
<1>2. CASE ~AnyChanged(p) /\ Finish(p, "success")
  <2>1. /\ job' \in [Positions -> {"none", "pending"} \cup Running \cup Finished]
        /\ head' \in [Positions -> LocalHead] /\ turn' \in [Positions -> Order]
        /\ job'[p] = "success" /\ "success" \notin Running
        /\ \A q \in Positions : q # p =>
                job'[q] = job[q] /\ head'[q] = head[q] /\ turn'[q] = turn[q]
    BY <1>2, FinishJobs DEF Finished
  <2>2. TypeOK'
    BY <1>0, <2>1 DEF TypeOK, remote
  <2>3. Pushes' = Pushes
    BY <1>0 DEF remote, Pushes
  <2>4. OneJobRuns'
    BY <1>0, <2>1, <2>3, OneStays
  <2>5. LedgerInv'
    BY <1>0, LedgerStays
  <2>6. \A q \in Positions : JobInv(q)'
    BY <1>0, <2>1, JobRests, JobStays
  <2>7. \A q \in Positions : job'[q] \notin Running
    BY <1>0, <2>1 DEF OneJobRuns, Running
  <2>8. head[p].top = p
    BY <1>0 DEF JobInv
  <2>9. \A k \in Order : registry[k] # <<>> /\ Newest(k).text = branch[p].text
    BY <1>2, <2>8 DEF AnyChanged, Differs, HeadText
  <2>10. QuietInv'
    <3> SUFFICES ASSUME NEW l \in Positions, IsLastPush(l)', job'[l] = "success"
                 PROVE  \A k \in Order : registry'[k] # <<>> /\ Newest(k)'.text = branch'[l].text
      BY <2>7 DEF QuietInv, Delivering, Running
    <3>1. CASE l = p
      BY <1>0, <2>9, <3>1 DEF Newest, remote
    <3>2. CASE l # p
      <4>1. IsLastPush(l) /\ job[l] = "success"
        BY <2>1, <2>3, <3>2 DEF IsLastPush
      <4> QED
        BY <1>0, <4>1 DEF QuietInv, Newest, remote
    <3> QED
      BY <3>1, <3>2
  <2> QED
    BY <2>2, <2>4, <2>5, <2>6, <2>10
<1> QED
  BY <1>1, <1>2 DEF ContentGate

\* The gate on the commit's CI keeps it.
LEMMA CiStep == ASSUME IInv, NEW p \in Positions, CiGate(p) PROVE IInv'
<1> USE DEF IInv
<1>0. job[p] = "ci" /\ UNCHANGED <<remote, ci, reruns, failures, green>>
  BY DEF CiGate, At
<1>1. CASE Goto(p, "bump") /\ UNCHANGED local
  BY <1>0, <1>1, GateMoves DEF Goto, local
<1>2. CASE Finish(p, "failure")
  BY <1>0, <1>2, EndStep DEF TypeOK, Running
<1> QED
  BY <1>1, <1>2 DEF CiGate

\* The bump keeps it: it writes the version in the job's checkout only.
LEMMA BumpStep == ASSUME IInv, NEW p \in Positions, Bump(p) PROVE IInv'
<1> USE DEF IInv
<1> DEFINE h == [head[p] EXCEPT !.ver = @ + 1, !.env = head[p].ver + 1, !.ahead = 1]
<1>1. /\ job[p] = "bump" /\ job' = [job EXCEPT ![p] = "rebase"]
      /\ UNCHANGED <<remote, ci, turn, reruns, failures, green>>
  BY DEF Bump, At, Goto
<1>2. head[p] \in LocalHead /\ head[p].ver + 1 \in Nat /\ 1 \in 0..1
  BY DEF TypeOK, LocalHead
<1>3. h \in LocalHead
  BY <1>2 DEF LocalHead
<1>4. head' = [head EXCEPT ![p] = h]
  BY <1>2 DEF Bump, TypeOK, LocalHead
<1> HIDE DEF h
<1>5. job'[p] = "rebase"
  BY <1>1 DEF TypeOK
<1>6. JobInv(p)'
  BY <1>5 DEF JobInv, Delivering
<1> QED
  BY <1>1, <1>3, <1>4, <1>6, WorkStep DEF Running, Delivering

\* The rebase puts the job on the end of the branch, one version above it or at
\* its version; a version that is tagged ends the job.
LEMMA RebaseStep == ASSUME IInv, ~Npm, NEW p \in Positions, Rebase(p) PROVE IInv'
<1> USE DEF IInv
<1> DEFINE h == Rebased(p)
<1>0. job[p] = "rebase" /\ UNCHANGED <<remote, ci, reruns, failures, green>>
  BY DEF Rebase, At
<1>1. CASE Finish(p, "failure")
  BY <1>0, <1>1, EndStep DEF TypeOK, Running
<1>2. CASE /\ ~RebaseConflicts(p) /\ ~TagExists(TagVersion(h))
           /\ head' = [head EXCEPT ![p] = h] /\ Goto(p, "push") /\ UNCHANGED turn
  <2>1. p \in Pushes
    BY <1>0 DEF OneJobRuns, Running
  <2>2. /\ Len(branch) \in Nat /\ Len(branch) \in 1..Len(branch) /\ p <= Len(branch)
        /\ Len(branch) \in 0..MaxBranch /\ \A l \in Pushes : l <= Len(branch)
    BY <2>1, BranchTypes DEF Positions
  <2>3. Tip.ver \in Nat /\ head[p] \in LocalHead
    BY <2>2, BranchTypes DEF Tip, Commit, TypeOK
  <2>4. /\ h.ver = IF Dropped(p) THEN Tip.ver ELSE head[p].ver
        /\ h.env = head[p].env
        /\ h.top = Len(branch)
        /\ h.ahead = IF Dropped(p) THEN 0 ELSE 1
    BY DEF Rebased
  <2>5. h \in LocalHead
    BY <2>2, <2>3 DEF Rebased, LocalHead
  <2>6. \A t \in tags : t[2] # h.ver
    BY <1>2 DEF TagExists, TagVersion
  <2>7. h.ver = branch[h.top].ver + h.ahead
    <3>1. CASE Dropped(p)
      BY <2>3, <2>4, <3>1 DEF Tip
    <3>2. CASE ~Dropped(p)
      BY <1>2, <2>3, <2>4, <3>2 DEF Tip, RebaseConflicts
    <3> QED
      BY <3>1, <3>2
  <2> HIDE DEF h
  <2>8. head'[p] = h /\ job'[p] = "push"
    BY <1>2 DEF TypeOK, Goto
  <2>9. JobInv(p)'
    <3>1. branch' = branch /\ tags' = tags
      BY <1>0 DEF remote
    <3>2. OnBranch(p)'
      BY <2>2, <2>4, <2>8, <3>1 DEF OnBranch
    <3> QED
      BY <2>6, <2>7, <2>8, <3>1, <3>2 DEF JobInv
  <2>10. \A l \in Pushes : l <= h.top
    BY <2>2, <2>4
  <2> QED
    BY <1>0, <1>2, <2>5, <2>9, <2>10, WorkStep DEF Goto, Running
<1> QED
  BY <1>1, <1>2 DEF Rebase

\* What a tag out so far says of a job about to tag a commit at or above the end
\* of the branch, with another version.
LEMMA TagsAreBelow ==
  ASSUME IInv, NEW p \in Positions, job[p] = "push", head[p].top = Len(branch),
         NEW t \in tags
  PROVE  /\ t[2] < head[p].ver
         /\ t[3] <= Len(branch)
         /\ head[p].ahead = 0 => t[3] < Len(branch)
<1> USE DEF IInv
<1>1. /\ t[3] \in 1..Len(branch) /\ branch[t[3]].ver = t[2]
      /\ OnBranch(p) /\ head[p].ver = branch[head[p].top].ver + head[p].ahead /\ t[2] # head[p].ver
  BY DEF LedgerInv, TagInv, JobInv, Delivering
<1>2. /\ Len(branch) \in Nat /\ Len(branch) \in 1..Len(branch) /\ t[3] <= Len(branch)
      /\ branch[t[3]].ver \in Nat /\ branch[Len(branch)].ver \in Nat
      /\ head[p].ahead \in 0..1
  <2>1. Len(branch) \in Nat /\ Len(branch) \in 1..Len(branch) /\ t[3] <= Len(branch)
    BY <1>1, BranchTypes DEF OnBranch
  <2>2. branch[t[3]].ver \in Nat /\ branch[Len(branch)].ver \in Nat
    BY <1>1, <2>1, BranchTypes DEF Commit
  <2>3. head[p].ahead \in 0..1
    BY DEF TypeOK, LocalHead
  <2> QED
    BY <2>1, <2>2, <2>3
<1>3. branch[t[3]].ver <= branch[Len(branch)].ver
  BY <1>1, <1>2 DEF LedgerInv, BranchInv
<1>4. t[2] < head[p].ver
  BY <1>1, <1>2, <1>3
<1>5. head[p].ahead = 0 => t[3] # Len(branch)
  BY <1>1, <1>2
<1> QED
  BY <1>1, <1>2, <1>4, <1>5

\* The push of the release commit keeps it: the branch grows by the job's
\* head.
LEMMA PushCommitStep == ASSUME IInv, NEW p \in Positions, PushCommit(p) PROVE IInv'
<1> USE DEF IInv
<1>0. job[p] = "push" /\ UNCHANGED <<registry, tags, ci, reruns, failures, green>>
  BY DEF PushCommit, At
<1>1. CASE Finish(p, "failure") /\ UNCHANGED branch
  BY <1>0, <1>1, EndStep DEF TypeOK, Running, remote
<1>2. JobInv(p) /\ OnBranch(p) /\ head[p] \in LocalHead
  BY <1>0 DEF JobInv, Delivering, TypeOK
<1>3. CASE /\ Len(branch) = head[p].top /\ head[p].ahead # 1
           /\ Goto(p, "pushTags") /\ UNCHANGED <<branch, local>>
  <2>1. head' = [head EXCEPT ![p] = head[p]] /\ turn' = turn /\ head[p].ahead = 0
    BY <1>2, <1>3 DEF TypeOK, local, LocalHead
  <2>2. \A t \in tags : t[2] < head[p].ver /\ t[3] < head[p].top
    BY <1>0, <1>3, <2>1, TagsAreBelow
  <2>3. head[p].ver = branch[head[p].top].ver
    BY <1>0, <1>2, <2>1, BranchTypes DEF JobInv, OnBranch, Commit
  <2>4. head'[p] = head[p] /\ job'[p] = "pushTags"
    BY <1>3, <2>1 DEF Goto, TypeOK
  <2>5. JobInv(p)'
    <3>1. branch' = branch /\ tags' = tags
      BY <1>0, <1>3
    <3>2. OnBranch(p)'
      BY <1>2, <2>4, <3>1 DEF OnBranch
    <3> QED
      BY <2>2, <2>3, <2>4, <3>1, <3>2 DEF JobInv
  <2>6. \A l \in Pushes : l <= head[p].top
    BY <1>3, BranchTypes
  <2> QED
    BY <1>0, <1>2, <1>3, <2>1, <2>5, <2>6, WorkStep DEF Goto, Running, remote
<1>4. CASE /\ Len(branch) = head[p].top /\ head[p].ahead = 1 /\ Len(branch) < MaxBranch
           /\ branch' = Append(branch,
                [text |-> HeadText(p), ver |-> head[p].ver, by |-> "release"])
           /\ head' = [head EXCEPT ![p].top = @ + 1, ![p].ahead = 0]
           /\ Goto(p, "pushTags") /\ UNCHANGED turn
  <2> DEFINE c == [text |-> HeadText(p), ver |-> head[p].ver, by |-> "release"]
             n == Len(branch)
             h == [head[p] EXCEPT !.top = @ + 1, !.ahead = 0]
  <2>1. /\ n \in Nat /\ n # 0 /\ n \in 1..n /\ branch[n] \in Commit
        /\ head[p].ver = branch[n].ver + 1 /\ HeadText(p) = branch[n].text
    BY <1>0, <1>2, <1>4, BranchTypes DEF OnBranch, JobInv, HeadText
  <2>2. c \in Commit /\ c.ver >= VersionAt(n) /\ c.by = "release" /\ c.text = branch[n].text
        /\ c.ver = head[p].ver
    BY <2>1 DEF Commit, VersionAt
  <2> HIDE DEF c
  <2>3. /\ branch' \in Seq(Commit) /\ Len(branch') = n + 1
        /\ \A q \in 1..n : branch'[q] = branch[q]
        /\ branch'[n + 1] = c /\ n + 1 \in Positions
    BY <1>4, <2>2, BranchGrows DEF c
  <2>4. head' = [head EXCEPT ![p] = h] /\ h \in LocalHead /\ h.top = n + 1 /\ h.ver = head[p].ver
    <3>1. head[p].top + 1 = n + 1 /\ n + 1 \in 0..MaxBranch
      BY <1>4, <2>1, <2>3, BranchTypes DEF Positions
    <3> QED
      BY <1>2, <1>4, <3>1 DEF TypeOK, LocalHead
  <2> HIDE DEF h
  <2>5. LedgerInv'
    BY <1>0, <1>4, <2>1, <2>2, LedgerOnTop DEF c
  <2> HIDE DEF n
  <2>6. /\ job' \in [Positions -> {"none", "pending"} \cup Running \cup Finished]
        /\ job'[p] = "pushTags"
        /\ \A q \in Positions : q # p => job'[q] = job[q] /\ job'[q] \notin Running
    BY <1>0, <1>4, JobMoves DEF Goto, Running
  <2>7. TypeOK'
    <3>1. n + 1 <= MaxBranch
      BY <2>1, <2>3, BranchTypes DEF Positions
    <3>2. head' \in [Positions -> LocalHead]
      BY <2>4 DEF TypeOK
    <3>3. branch' \in Seq(Commit) /\ Len(branch') <= MaxBranch
      BY <2>3, <3>1
    <3>4. turn' = turn
      BY <1>4
    <3> QED
      BY <1>0, <2>6, <3>2, <3>3, <3>4 DEF TypeOK
  <2>8. Pushes' = Pushes
    <3>1. \A q \in 1..(n + 1) : branch'[q].by = "human" <=> (q \in 1..n /\ branch[q].by = "human")
      BY <2>1, <2>2, <2>3
    <3> QED
      BY <2>1, <2>3, <3>1 DEF Pushes, n
  <2>9. OneJobRuns'
    BY <1>0, <1>4, <2>8, JobMoves DEF Goto, Running
  <2>10. JobInv(p)'
    <3>1. head'[p] = h
      BY <2>4 DEF TypeOK
    <3>2. OnBranch(p)'
      BY <1>2, <1>4, <2>1, <2>3, <2>4, <3>1 DEF OnBranch, n, Positions
    <3>3. head'[p].ver = branch'[head'[p].top].ver
      BY <2>2, <2>3, <2>4, <3>1
    <3>4. \A t \in tags : t[2] < head[p].ver /\ t[3] <= n
      BY <1>0, <1>4, TagsAreBelow DEF n
    <3>5. \A t \in tags : t[3] \in Nat
      BY DEF LedgerInv, TagInv
    <3>6. \A t \in tags' : t[2] < head'[p].ver /\ t[3] < head'[p].top
      BY <1>0, <2>1, <2>4, <3>1, <3>4, <3>5
    <3> QED
      BY <2>6, <3>2, <3>3, <3>6 DEF JobInv
  <2>11. \A q \in Positions : JobInv(q)'
    BY <2>6, <2>10, JobRests
  <2>12. QuietInv'
    <3> SUFFICES ASSUME NEW l \in Positions, IsLastPush(l)', job'[l] = "success"
                 PROVE  /\ \A k \in Order : registry'[k] # <<>> /\ Newest(k)'.text = branch'[l].text
                        /\ \A q \in Positions : job'[q] \in Delivering => l <= head'[q].top
      BY DEF QuietInv
    <3>1. IsLastPush(l) /\ job[l] = "success" /\ l \in 1..n
      BY <2>6, <2>8, BranchTypes DEF IsLastPush, n
    <3>2. \A k \in Order : registry'[k] # <<>> /\ Newest(k)'.text = branch'[l].text
      BY <1>0, <2>3, <3>1 DEF QuietInv, Newest
    <3>3. ASSUME NEW q \in Positions, job'[q] \in Delivering PROVE l <= head'[q].top
      <4>1. q = p /\ head'[p] = h
        BY <2>4, <2>6, <3>3 DEF Delivering, Running, TypeOK
      <4> QED
        BY <2>1, <2>4, <3>1, <4>1
    <3> QED
      BY <3>2, <3>3
  <2> QED
    BY <2>5, <2>7, <2>9, <2>11, <2>12
<1> QED
  BY <1>0, <1>1, <1>3, <1>4 DEF PushCommit

\* The push of the tags keeps it: every tag names the position the job has
\* settled.
LEMMA PushTagsStep == ASSUME IInv, TurnInv, ~Npm, NEW p \in Positions, PushTags(p) PROVE IInv'
<1> USE DEF IInv
<1> DEFINE v == head[p].ver
           top == head[p].top
<1>0. /\ job[p] = "pushTags" /\ job' = [job EXCEPT ![p] = "publish"]
      /\ tags' = tags \cup {<<k, v, top>> : k \in Order}
      /\ UNCHANGED <<branch, registry, ci, head, turn, reruns, failures, green>>
  BY DEF PushTags, At, Goto, TagVersion, TaggedPosition, local
<1>1. /\ job' \in [Positions -> {"none", "pending"} \cup Running \cup Finished]
      /\ job'[p] = "publish"
      /\ \A q \in Positions : q # p => job'[q] = job[q] /\ job'[q] \notin Running
      /\ p \in Pushes
  BY <1>0, JobMoves DEF Running
<1>2. /\ top \in 1..Len(branch) /\ top \in Positions /\ p <= top
      /\ v \in Nat /\ v = branch[top].ver
      /\ \A t \in tags : t[2] < v /\ t[3] < top
  BY <1>0, BranchTypes DEF JobInv, OnBranch, Delivering, TypeOK, LocalHead
<1>3. TypeOK'
  <2>1. tags' \subseteq Order \X Nat \X Positions
    BY <1>0, <1>2 DEF TypeOK
  <2> QED
    BY <1>0, <1>1, <2>1 DEF TypeOK
<1>4. Pushes' = Pushes
  BY <1>0 DEF Pushes
<1>5. OneJobRuns'
  BY <1>0, <1>4, JobMoves DEF Running
<1>6. LedgerInv'
  <2>1. BranchInv' /\ RegistryFollowsBranch' /\ LastInv'
    BY <1>0, <1>4 DEF LedgerInv, BranchInv, RegistryFollowsBranch, LastInv, IsLastPush
  <2>2. TagInv'
    <3>1. \A t \in tags' : t \in tags \/ (t[2] = v /\ t[3] = top)
      BY <1>0
    <3> QED
      BY <1>0, <1>2, <3>1 DEF LedgerInv, TagInv
  <2>3. PublishedIsTagged'
    BY <1>0 DEF LedgerInv, PublishedIsTagged
  <2> QED
    BY <2>1, <2>2, <2>3 DEF LedgerInv
<1>7. JobInv(p)'
  <2>1. turn'[p] = 1 /\ \A k \in Order : ~(k < 1)
    BY <1>0 DEF TurnInv, Order
  <2>2. ASSUME NEW k \in Order
        PROVE  /\ <<k, v, top>> \in tags'
               /\ \A i \in 1..Len(registry'[k]) : registry'[k][i].ver < v /\ registry'[k][i].top < top
    <3>1. \A i \in 1..Len(registry[k]) :
            <<k, registry[k][i].ver, registry[k][i].top>> \in tags
      BY DEF LedgerInv, PublishedIsTagged
    <3> QED
      BY <1>0, <1>2, <3>1
  <2>3. head'[p] = head[p] /\ branch' = branch
    BY <1>0
  <2>4. OnBranch(p)'
    BY <1>2, <2>3 DEF OnBranch
  <2> QED
    BY <1>1, <1>2, <2>1, <2>2, <2>3, <2>4 DEF JobInv
<1>8. \A q \in Positions : JobInv(q)'
  BY <1>1, <1>7, JobRests
<1>9. QuietInv'
  <2> SUFFICES ASSUME NEW l \in Positions, IsLastPush(l)', job'[l] = "success"
               PROVE  /\ \A k \in Order : registry'[k] # <<>> /\ Newest(k)'.text = branch'[l].text
                      /\ \A q \in Positions : job'[q] \in Delivering => l <= head'[q].top
    BY DEF QuietInv
  <2>1. IsLastPush(l) /\ job[l] = "success"
    BY <1>1, <1>4 DEF IsLastPush
  <2>2. \A q \in Positions : job'[q] \in Delivering => q = p
    BY <1>1 DEF Delivering, Running
  <2> QED
    BY <1>0, <2>1, <2>2 DEF QuietInv, Newest, Delivering
<1> QED
  BY <1>3, <1>5, <1>6, <1>8, <1>9

\* On top of the last push there are release commits only, with its text.
LEMMA TextOfLastPush ==
  ASSUME IInv, NEW l \in Positions, IsLastPush(l), NEW b \in 1..Len(branch), l <= b
  PROVE  branch[b].text = branch[l].text
<1> USE DEF IInv
<1>1. l \in 1..Len(branch) /\ Len(branch) \in Nat
  BY BranchTypes DEF IsLastPush
<1>2. ASSUME NEW q \in (l + 1)..b PROVE branch[q].by = "release"
  <2>1. q \in 1..Len(branch) /\ ~(q <= l)
    BY <1>1
  <2>2. q \notin Pushes
    BY <2>1 DEF IsLastPush
  <2> QED
    BY <2>1, <2>2, BranchTypes DEF Pushes, Commit
<1> QED
  BY <1>1, <1>2 DEF LedgerInv, BranchInv

\* An upload: one revision more, of the tree that is tagged.
LEMMA UploadLedger ==
  ASSUME IInv, NEW p \in Positions, job[p] = "publish", Upload(p), UNCHANGED <<branch, tags>>
  PROVE  /\ registry' \in [Order -> Seq(Revision)]
         /\ \A j \in Order \ {turn[p]} : registry'[j] = registry[j]
         /\ registry'[turn[p]] # <<>>
         /\ \A k \in {turn[p]} : /\ Newest(k)'.top = head[p].top
                                /\ Newest(k)'.text = branch[head[p].top].text
         /\ LedgerInv'
<1> USE DEF IInv
<1> DEFINE r == [text |-> HeadText(p), ver |-> head[p].ver, top |-> head[p].top]
           k == turn[p]
<1>1. k \in Order /\ head[p] \in LocalHead
  BY DEF TypeOK
<1>2. /\ OnBranch(p) /\ head[p].ver = branch[head[p].top].ver
      /\ <<k, head[p].ver, head[p].top>> \in tags
      /\ \A i \in 1..Len(registry[k]) :
           registry[k][i].ver < head[p].ver /\ registry[k][i].top < head[p].top
  <2>1. ~(k < k)
    BY <1>1 DEF Order
  <2> QED
    BY <1>1, <2>1 DEF JobInv, Delivering
<1>3. head[p].top \in 1..Len(branch) /\ head[p].top \in Positions
      /\ branch[head[p].top].text \in Texts
  BY <1>2, BranchTypes DEF OnBranch, Commit
<1>4. /\ r \in Revision /\ r.ver = head[p].ver /\ r.top = head[p].top
      /\ r.text = branch[head[p].top].text
  BY <1>1, <1>3 DEF Revision, HeadText, LocalHead
<1>5. registry' = [registry EXCEPT ![k] = Append(@, r)]
  BY DEF Upload
<1> HIDE DEF r, k
<1>6. /\ registry' \in [Order -> Seq(Revision)]
      /\ \A j \in Order \ {k} : registry'[j] = registry[j]
      /\ registry'[k] # <<>>
      /\ Len(registry'[k]) = Len(registry[k]) + 1
      /\ \A i \in 1..Len(registry[k]) : registry'[k][i] = registry[k][i]
      /\ registry'[k][Len(registry[k]) + 1] = r
      /\ Len(registry[k]) \in Nat
  BY <1>1, <1>4, <1>5, RegistryGrows, NewestOf
<1>7. registry'[k][Len(registry'[k])] = r
  BY <1>6
<1>8. PublishedIsTagged'
  <2> SUFFICES ASSUME NEW j \in Order, NEW i \in 1..Len(registry'[j])
               PROVE  LET x == registry'[j][i] IN
                        /\ <<j, x.ver, x.top>> \in tags
                        /\ branch[x.top].text = x.text
                        /\ branch[x.top].ver = x.ver
    BY DEF PublishedIsTagged
  <2>1. CASE j # k \/ i \in 1..Len(registry[k])
    <3>1. i \in 1..Len(registry[j]) /\ registry'[j][i] = registry[j][i]
      BY <1>6, <2>1
    <3> QED
      BY <3>1 DEF LedgerInv, PublishedIsTagged
  <2>2. CASE j = k /\ i = Len(registry[k]) + 1
    BY <1>2, <1>4, <1>6, <2>2
  <2> QED
    BY <1>6, <2>1, <2>2
<1>9. RegistryFollowsBranch'
  <2> SUFFICES ASSUME NEW m \in Order, NEW i \in 1..Len(registry'[m]),
                      NEW j \in 1..Len(registry'[m]), i < j
               PROVE  /\ registry'[m][i].ver < registry'[m][j].ver
                      /\ registry'[m][i].top < registry'[m][j].top
    BY DEF RegistryFollowsBranch
  <2>1. CASE m # k
    <3>1. registry'[m] = registry[m]
      BY <1>6, <2>1
    <3> QED
      BY <3>1 DEF LedgerInv, RegistryFollowsBranch
  <2>2. CASE m = k /\ j \in 1..Len(registry[k])
    <3>1. i \in 1..Len(registry[k]) /\ registry'[k][i] = registry[k][i]
          /\ registry'[k][j] = registry[k][j]
      BY <1>6, <2>2
    <3> QED
      BY <1>1, <2>2, <3>1 DEF LedgerInv, RegistryFollowsBranch
  <2>3. CASE m = k /\ j = Len(registry[k]) + 1
    <3>1. i \in 1..Len(registry[k]) /\ registry'[k][i] = registry[k][i] /\ registry'[k][j] = r
      BY <1>6, <2>3
    <3> QED
      BY <1>2, <1>4, <2>3, <3>1
  <2> QED
    BY <1>6, <2>1, <2>2, <2>3
<1>10. BranchInv' /\ TagInv' /\ LastInv'
  BY DEF LedgerInv, BranchInv, TagInv, LastInv, IsLastPush, Pushes
<1>11. \A m \in {k} : Newest(m)'.top = head[p].top /\ Newest(m)'.text = branch[head[p].top].text
  BY <1>4, <1>7 DEF Newest
<1> QED
  BY <1>6, <1>8, <1>9, <1>10, <1>11 DEF LedgerInv, k

\* An upload after the success of the last push has that push's text.
LEMMA UploadQuiet ==
  ASSUME IInv, NEW p \in Positions, job[p] = "publish", Upload(p), UNCHANGED <<branch, tags>>,
         NEW l \in Positions, IsLastPush(l), job[l] = "success"
  PROVE  \A k \in Order : registry'[k] # <<>> /\ Newest(k)'.text = branch[l].text
<1> USE DEF IInv
<1>1. l <= head[p].top /\ head[p].top \in 1..Len(branch)
  BY DEF QuietInv, Delivering, JobInv, OnBranch
<1>2. branch[head[p].top].text = branch[l].text
  BY <1>1, TextOfLastPush
<1>3. \A k \in Order : registry[k] # <<>> /\ Newest(k).text = branch[l].text
  BY DEF QuietInv
<1>4. \A k \in Order \ {turn[p]} : registry'[k] = registry[k]
  BY UploadLedger
<1>6. ASSUME NEW k \in Order PROVE registry'[k] # <<>> /\ Newest(k)'.text = branch[l].text
  <2>1. CASE k = turn[p]
    BY <1>2, <2>1, UploadLedger
  <2>2. CASE k # turn[p]
    BY <1>3, <1>4, <2>2 DEF Newest
  <2> QED
    BY <2>1, <2>2
<1> QED
  BY <1>6

\* An upload keeps it: the version is tagged, and above what the registry
\* has.
LEMMA PublishStep == ASSUME IInv, TurnInv, NEW p \in Positions, PublishPackage(p) PROVE IInv'
<1> USE DEF IInv
<1>0. job[p] = "publish" /\ UNCHANGED <<branch, tags, ci, reruns, green>>
  BY DEF PublishPackage, At
<1>1. /\ \A q \in Positions : q # p => job[q] \notin Running
      /\ turn[p] \in Order /\ p \in Pushes /\ Pushes' = Pushes
  BY <1>0 DEF OneJobRuns, Running, TypeOK, Pushes
<1>2. CASE HasVersion(turn[p], head[p].ver) /\ Finish(p, "failure") /\ UNCHANGED <<registry, failures>>
  BY <1>0, <1>2, EndStep DEF TypeOK, Running, remote
<1>3. ASSUME Upload(p), failures' \in Nat, NEW result \in {"success", "failure"}, Finish(p, result),
             result = "success" => LastTurn(p)
      PROVE  IInv'
  <2>1. /\ job' \in [Positions -> {"none", "pending"} \cup Running \cup Finished]
        /\ head' \in [Positions -> LocalHead] /\ turn' \in [Positions -> Order]
        /\ job'[p] = result /\ result \notin Running
        /\ \A q \in Positions : q # p =>
                job'[q] = job[q] /\ head'[q] = head[q] /\ turn'[q] = turn[q]
    BY <1>3, FinishJobs DEF Finished
  <2>2. registry' \in [Order -> Seq(Revision)] /\ LedgerInv'
    BY <1>0, <1>3, UploadLedger
  <2>3. TypeOK'
    BY <1>0, <1>3, <2>1, <2>2 DEF TypeOK
  <2>4. \A q \in Positions : job'[q] \notin Running
    BY <1>1, <2>1
  <2>5. OneJobRuns'
    BY <1>0, <1>1, <2>1, <2>4 DEF OneJobRuns, Running
  <2>6. \A q \in Positions : JobInv(q)'
    BY <2>4, JobRests
  <2>7. QuietInv'
    <3> SUFFICES ASSUME NEW l \in Positions, IsLastPush(l)', job'[l] = "success"
                 PROVE  \A k \in Order : registry'[k] # <<>> /\ Newest(k)'.text = branch'[l].text
      BY <2>4 DEF QuietInv, Delivering, Running
    <3>1. IsLastPush(l)
      BY <1>1 DEF IsLastPush
    <3>2. CASE l # p
      <4>1. job[l] = "success"
        BY <2>1, <3>2
      <4> QED
        BY <1>0, <1>3, <3>1, <4>1, UploadQuiet
    <3>3. CASE l = p
      <4>1. turn[p] = Packages
        BY <1>3, <2>1, <3>3 DEF LastTurn
      <4>2. l <= head[p].top /\ head[p].top \in 1..Len(branch)
        BY <1>0, <3>3 DEF JobInv, OnBranch, Delivering
      <4>3. branch[head[p].top].text = branch[l].text
        BY <3>1, <4>2, TextOfLastPush
      <4>4. ASSUME NEW k \in Order PROVE registry'[k] # <<>> /\ Newest(k)'.text = branch[l].text
        <5>1. CASE k = turn[p]
          BY <1>0, <1>3, <4>3, <5>1, UploadLedger
        <5>2. CASE k # turn[p]
          <6>1. k < turn[p]
            BY <4>1, <5>2, BranchAssumption DEF BranchAssumption, Order
          <6>2. registry[k] # <<>> /\ Newest(k).top = head[p].top
            BY <1>0, <6>1 DEF JobInv
          <6>3. Newest(k).text = branch[Newest(k).top].text
            BY <6>2, NewestOf DEF LedgerInv, PublishedIsTagged, Newest
          <6>4. registry'[k] = registry[k]
            BY <1>0, <1>3, <5>2, UploadLedger
          <6> QED
            BY <4>3, <6>2, <6>3, <6>4 DEF Newest
        <5> QED
          BY <5>1, <5>2
      <4> QED
        BY <1>0, <4>4
    <3> QED
      BY <3>2, <3>3
  <2> QED
    BY <2>2, <2>3, <2>5, <2>6, <2>7
<1>4. CASE /\ Upload(p) /\ ~LastTurn(p) /\ turn' = [turn EXCEPT ![p] = @ + 1]
           /\ UNCHANGED <<job, head, failures>>
  <2>1. turn[p] + 1 \in Order /\ turn'[p] = turn[p] + 1
    <3>1. turn[p] + 1 \in Order
      BY ONLY <1>1, <1>4, BranchAssumption DEF BranchAssumption, LastTurn, Order
    <3>2. turn \in [Positions -> Order]
      BY DEF TypeOK
    <3> QED
      BY ONLY <1>4, <3>1, <3>2
  <2>2. registry' \in [Order -> Seq(Revision)] /\ LedgerInv'
    BY <1>0, <1>4, UploadLedger
  <2>3. TypeOK'
    <3>1. turn' \in [Positions -> Order]
      BY <1>4, <2>1 DEF TypeOK
    <3> QED
      BY <1>0, <1>4, <2>2, <3>1 DEF TypeOK
  <2>4. OneJobRuns'
    BY <1>1, <1>4 DEF OneJobRuns
  <2>5. JobInv(p)'
    <3>1. JobInv(p) /\ OnBranch(p)'
      BY <1>0, <1>4 DEF JobInv, OnBranch, Delivering
    <3>2. ASSUME NEW k \in Order, k < turn[p] + 1
          PROVE  registry'[k] # <<>> /\ Newest(k)'.top = head[p].top
      <4>1. CASE k = turn[p]
        BY <1>0, <1>4, <4>1, UploadLedger
      <4>2. CASE k # turn[p]
        <5>1. k < turn[p]
          BY <1>1, <3>2, <4>2 DEF Order
        <5>2. registry[k] # <<>> /\ Newest(k).top = head[p].top
          BY <1>0, <3>1, <5>1 DEF JobInv
        <5>3. registry'[k] = registry[k]
          BY <1>0, <1>4, <4>2, UploadLedger
        <5> QED
          BY <5>2, <5>3 DEF Newest
      <4> QED
        BY <4>1, <4>2
    <3>3. ASSUME NEW k \in Order, ~(k < turn[p] + 1)
          PROVE  \A i \in 1..Len(registry'[k]) :
                   registry'[k][i].ver < head[p].ver /\ registry'[k][i].top < head[p].top
      <4>1. k # turn[p] /\ ~(k < turn[p])
        BY <1>1, <3>3 DEF Order
      <4>2. registry'[k] = registry[k]
        BY <1>0, <1>4, <4>1, UploadLedger
      <4> QED
        BY <1>0, <3>1, <4>1, <4>2 DEF JobInv
    <3>4. \A k \in Order : <<k, head[p].ver, head[p].top>> \in tags
      BY <1>0, <3>1 DEF JobInv
    <3>5. head[p].ver = branch[head[p].top].ver
      BY <1>0, <3>1 DEF JobInv
    <3>6. job'[p] = "publish" /\ head' = head
      BY <1>0, <1>4
    <3> QED
      BY <1>0, <2>1, <3>1, <3>2, <3>3, <3>4, <3>5, <3>6 DEF JobInv
  <2>6. \A q \in Positions : JobInv(q)'
    BY <1>1, <1>4, <2>5, JobRests
  <2>7. QuietInv'
    <3> SUFFICES ASSUME NEW l \in Positions, IsLastPush(l)', job'[l] = "success"
                 PROVE  /\ \A k \in Order : registry'[k] # <<>> /\ Newest(k)'.text = branch'[l].text
                        /\ \A q \in Positions : job'[q] \in Delivering => l <= head'[q].top
      BY DEF QuietInv
    <3>1. IsLastPush(l) /\ job[l] = "success"
      BY <1>1, <1>4 DEF IsLastPush
    <3>2. \A k \in Order : registry'[k] # <<>> /\ Newest(k)'.text = branch'[l].text
      BY <1>0, <1>4, <3>1, UploadQuiet
    <3> QED
      BY <1>4, <3>1, <3>2 DEF QuietInv
  <2> QED
    BY <2>2, <2>3, <2>4, <2>6, <2>7
<1>5. \/ HasVersion(turn[p], head[p].ver) /\ Finish(p, "failure") /\ UNCHANGED <<registry, failures>>
      \/ Upload(p) /\ LastTurn(p) /\ Finish(p, "success") /\ UNCHANGED failures
      \/ /\ Upload(p) /\ ~LastTurn(p) /\ turn' = [turn EXCEPT ![p] = @ + 1]
         /\ UNCHANGED <<job, head, failures>>
      \/ Upload(p) /\ failures' = failures + 1 /\ Finish(p, "failure")
  BY DEF PublishPackage
<1>6. failures \in Nat /\ failures + 1 \in Nat
  BY DEF TypeOK
<1> QED
  BY <1>2, <1>3, <1>4, <1>5, <1>6

-----------------------------------------------------------------------------
(* The invariants, and what follows from them.                               *)

\* At first every job would begin with the first package.
LEMMA InitTurnInv == Init => TurnInv
  BY DEF Init, TurnInv

\* A job that ends begins with the first package if it is run again.
LEMMA FinishedTurn ==
  ASSUME TypeOK, TurnInv, NEW p \in Positions, NEW result \in Finished, Finish(p, result)
  PROVE  TurnInv'
  BY DEF TypeOK, TurnInv, Finish, Goto

\* A job that is queued begins with the first package.
LEMMA EnqueuedTurn ==
  ASSUME TurnInv, NEW p \in Positions, job[p] # "publish", Enqueue(p), UNCHANGED turn
  PROVE  TurnInv'
<1>1. \A q \in Positions : job[q] = "publish" => job'[q] = "publish"
  BY DEF Enqueue
<1> QED
  BY <1>1 DEF TurnInv

\* A job goes past its first package while it publishes, and its turn starts
\* again when it ends.
LEMMA TurnStep ==
  ASSUME TypeOK, OneJobRuns, TurnInv, Next
  PROVE  TurnInv'
<1>1. CASE \E text \in Texts, bump \in 0..1 : Push(text, bump)
  <2>1. Len(branch) < MaxBranch /\ Enqueue(Len(branch) + 1) /\ UNCHANGED turn
    BY <1>1 DEF Push, local
  <2>2. Len(branch) + 1 \in Positions /\ Len(branch) + 1 \notin Pushes
    BY <2>1, BranchTypes DEF Positions
  <2>3. job[Len(branch) + 1] = "none"
    BY <2>2 DEF OneJobRuns
  <2> QED
    BY <2>1, <2>2, <2>3, EnqueuedTurn
<1>2. CASE \E p \in Positions, s \in {"green", "other"} : CiReports(p, s)
  BY <1>2 DEF CiReports, TurnInv, local
<1>3. CASE \E p \in Positions : Rerun(p)
  BY <1>3, EnqueuedTurn DEF Rerun, local, Finished
<1>4. CASE \E p \in Positions : PublishPackage(p)
  <2> PICK p \in Positions : PublishPackage(p)
    BY <1>4
  <2>1. CASE Finish(p, "success") \/ Finish(p, "failure")
    BY <2>1, FinishedTurn DEF Finished
  <2>2. CASE turn' = [turn EXCEPT ![p] = @ + 1] /\ UNCHANGED <<job, head>>
    BY <2>2 DEF TypeOK, TurnInv, PublishPackage, At
  <2> QED
    BY <2>1, <2>2 DEF PublishPackage
<1>5. CASE \E p \in Positions : Crash(p)
  BY <1>5, FinishedTurn DEF Crash, Finished
<1>6. CASE \E p \in Positions : JobStep(p) /\ ~PublishPackage(p)
  <2> PICK p \in Positions : JobStep(p) /\ ~PublishPackage(p)
    BY <1>6
  <2>1. CASE \E result \in Finished : Finish(p, result)
    BY <2>1, FinishedTurn
  <2>2. CASE /\ UNCHANGED turn /\ job[p] # "publish"
             /\ \E step \in Running : Goto(p, step)
    BY <2>2 DEF TypeOK, TurnInv, Goto
  <2> QED
    BY <2>1, <2>2 DEF JobStep, Start, ContentGate, CiGate, Bump, Rebase, PushCommit,
                      PushTags, At, Finished, Running, local
<1> QED
  BY <1>1, <1>2, <1>3, <1>4, <1>5, <1>6 DEF Next, JobStep

\* Every step of the cargo lane keeps both invariants.
LEMMA StepIInv == ASSUME ~Npm, IInv, TurnInv, [Next]_vars PROVE IInv' /\ TurnInv'
<1>1. CASE UNCHANGED vars
  <2>1. TurnInv'
    BY <1>1 DEF TurnInv, vars, local
  <2> QED
    BY <1>1, <2>1, IdleStep
<1>2. CASE Next
  <2>1. TurnInv'
    BY <1>2, TurnStep DEF IInv
  <2>2. CASE \E text \in Texts, bump \in 0..1 : Push(text, bump)
    BY <2>1, <2>2, PushStep
  <2>3. CASE \E p \in Positions, s \in {"green", "other"} : CiReports(p, s)
    BY <2>1, <2>3, IdleStep
  <2>4. CASE \E p \in Positions : Rerun(p) \/ JobStep(p) \/ Crash(p)
    <3> PICK p \in Positions : Rerun(p) \/ JobStep(p) \/ Crash(p)
      BY <2>4
    <3>1. CASE Rerun(p)
      BY <2>1, <3>1, RerunStep
    <3>2. CASE Crash(p)
      <4>1. failures' \in Nat
        BY <3>2 DEF Crash, IInv, TypeOK
      <4> QED
        BY <2>1, <3>2, <4>1, EndStep DEF Crash
    <3>3. CASE Start(p)
      BY <2>1, <3>3, StartStep
    <3>4. CASE ContentGate(p)
      BY <2>1, <3>4, GateStep
    <3>5. CASE CiGate(p)
      BY <2>1, <3>5, CiStep
    <3>6. CASE Bump(p)
      BY <2>1, <3>6, BumpStep
    <3>7. CASE Rebase(p)
      BY <2>1, <3>7, RebaseStep
    <3>8. CASE PushCommit(p)
      BY <2>1, <3>8, PushCommitStep
    <3>9. CASE PushTags(p)
      BY <2>1, <3>9, PushTagsStep
    <3>10. CASE PublishPackage(p)
      BY <2>1, <3>10, PublishStep
    <3> QED
      BY <3>1, <3>2, <3>3, <3>4, <3>5, <3>6, <3>7, <3>8, <3>9, <3>10 DEF JobStep
  <2> QED
    BY <1>2, <2>2, <2>3, <2>4 DEF Next
<1> QED
  BY <1>1, <1>2

\* Both invariants hold for ever in the cargo lane.
LEMMA CargoInvariant == ASSUME ~Npm PROVE Spec => [](IInv /\ TurnInv)
<1>1. Init => IInv /\ TurnInv
  BY InitIInv, InitTurnInv
<1>2. (IInv /\ TurnInv) /\ [Next]_vars => (IInv /\ TurnInv)'
  BY StepIInv
<1> QED
  BY <1>1, <1>2, PTL DEF Spec

\* A revision is uploaded from the very tree its tag names, for any number of
\* pushes and however the branch moves between the steps of the cargo lane of
\* rainix-autopublish.yaml: the tag is out before the upload, at the position
\* the job's rebase and push have settled.
THEOREM PublishedAreTagged == ASSUME ~Npm PROVE Spec => []PublishedIsTagged
<1>1. IInv => PublishedIsTagged
  BY DEF IInv, LedgerInv
<1> QED
  BY <1>1, CargoInvariant, PTL

\* A cargo job that comes to upload a crate never finds its version taken: the
\* refusal of `git tag` to set a tag again has ended every job whose version an
\* earlier one had claimed, however that one ended.
THEOREM UploadsAreNew == ASSUME ~Npm PROVE Spec => []UploadIsNew
<1>1. IInv => UploadIsNew
  <2> SUFFICES ASSUME IInv, NEW p \in Positions, job[p] = "publish"
               PROVE  ~HasVersion(turn[p], head[p].ver)
    BY DEF UploadIsNew, At
  <2>1. turn[p] \in Order /\ ~(turn[p] < turn[p]) /\ head[p].ver \in Nat
    BY DEF IInv, TypeOK, Order, LocalHead
  <2>2. JobInv(p)
    BY DEF IInv
  <2>3. \A i \in 1..Len(registry[turn[p]]) : registry[turn[p]][i].ver < head[p].ver
    BY <2>1, <2>2 DEF JobInv
  <2> QED
    BY <2>1, <2>3 DEF HasVersion
<1> QED
  BY <1>1, CargoInvariant, PTL

\* The crates' registries follow the branch: re-runs, crashes and half-done
\* uploads never put an older tree or a lower version on top of a newer one.
THEOREM RegistriesFollowBranch == ASSUME ~Npm PROVE Spec => []RegistryFollowsBranch
<1>1. IInv => RegistryFollowsBranch
  BY DEF IInv, LedgerInv
<1> QED
  BY <1>1, CargoInvariant, PTL

\* No push is lost: once the cargo job of the last push has succeeded and none
\* runs, every crate's newest revision has that push's text, whichever job has
\* uploaded it.
THEOREM QuietRegistriesAreHead == ASSUME ~Npm PROVE Spec => []QuietRegistryIsHead
<1>1. IInv => QuietRegistryIsHead
  <2> SUFFICES ASSUME IInv, Pushes # {}, job[LastPush] = "success"
               PROVE  \A k \in Order : registry[k] # <<>> /\ Newest(k).text = branch[LastPush].text
    BY DEF QuietRegistryIsHead
  <2>1. IsLastPush(LastPush) /\ LastPush \in Positions
    <3>1. \E l \in Pushes : \A q \in Pushes : q <= l
      BY DEF IInv, LedgerInv, LastInv, IsLastPush
    <3>2. LastPush \in Pushes /\ \A q \in Pushes : q <= LastPush
      BY <3>1 DEF LastPush
    <3> QED
      BY <3>2, BranchTypes DEF IInv, IsLastPush
  <2> QED
    BY <2>1 DEF IInv, QuietInv
<1> QED
  BY <1>1, CargoInvariant, PTL
=============================================================================
