------------------------- MODULE SoldeerLaneProofs --------------------------
(***************************************************************************)
(* The version arithmetic of the Soldeer gate, for every u64 bound and     *)
(* every set of intent tags; and, for any number of commits, re-runs,      *)
(* failures and tags: the lane implements VersionLedger, publishes only    *)
(* what was green, and every tag names its own revision.                   *)
(***************************************************************************)
EXTENDS SoldeerLane, SequenceTheorems, TLAPS

-----------------------------------------------------------------------------
(* Versions: the order, and the version the gate derives. *)

\* The derived order of [u64; 3] is a strict total order.
THEOREM LessIsStrictTotalOrder ==
  ASSUME NEW u \in Version, NEW v \in Version, NEW w \in Version
  PROVE  /\ ~Less(u, u)
         /\ Less(u, v) /\ Less(v, w) => Less(u, w)
         /\ Less(u, v) \/ Less(v, u) \/ u = v
<1> USE VersionAssumption DEF Version, Component
<1>1. /\ u = <<u[1], u[2], u[3]>> /\ u[1] \in Int /\ u[2] \in Int /\ u[3] \in Int
      /\ v = <<v[1], v[2], v[3]>> /\ v[1] \in Int /\ v[2] \in Int /\ v[3] \in Int
      /\ w[1] \in Int /\ w[2] \in Int /\ w[3] \in Int
  OBVIOUS
<1>2. ~Less(u, u) /\ (Less(u, v) /\ Less(v, w) => Less(u, w))
  BY <1>1 DEF Less
<1>3. u[1] = v[1] /\ u[2] = v[2] /\ u[3] = v[3] => u = v
  BY <1>1
<1> QED
  BY <1>1, <1>2, <1>3 DEF Less

\* The patch bump is a version when it does not overflow, and the next one.
LEMMA PatchBumpIsNext ==
  ASSUME NEW r \in Version, r[3] < MaxComponent
  PROVE  /\ PatchBump(r) \in Version
         /\ Less(r, PatchBump(r))
         /\ \A v \in Version : Less(r, v) => ~Less(v, PatchBump(r))
  BY VersionAssumption DEF Version, Component, PatchBump, Less

\* An intent read from well-formed tags is a version, or none at all.
LEMMA NewestIntentType ==
  ASSUME NEW tags \in SUBSET (Version \cup {Malformed}), IntentReadable(tags),
         NEW intent \in NewestIntent(tags)
  PROVE  /\ intent \in Version \cup {NoVersion}
         /\ intent = NoVersion <=> tags = {}
         /\ tags \subseteq Version
  BY VersionAssumption DEF NewestIntent, IntentReadable

\* max(patch_bump(newest), newest intent) is never at or below the newest
\* published revision, whatever the tags ask for.
THEOREM PublishVersionAdvances ==
  ASSUME NEW remote \in Version \cup {NoVersion},
         NEW intent \in Version \cup {NoVersion},
         CanDerive(remote, intent)
  PROVE  /\ PublishVersion(remote, intent) \in Version
         /\ remote # NoVersion => Less(remote, PublishVersion(remote, intent))
<1>1. CASE remote = NoVersion
  BY <1>1 DEF CanDerive, PublishVersion
<1>2. CASE remote # NoVersion
  <2>1. PatchBump(remote) \in Version /\ Less(remote, PatchBump(remote))
    BY <1>2, PatchBumpIsNext DEF CanDerive
  <2>2. intent \in Version /\ Less(PatchBump(remote), intent) => Less(remote, intent)
    BY <1>2, <2>1, LessIsStrictTotalOrder
  <2> QED
    BY <1>2, <2>1, <2>2 DEF PublishVersion
<1> QED
  BY <1>1, <1>2

\* It is the LEAST version that is above the newest revision and below no
\* merged intent: the gate never skips a version nobody asked to skip.
THEOREM PublishVersionIsLeast ==
  ASSUME NEW remote \in Version,
         NEW tags \in SUBSET (Version \cup {Malformed}), IntentReadable(tags),
         NEW intent \in NewestIntent(tags), CanDerive(remote, intent)
  PROVE  LET p == PublishVersion(remote, intent)
         IN  /\ \A t \in tags : ~Less(p, t)
             /\ \A v \in Version :
                  Less(remote, v) /\ (\A t \in tags : ~Less(v, t)) => ~Less(v, p)
<1> DEFINE p == PublishVersion(remote, intent)
<1>1. /\ intent \in Version \cup {NoVersion}
      /\ intent = NoVersion <=> tags = {}
      /\ tags \subseteq Version
  BY NewestIntentType
<1>2. remote # NoVersion
  BY VersionAssumption
<1>3. /\ PatchBump(remote) \in Version
      /\ \A v \in Version : Less(remote, v) => ~Less(v, PatchBump(remote))
  BY <1>2, PatchBumpIsNext DEF CanDerive
<1>4. CASE intent = NoVersion
  BY <1>1, <1>2, <1>3, <1>4 DEF PublishVersion
<1>5. CASE intent # NoVersion
  <2>1. intent \in tags /\ \A t \in tags : ~Less(intent, t)
    BY <1>1, <1>5 DEF NewestIntent
  <2>2. p = IF Less(PatchBump(remote), intent) THEN intent ELSE PatchBump(remote)
    BY <1>2, <1>5 DEF PublishVersion
  <2>3. ASSUME NEW t \in tags PROVE ~Less(p, t)
    <3>1. CASE Less(PatchBump(remote), intent)
      BY <2>1, <2>2, <2>3, <3>1
    <3>2. CASE ~Less(PatchBump(remote), intent)
      <4>1. t \in Version /\ intent \in Version /\ ~Less(intent, t)
        BY <1>1, <2>1, <2>3
      <4>2. intent = t \/ Less(t, intent)
        BY <4>1, LessIsStrictTotalOrder
      <4>3. Less(PatchBump(remote), t) => Less(PatchBump(remote), intent)
        BY <4>1, <4>2, <1>3, LessIsStrictTotalOrder
      <4> QED
        BY <4>3, <3>2, <2>2
    <3> QED
      BY <3>1, <3>2
  <2>4. ASSUME NEW v \in Version, Less(remote, v), \A t \in tags : ~Less(v, t)
        PROVE  ~Less(v, p)
    BY <1>3, <2>1, <2>2, <2>4
  <2> QED
    BY <2>3, <2>4
<1> QED
  BY <1>4, <1>5

-----------------------------------------------------------------------------
(* The lane: its inductive invariant. *)

\* The concurrency group: at most one job of the branch runs, and only pushed
\* commits have jobs.
OneJobRuns ==
  /\ \A c, d \in Commits : job[c] \in Running /\ job[d] \in Running => c = d
  /\ \A c \in Commits : c > head => job[c] = "none"

\* What the content gate derived is still true when the upload starts.
DerivationIsFresh ==
  \A c \in Commits : job[c] \in {"ci", "push"} =>
    /\ version[c] \in Version
    /\ registry # <<>> => /\ Less(Newest.version, version[c])
                          /\ Newest.content # content[c]

\* What was uploaded is still the newest revision while it is being tagged.
UploadIsNewest ==
  \A c \in Commits : job[c] \in {"tag", "release"} =>
    /\ version[c] \in Version
    /\ registry # <<>>
    /\ Newest.version = version[c]
    /\ Newest.commit = c

\* CI was green before anything is uploaded.
GreenInv ==
  /\ \A c \in Commits : ci[c] = "green" \/ job[c] = "push" => c \in green
  /\ PublishedWasGreen

\* A release is only created for a tag already pushed.
TagInv ==
  /\ TagsNameTheirRevision
  /\ \A c \in Commits : job[c] = "release" => \E t \in solv : t[1] = version[c]

IInv ==
  /\ TypeOK
  /\ OneJobRuns
  /\ DerivationIsFresh
  /\ UploadIsNewest
  /\ GreenInv
  /\ TagInv

(***************************************************************************)
(* Type correctness.                                                       *)
(***************************************************************************)
\* The first state has its types.
LEMMA InitType == Init => TypeOK
<1> SUFFICES ASSUME Init PROVE TypeOK
  OBVIOUS
<1>1. content \in [Commits -> Contents]
  <2>1. (CHOOSE text \in Contents : TRUE) \in Contents
    BY LaneAssumption DEF LaneAssumption
  <2> QED
    BY <2>1 DEF Init
<1> QED
  BY <1>1, LaneAssumption DEF LaneAssumption, Init, TypeOK

\* A registry with revisions has a newest one.
LEMMA NewestIsRevision ==
  ASSUME TypeOK, registry # <<>>
  PROVE  /\ Len(registry) \in Nat \ {0}
         /\ Newest \in Revision
         /\ Newest.version \in Version
         /\ Newest.commit \in Commits
<1>1. registry \in Seq(Revision)
  BY DEF TypeOK
<1>2. Len(registry) \in Nat \ {0}
  BY <1>1, EmptySeq
<1>3. Newest \in Revision
  BY <1>1, <1>2, ElementOfSeq DEF Newest
<1> QED
  BY <1>2, <1>3 DEF Revision

\* The gate's outputs are well typed, wherever the registry stands.
LEMMA RemoteVersionType == TypeOK => RemoteVersion \in Version \cup {NoVersion}
  BY NewestIsRevision DEF RemoteVersion

\* The merged intent tags are versions or malformed.
LEMMA MergedType ==
  ASSUME TypeOK, NEW c \in Commits
  PROVE  Merged(c) \in SUBSET (Version \cup {Malformed})
  BY LaneAssumption DEF TypeOK, LaneAssumption, Merged

\* What the gate derives is a version above the newest revision.
LEMMA DerivedVersion ==
  ASSUME TypeOK, NEW c \in Commits, IntentReadable(Merged(c)),
         NEW intent \in NewestIntent(Merged(c)), CanDerive(RemoteVersion, intent)
  PROVE  /\ PublishVersion(RemoteVersion, intent) \in Version
         /\ registry # <<>> => Less(Newest.version, PublishVersion(RemoteVersion, intent))
<1>1. intent \in Version \cup {NoVersion}
  BY MergedType, NewestIntentType
<1>2. registry # <<>> => RemoteVersion = Newest.version /\ RemoteVersion \in Version
  BY NewestIsRevision DEF RemoteVersion
<1> QED
  BY <1>1, <1>2, RemoteVersionType, PublishVersionAdvances, VersionAssumption

\* An upload leaves a well-typed registry, and only moves its end.
LEMMA UploadExtendsRegistry ==
  ASSUME TypeOK, NEW c \in Commits, version[c] \in Version,
         registry' = Append(registry,
           [version |-> version[c], content |-> content[c], commit |-> c])
  PROVE  /\ registry' \in Seq(Revision)
         /\ registry' # <<>>
         /\ Len(registry) \in Nat
         /\ Len(registry') = Len(registry) + 1
         /\ \A i \in 1..Len(registry) : registry'[i] = registry[i]
         /\ registry'[Len(registry')] =
              [version |-> version[c], content |-> content[c], commit |-> c]
<1> DEFINE r == [version |-> version[c], content |-> content[c], commit |-> c]
<1>1. registry \in Seq(Revision)
  BY DEF TypeOK
<1>2. r \in Revision
  BY DEF TypeOK, Revision
<1>3. Len(registry) \in Nat
  BY <1>1, LenProperties
<1> QED
  BY <1>1, <1>2, <1>3, AppendProperties

\* Every step keeps the types.
LEMMA StepType == TypeOK /\ DerivationIsFresh /\ UploadIsNewest /\ [Next]_vars => TypeOK'
<1> SUFFICES ASSUME TypeOK, DerivationIsFresh, UploadIsNewest, [Next]_vars PROVE TypeOK'
  OBVIOUS
<1> USE LaneAssumption DEF LaneAssumption, TypeOK, Running, Finished, repo, output, budget
<1>1. ASSUME NEW text \in Contents, Push(text) PROVE TypeOK'
  BY <1>1 DEF Push, Enqueue, Commits
<1>2. ASSUME NEW c \in Commits, NEW v \in IntentVersions, PlaceIntent(c, v) PROVE TypeOK'
  BY <1>2 DEF PlaceIntent
<1>3. ASSUME NEW c \in Commits, NEW s \in {"pending", "green", "red"}, CiReports(c, s) PROVE TypeOK'
  BY <1>3 DEF CiReports
<1>4. ASSUME NEW c \in Commits, Rerun(c) PROVE TypeOK'
  BY <1>4 DEF Rerun, Enqueue
<1>5. ASSUME NEW c \in Commits, Start(c) \/ CiGate(c) PROVE TypeOK'
  BY <1>5 DEF Start, CiGate, Goto, Finish
<1>6. ASSUME NEW c \in Commits, ContentGate(c) PROVE TypeOK'
  BY <1>6, DerivedVersion DEF ContentGate, Finish
<1>7. ASSUME NEW c \in Commits, PublishToSoldeer(c) PROVE TypeOK'
  <2>1. version[c] \in Version
    BY <1>7 DEF PublishToSoldeer, At, DerivationIsFresh
  <2>2. registry' \in Seq(Revision)
    BY <1>7, <2>1, UploadExtendsRegistry DEF PublishToSoldeer
  <2>3. job' \in [Commits -> {"none", "pending"} \cup Running \cup Finished]
        /\ version' \in [Commits -> Version \cup {NoVersion}] /\ failures' \in Nat
    BY <1>7 DEF PublishToSoldeer, Goto, Finish
  <2> QED
    BY <1>7, <2>2, <2>3 DEF PublishToSoldeer
<1>8. ASSUME NEW c \in Commits, TagRelease(c) PROVE TypeOK'
  <2>1. version[c] \in Version
    BY <1>8 DEF TagRelease, At, UploadIsNewest
  <2>2. solv' \subseteq Version \X Commits
    BY <1>8, <2>1 DEF TagRelease, TaggedCommit
  <2> QED
    BY <1>8, <2>2 DEF TagRelease, Goto, Finish
<1>9. ASSUME NEW c \in Commits, CreateRelease(c) PROVE TypeOK'
  BY <1>9 DEF CreateRelease, Finish, At, UploadIsNewest
<1>10. ASSUME NEW c \in Commits, Crash(c) PROVE TypeOK'
  BY <1>10 DEF Crash, Finish
<1>11. CASE UNCHANGED vars
  BY <1>11 DEF vars
<1> QED
  BY <1>1, <1>2, <1>3, <1>4, <1>5, <1>6, <1>7, <1>8, <1>9, <1>10, <1>11
  DEF Next, People, JobStep

(***************************************************************************)
(* One job runs.                                                           *)
(***************************************************************************)
\* A running job that moves on or ends keeps it.
LEMMA RunningJobMoves ==
  ASSUME TypeOK, OneJobRuns, NEW c \in Commits, job[c] \in Running,
         NEW step, job' = [job EXCEPT ![c] = step], head' = head
  PROVE  OneJobRuns'
<1>1. \A d \in Commits : d # c => job'[d] = job[d]
  BY DEF TypeOK
<1>2. \A d \in Commits : d # c => job[d] \notin Running
  BY DEF OneJobRuns
<1>3. job[c] # "none"
  BY DEF Running
<1>4. ~(c > head)
  BY <1>3 DEF OneJobRuns
<1> QED
  BY <1>1, <1>2, <1>4 DEF OneJobRuns

\* Every step keeps the concurrency group's promise.
LEMMA StepOneJobRuns == TypeOK /\ OneJobRuns /\ [Next]_vars => OneJobRuns'
<1> SUFFICES ASSUME TypeOK, OneJobRuns, [Next]_vars PROVE OneJobRuns'
  OBVIOUS
<1> USE LaneAssumption DEF LaneAssumption, TypeOK, OneJobRuns, Running, Finished,
        repo, output, budget, Commits
<1>1. ASSUME NEW text \in Contents, Push(text) PROVE OneJobRuns'
  BY <1>1 DEF Push, Enqueue
<1>2. ASSUME NEW c \in Commits, NEW v \in IntentVersions, PlaceIntent(c, v) PROVE OneJobRuns'
  BY <1>2 DEF PlaceIntent
<1>3. ASSUME NEW c \in Commits, NEW s \in {"pending", "green", "red"}, CiReports(c, s)
      PROVE  OneJobRuns'
  BY <1>3 DEF CiReports
<1>4. ASSUME NEW c \in Commits, Rerun(c) PROVE OneJobRuns'
  BY <1>4 DEF Rerun, Enqueue
<1>5. ASSUME NEW c \in Commits, Start(c) PROVE OneJobRuns'
  BY <1>5 DEF Start, GroupFree, Goto, At
<1>12. ASSUME NEW c \in Commits, job[c] \in {"gate", "ci", "push", "tag", "release"}, head' = head,
              \E step : job' = [job EXCEPT ![c] = step]
       PROVE  OneJobRuns'
  BY ONLY TypeOK, OneJobRuns, <1>12, RunningJobMoves DEF Running
<1> HIDE LaneAssumption DEF LaneAssumption, TypeOK, OneJobRuns, Running, Finished, Commits
<1>6. ASSUME NEW c \in Commits, ContentGate(c) PROVE OneJobRuns'
  BY <1>6, <1>12 DEF ContentGate, Finish, At
<1>7. ASSUME NEW c \in Commits, CiGate(c) PROVE OneJobRuns'
  BY <1>7, <1>12 DEF CiGate, Goto, Finish, At
<1>8. ASSUME NEW c \in Commits, PublishToSoldeer(c) PROVE OneJobRuns'
  BY <1>8, <1>12 DEF PublishToSoldeer, Goto, Finish, At
<1>9. ASSUME NEW c \in Commits, TagRelease(c) \/ CreateRelease(c) PROVE OneJobRuns'
  BY <1>9, <1>12 DEF TagRelease, CreateRelease, Goto, Finish, At
<1>10. ASSUME NEW c \in Commits, Crash(c) PROVE OneJobRuns'
  BY <1>10, <1>12 DEF Crash, Finish, Running
<1>11. CASE UNCHANGED vars
  BY <1>11 DEF vars, OneJobRuns
<1> QED
  BY <1>1, <1>2, <1>3, <1>4, <1>5, <1>6, <1>7, <1>8, <1>9, <1>10, <1>11
  DEF Next, People, JobStep

(***************************************************************************)
(* What the gate derived stays true, and what was uploaded stays newest:   *)
(* only the job itself moves the registry while it runs.                   *)
(***************************************************************************)
\* What a job has derived and uploaded stays true while it runs.
LEMMA StepDerivation ==
  TypeOK /\ OneJobRuns /\ DerivationIsFresh /\ UploadIsNewest /\ [Next]_vars
    => DerivationIsFresh' /\ UploadIsNewest'
<1> SUFFICES ASSUME TypeOK, OneJobRuns, DerivationIsFresh, UploadIsNewest, [Next]_vars
             PROVE  DerivationIsFresh' /\ UploadIsNewest'
  OBVIOUS
<1>0. job \in [Commits -> {"none", "pending"} \cup Running \cup Finished]
      /\ version \in [Commits -> Version \cup {NoVersion}]
  BY DEF TypeOK
<1> USE <1>0 DEF DerivationIsFresh, UploadIsNewest, Running, Finished, repo, output, budget, At
<1>1. ASSUME NEW text \in Contents, Push(text) PROVE DerivationIsFresh' /\ UploadIsNewest'
  <2>1. head + 1 \in Commits /\ job[head + 1] = "none"
    BY <1>1, LaneAssumption DEF LaneAssumption, Push, OneJobRuns, TypeOK, Commits
  <2>2. \A d \in Commits : job'[d] \in {"ci", "push", "tag", "release"} =>
          job'[d] = job[d] /\ content'[d] = content[d]
    BY <1>1, <2>1 DEF Push, Enqueue, TypeOK
  <2>3. UNCHANGED <<version, registry>>
    BY <1>1 DEF Push
  <2> QED
    BY <2>2, <2>3 DEF Newest
<1>2. ASSUME NEW c \in Commits, NEW v \in IntentVersions, PlaceIntent(c, v)
      PROVE  DerivationIsFresh' /\ UploadIsNewest'
  BY <1>2 DEF PlaceIntent, Newest
<1>3. ASSUME NEW c \in Commits, NEW s \in {"pending", "green", "red"}, CiReports(c, s)
      PROVE  DerivationIsFresh' /\ UploadIsNewest'
  BY <1>3 DEF CiReports, Newest
<1>4. ASSUME NEW c \in Commits, Rerun(c) PROVE DerivationIsFresh' /\ UploadIsNewest'
  BY <1>4 DEF Rerun, Enqueue, Newest
<1>5. ASSUME NEW c \in Commits, Start(c) PROVE DerivationIsFresh' /\ UploadIsNewest'
  BY <1>5 DEF Start, Goto, Newest
<1>6. ASSUME NEW c \in Commits, ContentGate(c) PROVE DerivationIsFresh' /\ UploadIsNewest'
  <2>1. CASE Finish(c, "success") \/ Finish(c, "failure")
    BY <1>6, <2>1 DEF ContentGate, Finish, Newest
  <2>2. CASE ~(Finish(c, "success") \/ Finish(c, "failure"))
    <3>1. PICK intent \in NewestIntent(Merged(c)) :
            /\ IntentReadable(Merged(c))
            /\ CanDerive(RemoteVersion, intent)
            /\ Changed(c)
            /\ job' = [job EXCEPT ![c] = "ci"]
            /\ version' = [version EXCEPT ![c] = PublishVersion(RemoteVersion, intent)]
      BY <1>6, <2>2 DEF ContentGate
    <3>2. UNCHANGED <<content, registry>>
      BY <1>6 DEF ContentGate
    <3>3. /\ version'[c] \in Version
          /\ registry # <<>> => /\ Less(Newest.version, version'[c])
                                /\ Newest.content # content[c]
      BY <3>1, DerivedVersion DEF Changed
    <3> QED
      BY <3>1, <3>2, <3>3 DEF Newest
  <2> QED
    BY <2>1, <2>2
<1>7. ASSUME NEW c \in Commits, CiGate(c) PROVE DerivationIsFresh' /\ UploadIsNewest'
  BY <1>7 DEF CiGate, Goto, Finish, Newest
<1>8. ASSUME NEW c \in Commits, PublishToSoldeer(c)
      PROVE  DerivationIsFresh' /\ UploadIsNewest'
  <2>1. /\ job[c] = "push" /\ version[c] \in Version
        /\ \A d \in Commits : d # c => job[d] \notin Running
    BY <1>8 DEF PublishToSoldeer, OneJobRuns
  <2>2. /\ UNCHANGED content
        /\ \A d \in Commits : d # c => job'[d] = job[d] /\ version'[d] = version[d]
    BY <1>8 DEF PublishToSoldeer, Goto, Finish
  <2>3. CASE version[c] \in Published
    BY <1>8, <2>1, <2>2, <2>3 DEF PublishToSoldeer, Finish
  <2>4. CASE version[c] \notin Published
    <3>1. registry' = Append(registry,
            [version |-> version[c], content |-> content[c], commit |-> c])
      BY <1>8, <2>4 DEF PublishToSoldeer
    <3>2. /\ registry' # <<>>
          /\ Newest' = [version |-> version[c], content |-> content[c], commit |-> c]
      BY <2>1, <3>1, UploadExtendsRegistry DEF Newest
    <3>3. job'[c] = "failure" \/ (job'[c] = "tag" /\ version'[c] = version[c])
      BY <1>8, <2>4 DEF PublishToSoldeer, Goto, Finish
    <3> QED
      BY <2>1, <2>2, <3>2, <3>3
  <2> QED
    BY <2>3, <2>4
<1>9. ASSUME NEW c \in Commits, TagRelease(c) \/ CreateRelease(c)
      PROVE  DerivationIsFresh' /\ UploadIsNewest'
  BY <1>9 DEF TagRelease, CreateRelease, Goto, Finish, Newest
<1>10. ASSUME NEW c \in Commits, Crash(c) PROVE DerivationIsFresh' /\ UploadIsNewest'
  BY <1>10 DEF Crash, Finish, Newest
<1>11. CASE UNCHANGED vars
  BY <1>11 DEF vars, Newest
<1> QED
  BY <1>1, <1>2, <1>3, <1>4, <1>5, <1>6, <1>7, <1>8, <1>9, <1>10, <1>11
  DEF Next, People, JobStep

(***************************************************************************)
(* Only green commits are published.                                       *)
(***************************************************************************)
\* Every step publishes green commits only.
LEMMA StepGreen ==
  TypeOK /\ DerivationIsFresh /\ GreenInv /\ [Next]_vars => GreenInv'
<1> SUFFICES ASSUME TypeOK, DerivationIsFresh, GreenInv, [Next]_vars PROVE GreenInv'
  OBVIOUS
<1>0. job \in [Commits -> {"none", "pending"} \cup Running \cup Finished]
      /\ ci \in [Commits -> {"pending", "green", "red"}]
  BY DEF TypeOK
<1> USE <1>0 DEF GreenInv, PublishedWasGreen, repo, output, budget, At
<1>1. ASSUME NEW text \in Contents, Push(text) PROVE GreenInv'
  BY <1>1 DEF Push, Enqueue
<1>2. ASSUME NEW c \in Commits, NEW v \in IntentVersions, PlaceIntent(c, v) PROVE GreenInv'
  BY <1>2 DEF PlaceIntent
<1>3. ASSUME NEW c \in Commits, NEW s \in {"pending", "green", "red"}, CiReports(c, s)
      PROVE  GreenInv'
  BY <1>3 DEF CiReports
<1>4. ASSUME NEW c \in Commits, Rerun(c) PROVE GreenInv'
  BY <1>4 DEF Rerun, Enqueue
<1>5. ASSUME NEW c \in Commits, Start(c) \/ ContentGate(c) \/ CiGate(c) PROVE GreenInv'
  BY <1>5 DEF Start, ContentGate, CiGate, CiAccepts, Goto, Finish
<1>6. ASSUME NEW c \in Commits, PublishToSoldeer(c) PROVE GreenInv'
  <2>1. /\ c \in green /\ version[c] \in Version
        /\ UNCHANGED <<ci, green>>
        /\ \A d \in Commits : job'[d] = "push" => job[d] = "push"
    BY <1>6 DEF PublishToSoldeer, Goto, Finish, DerivationIsFresh
  <2>2. CASE version[c] \in Published
    BY <1>6, <2>1, <2>2 DEF PublishToSoldeer
  <2>3. CASE version[c] \notin Published
    <3>1. registry' = Append(registry,
            [version |-> version[c], content |-> content[c], commit |-> c])
      BY <1>6, <2>3 DEF PublishToSoldeer
    <3>2. ASSUME NEW i \in 1..Len(registry') PROVE registry'[i].commit \in green
      <4>1. i \in 1..Len(registry) \/ i = Len(registry')
        BY <2>1, <3>1, UploadExtendsRegistry
      <4> QED
        BY <2>1, <3>1, <4>1, UploadExtendsRegistry
    <3> QED
      BY <2>1, <3>2
  <2> QED
    BY <2>2, <2>3
<1>7. ASSUME NEW c \in Commits, TagRelease(c) \/ CreateRelease(c) \/ Crash(c) PROVE GreenInv'
  BY <1>7 DEF TagRelease, CreateRelease, Crash, Goto, Finish
<1>8. CASE UNCHANGED vars
  BY <1>8 DEF vars
<1> QED
  BY <1>1, <1>2, <1>3, <1>4, <1>5, <1>6, <1>7, <1>8 DEF Next, People, JobStep

(***************************************************************************)
(* Every tag names the commit of its own revision.                         *)
(***************************************************************************)
\* A step that leaves registry, tags and releases alone, and starts no
\* release step, keeps TagInv.
LEMMA TagFrame ==
  ASSUME TagInv, UNCHANGED output,
         \A c \in Commits : job'[c] = "release" => job[c] = "release" /\ version'[c] = version[c]
  PROVE  TagInv'
  BY DEF TagInv, TagsNameTheirRevision, output

\* Every step tags the revision that was uploaded last.
LEMMA StepTag ==
  TypeOK /\ UploadIsNewest /\ DerivationIsFresh /\ TagInv /\ [Next]_vars => TagInv'
<1> SUFFICES ASSUME TypeOK, UploadIsNewest, DerivationIsFresh, TagInv, [Next]_vars
             PROVE  TagInv'
  OBVIOUS
<1>0. job \in [Commits -> {"none", "pending"} \cup Running \cup Finished]
      /\ version \in [Commits -> Version \cup {NoVersion}]
  BY DEF TypeOK
<1> USE <1>0 DEF repo, budget, At
<1>1. ASSUME NEW text \in Contents, Push(text) PROVE TagInv'
  BY <1>1, TagFrame DEF Push, Enqueue
<1>2. ASSUME NEW c \in Commits, NEW v \in IntentVersions, PlaceIntent(c, v) PROVE TagInv'
  BY <1>2, TagFrame DEF PlaceIntent
<1>3. ASSUME NEW c \in Commits, NEW s \in {"pending", "green", "red"}, CiReports(c, s)
      PROVE  TagInv'
  BY <1>3, TagFrame DEF CiReports
<1>4. ASSUME NEW c \in Commits, Rerun(c) PROVE TagInv'
  BY <1>4, TagFrame DEF Rerun, Enqueue
<1>5. ASSUME NEW c \in Commits, Start(c) \/ CiGate(c) \/ Crash(c) PROVE TagInv'
  BY <1>5, TagFrame DEF Start, CiGate, Crash, Goto, Finish
<1>6. ASSUME NEW c \in Commits, ContentGate(c) PROVE TagInv'
  BY <1>6, TagFrame DEF ContentGate, Finish
<1>7. ASSUME NEW c \in Commits, PublishToSoldeer(c) PROVE TagInv'
  <2>1. /\ version[c] \in Version
        /\ UNCHANGED <<solv, releases>>
        /\ \A d \in Commits : job'[d] = "release" => job[d] = "release" /\ version'[d] = version[d]
    BY <1>7 DEF PublishToSoldeer, Goto, Finish, DerivationIsFresh
  <2>2. CASE version[c] \in Published
    BY <1>7, <2>1, <2>2, TagFrame DEF PublishToSoldeer, output
  <2>3. CASE version[c] \notin Published
    <3>1. registry' = Append(registry,
            [version |-> version[c], content |-> content[c], commit |-> c])
      BY <1>7, <2>3 DEF PublishToSoldeer
    <3>2. \A i \in 1..Len(registry) : i \in 1..Len(registry') /\ registry'[i] = registry[i]
      BY <2>1, <3>1, UploadExtendsRegistry
    <3> QED
      BY <2>1, <3>2 DEF TagInv, TagsNameTheirRevision
  <2> QED
    BY <2>2, <2>3
<1>8. ASSUME NEW c \in Commits, TagRelease(c) PROVE TagInv'
  <2>1. CASE \E t \in solv : t[1] = version[c]
    BY <1>8, <2>1, TagFrame DEF TagRelease, Finish, output
  <2>2. CASE ~ \E t \in solv : t[1] = version[c]
    <3>1. /\ solv' = solv \cup {<<version[c], c>>}
          /\ UNCHANGED <<registry, releases>>
          /\ job' = [job EXCEPT ![c] = "release"]
          /\ UNCHANGED version
      BY <1>8, <2>2 DEF TagRelease, TaggedCommit, Goto
    <3>2. \E i \in 1..Len(registry) :
            registry[i].version = version[c] /\ registry[i].commit = c
      BY <1>8, NewestIsRevision DEF TagRelease, UploadIsNewest, Newest
    <3>3. TagsNameTheirRevision'
      BY <3>1, <3>2 DEF TagInv, TagsNameTheirRevision
    <3>4. ASSUME NEW d \in Commits, job'[d] = "release"
          PROVE  \E t \in solv' : t[1] = version'[d]
      <4>1. CASE d = c
        <5>1. <<version[c], c>> \in solv' /\ <<version[c], c>>[1] = version'[d]
          BY <3>1, <4>1
        <5> QED
          BY <5>1
      <4>2. CASE d # c
        BY <3>1, <3>4, <4>2 DEF TagInv
      <4> QED
        BY <4>1, <4>2
    <3> QED
      BY <3>3, <3>4 DEF TagInv
  <2> QED
    BY <2>1, <2>2
<1>9. ASSUME NEW c \in Commits, CreateRelease(c) PROVE TagInv'
  <2>1. /\ UNCHANGED <<registry, solv>>
        /\ releases' = releases \cup {version[c]}
        /\ \E t \in solv : t[1] = version[c]
        /\ \A d \in Commits : job'[d] = "release" => job[d] = "release" /\ version'[d] = version[d]
    BY <1>9 DEF CreateRelease, Finish, TagInv
  <2> QED
    BY <2>1 DEF TagInv, TagsNameTheirRevision
<1>10. CASE UNCHANGED vars
  BY <1>10, TagFrame DEF vars
<1> QED
  BY <1>1, <1>2, <1>3, <1>4, <1>5, <1>6, <1>7, <1>8, <1>9, <1>10
  DEF Next, People, JobStep

(***************************************************************************)
(* The theorems.                                                           *)
(***************************************************************************)
\* The first state satisfies the invariant.
LEMMA InitIInv == Init => IInv
<1> SUFFICES ASSUME Init PROVE IInv
  OBVIOUS
<1>1. TypeOK
  BY InitType
<1> QED
  BY <1>1 DEF Init, IInv, OneJobRuns, DerivationIsFresh, UploadIsNewest, GreenInv,
       PublishedWasGreen, TagInv, TagsNameTheirRevision, Running

\* Every step keeps the invariant.
LEMMA StepIInv == IInv /\ [Next]_vars => IInv'
  BY StepType, StepOneJobRuns, StepDerivation, StepGreen, StepTag DEF IInv

\* The invariant holds for ever.
LEMMA Invariance == Spec => []IInv
  BY InitIInv, StepIInv, PTL DEF Spec

\* Type correctness of the lane.
THEOREM TypeCorrect == Spec => []TypeOK
<1>1. IInv => TypeOK
  BY DEF IInv
<1> QED
  BY <1>1, Invariance, PTL

\* Every revision is of a commit whose CI was green at some moment.
THEOREM OnlyGreenIsPublished == Spec => []PublishedWasGreen
<1>1. IInv => PublishedWasGreen
  BY DEF IInv, GreenInv
<1> QED
  BY <1>1, Invariance, PTL

\* Every tag names the commit of its revision, every release has a tag.
THEOREM TagsAreTrue == Spec => []TagsNameTheirRevision
<1>1. IInv => TagsNameTheirRevision
  BY DEF IInv, TagInv
<1> QED
  BY <1>1, Invariance, PTL

(***************************************************************************)
(* Refinement.                                                             *)
(***************************************************************************)
\* The registry as the ledger sees it: without the commits.
AsLedger == [i \in 1..Len(registry) |->
               [version |-> registry[i].version, content |-> registry[i].content]]

\* The last entry of the ledger is the newest revision of the registry.
LEMMA LastOfLedger ==
  ASSUME TypeOK, registry # <<>>
  PROVE  /\ Len(AsLedger) = Len(registry)
         /\ AsLedger[Len(AsLedger)].version = Newest.version
         /\ AsLedger[Len(AsLedger)].content = Newest.content
  BY NewestIsRevision DEF AsLedger, Newest

\* Appending a revision to the registry appends it to the ledger.
LEMMA LedgerAppends ==
  ASSUME TypeOK, NEW c \in Commits, version[c] \in Version,
         registry' = Append(registry,
           [version |-> version[c], content |-> content[c], commit |-> c])
  PROVE  AsLedger' = Append(AsLedger, [version |-> version[c], content |-> content[c]])
<1>1. /\ Len(registry) \in Nat
      /\ Len(registry') = Len(registry) + 1
      /\ \A i \in 1..Len(registry) : registry'[i] = registry[i]
      /\ registry'[Len(registry')] =
              [version |-> version[c], content |-> content[c], commit |-> c]
  BY UploadExtendsRegistry
<1> DEFINE e == [version |-> version[c], content |-> content[c]]
<1>2. AsLedger' = [i \in 1..(Len(registry) + 1) |->
               [version |-> registry'[i].version, content |-> registry'[i].content]]
  BY <1>1 DEF AsLedger
<1>3. Append(AsLedger, e) = [i \in 1..(Len(registry) + 1) |->
               IF i = Len(registry) + 1 THEN e ELSE AsLedger[i]]
  BY <1>1 DEF AsLedger
<1>4. ASSUME NEW i \in 1..(Len(registry) + 1)
      PROVE  [version |-> registry'[i].version, content |-> registry'[i].content]
               = IF i = Len(registry) + 1 THEN e ELSE AsLedger[i]
  BY <1>1 DEF AsLedger
<1> QED
  BY <1>2, <1>3, <1>4

\* An upload is a publish of the ledger; every other step leaves it alone.
LEMMA UploadPublishes ==
  ASSUME IInv, NEW c \in Commits, PublishToSoldeer(c)
  PROVE  Ledger!LedgerNext \/ UNCHANGED registry
<1>1. CASE version[c] \in Published
  BY <1>1 DEF PublishToSoldeer
<1>2. CASE version[c] \notin Published
  <2>1. /\ TypeOK
        /\ version[c] \in Version
        /\ content[c] \in Contents
        /\ registry # <<>> => /\ Less(Newest.version, version[c])
                              /\ Newest.content # content[c]
    BY DEF IInv, TypeOK, DerivationIsFresh, PublishToSoldeer, At
  <2>2. registry' = Append(registry,
          [version |-> version[c], content |-> content[c], commit |-> c])
    BY <1>2 DEF PublishToSoldeer
  <2> DEFINE e == [version |-> version[c], content |-> content[c]]
  <2>3. e \in Ledger!Revision
    BY <2>1 DEF Ledger!Revision, Ledger!Version, Ledger!Component, Version, Component
  <2>4. AsLedger' = Append(AsLedger, e)
    BY <2>1, <2>2, LedgerAppends
  <2>5. AsLedger # <<>> => registry # <<>>
    BY DEF AsLedger
  <2>6. AsLedger # <<>> => /\ Ledger!Less(Ledger!Last(AsLedger).version, e.version)
                          /\ Ledger!Last(AsLedger).content # e.content
    BY <2>1, <2>5, LastOfLedger DEF Ledger!Less, Less, Ledger!Last
  <2>7. Ledger!Publish(e)
    BY <2>4, <2>6 DEF Ledger!Publish, AsLedger
  <2> QED
    BY <2>3, <2>7 DEF Ledger!LedgerNext, Ledger!Publish
<1> QED
  BY <1>1, <1>2

\* The lane implements the ledger.
THEOREM LaneImplementsLedger == Spec => ImplementsLedger
<1>1. Init => Ledger!LedgerInit
  BY DEF Init, Ledger!LedgerInit
<1>2. IInv /\ [Next]_vars => [Ledger!LedgerNext]_AsLedger
  <2> SUFFICES ASSUME IInv, [Next]_vars PROVE [Ledger!LedgerNext]_AsLedger
    OBVIOUS
  <2>1. ASSUME NEW text \in Contents, Push(text) PROVE UNCHANGED registry
    BY <2>1 DEF Push, output
  <2>2. ASSUME NEW c \in Commits, NEW v \in IntentVersions, PlaceIntent(c, v)
        PROVE  UNCHANGED registry
    BY <2>2 DEF PlaceIntent, output
  <2>3. ASSUME NEW c \in Commits, NEW s \in {"pending", "green", "red"}, CiReports(c, s)
        PROVE  UNCHANGED registry
    BY <2>3 DEF CiReports, output
  <2>4. ASSUME NEW c \in Commits,
               \/ Rerun(c) \/ Start(c) \/ ContentGate(c) \/ CiGate(c)
               \/ TagRelease(c) \/ CreateRelease(c) \/ Crash(c)
        PROVE  UNCHANGED registry
    BY <2>4 DEF Rerun, Start, ContentGate, CiGate, TagRelease, CreateRelease, Crash, output
  <2>5. ASSUME NEW c \in Commits, PublishToSoldeer(c)
        PROVE  Ledger!LedgerNext \/ UNCHANGED registry
    BY <2>5, UploadPublishes
  <2>6. ASSUME UNCHANGED vars PROVE UNCHANGED registry
    BY <2>6 DEF vars, output
  <2>7. Ledger!LedgerNext \/ UNCHANGED registry
    <3>1. CASE People
      BY <2>1, <2>2, <2>3, <2>4, <3>1 DEF People
    <3>2. CASE \E c \in Commits : JobStep(c) \/ Crash(c)
      BY <2>4, <2>5, <3>2 DEF JobStep
    <3> QED
      BY <2>6, <3>1, <3>2 DEF Next
  <2>8. UNCHANGED registry => UNCHANGED AsLedger
    BY DEF AsLedger
  <2> QED
    BY <2>7, <2>8
<1>3. IInv /\ [Next]_vars => [Ledger!LedgerNext]_([i \in 1..Len(registry) |->
        [version |-> registry[i].version, content |-> registry[i].content]])
  BY <1>2 DEF AsLedger
<1> QED
  BY <1>1, <1>3, Invariance, PTL DEF Spec, ImplementsLedger, Ledger!LedgerSpec

(***************************************************************************)
(* The order of the branch, while nobody re-runs a job: only the last push *)
(* waits, so jobs run in the order of their commits, and the last push's   *)
(* job waits as long as an earlier one runs.                               *)
(***************************************************************************)
JobOrder ==
  /\ \A c \in Commits : job[c] = "pending" => c = head
  /\ \A c \in Commits : job[c] \in Running => c = head \/ job[head] = "pending"

RegistryOrder ==
  /\ RegistryFollowsBranch
  /\ \A i \in 1..Len(registry) : /\ registry[i].commit <= head
                                 /\ registry[i].content = content[registry[i].commit]
  /\ \A c \in Commits : job[c] \in Running =>
       \A i \in 1..Len(registry) : registry[i].commit <= c

LastJobCounts ==
  head > 0 /\ job[head] = "success" => registry # <<>> /\ Newest.content = content[head]

OrderInv == JobOrder /\ RegistryOrder /\ LastJobCounts

\* A step of a job that leaves the registry alone and does not end in success.
LEMMA OrderFrame ==
  ASSUME TypeOK, OneJobRuns, OrderInv, UNCHANGED <<head, content, registry>>,
         NEW c \in Commits, job[c] \in Running,
         NEW step \in Running \cup {"success", "failure"}, job' = [job EXCEPT ![c] = step],
         step = "success" /\ c = head => registry # <<>> /\ Newest.content = content[c]
  PROVE  OrderInv'
<1>1. /\ \A d \in Commits : d # c => job'[d] = job[d]
      /\ job'[c] = step
  BY DEF TypeOK
<1>2. \A d \in Commits : job'[d] \in Running => job[d] \in Running /\ d = c
  BY <1>1 DEF OneJobRuns
<1>3. head \in 0..MaxCommits /\ (c # head => head \in Commits)
  BY LaneAssumption DEF LaneAssumption, TypeOK, OneJobRuns, Commits, Running
<1>4. JobOrder'
  BY <1>1, <1>2, <1>3 DEF OrderInv, JobOrder, Running
<1>5. RegistryOrder'
  BY <1>2 DEF OrderInv, RegistryOrder, RegistryFollowsBranch
<1>6. LastJobCounts'
  <2>1. head > 0 => head \in Commits
    BY <1>3, LaneAssumption DEF LaneAssumption, Commits
  <2> QED
    BY <1>1, <1>3, <2>1 DEF OrderInv, LastJobCounts, Newest, Running
<1> QED
  BY <1>4, <1>5, <1>6 DEF OrderInv

\* The uploads come in the order of the commits.
LEMMA OrderedUpload ==
  ASSUME TypeOK, OneJobRuns, DerivationIsFresh, OrderInv, UNCHANGED <<head, content>>,
         NEW c \in Commits, job[c] = "push",
         registry' = Append(registry,
           [version |-> version[c], content |-> content[c], commit |-> c]),
         NEW step \in {"tag", "failure"}, job' = [job EXCEPT ![c] = step]
  PROVE  OrderInv'
<1>1. /\ \A d \in Commits : d # c => job'[d] = job[d]
      /\ job'[c] = step
  BY DEF TypeOK
<1>2. /\ \A d \in Commits : job'[d] \in Running => d = c
      /\ c <= head /\ (c = head \/ job[head] = "pending")
      /\ head \in 1..MaxCommits
  BY <1>1, LaneAssumption
  DEF LaneAssumption, TypeOK, OneJobRuns, OrderInv, JobOrder, Running, Commits
<1>3. JobOrder'
  BY <1>1, <1>2 DEF OrderInv, JobOrder, Running, Commits
<1>4. LastJobCounts'
  BY <1>1, <1>2 DEF LastJobCounts, Commits
<1>5. /\ Len(registry) \in Nat
      /\ Len(registry') = Len(registry) + 1
      /\ \A i \in 1..Len(registry) : registry'[i] = registry[i]
      /\ registry'[Len(registry) + 1] =
           [version |-> version[c], content |-> content[c], commit |-> c]
  BY UploadExtendsRegistry DEF DerivationIsFresh
<1>6. \A i \in 1..Len(registry') : i \in 1..Len(registry) \/ i = Len(registry) + 1
  BY <1>5
<1>7. \A i \in 1..Len(registry) : registry[i].commit <= c
  BY DEF OrderInv, RegistryOrder, Running
<1>8. \A i \in 1..Len(registry') : /\ registry'[i].commit <= c /\ registry'[i].commit <= head
                                   /\ registry'[i].content = content[registry'[i].commit]
  BY <1>2, <1>5, <1>6, <1>7 DEF OrderInv, RegistryOrder, Commits
<1>9. RegistryFollowsBranch'
  <2> SUFFICES ASSUME NEW i \in 1..Len(registry'), NEW j \in 1..Len(registry'), i < j
               PROVE  registry'[i].commit <= registry'[j].commit
    BY DEF RegistryFollowsBranch
  <2>1. CASE j = Len(registry) + 1
    BY <1>5, <1>8, <2>1
  <2>2. CASE j \in 1..Len(registry)
    <3>1. i \in 1..Len(registry)
      BY <1>5, <2>2
    <3> QED
      BY <1>5, <2>2, <3>1 DEF OrderInv, RegistryOrder, RegistryFollowsBranch
  <2> QED
    BY <1>6, <2>1, <2>2
<1>10. RegistryOrder'
  BY <1>2, <1>8, <1>9 DEF RegistryOrder
<1> QED
  BY <1>3, <1>4, <1>10 DEF OrderInv

\* Without re-runs, every step keeps jobs and revisions in the order of their
\* commits.
LEMMA StepOrder ==
  ASSUME MaxReruns = 0, IInv, OrderInv, [Next]_vars
  PROVE  OrderInv'
<1> USE DEF IInv
<1>0. /\ job \in [Commits -> {"none", "pending"} \cup Running \cup Finished]
      /\ head \in 0..MaxCommits /\ MaxCommits \in Nat
      /\ \A i \in 1..Len(registry) : registry[i] \in Revision
  BY ElementOfSeq, LaneAssumption DEF LaneAssumption, TypeOK
<1>1. ASSUME NEW text \in Contents, Push(text) PROVE OrderInv'
  <2>1. /\ head < MaxCommits /\ head' = head + 1 /\ head + 1 \in Commits
        /\ content' = [content EXCEPT ![head + 1] = text]
        /\ UNCHANGED registry
    BY <1>0, <1>1 DEF Push, output, Commits
  <2>2. \A d \in Commits : job'[d] = IF d = head + 1 THEN "pending"
                                     ELSE IF job[d] = "pending" THEN "cancelled" ELSE job[d]
    BY <1>1 DEF Push, Enqueue
  <2>3. JobOrder'
    <3>1. job'[head + 1] = "pending"
      BY <2>1, <2>2
    <3>2. \A d \in Commits : job'[d] = "pending" => d = head + 1
      BY <2>2
    <3> QED
      BY <2>1, <3>1, <3>2 DEF JobOrder
  <2>4. \A d \in Commits : job'[d] \in Running => job[d] \in Running
    BY <2>2 DEF Running
  <2>5. \A i \in 1..Len(registry) : /\ registry[i].commit <= head /\ registry[i].commit \in Commits
                                    /\ content'[registry[i].commit] = content[registry[i].commit]
    BY <1>0, <2>1 DEF OrderInv, RegistryOrder, Revision, TypeOK, Commits
  <2>6. RegistryOrder'
    BY <1>0, <2>1, <2>4, <2>5 DEF OrderInv, RegistryOrder, RegistryFollowsBranch, Revision, Commits
  <2>7. LastJobCounts'
    BY <2>1, <2>2 DEF LastJobCounts
  <2> QED
    BY <2>3, <2>6, <2>7 DEF OrderInv
<1>2. CASE UNCHANGED <<head, content, job, registry>>
  BY <1>2 DEF OrderInv, JobOrder, RegistryOrder, RegistryFollowsBranch, LastJobCounts, Newest
<1>3. ASSUME NEW c \in Commits, Start(c) PROVE OrderInv'
  <2>1. /\ job[c] = "pending" /\ job' = [job EXCEPT ![c] = "gate"]
        /\ UNCHANGED <<head, content, registry>>
        /\ \A d \in Commits : job[d] \notin Running
    BY <1>3 DEF Start, At, Goto, GroupFree, repo, output
  <2>2. c = head
    BY <2>1 DEF OrderInv, JobOrder
  <2>3. /\ \A d \in Commits : d # c => job'[d] = job[d]
        /\ job'[c] = "gate"
    BY <1>0, <2>1
  <2>4. JobOrder'
    BY <2>1, <2>2, <2>3 DEF OrderInv, JobOrder, Running
  <2>5. RegistryOrder'
    BY <2>1, <2>2, <2>3 DEF OrderInv, RegistryOrder, RegistryFollowsBranch
  <2>6. LastJobCounts'
    BY <2>1, <2>2, <2>3 DEF LastJobCounts
  <2> QED
    BY <2>4, <2>5, <2>6 DEF OrderInv
<1>4. ASSUME NEW c \in Commits, ContentGate(c) PROVE OrderInv'
  <2>1. job[c] = "gate" /\ UNCHANGED <<head, content, registry>>
    BY <1>4 DEF ContentGate, At, repo, output
  <2>2. PICK step \in {"ci", "success", "failure"} :
          job' = [job EXCEPT ![c] = step] /\ (step = "success" => ~Changed(c))
    BY <1>4 DEF ContentGate, Finish
  <2> QED
    BY <2>1, <2>2, OrderFrame DEF Running, Changed
<1>5. ASSUME NEW c \in Commits, CiGate(c) \/ Crash(c) PROVE OrderInv'
  <2>1. job[c] \in Running /\ UNCHANGED <<head, content, registry>>
    BY <1>5 DEF CiGate, Crash, At, repo, output, Running
  <2>2. PICK step \in {"push", "failure"} : job' = [job EXCEPT ![c] = step]
    BY <1>5 DEF CiGate, Crash, Goto, Finish
  <2> QED
    BY <2>1, <2>2, OrderFrame DEF Running
<1>6. ASSUME NEW c \in Commits, PublishToSoldeer(c) PROVE OrderInv'
  <2>1. job[c] = "push" /\ UNCHANGED <<head, content>>
    BY <1>6 DEF PublishToSoldeer, At, repo
  <2>2. CASE version[c] \in Published
    BY <1>6, <2>1, <2>2, OrderFrame DEF PublishToSoldeer, Finish, Running
  <2>3. CASE version[c] \notin Published
    <3>1. PICK step \in {"tag", "failure"} : job' = [job EXCEPT ![c] = step]
      BY <1>6, <2>3 DEF PublishToSoldeer, Goto, Finish
    <3> QED
      BY <1>6, <2>1, <2>3, <3>1, OrderedUpload DEF PublishToSoldeer
  <2> QED
    BY <2>2, <2>3
<1>7. ASSUME NEW c \in Commits, TagRelease(c) PROVE OrderInv'
  <2>1. job[c] = "tag" /\ UNCHANGED <<head, content, registry>>
    BY <1>7 DEF TagRelease, At, repo
  <2>2. PICK step \in {"release", "failure"} : job' = [job EXCEPT ![c] = step]
    BY <1>7 DEF TagRelease, Goto, Finish
  <2> QED
    BY <2>1, <2>2, OrderFrame DEF Running
<1>8. ASSUME NEW c \in Commits, CreateRelease(c) PROVE OrderInv'
  <2>1. /\ job[c] = "release" /\ job' = [job EXCEPT ![c] = "success"]
        /\ UNCHANGED <<head, content, registry>>
    BY <1>8 DEF CreateRelease, At, Finish, repo
  <2>2. registry # <<>> /\ Newest.commit = c
    BY <2>1 DEF UploadIsNewest
  <2>3. Newest.content = content[c]
    BY <2>2, NewestIsRevision DEF OrderInv, RegistryOrder, Newest
  <2> QED
    BY <2>1, <2>2, <2>3, OrderFrame DEF Running
<1>9. ASSUME NEW c \in Commits, Rerun(c) PROVE FALSE
  BY <1>9 DEF Rerun, TypeOK
<1> QED
  <2>1. ASSUME \/ \E c \in Commits, v \in IntentVersions : PlaceIntent(c, v)
               \/ \E c \in Commits, s \in {"pending", "green", "red"} : CiReports(c, s)
               \/ UNCHANGED vars
        PROVE  UNCHANGED <<head, content, job, registry>>
    BY <2>1 DEF PlaceIntent, CiReports, vars, repo, output
  <2> QED
    BY <1>1, <1>2, <1>3, <1>4, <1>5, <1>6, <1>7, <1>8, <1>9, <2>1 DEF Next, People, JobStep

\* Without re-runs, jobs and revisions stay in the order of their commits.
LEMMA OrderInvariance == ASSUME MaxReruns = 0 PROVE Spec => []OrderInv
<1>1. Init => OrderInv
  <2> SUFFICES ASSUME Init PROVE OrderInv
    OBVIOUS
  <2>1. Len(registry) = 0
    BY DEF Init
  <2> QED
    BY <2>1 DEF Init, OrderInv, JobOrder, RegistryOrder, RegistryFollowsBranch, LastJobCounts, Running
<1>2. IInv /\ OrderInv /\ [Next]_vars => OrderInv'
  BY StepOrder
<1> QED
  BY <1>1, <1>2, Invariance, PTL DEF Spec

\* While no job is re-run, revisions never go back in the branch's history: a
\* replaced job is gone, and the concurrency group of rainix-autopublish.yaml
\* starts the others in the order of their commits.  A re-run breaks this.
THEOREM RevisionsFollowBranch == ASSUME MaxReruns = 0 PROVE Spec => []RegistryFollowsBranch
<1>1. OrderInv => RegistryFollowsBranch
  BY DEF OrderInv, RegistryOrder
<1> QED
  BY <1>1, OrderInvariance, PTL

\* The replaced job loses nothing, while no job is re-run: once the last push's
\* job has succeeded, the newest revision has that push's content.
THEOREM QuietRegistryIsLastPush == ASSUME MaxReruns = 0 PROVE Spec => []QuietRegistryIsHead
<1>1. OrderInv => QuietRegistryIsHead
  BY DEF OrderInv, LastJobCounts, QuietRegistryIsHead
<1> QED
  BY <1>1, OrderInvariance, PTL
=============================================================================
