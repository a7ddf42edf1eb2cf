------------------------ MODULE DeployReleaseProofs ------------------------
(***************************************************************************)
(* A deploy repo's releases, for any number of sources, versions, pull     *)
(* requests, tag pushes and failures: what a tag publishes is merged, on   *)
(* the chain, the newest version of its own record, and stays on the       *)
(* release branch.                                                         *)
(***************************************************************************)
EXTENDS DeployRelease, FiniteSetTheorems, SequenceTheorems, TLAPS

PullRequest ==
  [base : Nat \ {0}, tree : Tree, state : {"open", "merged", "squashed"}, wipes : BOOLEAN]
Run == [version : Versions, at : Place, step : Steps]
Published == [pins : Sources, source : Sources, run : Nat \ {0}]

\* A pull request has passed the append-only gate against its merge base.
PrInv(i) == prs[i].base \in 1..Len(main) /\ AppendOnly(main[prs[i].base], prs[i].tree)

\* What the steps behind a run have established of its commit stays true: main
\* only grows, a merged pull request stays merged, and the chain forgets nothing.
IsPlace(place) == place.index \in 1..(IF place.on = "main" THEN Len(main) ELSE Len(prs))
Guarded  == {"attest", "check", "publish", "release", "success"}
Attested == {"check", "publish", "release", "success"}
Checked  == {"publish", "release", "success"}
RunInv(r) ==
  /\ IsPlace(runs[r].at)
  /\ runs[r].step \in Guarded => OnMain(runs[r].at)
  /\ runs[r].step \in Attested => TreeAt(runs[r].at).candidate \in chain
  /\ runs[r].step \in Checked => GuardAccepts(TreeAt(runs[r].at), runs[r].version)
  /\ runs[r].step = "release" => registry[runs[r].version] # {}

\* A published revision still names the commit that it was taken from.
RevisionInv(v, rev) ==
  /\ rev.run \in 1..Len(runs)
  /\ IsPlace(runs[rev.run].at)
  /\ OnMain(runs[rev.run].at)
  /\ TreeAt(runs[rev.run].at).candidate \in chain
  /\ GuardAccepts(TreeAt(runs[rev.run].at), v)
  /\ rev.pins = TreeAt(runs[rev.run].at).record[v]
  /\ rev.source = TreeAt(runs[rev.run].at).source

\* While nobody removes src/generated the gate is never skipped.  Then a
\* snapshot on main, or in a pull request that was merged, is on main for good.
NoWipes == \A i \in 1..Len(prs) : ~prs[i].wipes
MainKeepsSnapshots ==
  \A a, b \in 1..Len(main) : a <= b =>
    \A v \in Frozen(main[a]) : main[b].record[v] = main[a].record[v]
MainHasMerged ==
  \A i \in 1..Len(prs) : prs[i].state # "open" =>
    \A v \in Frozen(prs[i].tree) : Tip.record[v] = prs[i].tree.record[v]
Generated ==
  /\ \A m \in 1..Len(main) : main[m].candidate # NoPins
  /\ \A i \in 1..Len(prs) : prs[i].tree.candidate # NoPins
RecordInv == NoWipes => Generated /\ MainKeepsSnapshots /\ MainHasMerged

IInv ==
  /\ TypeOK
  /\ main # <<>>
  /\ \A i \in 1..Len(prs) : PrInv(i)
  /\ \A r \in 1..Len(runs) : RunInv(r)
  /\ \A v \in Versions : \A rev \in registry[v] : RevisionInv(v, rev)
  /\ \A v \in releases : registry[v] # {}
  /\ RecordInv
-----------------------------------------------------------------------------
(* Trees, snapshots and lengths.                                             *)

\* What the type invariant says of the elements of each sequence.
LEMMA Lengths ==
  ASSUME TypeOK, main # <<>>
  PROVE  /\ Len(main) \in 1..Len(main) /\ Len(prs) \in Nat /\ Len(runs) \in Nat
         /\ Len(main) \in Nat \ {0}
         /\ \A m \in 1..Len(main) : main[m] \in Tree
         /\ \A i \in 1..Len(prs) : prs[i] \in PullRequest
         /\ \A r \in 1..Len(runs) : runs[r] \in Run
         /\ Tip \in Tree
<1>1. /\ main \in Seq(Tree) /\ prs \in Seq(PullRequest) /\ runs \in Seq(Run)
  BY DEF TypeOK, PullRequest, Run
<1>2. /\ Len(main) \in Nat \ {0} /\ Len(prs) \in Nat /\ Len(runs) \in Nat
  BY <1>1, EmptySeq, LenProperties
<1>3. Len(main) \in 1..Len(main)
  BY <1>2
<1> QED
  BY <1>1, <1>2, <1>3, ElementOfSeq DEF Tip

\* A version is frozen in a tree when the tree has a record of it.
LEMMA FrozenVersions == \A tree, v : v \in Frozen(tree) <=> v \in Versions /\ tree.record[v] # NoPins
  BY DEF Frozen

\* What people propose is a tree, and it keeps a candidate unless src/generated
\* is removed as a whole.
LEMMA EditsAreTrees ==
  ASSUME NEW tree \in Tree
  PROVE  /\ \A e \in Edits(tree) : e \in Tree /\ (e.candidate = NoPins => tree.candidate = NoPins)
         /\ Wiped(tree) \in Tree
<1>1. \A v \in Versions : v \in 0..MaxVersion
  BY ReleaseAssumption DEF ReleaseAssumption, Versions
<1>2. ASSUME NEW s \in Sources, NEW c \in {s, tree.candidate}
      PROVE  LET e == [tree EXCEPT !.source = s, !.candidate = c]
             IN  e \in Tree /\ (e.candidate = NoPins => tree.candidate = NoPins)
  BY ReleaseAssumption DEF ReleaseAssumption, Tree, Pins
<1>3. ASSUME NEW v \in Versions
      PROVE  LET e == [tree EXCEPT !.record[v] = tree.candidate, !.version = v]
             IN  e \in Tree /\ (e.candidate = NoPins => tree.candidate = NoPins)
  BY <1>1 DEF Tree, Pins
<1>4. ASSUME NEW v \in Versions
      PROVE  LET e == [tree EXCEPT !.version = v]
             IN  e \in Tree /\ (e.candidate = NoPins => tree.candidate = NoPins)
  BY <1>1 DEF Tree
<1>5. ASSUME NEW v \in Versions, NEW p \in Pins
      PROVE  LET e == [tree EXCEPT !.record[v] = p]
             IN  e \in Tree /\ (e.candidate = NoPins => tree.candidate = NoPins)
  BY DEF Tree
<1>6. Wiped(tree) \in Tree
  BY DEF Wiped, Tree, Pins
<1> DEFINE Sound(e) == e \in Tree /\ (e.candidate = NoPins => tree.candidate = NoPins)
           Sourced(s) == {[tree EXCEPT !.source = s, !.candidate = c] : c \in {s, tree.candidate}}
           Cuts == {[tree EXCEPT !.record[v] = tree.candidate, !.version = v] : v \in Versions}
           Bumps == {[tree EXCEPT !.version = v] : v \in Versions}
           ByHand == {[tree EXCEPT !.record[v] = p] : v \in Versions, p \in Pins}
<1>7. \A s \in Sources : \A e \in Sourced(s) : Sound(e)
  BY <1>2
<1>8. \A e \in Cuts : Sound(e)
  BY <1>3
<1>9. \A e \in Bumps : Sound(e)
  BY <1>4
<1>10. ASSUME NEW e \in ByHand PROVE Sound(e)
  <2>1. PICK v \in Versions, p \in Pins : e = [tree EXCEPT !.record[v] = p]
    OBVIOUS
  <2> QED
    BY <1>5, <2>1
<1> DEFINE AllSourced == UNION {Sourced(s) : s \in Sources}
<1>11. Edits(tree) = AllSourced \cup Cuts \cup Bumps \cup ByHand
  BY DEF Edits
<1>12. \A e \in AllSourced : \E s \in Sources : e \in Sourced(s)
  OBVIOUS
<1> HIDE DEF Sound, Sourced, Cuts, Bumps, ByHand, AllSourced
<1>13. \A e \in AllSourced : Sound(e)
  BY <1>7, <1>12
<1>14. \A e \in Edits(tree) : Sound(e)
  BY <1>8, <1>9, <1>10, <1>11, <1>13
<1> QED
  BY <1>6, <1>14 DEF Sound

\* A three-way merge of trees is a tree.
LEMMA MergesAreTrees ==
  ASSUME NEW base \in Tree, NEW ours \in Tree, NEW theirs \in Tree
  PROVE  Merged(base, ours, theirs) \in Tree
  BY DEF Merged, Merge3, Tree

\* A merge keeps a snapshot of either side, when it is clean and the pull
\* request has every snapshot of its base.
LEMMA MergeKeeps ==
  ASSUME NEW base \in Tree, NEW ours \in Tree, NEW theirs \in Tree,
         CleanMerge(base, ours, theirs),
         \A v \in Frozen(base) : theirs.record[v] = base.record[v],
         \A v \in Frozen(base) : ours.record[v] = base.record[v]
  PROVE  /\ \A v \in Frozen(ours) : Merged(base, ours, theirs).record[v] = ours.record[v]
         /\ \A v \in Frozen(theirs) : Merged(base, ours, theirs).record[v] = theirs.record[v]
<1>1. \A v \in Versions : Merged(base, ours, theirs).record[v]
                            = Merge3(base.record[v], ours.record[v], theirs.record[v])
  BY DEF Merged
<1>2. \A v \in Versions : Clean3(base.record[v], ours.record[v], theirs.record[v])
  BY DEF CleanMerge
<1>3. ASSUME NEW v \in Frozen(ours) PROVE Merged(base, ours, theirs).record[v] = ours.record[v]
  BY <1>1, <1>2, FrozenVersions DEF Merge3, Clean3
<1>4. ASSUME NEW v \in Frozen(theirs) PROVE Merged(base, ours, theirs).record[v] = theirs.record[v]
  BY <1>1, <1>2, FrozenVersions DEF Merge3, Clean3
<1> QED
  BY <1>3, <1>4

\* What release-guard accepts is the newest version of its record, with the pins
\* of its source, which are the committed candidate.
LEMMA AcceptedTree ==
  ASSUME NEW tree \in Tree, NEW v \in Versions, GuardAccepts(tree, v)
  PROVE  /\ tree.version = v /\ Latest(tree) = v
         /\ tree.record[v] = tree.source /\ tree.candidate = tree.source
         /\ v \in Frozen(tree) /\ tree.source \in Sources
<1>1. /\ tree.version = v /\ tree.candidate = tree.source /\ tree.record[v] = tree.source
      /\ v \in Frozen(tree) /\ tree.source \in Sources
  BY DEF GuardAccepts, VersionMatches, CleanTree, RecordMatches, Regenerated, Tree
<1>2. \A w \in Frozen(tree) : w <= v
  BY ReleaseAssumption DEF GuardAccepts, Newer, Frozen, Versions, ReleaseAssumption
<1>3. ASSUME NEW w \in Frozen(tree), \A x \in Frozen(tree) : x <= w PROVE w = v
  BY <1>1, <1>2, <1>3, ReleaseAssumption DEF Frozen, Versions, ReleaseAssumption
<1>4. Latest(tree) = CHOOSE w \in Frozen(tree) : \A x \in Frozen(tree) : x <= w
  BY <1>1 DEF Latest
<1>5. Latest(tree) = v
  BY <1>1, <1>2, <1>3, <1>4
<1> QED
  BY <1>1, <1>5
-----------------------------------------------------------------------------
(* What stays true of a commit while the repository grows.                   *)

Grows ==
  /\ Len(main) <= Len(main') /\ \A m \in 1..Len(main) : main'[m] = main[m]
  /\ Len(prs) <= Len(prs')
  /\ \A i \in 1..Len(prs) : /\ prs'[i].tree = prs[i].tree
                            /\ prs[i].state = "merged" => prs'[i].state = "merged"
  /\ chain \subseteq chain'
  /\ Len(main') \in Nat /\ Len(prs') \in Nat

\* A commit stays where it is and what it is, and on main once it is there.
LEMMA PlacesStand ==
  ASSUME TypeOK, main # <<>>, Grows, NEW at \in Place, IsPlace(at)
  PROVE  /\ IsPlace(at)'
         /\ TreeAt(at)' = TreeAt(at)
         /\ OnMain(at) => OnMain(at)'
<1>1. CASE at.on = "main"
  <2>1. at.index \in 1..Len(main)
    BY <1>1 DEF IsPlace
  <2>2. at.index \in 1..Len(main') /\ main'[at.index] = main[at.index]
    BY <2>1, Lengths DEF Grows
  <2> QED
    BY <1>1, <2>1, <2>2 DEF IsPlace, TreeAt, OnMain
<1>2. CASE at.on # "main"
  <2>1. at.index \in 1..Len(prs)
    BY <1>2 DEF IsPlace
  <2>2. at.index \in 1..Len(prs')
    BY <2>1, Lengths DEF Grows
  <2>3. prs'[at.index].tree = prs[at.index].tree
        /\ (prs[at.index].state = "merged" => prs'[at.index].state = "merged")
    BY <2>1 DEF Grows
  <2> QED
    BY <1>2, <2>1, <2>2, <2>3 DEF IsPlace, TreeAt, OnMain
<1> QED
  BY <1>1, <1>2

\* A commit's tree is a tree.
LEMMA PlacesAreTrees ==
  ASSUME TypeOK, main # <<>>, NEW at \in Place, IsPlace(at)
  PROVE  TreeAt(at) \in Tree
  BY Lengths DEF IsPlace, TreeAt, PullRequest

\* A run that no step touches, and a revision that is out, keep what is known of
\* their commits.
LEMMA RunStands ==
  ASSUME TypeOK, main # <<>>, Grows, NEW r \in 1..Len(runs), RunInv(r), runs'[r] = runs[r],
         \A v \in Versions : registry[v] # {} => registry'[v] # {}
  PROVE  RunInv(r)'
<1>1. PICK x \in Run : x = runs[r]
  BY Lengths
<1>2. x.at \in Place /\ x.version \in Versions
  BY DEF Run
<1>3. IsPlace(x.at)' /\ TreeAt(x.at)' = TreeAt(x.at) /\ (OnMain(x.at) => OnMain(x.at)')
  BY <1>1, <1>2, PlacesStand DEF RunInv
<1>4. chain \subseteq chain'
  BY DEF Grows
<1>5. runs'[r] = x
  BY <1>1
<1>6. /\ IsPlace(runs[r].at)' = IsPlace(x.at)' /\ OnMain(runs[r].at)' = OnMain(x.at)'
      /\ TreeAt(runs[r].at)' = TreeAt(x.at)'
  BY <1>5 DEF IsPlace, OnMain, TreeAt
<1> QED
  BY <1>1, <1>2, <1>3, <1>4, <1>5, <1>6 DEF RunInv

\* What is said of a revision stays true while histories only grow.
LEMMA RevisionStands ==
  ASSUME TypeOK, main # <<>>, Grows, Len(runs) <= Len(runs'), Len(runs') \in Nat,
         \A q \in 1..Len(runs) : runs'[q].at = runs[q].at,
         NEW v \in Versions, NEW rev, RevisionInv(v, rev)
  PROVE  RevisionInv(v, rev)'
<1>1. rev.run \in 1..Len(runs) /\ rev.run \in 1..Len(runs')
  BY Lengths DEF RevisionInv
<1>2. PICK at \in Place : at = runs[rev.run].at
  BY <1>1, Lengths DEF Run
<1>3. IsPlace(at)' /\ TreeAt(at)' = TreeAt(at) /\ (OnMain(at) => OnMain(at)')
  BY <1>2, PlacesStand DEF RevisionInv
<1>4. chain \subseteq chain' /\ runs'[rev.run].at = at
  BY <1>1, <1>2 DEF Grows
<1>5. /\ IsPlace(runs[rev.run].at)' = IsPlace(at)' /\ OnMain(runs[rev.run].at)' = OnMain(at)'
      /\ TreeAt(runs[rev.run].at)' = TreeAt(at)'
  BY <1>4 DEF IsPlace, OnMain, TreeAt
<1> QED
  BY <1>1, <1>2, <1>3, <1>4, <1>5 DEF RevisionInv

\* A pull request whose base does not move.
LEMMA PrStands ==
  ASSUME TypeOK, main # <<>>, Grows, NEW i \in 1..Len(prs), PrInv(i), prs'[i].base = prs[i].base
  PROVE  PrInv(i)'
<1>1. prs[i].base \in 1..Len(main') /\ main'[prs[i].base] = main[prs[i].base]
  BY Lengths DEF PrInv, Grows
<1>2. prs'[i].tree = prs[i].tree
  BY DEF Grows
<1> QED
  BY <1>1, <1>2 DEF PrInv

\* A step of a run or of the chain moves no commit.
LEMMA RecordStays == ASSUME RecordInv, UNCHANGED <<main, prs>> PROVE RecordInv'
  BY DEF RecordInv, NoWipes, Generated, MainKeepsSnapshots, MainHasMerged, Tip

\* A step that merges and opens nothing leaves the repository as it was.
LEMMA NothingMoves ==
  ASSUME IInv, UNCHANGED <<main, prs>>, chain \subseteq chain'
  PROVE  Grows /\ main' # <<>> /\ RecordInv' /\ \A i \in 1..Len(prs) : PrInv(i)'
<1>1. Grows
  BY Lengths DEF IInv, Grows
<1> QED
  BY <1>1, RecordStays, PrStands DEF IInv

-----------------------------------------------------------------------------
(* The steps.                                                                *)

\* The new repository satisfies the invariant.
LEMMA InitIInv == Init => IInv
<1> SUFFICES ASSUME Init PROVE IInv
  OBVIOUS
<1> USE DEF Init
<1>1. PICK s \in Sources :
        main = <<[source |-> s, candidate |-> s, version |-> 0,
                  record |-> [v \in Versions |-> NoPins]]>>
  OBVIOUS
<1> DEFINE tree == [source |-> s, candidate |-> s, version |-> 0,
                    record |-> [v \in Versions |-> NoPins]]
<1>2. tree \in Tree /\ tree.candidate # NoPins /\ Frozen(tree) = {}
  BY ReleaseAssumption DEF ReleaseAssumption, Tree, Pins, Frozen
<1> HIDE DEF tree
<1>3. main = <<tree>>
  BY <1>1 DEF tree
<1>4. main \in Seq(Tree) /\ main # <<>> /\ Len(main) = 1 /\ main[1] = tree
  BY <1>2, <1>3
<1>5. /\ prs \in Seq(PullRequest) /\ Len(prs) = 0 /\ runs \in Seq(Run) /\ Len(runs) = 0
  BY EmptySeq
<1>6. TypeOK
  <2>1. \A v \in Versions : registry[v] = {} /\ Cardinality(registry[v]) <= 1
    BY FS_EmptySet
  <2>2. registry \in [Versions -> SUBSET Published]
    BY <2>1
  <2> QED
    BY <1>4, <1>5, <2>1, <2>2 DEF TypeOK, PullRequest, Run, Published
<1>7. RecordInv
  BY <1>2, <1>4, <1>5 DEF RecordInv, Generated, MainKeepsSnapshots, MainHasMerged
<1> QED
  BY <1>4, <1>5, <1>6, <1>7 DEF IInv

\* A deploy keeps the invariant: the chain only grows.
LEMMA DeployStep == ASSUME IInv, NEW s \in Sources, Deploy(s) PROVE IInv'
<1>1. UNCHANGED <<main, prs, runs, registry, releases, failures>> /\ chain' = chain \cup {s}
  BY DEF Deploy
<1>2. TypeOK'
  BY <1>1 DEF IInv, TypeOK
<1>3. Grows /\ main' # <<>> /\ RecordInv' /\ \A i \in 1..Len(prs) : PrInv(i)'
  BY <1>1, NothingMoves
<1>4. \A r \in 1..Len(runs) : RunInv(r)'
  BY <1>1, <1>3, RunStands DEF IInv
<1>5. \A v \in Versions : \A rev \in registry[v] : RevisionInv(v, rev)'
  BY <1>1, <1>3, RevisionStands, Lengths DEF IInv
<1> QED
  BY <1>1, <1>2, <1>3, <1>4, <1>5 DEF IInv

\* A tag on any commit keeps it: it starts a run that has established
\* nothing.
LEMMA PushTagStep ==
  ASSUME IInv, NEW v \in Versions, NEW at \in Place, PushTag(v, at)
  PROVE  IInv'
<1> DEFINE x == [version |-> v, at |-> at, step |-> "guard"]
<1>1. /\ UNCHANGED <<main, prs, chain, registry, releases, failures>>
      /\ runs' = Append(runs, x)
      /\ at.index <= (IF at.on = "main" THEN Len(main) ELSE Len(prs))
  BY DEF PushTag
<1>2. x \in Run /\ x.step = "guard" /\ x.at = at
  BY DEF Run, Steps
<1> HIDE DEF x
<1>3. /\ runs' \in Seq(Run) /\ Len(runs) \in Nat /\ Len(runs') = Len(runs) + 1
      /\ \A r \in 1..Len(runs) : runs'[r] = runs[r]
      /\ runs'[Len(runs) + 1] = x
  <2>1. runs \in Seq(Run)
    BY DEF IInv, TypeOK, Run
  <2> QED
    BY <1>1, <1>2, <2>1, AppendProperties, LenProperties
<1>4. TypeOK'
  BY <1>1, <1>3 DEF IInv, TypeOK, Run
<1>5. Grows /\ main' # <<>> /\ RecordInv' /\ \A i \in 1..Len(prs) : PrInv(i)'
  BY <1>1, NothingMoves
<1>6. \A r \in 1..Len(runs) : RunInv(r)'
  BY <1>1, <1>3, <1>5, RunStands DEF IInv
<1>7. ASSUME NEW r \in {Len(runs) + 1} PROVE RunInv(r)'
  <2>1. at.index \in 1..(IF at.on = "main" THEN Len(main) ELSE Len(prs))
    BY <1>1, Lengths DEF Place, IInv
  <2> QED
    BY <1>1, <1>2, <1>3, <2>1 DEF RunInv, IsPlace, Guarded, Attested, Checked
<1>8. \A w \in Versions : \A rev \in registry[w] : RevisionInv(w, rev)'
  <2>1. Len(runs) <= Len(runs') /\ Len(runs') \in Nat
    BY <1>3
  <2> QED
    BY <1>1, <1>3, <1>5, <2>1, RevisionStands DEF IInv
<1>9. \A r \in 1..Len(runs') : RunInv(r)'
  <2>1. \A r \in 1..Len(runs') : r \in 1..Len(runs) \/ r = Len(runs) + 1
    BY <1>3
  <2> QED
    BY <1>6, <1>7, <2>1
<1> QED
  BY <1>1, <1>4, <1>5, <1>8, <1>9 DEF IInv

\* A run that goes on changes its own step and no other run.
LEMMA GotoRuns ==
  ASSUME IInv, NEW r \in 1..Len(runs), NEW step \in Steps, Goto(r, step)
  PROVE  /\ runs' \in Seq(Run) /\ Len(runs') = Len(runs) /\ Len(runs) \in Nat
         /\ \A q \in 1..Len(runs) : q # r => runs'[q] = runs[q]
         /\ \A q \in 1..Len(runs) : runs'[q].at = runs[q].at
         /\ runs'[r].version = runs[r].version /\ runs'[r].step = step
         /\ runs[r] \in Run
<1> DEFINE x == [runs[r] EXCEPT !.step = step]
<1>1. runs \in Seq(Run) /\ runs[r] \in Run
  BY Lengths DEF IInv, TypeOK, Run
<1>2. x \in Run /\ x.at = runs[r].at /\ x.version = runs[r].version /\ x.step = step
  BY <1>1 DEF Run
<1>3. runs' = [runs EXCEPT ![r] = x]
  BY DEF Goto
<1> HIDE DEF x
<1>4. /\ runs' \in Seq(Run) /\ Len(runs') = Len(runs) /\ Len(runs) \in Nat
      /\ \A q \in 1..Len(runs) : runs'[q] = IF q = r THEN x ELSE runs[q]
  BY <1>1, <1>2, <1>3, ExceptSeq, LenProperties
<1> QED
  BY <1>1, <1>2, <1>4

\* A run that comes to a step which its commit is known to deserve.
LEMMA RunStep ==
  ASSUME IInv, NEW r \in 1..Len(runs), NEW step \in Steps, Goto(r, step),
         UNCHANGED <<main, prs, chain, registry>>,
         releases' \subseteq Versions, \A v \in releases' : registry[v] # {},
         failures' \in Nat,
         step \in Guarded => OnMain(runs[r].at),
         step \in Attested => TreeAt(runs[r].at).candidate \in chain,
         step \in Checked => GuardAccepts(TreeAt(runs[r].at), runs[r].version),
         step = "release" => registry[runs[r].version] # {}
  PROVE  IInv'
<1>1. /\ runs' \in Seq(Run) /\ Len(runs') = Len(runs) /\ Len(runs) \in Nat
      /\ \A q \in 1..Len(runs) : q # r => runs'[q] = runs[q]
      /\ \A q \in 1..Len(runs) : runs'[q].at = runs[q].at
      /\ runs'[r].version = runs[r].version /\ runs'[r].step = step
  BY GotoRuns
<1>2. TypeOK'
  BY <1>1 DEF IInv, TypeOK, Run
<1>3. Grows /\ main' # <<>> /\ RecordInv' /\ \A i \in 1..Len(prs) : PrInv(i)'
  BY NothingMoves
<1>4. RunInv(r)'
  <2>1. /\ IsPlace(runs[r].at)' = IsPlace(runs[r].at) /\ OnMain(runs[r].at)' = OnMain(runs[r].at)
        /\ TreeAt(runs[r].at)' = TreeAt(runs[r].at)
    BY <1>1 DEF IsPlace, OnMain, TreeAt
  <2>2. IsPlace(runs[r].at)
    BY DEF IInv, RunInv
  <2> QED
    BY <1>1, <2>1, <2>2 DEF RunInv
<1>5. ASSUME NEW q \in 1..Len(runs) PROVE RunInv(q)'
  BY <1>1, <1>3, <1>4, RunStands DEF IInv
<1>6. \A v \in Versions : \A rev \in registry[v] : RevisionInv(v, rev)'
  BY <1>1, <1>3, RevisionStands DEF IInv
<1> QED
  BY <1>1, <1>2, <1>3, <1>5, <1>6 DEF IInv

\* The ancestry job keeps it: a run that passes is of a commit on main.
LEMMA GuardStep == ASSUME IInv, NEW r \in 1..Len(runs), Guard(r) PROVE IInv'
<1>1. PICK step \in {"attest", "failure"} :
        Goto(r, step) /\ (step = "attest" => OnMain(runs[r].at))
  BY DEF Guard
<1> QED
  BY <1>1, RunStep DEF Guard, Steps, Guarded, Attested, Checked, IInv, TypeOK

\* The fork suite keeps it: a run that passes has its candidate on the chain.
LEMMA AttestStep == ASSUME IInv, NEW r \in 1..Len(runs), Attest(r) PROVE IInv'
<1>1. PICK step \in {"check", "failure"} :
        Goto(r, step) /\ (step = "check" => TreeAt(runs[r].at).candidate \in chain)
  BY DEF Attest, Tagged
<1>2. OnMain(runs[r].at)
  BY DEF Attest, StepIs, IInv, RunInv, Guarded
<1> QED
  BY <1>1, <1>2, RunStep DEF Attest, Steps, Guarded, Attested, Checked, IInv, TypeOK

\* Regeneration and release-guard keep it: a run that passes has its pins
\* recorded.
LEMMA CheckStep == ASSUME IInv, NEW r \in 1..Len(runs), Check(r) PROVE IInv'
<1>1. PICK step \in {"publish", "failure"} :
        Goto(r, step) /\ (step = "publish" => GuardAccepts(TreeAt(runs[r].at), runs[r].version))
  BY DEF Check, Tagged
<1>2. OnMain(runs[r].at) /\ TreeAt(runs[r].at).candidate \in chain
  BY DEF Check, StepIs, IInv, RunInv, Guarded, Attested
<1> QED
  BY <1>1, <1>2, RunStep DEF Check, Steps, Guarded, Attested, Checked, IInv, TypeOK

\* The publish keeps it: all that a revision promises was established on the
\* way.
LEMMA ReleaseStep == ASSUME IInv, NEW r \in 1..Len(runs), Release(r) PROVE IInv'
<1>1. /\ runs[r].step = "release" /\ Goto(r, "success")
      /\ releases' = releases \cup {runs[r].version}
      /\ UNCHANGED <<main, prs, chain, registry, failures>>
  BY DEF Release, StepIs
<1>2. /\ OnMain(runs[r].at) /\ TreeAt(runs[r].at).candidate \in chain
      /\ GuardAccepts(TreeAt(runs[r].at), runs[r].version)
      /\ registry[runs[r].version] # {}
  BY <1>1 DEF IInv, RunInv, Guarded, Attested, Checked
<1>3. runs[r].version \in Versions /\ releases \subseteq Versions /\ failures \in Nat
  BY Lengths DEF IInv, TypeOK, Run
<1>4. \A v \in releases' : registry[v] # {}
  BY <1>1, <1>2 DEF IInv
<1> QED
  BY <1>1, <1>2, <1>3, <1>4, RunStep DEF Steps

\* A crash or a re-run keeps it: the run begins again or publishes nothing.
LEMMA FailOrRerunStep == ASSUME IInv, NEW r \in 1..Len(runs), Crash(r) \/ Rerun(r) PROVE IInv'
<1>1. PICK step \in {"guard", "failure"} : Goto(r, step)
  BY DEF Crash, Rerun
<1>2. UNCHANGED <<main, prs, chain, registry, releases>> /\ failures' \in Nat
  BY DEF Crash, Rerun, IInv, TypeOK
<1> QED
  BY <1>1, <1>2, RunStep DEF Steps, Guarded, Attested, Checked, IInv, TypeOK

\* What is published is the revision of the commit that the steps before have
\* guarded, attested and checked.
LEMMA PublishStep == ASSUME IInv, NEW r \in 1..Len(runs), Publish(r) PROVE IInv'
<1> DEFINE v == runs[r].version
           tree == TreeAt(runs[r].at)
           rev == [pins |-> tree.record[v], source |-> tree.source, run |-> r]
<1>1. runs[r].step = "publish" /\ UNCHANGED <<main, prs, chain, releases>>
  BY DEF Publish, StepIs
<1>2. /\ IsPlace(runs[r].at) /\ OnMain(runs[r].at) /\ tree.candidate \in chain
      /\ GuardAccepts(tree, v)
  BY <1>1 DEF IInv, RunInv, Guarded, Attested, Checked
<1>3. v \in Versions /\ runs[r].at \in Place /\ failures \in Nat /\ releases \subseteq Versions
  BY Lengths DEF IInv, TypeOK, Run
<1>4. CASE Goto(r, "failure") /\ UNCHANGED <<registry, failures>>
  BY <1>1, <1>3, <1>4, RunStep DEF Steps, Guarded, Attested, Checked, IInv
<1>5. ASSUME registry[v] = {}, registry' = [registry EXCEPT ![v] = {rev}], failures' \in Nat,
             NEW step \in {"release", "failure"}, Goto(r, step)
      PROVE  IInv'
  <2>1. /\ runs' \in Seq(Run) /\ Len(runs') = Len(runs) /\ Len(runs) \in Nat
        /\ \A q \in 1..Len(runs) : q # r => runs'[q] = runs[q]
        /\ \A q \in 1..Len(runs) : runs'[q].at = runs[q].at
        /\ runs'[r].version = v /\ runs'[r].step = step
    BY <1>5, GotoRuns DEF Steps
  <2>2. tree \in Tree
    BY <1>2, <1>3, PlacesAreTrees DEF IInv
  <2>3. rev \in Published
    BY <1>2, <1>3, <2>1, <2>2, AcceptedTree DEF Published
  <2>4. /\ registry \in [Versions -> SUBSET Published] /\ registry'[v] = {rev}
        /\ \A w \in Versions : w # v => registry'[w] = registry[w]
        /\ registry' \in [Versions -> SUBSET Published]
    <3>1. registry \in [Versions -> SUBSET Published]
      BY DEF IInv, TypeOK, Published
    <3> HIDE DEF rev, v
    <3> QED
      BY <1>3, <1>5, <2>3, <3>1
  <2>5. TypeOK'
    <3>1. ASSUME NEW w \in Versions PROVE Cardinality(registry'[w]) <= 1
      <4>1. CASE w = v
        <5>1. registry'[w] = {rev}
          BY <2>4, <4>1
        <5>2. Cardinality(registry'[w]) = 1
          BY <5>1, FS_Singleton
        <5> QED
          BY <5>2
      <4>2. CASE w # v
        BY <2>4, <4>2 DEF IInv, TypeOK
      <4> QED
        BY <4>1, <4>2
    <3> QED
      BY <1>1, <1>5, <2>1, <2>4, <3>1 DEF IInv, TypeOK, Run, Published
  <2>6. Grows /\ main' # <<>> /\ RecordInv' /\ \A i \in 1..Len(prs) : PrInv(i)'
    BY <1>1, NothingMoves
  <2>7. \A w \in Versions : registry[w] # {} => registry'[w] # {}
    BY <2>4
  <2>8. /\ IsPlace(runs[r].at)' = IsPlace(runs[r].at) /\ OnMain(runs[r].at)' = OnMain(runs[r].at)
        /\ TreeAt(runs[r].at)' = tree
    BY <1>1, <2>1 DEF IsPlace, OnMain, TreeAt
  <2>9. RunInv(r)'
    BY <1>1, <1>2, <2>1, <2>4, <2>8 DEF RunInv
  <2>10. \A q \in 1..Len(runs) : RunInv(q)'
    BY <2>1, <2>6, <2>7, <2>9, RunStands DEF IInv
  <2>11. \A w \in Versions : \A x \in registry[w] : RevisionInv(w, x)'
    BY <2>1, <2>6, RevisionStands DEF IInv
  <2>12. ASSUME NEW w \in {v}, NEW x \in {rev} PROVE RevisionInv(w, x)'
    <3>1. x.run = r /\ x.pins = tree.record[w] /\ x.source = tree.source /\ w = v
      OBVIOUS
    <3>2. IsPlace(runs[x.run].at)' /\ OnMain(runs[x.run].at)' /\ TreeAt(runs[x.run].at)' = tree
      <4>1. runs'[x.run].at = runs[r].at
        BY <2>1, <3>1
      <4> QED
        BY <1>1, <1>2, <4>1 DEF IsPlace, OnMain, TreeAt
    <3> HIDE DEF tree, rev, v
    <3> QED
      BY <1>1, <1>2, <2>1, <3>1, <3>2 DEF RevisionInv
  <2> QED
    <3>1. \A w \in Versions : \A x \in registry'[w] : RevisionInv(w, x)'
      BY <2>4, <2>11, <2>12
    <3>2. \A w \in releases : registry'[w] # {}
      BY <1>3, <2>7 DEF IInv
    <3> QED
      BY <1>1, <2>1, <2>5, <2>6, <2>10, <3>1, <3>2 DEF IInv
<1>6. \/ Goto(r, "failure") /\ UNCHANGED <<registry, failures>>
      \/ /\ registry[v] = {} /\ registry' = [registry EXCEPT ![v] = {rev}] /\ failures' \in Nat
         /\ \E step \in {"release", "failure"} : Goto(r, step)
  BY <1>3 DEF Publish, Revision, Tagged
<1> QED
  BY <1>4, <1>5, <1>6

\* A new pull request is not merged yet, and one that removes src/generated says
\* so.
LEMMA OpenStep ==
  ASSUME IInv, NEW tree \in Tree, NEW wipes \in BOOLEAN, Open(tree, wipes),
         wipes \/ (tree.candidate = NoPins => Tip.candidate = NoPins)
  PROVE  IInv'
<1> DEFINE x == [base |-> Len(main), tree |-> tree, state |-> "open", wipes |-> wipes]
           n == Len(prs)
<1>1. /\ AppendOnly(Tip, tree) /\ prs' = Append(prs, x)
      /\ UNCHANGED <<main, chain, runs, registry, releases, failures>>
  BY DEF Open
<1>2. /\ x \in PullRequest /\ x.base = Len(main) /\ x.tree = tree /\ x.state = "open"
      /\ x.wipes = wipes
  BY Lengths DEF PullRequest, IInv
<1> HIDE DEF x
<1>3. /\ prs' \in Seq(PullRequest) /\ n \in Nat /\ Len(prs') = n + 1
      /\ \A j \in 1..n : prs'[j] = prs[j]
      /\ prs'[n + 1] = x
  <2>1. prs \in Seq(PullRequest)
    BY DEF IInv, TypeOK, PullRequest
  <2> QED
    BY <1>1, <1>2, <2>1, AppendProperties, LenProperties
<1>4. \A j \in 1..Len(prs') : j \in 1..n \/ j = n + 1
  BY <1>3
<1>5. TypeOK'
  BY <1>1, <1>3 DEF IInv, TypeOK, PullRequest
<1>6. Grows /\ main' # <<>>
  BY <1>1, <1>3, Lengths DEF IInv, Grows
<1>7. \A r \in 1..Len(runs) : RunInv(r)'
  BY <1>1, <1>6, RunStands DEF IInv
<1>8. \A v \in Versions : \A rev \in registry[v] : RevisionInv(v, rev)'
  BY <1>1, <1>6, RevisionStands, Lengths DEF IInv
<1> HIDE DEF n
<1>9. ASSUME NEW j \in 1..Len(prs') PROVE PrInv(j)'
  <2>1. CASE j \in 1..n
    BY <1>3, <1>6, <2>1, PrStands DEF IInv, n
  <2>2. CASE j = n + 1
    BY <1>1, <1>2, <1>3, <2>2, Lengths DEF PrInv, Tip, IInv
  <2> QED
    BY <1>4, <2>1, <2>2
<1>10. RecordInv'
  <2> SUFFICES ASSUME NoWipes' PROVE Generated' /\ MainKeepsSnapshots' /\ MainHasMerged'
    BY DEF RecordInv
  <2>1. NoWipes /\ ~wipes
    <3>1. \A j \in 1..n : j \in 1..Len(prs') /\ prs'[j] = prs[j]
      BY <1>3
    <3>2. n + 1 \in 1..Len(prs')
      BY <1>3
    <3> QED
      BY <1>2, <1>3, <3>1, <3>2 DEF NoWipes, n
  <2>2. Generated /\ MainKeepsSnapshots /\ MainHasMerged
    BY <2>1 DEF IInv, RecordInv
  <2>3. Generated'
    <3>1. tree.candidate # NoPins
      BY <2>1, <2>2, Lengths DEF Generated, Tip, IInv
    <3>2. \A j \in 1..Len(prs') : prs'[j].tree.candidate # NoPins
      BY <1>2, <1>3, <1>4, <2>2, <3>1 DEF Generated, n
    <3> QED
      BY <1>1, <2>2, <3>2 DEF Generated
  <2>4. MainKeepsSnapshots'
    BY <1>1, <2>2 DEF MainKeepsSnapshots
  <2>5. MainHasMerged'
    BY <1>1, <1>2, <1>3, <1>4, <2>2 DEF MainHasMerged, Tip, n
  <2> QED
    BY <2>3, <2>4, <2>5
<1> QED
  BY <1>1, <1>5, <1>6, <1>7, <1>8, <1>9, <1>10 DEF IInv

\* What the merge of a pull request does to the snapshots: its base has none that
\* it lacks, the branch has kept those of the base, and so the merge keeps those
\* of the branch and brings its own.
LEMMA MergeStep ==
  ASSUME IInv, NEW i \in 1..Len(prs), NEW how \in {"merged", "squashed"}, MergePR(i, how)
  PROVE  IInv'
<1> DEFINE base == main[prs[i].base]
           theirs == prs[i].tree
           m == Merged(base, Tip, theirs)
           x == [prs[i] EXCEPT !.state = how]
           n == Len(main)
<1>1. /\ prs[i].state = "open" /\ CleanMerge(base, Tip, theirs)
      /\ main' = Append(main, m) /\ prs' = [prs EXCEPT ![i] = x]
      /\ UNCHANGED <<chain, runs, registry, releases, failures>>
  BY DEF MergePR
<1>2. /\ base \in Tree /\ theirs \in Tree /\ Tip \in Tree /\ m \in Tree
      /\ prs[i] \in PullRequest /\ prs[i].base \in 1..n
  BY Lengths, MergesAreTrees DEF IInv, PrInv, PullRequest
<1>3. /\ x \in PullRequest /\ x.base = prs[i].base /\ x.tree = theirs /\ x.state = how
      /\ x.wipes = prs[i].wipes
  BY <1>2 DEF PullRequest
<1>4. m.candidate = Merge3(base.candidate, Tip.candidate, theirs.candidate)
  BY DEF Merged
<1> HIDE DEF m, x
<1>5. /\ main' \in Seq(Tree) /\ main' # <<>> /\ n \in Nat \ {0} /\ Len(main') = n + 1
      /\ \A a \in 1..n : main'[a] = main[a]
      /\ main'[n + 1] = m
  <2>1. main \in Seq(Tree)
    BY DEF IInv, TypeOK
  <2> QED
    BY <1>1, <1>2, <2>1, AppendProperties, Lengths DEF IInv
<1>6. /\ prs' \in Seq(PullRequest) /\ Len(prs') = Len(prs) /\ Len(prs) \in Nat
      /\ \A j \in 1..Len(prs) : prs'[j] = IF j = i THEN x ELSE prs[j]
  <2>1. prs \in Seq(PullRequest)
    BY DEF IInv, TypeOK, PullRequest
  <2> QED
    BY <1>1, <1>3, <2>1, ExceptSeq, LenProperties
<1>7. TypeOK'
  BY <1>1, <1>5, <1>6 DEF IInv, TypeOK, PullRequest
<1>8. \A j \in 1..Len(prs) : /\ prs'[j].tree = prs[j].tree /\ prs'[j].base = prs[j].base
                             /\ prs'[j].wipes = prs[j].wipes
                             /\ j # i => prs'[j].state = prs[j].state
  BY <1>3, <1>6
<1>9. Grows
  <2>1. \A j \in 1..Len(prs) : prs[j].state = "merged" => prs'[j].state = "merged"
    BY <1>1, <1>8
  <2> QED
    BY <1>1, <1>5, <1>6, <1>8, <2>1 DEF Grows
<1>10. \A r \in 1..Len(runs) : RunInv(r)'
  BY <1>1, <1>9, RunStands DEF IInv
<1>11. \A v \in Versions : \A rev \in registry[v] : RevisionInv(v, rev)'
  BY <1>1, <1>9, RevisionStands, Lengths DEF IInv
<1>12. \A j \in 1..Len(prs) : PrInv(j)'
  BY <1>8, <1>9, PrStands DEF IInv
<1>13. RecordInv'
  <2> SUFFICES ASSUME NoWipes' PROVE Generated' /\ MainKeepsSnapshots' /\ MainHasMerged'
    BY DEF RecordInv
  <2>1. NoWipes
    BY <1>6, <1>8 DEF NoWipes
  <2>2. Generated /\ MainKeepsSnapshots /\ MainHasMerged
    BY <2>1 DEF IInv, RecordInv
  <2>3. /\ base.candidate # NoPins /\ Tip.candidate # NoPins /\ theirs.candidate # NoPins
        /\ n \in 1..n /\ Tip = main[n] /\ prs[i].base <= n
    BY <1>2, <1>5, <2>2 DEF Generated, Tip
  <2>4. \A v \in Frozen(base) : theirs.record[v] = base.record[v]
    <3>1. AppendOnly(base, theirs)
      BY DEF IInv, PrInv
    <3> QED
      BY <2>3, <3>1 DEF AppendOnly, HasGenerated
  <2>5. \A v \in Frozen(base) : Tip.record[v] = base.record[v]
    BY <1>2, <2>2, <2>3 DEF MainKeepsSnapshots
  <2>6. /\ \A v \in Frozen(Tip) : m.record[v] = Tip.record[v]
        /\ \A v \in Frozen(theirs) : m.record[v] = theirs.record[v]
    BY <1>1, <1>2, <2>4, <2>5, MergeKeeps DEF m
  <2> HIDE DEF n, base, theirs
  <2>7. \A a \in 1..Len(main') : a \in 1..n \/ a = n + 1
    BY <1>5
  <2>8. Generated'
    <3>1. m.candidate # NoPins
      BY <1>4, <2>3 DEF Merge3
    <3>2. \A a \in 1..Len(main') : main'[a].candidate # NoPins
      BY <1>5, <2>2, <2>7, <3>1 DEF Generated, n
    <3>3. \A j \in 1..Len(prs') : prs'[j].tree.candidate # NoPins
      BY <1>6, <1>8, <2>2 DEF Generated
    <3> QED
      BY <3>2, <3>3 DEF Generated
  <2>9. MainKeepsSnapshots'
    <3> SUFFICES ASSUME NEW a \in 1..Len(main'), NEW b \in 1..Len(main'), a <= b,
                        NEW v \in Frozen(main'[a])
                 PROVE  main'[b].record[v] = main'[a].record[v]
      BY DEF MainKeepsSnapshots
    <3>1. CASE b \in 1..n
      <4>1. a \in 1..n /\ main'[a] = main[a] /\ main'[b] = main[b]
        BY <1>5, <3>1
      <4> QED
        BY <2>2, <3>1, <4>1 DEF MainKeepsSnapshots, n
    <3>2. CASE a = n + 1 /\ b = n + 1
      BY <3>2
    <3>3. CASE a \in 1..n /\ b = n + 1
      <4>1. main'[a] = main[a] /\ main'[b] = m /\ a <= n
        BY <1>5, <3>3
      <4>2. Tip.record[v] = main[a].record[v]
        BY <2>2, <2>3, <3>3, <4>1 DEF MainKeepsSnapshots, n
      <4>3. v \in Frozen(Tip)
        BY <4>1, <4>2, FrozenVersions
      <4> QED
        BY <2>6, <4>1, <4>2, <4>3
    <3> QED
      BY <1>5, <2>7, <3>1, <3>2, <3>3
  <2>10. MainHasMerged'
    <3>1. Tip' = m
      BY <1>5 DEF Tip
    <3> SUFFICES ASSUME NEW j \in 1..Len(prs), prs'[j].state # "open",
                        NEW v \in Frozen(prs[j].tree)
                 PROVE  m.record[v] = prs[j].tree.record[v]
      BY <1>6, <1>8, <3>1 DEF MainHasMerged
    <3>2. CASE j = i
      BY <2>6, <3>2 DEF theirs
    <3>3. CASE j # i
      <4>1. Tip.record[v] = prs[j].tree.record[v]
        BY <1>8, <2>2, <3>3 DEF MainHasMerged
      <4>2. v \in Frozen(Tip)
        BY <4>1, FrozenVersions
      <4> QED
        BY <2>6, <4>1, <4>2
    <3> QED
      BY <3>2, <3>3
  <2> QED
    BY <2>8, <2>9, <2>10
<1> QED
  BY <1>1, <1>5, <1>6, <1>7, <1>10, <1>11, <1>12, <1>13 DEF IInv
-----------------------------------------------------------------------------
(* The invariant, and what follows from it.                                  *)

\* Every step keeps the invariant.
LEMMA StepIInv == IInv /\ [Next]_vars => IInv'
<1> SUFFICES ASSUME IInv, [Next]_vars PROVE IInv'
  OBVIOUS
<1>1. CASE UNCHANGED vars
  <2>1. TypeOK' /\ Grows /\ main' # <<>> /\ RecordInv' /\ \A i \in 1..Len(prs) : PrInv(i)'
    BY <1>1, NothingMoves DEF vars, IInv, TypeOK
  <2>2. \A r \in 1..Len(runs) : RunInv(r)'
    BY <1>1, <2>1, RunStands DEF IInv, vars
  <2>3. \A v \in Versions : \A rev \in registry[v] : RevisionInv(v, rev)'
    BY <1>1, <2>1, RevisionStands, Lengths DEF IInv, vars
  <2> QED
    BY <1>1, <2>1, <2>2, <2>3 DEF IInv, vars
<1>2. CASE People
  <2>1. CASE OpenPR
    <3>1. PICK tree \in Edits(Tip) : Open(tree, FALSE)
      BY <2>1 DEF OpenPR
    <3>2. tree \in Tree /\ (tree.candidate = NoPins => Tip.candidate = NoPins)
      BY EditsAreTrees, Lengths DEF IInv
    <3> QED
      BY <3>1, <3>2, OpenStep
  <2>2. CASE OpenWipe
    <3>1. Open(Wiped(Tip), TRUE) /\ Wiped(Tip) \in Tree
      BY <2>2, EditsAreTrees, Lengths DEF OpenWipe, IInv
    <3> QED
      BY <3>1, OpenStep
  <2>3. CASE \E i \in 1..Len(prs), how \in {"merged", "squashed"} : MergePR(i, how)
    BY <2>3, MergeStep
  <2>4. CASE \E s \in Sources : Deploy(s)
    BY <2>4, DeployStep
  <2>5. CASE \E v \in Versions, on \in {"main", "pr"}, index \in 1..(MaxPRs + 1) :
               PushTag(v, [on |-> on, index |-> index])
    <3> PICK v \in Versions, on \in {"main", "pr"}, index \in 1..(MaxPRs + 1) :
               PushTag(v, [on |-> on, index |-> index])
      BY <2>5
    <3>1. [on |-> on, index |-> index] \in Place
      BY ReleaseAssumption DEF Place, ReleaseAssumption
    <3> QED
      BY <3>1, PushTagStep
  <2> QED
    BY <1>2, <2>1, <2>2, <2>3, <2>4, <2>5 DEF People
<1>3. ASSUME NEW r \in 1..Len(runs), Workflow(r) PROVE IInv'
  BY <1>3, GuardStep, AttestStep, CheckStep, PublishStep, ReleaseStep, FailOrRerunStep
     DEF Workflow
<1> QED
  BY <1>1, <1>2, <1>3 DEF Next

\* The invariant holds for ever.
LEMMA DeployInvariant == Spec => []IInv
<1> QED
  BY InitIInv, StepIInv, PTL DEF Spec

\* Every commit, pull request, run and revision has its type, whatever pull
\* requests are merged and whatever tags are pushed.
THEOREM TypeCorrect == Spec => []TypeOK
<1>1. IInv => TypeOK
  BY DEF IInv
<1> QED
  BY <1>1, DeployInvariant, PTL

\* Published pins are the pins of the published source and on the chain: the
\* fork suite of rainix-tag-release.yaml attests the committed candidate, the
\* regeneration then shows it to be the source's own, and release_guard.rs
\* compares the record with it, all of one commit, which nothing can change.
THEOREM PinsAreDeployed == Spec => []PublishedPinsAreDeployed
<1>1. IInv => PublishedPinsAreDeployed
  <2> SUFFICES ASSUME IInv, NEW v \in Versions, NEW rev \in registry[v]
               PROVE  rev.pins = rev.source /\ rev.pins \in chain
    BY DEF PublishedPinsAreDeployed
  <2>1. RevisionInv(v, rev)
    BY DEF IInv
  <2>2. TreeAt(runs[rev.run].at) \in Tree
    BY <2>1, PlacesAreTrees, Lengths DEF IInv, RevisionInv, Run
  <2> QED
    BY <2>1, <2>2, AcceptedTree DEF RevisionInv
<1> QED
  BY <1>1, DeployInvariant, PTL

\* What is published was merged, by a merge commit that made the tagged commit
\* an ancestor of the release branch (job guard of rainix-tag-release.yaml), and
\* no GitHub release names a version that is not published.
THEOREM PublishedAreMerged == Spec => []PublishedIsMerged
<1>1. IInv => PublishedIsMerged
  BY DEF IInv, RevisionInv, OnMain, PublishedIsMerged
<1> QED
  BY <1>1, DeployInvariant, PTL

\* What is published as v is a commit whose manifest names v and whose newest
\* snapshot is v (release_guard.rs, invariants 1 and 3), whatever order tags and
\* merges come in.
THEOREM ReleasesFollowTheirRecord == Spec => []ReleaseFollowsItsRecord
<1>1. IInv => ReleaseFollowsItsRecord
  <2> SUFFICES ASSUME IInv, NEW v \in Versions, NEW rev \in registry[v]
               PROVE  LET tree == TreeAt(runs[rev.run].at)
                      IN  Latest(tree) = v /\ tree.version = v
    BY DEF ReleaseFollowsItsRecord
  <2>1. RevisionInv(v, rev)
    BY DEF IInv
  <2>2. TreeAt(runs[rev.run].at) \in Tree
    BY <2>1, PlacesAreTrees, Lengths DEF IInv, RevisionInv, Run
  <2> QED
    BY <2>1, <2>2, AcceptedTree DEF RevisionInv
<1> QED
  BY <1>1, DeployInvariant, PTL

\* While nobody removes all of src/generated, the release branch carries the
\* published pins for ever, although frozen_snapshots.rs judges a pull request
\* against its merge base only and the verdict is not repeated when main moves.
THEOREM PublishedRecordsStand == Spec => []PublishedRecordStands
<1>1. IInv => PublishedRecordStands
  <2> SUFFICES ASSUME IInv, NoWipes, NEW v \in Versions, NEW rev \in registry[v]
               PROVE  Tip.record[v] = rev.pins
    BY DEF PublishedRecordStands, NoWipes
  <2>1. RevisionInv(v, rev) /\ MainKeepsSnapshots /\ MainHasMerged
    BY DEF IInv, RecordInv
  <2>2. PICK at \in Place : at = runs[rev.run].at
    BY <2>1, Lengths DEF IInv, RevisionInv, Run
  <2>3. /\ IsPlace(at) /\ OnMain(at) /\ TreeAt(at) \in Tree
        /\ v \in Frozen(TreeAt(at)) /\ rev.pins = TreeAt(at).record[v]
    BY <2>1, <2>2, PlacesAreTrees, AcceptedTree DEF IInv, RevisionInv
  <2>4. CASE at.on = "main"
    <3>1. at.index \in 1..Len(main) /\ TreeAt(at) = main[at.index] /\ at.index <= Len(main)
      BY <2>3, <2>4, Lengths DEF IInv, IsPlace, TreeAt
    <3>2. Len(main) \in 1..Len(main)
      BY Lengths DEF IInv
    <3>3. main[Len(main)].record[v] = main[at.index].record[v]
      BY <2>1, <2>3, <3>1, <3>2 DEF MainKeepsSnapshots
    <3> QED
      BY <2>3, <3>1, <3>3 DEF Tip
  <2>5. CASE at.on # "main"
    <3>1. /\ at.index \in 1..Len(prs) /\ TreeAt(at) = prs[at.index].tree
          /\ prs[at.index].state = "merged"
      BY <2>3, <2>5 DEF IsPlace, TreeAt, OnMain
    <3> QED
      BY <2>1, <2>3, <3>1 DEF MainHasMerged
  <2> QED
    BY <2>4, <2>5
<1> QED
  BY <1>1, DeployInvariant, PTL
=============================================================================
