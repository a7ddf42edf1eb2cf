-------------------------- MODULE FrozenSnapshots --------------------------
(***************************************************************************)
(* The append-only gate on frozen snapshots (frozen_snapshots.rs): what a  *)
(* branch did to the files under the snapshot root, and which of its       *)
(* changes are offences.  Deleted snapshots are paired with added files by *)
(* augmenting paths: a search is a stack of calls of `augment`, each at    *)
(* the added file it tries, and a step is one turn of its loop.            *)
(*                                                                         *)
(* A text is what a file holds besides its DEPENDENCIES declaration, a     *)
(* sequence of pieces; NotRegular stands for a symlink or a submodule.     *)
(* Changes outside the tag directories are no snapshots and left out.      *)
(***************************************************************************)
EXTENDS Integers, SequencesExt

CONSTANTS
  Texts,       \* sequences of pieces
  NotRegular,  \* the content of a file that is not regular
  Nobody,      \* no deletion
  Branches     \* what a branch did to the snapshots: [deleted, added, modified]

Contents == Texts \cup {NotRegular}

ASSUME SnapshotsAssumption ==
  /\ NotRegular \notin Texts
  /\ \A t \in Texts : t \in Seq(Range(t))
  /\ \A b \in Branches :
       /\ \A list \in {b.deleted, b.added, b.modified} : list \in Seq(Range(list))
       /\ \A i \in DOMAIN b.deleted : b.deleted[i].content \in Contents
       /\ \A i \in DOMAIN b.added : b.added[i].content \in Contents
       /\ \A i \in DOMAIN b.modified :
            b.modified[i].base \in Contents /\ b.modified[i].head \in Contents
  /\ Nobody \notin Nat

VARIABLES
  deleted,   \* the deleted snapshots, with their content at the merge base
  added,     \* the added files, with their content at HEAD
  modified,  \* the changed files: [base, head]
  carrier,   \* carrier[a]: the deletion that added file a carries
  next,      \* the deletion to pair next
  visited,   \* the added files its search has tried
  calls      \* the calls of the search: the snapshot to place, the file tried

diff == <<deleted, added, modified>>
diffVars == <<diff, carrier, next, visited, calls>>

-----------------------------------------------------------------------------
\* keeps: the frozen text survives as a prefix; a side that is not regular has
\* no text to keep or to keep it in.
KeepsPart(head, base) ==
  head # NotRegular /\ base # NotRegular /\ IsPrefix(head, base)
Keeps(head, base) ==
  head # NotRegular /\ base # NotRegular /\ IsPrefix(base, head)

\* The added files that could carry deletion d.
Carries(d) ==
  {a \in 1..Len(added) : /\ added[a].tag = deleted[d].tag
                         /\ Keeps(added[a].content, deleted[d].content)}

\* What is left to the loop of the innermost call: the files after the one it
\* tried that no call of this search has tried.
Innermost == calls[Len(calls)]
UntriedFree ==
  {a \in Carries(Innermost.snapshot) \ visited : a > Innermost.tried /\ carrier[a] = Nobody}
Untried == {a \in Carries(Innermost.snapshot) \ visited : a > Innermost.tried}

Trying(a) == [calls EXCEPT ![Len(calls)].tried = a]

\* The snapshots of the calls move to the files they tried.
Rehomed(path) ==
  [a \in 1..Len(added) |->
     IF \E k \in DOMAIN path : path[k].tried = a
     THEN path[CHOOSE k \in DOMAIN path : path[k].tried = a].snapshot
     ELSE carrier[a]]

CallFor(d) == [snapshot |-> d, tried |-> 0]

StartSearch ==
  /\ calls = <<>>
  /\ next <= Len(deleted)
  /\ visited' = {}
  /\ calls' = <<CallFor(next)>>
  /\ UNCHANGED <<diff, carrier, next>>

\* The next file is free: every call of the path returns true, its snapshot in
\* the file it tried.
TakeFree(a) ==
  /\ carrier[a] = Nobody
  /\ carrier' = Rehomed(Trying(a))
  /\ next' = next + 1
  /\ calls' = <<>>

\* The next file carries another snapshot, which a call of its own re-homes.
TryRehoming(a) ==
  /\ carrier[a] # Nobody
  /\ calls' = Append(Trying(a), CallFor(carrier[a]))
  /\ UNCHANGED <<carrier, next>>

TryNext ==
  /\ calls # <<>>
  /\ \E a \in Untried :
       /\ \A b \in Untried : a <= b
       /\ visited' = visited \cup {a}
       /\ TakeFree(a) \/ TryRehoming(a)
  /\ UNCHANGED diff

\* The loop is over: the call returns false, to the loop of the call before it.
GiveUp ==
  /\ calls # <<>>
  /\ Untried = {}
  /\ calls' = SubSeq(calls, 1, Len(calls) - 1)
  /\ next' = IF Len(calls) = 1 THEN next + 1 ELSE next
  /\ UNCHANGED <<diff, carrier, visited>>

Renamed == {carrier[a] : a \in 1..Len(added)} \ {Nobody}
Offenders ==
  {<<"deleted", d>> : d \in (1..Len(deleted)) \ Renamed}
  \cup {<<"modified", m>> : m \in {i \in 1..Len(modified) :
          ~Keeps(modified[i].head, modified[i].base)}}

\* The verdict is printed and the process exits.
DiffDone == calls = <<>> /\ next > Len(deleted)
DiffExit == DiffDone /\ UNCHANGED diffVars

DiffInit ==
  /\ \E b \in Branches :
       deleted = b.deleted /\ added = b.added /\ modified = b.modified
  /\ carrier = [a \in 1..Len(added) |-> Nobody]
  /\ next = 1
  /\ visited = {}
  /\ calls = <<>>

DiffNext == StartSearch \/ TryNext \/ GiveUp \/ DiffExit

DiffSpec == DiffInit /\ [][DiffNext]_diffVars

-----------------------------------------------------------------------------
(***************************************************************************)
(* Properties, against definitions that know nothing of augmenting paths.  *)
(***************************************************************************)

\* The rule of the header: the frozen text is the verbatim beginning of a
\* regular file in the same tag directory.
Survives(file, snapshot) ==
  /\ file.tag = snapshot.tag
  /\ file.content # NotRegular /\ snapshot.content # NotRegular
  /\ Len(snapshot.content) <= Len(file.content)
  /\ SubSeq(file.content, 1, Len(snapshot.content)) = snapshot.content

\* A pairing gives deletions of ds distinct carriers.
Pairing(ds, f) ==
  /\ \A d \in ds : Survives(added[f[d]], deleted[d])
  /\ \A d, e \in ds : f[d] = f[e] => d = e
Pairable(ds) == \E f \in [ds -> 1..Len(added)] : Pairing(ds, f)

\* "A maximum one-to-one matching": of the deletions treated so far, no larger
\* set can be paired, whatever order the diff lists them in.
PairingIsMaximum ==
  \A ds \in SUBSET (1..(next - 1)) : Pairable(ds) => Cardinality(ds) <= Cardinality(Renamed)

\* The verdict: no offence exactly when every frozen snapshot survives, the
\* modified ones at their own path.
AcceptsExactlySurvivors ==
  DiffDone => (Offenders = {} <=>
    /\ Pairable(1..Len(deleted))
    /\ \A i \in 1..Len(modified) :
         Survives([tag |-> 0, content |-> modified[i].head],
                  [tag |-> 0, content |-> modified[i].base]))
=============================================================================
