--------------------------- MODULE SoldeerVersion ---------------------------
(***************************************************************************)
(* How the Soldeer lane derives the version it publishes                   *)
(* (rainix-static/src/soldeer_gate.rs): versions are triples of u64 in     *)
(* numeric, not textual, order; the registry's newest revision,            *)
(* patch-bumped, is the baseline and a next-v intent tag can only raise    *)
(* it.                                                                     *)
(***************************************************************************)
EXTENDS Integers

CONSTANTS
  MaxComponent,  \* u64::MAX
  NoVersion,     \* nothing published, or no intent tag (None)
  Malformed      \* a next-v tag whose remainder is not major.minor.patch

Component == 0..MaxComponent
Version == Component \X Component \X Component

ASSUME VersionAssumption ==
  /\ MaxComponent \in Nat
  /\ NoVersion \notin Version
  /\ Malformed \notin Version

\* The order Rust derives for [u64; 3].
Less(u, v) ==
  \/ u[1] < v[1]
  \/ u[1] = v[1] /\ u[2] < v[2]
  \/ u[1] = v[1] /\ u[2] = v[2] /\ u[3] < v[3]

(***************************************************************************)
(* max_intent_tag.  `tags` holds the remainders of the next-v tags merged  *)
(* into HEAD.  One malformed tag makes the whole reading an error.  The    *)
(* newest intent is given as the set of its possible values: one.          *)
(***************************************************************************)
IntentReadable(tags) == Malformed \notin tags
NewestIntent(tags) ==
  IF tags = {} THEN {NoVersion}
  ELSE {v \in tags : \A u \in tags : ~Less(v, u)}

(***************************************************************************)
(* publish_version.  It is an error when nothing is published and no       *)
(* intent seeds the first version, and when the patch cannot be bumped.    *)
(***************************************************************************)
PatchBump(v) == <<v[1], v[2], v[3] + 1>>

CanDeriveUnchecked(remote, intent) == remote # NoVersion \/ intent # NoVersion
CanDerive(remote, intent) ==
  IF remote = NoVersion THEN intent # NoVersion ELSE remote[3] < MaxComponent

PublishVersion(remote, intent) ==
  IF remote = NoVersion THEN intent
  ELSE IF intent # NoVersion /\ Less(PatchBump(remote), intent) THEN intent
  ELSE PatchBump(remote)
=============================================================================
