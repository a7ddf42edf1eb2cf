--------------------------- MODULE MCSoldeerLane ----------------------------
(***************************************************************************)
(* Small instances of SoldeerLane.  A component is at most 2, so that a    *)
(* patch can be at u64::MAX; tags can ask for a minor version, for a       *)
(* version the registry has already passed, or be malformed.               *)
(***************************************************************************)
EXTENDS SoldeerLane

MCIntents == {<<0, 0, 1>>, <<0, 1, 2>>, Malformed}
MCIntentsFew == {<<0, 0, 1>>}
=============================================================================
