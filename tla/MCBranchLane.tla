---------------------------- MODULE MCBranchLane ----------------------------
(***************************************************************************)
(* Small instances of BranchLane: a workspace of two crates, and an npm    *)
(* package.  Texts are only compared, so they are interchangeable.         *)
(***************************************************************************)
EXTENDS BranchLane, TLC

CONSTANTS TextX, TextY

MCTexts == {TextX, TextY}
TextSymmetry == Permutations(MCTexts)
=============================================================================
