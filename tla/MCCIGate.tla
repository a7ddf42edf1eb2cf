------------------------------ MODULE MCCIGate ------------------------------
(***************************************************************************)
(* Small instances of CIGate: the gate's own run and two runs of other     *)
(* workflows, one entry per page so that every listing of two runs spans   *)
(* pages and can be disturbed between them.                                *)
(***************************************************************************)
EXTENDS CIGate, TLC

CONSTANTS self, a, b

MCRuns == {self, a, b}
MCOwnRuns == {self}

\* Runs of other workflows are interchangeable.
Symmetry == Permutations({a, b})
=============================================================================
