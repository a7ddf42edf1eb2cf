--------------------------- MODULE VersionLedger ----------------------------
(***************************************************************************)
(* What the Soldeer lane promises its consumers, with no job, queue, tag   *)
(* or crash in sight: the registry is an append-only ledger whose versions *)
(* strictly increase in publish order, and no revision repeats the content *)
(* of the one before it.                                                   *)
(***************************************************************************)
EXTENDS SoldeerVersion, Sequences

CONSTANT Contents  \* what a package can contain, up to the gate's norm_hash

VARIABLE ledger

Revision == [version : Version, content : Contents]

Last(l) == l[Len(l)]

Publish(r) ==
  /\ ledger # <<>> => /\ Less(Last(ledger).version, r.version)
                      /\ Last(ledger).content # r.content
  /\ ledger' = Append(ledger, r)

LedgerInit == ledger = <<>>
LedgerNext == \E r \in Revision : Publish(r)
LedgerSpec == LedgerInit /\ [][LedgerNext]_ledger
=============================================================================
