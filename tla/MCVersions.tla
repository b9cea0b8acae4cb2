----------------------------- MODULE MCVersions -----------------------------
(***************************************************************************)
(* Two buckets: versions, copies, restores and forks, and an upload whose  *)
(* bytes coincide with those of a put, with and without the create-only    *)
(* condition.                                                              *)
(***************************************************************************)
EXTENDS ObjectStore, TLC

CONSTANTS b1, b2, k1, r1, u1, x

MCBody == {<<x>>}
MCPiece == {<<x>>}
MCUsage == {<<r1, r1>>}
MCCond == {[ifNoneMatch |-> FALSE, ifMatch |-> {}], [ifNoneMatch |-> TRUE, ifMatch |-> {}]}
MCExpected == {{}}

\* Names are only compared for equality.
MCSymmetry == Permutations({b1, b2})
=============================================================================
