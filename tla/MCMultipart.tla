----------------------------- MODULE MCMultipart ----------------------------
(***************************************************************************)
(* One multipart upload of two parts, each staged in chunks or whole, over *)
(* two bytes so that chunks, parts and objects often coincide, and the     *)
(* collector, which must get everything back.                              *)
(***************************************************************************)
EXTENDS ObjectStore

CONSTANTS b1, k1, r1, u1, x, y

MCPiece == {<<x>>}
MCPartBody == {<<x, y>>}
MCUsage == {<<r1, r1>>}
MCCond == {[ifNoneMatch |-> FALSE, ifMatch |-> {}]}
MCExpected == {{}}
=============================================================================
