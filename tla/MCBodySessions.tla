--------------------------- MODULE MCBodySessions ---------------------------
(***************************************************************************)
(* Instances of BodySessions: PutObject bodies against a SQL session of    *)
(* the tenant, repeated parts, and slow bodies against the lease.          *)
(***************************************************************************)
EXTENDS BodySessions, TLC

\* Requests and upload ids are only compared for equality.
MCSymmetry == Permutations(Request) \cup Permutations(Upload)
=============================================================================
