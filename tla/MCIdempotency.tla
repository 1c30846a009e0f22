---------------------------- MODULE MCIdempotency ----------------------------
(***************************************************************************)
(* Small instances of Idempotency for TLC. Requests are interchangeable,  *)
(* and so are transaction ids; the runs of a temporal property leave the  *)
(* symmetry out.                                                           *)
(***************************************************************************)
EXTENDS Idempotency, TLC

CONSTANTS r1, r2, r3, t1, t2, k1

MCBody == {"sale", "refund"}
MCSymmetry == Permutations(Request) \cup Permutations(TxId)
=============================================================================
