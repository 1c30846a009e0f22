------------------------------ MODULE MCReading ------------------------------
(***************************************************************************)
(* A small instance of Reading for TLC: the entry ids of two transactions  *)
(* interleave.                                                             *)
(***************************************************************************)
EXTENDS Reading

CONSTANTS u1, c1

MCTxId == {1, 2}
MCEntryIds == [t \in MCTxId |-> {t, t + 2}]
MCDate == {1, 2}
=============================================================================
