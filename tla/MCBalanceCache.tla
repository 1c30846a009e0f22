--------------------------- MODULE MCBalanceCache ---------------------------
(***************************************************************************)
(* Small instances of BalanceCache for TLC: one account and one that does  *)
(* not exist, two days.  That an invalidation comes to all of several      *)
(* accounts is PaymentApi's.                                               *)
(***************************************************************************)
EXTENDS BalanceCache

CONSTANTS r1, w1, w2, a1, ghost

MCDay == {1, 2}
Touches(accounts, day) == [accounts |-> accounts, date |-> day]
MCWrites == {Touches({a1}, 1), Touches({a1}, 2)}
=============================================================================
