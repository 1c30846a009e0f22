---------------------------- MODULE MCPaymentApi ----------------------------
(***************************************************************************)
(* A small instance of PaymentApi for TLC: one payload that is accepted and*)
(* one that is refused, under one key or none, and one balance.            *)
(***************************************************************************)
EXTENDS PaymentApi, MCLedger

CONSTANTS k1, noKey, r1

MCPosts == {Sale, Unbalanced}
MCAsks == {<<s1, k1, Sale>>, <<s2, k1, Sale>>, <<s2, k1, Unbalanced>>}
MCWatched == {<<"sales", 2>>}
=============================================================================
