----------------------------- MODULE MCPayments -----------------------------
(***************************************************************************)
(* A small instance of Payments: two payments of two credits each, and an  *)
(* adjustment that takes two back or adds one.                             *)
(***************************************************************************)
EXTENDS Payments

CONSTANTS p1, p2, i1, i2, k1, c1, c2

TwoProcesses == {p1, p2}
TwoIntents == {i1, i2}
TwoCredits == [i \in TwoIntents |-> 2]
OneKey == {k1}
TakeOrGive == {-2, 1}
TwoCallbacks == {c1, c2}
=============================================================================
