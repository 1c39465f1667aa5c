-------------------------- MODULE MCFromNumberPool --------------------------
(***************************************************************************)
(* Small instances of FromNumberPool: one number, three calls, with ten    *)
(* minutes to a tick: calls last up to one tick, the stale timeout is 2,   *)
(* the mapping's EXPIRE 3 and the pool's 6, as in the code.                *)
(***************************************************************************)
EXTENDS FromNumberPool, TLC

CONSTANTS n1, c1, c2, c3, k1, k2

OneNumber == {n1}
ThreeCalls == {c1, c2, c3}
TwoCallbacks == {k1, k2}
=============================================================================
