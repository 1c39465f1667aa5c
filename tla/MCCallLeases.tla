---------------------------- MODULE MCCallLeases ----------------------------
(***************************************************************************)
(* Small instances of CallLeases: the two minutes of a reservation are two *)
(* ticks, a call lasts one and the hour is three.                          *)
(***************************************************************************)
EXTENDS CallLeases

CONSTANTS p1, p2, b1, b2, b3, d1

OneProcess == {p1}
TwoProcesses == {p1, p2}
OneBrowser == {b1}
ThreeBrowsers == {b1, b2, b3}
OneDial == {d1}
None == {}
=============================================================================
