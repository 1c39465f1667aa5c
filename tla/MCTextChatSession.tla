-------------------------- MODULE MCTextChatSession --------------------------
(***************************************************************************)
(* Small instances of TextChatSession, with the five minutes between two   *)
(* sweeps as two ticks and the largest timeout that the code allows.       *)
(***************************************************************************)
EXTENDS TextChatSession

CONSTANTS c1, c2, w1

TwoTabs == {c1, c2}
OneWorker == {w1}
=============================================================================
