---------------------------- MODULE MCCallTransfer ----------------------------
(***************************************************************************)
(* CallTransfer for one call and two transfers.                            *)
(***************************************************************************)
EXTENDS CallTransfer
=============================================================================
