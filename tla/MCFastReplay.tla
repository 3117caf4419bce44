----------------------------- MODULE MCFastReplay -----------------------------
(* Instances of FastReplay for TLC.                                         *)
EXTENDS FastReplay
=============================================================================
