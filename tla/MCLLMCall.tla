------------------------------ MODULE MCLLMCall ------------------------------
(* Instance of LLMCall for TLC.                                              *)
EXTENDS LLMCall

CONSTANTS p1, p2, a1, a2
=============================================================================
