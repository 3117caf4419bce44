-------------------------- MODULE MCVerificationRun --------------------------
(* Instances of VerificationRun for TLC.                                    *)
EXTENDS VerificationRun, TLC

CONSTANTS result, cert, x1, x2

MCSymmetry == Permutations(Transition)

MCResultList == <<result>>
MCBlockers == <<cert>>
MCItemLists == {MCResultList, MCBlockers}
MCScopeLists == {{}}
=============================================================================
