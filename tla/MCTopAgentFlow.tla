--------------------------- MODULE MCTopAgentFlow ---------------------------
(* Instances of TopAgentFlow for TLC: constraint_extraction, the bootstrap   *)
(* stages before it included, parameter_binding, verification_artifacts,     *)
(* debug_loop and backend_board are stages 0 .. 4.                           *)
EXTENDS TopAgentFlow

CONSTANT PlanContract   \* the name stage6.verification_artifacts

MCAlias == [name \in {PlanContract} |-> 2]

\* Verification asks for a complete plan; the backend for a better design, for closed
\* verification, or for whatever its recovery names.
MCFailAsks ==
    [s \in 0 .. 4 |-> CASE s = 3 -> {<<PlanContract>>}
                        [] s = 4 -> {<<1>>, <<3>>, <<NoStage>>}
                        [] OTHER -> {}]

\* A measured design that misses its targets passes and asks for another one.
MCPassAsks == [s \in 0 .. 4 |-> IF s = 4 THEN {<<1>>} ELSE {}]
=============================================================================
