------------------------------- MODULE GateRun -------------------------------
(***************************************************************************)
(* One verification run after another over the gates of a case: the gate   *)
(* plan, the tools run in its order, the verdict and the promotion         *)
(* certificates.                                                           *)
(*                                                                         *)
(*   src/accagent/framework/stage_verification.py       plan, order,       *)
(*                                                      verdict            *)
(*   src/accagent/framework/stage_verification_plan.py  the gates          *)
(*   src/accagent/framework/tool_runner.py              run_tool           *)
(*   src/accagent/framework/verification_evidence_contract.py              *)
(*                                                                         *)
(* A gate has one tool of its own name and may also run the tools of gates *)
(* below it; a tool runs once per run and its result is shared.  A tool    *)
(* writes a report into its own file, or returns without writing one, and  *)
(* run_tool leaves a log.  Of a report, a log and a certificate the model  *)
(* keeps the design it is about: the version of the sources, numbered as   *)
(* they are repaired between runs.  A run may be killed; the tool it was   *)
(* waiting for goes on and writes its report when it ends.  What a tool    *)
(* answers is chosen, and so is what the checks say that are not about the *)
(* gates (static, functional preconditions, logs, environments, semantic   *)
(* evidence): any of them may fail a run.  How the verdict is published in *)
(* the SACG is the module VerificationRun; here the review approves it or  *)
(* not.                                                                    *)
(***************************************************************************)
EXTENDS Naturals

CONSTANTS
    Gate,       \* the nodes of verification_gate_dag
    Rank,       \* the place of each gate in the list of nodes
    Deps,       \* depends_on
    Helpers,    \* the gates whose tools a gate runs besides its own
    LastLevel,  \* the levels are 1 .. LastLevel, each with a certificate
    Stop,       \* the last gate of the scope of a level
    Required,   \* required_gates of a level
    Identity,   \* the gate that is reused on the file it wrote (board discovery)
    Silent,     \* the gates whose tools may end without writing a report
    MaxDesign,  \* bound: versions of the design
    MaxKills    \* bound: kills

Level  == 1 .. LastLevel
Design == 1 .. MaxDesign
None   == 0

ASSUME GateRunAssumption ==
    /\ LastLevel \in Nat \ {0}
    /\ MaxDesign \in Nat \ {0}
    /\ MaxKills \in Nat
    /\ Rank \in [Gate -> Nat]
    /\ \A g, h \in Gate : Rank[g] = Rank[h] => g = h
    /\ Deps \in [Gate -> SUBSET Gate]
    /\ Helpers \in [Gate -> SUBSET Gate]
    /\ \A g \in Gate : \A h \in Deps[g] \cup Helpers[g] : Rank[h] < Rank[g]
    /\ Stop \in [Level -> Gate]
    /\ Required \in [Level -> SUBSET Gate]
    /\ \A l \in Level : Stop[l] \in Required[l]
    /\ \A l \in Level : \A g \in Required[l] : Rank[g] <= Rank[Stop[l]]
    /\ \A k, l \in Level : k <= l => Rank[Stop[k]] <= Rank[Stop[l]]
    /\ Identity \in Gate
    /\ Silent \subseteq Gate
    /\ \A l \in Level : Stop[l] # Identity

VARIABLES
    design,     \* the version of the design on disk
    report,     \* the design the report of each tool is about
    log,        \* of the logged pass of each tool: the design, and its report's
    board,      \* board_source_identity.json exists and validates
    left,       \* tools of killed runs, still at work
    kills,
    cert,       \* the design each validated certificate was issued on
    run,        \* the run at work
    passed,     \* history: the tools that passed, or wrote a board identity that validates,
                \* with the design they ran on
    excused,    \* history: gates a stale certificate covered at the entry of a scope
    foreign,    \* history: gates with a report of another design in a certificate, and its design
    overtook    \* history: gates whose report was written while one was being issued

vars == <<design, report, log, board, left, kills, cert, run, passed, excused, foreign, overtook>>

NoLog == [on |-> None, out |-> None]

NoRun == [scope |-> None, certified |-> {}, selected |-> {}, reuse |-> FALSE,
          binding |-> "none", copies |-> {},
          result |-> [g \in Gate |-> "none"], status |-> [g \in Gate |-> "none"]]

TypeOK ==
    /\ design \in Design
    /\ report \in [Gate -> Design \cup {None}]
    /\ log \in [Gate -> [on : Design \cup {None}, out : Design \cup {None}]]
    /\ board \in BOOLEAN
    /\ left \subseteq Gate \X Design
    /\ kills \in 0 .. MaxKills
    /\ cert \in [Level -> Design \cup {None}]
    /\ run \in [scope : Level \cup {None}, certified : SUBSET Gate, selected : SUBSET Gate,
                reuse : BOOLEAN,
                binding : {"none", "compared", "copied"},
                copies : SUBSET (Gate \X (Design \cup {None})),
                result : [Gate -> {"none", "pass", "fail", "not_run"}],
                status : [Gate -> {"none", "pass", "fail", "blocked"}]]
    /\ passed \subseteq Gate \X Design
    /\ excused \subseteq Gate \X Design
    /\ foreign \subseteq Gate \X Design
    /\ overtook \subseteq Gate \X Design

Init ==
    /\ design = 1
    /\ report = [g \in Gate |-> None]
    /\ log = [g \in Gate |-> NoLog]
    /\ board = FALSE
    /\ left = {}
    /\ kills = 0
    /\ cert = [l \in Level |-> None]
    /\ run = NoRun
    /\ passed = {}
    /\ excused = {}
    /\ foreign = {}
    /\ overtook = {}

-----------------------------------------------------------------------------
(* The gate plan.                                                          *)

\* A set of gates that has, with a gate not in cut, the gates it depends on.
Closed(gates, cut) == \A g \in gates \ cut : Deps[g] \subseteq gates

\* The gates reached from roots along dependencies that do not pass through cut.
Closure(roots, cut) ==
    LET closed == {gates \in SUBSET Gate : roots \subseteq gates /\ Closed(gates, cut)}
    IN  {g \in Gate : \A gates \in closed : g \in gates}

\* What a certificate of a level stands for.
Below == [l \in Level |-> Closure(Required[l], {})]

\* stage6_selected_gate_names: the nodes up to the one that ends the scope.
ScopeGates == [l \in Level |-> {g \in Gate : Rank[g] <= Rank[Stop[l]]}]

\* blocks_until_present: every node after the last required one.
Blocks == [l \in Level |-> {g \in Gate : Rank[g] > Rank[Stop[l]]}]

\* Mutant: a certificate counts whatever design it was issued on.
UsableOnceIssued(l, entry) == cert[l] # None

\* The files a certificate binds are those on disk.
Live(l) == cert[l] = design

\* A certificate is used when it is live, or unchecked when the debug loop says
\* that it reused the scope.
Usable(l, entry) == cert[l] # None /\ (Live(l) \/ l <= entry)

\* The gates below scope that usable certificates cover.
Covered(scope, entry) ==
    UNION {Below[l] : l \in {k \in Level : /\ ScopeGates[scope] \cap Blocks[k] # {}
                                           /\ Usable(k, entry)}}

\* stage6_selector_blockers: a gate above a level needs the level's certificate.
PlanBlocked(selected, entry) ==
    \E l \in Level : selected \cap Blocks[l] # {} /\ ~Usable(l, entry)

Start(scope, entry, reuse) ==
    LET certified == Covered(scope, entry) \cup (IF board THEN {Identity} ELSE {})
        selected  == Closure(ScopeGates[scope] \ certified, certified) \ certified
        stale     == {l \in 1 .. entry : cert[l] \notin {None, design}}
    IN  /\ run.scope = None
        /\ ~PlanBlocked(selected, entry)    \* otherwise no tool runs and the run fails
        /\ run' = [NoRun EXCEPT !.scope = scope, !.certified = certified,
                                !.selected = selected, !.reuse = reuse]
        /\ excused' = excused \cup (UNION {Below[l] : l \in stale}) \X {design}
        /\ UNCHANGED <<design, report, log, board, left, kills, cert, passed, foreign, overtook>>

-----------------------------------------------------------------------------
(* The tools, in the order of the nodes.                                   *)

\* Mutant: the steps are taken in any order.
AnyCurrent(g) == g \in run.selected /\ run.status[g] = "none"

Current(g) ==
    /\ g \in run.selected
    /\ run.status[g] = "none"
    /\ \A h \in run.selected : Rank[h] < Rank[g] => run.status[h] # "none"

\* Mutant: it is enough that a gate was taken.
Taken(g) == g \in run.certified \/ run.status[g] # "none"

Satisfied(g) == g \in run.certified \/ run.status[g] = "pass"

DepsPass(g) == \A d \in Deps[g] : Satisfied(d)

\* The tools of a certified gate are left out of every gate.
ToolsOf(g) == ({g} \cup Helpers[g]) \ run.certified

\* A gate below did not pass: skipped_tool_result for the tools without a result.
Skip(g) ==
    LET skipped == {t \in ToolsOf(g) : run.result[t] = "none"}
    IN  /\ Current(g)
        /\ ~DepsPass(g)
        /\ run' = [run EXCEPT
               !.result = [t \in Gate |-> IF t \in skipped THEN "not_run" ELSE @[t]],
               !.status = [@ EXCEPT ![g] = "blocked"]]
        /\ log' = [t \in Gate |-> IF t \in skipped THEN NoLog ELSE log[t]]
        /\ UNCHANGED <<design, report, board, left, kills, cert, passed, excused, foreign, overtook>>

Runnable(g, t) ==
    /\ Current(g)
    /\ DepsPass(g)
    /\ t \in ToolsOf(g)
    /\ run.result[t] = "none"

\* Mutant: the log is enough.
ReusableByLog(t) == run.reuse /\ log[t].on # None

\* A logged pass is reused when inputs and outputs have the logged fingerprints.
Reusable(t) ==
    run.reuse /\ log[t].on = design /\ report[t] = log[t].out /\ report[t] # None

Reuse(g, t) ==
    /\ Runnable(g, t)
    /\ Reusable(t)
    /\ run' = [run EXCEPT !.result = [@ EXCEPT ![t] = "pass"]]
    /\ UNCHANGED <<design, report, log, board, left, kills, cert, passed, excused, foreign, overtook>>

\* What a tool may write; the discovery may write a board identity that validates.
Output(t) == {"report"} \cup (IF t \in Silent THEN {"nothing"} ELSE {})
                        \cup (IF t = Identity THEN {"identity"} ELSE {})

\* Its files after it ran on design d.
Writes(t, d, output) ==
    /\ report' = IF output = "nothing" THEN report ELSE [report EXCEPT ![t] = d]
    /\ board' = IF t = Identity /\ output # "nothing" THEN output = "identity" ELSE board

\* The tool returns 0: a pass, also with no report or with one of an earlier run.
ToolPasses(g, t, output) ==
    /\ Runnable(g, t)
    /\ ~Reusable(t)
    /\ Writes(t, design, output)
    /\ log' = [log EXCEPT ![t] = [on |-> design, out |-> report'[t]]]
    /\ passed' = passed \cup {<<t, design>>}
    /\ run' = [run EXCEPT !.result = [@ EXCEPT ![t] = "pass"]]
    /\ UNCHANGED <<design, left, kills, cert, excused, foreign, overtook>>

\* It fails or runs out of time, whatever it wrote.
ToolFails(g, t, output) ==
    /\ Runnable(g, t)
    /\ ~Reusable(t)
    /\ Writes(t, design, output)
    /\ log' = [log EXCEPT ![t] = NoLog]
    /\ passed' = passed \cup (IF output = "identity" THEN {<<t, design>>} ELSE {})
    /\ run' = [run EXCEPT !.result = [@ EXCEPT ![t] = "fail"]]
    /\ UNCHANGED <<design, left, kills, cert, excused, foreign, overtook>>

\* gate_tools_pass.
EndGate(g) ==
    /\ Current(g)
    /\ DepsPass(g)
    /\ \A t \in ToolsOf(g) : run.result[t] # "none"
    /\ run' = [run EXCEPT !.status = [@ EXCEPT ![g] =
           IF \A t \in ToolsOf(g) : run.result[t] = "pass" THEN "pass" ELSE "fail"]]
    /\ UNCHANGED <<design, report, log, board, left, kills, cert, passed, excused, foreign, overtook>>

-----------------------------------------------------------------------------
(* The verdict and the certificates.                                       *)

Finished == run.scope # None /\ \A g \in run.selected : run.status[g] # "none"

\* build_hierarchical_gate_summary.
GatePasses(g) == g \in run.certified \/ (g \in run.selected /\ run.result[g] = "pass")

\* No tool failed and every required gate of the levels of the scope passes; a
\* tool that was skipped because of a gate below is not held against the run.
GatesPass ==
    /\ \A t \in Gate : run.result[t] # "fail"
    /\ \A l \in 1 .. run.scope : \A g \in Required[l] : GatePasses(g)

\* The levels whose certificate this run may issue.
Issued ==
    {l \in Level : /\ Required[l] \cap run.selected # {}
                   /\ \A g \in Required[l] : GatePasses(g)}

\* The gates of a level that this run executed and whose logs name a report.
Reporting(l) == {g \in Required[l] \ run.certified : log[g].out # None}

\* The first comparison: the hashes the logs declare are those of the reports.  (The
\* code compares and copies level by level, the model the levels together.)
Compare ==
    /\ Finished
    /\ GatesPass
    /\ run.binding = "none"
    /\ \A l \in Issued : \A g \in Reporting(l) : report[g] = log[g].out
    /\ run' = [run EXCEPT !.binding = "compared"]
    /\ UNCHANGED <<design, report, log, board, left, kills, cert, passed, excused, foreign, overtook>>

\* The reports are copied into the directory of the certificate.
Copy ==
    /\ run.binding = "compared"
    /\ run' = [run EXCEPT !.binding = "copied",
                          !.copies = {<<g, report[g]>> : g \in UNION {Reporting(l) : l \in Issued}}]
    /\ UNCHANGED <<design, report, log, board, left, kills, cert, passed, excused, foreign, overtook>>

\* Mutant: the hashes a report declares are not compared with the sources.
NeverDrifted == FALSE

\* The second comparison, of the reports and not of the copies: one of them names
\* other sources than those on disk.
Drifted == \E l \in Issued : \E g \in Reporting(l) : report[g] # design

\* The gates whose report was copied when it was about another design.
Misfits == {g \in Gate : \E d \in Design \ {design} : <<g, d>> \in run.copies}

Pass(approved) ==
    /\ run.binding = "copied"
    /\ ~Drifted
    /\ cert' = [l \in Level |-> IF l \notin Issued THEN cert[l]
                                ELSE IF approved THEN design ELSE None]
    /\ foreign' = foreign \cup (IF approved THEN Misfits \X {design} ELSE {})
    /\ run' = NoRun
    /\ UNCHANGED <<design, report, log, board, left, kills, passed, excused, overtook>>

\* The gates do not pass, a hash is not what is declared, or one of the other checks
\* fails, which may happen to any run.
Fail ==
    /\ Finished
    /\ run' = NoRun
    /\ UNCHANGED <<design, report, log, board, left, kills, cert, passed, excused, foreign, overtook>>

-----------------------------------------------------------------------------
(* What happens around a run.                                              *)

\* Between runs a repair edits the sources, those of the board or not.
Edit(keeps) ==
    /\ run.scope = None
    /\ design < MaxDesign
    /\ design' = design + 1
    /\ board' = (board /\ keeps)
    /\ UNCHANGED <<report, log, left, kills, cert, run, passed, excused, foreign, overtook>>

Kill(tools) ==
    /\ run.scope # None
    /\ kills < MaxKills
    /\ \A t \in tools : \E g \in run.selected : Runnable(g, t) /\ ~Reusable(t)
    /\ left' = left \cup (tools \X {design})
    /\ kills' = kills + 1
    /\ run' = NoRun
    /\ UNCHANGED <<design, report, log, board, cert, passed, excused, foreign, overtook>>

\* A tool left behind writes its report.
LateReport(t, d, output) ==
    /\ <<t, d>> \in left
    /\ left' = left \ {<<t, d>>}
    /\ Writes(t, d, output)
    /\ passed' = passed \cup (IF output = "identity" THEN {<<t, d>>} ELSE {})
    /\ overtook' = overtook \cup (IF run.binding # "none" THEN {<<t, design>>} ELSE {})
    /\ UNCHANGED <<design, log, kills, cert, run, excused, foreign>>

Next ==
    \/ \E l \in Level, reuse \in BOOLEAN : \E entry \in 0 .. l - 1 : Start(l, entry, reuse)
    \/ \E g \in run.selected :
          \/ Skip(g)
          \/ EndGate(g)
          \/ \E t \in ToolsOf(g) : \/ Reuse(g, t)
                                  \/ \E output \in Output(t) : \/ ToolPasses(g, t, output)
                                                               \/ ToolFails(g, t, output)
    \/ Compare
    \/ Copy
    \/ \E approved \in BOOLEAN : Pass(approved)
    \/ Fail
    \/ \E keeps \in BOOLEAN : Edit(keeps)
    \/ \E tools \in {{}} \cup {{t} : t \in Gate} : Kill(tools)
    \/ \E t \in Gate, d \in Design : \E output \in Output(t) \ {"nothing"} : LateReport(t, d, output)

Spec == Init /\ [][Next]_vars

-----------------------------------------------------------------------------
\* Proved on d: its tool passed on that design, or a certificate at the entry of a
\* scope stood for it.  The discovery of the board is bound to the board: it is asked
\* for once.
Proved(g, d) ==
    \/ <<g, d>> \in passed \cup excused
    \/ g = Identity /\ \E e \in Design : <<g, e>> \in passed

\* The gates of a run pass only when every gate of its scope is proved on the design on disk,
\* required by a level or not, although the results come from this run, from the logs
\* of earlier ones and from certificates (build_results, run_tool,
\* reusable_stage6_certificate_evidence).
PassIsProved ==
    Finished /\ GatesPass => \A g \in ScopeGates[run.scope] : Proved(g, design)

\* A certificate stands for the gates below it too, and only on the design they
\* were all proved on (gate_dependency_closure_from_map).
CertificateIsProved ==
    \A l \in Level : cert[l] # None =>
        \A g \in Below[l] : Proved(g, cert[l])

\* A certificate binds reports about the design it is issued on, although tools may
\* pass without writing one and leave a report of an earlier design to be bound.  The
\* exception is what the code leaves open: what is copied and what is compared are two
\* reads of the file, and a tool of a killed run may write between them
\* (build_promotion_evidence_binding).
CertificateBindsItsReports == foreign \subseteq overtook

\* When the gates of a planned run do not pass, a tool failed in that run: they never
\* fail because a gate was skipped or waits for another, whatever was reused, certified
\* or shared.  The other checks have causes of their own (run_gate_ordered_tools,
\* check_required_real_tool_evidence).
FailureHasACause ==
    Finished /\ ~GatesPass => \E t \in Gate : run.result[t] = "fail"

\* Below a gate, not asking what the discovery of the board rests on.
Under == [g \in Gate |-> Closure(Deps[g], {Identity})]

\* "A higher gate still requires all declared dependencies": no tool is started for
\* this design before everything below its own gate is proved on it.
LowerGatesFirst ==
    [][\A t \in Gate : run.result[t] = "none" /\ run'.result[t] \in {"pass", "fail"} =>
           \A g \in Under[t] : Proved(g, design)]_vars
=============================================================================
