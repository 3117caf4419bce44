------------------------------ MODULE DebugLoop ------------------------------
(***************************************************************************)
(* The hierarchical debug loop: verify a scope, plan a repair, execute it, *)
(* verify again, and go on to the next scope when the scope is ready.      *)
(*                                                                         *)
(*   src/accagent/framework/stage_debug_loop.py      the loop over scopes  *)
(*   src/accagent/framework/stage_repair.py          plan_repair           *)
(*   src/accagent/framework/stage_repair_execute.py  run_repair_loop       *)
(*   src/accagent/framework/flow_action_handoff.py   flow decisions        *)
(*                                                                         *)
(* Verification, planning and execution each write the design state to a   *)
(* file of their own, always the same one, and the loop carries on with    *)
(* one of these files.  Of such a file the model keeps the last scope that *)
(* is certified in it and whether it names a repair plan and its           *)
(* execution report.  A certificate is valid for the design, the           *)
(* generated sources, it was issued on.  A flow decision is bound to the   *)
(* content of the state file it was taken on; any later write to that file *)
(* makes it stale.                                                         *)
(*                                                                         *)
(* A call may be killed between any two writes.  What a tool or an agent   *)
(* returns is chosen; the inside of a verification run is VerificationRun. *)
(***************************************************************************)
EXTENDS Naturals, FiniteSets, FiniteSetsExt

CONSTANTS
    LastScope,  \* the scopes are 1 .. LastScope, the target scope is the last
    Frontier,   \* identities of observations: what failed or is waited for, and on what
    NoEvidence, \* a failure that left nothing to observe
    Plans,      \* the sets of steps a runnable plan may have
    Remote,     \* include_remote
    MaxIters,   \* max_iters, positive here
    Events,     \* what the instance allows to happen
    MaxEvents,  \* bound: how often
    MaxDecisions \* bound: flow decisions

Scope == 1 .. LastScope
Path  == {"input", "verification", "repair", "execution"}
Kind  == {"edited", "patched", "overwritten", "tool", "board", "capability", "producer",
          "rechecked"}

ASSUME DebugLoopAssumption ==
    /\ LastScope \in Nat \ {0}
    /\ NoEvidence \notin Frontier
    /\ Plans \subseteq (SUBSET {"agent", "rerun", "gates", "backtrack"}) \ {{}}
    /\ Remote \in BOOLEAN
    /\ MaxIters \in Nat \ {0}
    /\ Events \subseteq Kind \cup {"crash", "prepare", "exception", "regenerate"}
    /\ MaxEvents \in Nat
    /\ MaxDecisions \in Nat

Decision == 1 .. MaxDecisions

VARIABLES
    design,     \* version of the generated sources
    cert,       \* the version each scope's stable certificate was issued on
    file,       \* what each state file says
    active,     \* active_scope.json: how many scopes were reused or promoted
    reported,   \* debug_loop_report.json: the same
    plan,       \* repair_plan.json: its steps, none when it cannot be executed
    unfinished, \* repair_execution_report.json: incomplete, and not for the environment only
    archive,    \* observations of the archived iterations of the repair loop
    decided,    \* the state file each flow decision was taken on, while unchanged
    consumed,   \* flow_handoffs/consumed.json
    source,     \* sacg_state, the file handed to the loop
    pc, current, reused, scope, index, resume, handoff, status,   \* the loop
    src, results, disposition,                                    \* the repair loop
    planned,    \* history: decisions a plan was made with
    waits,      \* history: how often the loop went on after waiting for an observation; a
                \* refusal that comes with edits counts only the first time
    events      \* events so far

disk   == <<design, cert, file, active, reported, plan, unfinished, archive, decided, consumed, source>>
outer  == <<current, reused, scope, index, resume, handoff, status>>
inner  == <<src, results, disposition>>
ghost  == <<planned, waits, events>>
vars   == <<disk, pc, outer, inner, ghost>>

-----------------------------------------------------------------------------
Version == 0 .. MaxEvents + 1

\* The result of an executed step: what it came to and what it was seen to come to.
Result == [kind : Kind \cup {"pass", "fail", "waiting", "blocked", "environment", "rejected",
                            "not_run"},
           seen : Frontier \cup {NoEvidence}]

DebugLoopTypeOK ==
    /\ design \in Version \ {0}
    /\ cert \in [Scope -> Version]
    /\ file \in [Path -> [certified : 0 .. LastScope, bound : BOOLEAN]]
    /\ active \in 0 .. LastScope
    /\ reported \in 0 .. LastScope
    /\ plan \in Plans \cup {{}}
    /\ unfinished \in BOOLEAN
    /\ archive \subseteq Frontier
    /\ decided \in [Decision -> [path : Path \cup {"none"}, fresh : BOOLEAN]]
    /\ consumed \subseteq Decision
    /\ {source, current, src} \subseteq Path
    /\ pc \in {"down", "top", "plan", "mark", "planned", "execute", "replan", "archive", "done"}
    /\ reused \in 0 .. LastScope
    /\ scope \in 1 .. LastScope + 1
    /\ index \in 0 .. MaxIters
    /\ resume \in BOOLEAN
    /\ handoff \in 0 .. MaxDecisions
    /\ status \in {"running", "pass", "needs_repair"}
    /\ results \subseteq Result
    /\ disposition \in {"none", "complete", "blocked", "continue", "replan", "replanned"}
    /\ planned \subseteq Decision
    /\ waits \in [Frontier -> 0 .. 2]
    /\ events \in 0 .. MaxEvents

Init ==
    /\ design = 1
    /\ cert = [s \in Scope |-> 0]
    /\ file = [p \in Path |-> [certified |-> 0, bound |-> FALSE]]
    /\ active = 0
    /\ reported = 0
    /\ plan = {}
    /\ unfinished = FALSE
    /\ archive = {}
    /\ decided = [d \in Decision |-> [path |-> "none", fresh |-> FALSE]]
    /\ consumed = {}
    /\ source = "input"
    /\ current = "input"
    /\ pc = "down"
    /\ status = "running"
    /\ reused = 0
    /\ scope = 1
    /\ index = 0
    /\ resume = FALSE
    /\ handoff = 0
    /\ src = "input"
    /\ results = {}
    /\ disposition = "none"
    /\ planned = {}
    /\ waits = [f \in Frontier |-> 0]
    /\ events = 0

Event(kind) ==
    /\ kind \in Events
    /\ events < MaxEvents
    /\ events' = events + 1

\* The local variables of run_repair_loop and of debug_loop are gone when they return.
RepairLoopReturns ==
    /\ src' = "input"
    /\ results' = {}
    /\ disposition' = "none"

LoopReturns ==
    /\ scope' = 1
    /\ index' = 0
    /\ resume' = FALSE
    /\ handoff' = 0
    /\ RepairLoopReturns

\* The state files ps are written: the decisions taken on their old content are stale.
Outdate(ps) ==
    decided' = [d \in Decision |->
        IF decided[d].path \in ps THEN [decided[d] EXCEPT !.fresh = FALSE] ELSE decided[d]]

Write(p, content) == file' = [file EXCEPT ![p] = content] /\ Outdate({p})

-----------------------------------------------------------------------------
(* Entering the loop.                                                      *)

Certified(n, p) == n <= file[p].certified /\ \A s \in 1 .. n : cert[s] = design

\* reusable_scope_prefix: the scopes up to the first whose certificate is not valid for the
\* live files.
IsLivePrefix(n) == Certified(n, source) /\ (n < LastScope => ~Certified(n + 1, source))

\* Mutant: what was recorded is reused whether or not the state handed in trusts it.
RecordedPrefix == IF active > 0 THEN active ELSE reported

\* reusable_scope_checkpoint_prefix: recorded scopes whose certificates the state at
\* hand trusts, without a look at the live files.  A completed backtrack to a lower
\* layer would disable it, but no step result ever has that scope (see "backtrack").
CheckpointPrefix ==
    LET recovered == Min({active, file[source].certified})
    IN  IF recovered > 0 THEN recovered ELSE Min({reported, file[source].certified})

\* pending_repair_execution_resume
Resumable ==
    /\ file[source].bound
    /\ plan # {}
    /\ unfinished

\* The decisions whose state file is the one handed in.
OnSource == {d \in Decision : decided[d].path = source}
Valid    == {d \in OnSource : decided[d].fresh}

\* pending_stage6_flow_handoff: the newest valid one unless it was consumed; decisions on
\* this file, all of them stale, block the loop.
Pending == IF Valid = {} \/ Max(Valid) \in consumed THEN 0 ELSE Max(Valid)
HandoffBlocked == OnSource # {} /\ Valid = {}

\* The report is written and the loop returns.
Finish(outcome) ==
    /\ status' = outcome
    /\ reported' = reused
    /\ pc' = "done"
    /\ LoopReturns

\* debug_loop, up to its loop.
EnterWith(n) ==
    /\ pc = "down"
    /\ reused' = n
    /\ active' = n
    /\ current' = source
    /\ IF HandoffBlocked \/ n = LastScope
       THEN /\ status' = IF HandoffBlocked THEN "needs_repair" ELSE "pass"
            /\ reported' = n
            /\ pc' = "done"
            /\ LoopReturns
       ELSE /\ status' = "running"
            /\ scope' = n + 1
            /\ index' = 0
            /\ resume' = Resumable
            /\ handoff' = Pending
            /\ pc' = "top"
            /\ UNCHANGED <<reported, inner>>
    /\ UNCHANGED <<design, cert, file, plan, unfinished, archive, decided, consumed, source, ghost>>

Enter ==
    \E live \in 0 .. LastScope :
        IsLivePrefix(live) /\ EnterWith(Max({live, CheckpointPrefix}))

-----------------------------------------------------------------------------
(* One iteration: verify the scope, then plan.                             *)

LoopLimit ==
    /\ pc = "top"
    /\ index = MaxIters
    /\ Finish("needs_repair")
    /\ UNCHANGED <<design, cert, file, active, plan, unfinished, archive, decided, consumed, source,
                   current, reused, ghost>>

Verifying == pc = "top" /\ index < MaxIters /\ ~resume

\* prepare_stage3_checkpoint_probe_environment of the board scope failed.
PrepareFails ==
    /\ Verifying
    /\ scope = LastScope
    /\ Event("prepare")
    /\ index' = index + 1
    /\ UNCHANGED <<disk, pc, current, reused, scope, resume, handoff, status, inner,
                   planned, waits>>

\* stage6_selector_blockers: a certificate reused at scope entry is not looked at again.
LowerEvidence ==
    \A s \in 1 .. scope - 1 :
        /\ s <= file[current].certified
        /\ s <= reused \/ cert[s] = design

\* The run is ready: its certificate is issued, the scope is promoted.
VerifyReady ==
    /\ Verifying
    /\ LowerEvidence
    /\ cert' = [cert EXCEPT ![scope] = design]
    /\ Write("verification", [file[current] EXCEPT !.certified = Max({@, scope})])
    /\ current' = "verification"
    /\ IF scope = LastScope
       THEN /\ Finish("pass")
            /\ UNCHANGED <<active, reused>>
       ELSE /\ scope' = scope + 1
            /\ reused' = Max({reused, scope})
            /\ active' = reused'
            /\ UNCHANGED <<reported, pc, status, index, resume, handoff, inner>>
    /\ UNCHANGED <<design, plan, unfinished, archive, consumed, source, ghost>>

VerifyFails ==
    /\ Verifying
    /\ Write("verification", file[current])
    /\ pc' = "plan"
    /\ UNCHANGED <<design, cert, active, reported, plan, unfinished, archive, consumed, source,
                   outer, inner, ghost>>

\* A plan without repair actions and one whose actions cannot be executed come to the same.
NewPlan == Plans \cup {{}}

\* plan_repair, with the flow decision at hand.
PlanRepair(p) ==
    /\ pc = "plan"
    /\ plan' = p
    /\ Write("repair", file["verification"])
    /\ planned' = planned \cup ({handoff} \ {0})
    /\ pc' = IF handoff = 0 THEN "planned" ELSE "mark"
    /\ UNCHANGED <<design, cert, active, reported, unfinished, archive, consumed, source, outer,
                   inner, waits, events>>

\* Mutant: the decision is marked when it is selected, before it is planned with.
MarkEarly ==
    /\ pc = "plan"
    /\ handoff # 0
    /\ consumed' = consumed \cup {handoff}
    /\ handoff' = 0
    /\ UNCHANGED <<design, cert, file, active, reported, plan, unfinished, archive, decided, source,
                   pc, current, reused, scope, index, resume, status, inner, ghost>>

\* mark_stage6_flow_handoff_consumed ...
MarkConsumed ==
    /\ pc = "mark"
    /\ decided[handoff].fresh
    /\ consumed' = consumed \cup {handoff}
    /\ handoff' = 0
    /\ pc' = "planned"
    /\ UNCHANGED <<design, cert, file, active, reported, plan, unfinished, archive, decided, source,
                   current, reused, scope, index, resume, status, inner, ghost>>

\* ... which raises when the state file the decision was taken on has been written since;
\* the loop ends on any exception.
MarkRaises ==
    /\ pc = "mark"
    /\ ~decided[handoff].fresh
    /\ Finish("needs_repair")
    /\ UNCHANGED <<design, cert, file, active, plan, unfinished, archive, decided, consumed, source,
                   current, reused, ghost>>

Raise ==
    /\ pc \in {"top", "plan", "execute"}
    /\ Event("exception")
    /\ Finish("needs_repair")
    /\ UNCHANGED <<design, cert, file, active, plan, unfinished, archive, decided, consumed, source,
                   current, reused, planned, waits>>

\* Mutant: an iteration without a repair is not counted.
SkipUncounted ==
    /\ pc = "planned"
    /\ plan = {}
    /\ current' = "repair"
    /\ pc' = "top"
    /\ UNCHANGED <<disk, reused, scope, index, resume, handoff, status, inner, ghost>>

\* No repair action, or none that can be executed: verify again.
SkipRepair ==
    /\ pc = "planned"
    /\ plan = {}
    /\ current' = "repair"
    /\ index' = index + 1
    /\ pc' = "top"
    /\ UNCHANGED <<disk, reused, scope, resume, handoff, status, inner, ghost>>

-----------------------------------------------------------------------------
(* run_repair_loop: execute the plan until it is complete or blocked.      *)

EnterRepairLoop ==
    /\ \/ pc = "planned" /\ plan # {} /\ src' = "repair"
       \/ pc = "top" /\ index < MaxIters /\ resume /\ src' = current
    /\ pc' = "execute"
    /\ UNCHANGED <<disk, outer, results, disposition, ghost>>

\* What a step may come to.  An agent's step also ends in an edit of the sources, in a real
\* tool's failure left to the agent, a request or a product of a capability; "overwritten"
\* is a refusal whose patch report the next step overwrites with its own edits.  A remote
\* run hands the board's failure over, and is skipped without include_remote; a backtrack
\* to a lower layer is not executed and has no result.  "rechecked" is a completed recheck
\* of the lower layer, which no executor of this commit returns.
Outcomes(step) ==
    CASE step = "agent" ->
            [kind : {"pass", "patched"}, seen : {NoEvidence}]
            \cup [kind : {"fail", "edited", "tool"}, seen : Frontier \cup {NoEvidence}]
            \cup [kind : {"waiting", "blocked", "environment", "rejected", "overwritten"},
                  seen : Frontier]
            \cup [kind : {"capability", "producer", "rechecked"}, seen : {NoEvidence}]
      [] step = "rerun" ->
            IF Remote
            THEN [kind : {"pass"}, seen : {NoEvidence}]
                 \cup [kind : {"fail", "board"}, seen : Frontier \cup {NoEvidence}]
            ELSE [kind : {"not_run"}, seen : {NoEvidence}]
      [] step = "gates" -> [kind : {"pass", "fail"}, seen : {NoEvidence}]

ResultsOf(step) == IF step \in plan THEN {{r} : r \in Outcomes(step)} ELSE {{}}

\* The possible executions of the plan, each given by the results of its steps.
Executions ==
    {a \cup r \cup g : a \in ResultsOf("agent"), r \in ResultsOf("rerun"), g \in ResultsOf("gates")}

Of(kinds, res) == {r \in res : r.kind \in kinds}

Passed(res)  == \A r \in res : r.kind \in {"pass", "patched"}
Idle(res)    == Of({"waiting", "blocked", "environment", "rejected"}, res)
Waiting(res) == Idle(res) \cup Of({"overwritten"}, res)

\* repair_loop_disposition: res judged against what was observed before.  A refusal that
\* comes with edits is no repetition, and a recheck comes before everything.
Disposition(res, prior) ==
    LET again == {r \in res : r.seen \in prior \cup {NoEvidence}}
    IN  IF Of({"rechecked"}, res) # {} THEN "replan"
        ELSE IF Passed(res) THEN "complete"
        ELSE IF Idle(res) \cap again # {} THEN "blocked"
        ELSE IF Waiting(res) # {} \/ Of({"edited", "patched"}, res) # {} THEN "continue"
        ELSE IF Of({"board"}, res) # {} THEN "replan"
        ELSE IF Of({"tool"}, res) # {} THEN "continue"
        ELSE IF Of({"capability", "producer"}, res) # {} THEN "replan"
        ELSE IF Of({"fail"}, res) \cap again # {} THEN "blocked"
        ELSE "continue"

\* Mutant: only failures are remembered.
ObservedFailures(res) ==
    {r.seen : r \in Of({"fail", "edited", "tool", "board"}, res)} \ {NoEvidence}

\* observed_failure_frontiers; the verdict on a recheck carries none.
Observed(res) ==
    IF Of({"rechecked"}, res) # {} THEN {}
    ELSE {r.seen : r \in Of({"fail", "edited", "tool", "board"}, res) \cup Waiting(res)}
         \ {NoEvidence}

\* A decision to wait is no error of the execution, and a refusal for the environment only
\* is not resumed.
Unfinished(res) ==
    /\ \E r \in res : r.kind \notin {"pass", "patched", "waiting"}
    /\ Of({"environment"}, res) = {}

\* execute_repair and repair_loop_disposition.  A regeneration of the gates also writes
\* the state of the verification plan.
Execute(res) ==
    /\ pc = "execute"
    /\ {r.kind : r \in Of(Kind, res)} \subseteq Events
    /\ events' = events + Cardinality(Of(Kind, res))
    /\ events' <= MaxEvents
    /\ design' = IF Of({"edited", "patched", "overwritten"}, res) = {} THEN design ELSE design + 1
    /\ unfinished' = Unfinished(res)
    /\ LET executed == [file[src] EXCEPT !.bound = TRUE]
       IN  IF "gates" \in plan
           THEN /\ file' = [file EXCEPT !["execution"] = executed, !["input"] = file[src]]
                /\ Outdate({"execution", "input"})
           ELSE Write("execution", executed)
    /\ results' = res
    /\ disposition' = Disposition(res, archive)
    /\ pc' = IF disposition' = "replan" THEN "replan" ELSE "archive"
    /\ UNCHANGED <<cert, active, reported, plan, archive, consumed, source, outer, src,
                   planned, waits>>

\* plan_repair on the state just written: the loop goes on with a plan that can be executed.
Replan(p) ==
    /\ pc = "replan"
    /\ plan' = p
    /\ Write("repair", file["execution"])
    /\ disposition' = IF p # {} THEN "replanned" ELSE "blocked"
    /\ pc' = "archive"
    /\ UNCHANGED <<design, cert, active, reported, unfinished, archive, consumed, source, outer,
                   src, results, ghost>>

ReplanRaises ==
    /\ pc = "replan"
    /\ Event("exception")
    /\ disposition' = "blocked"
    /\ pc' = "archive"
    /\ UNCHANGED <<disk, outer, src, results, planned, waits>>

\* archive_repair_loop_iteration, and the way on.
Archive ==
    /\ pc = "archive"
    /\ archive' = archive \cup Observed(results)
    /\ UNCHANGED <<design, cert, file, active, plan, unfinished, decided, consumed, source,
                   reused, planned, events>>

GoesOn ==
    /\ Archive
    /\ disposition \in {"continue", "replanned"}
    /\ src' = IF disposition = "replanned" THEN "repair" ELSE "execution"
    /\ waits' = [f \in Frontier |->
           IF disposition # "continue" \/ \A r \in Waiting(results) : r.seen # f THEN waits[f]
           ELSE IF \E r \in Idle(results) : r.seen = f THEN Min({2, waits[f] + 1})
           ELSE Max({1, waits[f]})]
    /\ pc' = "execute"
    /\ UNCHANGED <<reported, current, scope, index, resume, handoff, status>>
    /\ results' = {}
    /\ disposition' = "none"

\* Without the resumption of an earlier plan, the state regenerated with the gates is
\* preferred to the one the executor wrote.
Completes ==
    /\ Archive
    /\ disposition = "complete"
    /\ current' = IF ~resume /\ "gates" \in plan THEN "input" ELSE "execution"
    /\ index' = IF resume THEN index ELSE index + 1
    /\ resume' = FALSE
    /\ pc' = "top"
    /\ RepairLoopReturns
    /\ UNCHANGED <<reported, scope, handoff, status, waits>>

Blocks ==
    /\ Archive
    /\ disposition = "blocked"
    /\ Finish("needs_repair")
    /\ UNCHANGED <<current, waits>>

-----------------------------------------------------------------------------
(* The flow around the loop.                                               *)

\* The loop's memory is gone; it is called again with state file p.
Return(p) ==
    /\ pc' = "down"
    /\ source' = p
    /\ current' = p
    /\ status' = "running"
    /\ reused' = 0
    /\ LoopReturns
    /\ UNCHANGED <<cert, active, reported, plan, unfinished, archive, consumed, planned, waits>>

Crash ==
    /\ pc \notin {"down", "done"}
    /\ Event("crash")
    /\ Return(source)
    /\ UNCHANGED <<design, file, decided>>

Retry ==
    /\ pc = "done"
    /\ Return(current)
    /\ UNCHANGED <<design, file, decided, events>>

\* record_flow_event: the flow controller decides on the state the loop returned.
Decide(d) ==
    /\ pc = "done"
    /\ status = "needs_repair"
    /\ \A e \in Decision : decided[e].path = "none" <=> e >= d
    /\ decided' = [decided EXCEPT ![d] = [path |-> current, fresh |-> TRUE]]
    /\ UNCHANGED <<design, cert, file, active, reported, plan, unfinished, archive, consumed, source,
                   pc, outer, inner, ghost>>

\* The flow goes back to generate the sources again and returns to the loop with a state
\* in which the old certificates are still trusted.
Regenerate ==
    /\ pc = "done"
    /\ Event("regenerate")
    /\ design' = design + 1
    /\ Write("input", [file[current] EXCEPT !.bound = FALSE])
    /\ Return("input")

-----------------------------------------------------------------------------
Verify == PrepareFails \/ VerifyReady \/ VerifyFails
PlanStep == (\E p \in NewPlan : PlanRepair(p)) \/ MarkConsumed \/ MarkRaises \/ SkipRepair
RepairStep ==
    \/ EnterRepairLoop
    \/ \E res \in Executions : Execute(res)
    \/ \E p \in NewPlan : Replan(p)
    \/ ReplanRaises
    \/ GoesOn \/ Completes \/ Blocks
Internal == LoopLimit \/ Verify \/ PlanStep \/ RepairStep \/ Raise
Outside  == Crash \/ Retry \/ Regenerate \/ \E d \in Decision : Decide(d)

Next == Enter \/ Internal \/ Outside
Spec == Init /\ [][Next]_vars

\* A call that runs keeps running: no step waits for anything but its own tools, each of
\* which is run with a time limit.
FairSpec == Spec /\ WF_vars(Internal)

-----------------------------------------------------------------------------
(* Correctness.                                                            *)

\* A scope the call counts as reused is trusted in the state it works on, whatever was
\* killed, planned, edited or regenerated in between; so a call that passes hands on a
\* state that trusts every scope (reused_scopes, scope_index and current_state).
ReusedIsTrusted ==
    /\ pc # "down" => reused <= file[current].certified
    /\ pc = "done" /\ status = "pass" => file[current].certified = LastScope

\* What was waited for is not waited for again, unless the refusal comes with edits: the
\* iterations archived by earlier calls count as much as those of this one, also after a
\* kill (prior_failure_frontiers, no_progress_waiting_decisions).
WaitedOnce == \A f \in Frontier : waits[f] <= 1

\* A flow decision is marked as consumed only when a plan was made with it, and is never
\* planned with after that (plan_stage6_repair, pending_stage6_flow_handoff).
HandoffOnce == consumed \subseteq planned /\ handoff \notin consumed

\* A call of the loop returns, unless it is killed.
CallReturns == pc # "down" ~> pc \in {"down", "done"}
=============================================================================
