------------------------------- MODULE LLMCall -------------------------------
(***************************************************************************)
(* Calls to the language model by several processes at once: the ledger of *)
(* an agent, the limiter of requests under way, the retries and the        *)
(* repair of answers that do not fit their schema.                         *)
(*                                                                         *)
(*   src/accagent/framework/stage_llm.py   run_stage_agent,                *)
(*                                         call_llm_with_retry,            *)
(*                                         llm_inflight_slot, live ledger  *)
(*   src/accagent/framework/llm_io.py      read_response_text              *)
(*                                                                         *)
(* The limiter is one JSON file for all processes of the host, read and    *)
(* written under a file lock: a queue of waiters and leases that run out.  *)
(* An attempt has an id of its own in it.  The ledger is one file per      *)
(* agent, read and written without a lock.  Time is counted in ticks: of a *)
(* lease, a client and a request left behind the model keeps how many are  *)
(* left.  A process is its pid, which nobody takes over.  Switching the    *)
(* transport or the route and compacting the prompt are further attempts.  *)
(***************************************************************************)
EXTENDS Integers, Sequences, FiniteSets

CONSTANTS
    Process,      \* processes that call agents, one call at a time
    Agent,        \* agents, each with a ledger and a result
    NoProcess,
    MaxInflight,  \* SPATIALACC_LLM_MAX_INFLIGHT
    Timeout,      \* ticks of the client timeout
    Hold,         \* ticks a lease is held after a timeout
    Floor,        \* ticks a lease lasts at least
    TotalTimeout, \* the timeout bounds the whole request (curl_direct_http1)
    MaxCalls,     \* bound: calls
    MaxFaults,    \* bound: failing attempts
    MaxKills      \* bound: kills

ASSUME LLMCallAssumption ==
    /\ NoProcess \notin Process
    /\ Agent # {}
    /\ MaxInflight \in Nat \ {0}
    /\ Timeout \in Nat \ {0}
    /\ Hold \in Nat
    /\ Floor \in Nat
    /\ TotalTimeout \in BOOLEAN
    /\ MaxCalls \in Nat
    /\ MaxFaults \in Nat
    /\ MaxKills \in Nat

VARIABLES
    ledger,     \* <agent>_live_transaction.json
    reusable,   \* the agents whose last record has an answer that fits its schema
    waiters,    \* the queue of the limiter
    leases,     \* of each attempt that holds a lease, the ticks until it runs out
    alive,
    pc,
    agent,      \* the agent a process calls
    tries,      \* attempts of a process so far
    outcome,    \* how its attempt ended
    client,     \* ticks until its client times out
    abandoned,  \* ticks the provider goes on with a request nobody waits for
    calls,
    faults,
    kills

files   == <<ledger, reusable>>
limiter == <<waiters, leases>>
local   == <<pc, agent, tries, outcome, client>>
bounds  == <<calls, faults, kills>>
vars    == <<ledger, reusable, waiters, leases, alive, pc, agent, tries, outcome, client,
             abandoned, calls, faults, kills>>

Attempt == Process \X Nat
Id(p)   == <<p, tries[p]>>
NoTransaction == [owner |-> NoProcess, open |-> FALSE]

\* A lease outlives the client and the time it is held after a timeout.
Life == IF Timeout + Hold > Floor THEN Timeout + Hold ELSE Floor

TypeOK ==
    /\ ledger \in [Agent -> [owner : Process \cup {NoProcess}, open : BOOLEAN]]
    /\ reusable \subseteq Agent
    /\ waiters \in Seq(Attempt)
    /\ DOMAIN leases \subseteq Attempt
    /\ leases \in [DOMAIN leases -> 0 .. Life]
    /\ alive \in [Process -> BOOLEAN]
    /\ pc \in [Process -> {"idle", "begin", "open", "beat", "heartbeat", "queue", "wait",
                           "request", "release", "result", "record", "close"}]
    /\ agent \in [Process -> Agent]
    /\ tries \in [Process -> Nat]
    /\ outcome \in [Process -> {"none", "answer", "invalid", "transient", "timeout", "error"}]
    /\ client \in [Process -> 0 .. Timeout]
    /\ DOMAIN abandoned \subseteq Attempt
    /\ abandoned \in [DOMAIN abandoned -> 0 .. Hold]
    /\ calls \in 0 .. MaxCalls
    /\ faults \in 0 .. MaxFaults
    /\ kills \in 0 .. MaxKills

Init ==
    /\ ledger = [a \in Agent |-> NoTransaction]
    /\ reusable = {}
    /\ waiters = <<>>
    /\ leases = [id \in {} |-> 0]
    /\ alive = [p \in Process |-> TRUE]
    /\ pc = [p \in Process |-> "idle"]
    /\ agent \in [Process -> {CHOOSE a \in Agent : TRUE}]
    /\ tries = [p \in Process |-> 0]
    /\ outcome = [p \in Process |-> "none"]
    /\ client = [p \in Process |-> 0]
    /\ abandoned = [id \in {} |-> 0]
    /\ calls = 0
    /\ faults = 0
    /\ kills = 0

Goto(p, step) == pc' = [pc EXCEPT ![p] = step]

At(p, steps) == alive[p] /\ pc[p] \in steps

-----------------------------------------------------------------------------
(* A call and its ledger.                                                  *)

\* The transaction of the agent is open and its owner lives.
Busy(a) == ledger[a].open /\ alive[ledger[a].owner]

\* A call of an agent starts: refused beside a live transaction, answered from the
\* last record when the prompt is the same, or prepared.
Call(p, a, step) ==
    /\ At(p, {"idle"})
    /\ calls < MaxCalls
    /\ step = "idle" => Busy(a) \/ a \in reusable
    /\ step = "begin" => ~Busy(a)
    /\ calls' = calls + 1
    /\ agent' = [agent EXCEPT ![p] = a]
    /\ Goto(p, step)
    /\ UNCHANGED <<files, limiter, alive, tries, outcome, client, abandoned, faults, kills>>

\* begin_live_llm_transaction: refused again, or the old transaction is archived.
Begin(p) ==
    /\ At(p, {"begin"})
    /\ IF Busy(agent[p])
       THEN Goto(p, "idle") /\ UNCHANGED ledger
       ELSE Goto(p, "open") /\ ledger' = [ledger EXCEPT ![agent[p]] = NoTransaction]
    /\ UNCHANGED <<reusable, limiter, alive, agent, tries, outcome, client, abandoned, bounds>>

Open(p) ==
    /\ At(p, {"open"})
    /\ ledger' = [ledger EXCEPT ![agent[p]] = [owner |-> p, open |-> TRUE]]
    /\ Goto(p, "beat")
    /\ UNCHANGED <<reusable, limiter, alive, agent, tries, outcome, client, abandoned, bounds>>

\* update_live_llm_transaction: reads the ledger and writes it back when it is its own.
Beat(p) ==
    /\ At(p, {"beat"})
    /\ Goto(p, IF ledger[agent[p]] = [owner |-> p, open |-> TRUE] THEN "heartbeat" ELSE "queue")
    /\ UNCHANGED <<files, limiter, alive, agent, tries, outcome, client, abandoned, bounds>>

Heartbeat(p) ==
    /\ At(p, {"heartbeat"})
    /\ ledger' = [ledger EXCEPT ![agent[p]] = [owner |-> p, open |-> TRUE]]
    /\ Goto(p, "queue")
    /\ UNCHANGED <<reusable, limiter, alive, agent, tries, outcome, client, abandoned, bounds>>

\* The record of the call is written, then its transaction is closed.
WriteResult(p) ==
    /\ At(p, {"result"})
    /\ reusable' = IF outcome[p] = "answer" THEN reusable \cup {agent[p]}
                   ELSE reusable \ {agent[p]}
    /\ outcome' = [outcome EXCEPT ![p] = "none"]
    /\ Goto(p, "record")
    /\ UNCHANGED <<ledger, limiter, alive, agent, tries, client, abandoned, bounds>>

Record(p) ==
    /\ At(p, {"record"})
    /\ Goto(p, IF ledger[agent[p]].owner = p THEN "close" ELSE "idle")
    /\ UNCHANGED <<files, limiter, alive, agent, tries, outcome, client, abandoned, bounds>>

Close(p) ==
    /\ At(p, {"close"})
    /\ ledger' = [ledger EXCEPT ![agent[p]] = [owner |-> p, open |-> FALSE]]
    /\ Goto(p, "idle")
    /\ UNCHANGED <<reusable, limiter, alive, agent, tries, outcome, client, abandoned, bounds>>

-----------------------------------------------------------------------------
(* The limiter.  Each action is one critical section under its lock.       *)

\* What is left of the leases and of the queue for who reads them.
Valid  == {id \in DOMAIN leases : leases[id] > 0 /\ alive[id[1]]}

\* Mutant: only leases are given back by the dead.
AllQueued == waiters

Queued == SelectSeq(waiters, LAMBDA id : alive[id[1]])

\* A look at the limiter: joins the queue the first time, and takes a lease at its head.
Poll(p) ==
    LET id    == Id(p)
        queue == IF pc[p] = "queue" THEN Append(Queued, id) ELSE Queued
        first == queue # <<>> /\ Head(queue) = id /\ Cardinality(Valid) < MaxInflight
    IN  /\ At(p, {"queue", "wait"})
        /\ waiters' = IF first THEN Tail(queue) ELSE queue
        /\ leases' = [l \in Valid \cup (IF first THEN {id} ELSE {}) |->
                         IF first /\ l = id THEN Life ELSE leases[l]]
        /\ client' = [client EXCEPT ![p] = IF first THEN Timeout ELSE 0]
        /\ Goto(p, IF first THEN "request" ELSE "wait")
        /\ UNCHANGED <<files, alive, agent, tries, outcome, abandoned, bounds>>

\* An error while it waits takes it out of the queue and fails the call.
WaitFails(p) ==
    /\ At(p, {"wait"})
    /\ faults < MaxFaults
    /\ faults' = faults + 1
    /\ waiters' = SelectSeq(Queued, LAMBDA id : id # Id(p))
    /\ leases' = [l \in Valid |-> leases[l]]
    /\ outcome' = [outcome EXCEPT ![p] = "error"]
    /\ tries' = [tries EXCEPT ![p] = @ + 1]
    /\ Goto(p, "result")
    /\ UNCHANGED <<files, alive, agent, client, abandoned, calls, kills>>

\* Mutant: the lease is given back after a timeout as well.
ReleasedAtOnce(id, timedOut) == [l \in DOMAIN leases \ {id} |-> leases[l]]

\* The leases without that of an attempt, or with it held after a timeout.
Released(id, timedOut) ==
    IF timedOut THEN [l \in DOMAIN leases |-> IF l = id THEN Hold ELSE leases[l]]
    ELSE [l \in DOMAIN leases \ {id} |-> leases[l]]

\* Mutant: an error for good leaves the call at once.
DecidedAtOnce(how) == IF how = "error" THEN {"idle"} ELSE {"beat", "result"}

\* What the call does after an attempt that failed for good or answered, or after one
\* that failed in passing or has to be repaired: another, or no more.
Decided(how) == IF how \in {"answer", "error"} THEN {"result"} ELSE {"beat", "result"}

Release(p) ==
    /\ At(p, {"release"})
    /\ leases' = Released(Id(p), outcome[p] = "timeout")
    /\ tries' = [tries EXCEPT ![p] = @ + 1]
    /\ client' = [client EXCEPT ![p] = 0]
    /\ \E step \in Decided(outcome[p]) :
          /\ outcome' = [outcome EXCEPT ![p] = IF step = "result" THEN @ ELSE "none"]
          /\ Goto(p, step)
    /\ UNCHANGED <<files, waiters, alive, agent, abandoned, bounds>>

-----------------------------------------------------------------------------
(* The provider, time and death.                                           *)

\* The request ends with an answer, or with a fault.
Answer(p) ==
    /\ At(p, {"request"})
    /\ outcome' = [outcome EXCEPT ![p] = "answer"]
    /\ Goto(p, "release")
    /\ UNCHANGED <<files, limiter, alive, agent, tries, client, abandoned, bounds>>

Fault(p, how) ==
    /\ At(p, {"request"})
    /\ faults < MaxFaults
    /\ faults' = faults + 1
    /\ outcome' = [outcome EXCEPT ![p] = how]
    /\ Goto(p, "release")
    /\ UNCHANGED <<files, limiter, alive, agent, tries, client, abandoned, calls, kills>>

\* The client gives up, and the provider may go on with the request for a while.
TimesOut(p, goesOn) ==
    /\ At(p, {"request"})
    /\ client[p] = 0
    /\ faults < MaxFaults
    /\ faults' = faults + 1
    /\ outcome' = [outcome EXCEPT ![p] = "timeout"]
    /\ abandoned' = IF goesOn THEN [l \in DOMAIN abandoned \cup {Id(p)} |->
                                       IF l = Id(p) THEN Hold ELSE abandoned[l]]
                    ELSE abandoned
    /\ Goto(p, "release")
    /\ UNCHANGED <<files, limiter, alive, agent, tries, client, calls, kills>>

Minus1(n) == IF n > 0 THEN n - 1 ELSE 0

\* Time passes, but not over a client that has to time out.
Tick ==
    /\ TotalTimeout => \A p \in Process : At(p, {"request"}) => client[p] > 0
    /\ leases' = [l \in DOMAIN leases |-> Minus1(leases[l])]
    /\ client' = [p \in Process |-> IF At(p, {"request"}) THEN Minus1(client[p]) ELSE client[p]]
    /\ abandoned' = [l \in {m \in DOMAIN abandoned : abandoned[m] > 1} |-> abandoned[l] - 1]
    /\ UNCHANGED <<files, waiters, alive, pc, agent, tries, outcome, bounds>>

Kill(p) ==
    /\ alive[p]
    /\ kills < MaxKills
    /\ kills' = kills + 1
    /\ alive' = [alive EXCEPT ![p] = FALSE]
    /\ Goto(p, "idle")
    /\ UNCHANGED <<files, limiter, agent, tries, outcome, client, abandoned, calls, faults>>

Advance(p) ==
    \/ Begin(p) \/ Open(p) \/ Beat(p) \/ Heartbeat(p)
    \/ Poll(p) \/ Answer(p) \/ Release(p)
    \/ WriteResult(p) \/ Record(p) \/ Close(p)

Next ==
    \/ \E p \in Process :
          \/ \E a \in Agent, step \in {"idle", "begin"} : Call(p, a, step)
          \/ Advance(p)
          \/ WaitFails(p)
          \/ \E how \in {"invalid", "transient", "error"} : Fault(p, how)
          \/ \E goesOn \in BOOLEAN : TimesOut(p, goesOn)
          \/ Kill(p)
    \/ Tick

Spec == Init /\ [][Next]_vars

\* A process goes on, a request is answered if nothing happens to it, and time passes.
FairSpec == Spec /\ WF_vars(Tick) /\ \A p \in Process : WF_vars(Advance(p))

-----------------------------------------------------------------------------
\* The requests the provider works on for processes that live.
UnderWay ==
    {Id(p) : p \in {q \in Process : At(q, {"request"})}}
        \cup {id \in DOMAIN abandoned : alive[id[1]]}

\* Retries of any number of processes never put more requests under way than the account
\* allows, those counted that a client gave up and the provider did not
\* (llm_inflight_slot: "prevents a retry storm from exceeding account limits").
RequestsBounded == Cardinality(UnderWay) <= MaxInflight

\* A process that lives is never the owner of an open transaction it does not work on,
\* which would have every later call of the agent refused, although ledgers are read and
\* written without a lock (ensure_no_active_live_llm_transaction).
OpenTransactionIsAtWork ==
    \A a \in Agent : Busy(a) => LET p == ledger[a].owner
                                IN  agent[p] = a /\ pc[p] \notin {"idle", "begin", "open"}

\* A call ends, whatever happens to the processes queued before it
\* (prune_limiter_state, remove_limiter_waiter).
CallEnds == \A p \in Process : pc[p] # "idle" ~> pc[p] = "idle" \/ ~alive[p]
=============================================================================
