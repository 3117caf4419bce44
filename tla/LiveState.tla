------------------------------ MODULE LiveState ------------------------------
(***************************************************************************)
(* live_state.json, the one status file the controller, the agent, the     *)
(* board runner and the replay bookkeeping of a run write into.            *)
(*                                                                         *)
(*   src/accagent/framework/live_state.py    lock, read, replace, slots    *)
(*   src/accagent/framework/fast_replay.py   the "execution" slot          *)
(*                                                                         *)
(* A call opens the lock file, waits for flock, reads the whole state,     *)
(* changes its copy, writes a temporary file, renames it over the state    *)
(* and unlocks.  A process may die at any step; the system then drops its  *)
(* flock, and a temporary file it leaves behind is never read.  The status *)
(* texts and the time stamps are left out.                                 *)
(***************************************************************************)
EXTENDS Naturals

CONSTANTS
    Writer,         \* processes that report their status
    Slot,           \* the slots in use
    Binding,        \* owners of a slot
    Data,           \* status values
    NoEntry,        \* an empty slot
    NoCall,         \* a writer outside of any call
    NoWriter        \* nobody holds the lock

ASSUME LiveStateAssumption ==
    /\ "execution" \in Slot
    /\ NoWriter \notin Writer
    /\ NoEntry \notin [binding : Binding, data : Data]
    /\ NoCall \notin [kind : {"activate", "update"}, slot : Slot,
                      binding : Binding, data : Data]

VARIABLES
    file,       \* live_state.json, always a whole one
    lock,       \* who holds live_state.json.lock
    pc,         \* of each writer: where it is in its call
    call,       \* of each writer: the call
    copy        \* of each writer: the state it is about to rename into place

vars == <<file, lock, pc, call, copy>>

Entry == [binding : Binding, data : Data]
Calls == [kind : {"activate", "update"}, slot : Slot, binding : Binding, data : Data]
State == [Slot -> Entry \cup {NoEntry}]
Empty == [s \in Slot |-> NoEntry]

TypeOK ==
    /\ file \in State
    /\ lock \in Writer \cup {NoWriter}
    /\ pc \in [Writer -> {"idle", "peek", "lock", "read", "replace", "unlock"}]
    /\ call \in [Writer -> Calls \cup {NoCall}]
    /\ copy \in [Writer -> State]

Init ==
    /\ file = Empty
    /\ lock = NoWriter
    /\ pc = [w \in Writer |-> "idle"]
    /\ call = [w \in Writer |-> NoCall]
    /\ copy = [w \in Writer |-> Empty]

Owns(entry, b) == entry # NoEntry /\ entry.binding = b

\* activate_live_state_slot takes the slot over, update_live_state_slot refuses another
\* owner and then writes the state back as it was.
After(s, c) ==
    IF c.kind = "activate" \/ Owns(s[c.slot], c.binding)
    THEN [s EXCEPT ![c.slot] = [binding |-> c.binding, data |-> c.data]]
    ELSE s

-----------------------------------------------------------------------------
\* A launch path activates a slot, a later report updates it.
Begin(w, c) ==
    /\ pc[w] = "idle"
    /\ call' = [call EXCEPT ![w] = c]
    /\ pc' = [pc EXCEPT ![w] = "lock"]
    /\ UNCHANGED <<file, lock, copy>>

\* update_fast_replay_state reports in the execution slot: it looks at the owner without
\* the lock, and then updates its own slot or takes over another's.
BeginObserve(w, b, d) ==
    /\ pc[w] = "idle"
    /\ call' = [call EXCEPT ![w] = [kind |-> "update", slot |-> "execution",
                                    binding |-> b, data |-> d]]
    /\ pc' = [pc EXCEPT ![w] = "peek"]
    /\ UNCHANGED <<file, lock, copy>>

Peek(w) ==
    /\ pc[w] = "peek"
    /\ pc' = [pc EXCEPT ![w] = "lock"]
    /\ call' = [call EXCEPT ![w].kind =
                    IF Owns(file["execution"], call[w].binding) THEN "update" ELSE "activate"]
    /\ UNCHANGED <<file, lock, copy>>

\* Mutant: the state is read and replaced without the lock.
LockAnyway(w) ==
    /\ pc[w] = "lock"
    /\ lock' = w
    /\ pc' = [pc EXCEPT ![w] = "read"]
    /\ UNCHANGED <<file, call, copy>>

Lock(w) ==
    /\ pc[w] = "lock"
    /\ lock = NoWriter
    /\ lock' = w
    /\ pc' = [pc EXCEPT ![w] = "read"]
    /\ UNCHANGED <<file, call, copy>>

Read(w) ==
    /\ pc[w] = "read"
    /\ copy' = [copy EXCEPT ![w] = After(file, call[w])]
    /\ pc' = [pc EXCEPT ![w] = "replace"]
    /\ UNCHANGED <<file, lock, call>>

Replace(w) ==
    /\ pc[w] = "replace"
    /\ file' = copy[w]
    /\ pc' = [pc EXCEPT ![w] = "unlock"]
    /\ UNCHANGED <<lock, call, copy>>

Unlock(w) ==
    /\ pc[w] = "unlock"
    /\ lock' = NoWriter
    /\ pc' = [pc EXCEPT ![w] = "idle"]
    /\ call' = [call EXCEPT ![w] = NoCall]
    /\ copy' = [copy EXCEPT ![w] = Empty]
    /\ UNCHANGED file

\* Mutant: the lock is a file that outlives its owner.
CrashWithLock(w) ==
    /\ pc[w] # "idle"
    /\ pc' = [pc EXCEPT ![w] = "idle"]
    /\ call' = [call EXCEPT ![w] = NoCall]
    /\ copy' = [copy EXCEPT ![w] = Empty]
    /\ UNCHANGED <<file, lock>>

\* The process dies in a call; flock goes with it.
Crash(w) ==
    /\ pc[w] # "idle"
    /\ lock' = IF lock = w THEN NoWriter ELSE lock
    /\ pc' = [pc EXCEPT ![w] = "idle"]
    /\ call' = [call EXCEPT ![w] = NoCall]
    /\ copy' = [copy EXCEPT ![w] = Empty]
    /\ UNCHANGED file

Step(w) == Peek(w) \/ Lock(w) \/ Read(w) \/ Replace(w) \/ Unlock(w)

Start(w) ==
    \/ \E c \in Calls : Begin(w, c)
    \/ \E b \in Binding, d \in Data : BeginObserve(w, b, d)

Next == \E w \in Writer : Start(w) \/ Step(w) \/ Crash(w)

Spec == Init /\ [][Next]_vars

\* A writer that is not killed goes on, and flock does not pass a waiting writer over
\* for ever.
FairSpec ==
    /\ Spec
    /\ \A w \in Writer : WF_vars(Step(w)) /\ SF_vars(Lock(w))

-----------------------------------------------------------------------------
(* What the file promises.                                                 *)

\* Between the lock and its release a writer is the holder, and what it is about to
\* rename into place differs from the file by its own call only.
HolderIsCurrent ==
    \A w \in Writer :
        /\ lock = w <=> pc[w] \in {"read", "replace", "unlock"}
        /\ pc[w] = "replace" => copy[w] = After(file, call[w])
        /\ pc[w] = "idle" <=> call[w] = NoCall

\* The implemented promise: every call takes effect at once, on its own slot.  The
\* instant is the rename; a call that only looks at its slot has not begun.
Abstract == INSTANCE LiveSlots WITH
    slots <- file,
    call <- [w \in Writer |-> IF pc[w] = "peek" THEN NoCall ELSE call[w]],
    taken <- {w \in Writer : pc[w] = "unlock"}

ImplementsLiveSlots == Abstract!Spec

\* No writer waits for the file for ever: a holder that dies frees it.
EveryCallReturns == \A w \in Writer : pc[w] # "idle" ~> pc[w] = "idle"
=============================================================================
