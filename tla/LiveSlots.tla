------------------------------ MODULE LiveSlots ------------------------------
(***************************************************************************)
(* What the live-status file promises the processes that share it: every   *)
(* call takes effect at one instant, touches its own slot only, and an     *)
(* update whose binding is not the binding of the slot changes nothing.    *)
(* The file, the lock and the temporary files are those of LiveState.      *)
(***************************************************************************)
CONSTANTS
    Writer,     \* processes that report their status
    Slot,       \* "controller", "board_run", "execution", ...
    Binding,    \* owners of a slot: a process, a job, a model
    Data,       \* status values
    NoEntry,    \* an empty slot
    NoCall      \* a writer outside of any call

VARIABLES
    slots,      \* slot |-> entry
    call,       \* writer |-> the call it is in
    taken       \* the writers whose call took effect

slotVars == <<slots, call, taken>>

Entry == [binding : Binding, data : Data]

Calls == [kind : {"activate", "update"}, slot : Slot, binding : Binding, data : Data]

\* The binding of an entry; an empty slot has none.
Owns(entry, b) == entry # NoEntry /\ entry.binding = b

\* The slots after call c: an activation replaces the owner, an update needs to be it.
After(s, c) ==
    IF c.kind = "activate" \/ Owns(s[c.slot], c.binding)
    THEN [s EXCEPT ![c.slot] = [binding |-> c.binding, data |-> c.data]]
    ELSE s

Init ==
    /\ slots = [s \in Slot |-> NoEntry]
    /\ call = [w \in Writer |-> NoCall]
    /\ taken = {}

Begin(w, c) ==
    /\ call[w] = NoCall
    /\ call' = [call EXCEPT ![w] = c]
    /\ UNCHANGED <<slots, taken>>

TakeEffect(w) ==
    /\ call[w] # NoCall
    /\ w \notin taken
    /\ slots' = After(slots, call[w])
    /\ taken' = taken \cup {w}
    /\ UNCHANGED call

\* A call ends when it has taken effect, or when its process dies.
End(w) ==
    /\ call[w] # NoCall
    /\ call' = [call EXCEPT ![w] = NoCall]
    /\ taken' = taken \ {w}
    /\ UNCHANGED slots

Next == \E w \in Writer : (\E c \in Calls : Begin(w, c)) \/ TakeEffect(w) \/ End(w)

Spec == Init /\ [][Next]_slotVars
=============================================================================
