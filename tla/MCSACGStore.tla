---------------------------- MODULE MCSACGStore ----------------------------
(* Instances of SACGStore for TLC.                                          *)
EXTENDS SACGStore, TLC

CONSTANTS a1, a2, c1, c2, t1, t2

MCSymmetry == Permutations(Artifact) \cup Permutations(Transition) \cup Permutations(Checker)

\* Argument lists: an empty one, and two that are equal after the cut to one item.
MCItemLists == {<<>>, <<a1>>, <<a1, a2>>}

\* The four classes of repair scopes; a stage that repairs nothing lists none.
AllScopeLists == {{}, {"auto_allowed"}, {"unlisted"}, {"forbidden", "auto_allowed"}}
NoScopes == {{}}

\* No request list at all, for the instances about promotion.
NoItemLists == {}
=============================================================================
