------------------------------ MODULE MCDebugLoop ------------------------------
EXTENDS DebugLoop

CONSTANT f1

MCPlans  == {{"agent", "backtrack"}, {"gates", "rerun"}}
MCEvents == {"edited", "overwritten", "board", "crash", "exception", "prepare", "regenerate"}
=============================================================================
