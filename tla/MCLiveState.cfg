\* Three processes, two slots with two owners each, every call and every crash.
SPECIFICATION FairSpec
CONSTANTS
    Writer = {w1, w2, w3}
    Slot = {"board_run", "execution"}
    Binding = {b1, b2}
    Data = {d1}
    NoEntry = NoEntry
    NoCall = NoCall
    NoWriter = NoWriter
PROPERTY
    ImplementsLiveSlots
    EveryCallReturns
