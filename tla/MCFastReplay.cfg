\* Two models and every event: crashes of the runner or of both, failing transfers,
\* compiles, captures and restores, and boards that are replaced and come back.
SPECIFICATION FairSpec
CONSTANTS
    Model = {m1, m2}
    NoModel = NoModel
    Events = {"crash", "transfer", "compile", "replace", "capture", "restore"}
    MaxEvents = 4
    MaxCount = 3
CHECK_DEADLOCK FALSE
INVARIANT
    ReadySnapshotWasRestored
    RestoreIsOfTheBoard
    ReuseCountsRestores
PROPERTY
    SnapshotGetsReady
