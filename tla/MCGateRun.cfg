CONSTANTS
    leaf = leaf
    layer = layer
    discovery = discovery
    simulation = simulation
    Gate = {leaf, layer, discovery, simulation}
    Rank <- MCRank
    Deps <- MCDeps
    Helpers <- MCHelpers
    LastLevel = 2
    Stop <- MCStop
    Required <- MCRequired
    Identity = discovery
    Silent = {layer}
    MaxDesign = 2
    MaxKills = 1
SPECIFICATION Spec
INVARIANTS
    PassIsProved
    CertificateIsProved
    CertificateBindsItsReports
    FailureHasACause
PROPERTY LowerGatesFirst
CHECK_DEADLOCK FALSE
