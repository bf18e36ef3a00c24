CONSTANTS
    Orders <- MCOrders
    UseTestCA <- MCUseTestCA
    MgrConfigs <- MCMgrConfigs
    DefaultCA <- LE
    DefaultTestCA <- LEStaging
    NoCA = NoCA
    NoOrder = NoOrder
    DNSProvider = FALSE
    DisableHTTP = FALSE
    DisableTLSALPN = FALSE
    Faults = TRUE
SPECIFICATION Spec
INVARIANT TypeOK
INVARIANT ChallengesTriedOnce
INVARIANT OneClientPerCA
PROPERTY OrderTerminates
CHECK_DEADLOCK FALSE
