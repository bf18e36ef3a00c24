CONSTANTS
    Orders <- MCOrders
    UseTestCA <- MCSharedUseTestCA
    MgrConfigs <- MCSharedMgrConfigs
    DefaultCA <- LE
    DefaultTestCA <- LEStaging
    NoCA = NoCA
    NoOrder = NoOrder
    DNSProvider = FALSE
    DisableHTTP = FALSE
    DisableTLSALPN = FALSE
    Faults = FALSE
SPECIFICATION Spec
CHECK_DEADLOCK FALSE
INVARIANT OwnSolverUsed
