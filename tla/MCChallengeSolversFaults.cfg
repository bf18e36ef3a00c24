CONSTANTS
    Instances <- MCInstances
    Challenges <- MCChallenges
    Domains <- MCDomains
    Addresses <- MCAddresses
    DomainOf <- MCDomainOf
    AddressOf <- MCAddressOf
    InstanceOf <- MCInstanceOf
    KindOf <- MCKindOf
    NoChallenge = NoChallenge
    PortStates = {"free", "other", "failing"}
    StoreFaults = TRUE
    DeleteFaults = TRUE
SPECIFICATION Spec
INVARIANT AlpnCertCachedWhilePresented
INVARIANT TokenStoredWhilePresented
CHECK_DEADLOCK FALSE
