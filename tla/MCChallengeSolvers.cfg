CONSTANTS
    Instances <- MCInstances
    Challenges <- MCChallenges
    Domains <- MCDomains
    Addresses <- MCAddresses
    DomainOf <- MCDomainOf
    AddressOf <- MCAddressOf
    InstanceOf <- MCInstanceOf
    KindOf <- MCKindOf
    NoChallenge = NoChallenge
    PortStates = {"free", "other"}
    StoreFaults = TRUE
    DeleteFaults = FALSE
SPECIFICATION Spec
INVARIANT TypeOK
INVARIANT RefCountAccurate
INVARIANT ListenerReleased
