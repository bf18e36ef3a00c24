CONSTANTS
    Instances <- MCInstances
    Challenges <- MCChallenges
    Domains <- MCDomains
    Addresses <- MCAddresses
    DomainOf <- MCDomainOf
    AddressOf <- MCAddressOf
    InstanceOf <- MCInstanceOf
    KindOf <- MCKindOf
    NoChallenge = NoChallenge
    PortStates = {"free", "other"}
    StoreFaults = FALSE
    DeleteFaults = TRUE
SPECIFICATION Spec
INVARIANT ListenerReleased
