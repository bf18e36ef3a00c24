CONSTANTS
    Instances <- MCInstances
    Challenges <- MCChallenges
    Domains <- MCDomains
    Addresses <- MCAddresses
    DomainOf <- MCDomainOf
    AddressOf <- MCAddressOf
    InstanceOf <- MCInstanceOf
    KindOf <- MCKindOf
    NoChallenge = NoChallenge
    PortStates = {"free", "other", "failing"}
    StoreFaults = FALSE
    DeleteFaults = FALSE
SPECIFICATION Spec
INVARIANT ListenerReleased
