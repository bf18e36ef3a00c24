CONSTANTS
    Names <- MCNames
    Workers <- MCWorkers
    NoName = NoName
    MaxConcurrentJobs = 2
    MaxQueue = 3
SPECIFICATION Spec
INVARIANT TypeOK
INVARIANT SingleFlight
INVARIANT NamesTracked
INVARIANT WorkerAccounting
PROPERTY JobServiceSpec
