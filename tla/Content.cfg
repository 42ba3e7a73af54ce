SPECIFICATION FairSpec
CONSTANTS
    d1 = d1
    d2 = d2
    k1 = k1
    h1 = h1
    h2 = h2
    h3 = h3
    NoUrl = NoUrl
    Deployments <- OneDeployment
    Resources <- OneResource
    ResourcesOf <- OfOne
    Sized <- OneResource
    Blocks = 2
    RetryLimit = 1
    Handlers <- TwoHandlers
    MaxFiles = 4
    MaxDeploys = 1
    Faults <- FaultKinds
    MaxFaults = 1
INVARIANT PlayableUnlessRaced
INVARIANT OneHandlerPerRow
 
PROPERTY LoadedIsReported
