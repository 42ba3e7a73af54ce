SPECIFICATION Spec
CONSTANTS
    d1 = d1
    d2 = d2
    k1 = k1
    h1 = h1
    h2 = h2
    h3 = h3
    NoUrl = NoUrl
    Deployments <- TwoDeployments
    Resources <- OneResource
    ResourcesOf <- OfEach
    Sized <- OneResource
    Blocks = 2
    RetryLimit = 0
    Handlers <- ThreeHandlers
    MaxFiles = 2
    MaxDeploys = 2
    Faults <- FaultKinds
    MaxFaults = 1
SYMMETRY Symmetry
INVARIANT PlayableUnlessRaced
 
