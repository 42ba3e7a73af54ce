SPECIFICATION FairSpec
CONSTANTS
    d1 = d1
    r1 = r1
    c1 = c1
    Actions <- DeployAndRestart
    Deploys <- JustDeploy
    Crcs <- OneCrc
    CrcOf <- CrcOfOne
    Continuation = Continuation
    StartPlayer = StartPlayer
    Slots = {s1}
    Overlap = FALSE
    Faults <- NoFlushFaults
    MaxFaults = 2
INVARIANT NoForgottenResult
PROPERTY Settles
PROPERTY LifecycleSpec
