SPECIFICATION Spec
CONSTANTS
    d1 = d1
    r1 = r1
    c1 = c1
    Actions <- DeployAndRestart
    Deploys <- JustDeploy
    Crcs <- OneCrc
    CrcOf <- CrcOfOne
    Continuation = Continuation
    StartPlayer = StartPlayer
    Slots = {s1}
    Overlap = FALSE
    Faults <- CrashOnly
    MaxFaults = 1
INVARIANT TasksSurviveRestart
