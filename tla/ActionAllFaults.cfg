SPECIFICATION Spec
CONSTANTS
    d1 = d1
    r1 = r1
    c1 = c1
    Actions <- JustDeploy
    Deploys <- JustDeploy
    Crcs <- OneCrc
    CrcOf <- CrcOfOne
    Continuation = Continuation
    StartPlayer = StartPlayer
    Slots = {s1, s2}
    Overlap = TRUE
    Faults <- FaultKinds
    MaxFaults = 1
INVARIANT VerdictJustified
 
