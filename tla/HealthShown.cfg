SPECIFICATION FairSpec
CONSTANTS
    i1 = i1
    NoRow = NoRow
    NoRequest = NoRequest
    Installations <- OneInstallation
    Inactive = 1
    Keep = 4
    MaxGap = 2
    MaxDelay = 2
    MaxChanges = 3
    MaxFailures = 2
PROPERTY MarkedForSilence
PROPERTY DeadIsMarked
PROPERTY AliveIsShown
