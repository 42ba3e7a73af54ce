SPECIFICATION FairSpec
CONSTANTS
    r = r
    f = f
    g = g
    k = k
    l = l
    x = x
    Actions <- RestartAndReconfigure
    Types <- TypesOfAll
    Settings <- SettingsOfAll
    Lines <- LinesOfAll
    Malformed <- MalformedLines
    NoAction = NoAction
    CR = CR
    LF = LF
    Communication = 1
    Screendump = 2
    Debug = TRUE
    MaxStarts = 3
    MaxFaults = 1
INVARIANT OnePlayer
INVARIANT KnownPlayer
 
 
PROPERTY StatusIsTold
PROPERTY DumpsGoOn
CHECK_DEADLOCK FALSE
