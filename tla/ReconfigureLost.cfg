SPECIFICATION Spec
CONSTANTS
    r = r
    f = f
    g = g
    k = k
    l = l
    x = x
    Actions <- TwoReconfigurations
    Types <- TypesOfAll
    Settings <- SettingsOfAll
    Lines <- LinesOfAll
    Malformed <- MalformedLines
    NoAction = NoAction
    CR = CR
    LF = LF
    Communication = 1
    Screendump = 2
    Debug = TRUE
    MaxStarts = 1
    MaxFaults = 0
INVARIANT OKReaches
