SPECIFICATION FairSpec
CONSTANTS
    d1 = d1
    d2 = d2
    d3 = d3
    a = a
    b = b
    c = c
    e = e
    g = g
    h = h
    v1 = v1
    v2 = v2
    t = t
    NoDeployment = NoDeployment
    NoLayout = NoLayout
    Deployments <- AllDeployments
    Layouts <- AllLayouts
    Names <- AllNames
    Contents <- AllContents
    NameOf <- NamesOf
    Cron <- CronLayouts
    Timed <- TimedLayouts
    Broken <- BrokenLayouts
    Components <- AllComponents
    Caring <- Videos
    Regions <- AllRegions
    MaxLoads = 2
    MaxFires = 1
PROPERTY NeverBack
PROPERTY NothingPending
PROPERTY NewestPlays
 
PROPERTY EveryLayoutPlays
PROPERTY EndsForCause
