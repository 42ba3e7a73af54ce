SPECIFICATION Spec
CONSTANTS
    l1 = l1
    l2 = l2
    l3 = l3
    r1 = r1
    r2 = r2
    Dep = Dep
    Nil = Nil
    Layouts <- ThreeLayouts
    Regions <- TwoRegions
    Opened <- TwoOpened
    OpenedIn <- OneRegionEach
    MaxCommands = 2
INVARIANT TabsFollowLayouts
INVARIANT DirtyTabShows
INVARIANT ListedOnce
 
