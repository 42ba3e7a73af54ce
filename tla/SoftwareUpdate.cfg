SPECIFICATION FairSpec
CONSTANTS
    d1 = d1
    d2 = d2
    Designers <- TwoDesigners
    Versions <- FourVersions
    Text <- AsTexts
    Scripts = 3
    Needs <- KnownScripts
    Again <- Repeatable
    NoVersion = NoVersion
    Nobody = Nobody
    MaxFaults = 1
INVARIANTS ScriptsInOrder RunsOnItsSchema  
 
