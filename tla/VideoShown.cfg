SPECIFICATION FairSpec
CONSTANTS
    Processes = {p1, p2, p3, p4, p5}
    None = None
    MaxScheduled = 1
    MaxFailures = 1
INVARIANTS TypeOK OneVideo  
PROPERTIES Resumes
CHECK_DEADLOCK FALSE
