\* Two schemas and up to three faults, with a rival.
CONSTANTS
    feedback = feedback
    delegate = delegate
    Order <- MCOrder
    Deployer = Deployer
    Rival = Rival
    Nobody = Nobody
    MaxRuns = 7
    MaxFaults = 3
SPECIFICATION FairSpec
CHECK_DEADLOCK FALSE
INVARIANTS
    TypeOK
    
    NothingUnderRival
PROPERTIES
    Completes
