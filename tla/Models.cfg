SPECIFICATION FairSpec
CONSTANTS
    Models <- MCModels
    c1 = c1
    c2 = c2
    Flows = {c1, c2}
    MaxFaults = 3
CHECK_DEADLOCK FALSE

    
PROPERTY
    ProvisionedAtLast
