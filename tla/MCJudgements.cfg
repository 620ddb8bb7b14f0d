CONSTANTS
    Observations <- MCObservations
    Policies <- MCPolicies
    Contents <- MCContents
    Leaks <- MCLeaks
    Tools <- MCTools
    Events <- MCEvents
    Detections <- MCDetections
    MaxAdditions = 3
    pci_dss = pci_dss
    custom1 = custom1
    custom2 = custom2
    t1 = t1
    t2 = t2
    Rulesets = {pci_dss, custom1, custom2}
    Types = {t1, t2}
    Severities = {1, 4}
    Confidences = {1, 2}
    Priority <- OneListed
    MaxActive = 3
    MaxHits = 2
SPECIFICATION JudgementsSpec
SYMMETRY MCSymmetry
INVARIANTS
    TopActionApplied
PROPERTIES
    WorseNeverLooksBetter
    WorseStillNeedsCase
    WorseNeverMilder
    OnlyReviewSoftensBlock
CHECK_DEADLOCK FALSE
