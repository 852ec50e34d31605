CONSTANTS
    MaxHops = 3
    Faults = {"crash", "cancel", "pause", "unload", "refuse", "raise"}
    MaxFaults = 3
SPECIFICATION FairSpec
INVARIANT NoParentStranded
PROPERTIES ResumedByOwnChild ParentGoesOn
CHECK_DEADLOCK FALSE
