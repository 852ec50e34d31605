CONSTANTS
    a = a  b = b  
    Run = {a}
    StaleId = {gone}
    MaxTime = 1
    DirectLimit = 1
    IdleInterval = 1
    MaxFaults = 2
SPECIFICATION FairSpec
PROPERTY RunnableIsTicked
