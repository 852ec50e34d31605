CONSTANTS
    a = a  main = main
    Run = {}
    Loop = main
    MaxWaits = 0
    MaxItems = 3
    MaxFaults = 3
SPECIFICATION FairSpec
PROPERTY ItemArrives
