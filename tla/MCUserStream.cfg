CONSTANTS
    a = a  main = main
    Run = {a}
    Loop = main
    MaxWaits = 2
    MaxItems = 0
    MaxFaults = 2
SPECIFICATION FairSpec
INVARIANTS SeenMeansClosed OneBadge
PROPERTIES ParkedIsAnnounced ClosedIsSeen 
