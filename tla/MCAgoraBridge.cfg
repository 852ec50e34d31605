CONSTANTS
    r1 = r1
    r2 = r2
    c1 = c1
    Run = {r1, r2}
    Channel = {c1}
    Event <- MCEvent
    Emitter = {"bridge"}
    Cap = 1
    MaxSeq = 2
    MaxFaults = 2
SPECIFICATION FairSpec
INVARIANTS RepeatsAreFarApart InboxIsTheTail CursorBehindReceipt ChannelOrderKept OneResident
PROPERTIES MessageArrives EntryIsDrained
CHECK_DEADLOCK FALSE
