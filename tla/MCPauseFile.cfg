CONSTANTS
    api = api  loop = loop  other = other
    Proc = {api, loop, other}
    Writer = {api, other}
    NoProc = NoProc
    MaxWrites = 2
    MayFail = TRUE
SPECIFICATION FairSpec
INVARIANTS FlagsAreRight ResumeIsHeard
PROPERTY FileReachesTicker
