CONSTANTS
    p1 = p1  p2 = p2
    runCmd = runCmd  autoCmd = autoCmd  reviseCmd = reviseCmd  answerCmd = answerCmd
    NoProc = NoProc
    Proc = {p1, p2}
    Client = {runCmd, autoCmd, reviseCmd}
    Automation = {autoCmd, reviseCmd}
    Revise = {reviseCmd}
    Answer <- AnswerOf
    BatchLimit = 2
    Faults = {"crash", "yield", "linger", "save", "record", "append"}
    MaxFaults = 2
SPECIFICATION FairSpec
INVARIANTS NoneSkipped PassedIsAnswered
PROPERTIES CursorNeverRegresses ImplementsLog EveryCommandSettled
