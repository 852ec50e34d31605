CONSTANTS
    a = a  b = b
    Run = {a, b}
    StaleId = {}
    MaxTime = 1
    DirectLimit = 1
    IdleInterval = 1
    MaxFaults = 1
SPECIFICATION Spec
SYMMETRY RunSymmetry
INVARIANTS NoRunForgotten NoDeadlineSleptThrough
