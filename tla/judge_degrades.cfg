CONSTANTS
    Proc = {p1}
    Domain = {d1}
    Switch = {"on", "off"}
    JudgeRow = {FALSE}
    Files <- SomeFiles
    Profiles <- SomeProfiles
    SignalLists <- SomeSignals
    Verdicts <- SomeVerdicts
    Faults = FALSE
    MAX_BATCH_SIZE = 2
    MaxCalls = 1
    MaxIterations = 1
    MaxStarts = 2
SPECIFICATION Spec
INVARIANT DisabledJudgeDegrades
CHECK_DEADLOCK FALSE
