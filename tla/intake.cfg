CONSTANTS
    Proc = {p1, p2}
    Domain = {d1}
    Switch = {"on", "off"}
    JudgeRow = {TRUE, FALSE}
    Files <- SomeFiles
    Profiles <- SomeProfiles
    SignalLists <- SomeSignals
    Verdicts <- SomeVerdicts
    Faults = TRUE
    MAX_BATCH_SIZE = 2
    MaxCalls = 1
    MaxIterations = 1
    MaxStarts = 2
SPECIFICATION Spec
SYMMETRY IntakeSymmetry
INVARIANT TypeOK
INVARIANT AllowedScoreClears
INVARIANT RoutedByFinalLabel
INVARIANT EvidenceIsStored
INVARIANT NoCompanyIsLost
INVARIANT ReportsAreTrue
INVARIANT Inv
PROPERTY SettledStaysSettled
PROPERTY CompleteOrCut
CHECK_DEADLOCK FALSE
