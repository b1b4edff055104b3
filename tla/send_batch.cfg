CONSTANTS
    t1 = t1
    d1 = d1
    s1 = s1
    r1 = r1
    Target <- OneTarget
    Domain <- OneDomain
    DomainOf <- MCDomainOf
    Profiles = {"fit", "unfit", "no_contact"}
    Reviewer = {r1}
    Sender = {s1}
    SerialReviews = TRUE
    SerialSends = TRUE
    MaxReviews = 2
    MaxRevisions = 2
    MaxGateRows = 2
    Edits = {"switch", "email", "domain"}
SPECIFICATION MonitorSpec
VIEW ReadableAndWatched
INVARIANT SoloInv
INVARIANT Inv
INVARIANT SentTextWasVerified
INVARIANT DecidedOnce
INVARIANT BlocksStopSends
INVARIANT DuplicatesNeedACut
PROPERTY TruthfulMoves
PROPERTY CrashRowTellsState
PROPERTY KeepsPromise
CHECK_DEADLOCK FALSE
