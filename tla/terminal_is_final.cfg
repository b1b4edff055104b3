CONSTANTS
    t1 = t1
    t2 = t2
    d1 = d1
    Target <- OneTarget
    Domain <- OneDomain
    DomainOf <- MCDomainOf
    Profiles = {"fit"}
    Reviewer = {r1}
    Sender = {s1}
    Drafter = {a1}
    Replier = {p1}
    SerialReviews = TRUE
    SerialSends = TRUE
    OneStage = TRUE
    Switching = FALSE
    MaxReviews = 2
    MaxRevisions = 3
    MaxGateRows = 2
    MaxRounds = 2
    MaxFollowUps = 1
    MaxReplies = 2
    MaxFiles = 1
SPECIFICATION Spec
VIEW Readable
PROPERTY TerminalIsFinal
CHECK_DEADLOCK FALSE
