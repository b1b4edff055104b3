CONSTANTS
    t1 = t1
    t2 = t2
    d1 = d1
    Target <- OneTarget
    Domain <- OneDomain
    DomainOf <- MCDomainOf
    Profiles = {"fit", "unfit"}
    Reviewer = {r1}
    Sender = {s1}
    Drafter = {a1}
    Replier = {p1}
    SerialReviews = TRUE
    SerialSends = TRUE
    OneStage = TRUE
    Switching = TRUE
    MaxReviews = 1
    MaxRevisions = 0
    MaxGateRows = 1
    MaxRounds = 1
    MaxFollowUps = 0
    MaxReplies = 1
    MaxFiles = 2
SPECIFICATION FairSpec
PROPERTY DraftsEnd
PROPERTY SendsEnd
PROPERTY RepliesEnd
CHECK_DEADLOCK FALSE
