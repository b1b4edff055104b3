CONSTANTS
    t1 = t1
    d1 = d1
    s1 = s1
    r2 = r2
    r1 = r1
    Target <- OneTarget
    Domain <- OneDomain
    DomainOf <- MCDomainOf
    Profiles = {"fit"}
    Reviewer = {r1, r2}
    Sender = {s1}
    SerialReviews = FALSE
    SerialSends = TRUE
    MaxReviews = 1
    MaxRevisions = 1
    MaxGateRows = 1
    Edits = {}
SPECIFICATION Spec
INVARIANT DecidedOnce
CHECK_DEADLOCK FALSE
