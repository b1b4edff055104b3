CONSTANTS
    t1 = t1
    d1 = d1
    s1 = s1
    r2 = r2
    r1 = r1
    Target <- OneTarget
    Domain <- OneDomain
    DomainOf <- MCDomainOf
    Profiles = {"fit"}
    Reviewer = {r1, r2}
    Sender = {s1}
    SerialReviews = FALSE
    SerialSends = FALSE
    MaxReviews = 1
    MaxRevisions = 2
    MaxGateRows = 1
    Edits = {}
SPECIFICATION MonitorSpec
VIEW ReadableAndWatched
SYMMETRY ThreadSymmetry
INVARIANT TypeOK
INVARIANT ApprovedWasDecided
INVARIANT AllowanceWasEarned
INVARIANT SentHasEvidence
CHECK_DEADLOCK FALSE
