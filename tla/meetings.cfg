CONSTANTS
    Conn = {c1, c2}
    Target = {t1, t2, t3}
    Dialect = "postgres"
    Template = 1
    Weeks = 1
    MaxCalls = 3
    MaxNow = 1
SPECIFICATION Spec
SYMMETRY BookingSymmetry
INVARIANT TypeOK
INVARIANT DisableSurvivesSeeding
INVARIANT DisableStopsWrites
INVARIANT OffersAgree
INVARIANT OfferIsReserved
INVARIANT SharedSlotsExplained
INVARIANT Inv
PROPERTY KeepsLedger
CHECK_DEADLOCK FALSE
