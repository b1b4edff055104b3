CONSTANTS
    Conn = {c1}
    Target = {t1, t2, t3}
    Dialect = "sqlite"
    Template = 1
    Weeks = 1
    MaxCalls = 3
    MaxNow = 1
SPECIFICATION Spec
INVARIANT SharedOnlyByRace
CHECK_DEADLOCK FALSE
