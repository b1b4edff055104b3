CONSTANTS
    Conn = {c1}
    Target = {t1}
    Dialect = "sqlite"
    Template = 1
    Weeks = 1
    MaxCalls = 1
    MaxNow = 0
SPECIFICATION Spec
INVARIANT DisabledSchedulerDegrades
CHECK_DEADLOCK FALSE
