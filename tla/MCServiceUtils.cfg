CONSTANTS
    a = a
    b = b
    c = c
    Services = {a, b, c}
    Scripts <- BracketScripts
    UnloadedAfterStop = {TRUE}
    StartResults = {"active"}
    DbusCanFail = FALSE

SPECIFICATION Spec

INVARIANT ServicesRestored

\* The caller's script ends: the handlers are then idle for good.
CHECK_DEADLOCK FALSE
