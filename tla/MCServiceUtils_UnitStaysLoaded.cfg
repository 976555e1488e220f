CONSTANTS
    a = a
    b = b
    c = c
    Services = {a, b, c}
    Scripts <- BracketScripts
    UnloadedAfterStop = {TRUE, FALSE}
    StartResults = {"active"}
    DbusCanFail = FALSE

SPECIFICATION Spec


\* The caller's script ends: the handlers are then idle for good.
CHECK_DEADLOCK FALSE
INVARIANT ServicesRestored
