CONSTANTS
    MaxGPUs = 3
    ComputeNames = {"SPX", "XPX"}
    MemoryNames = {"NPS1", "NPS4", "NPSX"}
    MaxCount = 2

SPECIFICATION Spec

INVARIANT NoPanic
CHECK_DEADLOCK FALSE
