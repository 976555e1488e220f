CONSTANTS
    NumGPUs = 2
    NonGPU = {}
    ComputeModes = {"SPX", "CPX"}
    MemoryModes = {"NPS1", "NPS2"}
    ProfileNames = {"p1", "p2"}
    ConfigMissing = ConfigMissing
    ConfigInvalid = ConfigInvalid
    Configs <- MCConfigsFixed
    DriverResults = {"ok"}
    LabelWriteCanFail = FALSE
    MaxEnvChanges = 2
    MaxSessions = 4
    MaxRestarts = 1

SPECIFICATION Spec

PROPERTY LabelEventuallyTruthful

CHECK_DEADLOCK FALSE
