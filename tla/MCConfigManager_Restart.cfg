CONSTANTS
    NumGPUs = 2
    NonGPU = {}
    ComputeModes = {"SPX", "CPX"}
    MemoryModes = {"NPS1", "NPS2"}
    ProfileNames = {"p1", "p2"}
    ConfigMissing = ConfigMissing
    ConfigInvalid = ConfigInvalid
    Configs <- MCConfigs
    DriverResults = {"ok", "fail"}
    LabelWriteCanFail = FALSE
    MaxEnvChanges = 1
    MaxSessions = 3
    MaxRestarts = 1

SPECIFICATION Spec


CHECK_DEADLOCK FALSE
INVARIANT SuccessLabelMeansApplied
INVARIANT EventAgreesWithLabel
