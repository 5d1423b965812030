SPECIFICATION FairSpec
CONSTANTS
    None = None
    Containers = {app}
    Retries = {0, 1}
    Base = 1
    Cap = 3
    Window = 2
    GPUFloor = 1
    MaxScheduled = 1
    MaxHandles = 1
    MaxLoop = 4
INVARIANTS
    CrashLoopSlows
    GPUCacheFresh
PROPERTIES
    SelfHeals
