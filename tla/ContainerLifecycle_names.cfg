SPECIFICATION Spec
CONSTANTS
    None = None
    Containers = {app}
    App = app
    Retries = {0}
    Base = 1
    Cap = 1
    Window = 1
    GPUFloor = 1
    MaxScheduled = 1
    MaxRequests = 2
    MaxMishaps = 0
INVARIANTS
    StopsSerialised
