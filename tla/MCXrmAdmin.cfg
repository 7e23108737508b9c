SPECIFICATION AdminSpec
CONSTANTS
    c1 = c1
    c2 = c2
    k1 = k1
    x1 = x1
    x2 = x2
    Clients <- MCClients
    NoClient = NoClient
    NumChannels = 2
    MaxReserves = 2
    MaxLoad = 2
    MaxPool = 1
    Xclbins = {x1, x2}
    NoXclbin = NoXclbin
    NumCus = 1
    Kernels = {k1}
    NoKernel = NoKernel
    KernelOf <- OneCuOrNone
    MaxDevClients = 2
    NumDevices = 2
    LoadCommands <- MCLoadCommands
    DeviceCommands <- MCDeviceCommands
    Drivers <- MCDrivers
INVARIANTS
    RefCounted
    ExclusiveAlone
    RecycleOrderIrrelevant
    CompletedIsDone
    LoadAnyFinds
PROPERTIES
    RecycledCompletely
    UnloadEvictsNobody
SYMMETRY Symmetric
