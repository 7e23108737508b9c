SPECIFICATION LoadAllocSpec
CONSTANTS
    c1 = c1
    c2 = c2
    k1 = k1
    x1 = x1
    x2 = x2
    Clients <- MCClients
    NoClient = NoClient
    NumChannels = 2
    MaxReserves = 1
    MaxLoad = 3
    MaxPool = 0
    Xclbins = {x1, x2}
    NoXclbin = NoXclbin
    NumCus = 2
    Kernels = {k1}
    NoKernel = NoKernel
    KernelOf <- TwoXclbins
    MaxDevClients = 2
    NumDevices = 2
    MaxListCus = 2
    MaxRef = 1
    MaxBusy = 3
    Drivers <- MCDrivers
INVARIANTS
    LeastUsedKept
    ExclusiveOwned
PROPERTIES
    LoadEvictsNobody
SYMMETRY Symmetric
