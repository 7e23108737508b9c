SPECIFICATION PoolSpec
CONSTANTS
    c1 = c1
    c2 = c2
    k1 = k1
    k2 = k2
    x1 = x1
    Clients <- MCClients
    NoClient = NoClient
    NumChannels = 1
    MaxReserves = 2
    MaxLoad = 2
    MaxPool = 2
    Xclbins = {x1}
    NoXclbin = NoXclbin
    NumCus = 2
    Kernels = {k1, k2}
    NoKernel = NoKernel
    KernelOf <- TwoKernels
    MaxDevClients = 2
    NumDevices = 2
    MaxAnswer = 3
    Lists <- MCLists
    ListsV2 <- MCListsV2
    Pools <- MCPools
    PoolsV2 <- MCPoolsV2
INVARIANTS
    PoolAllOrNothing
    PoolV2Complete
    ReservedForPoolAlone
    PoolChecksLeaveNoTrace
    LoadsBalanced
PROPERTIES
    PoolAnswerKept
SYMMETRY Symmetric
