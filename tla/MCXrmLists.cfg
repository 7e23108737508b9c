SPECIFICATION GroupSpec
CONSTANTS
    c1 = c1
    c2 = c2
    k1 = k1
    k2 = k2
    x1 = x1
    g1 = g1
    Clients <- MCClients
    NoClient = NoClient
    NumChannels = 2
    MaxReserves = 1
    MaxLoad = 2
    MaxPool = 1
    Xclbins = {x1}
    NoXclbin = NoXclbin
    NumCus = 2
    Kernels = {k1, k2}
    NoKernel = NoKernel
    KernelOf <- TwoKernels
    MaxDevClients = 2
    NumDevices = 2
    Lists <- MCLists
    ListsV2 <- MCListsV2
    Groups <- MCGroups
INVARIANTS
    ListAllOrNothing
    ListPlaced
    ChecksLeaveNoTrace
    AvailableNumRight
    GroupTakesFirst
    GrantableExists
SYMMETRY Symmetric
