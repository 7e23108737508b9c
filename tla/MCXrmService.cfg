SPECIFICATION ServiceSpec
CONSTANTS
    c1 = c1
    c2 = c2
    k1 = k1
    k2 = k2
    x1 = x1
    g1 = g1
    g2 = g2
    Clients <- MCClients
    NoClient = NoClient
    NumChannels = 2
    MaxReserves = 1
    MaxLoad = 2
    MaxPool = 1
    Xclbins = {x1}
    NoXclbin = NoXclbin
    NumCus = 2
    Kernels = {k1, k2}
    NoKernel = NoKernel
    KernelOf <- TwoKernels
    MaxDevClients = 2
    NumDevices = 1
    Lists <- MCLists
    ListsV2 <- MCListsV2
    Groups <- MCGroups
    Declarations <- MCGroups
    NoGroup = NoGroup
    MaxGroups = 2
    MaxService = 2
    MaxListCus = 2
    MaxListCusV2 = 2
INVARIANTS
    OneHandleEach
    QueryExact
PROPERTIES
    StaleStaysStale
    ReleaseIsOwn
    GroupsKept
SYMMETRY Symmetric
