SPECIFICATION PolicySpec
CONSTANTS
    c1 = c1
    c2 = c2
    k1 = k1
    x1 = x1
    Clients <- MCClients
    NoClient = NoClient
    NumChannels = 1
    MaxReserves = 1
    MaxLoad = 3
    MaxPool = 1
    Xclbins = {x1}
    NoXclbin = NoXclbin
    NumCus = 1
    Kernels = {k1}
    NoKernel = NoKernel
    KernelOf <- OneCu
    MaxDevClients = 2
    NumDevices = 2
    MaxRef = 1
    MaxDrift = 1
INVARIANTS
    NeverOvercommitted
    CuPolicyKept
SYMMETRY Symmetric
