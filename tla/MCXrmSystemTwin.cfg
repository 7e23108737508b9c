SPECIFICATION Spec
CONSTANTS
    c1 = c1
    c2 = c2
    k1 = k1
    k2 = k2
    x1 = x1
    Clients <- MCClients
    NoClient = NoClient
    NumChannels = 2
    MaxReserves = 1
    MaxLoad = 2
    MaxPool = 2
    Xclbins = {x1}
    NoXclbin = NoXclbin
    NumCus = 2
    Kernels = {k1}
    NoKernel = NoKernel
    KernelOf <- TwinCus
    MaxDevClients = 2
    NumDevices = 1
INVARIANTS
    IInv
    LoadsBalanced
PROPERTIES
    ImplementsLedger
SYMMETRY Symmetric
