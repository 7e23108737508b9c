SPECIFICATION Spec
CONSTANTS
    c1 = c1
    c2 = c2
    k1 = k1
    k2 = k2
    x1 = x1
    Clients <- MCClients
    NoClient = NoClient
    NumChannels = 2
    MaxReserves = 1
    MaxLoad = 2
    MaxPool = 1
    Xclbins = {x1}
    NoXclbin = NoXclbin
    NumCus = 1
    Kernels = {k1}
    NoKernel = NoKernel
    KernelOf <- OneCu
    MaxDevClients = 2
    NumDevices = 1
PROPERTY
    ResetUnloads
