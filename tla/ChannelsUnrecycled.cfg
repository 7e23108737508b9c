SPECIFICATION PolicySpec
CONSTANTS
    c1 = c1
    c2 = c2
    k1 = k1
    x1 = x1
    Clients <- MCClients
    NoClient = NoClient
    NumChannels = 1
    MaxReserves = 1
    MaxLoad = 2
    MaxPool = 0
    Xclbins = {x1}
    NoXclbin = NoXclbin
    NumCus = 2
    Kernels = {k1}
    NoKernel = NoKernel
    KernelOf <- TwinCus
    MaxDevClients = 2
    NumDevices = 1
    MaxRef = 1
    MaxDrift = 2
PROPERTY ChannelsRecycled
