SPECIFICATION DaemonSpec
CONSTANTS
    a = a
    b = b
    p1 = p1
    p2 = p2
    lib1 = lib1
    lib2 = lib2
    lib3 = lib3
    Conns <- TwoConns
    Limit = 1
    Units = 1
    DevicesFail = TRUE
    Plugins <- MCPlugins
    NoPlugin = NoPlugin
    MaxPlugins = 2
    LoadBatches <- MCLoadBatches
    UnloadBatches <- MCUnloadBatches
INVARIANTS
    IInv
    HoldersConnected
    IdsUnique
PROPERTIES
    BrokenRecycled
    Answered
    ImplementsSessions
    BlockedByLiving
    PluginsKept
CHECK_DEADLOCK FALSE
