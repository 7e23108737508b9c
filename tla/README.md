# XRM: TLA+ specifications and proofs

XRM (Xilinx resource manager) is a daemon that owns the compute units (CUs) of the FPGA devices of a host.
Applications connect to it over TCP, through the client library, and allocate channels of CUs, reserve load in pools,
release and relinquish; administrators load, unload, enable and disable devices. The daemon notices when an
application is gone and takes back what it held. This directory specifies those parts in TLA+, model-checks them with
TLC on small instances and proves the main invariants with TLAPS for every instance.

Paths below are relative to the repository: the daemon is `src/daemon/`, the library `src/lib/xrm.cpp`.
Numbers such as S:4657 are lines of `src/daemon/xrm_system.cpp`.

## 1. The system

| Component | State | Operations | Modelled in |
|---|---|---|---|
| CU bookkeeping (`cuData`) | channels, `numChanInuse`, `clients[]`, `reserves[]`, `totalUsedLoadUnified`, `totalReservedLoadUnified` | `allocChanClientFromCu`, `resReleaseCu`, `reserveLoadFromCu`, `resRelinquishCuList`, `releaseAllCuChanClientOnDev`, first loop of `recycleResource` | `XrmCu` |
| Device use (`deviceData`) | `isLoaded` and xclbin, `isExcl`, `isDisabled`, handle, `clientProcs[]` | `allocClientFromDev`, `releaseClientOnDev`, `getNextFreeDevForClient`, `deviceClearInfo`, `deviceLoadXclbin`, `recycleResource` | `XrmDevice` |
| Resource manager | `m_devList` | `resAllocCu`, `resAllocCuFromDev`, `resReleaseCu`, `recycleResource` | `XrmSystem` |
| Reservation pools | `m_reservePoolId` and the reserves of the CUs | `resReserveCuPool(V2)`, `resReserveCuList(V2)`, `resReserveDevice`, `resReserveCuOfXclbin`, `resReserveCu`, `resRelinquishCuPool` | `XrmSystem`, `XrmPools` |
| Device administration | `m_devList` | load, load any, unload, enable, disable; `resetDevice` from the reset worker of `xrm_main.cpp`; the commands for several devices | `XrmSystem`, `XrmAdmin` |
| Contexts and sessions | `m_clientId` of system and session, `m_numConcurrentClient`, sockets, pending request and response | `xrmCreateContext`, `xrmDestroyContext`, `xrmJsonRequest`; `session::doRead`, `handleCmd`, `doWrite` | `XrmSessions` |
| Load-policy allocation | `devLoadInfo` | `resAllocCuV2`, `resAllocCuByDevLoad`, `resAllocCuByCuLoad`, `resAllocCuFromDevByCuLoad` | `XrmPolicy` |
| Load-and-allocate | none of its own | `resAllocLeastUsedCuFromDev`, `resAllocCuWithLoad`, `resAllocCuLeastUsedWithLoad`, `resLoadAndAllocAllCu` | `XrmLoadAlloc` |
| Lists of CUs | none of their own | `resAllocCuList(V2)`, `resReleaseCuList(V2)` | `XrmLists` |
| Existence and availability | none of their own | `resIsCu*Existing`, the `checkCu*AvailableNum` commands | `XrmAvailability`, `XrmPools` |
| User-defined CU groups | `m_udfCuGroups` | declare, undeclare, `resAllocCuGroup` | `XrmGroupTable`, `XrmGroups` |
| Allocation handles | `m_allocServiceId`, `allocServiceId` of each channel | the mark of every allocation, `resReleaseCu` and the release of lists by it, `resAllocationQuery` | `XrmService` |
| Blocking allocation | none | `xrmCu*BlockingAlloc`: retry an allocation from outside the lock | `XrmBlocking` |
| Plugins | `m_xrmPluginList` | load, unload, execute by name | `XrmPlugins` |
| Queries, listing | none of their own | `resAllocationQuery`, `resReservationQuery`, `checkCuStat`, `listDevice` (opens handles) | `XrmService`, `XrmPools`, `XrmAdmin`; `checkCuStat`, `getCuMaxCapacity` and the text of the list are not modelled |
| xclbin parsing, driver access | none | data conversion; success or failure appears as a choice | not modelled |
| Command registry, request decoding | none | one command per request | not modelled |

**How they interact.** One thread runs the `io_service`: it accepts connections, reads one request of a session, runs
its command, and writes the response. Every command but one takes `m_lock` (`enterLock` .. `exitLock`) around its calls of
`xrm::system` and never waits while holding it; `execXrmPluginFunc` takes no lock, but runs on the same thread as the commands that change the
table of plugins. The only other thread of the daemon is the reset worker (`resetEventFunc`), which
takes the same lock, finds the devices that are offline, and resets them. So a call of the resource manager is one
atomic action whichever thread makes it. What interleaves is the calls themselves, and, around them, the two
sides of each connection: a request sent and not yet read, a response written and not yet received, a process that
died in between.

Nothing is persisted: `save()` and `restore()` are never called, so a restarted daemon starts from `Init`. The devices are probed at the first load command (`initDevices`); until then
every call finds none. `Init` is the state just after the probing.

**What is hard.** Three load counters per CU, a reference count per client and device, a channel count, a list of
clients per CU and an exclusive flag all have to agree, though twenty functions update them, each one separately, and some in loops with
several exits. Load taken from a pool returns to the pool or to the default pool depending on whether the pool still exists when
it is given back. Searches take references and must give them back on every failing path. A client may be recycled
several times, from several places. `PROJECT.json` lists the hazards with their lines.

## 2. The modules

```
XrmSum <- XrmCu <- XrmDevice <- XrmSystem <- XrmLists <- XrmPools
                                    |           ^------- XrmAvailability <- XrmGroups <- XrmService
                                    |                                    XrmGroupTable <-----|
                                    |<- XrmAdmin
                                    |<- XrmLoadAlloc
                                    |<- XrmPolicy
                                    |<- XrmRefinement  (instantiates XrmLedger)
XrmSessions <- XrmBlocking
XrmPlugins

XrmSumProofs <- XrmCuProofs <- XrmSystemProofs <- XrmLoadsProofs <- XrmRefinementProofs <- XrmListsProofs
                                                        |<- XrmAdminProofs
XrmSessionsProofs
```

An arrow is EXTENDS; a module of proofs also extends the module it is about (section 6). Every module to the right of `XrmSystem` is a specification of its own: it adds ways of allocating
to the calls of `XrmSystem` that matter beside them (release, recycling, loading), and keeps the state `devList`, `reservePoolId`.
Each `MC...` module gives the constants values for TLC.

**XrmCu** is one CU as a record, and each function of the daemon that changes a CU as an operator on that record.
Two abstractions of the data: `reserves[]` is a function from pool ids, because the code keeps the array compact and in
the order in which pool ids grow, and `cu->clients[]`, in which each client stands once, is a set.

**XrmDevice** is one device. `clientProcs[]` is a function from clients to reference counts (0: no slot). The slot
matters only in exclusive mode, where the code looks at slot 0 alone: there slot 0 is the only one in use. What a
failed search leaves of a device, `ProbeDevice`, is written as the code does it: `releaseClientOnDev` after
`allocClientFromDev`. It is not the identity (section 5).

**XrmSystem** is the daemon: `devList` and `reservePoolId`. One action per call:

| Action | Code |
|---|---|
| `AllocCu` | `resAllocCu`: two passes (CUs in use first, then the idle ones) over the devices in order; every device visited in vain is probed |
| `AllocCuFromDev` | `resAllocCuFromDev` |
| `ReleaseCu` | `resReleaseCu`, `removeClientOnCu`, `releaseClientOnDev` |
| `ReserveCuPool`, `ReserveCuPoolOfTwo` | `resReserveCuPool` with a list of one or two CUs; if the second is not found, `resRelinquishCuPool`, and the pool id is used again |
| `RelinquishCuPool` | `resRelinquishCuPool`, which stops at the first reservation in use |
| `RecycleResource` | `recycleResource` |
| `LoadXclbin`, `LoadAnyDevice` | `deviceLoadXclbin`, `loadAnyDevice` |
| `UnloadDevice`, `DisableDevice`, `EnableDevice` | `unloadOneDevice`, `disableOneDevice`, `enableOneDevice` |
| `ResetDevice` | `resetDevice`, `closeDevice` |

The failures of driver calls (open, load, read the layout, lock, unlock) are the action's nondeterministic parameters.
A call that changes nothing (bad arguments, a stale handle, no CU found) is a stuttering step or not enabled.
`allocServiceId` is abstracted to the channel it names: a stale handle matches
no channel, which `XrmService` shows. `devLoadInfo` is left to `XrmPolicy`, since only the load policies read it. An application asks for a CU by kernel; the
comparison of name, alias and CU name is the set `MatchingCus`.

**XrmLists** allocates several CUs in one call. A list of version 1 comes from one device or from any; the items of a list of
version 2 name a device, a virtual index (items of one index come from one device, different indices from different
devices) or nothing. A call is a fold over the items that carries the devices, the channels taken so far and whether all went well; on
failure what was taken is released one by one, as the code does (`Undone`).

**XrmPools** reserves a pool in parts: whole devices by id, whole devices by xclbin, and lists, of both versions. Each part is an
operator; a part that fails ends in `resRelinquishCuPool` of the id, which is not used up then.

**XrmLoadAlloc** has the four calls that look for an idle CU first or load an xclbin to get one. What the loads meet
(which succeed, which devices can be unlocked and opened) is the constant `Drivers`, a set of possible outcomes.

**XrmPolicy** has the calls with a policy (most or least used CU or device). The search remembers the best CU of all
devices and both affinity passes and allocates on it at the end. It keeps `devLoadInfo` as the code does, with its
drift. `operator<` of `deviceLoadInfo` is no strict weak order, but up to 16 devices `std::sort` is an insertion sort,
whose result is the order by rate and then id (`ByRate`).

**XrmAvailability** has the questions. An availability check is not a query: the command allocates until it fails, under the
lock, and gives everything back; `Rounds` is that loop. **XrmGroups** adds the allocation of a group, the first of its lists that can be had.

**XrmGroupTable** is the table of groups by itself: declaring a name, and undeclaring it, which moves the groups behind it forward.

**XrmService** puts these together as clients see them: `allocServiceId` (the last id handed out), `serviceOf` (the id in each channel) and
`calls` (the handles clients were given, which they keep). An allocation is `Hand` of the outcome of an operator of `XrmLists` or `XrmGroups`; a
release folds `Released` over the handles and ends at the first that names nothing. Recycling, loading, unloading and resets are those of `XrmSystem`
and take the mark off the channels they free.

**XrmAdmin** has the commands of administrators as operators from the devices to an outcome, `UpToFailure` over the devices named. What a
command meets (whether the file can be read, on which devices it loads, which unlock and open) is the constant `Drivers`.

**XrmLedger** is what the resource manager promises: grants, reservations and capacity, with a step for each thing that may happen to
them (grant, give back, reserve, relinquish, recycle), and nothing of how the daemon decides. **XrmRefinement** maps `devList` to it: a grant is a channel
in use. `ImplementsLedger` says that every step of the daemon is a step of the ledger or a stutter.

**XrmPlugins** is the table of plugins. A command loads or unloads several, up to the first that fails.

**XrmBlocking** is `XrmSessions` with applications that block: `goal` (asking, trying), `answer`, and `offered`, whether what is wanted
exists. Each attempt is a call of `XrmSessions`; the daemon grants one of `Units` units if it is free. `ImplementsSessions` shows that it is `XrmSessions` still, with its
fairness. `MCXrmBlocking` composes it with `XrmPlugins`: both run on the daemon's one thread.

**XrmSessions** is the life of up to |Conns| contexts, on both sides of their connections: the application (`app`,
`id`), the request in transit (`request`), the daemon's session (`session`, `reply`, `recorded`), and what of the
system they touch (`holders`, `lastId`, `numConcurrentClient`). `holders` abstracts `devList` to the set of clients that hold anything; a call
may add or remove its client, recycling removes it. A response reaches the application in the step in which its writing ends.
A crash may lose what the daemon has received and not read. A response to a dead application may fail (the session ends
after recycling) or not. On a loopback connection the end is `eof` or `connection_reset`; other read errors are left out.

## 3. The runs

| Run | Instance | What it shows |
|---|---|---|
| `two_devices` | 2 clients, 2 devices with one CU each, 2 xclbins, one pool, commands for one, two and all devices | references, exclusive mode, completeness and order of recycling; a completed command has done what it says; a device is never unloaded under a client, and one that can be loaded is found |
| `twin_cus` | 2 clients, 1 device with two equal CUs, 2 pools | the load counters, the ledger (capacity and pool ids included), and `IInv` (types, channel index, references, exclusive mode, the books of every CU), all of which section 6 proves |
| `reset_reserved` | as `two_devices`, one device | violation, section 5 |
| `lists` | 2 clients, 2 devices with two kernels, 3 lists, 2 of version 2 and a group, one pool | a list is had completely and where it was wanted, or not at all; a group is its first list that can be had; checks leave no trace and report the right number |
| `service` | 2 clients, 2 allocations that succeed, lists of both versions, groups in a table of two, one pool | a handle stands for what it was given out for or for nothing, whatever else happened to its channel; queries are exact; a group stays what it was declared as |
| `pools` | 2 clients, 2 devices with two kernels, 3 pools and 4 of version 2, 2 ids, answers of 3 CUs | a pool is had completely or not at all, serves its owner alone, checks give all back, what a client is told of it stays true, and the load counters add up |
| `pool_incomplete` | as `pools`, one same-device list asked for twice | violation, section 5 |
| `load_alloc` | 2 clients, 2 devices, 2 xclbins (one or two CUs of the kernel), load 0..3 | exclusive mode and other clients' devices are safe though references go wrong; the least used CU is had |
| `policy` | 2 clients, 2 devices with one CU, load 0..3, one pool | no CU or pool is overcommitted though references and device loads drift; the CU chosen is the one the policy asks for |
| `channels_unrecycled` | 2 clients, 1 device with two equal CUs | violation, section 5 |
| `sessions` | 2 contexts, limit 1, 1 unit to block for, devices may fail; 3 plugins, two of them of one name, and a table of 2 | whoever holds anything has a session that will recycle it; ids are not shared, which `IInv` explains; an application that waits gets on; whoever is gone ends up holding nothing; nobody is kept waiting by the dead; plugins stay what they were loaded as |
| `client_limit` | 3 contexts, limit 1 | violation, section 5 |

**Bounds.** Clients, devices, CUs, channels and connections are model sets. Two clients are enough for every
interference between a client and "another", and the invariants speak of at most two at a time. Two
devices are enough for a search that goes on to another device, for two virtual indices and for a pool across devices, two CUs on one device for the affinity order and for a relinquish that stops half
way, two channels for a client that releases one of its two. `MaxLoad` is 2 or 3 instead of 1000000: a CU can be
empty, partly used, in two degrees where CUs are compared, or full. `MaxPool`
bounds the pool ids handed out (the action that would hand out another one is disabled): a second pool is
needed for pool ids, and a pool is used by whoever names it. `MaxRef` bounds the references of a client on a device where
they may drift: a client with more makes no further call of those modules. `MaxBusy`, 3, bounds the channels in use when `XrmLoadAlloc` allocates, and `MaxDrift`, 1 (2 in
`channels_unrecycled`), how far `devLoadInfo` may be off when `XrmPolicy` does: what goes wrong with a load of one goes wrong with more. With two pools and `MaxReserves` 1, `twin_cus` has
reservations that find no slot; `pools` has two on one CU. `MaxGroups` leaves room for every group that is declared, `MaxPlugins` does not for every plugin: loading into a full table fails. `MaxService`, 2, bounds the allocations that succeed: a handle that
has become stale and the one that took its channel over. `MaxAnswer` is 3 where the code has 48, so that a pool of four CUs does not fit the answer. Request loads
include 0, which the code refuses. The lists, pools and groups of the `MC` modules are chosen so that they compete for the same CUs and fail at every part. Symmetry under permutation of the clients is used in the runs
of the resource manager, whose definitions do not distinguish them. In `XrmSessions` there is no bound on ids: each of the contexts is created once. In `XrmBlocking` a client holds one unit at most, and one that holds it does not block for more: it may wait for itself.

**Deadlock** is checked for `XrmSystem` and the modules on it: some call is always possible. `XrmSessions` stops when every context is gone,
so in the runs of it and of `XrmBlocking` it is not.

**Fairness.** None for `XrmSystem` and the modules on it, whose properties are safety. In `XrmSessions` weak fairness of the daemon's steps
for each connection: the `io_service` thread runs every handler that becomes ready, the kernel delivers what was
written, and no handler waits while holding the lock. Applications have no fairness: they may stop at any point, and the reset worker need not run; but an application that lives in the
retry loop of a blocking call goes on with it (`Try`): between two attempts there is only `usleep` or `sched_yield`.

## 4. The properties

Of one CU, for every CU: `LoadsBalanced` (the three load counters are what channels and reservations add up to),
`NeverOvercommitted`, `ChannelsIndexed` (`numChanInuse`, `clients[]`; a conjunct of `IInv`, as `TypeOK` and `LoadsInOrder` are). Of all together: `ImplementsLedger` (no call touches
what another client has). Of a device:
`RefCounted` (the reference count of a client is the number of its channels), `ExclusiveAlone`, `ExclusiveOwned`,
`UnloadEvictsNobody` and `LoadEvictsNobody` (a device is unloaded or loaded anew only when the counter that says "not busy" is right about it). Of commands: `CompletedIsDone`, `LoadAnyFinds`. Of recycling:
`RecycledCompletely`, `RecycleOrderIrrelevant`. Of pools: `PoolAllOrNothing`, `PoolV2Complete`, `ReservedForPoolAlone`,
`PoolChecksLeaveNoTrace`, `PoolAnswerKept`. Of handles: `OneHandleEach`, `StaleStaysStale`, `ReleaseIsOwn`, `QueryExact`. Of lists and groups: `ListAllOrNothing`, `ListPlaced`, `GroupTakesFirst`, `GroupsKept`, `GrantableExists`. Of the searches:
`LeastUsedKept`, `CuPolicyKept`. Of the checks: `ChecksLeaveNoTrace`, `AvailableNumRight`.
Of sessions: `HoldersConnected`, `IdsUnique`, `BrokenRecycled`, `Answered`; with blocking calls, `ImplementsSessions` and `BlockedByLiving`. Of plugins: `PluginsKept`.

Several of them (`ListPlaced`, `PoolAllOrNothing`, `CuPolicyKept`, `ChecksLeaveNoTrace`, ...) say, of every reachable state, what a call made now
would come to: the operators of the calls are functions of the state, so that this is the same as the action property over the steps, and
covers calls that the bounds on the steps exclude.

Every property has a mutant in `PROJECT.json`: a plausible bug in one operator, under which TLC finds the property
violated. The mutated operators stand before the operators they replace and are used nowhere else.

## 5. What the code does otherwise

Shown by a run, against what a comment or a header says:

1. `reset_reserved`: `resetDevice` recycles the clients in `clientProcs`. A client that only reserved load is not
   there. The device stays busy, `unloadOneDevice` fails, the result is ignored, and the handle of the loaded device is closed.
2. `pool_incomplete`: a pool that asks twice for a list from one device may be granted with the list once: a device that
   has only part of the second list is given back completely, with the first list on it, and the search goes on (S:5053).
3. `channels_unrecycled`: `resAllocCuByCuLoad` allocates on the CU it remembered after giving the reference of its device
   back. A client that dies then is not recycled on that device (S:6420).
4. `client_limit`: `recycleResource` counts one client down each time it is called, and a destroyed context is recycled twice (by the
   request and by the end of its connection). More than `limitConcurrentClient` contexts are then admitted.

Modelled as the code does it, and the reason why some properties are not stated more strongly (no run):

5. A client that alone uses a shared device asks for a CU exclusively and there is none: the device
   stays exclusive after the failed call, because `releaseClientOnDev` leaves `isExcl` alone while the client holds other
   references (S:4256). The same holds after an exclusive availability check. `SameHoldings` and `SameBut` allow for it.
6. `resAllocLeastUsedCuFromDev`, `resLoadAndAllocAllCu` and the searches by policy leave wrong reference counts (S:2337, S:3229, S:6420). `RefCounted`
   is not stated for `XrmLoadAlloc` and `XrmPolicy`; what it protects is (`ExclusiveOwned`, `LoadEvictsNobody`).
7. `resAllocCuByDevLoad` takes a reference of a device without looking whether it is loaded (S:6253); `releaseClientOnDev` does nothing on a
   device that is not loaded, so that the reference stays.
8. The policies compare the usage of a pool through its index on another CU (S:4082): `CuPolicyKept` speaks of the default pool only.
9. `recycleResource` sets the load of each device it passes to 0, also when other clients hold load there (S:4718); `devCurrentLoad` is then no sum of
   anything (`LoadRecycled`). It is a hint for the device policies, and no capacity is checked against it.
10. A list of CUs from any device is said to exist when its first CU does (S:1860, the flag is not reset): the converse of `GrantableExists` does not hold, and a blocking
    allocation of such a list retries for ever.
11. `resRelinquishCuPool` stops at the first reservation in use: half a pool may be left. `PoolAnswerKept` allows for it.
12. An application that dies between `createContext` and `echoContext` was counted (`xrm_command_resource.cpp:28`), and its session
    has no id to recycle: it is never counted down.
13. A blocking call asks once whether what it wants exists. When the group is undeclared or the xclbin unloaded after that, it retries for ever: `BlockedByLiving`
    speaks of the times at which it exists.
14. A load command that names all devices in one entry and goes on with another forgets that the first failed (S:485), and an unload command does not look at what
    follows an entry for all devices. `CompletedIsDone` leaves such load commands, and such entries, out.
15. The release of a list ends at the first handle that is stale, and what follows in the list stays allocated (S:3726). `ReleaseIsOwn` says what it may
    do, not that it does all.
16. The answer to a reservation query holds 48 CUs at most (`xrm_command_resource.cpp:1039`), a pool up to 128: the rest is left out without a word.

Not modelled, known from reading:

17. `checkCuAvailableNumV2` repeats `resAllocCuV2` until it fails. With a CU policy the failure of the allocation on a remembered CU without a
    free channel is not looked at (S:6420): it is reported as a success, and the loop does not end, under the lock.
18. `resUdfCuGroupDeclare` does not look whether the table is full (S:3332).
19. `resAllocCuGroupV2` asks for CUs by name, which `cuPropertyCopyFromV2` does not copy: it always fails.

## 6. The proofs

| Module | Theorems |
|---|---|
| `XrmSumProofs` | lemmas: a sum exists, its recurrence, type, monotony, addition, what changing one summand does to it; a fold over a sequence exists, and keeps what each of its steps keeps |
| `XrmCuProofs` | lemmas: each operation on a CU keeps its type, its index and its books (`LoadsRight`); recycling and an idle load counter leave nothing of a client |
| `XrmSystemProofs` | lemmas: each operation on a device keeps it in order; `HoldingsInvariant`: `Spec => []HoldingsInOrder`; from it `TypeCorrect`, `ChannelsAlwaysIndexed`, `ReferencesCounted`, `ExclusiveDeviceAlone` |
| `XrmLoadsProofs` | `IInvInvariant`: `Spec => []IInv`; from it `LoadsAlwaysBalanced`, `CapacityNeverExceeded`, `RecyclingComplete`, `UnloadingEvictsNobody` |
| `XrmRefinementProofs` | `LedgerImplemented`: `Spec => ImplementsLedger`; `RecyclingInAnyOrder`: `Spec => []RecycleOrderIrrelevant` |
| `XrmAdminProofs` | `AdminInvariant`: `AdminSpec => []AdminInv`; from it `AdminKeepsHoldings`, `CommandsDoWhatTheyReport`, `AnyDeviceFound`, `CommandsEvictNobody` |
| `XrmListsProofs` | `ListsKeepInvariant`: `ListSpec => []IInv`, `ListsAllOrNothing`; `ServiceInvariant`: `ServiceSpec => []ServiceInv`, and from it `ChannelsHaveOneHandle`, `StaleHandlesStayStale`, `ReleasesAreOwn`, `QueriesAreExact`, `GroupsAreKept` |
| `XrmSessionsProofs` | `SessionsInProtocol`: `Spec => []HoldersInOrder`, `HoldersStayConnected`; `SessionsInOrder`: `Spec => []IInv`, `IdsAlwaysUnique` |

They hold for any number of clients, devices, CUs, channels, pools, connections, and any load, from the assumptions
on the constants stated with them (finite sets of clients and connections, positive table sizes, distinct null values), and the commands and lists may be of any length. Lists handed
to `XrmService` are no longer than the answer of their version holds (`ServiceAssumption`), as the library checks: the arrays of the structure have that size.

*XrmSystem, who holds what.* `RefCounted` alone is not inductive: a search may take channel 0 without looking when `numChanInuse` is
0, which would overwrite a channel in use if the count were wrong (`ChannelsIndexed`); recycling finds the channels of a client
through `cu->clients` (`ChannelsIndexed` again) and the client through `clientProcs`; and `releaseClientOnDev` gives a
reference back only to the owner of an exclusive device (`ExclusiveAlone`). The conjunction `HoldingsInOrder` is inductive. The proof goes bottom up: what each operator of `XrmCu` does to the set of busy channels, what
each operator of `XrmDevice` does to the set of channels a client holds and hence to its cardinality, and one step
per action for the device list.

*XrmSystem, the books.* `LoadsBalanced` is not inductive either, for three reasons, which are the other conjuncts of `LoadsInOrder`. A free channel and an empty
slot must hold 0 and no pool, since they are filled field by field. A channel may outlive the pool its load was taken from; were the id of that pool to come again, load
taken from the default pool would be given back to the new pool. So no channel carries an id that is still to come (`pool <= last`). And a device without an xclbin must have nothing on the
CUs it does not have, since the next load makes CUs of them as they are. `IInv`, the conjunction of `HoldingsInOrder` and `LoadsInOrder`, is inductive. What a counter must be is a
sum over channels or pools (`SumTo`, a recursive function); the lemmas of `XrmSumProofs` say that a step that changes one summand changes the sum by as much. `CapacityNeverExceeded`
needs of `IInv` only the counters and their bounds. `RecyclingComplete` combines both halves: the channels of the
client are found because `clients[]` and `clientProcs` are right, its reserves because every slot is looked at.
`UnloadingEvictsNobody` is about the counter that says "not busy": when the books are right and it is 0, there is neither channel nor reservation.

*The ledger.* To each operator of `XrmCu` belongs a relation between a CU before and after it (`Takes`, `GivesBack`, `Reserves`, `Relinquishes`, `Forgets`, `Keeps`) that says what
a step of the ledger allows. Each call is shown to do one of them to every CU, with the same client and pool, failing searches and the loads and unloads included; then it is that step of the ledger. That the ledger is sound
after it follows from `IInv` of the next state. `RecyclingInAnyOrder` uses the same relations: what is forgotten of a CU does not depend on the order, and the books of
a CU in order are determined by what is held of it (`SameBooks`).

*Folds.* A command over several devices and a list of several CUs are folds (`FoldLeft`, which the community modules define by a choice of a function on the sets of
positions). `FoldExists` shows that there is such a function, and `FoldKeeps` that what holds before the first step and is kept by each holds at the end: both by induction on the number of
positions, over a family of sets `Kept[s]`, what may be the outcome when the positions in s have been worked off. Every fold of the model is an instance.

*XrmAdmin.* `AdminInv` is `IInv` and "a device out of service carries no xclbin": without the latter, disabling a device that is disabled already would report success
for a device that is loaded. For `CommandsDoWhatTheyReport`, `Kept[s]` says that the devices named in s are as commanded unless the command has failed, and that the step for another device does not undo it;
a busy device makes a command fail, since "not busy" is right about the books. `AnyDeviceFound` follows the two passes of the search.

*XrmLists.* `Took(before, after, c, pool, taken)` says that the channels in `taken` are distinct, were free, are now the client's, from that pool, and that nothing else
changed. It holds of one item by the lemmas about the search, and composes over items, sub-lists and devices (`TookOn`). Giving the channels back restores them one by one
(`GivenBackAll`), so that a list that failed has taken nothing; that the loads, references and clients are the same as well follows because, in order, they are
determined by the channels and the reserves (`SameHoldingsFrom`).

*XrmService.* The inductive invariant says that a channel bears an id iff it is in use, that the id is that of a call which has the channel among those it took and which has its
client and pool, and that ids of calls are distinct and none is still to come (`Marks`, `CallsRight`). So what is live of a call is the set of channels with its id (`LiveIs`): one handle at most, never
again once the mark is off, and nothing another call can touch. For `QueriesAreExact` a call must return no more channels than fit its answer, which needs that a list takes one channel per item: with version 2, where the
items of a virtual index are taken together and then passed over, the items taken by the time position i is reached are those of `WithItems`. A query also looks only
on CUs that are there: a channel in use is on one (`BusyOnCu`). `GroupsAreKept` needs that a name stands in one place only (`OnePlaceEach`).

*XrmSessions.* `HoldersConnected` needs to know which requests can be on their way in which stage of a context:
no `call` is ever handled before the session has recorded the id (`InProtocol`), also after the application has died. `IdsUnique` needs that an id on its way to an
application counts as given (`IdsOf`), that a context gets one only once, though it may die between the request and the answer, and that the session records the id that was given to its own context
(`GivenOnce`). Together they are `IInv`, and the proof has one case per handler.

**Only model-checked.** `ListPlaced`, `ChecksLeaveNoTrace`, `AvailableNumRight`, `GroupTakesFirst`, `GrantableExists`, the properties of `XrmPools`, `XrmLoadAlloc` and `XrmPolicy`, and `PluginsKept` are checked by
their runs and not proved. So are `LoadsBalanced`, `RefCounted`, `NeverOvercommitted` and `RecycledCompletely` in the runs of `XrmPools`, `XrmLoadAlloc` and `XrmPolicy` that list them; the theorems about them are
for `XrmSystem`, and, as part of `IInv`, for `XrmAdmin`, `XrmLists` and `XrmService`. In `XrmLoadAlloc` and `XrmPolicy` references go wrong (section 5), so that `IInv` is
not an invariant there. `AvailableNumRight` and `GrantableExists` relate the outcome of a loop to a count over the whole state. `BrokenRecycled`, `Answered` and `BlockedByLiving` are liveness under
fairness and out of the prover's reach, and so is `ImplementsSessions`, which includes fairness.

## 7. Plan

1. **Proofs**: `PoolAllOrNothing` and `ReservedForPoolAlone` of `XrmPools`, whose parts are folds of reservations as lists are of allocations; `ListPlaced`, which
   refines `Took` by the kernel and the load of each item; `ChecksLeaveNoTrace`, which needs `Took` to follow `isExcl`; `PluginsKept`.
2. **Still outside**: the policies of the items of a list of version 2, and the availability check with policies, whose loop need not end (section 5).

Not modelled, and left so: parsing of xclbin files and the layout of their sections (data conversion; what matters of it, the CUs of an
xclbin and whether reading fails, is a constant or a choice), the driver's library and its versions, decoding of requests and the registry of commands, logging,
configuration (read once), and in the library the conversion of structures to requests and back, with its checks of arguments (`xrmRetrieveLoadInfo` among them: the loads of the
model are those that reach the daemon).
