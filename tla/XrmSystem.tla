------------------------------ MODULE XrmSystem ------------------------------
(***************************************************************************)
(* The resource manager of the XRM daemon (xrm::system): the device list   *)
(* and the calls clients and administrators make on it.  Every call runs   *)
(* from enterLock to exitLock, so each is one action, whatever the thread  *)
(* that runs it: the io_service thread, or the reset worker of             *)
(* xrm_main.cpp.  Nothing is persisted (save() is never called), so a      *)
(* restart of the daemon is Init again.                                    *)
(***************************************************************************)
EXTENDS XrmDevice

CONSTANTS
    NumDevices      \* m_numDevice

ASSUME SystemAssumption == NumDevices \in Nat \ {0}

Devices == 0 .. NumDevices - 1

Slots == Devices \X CuIds       \* a CU of the system: its device and index

VARIABLES
    devList,        \* m_devList
    reservePoolId   \* m_reservePoolId: the last pool id handed out

vars == <<devList, reservePoolId>>

TypeOK == /\ devList \in [Devices -> DeviceType]
          /\ reservePoolId \in 0 .. MaxPool

Init == /\ \E opened \in [Devices -> BOOLEAN] :
              devList = [d \in Devices |-> InitialDevice(opened[d])]
        /\ reservePoolId = 0

Requests == [kernel : Kernels, load : 0 .. MaxLoad]

----------------------------------------------------------------------------
(* Searches run over the devices in order and over the CUs of each in      *)
(* order: the first slot of a set in that order.                           *)
Before(s, t) == s[1] < t[1] \/ (s[1] = t[1] /\ s[2] < t[2])

FirstSlot(S) == CHOOSE s \in S : \A t \in S : s = t \/ Before(s, t)

CuAt(devs, s) == devs[s[1]].cus[s[2]]

InUse(devs, s) == CuAt(devs, s).clients # {}

UpdateCu(devs, s, cu) == [devs EXCEPT ![s[1]].cus[s[2]] = cu]

(* The two affinity passes of a search: CUs some client already uses come  *)
(* before CUs no client uses.                                              *)
FirstByAffinity(devs, S) ==
    LET used == {s \in S : InUse(devs, s)}
    IN  FirstSlot(IF used # {} THEN used ELSE S)

----------------------------------------------------------------------------
(* resAllocCu.                                                             *)

(* The CUs the search over the devices in D accepts. *)
AllocCandidates(devs, D, c, req, pool, excl) ==
    {s \in Slots : /\ s[1] \in D
                   /\ IsFreeForClient(devs[s[1]], c)
                   /\ CanAllocClient(devs[s[1]], c, excl)
                   /\ s[2] \in MatchingCus(devs[s[1]], req.kernel)
                   /\ CanAllocChan(CuAt(devs, s), pool, req.load)}

AllocOn(devs, s, c, req, pool, excl) ==
    [UpdateCu(devs, s, AllocChanClientFromCu(CuAt(devs, s), c, pool, req.load))
        EXCEPT ![s[1]] = AllocClientFromDev(@, c, excl)]

(* Devices the search visited in vain before it stopped at slot s: those   *)
(* before s in the pass over CUs in use, all of them if s was found in the *)
(* second pass.                                                            *)
ProbedBefore(devs, s) ==
    IF InUse(devs, s) THEN {d \in Devices : d < s[1]} ELSE Devices

ProbeAll(devs, D, c, excl) ==
    [d \in Devices |-> IF d \in D THEN ProbeDevice(devs[d], c, excl) ELSE devs[d]]

ResAllocCu(devs, c, req, pool, excl) ==
    LET S == AllocCandidates(devs, Devices, c, req, pool, excl)
        s == FirstByAffinity(devs, S)
    IN  IF S = {}
        THEN ProbeAll(devs, Devices, c, excl)
        ELSE AllocOn(ProbeAll(devs, ProbedBefore(devs, s), c, excl), s, c, req, pool, excl)

(* resAllocCuFromDev: the same search on one device, whose clientProcs     *)
(* entry is taken once for both passes.                                    *)
ResAllocCuFromDev(devs, d, c, req, pool, excl) ==
    LET S == AllocCandidates(devs, {d}, c, req, pool, excl)
    IN  IF S = {}
        THEN ProbeAll(devs, {d}, c, excl)
        ELSE AllocOn(devs, FirstByAffinity(devs, S), c, req, pool, excl)

AllocCu(c, req, pool, excl) ==
    /\ devList' = ResAllocCu(devList, c, req, pool, excl)
    /\ UNCHANGED reservePoolId

AllocCuFromDev(d, c, req, pool, excl) ==
    /\ devList' = ResAllocCuFromDev(devList, d, c, req, pool, excl)
    /\ UNCHANGED reservePoolId

(* resReleaseCu for a channel that client c holds.  The handle names the   *)
(* channel by its allocServiceId, pool and client as well, so that a stale *)
(* handle matches no channel: the call then changes nothing.               *)
HoldsChannel(devs, c, s, k) ==
    /\ IsLoaded(devs[s[1]])
    /\ s[2] \in CusOf(devs[s[1]])
    /\ CuAt(devs, s).channels[k].client = c

ResReleaseCu(devs, c, s, k) ==
    [UpdateCu(devs, s, ReleaseChan(CuAt(devs, s), c, k))
        EXCEPT ![s[1]] = ReleaseClientOnDev(@, c)]

ReleaseCu(c, s, k) ==
    /\ HoldsChannel(devList, c, s, k)
    /\ devList' = ResReleaseCu(devList, c, s, k)
    /\ UNCHANGED reservePoolId

----------------------------------------------------------------------------
(* resReserveCu: the search takes no reference of the device.              *)
ReserveCandidates(devs, pool, c, req) ==
    {s \in Slots : /\ IsFreeForClient(devs[s[1]], c)
                   /\ s[2] \in MatchingCus(devs[s[1]], req.kernel)
                   /\ CanReserve(CuAt(devs, s), pool, req.load)}

ReserveOn(devs, s, pool, c, req) ==
    UpdateCu(devs, s, ReserveLoadFromCu(CuAt(devs, s), pool, c, req.load))

(* resRelinquishCuPool, resRelinquishCuList: the reservations of the pool  *)
(* are given back in order, up to the first one that is still used: there  *)
(* the call fails and leaves the rest.                                     *)
PoolSlots(devs, pool) ==
    {s \in Slots : /\ s[2] \in CusOf(devs[s[1]])
                   /\ IsReservePoolUsingCu(CuAt(devs, s), pool)}

UsedPoolSlots(devs, pool) ==
    {s \in PoolSlots(devs, pool) : CuAt(devs, s).reserves[pool].used # 0}

ResRelinquishCuPool(devs, pool) ==
    LET given == {s \in PoolSlots(devs, pool) :
                    \A u \in UsedPoolSlots(devs, pool) : Before(s, u)}
    IN  [d \in Devices |->
            [devs[d] EXCEPT !.cus = [i \in CuIds |->
                IF <<d, i>> \in given THEN RelinquishOnCu(@[i], pool) ELSE @[i]]]]

(* resReserveCuPool for a pool of one list of CUs that may come from any   *)
(* device (resReserveCuList, sameDevice false): the CUs are reserved one   *)
(* by one, and if one cannot be had the pool is given back and its id is   *)
(* not used up.  A list is one CU, or two (the bound on its length).       *)
ReserveCuPool(c, req) ==
    LET pool == reservePoolId + 1
        S == ReserveCandidates(devList, pool, c, req)
    IN  /\ pool \in PoolIds
        /\ S # {}
        /\ devList' = ReserveOn(devList, FirstByAffinity(devList, S), pool, c, req)
        /\ reservePoolId' = pool

ReserveCuPoolOfTwo(c, req1, req2) ==
    LET pool == reservePoolId + 1
        S1 == ReserveCandidates(devList, pool, c, req1)
        one == ReserveOn(devList, FirstByAffinity(devList, S1), pool, c, req1)
        S2 == ReserveCandidates(one, pool, c, req2)
    IN  /\ pool \in PoolIds
        /\ S1 # {}
        /\ \/ /\ S2 # {}
              /\ devList' = ReserveOn(one, FirstByAffinity(one, S2), pool, c, req2)
              /\ reservePoolId' = pool
           \/ /\ S2 = {}
              /\ devList' = ResRelinquishCuPool(one, pool)
              /\ UNCHANGED reservePoolId

RelinquishCuPool(pool) ==
    /\ devList' = ResRelinquishCuPool(devList, pool)
    /\ UNCHANGED reservePoolId

----------------------------------------------------------------------------
(* recycleResource for the clients in C, on every device. *)
Recycled(devs, C) == [d \in Devices |-> RecycleOnDevice(devs[d], C)]

(* A client's connection is broken, or it destroys its context. *)
RecycleResource(c) ==
    /\ devList' = Recycled(devList, {c})
    /\ UNCHANGED reservePoolId

----------------------------------------------------------------------------
(* Mutant: isDisabled is not looked at. *)
LoadXclbinAnyway(d, x, opens, ok) ==
    /\ ~IsLoaded(devList[d])
    /\ devList' = [devList EXCEPT ![d] = LoadedWith(@, x)]
    /\ UNCHANGED reservePoolId

(* deviceLoadXclbin on a device that is not loaded (a loaded one is never  *)
(* changed).  ok: whether the file can be read, loaded and locked; with no *)
(* handle it cannot.  A load command for several devices (loadDevices) is  *)
(* this step on one after another.                                         *)
LoadXclbin(d, x, opens, ok) ==
    /\ ~devList[d].isDisabled
    /\ ~IsLoaded(devList[d])
    /\ LET dev == Opened(devList[d], opens)
       IN  devList' = [devList EXCEPT ![d] = IF ok /\ dev.open
                                             THEN LoadedWith(dev, x)
                                             ELSE DeviceClearInfo(dev)]
    /\ UNCHANGED reservePoolId

(* unloadOneDevice; unlocks: whether the xclbin can be unlocked. *)
Unloaded(dev, unlocks) ==
    IF IsLoaded(dev) /\ (IsDeviceBusy(dev) \/ ~unlocks) THEN dev ELSE DeviceClearInfo(dev)

UnloadDevice(d, unlocks) ==
    /\ devList' = [devList EXCEPT ![d] = Unloaded(@, unlocks)]
    /\ UNCHANGED reservePoolId

EnableDevice(d) ==
    /\ devList' = [devList EXCEPT ![d].isDisabled = FALSE]
    /\ UNCHANGED reservePoolId

(* disableOneDevice: a busy device, or one that cannot be unlocked, is not *)
(* disabled.                                                               *)
DisableDevice(d, unlocks) ==
    /\ ~devList[d].isDisabled
    /\ IsLoaded(devList[d]) => ~IsDeviceBusy(devList[d]) /\ unlocks
    /\ devList' = [devList EXCEPT ![d] =
                      [IF IsLoaded(@) THEN DeviceClearInfo(@) ELSE @
                          EXCEPT !.isDisabled = TRUE]]
    /\ UNCHANGED reservePoolId

(* loadAnyDevice: the devices not loaded are tried in order, then those    *)
(* not busy, each unloaded first; the first on which the load succeeds     *)
(* ends the search.  A device on which it fails stays clear.  good: where  *)
(* loading succeeds; unlocks: where unlocking does; opens: where a handle  *)
(* can be opened, alike in both passes over the devices.                   *)
FreeDevices(devs) == {d \in Devices : ~IsLoaded(devs[d])}

IdleDevices(devs, unlocks) ==
    {d \in Devices : ~IsDeviceBusy(devs[d]) /\ (d \in FreeDevices(devs) \/ d \in unlocks)}

(* The first device of D that can be loaded, if there is one. *)
FirstLoadable(devs, D, good, opens) ==
    LET loads(d) == d \in good /\ ~devs[d].isDisabled /\ (devs[d].open \/ d \in opens)
    IN  {d \in D : loads(d) /\ \A e \in D : loads(e) => d <= e}

LoadPass(devs, good, unlocks, opens) ==
    IF FirstLoadable(devs, FreeDevices(devs), good, opens) # {}
    THEN FreeDevices(devs)
    ELSE IdleDevices(devs, unlocks)

LoadTarget(devs, good, unlocks, opens) ==
    FirstLoadable(devs, LoadPass(devs, good, unlocks, opens), good, opens)

LoadedAny(devs, x, good, unlocks, opens) ==
    LET target == LoadTarget(devs, good, unlocks, opens)
        tried == {d \in LoadPass(devs, good, unlocks, opens) : \A t \in target : d < t}
                    \cup (IF target \subseteq FreeDevices(devs) THEN {} ELSE FreeDevices(devs))
    IN  [d \in Devices |->
            IF d \in target
            THEN LoadedWith(IF target \subseteq FreeDevices(devs) THEN devs[d]
                            ELSE DeviceClearInfo(devs[d]), x)
            ELSE IF d \in tried
            THEN Opened(DeviceClearInfo(devs[d]), ~devs[d].isDisabled /\ d \in opens)
            ELSE devs[d]]

LoadAnyDevice(x, good, unlocks, opens) ==
    /\ devList' = LoadedAny(devList, x, good, unlocks, opens)
    /\ UNCHANGED reservePoolId

(* resetDevice, by the worker that finds device d offline: every client in *)
(* clientProcs is recycled, on all devices; the device is unloaded, if it  *)
(* is not busy; and its handle is closed, unloaded or not.                 *)
ResetDevice(d, unlocks) ==
    /\ devList[d].open
    /\ LET rest == Recycled(devList, DeviceClients(devList[d]))
       IN  devList' = [rest EXCEPT ![d] = [Unloaded(@, unlocks) EXCEPT !.open = FALSE]]
    /\ UNCHANGED reservePoolId

----------------------------------------------------------------------------
ClientCall(c) ==
    \/ \E req \in Requests, pool \in {NoPool} \cup PoolIds, excl \in BOOLEAN :
          \/ AllocCu(c, req, pool, excl)
          \/ \E d \in Devices : AllocCuFromDev(d, c, req, pool, excl)
    \/ \E s \in Slots, k \in Channels : ReleaseCu(c, s, k)
    \/ \E req \in Requests : ReserveCuPool(c, req)
    \/ \E req1, req2 \in Requests : ReserveCuPoolOfTwo(c, req1, req2)
    \/ RecycleResource(c)

DeviceCall(d) ==
    \/ \E x \in Xclbins, opens, ok \in BOOLEAN : LoadXclbin(d, x, opens, ok)
    \/ \E unlocks \in BOOLEAN : \/ UnloadDevice(d, unlocks)
                                \/ DisableDevice(d, unlocks)
                                \/ ResetDevice(d, unlocks)
    \/ EnableDevice(d)

Next ==
    \/ \E c \in Clients : ClientCall(c)
    \/ \E pool \in PoolIds : RelinquishCuPool(pool)
    \/ \E d \in Devices : DeviceCall(d)
    \/ \E x \in Xclbins, good, unlocks, opens \in SUBSET Devices :
          LoadAnyDevice(x, good, unlocks, opens)

Spec == Init /\ [][Next]_vars

----------------------------------------------------------------------------
(* Properties.                                                             *)

(* The three load counters of every CU (totalUsedLoadUnified,              *)
(* totalReservedLoadUnified and each reserveUsedLoadUnified), which        *)
(* allocation, release, reservation, relinquishing and recycling update    *)
(* separately, equal what its channels and reservations add up to; a load  *)
(* allocated from a pool that is gone counts for the default pool.         *)
LoadsBalanced == \A s \in Slots : CuBalanced(CuAt(devList, s))

(* No CU is ever given out beyond its capacity, and no pool beyond what it *)
(* reserved, whatever the order in which pools are dropped, channels       *)
(* freed and loads returned to one or the other.                           *)
NeverOvercommitted == \A s \in Slots : CuWithinCapacity(CuAt(devList, s))

(* cu->clients and cu->numChanInuse, which decide the affinity pass and    *)
(* whether channel 0 is taken without looking, say what the channels say.  *)
ChannelsIndexed == \A s \in Slots : CuIndexed(CuAt(devList, s))

(* A client's reference count on a device, on which its recycling depends, *)
(* is the number of channels it holds there: no allocation, failed search, *)
(* release or recycling loses or leaks a reference.                        *)
RefCounted == \A d \in Devices : DeviceRefCounted(devList[d])

(* A device in exclusive mode has an owner, and nobody else holds a        *)
(* channel of it, whether it was allocated before or after the device      *)
(* became exclusive.                                                       *)
ExclusiveAlone == \A d \in Devices : DeviceExclusive(devList[d])

(* What the calls need of each other to keep the references right: a       *)
(* search takes a channel as free by numChanInuse, recycling finds a       *)
(* client's channels by cu->clients and the client by clientProcs.         *)
HoldingsInOrder == TypeOK /\ ChannelsIndexed /\ RefCounted /\ ExclusiveAlone

(* What they need to keep the loads right, and recycling to leave nothing: *)
(* a pool id is used once, and nothing stands where a device has no CU.    *)
LoadsInOrder ==
    /\ \A s \in Slots : LoadsRight(CuAt(devList, s), reservePoolId)
    /\ \A d \in Devices : \A i \in CuIds \ CusOf(devList[d]) : Vacant(devList[d].cus[i])

(* The inductive invariant of the resource manager. *)
IInv == HoldingsInOrder /\ LoadsInOrder

(* resetDevice recycles one client after another; the order does not       *)
(* matter, also when one holds load of the other's pool.                   *)
RecycleOrderIrrelevant ==
    \A d \in Devices, a, b \in Clients :
        RecycleOnDevice(devList[d], {a, b})
            = RecycleOnDevice(RecycleOnDevice(devList[d], {a}), {b})

----------------------------------------------------------------------------
(* Nothing of client c is left on any device. *)
Forgotten(c) ==
    \A d \in Devices :
        /\ Held(devList[d], c) = {}
        /\ ~UsesDevice(devList[d], c)
        /\ \A i \in CuIds, p \in PoolIds : devList[d].cus[i].reserves[p].client # c

(* recycleResource recycles "all resource from client whose connection is  *)
(* broken", on every device, also on those it shares with others.          *)
RecycledCompletely == [][\A c \in Clients : RecycleResource(c) => Forgotten(c)']_vars

(* Taking a device's xclbin away (unload, disable, load of another one,    *)
(* reset) never takes a reservation from a client, nor a channel other     *)
(* than those a reset recycles: what "busy" means, in counters, covers     *)
(* everything clients hold.                                                *)
UnloadEvictsNobody ==
    [][\A d \in Devices :
          IsLoaded(devList[d]) /\ ~IsLoaded(devList'[d]) =>
             \A s \in {d} \X CuIds :
                /\ BusyChannels(CuAt(devList, s)) # {} => ~devList'[d].open
                /\ \A p \in PoolIds : CuAt(devList, s).reserves[p].client # NoClient =>
                       UsesDevice(devList[d], CuAt(devList, s).reserves[p].client)]_vars

----------------------------------------------------------------------------
(* What comments of the code say, and the code does not do.                *)

(* A reset recycles "all the resource used by all clients on this device"  *)
(* and then unloads its xclbin (resetDevice), if it can be unlocked.       *)
ResetUnloads ==
    [][\A d \in Devices : ResetDevice(d, TRUE) => ~IsLoaded(devList'[d])]_vars

=============================================================================
