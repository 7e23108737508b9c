---------------------------- MODULE XrmLoadsProofs ----------------------------
(***************************************************************************)
(* For any number of devices, CUs, channels, clients and pools: the        *)
(* daemon's load counters are right, no CU is given out beyond its         *)
(* capacity, and nothing is held where a device has no CU.                 *)
(***************************************************************************)
EXTENDS XrmSystemProofs

(* LoadsInOrder, of one device and of a list of devices.                   *)
DeviceRight(dev, last) ==
    /\ \A i \in CuIds : LoadsRight(dev.cus[i], last)
    /\ \A i \in CuIds \ CusOf(dev) : Vacant(dev.cus[i])

AllRight(devs, last) == \A d \in Devices : DeviceRight(devs[d], last)

LEMMA LoadsAreRight == LoadsInOrder <=> AllRight(devList, reservePoolId)
<1>1. ASSUME LoadsInOrder, NEW d \in Devices, NEW i \in CuIds
      PROVE  LoadsRight(devList[d].cus[i], reservePoolId)
  <2>1. <<d, i>> \in Slots
    BY DEF Slots
  <2>2. LoadsRight(CuAt(devList, <<d, i>>), reservePoolId)
    BY <1>1, <2>1 DEF LoadsInOrder
  <2> QED BY <2>2 DEF CuAt
<1>2. ASSUME AllRight(devList, reservePoolId), NEW s \in Slots
      PROVE  LoadsRight(CuAt(devList, s), reservePoolId)
  BY <1>2 DEF AllRight, DeviceRight, Slots, CuAt
<1> QED BY <1>1, <1>2 DEF LoadsInOrder, AllRight, DeviceRight

(* The CUs of a device in order have their type, and those of an unloaded  *)
(* one are vacant.                                                         *)
LEMMA CusTyped ==
  ASSUME NEW dev, InOrder(dev), NEW i \in CuIds
  PROVE  dev.cus[i] \in CuType /\ CuIndexed(dev.cus[i])
BY DEF InOrder, DeviceType

LEMMA UnloadedVacant ==
  ASSUME NEW dev, NEW last, DeviceRight(dev, last), ~IsLoaded(dev)
  PROVE  \A i \in CuIds : Vacant(dev.cus[i])
BY DEF DeviceRight, CusOf

(* The device has the same xclbin, and its CUs are right. *)
LEMMA FrameRight ==
  ASSUME NEW dev, NEW new, NEW last, new.xclbin = dev.xclbin,
         \A i \in CuIds : LoadsRight(new.cus[i], last),
         \A i \in CuIds \ CusOf(dev) : Vacant(new.cus[i])
  PROVE  DeviceRight(new, last)
BY DEF DeviceRight, CusOf, IsLoaded

(* One CU of the device changes. *)
LEMMA OneCuRight ==
  ASSUME NEW dev, InOrder(dev), NEW last, DeviceRight(dev, last), NEW i \in CusOf(dev),
         NEW cu, LoadsRight(cu, last),
         NEW new, new.xclbin = dev.xclbin, new.cus = [dev.cus EXCEPT ![i] = cu]
  PROVE  DeviceRight(new, last)
<1>1. \A j \in CuIds : new.cus[j] = IF j = i THEN cu ELSE dev.cus[j]
  BY DEF InOrder, DeviceType
<1>2. \A j \in CuIds : LoadsRight(new.cus[j], last)
  BY <1>1 DEF DeviceRight
<1>3. \A j \in CuIds \ CusOf(dev) : Vacant(new.cus[j])
  BY <1>1 DEF DeviceRight
<1> QED BY <1>2, <1>3, FrameRight

(* Replacing one device of the list. *)
LEMMA ReplaceRight ==
  ASSUME NEW devs, AllInOrder(devs), NEW last, AllRight(devs, last), NEW d \in Devices,
         NEW dev, DeviceRight(dev, last), NEW new, new = [devs EXCEPT ![d] = dev]
  PROVE  AllRight(new, last)
BY DEF AllRight, AllInOrder

----------------------------------------------------------------------------
(* Devices. *)
LEMMA InitialRight ==
  ASSUME NEW dev, NEW last \in Nat, dev.cus = [i \in CuIds |-> EmptyCu]
  PROVE  DeviceRight(dev, last) /\ \A i \in CuIds : Vacant(dev.cus[i])
BY EmptyCuType, EmptyCuRight DEF DeviceRight

(* deviceClearInfo: an idle device has nothing left on it. *)
LEMMA ClearInfoRight ==
  ASSUME NEW dev, NEW last \in Nat, DeviceRight(dev, last)
  PROVE  /\ DeviceRight(DeviceClearInfo(dev), last)
         /\ ~IsDeviceBusy(dev) => \A i \in CuIds : Vacant(DeviceClearInfo(dev).cus[i])
<1> DEFINE new == [InitialDevice(dev.open) EXCEPT !.isDisabled = dev.isDisabled]
<1>1. new.cus = [i \in CuIds |-> EmptyCu]
  BY DEF InitialDevice
<1> HIDE DEF new
<1>2. DeviceRight(new, last) /\ \A i \in CuIds : Vacant(new.cus[i])
  BY <1>1, InitialRight
<1>3. DeviceClearInfo(dev) = IF IsDeviceBusy(dev) THEN dev ELSE new
  BY DEF DeviceClearInfo, new
<1> QED BY <1>2, <1>3

(* An xclbin is loaded where nothing is held.                              *)
LEMMA LoadedRight ==
  ASSUME NEW dev, InOrder(dev), NEW last, DeviceRight(dev, last),
         \A i \in CuIds : Vacant(dev.cus[i]), NEW x
  PROVE  DeviceRight(LoadedWith(dev, x), last)
<1>1. LoadedWith(dev, x).cus = dev.cus
  BY DEF LoadedWith, InOrder, DeviceType
<1> QED BY <1>1 DEF DeviceRight

(* Opening, closing, enabling and disabling touch no CU. *)
LEMMA HandleRight ==
  ASSUME NEW dev, InOrder(dev), NEW last, DeviceRight(dev, last), NEW b
  PROVE  /\ DeviceRight([dev EXCEPT !.open = b], last)
         /\ DeviceRight([dev EXCEPT !.isDisabled = b], last)
         /\ DeviceRight(Opened(dev, b), last)
         /\ Opened(dev, b).cus = dev.cus
<1> DEFINE o == [dev EXCEPT !.open = b]
           w == [dev EXCEPT !.isDisabled = b]
           h == Opened(dev, b)
<1>1. /\ o.xclbin = dev.xclbin /\ o.cus = dev.cus
      /\ w.xclbin = dev.xclbin /\ w.cus = dev.cus
      /\ h.xclbin = dev.xclbin /\ h.cus = dev.cus
  BY DEF InOrder, DeviceType, Opened
<1> HIDE DEF o, w, h
<1>2. DeviceRight(o, last) /\ DeviceRight(w, last) /\ DeviceRight(h, last)
  BY <1>1, FrameRight DEF DeviceRight
<1> QED BY <1>1, <1>2 DEF o, w, h

(* unloadOneDevice. *)
LEMMA UnloadedRight ==
  ASSUME NEW dev, NEW last \in Nat, DeviceRight(dev, last), NEW unlocks
  PROVE  DeviceRight(Unloaded(dev, unlocks), last)
BY ClearInfoRight DEF Unloaded

(* A search that finds nothing on the device. *)
LEMMA ProbeRight ==
  ASSUME NEW dev, InOrder(dev), NEW last, DeviceRight(dev, last), NEW c \in Clients,
         NEW excl \in BOOLEAN
  PROVE  /\ DeviceRight(ProbeDevice(dev, c, excl), last)
         /\ CusOf(ProbeDevice(dev, c, excl)) = CusOf(dev)
<1> DEFINE mid == AllocClientFromDev(dev, c, excl)
           new == ProbeDevice(dev, c, excl)
<1>1. mid \in DeviceType /\ mid.xclbin = dev.xclbin
  <2>1. dev \in DeviceType
    BY DEF InOrder
  <2>2. mid \in DeviceType
    BY <2>1, AllocClientType
  <2>3. mid.xclbin = dev.xclbin
    BY <2>1 DEF AllocClientFromDev, DeviceType
  <2> QED BY <2>2, <2>3
<1>2. ReleaseClientOnDev(mid, c).xclbin = mid.xclbin
  <2> HIDE DEF mid
  <2> QED BY <1>1 DEF ReleaseClientOnDev, DeviceType
<1>3. new = dev \/ new = ReleaseClientOnDev(mid, c)
  BY DEF ProbeDevice
<1>4. new.cus = dev.cus
  BY ProbeInOrder
<1> HIDE DEF new, mid
<1>5. new.xclbin = dev.xclbin
  BY <1>1, <1>2, <1>3
<1>6. DeviceRight(new, last)
  BY <1>4, <1>5, FrameRight DEF DeviceRight
<1> QED BY <1>5, <1>6 DEF CusOf, IsLoaded, new

(* recycleResource on one CU of a loaded device, and on the device. *)
LEMMA RecycledCu ==
  ASSUME NEW dev, InOrder(dev), IsLoaded(dev), NEW C, NEW i \in CuIds
  PROVE  RecycleOnDevice(dev, C).cus[i]
           = ReleaseAllChans(DropReservesOf(dev.cus[i], C), C \cap DeviceClients(dev))
BY DEF RecycleOnDevice, InOrder, DeviceType

LEMMA RecycleRight ==
  ASSUME NEW dev, InOrder(dev), NEW last \in Nat, DeviceRight(dev, last), NEW C \in SUBSET Clients
  PROVE  DeviceRight(RecycleOnDevice(dev, C), last)
<1>1. CASE ~IsLoaded(dev)
  BY <1>1 DEF RecycleOnDevice
<1>2. CASE IsLoaded(dev)
  <2> DEFINE gone == C \cap DeviceClients(dev)
             freed(cu) == ReleaseAllChans(DropReservesOf(cu, C), gone)
             new == RecycleOnDevice(dev, C)
  <2>1. new.xclbin = dev.xclbin /\ \A i \in CuIds : new.cus[i] = freed(dev.cus[i])
    BY <1>2 DEF RecycleOnDevice, InOrder, DeviceType
  <2>2. gone \in SUBSET Clients
    OBVIOUS
  <2> HIDE DEF gone, new
  <2>3. ASSUME NEW i \in CuIds
        PROVE  LoadsRight(freed(dev.cus[i]), last)
    <3> DEFINE drop == DropReservesOf(dev.cus[i], C)
    <3>1. dev.cus[i] \in CuType /\ LoadsRight(dev.cus[i], last)
      BY CusTyped DEF DeviceRight
    <3>2. drop \in CuType /\ LoadsRight(drop, last)
      BY <3>1, DropReservesSafe, DropLoadsRight
    <3> HIDE DEF drop
    <3>3. LoadsRight(ReleaseAllChans(drop, gone), last)
      BY <3>2, ReleaseAllChansRight
    <3> QED BY <3>3 DEF drop
  <2>4. ASSUME NEW i \in CuIds \ CusOf(dev)
        PROVE  Vacant(freed(dev.cus[i]))
    <3>1. /\ dev.cus[i] \in CuType /\ CuIndexed(dev.cus[i])
          /\ LoadsRight(dev.cus[i], last) /\ Vacant(dev.cus[i])
      BY CusTyped DEF DeviceRight
    <3> QED BY <2>2, <3>1, RecycledVacant
  <2> HIDE DEF freed
  <2>5. DeviceRight(new, last)
    BY <2>1, <2>3, <2>4, FrameRight
  <2> QED BY <2>5 DEF new
<1> QED BY <1>1, <1>2

----------------------------------------------------------------------------
(* Searches and allocations. *)
LEMMA ProbeAllRight ==
  ASSUME NEW devs, AllInOrder(devs), NEW last, AllRight(devs, last), NEW D, NEW c \in Clients,
         NEW excl \in BOOLEAN
  PROVE  /\ AllRight(ProbeAll(devs, D, c, excl), last)
         /\ \A d \in Devices : CusOf(ProbeAll(devs, D, c, excl)[d]) = CusOf(devs[d])
<1> DEFINE new == ProbeAll(devs, D, c, excl)
<1>1. ASSUME NEW d \in Devices
      PROVE  DeviceRight(new[d], last) /\ CusOf(new[d]) = CusOf(devs[d])
  <2>1. new[d] = IF d \in D THEN ProbeDevice(devs[d], c, excl) ELSE devs[d]
    BY DEF ProbeAll
  <2>2. InOrder(devs[d]) /\ DeviceRight(devs[d], last)
    BY DEF AllInOrder, AllRight
  <2> HIDE DEF new
  <2> QED BY <2>1, <2>2, ProbeRight
<1> QED BY <1>1 DEF AllRight

LEMMA AllocOnRight ==
  ASSUME NEW devs, AllInOrder(devs), NEW last \in Nat, AllRight(devs, last), NEW s \in Slots,
         s[2] \in CusOf(devs[s[1]]), NEW c \in Clients, NEW req \in Requests,
         NEW pool \in {NoPool} \cup PoolIds, NEW excl \in BOOLEAN,
         CanAllocChan(devs[s[1]].cus[s[2]], pool, req.load)
  PROVE  AllRight(AllocOn(devs, s, c, req, pool, excl), last)
<1> DEFINE d == s[1]
           i == s[2]
           cu == AllocChanClientFromCu(devs[d].cus[i], c, pool, req.load)
           mid == [devs[d] EXCEPT !.cus[i] = cu]
           dev == AllocClientFromDev(mid, c, excl)
<1>1. d \in Devices /\ i \in CuIds /\ req.load \in 0 .. MaxLoad
  BY DEF Slots, Requests
<1>2. InOrder(devs[d]) /\ DeviceRight(devs[d], last)
  BY <1>1 DEF AllInOrder, AllRight
<1>3. /\ devs[d].cus[i] \in CuType /\ CuIndexed(devs[d].cus[i])
      /\ LoadsRight(devs[d].cus[i], last)
  BY <1>1, <1>2, CusTyped DEF DeviceRight
<1>4. LoadsRight(cu, last)
  BY <1>1, <1>3, AllocLoadsRight
<1>5. AllocOn(devs, s, c, req, pool, excl) = [devs EXCEPT ![d] = dev]
  <2>1. AllocOn(devs, s, c, req, pool, excl)
          = [[devs EXCEPT ![d].cus[i] = cu] EXCEPT ![d] = AllocClientFromDev(@, c, excl)]
    BY DEF AllocOn, UpdateCu, CuAt
  <2>2. [devs EXCEPT ![d].cus[i] = cu][d] = mid
    BY <1>1 DEF AllInOrder
  <2> HIDE DEF cu, mid
  <2> QED BY <1>1, <2>1, <2>2 DEF AllInOrder
<1> HIDE DEF cu
<1>6. dev.cus = [devs[d].cus EXCEPT ![i] = cu] /\ dev.xclbin = devs[d].xclbin
  BY <1>2 DEF AllocClientFromDev, InOrder, DeviceType
<1> HIDE DEF mid, dev
<1>7. DeviceRight(dev, last)
  BY <1>2, <1>4, <1>6, OneCuRight
<1> HIDE DEF d
<1> QED BY <1>1, <1>5, <1>7, ReplaceRight

LEMMA AllocCuRight ==
  ASSUME NEW devs, AllInOrder(devs), NEW last \in Nat, AllRight(devs, last), NEW c \in Clients,
         NEW req \in Requests, NEW pool \in {NoPool} \cup PoolIds, NEW excl \in BOOLEAN
  PROVE  AllRight(ResAllocCu(devs, c, req, pool, excl), last)
<1> DEFINE S == AllocCandidates(devs, Devices, c, req, pool, excl)
           s == FirstByAffinity(devs, S)
           probed == ProbeAll(devs, ProbedBefore(devs, s), c, excl)
<1>1. CASE S = {}
  BY <1>1, ProbeAllRight DEF ResAllocCu
<1>2. CASE S # {}
  <2>1. S \in SUBSET Slots
    BY DEF AllocCandidates
  <2>2. s \in S
    <3> HIDE DEF S
    <3> QED BY <1>2, <2>1, FirstByAffinityIn
  <2>3. /\ s \in Slots
        /\ CanAllocChan(devs[s[1]].cus[s[2]], pool, req.load)
        /\ s[2] \in CusOf(devs[s[1]])
    BY <2>2 DEF AllocCandidates, CuAt, MatchingCus
  <2>4. ResAllocCu(devs, c, req, pool, excl) = AllocOn(probed, s, c, req, pool, excl)
    BY <1>2 DEF ResAllocCu
  <2> HIDE DEF S, s
  <2>5. s[1] \in Devices
    BY <2>3 DEF Slots
  <2>6. /\ AllInOrder(probed) /\ AllRight(probed, last)
        /\ probed[s[1]].cus = devs[s[1]].cus
        /\ CusOf(probed[s[1]]) = CusOf(devs[s[1]])
    BY <2>5, ProbeAllInOrder, ProbeAllRight
  <2> HIDE DEF probed
  <2> QED BY <2>3, <2>4, <2>6, AllocOnRight
<1> QED BY <1>1, <1>2

LEMMA AllocCuFromDevRight ==
  ASSUME NEW devs, AllInOrder(devs), NEW last \in Nat, AllRight(devs, last), NEW d \in Devices,
         NEW c \in Clients, NEW req \in Requests, NEW pool \in {NoPool} \cup PoolIds,
         NEW excl \in BOOLEAN
  PROVE  AllRight(ResAllocCuFromDev(devs, d, c, req, pool, excl), last)
<1> DEFINE S == AllocCandidates(devs, {d}, c, req, pool, excl)
           s == FirstByAffinity(devs, S)
<1>1. CASE S = {}
  BY <1>1, ProbeAllRight DEF ResAllocCuFromDev
<1>2. CASE S # {}
  <2>1. S \in SUBSET Slots
    BY DEF AllocCandidates
  <2>2. s \in S
    <3> HIDE DEF S
    <3> QED BY <1>2, <2>1, FirstByAffinityIn
  <2>3. /\ s \in Slots
        /\ CanAllocChan(devs[s[1]].cus[s[2]], pool, req.load)
        /\ s[2] \in CusOf(devs[s[1]])
    BY <2>2 DEF AllocCandidates, CuAt, MatchingCus
  <2>4. ResAllocCuFromDev(devs, d, c, req, pool, excl) = AllocOn(devs, s, c, req, pool, excl)
    BY <1>2 DEF ResAllocCuFromDev
  <2> HIDE DEF S, s
  <2> QED BY <2>3, <2>4, AllocOnRight
<1> QED BY <1>1, <1>2

(* resReleaseCu. *)
LEMMA ReleaseCuRight ==
  ASSUME NEW devs, AllInOrder(devs), NEW last \in Nat, AllRight(devs, last), NEW c \in Clients,
         NEW s \in Slots, NEW k \in Channels, HoldsChannel(devs, c, s, k)
  PROVE  AllRight(ResReleaseCu(devs, c, s, k), last)
<1> DEFINE d == s[1]
           i == s[2]
           cu == ReleaseChan(devs[d].cus[i], c, k)
           mid == [devs[d] EXCEPT !.cus[i] = cu]
           dev == ReleaseClientOnDev(mid, c)
<1>1. d \in Devices /\ i \in CuIds /\ i \in CusOf(devs[d])
  BY DEF Slots, HoldsChannel
<1>2. InOrder(devs[d]) /\ DeviceRight(devs[d], last)
  BY <1>1 DEF AllInOrder, AllRight
<1>3. devs[d].cus[i] \in CuType /\ LoadsRight(devs[d].cus[i], last)
  BY <1>1, <1>2, CusTyped DEF DeviceRight
<1>4. LoadsRight(cu, last)
  BY <1>3, ReleaseChanRight
<1>5. ResReleaseCu(devs, c, s, k) = [devs EXCEPT ![d] = dev]
  <2>1. ResReleaseCu(devs, c, s, k)
          = [[devs EXCEPT ![d].cus[i] = cu] EXCEPT ![d] = ReleaseClientOnDev(@, c)]
    BY DEF ResReleaseCu, UpdateCu, CuAt
  <2>2. [devs EXCEPT ![d].cus[i] = cu][d] = mid
    BY <1>1 DEF AllInOrder
  <2> HIDE DEF cu, mid
  <2> QED BY <1>1, <2>1, <2>2 DEF AllInOrder
<1> HIDE DEF cu
<1>6. dev.cus = [devs[d].cus EXCEPT ![i] = cu] /\ dev.xclbin = devs[d].xclbin
  BY <1>2 DEF ReleaseClientOnDev, InOrder, DeviceType
<1> HIDE DEF mid, dev
<1>7. DeviceRight(dev, last)
  BY <1>1, <1>2, <1>4, <1>6, OneCuRight
<1> HIDE DEF d
<1> QED BY <1>1, <1>5, <1>7, ReplaceRight

----------------------------------------------------------------------------
(* Reservations.  No channel of any CU carries the pool: it is the one the *)
(* call makes.                                                             *)
NowhereCarried(devs, pool) ==
    \A d \in Devices, i \in CuIds : NoneCarries(devs[d].cus[i], pool)

LEMMA ReserveOnRight ==
  ASSUME NEW devs, AllInOrder(devs), NEW last \in Nat, AllRight(devs, last), NEW s \in Slots,
         s[2] \in CusOf(devs[s[1]]), NEW pool \in PoolIds, pool <= last, NEW c \in Clients,
         NEW req \in Requests, CanReserve(CuAt(devs, s), pool, req.load),
         NowhereCarried(devs, pool)
  PROVE  /\ AllRight(ReserveOn(devs, s, pool, c, req), last)
         /\ NowhereCarried(ReserveOn(devs, s, pool, c, req), pool)
<1> DEFINE d == s[1]
           i == s[2]
           cu == ReserveLoadFromCu(devs[d].cus[i], pool, c, req.load)
           dev == [devs[d] EXCEPT !.cus = [devs[d].cus EXCEPT ![i] = cu]]
           new == ReserveOn(devs, s, pool, c, req)
<1>1. d \in Devices /\ i \in CuIds /\ req.load \in 0 .. MaxLoad
  BY DEF Slots, Requests
<1>2. InOrder(devs[d]) /\ DeviceRight(devs[d], last)
  BY <1>1 DEF AllInOrder, AllRight
<1>3. devs[d].cus[i] \in CuType /\ LoadsRight(devs[d].cus[i], last)
  BY <1>1, <1>2, CusTyped DEF DeviceRight
<1>4. NoneCarries(devs[d].cus[i], pool) /\ CanReserve(devs[d].cus[i], pool, req.load)
  BY <1>1 DEF NowhereCarried, CuAt
<1>5. LoadsRight(cu, last) /\ cu.channels = devs[d].cus[i].channels
  BY <1>1, <1>3, <1>4, ReserveLoadsRight, ReserveSafe DEF SameChannels
<1>6. new = [devs EXCEPT ![d] = dev]
  BY <1>1 DEF ReserveOn, UpdateCu, CuAt, AllInOrder
<1> HIDE DEF cu, new
<1>7. dev.cus = [devs[d].cus EXCEPT ![i] = cu] /\ dev.xclbin = devs[d].xclbin
  BY <1>2 DEF InOrder, DeviceType
<1> HIDE DEF dev
<1>8. DeviceRight(dev, last)
  BY <1>1, <1>2, <1>5, <1>7, OneCuRight
<1>9. \A e \in Devices, j \in CuIds : new[e].cus[j].channels = devs[e].cus[j].channels
  <2>1. \A e \in Devices : new[e] = IF e = d THEN dev ELSE devs[e]
    BY <1>6 DEF AllInOrder
  <2>2. \A j \in CuIds : dev.cus[j].channels = devs[d].cus[j].channels
    BY <1>2, <1>5, <1>7 DEF InOrder, DeviceType
  <2> QED BY <2>1, <2>2
<1>10. NowhereCarried(new, pool)
  BY <1>9 DEF NowhereCarried, NoneCarries
<1> HIDE DEF d
<1>11. AllRight(new, last)
  BY <1>1, <1>6, <1>8, ReplaceRight
<1> QED BY <1>10, <1>11 DEF new

(* resRelinquishCuPool gives back unused reservations only; where nothing  *)
(* carries the pool it gives back all of them.                             *)
LEMMA RelinquishRight ==
  ASSUME NEW devs, AllInOrder(devs), NEW last \in Nat, AllRight(devs, last), NEW pool \in PoolIds
  PROVE  /\ AllRight(ResRelinquishCuPool(devs, pool), last)
         /\ NowhereCarried(devs, pool) =>
              /\ NowhereCarried(ResRelinquishCuPool(devs, pool), pool)
              /\ \A d \in Devices, i \in CuIds :
                   ~IsReservePoolUsingCu(ResRelinquishCuPool(devs, pool)[d].cus[i], pool)
<1> DEFINE given == {s \in PoolSlots(devs, pool) :
                       \A u \in UsedPoolSlots(devs, pool) : Before(s, u)}
           new == ResRelinquishCuPool(devs, pool)
<1>1. ASSUME NEW d \in Devices
      PROVE  /\ new[d].xclbin = devs[d].xclbin
             /\ \A i \in CuIds : new[d].cus[i] = IF <<d, i>> \in given
                                                 THEN RelinquishOnCu(devs[d].cus[i], pool)
                                                 ELSE devs[d].cus[i]
  BY DEF ResRelinquishCuPool, AllInOrder, InOrder, DeviceType
<1>2. \A d \in Devices, i \in CuIds :
         <<d, i>> \in PoolSlots(devs, pool)
            <=> i \in CusOf(devs[d]) /\ IsReservePoolUsingCu(devs[d].cus[i], pool)
  BY DEF PoolSlots, Slots, CuAt
<1>3. ASSUME NEW d \in Devices, NEW i \in CuIds, <<d, i>> \in given
      PROVE  devs[d].cus[i].reserves[pool].used = 0
  <2>1. SUFFICES ASSUME <<d, i>> \in UsedPoolSlots(devs, pool) PROVE FALSE
    BY <1>3 DEF UsedPoolSlots, CuAt
  <2>2. Before(<<d, i>>, <<d, i>>)
    BY <1>3, <2>1
  <2> QED BY <2>2, SystemAssumption, DeviceAssumption DEF Before, Devices, CuIds
<1>4. ASSUME NEW d \in Devices, NEW i \in CuIds
      PROVE  /\ devs[d].cus[i] \in CuType
             /\ LoadsRight(devs[d].cus[i], last)
             /\ i \notin CusOf(devs[d]) => Vacant(devs[d].cus[i])
  BY CusTyped DEF AllInOrder, AllRight, DeviceRight
<1>5. ASSUME NEW d \in Devices, NEW i \in CuIds, <<d, i>> \in given
      PROVE  /\ LoadsRight(new[d].cus[i], last)
             /\ ~IsReservePoolUsingCu(new[d].cus[i], pool)
             /\ new[d].cus[i].channels = devs[d].cus[i].channels
             /\ i \in CusOf(devs[d])
  <2>1. IsReservePoolUsingCu(devs[d].cus[i], pool) /\ i \in CusOf(devs[d])
    BY <1>2, <1>5
  <2>2. new[d].cus[i] = RelinquishOnCu(devs[d].cus[i], pool)
    BY <1>1, <1>5
  <2> HIDE DEF new
  <2> QED BY <1>3, <1>4, <1>5, <2>1, <2>2, RelinquishLoadsRight, RelinquishSafe DEF SameChannels
<1>6. AllRight(new, last)
  <2>1. ASSUME NEW d \in Devices PROVE DeviceRight(new[d], last)
    <3>1. \A i \in CuIds : LoadsRight(new[d].cus[i], last)
      BY <1>1, <1>4, <1>5
    <3>2. \A i \in CuIds \ CusOf(devs[d]) : Vacant(new[d].cus[i])
      BY <1>1, <1>4, <1>5
    <3>3. new[d].xclbin = devs[d].xclbin
      BY <1>1
    <3> HIDE DEF new
    <3> QED BY <3>1, <3>2, <3>3, FrameRight
  <2> QED BY <2>1 DEF AllRight
<1>7. ASSUME NowhereCarried(devs, pool), NEW d \in Devices, NEW i \in CuIds
      PROVE  /\ NoneCarries(new[d].cus[i], pool)
             /\ ~IsReservePoolUsingCu(new[d].cus[i], pool)
  <2>1. UsedPoolSlots(devs, pool) = {}
    <3> SUFFICES ASSUME NEW u \in UsedPoolSlots(devs, pool) PROVE FALSE
      OBVIOUS
    <3>1. /\ u[1] \in Devices /\ u[2] \in CuIds
          /\ IsReservePoolUsingCu(devs[u[1]].cus[u[2]], pool)
          /\ devs[u[1]].cus[u[2]].reserves[pool].used # 0
      BY DEF UsedPoolSlots, PoolSlots, Slots, CuAt
    <3>2. NoneCarries(devs[u[1]].cus[u[2]], pool)
      BY <1>7, <3>1 DEF NowhereCarried
    <3> QED BY <1>4, <3>1, <3>2, SlotsRight, NothingCarried
  <2>2. given = PoolSlots(devs, pool)
    BY <2>1
  <2>3. NoneCarries(devs[d].cus[i], pool)
    BY <1>7 DEF NowhereCarried
  <2>4. CASE <<d, i>> \in given
    BY <1>5, <2>3, <2>4 DEF NoneCarries
  <2>5. CASE <<d, i>> \notin given
    <3>1. new[d].cus[i] = devs[d].cus[i]
      BY <1>1, <2>5
    <3>2. ~(i \in CusOf(devs[d]) /\ IsReservePoolUsingCu(devs[d].cus[i], pool))
      BY <1>2, <2>2, <2>5
    <3>3. i \notin CusOf(devs[d]) => ~IsReservePoolUsingCu(devs[d].cus[i], pool)
      BY <1>4 DEF Vacant, ReservingPools
    <3> QED BY <2>3, <3>1, <3>2, <3>3
  <2> QED BY <2>4, <2>5
<1> QED BY <1>6, <1>7 DEF NowhereCarried

(* recycleResource. *)
LEMMA RecycledRight ==
  ASSUME NEW devs, AllInOrder(devs), NEW last \in Nat, AllRight(devs, last),
         NEW C \in SUBSET Clients
  PROVE  AllRight(Recycled(devs, C), last)
<1>1. \A d \in Devices : Recycled(devs, C)[d] = RecycleOnDevice(devs[d], C)
  BY DEF Recycled
<1>2. \A d \in Devices : DeviceRight(RecycleOnDevice(devs[d], C), last)
  BY RecycleRight DEF AllInOrder, AllRight
<1> QED BY <1>1, <1>2 DEF AllRight

(* loadAnyDevice loads a device that was not loaded, or one it has found   *)
(* idle and cleared; on the others it tried nothing is left, or changed.   *)
LEMMA LoadedAnyRight ==
  ASSUME NEW devs, AllInOrder(devs), NEW last \in Nat, AllRight(devs, last), NEW x \in Xclbins,
         NEW good, NEW unlocks, NEW opens
  PROVE  AllRight(LoadedAny(devs, x, good, unlocks, opens), last)
<1> DEFINE new == LoadedAny(devs, x, good, unlocks, opens)
           missed(d) == Opened(DeviceClearInfo(devs[d]), ~devs[d].isDisabled /\ d \in opens)
           target == LoadTarget(devs, good, unlocks, opens)
<1>1. ASSUME NEW d \in Devices PROVE DeviceRight(new[d], last)
  <2>1. InOrder(devs[d]) /\ DeviceRight(devs[d], last)
    BY DEF AllInOrder, AllRight
  <2>2. /\ InOrder(DeviceClearInfo(devs[d])) /\ DeviceRight(DeviceClearInfo(devs[d]), last)
        /\ ~IsDeviceBusy(devs[d]) => \A i \in CuIds : Vacant(DeviceClearInfo(devs[d]).cus[i])
    BY <2>1, ClearInfoInOrder, ClearInfoRight
  <2>3. \/ d \notin target /\ new[d] \in {missed(d), devs[d]}
        \/ d \in target /\ target \subseteq FreeDevices(devs) /\ new[d] = LoadedWith(devs[d], x)
        \/ /\ d \in target /\ ~(target \subseteq FreeDevices(devs))
           /\ new[d] = LoadedWith(DeviceClearInfo(devs[d]), x)
    BY DEF LoadedAny
  <2> HIDE DEF new, missed, target
  <2>4. CASE d \notin target /\ new[d] \in {missed(d), devs[d]}
    <3>1. DeviceRight(missed(d), last)
      BY <2>2, HandleRight DEF missed
    <3> QED BY <2>1, <2>4, <3>1
  <2>5. CASE /\ d \in target /\ target \subseteq FreeDevices(devs)
             /\ new[d] = LoadedWith(devs[d], x)
    <3>1. \A i \in CuIds : Vacant(devs[d].cus[i])
      BY <2>1, <2>5, UnloadedVacant DEF FreeDevices
    <3> QED BY <2>1, <2>5, <3>1, LoadedRight
  <2>6. CASE /\ d \in target /\ ~(target \subseteq FreeDevices(devs))
             /\ new[d] = LoadedWith(DeviceClearInfo(devs[d]), x)
    <3>1. target \subseteq LoadPass(devs, good, unlocks, opens)
      BY DEF target, LoadTarget, FirstLoadable
    <3>2. d \in IdleDevices(devs, unlocks)
      BY <2>6, <3>1 DEF LoadPass
    <3>3. \A i \in CuIds : Vacant(DeviceClearInfo(devs[d]).cus[i])
      BY <2>2, <3>2 DEF IdleDevices
    <3> QED BY <2>2, <2>6, <3>3, LoadedRight
  <2> QED BY <2>3, <2>4, <2>5, <2>6
<1> QED BY <1>1 DEF AllRight

----------------------------------------------------------------------------
(* The counters are right when the daemon has probed the devices.          *)
LEMMA InitLoadsRight == Init => AllInOrder(devList) /\ AllRight(devList, reservePoolId)
<1>1. ASSUME NEW opened \in [Devices -> BOOLEAN],
             devList = [d \in Devices |-> InitialDevice(opened[d])]
      PROVE  AllRight(devList, 0)
  <2>1. \A d \in Devices : InitialDevice(opened[d]).cus = [i \in CuIds |-> EmptyCu]
    BY DEF InitialDevice
  <2>2. \A d \in Devices : DeviceRight(InitialDevice(opened[d]), 0)
    BY <2>1, InitialRight
  <2> QED BY <1>1, <2>2 DEF AllRight
<1>2. Init => AllInOrder(devList)
  BY InitInOrder, HoldingsAreInOrder
<1> QED BY <1>1, <1>2 DEF Init

(* A new pool id: the counters are right of it, too, and nothing carries   *)
(* it.                                                                     *)
LEMMA NextPoolId ==
  ASSUME NEW devs, AllInOrder(devs), NEW last \in Nat, AllRight(devs, last)
  PROVE  AllRight(devs, last + 1) /\ NowhereCarried(devs, last + 1)
<1>1. ASSUME NEW d \in Devices, NEW i \in CuIds
      PROVE  LoadsRight(devs[d].cus[i], last + 1) /\ NoneCarries(devs[d].cus[i], last + 1)
  <2>1. devs[d].cus[i] \in CuType /\ LoadsRight(devs[d].cus[i], last)
    BY CusTyped DEF AllInOrder, AllRight, DeviceRight
  <2>2. last + 1 \in Nat /\ last <= last + 1
    OBVIOUS
  <2>3. LoadsRight(devs[d].cus[i], last + 1)
    BY <2>1, <2>2, LaterRight
  <2> QED BY <2>1, <2>3, NextNotCarried
<1> QED BY <1>1 DEF AllRight, DeviceRight, NowhereCarried

(* One step per call: every call of a client or of an administrator, and   *)
(* the reset worker, keep the counters right.                              *)
LEMMA CallsKeepLoads ==
  ASSUME AllInOrder(devList), reservePoolId \in 0 .. MaxPool,
         AllRight(devList, reservePoolId), Next
  PROVE  AllRight(devList', reservePoolId')
<1>0. reservePoolId \in Nat
  BY CuAssumption
<1> USE <1>0
<1>1. ASSUME NEW c \in Clients, NEW req \in Requests, NEW pool \in {NoPool} \cup PoolIds,
             NEW excl \in BOOLEAN, AllocCu(c, req, pool, excl)
      PROVE  AllRight(devList', reservePoolId')
  BY <1>1, AllocCuRight DEF AllocCu
<1>2. ASSUME NEW c \in Clients, NEW req \in Requests, NEW pool \in {NoPool} \cup PoolIds,
             NEW excl \in BOOLEAN, NEW d \in Devices, AllocCuFromDev(d, c, req, pool, excl)
      PROVE  AllRight(devList', reservePoolId')
  BY <1>2, AllocCuFromDevRight DEF AllocCuFromDev
<1>3. ASSUME NEW c \in Clients, NEW s \in Slots, NEW k \in Channels, ReleaseCu(c, s, k)
      PROVE  AllRight(devList', reservePoolId')
  BY <1>3, ReleaseCuRight DEF ReleaseCu
<1>4. ASSUME NEW c \in Clients, NEW req \in Requests, ReserveCuPool(c, req)
      PROVE  AllRight(devList', reservePoolId')
  <2> DEFINE pool == reservePoolId + 1
             S == ReserveCandidates(devList, pool, c, req)
             s == FirstByAffinity(devList, S)
  <2>1. S # {} /\ S \in SUBSET Slots /\ pool \in PoolIds
    BY <1>4 DEF ReserveCuPool, ReserveCandidates
  <2>2. devList' = ReserveOn(devList, s, pool, c, req) /\ reservePoolId' = pool
    BY <1>4 DEF ReserveCuPool
  <2>3. pool \in Nat /\ pool <= pool /\ AllRight(devList, pool) /\ NowhereCarried(devList, pool)
    BY NextPoolId
  <2>4. s \in S
    <3> HIDE DEF S, pool
    <3> QED BY <2>1, FirstByAffinityIn
  <2>5. /\ s \in Slots /\ s[2] \in CusOf(devList[s[1]])
        /\ CanReserve(CuAt(devList, s), pool, req.load)
    BY <2>4 DEF ReserveCandidates, MatchingCus
  <2> HIDE DEF S, s, pool
  <2> QED BY <2>1, <2>2, <2>3, <2>5, ReserveOnRight
<1>5. ASSUME NEW c \in Clients, NEW req1 \in Requests, NEW req2 \in Requests,
             ReserveCuPoolOfTwo(c, req1, req2)
      PROVE  AllRight(devList', reservePoolId')
  <2> DEFINE pool == reservePoolId + 1
             S1 == ReserveCandidates(devList, pool, c, req1)
             s1 == FirstByAffinity(devList, S1)
             one == ReserveOn(devList, s1, pool, c, req1)
             S2 == ReserveCandidates(one, pool, c, req2)
             s2 == FirstByAffinity(one, S2)
             none == ResRelinquishCuPool(one, pool)
  <2>1. S1 # {} /\ S1 \in SUBSET Slots /\ S2 \in SUBSET Slots /\ pool \in PoolIds
    BY <1>5 DEF ReserveCuPoolOfTwo, ReserveCandidates
  <2>2. \/ S2 # {} /\ devList' = ReserveOn(one, s2, pool, c, req2) /\ reservePoolId' = pool
        \/ devList' = none /\ reservePoolId' = reservePoolId
    BY <1>5 DEF ReserveCuPoolOfTwo
  <2>3. pool \in Nat /\ pool <= pool /\ AllRight(devList, pool) /\ NowhereCarried(devList, pool)
    BY NextPoolId
  <2>4. s1 \in S1
    <3> HIDE DEF S1, pool
    <3> QED BY <2>1, FirstByAffinityIn
  <2>5. /\ s1 \in Slots /\ s1[2] \in CusOf(devList[s1[1]])
        /\ CanReserve(CuAt(devList, s1), pool, req1.load)
    BY <2>4 DEF ReserveCandidates, MatchingCus
  <2> HIDE DEF S1, s1
  <2>6. S2 # {} => /\ s2 \in Slots /\ s2[2] \in CusOf(one[s2[1]])
                   /\ CanReserve(CuAt(one, s2), pool, req2.load)
    <3>1. ASSUME S2 # {} PROVE s2 \in S2
      <4> HIDE DEF S2, pool, one
      <4> QED BY <2>1, <3>1, FirstByAffinityIn
    <3> HIDE DEF one, s2, pool
    <3> QED BY <3>1 DEF ReserveCandidates, MatchingCus
  <2>7. pool = reservePoolId + 1
    OBVIOUS
  <2> HIDE DEF S2, s2, pool
  <2>8. AllInOrder(one) /\ AllRight(one, pool) /\ NowhereCarried(one, pool)
    BY <2>1, <2>3, <2>5, ReserveOnInOrder, ReserveOnRight
  <2> HIDE DEF one
  <2>9. CASE S2 # {} /\ devList' = ReserveOn(one, s2, pool, c, req2) /\ reservePoolId' = pool
    BY <2>1, <2>3, <2>6, <2>8, <2>9, ReserveOnRight
  <2>10. CASE devList' = none /\ reservePoolId' = reservePoolId
    <3>1. /\ AllInOrder(none) /\ AllRight(none, pool) /\ NowhereCarried(none, pool)
          /\ \A d \in Devices, i \in CuIds : ~IsReservePoolUsingCu(none[d].cus[i], pool)
      BY <2>1, <2>3, <2>8, RelinquishInOrder, RelinquishRight
    <3> HIDE DEF none
    <3>2. ASSUME NEW d \in Devices, NEW i \in CuIds
          PROVE  LoadsRight(none[d].cus[i], reservePoolId)
      <4>1. none[d].cus[i] \in CuType
        BY <3>1, CusTyped DEF AllInOrder
      <4>2. /\ LoadsRight(none[d].cus[i], reservePoolId + 1)
            /\ NoneCarries(none[d].cus[i], reservePoolId + 1)
            /\ ~IsReservePoolUsingCu(none[d].cus[i], reservePoolId + 1)
        BY <2>7, <3>1 DEF AllRight, DeviceRight, NowhereCarried
      <4>3. reservePoolId + 1 \in PoolIds
        BY <2>1, <2>7
      <4> QED BY <4>1, <4>2, <4>3, AnnulledRight
    <3>3. AllRight(none, reservePoolId)
      BY <3>1, <3>2 DEF AllRight, DeviceRight
    <3> QED BY <2>10, <3>3
  <2> QED BY <2>2, <2>9, <2>10
<1>6. ASSUME NEW c \in Clients, RecycleResource(c)
      PROVE  AllRight(devList', reservePoolId')
  <2>1. {c} \in SUBSET Clients
    OBVIOUS
  <2> QED BY <1>6, <2>1, RecycledRight DEF RecycleResource
<1>7. ASSUME NEW pool \in PoolIds, RelinquishCuPool(pool)
      PROVE  AllRight(devList', reservePoolId')
  BY <1>7, RelinquishRight DEF RelinquishCuPool
<1>8. ASSUME NEW d \in Devices, NEW x \in Xclbins, NEW opens \in BOOLEAN, NEW ok \in BOOLEAN,
             LoadXclbin(d, x, opens, ok)
      PROVE  AllRight(devList', reservePoolId')
  <2> DEFINE dev == Opened(devList[d], opens)
             new == IF ok /\ dev.open THEN LoadedWith(dev, x) ELSE DeviceClearInfo(dev)
  <2>1. /\ InOrder(devList[d]) /\ DeviceRight(devList[d], reservePoolId)
        /\ \A i \in CuIds : Vacant(devList[d].cus[i])
    BY <1>8, UnloadedVacant DEF AllInOrder, AllRight, LoadXclbin
  <2>2. InOrder(dev) /\ DeviceRight(dev, reservePoolId) /\ dev.cus = devList[d].cus
    BY <2>1, OpenedInOrder, HandleRight
  <2>3. devList' = [devList EXCEPT ![d] = new] /\ UNCHANGED reservePoolId
    BY <1>8 DEF LoadXclbin
  <2> HIDE DEF dev
  <2>4. DeviceRight(LoadedWith(dev, x), reservePoolId)
    BY <2>1, <2>2, LoadedRight
  <2>5. DeviceRight(DeviceClearInfo(dev), reservePoolId)
    BY <2>2, ClearInfoRight
  <2>6. DeviceRight(new, reservePoolId)
    BY <2>4, <2>5
  <2> HIDE DEF new
  <2> QED BY <2>3, <2>6, ReplaceRight
<1>9. ASSUME NEW d \in Devices, NEW unlocks \in BOOLEAN, UnloadDevice(d, unlocks)
      PROVE  AllRight(devList', reservePoolId')
  <2> DEFINE new == Unloaded(devList[d], unlocks)
  <2>1. devList' = [devList EXCEPT ![d] = new] /\ UNCHANGED reservePoolId
    BY <1>9 DEF UnloadDevice
  <2>2. DeviceRight(new, reservePoolId)
    BY UnloadedRight DEF AllRight
  <2> HIDE DEF new
  <2> QED BY <2>1, <2>2, ReplaceRight
<1>10. ASSUME NEW d \in Devices, EnableDevice(d)
       PROVE  AllRight(devList', reservePoolId')
  <2> DEFINE new == [devList[d] EXCEPT !.isDisabled = FALSE]
  <2>1. devList' = [devList EXCEPT ![d] = new] /\ UNCHANGED reservePoolId
    BY <1>10 DEF EnableDevice
  <2>2. InOrder(devList[d]) /\ DeviceRight(devList[d], reservePoolId)
    BY DEF AllInOrder, AllRight
  <2>3. DeviceRight(new, reservePoolId)
    BY <2>2, HandleRight
  <2> HIDE DEF new
  <2> QED BY <2>1, <2>3, ReplaceRight
<1>11. ASSUME NEW d \in Devices, NEW unlocks \in BOOLEAN, DisableDevice(d, unlocks)
       PROVE  AllRight(devList', reservePoolId')
  <2> DEFINE dev == IF IsLoaded(devList[d]) THEN DeviceClearInfo(devList[d]) ELSE devList[d]
             new == [dev EXCEPT !.isDisabled = TRUE]
  <2>1. devList' = [devList EXCEPT ![d] = new] /\ UNCHANGED reservePoolId
    BY <1>11 DEF DisableDevice
  <2>2. InOrder(devList[d]) /\ DeviceRight(devList[d], reservePoolId)
    BY DEF AllInOrder, AllRight
  <2>3. InOrder(dev) /\ DeviceRight(dev, reservePoolId)
    BY <2>2, ClearInfoInOrder, ClearInfoRight
  <2> HIDE DEF dev
  <2>4. DeviceRight(new, reservePoolId)
    BY <2>3, HandleRight
  <2> HIDE DEF new
  <2> QED BY <2>1, <2>4, ReplaceRight
<1>12. ASSUME NEW d \in Devices, NEW unlocks \in BOOLEAN, ResetDevice(d, unlocks)
       PROVE  AllRight(devList', reservePoolId')
  <2> DEFINE rest == Recycled(devList, DeviceClients(devList[d]))
             dev == Unloaded(rest[d], unlocks)
             new == [dev EXCEPT !.open = FALSE]
  <2>1. devList' = [rest EXCEPT ![d] = new] /\ UNCHANGED reservePoolId
    BY <1>12 DEF ResetDevice
  <2>2. DeviceClients(devList[d]) \in SUBSET Clients
    BY DEF DeviceClients
  <2>3. AllInOrder(rest) /\ AllRight(rest, reservePoolId)
    BY <2>2, RecycledInOrder, RecycledRight
  <2> HIDE DEF rest
  <2>4. InOrder(dev) /\ DeviceRight(dev, reservePoolId)
    BY <2>3, UnloadedInOrder, UnloadedRight DEF AllInOrder, AllRight
  <2> HIDE DEF dev
  <2>5. DeviceRight(new, reservePoolId)
    BY <2>4, HandleRight
  <2> HIDE DEF new
  <2> QED BY <2>1, <2>3, <2>5, ReplaceRight
<1>13. ASSUME NEW x \in Xclbins, NEW good \in SUBSET Devices, NEW unlocks \in SUBSET Devices,
              NEW opens \in SUBSET Devices, LoadAnyDevice(x, good, unlocks, opens)
       PROVE  AllRight(devList', reservePoolId')
  BY <1>13, LoadedAnyRight DEF LoadAnyDevice
<1>14. CASE \E c \in Clients : ClientCall(c)
  BY <1>1, <1>2, <1>3, <1>4, <1>5, <1>6, <1>14 DEF ClientCall
<1>15. CASE \E d \in Devices : DeviceCall(d)
  BY <1>8, <1>9, <1>10, <1>11, <1>12, <1>15 DEF DeviceCall
<1> QED BY <1>7, <1>13, <1>14, <1>15 DEF Next

----------------------------------------------------------------------------
(* IInv is inductive: it holds of a daemon that has just started, and      *)
(* every call keeps it.                                                    *)
LEMMA IInvIsRight ==
  IInv <=> /\ AllInOrder(devList) /\ reservePoolId \in 0 .. MaxPool
           /\ AllRight(devList, reservePoolId)
BY HoldingsAreInOrder, LoadsAreRight DEF IInv

THEOREM IInvInvariant == Spec => []IInv
<1>1. Init => IInv
  <2>1. Init => reservePoolId \in 0 .. MaxPool
    BY CuAssumption DEF Init
  <2> QED BY <2>1, InitLoadsRight, IInvIsRight
<1>2. IInv /\ [Next]_vars => IInv'
  <2> SUFFICES ASSUME IInv, [Next]_vars PROVE IInv'
    OBVIOUS
  <2>1. /\ AllInOrder(devList) /\ reservePoolId \in 0 .. MaxPool
        /\ AllRight(devList, reservePoolId)
    BY IInvIsRight
  <2>2. (IInv <=> /\ AllInOrder(devList) /\ reservePoolId \in 0 .. MaxPool
                  /\ AllRight(devList, reservePoolId))'
    BY IInvIsRight, PTL
  <2>3. CASE Next
    BY <2>1, <2>2, <2>3, CallsInOrder, CallsKeepLoads
  <2>4. CASE UNCHANGED vars
    BY <2>1, <2>2, <2>4 DEF vars
  <2> QED BY <2>3, <2>4
<1> QED BY <1>1, <1>2, PTL DEF Spec

(* The three load counters of every CU always equal what its channels and  *)
(* reservations add up to.                                                 *)
THEOREM LoadsAlwaysBalanced == Spec => []LoadsBalanced
<1>1. IInv => LoadsBalanced
  BY DEF IInv, LoadsInOrder, LoadsRight, LoadsBalanced
<1> QED BY <1>1, IInvInvariant, PTL

(* No CU is ever given out beyond its capacity, and no pool beyond what it *)
(* has reserved.                                                           *)
THEOREM CapacityNeverExceeded == Spec => []NeverOvercommitted
<1>1. IInv => NeverOvercommitted
  <2> SUFFICES ASSUME IInv, NEW s \in Slots PROVE CuWithinCapacity(CuAt(devList, s))
    BY DEF NeverOvercommitted
  <2>1. LoadsRight(CuAt(devList, s), reservePoolId)
    BY DEF IInv, LoadsInOrder
  <2>2. CuAt(devList, s) \in CuType
    BY DEF IInv, HoldingsInOrder, TypeOK, Slots, CuAt, DeviceType
  <2> QED BY <2>1, <2>2, CapacityKept
<1> QED BY <1>1, IInvInvariant, PTL

----------------------------------------------------------------------------
(* What recycling leaves on one device: nothing of the clients recycled.   *)
LEMMA RecycledForgets ==
  ASSUME NEW dev, InOrder(dev), NEW last \in Nat, DeviceRight(dev, last),
         NEW C \in SUBSET Clients, NEW c \in C
  PROVE  LET new == RecycleOnDevice(dev, C)
         IN  /\ Held(new, c) = {}
             /\ ~UsesDevice(new, c)
             /\ \A i \in CuIds, p \in PoolIds : new.cus[i].reserves[p].client # c
<1> DEFINE new == RecycleOnDevice(dev, C)
           gone == C \cap DeviceClients(dev)
<1>1. c \in Clients /\ c # NoClient
  BY CuAssumption
<1>2. CASE ~IsLoaded(dev)
  <2>1. new = dev
    BY <1>2 DEF RecycleOnDevice
  <2>2. \A i \in CuIds : BusyChannels(dev.cus[i]) = {} /\ ReservingPools(dev.cus[i]) = {}
    BY <1>2, UnloadedVacant DEF Vacant
  <2>3. Held(dev, c) = {}
    BY <1>1, <2>2 DEF Held, BusyChannels
  <2>4. ~UsesDevice(dev, c)
    BY <1>1, <2>3, UsesIffHolds DEF InOrder
  <2>5. \A i \in CuIds, p \in PoolIds : dev.cus[i].reserves[p].client = NoClient
    BY <2>2 DEF ReservingPools, IsReservePoolUsingCu
  <2> QED BY <1>1, <2>1, <2>3, <2>4, <2>5
<1>3. CASE IsLoaded(dev)
  <2> DEFINE freed(cu) == ReleaseAllChans(DropReservesOf(cu, C), gone)
  <2>1. /\ \A i \in CuIds : new.cus[i] = freed(dev.cus[i])
        /\ \A b \in Clients : new.procs[b] = IF b \in gone THEN 0 ELSE dev.procs[b]
    BY <1>3 DEF RecycleOnDevice, InOrder, DeviceType
  <2>2. InOrder(new)
    BY RecycleInOrder
  <2> HIDE DEF new
  <2>3. ~UsesDevice(new, c)
    BY <1>1, <2>1 DEF UsesDevice, DeviceClients
  <2>4. Held(new, c) = {}
    BY <1>1, <2>2, <2>3, UsesIffHolds DEF InOrder
  <2>5. ASSUME NEW i \in CuIds, NEW p \in PoolIds
        PROVE  new.cus[i].reserves[p].client # c
    <3> DEFINE drop == DropReservesOf(dev.cus[i], C)
    <3>1. dev.cus[i] \in CuType /\ LoadsRight(dev.cus[i], last)
      BY CusTyped DEF DeviceRight
    <3>2. /\ drop \in CuType /\ LoadsRight(drop, last)
          /\ drop.reserves[p].client # c
      BY <1>1, <3>1, DropReservesSafe, DropLoadsRight
    <3>3. new.cus[i] = ReleaseAllChans(drop, gone)
      BY <2>1
    <3> HIDE DEF drop, gone
    <3> QED BY <3>2, <3>3, ReleaseAllChansRight
  <2> QED BY <2>3, <2>4, <2>5 DEF new
<1> QED BY <1>2, <1>3

(* A broken client, or one that leaves, loses everything it had, on every  *)
(* device, whatever it shares with others and with whom.                   *)
THEOREM RecyclingComplete == Spec => RecycledCompletely
<1>1. IInv /\ [Next]_vars => [\A c \in Clients : RecycleResource(c) => Forgotten(c)']_vars
  <2> SUFFICES ASSUME IInv, NEW c \in Clients, RecycleResource(c)
               PROVE  Forgotten(c)'
    OBVIOUS
  <2>1. /\ AllInOrder(devList) /\ AllRight(devList, reservePoolId)
        /\ reservePoolId \in Nat
    BY IInvIsRight, CuAssumption
  <2>2. \A d \in Devices : devList'[d] = RecycleOnDevice(devList[d], {c})
    BY DEF RecycleResource, Recycled
  <2>3. ASSUME NEW d \in Devices
        PROVE  /\ Held(devList'[d], c) = {}
               /\ ~UsesDevice(devList'[d], c)
               /\ \A i \in CuIds, p \in PoolIds : devList'[d].cus[i].reserves[p].client # c
    <3>1. InOrder(devList[d]) /\ DeviceRight(devList[d], reservePoolId)
      BY <2>1 DEF AllInOrder, AllRight
    <3> DEFINE new == RecycleOnDevice(devList[d], {c})
    <3>2. /\ Held(new, c) = {}
          /\ ~UsesDevice(new, c)
          /\ \A i \in CuIds, p \in PoolIds : new.cus[i].reserves[p].client # c
      BY <2>1, <3>1, RecycledForgets
    <3>3. devList'[d] = new
      BY <2>2
    <3> HIDE DEF new
    <3> QED BY <3>2, <3>3
  <2> QED BY <2>3 DEF Forgotten
<1> QED BY <1>1, IInvInvariant, PTL DEF Spec, RecycledCompletely

----------------------------------------------------------------------------
(* An idle device is vacant: nobody holds a channel or a reservation of it.*)
LEMMA IdleDeviceVacant ==
  ASSUME NEW dev, InOrder(dev), NEW last \in Nat, DeviceRight(dev, last), ~IsDeviceBusy(dev)
  PROVE  \A i \in CuIds : Vacant(dev.cus[i])
<1> TAKE i \in CuIds
<1>1. /\ dev.cus[i] \in CuType /\ CuIndexed(dev.cus[i]) /\ LoadsRight(dev.cus[i], last)
  BY CusTyped DEF DeviceRight
<1>2. CASE i \in CusOf(dev)
  BY <1>1, <1>2, IdleVacant DEF IsDeviceBusy
<1>3. CASE i \notin CusOf(dev)
  BY <1>3 DEF DeviceRight
<1> QED BY <1>2, <1>3

(* UnloadEvictsNobody, of one device before and after a step. *)
NobodyEvicted(dev, new) ==
    IsLoaded(dev) /\ ~IsLoaded(new) =>
        \A i \in CuIds :
            /\ BusyChannels(dev.cus[i]) # {} => ~new.open
            /\ \A p \in PoolIds : dev.cus[i].reserves[p].client # NoClient =>
                   UsesDevice(dev, dev.cus[i].reserves[p].client)

(* An unloaded device was vacant. *)
LEMMA VacantEvictsNobody ==
  ASSUME NEW dev, NEW new, \A i \in CuIds : Vacant(dev.cus[i])
  PROVE  NobodyEvicted(dev, new)
BY DEF NobodyEvicted, Vacant, ReservingPools, IsReservePoolUsingCu

(* What deviceClearInfo unloads is idle. *)
LEMMA ClearEvictsNobody ==
  ASSUME NEW dev, InOrder(dev), NEW last \in Nat, DeviceRight(dev, last), NEW new,
         new.xclbin = DeviceClearInfo(dev).xclbin \/ new.xclbin = dev.xclbin
  PROVE  NobodyEvicted(dev, new)
<1>1. CASE IsDeviceBusy(dev)
  BY <1>1 DEF DeviceClearInfo, NobodyEvicted, IsLoaded
<1>2. CASE ~IsDeviceBusy(dev)
  BY <1>2, IdleDeviceVacant, VacantEvictsNobody
<1> QED BY <1>1, <1>2

(* Calls of clients leave every device with its xclbin, in service or not. *)
SameMode(dev, new) == new.xclbin = dev.xclbin /\ new.isDisabled = dev.isDisabled

SameXclbins(devs, new) == \A d \in Devices : SameMode(devs[d], new[d])

LEMMA AllocKeepsXclbins ==
  ASSUME NEW devs, AllInOrder(devs), NEW c \in Clients, NEW req \in Requests,
         NEW pool \in {NoPool} \cup PoolIds, NEW excl \in BOOLEAN
  PROVE  /\ SameXclbins(devs, ResAllocCu(devs, c, req, pool, excl))
         /\ \A d \in Devices : SameXclbins(devs, ResAllocCuFromDev(devs, d, c, req, pool, excl))
<1>1. ASSUME NEW dev \in DeviceType
      PROVE  /\ SameMode(dev, AllocClientFromDev(dev, c, excl))
             /\ SameMode(dev, ReleaseClientOnDev(dev, c))
  BY DEF AllocClientFromDev, ReleaseClientOnDev, DeviceType, SameMode
<1>2. ASSUME NEW D PROVE SameXclbins(devs, ProbeAll(devs, D, c, excl))
  <2>1. ASSUME NEW d \in Devices PROVE SameMode(devs[d], ProbeDevice(devs[d], c, excl))
    <3> DEFINE mid == AllocClientFromDev(devs[d], c, excl)
    <3>1. devs[d] \in DeviceType
      BY DEF AllInOrder
    <3>2. mid \in DeviceType /\ SameMode(devs[d], mid)
      BY <1>1, <3>1, AllocClientType
    <3> HIDE DEF mid
    <3>3. SameMode(devs[d], ReleaseClientOnDev(mid, c))
      BY <1>1, <3>2 DEF SameMode
    <3> QED BY <3>3 DEF ProbeDevice, mid, SameMode
  <2> QED BY <2>1 DEF ProbeAll, SameXclbins, SameMode
<1>3. ASSUME NEW base, AllInOrder(base), SameXclbins(devs, base), NEW s \in Slots
      PROVE  SameXclbins(devs, AllocOn(base, s, c, req, pool, excl))
  <2> DEFINE mid == UpdateCu(base, s, AllocChanClientFromCu(CuAt(base, s), c, pool, req.load))
             new == AllocOn(base, s, c, req, pool, excl)
  <2>1. s[1] \in Devices
    BY DEF Slots
  <2>2. /\ mid = [d \in Devices |-> mid[d]]
        /\ \A d \in Devices : SameMode(base[d], mid[d])
    <3> DEFINE cu == AllocChanClientFromCu(CuAt(base, s), c, pool, req.load)
    <3>1. mid = [base EXCEPT ![s[1]].cus[s[2]] = cu]
      BY DEF UpdateCu
    <3> HIDE DEF cu, mid
    <3>2. \A d \in Devices : base[d] \in DeviceType
      BY <1>3 DEF AllInOrder, InOrder
    <3>3. ASSUME NEW d \in Devices PROVE SameMode(base[d], mid[d])
      BY <1>3, <2>1, <3>1, <3>2 DEF AllInOrder, DeviceType, SameMode
    <3> QED BY <1>3, <3>1, <3>3 DEF AllInOrder
  <2>3. new = [mid EXCEPT ![s[1]] = AllocClientFromDev(@, c, excl)]
    BY DEF AllocOn
  <2>4. \A dev : AllocClientFromDev(dev, c, excl)
                   = [dev EXCEPT !.isExcl = @ \/ excl, !.procs[c] = @ + 1]
    BY DEF AllocClientFromDev
  <2>5. SameMode(mid[s[1]], AllocClientFromDev(mid[s[1]], c, excl))
    BY <1>3, <2>1 DEF UpdateCu, AllInOrder, DeviceType, AllocClientFromDev, SameMode
  <2> HIDE DEF mid, new
  <2>6. \A d \in Devices : SameMode(base[d], new[d])
    BY <2>1, <2>2, <2>3, <2>5 DEF SameMode
  <2> QED BY <1>3, <2>6 DEF SameXclbins, SameMode, new
<1>4. SameXclbins(devs, devs)
  BY DEF SameXclbins, SameMode
<1>5. SameXclbins(devs, ResAllocCu(devs, c, req, pool, excl))
  <2> DEFINE S == AllocCandidates(devs, Devices, c, req, pool, excl)
             s == FirstByAffinity(devs, S)
             probed == ProbeAll(devs, ProbedBefore(devs, s), c, excl)
  <2>1. S # {} => s \in Slots
    <3>1. S \in SUBSET Slots
      BY DEF AllocCandidates
    <3> HIDE DEF S
    <3> QED BY <3>1, FirstByAffinityIn
  <2>2. ResAllocCu(devs, c, req, pool, excl)
          = IF S = {} THEN ProbeAll(devs, Devices, c, excl)
            ELSE AllocOn(probed, s, c, req, pool, excl)
    BY DEF ResAllocCu
  <2>3. AllInOrder(probed) /\ SameXclbins(devs, probed)
    BY <1>2, ProbeAllInOrder
  <2> HIDE DEF S, s, probed
  <2> QED BY <1>2, <1>3, <2>1, <2>2, <2>3
<1>6. ASSUME NEW d \in Devices
      PROVE  SameXclbins(devs, ResAllocCuFromDev(devs, d, c, req, pool, excl))
  <2> DEFINE S == AllocCandidates(devs, {d}, c, req, pool, excl)
             s == FirstByAffinity(devs, S)
  <2>1. S # {} => s \in Slots
    <3>1. S \in SUBSET Slots
      BY DEF AllocCandidates
    <3> HIDE DEF S
    <3> QED BY <3>1, FirstByAffinityIn
  <2>2. ResAllocCuFromDev(devs, d, c, req, pool, excl)
          = IF S = {} THEN ProbeAll(devs, {d}, c, excl)
            ELSE AllocOn(devs, s, c, req, pool, excl)
    BY DEF ResAllocCuFromDev
  <2> HIDE DEF S, s
  <2> QED BY <1>2, <1>3, <1>4, <2>1, <2>2
<1> QED BY <1>5, <1>6

LEMMA OthersKeepXclbins ==
  ASSUME NEW devs, AllInOrder(devs), NEW s \in Slots, NEW c \in Clients, NEW k, NEW pool, NEW req,
         NEW C
  PROVE  /\ SameXclbins(devs, ResReleaseCu(devs, c, s, k))
         /\ SameXclbins(devs, ReserveOn(devs, s, pool, c, req))
         /\ SameXclbins(devs, ResRelinquishCuPool(devs, pool))
         /\ SameXclbins(devs, Recycled(devs, C))
<1>0. s[1] \in Devices /\ \A d \in Devices : devs[d] \in DeviceType
  BY DEF Slots, AllInOrder
<1>1. SameXclbins(devs, ResReleaseCu(devs, c, s, k))
  <2> DEFINE cu == ReleaseChan(CuAt(devs, s), c, k)
             mid == UpdateCu(devs, s, cu)
  <2>1. /\ mid = [d \in Devices |-> mid[d]]
        /\ \A d \in Devices : SameMode(devs[d], mid[d])
        /\ SameMode(mid[s[1]], ReleaseClientOnDev(mid[s[1]], c))
    <3> HIDE DEF cu
    <3> QED BY <1>0 DEF UpdateCu, AllInOrder, DeviceType, ReleaseClientOnDev, SameMode
  <2>2. ResReleaseCu(devs, c, s, k) = [mid EXCEPT ![s[1]] = ReleaseClientOnDev(@, c)]
    BY DEF ResReleaseCu
  <2> HIDE DEF mid
  <2> QED BY <1>0, <2>1, <2>2 DEF SameXclbins, SameMode
<1>2. SameXclbins(devs, ReserveOn(devs, s, pool, c, req))
  <2> DEFINE cu == ReserveLoadFromCu(CuAt(devs, s), pool, c, req.load)
  <2>1. ReserveOn(devs, s, pool, c, req) = [devs EXCEPT ![s[1]].cus[s[2]] = cu]
    BY DEF ReserveOn, UpdateCu
  <2> HIDE DEF cu
  <2> QED BY <1>0, <2>1 DEF AllInOrder, DeviceType, SameXclbins, SameMode
<1>3. SameXclbins(devs, ResRelinquishCuPool(devs, pool))
  BY <1>0 DEF ResRelinquishCuPool, DeviceType, SameXclbins, SameMode
<1>4. SameXclbins(devs, Recycled(devs, C))
  <2>1. \A d \in Devices : SameMode(devs[d], RecycleOnDevice(devs[d], C))
    BY <1>0 DEF RecycleOnDevice, DeviceType, SameMode
  <2> QED BY <2>1 DEF Recycled, SameXclbins, SameMode
<1> QED BY <1>1, <1>2, <1>3, <1>4

(* Of the calls of clients, and of what anybody may relinquish. *)
LEMMA ClientsKeepXclbins ==
  ASSUME AllInOrder(devList), reservePoolId \in 0 .. MaxPool,
         \/ \E c \in Clients : ClientCall(c)
         \/ \E pool \in PoolIds : RelinquishCuPool(pool)
  PROVE  SameXclbins(devList, devList')
<1>0. \A d \in Devices : InOrder(devList[d])
  BY DEF AllInOrder
<1> DEFINE Goal == SameXclbins(devList, devList')
<1>1. ASSUME NEW c \in Clients, NEW req \in Requests, NEW pool \in {NoPool} \cup PoolIds,
             NEW excl \in BOOLEAN,
             \/ AllocCu(c, req, pool, excl)
             \/ \E d \in Devices : AllocCuFromDev(d, c, req, pool, excl)
      PROVE  Goal
  BY <1>1, AllocKeepsXclbins DEF AllocCu, AllocCuFromDev
<1>2. ASSUME NEW c \in Clients, NEW s \in Slots, NEW k \in Channels, ReleaseCu(c, s, k)
      PROVE  Goal
  BY <1>2, OthersKeepXclbins DEF ReleaseCu
<1>3. ASSUME NEW c \in Clients, NEW req \in Requests, ReserveCuPool(c, req)
      PROVE  Goal
  <2> DEFINE pool == reservePoolId + 1
             S == ReserveCandidates(devList, pool, c, req)
             s == FirstByAffinity(devList, S)
  <2>1. S # {} /\ S \in SUBSET Slots /\ devList' = ReserveOn(devList, s, pool, c, req)
    BY <1>3 DEF ReserveCuPool, ReserveCandidates
  <2> HIDE DEF S, pool
  <2>2. s \in Slots
    BY <2>1, FirstByAffinityIn
  <2> HIDE DEF s
  <2> QED BY <2>1, <2>2, OthersKeepXclbins
<1>4. ASSUME NEW c \in Clients, NEW req1 \in Requests, NEW req2 \in Requests,
             ReserveCuPoolOfTwo(c, req1, req2)
      PROVE  Goal
  <2> DEFINE pool == reservePoolId + 1
             S1 == ReserveCandidates(devList, pool, c, req1)
             s1 == FirstByAffinity(devList, S1)
             one == ReserveOn(devList, s1, pool, c, req1)
             S2 == ReserveCandidates(one, pool, c, req2)
             s2 == FirstByAffinity(one, S2)
  <2>1. S1 # {} /\ S1 \in SUBSET Slots /\ S2 \in SUBSET Slots /\ pool \in PoolIds
    BY <1>4 DEF ReserveCuPoolOfTwo, ReserveCandidates
  <2>2. \/ S2 # {} /\ devList' = ReserveOn(one, s2, pool, c, req2)
        \/ devList' = ResRelinquishCuPool(one, pool)
    BY <1>4 DEF ReserveCuPoolOfTwo
  <2> HIDE DEF S1, S2, pool
  <2>3. s1 \in Slots
    BY <2>1, FirstByAffinityIn
  <2> HIDE DEF s1
  <2>4. AllInOrder(one) /\ SameXclbins(devList, one)
    BY <2>1, <2>3, ReserveOnInOrder, OthersKeepXclbins
  <2>5. S2 # {} => s2 \in Slots
    <3> HIDE DEF one
    <3> QED BY <2>1, FirstByAffinityIn
  <2> HIDE DEF one, s2
  <2>6. SameXclbins(one, devList')
    BY <2>2, <2>3, <2>4, <2>5, OthersKeepXclbins
  <2>7. SameXclbins(devList, devList')
    BY <2>4, <2>6 DEF SameXclbins, SameMode
  <2> QED BY <2>7
<1>5. ASSUME NEW c \in Clients, RecycleResource(c)
      PROVE  Goal
  <2>1. devList' = [d \in Devices |-> RecycleOnDevice(devList[d], {c})]
    BY <1>5 DEF RecycleResource, Recycled
  <2>2. \A d \in Devices : SameMode(devList[d], RecycleOnDevice(devList[d], {c}))
    BY <1>0 DEF RecycleOnDevice, InOrder, DeviceType, SameMode
  <2> QED BY <2>1, <2>2 DEF SameXclbins, SameMode
<1>6. ASSUME NEW pool \in PoolIds, RelinquishCuPool(pool)
      PROVE  Goal
  <2>1. devList' = ResRelinquishCuPool(devList, pool)
    BY <1>6 DEF RelinquishCuPool
  <2> QED BY <1>0, <2>1 DEF ResRelinquishCuPool, InOrder, DeviceType, SameXclbins, SameMode
<1>7. CASE \E c \in Clients : ClientCall(c)
  BY <1>1, <1>2, <1>3, <1>4, <1>5, <1>7 DEF ClientCall
<1> QED BY <1>6, <1>7

(* No call takes an xclbin away from under a reservation, nor from under a *)
(* channel: only a reset does, of the clients it recycles.                 *)
LEMMA CallsEvictNobody ==
  ASSUME AllInOrder(devList), reservePoolId \in 0 .. MaxPool,
         AllRight(devList, reservePoolId), Next
  PROVE  \A d \in Devices : NobodyEvicted(devList[d], devList'[d])
<1>0. /\ reservePoolId \in Nat
      /\ \A d \in Devices : InOrder(devList[d]) /\ DeviceRight(devList[d], reservePoolId)
  BY CuAssumption DEF AllInOrder, AllRight
<1> DEFINE Goal == \A d \in Devices : NobodyEvicted(devList[d], devList'[d])
<1>a. SameXclbins(devList, devList') => Goal
  BY DEF SameXclbins, SameMode, NobodyEvicted, IsLoaded
<1>b. ASSUME NEW d \in Devices, NEW dev, devList' = [devList EXCEPT ![d] = dev],
             NobodyEvicted(devList[d], dev)
      PROVE  Goal
  BY <1>b DEF AllInOrder, NobodyEvicted, IsLoaded
<1>1. CASE \/ \E c \in Clients : ClientCall(c)
           \/ \E pool \in PoolIds : RelinquishCuPool(pool)
  BY <1>1, <1>a, ClientsKeepXclbins
<1>7. ASSUME NEW d \in Devices, NEW x \in Xclbins, NEW opens \in BOOLEAN, NEW ok \in BOOLEAN,
             LoadXclbin(d, x, opens, ok)
      PROVE  Goal
  BY <1>0, <1>7, UnloadedVacant, VacantEvictsNobody DEF LoadXclbin, AllInOrder, NobodyEvicted
<1>8. ASSUME NEW d \in Devices, NEW unlocks \in BOOLEAN, UnloadDevice(d, unlocks)
      PROVE  Goal
  <2> DEFINE new == Unloaded(devList[d], unlocks)
  <2>1. devList' = [devList EXCEPT ![d] = new]
    BY <1>8 DEF UnloadDevice
  <2>2. new.xclbin = DeviceClearInfo(devList[d]).xclbin \/ new.xclbin = devList[d].xclbin
    BY DEF Unloaded
  <2> HIDE DEF new
  <2>3. NobodyEvicted(devList[d], new)
    BY <1>0, <2>2, ClearEvictsNobody
  <2> QED BY <1>b, <2>1, <2>3
<1>9. ASSUME NEW d \in Devices, EnableDevice(d)
      PROVE  Goal
  <2> DEFINE new == [devList[d] EXCEPT !.isDisabled = FALSE]
  <2>1. devList' = [devList EXCEPT ![d] = new]
    BY <1>9 DEF EnableDevice
  <2>2. new.xclbin = devList[d].xclbin
    BY <1>0 DEF InOrder, DeviceType
  <2> HIDE DEF new
  <2> QED BY <1>b, <2>1, <2>2 DEF NobodyEvicted, IsLoaded
<1>10. ASSUME NEW d \in Devices, NEW unlocks \in BOOLEAN, DisableDevice(d, unlocks)
       PROVE  Goal
  <2> DEFINE dev == IF IsLoaded(devList[d]) THEN DeviceClearInfo(devList[d]) ELSE devList[d]
             new == [dev EXCEPT !.isDisabled = TRUE]
  <2>1. devList' = [devList EXCEPT ![d] = new]
    BY <1>10 DEF DisableDevice
  <2>2. InOrder(dev)
    BY <1>0, ClearInfoInOrder
  <2>3. dev.xclbin = DeviceClearInfo(devList[d]).xclbin \/ dev.xclbin = devList[d].xclbin
    OBVIOUS
  <2> HIDE DEF dev
  <2>4. new.xclbin = dev.xclbin
    BY <2>2 DEF InOrder, DeviceType
  <2> HIDE DEF new
  <2>5. NobodyEvicted(devList[d], new)
    BY <1>0, <2>3, <2>4, ClearEvictsNobody
  <2> QED BY <1>b, <2>1, <2>5
<1>11. ASSUME NEW d \in Devices, NEW unlocks \in BOOLEAN, ResetDevice(d, unlocks)
       PROVE  Goal
  <2> DEFINE C == DeviceClients(devList[d])
             rest == Recycled(devList, C)
             dev == Unloaded(rest[d], unlocks)
             new == [dev EXCEPT !.open = FALSE]
  <2>1. devList' = [rest EXCEPT ![d] = new]
    BY <1>11 DEF ResetDevice
  <2>2. C \in SUBSET Clients
    BY DEF DeviceClients
  <2>3. /\ AllInOrder(rest) /\ AllRight(rest, reservePoolId)
        /\ \A e \in Devices : rest[e] = RecycleOnDevice(devList[e], C)
    BY <1>0, <2>2, RecycledInOrder, RecycledRight DEF Recycled
  <2> HIDE DEF rest
  <2>4. \A e \in Devices : rest[e].xclbin = devList[e].xclbin
    <3> HIDE DEF C
    <3> QED BY <1>0, <2>3 DEF RecycleOnDevice, InOrder, DeviceType
  <2>5. InOrder(rest[d]) /\ DeviceRight(rest[d], reservePoolId) /\ InOrder(dev)
    BY <2>3, UnloadedInOrder DEF AllInOrder, AllRight
  <2>6. IsDeviceBusy(rest[d]) /\ IsLoaded(rest[d]) => dev = rest[d]
    BY DEF Unloaded
  <2> HIDE DEF dev
  <2>7. new.xclbin = dev.xclbin /\ new.open = FALSE
    BY <2>5 DEF InOrder, DeviceType
  <2> HIDE DEF new
  <2>8. NobodyEvicted(devList[d], new)
    <3>0. SUFFICES ASSUME IsLoaded(devList[d]), ~IsLoaded(new), NEW i \in CuIds, NEW p \in PoolIds,
                          devList[d].cus[i].reserves[p].client # NoClient
                   PROVE  UsesDevice(devList[d], devList[d].cus[i].reserves[p].client)
      BY <2>7 DEF NobodyEvicted
    <3>1. SUFFICES ASSUME devList[d].cus[i].reserves[p].client \notin C PROVE FALSE
      BY DEF DeviceClients
    <3>2. ~IsDeviceBusy(rest[d])
      BY <2>4, <2>6, <2>7, <3>0 DEF IsLoaded
    <3>3. rest[d].cus[i].reserves[p].client = NoClient
      BY <1>0, <2>5, <3>2, IdleDeviceVacant DEF Vacant, ReservingPools, IsReservePoolUsingCu
    <3> DEFINE cu == devList[d].cus[i]
               drop == DropReservesOf(cu, C)
               gone == C \cap DeviceClients(devList[d])
    <3>4. cu \in CuType /\ LoadsRight(cu, reservePoolId)
      BY <1>0, CusTyped DEF DeviceRight
    <3>5. /\ drop \in CuType /\ LoadsRight(drop, reservePoolId)
          /\ drop.reserves[p].client = cu.reserves[p].client
      BY <1>0, <2>2, <3>1, <3>4, DropReservesSafe, DropLoadsRight
    <3>6. rest[d].cus[i] = ReleaseAllChans(drop, gone)
      <4>1. rest[d] = RecycleOnDevice(devList[d], C)
        BY <2>3
      <4> HIDE DEF C
      <4> QED BY <1>0, <3>0, <4>1, RecycledCu
    <3> HIDE DEF drop, gone
    <3>7. rest[d].cus[i].reserves[p].client = drop.reserves[p].client
      <4>1. ReleaseAllChans(drop, gone).reserves[p].client = drop.reserves[p].client
        BY <1>0, <3>5, ReleaseAllChansRight
      <4> QED BY <3>6, <4>1
    <3> QED BY <3>0, <3>3, <3>5, <3>7
  <2>9. ASSUME NEW e \in Devices PROVE NobodyEvicted(devList[e], devList'[e])
    <3>1. devList'[e] = IF e = d THEN new ELSE rest[e]
      BY <2>1, <2>3 DEF AllInOrder
    <3> QED BY <2>4, <2>8, <3>1 DEF NobodyEvicted, IsLoaded
  <2> QED BY <2>9
<1>12. ASSUME NEW x \in Xclbins, NEW good \in SUBSET Devices, NEW unlocks \in SUBSET Devices,
              NEW opens \in SUBSET Devices, LoadAnyDevice(x, good, unlocks, opens)
       PROVE  Goal
  <2> DEFINE missed(d) == Opened(DeviceClearInfo(devList[d]),
                                 ~devList[d].isDisabled /\ d \in opens)
  <2>1. ASSUME NEW d \in Devices
        PROVE  devList'[d] \in {LoadedWith(devList[d], x), missed(d), devList[d],
                                LoadedWith(DeviceClearInfo(devList[d]), x)}
    BY <1>12 DEF LoadAnyDevice, LoadedAny
  <2>2. ASSUME NEW d \in Devices PROVE NobodyEvicted(devList[d], devList'[d])
    <3>1. /\ InOrder(DeviceClearInfo(devList[d]))
          /\ missed(d).xclbin = DeviceClearInfo(devList[d]).xclbin
      BY <1>0, ClearInfoInOrder DEF Opened, InOrder, DeviceType
    <3>2. ASSUME NEW dev, InOrder(dev) PROVE IsLoaded(LoadedWith(dev, x))
      BY <3>2, DeviceAssumption DEF InOrder, DeviceType, LoadedWith, IsLoaded
    <3>3. \/ devList'[d].xclbin = DeviceClearInfo(devList[d]).xclbin
          \/ devList'[d].xclbin = devList[d].xclbin
          \/ IsLoaded(devList'[d])
      BY <1>0, <2>1, <3>1, <3>2
    <3>4. CASE IsLoaded(devList'[d])
      BY <3>4 DEF NobodyEvicted
    <3> QED BY <1>0, <3>3, <3>4, ClearEvictsNobody
  <2> QED BY <2>2
<1>14. CASE \E d \in Devices : DeviceCall(d)
  BY <1>7, <1>8, <1>9, <1>10, <1>11, <1>14 DEF DeviceCall
<1> QED BY <1>1, <1>12, <1>14 DEF Next

(* Unloading, disabling, loading anew and resetting a device never take    *)
(* anything from a client that the call does not recycle.                  *)
THEOREM UnloadingEvictsNobody == Spec => UnloadEvictsNobody
<1> DEFINE Kept == \A d \in Devices :
                     IsLoaded(devList[d]) /\ ~IsLoaded(devList'[d]) =>
                       \A s \in {d} \X CuIds :
                         /\ BusyChannels(CuAt(devList, s)) # {} => ~devList'[d].open
                         /\ \A p \in PoolIds :
                              CuAt(devList, s).reserves[p].client # NoClient =>
                                UsesDevice(devList[d], CuAt(devList, s).reserves[p].client)
<1>1. IInv /\ [Next]_vars => [Kept]_vars
  <2> SUFFICES ASSUME IInv, Next PROVE Kept
    OBVIOUS
  <2>1. \A d \in Devices : NobodyEvicted(devList[d], devList'[d])
    BY IInvIsRight, CallsEvictNobody
  <2> QED BY <2>1 DEF NobodyEvicted, CuAt
<1> QED BY <1>1, IInvInvariant, PTL DEF Spec, UnloadEvictsNobody

=============================================================================
