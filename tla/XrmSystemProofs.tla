-------------------------- MODULE XrmSystemProofs --------------------------
(***************************************************************************)
(* For any number of devices, CUs, channels, clients and pools: the        *)
(* daemon's state keeps its type, its channel index, its reference counts  *)
(* and its exclusive devices right.                                        *)
(***************************************************************************)
EXTENDS XrmSystem, XrmCuProofs

(* What every operation keeps of one device: the parts of HoldingsInOrder. *)
InOrder(dev) ==
    /\ dev \in DeviceType
    /\ \A i \in CuIds : CuIndexed(dev.cus[i])
    /\ DeviceRefCounted(dev)
    /\ DeviceExclusive(dev)

(* The channels a client holds on a device can be counted. *)
LEMMA HeldFinite ==
  ASSUME NEW dev, NEW c
  PROVE  IsFiniteSet(Held(dev, c)) /\ Cardinality(Held(dev, c)) \in Nat
<1>1. IsFiniteSet(CuIds) /\ IsFiniteSet(Channels)
  BY DeviceAssumption, CuAssumption, FS_Interval DEF CuIds, Channels
<1>2. IsFiniteSet(CuIds \X Channels)
  BY <1>1, FS_Product
<1>3. Held(dev, c) \in SUBSET (CuIds \X Channels)
  BY DEF Held
<1> QED BY <1>2, <1>3, FS_Subset, FS_CardinalityType

(* A client has a reference of the device iff it holds a channel of it.    *)
LEMMA UsesIffHolds ==
  ASSUME NEW dev, DeviceRefCounted(dev), NEW c \in Clients
  PROVE  UsesDevice(dev, c) <=> Held(dev, c) # {}
BY HeldFinite, FS_EmptySet DEF DeviceRefCounted, UsesDevice

(* What a device's order rests on: its CUs, references and mode.           *)
LEMMA FrameInOrder ==
  ASSUME NEW dev, InOrder(dev), NEW new \in DeviceType,
         new.procs = dev.procs, new.isExcl = dev.isExcl,
         \A i \in CuIds : /\ CuIndexed(new.cus[i])
                          /\ new.cus[i].channels = dev.cus[i].channels
  PROVE  InOrder(new)
<1>1. \A c : Held(new, c) = Held(dev, c)
  BY DEF Held
<1>2. \A c : UsesDevice(new, c) <=> UsesDevice(dev, c)
  BY DEF UsesDevice
<1> QED BY <1>1, <1>2 DEF InOrder, DeviceRefCounted, DeviceExclusive

LEMMA EmptyIndexed == CuIndexed(EmptyCu)
<1>1. BusyChannels(EmptyCu) = {}
  BY DEF EmptyCu, FreeChannel, BusyChannels
<1> QED BY <1>1, FS_EmptySet DEF CuIndexed, EmptyCu, FreeChannel

(* A device whose channels are all free and that nobody uses.              *)
LEMMA EmptyInOrder ==
  ASSUME NEW dev \in DeviceType, dev.procs = [c \in Clients |-> 0], dev.isExcl = FALSE,
         dev.cus = [i \in CuIds |-> EmptyCu]
  PROVE  InOrder(dev)
<1>2. CuIndexed(EmptyCu)
  BY EmptyIndexed
<1>3. \A c \in Clients : Held(dev, c) = {}
  BY CuAssumption DEF Held, EmptyCu, FreeChannel
<1>4. DeviceRefCounted(dev)
  BY <1>3, FS_EmptySet DEF DeviceRefCounted
<1> QED BY <1>2, <1>4 DEF InOrder, DeviceExclusive

(* A CU as flushDevData leaves it has its type. *)
LEMMA EmptyCuType == EmptyCu \in CuType
<1>1. FreeChannel \in ChannelType /\ EmptyReserve \in ReserveType
  BY CuAssumption DEF FreeChannel, ChannelType, EmptyReserve, ReserveType
<1> QED BY <1>1 DEF EmptyCu, CuType

(* A device as initDevices leaves it is in order. *)
LEMMA InitialInOrder ==
  ASSUME NEW opened \in BOOLEAN
  PROVE  InitialDevice(opened) \in DeviceType /\ InOrder(InitialDevice(opened))
<1>1. InitialDevice(opened) \in DeviceType
  BY EmptyCuType DEF InitialDevice, DeviceType
<1> QED BY <1>1, EmptyInOrder DEF InitialDevice

(* deviceClearInfo, and loading on a device just cleared. *)
LEMMA ClearInfoInOrder ==
  ASSUME NEW dev, InOrder(dev)
  PROVE  /\ DeviceClearInfo(dev) \in DeviceType
         /\ InOrder(DeviceClearInfo(dev))
<1> DEFINE new == [InitialDevice(dev.open) EXCEPT !.isDisabled = dev.isDisabled]
<1>1. dev.open \in BOOLEAN /\ dev.isDisabled \in BOOLEAN
  BY DEF InOrder, DeviceType
<1>2. InitialDevice(dev.open) \in DeviceType
  BY <1>1, InitialInOrder
<1>3. new \in DeviceType
  BY <1>1, <1>2 DEF DeviceType
<1>4. /\ new.procs = [c \in Clients |-> 0]
      /\ new.isExcl = FALSE
      /\ new.cus = [i \in CuIds |-> EmptyCu]
  BY DEF InitialDevice
<1> HIDE DEF new
<1>5. InOrder(new)
  BY <1>3, <1>4, EmptyInOrder
<1>6. DeviceClearInfo(dev) = dev \/ DeviceClearInfo(dev) = new
  BY DEF DeviceClearInfo, new
<1> QED BY <1>3, <1>5, <1>6 DEF InOrder

(* Changing the handle, the xclbin or isDisabled disturbs nothing. *)
LEMMA FieldsInOrder ==
  ASSUME NEW dev, InOrder(dev), NEW x \in Xclbins \cup {NoXclbin}, NEW dis \in BOOLEAN,
         NEW open \in BOOLEAN,
         NEW new, new = [dev EXCEPT !.xclbin = x, !.isDisabled = dis, !.open = open]
  PROVE  InOrder(new)
<1>1. new \in DeviceType /\ new.procs = dev.procs /\ new.isExcl = dev.isExcl /\ new.cus = dev.cus
  BY DEF InOrder, DeviceType
<1> QED BY <1>1, FrameInOrder DEF InOrder

----------------------------------------------------------------------------
(* An exclusive device, or one that has become exclusive for c, is used by *)
(* c alone: allocClientFromDev lets no other client on it.                 *)
LEMMA GrantedAlone ==
  ASSUME NEW dev, InOrder(dev), NEW c \in Clients, NEW excl \in BOOLEAN,
         CanAllocClient(dev, c, excl), dev.isExcl \/ excl
  PROVE  \A b \in Clients \ {c} : Held(dev, b) = {}
<1>1. CASE dev.isExcl
  <2>1. UsesDevice(dev, c)
    BY <1>1 DEF CanAllocClient
  <2> QED BY <1>1, <2>1, UsesIffHolds DEF InOrder, DeviceExclusive
<1>2. CASE ~dev.isExcl
  <2>1. DeviceClients(dev) \subseteq {c}
    BY <1>2 DEF CanAllocClient
  <2>2. \A b \in Clients \ {c} : ~UsesDevice(dev, b)
    BY <2>1 DEF DeviceClients
  <2> QED BY <2>2, UsesIffHolds DEF InOrder
<1> QED BY <1>1, <1>2

(* allocClientFromDev: procs and isExcl change, nothing else. *)
LEMMA AllocClientType ==
  ASSUME NEW dev \in DeviceType, NEW c \in Clients, NEW excl \in BOOLEAN
  PROVE  LET new == AllocClientFromDev(dev, c, excl)
         IN  /\ new \in DeviceType
             /\ new.procs = [dev.procs EXCEPT ![c] = dev.procs[c] + 1]
             /\ new.isExcl = (dev.isExcl \/ excl)
             /\ new.cus = dev.cus
             /\ new.xclbin = dev.xclbin
<1>1. [dev.procs EXCEPT ![c] = dev.procs[c] + 1] \in [Clients -> Nat]
  BY DEF DeviceType
<1>2. (dev.isExcl \/ excl) \in BOOLEAN
  OBVIOUS
<1>3. AllocClientFromDev(dev, c, excl)
        = [dev EXCEPT !.isExcl = dev.isExcl \/ excl,
                      !.procs = [dev.procs EXCEPT ![c] = dev.procs[c] + 1]]
  BY DEF AllocClientFromDev, DeviceType
<1> QED BY <1>1, <1>2, <1>3 DEF DeviceType

(* A successful search: c gets one channel and one reference.              *)
LEMMA AllocInOrder ==
  ASSUME NEW dev, InOrder(dev), NEW c \in Clients, NEW excl \in BOOLEAN,
         CanAllocClient(dev, c, excl),
         NEW i \in CuIds, NEW pool \in {NoPool} \cup PoolIds, NEW load \in 0 .. MaxLoad,
         CanAllocChan(dev.cus[i], pool, load),
         NEW new,
         new = AllocClientFromDev(
                 [dev EXCEPT !.cus[i] = AllocChanClientFromCu(dev.cus[i], c, pool, load)], c, excl)
  PROVE  InOrder(new)
<1> DEFINE cu == dev.cus[i]
           cu2 == AllocChanClientFromCu(cu, c, pool, load)
           k == ChannelFor(cu)
           mid == [dev EXCEPT !.cus[i] = cu2]
<1>1. cu \in CuType /\ CuIndexed(cu)
  BY DEF InOrder, DeviceType
<1>2. cu2 \in CuType /\ CuIndexed(cu2)
  BY <1>1, AllocChanType, AllocChanIndexed
<1>3. k \in Channels /\ k \notin BusyChannels(cu)
  BY <1>1, ChannelForIsFree DEF CanAllocChan
<1>4. cu2.channels = [cu.channels EXCEPT ![k] = [client |-> c, pool |-> pool, load |-> load]]
  BY <1>1 DEF AllocChanClientFromCu, CuType
<1> HIDE DEF cu2, k
<1>5. mid \in DeviceType /\ mid.cus = [dev.cus EXCEPT ![i] = cu2]
      /\ mid.procs = dev.procs /\ mid.isExcl = dev.isExcl
  BY <1>2 DEF InOrder, DeviceType
<1>6. new = AllocClientFromDev(mid, c, excl)
  BY DEF cu2
<1> HIDE DEF mid
<1>7. /\ new \in DeviceType
      /\ new.procs = [dev.procs EXCEPT ![c] = dev.procs[c] + 1]
      /\ new.isExcl = (dev.isExcl \/ excl)
      /\ new.cus = [dev.cus EXCEPT ![i] = cu2]
  BY <1>5, <1>6, AllocClientType
<1>8. \A j \in CuIds : CuIndexed(new.cus[j])
  BY <1>2, <1>7 DEF InOrder, DeviceType
<1>9. <<i, k>> \notin Held(dev, c) /\ Held(new, c) = Held(dev, c) \cup {<<i, k>>}
  <2>1. \A j \in CuIds, l \in Channels :
           new.cus[j].channels[l].client
              = IF j = i /\ l = k THEN c ELSE dev.cus[j].channels[l].client
    BY <1>1, <1>3, <1>4, <1>7 DEF InOrder, DeviceType, CuType
  <2>2. dev.cus[i].channels[k].client # c
    BY <1>3, CuAssumption DEF BusyChannels
  <2> QED BY <1>3, <2>1, <2>2 DEF Held
<1>10. \A b \in Clients \ {c} : Held(new, b) = Held(dev, b)
  <2>1. \A j \in CuIds, l \in Channels :
           new.cus[j].channels[l].client
              = IF j = i /\ l = k THEN c ELSE dev.cus[j].channels[l].client
    BY <1>1, <1>3, <1>4, <1>7 DEF InOrder, DeviceType, CuType
  <2>2. dev.cus[i].channels[k].client = NoClient
    BY <1>3 DEF BusyChannels
  <2> QED BY <1>3, <2>1, <2>2, CuAssumption DEF Held
<1>11. DeviceRefCounted(new)
  <2>1. \A b \in Clients : dev.procs[b] = Cardinality(Held(dev, b))
    BY DEF InOrder, DeviceRefCounted
  <2>2. Cardinality(Held(new, c)) = Cardinality(Held(dev, c)) + 1
    BY <1>9, HeldFinite, FS_AddElement
  <2>3. dev.procs \in [Clients -> Nat]
    BY DEF InOrder, DeviceType
  <2> QED BY <1>7, <1>10, <2>1, <2>2, <2>3 DEF DeviceRefCounted
<1>12. DeviceExclusive(new)
  <2>1. SUFFICES ASSUME new.isExcl
                 PROVE  /\ UsesDevice(new, c)
                        /\ \A b \in Clients \ {c} : Held(new, b) = {}
    BY DEF DeviceExclusive
  <2>2. \A b \in Clients \ {c} : Held(new, b) = {}
    BY <1>7, <1>10, <2>1, GrantedAlone
  <2>3. UsesDevice(new, c)
    BY <1>9, <1>11, UsesIffHolds
  <2> QED BY <2>2, <2>3
<1> QED BY <1>7, <1>8, <1>11, <1>12 DEF InOrder

----------------------------------------------------------------------------
(* Giving back one reference: procs and isExcl change, nothing else.       *)
LEMMA ReleaseClientType ==
  ASSUME NEW dev \in DeviceType, NEW c \in Clients, IsLoaded(dev), UsesDevice(dev, c)
  PROVE  LET new == ReleaseClientOnDev(dev, c)
         IN  /\ new \in DeviceType
             /\ new.procs = [dev.procs EXCEPT ![c] = dev.procs[c] - 1]
             /\ new.isExcl = (dev.isExcl /\ dev.procs[c] > 1)
             /\ new.cus = dev.cus
<1>1. [dev.procs EXCEPT ![c] = dev.procs[c] - 1] \in [Clients -> Nat]
  BY DEF DeviceType, UsesDevice
<1>2. (dev.isExcl /\ dev.procs[c] > 1) \in BOOLEAN
  OBVIOUS
<1>3. ReleaseClientOnDev(dev, c)
        = [dev EXCEPT !.procs = [dev.procs EXCEPT ![c] = dev.procs[c] - 1],
                      !.isExcl = dev.isExcl /\ dev.procs[c] > 1]
  BY DEF ReleaseClientOnDev, DeviceType
<1> QED BY <1>1, <1>2, <1>3 DEF DeviceType

(* A search that finds no CU leaves the references as they were, and turns *)
(* the device exclusive only for a client that is alone on it; the client  *)
(* can still be let on it.                                                 *)
LEMMA ProbeInOrder ==
  ASSUME NEW dev, InOrder(dev), NEW c \in Clients, NEW excl \in BOOLEAN
  PROVE  /\ InOrder(ProbeDevice(dev, c, excl))
         /\ ProbeDevice(dev, c, excl).cus = dev.cus
         /\ CanAllocClient(dev, c, excl) => CanAllocClient(ProbeDevice(dev, c, excl), c, excl)
<1>1. CASE ~(IsFreeForClient(dev, c) /\ CanAllocClient(dev, c, excl))
  BY <1>1 DEF ProbeDevice
<1>2. CASE IsFreeForClient(dev, c) /\ CanAllocClient(dev, c, excl)
  <2> DEFINE mid == AllocClientFromDev(dev, c, excl)
             new == ReleaseClientOnDev(mid, c)
  <2>1. /\ mid \in DeviceType
        /\ mid.procs = [dev.procs EXCEPT ![c] = dev.procs[c] + 1]
        /\ mid.isExcl = (dev.isExcl \/ excl)
        /\ mid.cus = dev.cus
        /\ mid.xclbin = dev.xclbin
    BY AllocClientType DEF InOrder
  <2> HIDE DEF mid
  <2>2. dev.procs \in [Clients -> Nat]
    BY DEF InOrder, DeviceType
  <2>3. IsLoaded(mid) /\ UsesDevice(mid, c)
    BY <1>2, <2>1, <2>2 DEF IsFreeForClient, IsLoaded, UsesDevice
  <2>4. /\ new \in DeviceType
        /\ new.procs = [mid.procs EXCEPT ![c] = mid.procs[c] - 1]
        /\ new.isExcl = (mid.isExcl /\ mid.procs[c] > 1)
        /\ new.cus = mid.cus
    BY <2>1, <2>3, ReleaseClientType
  <2>5. new.procs = dev.procs
    BY <2>1, <2>2, <2>4
  <2> HIDE DEF new
  <2>6. \A b : Held(new, b) = Held(dev, b)
    BY <2>1, <2>4 DEF Held
  <2>7. DeviceRefCounted(new)
    BY <2>5, <2>6 DEF InOrder, DeviceRefCounted
  <2>8. DeviceExclusive(new)
    <3>1. SUFFICES ASSUME new.isExcl
                   PROVE  /\ UsesDevice(new, c)
                          /\ \A b \in Clients \ {c} : Held(new, b) = {}
      BY DEF DeviceExclusive
    <3>2. dev.isExcl \/ excl
      BY <2>1, <2>4, <3>1
    <3>3. \A b \in Clients \ {c} : Held(dev, b) = {}
      BY <1>2, <3>2, GrantedAlone
    <3>4. mid.procs[c] > 1 /\ mid.procs[c] = dev.procs[c] + 1
      BY <2>1, <2>2, <2>4, <3>1
    <3>5. UsesDevice(new, c)
      BY <2>2, <2>5, <3>4 DEF UsesDevice
    <3> QED BY <2>6, <3>3, <3>5
  <2>9. InOrder(new) /\ new.cus = dev.cus
    BY <2>1, <2>4, <2>7, <2>8 DEF InOrder
  <2>10. CanAllocClient(new, c, excl)
    <3>1. new.isExcl = ((dev.isExcl \/ excl) /\ dev.procs[c] > 0)
      BY <2>1, <2>2, <2>4
    <3> QED BY <1>2, <2>2, <2>5, <3>1 DEF CanAllocClient, UsesDevice, DeviceClients
  <2> QED BY <1>2, <2>9, <2>10 DEF ProbeDevice, new, mid
<1> QED BY <1>1, <1>2

(* resReleaseCu: c gives back one channel and one reference.               *)
LEMMA ReleaseInOrder ==
  ASSUME NEW dev, InOrder(dev), IsLoaded(dev), NEW c \in Clients, NEW i \in CuIds,
         NEW k \in Channels, dev.cus[i].channels[k].client = c,
         NEW new,
         new = ReleaseClientOnDev(
                 [dev EXCEPT !.cus[i] = ReleaseChan(dev.cus[i], c, k)], c)
  PROVE  InOrder(new)
<1> DEFINE cu == dev.cus[i]
           cu2 == ReleaseChan(cu, c, k)
           mid == [dev EXCEPT !.cus[i] = cu2]
<1>1. cu \in CuType /\ CuIndexed(cu)
  BY DEF InOrder, DeviceType
<1>2. k \in ChannelsOf(cu, c)
  BY DEF ChannelsOf
<1>3. cu2 \in CuType /\ CuIndexed(cu2) /\ cu2.channels = [cu.channels EXCEPT ![k] = FreeChannel]
  BY <1>1, <1>2, ReleaseChanSafe
<1> HIDE DEF cu2
<1>4. mid \in DeviceType /\ mid.cus = [dev.cus EXCEPT ![i] = cu2]
      /\ mid.procs = dev.procs /\ mid.isExcl = dev.isExcl /\ mid.xclbin = dev.xclbin
  BY <1>3 DEF InOrder, DeviceType
<1>5. new = ReleaseClientOnDev(mid, c)
  BY DEF cu2
<1> HIDE DEF mid
<1>6. <<i, k>> \in Held(dev, c)
  BY DEF Held
<1>7. UsesDevice(mid, c) /\ IsLoaded(mid)
  BY <1>4, <1>6, UsesIffHolds DEF InOrder, UsesDevice, IsLoaded
<1>8. /\ new \in DeviceType
      /\ new.procs = [dev.procs EXCEPT ![c] = dev.procs[c] - 1]
      /\ new.isExcl = (dev.isExcl /\ dev.procs[c] > 1)
      /\ new.cus = [dev.cus EXCEPT ![i] = cu2]
  BY <1>4, <1>5, <1>7, ReleaseClientType
<1>9. \A j \in CuIds : CuIndexed(new.cus[j])
  BY <1>3, <1>8 DEF InOrder, DeviceType
<1>10. \A j \in CuIds, l \in Channels :
          new.cus[j].channels[l].client
             = IF j = i /\ l = k THEN NoClient ELSE dev.cus[j].channels[l].client
  BY <1>1, <1>3, <1>8 DEF InOrder, DeviceType, CuType, FreeChannel
<1>11. Held(new, c) = Held(dev, c) \ {<<i, k>>}
  BY <1>10, CuAssumption DEF Held
<1>12. \A b \in Clients \ {c} : Held(new, b) = Held(dev, b)
  BY <1>10, CuAssumption DEF Held
<1>13. dev.procs \in [Clients -> Nat]
  BY DEF InOrder, DeviceType
<1>14. DeviceRefCounted(new)
  <2>1. \A b \in Clients : dev.procs[b] = Cardinality(Held(dev, b))
    BY DEF InOrder, DeviceRefCounted
  <2>2. Cardinality(Held(new, c)) = Cardinality(Held(dev, c)) - 1
    <3>1. IsFiniteSet(Held(dev, c))
      BY HeldFinite
    <3>2. Cardinality(Held(dev, c) \ {<<i, k>>}) = Cardinality(Held(dev, c)) - 1
      BY <1>6, <3>1, FS_RemoveElement
    <3> QED BY <1>11, <3>2
  <2> QED BY <1>8, <1>12, <1>13, <2>1, <2>2 DEF DeviceRefCounted
<1>15. DeviceExclusive(new)
  <2>1. SUFFICES ASSUME new.isExcl
                 PROVE  /\ UsesDevice(new, c)
                        /\ \A b \in Clients \ {c} : Held(new, b) = {}
    BY DEF DeviceExclusive
  <2>2. dev.isExcl /\ dev.procs[c] > 1
    BY <1>8, <2>1
  <2>3. UsesDevice(new, c)
    BY <1>8, <1>13, <2>2 DEF UsesDevice
  <2>4. \A b \in Clients \ {c} : Held(dev, b) = {}
    BY <1>6, <2>2 DEF InOrder, DeviceExclusive
  <2> QED BY <1>12, <2>3, <2>4
<1> QED BY <1>8, <1>9, <1>14, <1>15 DEF InOrder

(* recycleResource on one device: the clients in C hold nothing there, and *)
(* the others hold and use what they did.                                  *)
LEMMA RecycleInOrder ==
  ASSUME NEW dev, InOrder(dev), NEW C \in SUBSET Clients
  PROVE  InOrder(RecycleOnDevice(dev, C))
<1>1. CASE ~IsLoaded(dev)
  BY <1>1 DEF RecycleOnDevice
<1>2. CASE IsLoaded(dev)
  <2> DEFINE gone == C \cap DeviceClients(dev)
             freed(cu) == ReleaseAllChans(DropReservesOf(cu, C), gone)
             cus == [i \in CuIds |-> freed(dev.cus[i])]
             procs == [c \in Clients |-> IF c \in gone THEN 0 ELSE dev.procs[c]]
             new == RecycleOnDevice(dev, C)
  <2>1. ASSUME NEW i \in CuIds
        PROVE  /\ freed(dev.cus[i]) \in CuType
               /\ CuIndexed(freed(dev.cus[i]))
               /\ freed(dev.cus[i]).channels
                    = [k \in Channels |-> IF dev.cus[i].channels[k].client \in gone
                                          THEN FreeChannel ELSE dev.cus[i].channels[k]]
    <3> DEFINE cu == dev.cus[i]
               drop == DropReservesOf(cu, C)
    <3>1. cu \in CuType /\ CuIndexed(cu)
      BY DEF InOrder, DeviceType
    <3>2. drop \in CuType /\ CuIndexed(drop) /\ drop.channels = cu.channels
      BY <3>1, DropReservesSafe, SameChannelsIndexed DEF SameChannels
    <3> HIDE DEF drop, cu
    <3>3. gone \in SUBSET Clients
      OBVIOUS
    <3> HIDE DEF gone
    <3>4. /\ ReleaseAllChans(drop, gone) \in CuType
          /\ CuIndexed(ReleaseAllChans(drop, gone))
          /\ ReleaseAllChans(drop, gone).channels
               = [k \in Channels |-> IF drop.channels[k].client \in gone
                                     THEN FreeChannel ELSE drop.channels[k]]
      BY <3>2, <3>3, ReleaseAllChansSafe
    <3> QED BY <3>2, <3>4 DEF drop, cu
  <2>2. cus \in [CuIds -> CuType]
    BY <2>1
  <2>3. procs \in [Clients -> Nat] /\ dev.procs \in [Clients -> Nat]
    BY DEF InOrder, DeviceType
  <2>4. (dev.isExcl /\ gone = {}) \in BOOLEAN
    OBVIOUS
  <2>5. new = [dev EXCEPT !.cus = cus, !.isExcl = dev.isExcl /\ gone = {}, !.procs = procs]
    BY <1>2 DEF RecycleOnDevice
  <2> HIDE DEF cus, procs, new
  <2>6. /\ new \in DeviceType
        /\ new.cus = cus
        /\ new.procs = procs
        /\ new.isExcl = (dev.isExcl /\ gone = {})
    BY <2>2, <2>3, <2>4, <2>5 DEF InOrder, DeviceType
  <2> HIDE DEF freed, gone
  <2>7. \A i \in CuIds : CuIndexed(new.cus[i])
    BY <2>1, <2>6 DEF cus
  <2>8. \A i \in CuIds, k \in Channels :
           new.cus[i].channels[k].client
              = IF dev.cus[i].channels[k].client \in gone THEN NoClient
                ELSE dev.cus[i].channels[k].client
    <3>1. \A i \in CuIds, k \in Channels :
             new.cus[i].channels[k] = IF dev.cus[i].channels[k].client \in gone
                                      THEN FreeChannel ELSE dev.cus[i].channels[k]
      <4> SUFFICES ASSUME NEW i \in CuIds, NEW k \in Channels
                   PROVE  new.cus[i].channels[k]
                            = IF dev.cus[i].channels[k].client \in gone
                              THEN FreeChannel ELSE dev.cus[i].channels[k]
        OBVIOUS
      <4>1. new.cus[i] = freed(dev.cus[i])
        BY <2>6 DEF cus
      <4>2. freed(dev.cus[i]).channels
              = [l \in Channels |-> IF dev.cus[i].channels[l].client \in gone
                                    THEN FreeChannel ELSE dev.cus[i].channels[l]]
        BY <2>1
      <4> QED BY <4>1, <4>2
    <3> QED BY <3>1 DEF FreeChannel
  <2>9. \A c \in Clients : Held(new, c) = IF c \in gone THEN {} ELSE Held(dev, c)
    BY <2>8, CuAssumption DEF Held
  <2>10. DeviceRefCounted(new)
    BY <2>3, <2>6, <2>9, FS_EmptySet DEF InOrder, DeviceRefCounted, procs
  <2>11. DeviceExclusive(new)
    <3>1. SUFFICES ASSUME new.isExcl PROVE DeviceExclusive(new)
      BY DEF DeviceExclusive
    <3>2. gone = {} /\ dev.isExcl
      BY <2>6, <3>1
    <3>3. new.procs = dev.procs
      BY <2>3, <2>6, <3>2 DEF procs
    <3> QED BY <2>9, <3>2, <3>3 DEF InOrder, DeviceExclusive, UsesDevice
  <2> QED BY <2>6, <2>7, <2>10, <2>11 DEF InOrder, new
<1> QED BY <1>1, <1>2

----------------------------------------------------------------------------
(* Reserving and giving back reservations: CUs change, channels do not.    *)
LEMMA CusInOrder ==
  ASSUME NEW dev, InOrder(dev), NEW cus, cus = [i \in CuIds |-> cus[i]],
         \A i \in CuIds : cus[i] \in CuType /\ SameChannels(dev.cus[i], cus[i]),
         NEW new, new = [dev EXCEPT !.cus = cus]
  PROVE  InOrder(new)
<1>1. cus \in [CuIds -> CuType]
  OBVIOUS
<1>2. new \in DeviceType /\ new.cus = cus /\ new.procs = dev.procs /\ new.isExcl = dev.isExcl
  BY <1>1 DEF InOrder, DeviceType
<1>3. \A i \in CuIds : CuIndexed(cus[i]) /\ cus[i].channels = dev.cus[i].channels
  BY SameChannelsIndexed DEF InOrder, SameChannels
<1> QED BY <1>2, <1>3, FrameInOrder

(* deviceLoadXclbin, openDevice and unloadOneDevice. *)
LEMMA LoadedInOrder ==
  ASSUME NEW dev, InOrder(dev), NEW x \in Xclbins
  PROVE  InOrder(LoadedWith(dev, x))
<1>1. LoadedWith(dev, x) = [dev EXCEPT !.xclbin = x, !.isDisabled = dev.isDisabled, !.open = TRUE]
  BY DEF LoadedWith, InOrder, DeviceType
<1>2. dev.isDisabled \in BOOLEAN
  BY DEF InOrder, DeviceType
<1> QED BY <1>1, <1>2, FieldsInOrder

(* Closing the handle and changing isDisabled disturb nothing. *)
LEMMA HandleInOrder ==
  ASSUME NEW dev, InOrder(dev), NEW dis \in BOOLEAN, NEW open \in BOOLEAN
  PROVE  /\ InOrder([dev EXCEPT !.open = open])
         /\ InOrder([dev EXCEPT !.isDisabled = dis])
<1> DEFINE o == [dev EXCEPT !.open = open]
           w == [dev EXCEPT !.isDisabled = dis]
<1>1. dev.xclbin \in Xclbins \cup {NoXclbin} /\ dev.isDisabled \in BOOLEAN /\ dev.open \in BOOLEAN
  BY DEF InOrder, DeviceType
<1>2. o = [dev EXCEPT !.xclbin = dev.xclbin, !.isDisabled = dev.isDisabled, !.open = open]
  BY DEF InOrder, DeviceType
<1>3. w = [dev EXCEPT !.xclbin = dev.xclbin, !.isDisabled = dis, !.open = dev.open]
  BY DEF InOrder, DeviceType
<1> HIDE DEF o, w
<1>4. InOrder(o)
  BY <1>1, <1>2, FieldsInOrder
<1>5. InOrder(w)
  BY <1>1, <1>3, FieldsInOrder
<1> QED BY <1>4, <1>5 DEF o, w

(* openDevice disturbs nothing. *)
LEMMA OpenedInOrder ==
  ASSUME NEW dev, InOrder(dev), NEW ok \in BOOLEAN
  PROVE  InOrder(Opened(dev, ok))
<1>1. (dev.open \/ ok) \in BOOLEAN /\ Opened(dev, ok) = [dev EXCEPT !.open = dev.open \/ ok]
  BY DEF Opened
<1> QED BY <1>1, HandleInOrder DEF InOrder, DeviceType

----------------------------------------------------------------------------
(* HoldingsInOrder, as a property of a list of devices. *)
AllInOrder(devs) ==
    /\ devs \in [Devices -> DeviceType]
    /\ \A d \in Devices : InOrder(devs[d])

(* HoldingsInOrder, device by device. *)
LEMMA HoldingsAreInOrder ==
  HoldingsInOrder <=> AllInOrder(devList) /\ reservePoolId \in 0 .. MaxPool
<1>1. ChannelsIndexed <=> \A d \in Devices, i \in CuIds : CuIndexed(devList[d].cus[i])
  <2>1. ASSUME ChannelsIndexed, NEW d \in Devices, NEW i \in CuIds
        PROVE  CuIndexed(devList[d].cus[i])
    <3>1. <<d, i>> \in Slots
      BY DEF Slots
    <3>2. CuIndexed(CuAt(devList, <<d, i>>))
      BY <2>1, <3>1 DEF ChannelsIndexed
    <3> QED BY <3>2 DEF CuAt
  <2>2. ASSUME \A d \in Devices, i \in CuIds : CuIndexed(devList[d].cus[i])
        PROVE  ChannelsIndexed
    BY <2>2 DEF ChannelsIndexed, Slots, CuAt
  <2> QED BY <2>1, <2>2
<1> QED BY <1>1 DEF HoldingsInOrder, AllInOrder, InOrder, TypeOK, RefCounted, ExclusiveAlone

(* The search's order has a first slot in every nonempty set of slots.     *)
LEMMA FirstSlotIn ==
  ASSUME NEW S \in SUBSET Slots, S # {}
  PROVE  FirstSlot(S) \in S
<1> DEFINE D == {s[1] : s \in S}
<1>1. D \in SUBSET Nat /\ D # {}
  BY SystemAssumption DEF Slots, Devices
<1>2. PICK d \in D : \A e \in D : d <= e
  BY <1>1, LeastElement
<1> DEFINE I == {s[2] : s \in {t \in S : t[1] = d}}
<1>3. I \in SUBSET Nat /\ I # {}
  BY <1>2, DeviceAssumption DEF Slots, CuIds
<1>4. PICK i \in I : \A j \in I : i <= j
  <2> HIDE DEF I
  <2> QED BY <1>3, LeastElement
<1>5. PICK s \in S : s[1] = d /\ s[2] = i
  BY <1>4
<1>6. \A t \in S : s = t \/ Before(s, t)
  <2> SUFFICES ASSUME NEW t \in S PROVE s = t \/ Before(s, t)
    OBVIOUS
  <2>1. s \in Devices \X CuIds /\ t \in Devices \X CuIds
    BY DEF Slots
  <2>2. /\ s[1] \in Nat /\ s[2] \in Nat /\ t[1] \in Nat /\ t[2] \in Nat
        /\ s = <<s[1], s[2]>> /\ t = <<t[1], t[2]>>
    BY <2>1, SystemAssumption, DeviceAssumption DEF Devices, CuIds
  <2>3. d <= t[1]
    BY <1>2
  <2>4. t[1] = d => i <= t[2]
    BY <1>4
  <2> QED BY <1>5, <2>2, <2>3, <2>4 DEF Before
<1> QED BY <1>6 DEF FirstSlot

(* The affinity passes choose among the candidates. *)
LEMMA FirstByAffinityIn ==
  ASSUME NEW devs, NEW S \in SUBSET Slots, S # {}
  PROVE  FirstByAffinity(devs, S) \in S
BY FirstSlotIn DEF FirstByAffinity

(* Replacing one device by one in order. *)
LEMMA ReplaceInOrder ==
  ASSUME NEW devs, AllInOrder(devs), NEW d \in Devices, NEW dev, InOrder(dev),
         NEW new, new = [devs EXCEPT ![d] = dev]
  PROVE  AllInOrder(new)
BY DEF AllInOrder, InOrder

(* Changing every device, each into one in order. *)
LEMMA EachInOrder ==
  ASSUME NEW new, new = [d \in Devices |-> new[d]],
         \A d \in Devices : InOrder(new[d])
  PROVE  AllInOrder(new)
BY DEF AllInOrder, InOrder

----------------------------------------------------------------------------
(* A search leaves the devices it visits in vain in order. *)
LEMMA ProbeAllInOrder ==
  ASSUME NEW devs, AllInOrder(devs), NEW D, NEW c \in Clients, NEW excl \in BOOLEAN
  PROVE  /\ AllInOrder(ProbeAll(devs, D, c, excl))
         /\ \A d \in Devices :
               /\ ProbeAll(devs, D, c, excl)[d].cus = devs[d].cus
               /\ CanAllocClient(devs[d], c, excl)
                     => CanAllocClient(ProbeAll(devs, D, c, excl)[d], c, excl)
<1> DEFINE new == ProbeAll(devs, D, c, excl)
<1>1. new = [d \in Devices |-> new[d]]
  BY DEF ProbeAll
<1>2. ASSUME NEW d \in Devices
      PROVE  /\ InOrder(new[d])
             /\ new[d].cus = devs[d].cus
             /\ CanAllocClient(devs[d], c, excl) => CanAllocClient(new[d], c, excl)
  <2>1. new[d] = IF d \in D THEN ProbeDevice(devs[d], c, excl) ELSE devs[d]
    BY DEF ProbeAll
  <2>2. InOrder(devs[d])
    BY DEF AllInOrder
  <2> HIDE DEF new
  <2> QED BY <2>1, <2>2, ProbeInOrder
<1> HIDE DEF new
<1>3. AllInOrder(new)
  BY <1>1, <1>2, EachInOrder
<1> QED BY <1>2, <1>3 DEF new

(* Allocating on the slot a search found. *)
LEMMA AllocOnInOrder ==
  ASSUME NEW devs, AllInOrder(devs), NEW s \in Slots, NEW c \in Clients,
         NEW req \in Requests, NEW pool \in {NoPool} \cup PoolIds, NEW excl \in BOOLEAN,
         CanAllocClient(devs[s[1]], c, excl),
         CanAllocChan(devs[s[1]].cus[s[2]], pool, req.load)
  PROVE  AllInOrder(AllocOn(devs, s, c, req, pool, excl))
<1> DEFINE d == s[1]
           i == s[2]
           cu == AllocChanClientFromCu(devs[d].cus[i], c, pool, req.load)
           dev == AllocClientFromDev([devs[d] EXCEPT !.cus[i] = cu], c, excl)
<1>1. d \in Devices /\ i \in CuIds /\ req.load \in 0 .. MaxLoad
  BY DEF Slots, Requests
<1>2. InOrder(devs[d])
  BY <1>1 DEF AllInOrder
<1>3. AllocOn(devs, s, c, req, pool, excl) = [devs EXCEPT ![d] = dev]
  <2>1. AllocOn(devs, s, c, req, pool, excl)
          = [[devs EXCEPT ![d].cus[i] = cu] EXCEPT ![d] = AllocClientFromDev(@, c, excl)]
    BY DEF AllocOn, UpdateCu, CuAt
  <2>2. [devs EXCEPT ![d].cus[i] = cu][d] = [devs[d] EXCEPT !.cus[i] = cu]
    BY <1>1 DEF AllInOrder
  <2> HIDE DEF cu
  <2> QED BY <1>1, <2>1, <2>2 DEF AllInOrder
<1>4. InOrder(dev)
  BY <1>1, <1>2, AllocInOrder
<1> HIDE DEF dev
<1> QED BY <1>1, <1>3, <1>4, ReplaceInOrder

(* resAllocCu. *)
LEMMA AllocCuInOrder ==
  ASSUME NEW devs, AllInOrder(devs), NEW c \in Clients, NEW req \in Requests,
         NEW pool \in {NoPool} \cup PoolIds, NEW excl \in BOOLEAN
  PROVE  AllInOrder(ResAllocCu(devs, c, req, pool, excl))
<1> DEFINE S == AllocCandidates(devs, Devices, c, req, pool, excl)
           s == FirstByAffinity(devs, S)
           probed == ProbeAll(devs, ProbedBefore(devs, s), c, excl)
<1>1. CASE S = {}
  BY <1>1, ProbeAllInOrder DEF ResAllocCu
<1>2. CASE S # {}
  <2>1. S \in SUBSET Slots
    BY DEF AllocCandidates
  <2>2. s \in S
    <3> HIDE DEF S
    <3> QED BY <1>2, <2>1, FirstByAffinityIn
  <2>3. /\ s \in Slots
        /\ CanAllocClient(devs[s[1]], c, excl)
        /\ CanAllocChan(devs[s[1]].cus[s[2]], pool, req.load)
    BY <2>2 DEF AllocCandidates, CuAt
  <2>4. ResAllocCu(devs, c, req, pool, excl) = AllocOn(probed, s, c, req, pool, excl)
    BY <1>2 DEF ResAllocCu
  <2> HIDE DEF S, s
  <2>5. s[1] \in Devices
    BY <2>3 DEF Slots
  <2>6. /\ AllInOrder(probed)
        /\ probed[s[1]].cus = devs[s[1]].cus
        /\ CanAllocClient(probed[s[1]], c, excl)
    BY <2>3, <2>5, ProbeAllInOrder
  <2> HIDE DEF probed
  <2> QED BY <2>3, <2>4, <2>6, AllocOnInOrder
<1> QED BY <1>1, <1>2

(* resAllocCuFromDev. *)
LEMMA AllocCuFromDevInOrder ==
  ASSUME NEW devs, AllInOrder(devs), NEW d \in Devices, NEW c \in Clients,
         NEW req \in Requests, NEW pool \in {NoPool} \cup PoolIds, NEW excl \in BOOLEAN
  PROVE  AllInOrder(ResAllocCuFromDev(devs, d, c, req, pool, excl))
<1> DEFINE S == AllocCandidates(devs, {d}, c, req, pool, excl)
           s == FirstByAffinity(devs, S)
<1>1. CASE S = {}
  BY <1>1, ProbeAllInOrder DEF ResAllocCuFromDev
<1>2. CASE S # {}
  <2>1. S \in SUBSET Slots
    BY DEF AllocCandidates
  <2>2. s \in S
    <3> HIDE DEF S
    <3> QED BY <1>2, <2>1, FirstByAffinityIn
  <2>3. /\ s \in Slots
        /\ CanAllocClient(devs[s[1]], c, excl)
        /\ CanAllocChan(devs[s[1]].cus[s[2]], pool, req.load)
    BY <2>2 DEF AllocCandidates, CuAt
  <2>4. ResAllocCuFromDev(devs, d, c, req, pool, excl) = AllocOn(devs, s, c, req, pool, excl)
    BY <1>2 DEF ResAllocCuFromDev
  <2> HIDE DEF S, s
  <2> QED BY <2>3, <2>4, AllocOnInOrder
<1> QED BY <1>1, <1>2

----------------------------------------------------------------------------
(* Reserving on the slot a search found. *)
LEMMA ReserveOnInOrder ==
  ASSUME NEW devs, AllInOrder(devs), NEW s \in Slots, NEW pool \in PoolIds, NEW c \in Clients,
         NEW req \in Requests
  PROVE  AllInOrder(ReserveOn(devs, s, pool, c, req))
<1> DEFINE d == s[1]
           i == s[2]
           cu == ReserveLoadFromCu(devs[d].cus[i], pool, c, req.load)
           cus == [devs[d].cus EXCEPT ![i] = cu]
           dev == [devs[d] EXCEPT !.cus = cus]
<1>1. d \in Devices /\ i \in CuIds /\ req.load \in 0 .. MaxLoad
  BY DEF Slots, Requests
<1>2. InOrder(devs[d]) /\ devs[d].cus \in [CuIds -> CuType]
  BY <1>1 DEF AllInOrder, InOrder, DeviceType
<1>3. ReserveOn(devs, s, pool, c, req) = [devs EXCEPT ![d] = dev]
  BY <1>1 DEF ReserveOn, UpdateCu, CuAt, AllInOrder
<1>4. cu \in CuType /\ SameChannels(devs[d].cus[i], cu)
  BY <1>1, <1>2, ReserveSafe
<1> HIDE DEF cu
<1>5. /\ cus = [j \in CuIds |-> cus[j]]
      /\ \A j \in CuIds : cus[j] \in CuType /\ SameChannels(devs[d].cus[j], cus[j])
  BY <1>1, <1>2, <1>4 DEF SameChannels
<1> HIDE DEF cus
<1>6. InOrder(dev)
  BY <1>2, <1>5, CusInOrder
<1> HIDE DEF dev
<1> QED BY <1>1, <1>3, <1>6, ReplaceInOrder

(* resRelinquishCuPool, whether it gets through or stops half way. *)
LEMMA RelinquishInOrder ==
  ASSUME NEW devs, AllInOrder(devs), NEW pool \in PoolIds
  PROVE  AllInOrder(ResRelinquishCuPool(devs, pool))
<1> DEFINE given == {s \in PoolSlots(devs, pool) :
                       \A u \in UsedPoolSlots(devs, pool) : Before(s, u)}
           cus(d) == [i \in CuIds |-> IF <<d, i>> \in given
                                      THEN RelinquishOnCu(devs[d].cus[i], pool)
                                      ELSE devs[d].cus[i]]
           new == ResRelinquishCuPool(devs, pool)
<1>1. /\ new = [d \in Devices |-> new[d]]
      /\ \A d \in Devices : new[d] = [devs[d] EXCEPT !.cus = cus(d)]
  BY DEF ResRelinquishCuPool
<1> HIDE DEF given, new
<1>2. ASSUME NEW d \in Devices
      PROVE  InOrder(new[d])
  <2>1. InOrder(devs[d]) /\ devs[d].cus \in [CuIds -> CuType]
    BY DEF AllInOrder, InOrder, DeviceType
  <2>2. \A i \in CuIds : cus(d)[i] \in CuType /\ SameChannels(devs[d].cus[i], cus(d)[i])
    BY <2>1, RelinquishSafe DEF SameChannels
  <2>3. cus(d) = [i \in CuIds |-> cus(d)[i]]
    OBVIOUS
  <2>4. new[d] = [devs[d] EXCEPT !.cus = cus(d)]
    BY <1>1
  <2> HIDE DEF cus
  <2> QED BY <2>1, <2>2, <2>3, <2>4, CusInOrder
<1> QED BY <1>1, <1>2, EachInOrder DEF new

(* recycleResource. *)
LEMMA RecycledInOrder ==
  ASSUME NEW devs, AllInOrder(devs), NEW C \in SUBSET Clients
  PROVE  AllInOrder(Recycled(devs, C))
<1> DEFINE new == Recycled(devs, C)
<1>1. /\ new = [d \in Devices |-> new[d]]
      /\ \A d \in Devices : new[d] = RecycleOnDevice(devs[d], C)
  BY DEF Recycled
<1> HIDE DEF new
<1>2. \A d \in Devices : InOrder(new[d])
  BY <1>1, RecycleInOrder DEF AllInOrder
<1> QED BY <1>1, <1>2, EachInOrder DEF new

(* unloadOneDevice. *)
LEMMA UnloadedInOrder ==
  ASSUME NEW dev, InOrder(dev), NEW unlocks
  PROVE  InOrder(Unloaded(dev, unlocks))
BY ClearInfoInOrder DEF Unloaded

----------------------------------------------------------------------------
(* The call that changes one device by one of the operators above.         *)
LEMMA OneDeviceStep ==
  ASSUME AllInOrder(devList), reservePoolId \in 0 .. MaxPool, NEW d \in Devices,
         NEW dev, InOrder(dev), devList' = [devList EXCEPT ![d] = dev], UNCHANGED reservePoolId
  PROVE  AllInOrder(devList)' /\ (reservePoolId \in 0 .. MaxPool)'
BY ReplaceInOrder DEF AllInOrder

(* The devices are in order when the daemon has probed them. *)
LEMMA InitInOrder == Init => HoldingsInOrder
<1>1. ASSUME NEW opened \in [Devices -> BOOLEAN],
             devList = [d \in Devices |-> InitialDevice(opened[d])]
      PROVE  AllInOrder(devList)
  <2>1. \A d \in Devices : InOrder(devList[d])
    BY <1>1, InitialInOrder
  <2> QED BY <1>1, <2>1, EachInOrder
<1> QED BY <1>1, HoldingsAreInOrder, CuAssumption DEF Init

(* One step per call: every call of a client or of an administrator, and   *)
(* the reset worker, keep HoldingsInOrder.                                 *)
LEMMA CallsInOrder ==
  ASSUME AllInOrder(devList), reservePoolId \in 0 .. MaxPool, Next
  PROVE  AllInOrder(devList') /\ reservePoolId' \in 0 .. MaxPool
<1> USE CuAssumption
<1>1. ASSUME NEW c \in Clients, NEW req \in Requests, NEW pool \in {NoPool} \cup PoolIds,
             NEW excl \in BOOLEAN, AllocCu(c, req, pool, excl)
      PROVE  AllInOrder(devList') /\ reservePoolId' \in 0 .. MaxPool
  BY <1>1, AllocCuInOrder DEF AllocCu
<1>2. ASSUME NEW c \in Clients, NEW req \in Requests, NEW pool \in {NoPool} \cup PoolIds,
             NEW excl \in BOOLEAN, NEW d \in Devices, AllocCuFromDev(d, c, req, pool, excl)
      PROVE  AllInOrder(devList') /\ reservePoolId' \in 0 .. MaxPool
  BY <1>2, AllocCuFromDevInOrder DEF AllocCuFromDev
<1>3. ASSUME NEW c \in Clients, NEW s \in Slots, NEW k \in Channels, ReleaseCu(c, s, k)
      PROVE  AllInOrder(devList') /\ reservePoolId' \in 0 .. MaxPool
  <2> DEFINE d == s[1]
             i == s[2]
             cu == ReleaseChan(devList[d].cus[i], c, k)
             mid == [devList[d] EXCEPT !.cus[i] = cu]
             dev == ReleaseClientOnDev(mid, c)
  <2>1. d \in Devices /\ i \in CuIds /\ InOrder(devList[d])
    BY DEF Slots, AllInOrder
  <2>2. devList' = [[devList EXCEPT ![d].cus[i] = cu] EXCEPT ![d] = ReleaseClientOnDev(@, c)]
    BY <1>3 DEF ReleaseCu, ResReleaseCu, HoldsChannel, UpdateCu, CuAt
  <2>3. [devList EXCEPT ![d].cus[i] = cu][d] = mid
    BY <2>1 DEF AllInOrder
  <2>4. devList' = [devList EXCEPT ![d] = dev]
    <3> HIDE DEF cu, mid
    <3> QED BY <2>1, <2>2, <2>3 DEF AllInOrder
  <2>5. IsLoaded(devList[d]) /\ devList[d].cus[i].channels[k].client = c
    BY <1>3 DEF ReleaseCu, HoldsChannel, CuAt
  <2>6. InOrder(dev)
    BY <2>1, <2>5, ReleaseInOrder
  <2> HIDE DEF dev
  <2> QED BY <1>3, <2>1, <2>4, <2>6, ReplaceInOrder DEF ReleaseCu, ResReleaseCu
<1>4. ASSUME NEW c \in Clients, NEW req \in Requests, ReserveCuPool(c, req)
      PROVE  AllInOrder(devList') /\ reservePoolId' \in 0 .. MaxPool
  <2> DEFINE pool == reservePoolId + 1
             S == ReserveCandidates(devList, pool, c, req)
             s == FirstByAffinity(devList, S)
  <2>1. S # {} /\ S \in SUBSET Slots /\ pool \in PoolIds
    BY <1>4 DEF ReserveCuPool, ReserveCandidates
  <2>2. devList' = ReserveOn(devList, s, pool, c, req) /\ reservePoolId' = pool
    BY <1>4 DEF ReserveCuPool
  <2> HIDE DEF S, pool
  <2>3. s \in Slots
    BY <2>1, FirstByAffinityIn
  <2> HIDE DEF s
  <2> QED BY <2>1, <2>2, <2>3, ReserveOnInOrder DEF PoolIds
<1>5. ASSUME NEW c \in Clients, NEW req1 \in Requests, NEW req2 \in Requests,
             ReserveCuPoolOfTwo(c, req1, req2)
      PROVE  AllInOrder(devList') /\ reservePoolId' \in 0 .. MaxPool
  <2> DEFINE pool == reservePoolId + 1
             S1 == ReserveCandidates(devList, pool, c, req1)
             s1 == FirstByAffinity(devList, S1)
             one == ReserveOn(devList, s1, pool, c, req1)
             S2 == ReserveCandidates(one, pool, c, req2)
             s2 == FirstByAffinity(one, S2)
  <2>1. S1 # {} /\ S1 \in SUBSET Slots /\ S2 \in SUBSET Slots /\ pool \in PoolIds
    BY <1>5 DEF ReserveCuPoolOfTwo, ReserveCandidates
  <2>2. \/ /\ S2 # {}
           /\ devList' = ReserveOn(one, s2, pool, c, req2)
           /\ reservePoolId' = pool
        \/ /\ devList' = ResRelinquishCuPool(one, pool)
           /\ UNCHANGED reservePoolId
    BY <1>5 DEF ReserveCuPoolOfTwo
  <2> HIDE DEF S1, S2, pool
  <2>3. s1 \in Slots
    BY <2>1, FirstByAffinityIn
  <2> HIDE DEF s1
  <2>4. AllInOrder(one)
    BY <2>1, <2>3, ReserveOnInOrder
  <2> HIDE DEF one
  <2>5. CASE S2 # {} /\ devList' = ReserveOn(one, s2, pool, c, req2) /\ reservePoolId' = pool
    <3>1. s2 \in Slots
      BY <2>1, <2>5, FirstByAffinityIn
    <3> HIDE DEF s2
    <3> QED BY <2>1, <2>4, <2>5, <3>1, ReserveOnInOrder DEF PoolIds
  <2>6. CASE devList' = ResRelinquishCuPool(one, pool) /\ UNCHANGED reservePoolId
    BY <2>1, <2>4, <2>6, RelinquishInOrder
  <2> QED BY <2>2, <2>5, <2>6
<1>6. ASSUME NEW c \in Clients, RecycleResource(c)
      PROVE  AllInOrder(devList') /\ reservePoolId' \in 0 .. MaxPool
  BY <1>6, RecycledInOrder DEF RecycleResource
<1>7. ASSUME NEW pool \in PoolIds, RelinquishCuPool(pool)
      PROVE  AllInOrder(devList') /\ reservePoolId' \in 0 .. MaxPool
  BY <1>7, RelinquishInOrder DEF RelinquishCuPool
<1>8. ASSUME NEW d \in Devices, NEW x \in Xclbins, NEW opens \in BOOLEAN, NEW ok \in BOOLEAN,
             LoadXclbin(d, x, opens, ok)
      PROVE  AllInOrder(devList') /\ reservePoolId' \in 0 .. MaxPool
  <2> DEFINE dev == Opened(devList[d], opens)
             new == IF ok /\ dev.open THEN LoadedWith(dev, x) ELSE DeviceClearInfo(dev)
  <2>1. InOrder(dev)
    BY OpenedInOrder DEF AllInOrder
  <2>2. devList' = [devList EXCEPT ![d] = new] /\ UNCHANGED reservePoolId
    BY <1>8 DEF LoadXclbin
  <2> HIDE DEF dev
  <2>3. InOrder(new)
    BY <2>1, LoadedInOrder, ClearInfoInOrder
  <2> HIDE DEF new
  <2> QED BY <2>2, <2>3, ReplaceInOrder
<1>9. ASSUME NEW d \in Devices, NEW unlocks \in BOOLEAN, UnloadDevice(d, unlocks)
      PROVE  AllInOrder(devList') /\ reservePoolId' \in 0 .. MaxPool
  <2> DEFINE new == Unloaded(devList[d], unlocks)
  <2>1. devList' = [devList EXCEPT ![d] = new] /\ UNCHANGED reservePoolId
    BY <1>9 DEF UnloadDevice
  <2>2. InOrder(new)
    BY UnloadedInOrder DEF AllInOrder
  <2> HIDE DEF new
  <2> QED BY <2>1, <2>2, ReplaceInOrder
<1>10. ASSUME NEW d \in Devices, EnableDevice(d)
       PROVE  AllInOrder(devList') /\ reservePoolId' \in 0 .. MaxPool
  <2> DEFINE new == [devList[d] EXCEPT !.isDisabled = FALSE]
  <2>1. devList' = [devList EXCEPT ![d] = new] /\ UNCHANGED reservePoolId
    BY <1>10 DEF EnableDevice
  <2>2. InOrder(new)
    BY HandleInOrder DEF AllInOrder
  <2> HIDE DEF new
  <2> QED BY <2>1, <2>2, ReplaceInOrder
<1>11. ASSUME NEW d \in Devices, NEW unlocks \in BOOLEAN, DisableDevice(d, unlocks)
       PROVE  AllInOrder(devList') /\ reservePoolId' \in 0 .. MaxPool
  <2> DEFINE dev == IF IsLoaded(devList[d]) THEN DeviceClearInfo(devList[d]) ELSE devList[d]
             new == [dev EXCEPT !.isDisabled = TRUE]
  <2>1. devList' = [devList EXCEPT ![d] = new] /\ UNCHANGED reservePoolId
    BY <1>11 DEF DisableDevice
  <2>2. InOrder(dev)
    BY ClearInfoInOrder DEF AllInOrder
  <2> HIDE DEF dev
  <2>3. InOrder(new)
    BY <2>2, HandleInOrder
  <2> HIDE DEF new
  <2> QED BY <2>1, <2>3, ReplaceInOrder
<1>12. ASSUME NEW d \in Devices, NEW unlocks \in BOOLEAN, ResetDevice(d, unlocks)
       PROVE  AllInOrder(devList') /\ reservePoolId' \in 0 .. MaxPool
  <2> DEFINE rest == Recycled(devList, DeviceClients(devList[d]))
             dev == Unloaded(rest[d], unlocks)
             new == [dev EXCEPT !.open = FALSE]
  <2>1. devList' = [rest EXCEPT ![d] = new] /\ UNCHANGED reservePoolId
    BY <1>12 DEF ResetDevice
  <2>2. DeviceClients(devList[d]) \in SUBSET Clients
    BY DEF DeviceClients
  <2>3. AllInOrder(rest)
    BY <2>2, RecycledInOrder
  <2> HIDE DEF rest
  <2>4. InOrder(dev)
    BY <2>3, UnloadedInOrder DEF AllInOrder
  <2> HIDE DEF dev
  <2>5. InOrder(new)
    BY <2>4, HandleInOrder
  <2> HIDE DEF new
  <2> QED BY <2>1, <2>3, <2>5, ReplaceInOrder
<1>13. ASSUME NEW x \in Xclbins, NEW good \in SUBSET Devices, NEW unlocks \in SUBSET Devices,
              NEW opens \in SUBSET Devices, LoadAnyDevice(x, good, unlocks, opens)
       PROVE  AllInOrder(devList') /\ reservePoolId' \in 0 .. MaxPool
  <2> DEFINE missed(d) == Opened(DeviceClearInfo(devList[d]),
                                 ~devList[d].isDisabled /\ d \in opens)
  <2>1. devList' = [d \in Devices |-> devList'[d]] /\ UNCHANGED reservePoolId
    BY <1>13 DEF LoadAnyDevice, LoadedAny
  <2>2. \A d \in Devices : devList'[d] \in {LoadedWith(devList[d], x), missed(d), devList[d],
                                            LoadedWith(DeviceClearInfo(devList[d]), x)}
    BY <1>13 DEF LoadAnyDevice, LoadedAny
  <2>3. \A d \in Devices : InOrder(missed(d))
    <3> TAKE d \in Devices
    <3>1. InOrder(DeviceClearInfo(devList[d]))
      BY ClearInfoInOrder DEF AllInOrder
    <3>2. (~devList[d].isDisabled /\ d \in opens) \in BOOLEAN
      OBVIOUS
    <3> QED BY <3>1, <3>2, OpenedInOrder
  <2>4. \A d \in Devices : /\ InOrder(devList[d])
                            /\ InOrder(LoadedWith(devList[d], x))
                            /\ InOrder(LoadedWith(DeviceClearInfo(devList[d]), x))
    BY LoadedInOrder, ClearInfoInOrder DEF AllInOrder
  <2> HIDE DEF missed
  <2>5. \A d \in Devices : InOrder(devList'[d])
    BY <2>2, <2>3, <2>4
  <2> QED BY <2>1, <2>5, EachInOrder
<1>14. CASE \E c \in Clients : ClientCall(c)
  BY <1>1, <1>2, <1>3, <1>4, <1>5, <1>6, <1>14 DEF ClientCall
<1>15. CASE \E d \in Devices : DeviceCall(d)
  BY <1>8, <1>9, <1>10, <1>11, <1>12, <1>15 DEF DeviceCall
<1> QED BY <1>7, <1>13, <1>14, <1>15 DEF Next

----------------------------------------------------------------------------
(* HoldingsInOrder is inductive: it holds of a daemon that has just        *)
(* started, and every call keeps it.                                       *)
THEOREM HoldingsInvariant == Spec => []HoldingsInOrder
<1>1. HoldingsInOrder /\ [Next]_vars => HoldingsInOrder'
  <2> SUFFICES ASSUME HoldingsInOrder, [Next]_vars PROVE HoldingsInOrder'
    OBVIOUS
  <2>1. AllInOrder(devList) /\ reservePoolId \in 0 .. MaxPool
    BY HoldingsAreInOrder
  <2>2. CASE Next
    <3>1. AllInOrder(devList') /\ reservePoolId' \in 0 .. MaxPool
      BY <2>1, <2>2, CallsInOrder
    <3>2. (HoldingsInOrder <=> AllInOrder(devList) /\ reservePoolId \in 0 .. MaxPool)'
      BY HoldingsAreInOrder, PTL
    <3> QED BY <3>1, <3>2
  <2>3. CASE UNCHANGED vars
    <3>1. AllInOrder(devList') /\ reservePoolId' \in 0 .. MaxPool
      BY <2>1, <2>3 DEF vars
    <3>2. (HoldingsInOrder <=> AllInOrder(devList) /\ reservePoolId \in 0 .. MaxPool)'
      BY HoldingsAreInOrder, PTL
    <3> QED BY <3>1, <3>2
  <2> QED BY <2>2, <2>3
<1> QED BY InitInOrder, <1>1, PTL DEF Spec

(* The daemon's data stay what they are declared to be. *)
THEOREM TypeCorrect == Spec => []TypeOK
<1>1. HoldingsInOrder => TypeOK
  BY DEF HoldingsInOrder
<1> QED BY <1>1, HoldingsInvariant, PTL

(* cu->clients and cu->numChanInuse always say what the channels say, so   *)
(* that the channel allocChanClientFromCu takes without looking is free.   *)
THEOREM ChannelsAlwaysIndexed == Spec => []ChannelsIndexed
<1>1. HoldingsInOrder => ChannelsIndexed
  BY DEF HoldingsInOrder
<1> QED BY <1>1, HoldingsInvariant, PTL

(* A client's reference count on a device is always the number of channels *)
(* it holds there.                                                         *)
THEOREM ReferencesCounted == Spec => []RefCounted
<1>1. HoldingsInOrder => RefCounted
  BY DEF HoldingsInOrder
<1> QED BY <1>1, HoldingsInvariant, PTL

(* A device in exclusive mode always has an owner, and nobody else holds a *)
(* channel of it.                                                          *)
THEOREM ExclusiveDeviceAlone == Spec => []ExclusiveAlone
<1>1. HoldingsInOrder => ExclusiveAlone
  BY DEF HoldingsInOrder
<1> QED BY <1>1, HoldingsInvariant, PTL

=============================================================================
