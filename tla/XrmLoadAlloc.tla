----------------------------- MODULE XrmLoadAlloc -----------------------------
(***************************************************************************)
(* The allocations that look for an idle CU first, and those that load an  *)
(* xclbin when there is none: resAllocLeastUsedCuFromDev,                  *)
(* resAllocCuWithLoad, resAllocCuLeastUsedWithLoad, resLoadAndAllocAllCu.  *)
(* They keep the books of load, but not those of references: a client may  *)
(* end up with more references on a device than channels, or with fewer.   *)
(***************************************************************************)
EXTENDS XrmSystem, SequencesExt

CONSTANTS
    MaxListCus,     \* XRM_MAX_LIST_CU_NUM
    MaxRef,         \* bound: no allocation by a client with MaxRef references on a device
    MaxBusy,        \* bound: no allocation with MaxBusy channels in use
    Drivers         \* what a load can meet: the devices on which it succeeds, those
                    \* whose xclbin can be unlocked, those that can be opened

ASSUME LoadAllocAssumption ==
    /\ MaxListCus \in Nat \ {0}
    /\ {MaxRef, MaxBusy} \subseteq Nat
    /\ Drivers \subseteq [good : SUBSET Devices, unlocks : SUBSET Devices, opens : SUBSET Devices]

----------------------------------------------------------------------------
(* Mutant: the CUs are tried in their order, not by their load. *)
InOrderOfId(devs, S, load) ==
    SetToSortSeq({s \in S : CuAt(devs, s).totalUsed + load <= MaxLoad}, Before)

(* leastUsedCus: the CUs of S with room for the load in the default pool,  *)
(* the least used one first.                                               *)
LeastUsedFirst(devs, S, load) ==
    LET used(s) == CuAt(devs, s).totalUsed
    IN  SetToSortSeq({s \in S : used(s) + load <= MaxLoad},
                     LAMBDA s, t : used(s) < used(t) \/ (used(s) = used(t) /\ Before(s, t)))

(* resAllocLeastUsedCuFromDev.  One reference of the device is taken.  If  *)
(* no idle CU can be allocated, those in use are tried by their load, and  *)
(* each that fails costs a reference; if there is none to try, the one     *)
(* taken is kept.                                                          *)
ResAllocLeastUsedCuFromDev(devs, d, c, req, pool, excl) ==
    LET match == {d} \X MatchingCus(devs[d], req.kernel)
        can(s) == CanAllocChan(CuAt(devs, s), pool, req.load)
        idle == {s \in match : ~InUse(devs, s) /\ can(s)}
        given(ds, s) == UpdateCu(ds, s, AllocChanClientFromCu(CuAt(ds, s), c, pool, req.load))
        try(at, s) == IF at.got THEN at
                      ELSE IF can(s) THEN [got |-> TRUE, devs |-> given(at.devs, s)]
                      ELSE [at EXCEPT !.devs[d] = ReleaseClientOnDev(@, c)]
        held == [devs EXCEPT ![d] = AllocClientFromDev(@, c, excl)]
    IN  IF ~IsFreeForClient(devs[d], c) \/ ~CanAllocClient(devs[d], c, excl)
        THEN devs
        ELSE IF idle # {} THEN given(held, FirstSlot(idle))
        ELSE FoldLeft(try, [got |-> FALSE, devs |-> held], LeastUsedFirst(devs, match, req.load)).devs

----------------------------------------------------------------------------
Target(devs, drv) == LoadTarget(devs, drv.good, drv.unlocks, drv.opens)

LoadedFor(devs, x, drv) == LoadedAny(devs, x, drv.good, drv.unlocks, drv.opens)

(* The CU is taken from the device just loaded, if there is one.  (All its *)
(* CUs are idle, which makes the search that of resAllocCuFromDev.)        *)
AllocFromTarget(devs, x, drv, c, req, pool, excl) ==
    LET loaded == LoadedFor(devs, x, drv)
        target == Target(devs, drv)
    IN  [got  |-> AllocCandidates(loaded, target, c, req, pool, excl) # {},
         devs |-> IF target = {} THEN loaded
                  ELSE ResAllocCuFromDev(loaded, CHOOSE d \in target : TRUE, c, req, pool, excl)]

(* resAllocCuWithLoad *)
ResAllocCuWithLoad(devs, x, drv, c, req, pool, excl) ==
    LET found == ResAllocCu(devs, c, req, pool, excl)
    IN  IF AllocCandidates(devs, Devices, c, req, pool, excl) # {}
        THEN found
        ELSE AllocFromTarget(found, x, drv, c, req, pool, excl).devs

----------------------------------------------------------------------------
(* xclbinName: the devices that carry the xclbin the client asked for. *)
Carrying(devs, x) == {d \in Devices : devs[d].xclbin = x}

(* resAllocCuLeastUsedWithLoad, its last part: the CUs of all devices that *)
(* carry the xclbin are tried by their load.                               *)
AllocLeastUsed(devs, x, c, req, pool, excl) ==
    LET D == {d \in Carrying(devs, x) : /\ IsFreeForClient(devs[d], c)
                                        /\ CanAllocClient(devs[d], c, excl)}
        match == {s \in Slots : s[1] \in D /\ s[2] \in MatchingCus(devs[s[1]], req.kernel)}
        try(at, s) == IF at.got THEN at
                      ELSE IF CanAllocChan(CuAt(devs, s), pool, req.load)
                      THEN [got |-> TRUE, devs |-> AllocOn(at.devs, s, c, req, pool, excl)]
                      ELSE [at EXCEPT !.devs[s[1]] = ProbeDevice(@, c, excl)]
    IN  FoldLeft(try, [got |-> FALSE, devs |-> ProbeAll(devs, D, c, excl)],
                 LeastUsedFirst(devs, match, req.load)).devs

(* resAllocCuLeastUsedWithLoad: an idle CU of a device that carries the    *)
(* xclbin, else one of a device loaded with it now, else the least used.   *)
ResAllocCuLeastUsedWithLoad(devs, x, drv, c, req, pool, excl) ==
    LET D == Carrying(devs, x)
        idle == {s \in AllocCandidates(devs, D, c, req, pool, excl) : ~InUse(devs, s)}
        first == FirstSlot(idle)
        fresh == AllocFromTarget(ProbeAll(devs, D, c, excl), x, drv, c, req, pool, excl)
    IN  IF idle # {}
        THEN AllocOn(ProbeAll(devs, {d \in D : d < first[1]}, c, excl), first, c, req, pool, excl)
        ELSE IF fresh.got THEN fresh.devs
        ELSE AllocLeastUsed(fresh.devs, x, c, req, pool, excl)

----------------------------------------------------------------------------
(* resLoadAndAllocAllCu on one CU of a device just loaded: channel 0 with  *)
(* the full load, which is what the allocation of an idle CU comes to.     *)
TakenWhole(cu, c) == AllocChanClientFromCu(cu, c, NoPool, MaxLoad)

(* resLoadAndAllocAllCu: as many CUs as a list has room for; the client    *)
(* gets one reference of the device for all of them.                       *)
ResLoadAndAllocAllCu(devs, x, drv, c) ==
    LET taken(dev) ==
            [dev EXCEPT !.procs[c] = 1,
                        !.cus = [i \in CuIds |-> IF i \in CusOf(dev) /\ i < MaxListCus
                                                 THEN TakenWhole(@[i], c) ELSE @[i]]]
        loaded == LoadedFor(devs, x, drv)
    IN  [d \in Devices |-> IF d \in Target(devs, drv) THEN taken(loaded[d]) ELSE loaded[d]]

----------------------------------------------------------------------------
AllocLeastUsedCuFromDev(d, c, req, pool, excl) ==
    /\ devList' = ResAllocLeastUsedCuFromDev(devList, d, c, req, pool, excl)
    /\ UNCHANGED reservePoolId

AllocCuWithLoad(x, drv, c, req, pool, excl) ==
    /\ devList' = ResAllocCuWithLoad(devList, x, drv, c, req, pool, excl)
    /\ UNCHANGED reservePoolId

AllocCuLeastUsedWithLoad(x, drv, c, req, pool, excl) ==
    /\ devList' = ResAllocCuLeastUsedWithLoad(devList, x, drv, c, req, pool, excl)
    /\ UNCHANGED reservePoolId

LoadAndAllocAllCu(x, drv, c) ==
    /\ devList' = ResLoadAndAllocAllCu(devList, x, drv, c)
    /\ UNCHANGED reservePoolId

MayAlloc(c) ==
    /\ \A d \in Devices : devList[d].procs[c] < MaxRef
    /\ Cardinality({h \in Slots \X Channels :
                       CuAt(devList, h[1]).channels[h[2]].client # NoClient}) < MaxBusy

(* The calls that allocate, with what their loads meet.                    *)
LoadAllocCall(c, drv) ==
    \/ \E req \in Requests, pool \in {NoPool} \cup PoolIds, excl \in BOOLEAN :
          \/ \E d \in Devices : AllocLeastUsedCuFromDev(d, c, req, pool, excl)
          \/ \E x \in Xclbins : \/ AllocCuWithLoad(x, drv, c, req, pool, excl)
                                \/ AllocCuLeastUsedWithLoad(x, drv, c, req, pool, excl)
    \/ \E x \in Xclbins : LoadAndAllocAllCu(x, drv, c)

LoadAllocNext ==
    \/ \E c \in Clients : \/ \E drv \in Drivers : MayAlloc(c) /\ LoadAllocCall(c, drv)
                          \/ \E s \in Slots, k \in Channels : ReleaseCu(c, s, k)
                          \/ RecycleResource(c)
    \/ \E d \in Devices : UnloadDevice(d, TRUE)

LoadAllocSpec == Init /\ [][LoadAllocNext]_vars

----------------------------------------------------------------------------
(* Properties.                                                             *)

(* An xclbin is only taken from a device, to be replaced by another or     *)
(* not, when nobody holds a channel or a reservation there: the search for *)
(* a device to load looks at the counters of load alone, and these must be *)
(* right though the references are not.                                    *)
LoadEvictsNobody ==
    [][\A d \in Devices : devList[d].xclbin # devList'[d].xclbin =>
          \A i \in CuIds : /\ BusyChannels(devList[d].cus[i]) = {}
                           /\ ReservingPools(devList[d].cus[i]) = {}]_vars

(* The CU a client gains by resAllocCuLeastUsedWithLoad, if any, is on a   *)
(* device with the xclbin it asked for ("it strictly enforces that the     *)
(* allocated CU comes from a device that was loaded with the user          *)
(* specified xclbinFileName"), whichever way it was found; it was idle, or *)
(* no CU the client could have had instead is used less.                   *)
LeastUsedKept ==
    \A c \in Clients, x \in Xclbins, drv \in Drivers, req \in Requests :
        LET after == ResAllocCuLeastUsedWithLoad(devList, x, drv, c, req, NoPool, FALSE)
            gained == {s \in Slots : Cardinality(ChannelsOf(CuAt(after, s), c))
                                        > Cardinality(ChannelsOf(CuAt(devList, s), c))}
        IN  \A s \in gained :
               /\ after[s[1]].xclbin = x
               /\ \/ ~InUse(devList, s)
                  \/ \A t \in AllocCandidates(after, Carrying(after, x), c, req, NoPool, FALSE) :
                        CuAt(devList, s).totalUsed <= CuAt(devList, t).totalUsed

(* Whatever references are lost or left over, a device in exclusive mode   *)
(* has exactly one client, with a reference: on another one recycleResource *)
(* would stop, and forget the devices behind it.                           *)
ExclusiveOwned == \A d \in Devices : devList[d].isExcl => Cardinality(DeviceClients(devList[d])) = 1

=============================================================================
