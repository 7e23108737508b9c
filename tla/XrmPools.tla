------------------------------- MODULE XrmPools -------------------------------
(***************************************************************************)
(* Reservation of pools in full: resReserveCuPool and resReserveCuPoolV2.  *)
(* A pool asks for whole devices, named (version 2) or found by the xclbin *)
(* they carry, and for one list of CUs a number of times.  Everything is   *)
(* reserved on the resources themselves under a new pool id; when one part *)
(* cannot be had, all that carries the id is given back.                   *)
(***************************************************************************)
EXTENDS XrmLists

CONSTANTS
    Pools,          \* the pools a client asks for
    PoolsV2,        \* the pools of version 2, which can name devices
    MaxAnswer       \* how many CUs the answer to a query holds (48)

ASSUME PoolsAssumption ==
    /\ MaxAnswer \in Nat
    /\ Pools \subseteq [xclbin : Xclbins, xclbinNum : Nat, list : Lists, listNum : Nat]
    /\ PoolsV2 \subseteq [devices : Seq(Nat), xclbin : Xclbins, xclbinNum : Nat,
                          list : ListsV2, listNum : Nat]

----------------------------------------------------------------------------
(* Where a reservation stands: whether every part so far was had, the      *)
(* devices as they are, the devices reserved as a whole, and where each    *)
(* item of a list was reserved (cuListResInfor).                           *)
Begin(devs) == [ok |-> TRUE, devs |-> devs, whole |-> {}, from |-> <<>>]

NotHad(at) == [at EXCEPT !.ok = FALSE]

(* One item: the search found its CU in S, or none. *)
Reserving(at, S, pool, c, req) ==
    LET s == FirstByAffinity(at.devs, S)
    IN  IF S = {} THEN NotHad(at)
        ELSE [at EXCEPT !.devs = ReserveOn(@, s, pool, c, req),
                        !.from = Append(@, s[1])]

ReserveAnywhere(at, pool, c, req) ==
    Reserving(at, ReserveCandidates(at.devs, pool, c, req), pool, c, req)

(* reserveCuFromDev: whether another client has the device for itself is   *)
(* not looked at.                                                          *)
ReserveFrom(at, d, pool, c, req) ==
    Reserving(at, {s \in Slots : /\ s[1] = d
                                 /\ s[2] \in MatchingCus(at.devs[d], req.kernel)
                                 /\ CanReserve(CuAt(at.devs, s), pool, req.load)},
              pool, c, req)

(* Item after item from one device, as far as they can be had. *)
ReserveAllFrom(devs, d, pool, c, items) ==
    FoldLeft(LAMBDA at, item : IF at.ok THEN ReserveFrom(at, d, pool, c, item.req) ELSE at,
             Begin(devs), items)

DevicesInOrder == [i \in 1 .. NumDevices |-> i - 1]

(* resReserveCuList.  With sameDevice, what a device could not complete is *)
(* given back by relinquishing the pool.                                   *)
ReserveListOnOne(devs, pool, c, items) ==
    LET try(at, d) ==
            LET end == ReserveAllFrom(at.devs, d, pool, c, items)
            IN  IF at.ok \/ ~IsFreeForClient(at.devs[d], c) THEN at
                ELSE IF end.ok THEN end
                ELSE [at EXCEPT !.devs = ResRelinquishCuPool(end.devs, pool)]
    IN  FoldLeft(try, NotHad(Begin(devs)), DevicesInOrder)

ResReserveCuList(devs, pool, c, list) ==
    IF list.sameDevice
    THEN ReserveListOnOne(devs, pool, c, list.items)
    ELSE FoldLeft(LAMBDA at, item : IF at.ok THEN ReserveAnywhere(at, pool, c, item.req) ELSE at,
                  Begin(devs), list.items)

----------------------------------------------------------------------------
(* relinquishCuFromDev: the CUs of the device on which the pool has a      *)
(* reservation of exactly this load; the first of them is relinquished.    *)
JustReserved(dev, pool, req) ==
    {i \in MatchingCus(dev, req.kernel) :
        /\ IsReservePoolUsingCu(dev.cus[i], pool)
        /\ dev.cus[i].reserves[pool].load = req.load
        /\ dev.cus[i].reserves[pool].used = 0}

RelinquishFrom(at, d, pool, req) ==
    LET S == JustReserved(at.devs[d], pool, req)
        first == CHOOSE i \in S : \A j \in S : i <= j
    IN  IF S = {} THEN NotHad(at)
        ELSE [at EXCEPT !.devs[d].cus[first] = RelinquishOnCu(@, pool)]

(* resReserveCuSubListFromSameDevice.  What a device could not complete is *)
(* given back item by item; when one of them cannot be found again, the    *)
(* call fails as it stands (stuck) instead of trying the next device.      *)
ReserveSubList(devs, used, pool, c, items) ==
    LET giveBack(end, d) ==
            FoldLeft(LAMBDA at, item : IF at.ok THEN RelinquishFrom(at, d, pool, item.req) ELSE at,
                     Begin(end.devs), SubSeq(items, 1, Len(end.from)))
        try(at, d) ==
            LET end == ReserveAllFrom(at.devs, d, pool, c, items)
                back == giveBack(end, d)
            IN  IF at.ok \/ at.stuck \/ d \in used \/ ~IsFreeForClient(at.devs[d], c) THEN at
                ELSE IF end.ok THEN [at EXCEPT !.ok = TRUE, !.devs = end.devs, !.device = d]
                ELSE [at EXCEPT !.devs = back.devs, !.stuck = ~back.ok]
    IN  FoldLeft(try, [ok |-> FALSE, stuck |-> FALSE, devs |-> devs, device |-> 0], DevicesInOrder)

(* One round of the loop of resReserveCuListV2; from is now a function on  *)
(* the items reserved, since those of a sub-list come out of turn.         *)
ReserveItem(at, list, i, pool, c) ==
    LET item == list[i]
        one == [at EXCEPT !.from = <<>>]
        d == item.where.index
        alone == IF item.where = Anywhere THEN ReserveAnywhere(one, pool, c, item.req)
                 ELSE IF d \in Devices THEN ReserveFrom(one, d, pool, c, item.req)
                 ELSE NotHad(one)
        sub == ReserveSubList(at.devs, PassedOver(at), pool, c, SubList(list, i))
    IN  IF IsHandled(list, i) THEN at
        ELSE IF item.where.type = "virtual"
        THEN [at EXCEPT !.ok = sub.ok, !.devs = sub.devs,
                        !.used = @ \cup {sub.device},
                        !.from = @ @@ [j \in {j \in DOMAIN list : list[j].where = item.where}
                                          |-> sub.device]]
        ELSE IF alone.ok
        THEN [at EXCEPT !.devs = alone.devs, !.from = @ @@ (i :> alone.from[1])]
        ELSE NotHad(at)

ResReserveCuListV2(devs, pool, c, list) ==
    FoldLeftDomain(LAMBDA at, i : IF at.ok THEN ReserveItem(at, list, i, pool, c) ELSE at,
                   [ok |-> TRUE, devs |-> devs, used |-> {}, from |-> <<>>], list)

----------------------------------------------------------------------------
(* Mutant: only the slot is written, not the reserved total. *)
ReservedWholeUncounted(cu, pool, c) ==
    [cu EXCEPT
        !.totalUsed = MaxLoad,
        !.reserves = [p \in PoolIds |-> IF p = pool THEN [client |-> c, load |-> MaxLoad, used |-> 0]
                                        ELSE EmptyReserve]]

(* resReserveDevice, resReserveCuOfXclbin: every CU of the device becomes  *)
(* the pool's, whatever it held (the device is not busy).                  *)
ReservedWhole(cu, pool, c) ==
    [cu EXCEPT
        !.totalUsed = MaxLoad,
        !.totalReserved = MaxLoad,
        !.reserves = [p \in PoolIds |-> IF p = pool THEN [client |-> c, load |-> MaxLoad, used |-> 0]
                                        ELSE EmptyReserve]]

(* Mutant: a device is taken as a whole though it is busy. *)
CanReserveLoaded(devs, d) == d \in Devices /\ IsLoaded(devs[d])

CanReserveWhole(devs, d) ==
    d \in Devices /\ IsLoaded(devs[d]) /\ ~IsDeviceBusy(devs[d])

ReserveDevice(at, d, pool, c) ==
    IF ~CanReserveWhole(at.devs, d)
    THEN NotHad(at)
    ELSE [at EXCEPT
            !.devs[d].cus = [i \in CuIds |-> IF i \in CusOf(at.devs[d])
                                             THEN ReservedWhole(@[i], pool, c) ELSE @[i]],
            !.whole = @ \cup {d}]

ReserveXclbin(at, x, pool, c) ==
    LET D == {d \in Devices : at.devs[d].xclbin = x /\ CanReserveWhole(at.devs, d)}
    IN  IF D = {} THEN NotHad(at)
        ELSE ReserveDevice(at, CHOOSE d \in D : \A e \in D : d <= e, pool, c)

(* A list as the next part of a pool. *)
WithList(at, l) == [at EXCEPT !.ok = l.ok, !.devs = l.devs, !.from = Append(@, l.from)]

(* The parts of a pool one after the other, then all or nothing.  A list   *)
(* that fails relinquishes the pool itself, and the pool then does.        *)
Times(n, x) == [i \in 1 .. n |-> x]

Completed(at, pool) ==
    IF at.ok THEN at ELSE [at EXCEPT !.devs = ResRelinquishCuPool(@, pool)]

ResReserveCuPool(devs, pool, c, prop) ==
    LET xclbin(at, x) == IF at.ok THEN ReserveXclbin(at, x, pool, c) ELSE at
        cuList(at, l) == IF at.ok THEN WithList(at, ResReserveCuList(at.devs, pool, c, l)) ELSE at
        begin == FoldLeft(xclbin, Begin(devs), Times(prop.xclbinNum, prop.xclbin))
    IN  Completed(FoldLeft(cuList, begin, Times(prop.listNum, prop.list)), pool)

ResReserveCuPoolV2(devs, pool, c, prop) ==
    LET device(at, d) == IF at.ok THEN ReserveDevice(at, d, pool, c) ELSE at
        xclbin(at, x) == IF at.ok THEN ReserveXclbin(at, x, pool, c) ELSE at
        cuList(at, l) == IF at.ok THEN WithList(at, ResReserveCuListV2(at.devs, pool, c, l)) ELSE at
        named == FoldLeft(device, Begin(devs), prop.devices)
        whole == FoldLeft(xclbin, named, Times(prop.xclbinNum, prop.xclbin))
    IN  Completed(FoldLeft(cuList, whole, Times(prop.listNum, prop.list)), pool)

----------------------------------------------------------------------------
NextPool == reservePoolId + 1

Reserve(end) ==
    /\ NextPool \in PoolIds
    /\ devList' = end.devs
    /\ reservePoolId' = IF end.ok THEN NextPool ELSE reservePoolId

ReservePool(c, prop) == Reserve(ResReserveCuPool(devList, NextPool, c, prop))

ReservePoolV2(c, prop) == Reserve(ResReserveCuPoolV2(devList, NextPool, c, prop))

(* The checkCuPoolAvailableNum commands: pools are reserved, each under an *)
(* id of its own, until that fails, and then given back.                   *)
PoolRounds(devs, reserve(_, _)) ==
    LET round(at, pool) ==
            LET more == reserve(at.devs, pool)
            IN  IF ~at.ok THEN at
                ELSE [ok |-> more.ok, devs |-> more.devs,
                      granted |-> IF more.ok THEN Append(at.granted, pool) ELSE at.granted]
    IN  FoldLeft(round, [ok |-> TRUE, devs |-> devs, granted |-> <<>>],
                 [i \in 1 .. MaxPool - reservePoolId |-> reservePoolId + i])

(* Mutant: only the first of the pools is given back. *)
PoolsRelinquishedFirst(end) ==
    IF end.granted = <<>> THEN end.devs ELSE ResRelinquishCuPool(end.devs, Head(end.granted))

PoolsRelinquished(end) == FoldLeft(ResRelinquishCuPool, end.devs, end.granted)

CheckCuPoolAvailableNum(c, prop) ==
    PoolRounds(devList, LAMBDA ds, pool : ResReserveCuPool(ds, pool, c, prop))

CheckCuPoolAvailableNumV2(c, prop) ==
    PoolRounds(devList, LAMBDA ds, pool : ResReserveCuPoolV2(ds, pool, c, prop))

(* The ids are used up; the bound on them must not end the rounds. *)
PoolsChecked(end) ==
    /\ ~end.ok
    /\ devList' = PoolsRelinquished(end)
    /\ reservePoolId' = reservePoolId + Len(end.granted)

CheckPools(c) ==
    \/ \E prop \in Pools : PoolsChecked(CheckCuPoolAvailableNum(c, prop))
    \/ \E prop \in PoolsV2 : PoolsChecked(CheckCuPoolAvailableNumV2(c, prop))

(* Between reservations clients allocate one CU at a time, with load 1     *)
(* (bound), from any pool.                                                 *)
PoolNext ==
    \/ \E c \in Clients :
          \/ \E prop \in Pools : ReservePool(c, prop)
          \/ \E prop \in PoolsV2 : ReservePoolV2(c, prop)
          \/ CheckPools(c)
          \/ \E k \in Kernels, pool \in {NoPool} \cup PoolIds :
                AllocCu(c, [kernel |-> k, load |-> 1], pool, FALSE)
          \/ \E s \in Slots, k \in Channels : ReleaseCu(c, s, k)
          \/ RecycleResource(c)
    \/ \E pool \in PoolIds : RelinquishCuPool(pool)
    \/ \E d \in Devices : \/ \E x \in Xclbins : LoadXclbin(d, x, TRUE, TRUE)
                          \/ UnloadDevice(d, TRUE)

PoolSpec == Init /\ [][PoolNext]_vars

----------------------------------------------------------------------------
(* resReservationQuery: the CUs on which the pool has a slot, ... *)
ResReservationQuery(devs, pool) ==
    {s \in Slots : s[2] \in CusOf(devs[s[1]]) /\ IsReservePoolUsingCu(CuAt(devs, s), pool)}

(* ... of version 2, those of a kernel. *)
ResReservationQueryV2(devs, pool, k) ==
    {s \in ResReservationQuery(devs, pool) : s[2] \in MatchingCus(devs[s[1]], k)}

(* Mutant: a CU of which nothing is in use. *)
AnsweredUnused(devs, found) ==
    {s \in found : \A p \in PoolIds : CuAt(devs, s).reserves[p].used = 0}

(* reservationQuery, reservationQueryV2: all CUs found, or as many of      *)
(* them, in order, as the answer holds.                                    *)
Answered(devs, found) ==
    IF Cardinality(found) <= MaxAnswer THEN found
    ELSE {s \in found : Cardinality({t \in found : Before(t, s)}) < MaxAnswer}

ReservationQuery(devs, pool) == Answered(devs, ResReservationQuery(devs, pool))

ReservationQueryV2(devs, pool, k) == Answered(devs, ResReservationQueryV2(devs, pool, k))

----------------------------------------------------------------------------
(* Properties.                                                             *)

(* What becomes of each pool a client can ask for now. *)
Outcomes == {ResReserveCuPool(devList, NextPool, c, prop) : c \in Clients, prop \in Pools}
               \cup {ResReserveCuPoolV2(devList, NextPool, c, prop) : c \in Clients, prop \in PoolsV2}

(* A pool that cannot be had completely leaves every device as it was,     *)
(* whichever of its devices, xclbins and lists were reserved before the    *)
(* part that failed, and whatever the part had given back itself.          *)
PoolAllOrNothing == NextPool \in PoolIds => \A end \in Outcomes : end.ok \/ end.devs = devList

(* A check of how many pools could be had gives them all back, with every  *)
(* device, list and CU reserved for one of them.                           *)
PoolChecksLeaveNoTrace ==
    \A c \in Clients :
        /\ \A prop \in Pools : PoolsRelinquished(CheckCuPoolAvailableNum(c, prop)) = devList
        /\ \A prop \in PoolsV2 : PoolsRelinquished(CheckCuPoolAvailableNumV2(c, prop)) = devList

(* The load of kernel k that the pool has reserved on device d. *)
ReservedLoad(devs, d, k, pool) ==
    MapThenSumSet(LAMBDA i : devs[d].cus[i].reserves[pool].load, MatchingCus(devs[d], k))

(* The load of kernel k that a list asks for, of the items in I. *)
AskedLoad(items, I, k) ==
    MapThenSumSet(LAMBDA i : items[i].req.load, {i \in I : items[i].req.kernel = k})

(* A pool of version 2 that is granted holds on every device exactly what  *)
(* the daemon reports to the client: the named devices and those found by  *)
(* xclbin as a whole, and each item of each list on the device reported    *)
(* for it, which is where the client wanted it.                            *)
PoolV2Complete ==
    NextPool \in PoolIds =>
        \A c \in Clients, prop \in PoolsV2 :
            LET end == ResReserveCuPoolV2(devList, NextPool, c, prop)
                named == {prop.devices[i] : i \in DOMAIN prop.devices}
            IN  end.ok =>
                   /\ named \subseteq end.whole
                   /\ Cardinality(end.whole \ named) = prop.xclbinNum
                   /\ \A j \in 1 .. prop.listNum : /\ DOMAIN end.from[j] = DOMAIN prop.list
                                                   /\ Respects(end.from[j], prop.list)
                   /\ \A d \in Devices, k \in Kernels :
                         ReservedLoad(end.devs, d, k, NextPool)
                            = IF d \in end.whole
                              THEN MaxLoad * Cardinality(MatchingCus(end.devs[d], k))
                              ELSE MapThenSumSet(
                                     LAMBDA j : AskedLoad(prop.list,
                                         {i \in DOMAIN prop.list : end.from[j][i] = d}, k),
                                     1 .. prop.listNum)

(* A CU that is reserved completely serves its pool alone: no channel of   *)
(* it carries load of another pool that still exists on it, or of the      *)
(* default pool.                                                           *)
ReservedForPoolAlone ==
    \A s \in Slots, p \in PoolIds :
        CuAt(devList, s).reserves[p].load = MaxLoad =>
            \A k \in BusyChannels(CuAt(devList, s)) : CuAt(devList, s).channels[k].pool = p

(* What a client is told of a pool, of all kernels or of one, stays true   *)
(* whatever others allocate, reserve, load, unload or leave: it changes    *)
(* when the pool is relinquished, which ends half way at a CU in use, and  *)
(* when its owner goes, and then nothing of the pool is left.  What the    *)
(* answer cannot hold is of the CUs behind those it names.                 *)
PoolAnswerKept ==
    [][devList' = devList
       \/ \A p \in PoolIds :
             LET told == ReservationQuery(devList, p)
                 of(k) == ReservationQueryV2(devList, p, k)
             IN  \/ told = {}
                 \/ told' = {}
                 \/ told' = told /\ \A k \in Kernels : of(k)' = of(k)
                 \/ RelinquishCuPool(p)]_vars

----------------------------------------------------------------------------
(* What comments and documentation say, and the code does not do.          *)

(* A pool that is granted has all it asked for, of every kernel.           *)
PoolComplete ==
    NextPool \in PoolIds =>
        \A c \in Clients, prop \in Pools :
            LET end == ResReserveCuPool(devList, NextPool, c, prop)
            IN  end.ok => \A k \in Kernels :
                    MapThenSumSet(LAMBDA d : ReservedLoad(end.devs, d, k, NextPool), Devices)
                        >= prop.listNum * AskedLoad(prop.list.items, DOMAIN prop.list.items, k)

=============================================================================
