------------------------------- MODULE XrmLists -------------------------------
(***************************************************************************)
(* Allocation of lists of CUs, all or none: resAllocCuList, whose CUs come *)
(* from one device or from any, and resAllocCuListV2, each of whose items  *)
(* says where its CU must come from.  A list is worked off item by item on *)
(* the resources themselves, so a failure half way has to be undone.  The  *)
(* items of a list are requests of XrmSystem, made exclusively or not.     *)
(***************************************************************************)
EXTENDS XrmSystem, SequencesExt

CONSTANTS
    Lists,          \* the lists a client asks for: items, from one device or not
    ListsV2         \* the lists of version 2, whose items say where each

Anywhere == [type |-> "null", index |-> 0]
Hardware(d) == [type |-> "hardware", index |-> d]
Virtual(v) == [type |-> "virtual", index |-> v]

Items == [req : Requests, excl : BOOLEAN]

Places == {Anywhere} \cup [type : {"hardware", "virtual"}, index : Nat]

ASSUME ListsAssumption ==
    /\ Lists \subseteq [items : Seq(Items) \ {<<>>}, sameDevice : BOOLEAN]
    /\ ListsV2 \subseteq Seq([req : Requests, excl : BOOLEAN, where : Places]) \ {<<>>}

----------------------------------------------------------------------------
(* Where an allocation of several CUs stands: whether every item so far    *)
(* was had, the devices as they are, and the channels taken, in order.     *)
Start(devs) == [ok |-> TRUE, devs |-> devs, taken |-> <<>>]

Failed(devs) == [ok |-> FALSE, devs |-> devs, taken |-> <<>>]

(* One more item: the search found its CU in S, or none, and left devs.    *)
Taking(at, S, devs) ==
    LET s == FirstByAffinity(at.devs, S)
    IN  IF S = {}
        THEN [at EXCEPT !.ok = FALSE, !.devs = devs]
        ELSE [at EXCEPT !.devs = devs,
                        !.taken = Append(@, <<s, ChannelFor(CuAt(at.devs, s))>>)]

TakeAnywhere(at, c, item, pool) ==
    Taking(at, AllocCandidates(at.devs, Devices, c, item.req, pool, item.excl),
           ResAllocCu(at.devs, c, item.req, pool, item.excl))

(* allocClientFromDev and allocCuFromDev, also resAllocCuFromDev; there is *)
(* no device d with a hardware index out of range.                         *)
TakeFrom(at, d, c, item, pool) ==
    IF d \notin Devices
    THEN [at EXCEPT !.ok = FALSE]
    ELSE Taking(at, AllocCandidates(at.devs, {d}, c, item.req, pool, item.excl),
                ResAllocCuFromDev(at.devs, d, c, item.req, pool, item.excl))

(* resReleaseCuList on channels just taken (resReleaseCuSubList, and the   *)
(* end of resAllocCuListV2): each is given back.                           *)
GivenBack(devs, c, taken) ==
    FoldLeft(LAMBDA ds, h : ResReleaseCu(ds, c, h[1], h[2]), devs, taken)

(* Mutant: the last channel taken is forgotten. *)
UndoneButLast(at, c) == Failed(GivenBack(at.devs, c, Front(at.taken)))

Undone(at, c) == Failed(GivenBack(at.devs, c, at.taken))

(* Item after item from one device, all or none. *)
AllFrom(devs, d, c, items, pool) ==
    LET end == FoldLeft(LAMBDA at, item : IF at.ok THEN TakeFrom(at, d, c, item, pool) ELSE at,
                        Start(devs), items)
    IN  IF end.ok THEN end ELSE Undone(end, c)

(* All items from the first device that has them: resAllocCuList with      *)
(* sameDevice, and resAllocCuSubListFromSameDevice, which passes over the  *)
(* devices used by other sub-lists.                                        *)
AllFromOne(devs, used, c, items, pool) ==
    FoldLeft(LAMBDA at, d : IF at.ok \/ d \in used \/ ~IsFreeForClient(at.devs[d], c)
                            THEN at
                            ELSE AllFrom(at.devs, d, c, items, pool),
             Failed(devs), [i \in 1 .. NumDevices |-> i - 1])

(* resAllocCuList *)
ResAllocCuList(devs, c, list, pool) ==
    LET end == FoldLeft(LAMBDA at, item : IF at.ok THEN TakeAnywhere(at, c, item, pool) ELSE at,
                        Start(devs), list.items)
    IN  IF list.sameDevice THEN AllFromOne(devs, {}, c, list.items, pool)
        ELSE IF end.ok THEN end ELSE Undone(end, c)

----------------------------------------------------------------------------
(* The sub-list of item i: the items with the same virtual index. *)
SubList(list, i) ==
    FoldLeft(LAMBDA sub, item : IF item.where = list[i].where THEN Append(sub, item) ELSE sub,
             <<>>, list)

IsHandled(list, i) ==
    list[i].where.type = "virtual" /\ \E j \in 1 .. i - 1 : list[j].where = list[i].where

DevicesOf(taken) == {taken[i][1][1] : i \in DOMAIN taken}

(* Mutant: the devices of earlier sub-lists are not passed over. *)
NonePassedOver(at) == {}

(* usedDevIdList: the devices of the sub-lists so far. *)
PassedOver(at) == at.used

(* One round of the loop of resAllocCuListV2.  A sub-list is allocated     *)
(* when its first item is reached, on a device no sub-list before it uses; *)
(* its other items are then handled.                                       *)
TakeItem(at, list, i, c, pool) ==
    LET item == list[i]
        sub == AllFromOne(at.devs, PassedOver(at), c, SubList(list, i), pool)
    IN  IF IsHandled(list, i) THEN at
        ELSE IF item.where = Anywhere THEN TakeAnywhere(at, c, item, pool)
        ELSE IF item.where.type = "hardware" THEN TakeFrom(at, item.where.index, c, item, pool)
        ELSE [ok |-> sub.ok, devs |-> sub.devs, taken |-> at.taken \o sub.taken,
              used |-> at.used \cup DevicesOf(sub.taken)]

ResAllocCuListV2(devs, c, list, pool) ==
    LET begin == [ok |-> TRUE, devs |-> devs, taken |-> <<>>, used |-> {}]
        end == FoldLeftDomain(LAMBDA at, i : IF at.ok THEN TakeItem(at, list, i, c, pool) ELSE at,
                              begin, list)
    IN  IF end.ok THEN end ELSE Undone(end, c)

----------------------------------------------------------------------------
AllocCuList(c, list, pool) ==
    /\ devList' = ResAllocCuList(devList, c, list, pool).devs
    /\ UNCHANGED reservePoolId

AllocCuListV2(c, list, pool) ==
    /\ devList' = ResAllocCuListV2(devList, c, list, pool).devs
    /\ UNCHANGED reservePoolId

(* resReleaseCuList (V2, group): the handles one after the other, up to    *)
(* the first that names no channel the client holds; the rest of the list  *)
(* then stays allocated.                                                   *)
ReleaseCuList(c, handles) ==
    LET release(at, h) ==
            IF at.ok /\ HoldsChannel(at.devs, c, h[1], h[2])
            THEN [at EXCEPT !.devs = ResReleaseCu(at.devs, c, h[1], h[2])]
            ELSE [at EXCEPT !.ok = FALSE]
    IN  /\ devList' = FoldLeft(release, Start(devList), handles).devs
        /\ UNCHANGED reservePoolId

----------------------------------------------------------------------------
(* A list whose first handle is none of the client's changes nothing. *)
Handles(c) == {h \in Slots \X Channels : HoldsChannel(devList, c, h[1], h[2])}

ListNext ==
    \/ \E c \in Clients, pool \in {NoPool} \cup PoolIds :
          \/ \E list \in Lists : AllocCuList(c, list, pool)
          \/ \E list \in ListsV2 : AllocCuListV2(c, list, pool)
    \/ \E c \in Clients :
          \/ \E h1 \in Handles(c), h2 \in Slots \X Channels : ReleaseCuList(c, <<h1, h2>>)
          \/ \E req \in Requests : ReserveCuPool(c, req)
          \/ RecycleResource(c)
    \/ \E pool \in PoolIds : RelinquishCuPool(pool)
    \/ \E d \in Devices : \/ \E x \in Xclbins : LoadXclbin(d, x, TRUE, TRUE)
                          \/ UnloadDevice(d, TRUE)

ListSpec == Init /\ [][ListNext]_vars

----------------------------------------------------------------------------
(* Properties.                                                             *)

(* What clients hold and the daemon counts is the same in both.  (isExcl   *)
(* may differ: see ProbeDevice.)                                           *)
SameHoldings(before, after) ==
    \A d \in Devices : /\ after[d].cus = before[d].cus
                       /\ after[d].procs = before[d].procs

(* A list that cannot be had completely leaves nothing behind: no channel, *)
(* no load of the default pool or of a reserved one, no reference, on      *)
(* whichever devices and sub-lists the allocation got before it failed.    *)
ListAllOrNothing ==
    \A c \in Clients, pool \in {NoPool} \cup PoolIds :
        /\ \A list \in Lists :
              LET end == ResAllocCuList(devList, c, list, pool)
              IN  end.ok \/ SameHoldings(devList, end.devs)
        /\ \A list \in ListsV2 :
              LET end == ResAllocCuListV2(devList, c, list, pool)
              IN  end.ok \/ SameHoldings(devList, end.devs)

(* The channels client c gained on device d, of one kernel and one load.   *)
Gained(before, after, d, c, pool, req) ==
    {h \in CusOf(after[d]) \X Channels :
        /\ h \notin Held(before[d], c)
        /\ KernelOf[after[d].xclbin][h[1]] = req.kernel
        /\ after[d].cus[h[1]].channels[h[2]] = [client |-> c, pool |-> pool, load |-> req.load]}

(* Client c got exactly the items, each from the device of place. *)
Granted(before, after, c, pool, items, place) ==
    \A d \in Devices :
        /\ \A req \in {items[i].req : i \in DOMAIN items} :
              Cardinality(Gained(before, after, d, c, pool, req))
                  = Cardinality({i \in DOMAIN items : items[i].req = req /\ place[i] = d})
        /\ Cardinality(Held(after[d], c) \ Held(before[d], c))
              = Cardinality({i \in DOMAIN items : place[i] = d})

(* "1) if device constraint not set: allocate it from any device 2) if     *)
(* device constraint set with hw index: allocate it from target device 3)  *)
(* if device constraint set with virtual index: ... allocate requested CU  *)
(* from same device, the device id should be different from that for       *)
(* previous sub-lists" (resAllocCuListV2).                                 *)
Respects(place, list) ==
    \A i, j \in DOMAIN list :
        /\ list[i].where.type = "hardware" => place[i] = list[i].where.index
        /\ list[i].where.type = "virtual" /\ list[j].where.type = "virtual" =>
              (place[i] = place[j] <=> list[i].where = list[j].where)

(* A list that is granted is granted item by item, each with its kernel,   *)
(* its load and its pool, and where the client wanted it: the items of a   *)
(* same-device list or of a virtual index together on one device, those of *)
(* different virtual indices apart, wherever they stand in the list.       *)
ListPlaced ==
    \A c \in Clients, pool \in {NoPool} \cup PoolIds :
        /\ \A list \in Lists :
              LET end == ResAllocCuList(devList, c, list, pool)
              IN  end.ok => \E place \in [DOMAIN list.items -> Devices] :
                               /\ list.sameDevice => \A i, j \in DOMAIN place : place[i] = place[j]
                               /\ Granted(devList, end.devs, c, pool, list.items, place)
        /\ \A list \in ListsV2 :
              LET end == ResAllocCuListV2(devList, c, list, pool)
              IN  end.ok => \E place \in [DOMAIN list -> Devices] :
                               /\ Respects(place, list)
                               /\ Granted(devList, end.devs, c, pool, list, place)

=============================================================================
