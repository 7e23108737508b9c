-------------------------------- MODULE XrmCu --------------------------------
(***************************************************************************)
(* One compute unit (cuData) of the XRM daemon: its channels, the clients  *)
(* that use it, the pools that reserve load of it, and the two counters    *)
(* the daemon keeps of that load.  Every operator is a function on the     *)
(* value of one CU; XrmDevice and XrmSystem build the daemon's calls from  *)
(* them.                                                                   *)
(*                                                                         *)
(* A CU is the record                                                      *)
(*   channels       what each channel carries: the client, the pool it was *)
(*                  allocated from (NoPool: the default pool) and the load *)
(*   numChanInuse   the number of channels in use                          *)
(*   clients        cu->clients[0 .. numClient-1], in which each client    *)
(*                  stands once                                            *)
(*   reserves       the reservation each pool has on this CU.  The array   *)
(*                  of the code is kept compact in the order of pool ids,  *)
(*                  which grow, so that a function from pool ids is the    *)
(*                  same thing; a pool without a slot has client NoClient  *)
(*   totalUsed      totalUsedLoadUnified: load allocated from the default  *)
(*                  pool, plus load reserved                               *)
(*   totalReserved  totalReservedLoadUnified                               *)
(***************************************************************************)
EXTENDS XrmSum, FiniteSets

CONSTANTS
    Clients,        \* client ids the daemon has handed out
    NoClient,       \* the client id 0 of an empty slot
    NumChannels,    \* XRM_MAX_KERNEL_CHANNELS
    MaxReserves,    \* XRM_MAX_KERNEL_RESERVES
    MaxLoad,        \* XRM_MAX_CHAN_LOAD_GRANULARITY_1000000
    MaxPool         \* bound: the reserve pool ids handed out are 1 .. MaxPool

ASSUME CuAssumption ==
    /\ IsFiniteSet(Clients)
    /\ NoClient \notin Clients
    /\ NumChannels \in Nat \ {0}
    /\ MaxReserves \in Nat
    /\ MaxLoad \in Nat \ {0}
    /\ MaxPool \in Nat

Channels == 0 .. NumChannels - 1
PoolIds == 1 .. MaxPool
NoPool == 0

FreeChannel == [client |-> NoClient, pool |-> NoPool, load |-> 0]
EmptyReserve == [client |-> NoClient, load |-> 0, used |-> 0]

EmptyCu == [channels      |-> [k \in Channels |-> FreeChannel],
            numChanInuse  |-> 0,
            clients       |-> {},
            reserves      |-> [p \in PoolIds |-> EmptyReserve],
            totalUsed     |-> 0,
            totalReserved |-> 0]

ChannelType == [client : Clients \cup {NoClient},
                pool   : {NoPool} \cup PoolIds,
                load   : 0 .. MaxLoad]

ReserveType == [client : Clients \cup {NoClient}, load : Nat, used : Int]

CuType == [channels      : [Channels -> ChannelType],
           numChanInuse  : Int,
           clients       : SUBSET Clients,
           reserves      : [PoolIds -> ReserveType],
           totalUsed     : Int,
           totalReserved : Int]

----------------------------------------------------------------------------
(* isReservePoolUsingCu: the pool has a reservation on this CU. *)
IsReservePoolUsingCu(cu, pool) ==
    pool \in PoolIds /\ cu.reserves[pool].client # NoClient

ReservingPools(cu) == {p \in PoolIds : IsReservePoolUsingCu(cu, p)}

(* Mutant: the number of channels in use taken for the next free one. *)
ChannelForByCount(cu) == cu.numChanInuse

(* cuFindFreeChannelId: the first channel whose load is 0; with no channel *)
(* in use the code takes channel 0 without looking.                        *)
ChannelFor(cu) ==
    IF cu.numChanInuse = 0
    THEN 0
    ELSE CHOOSE k \in Channels : /\ cu.channels[k].load = 0
                                 /\ \A j \in Channels : cu.channels[j].load = 0 => k <= j

HasFreeChannel(cu) ==
    \/ cu.numChanInuse = 0
    \/ /\ cu.numChanInuse < NumChannels
       /\ \E k \in Channels : cu.channels[k].load = 0

(* Mutant: reserved load does not count against the default pool. *)
CanAllocReserved(cu, pool, load) ==
    /\ load > 0
    /\ IF pool = NoPool
       THEN cu.totalUsed - cu.totalReserved + load <= MaxLoad
       ELSE /\ IsReservePoolUsingCu(cu, pool)
            /\ cu.reserves[pool].used + load <= cu.reserves[pool].load
    /\ HasFreeChannel(cu)

(* allocChanClientFromCu, its early returns: the load must be positive and *)
(* fit in what is left of the pool it is taken from.                       *)
CanAllocChan(cu, pool, load) ==
    /\ load > 0
    /\ IF pool = NoPool
       THEN cu.totalUsed + load <= MaxLoad
       ELSE /\ IsReservePoolUsingCu(cu, pool)
            /\ cu.reserves[pool].used + load <= cu.reserves[pool].load
    /\ HasFreeChannel(cu)

(* allocChanClientFromCu, the allocation (with addClientToCu). *)
AllocChanClientFromCu(cu, c, pool, load) ==
    [cu EXCEPT
        !.channels[ChannelFor(cu)] = [client |-> c, pool |-> pool, load |-> load],
        !.numChanInuse = @ + 1,
        !.clients = @ \cup {c},
        !.reserves = IF pool = NoPool THEN cu.reserves
                     ELSE [cu.reserves EXCEPT ![pool].used = cu.reserves[pool].used + load],
        !.totalUsed = IF pool = NoPool THEN @ + load ELSE @]

----------------------------------------------------------------------------
(* The channels client c holds on this CU. *)
ChannelsOf(cu, c) == {k \in Channels : cu.channels[k].client = c}

(* What the channels in K carry of the load that pool p accounts for.      *)
LoadIn(cu, K, p) ==
    SumTo([k \in Channels |-> IF k \in K /\ cu.channels[k].pool = p
                            THEN cu.channels[k].load ELSE 0], NumChannels)

(* Mutant: load of a pool that is gone is not returned to the default pool. *)
UnpooledLoadOfDefaultOnly(cu, K) == LoadIn(cu, K, NoPool)

(* The load of the channels in K that no reservation accounts for: taken   *)
(* from the default pool, or from a pool that has since been given back.   *)
UnpooledLoad(cu, K) ==
    SumTo([k \in Channels |-> IF k \in K /\ ~IsReservePoolUsingCu(cu, cu.channels[k].pool)
                            THEN cu.channels[k].load ELSE 0], NumChannels)

(* Freeing the channels in K, as resReleaseCu does for one channel and     *)
(* releaseAllCuChanClientOnDev for all those of a client: the load goes    *)
(* back to the pool if the pool still has its reservation here, otherwise  *)
(* to the default pool.                                                    *)
FreeChannels(cu, K) ==
    [cu EXCEPT
        !.channels = [k \in Channels |-> IF k \in K THEN FreeChannel ELSE @[k]],
        !.numChanInuse = @ - Cardinality(K),
        !.reserves = [p \in PoolIds |->
            IF IsReservePoolUsingCu(cu, p)
            THEN [cu.reserves[p] EXCEPT !.used = cu.reserves[p].used - LoadIn(cu, K, p)]
            ELSE cu.reserves[p]],
        !.totalUsed = @ - UnpooledLoad(cu, K)]

(* Mutant: c leaves cu->clients whatever else it holds (no procChanCnt). *)
ReleaseChanAndClient(cu, c, k) ==
    [FreeChannels(cu, {k}) EXCEPT !.clients = @ \ {c}]

(* resReleaseCu on one channel of client c: c leaves cu->clients when it   *)
(* holds no other channel here (procChanCnt, removeClientOnCu).            *)
ReleaseChan(cu, c, k) ==
    [FreeChannels(cu, {k}) EXCEPT
        !.clients = @ \ (IF ChannelsOf(cu, c) = {k} THEN {c} ELSE {})]

(* releaseAllCuChanClientOnDev on one CU, for the clients in C: a client   *)
(* that is not in cu->clients is skipped.                                  *)
ReleaseAllChans(cu, C) ==
    LET D == C \cap cu.clients
    IN  [FreeChannels(cu, UNION {ChannelsOf(cu, c) : c \in D}) EXCEPT !.clients = @ \ D]

----------------------------------------------------------------------------
(* reserveLoadFromCu: the guard, and the slot that is added or grows.      *)
CanReserve(cu, pool, load) ==
    /\ load > 0
    /\ cu.totalUsed + load <= MaxLoad
    /\ cu.totalReserved + load <= MaxLoad
    /\ IsReservePoolUsingCu(cu, pool) \/ Cardinality(ReservingPools(cu)) < MaxReserves

ReserveLoadFromCu(cu, pool, c, load) ==
    [cu EXCEPT
        !.totalUsed = @ + load,
        !.totalReserved = @ + load,
        !.reserves[pool] = IF IsReservePoolUsingCu(cu, pool)
                           THEN [cu.reserves[pool] EXCEPT !.load = cu.reserves[pool].load + load]
                           ELSE [client |-> c, load |-> load, used |-> 0]]

(* resRelinquishCuList on one CU: the (unused) reservation of a pool.      *)
RelinquishOnCu(cu, pool) ==
    [cu EXCEPT
        !.totalUsed = @ - cu.reserves[pool].load,
        !.totalReserved = @ - cu.reserves[pool].load,
        !.reserves[pool] = EmptyReserve]

(* Mutant: reservations vanish without any accounting. *)
DropSlotsOf(cu, C) ==
    [cu EXCEPT !.reserves = [p \in PoolIds |->
        IF @[p].client \in C THEN EmptyReserve ELSE @[p]]]

(* recycleResource, its first loop, on one CU: every reservation made by a *)
(* client in C goes, and what of it was not allocated returns to the       *)
(* default pool; what is still allocated stays in totalUsed.               *)
DropReservesOf(cu, C) ==
    LET gone == {p \in PoolIds : cu.reserves[p].client \in C}
        reserved == SumTo([i \in 0 .. MaxPool - 1 |->
                           IF i + 1 \in gone THEN cu.reserves[i + 1].load ELSE 0], MaxPool)
        allocated == SumTo([i \in 0 .. MaxPool - 1 |->
                            IF i + 1 \in gone THEN cu.reserves[i + 1].used ELSE 0], MaxPool)
    IN  [cu EXCEPT
            !.totalUsed = @ - (reserved - allocated),
            !.totalReserved = @ - reserved,
            !.reserves = [p \in PoolIds |-> IF p \in gone THEN EmptyReserve ELSE @[p]]]

----------------------------------------------------------------------------
(* Whether the books of one CU are in order: the parts of the invariants   *)
(* of XrmSystem that concern one CU.                                       *)

(* The counters are what the channels and the reservations add up to.      *)
AllReserved(cu) == SumTo([i \in 0 .. MaxPool - 1 |-> cu.reserves[i + 1].load], MaxPool)

CuBalanced(cu) ==
    /\ cu.totalReserved = AllReserved(cu)
    /\ cu.totalUsed = UnpooledLoad(cu, Channels) + AllReserved(cu)
    /\ \A p \in ReservingPools(cu) : cu.reserves[p].used = LoadIn(cu, Channels, p)

(* Neither the CU nor a reservation is given out beyond its capacity.      *)
CuWithinCapacity(cu) ==
    /\ SumTo([k \in Channels |-> cu.channels[k].load], NumChannels) <= MaxLoad
    /\ cu.totalUsed \in cu.totalReserved .. MaxLoad
    /\ \A p \in PoolIds : cu.reserves[p].used \in 0 .. cu.reserves[p].load

BusyChannels(cu) == {k \in Channels : cu.channels[k].client # NoClient}

(* numChanInuse and clients say what the channels say.                     *)
CuIndexed(cu) ==
    /\ cu.numChanInuse = Cardinality(BusyChannels(cu))
    /\ cu.clients = {cu.channels[k].client : k \in BusyChannels(cu)}
    /\ \A k \in Channels : cu.channels[k].load = 0 <=> k \notin BusyChannels(cu)

(* Nobody holds anything of the CU. *)
Vacant(cu) == BusyChannels(cu) = {} /\ ReservingPools(cu) = {}

(* What the load operators need of a CU to keep its counters right, last   *)
(* being the last pool id handed out: a slot is in use iff it reserves     *)
(* something, and no channel carries a pool that is still to come, so that *)
(* a new slot starts with nothing used.                                    *)
LoadsRight(cu, last) ==
    /\ CuBalanced(cu)
    /\ cu.totalUsed <= MaxLoad
    /\ \A p \in PoolIds :
          /\ cu.reserves[p].used <= cu.reserves[p].load
          /\ IF cu.reserves[p].client = NoClient
             THEN cu.reserves[p] = EmptyReserve
             ELSE cu.reserves[p].load > 0 /\ p <= last
    /\ \A k \in Channels :
          /\ cu.channels[k].client = NoClient => cu.channels[k] = FreeChannel
          /\ cu.channels[k].pool <= last

=============================================================================
