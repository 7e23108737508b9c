------------------------------ MODULE XrmService ------------------------------
(***************************************************************************)
(* Allocations as clients see them.  Every channel that an allocation      *)
(* takes is marked with the allocation service id of the call, which the   *)
(* client gets back with the channels; it names them by it when it         *)
(* releases them, one by one or as a list, and may ask for what is left of *)
(* the call.  Handles are kept by the clients: they may be given back      *)
(* twice, or after the daemon has recycled the client or reset the device. *)
(* (The id is of 64 bits: its wrap-around is left out.)                    *)
(***************************************************************************)
EXTENDS XrmGroups, XrmGroupTable

CONSTANTS
    MaxService,     \* bound on the allocations that succeed
    MaxListCus,     \* XRM_MAX_LIST_CU_NUM: what a query of version 1 can return
    MaxListCusV2    \* XRM_MAX_LIST_CU_NUM_V2

ASSUME ServiceAssumption ==
    /\ MaxService \in Nat /\ {MaxListCus, MaxListCusV2} \subseteq Nat \ {0}
    /\ \A g \in Declarations : g.options \in Seq(Lists)
    /\ \A list \in Lists : Len(list.items) <= MaxListCus
    /\ \A list \in ListsV2 : Len(list) <= MaxListCusV2

Ports == Slots \X Channels        \* a channel of the system

VARIABLES
    allocServiceId,     \* m_allocServiceId: the last id handed out
    serviceOf,          \* allocServiceId of each channel, 0 when it is free
    calls               \* what clients were given: their handles

serviceVars == <<devList, reservePoolId, udfCuGroups, numUdfCuGroup,
                 allocServiceId, serviceOf, calls>>

ServiceInit ==
    /\ Init
    /\ GroupTableInit
    /\ allocServiceId = 0
    /\ serviceOf = [h \in Ports |-> 0]
    /\ calls = {}

ChannelAt(h) == CuAt(devList, h[1]).channels[h[2]]

----------------------------------------------------------------------------
(* Mutant: the id moves on with single CUs only. *)
UpdatedForCus(end) ==
    IF end.ok /\ Len(end.taken) = 1 THEN allocServiceId + 1 ELSE allocServiceId

(* updateAllocServiceId: once per call, however many CUs it allocates, and *)
(* only if it succeeds.                                                    *)
UpdatedAllocServiceId(end) == IF end.ok THEN allocServiceId + 1 ELSE allocServiceId

(* The end of an allocation that stands at end: the channels taken are     *)
(* marked with the id after the last one (getNextAllocServiceId), and      *)
(* handed out.  One that failed has freed what it took (Undone).           *)
Hand(c, pool, end, limit) ==
    LET id == allocServiceId + 1
        taken == ToSet(end.taken)
    IN  /\ id <= MaxService
        /\ devList' = end.devs
        /\ allocServiceId' = UpdatedAllocServiceId(end)
        /\ serviceOf' = [h \in Ports |-> IF h \in taken THEN id ELSE serviceOf[h]]
        /\ calls' = IF end.ok
                    THEN calls \cup {[client |-> c, pool |-> pool, service |-> id,
                                      taken |-> end.taken, limit |-> limit]}
                    ELSE calls
        /\ UNCHANGED <<reservePoolId, tableVars>>

(* cuAlloc, cuAllocFromDev *)
CuAlloc(c, item, pool) ==
    Hand(c, pool, TakeAnywhere(Start(devList), c, item, pool), MaxListCus)

CuAllocFromDev(c, d, item, pool) ==
    Hand(c, pool, TakeFrom(Start(devList), d, c, item, pool), MaxListCus)

(* cuListAlloc, cuListAllocV2 *)
CuListAlloc(c, list, pool) ==
    Hand(c, pool, ResAllocCuList(devList, c, list, pool), MaxListCus)

CuListAllocV2(c, list, pool) ==
    Hand(c, pool, ResAllocCuListV2(devList, c, list, pool), MaxListCusV2)

(* cuGroupAlloc: a name that is not declared offers no list. *)
CuGroupAlloc(c, name, pool) ==
    Hand(c, pool, ResAllocCuGroup(devList, c, OptionsOf(name), pool), MaxListCus)

----------------------------------------------------------------------------
(* Mutant: the id is not compared. *)
NamesAnyCall(devs, services, call, h) ==
    /\ HoldsChannel(devs, call.client, h[1], h[2])
    /\ CuAt(devs, h[1]).channels[h[2]].pool = call.pool

(* resReleaseCu finds the channel that handle h of the call stands for. *)
Names(devs, services, call, h) ==
    /\ HoldsChannel(devs, call.client, h[1], h[2])
    /\ CuAt(devs, h[1]).channels[h[2]].pool = call.pool
    /\ services[h] = call.service

(* Mutant: the channel that is freed keeps its id. *)
ReleasedStillMarked(at, call, h) ==
    IF at.ok /\ Names(at.devs, at.services, call, h)
    THEN [at EXCEPT !.devs = ResReleaseCu(at.devs, call.client, h[1], h[2])]
    ELSE [at EXCEPT !.ok = FALSE]

(* resReleaseCu in a list: the first handle that names nothing ends it. *)
Released(at, call, h) ==
    IF at.ok /\ Names(at.devs, at.services, call, h)
    THEN [ok       |-> TRUE,
          devs     |-> ResReleaseCu(at.devs, call.client, h[1], h[2]),
          services |-> [at.services EXCEPT ![h] = 0]]
    ELSE [at EXCEPT !.ok = FALSE]

Release(call, handles) ==
    LET end == FoldLeft(LAMBDA at, h : Released(at, call, h),
                        [ok |-> TRUE, devs |-> devList, services |-> serviceOf], handles)
    IN  /\ devList' = end.devs
        /\ serviceOf' = end.services
        /\ UNCHANGED <<reservePoolId, tableVars, allocServiceId, calls>>

(* cuRelease, for one of the channels of a call. *)
CuRelease(call) == \E i \in DOMAIN call.taken : Release(call, <<call.taken[i]>>)

(* cuListRelease, cuGroupRelease, cuListReleaseV2: all that it returned. *)
CuListRelease(call) == Release(call, call.taken)

(* Recycling, unloading and resetting free channels without their handles. *)
FreedAreUnmarked ==
    serviceOf' = [h \in Ports |-> IF ChannelAt(h)'.client = NoClient THEN 0 ELSE serviceOf[h]]

OtherCall ==
    /\ \/ \E c \in Clients : \/ RecycleResource(c)
                             \/ \E req \in Requests : ReserveCuPool(c, req)
       \/ \E pool \in PoolIds : RelinquishCuPool(pool)
       \/ \E d \in Devices : \/ \E x \in Xclbins : LoadXclbin(d, x, TRUE, TRUE)
                             \/ UnloadDevice(d, TRUE)
                             \/ ResetDevice(d, TRUE)
    /\ FreedAreUnmarked
    /\ UNCHANGED <<tableVars, allocServiceId, calls>>

GroupCall == TableNext /\ UNCHANGED <<vars, allocServiceId, serviceOf, calls>>

ServiceNext ==
    \/ \E c \in Clients, pool \in {NoPool} \cup PoolIds :
          \/ \E item \in SingleItems : \/ CuAlloc(c, item, pool)
                                       \/ \E d \in Devices : CuAllocFromDev(c, d, item, pool)
          \/ \E list \in Lists : CuListAlloc(c, list, pool)
          \/ \E list \in ListsV2 : CuListAllocV2(c, list, pool)
          \/ \E name \in GroupNames : CuGroupAlloc(c, name, pool)
    \/ \E call \in calls : CuRelease(call) \/ CuListRelease(call)
    \/ OtherCall
    \/ GroupCall

ServiceSpec == ServiceInit /\ [][ServiceNext]_serviceVars

----------------------------------------------------------------------------
(* resAllocationQuery, resAllocationQueryV2: the channels of a call, of    *)
(* the kernels asked for (all, if none is named), in one list; if they are *)
(* more than it holds, the query fails.                                    *)
ResAllocationQuery(service, kernels, limit) ==
    LET found == {h \in Ports : /\ h[1][2] \in CusOf(devList[h[1][1]])
                                  /\ KernelOf[devList[h[1][1]].xclbin][h[1][2]] \in kernels
                                  /\ serviceOf[h] = service}
    IN  [ok |-> Cardinality(found) <= limit, channels |-> found]

----------------------------------------------------------------------------
(* Properties.                                                             *)

Live(call) == {h \in ToSet(call.taken) : Names(devList, serviceOf, call, h)}

(* Every channel in use can be given back, by one handle and no other,     *)
(* whatever other handles its client has kept of that channel.             *)
OneHandleEach ==
    \A h \in Ports :
        Cardinality({call \in calls : h \in Live(call)})
            = IF ChannelAt(h).client = NoClient THEN 0 ELSE 1

(* A handle that has become stale, by a release, by recycling or by a      *)
(* reset, never comes to life again: the channel, though allocated again   *)
(* by the same client from the same pool, has another id by then.          *)
StaleStaysStale ==
    [][\A call \in calls : Live(call)' \subseteq Live(call)]_serviceVars

(* Releasing the handles of one call, live or stale, in whatever order     *)
(* with those of others, takes nothing from another call.                  *)
ReleaseIsOwn ==
    [][\A call \in calls :
          CuRelease(call) \/ CuListRelease(call) =>
              \A other \in calls \ {call} : Live(other)' = Live(other)]_serviceVars

(* A query of a call, for some kernels or all, returns what is live of it: *)
(* no channel that was freed, or that other calls have got since, and not  *)
(* more than the answer of its version can hold.                           *)
QueryExact ==
    \A call \in calls, kernels \in {Kernels} \cup {{k} : k \in Kernels} :
        LET answer == ResAllocationQuery(call.service, kernels, call.limit)
        IN  /\ answer.ok
            /\ answer.channels = {h \in Live(call) :
                   KernelOf[devList[h[1][1]].xclbin][h[1][2]] \in kernels}

=============================================================================
