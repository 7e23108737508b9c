------------------------------ MODULE XrmPolicy ------------------------------
(***************************************************************************)
(* Allocation of one CU by policy (resAllocCuV2): the most or least used   *)
(* CU, or a CU of the most or least used device.  For the latter the       *)
(* daemon keeps the load of each device (devLoadInfo) beside the load of   *)
(* its CUs.  Neither the load of the devices nor the references are kept   *)
(* right by these calls; the books of the CUs are.                         *)
(***************************************************************************)
EXTENDS XrmSystem, SequencesExt

CONSTANTS
    MaxRef,         \* bound: no allocation by a client with MaxRef references on a device
    MaxDrift        \* bound: no allocation when devLoadInfo is off by more than MaxDrift

ASSUME PolicyAssumption == MaxRef \in Nat /\ MaxDrift \in Nat

VARIABLES
    devLoad         \* devLoadInfo: devCurrentLoad and devLoadRate of each device

policyVars == <<devList, reservePoolId, devLoad>>

(* policyInfo, of which the two policies on devices are those on CUs when  *)
(* it comes to choosing a CU of a device.                                  *)
Policies == {"none", "most", "least"}

----------------------------------------------------------------------------
(* allocChanClientFromCu with a policy.  The load used of what the channel *)
(* would be taken from, the default pool or a reserved one, and its limit. *)
UsedIn(cu, pool) == IF pool = NoPool THEN cu.totalUsed ELSE cu.reserves[pool].used

LimitOf(cu, pool) == IF pool = NoPool THEN MaxLoad ELSE cu.reserves[pool].load

(* Mutant: a pool is bounded by its CU instead of by what it reserved. *)
FitsTheCu(cu, pool, load) ==
    /\ load > 0
    /\ pool = NoPool \/ IsReservePoolUsingCu(cu, pool)
    /\ UsedIn(cu, pool) + load <= MaxLoad

Fits(cu, pool, load) ==
    /\ load > 0
    /\ pool = NoPool \/ IsReservePoolUsingCu(cu, pool)
    /\ UsedIn(cu, pool) + load <= LimitOf(cu, pool)

(* No CU could suit the policy better than this one: it is taken at once.  *)
IsBest(cu, pool, load, policy) ==
    CASE policy = "most"  -> UsedIn(cu, pool) + load = LimitOf(cu, pool)
      [] policy = "least" -> UsedIn(cu, pool) = 0
      [] policy = "none"  -> TRUE

(* The position of a pool in cu->reserves, and what stands at a position   *)
(* of another CU: an empty slot has used 0.                                *)
SlotOf(cu, pool) == Cardinality({p \in ReservingPools(cu) : p < pool})

UsedAt(cu, slot) ==
    LET P == {p \in ReservingPools(cu) : SlotOf(cu, p) = slot}
    IN  IF P = {} THEN 0 ELSE cu.reserves[CHOOSE p \in P : TRUE].used

(* Mutant: the comparison of the default pool the wrong way round. *)
ReplacesTurned(cu, pre, pool, load, policy) ==
    IF policy = "most" THEN cu.totalUsed < pre.totalUsed ELSE cu.totalUsed > pre.totalUsed

(* Whether a CU that is not best takes the place of preCu, the CU found    *)
(* best so far.  For a reserved pool the load after the allocation is      *)
(* compared with that of preCu before, in the slot the pool has here.      *)
Replaces(cu, pre, pool, load, policy) ==
    LET mine == IF pool = NoPool THEN cu.totalUsed ELSE UsedIn(cu, pool) + load
        other == IF pool = NoPool THEN pre.totalUsed ELSE UsedAt(pre, SlotOf(cu, pool))
    IN  IF policy = "most" THEN mine > other ELSE mine < other

(* One more CU is looked at, until one is taken (got); pre is preCu, if    *)
(* there is one.  The best CU without a free channel is passed over.       *)
Look(devs, at, s, pool, load, policy) ==
    LET cu == CuAt(devs, s)
    IN  IF at.got # {} \/ ~Fits(cu, pool, load) THEN at
        ELSE IF IsBest(cu, pool, load, policy)
        THEN IF HasFreeChannel(cu) THEN [got |-> {s}, pre |-> {}] ELSE at
        ELSE IF \A p \in at.pre : Replaces(cu, CuAt(devs, p), pool, load, policy)
        THEN [at EXCEPT !.pre = {s}]
        ELSE at

LookAll(devs, slots, pool, load, policy) ==
    FoldLeft(LAMBDA at, s : Look(devs, at, s, pool, load, policy), [got |-> {}, pre |-> {}], slots)

(* The order of the two affinity passes. *)
ByAffinity(devs, S) ==
    LET used == {s \in S : InUse(devs, s)}
    IN  SetToSortSeq(used, Before) \o SetToSortSeq(S \ used, Before)

MatchingOn(devs, D, kernel) ==
    {s \in Slots : s[1] \in D /\ s[2] \in MatchingCus(devs[s[1]], kernel)}

(* The channel of the chosen CU, without a reference on its device.  When  *)
(* it has no free channel the call fails, and its failure is ignored.      *)
WithChannel(devs, S, c, req, pool) ==
    IF \E s \in S : HasFreeChannel(CuAt(devs, s))
    THEN LET s == CHOOSE s \in S : TRUE
         IN  UpdateCu(devs, s, AllocChanClientFromCu(CuAt(devs, s), c, pool, req.load))
    ELSE devs

----------------------------------------------------------------------------
(* resAllocCuByCuLoad.  A CU that is taken keeps the reference of its      *)
(* device; preCu is allocated when the references of all devices have been *)
(* given back.                                                             *)
Allowed(devs, c, excl) ==
    {d \in Devices : IsFreeForClient(devs[d], c) /\ CanAllocClient(devs[d], c, excl)}

ChosenByCuLoad(devs, c, req, pool, excl, policy) ==
    LookAll(devs, ByAffinity(devs, MatchingOn(devs, Allowed(devs, c, excl), req.kernel)),
            pool, req.load, policy)

ResAllocCuByCuLoad(devs, c, req, pool, excl, policy) ==
    LET chosen == ChosenByCuLoad(devs, c, req, pool, excl, policy)
        got == CHOOSE s \in chosen.got : TRUE
    IN  IF chosen.got # {}
        THEN AllocOn(ProbeAll(devs, ProbedBefore(devs, got), c, excl), got, c, req, pool, excl)
        ELSE WithChannel(ProbeAll(devs, Devices, c, excl), chosen.pre, c, req, pool)

(* resAllocCuFromDevByCuLoad: one device, whose reference is kept for      *)
(* either CU.                                                              *)
ResAllocCuFromDevByCuLoad(devs, d, c, req, pool, excl, policy) ==
    LET chosen == LookAll(devs, ByAffinity(devs, MatchingOn(devs, {d}, req.kernel)),
                          pool, req.load, policy)
        held == [devs EXCEPT ![d] = AllocClientFromDev(@, c, excl)]
    IN  IF d \notin Allowed(devs, c, excl) THEN devs
        ELSE IF chosen.got \cup chosen.pre = {} THEN ProbeAll(devs, {d}, c, excl)
        ELSE WithChannel(held, chosen.got \cup chosen.pre, c, req, pool)

(* resAllocCuByDevLoad.  The devices are sorted by their load rate and     *)
(* then their id: operator< is no order, but the insertion sort that the   *)
(* library uses for the 16 devices there can be comes to that.  Whether a  *)
(* device is loaded is not looked at, and on one that is not, a reference  *)
(* that was taken cannot be given back.                                    *)
ByRate(loads) ==
    SetToSortSeq(Devices, LAMBDA d, e : \/ loads[d].rate < loads[e].rate
                                        \/ loads[d].rate = loads[e].rate /\ d < e)

ResAllocCuByDevLoad(devs, loads, c, req, pool, excl, policy) ==
    LET try(at, d) ==
            LET held == [at.devs EXCEPT ![d] = AllocClientFromDev(@, c, excl)]
                chosen == LookAll(at.devs, SetToSortSeq(MatchingOn(at.devs, {d}, req.kernel), Before),
                                  pool, req.load, policy)
            IN  IF at.done \/ ~CanAllocClient(at.devs[d], c, excl) THEN at
                ELSE IF chosen.got \cup chosen.pre # {}
                THEN [done |-> TRUE,
                      devs |-> WithChannel(held, chosen.got \cup chosen.pre, c, req, pool)]
                ELSE [at EXCEPT !.devs = [held EXCEPT ![d] = ReleaseClientOnDev(@, c)]]
    IN  FoldLeft(try, [done |-> FALSE, devs |-> devs],
                 IF policy = "least" THEN ByRate(loads) ELSE Reverse(ByRate(loads))).devs

----------------------------------------------------------------------------
(* updateDeviceLoad.  Every change of totalUsedLoadUnified is added to the *)
(* load of the device, and the rate follows it; the division of the code   *)
(* truncates.  An xclbin has at least one CU.                              *)
TotalUsed(dev) == MapThenSumSet(LAMBDA i : dev.cus[i].totalUsed, CuIds)

Rate(load, dev) ==
    LET total == Cardinality(CusOf(dev)) * MaxLoad
    IN  IF load < 0 THEN -((-load * 1000) \div total) ELSE (load * 1000) \div total

WithLoad(load, dev) == [load |-> load, rate |-> Rate(load, dev)]

LoadFollows ==
    devLoad' = [d \in Devices |->
        LET change == TotalUsed(devList'[d]) - TotalUsed(devList[d])
        IN  IF change = 0 THEN devLoad[d] ELSE WithLoad(devLoad[d].load + change, devList[d])]

(* recycleResource means to subtract what the client had reserved and not  *)
(* allocated, but sets the load of every loaded device to 0 instead        *)
(* (updateDeviceLoad(devId, tmp_sum, 0)); what the client's channels used  *)
(* of the default pool is then subtracted from that.                       *)
LoadRecycled(c) ==
    devLoad' = [d \in Devices |->
        LET before == [devList[d] EXCEPT !.cus = [i \in CuIds |-> DropReservesOf(@[i], {c})]]
        IN  IF IsLoaded(devList[d])
            THEN WithLoad(TotalUsed(devList'[d]) - TotalUsed(before), devList[d])
            ELSE devLoad[d]]

----------------------------------------------------------------------------
AllocCuByCuLoad(c, req, pool, excl, policy) ==
    /\ devList' = ResAllocCuByCuLoad(devList, c, req, pool, excl, policy)
    /\ UNCHANGED reservePoolId

AllocCuFromDevByCuLoad(d, c, req, pool, excl, policy) ==
    /\ devList' = ResAllocCuFromDevByCuLoad(devList, d, c, req, pool, excl, policy)
    /\ UNCHANGED reservePoolId

AllocCuByDevLoad(c, req, pool, excl, policy) ==
    /\ devList' = ResAllocCuByDevLoad(devList, devLoad, c, req, pool, excl, policy)
    /\ UNCHANGED reservePoolId

(* resAllocCuV2.  Without a policy and a device it is resAllocCu. *)
AllocCuV2(c) ==
    /\ \A d \in Devices : /\ devList[d].procs[c] < MaxRef
                           /\ TotalUsed(devList[d]) - devLoad[d].load <= MaxDrift
    /\ \E req \in Requests, pool \in {NoPool} \cup PoolIds, excl \in BOOLEAN :
          \/ AllocCu(c, req, pool, excl)
          \/ \E policy \in Policies, d \in Devices :
                AllocCuFromDevByCuLoad(d, c, req, pool, excl, policy)
          \/ \E policy \in Policies \ {"none"} :
                \/ AllocCuByCuLoad(c, req, pool, excl, policy)
                \/ AllocCuByDevLoad(c, req, pool, excl, policy)

PolicyInit == Init /\ devLoad = [d \in Devices |-> [load |-> 0, rate |-> 0]]

PolicyNext ==
    \/ /\ \/ \E c \in Clients : \/ AllocCuV2(c)
                                \/ \E s \in Slots, k \in Channels : ReleaseCu(c, s, k)
                                \/ \E req \in Requests : ReserveCuPool(c, req)
          \/ \E pool \in PoolIds : RelinquishCuPool(pool)
       /\ LoadFollows
    \/ \E c \in Clients : RecycleResource(c) /\ LoadRecycled(c)
    \/ \E d \in Devices, x \in Xclbins :
          LoadXclbin(d, x, TRUE, TRUE) /\ devLoad' = [devLoad EXCEPT ![d] = [load |-> 0, rate |-> 0]]
    \/ \E d \in Devices : UnloadDevice(d, TRUE) /\ UNCHANGED devLoad

PolicySpec == PolicyInit /\ [][PolicyNext]_policyVars

----------------------------------------------------------------------------
(* Properties.                                                             *)

(* A CU allocated from the default pool by the policies on CUs is the most *)
(* or the least used one of those the client could have: the search keeps  *)
(* the best so far over both affinity passes and all devices, whatever the *)
(* order in which they come.                                               *)
CuPolicyKept ==
    \A c \in Clients, req \in Requests, policy \in {"most", "least"} :
        LET chosen == ChosenByCuLoad(devList, c, req, NoPool, FALSE, policy)
            others == AllocCandidates(devList, Devices, c, req, NoPool, FALSE)
            used(s) == CuAt(devList, s).totalUsed
        IN  \A s \in chosen.got \cup chosen.pre, t \in others :
               IF policy = "most" THEN used(t) <= used(s) ELSE used(s) <= used(t)

----------------------------------------------------------------------------
(* What a comment of the code says, and the code does not do.              *)

(* recycleResource recycles "all resource from client whose connection is  *)
(* broken": it holds no channel any more.                                  *)
ChannelsRecycled ==
    [][\A c \in Clients : RecycleResource(c) => \A d \in Devices : Held(devList'[d], c) = {}]_policyVars

=============================================================================
