---------------------------- MODULE XrmAvailability ----------------------------
(***************************************************************************)
(* What the daemon answers about the resources: whether CUs exist          *)
(* (resIsCuExisting, resIsCuListExisting) and how many of a kind could be  *)
(* had (the checkCu...AvailableNum commands).  The latter are no queries   *)
(* of the state: a command allocates until that fails, under the lock, and *)
(* then gives everything back.  (For pools: see XrmPools.)                 *)
(***************************************************************************)
EXTENDS XrmLists

----------------------------------------------------------------------------
(* Mutant: a CU that is in use does not exist. *)
ExistsUnused(devs, d, kernel) ==
    IsLoaded(devs[d]) /\ \E i \in MatchingCus(devs[d], kernel) : devs[d].cus[i].clients = {}

(* resIsCuExistingOnDev, resIsCuExisting *)
ExistsOn(devs, d, kernel) == IsLoaded(devs[d]) /\ MatchingCus(devs[d], kernel) # {}

ResIsCuExisting(devs, kernel) == \E d \in Devices : ExistsOn(devs, d, kernel)

(* resIsCuListExisting.  When the CUs may come from any device, cuFound is *)
(* not reset from one CU to the next: it is the first that decides.        *)
ResIsCuListExisting(devs, list) ==
    IF list.sameDevice
    THEN \E d \in Devices : \A i \in DOMAIN list.items :
             ExistsOn(devs, d, list.items[i].req.kernel)
    ELSE ResIsCuExisting(devs, Head(list.items).req.kernel)

----------------------------------------------------------------------------
(* The loop of a check: allocations of a kind, until one fails.  Each of   *)
(* them takes a channel at least, so there is an end to it.                *)
MaxRounds == Cardinality(Slots) * NumChannels + 1

Rounds(devs, alloc(_)) ==
    LET after[i \in 0 .. MaxRounds] ==
            IF i = 0 THEN [ok |-> TRUE, devs |-> devs, taken |-> <<>>, num |-> 0]
            ELSE LET at == after[i - 1]
                     more == alloc(at.devs)
                 IN  IF ~at.ok THEN at
                     ELSE [ok |-> more.ok, devs |-> more.devs, taken |-> at.taken \o more.taken,
                           num |-> IF more.ok THEN at.num + 1 ELSE at.num]
    IN  after[MaxRounds]

(* Mutant: the attempt that failed is counted. *)
ReportedWithFailed(end, c) == [num |-> end.num + 1, devs |-> GivenBack(end.devs, c, end.taken)]

(* Mutant: what was allocated last is not given back. *)
ReportedButLast(end, c) ==
    [num |-> end.num,
     devs |-> IF end.taken = <<>> THEN end.devs ELSE GivenBack(end.devs, c, Front(end.taken))]

(* The number reported, and the devices when everything is given back. *)
Reported(end, c) == [num |-> end.num, devs |-> GivenBack(end.devs, c, end.taken)]

Checked(devs, c, alloc(_)) == Reported(Rounds(devs, alloc), c)

CheckCuAvailableNum(devs, c, item, pool) ==
    Checked(devs, c, LAMBDA ds : TakeAnywhere(Start(ds), c, item, pool))

CheckCuListAvailableNum(devs, c, list, pool) ==
    Checked(devs, c, LAMBDA ds : ResAllocCuList(ds, c, list, pool))

CheckCuListAvailableNumV2(devs, c, list, pool) ==
    Checked(devs, c, LAMBDA ds : ResAllocCuListV2(ds, c, list, pool))

----------------------------------------------------------------------------
(* Clients ask for single CUs with load 1 (bound). *)
SingleItems == [req : [kernel : Kernels, load : {1}], excl : BOOLEAN]

CheckAvailable(c, pool) ==
    /\ \/ \E item \in SingleItems : devList' = CheckCuAvailableNum(devList, c, item, pool).devs
       \/ \E list \in Lists : devList' = CheckCuListAvailableNum(devList, c, list, pool).devs
       \/ \E list \in ListsV2 : devList' = CheckCuListAvailableNumV2(devList, c, list, pool).devs
    /\ UNCHANGED reservePoolId

AvailabilityNext ==
    \/ ListNext
    \/ \E c \in Clients, pool \in {NoPool} \cup PoolIds : CheckAvailable(c, pool)

AvailabilitySpec == Init /\ [][AvailabilityNext]_vars

----------------------------------------------------------------------------
(* Properties.                                                             *)

(* The exclusive mode may stay behind, on a device of which the client had *)
(* a reference already (see ProbeDevice).                                  *)
SameBut(before, after, c, excl) ==
    \A d \in Devices :
        \/ after[d] = before[d]
        \/ excl /\ before[d].procs[c] > 0 /\ after[d] = [before[d] EXCEPT !.isExcl = TRUE]

HasExcl(items) == \E i \in DOMAIN items : items[i].excl

(* A check gives back all it took: channels, loads of the default pool and *)
(* of reserved ones, and references, wherever its rounds took them and     *)
(* whatever the client held before.                                        *)
ChecksLeaveNoTrace ==
    \A c \in Clients, pool \in {NoPool} \cup PoolIds :
        /\ \A item \in SingleItems :
              SameBut(devList, CheckCuAvailableNum(devList, c, item, pool).devs, c, item.excl)
        /\ \A list \in Lists :
              SameBut(devList, CheckCuListAvailableNum(devList, c, list, pool).devs, c,
                      HasExcl(list.items))
        /\ \A list \in ListsV2 :
              SameBut(devList, CheckCuListAvailableNumV2(devList, c, list, pool).devs, c,
                      HasExcl(list))

(* How often a load fits on a CU: by the load of the pool that is left,    *)
(* and by the channels.                                                    *)
Fitting(cu, pool, load) ==
    LET left == IF pool = NoPool THEN MaxLoad - cu.totalUsed
                ELSE cu.reserves[pool].load - cu.reserves[pool].used
        free == NumChannels - Cardinality(BusyChannels(cu))
    IN  IF free < left \div load THEN free ELSE left \div load

(* The number reported for a CU that is shared is what the CUs of the      *)
(* devices open to the client can take together: the search, with its      *)
(* affinity, misses none and uses none twice.                              *)
AvailableNumRight ==
    \A c \in Clients, pool \in {NoPool} \cup PoolIds, item \in SingleItems :
        LET open == {s \in Slots : /\ IsFreeForClient(devList[s[1]], c)
                                   /\ CanAllocClient(devList[s[1]], c, FALSE)
                                   /\ s[2] \in MatchingCus(devList[s[1]], item.req.kernel)}
        IN  ~item.excl =>
                CheckCuAvailableNum(devList, c, item, pool).num
                    = MapThenSumSet(LAMBDA s : Fitting(CuAt(devList, s), pool, item.req.load), open)

=============================================================================
