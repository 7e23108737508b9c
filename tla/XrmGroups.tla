------------------------------- MODULE XrmGroups -------------------------------
(***************************************************************************)
(* User defined CU groups: a choice of lists of CUs under a name; to       *)
(* allocate the group is to allocate the first of the lists that can be    *)
(* had.  (The table the groups stand in: XrmGroupTable.)  The groups of    *)
(* version 2 are left out: their allocation never succeeds, since          *)
(* resAllocCuGroupV2 asks for CUs by a name that the allocation of a list  *)
(* drops.  A list of a group names CUs where other lists name kernels:     *)
(* Kernels stands for both.                                                *)
(***************************************************************************)
EXTENDS XrmAvailability

CONSTANTS
    Groups          \* the groups that clients allocate: a name and lists

ASSUME GroupsAssumption == \A g \in Groups : g.options \in Seq(Lists)

----------------------------------------------------------------------------
(* resIsCuGroupExisting *)
ResIsCuGroupExisting(devs, options) ==
    \E i \in DOMAIN options : ResIsCuListExisting(devs, options[i])

(* Mutant: the lists after one that was had are tried as well. *)
AllocLastOption(devs, c, options, pool) ==
    FoldLeft(LAMBDA at, list : ResAllocCuList(at.devs, c, list, pool), Failed(devs), options)

(* resAllocCuGroup, when the group is declared. *)
ResAllocCuGroup(devs, c, options, pool) ==
    FoldLeft(LAMBDA at, list : IF at.ok THEN at ELSE ResAllocCuList(at.devs, c, list, pool),
             Failed(devs), options)

CheckCuGroupAvailableNum(devs, c, options, pool) ==
    Checked(devs, c, LAMBDA ds : ResAllocCuGroup(ds, c, options, pool))

AllocCuGroup(c, group, pool) ==
    /\ devList' = ResAllocCuGroup(devList, c, group.options, pool).devs
    /\ UNCHANGED reservePoolId

CheckGroupAvailable(c, group, pool) ==
    /\ devList' = CheckCuGroupAvailableNum(devList, c, group.options, pool).devs
    /\ UNCHANGED reservePoolId

GroupNext ==
    \/ AvailabilityNext
    \/ \E c \in Clients, group \in Groups, pool \in {NoPool} \cup PoolIds :
          AllocCuGroup(c, group, pool) \/ CheckGroupAvailable(c, group, pool)

GroupSpec == Init /\ [][GroupNext]_vars

----------------------------------------------------------------------------
(* Properties.                                                             *)

(* A group is granted as the first of its lists that can be had now, and   *)
(* as that list alone: those tried before it leave nothing behind and take *)
(* nothing away from it.  It fails only if none can be had.                *)
GroupTakesFirst ==
    \A c \in Clients, group \in Groups, pool \in {NoPool} \cup PoolIds :
        LET options == group.options
            granted == ResAllocCuGroup(devList, c, options, pool)
            had(i) == ResAllocCuList(devList, c, options[i], pool)
        IN  IF granted.ok
            THEN \E i \in DOMAIN options : /\ had(i).ok
                                           /\ \A j \in 1 .. i - 1 : ~had(j).ok
                                           /\ SameHoldings(had(i).devs, granted.devs)
            ELSE /\ \A i \in DOMAIN options : ~had(i).ok
                 /\ SameHoldings(devList, granted.devs)

(* A group that could be had now is said to exist, whatever lists it       *)
(* offers: a blocking allocation asks once, and does not try otherwise.    *)
GrantableExists ==
    \A c \in Clients, group \in Groups :
        ResAllocCuGroup(devList, c, group.options, NoPool).ok
            => ResIsCuGroupExisting(devList, group.options)

=============================================================================
