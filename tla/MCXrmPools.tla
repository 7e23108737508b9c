------------------------------ MODULE MCXrmPools ------------------------------
(***************************************************************************)
(* Values for the constants of XrmPools: two devices that can carry an     *)
(* xclbin of two different kernels, one CU each, and pools that compete    *)
(* for them.                                                               *)
(***************************************************************************)
EXTENDS XrmPools

CONSTANTS c1, c2, k1, k2, x1

MCClients == {c1, c2}

TwoKernels == x1 :> (0 :> k1 @@ 1 :> k2)

Item(k, l) == [req |-> [kernel |-> k, load |-> l], excl |-> FALSE]

ItemV2(k, l, w) == [req |-> [kernel |-> k, load |-> l], excl |-> FALSE, where |-> w]

OnOne == [items |-> <<Item(k1, 1), Item(k2, 1)>>, sameDevice |-> TRUE]

OnAny == [items |-> <<Item(k1, 1), Item(k2, 2)>>, sameDevice |-> FALSE]

(* Two sub-lists, interleaved; a fixed device, any, and a sub-list; two    *)
(* items that are reserved on the same CU, and a third.                    *)
Apart == <<ItemV2(k1, 1, Virtual(1)), ItemV2(k1, 1, Virtual(2)), ItemV2(k2, 2, Virtual(1))>>

Mixed == <<ItemV2(k1, 1, Hardware(1)), ItemV2(k1, 1, Anywhere), ItemV2(k2, 1, Virtual(0))>>

Merged == <<ItemV2(k1, 1, Virtual(0)), ItemV2(k1, 1, Virtual(0)), ItemV2(k2, 1, Virtual(0))>>

MCLists == {OnOne, OnAny}

MCListsV2 == {Apart, Mixed, Merged}

Pool(n, l, m) == [xclbin |-> x1, xclbinNum |-> n, list |-> l, listNum |-> m]

PoolV2(ds, n, l, m) ==
    [devices |-> ds, xclbin |-> x1, xclbinNum |-> n, list |-> l, listNum |-> m]

MCPools == {Pool(1, OnAny, 1), Pool(0, OnAny, 2), Pool(0, OnOne, 1)}

MCPoolsV2 == {PoolV2(<<>>, 0, Apart, 1), PoolV2(<<1>>, 0, Merged, 1),
              PoolV2(<<>>, 0, Mixed, 2), PoolV2(<<0>>, 1, Mixed, 0)}

(* A list from one device, twice. *)
MCPoolsTwice == {Pool(0, OnOne, 2)}

NoPoolsV2 == {}

OnOneOnly == {OnOne}

Symmetric == Permutations(MCClients)
=============================================================================
