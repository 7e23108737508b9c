------------------------------ MODULE MCXrmLists ------------------------------
(***************************************************************************)
(* Values for the constants of XrmGroups: two devices that can carry an    *)
(* xclbin of two different kernels, one CU each, lists that compete for    *)
(* them, and a group that offers two of them.                              *)
(***************************************************************************)
EXTENDS XrmGroups

CONSTANTS c1, c2, k1, k2, x1, g1

MCClients == {c1, c2}

TwoKernels == x1 :> (0 :> k1 @@ 1 :> k2)

Item(k, l, e) == [req |-> [kernel |-> k, load |-> l], excl |-> e]

ItemV2(k, l, e, w) == [req |-> [kernel |-> k, load |-> l], excl |-> e, where |-> w]

(* One of each kernel; two of one kernel, the first exclusively. *)
Pair == <<Item(k1, 1, FALSE), Item(k2, 2, FALSE)>>

Twice == <<Item(k1, 2, TRUE), Item(k1, 2, FALSE)>>

Lone(list) == [items |-> list, sameDevice |-> FALSE]

MCLists == {[items |-> Pair, sameDevice |-> TRUE], Lone(Pair), Lone(Twice)}

(* Two sub-lists, interleaved; a fixed device and then any. *)
MCListsV2 ==
    {<<ItemV2(k1, 1, FALSE, Virtual(1)), ItemV2(k1, 1, FALSE, Virtual(2)),
       ItemV2(k2, 2, FALSE, Virtual(1))>>,
     <<ItemV2(k2, 2, FALSE, Hardware(1)), ItemV2(k2, 2, TRUE, Anywhere)>>}

MCGroups == {[name |-> g1, options |-> <<Lone(Pair), Lone(Twice)>>]}

Symmetric == Permutations(MCClients)
=============================================================================
