----------------------------- MODULE MCXrmService -----------------------------
(***************************************************************************)
(* Values for the constants of XrmService: one device with two CUs, each   *)
(* of two channels, two clients, and groups, one of which falls back from  *)
(* two CUs to one.                                                         *)
(***************************************************************************)
EXTENDS XrmService

CONSTANTS c1, c2, k1, k2, x1, g1, g2

MCClients == {c1, c2}

TwoKernels == x1 :> (0 :> k1 @@ 1 :> k2)

Item(k) == [req |-> [kernel |-> k, load |-> 1], excl |-> FALSE]

ListOf(items) == [items |-> items, sameDevice |-> FALSE]

Both == ListOf(<<Item(k1), Item(k2)>>)

Alone == ListOf(<<Item(k2)>>)

Twice == [items |-> <<Item(k1), Item(k1)>>, sameDevice |-> TRUE]

MCLists == {Both, Alone, Twice}

MCListsV2 == {<<[req |-> [kernel |-> k1, load |-> 1], excl |-> FALSE, where |-> Anywhere],
                [req |-> [kernel |-> k2, load |-> 1], excl |-> FALSE, where |-> Virtual(1)]>>}

MCGroups == {[name |-> g1, options |-> <<Both, Alone>>], [name |-> g2, options |-> <<Twice>>]}

Symmetric == Permutations(MCClients)
=============================================================================
