----------------------------- MODULE MCXrmPolicy -----------------------------
(***************************************************************************)
(* Values for the constants of XrmPolicy: two devices that carry one CU,   *)
(* or two CUs of one kernel.                                               *)
(***************************************************************************)
EXTENDS XrmPolicy

CONSTANTS c1, c2, k1, x1

MCClients == {c1, c2}

OneCu == x1 :> (0 :> k1)

TwinCus == x1 :> (0 :> k1 @@ 1 :> k1)

Symmetric == Permutations(MCClients)
=============================================================================
