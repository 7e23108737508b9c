----------------------------- MODULE MCXrmSystem -----------------------------
(***************************************************************************)
(* Values for the constants of XrmSystem.                                  *)
(***************************************************************************)
EXTENDS XrmRefinement, TLC

CONSTANTS c1, c2, k1, k2, x1

MCClients == {c1, c2}

(* One kernel on the only CU. *)
OneCu == x1 :> (0 :> k1)

(* Two CUs of one kernel. *)
TwinCus == x1 :> (0 :> k1 @@ 1 :> k1)

Symmetric == Permutations(MCClients)
=============================================================================
