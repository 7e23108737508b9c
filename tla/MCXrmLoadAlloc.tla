---------------------------- MODULE MCXrmLoadAlloc ----------------------------
(***************************************************************************)
(* Values for the constants of XrmLoadAlloc: two devices and two xclbins,  *)
(* one with two CUs of the kernel and one with a single CU of it.          *)
(***************************************************************************)
EXTENDS XrmLoadAlloc

CONSTANTS c1, c2, k1, x1, x2

MCClients == {c1, c2}

TwoXclbins == (x1 :> (0 :> k1 @@ 1 :> k1)) @@ (x2 :> (0 :> k1 @@ 1 :> NoKernel))

(* Loads succeed everywhere, or on device 1 only. *)
MCDrivers == {[good |-> {0, 1}, unlocks |-> {0, 1}, opens |-> {0, 1}],
              [good |-> {1}, unlocks |-> {0, 1}, opens |-> {0, 1}]}

Symmetric == Permutations(MCClients)
=============================================================================
