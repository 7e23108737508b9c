------------------------------ MODULE MCXrmAdmin ------------------------------
(***************************************************************************)
(* Values for the constants of XrmAdmin: two devices, two xclbins, one     *)
(* with a CU of the kernel, commands for one device, for both, for all and *)
(* for one there is none of, and drivers that fail here or there.          *)
(***************************************************************************)
EXTENDS XrmAdmin, TLC

CONSTANTS c1, c2, k1, x1, x2

MCClients == {c1, c2}

OneCuOrNone == x1 :> (0 :> k1) @@ x2 :> (0 :> NoKernel)

Load(d, x) == [device |-> d, xclbin |-> x]

MCLoadCommands == {<<Load(1, x1)>>, <<Load(0, x2), Load(1, x1)>>, <<Load(AllDevices, x1)>>,
                   <<Load(AllDevices, x2), Load(0, x1)>>, <<Load(0, x1), Load(2, x1)>>}

MCDeviceCommands == {<<1>>, <<1, 0>>, <<0, AllDevices, 1>>, <<2>>}

(* All is well; device 0 does not load and 1 not unlock, or the other way  *)
(* round, and opens nothing; the file cannot be read.                      *)
MCDrivers ==
    {[reads |-> TRUE, good |-> {0, 1}, unlocks |-> {0, 1}, opens |-> {0, 1}],
     [reads |-> TRUE, good |-> {1}, unlocks |-> {0}, opens |-> {1}],
     [reads |-> FALSE, good |-> {0, 1}, unlocks |-> {1}, opens |-> {}]}

Symmetric == Permutations(MCClients)
=============================================================================
