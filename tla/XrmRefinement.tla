----------------------------- MODULE XrmRefinement -----------------------------
(***************************************************************************)
(* The resource manager keeps the ledger of XrmLedger: every call is one   *)
(* step of it, or none.  A grant is a channel in use, and its token the    *)
(* channel's number; the counters, the reference counts and exclusive      *)
(* mode, by which the daemon decides, do not appear in the ledger.         *)
(***************************************************************************)
EXTENDS XrmSystem

(* What the channels of a CU say of its grants, and the slots of its       *)
(* reservations.                                                           *)
GrantsOn(s) == CuAt(devList, s).channels

ReservedOn(s) ==
    [p \in PoolIds |-> [client |-> CuAt(devList, s).reserves[p].client,
                        load |-> CuAt(devList, s).reserves[p].load]]

Ledger == INSTANCE XrmLedger WITH
            CUs <- Slots, NumTokens <- NumChannels, Capacity <- MaxLoad,
            granted <- [s \in Slots |-> GrantsOn(s)],
            reserved <- [s \in Slots |-> ReservedOn(s)]

(* Every allocation, reservation, release, recycling, load, unload and     *)
(* reset does to what clients have what the ledger allows: a call for one  *)
(* client touches no other's, a pool's id starts with nothing, only what   *)
(* is unused is relinquished, a recycled client is gone from all CUs of    *)
(* all devices at once, an administrator changes nothing, and promises     *)
(* never exceed capacity.                                                  *)
ImplementsLedger == Ledger!Spec

=============================================================================
