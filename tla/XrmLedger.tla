------------------------------- MODULE XrmLedger -------------------------------
(***************************************************************************)
(* What the resource manager promises its clients, whatever search,        *)
(* policy, counter or device lies behind it: a ledger of who has been      *)
(* granted which load of which CU, and of what pools have reserved there.  *)
(* An entry is made for a client and stays as it is until the client gives *)
(* it back or the client is forgotten; and no CU is ever promised to more  *)
(* than it can carry.                                                      *)
(*                                                                         *)
(* Every step says what may change in the ledger, not how it is chosen.    *)
(***************************************************************************)
EXTENDS XrmSum

CONSTANTS
    CUs,            \* the compute units of the system
    NumTokens,      \* how many grants a CU can carry at a time
    Clients,
    NoClient,       \* the client of an entry not in use
    MaxPool,        \* pools are numbered 1 .. MaxPool
    Capacity        \* the load a CU can carry

Tokens == 0 .. NumTokens - 1
PoolNames == 1 .. MaxPool
NoPool == 0

VARIABLES
    granted,        \* granted[u][t]: the client, its pool, and the load it has
    reserved        \* reserved[u][p]: the client of pool p, and the load it has

vars == <<granted, reserved>>

NotGranted == [client |-> NoClient, pool |-> NoPool, load |-> 0]
NotReserved == [client |-> NoClient, load |-> 0]

Init ==
    /\ granted = [u \in CUs |-> [t \in Tokens |-> NotGranted]]
    /\ reserved = [u \in CUs |-> [p \in PoolNames |-> NotReserved]]

----------------------------------------------------------------------------
IsReserved(u, p) == p \in PoolNames /\ reserved[u][p] # NotReserved

GrantedFrom(u, p) == {t \in Tokens : granted[u][t] # NotGranted /\ granted[u][t].pool = p}

(* The load of the grants of a pool; that of the grants of no pool, or of  *)
(* one that is gone; and the load that is reserved.                        *)
LoadOfPool(u, p) ==
    SumTo([t \in Tokens |-> IF granted[u][t].pool = p THEN granted[u][t].load ELSE 0], NumTokens)

LoadOfNone(u) ==
    SumTo([t \in Tokens |-> IF IsReserved(u, granted[u][t].pool) THEN 0 ELSE granted[u][t].load],
        NumTokens)

LoadReserved(u) == SumTo([i \in 0 .. MaxPool - 1 |-> reserved[u][i + 1].load], MaxPool)

(* No CU, and no reservation, is promised beyond what it can carry. *)
Sound ==
    \A u \in CUs : /\ LoadOfNone(u) + LoadReserved(u) <= Capacity
                   /\ \A p \in PoolNames : IsReserved(u, p) => LoadOfPool(u, p) <= reserved[u][p].load

----------------------------------------------------------------------------
(* Client c is granted something it did not have, of the default pool or   *)
(* of one that is reserved there.                                          *)
Take(c) ==
    /\ \A u \in CUs, t \in Tokens :
          granted'[u][t] # granted[u][t] =>
             /\ granted[u][t] = NotGranted
             /\ granted'[u][t].client = c
             /\ granted'[u][t].load > 0
             /\ granted'[u][t].pool # NoPool => IsReserved(u, granted'[u][t].pool)
    /\ UNCHANGED reserved

(* Client c gives back something it has. *)
GiveBack(c) ==
    /\ \A u \in CUs, t \in Tokens :
          granted'[u][t] # granted[u][t] =>
             /\ granted[u][t].client = c
             /\ granted'[u][t] = NotGranted
    /\ UNCHANGED reserved

(* Pool p, of which nothing is left from before, is reserved for c. *)
Reserve(p, c) ==
    /\ \A u \in CUs : ~IsReserved(u, p) /\ GrantedFrom(u, p) = {}
    /\ \A u \in CUs, q \in PoolNames :
          reserved'[u][q] # reserved[u][q] => q = p /\ reserved'[u][q].client = c
    /\ UNCHANGED granted

(* Reservations of pool p, of which nothing is granted, are given up. *)
Relinquish(p) ==
    /\ \A u \in CUs, q \in PoolNames :
          reserved'[u][q] # reserved[u][q] =>
             /\ q = p
             /\ GrantedFrom(u, p) = {}
             /\ reserved'[u][q] = NotReserved
    /\ UNCHANGED granted

(* The clients in C are forgotten, and nobody else: what others have of a  *)
(* pool of theirs stays, and counts as taken from no pool.                 *)
Forget(C) ==
    /\ granted' = [u \in CUs |-> [t \in Tokens |->
                     IF granted[u][t].client \in C THEN NotGranted ELSE granted[u][t]]]
    /\ reserved' = [u \in CUs |-> [p \in PoolNames |->
                      IF reserved[u][p].client \in C THEN NotReserved ELSE reserved[u][p]]]

Next ==
    /\ \/ \E c \in Clients : Take(c) \/ GiveBack(c)
       \/ \E p \in PoolNames : Relinquish(p) \/ \E c \in Clients : Reserve(p, c)
       \/ \E C \in SUBSET Clients : Forget(C)
    /\ Sound'

Spec == Init /\ [][Next]_vars

=============================================================================
