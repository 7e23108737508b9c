-------------------------- MODULE XrmRefinementProofs --------------------------
(***************************************************************************)
(* For any number of devices, CUs, channels, clients and pools: the        *)
(* resource manager implements the ledger.  Every call does to each CU     *)
(* what one step of the ledger allows; then what it does to all of them is *)
(* that step.                                                              *)
(***************************************************************************)
EXTENDS XrmRefinement, XrmLoadsProofs

(* Of one CU, before and after a call: what a reservation is to the        *)
(* ledger, its client and its load, is as it was; and what each step of    *)
(* the ledger lets a call do.                                              *)
SameReserve(cu, new, p) ==
    /\ new.reserves[p].client = cu.reserves[p].client
    /\ new.reserves[p].load = cu.reserves[p].load

SameReserves(cu, new) == \A p \in PoolIds : SameReserve(cu, new, p)

Keeps(cu, new) == new.channels = cu.channels /\ SameReserves(cu, new)

Takes(cu, new, c) ==
    /\ SameReserves(cu, new)
    /\ \A k \in Channels :
          new.channels[k] # cu.channels[k] =>
             /\ cu.channels[k] = FreeChannel
             /\ new.channels[k].client = c
             /\ new.channels[k].load > 0
             /\ new.channels[k].pool # NoPool => IsReservePoolUsingCu(cu, new.channels[k].pool)

GivesBack(cu, new, c) ==
    /\ SameReserves(cu, new)
    /\ \A k \in Channels : new.channels[k] # cu.channels[k] =>
                              cu.channels[k].client = c /\ new.channels[k] = FreeChannel

Reserves(cu, new, pool, c) ==
    /\ new.channels = cu.channels
    /\ \A p \in PoolIds : ~SameReserve(cu, new, p) => p = pool /\ new.reserves[p].client = c

Relinquishes(cu, new, pool) ==
    /\ new.channels = cu.channels
    /\ \A p \in PoolIds :
          ~SameReserve(cu, new, p) =>
             /\ p = pool
             /\ \A k \in Channels : cu.channels[k] = FreeChannel \/ cu.channels[k].pool # pool
             /\ new.reserves[p].client = NoClient /\ new.reserves[p].load = 0

Forgets(cu, new, C) ==
    /\ new.channels = [k \in Channels |-> IF cu.channels[k].client \in C THEN FreeChannel
                                          ELSE cu.channels[k]]
    /\ \A p \in PoolIds :
          IF cu.reserves[p].client \in C
          THEN new.reserves[p].client = NoClient /\ new.reserves[p].load = 0
          ELSE SameReserve(cu, new, p)

----------------------------------------------------------------------------
(* What all the CUs do is a step of the ledger. *)
LEMMA LedgerNames ==
  /\ Ledger!Tokens = Channels /\ Ledger!PoolNames = PoolIds
  /\ Ledger!NotGranted = FreeChannel
  /\ Ledger!NotReserved = [client |-> NoClient, load |-> 0]
  /\ Ledger!NoPool = NoPool
BY DEF Ledger!Tokens, Ledger!PoolNames, Ledger!NotGranted, Ledger!NotReserved, Ledger!NoPool,
       Channels, PoolIds, FreeChannel, NoPool

LEMMA LedgerSum ==
  ASSUME NEW f, NEW n
  PROVE  Ledger!SumTo(f, n) = SumTo(f, n)
BY DEF Ledger!SumTo, SumTo

LEMMA ReservedWhere ==
  ASSUME NEW last, NEW s \in Slots, CuAt(devList, s) \in CuType,
         LoadsRight(CuAt(devList, s), last), NEW p \in {NoPool} \cup PoolIds
  PROVE  Ledger!IsReserved(s, p) <=> IsReservePoolUsingCu(CuAt(devList, s), p)
<1>1. CASE p \in PoolIds
  <2> DEFINE r == CuAt(devList, s).reserves[p]
  <2>1. r.client = NoClient => r.load = 0
    BY <1>1, SlotsRight DEF IsReservePoolUsingCu, EmptyReserve
  <2>2. Ledger!IsReserved(s, p) <=> [client |-> r.client, load |-> r.load] # [client |-> NoClient, load |-> 0]
    BY <1>1, LedgerNames DEF Ledger!IsReserved, ReservedOn
  <2> QED BY <1>1, <2>1, <2>2 DEF IsReservePoolUsingCu
<1>2. CASE p = NoPool
  BY <1>2, CuAssumption, LedgerNames DEF Ledger!IsReserved, IsReservePoolUsingCu, NoPool, PoolIds
<1> QED BY <1>1, <1>2

LEMMA SlotNext ==
  ASSUME NEW s \in Slots
  PROVE  /\ GrantsOn(s)' = CuAt(devList', s).channels
         /\ ReservedOn(s)' = [p \in PoolIds |-> [client |-> CuAt(devList', s).reserves[p].client,
                                                 load |-> CuAt(devList', s).reserves[p].load]]
BY DEF GrantsOn, ReservedOn, CuAt

(* The reservations are as they were, to the ledger. *)
LEMMA ReservedKept ==
  ASSUME \A s \in Slots : SameReserves(CuAt(devList, s), CuAt(devList', s))
  PROVE  [s \in Slots |-> ReservedOn(s)]' = [s \in Slots |-> ReservedOn(s)]
<1>1. ASSUME NEW s \in Slots PROVE ReservedOn(s)' = ReservedOn(s)
  BY SlotNext DEF ReservedOn, SameReserves, SameReserve
<1> QED BY <1>1

LEMMA TakeIsStep ==
  ASSUME NEW c \in Clients, NEW last, AllInOrder(devList), AllInOrder(devList'),
         AllRight(devList, last),
         \A s \in Slots : Takes(CuAt(devList, s), CuAt(devList', s), c)
  PROVE  Ledger!Take(c)
<1>1. ASSUME NEW s \in Slots, NEW t \in Channels, GrantsOn(s)'[t] # GrantsOn(s)[t]
      PROVE  /\ GrantsOn(s)[t] = FreeChannel
             /\ GrantsOn(s)'[t].client = c
             /\ GrantsOn(s)'[t].load > 0
             /\ GrantsOn(s)'[t].pool # NoPool => Ledger!IsReserved(s, GrantsOn(s)'[t].pool)
  <2> DEFINE ch == CuAt(devList', s).channels[t]
  <2>1. GrantsOn(s)'[t] = ch /\ GrantsOn(s) = CuAt(devList, s).channels
    BY SlotNext DEF GrantsOn
  <2>2. /\ CuAt(devList, s) \in CuType /\ CuAt(devList', s) \in CuType
        /\ LoadsRight(CuAt(devList, s), last)
    BY CusTyped DEF AllInOrder, AllRight, DeviceRight, Slots, CuAt
  <2>3. ch.pool \in {NoPool} \cup PoolIds
    BY <1>1, <2>2 DEF CuType, ChannelType
  <2>4. /\ CuAt(devList, s).channels[t] = FreeChannel
        /\ ch.client = c /\ ch.load > 0
        /\ ch.pool # NoPool => IsReservePoolUsingCu(CuAt(devList, s), ch.pool)
    BY <1>1, <2>1 DEF Takes
  <2> QED BY <2>1, <2>2, <2>3, <2>4, ReservedWhere
<1>2. [s \in Slots |-> ReservedOn(s)]' = [s \in Slots |-> ReservedOn(s)]
  BY ReservedKept DEF Takes
<1> QED BY <1>1, <1>2, LedgerNames DEF Ledger!Take

LEMMA GiveBackIsStep ==
  ASSUME NEW c \in Clients,
         \A s \in Slots : GivesBack(CuAt(devList, s), CuAt(devList', s), c)
  PROVE  Ledger!GiveBack(c)
<1>1. ASSUME NEW s \in Slots, NEW t \in Channels, GrantsOn(s)'[t] # GrantsOn(s)[t]
      PROVE  GrantsOn(s)[t].client = c /\ GrantsOn(s)'[t] = FreeChannel
  BY <1>1, SlotNext DEF GrantsOn, GivesBack
<1>2. [s \in Slots |-> ReservedOn(s)]' = [s \in Slots |-> ReservedOn(s)]
  BY ReservedKept DEF GivesBack
<1> QED BY <1>1, <1>2, LedgerNames DEF Ledger!GiveBack

(* The grants are as they were. *)
LEMMA GrantedKept ==
  ASSUME \A s \in Slots : CuAt(devList', s).channels = CuAt(devList, s).channels
  PROVE  [s \in Slots |-> GrantsOn(s)]' = [s \in Slots |-> GrantsOn(s)]
<1>1. ASSUME NEW s \in Slots PROVE GrantsOn(s)' = GrantsOn(s)
  BY SlotNext DEF GrantsOn
<1> QED BY <1>1

LEMMA SameReserveOn ==
  ASSUME NEW s \in Slots, NEW p \in PoolIds, ReservedOn(s)'[p] # ReservedOn(s)[p]
  PROVE  ~SameReserve(CuAt(devList, s), CuAt(devList', s), p)
BY SlotNext DEF ReservedOn, SameReserve

LEMMA ReserveIsStep ==
  ASSUME NEW c \in Clients, NEW last, AllInOrder(devList), AllRight(devList, last),
         NEW pool \in PoolIds, NowhereCarried(devList, pool),
         \A s \in Slots : /\ ~IsReservePoolUsingCu(CuAt(devList, s), pool)
                         /\ Reserves(CuAt(devList, s), CuAt(devList', s), pool, c)
  PROVE  Ledger!Reserve(pool, c)
<1>1. ASSUME NEW s \in Slots
      PROVE  ~Ledger!IsReserved(s, pool) /\ Ledger!GrantedFrom(s, pool) = {}
  <2>1. CuAt(devList, s) \in CuType /\ LoadsRight(CuAt(devList, s), last)
    BY CusTyped DEF AllInOrder, AllRight, DeviceRight, Slots, CuAt
  <2>2. NoneCarries(CuAt(devList, s), pool)
    BY DEF NowhereCarried, Slots, CuAt
  <2> QED BY <2>1, <2>2, ReservedWhere, LedgerNames DEF Ledger!GrantedFrom, NoneCarries, GrantsOn
<1>2. ASSUME NEW s \in Slots, NEW q \in PoolIds, ReservedOn(s)'[q] # ReservedOn(s)[q]
      PROVE  q = pool /\ ReservedOn(s)'[q].client = c
  BY <1>2, SameReserveOn, SlotNext DEF Reserves
<1>3. [s \in Slots |-> GrantsOn(s)]' = [s \in Slots |-> GrantsOn(s)]
  BY GrantedKept DEF Reserves
<1> QED BY <1>1, <1>2, <1>3, LedgerNames DEF Ledger!Reserve

LEMMA RelinquishIsStep ==
  ASSUME NEW pool \in PoolIds,
         \A s \in Slots : Relinquishes(CuAt(devList, s), CuAt(devList', s), pool)
  PROVE  Ledger!Relinquish(pool)
<1>1. ASSUME NEW s \in Slots, NEW q \in PoolIds, ReservedOn(s)'[q] # ReservedOn(s)[q]
      PROVE  /\ q = pool
             /\ Ledger!GrantedFrom(s, pool) = {}
             /\ ReservedOn(s)'[q] = [client |-> NoClient, load |-> 0]
  <2>1. ~SameReserve(CuAt(devList, s), CuAt(devList', s), q)
    BY <1>1, SameReserveOn
  <2>2. /\ q = pool
        /\ \A k \in Channels : GrantsOn(s)[k] = FreeChannel \/ GrantsOn(s)[k].pool # pool
        /\ CuAt(devList', s).reserves[q].client = NoClient
        /\ CuAt(devList', s).reserves[q].load = 0
    BY <2>1 DEF Relinquishes, GrantsOn
  <2>3. Ledger!GrantedFrom(s, pool) = {}
    BY <2>2, LedgerNames DEF Ledger!GrantedFrom
  <2> QED BY <2>2, <2>3, SlotNext
<1>2. [s \in Slots |-> GrantsOn(s)]' = [s \in Slots |-> GrantsOn(s)]
  BY GrantedKept DEF Relinquishes
<1> QED BY <1>1, <1>2, LedgerNames DEF Ledger!Relinquish

LEMMA ForgetIsStep ==
  ASSUME NEW C \in SUBSET Clients,
         \A s \in Slots : Forgets(CuAt(devList, s), CuAt(devList', s), C)
  PROVE  Ledger!Forget(C)
<1>1. ASSUME NEW s \in Slots
      PROVE  /\ GrantsOn(s)' = [t \in Channels |-> IF GrantsOn(s)[t].client \in C
                                                   THEN FreeChannel ELSE GrantsOn(s)[t]]
             /\ ReservedOn(s)' = [p \in PoolIds |->
                                    IF ReservedOn(s)[p].client \in C
                                    THEN [client |-> NoClient, load |-> 0] ELSE ReservedOn(s)[p]]
  BY SlotNext DEF Forgets, GrantsOn, ReservedOn, SameReserve
<1> QED BY <1>1, LedgerNames DEF Ledger!Forget

(* Nothing happens, to the ledger. *)
LEMMA KeepIsStutter ==
  ASSUME \A s \in Slots : Keeps(CuAt(devList, s), CuAt(devList', s))
  PROVE  UNCHANGED Ledger!vars
BY GrantedKept, ReservedKept DEF Keeps, Ledger!vars

----------------------------------------------------------------------------
(* The ledger's totals are the daemon's counters, so no CU and no          *)
(* reservation is promised beyond what it can carry.                       *)
LEMMA LoadOfPoolIs ==
  ASSUME NEW s \in Slots, NEW p
  PROVE  Ledger!LoadOfPool(s, p) = LoadIn(CuAt(devList, s), Channels, p)
<1> DEFINE f == [t \in Channels |-> IF GrantsOn(s)[t].pool = p THEN GrantsOn(s)[t].load ELSE 0]
           g == [k \in Channels |-> IF k \in Channels /\ CuAt(devList, s).channels[k].pool = p
                                    THEN CuAt(devList, s).channels[k].load ELSE 0]
<1>1. f = g
  BY DEF GrantsOn
<1>2. Ledger!LoadOfPool(s, p) = Ledger!SumTo(f, NumChannels)
  BY LedgerNames DEF Ledger!LoadOfPool
<1>3. LoadIn(CuAt(devList, s), Channels, p) = SumTo(g, NumChannels)
  BY DEF LoadIn
<1> HIDE DEF f, g
<1> QED BY <1>1, <1>2, <1>3, LedgerSum

LEMMA LoadOfNoneIs ==
  ASSUME NEW last, NEW s \in Slots, CuAt(devList, s) \in CuType,
         LoadsRight(CuAt(devList, s), last)
  PROVE  Ledger!LoadOfNone(s) = UnpooledLoad(CuAt(devList, s), Channels)
<1> DEFINE cu == CuAt(devList, s)
           f == [t \in Channels |-> IF Ledger!IsReserved(s, GrantsOn(s)[t].pool) THEN 0
                                    ELSE GrantsOn(s)[t].load]
           g == [k \in Channels |-> IF k \in Channels /\ ~IsReservePoolUsingCu(cu, cu.channels[k].pool)
                                    THEN cu.channels[k].load ELSE 0]
<1>1. ASSUME NEW t \in Channels
      PROVE  Ledger!IsReserved(s, GrantsOn(s)[t].pool) <=> IsReservePoolUsingCu(cu, cu.channels[t].pool)
  <2>1. GrantsOn(s)[t].pool = cu.channels[t].pool /\ cu.channels[t].pool \in {NoPool} \cup PoolIds
    BY DEF GrantsOn, CuType, ChannelType
  <2> QED BY <2>1, ReservedWhere
<1>2. f = g
  BY <1>1 DEF GrantsOn
<1>3. Ledger!LoadOfNone(s) = Ledger!SumTo(f, NumChannels)
  BY LedgerNames DEF Ledger!LoadOfNone
<1>4. UnpooledLoad(cu, Channels) = SumTo(g, NumChannels)
  BY DEF UnpooledLoad
<1> HIDE DEF f, g
<1> QED BY <1>2, <1>3, <1>4, LedgerSum

LEMMA LoadReservedIs ==
  ASSUME NEW s \in Slots
  PROVE  Ledger!LoadReserved(s) = AllReserved(CuAt(devList, s))
<1> DEFINE f == [i \in 0 .. MaxPool - 1 |-> ReservedOn(s)[i + 1].load]
           g == [i \in 0 .. MaxPool - 1 |-> CuAt(devList, s).reserves[i + 1].load]
<1>1. f = g
  BY CuAssumption DEF ReservedOn, PoolIds
<1>2. Ledger!LoadReserved(s) = Ledger!SumTo(f, MaxPool)
  BY DEF Ledger!LoadReserved
<1>3. AllReserved(CuAt(devList, s)) = SumTo(g, MaxPool)
  BY DEF AllReserved
<1> HIDE DEF f, g
<1> QED BY <1>1, <1>2, <1>3, LedgerSum

LEMMA LedgerSound == IInv => Ledger!Sound
<1> SUFFICES ASSUME IInv PROVE Ledger!Sound
  OBVIOUS
<1>1. AllInOrder(devList) /\ AllRight(devList, reservePoolId)
  BY IInvIsRight
<1>2. ASSUME NEW s \in Slots
      PROVE  /\ Ledger!LoadOfNone(s) + Ledger!LoadReserved(s) <= MaxLoad
             /\ \A p \in PoolIds : Ledger!IsReserved(s, p) =>
                                     Ledger!LoadOfPool(s, p) <= ReservedOn(s)[p].load
  <2> DEFINE cu == CuAt(devList, s)
  <2>1. cu \in CuType /\ LoadsRight(cu, reservePoolId)
    BY <1>1, CusTyped DEF AllInOrder, AllRight, DeviceRight, Slots, CuAt
  <2>2. UnpooledLoad(cu, Channels) + AllReserved(cu) <= MaxLoad
    BY <2>1 DEF LoadsRight, CuBalanced
  <2>3. ASSUME NEW p \in PoolIds, IsReservePoolUsingCu(cu, p)
        PROVE  LoadIn(cu, Channels, p) <= cu.reserves[p].load
    BY <2>1, <2>3, SlotsRight
  <2> HIDE DEF cu
  <2>4. Ledger!LoadOfNone(s) + Ledger!LoadReserved(s) <= MaxLoad
    BY <2>1, <2>2, LoadOfNoneIs, LoadReservedIs DEF cu
  <2>5. ASSUME NEW p \in PoolIds, Ledger!IsReserved(s, p)
        PROVE  Ledger!LoadOfPool(s, p) <= ReservedOn(s)[p].load
    <3>1. IsReservePoolUsingCu(cu, p)
      BY <2>1, <2>5, ReservedWhere DEF cu
    <3>2. ReservedOn(s)[p].load = cu.reserves[p].load
      BY DEF ReservedOn, cu
    <3>3. Ledger!LoadOfPool(s, p) = LoadIn(cu, Channels, p)
      BY LoadOfPoolIs DEF cu
    <3> QED BY <2>3, <3>1, <3>2, <3>3
  <2> QED BY <2>4, <2>5
<1>3. \A s \in Slots : [u \in Slots |-> ReservedOn(u)][s] = ReservedOn(s)
  OBVIOUS
<1> QED BY <1>2, <1>3, LedgerNames DEF Ledger!Sound

----------------------------------------------------------------------------
(* What each operation does to its CU. *)
LEMMA AllocTakes ==
  ASSUME NEW cu \in CuType, CuIndexed(cu), NEW last, LoadsRight(cu, last), NEW c \in Clients,
         NEW pool \in {NoPool} \cup PoolIds, NEW load \in 0 .. MaxLoad, CanAllocChan(cu, pool, load)
  PROVE  Takes(cu, AllocChanClientFromCu(cu, c, pool, load), c)
<1> DEFINE k == ChannelFor(cu)
           new == AllocChanClientFromCu(cu, c, pool, load)
<1>1. k \in Channels /\ k \notin BusyChannels(cu)
  BY ChannelForIsFree DEF CanAllocChan
<1>2. cu.channels[k] = FreeChannel
  BY <1>1 DEF BusyChannels, LoadsRight
<1> HIDE DEF k
<1>3. /\ new.channels = [cu.channels EXCEPT ![k] = [client |-> c, pool |-> pool, load |-> load]]
      /\ new.reserves = IF pool = NoPool THEN cu.reserves
                        ELSE [cu.reserves EXCEPT ![pool].used = cu.reserves[pool].used + load]
  BY DEF AllocChanClientFromCu, CuType, k
<1>4. SameReserves(cu, new)
  <2> HIDE DEF new
  <2> QED BY <1>3 DEF SameReserves, SameReserve, CuType, ReserveType
<1>5. load > 0 /\ (pool # NoPool => IsReservePoolUsingCu(cu, pool))
  BY DEF CanAllocChan
<1>6. \A j \in Channels : new.channels[j] = IF j = k THEN [client |-> c, pool |-> pool, load |-> load]
                                             ELSE cu.channels[j]
  BY <1>1, <1>3 DEF CuType
<1> HIDE DEF new
<1>7. Takes(cu, new, c)
  BY <1>2, <1>4, <1>5, <1>6 DEF Takes
<1> QED BY <1>7 DEF new

LEMMA ReleaseGivesBack ==
  ASSUME NEW cu \in CuType, CuIndexed(cu), NEW c \in Clients, NEW k \in ChannelsOf(cu, c),
         NEW last \in Nat, LoadsRight(cu, last)
  PROVE  GivesBack(cu, ReleaseChan(cu, c, k), c)
<1> DEFINE new == ReleaseChan(cu, c, k)
           D == IF ChannelsOf(cu, c) = {k} THEN {c} ELSE {}
<1>1. k \in Channels /\ cu.channels[k].client = c
  BY DEF ChannelsOf
<1>2. new.channels = [cu.channels EXCEPT ![k] = FreeChannel]
  BY ReleaseChanSafe
<1>3. SameReserves(cu, new)
  <2> DEFINE K == {k}
             freed == [FreeChannels(cu, K) EXCEPT !.clients = @ \ D]
  <2>1. new = freed /\ K \in SUBSET Channels
    BY <1>1 DEF ReleaseChan
  <2> HIDE DEF new, D, K
  <2>2. \A p \in PoolIds : /\ freed.reserves[p].client = cu.reserves[p].client
                           /\ freed.reserves[p].load = cu.reserves[p].load
    BY <2>1, FreeLoadsRight
  <2> HIDE DEF freed
  <2> QED BY <2>1, <2>2 DEF SameReserves, SameReserve
<1> HIDE DEF new
<1>4. GivesBack(cu, new, c)
  BY <1>1, <1>2, <1>3 DEF GivesBack, CuType
<1> QED BY <1>4 DEF new

(* cu is the CU before the call, mid the CU after what the call has done.  *)
LEMMA ReserveReserves ==
  ASSUME NEW cu \in CuType, NEW mid \in CuType, NEW c \in Clients, NEW pool \in PoolIds,
         NEW load \in 0 .. MaxLoad, ~IsReservePoolUsingCu(cu, pool), Reserves(cu, mid, pool, c)
  PROVE  Reserves(cu, ReserveLoadFromCu(mid, pool, c, load), pool, c)
<1> DEFINE new == ReserveLoadFromCu(mid, pool, c, load)
<1>1. mid.reserves[pool].client \in {NoClient, c}
  BY DEF Reserves, SameReserve, IsReservePoolUsingCu
<1>2. new.channels = cu.channels
  BY ReserveSafe DEF SameChannels, Reserves
<1>3. new.reserves = [mid.reserves EXCEPT ![pool] =
                        IF IsReservePoolUsingCu(mid, pool)
                        THEN [mid.reserves[pool] EXCEPT !.load = mid.reserves[pool].load + load]
                        ELSE [client |-> c, load |-> load, used |-> 0]]
  BY DEF ReserveLoadFromCu, CuType
<1> HIDE DEF new
<1>4. \A p \in PoolIds : p # pool => SameReserve(mid, new, p)
  BY <1>3 DEF SameReserve, CuType
<1>5. new.reserves[pool].client = c
  BY <1>1, <1>3 DEF IsReservePoolUsingCu, CuType, ReserveType
<1>6. Reserves(cu, new, pool, c)
  BY <1>2, <1>4, <1>5 DEF Reserves, SameReserve
<1> QED BY <1>6 DEF new

(* A reservation that is annulled was not there before. *)
LEMMA AnnulReserves ==
  ASSUME NEW cu \in CuType, NEW mid \in CuType, NEW c \in Clients, NEW pool \in PoolIds,
         cu.reserves[pool] = EmptyReserve, Reserves(cu, mid, pool, c)
  PROVE  Reserves(cu, RelinquishOnCu(mid, pool), pool, c)
<1> DEFINE new == RelinquishOnCu(mid, pool)
<1>1. new.channels = cu.channels
  BY RelinquishSafe DEF SameChannels, Reserves
<1>2. new.reserves = [mid.reserves EXCEPT ![pool] = EmptyReserve]
  BY DEF RelinquishOnCu, CuType
<1> HIDE DEF new
<1>3. \A p \in PoolIds : p # pool => SameReserve(mid, new, p)
  BY <1>2 DEF SameReserve, CuType
<1>4. SameReserve(cu, new, pool)
  BY <1>2 DEF SameReserve, CuType
<1>5. Reserves(cu, new, pool, c)
  BY <1>1, <1>3, <1>4 DEF Reserves, SameReserve
<1> QED BY <1>5 DEF new

LEMMA RelinquishRelinquishes ==
  ASSUME NEW cu \in CuType, CuIndexed(cu), NEW last, LoadsRight(cu, last), NEW pool \in PoolIds,
         IsReservePoolUsingCu(cu, pool), cu.reserves[pool].used = 0
  PROVE  Relinquishes(cu, RelinquishOnCu(cu, pool), pool)
<1> DEFINE new == RelinquishOnCu(cu, pool)
           carried == [k \in Channels |-> IF k \in Channels /\ cu.channels[k].pool = pool
                                          THEN cu.channels[k].load ELSE 0]
<1>1. new.channels = cu.channels
  BY RelinquishSafe DEF SameChannels
<1>2. new.reserves = [cu.reserves EXCEPT ![pool] = EmptyReserve]
  BY DEF RelinquishOnCu, CuType
<1>3. ASSUME NEW k \in Channels, cu.channels[k].pool = pool
      PROVE  cu.channels[k] = FreeChannel
  <2>1. SumTo(carried, NumChannels) = 0
    BY SlotsRight DEF LoadIn
  <2>2. /\ NumChannels \in Nat /\ k \in 0 .. (NumChannels - 1)
        /\ \A i \in 0 .. (NumChannels - 1) : carried[i] \in Nat
        /\ carried[k] = cu.channels[k].load /\ cu.channels[k].load \in Nat
    BY <1>3, LoadArrays
  <2> HIDE DEF carried
  <2>3. carried[k] <= SumTo(carried, NumChannels)
    BY <2>2, SumAtLeast
  <2>4. cu.channels[k].load = 0
    BY <2>1, <2>2, <2>3
  <2> QED BY <2>4 DEF CuIndexed, BusyChannels, LoadsRight
<1> HIDE DEF new
<1>4. \A p \in PoolIds : new.reserves[p] = IF p = pool THEN EmptyReserve ELSE cu.reserves[p]
  BY <1>2 DEF CuType
<1>5. Relinquishes(cu, new, pool)
  BY <1>1, <1>3, <1>4 DEF Relinquishes, SameReserve, EmptyReserve
<1> QED BY <1>5 DEF new

LEMMA RecycleForgets ==
  ASSUME NEW cu \in CuType, CuIndexed(cu), NEW last \in Nat, LoadsRight(cu, last),
         NEW C \in SUBSET Clients, NEW gone \in SUBSET C,
         \A k \in Channels : cu.channels[k].client \in C => cu.channels[k].client \in gone
  PROVE  Forgets(cu, ReleaseAllChans(DropReservesOf(cu, C), gone), C)
<1> DEFINE drop == DropReservesOf(cu, C)
           new == ReleaseAllChans(drop, gone)
<1>1. \A p \in PoolIds : drop.reserves[p] = IF cu.reserves[p].client \in C THEN EmptyReserve
                                            ELSE cu.reserves[p]
  BY DEF DropReservesOf, CuType
<1>2. /\ drop \in CuType /\ LoadsRight(drop, last)
      /\ SameChannels(cu, drop) /\ CuIndexed(drop)
  BY DropReservesSafe, DropLoadsRight, SameChannelsIndexed
<1> HIDE DEF drop
<1>3. gone \in SUBSET Clients
  OBVIOUS
<1>4. new.channels = [k \in Channels |-> IF drop.channels[k].client \in gone THEN FreeChannel
                                         ELSE drop.channels[k]]
  BY <1>2, <1>3, ReleaseAllChansSafe
<1>5. \A p \in PoolIds : SameReserve(drop, new, p)
  BY <1>2, ReleaseAllChansRight DEF SameReserve
<1> HIDE DEF new
<1>6. new.channels = [k \in Channels |-> IF cu.channels[k].client \in C THEN FreeChannel
                                         ELSE cu.channels[k]]
  BY <1>2, <1>4 DEF SameChannels
<1>7. Forgets(cu, new, C)
  BY <1>1, <1>5, <1>6 DEF Forgets, SameReserve, EmptyReserve
<1> QED BY <1>7 DEF new, drop

(* Nothing is kept, or forgotten, of what is vacant. *)
LEMMA VacantCu ==
  ASSUME NEW cu \in CuType, NEW last, LoadsRight(cu, last), Vacant(cu)
  PROVE  /\ cu.channels = EmptyCu.channels
         /\ \A p \in PoolIds : cu.reserves[p] = EmptyReserve /\ EmptyCu.reserves[p] = EmptyReserve
<1>1. \A k \in Channels : cu.channels[k] = FreeChannel
  BY DEF Vacant, BusyChannels, LoadsRight
<1>2. \A p \in PoolIds : cu.reserves[p] = EmptyReserve
  BY DEF Vacant, ReservingPools, IsReservePoolUsingCu, LoadsRight
<1> QED BY <1>1, <1>2 DEF EmptyCu, CuType

LEMMA VacantForgets ==
  ASSUME NEW cu \in CuType, NEW last, LoadsRight(cu, last), Vacant(cu), NEW C \in SUBSET Clients
  PROVE  Forgets(cu, cu, C)
<1>1. \A k \in Channels : cu.channels[k].client \notin C
  BY CuAssumption DEF Vacant, BusyChannels
<1>2. \A p \in PoolIds : cu.reserves[p].client \notin C
  BY CuAssumption DEF Vacant, ReservingPools, IsReservePoolUsingCu
<1> QED BY <1>1, <1>2 DEF Forgets, SameReserve, CuType

----------------------------------------------------------------------------
(* What each call does to all CUs. *)
LEMMA CusRight ==
  ASSUME NEW devs, AllInOrder(devs), NEW last, AllRight(devs, last), NEW s \in Slots
  PROVE  /\ CuAt(devs, s) \in CuType /\ CuIndexed(CuAt(devs, s))
         /\ LoadsRight(CuAt(devs, s), last)
BY CusTyped DEF AllInOrder, AllRight, DeviceRight, Slots, CuAt

LEMMA CuUpdated ==
  ASSUME NEW devs, AllInOrder(devs), NEW s \in Slots, NEW cu, NEW t \in Slots
  PROVE  CuAt(UpdateCu(devs, s, cu), t) = IF t = s THEN cu ELSE CuAt(devs, t)
<1>1. /\ s[1] \in Devices /\ s[2] \in CuIds /\ t[1] \in Devices /\ t[2] \in CuIds
      /\ t = s <=> t[1] = s[1] /\ t[2] = s[2]
  BY DEF Slots
<1>2. /\ devs \in [Devices -> DeviceType]
      /\ devs[s[1]].cus \in [CuIds -> CuType]
  BY <1>1 DEF AllInOrder, DeviceType
<1> DEFINE dev == [devs[s[1]] EXCEPT !.cus[s[2]] = cu]
<1>3. UpdateCu(devs, s, cu) = [devs EXCEPT ![s[1]] = dev]
  BY DEF UpdateCu
<1>4. dev.cus = [devs[s[1]].cus EXCEPT ![s[2]] = cu]
  BY <1>1, <1>2 DEF AllInOrder, DeviceType
<1> HIDE DEF dev
<1> QED BY <1>1, <1>2, <1>3, <1>4 DEF CuAt

(* Updating a CU, and what the device says of its clients. *)
LEMMA CuOfDeviceUpdated ==
  ASSUME NEW devs, AllInOrder(devs), NEW s \in Slots, NEW cu, NEW dev, NEW new,
         dev.cus = UpdateCu(devs, s, cu)[s[1]].cus,
         new = [UpdateCu(devs, s, cu) EXCEPT ![s[1]] = dev], NEW t \in Slots
  PROVE  CuAt(new, t) = IF t = s THEN cu ELSE CuAt(devs, t)
<1>1. CuAt(new, t) = CuAt(UpdateCu(devs, s, cu), t)
  BY DEF CuAt, Slots, UpdateCu, AllInOrder
<1> QED BY <1>1, CuUpdated

LEMMA AllocOnCus ==
  ASSUME NEW devs, AllInOrder(devs), NEW s \in Slots, NEW c \in Clients, NEW req, NEW pool,
         NEW excl, NEW t \in Slots
  PROVE  CuAt(AllocOn(devs, s, c, req, pool, excl), t)
           = IF t = s THEN AllocChanClientFromCu(CuAt(devs, s), c, pool, req.load)
             ELSE CuAt(devs, t)
<1> DEFINE cu == AllocChanClientFromCu(CuAt(devs, s), c, pool, req.load)
           mid == UpdateCu(devs, s, cu)
           dev == AllocClientFromDev(mid[s[1]], c, excl)
<1>1. mid[s[1]] = [devs[s[1]] EXCEPT !.cus[s[2]] = cu]
  BY DEF UpdateCu, AllInOrder, Slots
<1>2. dev.cus = mid[s[1]].cus
  <2>1. devs[s[1]] \in DeviceType
    BY DEF AllInOrder, Slots
  <2> HIDE DEF cu, mid
  <2> QED BY <1>1, <2>1 DEF AllocClientFromDev, DeviceType
<1>3. AllocOn(devs, s, c, req, pool, excl) = [mid EXCEPT ![s[1]] = dev]
  <2>1. s[1] \in DOMAIN mid
    BY DEF UpdateCu, AllInOrder, Slots
  <2> QED BY <2>1 DEF AllocOn
<1> HIDE DEF cu, dev
<1>4. CuAt([mid EXCEPT ![s[1]] = dev], t) = IF t = s THEN cu ELSE CuAt(devs, t)
  BY <1>2, CuOfDeviceUpdated
<1> QED BY <1>3, <1>4 DEF cu

LEMMA ReleaseCus ==
  ASSUME NEW devs, AllInOrder(devs), NEW s \in Slots, NEW c \in Clients, NEW k, NEW t \in Slots
  PROVE  CuAt(ResReleaseCu(devs, c, s, k), t)
           = IF t = s THEN ReleaseChan(CuAt(devs, s), c, k) ELSE CuAt(devs, t)
<1> DEFINE cu == ReleaseChan(CuAt(devs, s), c, k)
           mid == UpdateCu(devs, s, cu)
           dev == ReleaseClientOnDev(mid[s[1]], c)
<1>1. mid[s[1]] = [devs[s[1]] EXCEPT !.cus[s[2]] = cu]
  BY DEF UpdateCu, AllInOrder, Slots
<1>2. dev.cus = mid[s[1]].cus
  <2>1. devs[s[1]] \in DeviceType
    BY DEF AllInOrder, Slots
  <2> HIDE DEF cu, mid
  <2> QED BY <1>1, <2>1 DEF ReleaseClientOnDev, DeviceType
<1>3. ResReleaseCu(devs, c, s, k) = [mid EXCEPT ![s[1]] = dev]
  <2>1. s[1] \in DOMAIN mid
    BY DEF UpdateCu, AllInOrder, Slots
  <2> QED BY <2>1 DEF ResReleaseCu
<1> HIDE DEF cu, dev
<1>4. CuAt([mid EXCEPT ![s[1]] = dev], t) = IF t = s THEN cu ELSE CuAt(devs, t)
  BY <1>2, CuOfDeviceUpdated
<1> QED BY <1>3, <1>4 DEF cu

AllTake(devs, new, c) == \A s \in Slots : Takes(CuAt(devs, s), CuAt(new, s), c)

(* A CU the call leaves alone takes nothing, and gives nothing back. *)
LEMMA SameTakes ==
  ASSUME NEW cu, NEW c
  PROVE  Takes(cu, cu, c) /\ GivesBack(cu, cu, c)
BY DEF Takes, GivesBack, SameReserves, SameReserve

LEMMA AllocOnTakes ==
  ASSUME NEW devs, NEW mid, AllInOrder(devs), AllInOrder(mid), NEW last, AllRight(devs, last),
         \A t \in Slots : CuAt(mid, t) = CuAt(devs, t),
         NEW s \in Slots, NEW c \in Clients, NEW req \in Requests,
         NEW pool \in {NoPool} \cup PoolIds, NEW excl \in BOOLEAN,
         CanAllocChan(CuAt(devs, s), pool, req.load)
  PROVE  AllTake(devs, AllocOn(mid, s, c, req, pool, excl), c)
<1> DEFINE cu == CuAt(devs, s)
<1>1. req.load \in 0 .. MaxLoad
  BY DEF Requests
<1>2. cu \in CuType /\ CuIndexed(cu) /\ LoadsRight(cu, last)
  BY CusRight
<1>3. Takes(cu, AllocChanClientFromCu(cu, c, pool, req.load), c)
  BY <1>1, <1>2, AllocTakes
<1>4. \A t \in Slots : CuAt(AllocOn(mid, s, c, req, pool, excl), t)
                          = IF t = s THEN AllocChanClientFromCu(cu, c, pool, req.load)
                            ELSE CuAt(devs, t)
  BY AllocOnCus
<1> QED BY <1>3, <1>4, SameTakes DEF AllTake

LEMMA ProbeAllCus ==
  ASSUME NEW devs, AllInOrder(devs), NEW D, NEW c \in Clients, NEW excl \in BOOLEAN
  PROVE  \A t \in Slots : CuAt(ProbeAll(devs, D, c, excl), t) = CuAt(devs, t)
BY ProbeAllInOrder DEF CuAt, Slots

LEMMA AllocCuTakes ==
  ASSUME NEW devs, AllInOrder(devs), NEW last, AllRight(devs, last), NEW c \in Clients,
         NEW req \in Requests, NEW pool \in {NoPool} \cup PoolIds, NEW excl \in BOOLEAN
  PROVE  AllTake(devs, ResAllocCu(devs, c, req, pool, excl), c)
<1> DEFINE S == AllocCandidates(devs, Devices, c, req, pool, excl)
           s == FirstByAffinity(devs, S)
           probed == ProbeAll(devs, ProbedBefore(devs, s), c, excl)
<1>1. CASE S = {}
  BY <1>1, ProbeAllCus, SameTakes DEF ResAllocCu, AllTake
<1>2. CASE S # {}
  <2>1. S \in SUBSET Slots
    BY DEF AllocCandidates
  <2>2. s \in S
    <3> HIDE DEF S
    <3> QED BY <1>2, <2>1, FirstByAffinityIn
  <2>3. s \in Slots /\ CanAllocChan(CuAt(devs, s), pool, req.load)
    BY <2>2 DEF AllocCandidates
  <2>4. ResAllocCu(devs, c, req, pool, excl) = AllocOn(probed, s, c, req, pool, excl)
    BY <1>2 DEF ResAllocCu
  <2> HIDE DEF S, s
  <2>5. AllInOrder(probed) /\ \A t \in Slots : CuAt(probed, t) = CuAt(devs, t)
    BY ProbeAllInOrder, ProbeAllCus
  <2> HIDE DEF probed
  <2> QED BY <2>3, <2>4, <2>5, AllocOnTakes
<1> QED BY <1>1, <1>2

LEMMA AllocCuFromDevTakes ==
  ASSUME NEW devs, AllInOrder(devs), NEW last, AllRight(devs, last), NEW d \in Devices,
         NEW c \in Clients, NEW req \in Requests, NEW pool \in {NoPool} \cup PoolIds,
         NEW excl \in BOOLEAN
  PROVE  AllTake(devs, ResAllocCuFromDev(devs, d, c, req, pool, excl), c)
<1> DEFINE S == AllocCandidates(devs, {d}, c, req, pool, excl)
           s == FirstByAffinity(devs, S)
<1>1. CASE S = {}
  BY <1>1, ProbeAllCus, SameTakes DEF ResAllocCuFromDev, AllTake
<1>2. CASE S # {}
  <2>1. S \in SUBSET Slots
    BY DEF AllocCandidates
  <2>2. s \in S
    <3> HIDE DEF S
    <3> QED BY <1>2, <2>1, FirstByAffinityIn
  <2>3. s \in Slots /\ CanAllocChan(CuAt(devs, s), pool, req.load)
    BY <2>2 DEF AllocCandidates
  <2>4. ResAllocCuFromDev(devs, d, c, req, pool, excl) = AllocOn(devs, s, c, req, pool, excl)
    BY <1>2 DEF ResAllocCuFromDev
  <2> HIDE DEF S, s
  <2> QED BY <2>3, <2>4, AllocOnTakes
<1> QED BY <1>1, <1>2

LEMMA ReleaseCuGivesBack ==
  ASSUME NEW devs, AllInOrder(devs), NEW last \in Nat, AllRight(devs, last), NEW c \in Clients,
         NEW s \in Slots, NEW k \in Channels, HoldsChannel(devs, c, s, k)
  PROVE  \A t \in Slots : GivesBack(CuAt(devs, t), CuAt(ResReleaseCu(devs, c, s, k), t), c)
<1> DEFINE cu == CuAt(devs, s)
<1>1. cu \in CuType /\ CuIndexed(cu) /\ LoadsRight(cu, last) /\ k \in ChannelsOf(cu, c)
  BY CusRight DEF HoldsChannel, ChannelsOf
<1>2. GivesBack(cu, ReleaseChan(cu, c, k), c)
  BY <1>1, ReleaseGivesBack
<1>3. \A t \in Slots : CuAt(ResReleaseCu(devs, c, s, k), t)
                          = IF t = s THEN ReleaseChan(cu, c, k) ELSE CuAt(devs, t)
  BY ReleaseCus
<1> QED BY <1>2, <1>3, SameTakes

(* devs are the devices before the call, mid those after what it has done. *)
AllReserve(devs, mid, pool, c) ==
    \A s \in Slots : Reserves(CuAt(devs, s), CuAt(mid, s), pool, c)

LEMMA ReserveOnReserves ==
  ASSUME NEW devs, NEW mid, AllInOrder(devs), AllInOrder(mid), NEW pool \in PoolIds,
         NEW c \in Clients, AllReserve(devs, mid, pool, c),
         \A t \in Slots : ~IsReservePoolUsingCu(CuAt(devs, t), pool),
         NEW s \in Slots, NEW req \in Requests
  PROVE  AllReserve(devs, ReserveOn(mid, s, pool, c, req), pool, c)
<1>1. req.load \in 0 .. MaxLoad
  BY DEF Requests
<1>2. CuAt(devs, s) \in CuType /\ CuAt(mid, s) \in CuType
  BY CusTyped DEF AllInOrder, Slots, CuAt
<1>3. Reserves(CuAt(devs, s), ReserveLoadFromCu(CuAt(mid, s), pool, c, req.load), pool, c)
  BY <1>1, <1>2, ReserveReserves DEF AllReserve
<1>4. \A t \in Slots : CuAt(ReserveOn(mid, s, pool, c, req), t)
                          = IF t = s THEN ReserveLoadFromCu(CuAt(mid, s), pool, c, req.load)
                            ELSE CuAt(mid, t)
  BY CuUpdated DEF ReserveOn
<1> QED BY <1>3, <1>4 DEF AllReserve

(* The slots of a pool that are given back reserve what nobody uses.       *)
LEMMA RelinquishedCus ==
  ASSUME NEW devs, AllInOrder(devs), NEW pool \in PoolIds, NEW s \in Slots
  PROVE  LET new == CuAt(ResRelinquishCuPool(devs, pool), s)
             cu == CuAt(devs, s)
         IN  \/ new = cu
             \/ /\ new = RelinquishOnCu(cu, pool)
                /\ IsReservePoolUsingCu(cu, pool)
                /\ cu.reserves[pool].used = 0
<1> DEFINE given == {t \in PoolSlots(devs, pool) :
                       \A u \in UsedPoolSlots(devs, pool) : Before(t, u)}
           new == ResRelinquishCuPool(devs, pool)
<1>1. s = <<s[1], s[2]>> /\ s[1] \in Devices /\ s[2] \in CuIds
  BY DEF Slots
<1>2. new[s[1]].cus[s[2]] = IF <<s[1], s[2]>> \in given
                            THEN RelinquishOnCu(devs[s[1]].cus[s[2]], pool)
                            ELSE devs[s[1]].cus[s[2]]
  BY <1>1 DEF ResRelinquishCuPool, AllInOrder, InOrder, DeviceType
<1>3. s \in given => s \notin UsedPoolSlots(devs, pool)
  BY <1>1, SystemAssumption, DeviceAssumption DEF Before, Devices, CuIds
<1>4. s \in given => /\ IsReservePoolUsingCu(CuAt(devs, s), pool)
                     /\ CuAt(devs, s).reserves[pool].used = 0
  BY <1>3 DEF UsedPoolSlots, PoolSlots
<1> HIDE DEF given, new
<1>5. CuAt(new, s) = IF s \in given THEN RelinquishOnCu(CuAt(devs, s), pool) ELSE CuAt(devs, s)
  BY <1>1, <1>2 DEF CuAt
<1> QED BY <1>4, <1>5 DEF new

LEMMA AnnulledReserves ==
  ASSUME NEW devs, NEW mid, AllInOrder(devs), AllInOrder(mid), NEW last, AllRight(devs, last),
         NEW pool \in PoolIds, NEW c \in Clients, AllReserve(devs, mid, pool, c),
         \A t \in Slots : ~IsReservePoolUsingCu(CuAt(devs, t), pool)
  PROVE  AllReserve(devs, ResRelinquishCuPool(mid, pool), pool, c)
<1>1. ASSUME NEW s \in Slots
      PROVE  Reserves(CuAt(devs, s), CuAt(ResRelinquishCuPool(mid, pool), s), pool, c)
  <2>1. /\ CuAt(devs, s) \in CuType /\ CuAt(mid, s) \in CuType
        /\ LoadsRight(CuAt(devs, s), last)
    BY CusTyped DEF AllInOrder, AllRight, DeviceRight, Slots, CuAt
  <2>2. CuAt(devs, s).reserves[pool] = EmptyReserve
    BY <2>1, SlotsRight
  <2>3. Reserves(CuAt(devs, s), CuAt(mid, s), pool, c)
    BY DEF AllReserve
  <2>4. Reserves(CuAt(devs, s), RelinquishOnCu(CuAt(mid, s), pool), pool, c)
    BY <2>1, <2>2, <2>3, AnnulReserves
  <2> QED BY <2>3, <2>4, RelinquishedCus
<1> QED BY <1>1 DEF AllReserve

LEMMA RelinquishIsRelinquished ==
  ASSUME NEW devs, AllInOrder(devs), NEW last, AllRight(devs, last), NEW pool \in PoolIds
  PROVE  \A s \in Slots :
            Relinquishes(CuAt(devs, s), CuAt(ResRelinquishCuPool(devs, pool), s), pool)
<1>1. ASSUME NEW s \in Slots
      PROVE  Relinquishes(CuAt(devs, s), CuAt(ResRelinquishCuPool(devs, pool), s), pool)
  <2> DEFINE cu == CuAt(devs, s)
             new == CuAt(ResRelinquishCuPool(devs, pool), s)
  <2>1. cu \in CuType /\ CuIndexed(cu) /\ LoadsRight(cu, last)
    BY CusRight
  <2>2. \/ new = cu
        \/ new = RelinquishOnCu(cu, pool) /\ IsReservePoolUsingCu(cu, pool)
             /\ cu.reserves[pool].used = 0
    BY RelinquishedCus
  <2> HIDE DEF cu, new
  <2>3. Relinquishes(cu, cu, pool)
    BY DEF Relinquishes, SameReserve
  <2>4. Relinquishes(cu, new, pool)
    BY <2>1, <2>2, <2>3, RelinquishRelinquishes
  <2> QED BY <2>4 DEF cu, new
<1> QED BY <1>1

----------------------------------------------------------------------------
(* What calls do to all CUs of one device. *)
DeviceKeeps(dev, new) == \A i \in CuIds : Keeps(dev.cus[i], new.cus[i])

DeviceForgets(dev, new, C) == \A i \in CuIds : Forgets(dev.cus[i], new.cus[i], C)

LEMMA SameKeeps ==
  ASSUME NEW dev, NEW new, new.cus = dev.cus
  PROVE  DeviceKeeps(dev, new)
BY DEF DeviceKeeps, Keeps, SameReserves, SameReserve

(* deviceClearInfo resets a device on which nothing is held. *)
LEMMA ClearKeeps ==
  ASSUME NEW dev, InOrder(dev), NEW last \in Nat, DeviceRight(dev, last)
  PROVE  DeviceKeeps(dev, DeviceClearInfo(dev))
<1>1. CASE IsDeviceBusy(dev)
  BY <1>1, SameKeeps DEF DeviceClearInfo
<1>2. CASE ~IsDeviceBusy(dev)
  <2>1. ASSUME NEW i \in CuIds PROVE Keeps(dev.cus[i], EmptyCu)
    <3>1. /\ dev.cus[i] \in CuType /\ LoadsRight(dev.cus[i], last)
          /\ Vacant(dev.cus[i])
      BY <1>2, CusTyped, IdleDeviceVacant DEF DeviceRight
    <3> QED BY <3>1, VacantCu DEF Keeps, SameReserves, SameReserve
  <2>2. \A i \in CuIds : DeviceClearInfo(dev).cus[i] = EmptyCu
    BY <1>2 DEF DeviceClearInfo, InitialDevice
  <2> QED BY <2>1, <2>2 DEF DeviceKeeps
<1> QED BY <1>1, <1>2

LEMMA UnloadedKeeps ==
  ASSUME NEW dev, InOrder(dev), NEW last \in Nat, DeviceRight(dev, last), NEW unlocks
  PROVE  DeviceKeeps(dev, Unloaded(dev, unlocks))
BY ClearKeeps, SameKeeps DEF Unloaded

LEMMA KeepsTwice ==
  ASSUME NEW dev, NEW mid, NEW new, DeviceKeeps(dev, mid), new.cus = mid.cus
  PROVE  DeviceKeeps(dev, new)
BY DEF DeviceKeeps

LEMMA RecycleForgetsDevice ==
  ASSUME NEW dev, InOrder(dev), NEW last \in Nat, DeviceRight(dev, last), NEW C \in SUBSET Clients
  PROVE  DeviceForgets(dev, RecycleOnDevice(dev, C), C)
<1>1. ASSUME NEW i \in CuIds PROVE Forgets(dev.cus[i], RecycleOnDevice(dev, C).cus[i], C)
  <2> DEFINE cu == dev.cus[i]
             gone == C \cap DeviceClients(dev)
  <2>1. cu \in CuType /\ CuIndexed(cu) /\ LoadsRight(cu, last)
    BY CusTyped DEF DeviceRight
  <2>2. CASE ~IsLoaded(dev)
    <3>1. Vacant(cu)
      BY <2>2, UnloadedVacant
    <3> QED BY <2>1, <2>2, <3>1, VacantForgets DEF RecycleOnDevice
  <2>3. CASE IsLoaded(dev)
    <3>1. ASSUME NEW k \in Channels, cu.channels[k].client \in C
          PROVE  cu.channels[k].client \in gone
      <4>1. <<i, k>> \in Held(dev, cu.channels[k].client)
        BY DEF Held
      <4> QED BY <3>1, <4>1, UsesIffHolds DEF InOrder, DeviceClients
    <3>2. RecycleOnDevice(dev, C).cus[i] = ReleaseAllChans(DropReservesOf(cu, C), gone)
      BY <2>3, RecycledCu
    <3>3. gone \in SUBSET C
      OBVIOUS
    <3> HIDE DEF gone, cu
    <3>4. Forgets(cu, ReleaseAllChans(DropReservesOf(cu, C), gone), C)
      BY <2>1, <3>1, <3>3, RecycleForgets
    <3> QED BY <3>2, <3>4 DEF cu
  <2> QED BY <2>2, <2>3
<1> QED BY <1>1 DEF DeviceForgets

LEMMA ForgetsThenKeeps ==
  ASSUME NEW dev, NEW mid, NEW new, NEW C, DeviceForgets(dev, mid, C), DeviceKeeps(mid, new)
  PROVE  DeviceForgets(dev, new, C)
BY DEF DeviceForgets, DeviceKeeps, Forgets, Keeps, SameReserves, SameReserve

(* loadAnyDevice clears and loads only what nobody uses. *)
LEMMA LoadedAnyKeeps ==
  ASSUME NEW devs, AllInOrder(devs), NEW last \in Nat, AllRight(devs, last), NEW x \in Xclbins,
         NEW good, NEW unlocks, NEW opens, NEW d \in Devices
  PROVE  DeviceKeeps(devs[d], LoadedAny(devs, x, good, unlocks, opens)[d])
<1> DEFINE cleared == DeviceClearInfo(devs[d])
           missed == Opened(cleared, ~devs[d].isDisabled /\ d \in opens)
           new == LoadedAny(devs, x, good, unlocks, opens)[d]
<1>1. new \in {missed, devs[d], LoadedWith(devs[d], x), LoadedWith(cleared, x)}
  BY DEF LoadedAny
<1>2. InOrder(devs[d]) /\ DeviceKeeps(devs[d], devs[d])
  BY SameKeeps DEF AllInOrder
<1>3. InOrder(cleared) /\ DeviceKeeps(devs[d], cleared)
  BY <1>2, ClearInfoInOrder, ClearKeeps DEF AllRight
<1>4. /\ LoadedWith(devs[d], x).cus = devs[d].cus
      /\ LoadedWith(cleared, x).cus = cleared.cus
      /\ missed.cus = cleared.cus
  BY <1>2, <1>3 DEF LoadedWith, Opened, InOrder, DeviceType
<1> HIDE DEF new, missed, cleared
<1>5. DeviceKeeps(devs[d], new)
  BY <1>1, <1>2, <1>3, <1>4, KeepsTwice
<1> QED BY <1>5 DEF new

----------------------------------------------------------------------------
(* The steps of the ledger that calls are.                                 *)

(* A step of one device, of all of them, or of none, that keeps every CU.  *)
LEMMA DevicesKeep ==
  ASSUME \A d \in Devices : DeviceKeeps(devList[d], devList'[d])
  PROVE  UNCHANGED Ledger!vars
<1>1. \A s \in Slots : Keeps(CuAt(devList, s), CuAt(devList', s))
  BY DEF DeviceKeeps, Slots, CuAt
<1> QED BY <1>1, KeepIsStutter

LEMMA OneDeviceKeeps ==
  ASSUME AllInOrder(devList), NEW d \in Devices, NEW dev, DeviceKeeps(devList[d], dev),
         devList' = [devList EXCEPT ![d] = dev]
  PROVE  UNCHANGED Ledger!vars
<1>1. \A e \in Devices : DeviceKeeps(devList[e], devList'[e])
  BY SameKeeps DEF AllInOrder
<1> QED BY <1>1, DevicesKeep

(* The clients in C are forgotten on every device. *)
LEMMA DevicesForget ==
  ASSUME NEW C \in SUBSET Clients,
         \A d \in Devices : DeviceForgets(devList[d], devList'[d], C)
  PROVE  Ledger!Forget(C)
<1>1. \A s \in Slots : Forgets(CuAt(devList, s), CuAt(devList', s), C)
  BY DEF DeviceForgets, Slots, CuAt
<1> QED BY <1>1, ForgetIsStep

(* Whatever a call makes of a new pool reserves for its client alone.      *)
LEMMA PoolReserved ==
  ASSUME AllInOrder(devList), reservePoolId \in Nat, AllRight(devList, reservePoolId),
         NEW pool \in PoolIds, pool = reservePoolId + 1
  PROVE  /\ NowhereCarried(devList, pool)
         /\ \A s \in Slots : ~IsReservePoolUsingCu(CuAt(devList, s), pool)
         /\ \A c \in Clients : /\ AllReserve(devList, devList, pool, c)
                               /\ AllReserve(devList, devList', pool, c)
                                     => Ledger!Reserve(pool, c)
<1>1. NowhereCarried(devList, pool)
  BY NextPoolId
<1>2. ASSUME NEW s \in Slots PROVE ~IsReservePoolUsingCu(CuAt(devList, s), pool)
  BY CusRight DEF LoadsRight, IsReservePoolUsingCu
<1>3. \A c \in Clients : AllReserve(devList, devList, pool, c)
  BY DEF AllReserve, Reserves, SameReserve
<1>4. \A c \in Clients : AllReserve(devList, devList', pool, c) => Ledger!Reserve(pool, c)
  BY <1>1, <1>2, ReserveIsStep DEF AllReserve
<1> QED BY <1>1, <1>2, <1>3, <1>4

LedgerStep ==
    \/ \E c \in Clients : Ledger!Take(c) \/ Ledger!GiveBack(c)
    \/ \E p \in PoolIds : Ledger!Relinquish(p) \/ \E c \in Clients : Ledger!Reserve(p, c)
    \/ \E C \in SUBSET Clients : Ledger!Forget(C)

(* One step per call. *)
LEMMA CallsAreSteps ==
  ASSUME AllInOrder(devList), AllInOrder(devList'), reservePoolId \in 0 .. MaxPool,
         AllRight(devList, reservePoolId), Next
  PROVE  LedgerStep \/ UNCHANGED Ledger!vars
<1> DEFINE Goal == LedgerStep \/ UNCHANGED Ledger!vars
<1>0. /\ reservePoolId \in Nat
      /\ \A d \in Devices : InOrder(devList[d]) /\ DeviceRight(devList[d], reservePoolId)
  BY CuAssumption DEF AllInOrder, AllRight
<1>1. ASSUME NEW c \in Clients, NEW req \in Requests, NEW pool \in {NoPool} \cup PoolIds,
             NEW excl \in BOOLEAN, AllocCu(c, req, pool, excl)
      PROVE  Goal
  <2>1. AllTake(devList, devList', c)
    BY <1>1, AllocCuTakes DEF AllocCu
  <2> QED BY <2>1, TakeIsStep DEF AllTake, LedgerStep
<1>2. ASSUME NEW c \in Clients, NEW req \in Requests, NEW pool \in {NoPool} \cup PoolIds,
             NEW excl \in BOOLEAN, NEW d \in Devices, AllocCuFromDev(d, c, req, pool, excl)
      PROVE  Goal
  <2>1. AllTake(devList, devList', c)
    BY <1>2, AllocCuFromDevTakes DEF AllocCuFromDev
  <2> QED BY <2>1, TakeIsStep DEF AllTake, LedgerStep
<1>3. ASSUME NEW c \in Clients, NEW s \in Slots, NEW k \in Channels, ReleaseCu(c, s, k)
      PROVE  Goal
  <2>1. \A t \in Slots : GivesBack(CuAt(devList, t), CuAt(devList', t), c)
    BY <1>0, <1>3, ReleaseCuGivesBack DEF ReleaseCu
  <2> QED BY <2>1, GiveBackIsStep DEF LedgerStep
<1>4. ASSUME NEW c \in Clients, NEW req \in Requests, ReserveCuPool(c, req)
      PROVE  Goal
  <2> DEFINE pool == reservePoolId + 1
             S == ReserveCandidates(devList, pool, c, req)
             s == FirstByAffinity(devList, S)
  <2>1. S # {} /\ S \in SUBSET Slots /\ pool \in PoolIds
    BY <1>4 DEF ReserveCuPool, ReserveCandidates
  <2>2. devList' = ReserveOn(devList, s, pool, c, req) /\ pool = reservePoolId + 1
    BY <1>4 DEF ReserveCuPool
  <2>3. s \in Slots
    <3> HIDE DEF S, pool
    <3> QED BY <2>1, FirstByAffinityIn
  <2> HIDE DEF S, s, pool
  <2>4. AllReserve(devList, devList', pool, c)
    BY <1>0, <2>1, <2>2, <2>3, PoolReserved, ReserveOnReserves
  <2> QED BY <1>0, <2>1, <2>2, <2>4, PoolReserved DEF LedgerStep
<1>5. ASSUME NEW c \in Clients, NEW req1 \in Requests, NEW req2 \in Requests,
             ReserveCuPoolOfTwo(c, req1, req2)
      PROVE  Goal
  <2> DEFINE pool == reservePoolId + 1
             S1 == ReserveCandidates(devList, pool, c, req1)
             s1 == FirstByAffinity(devList, S1)
             one == ReserveOn(devList, s1, pool, c, req1)
             S2 == ReserveCandidates(one, pool, c, req2)
             s2 == FirstByAffinity(one, S2)
  <2>1. S1 # {} /\ S1 \in SUBSET Slots /\ S2 \in SUBSET Slots /\ pool \in PoolIds
    BY <1>5 DEF ReserveCuPoolOfTwo, ReserveCandidates
  <2>2. /\ \/ S2 # {} /\ devList' = ReserveOn(one, s2, pool, c, req2)
           \/ devList' = ResRelinquishCuPool(one, pool)
        /\ pool = reservePoolId + 1
    BY <1>5 DEF ReserveCuPoolOfTwo
  <2>3. s1 \in Slots
    <3> HIDE DEF S1, pool
    <3> QED BY <2>1, FirstByAffinityIn
  <2>4. S2 # {} => s2 \in Slots
    <3> HIDE DEF S2, one
    <3> QED BY <2>1, FirstByAffinityIn
  <2> HIDE DEF S1, s1, S2, s2, pool
  <2>5. AllInOrder(one) /\ AllReserve(devList, one, pool, c)
    BY <1>0, <2>1, <2>2, <2>3, PoolReserved, ReserveOnInOrder, ReserveOnReserves
  <2> HIDE DEF one
  <2>6. AllReserve(devList, devList', pool, c)
    BY <1>0, <2>1, <2>2, <2>4, <2>5, PoolReserved, ReserveOnReserves, AnnulledReserves
  <2> QED BY <1>0, <2>1, <2>2, <2>6, PoolReserved DEF LedgerStep
<1>6. ASSUME NEW pool \in PoolIds, RelinquishCuPool(pool)
      PROVE  Goal
  <2>1. \A s \in Slots : Relinquishes(CuAt(devList, s), CuAt(devList', s), pool)
    BY <1>6, RelinquishIsRelinquished DEF RelinquishCuPool
  <2> QED BY <2>1, RelinquishIsStep DEF LedgerStep
<1>7. ASSUME NEW c \in Clients, RecycleResource(c)
      PROVE  Goal
  <2> DEFINE C == {c}
  <2>1. C \in SUBSET Clients /\ devList' = Recycled(devList, C)
    BY <1>7 DEF RecycleResource
  <2> HIDE DEF C
  <2>2. \A d \in Devices : DeviceForgets(devList[d], devList'[d], C)
    BY <1>0, <2>1, RecycleForgetsDevice DEF Recycled
  <2> QED BY <2>1, <2>2, DevicesForget DEF LedgerStep
<1>8. ASSUME NEW d \in Devices, NEW x \in Xclbins, NEW opens \in BOOLEAN, NEW ok \in BOOLEAN,
             LoadXclbin(d, x, opens, ok)
      PROVE  Goal
  <2> DEFINE dev == Opened(devList[d], opens)
             new == IF ok /\ dev.open THEN LoadedWith(dev, x) ELSE DeviceClearInfo(dev)
  <2>1. devList' = [devList EXCEPT ![d] = new]
    BY <1>8 DEF LoadXclbin
  <2>2. InOrder(dev) /\ DeviceRight(dev, reservePoolId) /\ dev.cus = devList[d].cus
    BY <1>0, OpenedInOrder, HandleRight
  <2> HIDE DEF dev
  <2>3. DeviceKeeps(dev, DeviceClearInfo(dev)) /\ LoadedWith(dev, x).cus = dev.cus
    BY <1>0, <2>2, ClearKeeps DEF LoadedWith, InOrder, DeviceType
  <2>4. DeviceKeeps(devList[d], new)
    BY <2>2, <2>3, SameKeeps DEF DeviceKeeps
  <2> HIDE DEF new
  <2> QED BY <2>1, <2>4, OneDeviceKeeps
<1>9. ASSUME NEW d \in Devices, NEW unlocks \in BOOLEAN, UnloadDevice(d, unlocks)
      PROVE  Goal
  BY <1>0, <1>9, UnloadedKeeps, OneDeviceKeeps DEF UnloadDevice
<1>10. ASSUME NEW d \in Devices, EnableDevice(d)
       PROVE  Goal
  <2> DEFINE new == [devList[d] EXCEPT !.isDisabled = FALSE]
  <2>1. devList' = [devList EXCEPT ![d] = new]
    BY <1>10 DEF EnableDevice
  <2>2. new.cus = devList[d].cus
    BY <1>0 DEF InOrder, DeviceType
  <2> HIDE DEF new
  <2> QED BY <2>1, <2>2, SameKeeps, OneDeviceKeeps
<1>11. ASSUME NEW d \in Devices, NEW unlocks \in BOOLEAN, DisableDevice(d, unlocks)
       PROVE  Goal
  <2> DEFINE dev == IF IsLoaded(devList[d]) THEN DeviceClearInfo(devList[d]) ELSE devList[d]
             new == [dev EXCEPT !.isDisabled = TRUE]
  <2>1. devList' = [devList EXCEPT ![d] = new]
    BY <1>11 DEF DisableDevice
  <2>2. InOrder(dev) /\ DeviceKeeps(devList[d], dev)
    BY <1>0, ClearInfoInOrder, ClearKeeps, SameKeeps
  <2> HIDE DEF dev
  <2>3. new.cus = dev.cus
    BY <2>2 DEF InOrder, DeviceType
  <2> HIDE DEF new
  <2> QED BY <2>1, <2>2, <2>3, KeepsTwice, OneDeviceKeeps
<1>12. ASSUME NEW d \in Devices, NEW unlocks \in BOOLEAN, ResetDevice(d, unlocks)
       PROVE  Goal
  <2> DEFINE C == DeviceClients(devList[d])
             rest == Recycled(devList, C)
             dev == Unloaded(rest[d], unlocks)
             new == [dev EXCEPT !.open = FALSE]
  <2>1. devList' = [rest EXCEPT ![d] = new]
    BY <1>12 DEF ResetDevice
  <2>2. C \in SUBSET Clients
    BY DEF DeviceClients
  <2> HIDE DEF C
  <2>3. /\ AllInOrder(rest) /\ AllRight(rest, reservePoolId)
        /\ \A e \in Devices : DeviceForgets(devList[e], rest[e], C)
    BY <1>0, <2>2, RecycledInOrder, RecycledRight, RecycleForgetsDevice DEF Recycled
  <2> HIDE DEF rest
  <2>4. InOrder(dev) /\ DeviceKeeps(rest[d], dev)
    BY <1>0, <2>3, UnloadedInOrder, UnloadedKeeps DEF AllInOrder, AllRight
  <2> HIDE DEF dev
  <2>5. new.cus = dev.cus
    BY <2>4 DEF InOrder, DeviceType
  <2> HIDE DEF new
  <2>6. DeviceForgets(devList[d], new, C)
    BY <2>3, <2>4, <2>5, KeepsTwice, ForgetsThenKeeps
  <2>7. \A e \in Devices : DeviceForgets(devList[e], devList'[e], C)
    BY <2>1, <2>3, <2>6 DEF AllInOrder
  <2> QED BY <2>2, <2>7, DevicesForget DEF LedgerStep
<1>13. ASSUME NEW x \in Xclbins, NEW good \in SUBSET Devices, NEW unlocks \in SUBSET Devices,
              NEW opens \in SUBSET Devices, LoadAnyDevice(x, good, unlocks, opens)
       PROVE  Goal
  BY <1>0, <1>13, LoadedAnyKeeps, DevicesKeep DEF LoadAnyDevice
<1>14. CASE \E c \in Clients : ClientCall(c)
  BY <1>1, <1>2, <1>3, <1>4, <1>5, <1>7, <1>14 DEF ClientCall
<1>15. CASE \E d \in Devices : DeviceCall(d)
  BY <1>8, <1>9, <1>10, <1>11, <1>12, <1>15 DEF DeviceCall
<1> QED BY <1>6, <1>13, <1>14, <1>15 DEF Next

(* At the start nothing is held. *)
LEMMA InitIsEmpty == Init => Ledger!Init
<1> SUFFICES ASSUME Init PROVE Ledger!Init
  OBVIOUS
<1>1. ASSUME NEW s \in Slots PROVE CuAt(devList, s) = EmptyCu
  BY DEF Init, InitialDevice, Slots, CuAt
<1>2. ASSUME NEW s \in Slots
      PROVE  /\ GrantsOn(s) = [t \in Channels |-> FreeChannel]
             /\ ReservedOn(s) = [p \in PoolIds |-> [client |-> NoClient, load |-> 0]]
  BY <1>1 DEF GrantsOn, ReservedOn, EmptyCu, EmptyReserve
<1> QED BY <1>2, LedgerNames DEF Ledger!Init

(* Whatever clients, administrators and the reset worker call, and in      *)
(* whatever order, every call does what one step of the ledger allows, and *)
(* no CU is promised beyond its capacity.                                  *)
THEOREM LedgerImplemented == Spec => ImplementsLedger
<1>1. IInv /\ IInv' /\ [Next]_vars => [Ledger!Next]_(Ledger!vars)
  <2> SUFFICES ASSUME IInv, IInv', [Next]_vars
               PROVE  Ledger!Next \/ UNCHANGED Ledger!vars
    OBVIOUS
  <2>1. /\ AllInOrder(devList) /\ reservePoolId \in 0 .. MaxPool
        /\ AllRight(devList, reservePoolId)
    BY IInvIsRight
  <2>2. AllInOrder(devList')
    <3>1. IInv' => AllInOrder(devList)'
      BY IInvIsRight, PTL
    <3> QED BY <3>1 DEF AllInOrder
  <2>3. Ledger!Sound'
    <3>1. (IInv => Ledger!Sound)'
      BY LedgerSound, PTL
    <3> QED BY <3>1
  <2>4. CASE Next
    <3>1. LedgerStep \/ UNCHANGED Ledger!vars
      BY <2>1, <2>2, <2>4, CallsAreSteps
    <3> QED BY <2>3, <3>1, LedgerNames DEF LedgerStep, Ledger!Next
  <2>5. CASE UNCHANGED vars
    <3>1. \A d \in Devices : DeviceKeeps(devList[d], devList'[d])
      BY <2>5, SameKeeps DEF vars
    <3> QED BY <3>1, DevicesKeep
  <2> QED BY <2>4, <2>5
<1> QED BY <1>1, InitIsEmpty, IInvInvariant, PTL DEF Spec, ImplementsLedger, Ledger!Spec

----------------------------------------------------------------------------
(* Forgetting clients one after another.                                   *)

(* The books of a CU that is in order follow from what is held of it.      *)
LEMMA SameBooks ==
  ASSUME NEW cu \in CuType, NEW new \in CuType, CuIndexed(cu), CuIndexed(new), NEW last,
         LoadsRight(cu, last), LoadsRight(new, last), Keeps(cu, new)
  PROVE  new = cu
<1>1. new.channels = cu.channels
  BY DEF Keeps
<1>2. \A p \in PoolIds : IsReservePoolUsingCu(new, p) <=> IsReservePoolUsingCu(cu, p)
  BY DEF Keeps, SameReserves, SameReserve, IsReservePoolUsingCu
<1>3. new.numChanInuse = cu.numChanInuse /\ new.clients = cu.clients
  BY <1>1 DEF CuIndexed, BusyChannels
<1>4. AllReserved(new) = AllReserved(cu)
  BY ReservesSame DEF Keeps, SameReserves, SameReserve
<1>5. /\ \A p : LoadIn(new, Channels, p) = LoadIn(cu, Channels, p)
      /\ UnpooledLoad(new, Channels) = UnpooledLoad(cu, Channels)
  <2>1. \A q : IsReservePoolUsingCu(new, q) <=> IsReservePoolUsingCu(cu, q)
    BY <1>2 DEF IsReservePoolUsingCu
  <2> QED BY <1>1, <2>1, LoadsUnchanged
<1>6. new.totalUsed = cu.totalUsed /\ new.totalReserved = cu.totalReserved
  BY <1>4, <1>5 DEF LoadsRight, CuBalanced
<1>7. ASSUME NEW p \in PoolIds PROVE new.reserves[p] = cu.reserves[p]
  <2>1. /\ new.reserves[p] \in ReserveType /\ cu.reserves[p] \in ReserveType
        /\ new.reserves[p].client = cu.reserves[p].client
        /\ new.reserves[p].load = cu.reserves[p].load
    BY DEF Keeps, SameReserves, SameReserve, CuType
  <2>2. new.reserves[p].used = cu.reserves[p].used
    <3>1. CASE IsReservePoolUsingCu(cu, p)
      BY <1>2, <1>5, <3>1, SlotsRight
    <3>2. CASE ~IsReservePoolUsingCu(cu, p)
      BY <1>2, <3>2, SlotsRight
    <3> QED BY <3>1, <3>2
  <2> QED BY <2>1, <2>2 DEF ReserveType
<1>8. new.reserves = cu.reserves
  BY <1>7 DEF CuType
<1> QED BY <1>1, <1>3, <1>6, <1>8 DEF CuType

(* Forgetting first some clients and then others forgets them all.         *)
LEMMA ForgetsInTurn ==
  ASSUME NEW cu \in CuType, NEW mid, NEW new, NEW all, NEW A \in SUBSET Clients,
         NEW B \in SUBSET Clients,
         Forgets(cu, mid, A), Forgets(mid, new, B), Forgets(cu, all, A \cup B)
  PROVE  Keeps(new, all)
<1>1. ASSUME NEW k \in Channels PROVE all.channels[k] = new.channels[k]
  BY DEF Forgets, FreeChannel
<1>2. all.channels = new.channels
  BY <1>1 DEF Forgets
<1>3. ASSUME NEW p \in PoolIds PROVE SameReserve(new, all, p)
  BY CuAssumption DEF Forgets, SameReserve
<1> QED BY <1>2, <1>3 DEF Keeps, SameReserves

LEMMA RecycleFields ==
  ASSUME NEW dev, InOrder(dev), IsLoaded(dev), NEW C
  PROVE  LET new == RecycleOnDevice(dev, C)
             gone == C \cap DeviceClients(dev)
         IN  /\ new.xclbin = dev.xclbin /\ new.isDisabled = dev.isDisabled
             /\ new.open = dev.open
             /\ new.isExcl = (dev.isExcl /\ gone = {})
             /\ new.procs = [c \in Clients |-> IF c \in gone THEN 0 ELSE dev.procs[c]]
BY DEF RecycleOnDevice, InOrder, DeviceType

LEMMA RecycleInTurn ==
  ASSUME NEW dev, InOrder(dev), NEW last \in Nat, DeviceRight(dev, last),
         NEW A \in SUBSET Clients, NEW B \in SUBSET Clients
  PROVE  RecycleOnDevice(dev, A \cup B) = RecycleOnDevice(RecycleOnDevice(dev, A), B)
<1>1. CASE ~IsLoaded(dev)
  BY <1>1 DEF RecycleOnDevice
<1>2. CASE IsLoaded(dev)
  <2> DEFINE C == A \cup B
             mid == RecycleOnDevice(dev, A)
             new == RecycleOnDevice(mid, B)
             all == RecycleOnDevice(dev, C)
  <2>1. C \in SUBSET Clients /\ C = A \cup B
    OBVIOUS
  <2> HIDE DEF C
  <2>2. /\ InOrder(mid) /\ DeviceRight(mid, last) /\ DeviceForgets(dev, mid, A)
        /\ InOrder(all) /\ DeviceRight(all, last) /\ DeviceForgets(dev, all, C)
    BY <2>1, RecycleInOrder, RecycleRight, RecycleForgetsDevice
  <2>3. IsLoaded(mid)
    BY <1>2, RecycleFields DEF IsLoaded
  <2> DEFINE goneA == A \cap DeviceClients(dev)
             goneB == B \cap DeviceClients(mid)
             gone == C \cap DeviceClients(dev)
  <2>4. /\ mid.xclbin = dev.xclbin /\ mid.isDisabled = dev.isDisabled /\ mid.open = dev.open
        /\ mid.isExcl = (dev.isExcl /\ goneA = {})
        /\ mid.procs = [c \in Clients |-> IF c \in goneA THEN 0 ELSE dev.procs[c]]
        /\ all.xclbin = dev.xclbin /\ all.isDisabled = dev.isDisabled /\ all.open = dev.open
        /\ all.isExcl = (dev.isExcl /\ gone = {})
        /\ all.procs = [c \in Clients |-> IF c \in gone THEN 0 ELSE dev.procs[c]]
    BY <1>2, RecycleFields
  <2> HIDE DEF mid, all
  <2>5. InOrder(new) /\ DeviceRight(new, last) /\ DeviceForgets(mid, new, B)
    BY <2>2, RecycleInOrder, RecycleRight, RecycleForgetsDevice
  <2>6. /\ new.xclbin = mid.xclbin /\ new.isDisabled = mid.isDisabled /\ new.open = mid.open
        /\ new.isExcl = (mid.isExcl /\ goneB = {})
        /\ new.procs = [c \in Clients |-> IF c \in goneB THEN 0 ELSE mid.procs[c]]
    BY <2>2, <2>3, RecycleFields
  <2> HIDE DEF new
  <2>7. dev.isExcl \in BOOLEAN /\ dev.procs \in [Clients -> Nat]
    BY DEF InOrder, DeviceType
  <2>8. \A c \in Clients : /\ c \in goneB <=> c \in B /\ mid.procs[c] > 0
                           /\ c \in goneA <=> c \in A /\ dev.procs[c] > 0
                           /\ c \in gone <=> c \in C /\ dev.procs[c] > 0
    BY DEF DeviceClients, UsesDevice
  <2>9. goneA \subseteq Clients /\ goneB \subseteq Clients /\ gone \subseteq Clients
    BY DEF DeviceClients
  <2> HIDE DEF goneA, goneB, gone
  <2>10. \A c \in Clients : c \in gone <=> c \in goneA \/ c \in goneB
    BY <2>1, <2>4, <2>7, <2>8
  <2>11. all.procs = new.procs
    BY <2>4, <2>6, <2>10
  <2>12. gone = {} <=> goneA = {} /\ goneB = {}
    BY <2>9, <2>10
  <2>13. all.isExcl = new.isExcl
    BY <2>4, <2>6, <2>7, <2>12
  <2>14. ASSUME NEW i \in CuIds PROVE all.cus[i] = new.cus[i]
    <3>1. /\ dev.cus[i] \in CuType
          /\ new.cus[i] \in CuType /\ CuIndexed(new.cus[i]) /\ LoadsRight(new.cus[i], last)
          /\ all.cus[i] \in CuType /\ CuIndexed(all.cus[i]) /\ LoadsRight(all.cus[i], last)
      BY <2>2, <2>5, CusTyped DEF DeviceRight
    <3>2. Keeps(new.cus[i], all.cus[i])
      BY <2>1, <2>2, <2>5, <3>1, ForgetsInTurn DEF DeviceForgets
    <3> QED BY <3>1, <3>2, SameBooks
  <2>15. all \in DeviceType /\ new \in DeviceType
    BY <2>2, <2>5 DEF InOrder
  <2>16. all.cus = new.cus
    BY <2>14, <2>15 DEF DeviceType
  <2>17. all = new
    BY <2>4, <2>6, <2>11, <2>13, <2>15, <2>16 DEF DeviceType
  <2> QED BY <2>17 DEF all, new, mid, C
<1> QED BY <1>1, <1>2

(* A reset that recycles its clients one after another leaves the device   *)
(* as recycling them at once would, whoever holds load of whose pool.      *)
THEOREM RecyclingInAnyOrder == Spec => []RecycleOrderIrrelevant
<1>1. IInv => RecycleOrderIrrelevant
  <2> SUFFICES ASSUME IInv, NEW d \in Devices, NEW a \in Clients, NEW b \in Clients
               PROVE  RecycleOnDevice(devList[d], {a, b})
                        = RecycleOnDevice(RecycleOnDevice(devList[d], {a}), {b})
    BY DEF RecycleOrderIrrelevant
  <2>1. InOrder(devList[d]) /\ DeviceRight(devList[d], reservePoolId) /\ reservePoolId \in Nat
    BY IInvIsRight, CuAssumption DEF AllInOrder, AllRight
  <2> DEFINE A == {a}
             B == {b}
  <2>2. A \in SUBSET Clients /\ B \in SUBSET Clients /\ A \cup B = {a, b}
    OBVIOUS
  <2> HIDE DEF A, B
  <2>3. RecycleOnDevice(devList[d], A \cup B)
          = RecycleOnDevice(RecycleOnDevice(devList[d], A), B)
    BY <2>1, <2>2, RecycleInTurn
  <2> QED BY <2>2, <2>3 DEF A, B
<1> QED BY <1>1, IInvInvariant, PTL

=============================================================================
