---------------------------- MODULE XrmCuProofs ----------------------------
(***************************************************************************)
(* What the operators of XrmCu preserve: that a CU is a CU (CuType); that  *)
(* numChanInuse and clients say what its channels say (CuIndexed); and     *)
(* that the counters of its load are what its channels and reservations    *)
(* add up to (CuBalanced), within its capacity (CuWithinCapacity).         *)
(***************************************************************************)
EXTENDS XrmCu, XrmSumProofs, FiniteSetTheorems

USE DEF NoPool

(* Sets of channels are finite. *)
LEMMA ChannelsFinite ==
  ASSUME NEW K \in SUBSET Channels
  PROVE  IsFiniteSet(K) /\ Cardinality(K) \in Nat
<1>1. IsFiniteSet(Channels)
  BY CuAssumption, FS_Interval DEF Channels
<1> QED BY <1>1, FS_Subset, FS_CardinalityType

(* The channels in use can be counted (numChanInuse counts them). *)
LEMMA BusyFinite ==
  ASSUME NEW cu \in CuType
  PROVE  IsFiniteSet(BusyChannels(cu)) /\ Cardinality(BusyChannels(cu)) \in Nat
BY ChannelsFinite DEF BusyChannels

(* The loads the operators sum up are integers, whatever the channels. *)
LEMMA LoadInType ==
  ASSUME NEW cu \in CuType, NEW K, NEW p
  PROVE  LoadIn(cu, K, p) \in Int /\ UnpooledLoad(cu, K) \in Int
<1>1. \A k \in Channels : cu.channels[k].load \in Int
  BY DEF CuType, ChannelType
<1>2. NumChannels \in Nat /\ Channels = 0 .. (NumChannels - 1)
  BY CuAssumption DEF Channels
<1>3. LoadIn(cu, K, p) \in Int
  <2> DEFINE f == [k \in Channels |-> IF k \in K /\ cu.channels[k].pool = p
                                      THEN cu.channels[k].load ELSE 0]
  <2>1. \A k \in 0 .. (NumChannels - 1) : f[k] \in Int
    BY <1>1, <1>2
  <2> HIDE DEF f
  <2>2. SumTo(f, NumChannels) \in Int
    BY <1>2, <2>1, SumType
  <2> QED BY <2>2 DEF LoadIn, f
<1>4. UnpooledLoad(cu, K) \in Int
  <2> DEFINE f == [k \in Channels |->
                     IF k \in K /\ ~IsReservePoolUsingCu(cu, cu.channels[k].pool)
                     THEN cu.channels[k].load ELSE 0]
  <2>1. \A k \in 0 .. (NumChannels - 1) : f[k] \in Int
    BY <1>1, <1>2
  <2> HIDE DEF f
  <2>2. SumTo(f, NumChannels) \in Int
    BY <1>2, <2>1, SumType
  <2> QED BY <2>2 DEF UnpooledLoad, f
<1> QED BY <1>3, <1>4

----------------------------------------------------------------------------
(* The channel allocChanClientFromCu takes is free: with no channel in use *)
(* any is, and otherwise cuFindFreeChannelId finds one.                    *)
LEMMA ChannelForIsFree ==
  ASSUME NEW cu \in CuType, CuIndexed(cu), HasFreeChannel(cu)
  PROVE  /\ ChannelFor(cu) \in Channels
         /\ ChannelFor(cu) \notin BusyChannels(cu)
<1>1. CASE cu.numChanInuse = 0
  <2>1. BusyChannels(cu) = {}
    BY <1>1, BusyFinite, FS_EmptySet DEF CuIndexed
  <2>2. 0 \in Channels
    BY CuAssumption DEF Channels
  <2> QED BY <1>1, <2>1, <2>2 DEF ChannelFor
<1>2. CASE cu.numChanInuse # 0
  <2> DEFINE T == {k \in Channels : cu.channels[k].load = 0}
  <2>1. T # {} /\ T \in SUBSET Nat
    BY <1>2, CuAssumption DEF HasFreeChannel, Channels
  <2>2. PICK k \in T : \A j \in T : k <= j
    <3> HIDE DEF T
    <3> QED BY <2>1, LeastElement
  <2>3. /\ ChannelFor(cu) \in Channels
        /\ cu.channels[ChannelFor(cu)].load = 0
    BY <1>2, <2>2 DEF ChannelFor
  <2> QED BY <2>3 DEF CuIndexed
<1> QED BY <1>1, <1>2

(* allocChanClientFromCu leaves the fields of the CU in their ranges. *)
LEMMA AllocChanType ==
  ASSUME NEW cu \in CuType, NEW c \in Clients, NEW pool \in {NoPool} \cup PoolIds,
         NEW load \in 0 .. MaxLoad
  PROVE  AllocChanClientFromCu(cu, c, pool, load) \in CuType
<1> DEFINE new == AllocChanClientFromCu(cu, c, pool, load)
           ch == [client |-> c, pool |-> pool, load |-> load]
<1>1. ch \in ChannelType
  BY DEF ChannelType
<1>2. [cu.channels EXCEPT ![ChannelFor(cu)] = ch] \in [Channels -> ChannelType]
  BY <1>1 DEF CuType
<1>3. load \in Int
  BY CuAssumption
<1>4. ASSUME pool # NoPool
      PROVE  [cu.reserves EXCEPT ![pool].used = @ + load] \in [PoolIds -> ReserveType]
  BY <1>3, <1>4 DEF CuType, ReserveType
<1>5. /\ cu.numChanInuse + 1 \in Int
      /\ cu.clients \cup {c} \in SUBSET Clients
      /\ cu.totalUsed + load \in Int
  BY <1>3 DEF CuType
<1>6. cu.reserves \in [PoolIds -> ReserveType] /\ cu.totalUsed \in Int
  BY DEF CuType
<1>7. \A chans \in [Channels -> ChannelType], n \in Int, cls \in SUBSET Clients,
         res \in [PoolIds -> ReserveType], u \in Int :
         [cu EXCEPT !.channels = chans, !.numChanInuse = n, !.clients = cls,
                    !.reserves = res, !.totalUsed = u] \in CuType
  BY DEF CuType
<1>8. new = [cu EXCEPT !.channels = [cu.channels EXCEPT ![ChannelFor(cu)] = ch],
                       !.numChanInuse = cu.numChanInuse + 1,
                       !.clients = cu.clients \cup {c},
                       !.reserves = IF pool = NoPool THEN cu.reserves
                          ELSE [cu.reserves EXCEPT ![pool].used = cu.reserves[pool].used + load],
                       !.totalUsed = IF pool = NoPool THEN cu.totalUsed + load ELSE cu.totalUsed]
  BY DEF AllocChanClientFromCu
<1> DEFINE chans == [cu.channels EXCEPT ![ChannelFor(cu)] = ch]
           res == IF pool = NoPool THEN cu.reserves
                  ELSE [cu.reserves EXCEPT ![pool].used = cu.reserves[pool].used + load]
           used == IF pool = NoPool THEN cu.totalUsed + load ELSE cu.totalUsed
<1>9. res \in [PoolIds -> ReserveType] /\ used \in Int /\ chans \in [Channels -> ChannelType]
  BY <1>2, <1>4, <1>5, <1>6
<1>10. new = [cu EXCEPT !.channels = chans, !.numChanInuse = cu.numChanInuse + 1,
                        !.clients = cu.clients \cup {c}, !.reserves = res, !.totalUsed = used]
  BY <1>8
<1> HIDE DEF chans, res, used
<1>11. new \in CuType
  <2> HIDE DEF new
  <2> QED BY <1>5, <1>7, <1>9, <1>10
<1> QED BY <1>11

(* Allocating: one channel that was free now is c's; the books follow.     *)
LEMMA AllocChanIndexed ==
  ASSUME NEW cu \in CuType, CuIndexed(cu), NEW c \in Clients,
         NEW pool \in {NoPool} \cup PoolIds, NEW load \in 0 .. MaxLoad,
         CanAllocChan(cu, pool, load)
  PROVE  CuIndexed(AllocChanClientFromCu(cu, c, pool, load))
<1> DEFINE new == AllocChanClientFromCu(cu, c, pool, load)
           k == ChannelFor(cu)
           ch == [client |-> c, pool |-> pool, load |-> load]
<1>1. k \in Channels /\ k \notin BusyChannels(cu)
  BY ChannelForIsFree DEF CanAllocChan
<1>2. new.channels = [cu.channels EXCEPT ![k] = ch]
  BY DEF AllocChanClientFromCu, CuType
<1>3. BusyChannels(new) = BusyChannels(cu) \cup {k}
  BY <1>1, <1>2, CuAssumption DEF BusyChannels, CuType
<1>4. new.numChanInuse = Cardinality(BusyChannels(new))
  <2>1. new.numChanInuse = cu.numChanInuse + 1
    BY DEF AllocChanClientFromCu, CuType
  <2>2. Cardinality(BusyChannels(cu) \cup {k}) = Cardinality(BusyChannels(cu)) + 1
    BY <1>1, BusyFinite, FS_AddElement
  <2> QED BY <1>3, <2>1, <2>2 DEF CuIndexed
<1>5. new.clients = {new.channels[j].client : j \in BusyChannels(new)}
  <2>1. new.clients = cu.clients \cup {c}
    BY DEF AllocChanClientFromCu, CuType
  <2>2. \A j \in BusyChannels(cu) : new.channels[j] = cu.channels[j]
    BY <1>1, <1>2 DEF BusyChannels, CuType
  <2>3. new.channels[k].client = c
    BY <1>1, <1>2 DEF CuType
  <2>4. cu.clients = {cu.channels[j].client : j \in BusyChannels(cu)}
    BY DEF CuIndexed
  <2> HIDE DEF new, k
  <2> QED BY <1>3, <2>1, <2>2, <2>3, <2>4
<1>6. \A j \in Channels : new.channels[j].load = 0 <=> j \notin BusyChannels(new)
  <2>1. load # 0
    BY DEF CanAllocChan
  <2> QED BY <1>1, <1>2, <1>3, <2>1 DEF CuIndexed, CuType
<1> HIDE DEF new
<1>7. CuIndexed(new)
  BY <1>4, <1>5, <1>6 DEF CuIndexed
<1> QED BY <1>7 DEF new

----------------------------------------------------------------------------
(* Freeing channels leaves the fields of the CU in their ranges. *)
LEMMA FreeChannelsType ==
  ASSUME NEW cu \in CuType, NEW K \in SUBSET Channels
  PROVE  FreeChannels(cu, K) \in CuType
<1> DEFINE chans == [k \in Channels |-> IF k \in K THEN FreeChannel ELSE cu.channels[k]]
           res == [p \in PoolIds |->
                     IF IsReservePoolUsingCu(cu, p)
                     THEN [cu.reserves[p] EXCEPT !.used = cu.reserves[p].used - LoadIn(cu, K, p)]
                     ELSE cu.reserves[p]]
           n == cu.numChanInuse - Cardinality(K)
           used == cu.totalUsed - UnpooledLoad(cu, K)
<1>1. FreeChannel \in ChannelType
  BY CuAssumption DEF FreeChannel, ChannelType
<1>2. chans \in [Channels -> ChannelType]
  BY <1>1 DEF CuType
<1>3. \A p \in PoolIds : LoadIn(cu, K, p) \in Int
  BY LoadInType
<1>4. res \in [PoolIds -> ReserveType]
  BY <1>3 DEF CuType, ReserveType
<1>5. n \in Int /\ used \in Int
  BY LoadInType, ChannelsFinite DEF CuType
<1>6. FreeChannels(cu, K) = [cu EXCEPT !.channels = chans, !.numChanInuse = n,
                                       !.reserves = res, !.totalUsed = used]
  BY DEF FreeChannels
<1> HIDE DEF chans, res, n, used
<1> QED BY <1>2, <1>4, <1>5, <1>6 DEF CuType

(* Freeing channels in use: they are no longer, the others are as before.  *)
LEMMA FreeChannelsBusy ==
  ASSUME NEW cu \in CuType, NEW K \in SUBSET BusyChannels(cu)
  PROVE  LET new == FreeChannels(cu, K)
         IN  /\ new.channels = [k \in Channels |-> IF k \in K THEN FreeChannel
                                                   ELSE cu.channels[k]]
             /\ new.clients = cu.clients
             /\ BusyChannels(new) = BusyChannels(cu) \ K
             /\ new.numChanInuse = cu.numChanInuse - Cardinality(K)
             /\ Cardinality(BusyChannels(new)) = Cardinality(BusyChannels(cu)) - Cardinality(K)
<1> DEFINE new == FreeChannels(cu, K)
<1>1. new.channels = [k \in Channels |-> IF k \in K THEN FreeChannel ELSE cu.channels[k]]
  BY DEF FreeChannels, CuType
<1>2. new.clients = cu.clients /\ new.numChanInuse = cu.numChanInuse - Cardinality(K)
  BY DEF FreeChannels, CuType
<1>3. BusyChannels(new) = BusyChannels(cu) \ K
  BY <1>1 DEF BusyChannels, FreeChannel
<1>4. Cardinality(BusyChannels(cu) \ K) = Cardinality(BusyChannels(cu)) - Cardinality(K)
  <2>1. BusyChannels(cu) \cap K = K
    OBVIOUS
  <2> QED BY <2>1, BusyFinite, FS_Difference
<1> QED BY <1>1, <1>2, <1>3, <1>4

(* After freeing K, the index is right if clients is put right.            *)
LEMMA FreeChannelsIndexed ==
  ASSUME NEW cu \in CuType, CuIndexed(cu), NEW K \in SUBSET BusyChannels(cu), NEW D,
         cu.clients \ D = {cu.channels[k].client : k \in BusyChannels(cu) \ K}
  PROVE  CuIndexed([FreeChannels(cu, K) EXCEPT !.clients = @ \ D])
<1> DEFINE free == FreeChannels(cu, K)
           new == [free EXCEPT !.clients = @ \ D]
<1>1. free \in CuType
  BY FreeChannelsType DEF BusyChannels
<1>2. /\ free.channels = [k \in Channels |-> IF k \in K THEN FreeChannel ELSE cu.channels[k]]
      /\ free.clients = cu.clients
      /\ BusyChannels(free) = BusyChannels(cu) \ K
      /\ free.numChanInuse = cu.numChanInuse - Cardinality(K)
      /\ Cardinality(BusyChannels(free)) = Cardinality(BusyChannels(cu)) - Cardinality(K)
  BY FreeChannelsBusy
<1> HIDE DEF free
<1>3. /\ new.channels = free.channels
      /\ new.numChanInuse = free.numChanInuse
      /\ new.clients = cu.clients \ D
      /\ BusyChannels(new) = BusyChannels(free)
  BY <1>1, <1>2 DEF CuType, BusyChannels
<1> HIDE DEF new
<1>4. new.numChanInuse = Cardinality(BusyChannels(new))
  BY <1>2, <1>3 DEF CuIndexed
<1>5. new.clients = {new.channels[k].client : k \in BusyChannels(new)}
  <2>1. \A k \in BusyChannels(cu) \ K : new.channels[k] = cu.channels[k]
    BY <1>2, <1>3 DEF BusyChannels
  <2> QED BY <1>2, <1>3, <2>1
<1>6. \A k \in Channels : new.channels[k].load = 0 <=> k \notin BusyChannels(new)
  <2>1. \A k \in Channels : new.channels[k] = IF k \in K THEN FreeChannel ELSE cu.channels[k]
    BY <1>2, <1>3
  <2> QED BY <1>2, <1>3, <2>1 DEF CuIndexed, FreeChannel
<1>7. CuIndexed(new)
  BY <1>4, <1>5, <1>6 DEF CuIndexed
<1> QED BY <1>7 DEF new, free

(* resReleaseCu: one channel of c becomes free. *)
LEMMA ReleaseChanSafe ==
  ASSUME NEW cu \in CuType, CuIndexed(cu), NEW c \in Clients, NEW k \in ChannelsOf(cu, c)
  PROVE  /\ ReleaseChan(cu, c, k) \in CuType
         /\ CuIndexed(ReleaseChan(cu, c, k))
         /\ ReleaseChan(cu, c, k).channels = [cu.channels EXCEPT ![k] = FreeChannel]
<1> DEFINE D == IF ChannelsOf(cu, c) = {k} THEN {c} ELSE {}
<1>1. {k} \in SUBSET BusyChannels(cu) /\ k \in Channels /\ cu.channels[k].client = c
  BY CuAssumption DEF ChannelsOf, BusyChannels
<1>2. ReleaseChan(cu, c, k) = [FreeChannels(cu, {k}) EXCEPT !.clients = @ \ D]
  BY DEF ReleaseChan
<1>3. cu.clients \ D = {cu.channels[j].client : j \in BusyChannels(cu) \ {k}}
  <2>1. CASE ChannelsOf(cu, c) = {k}
    BY <1>1, <2>1 DEF CuIndexed, BusyChannels, ChannelsOf
  <2>2. CASE ChannelsOf(cu, c) # {k}
    <3>1. PICK j \in ChannelsOf(cu, c) : j # k
      BY <2>2
    <3>2. j \in BusyChannels(cu) /\ cu.channels[j].client = c
      BY <3>1, CuAssumption DEF ChannelsOf, BusyChannels
    <3> QED BY <1>1, <2>2, <3>1, <3>2 DEF CuIndexed
  <2> QED BY <2>1, <2>2
<1> HIDE DEF D
<1>4. CuIndexed([FreeChannels(cu, {k}) EXCEPT !.clients = @ \ D])
  BY <1>1, <1>3, FreeChannelsIndexed
<1>5. FreeChannels(cu, {k}) \in CuType
  BY <1>1, FreeChannelsType
<1>6. ReleaseChan(cu, c, k) \in CuType
  BY <1>2, <1>5 DEF CuType
<1>7. ReleaseChan(cu, c, k).channels = FreeChannels(cu, {k}).channels
  BY <1>2, <1>5 DEF CuType
<1>8. FreeChannels(cu, {k}).channels = [j \in Channels |-> IF j \in {k} THEN FreeChannel
                                                         ELSE cu.channels[j]]
  BY <1>1, FreeChannelsBusy
<1>9. ReleaseChan(cu, c, k).channels = [cu.channels EXCEPT ![k] = FreeChannel]
  BY <1>7, <1>8 DEF CuType
<1>10. CuIndexed(ReleaseChan(cu, c, k))
  BY <1>2, <1>4
<1> QED BY <1>6, <1>9, <1>10

(* releaseAllCuChanClientOnDev on one CU: exactly the channels of the      *)
(* clients in C become free, since clients lists all who hold one.         *)
LEMMA ReleaseAllChansSafe ==
  ASSUME NEW cu \in CuType, CuIndexed(cu), NEW C \in SUBSET Clients
  PROVE  LET new == ReleaseAllChans(cu, C)
         IN  /\ new \in CuType
             /\ CuIndexed(new)
             /\ new.channels = [k \in Channels |-> IF cu.channels[k].client \in C
                                                   THEN FreeChannel ELSE cu.channels[k]]
<1> DEFINE D == C \cap cu.clients
           K == UNION {ChannelsOf(cu, c) : c \in D}
           new == ReleaseAllChans(cu, C)
<1>1. new = [FreeChannels(cu, K) EXCEPT !.clients = @ \ D]
  BY DEF ReleaseAllChans
<1>2. \A k \in Channels : k \in K <=> cu.channels[k].client \in D
  BY DEF ChannelsOf
<1>3. K \in SUBSET Channels
  BY DEF ChannelsOf
<1>4. \A k \in Channels : cu.channels[k].client \in C <=> k \in K
  BY <1>2, CuAssumption DEF CuIndexed, BusyChannels
<1>5. K \in SUBSET BusyChannels(cu)
  BY <1>3, <1>4, CuAssumption DEF BusyChannels
<1>6. cu.clients \ D = {cu.channels[k].client : k \in BusyChannels(cu) \ K}
  <2>1. cu.clients = {cu.channels[k].client : k \in BusyChannels(cu)}
    BY DEF CuIndexed
  <2>2. \A k \in BusyChannels(cu) : k \in K <=> cu.channels[k].client \in D
    BY <1>2 DEF BusyChannels
  <2> HIDE DEF D, K
  <2> QED BY <2>1, <2>2
<1> HIDE DEF D, K
<1>7. CuIndexed([FreeChannels(cu, K) EXCEPT !.clients = @ \ D])
  BY <1>5, <1>6, FreeChannelsIndexed
<1>8. FreeChannels(cu, K) \in CuType
  BY <1>3, FreeChannelsType
<1>9. new \in CuType /\ new.channels = FreeChannels(cu, K).channels
  <2> HIDE DEF new
  <2> QED BY <1>1, <1>8 DEF CuType
<1>10. FreeChannels(cu, K).channels = [k \in Channels |-> IF k \in K THEN FreeChannel
                                                         ELSE cu.channels[k]]
  BY <1>5, FreeChannelsBusy
<1>11. new.channels = [k \in Channels |-> IF cu.channels[k].client \in C
                                         THEN FreeChannel ELSE cu.channels[k]]
  BY <1>4, <1>9, <1>10
<1> QED BY <1>1, <1>7, <1>9, <1>11

----------------------------------------------------------------------------
(* Reserving, giving back and dropping reservations leave the channels and *)
(* their index alone.                                                      *)
SameChannels(cu, new) ==
    /\ new.channels = cu.channels
    /\ new.numChanInuse = cu.numChanInuse
    /\ new.clients = cu.clients

(* What does not touch the channels leaves numChanInuse and clients right. *)
LEMMA SameChannelsIndexed ==
  ASSUME NEW cu, NEW new, CuIndexed(cu), SameChannels(cu, new)
  PROVE  CuIndexed(new)
BY DEF CuIndexed, SameChannels, BusyChannels

(* Changing only counters and reservations touches no channel. *)
LEMMA LoadsOnly ==
  ASSUME NEW cu \in CuType, NEW u \in Int, NEW r \in Int, NEW res \in [PoolIds -> ReserveType],
         NEW new, new = [cu EXCEPT !.totalUsed = u, !.totalReserved = r, !.reserves = res]
  PROVE  new \in CuType /\ SameChannels(cu, new)
BY DEF CuType, SameChannels

(* reserveLoadFromCu touches no channel. *)
LEMMA ReserveSafe ==
  ASSUME NEW cu \in CuType, NEW pool \in PoolIds, NEW c \in Clients, NEW load \in 0 .. MaxLoad
  PROVE  /\ ReserveLoadFromCu(cu, pool, c, load) \in CuType
         /\ SameChannels(cu, ReserveLoadFromCu(cu, pool, c, load))
<1> DEFINE slot == IF IsReservePoolUsingCu(cu, pool)
                   THEN [cu.reserves[pool] EXCEPT !.load = cu.reserves[pool].load + load]
                   ELSE [client |-> c, load |-> load, used |-> 0]
           res == [cu.reserves EXCEPT ![pool] = slot]
<1>1. load \in Nat
  BY CuAssumption
<1>2. slot \in ReserveType
  BY <1>1 DEF ReserveType, CuType
<1>3. res \in [PoolIds -> ReserveType]
  BY <1>2 DEF CuType
<1>4. ReserveLoadFromCu(cu, pool, c, load)
        = [cu EXCEPT !.totalUsed = cu.totalUsed + load,
                     !.totalReserved = cu.totalReserved + load,
                     !.reserves = res]
  BY DEF ReserveLoadFromCu, CuType
<1>5. cu.totalUsed + load \in Int /\ cu.totalReserved + load \in Int
  BY <1>1 DEF CuType
<1> HIDE DEF res
<1> QED BY <1>3, <1>4, <1>5, LoadsOnly

(* resRelinquishCuList, on one CU, touches no channel. *)
LEMMA RelinquishSafe ==
  ASSUME NEW cu \in CuType, NEW pool \in PoolIds
  PROVE  /\ RelinquishOnCu(cu, pool) \in CuType
         /\ SameChannels(cu, RelinquishOnCu(cu, pool))
<1>1. EmptyReserve \in ReserveType
  BY DEF EmptyReserve, ReserveType
<1>2. [cu.reserves EXCEPT ![pool] = EmptyReserve] \in [PoolIds -> ReserveType]
  BY <1>1 DEF CuType
<1>3. /\ cu.totalUsed - cu.reserves[pool].load \in Int
      /\ cu.totalReserved - cu.reserves[pool].load \in Int
  BY DEF CuType, ReserveType
<1>4. RelinquishOnCu(cu, pool)
        = [cu EXCEPT !.totalUsed = cu.totalUsed - cu.reserves[pool].load,
                     !.totalReserved = cu.totalReserved - cu.reserves[pool].load,
                     !.reserves = [cu.reserves EXCEPT ![pool] = EmptyReserve]]
  BY DEF RelinquishOnCu, CuType
<1> QED BY <1>2, <1>3, <1>4, LoadsOnly

(* The first loop of recycleResource touches no channel. *)
LEMMA DropReservesSafe ==
  ASSUME NEW cu \in CuType, NEW C
  PROVE  /\ DropReservesOf(cu, C) \in CuType
         /\ SameChannels(cu, DropReservesOf(cu, C))
<1> DEFINE gone == {p \in PoolIds : cu.reserves[p].client \in C}
           f == [i \in 0 .. MaxPool - 1 |-> IF i + 1 \in gone THEN cu.reserves[i + 1].load ELSE 0]
           g == [i \in 0 .. MaxPool - 1 |-> IF i + 1 \in gone THEN cu.reserves[i + 1].used ELSE 0]
           res == [p \in PoolIds |-> IF p \in gone THEN EmptyReserve ELSE cu.reserves[p]]
<1>1. \A p \in PoolIds : cu.reserves[p].load \in Int /\ cu.reserves[p].used \in Int
  BY DEF CuType, ReserveType
<1>2. \A i \in 0 .. (MaxPool - 1) : f[i] \in Int /\ g[i] \in Int
  BY <1>1 DEF PoolIds
<1>3. res \in [PoolIds -> ReserveType]
  BY DEF CuType, EmptyReserve, ReserveType
<1>4. DropReservesOf(cu, C)
        = [cu EXCEPT !.totalUsed = cu.totalUsed - (SumTo(f, MaxPool) - SumTo(g, MaxPool)),
                     !.totalReserved = cu.totalReserved - SumTo(f, MaxPool),
                     !.reserves = res]
  BY DEF DropReservesOf
<1> HIDE DEF f, g, res
<1>5. SumTo(f, MaxPool) \in Int /\ SumTo(g, MaxPool) \in Int
  BY <1>2, CuAssumption, SumType
<1>6. /\ cu.totalUsed - (SumTo(f, MaxPool) - SumTo(g, MaxPool)) \in Int
      /\ cu.totalReserved - SumTo(f, MaxPool) \in Int
  BY <1>5 DEF CuType
<1> QED BY <1>3, <1>4, <1>6, LoadsOnly

----------------------------------------------------------------------------
(* Channels and pools are numbered through, and loads are numbers. *)
LEMMA LoadArrays ==
  ASSUME NEW cu \in CuType
  PROVE  /\ NumChannels \in Nat /\ Channels = 0 .. (NumChannels - 1)
         /\ MaxPool \in Nat /\ PoolIds = 1 .. MaxPool
         /\ \A i \in 0 .. (MaxPool - 1) : i + 1 \in PoolIds
         /\ \A k \in Channels : /\ cu.channels[k].load \in Nat
                                /\ cu.channels[k].pool \in {0} \cup PoolIds
         /\ \A p \in PoolIds : cu.reserves[p].load \in Nat /\ cu.reserves[p].used \in Int
<1>1. /\ NumChannels \in Nat /\ Channels = 0 .. (NumChannels - 1)
      /\ MaxPool \in Nat /\ PoolIds = 1 .. MaxPool /\ MaxLoad \in Nat
  BY CuAssumption DEF Channels, PoolIds
<1>2. \A i \in 0 .. (MaxPool - 1) : i + 1 \in PoolIds
  BY <1>1
<1>3. \A k \in Channels : /\ cu.channels[k].load \in 0 .. MaxLoad
                          /\ cu.channels[k].pool \in {0} \cup PoolIds
  BY DEF CuType, ChannelType
<1>4. \A p \in PoolIds : cu.reserves[p].load \in Nat /\ cu.reserves[p].used \in Int
  BY DEF CuType, ReserveType
<1> QED BY <1>1, <1>2, <1>3, <1>4

(* What channels carry is not negative. *)
LEMMA LoadsNatural ==
  ASSUME NEW cu \in CuType, NEW K, NEW p
  PROVE  /\ LoadIn(cu, K, p) \in Nat
         /\ UnpooledLoad(cu, K) \in Nat
         /\ AllReserved(cu) \in Nat
<1> USE LoadArrays
<1>1. LoadIn(cu, K, p) \in Nat
  <2> DEFINE f == [k \in Channels |-> IF k \in K /\ cu.channels[k].pool = p
                                      THEN cu.channels[k].load ELSE 0]
  <2>1. \A k \in 0 .. (NumChannels - 1) : f[k] \in Nat
    OBVIOUS
  <2> HIDE DEF f
  <2>2. SumTo(f, NumChannels) \in Nat
    BY <2>1, SumNatural
  <2> QED BY <2>2 DEF LoadIn, f
<1>2. UnpooledLoad(cu, K) \in Nat
  <2> DEFINE f == [k \in Channels |->
                     IF k \in K /\ ~IsReservePoolUsingCu(cu, cu.channels[k].pool)
                     THEN cu.channels[k].load ELSE 0]
  <2>1. \A k \in 0 .. (NumChannels - 1) : f[k] \in Nat
    OBVIOUS
  <2> HIDE DEF f
  <2>2. SumTo(f, NumChannels) \in Nat
    BY <2>1, SumNatural
  <2> QED BY <2>2 DEF UnpooledLoad, f
<1>3. AllReserved(cu) \in Nat
  <2> DEFINE f == [i \in 0 .. MaxPool - 1 |-> cu.reserves[i + 1].load]
  <2>1. \A i \in 0 .. (MaxPool - 1) : f[i] \in Nat
    OBVIOUS
  <2> HIDE DEF f
  <2>2. SumTo(f, MaxPool) \in Nat
    BY <2>1, SumNatural
  <2> QED BY <2>2 DEF AllReserved, f
<1> QED BY <1>1, <1>2, <1>3

(* The pools with a reservation on both CUs are the same. *)
SameReservers(cu, new) ==
    \A p \in PoolIds : IsReservePoolUsingCu(new, p) <=> IsReservePoolUsingCu(cu, p)

(* A channel that carried nothing now carries ch: its load is added to     *)
(* that of its pool, or to what no pool accounts for.                      *)
LEMMA ChannelTaken ==
  ASSUME NEW cu \in CuType, NEW new \in CuType, NEW k \in Channels, NEW ch \in ChannelType,
         new.channels = [cu.channels EXCEPT ![k] = ch], cu.channels[k].load = 0,
         SameReservers(cu, new)
  PROVE  /\ \A p : LoadIn(new, Channels, p)
                     = LoadIn(cu, Channels, p) + (IF ch.pool = p THEN ch.load ELSE 0)
         /\ UnpooledLoad(new, Channels)
              = UnpooledLoad(cu, Channels) + (IF IsReservePoolUsingCu(cu, ch.pool) THEN 0 ELSE ch.load)
<1>a. /\ NumChannels \in Nat /\ Channels = 0 .. (NumChannels - 1)
      /\ MaxPool \in Nat /\ PoolIds = 1 .. MaxPool
  BY LoadArrays
<1>b. \A j \in Channels : cu.channels[j].load \in Nat /\ cu.channels[j].pool \in {0} \cup PoolIds
  BY LoadArrays
<1>c. \A j \in Channels : new.channels[j].load \in Nat /\ new.channels[j].pool \in {0} \cup PoolIds
  BY LoadArrays
<1> USE <1>a, <1>b, <1>c
<1>0. /\ \A j \in Channels : new.channels[j] = IF j = k THEN ch ELSE cu.channels[j]
      /\ ch.load \in Nat /\ ch.pool \in {0} \cup PoolIds
  BY CuAssumption DEF CuType, ChannelType
<1>1. ASSUME NEW p
      PROVE  LoadIn(new, Channels, p)
               = LoadIn(cu, Channels, p) + (IF ch.pool = p THEN ch.load ELSE 0)
  <2> DEFINE f == [j \in Channels |-> IF j \in Channels /\ cu.channels[j].pool = p
                                      THEN cu.channels[j].load ELSE 0]
             g == [j \in Channels |-> IF j \in Channels /\ new.channels[j].pool = p
                                      THEN new.channels[j].load ELSE 0]
  <2>1. \A j \in 0 .. (NumChannels - 1) : f[j] \in Int /\ g[j] \in Int
    OBVIOUS
  <2>2. \A j \in 0 .. (NumChannels - 1) : j # k => g[j] = f[j]
    BY <1>0
  <2>3. f[k] = 0 /\ g[k] = IF ch.pool = p THEN ch.load ELSE 0
    BY <1>0
  <2>4. LoadIn(cu, Channels, p) = SumTo(f, NumChannels)
    BY DEF LoadIn
  <2>5. LoadIn(new, Channels, p) = SumTo(g, NumChannels)
    BY DEF LoadIn
  <2> HIDE DEF f, g
  <2>6. SumTo(g, NumChannels) = SumTo(f, NumChannels) + (g[k] - f[k])
    <3>1. k \in 0 .. (NumChannels - 1)
      OBVIOUS
    <3>2. \A j \in 0 .. (NumChannels - 1) :
             f[j] \in Int /\ g[j] \in Int /\ (j # k => g[j] = f[j])
      BY <2>1, <2>2
    <3>3. NumChannels \in Nat
      OBVIOUS
    <3> HIDE <1>a, <1>b, <1>c
    <3> QED BY <3>1, <3>2, <3>3, SumChange
  <2> QED BY <1>0, <2>1, <2>3, <2>4, <2>5, <2>6
<1>2. UnpooledLoad(new, Channels)
        = UnpooledLoad(cu, Channels) + (IF IsReservePoolUsingCu(cu, ch.pool) THEN 0 ELSE ch.load)
  <2> DEFINE f == [j \in Channels |->
                     IF j \in Channels /\ ~IsReservePoolUsingCu(cu, cu.channels[j].pool)
                     THEN cu.channels[j].load ELSE 0]
             g == [j \in Channels |->
                     IF j \in Channels /\ ~IsReservePoolUsingCu(new, new.channels[j].pool)
                     THEN new.channels[j].load ELSE 0]
  <2>0. \A p : IsReservePoolUsingCu(new, p) <=> IsReservePoolUsingCu(cu, p)
    BY DEF SameReservers, IsReservePoolUsingCu
  <2>1. \A j \in 0 .. (NumChannels - 1) : f[j] \in Int /\ g[j] \in Int
    OBVIOUS
  <2>2. \A j \in 0 .. (NumChannels - 1) : j # k => g[j] = f[j]
    BY <1>0, <2>0
  <2>3. f[k] = 0 /\ g[k] = IF IsReservePoolUsingCu(cu, ch.pool) THEN 0 ELSE ch.load
    BY <1>0, <2>0
  <2>4. UnpooledLoad(cu, Channels) = SumTo(f, NumChannels)
    BY DEF UnpooledLoad
  <2>5. UnpooledLoad(new, Channels) = SumTo(g, NumChannels)
    BY DEF UnpooledLoad
  <2> HIDE DEF f, g
  <2>6. SumTo(g, NumChannels) = SumTo(f, NumChannels) + (g[k] - f[k])
    <3>1. k \in 0 .. (NumChannels - 1)
      OBVIOUS
    <3>2. \A j \in 0 .. (NumChannels - 1) :
             f[j] \in Int /\ g[j] \in Int /\ (j # k => g[j] = f[j])
      BY <2>1, <2>2
    <3>3. NumChannels \in Nat
      OBVIOUS
    <3> HIDE <1>a, <1>b, <1>c
    <3> QED BY <3>1, <3>2, <3>3, SumChange
  <2> QED BY <1>0, <2>1, <2>3, <2>4, <2>5, <2>6
<1> QED BY <1>1, <1>2

(* The channels in K are freed: the load is what they carried and what the *)
(* others still do.                                                        *)
LEMMA ChannelsFreed ==
  ASSUME NEW cu \in CuType, NEW new \in CuType, NEW K \in SUBSET Channels,
         new.channels = [k \in Channels |-> IF k \in K THEN FreeChannel ELSE cu.channels[k]],
         SameReservers(cu, new)
  PROVE  /\ \A p : LoadIn(cu, Channels, p) = LoadIn(cu, K, p) + LoadIn(new, Channels, p)
         /\ UnpooledLoad(cu, Channels) = UnpooledLoad(cu, K) + UnpooledLoad(new, Channels)
<1>a. /\ NumChannels \in Nat /\ Channels = 0 .. (NumChannels - 1)
      /\ MaxPool \in Nat /\ PoolIds = 1 .. MaxPool
  BY LoadArrays
<1>b. \A k \in Channels : cu.channels[k].load \in Nat /\ cu.channels[k].pool \in {0} \cup PoolIds
  BY LoadArrays
<1>c. \A k \in Channels : new.channels[k].load \in Nat /\ new.channels[k].pool \in {0} \cup PoolIds
  BY LoadArrays
<1> USE <1>a, <1>b, <1>c
<1>0. \A j \in Channels : new.channels[j] = IF j \in K THEN FreeChannel ELSE cu.channels[j]
  OBVIOUS
<1>1. ASSUME NEW p
      PROVE  LoadIn(cu, Channels, p) = LoadIn(cu, K, p) + LoadIn(new, Channels, p)
  <2> DEFINE h == [j \in Channels |-> IF j \in Channels /\ cu.channels[j].pool = p
                                      THEN cu.channels[j].load ELSE 0]
             f == [j \in Channels |-> IF j \in K /\ cu.channels[j].pool = p
                                      THEN cu.channels[j].load ELSE 0]
             g == [j \in Channels |-> IF j \in Channels /\ new.channels[j].pool = p
                                      THEN new.channels[j].load ELSE 0]
  <2>1. \A j \in 0 .. (NumChannels - 1) : f[j] \in Int /\ g[j] \in Int
    OBVIOUS
  <2>2. \A j \in 0 .. (NumChannels - 1) : h[j] = f[j] + g[j]
    BY <1>0 DEF FreeChannel
  <2>3. /\ LoadIn(cu, Channels, p) = SumTo(h, NumChannels)
        /\ LoadIn(cu, K, p) = SumTo(f, NumChannels)
        /\ LoadIn(new, Channels, p) = SumTo(g, NumChannels)
    BY DEF LoadIn
  <2> HIDE DEF f, g, h
  <2> QED BY <2>1, <2>2, <2>3, SumAdd
<1>2. UnpooledLoad(cu, Channels) = UnpooledLoad(cu, K) + UnpooledLoad(new, Channels)
  <2> DEFINE h == [j \in Channels |->
                     IF j \in Channels /\ ~IsReservePoolUsingCu(cu, cu.channels[j].pool)
                     THEN cu.channels[j].load ELSE 0]
             f == [j \in Channels |->
                     IF j \in K /\ ~IsReservePoolUsingCu(cu, cu.channels[j].pool)
                     THEN cu.channels[j].load ELSE 0]
             g == [j \in Channels |->
                     IF j \in Channels /\ ~IsReservePoolUsingCu(new, new.channels[j].pool)
                     THEN new.channels[j].load ELSE 0]
  <2>0. \A p : IsReservePoolUsingCu(new, p) <=> IsReservePoolUsingCu(cu, p)
    BY DEF SameReservers, IsReservePoolUsingCu
  <2>1. \A j \in 0 .. (NumChannels - 1) : f[j] \in Int /\ g[j] \in Int
    OBVIOUS
  <2>2. \A j \in 0 .. (NumChannels - 1) : h[j] = f[j] + g[j]
    BY <1>0, <2>0 DEF FreeChannel
  <2>3. /\ UnpooledLoad(cu, Channels) = SumTo(h, NumChannels)
        /\ UnpooledLoad(cu, K) = SumTo(f, NumChannels)
        /\ UnpooledLoad(new, Channels) = SumTo(g, NumChannels)
    BY DEF UnpooledLoad
  <2> HIDE DEF f, g, h
  <2> QED BY <2>1, <2>2, <2>3, SumAdd
<1> QED BY <1>1, <1>2

(* What the channels carry of the pools in P, channel by channel and pool  *)
(* by pool.                                                                *)
LEMMA PooledLoads ==
  ASSUME NEW cu \in CuType, NEW P \in SUBSET PoolIds
  PROVE  SumTo([k \in Channels |-> IF cu.channels[k].pool \in P
                                 THEN cu.channels[k].load ELSE 0], NumChannels)
           = SumTo([i \in 0 .. MaxPool - 1 |-> IF i + 1 \in P
                                             THEN LoadIn(cu, Channels, i + 1) ELSE 0], MaxPool)
<1>a. /\ NumChannels \in Nat /\ Channels = 0 .. (NumChannels - 1)
      /\ MaxPool \in Nat /\ PoolIds = 1 .. MaxPool
  BY LoadArrays
<1>b. \A k \in Channels : cu.channels[k].load \in Nat /\ cu.channels[k].pool \in {0} \cup PoolIds
  BY LoadArrays
<1> USE <1>a, <1>b
<1> DEFINE part(m) == [k \in Channels |-> IF cu.channels[k].pool \in P /\ cu.channels[k].pool <= m
                                          THEN cu.channels[k].load ELSE 0]
           g == [i \in 0 .. MaxPool - 1 |-> IF i + 1 \in P
                                            THEN LoadIn(cu, Channels, i + 1) ELSE 0]
           T == {m \in Nat : m <= MaxPool => SumTo(part(m), NumChannels) = SumTo(g, m)}
<1>1. 0 \in T
  <2>1. \A k \in 0 .. (NumChannels - 1) : part(0)[k] = 0
    OBVIOUS
  <2> HIDE DEF part
  <2>2. SumTo(part(0), NumChannels) = 0
    BY <2>1, SumOfZeros
  <2> QED BY <2>2, SumZero
<1>2. ASSUME NEW m \in T PROVE m + 1 \in T
  <2> HIDE <1>a, <1>b
  <2>1. SUFFICES ASSUME m + 1 <= MaxPool
                 PROVE  SumTo(part(m + 1), NumChannels) = SumTo(g, m + 1)
    <3> HIDE DEF part, g
    <3> QED OBVIOUS
  <2> USE <1>a, <1>b
  <2>2. m \in Nat /\ SumTo(part(m), NumChannels) = SumTo(g, m) /\ m \in 0 .. (MaxPool - 1)
    BY <2>1
  <2>3. SumTo(g, m + 1) = SumTo(g, m) + g[m]
    BY <2>2, SumStep
  <2>4. g[m] = IF m + 1 \in P THEN LoadIn(cu, Channels, m + 1) ELSE 0
    BY <2>2
  <2> DEFINE f == [k \in Channels |-> IF k \in Channels /\ cu.channels[k].pool = m + 1
                                      THEN cu.channels[k].load ELSE 0]
  <2>5. LoadIn(cu, Channels, m + 1) = SumTo(f, NumChannels)
    BY DEF LoadIn
  <2>6. \A k \in 0 .. (NumChannels - 1) : f[k] \in Int /\ part(m)[k] \in Int
    OBVIOUS
  <2>7. \A k \in 0 .. (NumChannels - 1) :
           part(m + 1)[k] = IF m + 1 \in P THEN part(m)[k] + f[k] ELSE part(m)[k]
    <3> TAKE k \in 0 .. (NumChannels - 1)
    <3> DEFINE q == cu.channels[k].pool
    <3>1. q \in Int /\ k \in Channels /\ cu.channels[k].load \in Int
      OBVIOUS
    <3>2. q <= m + 1 <=> q <= m \/ q = m + 1
      BY <2>2, <3>1
    <3> QED BY <2>2, <3>1, <3>2
  <2> HIDE DEF part, f, g
  <2>8. CASE m + 1 \in P
    <3>1. SumTo(part(m + 1), NumChannels) = SumTo(part(m), NumChannels) + SumTo(f, NumChannels)
      BY <2>6, <2>7, <2>8, SumAdd
    <3> QED BY <2>2, <2>3, <2>4, <2>5, <2>8, <3>1
  <2>9. CASE m + 1 \notin P
    <3>1. SumTo(part(m + 1), NumChannels) = SumTo(part(m), NumChannels)
      BY <2>6, <2>7, <2>9, SumEqual
    <3>2. SumTo(part(m), NumChannels) \in Int
      BY <2>6, SumType
    <3> QED BY <2>2, <2>3, <2>4, <2>9, <3>1, <3>2
  <2> QED BY <2>8, <2>9
<1>3. T = Nat
  <2>1. T \in SUBSET Nat OBVIOUS
  <2> HIDE DEF T
  <2> QED BY <1>1, <1>2, <2>1, InductiveSet
<1>4. SumTo(part(MaxPool), NumChannels) = SumTo(g, MaxPool)
  <2> HIDE DEF part, g
  <2> QED BY <1>3
<1>5. part(MaxPool) = [k \in Channels |-> IF cu.channels[k].pool \in P
                                          THEN cu.channels[k].load ELSE 0]
  OBVIOUS
<1> QED BY <1>4, <1>5

----------------------------------------------------------------------------
(* What is reserved in all changes with one slot, and only with its load.  *)
LEMMA ReservesChanged ==
  ASSUME NEW cu \in CuType, NEW new \in CuType, NEW p \in PoolIds,
         \A q \in PoolIds : q # p => new.reserves[q].load = cu.reserves[q].load
  PROVE  AllReserved(new) = AllReserved(cu) + (new.reserves[p].load - cu.reserves[p].load)
<1> DEFINE f == [i \in 0 .. MaxPool - 1 |-> cu.reserves[i + 1].load]
           g == [i \in 0 .. MaxPool - 1 |-> new.reserves[i + 1].load]
           k == p - 1
<1>1. /\ MaxPool \in Nat /\ PoolIds = 1 .. MaxPool
      /\ \A q \in PoolIds : cu.reserves[q].load \in Nat /\ new.reserves[q].load \in Nat
  BY LoadArrays
<1>2. k \in 0 .. (MaxPool - 1) /\ k + 1 = p /\ MaxPool \in Nat
  BY <1>1
<1>3. \A i \in 0 .. (MaxPool - 1) : f[i] \in Int /\ g[i] \in Int /\ (i # k => g[i] = f[i])
  <2> TAKE i \in 0 .. (MaxPool - 1)
  <2>1. i + 1 \in PoolIds /\ (i # k => i + 1 # p)
    BY <1>1
  <2> QED BY <1>1, <2>1
<1>4. AllReserved(cu) = SumTo(f, MaxPool) /\ AllReserved(new) = SumTo(g, MaxPool)
  BY DEF AllReserved
<1>5. f[k] = cu.reserves[p].load /\ g[k] = new.reserves[p].load
  BY <1>2
<1> HIDE DEF f, g, k
<1>6. SumTo(g, MaxPool) = SumTo(f, MaxPool) + (g[k] - f[k])
  BY <1>2, <1>3, SumChange
<1> QED BY <1>4, <1>5, <1>6

(* It is the same while no slot's load changes. *)
LEMMA ReservesSame ==
  ASSUME NEW cu \in CuType, NEW new \in CuType,
         \A q \in PoolIds : new.reserves[q].load = cu.reserves[q].load
  PROVE  AllReserved(new) = AllReserved(cu)
<1> DEFINE f == [i \in 0 .. MaxPool - 1 |-> cu.reserves[i + 1].load]
           g == [i \in 0 .. MaxPool - 1 |-> new.reserves[i + 1].load]
<1>1. /\ MaxPool \in Nat
      /\ \A i \in 0 .. (MaxPool - 1) : i + 1 \in PoolIds
      /\ \A q \in PoolIds : cu.reserves[q].load \in Nat
  BY LoadArrays
<1>2. \A i \in 0 .. (MaxPool - 1) : f[i] \in Int /\ g[i] = f[i]
  BY <1>1
<1>3. AllReserved(cu) = SumTo(f, MaxPool) /\ AllReserved(new) = SumTo(g, MaxPool)
  BY DEF AllReserved
<1> HIDE DEF f, g
<1> QED BY <1>1, <1>2, <1>3, SumEqual

(* The pools in P lose their reservation: what the channels carry of them  *)
(* is no pool's any more.                                                  *)
LEMMA PoolsDropped ==
  ASSUME NEW cu \in CuType, NEW new \in CuType, new.channels = cu.channels,
         NEW P \in SUBSET ReservingPools(cu), ReservingPools(new) = ReservingPools(cu) \ P,
         NEW carried, \A i \in 0 .. (MaxPool - 1) :
                         carried[i] = IF i + 1 \in P THEN LoadIn(cu, Channels, i + 1) ELSE 0
  PROVE  UnpooledLoad(new, Channels) = UnpooledLoad(cu, Channels) + SumTo(carried, MaxPool)
<1> DEFINE f == [j \in Channels |->
                   IF j \in Channels /\ ~IsReservePoolUsingCu(cu, cu.channels[j].pool)
                   THEN cu.channels[j].load ELSE 0]
           g == [j \in Channels |-> IF cu.channels[j].pool \in P THEN cu.channels[j].load ELSE 0]
           h == [j \in Channels |->
                   IF j \in Channels /\ ~IsReservePoolUsingCu(new, new.channels[j].pool)
                   THEN new.channels[j].load ELSE 0]
<1>1. /\ NumChannels \in Nat /\ Channels = 0 .. (NumChannels - 1)
      /\ \A k \in Channels : cu.channels[k].load \in Nat
  BY LoadArrays
<1>2. \A j \in 0 .. (NumChannels - 1) : f[j] \in Int /\ g[j] \in Int
  BY <1>1
<1>3. \A p : /\ IsReservePoolUsingCu(cu, p) <=> p \in ReservingPools(cu)
             /\ IsReservePoolUsingCu(new, p) <=> p \in ReservingPools(new)
  BY DEF IsReservePoolUsingCu, ReservingPools
<1>4. \A j \in 0 .. (NumChannels - 1) : h[j] = f[j] + g[j]
  <2> TAKE j \in 0 .. (NumChannels - 1)
  <2> DEFINE p == cu.channels[j].pool
  <2>1. IsReservePoolUsingCu(new, p) <=> IsReservePoolUsingCu(cu, p) /\ p \notin P
    BY <1>3
  <2>2. p \in P => IsReservePoolUsingCu(cu, p)
    BY <1>3
  <2>3. cu.channels[j].load \in Int /\ j \in Channels
    BY <1>1
  <2> QED BY <2>1, <2>2, <2>3
<1>5. /\ UnpooledLoad(cu, Channels) = SumTo(f, NumChannels)
      /\ UnpooledLoad(new, Channels) = SumTo(h, NumChannels)
  BY DEF UnpooledLoad
<1>6. SumTo(g, NumChannels) = SumTo(carried, MaxPool)
  <2> DEFINE loads == [i \in 0 .. MaxPool - 1 |-> IF i + 1 \in P
                                                  THEN LoadIn(cu, Channels, i + 1) ELSE 0]
  <2>1. P \in SUBSET PoolIds
    BY DEF ReservingPools
  <2>2. SumTo(g, NumChannels) = SumTo(loads, MaxPool)
    BY <2>1, PooledLoads
  <2>3. \A i \in 0 .. (MaxPool - 1) : loads[i] \in Int /\ carried[i] = loads[i]
    BY LoadsNatural
  <2>4. MaxPool \in Nat
    BY CuAssumption
  <2> HIDE DEF loads, g
  <2>5. SumTo(carried, MaxPool) = SumTo(loads, MaxPool)
    BY <2>3, <2>4, SumEqual
  <2> QED BY <2>2, <2>5
<1> HIDE DEF f, g, h
<1>7. NumChannels \in Nat
  BY <1>1
<1>8. SumTo(h, NumChannels) = SumTo(f, NumChannels) + SumTo(g, NumChannels)
  BY <1>2, <1>4, <1>7, SumAdd
<1> QED BY <1>5, <1>6, <1>8

(* The channels carry what the same channels carried, and of the same      *)
(* pools: a pool that appears or goes has none of them.                    *)
LEMMA LoadsUnchanged ==
  ASSUME NEW cu \in CuType, NEW new \in CuType, new.channels = cu.channels
  PROVE  /\ \A p : LoadIn(new, Channels, p) = LoadIn(cu, Channels, p)
         /\ (\A k \in Channels : IsReservePoolUsingCu(new, cu.channels[k].pool)
                                    <=> IsReservePoolUsingCu(cu, cu.channels[k].pool))
               => UnpooledLoad(new, Channels) = UnpooledLoad(cu, Channels)
<1>1. \A p : LoadIn(new, Channels, p) = LoadIn(cu, Channels, p)
  BY DEF LoadIn
<1>2. ASSUME \A k \in Channels : IsReservePoolUsingCu(new, cu.channels[k].pool)
                                  <=> IsReservePoolUsingCu(cu, cu.channels[k].pool)
      PROVE  UnpooledLoad(new, Channels) = UnpooledLoad(cu, Channels)
  BY <1>2 DEF UnpooledLoad
<1> QED BY <1>1, <1>2

----------------------------------------------------------------------------
(* What a CU in order says of its slots. *)
LEMMA SlotsRight ==
  ASSUME NEW cu \in CuType, NEW last, LoadsRight(cu, last), NEW p \in PoolIds
  PROVE  /\ cu.reserves[p].used \in Nat /\ cu.reserves[p].load \in Nat
         /\ cu.reserves[p].used <= cu.reserves[p].load
         /\ IsReservePoolUsingCu(cu, p) => cu.reserves[p].used = LoadIn(cu, Channels, p)
         /\ ~IsReservePoolUsingCu(cu, p) => cu.reserves[p] = EmptyReserve
<1>1. cu.reserves[p].load \in Nat
  BY LoadArrays
<1>2. CASE IsReservePoolUsingCu(cu, p)
  <2>1. cu.reserves[p].used = LoadIn(cu, Channels, p)
    BY <1>2 DEF LoadsRight, CuBalanced, ReservingPools
  <2>2. LoadIn(cu, Channels, p) \in Nat
    BY LoadsNatural
  <2> QED BY <1>1, <1>2, <2>1, <2>2 DEF LoadsRight
<1>3. CASE ~IsReservePoolUsingCu(cu, p)
  <2>1. cu.reserves[p] = EmptyReserve
    BY <1>3 DEF LoadsRight, IsReservePoolUsingCu
  <2> QED BY <1>3, <2>1 DEF EmptyReserve
<1> QED BY <1>2, <1>3

(* A CU in order is not given out beyond its capacity: what the channels   *)
(* carry of the reserving pools is at most what these have reserved.       *)
LEMMA CapacityKept ==
  ASSUME NEW cu \in CuType, NEW last, LoadsRight(cu, last)
  PROVE  CuWithinCapacity(cu)
<1> DEFINE P == ReservingPools(cu)
           all == [k \in Channels |-> cu.channels[k].load]
           f == [j \in Channels |->
                   IF j \in Channels /\ ~IsReservePoolUsingCu(cu, cu.channels[j].pool)
                   THEN cu.channels[j].load ELSE 0]
           g == [j \in Channels |-> IF cu.channels[j].pool \in P THEN cu.channels[j].load ELSE 0]
           carried == [i \in 0 .. MaxPool - 1 |-> IF i + 1 \in P
                                                  THEN LoadIn(cu, Channels, i + 1) ELSE 0]
           loads == [i \in 0 .. MaxPool - 1 |-> cu.reserves[i + 1].load]
<1>1. /\ NumChannels \in Nat /\ MaxPool \in Nat /\ P \in SUBSET PoolIds
      /\ cu.totalUsed \in Int /\ cu.totalReserved \in Int /\ MaxLoad \in Nat
  BY LoadArrays, CuAssumption DEF CuType, ReservingPools
<1>2. \A j \in 0 .. (NumChannels - 1) : f[j] \in Int /\ g[j] \in Int /\ all[j] = f[j] + g[j]
  <2> TAKE j \in 0 .. (NumChannels - 1)
  <2>1. j \in Channels /\ cu.channels[j].load \in Nat
    BY LoadArrays
  <2>2. cu.channels[j].pool \in P <=> IsReservePoolUsingCu(cu, cu.channels[j].pool)
    BY DEF ReservingPools, IsReservePoolUsingCu
  <2> QED BY <2>1, <2>2
<1>3. SumTo(f, NumChannels) = UnpooledLoad(cu, Channels)
  BY DEF UnpooledLoad
<1>4. SumTo(g, NumChannels) = SumTo(carried, MaxPool)
  BY <1>1, PooledLoads
<1>5. \A i \in 0 .. (MaxPool - 1) : /\ carried[i] \in Int /\ loads[i] \in Int
                                    /\ carried[i] <= loads[i]
  <2> TAKE i \in 0 .. (MaxPool - 1)
  <2>1. i + 1 \in PoolIds
    BY LoadArrays
  <2>2. cu.reserves[i + 1].used \in Nat /\ cu.reserves[i + 1].load \in Nat
    BY <2>1, SlotsRight
  <2>3. i + 1 \in P => cu.reserves[i + 1].used = LoadIn(cu, Channels, i + 1)
    BY <2>1, SlotsRight DEF ReservingPools
  <2>4. cu.reserves[i + 1].used <= cu.reserves[i + 1].load
    BY <2>1, SlotsRight
  <2> QED BY <2>2, <2>3, <2>4
<1>6. SumTo(loads, MaxPool) = AllReserved(cu)
  BY DEF AllReserved
<1>7. cu.totalReserved = AllReserved(cu) /\ cu.totalUsed = UnpooledLoad(cu, Channels) + AllReserved(cu)
  BY DEF LoadsRight, CuBalanced
<1>8. UnpooledLoad(cu, Channels) \in Nat /\ AllReserved(cu) \in Nat /\ cu.totalUsed <= MaxLoad
  BY LoadsNatural DEF LoadsRight
<1>9. \A p \in PoolIds : cu.reserves[p].used \in 0 .. cu.reserves[p].load
  BY SlotsRight
<1> HIDE DEF P, f, g, carried, loads, all
<1>10. SumTo(all, NumChannels) = SumTo(f, NumChannels) + SumTo(g, NumChannels)
  BY <1>1, <1>2, SumAdd
<1>11. /\ SumTo(carried, MaxPool) <= SumTo(loads, MaxPool)
       /\ SumTo(carried, MaxPool) \in Int
  <2>1. MaxPool \in Nat
    BY <1>1
  <2> QED BY <1>5, <2>1, SumMonotone, SumType
<1>12. SumTo(all, NumChannels) <= MaxLoad
  BY <1>1, <1>3, <1>4, <1>6, <1>7, <1>8, <1>10, <1>11
<1>13. cu.totalUsed \in cu.totalReserved .. MaxLoad
  BY <1>1, <1>7, <1>8
<1> QED BY <1>9, <1>12, <1>13 DEF CuWithinCapacity, all

(* A CU as it is initialised, and as an idle device's is cleared.          *)
LEMMA EmptyCuRight ==
  ASSUME EmptyCu \in CuType, NEW last \in Nat
  PROVE  LoadsRight(EmptyCu, last) /\ Vacant(EmptyCu)
<1> DEFINE f == [k \in Channels |->
                   IF k \in Channels /\ ~IsReservePoolUsingCu(EmptyCu, EmptyCu.channels[k].pool)
                   THEN EmptyCu.channels[k].load ELSE 0]
           g == [i \in 0 .. MaxPool - 1 |-> EmptyCu.reserves[i + 1].load]
<1>1. /\ NumChannels \in Nat /\ Channels = 0 .. (NumChannels - 1) /\ MaxPool \in Nat
      /\ \A i \in 0 .. (MaxPool - 1) : i + 1 \in PoolIds
  BY LoadArrays
<1>2. ReservingPools(EmptyCu) = {} /\ BusyChannels(EmptyCu) = {}
  BY DEF ReservingPools, IsReservePoolUsingCu, EmptyCu, EmptyReserve, BusyChannels, FreeChannel
<1>3. \A k \in 0 .. (NumChannels - 1) : f[k] = 0
  BY <1>1 DEF EmptyCu, FreeChannel
<1>4. \A i \in 0 .. (MaxPool - 1) : g[i] = 0
  BY <1>1 DEF EmptyCu, EmptyReserve
<1>5. UnpooledLoad(EmptyCu, Channels) = SumTo(f, NumChannels) /\ AllReserved(EmptyCu) = SumTo(g, MaxPool)
  BY DEF UnpooledLoad, AllReserved
<1> HIDE DEF f, g
<1>6. UnpooledLoad(EmptyCu, Channels) = 0 /\ AllReserved(EmptyCu) = 0
  BY <1>1, <1>3, <1>4, <1>5, SumOfZeros
<1>7. EmptyCu.totalUsed = 0 /\ EmptyCu.totalReserved = 0
  BY DEF EmptyCu
<1>8. CuBalanced(EmptyCu)
  BY <1>2, <1>6, <1>7 DEF CuBalanced
<1>9. \A p \in PoolIds : EmptyCu.reserves[p] = EmptyReserve
  BY DEF EmptyCu
<1>10. \A k \in Channels : EmptyCu.channels[k] = FreeChannel
  BY DEF EmptyCu
<1>11. LoadsRight(EmptyCu, last)
  BY <1>7, <1>8, <1>9, <1>10, CuAssumption DEF LoadsRight, EmptyReserve, FreeChannel
<1> QED BY <1>2, <1>11 DEF Vacant

----------------------------------------------------------------------------
(* allocChanClientFromCu: the load of the new channel is counted once,     *)
(* with the default pool or with the reservation it comes from.            *)
LEMMA AllocLoadsRight ==
  ASSUME NEW cu \in CuType, CuIndexed(cu), NEW last, LoadsRight(cu, last),
         NEW c \in Clients, NEW pool \in {NoPool} \cup PoolIds, NEW load \in 0 .. MaxLoad,
         CanAllocChan(cu, pool, load), last \in Nat
  PROVE  LoadsRight(AllocChanClientFromCu(cu, c, pool, load), last)
<1> DEFINE new == AllocChanClientFromCu(cu, c, pool, load)
           k == ChannelFor(cu)
           ch == [client |-> c, pool |-> pool, load |-> load]
           reserving == IsReservePoolUsingCu(cu, pool)
<1>1. k \in Channels /\ cu.channels[k].load = 0
  BY ChannelForIsFree DEF CanAllocChan, CuIndexed
<1>2. new \in CuType /\ ch \in ChannelType /\ load \in Nat /\ load > 0 /\ MaxLoad \in Nat
  <2>1. new \in CuType
    BY AllocChanType
  <2>2. ch \in ChannelType
    BY DEF ChannelType
  <2>3. load \in Nat /\ load > 0 /\ MaxLoad \in Nat
    BY CuAssumption DEF CanAllocChan
  <2> QED BY <2>1, <2>2, <2>3
<1>3. /\ new.channels = [cu.channels EXCEPT ![k] = ch]
      /\ new.totalUsed = IF pool = NoPool THEN cu.totalUsed + load ELSE cu.totalUsed
      /\ new.totalReserved = cu.totalReserved
      /\ new.reserves = IF pool = NoPool THEN cu.reserves
            ELSE [cu.reserves EXCEPT ![pool].used = cu.reserves[pool].used + load]
  BY DEF AllocChanClientFromCu, CuType
<1>4. \A p \in PoolIds : cu.reserves[p] \in ReserveType
  BY DEF CuType
<1>5. \A p \in PoolIds : /\ new.reserves[p].client = cu.reserves[p].client
                         /\ new.reserves[p].load = cu.reserves[p].load
                         /\ new.reserves[p].used = IF p = pool THEN cu.reserves[p].used + load
                                                    ELSE cu.reserves[p].used
                         /\ p # pool => new.reserves[p] = cu.reserves[p]
  <2>0. cu.reserves = [p \in PoolIds |-> cu.reserves[p]] /\ NoPool \notin PoolIds
    BY CuAssumption DEF CuType, PoolIds
  <2> HIDE DEF new
  <2>1. CASE pool = NoPool
    BY <1>3, <2>0, <2>1
  <2>2. CASE pool # NoPool
    BY <1>3, <1>4, <2>0, <2>2 DEF ReserveType
  <2> QED BY <2>1, <2>2
<1>6. pool # NoPool => reserving /\ cu.reserves[pool].used + load <= cu.reserves[pool].load
  BY DEF CanAllocChan
<1>7. pool = NoPool => ~reserving /\ cu.totalUsed + load <= MaxLoad
  BY CuAssumption DEF CanAllocChan, IsReservePoolUsingCu, PoolIds
<1>8. SameReservers(cu, new)
  BY <1>5 DEF SameReservers, IsReservePoolUsingCu
<1>9. ReservingPools(new) = ReservingPools(cu)
  BY <1>8 DEF SameReservers, ReservingPools
<1>10. AllReserved(new) = AllReserved(cu)
  BY <1>2, <1>5, ReservesSame
<1> HIDE DEF k, new
<1>11. /\ \A p : LoadIn(new, Channels, p)
                   = LoadIn(cu, Channels, p) + (IF ch.pool = p THEN ch.load ELSE 0)
       /\ UnpooledLoad(new, Channels)
            = UnpooledLoad(cu, Channels) + (IF IsReservePoolUsingCu(cu, ch.pool) THEN 0 ELSE ch.load)
  BY <1>1, <1>2, <1>3, <1>8, ChannelTaken
<1>12. /\ \A p : LoadIn(new, Channels, p) = LoadIn(cu, Channels, p) + (IF pool = p THEN load ELSE 0)
       /\ UnpooledLoad(new, Channels) = UnpooledLoad(cu, Channels) + (IF reserving THEN 0 ELSE load)
  BY <1>11
<1>13. /\ cu.totalReserved = AllReserved(cu)
       /\ cu.totalUsed = UnpooledLoad(cu, Channels) + AllReserved(cu)
       /\ \A p \in ReservingPools(cu) : cu.reserves[p].used = LoadIn(cu, Channels, p)
       /\ cu.totalUsed <= MaxLoad
  BY DEF LoadsRight, CuBalanced
<1>14. AllReserved(cu) \in Nat /\ UnpooledLoad(cu, Channels) \in Nat
       /\ \A p : LoadIn(cu, Channels, p) \in Nat
  BY LoadsNatural
<1>15. new.totalUsed = UnpooledLoad(new, Channels) + AllReserved(new) /\ new.totalUsed <= MaxLoad
  <2> HIDE DEF reserving
  <2>1. CASE pool = NoPool
    BY <1>2, <1>3, <1>7, <1>10, <1>12, <1>13, <1>14, <2>1
  <2>2. CASE pool # NoPool
    BY <1>2, <1>3, <1>6, <1>10, <1>12, <1>13, <1>14, <2>2
  <2> QED BY <2>1, <2>2
<1>16. \A p \in ReservingPools(new) : new.reserves[p].used = LoadIn(new, Channels, p)
  <2> TAKE p \in ReservingPools(new)
  <2>1. p \in ReservingPools(cu) /\ p \in PoolIds
    BY <1>9 DEF ReservingPools
  <2> QED BY <1>2, <1>5, <1>12, <1>13, <1>14, <2>1
<1>17. CuBalanced(new)
  BY <1>3, <1>10, <1>13, <1>15, <1>16 DEF CuBalanced
<1>18. ASSUME NEW p \in PoolIds
       PROVE  /\ new.reserves[p].used <= new.reserves[p].load
              /\ IF new.reserves[p].client = NoClient
                 THEN new.reserves[p] = EmptyReserve
                 ELSE new.reserves[p].load > 0 /\ p <= last
  <2>1. /\ cu.reserves[p].used <= cu.reserves[p].load
        /\ IF cu.reserves[p].client = NoClient
           THEN cu.reserves[p] = EmptyReserve
           ELSE cu.reserves[p].load > 0 /\ p <= last
    BY DEF LoadsRight
  <2>2. CASE p = pool
    <3>1. reserving /\ pool # NoPool
      BY <1>6, <2>2, CuAssumption DEF PoolIds
    <3> QED BY <1>5, <1>6, <2>1, <2>2, <3>1 DEF IsReservePoolUsingCu
  <2>3. CASE p # pool
    BY <1>5, <2>1, <2>3
  <2> QED BY <2>2, <2>3
<1>19. ASSUME NEW j \in Channels
       PROVE  /\ new.channels[j].client = NoClient => new.channels[j] = FreeChannel
              /\ new.channels[j].pool <= last
  <2>1. new.channels[j] = IF j = k THEN ch ELSE cu.channels[j]
    BY <1>1, <1>3 DEF CuType
  <2>2. /\ cu.channels[j].client = NoClient => cu.channels[j] = FreeChannel
        /\ cu.channels[j].pool <= last
    BY DEF LoadsRight
  <2>3. pool <= last
    <3>1. CASE pool = NoPool
      BY <3>1
    <3>2. CASE pool # NoPool
      <4>1. pool \in PoolIds /\ cu.reserves[pool].client # NoClient
        BY <1>6, <3>2 DEF IsReservePoolUsingCu
      <4> QED BY <4>1 DEF LoadsRight
    <3> QED BY <3>1, <3>2
  <2>4. ch.pool = pool /\ ch.client = c /\ c # NoClient
    BY CuAssumption
  <2> HIDE DEF ch
  <2> QED BY <2>1, <2>2, <2>3, <2>4
<1> HIDE DEF ch, reserving
<1>20. LoadsRight(new, last)
  BY <1>15, <1>17, <1>18, <1>19 DEF LoadsRight
<1> QED BY <1>20 DEF new

(* Freeing channels: each load goes back to where it is counted, to the    *)
(* pool as long as it has its reservation here.                            *)
LEMMA FreeLoadsRight ==
  ASSUME NEW cu \in CuType, NEW last, last \in Nat, LoadsRight(cu, last), NEW K \in SUBSET Channels,
         NEW D
  PROVE  /\ LoadsRight([FreeChannels(cu, K) EXCEPT !.clients = @ \ D], last)
         /\ [FreeChannels(cu, K) EXCEPT !.clients = @ \ D] \in CuType
         /\ \A p \in PoolIds :
              LET r == [FreeChannels(cu, K) EXCEPT !.clients = @ \ D].reserves[p]
              IN  r.client = cu.reserves[p].client /\ r.load = cu.reserves[p].load
<1> DEFINE free == FreeChannels(cu, K)
           new == [free EXCEPT !.clients = @ \ D]
<1>1. free \in CuType
  BY FreeChannelsType
<1>2. /\ free.channels = [k \in Channels |-> IF k \in K THEN FreeChannel ELSE cu.channels[k]]
      /\ free.totalUsed = cu.totalUsed - UnpooledLoad(cu, K)
      /\ free.totalReserved = cu.totalReserved
      /\ free.reserves = [p \in PoolIds |->
            IF IsReservePoolUsingCu(cu, p)
            THEN [cu.reserves[p] EXCEPT !.used = cu.reserves[p].used - LoadIn(cu, K, p)]
            ELSE cu.reserves[p]]
  BY DEF FreeChannels, CuType
<1> HIDE DEF free
<1>3. /\ new \in CuType
      /\ new.channels = free.channels
      /\ new.totalUsed = free.totalUsed
      /\ new.totalReserved = free.totalReserved
      /\ new.reserves = free.reserves
  BY <1>1 DEF CuType
<1> HIDE DEF new
<1>4. \A p \in PoolIds : cu.reserves[p] \in ReserveType
  BY DEF CuType
<1>5. \A p \in PoolIds :
         /\ new.reserves[p].client = cu.reserves[p].client
         /\ new.reserves[p].load = cu.reserves[p].load
         /\ IsReservePoolUsingCu(cu, p)
               => new.reserves[p].used = cu.reserves[p].used - LoadIn(cu, K, p)
         /\ ~IsReservePoolUsingCu(cu, p) => new.reserves[p] = cu.reserves[p]
  BY <1>2, <1>3, <1>4 DEF ReserveType
<1>6. SameReservers(cu, new)
  BY <1>5 DEF SameReservers, IsReservePoolUsingCu
<1>7. ReservingPools(new) = ReservingPools(cu)
  BY <1>6 DEF SameReservers, ReservingPools
<1>8. AllReserved(new) = AllReserved(cu)
  BY <1>3, <1>5, ReservesSame
<1>9. /\ \A p : LoadIn(cu, Channels, p) = LoadIn(cu, K, p) + LoadIn(new, Channels, p)
      /\ UnpooledLoad(cu, Channels) = UnpooledLoad(cu, K) + UnpooledLoad(new, Channels)
  BY <1>2, <1>3, <1>6, ChannelsFreed
<1>10. /\ cu.totalReserved = AllReserved(cu)
       /\ cu.totalUsed = UnpooledLoad(cu, Channels) + AllReserved(cu)
       /\ \A p \in ReservingPools(cu) : cu.reserves[p].used = LoadIn(cu, Channels, p)
       /\ cu.totalUsed <= MaxLoad
  BY DEF LoadsRight, CuBalanced
<1>11. /\ AllReserved(cu) \in Nat /\ UnpooledLoad(cu, K) \in Nat /\ MaxLoad \in Nat
       /\ UnpooledLoad(new, Channels) \in Nat
       /\ \A p : LoadIn(cu, K, p) \in Nat /\ LoadIn(new, Channels, p) \in Nat
  BY <1>3, LoadsNatural, CuAssumption
<1>12. new.totalUsed = UnpooledLoad(new, Channels) + AllReserved(new) /\ new.totalUsed <= MaxLoad
  BY <1>2, <1>3, <1>8, <1>9, <1>10, <1>11
<1>13. \A p \in ReservingPools(new) : new.reserves[p].used = LoadIn(new, Channels, p)
  <2> TAKE p \in ReservingPools(new)
  <2>1. p \in ReservingPools(cu) /\ p \in PoolIds /\ IsReservePoolUsingCu(cu, p)
    BY <1>7 DEF ReservingPools
  <2> QED BY <1>5, <1>9, <1>10, <1>11, <2>1
<1>14. CuBalanced(new)
  BY <1>2, <1>3, <1>8, <1>10, <1>12, <1>13 DEF CuBalanced
<1>15. ASSUME NEW p \in PoolIds
       PROVE  /\ new.reserves[p].used <= new.reserves[p].load
              /\ IF new.reserves[p].client = NoClient
                 THEN new.reserves[p] = EmptyReserve
                 ELSE new.reserves[p].load > 0 /\ p <= last
  <2>1. /\ cu.reserves[p].used <= cu.reserves[p].load
        /\ IF cu.reserves[p].client = NoClient
           THEN cu.reserves[p] = EmptyReserve
           ELSE cu.reserves[p].load > 0 /\ p <= last
    BY DEF LoadsRight
  <2>2. LoadIn(cu, K, p) \in Nat /\ cu.reserves[p].used \in Nat /\ cu.reserves[p].load \in Nat
    BY <1>11, SlotsRight
  <2> QED BY <1>5, <2>1, <2>2 DEF IsReservePoolUsingCu
<1>16. ASSUME NEW j \in Channels
       PROVE  /\ new.channels[j].client = NoClient => new.channels[j] = FreeChannel
              /\ new.channels[j].pool <= last
  BY <1>2, <1>3 DEF LoadsRight, FreeChannel
<1>17. LoadsRight(new, last)
  BY <1>12, <1>14, <1>15, <1>16 DEF LoadsRight
<1> QED BY <1>3, <1>5, <1>17 DEF new, free

(* resReleaseCu, and releaseAllCuChanClientOnDev. *)
LEMMA ReleaseChanRight ==
  ASSUME NEW cu \in CuType, NEW last \in Nat, LoadsRight(cu, last), NEW c, NEW k \in Channels
  PROVE  LoadsRight(ReleaseChan(cu, c, k), last)
<1>1. {k} \in SUBSET Channels
  OBVIOUS
<1> QED BY <1>1, FreeLoadsRight DEF ReleaseChan

LEMMA ReleaseAllChansRight ==
  ASSUME NEW cu \in CuType, NEW last \in Nat, LoadsRight(cu, last), NEW C
  PROVE  /\ LoadsRight(ReleaseAllChans(cu, C), last)
         /\ \A p \in PoolIds :
               /\ ReleaseAllChans(cu, C).reserves[p].client = cu.reserves[p].client
               /\ ReleaseAllChans(cu, C).reserves[p].load = cu.reserves[p].load
<1> DEFINE D == C \cap cu.clients
           K == UNION {ChannelsOf(cu, c) : c \in D}
<1>1. K \in SUBSET Channels
  BY DEF ChannelsOf
<1>2. ReleaseAllChans(cu, C) = [FreeChannels(cu, K) EXCEPT !.clients = @ \ D]
  BY DEF ReleaseAllChans
<1> DEFINE new == [FreeChannels(cu, K) EXCEPT !.clients = @ \ D]
<1> HIDE DEF D, K
<1>3. /\ LoadsRight(new, last)
      /\ \A p \in PoolIds : /\ new.reserves[p].client = cu.reserves[p].client
                             /\ new.reserves[p].load = cu.reserves[p].load
  BY <1>1, FreeLoadsRight
<1> QED BY <1>2, <1>3

----------------------------------------------------------------------------
(* No channel carries pool p: it is an id that is still to come, or one    *)
(* handed out in this very call.                                           *)
NoneCarries(cu, p) == \A k \in Channels : cu.channels[k].pool # p

LEMMA NothingCarried ==
  ASSUME NEW cu \in CuType, NEW p, NoneCarries(cu, p)
  PROVE  LoadIn(cu, Channels, p) = 0
<1> DEFINE f == [k \in Channels |-> IF k \in Channels /\ cu.channels[k].pool = p
                                    THEN cu.channels[k].load ELSE 0]
<1>1. NumChannels \in Nat /\ Channels = 0 .. (NumChannels - 1)
  BY LoadArrays
<1>2. \A k \in 0 .. (NumChannels - 1) : f[k] = 0
  BY <1>1 DEF NoneCarries
<1>3. LoadIn(cu, Channels, p) = SumTo(f, NumChannels)
  BY DEF LoadIn
<1> HIDE DEF f
<1> QED BY <1>1, <1>2, <1>3, SumOfZeros

(* Pool ids are still to come while they are above the last one. *)
LEMMA LaterRight ==
  ASSUME NEW cu \in CuType, NEW last \in Nat, NEW top \in Nat, last <= top, LoadsRight(cu, last)
  PROVE  LoadsRight(cu, top)
<1>1. \A p \in PoolIds : p \in Nat
  BY CuAssumption DEF PoolIds
<1>2. \A k \in Channels : cu.channels[k].pool \in Nat
  BY <1>1, LoadArrays
<1>3. \A p \in PoolIds : p <= last => p <= top
  BY <1>1
<1>4. \A k \in Channels : cu.channels[k].pool <= top
  BY <1>2 DEF LoadsRight
<1> QED BY <1>3, <1>4 DEF LoadsRight

LEMMA NextNotCarried ==
  ASSUME NEW cu \in CuType, NEW last \in Nat, LoadsRight(cu, last)
  PROVE  NoneCarries(cu, last + 1)
<1>1. \A k \in Channels : cu.channels[k].pool \in Nat
  BY LoadArrays
<1> QED BY <1>1 DEF LoadsRight, NoneCarries

(* A pool id that was not used up is still to come.                        *)
LEMMA AnnulledRight ==
  ASSUME NEW cu \in CuType, NEW last \in Nat, LoadsRight(cu, last + 1), NoneCarries(cu, last + 1),
         last + 1 \in PoolIds, ~IsReservePoolUsingCu(cu, last + 1)
  PROVE  LoadsRight(cu, last)
<1>1. \A p \in PoolIds : p \in Nat
  BY CuAssumption DEF PoolIds
<1>2. \A k \in Channels : cu.channels[k].pool \in Nat
  BY <1>1, LoadArrays
<1>3. \A p \in PoolIds : cu.reserves[p].client # NoClient => p <= last + 1 /\ p # last + 1
  BY DEF LoadsRight, IsReservePoolUsingCu
<1>4. \A p \in PoolIds : cu.reserves[p].client # NoClient => p <= last
  BY <1>1, <1>3
<1>5. \A k \in Channels : cu.channels[k].pool <= last
  BY <1>2 DEF LoadsRight, NoneCarries
<1> QED BY <1>4, <1>5 DEF LoadsRight

(* reserveLoadFromCu: the load is counted with the pool's slot, in both    *)
(* totals; a new slot has nothing used, as no channel carries its pool.    *)
LEMMA ReserveLoadsRight ==
  ASSUME NEW cu \in CuType, NEW last \in Nat, LoadsRight(cu, last), NEW c \in Clients,
         NEW pool \in PoolIds, pool <= last, NEW load \in 0 .. MaxLoad,
         CanReserve(cu, pool, load), NoneCarries(cu, pool)
  PROVE  LoadsRight(ReserveLoadFromCu(cu, pool, c, load), last)
<1> DEFINE new == ReserveLoadFromCu(cu, pool, c, load)
           slot == IF IsReservePoolUsingCu(cu, pool)
                   THEN [cu.reserves[pool] EXCEPT !.load = cu.reserves[pool].load + load]
                   ELSE [client |-> c, load |-> load, used |-> 0]
<1>1. new \in CuType /\ new.channels = cu.channels
  BY ReserveSafe DEF SameChannels
<1>2. /\ new.totalUsed = cu.totalUsed + load
      /\ new.totalReserved = cu.totalReserved + load
      /\ new.reserves = [cu.reserves EXCEPT ![pool] = slot]
  BY DEF ReserveLoadFromCu, CuType
<1> HIDE DEF new
<1>3. \A p \in PoolIds : new.reserves[p] = IF p = pool THEN slot ELSE cu.reserves[p]
  BY <1>2 DEF CuType
<1>4. /\ cu.reserves[pool] \in ReserveType
      /\ cu.reserves[pool].used \in Nat /\ cu.reserves[pool].load \in Nat
      /\ cu.reserves[pool].used <= cu.reserves[pool].load
      /\ IsReservePoolUsingCu(cu, pool) => cu.reserves[pool].used = LoadIn(cu, Channels, pool)
      /\ ~IsReservePoolUsingCu(cu, pool) => cu.reserves[pool] = EmptyReserve
  BY SlotsRight DEF CuType
<1>5. load \in Nat /\ load > 0 /\ cu.totalUsed + load <= MaxLoad
  BY CuAssumption DEF CanReserve
<1>6. /\ slot.client # NoClient
      /\ slot.load = cu.reserves[pool].load + load
      /\ slot.used = cu.reserves[pool].used
  BY <1>4, <1>5, CuAssumption DEF EmptyReserve, ReserveType, IsReservePoolUsingCu
<1> HIDE DEF slot
<1>7. LoadIn(cu, Channels, pool) = 0 /\ slot.used = 0
  BY <1>4, <1>6, NothingCarried DEF EmptyReserve
<1>8. AllReserved(new) = AllReserved(cu) + load
  <2>1. AllReserved(new) = AllReserved(cu) + (new.reserves[pool].load - cu.reserves[pool].load)
    BY <1>1, <1>3, ReservesChanged
  <2>2. new.reserves[pool].load - cu.reserves[pool].load = load
    BY <1>3, <1>4, <1>5, <1>6
  <2> QED BY <2>1, <2>2
<1>9. /\ \A p : LoadIn(new, Channels, p) = LoadIn(cu, Channels, p)
      /\ UnpooledLoad(new, Channels) = UnpooledLoad(cu, Channels)
  <2>1. \A k \in Channels : IsReservePoolUsingCu(new, cu.channels[k].pool)
                                <=> IsReservePoolUsingCu(cu, cu.channels[k].pool)
    BY <1>3 DEF IsReservePoolUsingCu, NoneCarries
  <2> QED BY <1>1, <2>1, LoadsUnchanged
<1>10. /\ cu.totalReserved = AllReserved(cu)
       /\ cu.totalUsed = UnpooledLoad(cu, Channels) + AllReserved(cu)
       /\ \A p \in ReservingPools(cu) : cu.reserves[p].used = LoadIn(cu, Channels, p)
  BY DEF LoadsRight, CuBalanced
<1>11. AllReserved(cu) \in Nat /\ UnpooledLoad(cu, Channels) \in Nat
  BY LoadsNatural
<1>12. \A p \in ReservingPools(new) : new.reserves[p].used = LoadIn(new, Channels, p)
  <2> TAKE p \in ReservingPools(new)
  <2>1. p \in PoolIds /\ new.reserves[p].client # NoClient
    BY DEF ReservingPools, IsReservePoolUsingCu
  <2>2. p # pool => p \in ReservingPools(cu)
    BY <1>3, <2>1 DEF ReservingPools, IsReservePoolUsingCu
  <2> QED BY <1>3, <1>7, <1>9, <1>10, <2>1, <2>2
<1>13. CuBalanced(new)
  BY <1>2, <1>5, <1>8, <1>9, <1>10, <1>11, <1>12 DEF CuBalanced
<1>14. new.totalUsed <= MaxLoad
  BY <1>2, <1>5
<1>15. ASSUME NEW p \in PoolIds
       PROVE  /\ new.reserves[p].used <= new.reserves[p].load
              /\ IF new.reserves[p].client = NoClient
                 THEN new.reserves[p] = EmptyReserve
                 ELSE new.reserves[p].load > 0 /\ p <= last
  <2>1. CASE p = pool
    BY <1>3, <1>4, <1>5, <1>6, <2>1
  <2>2. CASE p # pool
    BY <1>3, <2>2 DEF LoadsRight
  <2> QED BY <2>1, <2>2
<1>16. LoadsRight(new, last)
  BY <1>1, <1>13, <1>14, <1>15 DEF LoadsRight
<1> QED BY <1>16 DEF new

(* resRelinquishCuList on one CU: an unused reservation goes without a     *)
(* trace, for no channel carries its pool.                                 *)
LEMMA RelinquishLoadsRight ==
  ASSUME NEW cu \in CuType, NEW last \in Nat, LoadsRight(cu, last), NEW pool \in PoolIds,
         IsReservePoolUsingCu(cu, pool), cu.reserves[pool].used = 0
  PROVE  /\ LoadsRight(RelinquishOnCu(cu, pool), last)
         /\ ~IsReservePoolUsingCu(RelinquishOnCu(cu, pool), pool)
<1> DEFINE new == RelinquishOnCu(cu, pool)
           P == {pool}
           carried == [i \in 0 .. MaxPool - 1 |-> IF i + 1 \in P
                                                  THEN LoadIn(cu, Channels, i + 1) ELSE 0]
<1>1. new \in CuType /\ new.channels = cu.channels
  BY RelinquishSafe DEF SameChannels
<1>2. /\ new.totalUsed = cu.totalUsed - cu.reserves[pool].load
      /\ new.totalReserved = cu.totalReserved - cu.reserves[pool].load
      /\ new.reserves = [cu.reserves EXCEPT ![pool] = EmptyReserve]
  BY DEF RelinquishOnCu, CuType
<1> HIDE DEF new
<1>3. \A p \in PoolIds : new.reserves[p] = IF p = pool THEN EmptyReserve ELSE cu.reserves[p]
  BY <1>2 DEF CuType
<1>4. cu.reserves[pool].load \in Nat /\ LoadIn(cu, Channels, pool) = 0
  BY SlotsRight
<1>5. P \in SUBSET ReservingPools(cu) /\ ReservingPools(new) = ReservingPools(cu) \ P
  BY <1>3 DEF ReservingPools, IsReservePoolUsingCu, EmptyReserve
<1>6. AllReserved(new) = AllReserved(cu) - cu.reserves[pool].load
  <2>1. AllReserved(new) = AllReserved(cu) + (new.reserves[pool].load - cu.reserves[pool].load)
    BY <1>1, <1>3, ReservesChanged
  <2>2. new.reserves[pool].load = 0
    BY <1>3 DEF EmptyReserve
  <2>3. AllReserved(cu) \in Nat
    BY LoadsNatural
  <2> QED BY <1>4, <2>1, <2>2, <2>3
<1>7. UnpooledLoad(new, Channels) = UnpooledLoad(cu, Channels) + SumTo(carried, MaxPool)
  <2>1. \A i \in 0 .. (MaxPool - 1) :
           carried[i] = IF i + 1 \in P THEN LoadIn(cu, Channels, i + 1) ELSE 0
    OBVIOUS
  <2> HIDE DEF P, carried
  <2>2. P \in SUBSET ReservingPools(cu) /\ ReservingPools(new) = ReservingPools(cu) \ P
    BY <1>5
  <2>3. new \in CuType /\ new.channels = cu.channels
    BY <1>1
  <2> QED BY <2>1, <2>2, <2>3, PoolsDropped, SMTT(60)
<1>8. SumTo(carried, MaxPool) = 0
  <2>1. MaxPool \in Nat
    BY CuAssumption
  <2>2. ASSUME NEW i \in 0 .. (MaxPool - 1) PROVE carried[i] = 0
    <3>1. CASE i + 1 = pool
      BY <1>4, <3>1
    <3>2. CASE i + 1 # pool
      BY <3>2
    <3> QED BY <3>1, <3>2
  <2> HIDE DEF carried
  <2> QED BY <2>1, <2>2, SumOfZeros
<1> HIDE DEF carried
<1>9. /\ cu.totalReserved = AllReserved(cu)
      /\ cu.totalUsed = UnpooledLoad(cu, Channels) + AllReserved(cu)
      /\ \A p \in ReservingPools(cu) : cu.reserves[p].used = LoadIn(cu, Channels, p)
      /\ cu.totalUsed <= MaxLoad
  BY DEF LoadsRight, CuBalanced
<1>10. /\ AllReserved(cu) \in Nat /\ UnpooledLoad(cu, Channels) \in Nat /\ MaxLoad \in Nat
       /\ \A p : LoadIn(new, Channels, p) = LoadIn(cu, Channels, p)
  BY <1>1, LoadsNatural, LoadsUnchanged, CuAssumption
<1>11. \A p \in ReservingPools(new) : new.reserves[p].used = LoadIn(new, Channels, p)
  BY <1>3, <1>5, <1>9, <1>10 DEF ReservingPools
<1>12. CuBalanced(new) /\ new.totalUsed <= MaxLoad
  <2>1. new.totalReserved = AllReserved(new)
    BY <1>2, <1>6, <1>9
  <2>2. UnpooledLoad(new, Channels) = UnpooledLoad(cu, Channels)
    BY <1>7, <1>8, <1>10
  <2>3. /\ new.totalUsed = UnpooledLoad(new, Channels) + AllReserved(new)
        /\ new.totalUsed <= MaxLoad
    BY <1>2, <1>4, <1>6, <1>9, <1>10, <2>2
  <2> QED BY <1>11, <2>1, <2>3 DEF CuBalanced
<1>13. \A p \in PoolIds :
          /\ new.reserves[p].used <= new.reserves[p].load
          /\ IF new.reserves[p].client = NoClient
             THEN new.reserves[p] = EmptyReserve
             ELSE new.reserves[p].load > 0 /\ p <= last
  BY <1>3 DEF LoadsRight, EmptyReserve
<1>14. LoadsRight(new, last)
  BY <1>1, <1>12, <1>13 DEF LoadsRight
<1>15. ~IsReservePoolUsingCu(new, pool)
  BY <1>3 DEF IsReservePoolUsingCu, EmptyReserve
<1> QED BY <1>14, <1>15 DEF new

(* recycleResource on one CU: what the clients in C reserved and did not   *)
(* allocate returns to the default pool; what is allocated from a pool     *)
(* that goes is no pool's any more, and stays in totalUsed.                *)
LEMMA DropLoadsRight ==
  ASSUME NEW cu \in CuType, NEW last \in Nat, LoadsRight(cu, last), NEW C \in SUBSET Clients
  PROVE  /\ LoadsRight(DropReservesOf(cu, C), last)
         /\ \A p \in PoolIds : DropReservesOf(cu, C).reserves[p].client
                                 = IF cu.reserves[p].client \in C THEN NoClient
                                   ELSE cu.reserves[p].client
<1> DEFINE gone == {p \in PoolIds : cu.reserves[p].client \in C}
           f == [i \in 0 .. MaxPool - 1 |-> IF i + 1 \in gone THEN cu.reserves[i + 1].load ELSE 0]
           g == [i \in 0 .. MaxPool - 1 |-> IF i + 1 \in gone THEN cu.reserves[i + 1].used ELSE 0]
           new == DropReservesOf(cu, C)
           before == [i \in 0 .. MaxPool - 1 |-> cu.reserves[i + 1].load]
           after == [i \in 0 .. MaxPool - 1 |-> new.reserves[i + 1].load]
<1>1. new \in CuType /\ new.channels = cu.channels
  BY DropReservesSafe DEF SameChannels
<1>2. /\ new.totalUsed = cu.totalUsed - (SumTo(f, MaxPool) - SumTo(g, MaxPool))
      /\ new.totalReserved = cu.totalReserved - SumTo(f, MaxPool)
      /\ new.reserves = [p \in PoolIds |-> IF p \in gone THEN EmptyReserve ELSE cu.reserves[p]]
  BY DEF DropReservesOf, CuType
<1>3. AllReserved(cu) = SumTo(before, MaxPool) /\ AllReserved(new) = SumTo(after, MaxPool)
  BY DEF AllReserved
<1> HIDE DEF new
<1>4. \A p \in PoolIds : new.reserves[p] = IF p \in gone THEN EmptyReserve ELSE cu.reserves[p]
  BY <1>2
<1>5. gone \in SUBSET ReservingPools(cu) /\ ReservingPools(new) = ReservingPools(cu) \ gone
  BY <1>4, CuAssumption DEF ReservingPools, IsReservePoolUsingCu, EmptyReserve
<1>6. \A p \in PoolIds : /\ cu.reserves[p].used \in Nat /\ cu.reserves[p].load \in Nat
                         /\ cu.reserves[p].used <= cu.reserves[p].load
                         /\ p \in gone => cu.reserves[p].used = LoadIn(cu, Channels, p)
  BY <1>5, SlotsRight DEF ReservingPools
<1>7. MaxPool \in Nat /\ \A i \in 0 .. (MaxPool - 1) : i + 1 \in PoolIds
  BY LoadArrays
<1>8. ASSUME NEW i \in 0 .. (MaxPool - 1)
      PROVE  /\ f[i] \in Nat /\ g[i] \in Nat /\ g[i] <= f[i]
             /\ g[i] = IF i + 1 \in gone THEN LoadIn(cu, Channels, i + 1) ELSE 0
             /\ after[i] \in Nat /\ before[i] = f[i] + after[i]
  <2> HIDE DEF gone
  <2>1. i + 1 \in PoolIds
    BY <1>7
  <2>2. /\ f[i] = IF i + 1 \in gone THEN cu.reserves[i + 1].load ELSE 0
        /\ g[i] = IF i + 1 \in gone THEN cu.reserves[i + 1].used ELSE 0
        /\ before[i] = cu.reserves[i + 1].load
        /\ after[i] = new.reserves[i + 1].load
    OBVIOUS
  <2> HIDE DEF f, g, before, after
  <2>3. CASE i + 1 \in gone
    BY <1>4, <1>6, <2>1, <2>2, <2>3 DEF EmptyReserve
  <2>4. CASE i + 1 \notin gone
    BY <1>4, <1>6, <2>1, <2>2, <2>4
  <2> QED BY <2>3, <2>4
<1> HIDE DEF f, g, before, after, gone
<1>9. UnpooledLoad(new, Channels) = UnpooledLoad(cu, Channels) + SumTo(g, MaxPool)
  <2>1. \A i \in 0 .. (MaxPool - 1) :
           g[i] = IF i + 1 \in gone THEN LoadIn(cu, Channels, i + 1) ELSE 0
    BY <1>8
  <2> QED BY <1>1, <1>5, <2>1, PoolsDropped
<1>10. AllReserved(cu) = SumTo(f, MaxPool) + AllReserved(new)
  <2>1. \A i \in 0 .. (MaxPool - 1) : f[i] \in Int /\ after[i] \in Int /\ before[i] = f[i] + after[i]
    BY <1>8
  <2>2. MaxPool \in Nat
    BY <1>7
  <2>3. SumTo(before, MaxPool) = SumTo(f, MaxPool) + SumTo(after, MaxPool)
    BY <2>1, <2>2, SumAdd
  <2> QED BY <1>3, <2>3
<1>11. SumTo(f, MaxPool) \in Int /\ SumTo(g, MaxPool) \in Int /\ SumTo(g, MaxPool) <= SumTo(f, MaxPool)
  <2>1. \A i \in 0 .. (MaxPool - 1) : f[i] \in Int /\ g[i] \in Int /\ g[i] <= f[i]
    BY <1>8
  <2>2. MaxPool \in Nat
    BY <1>7
  <2> QED BY <2>1, <2>2, SumType, SumMonotone
<1>12. /\ cu.totalReserved = AllReserved(cu)
       /\ cu.totalUsed = UnpooledLoad(cu, Channels) + AllReserved(cu)
       /\ \A p \in ReservingPools(cu) : cu.reserves[p].used = LoadIn(cu, Channels, p)
       /\ cu.totalUsed <= MaxLoad
  BY DEF LoadsRight, CuBalanced
<1>13. /\ AllReserved(new) \in Nat /\ UnpooledLoad(cu, Channels) \in Nat /\ MaxLoad \in Nat
       /\ \A p : LoadIn(new, Channels, p) = LoadIn(cu, Channels, p)
  BY <1>1, LoadsNatural, LoadsUnchanged, CuAssumption
<1>14. \A p \in ReservingPools(new) : new.reserves[p].used = LoadIn(new, Channels, p)
  <2> TAKE p \in ReservingPools(new)
  <2>1. p \in PoolIds /\ p \in ReservingPools(cu) /\ p \notin gone
    BY <1>5 DEF ReservingPools
  <2> QED BY <1>4, <1>12, <1>13, <2>1
<1>15. CuBalanced(new) /\ new.totalUsed <= MaxLoad
  <2>1. new.totalReserved = AllReserved(new)
    BY <1>2, <1>10, <1>11, <1>12, <1>13
  <2>2. /\ new.totalUsed = UnpooledLoad(new, Channels) + AllReserved(new)
        /\ new.totalUsed <= MaxLoad
    BY <1>2, <1>9, <1>10, <1>11, <1>12, <1>13
  <2> QED BY <1>14, <2>1, <2>2 DEF CuBalanced
<1>16. \A p \in PoolIds :
          /\ new.reserves[p].used <= new.reserves[p].load
          /\ IF new.reserves[p].client = NoClient
             THEN new.reserves[p] = EmptyReserve
             ELSE new.reserves[p].load > 0 /\ p <= last
  BY <1>4 DEF LoadsRight, EmptyReserve
<1>17. LoadsRight(new, last)
  BY <1>1, <1>15, <1>16 DEF LoadsRight
<1>18. \A p \in PoolIds : new.reserves[p].client = IF cu.reserves[p].client \in C THEN NoClient
                                                   ELSE cu.reserves[p].client
  BY <1>4 DEF gone, EmptyReserve
<1> QED BY <1>17, <1>18 DEF new

----------------------------------------------------------------------------
(* Recycling leaves a CU vacant on which nobody holds anything. *)
LEMMA RecycledVacant ==
  ASSUME NEW cu \in CuType, CuIndexed(cu), NEW last \in Nat, LoadsRight(cu, last), Vacant(cu),
         NEW C \in SUBSET Clients, NEW D \in SUBSET Clients
  PROVE  Vacant(ReleaseAllChans(DropReservesOf(cu, C), D))
<1> DEFINE drop == DropReservesOf(cu, C)
           new == ReleaseAllChans(drop, D)
<1>1. /\ drop \in CuType /\ SameChannels(cu, drop) /\ LoadsRight(drop, last)
      /\ \A p \in PoolIds : drop.reserves[p].client
                              = IF cu.reserves[p].client \in C THEN NoClient
                                ELSE cu.reserves[p].client
  BY DropReservesSafe, DropLoadsRight
<1> HIDE DEF drop
<1>2. CuIndexed(drop) /\ drop.channels = cu.channels
  BY <1>1, SameChannelsIndexed DEF SameChannels
<1>3. /\ new.channels = [k \in Channels |-> IF drop.channels[k].client \in D
                                            THEN FreeChannel ELSE drop.channels[k]]
      /\ \A p \in PoolIds : new.reserves[p].client = drop.reserves[p].client
  BY <1>1, <1>2, ReleaseAllChansSafe, ReleaseAllChansRight
<1> HIDE DEF new
<1>4. BusyChannels(new) = {}
  BY <1>2, <1>3, CuAssumption DEF Vacant, BusyChannels
<1>5. \A p \in PoolIds : new.reserves[p].client = NoClient
  BY <1>1, <1>3 DEF Vacant, ReservingPools, IsReservePoolUsingCu
<1> QED BY <1>4, <1>5 DEF Vacant, ReservingPools, IsReservePoolUsingCu, new, drop

(* An idle CU is vacant: what isDeviceBusy reads in the counter covers     *)
(* everything clients hold.                                                *)
LEMMA IdleVacant ==
  ASSUME NEW cu \in CuType, CuIndexed(cu), NEW last \in Nat, LoadsRight(cu, last),
         cu.totalUsed = 0
  PROVE  Vacant(cu)
<1> DEFINE all == [k \in Channels |-> cu.channels[k].load]
           loads == [i \in 0 .. MaxPool - 1 |-> cu.reserves[i + 1].load]
<1>1. /\ NumChannels \in Nat /\ Channels = 0 .. (NumChannels - 1)
      /\ MaxPool \in Nat /\ PoolIds = 1 .. MaxPool
      /\ \A k \in Channels : cu.channels[k].load \in Nat
      /\ \A p \in PoolIds : cu.reserves[p].load \in Nat
  BY LoadArrays
<1>2. UnpooledLoad(cu, Channels) = 0 /\ AllReserved(cu) = 0
  <2>1. cu.totalUsed = UnpooledLoad(cu, Channels) + AllReserved(cu)
    BY DEF LoadsRight, CuBalanced
  <2>2. UnpooledLoad(cu, Channels) \in Nat /\ AllReserved(cu) \in Nat
    BY LoadsNatural
  <2> QED BY <2>1, <2>2
<1>3. ASSUME NEW p \in ReservingPools(cu) PROVE FALSE
  <2>1. p \in PoolIds /\ cu.reserves[p].load > 0
    BY DEF ReservingPools, IsReservePoolUsingCu, LoadsRight
  <2>2. p - 1 \in 0 .. (MaxPool - 1) /\ loads[p - 1] = cu.reserves[p].load
    BY <1>1, <2>1
  <2>3. \A i \in 0 .. (MaxPool - 1) : loads[i] \in Nat
    BY <1>1
  <2>4. SumTo(loads, MaxPool) = 0
    BY <1>2 DEF AllReserved
  <2>5. MaxPool \in Nat /\ cu.reserves[p].load \in Nat
    BY <1>1, <2>1
  <2> HIDE DEF loads
  <2>6. loads[p - 1] <= SumTo(loads, MaxPool)
    BY <2>2, <2>3, <2>5, SumAtLeast
  <2> QED BY <2>1, <2>2, <2>4, <2>5, <2>6
<1>4. ASSUME NEW k \in BusyChannels(cu) PROVE FALSE
  <2> DEFINE f == [j \in Channels |->
                     IF j \in Channels /\ ~IsReservePoolUsingCu(cu, cu.channels[j].pool)
                     THEN cu.channels[j].load ELSE 0]
  <2>1. k \in 0 .. (NumChannels - 1) /\ k \in Channels /\ cu.channels[k].load # 0
    BY <1>1 DEF CuIndexed, BusyChannels
  <2>2. ~IsReservePoolUsingCu(cu, cu.channels[k].pool)
    BY <1>3 DEF ReservingPools, IsReservePoolUsingCu
  <2>3. f[k] = cu.channels[k].load /\ \A j \in 0 .. (NumChannels - 1) : f[j] \in Nat
    BY <1>1, <2>1, <2>2
  <2>4. SumTo(f, NumChannels) = 0
    BY <1>2 DEF UnpooledLoad
  <2>5. NumChannels \in Nat /\ cu.channels[k].load \in Nat
    BY <1>1, <2>1
  <2> HIDE DEF f
  <2>6. f[k] <= SumTo(f, NumChannels)
    BY <2>1, <2>3, <2>5, SumAtLeast
  <2> QED BY <2>1, <2>3, <2>4, <2>5, <2>6
<1> QED BY <1>3, <1>4 DEF Vacant

=============================================================================
