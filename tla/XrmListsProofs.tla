---------------------------- MODULE XrmListsProofs ----------------------------
(***************************************************************************)
(* For any number of devices, any lists and groups: an allocation of       *)
(* several CUs takes what it reports, of what was free, or leaves nothing  *)
(* behind; and the handles that clients keep name what they were given out *)
(* for, or nothing.                                                        *)
(***************************************************************************)
EXTENDS XrmService, XrmRefinementProofs

(* What every call starts from and keeps. *)
Sound(devs, last) == AllInOrder(devs) /\ AllRight(devs, last)

PortAt(devs, h) == CuAt(devs, h[1]).channels[h[2]]

IsAmong(h, taken) == \E i \in DOMAIN taken : taken[i] = h

(* Client c took the channels in taken, which were free, from the pool,    *)
(* and nothing else has happened to the CUs.                               *)
Took(devs, new, c, pool, taken) ==
    /\ SameXclbins(devs, new)
    /\ \A s \in Slots : SameReserves(CuAt(devs, s), CuAt(new, s))
    /\ \A h \in Ports : ~IsAmong(h, taken) => PortAt(new, h) = PortAt(devs, h)
    /\ \A i \in DOMAIN taken :
          /\ PortAt(devs, taken[i]) = FreeChannel
          /\ PortAt(new, taken[i]).client = c
          /\ PortAt(new, taken[i]).pool = pool
          /\ taken[i][1][2] \in CusOf(devs[taken[i][1][1]])
    /\ \A i, j \in DOMAIN taken : taken[i] = taken[j] => i = j

(* The channel that is taken of the candidates S. *)
TakenOf(devs, S) == <<FirstByAffinity(devs, S), ChannelFor(CuAt(devs, FirstByAffinity(devs, S)))>>

(* How far an allocation has got: Start, Failed and what follows them. *)
Stages == [ok : BOOLEAN, devs : [Devices -> DeviceType], taken : Seq(Ports)]

StagesV2 == [ok : BOOLEAN, devs : [Devices -> DeviceType], taken : Seq(Ports),
             used : SUBSET Devices]

----------------------------------------------------------------------------
(* One CU.                                                                 *)
LEMMA PortParts ==
  ASSUME NEW h \in Ports
  PROVE  /\ h[1] \in Slots /\ h[2] \in Channels /\ h = <<h[1], h[2]>>
         /\ h[1][1] \in Devices /\ h[1][2] \in CuIds
BY DEF Ports, Slots

LEMMA TookNone ==
  ASSUME NEW devs, NEW new, SameXclbins(devs, new), NEW c, NEW pool,
         \A t \in Slots : CuAt(new, t) = CuAt(devs, t)
  PROVE  Took(devs, new, c, pool, <<>>)
<1>1. \A s \in Slots : SameReserves(CuAt(devs, s), CuAt(new, s))
  BY DEF SameReserves, SameReserve
<1>2. \A h \in Ports : PortAt(new, h) = PortAt(devs, h)
  BY PortParts DEF PortAt
<1> QED BY <1>1, <1>2 DEF Took

LEMMA AllocOnTook ==
  ASSUME NEW devs, NEW mid, NEW last, Sound(devs, last), AllInOrder(mid),
         \A t \in Slots : CuAt(mid, t) = CuAt(devs, t),
         NEW s \in Slots, NEW c \in Clients, NEW req \in Requests,
         NEW pool \in {NoPool} \cup PoolIds, NEW excl \in BOOLEAN,
         CanAllocChan(CuAt(devs, s), pool, req.load), s[2] \in CusOf(devs[s[1]]),
         NEW new, new = AllocOn(mid, s, c, req, pool, excl), SameXclbins(devs, new),
         NEW h, h = <<s, ChannelFor(CuAt(devs, s))>>
  PROVE  h \in Ports /\ Took(devs, new, c, pool, <<h>>)
<1> DEFINE cu == CuAt(devs, s)
           k == ChannelFor(cu)
           after == AllocChanClientFromCu(cu, c, pool, req.load)
           ch == [client |-> c, pool |-> pool, load |-> req.load]
<1>1. cu \in CuType /\ CuIndexed(cu) /\ LoadsRight(cu, last)
  BY CusRight DEF Sound
<1>2. k \in Channels /\ k \notin BusyChannels(cu)
  BY <1>1, ChannelForIsFree DEF CanAllocChan
<1>3. cu.channels[k] = FreeChannel
  BY <1>1, <1>2 DEF BusyChannels, LoadsRight
<1>4. \A t \in Slots : CuAt(new, t) = IF t = s THEN after ELSE CuAt(devs, t)
  BY AllocOnCus
<1>5. \A t \in Slots : SameReserves(CuAt(devs, t), CuAt(new, t))
  <2>1. req.load \in 0 .. MaxLoad
    BY DEF Requests
  <2>2. Takes(cu, after, c)
    BY <1>1, <2>1, AllocTakes
  <2> QED BY <1>4, <2>2, SameTakes DEF Takes
<1>6. after.channels = [cu.channels EXCEPT ![k] = ch]
  BY <1>1 DEF AllocChanClientFromCu, CuType
<1>7. \A j \in Channels : after.channels[j] = IF j = k THEN ch ELSE cu.channels[j]
  BY <1>1, <1>2, <1>6 DEF CuType
<1>8. h \in Ports /\ h[1] = s /\ h[2] = k
  BY <1>2 DEF Ports
<1> HIDE DEF cu, k, after
<1>9. \A g \in Ports : PortAt(new, g) = IF g = h THEN ch ELSE PortAt(devs, g)
  <2> TAKE g \in Ports
  <2>1. g[1] \in Slots /\ g[2] \in Channels /\ g = <<g[1], g[2]>>
    BY PortParts
  <2>2. g = h <=> g[1] = s /\ g[2] = k
    BY <1>8, <2>1 DEF k, cu
  <2> QED BY <1>4, <1>7, <2>1, <2>2 DEF PortAt, cu
<1>10. PortAt(devs, h) = FreeChannel
  BY <1>3, <1>8 DEF PortAt, cu
<1>11. DOMAIN <<h>> = {1} /\ <<h>>[1] = h
  OBVIOUS
<1>12. \A g \in Ports : IsAmong(g, <<h>>) <=> g = h
  BY <1>11 DEF IsAmong
<1> QED BY <1>5, <1>8, <1>9, <1>10, <1>11, <1>12 DEF Took

(* What one allocation took when the candidates were S: h, or nothing. *)
TookIfAny(devs, new, c, pool, S, h) ==
    /\ S = {} => Took(devs, new, c, pool, <<>>)
    /\ S # {} => h \in Ports /\ Took(devs, new, c, pool, <<h>>)

LEMMA AllocCuTook ==
  ASSUME NEW devs, NEW last \in Nat, Sound(devs, last), NEW c \in Clients, NEW req \in Requests,
         NEW pool \in {NoPool} \cup PoolIds, NEW excl \in BOOLEAN,
         NEW S, S = AllocCandidates(devs, Devices, c, req, pool, excl),
         NEW new, new = ResAllocCu(devs, c, req, pool, excl),
         NEW h, h = TakenOf(devs, S)
  PROVE  Sound(new, last) /\ TookIfAny(devs, new, c, pool, S, h)
<1> DEFINE s == FirstByAffinity(devs, S)
           probed == ProbeAll(devs, ProbedBefore(devs, s), c, excl)
<1>0. AllInOrder(devs) /\ AllRight(devs, last)
  BY DEF Sound
<1>1. Sound(new, last) /\ SameXclbins(devs, new)
  BY <1>0, AllocCuInOrder, AllocCuRight, AllocKeepsXclbins DEF Sound
<1>2. CASE S = {}
  <2>1. \A t \in Slots : CuAt(new, t) = CuAt(devs, t)
    BY <1>0, <1>2, ProbeAllCus DEF ResAllocCu
  <2> QED BY <1>1, <1>2, <2>1, TookNone DEF TookIfAny
<1>3. CASE S # {}
  <2>1. S \in SUBSET Slots
    BY DEF AllocCandidates
  <2>2. s \in S
    BY <1>3, <2>1, FirstByAffinityIn
  <2>3. /\ s \in Slots /\ CanAllocChan(CuAt(devs, s), pool, req.load)
        /\ s[2] \in CusOf(devs[s[1]])
    BY <2>2 DEF AllocCandidates, MatchingCus
  <2>4. new = AllocOn(probed, s, c, req, pool, excl)
    BY <1>3 DEF ResAllocCu
  <2>5. h = <<s, ChannelFor(CuAt(devs, s))>> /\ h[1] = s
    BY DEF TakenOf
  <2> HIDE DEF s
  <2>6. AllInOrder(probed) /\ \A t \in Slots : CuAt(probed, t) = CuAt(devs, t)
    BY <1>0, ProbeAllInOrder, ProbeAllCus
  <2> HIDE DEF probed
  <2>7. h \in Ports /\ Took(devs, new, c, pool, <<h>>)
    BY <1>1, <2>3, <2>4, <2>5, <2>6, AllocOnTook
  <2> QED BY <1>1, <1>3, <2>7 DEF TookIfAny
<1> QED BY <1>2, <1>3

LEMMA AllocCuFromDevTook ==
  ASSUME NEW devs, NEW last \in Nat, Sound(devs, last), NEW d \in Devices, NEW c \in Clients,
         NEW req \in Requests, NEW pool \in {NoPool} \cup PoolIds, NEW excl \in BOOLEAN,
         NEW S, S = AllocCandidates(devs, {d}, c, req, pool, excl),
         NEW new, new = ResAllocCuFromDev(devs, d, c, req, pool, excl),
         NEW h, h = TakenOf(devs, S)
  PROVE  Sound(new, last) /\ TookIfAny(devs, new, c, pool, S, h)
<1> DEFINE s == FirstByAffinity(devs, S)
<1>0. AllInOrder(devs) /\ AllRight(devs, last)
  BY DEF Sound
<1>1. Sound(new, last) /\ SameXclbins(devs, new)
  BY <1>0, AllocCuFromDevInOrder, AllocCuFromDevRight, AllocKeepsXclbins DEF Sound
<1>2. CASE S = {}
  <2>1. \A t \in Slots : CuAt(new, t) = CuAt(devs, t)
    BY <1>0, <1>2, ProbeAllCus DEF ResAllocCuFromDev
  <2> QED BY <1>1, <1>2, <2>1, TookNone DEF TookIfAny
<1>3. CASE S # {}
  <2>1. S \in SUBSET Slots
    BY DEF AllocCandidates
  <2>2. s \in S
    BY <1>3, <2>1, FirstByAffinityIn
  <2>3. /\ s \in Slots /\ CanAllocChan(CuAt(devs, s), pool, req.load)
        /\ s[2] \in CusOf(devs[s[1]])
    BY <2>2 DEF AllocCandidates, MatchingCus
  <2>4. new = AllocOn(devs, s, c, req, pool, excl)
    BY <1>3 DEF ResAllocCuFromDev
  <2>5. h = <<s, ChannelFor(CuAt(devs, s))>> /\ h[1] = s
    BY DEF TakenOf
  <2> HIDE DEF s
  <2>7. h \in Ports /\ Took(devs, new, c, pool, <<h>>)
    BY <1>0, <1>1, <2>3, <2>4, <2>5, AllocOnTook
  <2> QED BY <1>1, <1>3, <2>7 DEF TookIfAny
<1> QED BY <1>2, <1>3

(* One allocation after another. *)
LEMMA TookOn ==
  ASSUME NEW devs, NEW mid, NEW new, NEW c \in Clients, NEW pool,
         NEW taken \in Seq(Ports), NEW more \in Seq(Ports),
         Took(devs, mid, c, pool, taken), Took(mid, new, c, pool, more)
  PROVE  Took(devs, new, c, pool, taken \o more)
<1> DEFINE all == taken \o more
           n == Len(taken)
           m == Len(more)
<1>1. /\ n \in Nat /\ m \in Nat /\ DOMAIN taken = 1 .. n /\ DOMAIN more = 1 .. m
      /\ DOMAIN all = 1 .. (n + m)
      /\ \A i \in 1 .. n : all[i] = taken[i]
      /\ \A i \in 1 .. m : all[n + i] = more[i] /\ n + i \in 1 .. (n + m)
  OBVIOUS
<1>2. \A i \in 1 .. (n + m) : i \in 1 .. n \/ \E j \in 1 .. m : i = n + j
  <2> TAKE i \in 1 .. (n + m)
  <2>1. i \notin 1 .. n => i - n \in 1 .. m /\ i = n + (i - n)
    BY <1>1
  <2> QED BY <2>1
<1>3. (\A i \in 1 .. n : taken[i] \in Ports) /\ (\A i \in 1 .. m : more[i] \in Ports)
  BY <1>1
<1> HIDE DEF all, n, m
<1>4. \A h \in Ports : IsAmong(h, all) <=> IsAmong(h, taken) \/ IsAmong(h, more)
  <2> TAKE h \in Ports
  <2>1. IsAmong(h, taken) => IsAmong(h, all)
    <3>1. ASSUME NEW i \in 1 .. n, taken[i] = h PROVE IsAmong(h, all)
      <4>1. i \in 1 .. (n + m) /\ all[i] = h
        BY <1>1, <3>1
      <4> QED BY <1>1, <4>1 DEF IsAmong
    <3> QED BY <1>1, <3>1 DEF IsAmong
  <2>2. IsAmong(h, more) => IsAmong(h, all)
    <3>1. ASSUME NEW i \in 1 .. m, more[i] = h PROVE IsAmong(h, all)
      <4>1. n + i \in 1 .. (n + m) /\ all[n + i] = h
        BY <1>1, <3>1
      <4> QED BY <1>1, <4>1 DEF IsAmong
    <3> QED BY <1>1, <3>1 DEF IsAmong
  <2>3. ASSUME NEW i \in 1 .. (n + m), all[i] = h
        PROVE  IsAmong(h, taken) \/ IsAmong(h, more)
    <3>1. CASE i \in 1 .. n
      <4>1. taken[i] = h
        BY <1>1, <2>3, <3>1
      <4> QED BY <1>1, <3>1, <4>1 DEF IsAmong
    <3>2. CASE i \notin 1 .. n
      <4>1. PICK j \in 1 .. m : i = n + j
        BY <1>2, <3>2
      <4>2. more[j] = h
        BY <1>1, <2>3, <4>1
      <4> QED BY <1>1, <4>2 DEF IsAmong
    <3> QED BY <3>1, <3>2
  <2>4. IsAmong(h, all) => IsAmong(h, taken) \/ IsAmong(h, more)
    BY <1>1, <2>3 DEF IsAmong
  <2> QED BY <2>1, <2>2, <2>4
<1>5. ASSUME NEW h \in Ports, IsAmong(h, more)
      PROVE  ~IsAmong(h, taken)
  <2>1. PortAt(mid, h) = FreeChannel
    BY <1>1, <1>5 DEF IsAmong, Took
  <2>2. IsAmong(h, taken) => PortAt(mid, h).client = c
    BY <1>1 DEF IsAmong, Took
  <2> QED BY <2>1, <2>2, CuAssumption DEF FreeChannel
<1>6. SameXclbins(devs, new)
  BY DEF Took, SameXclbins, SameMode
<1>7. \A s \in Slots : SameReserves(CuAt(devs, s), CuAt(new, s))
  BY DEF Took, SameReserves, SameReserve
<1>8. \A h \in Ports : ~IsAmong(h, all) => PortAt(new, h) = PortAt(devs, h)
  BY <1>4 DEF Took
<1>9. ASSUME NEW d \in Devices PROVE CusOf(mid[d]) = CusOf(devs[d])
  <2>1. SameXclbins(devs, mid)
    BY DEF Took
  <2>2. mid[d].xclbin = devs[d].xclbin
    BY <2>1 DEF SameXclbins, SameMode
  <2> QED BY <2>2 DEF CusOf, IsLoaded
<1> DEFINE Right(h) == /\ PortAt(devs, h) = FreeChannel
                       /\ PortAt(new, h).client = c
                       /\ PortAt(new, h).pool = pool
                       /\ h[1][2] \in CusOf(devs[h[1][1]])
<1>10. \A i \in 1 .. n : Right(taken[i])
  <2> TAKE i \in 1 .. n
  <2>1. taken[i] \in Ports /\ IsAmong(taken[i], taken)
    BY <1>1, <1>3 DEF IsAmong
  <2>2. PortAt(new, taken[i]) = PortAt(mid, taken[i])
    BY <1>5, <2>1 DEF Took
  <2> QED BY <1>1, <2>2 DEF Took
<1>11. \A i \in 1 .. m : Right(more[i])
  <2> TAKE i \in 1 .. m
  <2>1. more[i] \in Ports /\ IsAmong(more[i], more) /\ more[i][1][1] \in Devices
    BY <1>1, <1>3, PortParts DEF IsAmong
  <2>2. PortAt(mid, more[i]) = PortAt(devs, more[i])
    BY <1>5, <2>1 DEF Took
  <2>3. /\ PortAt(mid, more[i]) = FreeChannel
        /\ PortAt(new, more[i]).client = c
        /\ PortAt(new, more[i]).pool = pool
        /\ more[i][1][2] \in CusOf(mid[more[i][1][1]])
    BY <1>1 DEF Took
  <2>4. CusOf(mid[more[i][1][1]]) = CusOf(devs[more[i][1][1]])
    BY <1>9, <2>1
  <2> QED BY <2>2, <2>3, <2>4
<1>12. ASSUME NEW i \in DOMAIN all PROVE Right(all[i])
  <2> HIDE DEF Right
  <2>1. CASE i \in 1 .. n
    <3>1. all[i] = taken[i]
      BY <1>1, <2>1
    <3> QED BY <1>10, <2>1, <3>1
  <2>2. CASE i \notin 1 .. n
    <3>1. PICK j \in 1 .. m : i = n + j
      BY <1>1, <1>2, <2>2
    <3>2. all[i] = more[j]
      BY <1>1, <3>1
    <3> QED BY <1>11, <3>2
  <2> QED BY <2>1, <2>2
<1>13. ASSUME NEW i \in DOMAIN all, NEW j \in DOMAIN all, all[i] = all[j]
       PROVE  i = j
  <2>1. \A a \in 1 .. n, b \in 1 .. m : taken[a] # more[b]
    BY <1>1, <1>3, <1>5 DEF IsAmong
  <2>2. CASE i \in 1 .. n /\ j \in 1 .. n
    BY <1>1, <1>13, <2>2 DEF Took
  <2>3. ASSUME NEW a \in 1 .. m, NEW b \in 1 .. m, i = n + a, j = n + b
        PROVE  i = j
    BY <1>1, <1>13, <2>3 DEF Took
  <2>4. \A a \in 1 .. n : all[a] = taken[a]
    BY <1>1
  <2>5. \A a \in 1 .. m : all[n + a] = more[a]
    BY <1>1
  <2>6. i \in 1 .. (n + m) /\ j \in 1 .. (n + m)
    BY <1>1
  <2>7. CASE i \in 1 .. n /\ j \notin 1 .. n
    <3>1. PICK b \in 1 .. m : j = n + b
      BY <1>2, <2>6, <2>7
    <3> QED BY <1>13, <2>1, <2>4, <2>5, <2>7, <3>1
  <2>8. CASE i \notin 1 .. n /\ j \in 1 .. n
    <3>1. PICK b \in 1 .. m : i = n + b
      BY <1>2, <2>6, <2>8
    <3> QED BY <1>13, <2>1, <2>4, <2>5, <2>8, <3>1
  <2>9. CASE i \notin 1 .. n /\ j \notin 1 .. n
    BY <1>2, <2>3, <2>6, <2>9
  <2> QED BY <2>2, <2>7, <2>8, <2>9
<1>14. Took(devs, new, c, pool, all)
  <2> HIDE DEF Right
  <2> QED BY <1>6, <1>7, <1>8, <1>12, <1>13 DEF Took, Right
<1> QED BY <1>14 DEF all

----------------------------------------------------------------------------
(* One item of a list.                                                     *)
OnWay(devs, at, c, pool, last) ==
    Sound(at.devs, last) /\ Took(devs, at.devs, c, pool, at.taken)

IsItem(item) == item.req \in Requests /\ item.excl \in BOOLEAN

LEMMA StagesDiffer ==
  ASSUME NEW at \in Stages
  PROVE  Stages # StagesV2
<1>1. at \notin StagesV2
  <2>1. "used" \notin DOMAIN at
    BY DEF Stages
  <2>2. \A f \in StagesV2 : "used" \in DOMAIN f
    BY DEF StagesV2
  <2> QED BY <2>1, <2>2
<1> QED BY <1>1

LEMMA AppendIs ==
  ASSUME NEW S, NEW seq \in Seq(S), NEW h \in S
  PROVE  /\ <<h>> \in Seq(S) /\ Append(seq, h) = seq \o <<h>> /\ Append(seq, h) \in Seq(S)
OBVIOUS

(* The ways in which a stage changes. *)
Moved(at, new, taken) == [at EXCEPT !.devs = new, !.taken = taken]

Stuck(at) == [at EXCEPT !.ok = FALSE]

StuckAt(at, new) == [at EXCEPT !.ok = FALSE, !.devs = new]

(* The fields of a stage, of a list of either version. *)
LEMMA MovedFields ==
  ASSUME NEW T \in {Stages, StagesV2}, NEW at \in T, NEW new \in [Devices -> DeviceType],
         NEW taken \in Seq(Ports)
  PROVE  /\ Moved(at, new, taken).devs = new /\ Moved(at, new, taken).taken = taken /\ Moved(at, new, taken).ok = at.ok
         /\ Moved(at, new, taken) \in T
         /\ T = StagesV2 => Moved(at, new, taken).used = at.used
<1>1. CASE T = Stages
  <2>1. at \in Stages
    BY <1>1
  <2>2. Stages # StagesV2
    BY <2>1, StagesDiffer
  <2> QED BY <1>1, <2>1, <2>2 DEF Stages, Moved
<1>2. CASE T = StagesV2
  <2>1. at \in StagesV2
    BY <1>2
  <2> QED BY <1>2, <2>1 DEF StagesV2, Moved
<1> QED BY <1>1, <1>2

LEMMA StuckFields ==
  ASSUME NEW T \in {Stages, StagesV2}, NEW at \in T
  PROVE  /\ Stuck(at).devs = at.devs /\ Stuck(at).taken = at.taken /\ ~Stuck(at).ok
         /\ Stuck(at) \in T
         /\ T = StagesV2 => Stuck(at).used = at.used
<1>1. CASE T = Stages
  <2>1. at \in Stages
    BY <1>1
  <2>2. Stages # StagesV2
    BY <2>1, StagesDiffer
  <2> QED BY <1>1, <2>1, <2>2 DEF Stages, Stuck
<1>2. CASE T = StagesV2
  <2>1. at \in StagesV2
    BY <1>2
  <2> QED BY <1>2, <2>1 DEF StagesV2, Stuck
<1> QED BY <1>1, <1>2

LEMMA StuckAtFields ==
  ASSUME NEW T \in {Stages, StagesV2}, NEW at \in T, NEW new \in [Devices -> DeviceType]
  PROVE  /\ StuckAt(at, new).devs = new /\ StuckAt(at, new).taken = at.taken /\ ~StuckAt(at, new).ok
         /\ StuckAt(at, new) \in T
         /\ T = StagesV2 => StuckAt(at, new).used = at.used
<1>1. CASE T = Stages
  <2>1. at \in Stages
    BY <1>1
  <2>2. Stages # StagesV2
    BY <2>1, StagesDiffer
  <2> QED BY <1>1, <2>1, <2>2 DEF Stages, StuckAt
<1>2. CASE T = StagesV2
  <2>1. at \in StagesV2
    BY <1>2
  <2> QED BY <1>2, <2>1 DEF StagesV2, StuckAt
<1> QED BY <1>1, <1>2

LEMMA StageTyped ==
  ASSUME NEW T \in {Stages, StagesV2}, NEW at \in T
  PROVE  at.ok \in BOOLEAN /\ at.devs \in [Devices -> DeviceType] /\ at.taken \in Seq(Ports)
<1>1. CASE T = Stages
  BY <1>1 DEF Stages
<1>2. CASE T = StagesV2
  BY <1>2 DEF StagesV2
<1> QED BY <1>1, <1>2

LEMMA StageLength ==
  ASSUME NEW T \in {Stages, StagesV2}, NEW at \in T
  PROVE  Len(at.taken) \in Nat
<1>1. at.taken \in Seq(Ports)
  BY StageTyped
<1> HIDE DEF Ports
<1> QED BY <1>1

LEMMA TakingOnWay ==
  ASSUME NEW devs, NEW c \in Clients, NEW pool, NEW last, NEW T \in {Stages, StagesV2}, NEW at \in T,
         OnWay(devs, at, c, pool, last), NEW S, NEW new, Sound(new, last), NEW h,
         h = TakenOf(at.devs, S), TookIfAny(at.devs, new, c, pool, S, h),
         NEW r, r = Taking(at, S, new)
  PROVE  /\ OnWay(devs, r, c, pool, last)
         /\ r \in T /\ (T = StagesV2 => r.used = at.used)
         /\ at.ok /\ ~r.ok => r.taken = at.taken
<1>0. new \in [Devices -> DeviceType] /\ at.taken \in Seq(Ports)
  BY StageTyped DEF Sound, AllInOrder
<1>1. CASE S = {}
  <2>1. r = StuckAt(at, new)
    BY <1>1 DEF Taking, StuckAt
  <2>2. Took(devs, new, c, pool, at.taken)
    <3> HIDE DEF Ports
    <3>1. <<>> \in Seq(Ports) /\ at.taken \o <<>> = at.taken
      BY <1>0
    <3>2. Took(devs, new, c, pool, at.taken \o <<>>)
      BY <1>0, <1>1, <3>1, TookOn DEF OnWay, TookIfAny
    <3> QED BY <3>1, <3>2
  <2>3. /\ r.devs = new /\ r.taken = at.taken /\ ~r.ok
        /\ r \in T /\ (T = StagesV2 => r.used = at.used)
    BY <1>0, <2>1, StuckAtFields
  <2> QED BY <1>1, <2>2, <2>3 DEF OnWay
<1>2. CASE S # {}
  <2> DEFINE tk == Append(at.taken, h)
  <2>1. r = Moved(at, new, tk)
    BY <1>2 DEF Taking, Moved, TakenOf
  <2>2. h \in Ports /\ Took(at.devs, new, c, pool, <<h>>)
    BY <1>2 DEF TookIfAny
  <2> HIDE DEF Ports
  <2>3. <<h>> \in Seq(Ports) /\ tk = at.taken \o <<h>> /\ tk \in Seq(Ports)
    BY <1>0, <2>2, AppendIs
  <2>4. Took(devs, new, c, pool, tk)
    BY <1>0, <2>2, <2>3, TookOn DEF OnWay
  <2>5. tk = Append(at.taken, h)
    OBVIOUS
  <2> HIDE DEF tk
  <2>6. /\ r.devs = new /\ r.taken = tk /\ r.ok = at.ok
        /\ r \in T /\ (T = StagesV2 => r.used = at.used)
    <3>1. tk \in Seq(Ports)
      BY <2>3
    <3> QED BY <1>0, <2>1, <3>1, MovedFields
  <2> QED BY <1>2, <2>4, <2>5, <2>6 DEF OnWay
<1> QED BY <1>1, <1>2

LEMMA TakeAnywhereOnWay ==
  ASSUME NEW devs, NEW c \in Clients, NEW pool \in {NoPool} \cup PoolIds, NEW last \in Nat,
         NEW T \in {Stages, StagesV2}, NEW at \in T, OnWay(devs, at, c, pool, last), NEW item, IsItem(item),
         NEW r, r = TakeAnywhere(at, c, item, pool)
  PROVE  /\ OnWay(devs, r, c, pool, last)
         /\ r \in T /\ (T = StagesV2 => r.used = at.used)
         /\ at.ok /\ ~r.ok => r.taken = at.taken
<1> DEFINE req == item.req
           excl == item.excl
           ds == at.devs
           S == AllocCandidates(ds, Devices, c, req, pool, excl)
           new == ResAllocCu(ds, c, req, pool, excl)
           h == TakenOf(ds, S)
<1>1. Sound(ds, last) /\ req \in Requests /\ excl \in BOOLEAN
  BY DEF OnWay, IsItem
<1>2. /\ S = AllocCandidates(ds, Devices, c, req, pool, excl)
      /\ new = ResAllocCu(ds, c, req, pool, excl)
      /\ h = TakenOf(ds, S)
  OBVIOUS
<1>3. r = Taking(at, S, new) /\ ds = at.devs
  BY DEF TakeAnywhere
<1> HIDE DEF req, excl, S, new, h, ds
<1>4. Sound(new, last) /\ TookIfAny(ds, new, c, pool, S, h)
  BY <1>1, <1>2, AllocCuTook
<1> QED BY <1>2, <1>3, <1>4, TakingOnWay

LEMMA TakeFromOnWay ==
  ASSUME NEW devs, NEW c \in Clients, NEW pool \in {NoPool} \cup PoolIds, NEW last \in Nat,
         NEW T \in {Stages, StagesV2}, NEW at \in T, OnWay(devs, at, c, pool, last), NEW item, IsItem(item),
         NEW d, NEW r, r = TakeFrom(at, d, c, item, pool)
  PROVE  /\ OnWay(devs, r, c, pool, last)
         /\ r \in T /\ (T = StagesV2 => r.used = at.used)
         /\ at.ok /\ ~r.ok => r.taken = at.taken
<1>1. CASE d \notin Devices
  <2>1. r = Stuck(at)
    BY <1>1 DEF TakeFrom, Stuck
  <2>2. /\ r.devs = at.devs /\ r.taken = at.taken
        /\ r \in T /\ (T = StagesV2 => r.used = at.used)
    <3>1. at.devs \in [Devices -> DeviceType] /\ at.taken \in Seq(Ports)
      BY StageTyped
    <3> QED BY <2>1, <3>1, StuckFields
  <2> QED BY <2>2 DEF OnWay
<1>2. CASE d \in Devices
  <2> DEFINE req == item.req
             excl == item.excl
             ds == at.devs
             S == AllocCandidates(ds, {d}, c, req, pool, excl)
             new == ResAllocCuFromDev(ds, d, c, req, pool, excl)
             h == TakenOf(ds, S)
  <2>1. Sound(ds, last) /\ req \in Requests /\ excl \in BOOLEAN
    BY DEF OnWay, IsItem
  <2>2. /\ S = AllocCandidates(ds, {d}, c, req, pool, excl)
        /\ new = ResAllocCuFromDev(ds, d, c, req, pool, excl)
        /\ h = TakenOf(ds, S)
    OBVIOUS
  <2>3. r = Taking(at, S, new) /\ ds = at.devs
    BY <1>2 DEF TakeFrom
  <2> HIDE DEF req, excl, S, new, h, ds
  <2>4. Sound(new, last) /\ TookIfAny(ds, new, c, pool, S, h)
    <3> DEFINE D == {d}
    <3>1. S = AllocCandidates(ds, D, c, req, pool, excl)
      BY <2>2
    <3> QED BY <1>2, <2>1, <2>2, AllocCuFromDevTook
  <2> QED BY <2>2, <2>3, <2>4, TakingOnWay
<1> QED BY <1>1, <1>2

(* However it ends, one channel more at most is taken.                     *)
LEMMA TakingLength ==
  ASSUME NEW T \in {Stages, StagesV2}, NEW at \in T, NEW S, NEW new,
         NEW r, r = Taking(at, S, new)
  PROVE  Len(r.taken) <= Len(at.taken) + 1
<1> DEFINE taken == at.taken
           h == TakenOf(at.devs, S)
           more == Append(taken, h)
<1>1. taken \in Seq(Ports)
  BY StageTyped
<1> HIDE DEF Ports
<1>2. r.taken \in {taken, more}
  <2>1. "taken" \in DOMAIN at
    <3>1. CASE T = Stages
      BY <3>1 DEF Stages
    <3>2. CASE T = StagesV2
      BY <3>2 DEF StagesV2
    <3> QED BY <3>1, <3>2
  <2>2. CASE S = {}
    BY <2>1, <2>2 DEF Taking
  <2>3. CASE S # {}
    BY <2>1, <2>3 DEF Taking, TakenOf
  <2> QED BY <2>2, <2>3
<1> HIDE DEF h
<1>3. Len(more) = Len(taken) + 1
  BY <1>1
<1>4. Len(taken) \in Nat
  BY <1>1
<1> HIDE DEF more, taken
<1>5. Len(r.taken) <= Len(taken) + 1
  BY <1>2, <1>3, <1>4
<1> QED BY <1>5 DEF taken

LEMMA TakeAnywhereLength ==
  ASSUME NEW T \in {Stages, StagesV2}, NEW at \in T, NEW c, NEW item, NEW pool,
         NEW r, r = TakeAnywhere(at, c, item, pool)
  PROVE  Len(r.taken) <= Len(at.taken) + 1
BY TakingLength DEF TakeAnywhere

LEMMA TakeFromLength ==
  ASSUME NEW T \in {Stages, StagesV2}, NEW at \in T, NEW d, NEW c, NEW item, NEW pool,
         NEW r, r = TakeFrom(at, d, c, item, pool)
  PROVE  Len(r.taken) <= Len(at.taken) + 1
<1>1. CASE d \notin Devices
  <2>1. r = Stuck(at)
    BY <1>1 DEF TakeFrom, Stuck
  <2>2. r.taken = at.taken /\ at.taken \in Seq(Ports)
    BY <2>1, StuckFields, StageTyped
  <2>3. Len(at.taken) \in Nat
    BY <2>2
  <2> QED BY <2>2, <2>3
<1>2. CASE d \in Devices
  <2> DEFINE S == AllocCandidates(at.devs, {d}, c, item.req, pool, item.excl)
             new == ResAllocCuFromDev(at.devs, d, c, item.req, pool, item.excl)
  <2>1. r = Taking(at, S, new)
    BY <1>2 DEF TakeFrom
  <2> HIDE DEF S, new
  <2> QED BY <2>1, TakingLength
<1> QED BY <1>1, <1>2

(* The last of the positions in s: as many at most have been worked off.   *)
LastPlace(s) == IF s = {} THEN 0 ELSE Max(s)

LEMMA LastPlaceStep ==
  ASSUME NEW n \in Nat, NEW s \in Parts(n)
  PROVE  LastPlace(s) \in Nat /\ LastPlace(Rest(s)) \in Nat /\ LastPlace(Rest(s)) + 1 <= LastPlace(s)
<1>1. Max(s) \in 1 .. n /\ LastPlace(s) = Max(s) /\ \A y \in s : y <= Max(s)
  BY MaxOf DEF LastPlace, Parts
<1>2. CASE Rest(s) = {}
  BY <1>1, <1>2 DEF LastPlace
<1>3. CASE Rest(s) # {}
  <2>1. Rest(s) \in Parts(n)
    BY <1>3, RestOf DEF Parts
  <2>2. Max(Rest(s)) \in Rest(s) /\ Max(Rest(s)) \in 1 .. n
    BY <2>1, MaxOf
  <2>3. Max(Rest(s)) <= Max(s) /\ Max(Rest(s)) # Max(s)
    BY <1>1, <2>2 DEF Rest
  <2> QED BY <1>1, <1>3, <2>2, <2>3 DEF LastPlace
<1> QED BY <1>2, <1>3

LEMMA LastPlaceEnds ==
  ASSUME NEW n \in Nat
  PROVE  LastPlace({}) = 0 /\ LastPlace(1 .. n) = n
<1>1. CASE n = 0
  <2>1. 1 .. n = {}
    BY <1>1
  <2> QED BY <1>1, <2>1 DEF LastPlace
<1>2. CASE n # 0
  <2>1. 1 .. n \in Parts(n) /\ n \in 1 .. n
    BY <1>2 DEF Parts
  <2>2. Max(1 .. n) \in 1 .. n /\ n <= Max(1 .. n)
    BY <2>1, MaxOf
  <2> QED BY <2>1, <2>2 DEF LastPlace
<1> QED BY <1>1, <1>2

----------------------------------------------------------------------------
(* Giving back.                                                            *)
LEMMA ReleaseSound ==
  ASSUME NEW devs, NEW last \in Nat, Sound(devs, last), NEW c \in Clients,
         NEW h \in Ports, HoldsChannel(devs, c, h[1], h[2]),
         NEW new, new = ResReleaseCu(devs, c, h[1], h[2])
  PROVE  /\ Sound(new, last) /\ SameXclbins(devs, new)
         /\ \A t \in Slots : SameReserves(CuAt(devs, t), CuAt(new, t))
         /\ \A g \in Ports : PortAt(new, g) = IF g = h THEN FreeChannel ELSE PortAt(devs, g)
<1> DEFINE s == h[1]
           k == h[2]
           d == s[1]
           i == s[2]
           cu == CuAt(devs, s)
           after == ReleaseChan(cu, c, k)
           mid == [devs[d] EXCEPT !.cus[i] = after]
           dev == ReleaseClientOnDev(mid, c)
<1>0. /\ s \in Slots /\ k \in Channels /\ h = <<s, k>> /\ d \in Devices /\ i \in CuIds
      /\ AllInOrder(devs) /\ AllRight(devs, last)
      /\ IsLoaded(devs[d]) /\ cu.channels[k].client = c
  BY PortParts DEF Sound, HoldsChannel
<1>1. AllInOrder(new)
  <2>1. InOrder(devs[d]) /\ cu = devs[d].cus[i]
    BY <1>0 DEF AllInOrder, CuAt
  <2>2. new = [[devs EXCEPT ![d].cus[i] = after] EXCEPT ![d] = ReleaseClientOnDev(@, c)]
    BY DEF ResReleaseCu, UpdateCu
  <2>3. [devs EXCEPT ![d].cus[i] = after][d] = mid
    BY <1>0 DEF AllInOrder
  <2>4. new = [devs EXCEPT ![d] = dev]
    <3> HIDE DEF after, mid
    <3> QED BY <1>0, <2>2, <2>3 DEF AllInOrder
  <2>5. InOrder(dev)
    BY <1>0, <2>1, ReleaseInOrder
  <2> HIDE DEF dev
  <2> QED BY <1>0, <2>4, <2>5, ReplaceInOrder
<1>2. AllRight(new, last) /\ SameXclbins(devs, new)
  BY <1>0, ReleaseCuRight, OthersKeepXclbins
<1>3. \A t \in Slots : SameReserves(CuAt(devs, t), CuAt(new, t))
  BY <1>0, ReleaseCuGivesBack DEF GivesBack
<1>4. \A t \in Slots : CuAt(new, t) = IF t = s THEN after ELSE CuAt(devs, t)
  BY <1>0, ReleaseCus
<1>5. \A j \in Channels : after.channels[j] = IF j = k THEN FreeChannel ELSE cu.channels[j]
  <2>1. cu \in CuType /\ CuIndexed(cu) /\ k \in ChannelsOf(cu, c)
    BY <1>0, CusRight DEF ChannelsOf
  <2>2. after.channels = [cu.channels EXCEPT ![k] = FreeChannel]
    BY <2>1, ReleaseChanSafe
  <2> QED BY <2>1, <2>2 DEF CuType
<1> HIDE DEF after
<1>6. \A g \in Ports : PortAt(new, g) = IF g = h THEN FreeChannel ELSE PortAt(devs, g)
  <2> TAKE g \in Ports
  <2>1. g[1] \in Slots /\ g[2] \in Channels /\ g = <<g[1], g[2]>>
    BY PortParts
  <2>2. g = h <=> g[1] = s /\ g[2] = k
    BY <1>0, <2>1
  <2> HIDE DEF s, k
  <2> QED BY <1>4, <1>5, <2>1, <2>2 DEF PortAt
<1> QED BY <1>1, <1>2, <1>3, <1>6 DEF Sound

(* What clients hold, and hence the books and the references, follow from  *)
(* the channels and the reservations.                                      *)
LEMMA SameHoldingsFrom ==
  ASSUME NEW devs, NEW new, NEW last \in Nat, Sound(devs, last), Sound(new, last), NEW c,
         NEW pool, Took(devs, new, c, pool, <<>>)
  PROVE  SameHoldings(devs, new)
<1> SUFFICES ASSUME NEW d \in Devices
             PROVE  new[d].cus = devs[d].cus /\ new[d].procs = devs[d].procs
  BY DEF SameHoldings
<1>1. /\ InOrder(devs[d]) /\ InOrder(new[d]) /\ DeviceRight(devs[d], last)
      /\ DeviceRight(new[d], last)
  BY DEF Sound, AllInOrder, AllRight
<1>2. \A i \in CuIds : new[d].cus[i] = devs[d].cus[i]
  <2> TAKE i \in CuIds
  <2> DEFINE s == <<d, i>>
             cu == devs[d].cus[i]
             after == new[d].cus[i]
  <2>1. s \in Slots /\ CuAt(devs, s) = cu /\ CuAt(new, s) = after
    BY DEF Slots, CuAt
  <2>2. /\ cu \in CuType /\ CuIndexed(cu) /\ LoadsRight(cu, last)
        /\ after \in CuType /\ CuIndexed(after) /\ LoadsRight(after, last)
    BY <1>1, CusTyped DEF DeviceRight
  <2>3. SameReserves(cu, after)
    BY <2>1 DEF Took
  <2>4. \A k \in Channels : after.channels[k] = cu.channels[k]
    <3> TAKE k \in Channels
    <3>1. <<s, k>> \in Ports /\ ~IsAmong(<<s, k>>, <<>>)
      BY <2>1 DEF Ports, IsAmong
    <3>2. PortAt(new, <<s, k>>) = PortAt(devs, <<s, k>>)
      BY <3>1 DEF Took
    <3> QED BY <2>1, <3>2 DEF PortAt
  <2> HIDE DEF cu, after
  <2>5. after.channels = cu.channels
    BY <2>2, <2>4 DEF CuType
  <2>6. Keeps(cu, after)
    BY <2>3, <2>5 DEF Keeps
  <2>7. after = cu
    BY <2>2, <2>6, SameBooks
  <2> QED BY <2>7 DEF cu, after
<1>3. new[d].cus = devs[d].cus
  BY <1>1, <1>2 DEF InOrder, DeviceType
<1>4. \A b \in Clients : new[d].procs[b] = devs[d].procs[b]
  <2> TAKE b \in Clients
  <2>1. Held(new[d], b) = Held(devs[d], b)
    BY <1>3 DEF Held
  <2> QED BY <1>1, <2>1 DEF InOrder, DeviceRefCounted
<1>5. new[d].procs = devs[d].procs
  BY <1>1, <1>4 DEF InOrder, DeviceType
<1> QED BY <1>3, <1>5

(* Some of the taken channels, those at the positions in s, were freed     *)
(* again: what there was before is back but for the others.                *)
Back(devs, new, c, taken, s) ==
    /\ SameXclbins(devs, new)
    /\ \A t \in Slots : SameReserves(CuAt(devs, t), CuAt(new, t))
    /\ \A h \in Ports : ~IsAmong(h, taken) => PortAt(new, h) = PortAt(devs, h)
    /\ \A i \in DOMAIN taken :
          /\ i \in s => PortAt(new, taken[i]) = FreeChannel
          /\ i \notin s => PortAt(new, taken[i]).client = c

IsRightOn(devs, h) == h[1][2] \in CusOf(devs[h[1][1]])

IsDistinct(taken) == \A i, j \in DOMAIN taken : taken[i] = taken[j] => i = j

LEMMA BackOn ==
  ASSUME NEW devs, NEW ds, NEW last \in Nat, Sound(ds, last), NEW c \in Clients,
         NEW taken \in Seq(Ports), NEW s, NEW i \in DOMAIN taken, i \notin s,
         IsRightOn(devs, taken[i]), IsDistinct(taken), Back(devs, ds, c, taken, s),
         NEW new, new = ResReleaseCu(ds, c, taken[i][1], taken[i][2])
  PROVE  Sound(new, last) /\ Back(devs, new, c, taken, s \cup {i})
<1> DEFINE h == taken[i]
<1>1. h \in Ports
  OBVIOUS
<1>2. h[1][1] \in Devices /\ h[1][2] \in CusOf(devs[h[1][1]]) /\ new = ResReleaseCu(ds, c, h[1], h[2])
  BY <1>1, PortParts DEF IsRightOn
<1>3. PortAt(ds, h).client = c /\ IsAmong(h, taken)
  BY DEF Back, IsAmong
<1>4. \A j \in DOMAIN taken : taken[j] = h => j = i
  BY DEF IsDistinct
<1>5. \A j \in DOMAIN taken : taken[j] \in Ports
  OBVIOUS
<1> HIDE DEF h, Ports
<1>6. HoldsChannel(ds, c, h[1], h[2])
  <2>1. SameMode(devs[h[1][1]], ds[h[1][1]])
    BY <1>2 DEF Back, SameXclbins
  <2> QED BY <1>2, <1>3, <2>1 DEF HoldsChannel, PortAt, SameMode, CusOf, IsLoaded
<1>7. /\ Sound(new, last) /\ SameXclbins(ds, new)
      /\ \A t \in Slots : SameReserves(CuAt(ds, t), CuAt(new, t))
      /\ \A g \in Ports : PortAt(new, g) = IF g = h THEN FreeChannel ELSE PortAt(ds, g)
  BY <1>1, <1>2, <1>6, ReleaseSound
<1>8. SameXclbins(devs, new)
  BY <1>7 DEF Back, SameXclbins, SameMode
<1>9. \A t \in Slots : SameReserves(CuAt(devs, t), CuAt(new, t))
  BY <1>7 DEF Back, SameReserves, SameReserve
<1>10. \A g \in Ports : ~IsAmong(g, taken) => PortAt(new, g) = PortAt(devs, g)
  BY <1>3, <1>7 DEF Back
<1>11. ASSUME NEW j \in DOMAIN taken
       PROVE  /\ j \in s \cup {i} => PortAt(new, taken[j]) = FreeChannel
              /\ j \notin s \cup {i} => PortAt(new, taken[j]).client = c
  <2>1. CASE j = i
    BY <1>1, <1>7, <2>1 DEF h
  <2>2. CASE j # i
    <3>1. taken[j] # h /\ taken[j] \in Ports
      BY <1>4, <1>5, <2>2
    <3>2. PortAt(new, taken[j]) = PortAt(ds, taken[j])
      BY <1>7, <3>1
    <3> QED BY <2>2, <3>2 DEF Back
  <2> QED BY <2>1, <2>2
<1> QED BY <1>7, <1>8, <1>9, <1>10, <1>11 DEF Back

(* What an allocation took is given back completely.                       *)
LEMMA GivenBackAll ==
  ASSUME NEW devs, NEW got, NEW last \in Nat, Sound(got, last), NEW c \in Clients, NEW pool,
         NEW seq \in Seq(Ports), Took(devs, got, c, pool, seq),
         NEW r, r = GivenBack(got, c, seq)
  PROVE  Sound(r, last) /\ Took(devs, r, c, pool, <<>>)
<1> DEFINE n == Len(seq)
           base == got
           op(at, d) == ResReleaseCu(at, c, d[1], d[2])
           IsRun(h) == h = [s \in SUBSET (1 .. n) |-> IF s = {} THEN base
                                                      ELSE op(h[s \ {Max(s)}], seq[Max(s)])]
           Kept == [s \in SUBSET (1 .. n) |->
                      {at \in [Devices -> DeviceType] : Sound(at, last) /\ Back(devs, at, c, seq, s)}]
           step == [s \in Parts(n) |-> [at \in Kept[Rest(s)] |-> op(at, seq[Max(s)])]]
           run == CHOOSE h : IsRun(h)
<1>0. n \in Nat /\ DOMAIN seq = 1 .. n /\ \A i \in 1 .. n : seq[i] \in Ports
  OBVIOUS
<1> HIDE DEF n
<1>1. \A s \in Parts(n) : Max(s) \in 1 .. n /\ Rest(s) \in SUBSET (1 .. n) /\ s \in SUBSET (1 .. n)
  BY <1>0, MaxOf, RestOf
<1>2. ASSUME NEW s \in Parts(n), NEW at \in Kept[Rest(s)]
      PROVE  op(at, seq[Max(s)]) \in Kept[s]
  <2> DEFINE i == Max(s)
             new == ResReleaseCu(at, c, seq[i][1], seq[i][2])
  <2>1. Sound(at, last) /\ Back(devs, at, c, seq, Rest(s))
    BY <1>1
  <2>2. i \in DOMAIN seq /\ i \notin Rest(s) /\ s = Rest(s) \cup {i}
    BY <1>0, <1>1, MaxOf DEF Rest
  <2>3. op(at, seq[Max(s)]) = new
    OBVIOUS
  <2> HIDE DEF i
  <2>4. IsRightOn(devs, seq[i]) /\ IsDistinct(seq)
    BY <2>2 DEF Took, IsRightOn, IsDistinct
  <2>5. new = ResReleaseCu(at, c, seq[i][1], seq[i][2])
    OBVIOUS
  <2> DEFINE rest == Rest(s)
  <2> HIDE DEF new, op, Ports, rest
  <2>6. Sound(new, last) /\ Back(devs, new, c, seq, rest \cup {i})
    <3>1. Sound(at, last) /\ Back(devs, at, c, seq, rest) /\ i \in DOMAIN seq /\ i \notin rest
      BY <2>1, <2>2 DEF rest
    <3> QED BY <2>4, <2>5, <3>1, BackOn
  <2>7. new \in [Devices -> DeviceType]
    BY <2>6 DEF Sound, AllInOrder
  <2> QED BY <1>1, <2>2, <2>3, <2>6, <2>7 DEF rest
<1>3. base \in Kept[{}]
  BY DEF Sound, AllInOrder, Took, Back
<1> HIDE DEF op, base
<1>4. PICK h : IsFold(h, n, base, step) /\ Within(h, n, Kept)
  <2>1. Keeping(n, Kept, step)
    BY <1>1, <1>2 DEF Keeping
  <2> HIDE DEF step, Kept
  <2> QED BY <1>0, <1>3, <2>1, FoldExists
<1>5. IsRun(run)
  <2>1. \A s \in Parts(n) : step[s][h[Rest(s)]] = op(h[Rest(s)], seq[Max(s)])
    BY <1>1, <1>4 DEF Within
  <2> HIDE DEF step, Kept
  <2>2. IsRun(h)
    BY <1>4, <2>1 DEF IsFold, Rest, Parts
  <2> HIDE DEF IsRun
  <2> QED BY <2>2
<1>6. r = run[1 .. n]
  BY <1>0 DEF GivenBack, FoldLeft, MapThenFoldSet, op, base
<1>7. run[1 .. n] \in Kept[1 .. n]
  <2>1. run[{}] = base /\ \A s \in Parts(n) : run[s] = op(run[Rest(s)], seq[Max(s)])
    BY <1>1, <1>5 DEF Parts, Rest
  <2> HIDE DEF run, Kept
  <2>2. \A s \in Parts(n) : run[Rest(s)] \in Kept[Rest(s)] => run[s] \in Kept[s]
    BY <1>2, <2>1
  <2>3. run[{}] \in Kept[{}] /\ n \in Nat
    BY <1>0, <1>3, <2>1
  <2> QED BY <2>2, <2>3, FoldKeeps
<1> HIDE DEF run
<1>8. Sound(r, last) /\ Back(devs, r, c, seq, 1 .. n)
  BY <1>6, <1>7
<1> HIDE DEF Kept, step
<1>9. ASSUME NEW p \in Ports PROVE PortAt(r, p) = PortAt(devs, p)
  <2>1. CASE IsAmong(p, seq)
    <3>1. PICK i \in DOMAIN seq : seq[i] = p
      BY <2>1 DEF IsAmong
    <3> QED BY <1>0, <1>8, <3>1 DEF Back, Took
  <2>2. CASE ~IsAmong(p, seq)
    BY <1>8, <2>2 DEF Back
  <2> QED BY <2>1, <2>2
<1>10. DOMAIN <<>> = {}
  OBVIOUS
<1> QED BY <1>8, <1>9, <1>10 DEF Back, Took

----------------------------------------------------------------------------
(* Lists of one version and of the other.                                  *)
AllOrNone(devs, at, c, pool, last) ==
    OnWay(devs, at, c, pool, last) /\ (~at.ok => at.taken = <<>>)

LEMMA StartFields ==
  ASSUME NEW devs \in [Devices -> DeviceType]
  PROVE  /\ Start(devs) \in Stages /\ Start(devs).ok
         /\ Start(devs).devs = devs /\ Start(devs).taken = <<>>
         /\ Failed(devs) \in Stages /\ ~Failed(devs).ok
         /\ Failed(devs).devs = devs /\ Failed(devs).taken = <<>>
<1>1. <<>> \in Seq(Ports)
  OBVIOUS
<1> HIDE DEF Ports
<1> QED BY <1>1 DEF Start, Failed, Stages

LEMMA StartLength ==
  ASSUME NEW devs \in [Devices -> DeviceType]
  PROVE  Len(Start(devs).taken) = 0 /\ Len(Failed(devs).taken) = 0
BY StartFields

LEMMA BeginsOnWay ==
  ASSUME NEW devs, NEW last, Sound(devs, last), NEW c, NEW pool
  PROVE  /\ Start(devs) \in Stages /\ OnWay(devs, Start(devs), c, pool, last)
         /\ Failed(devs) \in Stages /\ AllOrNone(devs, Failed(devs), c, pool, last)
<1>1. devs \in [Devices -> DeviceType]
  BY DEF Sound, AllInOrder
<1>2. Took(devs, devs, c, pool, <<>>)
  <2>1. SameXclbins(devs, devs)
    BY DEF SameXclbins, SameMode
  <2> QED BY <2>1, TookNone
<1> QED BY <1>1, <1>2, StartFields DEF OnWay, AllOrNone

LEMMA UndoneIsNone ==
  ASSUME NEW devs, NEW last \in Nat, NEW c \in Clients, NEW pool, NEW T \in {Stages, StagesV2},
         NEW at \in T, OnWay(devs, at, c, pool, last), NEW r, r = Undone(at, c)
  PROVE  r \in Stages /\ AllOrNone(devs, r, c, pool, last) /\ ~r.ok
<1> DEFINE got == at.devs
           seq == at.taken
           ds == GivenBack(got, c, seq)
<1>1. Sound(got, last) /\ seq \in Seq(Ports) /\ Took(devs, got, c, pool, seq)
  BY StageTyped DEF OnWay
<1>2. r = Failed(ds)
  BY DEF Undone
<1>3. ds = GivenBack(got, c, seq)
  OBVIOUS
<1> HIDE DEF ds, got, seq, Ports
<1>4. Sound(ds, last) /\ Took(devs, ds, c, pool, <<>>)
  BY <1>1, <1>3, GivenBackAll
<1>5. ds \in [Devices -> DeviceType]
  BY <1>4 DEF Sound, AllInOrder
<1> QED BY <1>2, <1>4, <1>5, StartFields DEF AllOrNone, OnWay

(* One item after the other, as far as there are CUs for them.             *)
ItemsFrom(devs, d, c, items, pool) ==
    FoldLeft(LAMBDA at, item : IF at.ok THEN TakeFrom(at, d, c, item, pool) ELSE at,
             Start(devs), items)

ItemsAnywhere(devs, c, items, pool) ==
    FoldLeft(LAMBDA at, item : IF at.ok THEN TakeAnywhere(at, c, item, pool) ELSE at,
             Start(devs), items)

LEMMA ItemsFromOnWay ==
  ASSUME NEW devs, NEW last \in Nat, Sound(devs, last), NEW c \in Clients,
         NEW pool \in {NoPool} \cup PoolIds, NEW d, NEW I, \A item \in I : IsItem(item), NEW seq \in Seq(I),
         NEW r, r = ItemsFrom(devs, d, c, seq, pool)
  PROVE  r \in Stages /\ OnWay(devs, r, c, pool, last) /\ Len(r.taken) <= Len(seq)
<1> DEFINE n == Len(seq)
           base == Start(devs)
           op(at, item) == IF at.ok THEN TakeFrom(at, d, c, item, pool) ELSE at
           IsRun(h) == h = [s \in SUBSET (1 .. n) |-> IF s = {} THEN base
                                                      ELSE op(h[s \ {Max(s)}], seq[Max(s)])]
           Kept == [s \in SUBSET (1 .. n) |->
                      {at \in Stages : /\ OnWay(devs, at, c, pool, last)
                                       /\ Len(at.taken) <= LastPlace(s)}]
           step == [s \in Parts(n) |-> [at \in Kept[Rest(s)] |-> op(at, seq[Max(s)])]]
           run == CHOOSE h : IsRun(h)
<1>0. n \in Nat /\ DOMAIN seq = 1 .. n /\ \A i \in 1 .. n : seq[i] \in I
  OBVIOUS
<1> HIDE DEF n
<1>1. \A s \in Parts(n) : Max(s) \in 1 .. n /\ Rest(s) \in SUBSET (1 .. n) /\ s \in SUBSET (1 .. n)
  BY <1>0, MaxOf, RestOf
<1>2. ASSUME NEW s \in Parts(n), NEW at \in Kept[Rest(s)]
      PROVE  op(at, seq[Max(s)]) \in Kept[s]
  <2> DEFINE item == seq[Max(s)]
             new == TakeFrom(at, d, c, item, pool)
  <2>1. at \in Stages /\ OnWay(devs, at, c, pool, last) /\ Len(at.taken) <= LastPlace(Rest(s))
    BY <1>1
  <2>2. IsItem(item)
    BY <1>0, <1>1
  <2>3. op(at, seq[Max(s)]) = IF at.ok THEN new ELSE at
    OBVIOUS
  <2>4. new = TakeFrom(at, d, c, item, pool)
    OBVIOUS
  <2> HIDE DEF item, new, op
  <2>5. new \in Stages /\ OnWay(devs, new, c, pool, last)
    BY <2>1, <2>2, <2>4, TakeFromOnWay
  <2>6. Len(new.taken) <= Len(at.taken) + 1
    BY <2>1, <2>4, TakeFromLength
  <2>7. Len(at.taken) \in Nat /\ Len(new.taken) \in Nat
    BY <2>1, <2>5, StageLength
  <2>8. LastPlace(s) \in Nat /\ LastPlace(Rest(s)) \in Nat /\ LastPlace(Rest(s)) + 1 <= LastPlace(s)
    BY <1>0, LastPlaceStep
  <2>9. Len(at.taken) <= LastPlace(s) /\ Len(new.taken) <= LastPlace(s)
    BY <2>1, <2>6, <2>7, <2>8
  <2> QED BY <1>1, <2>1, <2>3, <2>5, <2>9
<1>3. base \in Kept[{}]
  <2>1. devs \in [Devices -> DeviceType]
    BY DEF Sound, AllInOrder
  <2>2. Len(base.taken) <= LastPlace({})
    BY <1>0, <2>1, StartLength, LastPlaceEnds
  <2> QED BY <2>2, BeginsOnWay
<1> HIDE DEF op, base
<1>4. PICK h : IsFold(h, n, base, step) /\ Within(h, n, Kept)
  <2>1. Keeping(n, Kept, step)
    BY <1>1, <1>2 DEF Keeping
  <2> HIDE DEF step, Kept
  <2> QED BY <1>0, <1>3, <2>1, FoldExists
<1>5. IsRun(run)
  <2>1. \A s \in Parts(n) : step[s][h[Rest(s)]] = op(h[Rest(s)], seq[Max(s)])
    BY <1>1, <1>4 DEF Within
  <2> HIDE DEF step, Kept
  <2>2. IsRun(h)
    BY <1>4, <2>1 DEF IsFold, Rest, Parts
  <2> HIDE DEF IsRun
  <2> QED BY <2>2
<1>6. r = run[1 .. n]
  BY <1>0 DEF ItemsFrom, FoldLeft, MapThenFoldSet, op, base
<1>7. run[1 .. n] \in Kept[1 .. n]
  <2>1. run[{}] = base /\ \A s \in Parts(n) : run[s] = op(run[Rest(s)], seq[Max(s)])
    BY <1>1, <1>5 DEF Parts, Rest
  <2> HIDE DEF run, Kept
  <2>2. \A s \in Parts(n) : run[Rest(s)] \in Kept[Rest(s)] => run[s] \in Kept[s]
    BY <1>2, <2>1
  <2>3. run[{}] \in Kept[{}] /\ n \in Nat
    BY <1>0, <1>3, <2>1
  <2> QED BY <2>2, <2>3, FoldKeeps
<1> HIDE DEF run
<1>8. LastPlace(1 .. n) = n
  BY <1>0, LastPlaceEnds
<1> QED BY <1>0, <1>6, <1>7, <1>8 DEF n

LEMMA ItemsAnywhereOnWay ==
  ASSUME NEW devs, NEW last \in Nat, Sound(devs, last), NEW c \in Clients,
         NEW pool \in {NoPool} \cup PoolIds, NEW I, \A item \in I : IsItem(item), NEW seq \in Seq(I),
         NEW r, r = ItemsAnywhere(devs, c, seq, pool)
  PROVE  r \in Stages /\ OnWay(devs, r, c, pool, last) /\ Len(r.taken) <= Len(seq)
<1> DEFINE n == Len(seq)
           base == Start(devs)
           op(at, item) == IF at.ok THEN TakeAnywhere(at, c, item, pool) ELSE at
           IsRun(h) == h = [s \in SUBSET (1 .. n) |-> IF s = {} THEN base
                                                      ELSE op(h[s \ {Max(s)}], seq[Max(s)])]
           Kept == [s \in SUBSET (1 .. n) |->
                      {at \in Stages : /\ OnWay(devs, at, c, pool, last)
                                       /\ Len(at.taken) <= LastPlace(s)}]
           step == [s \in Parts(n) |-> [at \in Kept[Rest(s)] |-> op(at, seq[Max(s)])]]
           run == CHOOSE h : IsRun(h)
<1>0. n \in Nat /\ DOMAIN seq = 1 .. n /\ \A i \in 1 .. n : seq[i] \in I
  OBVIOUS
<1> HIDE DEF n
<1>1. \A s \in Parts(n) : Max(s) \in 1 .. n /\ Rest(s) \in SUBSET (1 .. n) /\ s \in SUBSET (1 .. n)
  BY <1>0, MaxOf, RestOf
<1>2. ASSUME NEW s \in Parts(n), NEW at \in Kept[Rest(s)]
      PROVE  op(at, seq[Max(s)]) \in Kept[s]
  <2> DEFINE item == seq[Max(s)]
             new == TakeAnywhere(at, c, item, pool)
  <2>1. at \in Stages /\ OnWay(devs, at, c, pool, last) /\ Len(at.taken) <= LastPlace(Rest(s))
    BY <1>1
  <2>2. IsItem(item)
    BY <1>0, <1>1
  <2>3. op(at, seq[Max(s)]) = IF at.ok THEN new ELSE at
    OBVIOUS
  <2>4. new = TakeAnywhere(at, c, item, pool)
    OBVIOUS
  <2> HIDE DEF item, new, op
  <2>5. new \in Stages /\ OnWay(devs, new, c, pool, last)
    BY <2>1, <2>2, <2>4, TakeAnywhereOnWay
  <2>6. Len(new.taken) <= Len(at.taken) + 1
    BY <2>1, <2>4, TakeAnywhereLength
  <2>7. Len(at.taken) \in Nat /\ Len(new.taken) \in Nat
    BY <2>1, <2>5, StageLength
  <2>8. LastPlace(s) \in Nat /\ LastPlace(Rest(s)) \in Nat /\ LastPlace(Rest(s)) + 1 <= LastPlace(s)
    BY <1>0, LastPlaceStep
  <2>9. Len(at.taken) <= LastPlace(s) /\ Len(new.taken) <= LastPlace(s)
    BY <2>1, <2>6, <2>7, <2>8
  <2> QED BY <1>1, <2>1, <2>3, <2>5, <2>9
<1>3. base \in Kept[{}]
  <2>1. devs \in [Devices -> DeviceType]
    BY DEF Sound, AllInOrder
  <2>2. Len(base.taken) <= LastPlace({})
    BY <1>0, <2>1, StartLength, LastPlaceEnds
  <2> QED BY <2>2, BeginsOnWay
<1> HIDE DEF op, base
<1>4. PICK h : IsFold(h, n, base, step) /\ Within(h, n, Kept)
  <2>1. Keeping(n, Kept, step)
    BY <1>1, <1>2 DEF Keeping
  <2> HIDE DEF step, Kept
  <2> QED BY <1>0, <1>3, <2>1, FoldExists
<1>5. IsRun(run)
  <2>1. \A s \in Parts(n) : step[s][h[Rest(s)]] = op(h[Rest(s)], seq[Max(s)])
    BY <1>1, <1>4 DEF Within
  <2> HIDE DEF step, Kept
  <2>2. IsRun(h)
    BY <1>4, <2>1 DEF IsFold, Rest, Parts
  <2> HIDE DEF IsRun
  <2> QED BY <2>2
<1>6. r = run[1 .. n]
  BY <1>0 DEF ItemsAnywhere, FoldLeft, MapThenFoldSet, op, base
<1>7. run[1 .. n] \in Kept[1 .. n]
  <2>1. run[{}] = base /\ \A s \in Parts(n) : run[s] = op(run[Rest(s)], seq[Max(s)])
    BY <1>1, <1>5 DEF Parts, Rest
  <2> HIDE DEF run, Kept
  <2>2. \A s \in Parts(n) : run[Rest(s)] \in Kept[Rest(s)] => run[s] \in Kept[s]
    BY <1>2, <2>1
  <2>3. run[{}] \in Kept[{}] /\ n \in Nat
    BY <1>0, <1>3, <2>1
  <2> QED BY <2>2, <2>3, FoldKeeps
<1> HIDE DEF run
<1>8. LastPlace(1 .. n) = n
  BY <1>0, LastPlaceEnds
<1> QED BY <1>0, <1>6, <1>7, <1>8 DEF n

LEMMA EmptyLength ==
  ASSUME NEW I, NEW seq \in Seq(I), NEW none, none = <<>>
  PROVE  Len(none) = 0 /\ 0 <= Len(seq)
OBVIOUS

LEMMA AllFromGood ==
  ASSUME NEW devs, NEW last \in Nat, Sound(devs, last), NEW c \in Clients,
         NEW pool \in {NoPool} \cup PoolIds, NEW d, NEW I, \A item \in I : IsItem(item), NEW seq \in Seq(I),
         NEW r, r = AllFrom(devs, d, c, seq, pool)
  PROVE  r \in Stages /\ AllOrNone(devs, r, c, pool, last) /\ Len(r.taken) <= Len(seq)
<1> DEFINE end == ItemsFrom(devs, d, c, seq, pool)
           none == Undone(end, c)
<1>1. end \in Stages /\ OnWay(devs, end, c, pool, last) /\ Len(end.taken) <= Len(seq)
  BY ItemsFromOnWay
<1>2. r = IF end.ok THEN end ELSE none
  BY DEF AllFrom, ItemsFrom
<1> HIDE DEF end
<1>3. none \in Stages /\ AllOrNone(devs, none, c, pool, last) /\ none.taken = <<>>
  BY <1>1, UndoneIsNone DEF AllOrNone
<1> HIDE DEF none
<1>4. Len(none.taken) <= Len(seq)
  BY <1>3, EmptyLength
<1> QED BY <1>1, <1>2, <1>3, <1>4 DEF AllOrNone

(* The next allocation, when what was allocated before is nothing or stays.*)
LEMMA OnAndOn ==
  ASSUME NEW devs, NEW last, NEW c \in Clients, NEW pool,
         NEW at, at.taken \in Seq(Ports), OnWay(devs, at, c, pool, last),
         NEW more, more.taken \in Seq(Ports), OnWay(at.devs, more, c, pool, last)
  PROVE  /\ Took(devs, more.devs, c, pool, at.taken \o more.taken)
         /\ at.taken \o more.taken \in Seq(Ports)
         /\ at.taken = <<>> => OnWay(devs, more, c, pool, last)
<1> DEFINE first == at.taken
           second == more.taken
           mid == at.devs
           new == more.devs
<1>1. /\ first \in Seq(Ports) /\ second \in Seq(Ports)
      /\ Took(devs, mid, c, pool, first) /\ Took(mid, new, c, pool, second) /\ Sound(new, last)
  BY DEF OnWay
<1> HIDE DEF first, second, mid, new, Ports
<1>2. Took(devs, new, c, pool, first \o second)
  BY <1>1, TookOn
<1>3. first \o second \in Seq(Ports)
  BY <1>1
<1>4. first = <<>> => first \o second = second
  BY <1>1
<1>5. first = <<>> => Took(devs, new, c, pool, second)
  BY <1>2, <1>4
<1> USE DEF first, second, mid, new
<1>6. at.taken = <<>> => Took(devs, more.devs, c, pool, more.taken)
  BY <1>5
<1> QED BY <1>1, <1>2, <1>3, <1>6 DEF OnWay

LEMMA AllFromOneGood ==
  ASSUME NEW devs, NEW last \in Nat, Sound(devs, last), NEW c \in Clients,
         NEW pool \in {NoPool} \cup PoolIds, NEW I, \A item \in I : IsItem(item), NEW items \in Seq(I),
         NEW used, NEW r, r = AllFromOne(devs, used, c, items, pool)
  PROVE  r \in Stages /\ AllOrNone(devs, r, c, pool, last) /\ Len(r.taken) <= Len(items)
<1> DEFINE seq == [i \in 1 .. NumDevices |-> i - 1]
           n == NumDevices
           base == Failed(devs)
           op(at, d) == IF at.ok \/ d \in used \/ ~IsFreeForClient(at.devs[d], c) THEN at
                        ELSE AllFrom(at.devs, d, c, items, pool)
           IsRun(h) == h = [s \in SUBSET (1 .. n) |-> IF s = {} THEN base
                                                      ELSE op(h[s \ {Max(s)}], seq[Max(s)])]
           Kept == [s \in SUBSET (1 .. n) |->
                      {at \in Stages : /\ AllOrNone(devs, at, c, pool, last)
                                       /\ Len(at.taken) <= Len(items)}]
           step == [s \in Parts(n) |-> [at \in Kept[Rest(s)] |-> op(at, seq[Max(s)])]]
           run == CHOOSE h : IsRun(h)
<1>0. n \in Nat /\ DOMAIN seq = 1 .. n /\ seq = [i \in 1 .. NumDevices |-> i - 1]
  BY SystemAssumption
<1> HIDE DEF n, seq
<1>1. \A s \in Parts(n) : Max(s) \in 1 .. n /\ Rest(s) \in SUBSET (1 .. n) /\ s \in SUBSET (1 .. n)
  BY <1>0, MaxOf, RestOf
<1>2. ASSUME NEW s \in Parts(n), NEW at \in Kept[Rest(s)]
      PROVE  op(at, seq[Max(s)]) \in Kept[s]
  <2> DEFINE d == seq[Max(s)]
             ds == at.devs
             new == AllFrom(ds, d, c, items, pool)
             stays == at.ok \/ d \in used \/ ~IsFreeForClient(at.devs[d], c)
  <2>1. at \in Stages /\ AllOrNone(devs, at, c, pool, last) /\ Len(at.taken) <= Len(items)
    BY <1>1
  <2>2. Sound(ds, last) /\ OnWay(devs, at, c, pool, last) /\ at.taken \in Seq(Ports)
    BY <2>1, StageTyped DEF AllOrNone, OnWay
  <2>3. op(at, seq[Max(s)]) = IF stays THEN at ELSE new
    OBVIOUS
  <2>4. new = AllFrom(ds, d, c, items, pool)
    OBVIOUS
  <2>5. ~stays => at.taken = <<>>
    BY <2>1 DEF AllOrNone
  <2>6. ds = at.devs
    OBVIOUS
  <2> HIDE DEF d, new, op, stays, ds
  <2>7. new \in Stages /\ AllOrNone(ds, new, c, pool, last) /\ Len(new.taken) <= Len(items)
    BY <2>2, <2>4, AllFromGood
  <2>8. new.taken \in Seq(Ports) /\ OnWay(at.devs, new, c, pool, last)
    BY <2>6, <2>7, StageTyped DEF AllOrNone
  <2>9. ~stays => OnWay(devs, new, c, pool, last)
    BY <2>2, <2>5, <2>8, OnAndOn
  <2> QED BY <1>1, <2>1, <2>3, <2>7, <2>9 DEF AllOrNone
<1>3. base \in Kept[{}]
  <2>1. Len(base.taken) <= Len(items)
    <3>1. devs \in [Devices -> DeviceType]
      BY DEF Sound, AllInOrder
    <3>2. base.taken = <<>>
      BY <3>1, StartFields
    <3> QED BY <3>2, EmptyLength
  <2> QED BY <2>1, BeginsOnWay
<1> HIDE DEF op, base
<1>4. PICK h : IsFold(h, n, base, step) /\ Within(h, n, Kept)
  <2>1. Keeping(n, Kept, step)
    BY <1>1, <1>2 DEF Keeping
  <2> HIDE DEF step, Kept
  <2> QED BY <1>0, <1>3, <2>1, FoldExists
<1>5. IsRun(run)
  <2>1. \A s \in Parts(n) : step[s][h[Rest(s)]] = op(h[Rest(s)], seq[Max(s)])
    BY <1>1, <1>4 DEF Within
  <2> HIDE DEF step, Kept
  <2>2. IsRun(h)
    BY <1>4, <2>1 DEF IsFold, Rest, Parts
  <2> HIDE DEF IsRun
  <2> QED BY <2>2
<1>6. r = run[1 .. n]
  BY <1>0 DEF AllFromOne, FoldLeft, MapThenFoldSet, op, base, seq, n
<1>7. run[1 .. n] \in Kept[1 .. n]
  <2>1. run[{}] = base /\ \A s \in Parts(n) : run[s] = op(run[Rest(s)], seq[Max(s)])
    BY <1>1, <1>5 DEF Parts, Rest
  <2> HIDE DEF run, Kept
  <2>2. \A s \in Parts(n) : run[Rest(s)] \in Kept[Rest(s)] => run[s] \in Kept[s]
    BY <1>2, <2>1
  <2>3. run[{}] \in Kept[{}]
    BY <1>3, <2>1
  <2>4. n \in Nat
    BY <1>0
  <2> QED BY <2>2, <2>3, <2>4, FoldKeeps
<1> HIDE DEF run
<1> QED BY <1>0, <1>6, <1>7

(* A list of version 1 is had as a whole or not at all.                    *)
LEMMA ListGood ==
  ASSUME NEW devs, NEW last \in Nat, Sound(devs, last), NEW c \in Clients,
         NEW pool \in {NoPool} \cup PoolIds, NEW list \in Lists,
         NEW r, r = ResAllocCuList(devs, c, list, pool)
  PROVE  r \in Stages /\ AllOrNone(devs, r, c, pool, last) /\ Len(r.taken) <= Len(list.items)
<1> DEFINE items == list.items
           end == ItemsAnywhere(devs, c, items, pool)
           none == Undone(end, c)
           one == AllFromOne(devs, {}, c, items, pool)
<1>1. items \in Seq(Items) /\ \A item \in Items : IsItem(item)
  BY ListsAssumption DEF Items, IsItem
<1>2. r = IF list.sameDevice THEN one ELSE IF end.ok THEN end ELSE none
  BY DEF ResAllocCuList, ItemsAnywhere
<1>3. one = AllFromOne(devs, {}, c, items, pool) /\ end = ItemsAnywhere(devs, c, items, pool)
  OBVIOUS
<1> HIDE DEF items, end, one
<1>4. one \in Stages /\ AllOrNone(devs, one, c, pool, last) /\ Len(one.taken) <= Len(items)
  BY <1>1, <1>3, AllFromOneGood
<1>5. end \in Stages /\ OnWay(devs, end, c, pool, last) /\ Len(end.taken) <= Len(items)
  BY <1>1, <1>3, ItemsAnywhereOnWay
<1>6. none \in Stages /\ AllOrNone(devs, none, c, pool, last) /\ none.taken = <<>>
  BY <1>5, UndoneIsNone DEF AllOrNone
<1> HIDE DEF none
<1>7. Len(none.taken) <= Len(items)
  BY <1>1, <1>6, EmptyLength
<1>8. items = list.items
  BY DEF items
<1> QED BY <1>2, <1>4, <1>5, <1>6, <1>7, <1>8 DEF AllOrNone

----------------------------------------------------------------------------
(* Lists of version 2.                                                     *)
ItemsV2 == [req : Requests, excl : BOOLEAN, where : Places]

LEMMA PositionsFinite ==
  ASSUME NEW n \in Nat, NEW s \in SUBSET (1 .. n)
  PROVE  IsFiniteSet(s) /\ Cardinality(s) \in Nat /\ Cardinality(s) <= n
<1> DEFINE all == 1 .. n
<1>1. IsFiniteSet(all) /\ Cardinality(all) = n
  BY FS_Interval
<1>2. s \in SUBSET all
  OBVIOUS
<1> HIDE DEF all
<1>3. IsFiniteSet(s) /\ Cardinality(s) <= Cardinality(all)
  BY <1>1, <1>2, FS_Subset
<1>4. Cardinality(s) \in Nat
  BY <1>3, FS_CardinalityType
<1> QED BY <1>1, <1>3, <1>4

(* The items of a list that are wanted where item j is. *)
Alike(seq, j) == {i \in DOMAIN seq : seq[i].where = seq[j].where}

LEMMA SubListType ==
  ASSUME NEW I, NEW seq \in Seq(I), NEW j, NEW r, r = SubList(seq, j)
  PROVE  r \in Seq(I) /\ Len(r) <= Cardinality(Alike(seq, j))
<1> DEFINE n == Len(seq)
           base == <<>>
           op(at, d) == IF d.where = seq[j].where THEN Append(at, d) ELSE at
           alike(s) == {i \in s : seq[i].where = seq[j].where}
           IsRun(h) == h = [s \in SUBSET (1 .. n) |-> IF s = {} THEN base
                                                      ELSE op(h[s \ {Max(s)}], seq[Max(s)])]
           Kept == [s \in SUBSET (1 .. n) |->
                      {at \in Seq(I) : Len(at) <= Cardinality(alike(s))}]
           step == [s \in Parts(n) |-> [at \in Kept[Rest(s)] |-> op(at, seq[Max(s)])]]
           run == CHOOSE h : IsRun(h)
<1>0. n \in Nat /\ DOMAIN seq = 1 .. n /\ \A i \in 1 .. n : seq[i] \in I
  OBVIOUS
<1> HIDE DEF n
<1>1. \A s \in Parts(n) : Max(s) \in 1 .. n /\ Rest(s) \in SUBSET (1 .. n) /\ s \in SUBSET (1 .. n)
  BY <1>0, MaxOf, RestOf
<1>2. ASSUME NEW s \in Parts(n), NEW at \in Kept[Rest(s)]
      PROVE  op(at, seq[Max(s)]) \in Kept[s]
  <2>1. at \in Seq(I) /\ seq[Max(s)] \in I /\ Len(at) <= Cardinality(alike(Rest(s)))
    BY <1>0, <1>1
  <2> DEFINE d == seq[Max(s)]
  <2>2. op(at, d) = IF d.where = seq[j].where THEN Append(at, d) ELSE at
    OBVIOUS
  <2> HIDE DEF d, op
  <2>3. op(at, d) \in Seq(I)
    BY <2>1, <2>2 DEF d
  <2>4. Max(s) \in s /\ Rest(s) = s \ {Max(s)}
    BY <1>0, MaxOf DEF Rest
  <2>5. IsFiniteSet(alike(Rest(s))) /\ Cardinality(alike(Rest(s))) \in Nat
    <3>1. alike(Rest(s)) \in SUBSET (1 .. n)
      BY <1>1
    <3> HIDE DEF alike
    <3> QED BY <1>0, <3>1, PositionsFinite
  <2>6. Len(op(at, d)) <= Cardinality(alike(s))
    <3>1. CASE d.where = seq[j].where
      <4>1. alike(s) = alike(Rest(s)) \cup {Max(s)} /\ Max(s) \notin alike(Rest(s))
        BY <2>4, <3>1 DEF d
      <4> HIDE DEF alike
      <4>2. Cardinality(alike(s)) = Cardinality(alike(Rest(s))) + 1
        BY <2>5, <4>1, FS_AddElement
      <4>3. Len(Append(at, d)) = Len(at) + 1 /\ Len(at) \in Nat
        BY <2>1
      <4> QED BY <2>1, <2>2, <2>5, <3>1, <4>2, <4>3
    <3>2. CASE d.where # seq[j].where
      <4>1. alike(s) = alike(Rest(s))
        BY <2>4, <3>2 DEF d
      <4> QED BY <2>1, <2>2, <3>2, <4>1
    <3> QED BY <3>1, <3>2
  <2> HIDE DEF alike
  <2> QED BY <1>1, <2>3, <2>6 DEF d
<1>3. base \in Kept[{}]
  <2>1. alike({}) = {} /\ Len(base) = 0 /\ base \in Seq(I)
    OBVIOUS
  <2> HIDE DEF alike, base
  <2> QED BY <2>1, FS_EmptySet
<1> HIDE DEF op, base
<1>4. PICK h : IsFold(h, n, base, step) /\ Within(h, n, Kept)
  <2>1. Keeping(n, Kept, step)
    BY <1>1, <1>2 DEF Keeping
  <2> HIDE DEF step, Kept
  <2> QED BY <1>0, <1>3, <2>1, FoldExists
<1>5. IsRun(run)
  <2>1. \A s \in Parts(n) : step[s][h[Rest(s)]] = op(h[Rest(s)], seq[Max(s)])
    BY <1>1, <1>4 DEF Within
  <2> HIDE DEF step, Kept
  <2>2. IsRun(h)
    BY <1>4, <2>1 DEF IsFold, Rest, Parts
  <2> HIDE DEF IsRun
  <2> QED BY <2>2
<1>6. r = run[1 .. n]
  BY <1>0 DEF SubList, FoldLeft, MapThenFoldSet, op, base
<1>7. run[1 .. n] \in Kept[1 .. n]
  <2>1. run[{}] = base /\ \A s \in Parts(n) : run[s] = op(run[Rest(s)], seq[Max(s)])
    BY <1>1, <1>5 DEF Parts, Rest
  <2> HIDE DEF run, Kept
  <2>2. \A s \in Parts(n) : run[Rest(s)] \in Kept[Rest(s)] => run[s] \in Kept[s]
    BY <1>2, <2>1
  <2>3. run[{}] \in Kept[{}] /\ n \in Nat
    BY <1>0, <1>3, <2>1
  <2> QED BY <2>2, <2>3, FoldKeeps
<1> HIDE DEF run
<1>8. alike(1 .. n) = Alike(seq, j)
  BY <1>0 DEF Alike
<1> HIDE DEF alike
<1> QED BY <1>0, <1>6, <1>7, <1>8

(* What is taken when the loop reaches item i, and by then at s.           *)
WithItem(list, i) ==
    {j \in DOMAIN list :
        j = i \/ (list[i].where.type = "virtual" /\ list[j].where = list[i].where)}

WithItems(list, s) == {j \in DOMAIN list : \E i \in s : j \in WithItem(list, i)}

LEMMA WithItemFinite ==
  ASSUME NEW I, NEW list \in Seq(I), NEW i \in DOMAIN list
  PROVE  IsFiniteSet(WithItem(list, i)) /\ Cardinality(WithItem(list, i)) \in Nat
         /\ 1 <= Cardinality(WithItem(list, i))
<1> DEFINE all == WithItem(list, i)
           n == Len(list)
<1>1. n \in Nat /\ all \in SUBSET (1 .. n) /\ i \in all
  BY DEF WithItem
<1> HIDE DEF all, n
<1>2. IsFiniteSet(all) /\ Cardinality(all) \in Nat
  BY <1>1, PositionsFinite
<1>3. Cardinality(all) # 0
  BY <1>1, <1>2, FS_EmptySet
<1> QED BY <1>2, <1>3 DEF all

(* An item that is not handled yet is none of those taken before it.       *)
LEMMA WithItemsStep ==
  ASSUME NEW I, NEW list \in Seq(I), NEW n, n = Len(list), NEW s \in Parts(n)
  PROVE  /\ Cardinality(WithItems(list, Rest(s))) \in Nat /\ Cardinality(WithItems(list, s)) \in Nat
         /\ Cardinality(WithItems(list, Rest(s))) <= Cardinality(WithItems(list, s))
         /\ ~IsHandled(list, Max(s)) =>
                Cardinality(WithItems(list, s))
                   = Cardinality(WithItems(list, Rest(s))) + Cardinality(WithItem(list, Max(s)))
<1> DEFINE k == Max(s)
           before == WithItems(list, Rest(s))
           now == WithItems(list, s)
           new == WithItem(list, k)
<1>1. n \in Nat /\ DOMAIN list = 1 .. n
  OBVIOUS
<1>2. k \in s /\ k \in 1 .. n /\ (\A y \in s : y <= k) /\ Rest(s) = s \ {k} /\ s \subseteq 1 .. n
  BY <1>1, MaxOf DEF Rest, Parts
<1>3. now = before \cup new /\ now \in SUBSET (1 .. n) /\ before \in SUBSET (1 .. n)
      /\ before \in SUBSET now
  BY <1>1, <1>2 DEF WithItems, WithItem
<1>4. IsFiniteSet(new)
  BY <1>1, <1>2, WithItemFinite
<1>5. ~IsHandled(list, k) => before \cap new = {}
  <2> SUFFICES ASSUME NEW j \in before, j \in new PROVE IsHandled(list, k)
    OBVIOUS
  <2>1. PICK i \in Rest(s) : j = i \/ (list[i].where.type = "virtual" /\ list[j].where = list[i].where)
    BY DEF WithItems, WithItem
  <2>2. i \in 1 .. k - 1
    <3>1. i \in s /\ i # k
      BY <1>2
    <3>2. i \in 1 .. n /\ i <= k /\ k \in 1 .. n
      BY <1>2, <3>1
    <3> HIDE DEF k
    <3> QED BY <1>1, <3>1, <3>2
  <2>3. j = k \/ (list[k].where.type = "virtual" /\ list[j].where = list[k].where)
    BY DEF WithItem
  <2>4. list[k].where.type = "virtual" /\ list[i].where = list[k].where
    BY <2>1, <2>2, <2>3, <1>2
  <2> QED BY <2>2, <2>4 DEF IsHandled
<1> HIDE DEF k, before, now, new
<1>6. /\ IsFiniteSet(before) /\ Cardinality(before) \in Nat
      /\ IsFiniteSet(now) /\ Cardinality(now) \in Nat
  BY <1>1, <1>3, PositionsFinite
<1>7. Cardinality(before) <= Cardinality(now)
  BY <1>3, <1>6, FS_Subset
<1>8. ASSUME ~IsHandled(list, k) PROVE Cardinality(now) = Cardinality(before) + Cardinality(new)
  <2>1. Cardinality(before \cap new) = 0
    BY <1>5, <1>8, FS_EmptySet
  <2>2. Cardinality(new) \in Nat
    BY <1>4, FS_CardinalityType
  <2>3. Cardinality(before \cup new)
            = Cardinality(before) + Cardinality(new) - Cardinality(before \cap new)
    BY <1>4, <1>6, FS_Union
  <2> QED BY <1>3, <1>6, <2>1, <2>2, <2>3
<1> QED BY <1>6, <1>7, <1>8 DEF k, before, now, new

(* One round of the loop. *)
TakesItem(list, i, at, r) ==
    /\ IsHandled(list, i) => r = at
    /\ ~IsHandled(list, i) => Len(r.taken) <= Len(at.taken) + Cardinality(WithItem(list, i))

LEMMA TakeItemOnWay ==
  ASSUME NEW devs, NEW c \in Clients, NEW pool \in {NoPool} \cup PoolIds, NEW last \in Nat,
         NEW at \in StagesV2, OnWay(devs, at, c, pool, last),
         NEW list \in Seq(ItemsV2), NEW i \in DOMAIN list,
         NEW r, r = TakeItem(at, list, i, c, pool)
  PROVE  /\ r \in StagesV2 /\ OnWay(devs, r, c, pool, last)
         /\ TakesItem(list, i, at, r)
<1> DEFINE item == list[i]
           ds == at.devs
           used == PassedOver(at)
           subs == SubList(list, i)
           sub == AllFromOne(ds, used, c, subs, pool)
           rest == [ok |-> sub.ok, devs |-> sub.devs, taken |-> at.taken \o sub.taken,
                    used |-> at.used \cup DevicesOf(sub.taken)]
           any == TakeAnywhere(at, c, item, pool)
           index == item.where.index
           from == TakeFrom(at, index, c, item, pool)
           together == WithItem(list, i)
           is == IsHandled(list, i)
<1>1. /\ item \in ItemsV2 /\ Sound(ds, last)
      /\ at.taken \in Seq(Ports) /\ at.used \in SUBSET Devices
  BY StageTyped DEF OnWay, StagesV2
<1>2. IsItem(item) /\ \A one \in ItemsV2 : IsItem(one)
  BY <1>1 DEF IsItem, ItemsV2
<1>3. /\ r \in {at, any, from, rest}
      /\ is => r = at
      /\ ~is => r \in {any, from} \/ (r = rest /\ item.where.type = "virtual")
  <2>1. item.where = Anywhere \/ item.where.type \in {"hardware", "virtual"}
    BY <1>1 DEF ItemsV2, Places
  <2> QED BY <2>1 DEF TakeItem
<1>4. /\ any = TakeAnywhere(at, c, item, pool) /\ from = TakeFrom(at, index, c, item, pool)
      /\ sub = AllFromOne(ds, used, c, subs, pool) /\ subs = SubList(list, i) /\ ds = at.devs
  OBVIOUS
<1>3a. item.where.type = "virtual" => Alike(list, i) = together
  BY DEF Alike, WithItem
<1>3b. IsFiniteSet(together) /\ Cardinality(together) \in Nat /\ 1 <= Cardinality(together)
  BY WithItemFinite
<1> HIDE DEF item, any, from, index, subs, used, ds, together, is
<1>5. /\ any \in StagesV2 /\ OnWay(devs, any, c, pool, last)
      /\ Len(any.taken) <= Len(at.taken) + 1
  BY <1>2, <1>4, TakeAnywhereOnWay, TakeAnywhereLength
<1>6. /\ from \in StagesV2 /\ OnWay(devs, from, c, pool, last)
      /\ Len(from.taken) <= Len(at.taken) + 1
  BY <1>2, <1>4, TakeFromOnWay, TakeFromLength
<1> HIDE DEF sub
<1>7. subs \in Seq(ItemsV2) /\ Len(subs) <= Cardinality(Alike(list, i))
  BY <1>4, SubListType
<1>8. sub \in Stages /\ AllOrNone(ds, sub, c, pool, last) /\ Len(sub.taken) <= Len(subs)
  BY <1>1, <1>2, <1>4, <1>7, AllFromOneGood
<1>9. /\ sub.taken \in Seq(Ports) /\ sub.ok \in BOOLEAN /\ sub.devs \in [Devices -> DeviceType]
      /\ OnWay(at.devs, sub, c, pool, last) /\ Sound(sub.devs, last)
  BY <1>4, <1>8, StageTyped DEF AllOrNone, OnWay
<1>10. /\ Took(devs, sub.devs, c, pool, at.taken \o sub.taken)
       /\ at.taken \o sub.taken \in Seq(Ports)
  BY <1>1, <1>9, OnAndOn
<1>11. DevicesOf(sub.taken) \in SUBSET Devices
  <2>1. \A k \in DOMAIN sub.taken : sub.taken[k] \in Ports
    BY <1>9
  <2> QED BY <2>1, PortParts DEF DevicesOf
<1>12. rest \in StagesV2
  <2> DEFINE taken == at.taken \o sub.taken
             more == at.used \cup DevicesOf(sub.taken)
  <2>1. taken \in Seq(Ports) /\ more \in SUBSET Devices
    BY <1>1, <1>10, <1>11
  <2> HIDE DEF taken, more
  <2>2. [ok |-> sub.ok, devs |-> sub.devs, taken |-> taken, used |-> more] \in StagesV2
    BY <1>9, <2>1 DEF StagesV2
  <2> QED BY <2>2 DEF taken, more
<1>13. rest.devs = sub.devs /\ rest.taken = at.taken \o sub.taken
  OBVIOUS
<1> HIDE DEF rest
<1>14. OnWay(devs, rest, c, pool, last)
  BY <1>9, <1>10, <1>13 DEF OnWay
<1>15. item.where.type = "virtual" => Len(rest.taken) <= Len(at.taken) + Cardinality(together)
  <2>1. Len(rest.taken) = Len(at.taken) + Len(sub.taken) /\ Len(at.taken) \in Nat
        /\ Len(sub.taken) \in Nat /\ Len(subs) \in Nat
    <3> HIDE DEF Ports
    <3> QED BY <1>1, <1>7, <1>9, <1>13
  <2>2. Len(sub.taken) <= Len(subs) /\ Len(subs) <= Cardinality(Alike(list, i))
    BY <1>7, <1>8
  <2>3. ASSUME item.where.type = "virtual" PROVE Len(rest.taken) <= Len(at.taken) + Cardinality(together)
    <3>1. Len(subs) <= Cardinality(together)
      BY <1>3a, <2>2, <2>3
    <3> DEFINE a == Len(at.taken)
               b == Len(sub.taken)
               both == Len(rest.taken)
               size == Cardinality(together)
    <3>2. both = a + b /\ a \in Nat /\ b \in Nat /\ size \in Nat /\ b <= size
      BY <1>3b, <2>1, <2>2, <3>1
    <3> HIDE DEF a, b, both, size
    <3>3. both <= a + size
      BY <3>2
    <3> QED BY <3>3 DEF a, both, size
  <2> QED BY <2>3
<1>16. Len(at.taken) \in Nat /\ Len(any.taken) \in Nat /\ Len(from.taken) \in Nat
  BY <1>5, <1>6, StageLength
<1>17. ~is => Len(r.taken) <= Len(at.taken) + Cardinality(together)
  BY <1>3, <1>5, <1>6, <1>15, <1>16, <1>3b
<1>18. r \in StagesV2 /\ OnWay(devs, r, c, pool, last)
  BY <1>3, <1>5, <1>6, <1>12, <1>14
<1> QED BY <1>3, <1>17, <1>18 DEF is, together, TakesItem

LEMMA ListV2Good ==
  ASSUME NEW devs, NEW last \in Nat, Sound(devs, last), NEW c \in Clients,
         NEW pool \in {NoPool} \cup PoolIds, NEW list \in ListsV2,
         NEW r, r = ResAllocCuListV2(devs, c, list, pool)
  PROVE  /\ r \in Stages \cup StagesV2 /\ AllOrNone(devs, r, c, pool, last)
         /\ Len(r.taken) <= Len(list)
<1> DEFINE seq == [i \in DOMAIN list |-> i]
           n == Len(list)
           base == [ok |-> TRUE, devs |-> devs, taken |-> <<>>, used |-> {}]
           op(at, d) == IF at.ok THEN TakeItem(at, list, d, c, pool) ELSE at
           IsRun(h) == h = [s \in SUBSET (1 .. n) |-> IF s = {} THEN base
                                                      ELSE op(h[s \ {Max(s)}], seq[Max(s)])]
           Kept == [s \in SUBSET (1 .. n) |->
                      {at \in StagesV2 : /\ OnWay(devs, at, c, pool, last)
                                         /\ Len(at.taken) <= Cardinality(WithItems(list, s))}]
           step == [s \in Parts(n) |-> [at \in Kept[Rest(s)] |-> op(at, seq[Max(s)])]]
           run == CHOOSE h : IsRun(h)
<1>0. /\ list \in Seq(ItemsV2) /\ n \in Nat /\ DOMAIN list = 1 .. n
      /\ DOMAIN seq = 1 .. n /\ \A i \in 1 .. n : seq[i] = i
  <2>1. list \in Seq(ItemsV2)
    BY ListsAssumption DEF ItemsV2
  <2> QED BY <2>1
<1> HIDE DEF n, seq
<1>1. \A s \in Parts(n) : Max(s) \in 1 .. n /\ Rest(s) \in SUBSET (1 .. n) /\ s \in SUBSET (1 .. n)
  BY <1>0, MaxOf, RestOf
<1>2. ASSUME NEW s \in Parts(n), NEW at \in Kept[Rest(s)]
      PROVE  op(at, seq[Max(s)]) \in Kept[s]
  <2> DEFINE i == seq[Max(s)]
             new == TakeItem(at, list, i, c, pool)
  <2>1. /\ at \in StagesV2 /\ OnWay(devs, at, c, pool, last)
        /\ Len(at.taken) <= Cardinality(WithItems(list, Rest(s)))
    BY <1>1
  <2>2. i \in DOMAIN list /\ i = Max(s)
    BY <1>0, <1>1
  <2>3. op(at, seq[Max(s)]) = IF at.ok THEN new ELSE at
    OBVIOUS
  <2>4. new = TakeItem(at, list, i, c, pool)
    OBVIOUS
  <2> HIDE DEF i, new, op
  <2>5. /\ new \in StagesV2 /\ OnWay(devs, new, c, pool, last)
        /\ TakesItem(list, i, at, new)
    BY <1>0, <2>1, <2>2, <2>4, TakeItemOnWay
  <2>6. Len(at.taken) \in Nat /\ Len(new.taken) \in Nat
    BY <2>1, <2>5, StageLength
  <2>7. Cardinality(WithItem(list, i)) \in Nat
    BY <1>0, <2>2, WithItemFinite
  <2>8. /\ Cardinality(WithItems(list, Rest(s))) \in Nat /\ Cardinality(WithItems(list, s)) \in Nat
        /\ Cardinality(WithItems(list, Rest(s))) <= Cardinality(WithItems(list, s))
        /\ ~IsHandled(list, i) =>
               Cardinality(WithItems(list, s))
                  = Cardinality(WithItems(list, Rest(s))) + Cardinality(WithItem(list, i))
    BY <1>0, <2>2, WithItemsStep DEF n
  <2>9. /\ Len(at.taken) <= Cardinality(WithItems(list, s))
        /\ Len(new.taken) <= Cardinality(WithItems(list, s))
    BY <2>1, <2>5, <2>6, <2>7, <2>8 DEF TakesItem
  <2> QED BY <1>1, <2>1, <2>3, <2>5, <2>9
<1>3. base \in Kept[{}]
  <2>1. Took(devs, devs, c, pool, <<>>)
    <3>1. SameXclbins(devs, devs)
      BY DEF SameXclbins, SameMode
    <3> QED BY <3>1, TookNone
  <2>2. <<>> \in Seq(Ports)
    OBVIOUS
  <2>3. devs \in [Devices -> DeviceType]
    BY DEF Sound, AllInOrder
  <2>4. base.devs = devs /\ base.taken = <<>>
    OBVIOUS
  <2>5. base \in StagesV2
    BY <2>2, <2>3 DEF StagesV2
  <2>6. Len(base.taken) <= Cardinality(WithItems(list, {}))
    <3>1. WithItems(list, {}) = {}
      BY DEF WithItems
    <3> QED BY <3>1, FS_EmptySet
  <2> HIDE DEF base
  <2> QED BY <2>1, <2>4, <2>5, <2>6 DEF OnWay
<1> HIDE DEF op, base
<1>4. PICK h : IsFold(h, n, base, step) /\ Within(h, n, Kept)
  <2>1. Keeping(n, Kept, step)
    BY <1>1, <1>2 DEF Keeping
  <2> HIDE DEF step, Kept
  <2> QED BY <1>0, <1>3, <2>1, FoldExists
<1>5. IsRun(run)
  <2>1. \A s \in Parts(n) : step[s][h[Rest(s)]] = op(h[Rest(s)], seq[Max(s)])
    BY <1>1, <1>4 DEF Within
  <2> HIDE DEF step, Kept
  <2>2. IsRun(h)
    BY <1>4, <2>1 DEF IsFold, Rest, Parts
  <2> HIDE DEF IsRun
  <2> QED BY <2>2
<1>6. r = IF run[1 .. n].ok THEN run[1 .. n] ELSE Undone(run[1 .. n], c)
  BY <1>0 DEF ResAllocCuListV2, FoldLeftDomain, FoldLeft, MapThenFoldSet, op, base, seq
<1>7. run[1 .. n] \in Kept[1 .. n]
  <2>1. run[{}] = base /\ \A s \in Parts(n) : run[s] = op(run[Rest(s)], seq[Max(s)])
    BY <1>1, <1>5 DEF Parts, Rest
  <2> HIDE DEF run, Kept
  <2>2. \A s \in Parts(n) : run[Rest(s)] \in Kept[Rest(s)] => run[s] \in Kept[s]
    BY <1>2, <2>1
  <2>3. run[{}] \in Kept[{}]
    BY <1>3, <2>1
  <2>4. n \in Nat
    BY <1>0
  <2> QED BY <2>2, <2>3, <2>4, FoldKeeps
<1> HIDE DEF run
<1>7a. Cardinality(WithItems(list, 1 .. n)) \in Nat /\ Cardinality(WithItems(list, 1 .. n)) <= n
  <2>1. WithItems(list, 1 .. n) \in SUBSET (1 .. n)
    BY <1>0 DEF WithItems
  <2> QED BY <1>0, <2>1, PositionsFinite
<1> DEFINE end == run[1 .. n]
           none == Undone(end, c)
<1>8. r = IF end.ok THEN end ELSE none
  BY <1>6
<1>9. /\ end \in StagesV2 /\ OnWay(devs, end, c, pool, last)
      /\ Len(end.taken) <= Cardinality(WithItems(list, 1 .. n))
  BY <1>0, <1>7
<1> HIDE DEF end
<1>10. none \in Stages /\ AllOrNone(devs, none, c, pool, last) /\ none.taken = <<>>
  BY <1>9, UndoneIsNone DEF AllOrNone
<1> HIDE DEF none
<1>11. Len(none.taken) <= Len(list)
  BY <1>0, <1>10, EmptyLength
<1>12. Len(end.taken) <= Len(list)
  <2>1. Len(end.taken) \in Nat
    BY <1>9, StageLength
  <2>2. n = Len(list)
    BY DEF n
  <2> QED BY <1>0, <1>9, <1>7a, <2>1, <2>2
<1> QED BY <1>8, <1>9, <1>10, <1>11, <1>12 DEF AllOrNone

----------------------------------------------------------------------------
(* Handles given back one after the other.                                 *)
Returned(at, c, h) ==
    IF at.ok /\ HoldsChannel(at.devs, c, h[1], h[2])
    THEN [at EXCEPT !.devs = ResReleaseCu(at.devs, c, h[1], h[2])]
    ELSE [at EXCEPT !.ok = FALSE]

ReturnedEach(devs, c, handles) ==
    FoldLeft(LAMBDA at, h : Returned(at, c, h), Start(devs), handles)

LEMMA ReturnedGood ==
  ASSUME NEW c \in Clients, NEW last \in Nat, NEW at \in Stages, Sound(at.devs, last),
         NEW h \in Ports, NEW r, r = Returned(at, c, h)
  PROVE  r \in Stages /\ Sound(r.devs, last)
<1> DEFINE new == ResReleaseCu(at.devs, c, h[1], h[2])
<1>1. CASE at.ok /\ HoldsChannel(at.devs, c, h[1], h[2])
  <2>1. r = [at EXCEPT !.devs = new]
    BY <1>1 DEF Returned
  <2>2. new = ResReleaseCu(at.devs, c, h[1], h[2])
    OBVIOUS
  <2> HIDE DEF new
  <2>3. Sound(new, last)
    BY <1>1, <2>2, ReleaseSound
  <2>4. new \in [Devices -> DeviceType]
    BY <2>3 DEF Sound, AllInOrder
  <2> QED BY <2>1, <2>3, <2>4 DEF Stages
<1>2. CASE ~(at.ok /\ HoldsChannel(at.devs, c, h[1], h[2]))
  <2>1. r = [at EXCEPT !.ok = FALSE]
    BY <1>2 DEF Returned
  <2> QED BY <2>1 DEF Stages
<1> QED BY <1>1, <1>2

LEMMA ReturnsGood ==
  ASSUME NEW devs, NEW last \in Nat, Sound(devs, last), NEW c \in Clients, NEW seq \in Seq(Ports),
         NEW r, r = ReturnedEach(devs, c, seq)
  PROVE  Sound(r.devs, last)
<1> DEFINE n == Len(seq)
           base == Start(devs)
           op(at, d) == Returned(at, c, d)
           IsRun(h) == h = [s \in SUBSET (1 .. n) |-> IF s = {} THEN base
                                                      ELSE op(h[s \ {Max(s)}], seq[Max(s)])]
           Kept == [s \in SUBSET (1 .. n) |->
                      {at \in Stages : Sound(at.devs, last)}]
           step == [s \in Parts(n) |-> [at \in Kept[Rest(s)] |-> op(at, seq[Max(s)])]]
           run == CHOOSE h : IsRun(h)
<1>0. n \in Nat /\ DOMAIN seq = 1 .. n /\ \A i \in 1 .. n : seq[i] \in Ports
  OBVIOUS
<1> HIDE DEF n
<1>1. \A s \in Parts(n) : Max(s) \in 1 .. n /\ Rest(s) \in SUBSET (1 .. n) /\ s \in SUBSET (1 .. n)
  BY <1>0, MaxOf, RestOf
<1>2. ASSUME NEW s \in Parts(n), NEW at \in Kept[Rest(s)]
      PROVE  op(at, seq[Max(s)]) \in Kept[s]
  <2>1. at \in Stages /\ Sound(at.devs, last) /\ seq[Max(s)] \in Ports
    BY <1>0, <1>1
  <2>2. op(at, seq[Max(s)]) = Returned(at, c, seq[Max(s)])
    OBVIOUS
  <2> HIDE DEF op
  <2>3. op(at, seq[Max(s)]) \in Stages /\ Sound(op(at, seq[Max(s)]).devs, last)
    BY <2>1, <2>2, ReturnedGood
  <2> QED BY <1>1, <2>3
<1>3. base \in Kept[{}]
  <2>1. devs \in [Devices -> DeviceType]
    BY DEF Sound, AllInOrder
  <2> QED BY <2>1, StartFields
<1> HIDE DEF op, base
<1>4. PICK h : IsFold(h, n, base, step) /\ Within(h, n, Kept)
  <2>1. Keeping(n, Kept, step)
    BY <1>1, <1>2 DEF Keeping
  <2> HIDE DEF step, Kept
  <2> QED BY <1>0, <1>3, <2>1, FoldExists
<1>5. IsRun(run)
  <2>1. \A s \in Parts(n) : step[s][h[Rest(s)]] = op(h[Rest(s)], seq[Max(s)])
    BY <1>1, <1>4 DEF Within
  <2> HIDE DEF step, Kept
  <2>2. IsRun(h)
    BY <1>4, <2>1 DEF IsFold, Rest, Parts
  <2> HIDE DEF IsRun
  <2> QED BY <2>2
<1>6. r = run[1 .. n]
  BY <1>0 DEF ReturnedEach, FoldLeft, MapThenFoldSet, op, base
<1>7. run[1 .. n] \in Kept[1 .. n]
  <2>1. run[{}] = base /\ \A s \in Parts(n) : run[s] = op(run[Rest(s)], seq[Max(s)])
    BY <1>1, <1>5 DEF Parts, Rest
  <2> HIDE DEF run, Kept
  <2>2. \A s \in Parts(n) : run[Rest(s)] \in Kept[Rest(s)] => run[s] \in Kept[s]
    BY <1>2, <2>1
  <2>3. run[{}] \in Kept[{}] /\ n \in Nat
    BY <1>0, <1>3, <2>1
  <2> QED BY <2>2, <2>3, FoldKeeps
<1> HIDE DEF run
<1> QED BY <1>0, <1>6, <1>7

----------------------------------------------------------------------------
(* The state of the resource manager while lists come and go.              *)
LEMMA SoundIs ==
  IInv <=> Sound(devList, reservePoolId) /\ reservePoolId \in 0 .. MaxPool
BY IInvIsRight DEF Sound

LEMMA CallsAreSound ==
  ASSUME Sound(devList, reservePoolId), reservePoolId \in 0 .. MaxPool, Next
  PROVE  Sound(devList', reservePoolId') /\ reservePoolId' \in 0 .. MaxPool
<1>1. AllInOrder(devList') /\ reservePoolId' \in 0 .. MaxPool
  BY CallsInOrder DEF Sound
<1>2. AllRight(devList', reservePoolId')
  BY CallsKeepLoads DEF Sound
<1> QED BY <1>1, <1>2 DEF Sound

LEMMA ListCallsAreSound ==
  ASSUME Sound(devList, reservePoolId), reservePoolId \in 0 .. MaxPool, ListNext
  PROVE  Sound(devList', reservePoolId') /\ reservePoolId' \in 0 .. MaxPool
<1>0. reservePoolId \in Nat
  BY CuAssumption
<1>1. ASSUME NEW c \in Clients, NEW pool \in {NoPool} \cup PoolIds,
             NEW list \in Lists, AllocCuList(c, list, pool)
      PROVE  Sound(devList', reservePoolId') /\ reservePoolId' \in 0 .. MaxPool
  <2> DEFINE r == ResAllocCuList(devList, c, list, pool)
  <2>1. AllOrNone(devList, r, c, pool, reservePoolId)
    BY <1>0, ListGood
  <2> QED BY <1>1, <2>1 DEF AllOrNone, OnWay, AllocCuList
<1>2. ASSUME NEW c \in Clients, NEW pool \in {NoPool} \cup PoolIds,
             NEW list \in ListsV2, AllocCuListV2(c, list, pool)
      PROVE  Sound(devList', reservePoolId') /\ reservePoolId' \in 0 .. MaxPool
  <2> DEFINE r == ResAllocCuListV2(devList, c, list, pool)
  <2>1. AllOrNone(devList, r, c, pool, reservePoolId)
    BY <1>0, ListV2Good
  <2> QED BY <1>2, <2>1 DEF AllOrNone, OnWay, AllocCuListV2
<1>3. ASSUME NEW c \in Clients, NEW h1 \in Handles(c), NEW h2 \in Slots \X Channels,
             ReleaseCuList(c, <<h1, h2>>)
      PROVE  Sound(devList', reservePoolId') /\ reservePoolId' \in 0 .. MaxPool
  <2> DEFINE seq == <<h1, h2>>
             r == ReturnedEach(devList, c, seq)
  <2>1. seq \in Seq(Ports)
    BY DEF Handles, Ports
  <2>2. devList' = r.devs /\ reservePoolId' = reservePoolId
    BY <1>3 DEF ReleaseCuList, ReturnedEach, Returned
  <2> HIDE DEF seq
  <2>3. Sound(r.devs, reservePoolId)
    BY <1>0, <2>1, ReturnsGood
  <2> HIDE DEF r
  <2> QED BY <2>2, <2>3
<1>4. CASE \/ \E c \in Clients, req \in Requests : ReserveCuPool(c, req)
           \/ \E c \in Clients : RecycleResource(c)
           \/ \E pool \in PoolIds : RelinquishCuPool(pool)
           \/ \E d \in Devices : \/ \E x \in Xclbins : LoadXclbin(d, x, TRUE, TRUE)
                                 \/ UnloadDevice(d, TRUE)
  <2>1. TRUE \in BOOLEAN
    OBVIOUS
  <2>2. CASE \/ \E c \in Clients, req \in Requests : ReserveCuPool(c, req)
             \/ \E c \in Clients : RecycleResource(c)
             \/ \E pool \in PoolIds : RelinquishCuPool(pool)
    <3>1. Next
      BY <2>2 DEF Next, ClientCall
    <3> QED BY <3>1, CallsAreSound
  <2>3. ASSUME NEW d \in Devices, UnloadDevice(d, TRUE)
        PROVE  Next
    BY <2>1, <2>3 DEF Next, DeviceCall
  <2>4. ASSUME NEW d \in Devices, NEW x \in Xclbins, LoadXclbin(d, x, TRUE, TRUE)
        PROVE  Next
    BY <2>1, <2>4 DEF Next, DeviceCall
  <2>5. CASE \E d \in Devices : \/ \E x \in Xclbins : LoadXclbin(d, x, TRUE, TRUE)
                                \/ UnloadDevice(d, TRUE)
    <3>1. Next
      BY <2>3, <2>4, <2>5
    <3> QED BY <3>1, CallsAreSound
  <2> QED BY <1>4, <2>2, <2>5
<1> QED BY <1>1, <1>2, <1>3, <1>4 DEF ListNext

(* The invariant of the resource manager, whatever lists are allocated.    *)
THEOREM ListsKeepInvariant == ListSpec => []IInv
<1>1. Init => IInv
  <2>1. Init => reservePoolId \in 0 .. MaxPool
    BY CuAssumption DEF Init
  <2> QED BY <2>1, InitLoadsRight, IInvIsRight
<1>2. IInv /\ [ListNext]_vars => IInv'
  <2> SUFFICES ASSUME IInv, [ListNext]_vars PROVE IInv'
    OBVIOUS
  <2>1. Sound(devList, reservePoolId) /\ reservePoolId \in 0 .. MaxPool
    BY SoundIs
  <2>2. (IInv <=> Sound(devList, reservePoolId) /\ reservePoolId \in 0 .. MaxPool)'
    BY SoundIs, PTL
  <2>3. CASE ListNext
    BY <2>1, <2>2, <2>3, ListCallsAreSound
  <2>4. CASE UNCHANGED vars
    BY <2>1, <2>2, <2>4 DEF vars
  <2> QED BY <2>3, <2>4
<1> QED BY <1>1, <1>2, PTL DEF ListSpec

(* A list that cannot be had as a whole leaves nothing behind: whatever    *)
(* was taken before the item that failed has been given back, on any       *)
(* number of devices and for lists of any length and of both versions.     *)
THEOREM ListsAllOrNothing == ListSpec => []ListAllOrNothing
<1>1. IInv => ListAllOrNothing
  <2> SUFFICES ASSUME IInv, NEW c \in Clients, NEW pool \in {NoPool} \cup PoolIds
               PROVE  /\ \A list \in Lists :
                           LET end == ResAllocCuList(devList, c, list, pool)
                           IN  end.ok \/ SameHoldings(devList, end.devs)
                      /\ \A list \in ListsV2 :
                           LET end == ResAllocCuListV2(devList, c, list, pool)
                           IN  end.ok \/ SameHoldings(devList, end.devs)
    BY DEF ListAllOrNothing
  <2>1. Sound(devList, reservePoolId) /\ reservePoolId \in Nat
    BY SoundIs, CuAssumption
  <2>2. ASSUME NEW r, ~r.ok, AllOrNone(devList, r, c, pool, reservePoolId)
        PROVE  SameHoldings(devList, r.devs)
    BY <2>1, <2>2, SameHoldingsFrom DEF AllOrNone, OnWay
  <2>3. ASSUME NEW list \in Lists
        PROVE  LET end == ResAllocCuList(devList, c, list, pool)
               IN  end.ok \/ SameHoldings(devList, end.devs)
    BY <2>1, <2>2, ListGood
  <2>4. ASSUME NEW list \in ListsV2
        PROVE  LET end == ResAllocCuListV2(devList, c, list, pool)
               IN  end.ok \/ SameHoldings(devList, end.devs)
    BY <2>1, <2>2, ListV2Good
  <2> QED BY <2>3, <2>4
<1> QED BY <1>1, ListsKeepInvariant, PTL

----------------------------------------------------------------------------
(* Calls that free channels without their handles: what becomes of a       *)
(* channel is nothing, or that it is free.                                 *)
OnlyFrees(devs, new) ==
    \A h \in Ports : PortAt(new, h) \in {PortAt(devs, h), FreeChannel}

ChannelsStay(devs, new) ==
    \A s \in Slots : CuAt(new, s).channels = CuAt(devs, s).channels

LEMMA SameOnlyFrees ==
  ASSUME NEW devs, NEW new, ChannelsStay(devs, new)
  PROVE  OnlyFrees(devs, new)
BY PortParts DEF ChannelsStay, OnlyFrees, PortAt

LEMMA KeepsOnlyFrees ==
  ASSUME NEW devs, AllInOrder(devs), NEW d \in Devices, NEW dev, DeviceKeeps(devs[d], dev),
         NEW new, new = [devs EXCEPT ![d] = dev]
  PROVE  OnlyFrees(devs, new)
<1>1. \A e \in Devices : DeviceKeeps(devs[e], new[e])
  BY SameKeeps DEF AllInOrder
<1>2. ChannelsStay(devs, new)
  BY <1>1 DEF ChannelsStay, DeviceKeeps, Keeps, Slots, CuAt
<1> QED BY <1>2, SameOnlyFrees

LEMMA ForgetsOnlyFrees ==
  ASSUME NEW devs, NEW new, NEW C, \A d \in Devices : DeviceForgets(devs[d], new[d], C)
  PROVE  OnlyFrees(devs, new)
<1> SUFFICES ASSUME NEW h \in Ports
             PROVE  PortAt(new, h) \in {PortAt(devs, h), FreeChannel}
  BY DEF OnlyFrees
<1>1. h[1] \in Slots /\ h[2] \in Channels /\ h[1][1] \in Devices /\ h[1][2] \in CuIds
  BY PortParts
<1>2. Forgets(CuAt(devs, h[1]), CuAt(new, h[1]), C)
  BY <1>1 DEF DeviceForgets, CuAt
<1> QED BY <1>1, <1>2 DEF Forgets, PortAt

LEMMA OtherCallsOnlyFree ==
  ASSUME Sound(devList, reservePoolId), reservePoolId \in 0 .. MaxPool,
         \/ \E c \in Clients : \/ RecycleResource(c)
                               \/ \E req \in Requests : ReserveCuPool(c, req)
         \/ \E pool \in PoolIds : RelinquishCuPool(pool)
         \/ \E d \in Devices : \/ \E x \in Xclbins : LoadXclbin(d, x, TRUE, TRUE)
                               \/ UnloadDevice(d, TRUE)
                               \/ ResetDevice(d, TRUE)
  PROVE  /\ Sound(devList', reservePoolId') /\ reservePoolId' \in 0 .. MaxPool
         /\ OnlyFrees(devList, devList')
<1> DEFINE Goal == Next /\ OnlyFrees(devList, devList')
<1>0. /\ reservePoolId \in Nat /\ AllInOrder(devList) /\ AllRight(devList, reservePoolId)
      /\ \A d \in Devices : InOrder(devList[d]) /\ DeviceRight(devList[d], reservePoolId)
      /\ TRUE \in BOOLEAN
  BY CuAssumption DEF Sound, AllInOrder, AllRight
<1>1. ASSUME NEW c \in Clients, RecycleResource(c)
      PROVE  Goal
  <2> DEFINE C == {c}
  <2>1. C \in SUBSET Clients /\ devList' = Recycled(devList, C)
    BY <1>1 DEF RecycleResource
  <2> HIDE DEF C
  <2>2. \A d \in Devices : DeviceForgets(devList[d], devList'[d], C)
    BY <1>0, <2>1, RecycleForgetsDevice DEF Recycled
  <2>3. Next
    BY <1>1 DEF Next, ClientCall
  <2> QED BY <2>2, <2>3, ForgetsOnlyFrees
<1>2. ASSUME NEW c \in Clients, NEW req \in Requests, ReserveCuPool(c, req)
      PROVE  Goal
  <2> DEFINE pool == reservePoolId + 1
             S == ReserveCandidates(devList, pool, c, req)
             s == FirstByAffinity(devList, S)
  <2>1. S # {} /\ S \in SUBSET Slots /\ pool \in PoolIds
    BY <1>2 DEF ReserveCuPool, ReserveCandidates
  <2>2. devList' = ReserveOn(devList, s, pool, c, req) /\ pool = reservePoolId + 1
    BY <1>2 DEF ReserveCuPool
  <2>3. s \in Slots
    <3> HIDE DEF S, pool
    <3> QED BY <2>1, FirstByAffinityIn
  <2> HIDE DEF S, s, pool
  <2>4. AllReserve(devList, devList', pool, c)
    BY <1>0, <2>1, <2>2, <2>3, PoolReserved, ReserveOnReserves
  <2>5. ChannelsStay(devList, devList')
    BY <2>4 DEF AllReserve, Reserves, ChannelsStay
  <2>6. Next
    BY <1>2 DEF Next, ClientCall
  <2> QED BY <2>5, <2>6, SameOnlyFrees
<1>3. ASSUME NEW pool \in PoolIds, RelinquishCuPool(pool)
      PROVE  Goal
  <2>1. \A s \in Slots : Relinquishes(CuAt(devList, s), CuAt(devList', s), pool)
    BY <1>0, <1>3, RelinquishIsRelinquished DEF RelinquishCuPool
  <2>2. ChannelsStay(devList, devList')
    BY <2>1 DEF Relinquishes, ChannelsStay
  <2>3. Next
    BY <1>3 DEF Next
  <2> QED BY <2>2, <2>3, SameOnlyFrees
<1>4. ASSUME NEW d \in Devices, NEW x \in Xclbins, LoadXclbin(d, x, TRUE, TRUE)
      PROVE  Goal
  <2> DEFINE dev == Opened(devList[d], TRUE)
             new == IF TRUE /\ dev.open THEN LoadedWith(dev, x) ELSE DeviceClearInfo(dev)
  <2>1. devList' = [devList EXCEPT ![d] = new]
    BY <1>4 DEF LoadXclbin
  <2>2. InOrder(dev) /\ DeviceRight(dev, reservePoolId) /\ dev.cus = devList[d].cus
    BY <1>0, OpenedInOrder, HandleRight
  <2> HIDE DEF dev
  <2>3. DeviceKeeps(dev, DeviceClearInfo(dev)) /\ LoadedWith(dev, x).cus = dev.cus
    BY <1>0, <2>2, ClearKeeps DEF LoadedWith, InOrder, DeviceType
  <2>4. DeviceKeeps(devList[d], new)
    BY <2>2, <2>3, SameKeeps DEF DeviceKeeps
  <2> HIDE DEF new
  <2>5. OnlyFrees(devList, devList')
    BY <1>0, <2>1, <2>4, KeepsOnlyFrees
  <2>6. Next
    BY <1>0, <1>4 DEF Next, DeviceCall
  <2> QED BY <2>5, <2>6
<1>5. ASSUME NEW d \in Devices, UnloadDevice(d, TRUE)
      PROVE  Goal
  <2> DEFINE new == Unloaded(devList[d], TRUE)
  <2>1. devList' = [devList EXCEPT ![d] = new]
    BY <1>5 DEF UnloadDevice
  <2>2. DeviceKeeps(devList[d], new)
    BY <1>0, UnloadedKeeps
  <2> HIDE DEF new
  <2>3. OnlyFrees(devList, devList')
    BY <1>0, <2>1, <2>2, KeepsOnlyFrees
  <2>4. Next
    BY <1>0, <1>5 DEF Next, DeviceCall
  <2> QED BY <2>3, <2>4
<1>6. ASSUME NEW d \in Devices, ResetDevice(d, TRUE)
      PROVE  Goal
  <2> DEFINE C == DeviceClients(devList[d])
             rest == Recycled(devList, C)
             dev == Unloaded(rest[d], TRUE)
             new == [dev EXCEPT !.open = FALSE]
  <2>1. devList' = [rest EXCEPT ![d] = new]
    BY <1>6 DEF ResetDevice
  <2>2. C \in SUBSET Clients
    BY DEF DeviceClients
  <2> HIDE DEF C
  <2>3. /\ AllInOrder(rest) /\ AllRight(rest, reservePoolId)
        /\ \A e \in Devices : DeviceForgets(devList[e], rest[e], C)
    BY <1>0, <2>2, RecycledInOrder, RecycledRight, RecycleForgetsDevice DEF Recycled
  <2> HIDE DEF rest
  <2>4. InOrder(dev) /\ DeviceKeeps(rest[d], dev)
    BY <1>0, <2>3, UnloadedInOrder, UnloadedKeeps DEF AllInOrder, AllRight
  <2> HIDE DEF dev
  <2>5. new.cus = dev.cus
    BY <2>4 DEF InOrder, DeviceType
  <2> HIDE DEF new
  <2>6. DeviceForgets(devList[d], new, C)
    BY <2>3, <2>4, <2>5, KeepsTwice, ForgetsThenKeeps
  <2>7. \A e \in Devices : DeviceForgets(devList[e], devList'[e], C)
    BY <2>1, <2>3, <2>6 DEF AllInOrder
  <2>8. Next
    BY <1>0, <1>6 DEF Next, DeviceCall
  <2> QED BY <2>7, <2>8, ForgetsOnlyFrees
<1>7. Goal
  <2> HIDE DEF Goal
  <2> QED BY <1>1, <1>2, <1>3, <1>4, <1>5, <1>6
<1> QED BY <1>7, CallsAreSound

----------------------------------------------------------------------------
(* Every kind of allocation has what it asks for or nothing.               *)
LEMMA SinglesAre ==
  ASSUME NEW item \in SingleItems
  PROVE  IsItem(item)
BY CuAssumption DEF SingleItems, IsItem, Requests

LEMMA AnywhereGood ==
  ASSUME NEW devs, NEW last \in Nat, Sound(devs, last), NEW c \in Clients,
         NEW pool \in {NoPool} \cup PoolIds, NEW item \in SingleItems,
         NEW r, r = TakeAnywhere(Start(devs), c, item, pool)
  PROVE  r \in Stages /\ AllOrNone(devs, r, c, pool, last)
<1> DEFINE at == Start(devs)
<1>1. at \in Stages /\ OnWay(devs, at, c, pool, last) /\ IsItem(item)
  BY BeginsOnWay, SinglesAre
<1>2. at.ok /\ at.taken = <<>>
  BY DEF Start
<1>3. r = TakeAnywhere(at, c, item, pool)
  OBVIOUS
<1> HIDE DEF at
<1>4. /\ r \in Stages /\ OnWay(devs, r, c, pool, last)
      /\ at.ok /\ ~r.ok => r.taken = at.taken
  BY <1>1, <1>3, TakeAnywhereOnWay
<1> QED BY <1>2, <1>4 DEF AllOrNone

LEMMA FromGood ==
  ASSUME NEW devs, NEW last \in Nat, Sound(devs, last), NEW c \in Clients, NEW d,
         NEW pool \in {NoPool} \cup PoolIds, NEW item \in SingleItems,
         NEW r, r = TakeFrom(Start(devs), d, c, item, pool)
  PROVE  r \in Stages /\ AllOrNone(devs, r, c, pool, last)
<1> DEFINE at == Start(devs)
<1>1. at \in Stages /\ OnWay(devs, at, c, pool, last) /\ IsItem(item)
  BY BeginsOnWay, SinglesAre
<1>2. at.ok /\ at.taken = <<>>
  BY DEF Start
<1>3. r = TakeFrom(at, d, c, item, pool)
  OBVIOUS
<1> HIDE DEF at
<1>4. /\ r \in Stages /\ OnWay(devs, r, c, pool, last)
      /\ at.ok /\ ~r.ok => r.taken = at.taken
  BY <1>1, <1>3, TakeFromOnWay
<1> QED BY <1>2, <1>4 DEF AllOrNone

LEMMA GroupGood ==
  ASSUME NEW devs, NEW last \in Nat, Sound(devs, last), NEW c \in Clients,
         NEW pool \in {NoPool} \cup PoolIds, NEW seq \in Seq(Lists),
         NEW r, r = ResAllocCuGroup(devs, c, seq, pool)
  PROVE  r \in Stages /\ AllOrNone(devs, r, c, pool, last) /\ Len(r.taken) <= MaxListCus
<1> DEFINE n == Len(seq)
           base == Failed(devs)
           op(at, d) == IF at.ok THEN at ELSE ResAllocCuList(at.devs, c, d, pool)
           IsRun(h) == h = [s \in SUBSET (1 .. n) |-> IF s = {} THEN base
                                                      ELSE op(h[s \ {Max(s)}], seq[Max(s)])]
           Kept == [s \in SUBSET (1 .. n) |->
                      {at \in Stages : /\ AllOrNone(devs, at, c, pool, last)
                                       /\ Len(at.taken) <= MaxListCus}]
           step == [s \in Parts(n) |-> [at \in Kept[Rest(s)] |-> op(at, seq[Max(s)])]]
           run == CHOOSE h : IsRun(h)
<1>0. n \in Nat /\ DOMAIN seq = 1 .. n /\ \A i \in 1 .. n : seq[i] \in Lists
  OBVIOUS
<1> HIDE DEF n
<1>1. \A s \in Parts(n) : Max(s) \in 1 .. n /\ Rest(s) \in SUBSET (1 .. n) /\ s \in SUBSET (1 .. n)
  BY <1>0, MaxOf, RestOf
<1>2. ASSUME NEW s \in Parts(n), NEW at \in Kept[Rest(s)]
      PROVE  op(at, seq[Max(s)]) \in Kept[s]
  <2> DEFINE list == seq[Max(s)]
             ds == at.devs
             new == ResAllocCuList(ds, c, list, pool)
  <2>1. /\ at \in Stages /\ AllOrNone(devs, at, c, pool, last) /\ list \in Lists
        /\ Len(at.taken) <= MaxListCus
    BY <1>0, <1>1
  <2>2. Sound(ds, last) /\ OnWay(devs, at, c, pool, last) /\ at.taken \in Seq(Ports)
    BY <2>1, StageTyped DEF AllOrNone, OnWay
  <2>3. op(at, seq[Max(s)]) = IF at.ok THEN at ELSE new
    OBVIOUS
  <2>4. new = ResAllocCuList(ds, c, list, pool) /\ ds = at.devs
    OBVIOUS
  <2>5. ~at.ok => at.taken = <<>>
    BY <2>1 DEF AllOrNone
  <2> HIDE DEF list, new, op, ds
  <2>6. new \in Stages /\ AllOrNone(ds, new, c, pool, last)
    BY <2>1, <2>2, <2>4, ListGood
  <2>7. new.taken \in Seq(Ports) /\ OnWay(at.devs, new, c, pool, last)
    BY <2>4, <2>6, StageTyped DEF AllOrNone
  <2>8. ~at.ok => OnWay(devs, new, c, pool, last)
    BY <2>2, <2>5, <2>7, OnAndOn
  <2>9. Len(new.taken) <= MaxListCus
    <3>1. Len(new.taken) <= Len(list.items) /\ Len(list.items) <= MaxListCus
      BY <2>1, <2>2, <2>4, ListGood, ServiceAssumption
    <3>2. Len(new.taken) \in Nat /\ list.items \in Seq(Items)
      BY <2>1, <2>6, StageLength, ListsAssumption
    <3>3. Len(list.items) \in Nat
      BY <3>2
    <3> QED BY <3>1, <3>2, <3>3, ServiceAssumption
  <2> QED BY <1>1, <2>1, <2>3, <2>6, <2>8, <2>9 DEF AllOrNone
<1>3. base \in Kept[{}]
  <2>1. Len(base.taken) <= MaxListCus
    <3>1. devs \in [Devices -> DeviceType]
      BY DEF Sound, AllInOrder
    <3> QED BY <3>1, StartLength, ServiceAssumption
  <2> QED BY <2>1, BeginsOnWay
<1> HIDE DEF op, base
<1>4. PICK h : IsFold(h, n, base, step) /\ Within(h, n, Kept)
  <2>1. Keeping(n, Kept, step)
    BY <1>1, <1>2 DEF Keeping
  <2> HIDE DEF step, Kept
  <2> QED BY <1>0, <1>3, <2>1, FoldExists
<1>5. IsRun(run)
  <2>1. \A s \in Parts(n) : step[s][h[Rest(s)]] = op(h[Rest(s)], seq[Max(s)])
    BY <1>1, <1>4 DEF Within
  <2> HIDE DEF step, Kept
  <2>2. IsRun(h)
    BY <1>4, <2>1 DEF IsFold, Rest, Parts
  <2> HIDE DEF IsRun
  <2> QED BY <2>2
<1>6. r = run[1 .. n]
  BY <1>0 DEF ResAllocCuGroup, FoldLeft, MapThenFoldSet, op, base
<1>7. run[1 .. n] \in Kept[1 .. n]
  <2>1. run[{}] = base /\ \A s \in Parts(n) : run[s] = op(run[Rest(s)], seq[Max(s)])
    BY <1>1, <1>5 DEF Parts, Rest
  <2> HIDE DEF run, Kept
  <2>2. \A s \in Parts(n) : run[Rest(s)] \in Kept[Rest(s)] => run[s] \in Kept[s]
    BY <1>2, <2>1
  <2>3. run[{}] \in Kept[{}] /\ n \in Nat
    BY <1>0, <1>3, <2>1
  <2> QED BY <2>2, <2>3, FoldKeeps
<1> HIDE DEF run
<1> QED BY <1>0, <1>6, <1>7

----------------------------------------------------------------------------
(* The table of the groups holds what was declared, each name once.        *)
OnePlaceEach(groups, num) ==
    \A g, k \in GroupPlaces :
        g < num /\ k < num /\ groups[g].name = groups[k].name => g = k

TableInv ==
    /\ udfCuGroups \in [GroupPlaces -> Declarations \cup {Flushed}]
    /\ numUdfCuGroup \in 0 .. MaxGroups
    /\ OnePlaceEach(udfCuGroups, numUdfCuGroup)

LEMMA TableStep ==
  ASSUME TableInv, TableNext
  PROVE  TableInv'
<1>1. ASSUME NEW group \in Declarations, UdfCuGroupDeclare(group)
      PROVE  TableInv'
  <2>0. numUdfCuGroup \in Nat /\ numUdfCuGroup < MaxGroups /\ numUdfCuGroup' = numUdfCuGroup + 1
    BY <1>1 DEF TableInv, UdfCuGroupDeclare
  <2>1. numUdfCuGroup' \in 0 .. MaxGroups
    BY <2>0, GroupTableAssumption
  <2>2. udfCuGroups' \in [GroupPlaces -> Declarations \cup {Flushed}]
    BY <1>1 DEF TableInv, UdfCuGroupDeclare
  <2>3. \A g \in GroupPlaces : g < numUdfCuGroup =>
            udfCuGroups'[g] = udfCuGroups[g] /\ udfCuGroups[g].name # group.name
    BY <1>1, <2>0 DEF TableInv, UdfCuGroupDeclare, PlacesOf
  <2>4. \A g \in GroupPlaces : g = numUdfCuGroup => udfCuGroups'[g] = group
    BY <1>1 DEF TableInv, UdfCuGroupDeclare
  <2>5. ASSUME NEW g \in GroupPlaces, NEW k \in GroupPlaces,
               g < numUdfCuGroup', k < numUdfCuGroup', udfCuGroups'[g].name = udfCuGroups'[k].name
        PROVE  g = k
    <3>1. g \in Nat /\ k \in Nat
      BY GroupTableAssumption DEF GroupPlaces
    <3>2. (g < numUdfCuGroup \/ g = numUdfCuGroup) /\ (k < numUdfCuGroup \/ k = numUdfCuGroup)
      BY <2>0, <2>5, <3>1
    <3> QED BY <2>3, <2>4, <2>5, <3>2 DEF TableInv, OnePlaceEach
  <2> QED BY <2>1, <2>2, <2>5 DEF TableInv, OnePlaceEach
<1>2. ASSUME NEW name \in GroupNames, UdfCuGroupUndeclare(name)
      PROVE  TableInv'
  <2>1. PICK place \in PlacesOf(name) : udfCuGroups' = Closed(place)
    BY <1>2 DEF UdfCuGroupUndeclare
  <2>2. place \in Nat /\ place < numUdfCuGroup /\ numUdfCuGroup \in Nat
    BY GroupTableAssumption DEF PlacesOf, GroupPlaces, TableInv
  <2>3. numUdfCuGroup' = numUdfCuGroup - 1 /\ numUdfCuGroup' \in 0 .. MaxGroups
    <3>1. numUdfCuGroup' = numUdfCuGroup - 1
      BY <1>2 DEF UdfCuGroupUndeclare
    <3> QED BY <2>2, <3>1, GroupTableAssumption DEF TableInv
  <2>4. ASSUME NEW g \in GroupPlaces
        PROVE  Closed(place)[g] \in Declarations \cup {Flushed}
    <3>1. CASE g < place \/ g > numUdfCuGroup - 1 \/ g = numUdfCuGroup - 1
      BY <3>1 DEF Closed, TableInv
    <3>2. CASE ~(g < place \/ g > numUdfCuGroup - 1 \/ g = numUdfCuGroup - 1)
      <4>1. g + 1 \in GroupPlaces
        BY <2>2, <3>2, GroupTableAssumption DEF GroupPlaces, TableInv
      <4> QED BY <3>2, <4>1 DEF Closed, TableInv
    <3> QED BY <3>1, <3>2
  <2>5. Closed(place) \in [GroupPlaces -> Declarations \cup {Flushed}]
    BY <2>4 DEF Closed
  <2>6. ASSUME NEW g \in GroupPlaces, NEW k \in GroupPlaces, g < numUdfCuGroup - 1,
               k < numUdfCuGroup - 1, Closed(place)[g].name = Closed(place)[k].name
        PROVE  g = k
    <3> DEFINE old(i) == IF i < place THEN i ELSE i + 1
    <3>1. \A i \in GroupPlaces : i < numUdfCuGroup - 1 =>
              Closed(place)[i] = udfCuGroups[old(i)] /\ old(i) \in GroupPlaces /\ old(i) < numUdfCuGroup
      BY <2>2, GroupTableAssumption DEF Closed, TableInv, GroupPlaces
    <3>2. old(g) = old(k)
      BY <2>6, <3>1 DEF TableInv, OnePlaceEach
    <3> QED BY <2>2, <3>2, GroupTableAssumption DEF GroupPlaces
  <2>7. OnePlaceEach(Closed(place), numUdfCuGroup - 1)
    BY <2>6 DEF OnePlaceEach
  <2> QED BY <2>1, <2>3, <2>5, <2>7 DEF TableInv
<1> QED BY <1>1, <1>2 DEF TableNext

LEMMA OptionsAre ==
  ASSUME TableInv, NEW name
  PROVE  OptionsOf(name) \in Seq(Lists)
<1>1. <<>> \in Seq(Lists)
  OBVIOUS
<1>2. CASE PlacesOf(name) = {}
  BY <1>1, <1>2 DEF OptionsOf
<1>3. CASE PlacesOf(name) # {}
  <2> DEFINE place == CHOOSE g \in PlacesOf(name) : TRUE
  <2>1. place \in PlacesOf(name)
    BY <1>3
  <2>2. OptionsOf(name) = udfCuGroups[place].options
    BY <1>3 DEF OptionsOf
  <2> HIDE DEF place
  <2>3. udfCuGroups[place] \in Declarations \cup {Flushed}
    BY <2>1 DEF PlacesOf, TableInv
  <2>4. CASE udfCuGroups[place] \in Declarations
    BY <2>2, <2>4, ServiceAssumption
  <2>5. CASE udfCuGroups[place] = Flushed
    <3>1. Flushed.options = <<>>
      BY DEF Flushed
    <3> QED BY <1>1, <2>2, <2>5, <3>1
  <2> QED BY <2>3, <2>4, <2>5
<1> QED BY <1>2, <1>3

----------------------------------------------------------------------------
(* The marks on the channels, and the calls they stand for.                *)
IsOwn(devs, services, call, h) ==
    /\ call.service = services[h]
    /\ IsAmong(h, call.taken)
    /\ PortAt(devs, h).client = call.client
    /\ PortAt(devs, h).pool = call.pool

(* A channel is marked iff it is in use, and then for the call that took   *)
(* it, of which it still has the client and the pool.                      *)
Marks(devs, services, cs, id) ==
    /\ services \in [Ports -> Nat]
    /\ \A h \in Ports :
          /\ services[h] <= id
          /\ services[h] = 0 <=> PortAt(devs, h).client = NoClient
          /\ services[h] # 0 => \E call \in cs : IsOwn(devs, services, call, h)

(* No two calls were given the same id, and none an id still to come.      *)
CallsRight(cs, id) ==
    /\ \A call \in cs : /\ call.client \in Clients
                        /\ call.service \in 1 .. id
                        /\ call.taken \in Seq(Ports)
    /\ \A one, two \in cs : one.service = two.service => one = two

LEMMA BusyOnCu ==
  ASSUME NEW devs, NEW last, Sound(devs, last), NEW h \in Ports, PortAt(devs, h).client # NoClient
  PROVE  IsLoaded(devs[h[1][1]]) /\ h[1][2] \in CusOf(devs[h[1][1]])
<1>1. h[2] \in Channels /\ h[1][1] \in Devices /\ h[1][2] \in CuIds
  BY PortParts
<1>2. h[2] \in BusyChannels(devs[h[1][1]].cus[h[1][2]])
  BY <1>1 DEF PortAt, CuAt, BusyChannels
<1>3. DeviceRight(devs[h[1][1]], last)
  BY <1>1 DEF Sound, AllRight
<1>4. h[1][2] \in CusOf(devs[h[1][1]])
  BY <1>1, <1>2, <1>3 DEF DeviceRight, Vacant
<1> QED BY <1>4 DEF CusOf

(* A handle names its channel iff the channel bears the id of its call.    *)
LEMMA NamesIfMarked ==
  ASSUME NEW devs, NEW last, Sound(devs, last), NEW services, NEW cs, NEW id,
         Marks(devs, services, cs, id), CallsRight(cs, id), NEW call \in cs, NEW h \in Ports
  PROVE  IsAmong(h, call.taken) /\ Names(devs, services, call, h) <=> services[h] = call.service
<1>1. Names(devs, services, call, h) => services[h] = call.service
  BY DEF Names
<1>2. ASSUME services[h] = call.service
      PROVE  IsAmong(h, call.taken) /\ Names(devs, services, call, h)
  <2>1. services[h] # 0
    BY <1>2 DEF CallsRight
  <2>2. PICK one \in cs : IsOwn(devs, services, one, h)
    BY <2>1 DEF Marks
  <2>3. one = call
    BY <1>2, <2>2 DEF CallsRight, IsOwn
  <2>4. PortAt(devs, h).client # NoClient
    BY <2>1 DEF Marks
  <2>5. IsLoaded(devs[h[1][1]]) /\ h[1][2] \in CusOf(devs[h[1][1]])
    BY <2>4, BusyOnCu
  <2> QED BY <1>2, <2>2, <2>3, <2>5 DEF IsOwn, Names, HoldsChannel, PortAt
<1> QED BY <1>1, <1>2

(* What only frees channels, and unmarks those it frees, keeps the marks.  *)
Unmarks(devs, services, new, marks) ==
    /\ marks \in [Ports -> Nat]
    /\ \A h \in Ports : \/ marks[h] = services[h] /\ PortAt(new, h) = PortAt(devs, h)
                        \/ marks[h] = 0 /\ PortAt(new, h) = FreeChannel

LEMMA UnmarksKeepsMarks ==
  ASSUME NEW devs, NEW services, NEW cs, NEW id \in Nat, Marks(devs, services, cs, id),
         NEW new, NEW marks, Unmarks(devs, services, new, marks)
  PROVE  Marks(new, marks, cs, id)
<1>1. marks \in [Ports -> Nat]
  BY DEF Unmarks
<1>2. ASSUME NEW h \in Ports
      PROVE  /\ marks[h] <= id
             /\ marks[h] = 0 <=> PortAt(new, h).client = NoClient
             /\ marks[h] # 0 => \E call \in cs : IsOwn(new, marks, call, h)
  <2>1. CASE marks[h] = services[h] /\ PortAt(new, h) = PortAt(devs, h)
    <3>1. marks[h] # 0 => \E call \in cs : IsOwn(devs, services, call, h)
      BY <2>1 DEF Marks
    <3> QED BY <2>1, <3>1 DEF Marks, IsOwn
  <2>2. CASE marks[h] = 0 /\ PortAt(new, h) = FreeChannel
    BY <2>2 DEF FreeChannel
  <2> QED BY <2>1, <2>2 DEF Unmarks
<1> QED BY <1>1, <1>2 DEF Marks

(* The channels of an allocation are marked with an id not used before.    *)
LEMMA HandedMarks ==
  ASSUME NEW devs, NEW last, NEW services, NEW cs, NEW id \in Nat,
         Marks(devs, services, cs, id), CallsRight(cs, id),
         NEW c \in Clients, NEW pool, NEW new, NEW seq \in Seq(Ports), Took(devs, new, c, pool, seq),
         NEW call, call.client = c, call.pool = pool, call.service = id + 1, call.taken = seq,
         NEW marks, marks = [h \in Ports |-> IF h \in ToSet(seq) THEN id + 1 ELSE services[h]]
  PROVE  Marks(new, marks, cs \cup {call}, id + 1) /\ CallsRight(cs \cup {call}, id + 1)
<1>1. CallsRight(cs \cup {call}, id + 1)
  BY DEF CallsRight
<1>2. ASSUME NEW h \in Ports
      PROVE  /\ marks[h] \in Nat /\ marks[h] <= id + 1
             /\ marks[h] = 0 <=> PortAt(new, h).client = NoClient
             /\ marks[h] # 0 => \E one \in cs \cup {call} : IsOwn(new, marks, one, h)
  <2>1. h \in ToSet(seq) <=> IsAmong(h, seq)
    BY DEF ToSet, IsAmong
  <2>2. CASE IsAmong(h, seq)
    <3>1. marks[h] = id + 1
      BY <2>1, <2>2
    <3>2. PortAt(new, h).client = c /\ PortAt(new, h).pool = pool
      BY <2>2 DEF IsAmong, Took
    <3>3. IsOwn(new, marks, call, h)
      BY <2>2, <3>1, <3>2 DEF IsOwn
    <3>4. marks[h] \in Nat /\ marks[h] <= id + 1 /\ marks[h] # 0
      BY <3>1
    <3>5. \E one \in cs \cup {call} : IsOwn(new, marks, one, h)
      BY <3>3
    <3>6. PortAt(new, h).client # NoClient
      BY <3>2, CuAssumption
    <3> QED BY <3>4, <3>5, <3>6
  <2>3. CASE ~IsAmong(h, seq)
    <3>1. marks[h] = services[h]
      BY <2>1, <2>3
    <3>2. PortAt(new, h) = PortAt(devs, h)
      BY <2>3 DEF Took
    <3>3. services[h] \in Nat /\ services[h] <= id
      BY DEF Marks
    <3>4. services[h] # 0 => \E one \in cs : IsOwn(devs, services, one, h)
      BY DEF Marks
    <3>5. marks[h] # 0 => \E one \in cs \cup {call} : IsOwn(new, marks, one, h)
      BY <3>1, <3>2, <3>4 DEF IsOwn
    <3>6. services[h] = 0 <=> PortAt(devs, h).client = NoClient
      BY DEF Marks
    <3>7. marks[h] \in Nat /\ marks[h] <= id + 1
      BY <3>1, <3>3
    <3>8. marks[h] = 0 <=> PortAt(new, h).client = NoClient
      BY <3>1, <3>2, <3>6
    <3> QED BY <3>5, <3>7, <3>8
  <2> QED BY <2>2, <2>3
<1>3. marks \in [Ports -> Nat]
  BY <1>2
<1> HIDE DEF Ports
<1> QED BY <1>1, <1>2, <1>3 DEF Marks

----------------------------------------------------------------------------
(* The release of the handles of a call.                                   *)
Releases == [ok : BOOLEAN, devs : [Devices -> DeviceType], services : [Ports -> Nat]]

(* Nothing but channels with the id was freed. *)
FreesOwn(devs, services, new, marks, id) ==
    /\ Unmarks(devs, services, new, marks)
    /\ \A h \in Ports : marks[h] # services[h] => services[h] = id

LEMMA ReleasedGood ==
  ASSUME NEW devs, NEW last \in Nat, NEW services, NEW call, call.client \in Clients,
         call.service # 0, NEW at \in Releases, Sound(at.devs, last),
         FreesOwn(devs, services, at.devs, at.services, call.service),
         NEW h \in Ports, NEW r, r = Released(at, call, h)
  PROVE  /\ r \in Releases /\ Sound(r.devs, last)
         /\ FreesOwn(devs, services, r.devs, r.services, call.service)
<1> DEFINE c == call.client
           ds == at.devs
           new == ResReleaseCu(ds, c, h[1], h[2])
           marks == [at.services EXCEPT ![h] = 0]
<1>1. CASE at.ok /\ Names(ds, at.services, call, h)
  <2>1. r = [ok |-> TRUE, devs |-> new, services |-> marks]
    BY <1>1 DEF Released
  <2>2. new = ResReleaseCu(ds, c, h[1], h[2]) /\ HoldsChannel(ds, c, h[1], h[2])
    BY <1>1 DEF Names
  <2>3. marks \in [Ports -> Nat] /\ \A g \in Ports : marks[g] = IF g = h THEN 0 ELSE at.services[g]
    BY DEF Releases
  <2>4. at.services[h] = call.service /\ c \in Clients /\ Sound(ds, last)
    BY <1>1 DEF Names
  <2>5. FreesOwn(devs, services, ds, at.services, call.service)
    OBVIOUS
  <2> HIDE DEF new, marks, ds, c
  <2>6. /\ Sound(new, last)
        /\ \A g \in Ports : PortAt(new, g) = IF g = h THEN FreeChannel ELSE PortAt(ds, g)
    BY <2>2, <2>4, ReleaseSound
  <2>7. new \in [Devices -> DeviceType]
    BY <2>6 DEF Sound, AllInOrder
  <2>8. services[h] = call.service
    BY <2>4, <2>5 DEF FreesOwn, Unmarks
  <2>9. Unmarks(devs, services, new, marks)
    BY <2>3, <2>5, <2>6 DEF FreesOwn, Unmarks
  <2>10. \A g \in Ports : marks[g] # services[g] => services[g] = call.service
    BY <2>3, <2>5, <2>8 DEF FreesOwn
  <2>11. r \in Releases /\ r.devs = new /\ r.services = marks
    BY <2>1, <2>3, <2>7 DEF Releases
  <2> QED BY <2>6, <2>9, <2>10, <2>11 DEF FreesOwn
<1>2. CASE ~(at.ok /\ Names(ds, at.services, call, h))
  <2>1. r = [at EXCEPT !.ok = FALSE]
    BY <1>2 DEF Released
  <2>2. r \in Releases /\ r.devs = at.devs /\ r.services = at.services
    BY <2>1 DEF Releases
  <2> QED BY <2>2
<1> QED BY <1>1, <1>2

ReleasedEach(devs, services, call, handles) ==
    FoldLeft(LAMBDA at, h : Released(at, call, h),
             [ok |-> TRUE, devs |-> devs, services |-> services], handles)

LEMMA ReleaseGood ==
  ASSUME NEW devs, NEW last \in Nat, Sound(devs, last), NEW services \in [Ports -> Nat], NEW call,
         call.client \in Clients, call.service # 0, NEW seq \in Seq(Ports),
         NEW r, r = ReleasedEach(devs, services, call, seq)
  PROVE  Sound(r.devs, last) /\ FreesOwn(devs, services, r.devs, r.services, call.service)
<1> DEFINE n == Len(seq)
           base == [ok |-> TRUE, devs |-> devs, services |-> services]
           op(at, d) == Released(at, call, d)
           IsRun(h) == h = [s \in SUBSET (1 .. n) |-> IF s = {} THEN base
                                                      ELSE op(h[s \ {Max(s)}], seq[Max(s)])]
           Kept == [s \in SUBSET (1 .. n) |->
                      {at \in Releases :
                         /\ Sound(at.devs, last)
                         /\ FreesOwn(devs, services, at.devs, at.services, call.service)}]
           step == [s \in Parts(n) |-> [at \in Kept[Rest(s)] |-> op(at, seq[Max(s)])]]
           run == CHOOSE h : IsRun(h)
<1>0. n \in Nat /\ DOMAIN seq = 1 .. n /\ \A i \in 1 .. n : seq[i] \in Ports
  OBVIOUS
<1> HIDE DEF n
<1>1. \A s \in Parts(n) : Max(s) \in 1 .. n /\ Rest(s) \in SUBSET (1 .. n) /\ s \in SUBSET (1 .. n)
  BY <1>0, MaxOf, RestOf
<1>2. ASSUME NEW s \in Parts(n), NEW at \in Kept[Rest(s)]
      PROVE  op(at, seq[Max(s)]) \in Kept[s]
  <2> DEFINE h == seq[Max(s)]
             new == op(at, h)
  <2>1. /\ at \in Releases /\ Sound(at.devs, last) /\ h \in Ports
        /\ FreesOwn(devs, services, at.devs, at.services, call.service)
    BY <1>0, <1>1
  <2>2. new = Released(at, call, h)
    OBVIOUS
  <2> HIDE DEF new, h
  <2>3. /\ new \in Releases /\ Sound(new.devs, last)
        /\ FreesOwn(devs, services, new.devs, new.services, call.service)
    BY <2>1, <2>2, ReleasedGood
  <2>4. new \in Kept[s]
    BY <1>1, <2>3
  <2> QED BY <2>4 DEF new, h
<1>3. base \in Kept[{}]
  <2>1. devs \in [Devices -> DeviceType]
    BY DEF Sound, AllInOrder
  <2>2. base \in Releases /\ base.devs = devs /\ base.services = services
    BY <2>1 DEF Releases
  <2> HIDE DEF base
  <2> QED BY <2>2 DEF FreesOwn, Unmarks
<1> HIDE DEF op, base
<1>4. PICK h : IsFold(h, n, base, step) /\ Within(h, n, Kept)
  <2>1. Keeping(n, Kept, step)
    BY <1>1, <1>2 DEF Keeping
  <2> HIDE DEF step, Kept
  <2> QED BY <1>0, <1>3, <2>1, FoldExists
<1>5. IsRun(run)
  <2>1. \A s \in Parts(n) : step[s][h[Rest(s)]] = op(h[Rest(s)], seq[Max(s)])
    BY <1>1, <1>4 DEF Within
  <2> HIDE DEF step, Kept
  <2>2. IsRun(h)
    BY <1>4, <2>1 DEF IsFold, Rest, Parts
  <2> HIDE DEF IsRun
  <2> QED BY <2>2
<1>6. r = run[1 .. n]
  BY <1>0 DEF ReleasedEach, FoldLeft, MapThenFoldSet, op, base
<1>7. run[1 .. n] \in Kept[1 .. n]
  <2>1. run[{}] = base /\ \A s \in Parts(n) : run[s] = op(run[Rest(s)], seq[Max(s)])
    BY <1>1, <1>5 DEF Parts, Rest
  <2> HIDE DEF run, Kept
  <2>2. \A s \in Parts(n) : run[Rest(s)] \in Kept[Rest(s)] => run[s] \in Kept[s]
    BY <1>2, <2>1
  <2>3. run[{}] \in Kept[{}] /\ n \in Nat
    BY <1>0, <1>3, <2>1
  <2> QED BY <2>2, <2>3, FoldKeeps
<1> HIDE DEF run
<1> QED BY <1>0, <1>6, <1>7

----------------------------------------------------------------------------
(* The inductive invariant of allocations and their handles: the resource  *)
(* manager's, what is declared, and the marks.                             *)
ServiceInv ==
    /\ IInv
    /\ TableInv
    /\ allocServiceId \in Nat
    /\ Marks(devList, serviceOf, calls, allocServiceId)
    /\ CallsRight(calls, allocServiceId)

ServiceState ==
    /\ Sound(devList, reservePoolId) /\ reservePoolId \in 0 .. MaxPool
    /\ TableInv
    /\ allocServiceId \in Nat
    /\ Marks(devList, serviceOf, calls, allocServiceId)
    /\ CallsRight(calls, allocServiceId)

LEMMA ServiceInvIs == ServiceInv <=> ServiceState
BY SoundIs DEF ServiceInv, ServiceState

(* What a call keeps, and what may become of a mark. *)
ServiceKept ==
    /\ Sound(devList', reservePoolId') /\ reservePoolId' \in 0 .. MaxPool
    /\ TableInv'
    /\ allocServiceId' \in Nat
    /\ Marks(devList', serviceOf', calls', allocServiceId')
    /\ CallsRight(calls', allocServiceId')
    /\ calls \subseteq calls'
    /\ \A h \in Ports : serviceOf'[h] \in {serviceOf[h], 0, allocServiceId + 1}

LEMMA TableSame ==
  ASSUME TableInv, UNCHANGED tableVars
  PROVE  TableInv'
BY DEF TableInv, tableVars

LEMMA HandKeeps ==
  ASSUME ServiceState, NEW c \in Clients, NEW pool, NEW end, end.taken \in Seq(Ports),
         AllOrNone(devList, end, c, pool, reservePoolId), NEW limit, Hand(c, pool, end, limit)
  PROVE  ServiceKept
<1> DEFINE id == allocServiceId
           seq == end.taken
           new == end.devs
           call == [client |-> c, pool |-> pool, service |-> id + 1, taken |-> seq, limit |-> limit]
           marks == [h \in Ports |-> IF h \in ToSet(seq) THEN id + 1 ELSE serviceOf[h]]
<1>1. /\ devList' = new /\ reservePoolId' = reservePoolId /\ serviceOf' = marks
      /\ allocServiceId' = IF end.ok THEN id + 1 ELSE id
      /\ calls' = IF end.ok THEN calls \cup {call} ELSE calls
      /\ UNCHANGED tableVars
  BY DEF Hand, UpdatedAllocServiceId
<1>2. /\ Sound(new, reservePoolId) /\ Took(devList, new, c, pool, seq)
      /\ ~end.ok => seq = <<>>
  BY DEF AllOrNone, OnWay
<1>3. /\ call.client = c /\ call.pool = pool /\ call.service = id + 1 /\ call.taken = seq
      /\ marks = [h \in Ports |-> IF h \in ToSet(seq) THEN id + 1 ELSE serviceOf[h]]
      /\ seq \in Seq(Ports)
  OBVIOUS
<1>4. /\ id \in Nat /\ Marks(devList, serviceOf, calls, id) /\ CallsRight(calls, id)
      /\ Sound(devList, reservePoolId)
  BY DEF ServiceState
<1>5. TableInv'
  BY <1>1, TableSame DEF ServiceState
<1>6. \A h \in Ports : marks[h] \in {serviceOf[h], 0, id + 1}
  OBVIOUS
<1> HIDE DEF call, marks, seq, new, id
<1>7. CASE end.ok
  <2>1. Marks(new, marks, calls \cup {call}, id + 1) /\ CallsRight(calls \cup {call}, id + 1)
    BY <1>2, <1>3, <1>4, HandedMarks
  <2>2. id + 1 \in Nat
    BY <1>4
  <2> QED BY <1>1, <1>2, <1>5, <1>6, <1>7, <2>1, <2>2 DEF ServiceKept, ServiceState, id
<1>8. CASE ~end.ok
  <2>1. Unmarks(devList, serviceOf, new, marks)
    <3>1. ToSet(seq) = {} /\ \A h \in Ports : ~IsAmong(h, seq)
      BY <1>2, <1>8 DEF ToSet, IsAmong
    <3>2. \A h \in Ports : marks[h] = serviceOf[h]
      BY <1>3, <3>1
    <3>3. serviceOf \in [Ports -> Nat] /\ marks \in [Ports -> Nat]
      BY <1>3, <1>4, <3>1 DEF Marks
    <3>4. \A h \in Ports : PortAt(new, h) = PortAt(devList, h)
      BY <1>2, <3>1 DEF Took
    <3> QED BY <3>2, <3>3, <3>4 DEF Unmarks
  <2>2. Marks(new, marks, calls, id)
    BY <1>4, <2>1, UnmarksKeepsMarks
  <2> QED BY <1>1, <1>2, <1>4, <1>5, <1>6, <1>8, <2>2 DEF ServiceKept, ServiceState, id
<1> QED BY <1>7, <1>8

LEMMA ReleaseKeeps ==
  ASSUME ServiceState, NEW call \in calls, NEW handles \in Seq(Ports), Release(call, handles)
  PROVE  /\ ServiceKept /\ UNCHANGED <<calls, allocServiceId>>
         /\ FreesOwn(devList, serviceOf, devList', serviceOf', call.service)
<1> DEFINE r == ReleasedEach(devList, serviceOf, call, handles)
<1>1. /\ devList' = r.devs /\ serviceOf' = r.services
      /\ UNCHANGED <<reservePoolId, tableVars, allocServiceId, calls>>
  BY DEF Release, ReleasedEach
<1>2. /\ Sound(devList, reservePoolId) /\ reservePoolId \in Nat /\ serviceOf \in [Ports -> Nat]
      /\ call.client \in Clients /\ call.service # 0
      /\ Marks(devList, serviceOf, calls, allocServiceId) /\ allocServiceId \in Nat
  BY CuAssumption DEF ServiceState, Marks, CallsRight
<1>3. r = ReleasedEach(devList, serviceOf, call, handles)
  OBVIOUS
<1> HIDE DEF r
<1>4. Sound(r.devs, reservePoolId) /\ FreesOwn(devList, serviceOf, r.devs, r.services, call.service)
  BY <1>2, <1>3, ReleaseGood
<1>5. Marks(r.devs, r.services, calls, allocServiceId)
  BY <1>2, <1>4, UnmarksKeepsMarks DEF FreesOwn
<1>6. \A h \in Ports : r.services[h] \in {serviceOf[h], 0, allocServiceId + 1}
  BY <1>4 DEF FreesOwn, Unmarks
<1>7. TableInv'
  BY <1>1, TableSame DEF ServiceState
<1> QED BY <1>1, <1>4, <1>5, <1>6, <1>7 DEF ServiceKept, ServiceState

LEMMA CallReleases ==
  ASSUME ServiceState, NEW call \in calls, CuRelease(call) \/ CuListRelease(call)
  PROVE  /\ ServiceKept /\ UNCHANGED <<calls, allocServiceId>>
         /\ FreesOwn(devList, serviceOf, devList', serviceOf', call.service)
<1>1. call.taken \in Seq(Ports)
  BY DEF ServiceState, CallsRight
<1>2. ASSUME NEW i \in DOMAIN call.taken PROVE <<call.taken[i]>> \in Seq(Ports)
  <2>1. call.taken[i] \in Ports
    BY <1>1
  <2> HIDE DEF Ports
  <2> QED BY <2>1
<1>3. CASE CuRelease(call)
  BY <1>2, <1>3, ReleaseKeeps DEF CuRelease
<1>4. CASE CuListRelease(call)
  BY <1>1, <1>4, ReleaseKeeps DEF CuListRelease
<1> QED BY <1>3, <1>4

LEMMA OtherKeeps ==
  ASSUME ServiceState, OtherCall
  PROVE  ServiceKept
<1>1. /\ Sound(devList', reservePoolId') /\ reservePoolId' \in 0 .. MaxPool
      /\ OnlyFrees(devList, devList')
  BY OtherCallsOnlyFree DEF OtherCall, ServiceState
<1>2. /\ serviceOf' = [h \in Ports |-> IF PortAt(devList', h).client = NoClient THEN 0 ELSE serviceOf[h]]
      /\ UNCHANGED <<tableVars, allocServiceId, calls>>
  BY DEF OtherCall, FreedAreUnmarked, ChannelAt, PortAt
<1>3. Marks(devList, serviceOf, calls, allocServiceId) /\ allocServiceId \in Nat
  BY DEF ServiceState
<1>4. Unmarks(devList, serviceOf, devList', serviceOf')
  <2>1. serviceOf' \in [Ports -> Nat]
    BY <1>2, <1>3 DEF Marks
  <2>2. ASSUME NEW h \in Ports
        PROVE  \/ serviceOf'[h] = serviceOf[h] /\ PortAt(devList', h) = PortAt(devList, h)
               \/ serviceOf'[h] = 0 /\ PortAt(devList', h) = FreeChannel
    <3>1. CASE PortAt(devList', h) = FreeChannel
      BY <1>2, <3>1 DEF FreeChannel
    <3>2. CASE PortAt(devList', h) = PortAt(devList, h)
      BY <1>2, <1>3, <3>2 DEF Marks
    <3> QED BY <1>1, <3>1, <3>2 DEF OnlyFrees
  <2> QED BY <2>1, <2>2 DEF Unmarks
<1>5. Marks(devList', serviceOf', calls, allocServiceId)
  BY <1>3, <1>4, UnmarksKeepsMarks
<1>6. TableInv'
  BY <1>2, TableSame DEF ServiceState
<1>7. \A h \in Ports : serviceOf'[h] \in {serviceOf[h], 0, allocServiceId + 1}
  BY <1>4 DEF Unmarks
<1> QED BY <1>1, <1>2, <1>5, <1>6, <1>7 DEF ServiceKept, ServiceState

LEMMA ServiceKeeps ==
  ASSUME ServiceState, ServiceNext
  PROVE  ServiceKept
<1>0. /\ Sound(devList, reservePoolId) /\ reservePoolId \in Nat
      /\ \A name : OptionsOf(name) \in Seq(Lists)
  BY CuAssumption, OptionsAre DEF ServiceState
<1>1. ASSUME NEW c \in Clients, NEW pool \in {NoPool} \cup PoolIds, NEW end, NEW limit,
             end \in Stages \cup StagesV2, AllOrNone(devList, end, c, pool, reservePoolId),
             Hand(c, pool, end, limit)
      PROVE  ServiceKept
  <2>1. end.taken \in Seq(Ports)
    BY <1>1, StageTyped
  <2> QED BY <1>1, <2>1, HandKeeps
<1>2. ASSUME NEW c \in Clients, NEW pool \in {NoPool} \cup PoolIds, NEW item \in SingleItems,
             CuAlloc(c, item, pool)
      PROVE  ServiceKept
  BY <1>0, <1>1, <1>2, AnywhereGood DEF CuAlloc
<1>3. ASSUME NEW c \in Clients, NEW pool \in {NoPool} \cup PoolIds, NEW item \in SingleItems,
             NEW d \in Devices, CuAllocFromDev(c, d, item, pool)
      PROVE  ServiceKept
  BY <1>0, <1>1, <1>3, FromGood DEF CuAllocFromDev
<1>4. ASSUME NEW c \in Clients, NEW pool \in {NoPool} \cup PoolIds, NEW list \in Lists,
             CuListAlloc(c, list, pool)
      PROVE  ServiceKept
  BY <1>0, <1>1, <1>4, ListGood DEF CuListAlloc
<1>5. ASSUME NEW c \in Clients, NEW pool \in {NoPool} \cup PoolIds, NEW list \in ListsV2,
             CuListAllocV2(c, list, pool)
      PROVE  ServiceKept
  BY <1>0, <1>1, <1>5, ListV2Good DEF CuListAllocV2
<1>6. ASSUME NEW c \in Clients, NEW pool \in {NoPool} \cup PoolIds, NEW name,
             CuGroupAlloc(c, name, pool)
      PROVE  ServiceKept
  BY <1>0, <1>1, <1>6, GroupGood DEF CuGroupAlloc
<1>7. CASE GroupCall
  <2>1. TableInv'
    BY <1>7, TableStep DEF GroupCall, ServiceState
  <2>2. UNCHANGED <<devList, reservePoolId, allocServiceId, serviceOf, calls>>
    BY <1>7 DEF GroupCall, vars
  <2> QED BY <2>1, <2>2 DEF ServiceKept, ServiceState
<1> QED BY <1>2, <1>3, <1>4, <1>5, <1>6, <1>7, CallReleases, OtherKeeps DEF ServiceNext

THEOREM ServiceInvariant == ServiceSpec => []ServiceInv
<1>1. ServiceInit => ServiceInv
  <2> SUFFICES ASSUME ServiceInit PROVE ServiceState
    BY ServiceInvIs
  <2>1. Sound(devList, reservePoolId) /\ reservePoolId \in 0 .. MaxPool
    BY InitLoadsRight, CuAssumption DEF ServiceInit, Init, Sound
  <2>2. TableInv
    <3>1. numUdfCuGroup = 0 /\ udfCuGroups \in [GroupPlaces -> Declarations \cup {Flushed}]
      BY DEF ServiceInit, GroupTableInit
    <3>2. OnePlaceEach(udfCuGroups, numUdfCuGroup)
      BY <3>1, GroupTableAssumption DEF OnePlaceEach, GroupPlaces
    <3> QED BY <3>1, <3>2, GroupTableAssumption DEF TableInv
  <2>3. ASSUME NEW h \in Ports PROVE PortAt(devList, h) = FreeChannel
    <3>1. h[2] \in Channels /\ h[1][1] \in Devices /\ h[1][2] \in CuIds
      BY PortParts
    <3>2. CuAt(devList, h[1]) = EmptyCu
      BY <3>1 DEF ServiceInit, Init, InitialDevice, CuAt
    <3> QED BY <3>1, <3>2 DEF PortAt, EmptyCu
  <2>4. Marks(devList, serviceOf, calls, allocServiceId)
    <3>1. /\ allocServiceId = 0 /\ serviceOf \in [Ports -> Nat]
          /\ \A h \in Ports : serviceOf[h] = 0
      BY DEF ServiceInit
    <3> QED BY <2>3, <3>1 DEF Marks, FreeChannel
  <2>5. CallsRight(calls, allocServiceId) /\ allocServiceId \in Nat
    BY DEF ServiceInit, CallsRight
  <2> QED BY <2>1, <2>2, <2>4, <2>5 DEF ServiceState
<1>2. ServiceInv /\ [ServiceNext]_serviceVars => ServiceInv'
  <2> SUFFICES ASSUME ServiceInv, [ServiceNext]_serviceVars PROVE ServiceInv'
    OBVIOUS
  <2>1. ServiceState
    BY ServiceInvIs
  <2>2. (ServiceInv <=> ServiceState)'
    BY ServiceInvIs, PTL
  <2>3. CASE ServiceNext
    BY <2>1, <2>2, <2>3, ServiceKeeps DEF ServiceKept, ServiceState
  <2>4. CASE UNCHANGED serviceVars
    <3>1. ServiceState'
      BY <2>1, <2>4, TableSame DEF serviceVars, tableVars, ServiceState
    <3> QED BY <2>2, <3>1
  <2> QED BY <2>3, <2>4
<1> QED BY <1>1, <1>2, PTL DEF ServiceSpec

(* What is live of a call: the channels that bear its id. *)
LEMMA LiveOf ==
  ASSUME NEW devs, NEW last, Sound(devs, last), NEW services, NEW cs, NEW id,
         Marks(devs, services, cs, id), CallsRight(cs, id), NEW call \in cs
  PROVE  {h \in ToSet(call.taken) : Names(devs, services, call, h)}
            = {h \in Ports : services[h] = call.service}
<1>1. \A h \in Ports : IsAmong(h, call.taken) /\ Names(devs, services, call, h)
                          <=> services[h] = call.service
  BY NamesIfMarked
<1>2. call.taken \in Seq(Ports)
  BY DEF CallsRight
<1>3. ToSet(call.taken) \subseteq Ports /\ \A h : h \in ToSet(call.taken) <=> IsAmong(h, call.taken)
  BY <1>2 DEF ToSet, IsAmong
<1> QED BY <1>1, <1>3

LEMMA LiveIs ==
  ASSUME ServiceState, NEW call \in calls
  PROVE  Live(call) = {h \in Ports : serviceOf[h] = call.service}
BY LiveOf DEF ServiceState, Live

(* Every channel in use is named by one handle and no other, however many  *)
(* calls there were and whatever became of the handles they returned.      *)
THEOREM ChannelsHaveOneHandle == ServiceSpec => []OneHandleEach
<1>1. ServiceInv => OneHandleEach
  <2> SUFFICES ASSUME ServiceInv, NEW h \in Ports
               PROVE  Cardinality({call \in calls : h \in Live(call)})
                         = IF ChannelAt(h).client = NoClient THEN 0 ELSE 1
    BY DEF OneHandleEach
  <2>0. ServiceState
    BY ServiceInvIs
  <2>1. ChannelAt(h) = PortAt(devList, h)
    BY DEF ChannelAt, PortAt
  <2>2. \A call \in calls : h \in Live(call) <=> serviceOf[h] = call.service
    BY <2>0, LiveIs
  <2>3. CASE PortAt(devList, h).client = NoClient
    <3>1. serviceOf[h] = 0
      BY <2>0, <2>3 DEF ServiceState, Marks
    <3>2. \A call \in calls : call.service # 0
      BY <2>0 DEF ServiceState, CallsRight
    <3>3. {call \in calls : h \in Live(call)} = {}
      BY <2>2, <3>1, <3>2
    <3> QED BY <2>1, <2>3, <3>3, FS_EmptySet
  <2>4. CASE PortAt(devList, h).client # NoClient
    <3>1. PICK one \in calls : serviceOf[h] = one.service
      BY <2>0, <2>4 DEF ServiceState, Marks, IsOwn
    <3>2. \A call \in calls : serviceOf[h] = call.service <=> call = one
      BY <2>0, <3>1 DEF ServiceState, CallsRight
    <3>3. {call \in calls : h \in Live(call)} = {one}
      BY <2>2, <3>2
    <3> QED BY <2>1, <2>4, <3>3, FS_Singleton
  <2> QED BY <2>3, <2>4
<1> QED BY <1>1, ServiceInvariant, PTL

(* What is live of a call, before and after a step. *)
LEMMA LiveNext ==
  ASSUME ServiceState, ServiceNext, NEW call \in calls
  PROVE  /\ Live(call) = {h \in Ports : serviceOf[h] = call.service}
         /\ Live(call)' = {h \in Ports : serviceOf'[h] = call.service}
<1>1. ServiceKept
  BY ServiceKeeps
<1>2. call \in calls'
  BY <1>1 DEF ServiceKept
<1>3. {h \in ToSet(call.taken) : Names(devList', serviceOf', call, h)}
         = {h \in Ports : serviceOf'[h] = call.service}
  BY <1>1, <1>2, LiveOf DEF ServiceKept
<1> QED BY <1>3, LiveIs DEF Live

(* A handle that has become stale never comes to life again: ids are not   *)
(* handed out twice, and what is freed loses its mark.                     *)
THEOREM StaleHandlesStayStale == ServiceSpec => StaleStaysStale
<1>1. ServiceInv /\ [ServiceNext]_serviceVars
         => [\A call \in calls : Live(call)' \subseteq Live(call)]_serviceVars
  <2> SUFFICES ASSUME ServiceInv, ServiceNext, NEW call \in calls
               PROVE  Live(call)' \subseteq Live(call)
    OBVIOUS
  <2>1. ServiceState
    BY ServiceInvIs
  <2>2. /\ call.service # 0 /\ call.service # allocServiceId + 1
        /\ \A h \in Ports : serviceOf'[h] \in {serviceOf[h], 0, allocServiceId + 1}
    BY <2>1, ServiceKeeps DEF ServiceState, CallsRight, ServiceKept
  <2> QED BY <2>1, <2>2, LiveNext
<1> QED BY <1>1, ServiceInvariant, PTL DEF ServiceSpec, StaleStaysStale

(* Giving back the handles of a call, in whatever order and however often, *)
(* takes nothing from another call.                                        *)
THEOREM ReleasesAreOwn == ServiceSpec => ReleaseIsOwn
<1> DEFINE Own == \A call \in calls :
                     CuRelease(call) \/ CuListRelease(call) =>
                         \A other \in calls \ {call} : Live(other)' = Live(other)
<1>1. ServiceInv /\ [ServiceNext]_serviceVars => [Own]_serviceVars
  <2> SUFFICES ASSUME ServiceInv, ServiceNext, NEW call \in calls,
                      CuRelease(call) \/ CuListRelease(call), NEW other \in calls \ {call}
               PROVE  Live(other)' = Live(other)
    OBVIOUS
  <2>1. ServiceState
    BY ServiceInvIs
  <2>2. other.service # call.service /\ other.service # 0
    BY <2>1 DEF ServiceState, CallsRight
  <2>3. FreesOwn(devList, serviceOf, devList', serviceOf', call.service)
    BY <2>1, CallReleases
  <2>4. \A h \in Ports : serviceOf'[h] = other.service <=> serviceOf[h] = other.service
    BY <2>2, <2>3 DEF FreesOwn, Unmarks
  <2> QED BY <2>1, <2>4, LiveNext
<1> QED BY <1>1, ServiceInvariant, PTL DEF ServiceSpec, ReleaseIsOwn

(* What is declared under a name is what stands at its place.              *)
OptionsStand ==
    /\ \A name : \A g \in PlacesOf(name) : OptionsOf(name) = udfCuGroups[g].options
    /\ \A name : PlacesOf(name) = {} => OptionsOf(name) = <<>>

LEMMA OptionsDoStand == TableInv => OptionsStand
<1> SUFFICES ASSUME TableInv, NEW name, NEW g \in PlacesOf(name)
             PROVE  OptionsOf(name) = udfCuGroups[g].options
  BY DEF OptionsStand, OptionsOf
<1> DEFINE place == CHOOSE k \in PlacesOf(name) : TRUE
<1>1. place \in PlacesOf(name) /\ OptionsOf(name) = udfCuGroups[place].options
  BY DEF OptionsOf
<1> HIDE DEF place
<1>2. place = g
  BY <1>1 DEF PlacesOf, TableInv, OnePlaceEach
<1> QED BY <1>1, <1>2

LEMMA OnlyGroupCallsChangeTable == ServiceNext => TableNext \/ UNCHANGED tableVars
<1>1. ASSUME NEW c, NEW pool, NEW end, NEW limit, Hand(c, pool, end, limit)
      PROVE  UNCHANGED tableVars
  BY <1>1 DEF Hand
<1>2. ASSUME NEW c, NEW pool, NEW item, CuAlloc(c, item, pool)
      PROVE  UNCHANGED tableVars
  BY <1>1, <1>2 DEF CuAlloc
<1>3. ASSUME NEW c, NEW pool, NEW item, NEW d, CuAllocFromDev(c, d, item, pool)
      PROVE  UNCHANGED tableVars
  BY <1>1, <1>3 DEF CuAllocFromDev
<1>4. ASSUME NEW c, NEW pool, NEW list, CuListAlloc(c, list, pool) \/ CuListAllocV2(c, list, pool)
      PROVE  UNCHANGED tableVars
  BY <1>1, <1>4 DEF CuListAlloc, CuListAllocV2
<1>5. ASSUME NEW c, NEW pool, NEW name, CuGroupAlloc(c, name, pool)
      PROVE  UNCHANGED tableVars
  BY <1>1, <1>5 DEF CuGroupAlloc
<1>6. ASSUME NEW call, CuRelease(call) \/ CuListRelease(call)
      PROVE  UNCHANGED tableVars
  <2>1. ASSUME NEW handles, Release(call, handles) PROVE UNCHANGED tableVars
    <3>1. Release(call, handles) => UNCHANGED <<reservePoolId, tableVars, allocServiceId, calls>>
      BY DEF Release
    <3> QED BY <2>1, <3>1
  <2> QED BY <1>6, <2>1 DEF CuRelease, CuListRelease
<1>7. OtherCall => UNCHANGED tableVars
  BY DEF OtherCall
<1>8. GroupCall => TableNext
  BY DEF GroupCall
<1> QED BY <1>2, <1>3, <1>4, <1>5, <1>6, <1>7, <1>8 DEF ServiceNext

(* A group is what it was declared to be until it is undeclared, and then  *)
(* gone: its place is the only one of its name, wherever it is moved to.   *)
THEOREM GroupsAreKept == ServiceSpec => GroupsKept
<1> DEFINE Kept ==
      \A name \in GroupNames :
          /\ UdfCuGroupUndeclare(name) => OptionsOf(name)' = <<>>
          /\ PlacesOf(name) # {} => \/ OptionsOf(name)' = OptionsOf(name)
                                   \/ UdfCuGroupUndeclare(name)
<1>1. TableInv /\ TableNext => Kept
  <2> SUFFICES ASSUME TableInv, TableNext, NEW name \in GroupNames
               PROVE  /\ UdfCuGroupUndeclare(name) => OptionsOf(name)' = <<>>
                      /\ PlacesOf(name) # {} => \/ OptionsOf(name)' = OptionsOf(name)
                                               \/ UdfCuGroupUndeclare(name)
    OBVIOUS
  <2>1. OptionsStand
    BY OptionsDoStand
  <2>2. OptionsStand'
    <3>1. TableInv'
      BY TableStep
    <3>2. TableInv' => OptionsStand'
      BY OptionsDoStand, PTL
    <3> QED BY <3>1, <3>2
  <2>3. /\ numUdfCuGroup \in Nat /\ numUdfCuGroup <= MaxGroups /\ MaxGroups \in Nat
        /\ udfCuGroups \in [GroupPlaces -> Declarations \cup {Flushed}]
        /\ GroupPlaces \subseteq Nat
        /\ OnePlaceEach(udfCuGroups, numUdfCuGroup)
    BY GroupTableAssumption DEF TableInv, GroupPlaces
  <2>4. ASSUME UdfCuGroupUndeclare(name) PROVE OptionsOf(name)' = <<>>
    <3>1. PICK place \in PlacesOf(name) : udfCuGroups' = Closed(place)
      BY <2>4 DEF UdfCuGroupUndeclare
    <3>2. numUdfCuGroup' = numUdfCuGroup - 1
      BY <2>4 DEF UdfCuGroupUndeclare
    <3>3. place \in GroupPlaces /\ place < numUdfCuGroup /\ udfCuGroups[place].name = name
      BY DEF PlacesOf
    <3>4. ASSUME NEW g \in GroupPlaces, g < numUdfCuGroup - 1 PROVE Closed(place)[g].name # name
      <4>1. CASE g < place
        <5>1. Closed(place)[g] = udfCuGroups[g]
          BY <4>1 DEF Closed
        <5>2. g < numUdfCuGroup /\ g # place
          BY <2>3, <3>3, <3>4, <4>1
        <5> QED BY <2>3, <3>3, <5>1, <5>2 DEF OnePlaceEach
      <4>2. CASE ~(g < place)
        <5>1. g + 1 \in GroupPlaces /\ g + 1 < numUdfCuGroup /\ g + 1 # place
          BY <2>3, <3>3, <3>4, <4>2 DEF GroupPlaces
        <5>2. Closed(place)[g] = udfCuGroups[g + 1]
          BY <2>3, <3>4, <4>2 DEF Closed
        <5> QED BY <2>3, <3>3, <5>1, <5>2 DEF OnePlaceEach
      <4> QED BY <4>1, <4>2
    <3>5. PlacesOf(name)' = {}
      BY <3>1, <3>2, <3>4 DEF PlacesOf
    <3> QED BY <2>2, <3>5 DEF OptionsStand
  <2>5. ASSUME NEW q \in PlacesOf(name), ~UdfCuGroupUndeclare(name)
        PROVE  OptionsOf(name)' = OptionsOf(name)
    <3>1. q \in GroupPlaces /\ q < numUdfCuGroup /\ udfCuGroups[q].name = name
      BY DEF PlacesOf
    <3>2. ASSUME NEW p \in GroupPlaces, p < numUdfCuGroup', udfCuGroups'[p] = udfCuGroups[q]
          PROVE  OptionsOf(name)' = OptionsOf(name)
      <4>1. p \in PlacesOf(name)'
        BY <3>1, <3>2 DEF PlacesOf
      <4> QED BY <2>1, <2>2, <3>2, <4>1 DEF OptionsStand
    <3>3. ASSUME NEW group \in Declarations, UdfCuGroupDeclare(group)
          PROVE  OptionsOf(name)' = OptionsOf(name)
      <4>1. q < numUdfCuGroup' /\ udfCuGroups'[q] = udfCuGroups[q]
        BY <2>3, <3>1, <3>3 DEF UdfCuGroupDeclare
      <4> QED BY <3>1, <3>2, <4>1
    <3>4. ASSUME NEW other \in GroupNames, UdfCuGroupUndeclare(other)
          PROVE  OptionsOf(name)' = OptionsOf(name)
      <4>1. PICK place \in PlacesOf(other) : udfCuGroups' = Closed(place)
        BY <3>4 DEF UdfCuGroupUndeclare
      <4>2. numUdfCuGroup' = numUdfCuGroup - 1
        BY <3>4 DEF UdfCuGroupUndeclare
      <4>3. place \in GroupPlaces /\ place < numUdfCuGroup /\ place # q
        BY <2>5, <3>1, <3>4 DEF PlacesOf
      <4>4. CASE q < place
        <5>1. q < numUdfCuGroup' /\ udfCuGroups'[q] = udfCuGroups[q]
          BY <2>3, <3>1, <4>1, <4>2, <4>3, <4>4 DEF Closed
        <5> QED BY <3>1, <3>2, <5>1
      <4>5. CASE ~(q < place)
        <5>1. q - 1 \in GroupPlaces
          BY <2>3, <3>1, <4>3, <4>5 DEF GroupPlaces
        <5>2. PICK p \in GroupPlaces : p + 1 = q
          BY <2>3, <3>1, <5>1
        <5>3. ~(p < place) /\ ~(p > numUdfCuGroup - 1) /\ p # numUdfCuGroup - 1
          BY <2>3, <3>1, <4>3, <4>5, <5>2
        <5>4. Closed(place)[p] = udfCuGroups[p + 1]
          BY <5>3 DEF Closed
        <5>5. p < numUdfCuGroup'
          BY <2>3, <3>1, <4>2, <5>2
        <5> QED BY <3>2, <4>1, <5>2, <5>4, <5>5
      <4> QED BY <4>4, <4>5
    <3> QED BY <3>3, <3>4 DEF TableNext
  <2> QED BY <2>4, <2>5
<1>2. UNCHANGED serviceVars => UNCHANGED tableVars
  BY DEF serviceVars, tableVars
<1>3. ServiceInv /\ [ServiceNext]_serviceVars => [Kept]_tableVars
  BY <1>1, <1>2, OnlyGroupCallsChangeTable DEF ServiceInv
<1> QED BY <1>3, ServiceInvariant, PTL DEF ServiceSpec, GroupsKept

----------------------------------------------------------------------------
(* What a call returned fits into the answer to a query of its version.    *)
Fits(cs) == \A call \in cs : call.limit \in Nat /\ Len(call.taken) <= call.limit

LEMMA SingleLength ==
  ASSUME NEW devs, NEW last, Sound(devs, last), NEW c, NEW pool, NEW item, NEW d,
         NEW r, r = TakeAnywhere(Start(devs), c, item, pool) \/ r = TakeFrom(Start(devs), d, c, item, pool),
         r \in Stages
  PROVE  Len(r.taken) <= MaxListCus
<1> DEFINE at == Start(devs)
<1>1. at \in Stages /\ Len(at.taken) = 0
  <2>1. devs \in [Devices -> DeviceType]
    BY DEF Sound, AllInOrder
  <2> QED BY <2>1, StartFields, StartLength
<1>2. r = TakeAnywhere(at, c, item, pool) \/ r = TakeFrom(at, d, c, item, pool)
  OBVIOUS
<1> HIDE DEF at
<1>3. Len(r.taken) <= Len(at.taken) + 1
  BY <1>1, <1>2, TakeAnywhereLength, TakeFromLength
<1>4. Len(r.taken) \in Nat
  BY StageLength
<1> QED BY <1>1, <1>3, <1>4, ServiceAssumption

LEMMA HandFits ==
  ASSUME Fits(calls), NEW c, NEW pool, NEW end, NEW limit \in Nat, Len(end.taken) <= limit,
         Hand(c, pool, end, limit)
  PROVE  Fits(calls')
<1> DEFINE call == [client |-> c, pool |-> pool, service |-> allocServiceId + 1,
                    taken |-> end.taken, limit |-> limit]
<1>1. calls' = IF end.ok THEN calls \cup {call} ELSE calls
  BY DEF Hand
<1>2. call.limit = limit /\ call.taken = end.taken
  OBVIOUS
<1> HIDE DEF call
<1> QED BY <1>1, <1>2 DEF Fits

LEMMA FitsKept ==
  ASSUME ServiceState, Fits(calls), ServiceNext
  PROVE  Fits(calls')
<1>0. /\ Sound(devList, reservePoolId) /\ reservePoolId \in Nat
      /\ \A name : OptionsOf(name) \in Seq(Lists)
      /\ MaxListCus \in Nat /\ MaxListCusV2 \in Nat
  BY CuAssumption, OptionsAre, ServiceAssumption DEF ServiceState
<1>2. ASSUME NEW c \in Clients, NEW pool \in {NoPool} \cup PoolIds, NEW item \in SingleItems,
             CuAlloc(c, item, pool)
      PROVE  Fits(calls')
  <2> DEFINE end == TakeAnywhere(Start(devList), c, item, pool)
  <2>1. end \in Stages
    BY <1>0, AnywhereGood
  <2>2. Hand(c, pool, end, MaxListCus) /\ end = TakeAnywhere(Start(devList), c, item, pool)
    BY <1>2 DEF CuAlloc
  <2> HIDE DEF end
  <2>3. Len(end.taken) <= MaxListCus
    BY <1>0, <2>1, <2>2, SingleLength
  <2> QED BY <1>0, <2>2, <2>3, HandFits
<1>3. ASSUME NEW c \in Clients, NEW pool \in {NoPool} \cup PoolIds, NEW item \in SingleItems,
             NEW d \in Devices, CuAllocFromDev(c, d, item, pool)
      PROVE  Fits(calls')
  <2> DEFINE end == TakeFrom(Start(devList), d, c, item, pool)
  <2>1. end \in Stages
    BY <1>0, FromGood
  <2>2. Hand(c, pool, end, MaxListCus) /\ end = TakeFrom(Start(devList), d, c, item, pool)
    BY <1>3 DEF CuAllocFromDev
  <2> HIDE DEF end
  <2>3. Len(end.taken) <= MaxListCus
    BY <1>0, <2>1, <2>2, SingleLength
  <2> QED BY <1>0, <2>2, <2>3, HandFits
<1>4. ASSUME NEW c \in Clients, NEW pool \in {NoPool} \cup PoolIds, NEW list \in Lists,
             CuListAlloc(c, list, pool)
      PROVE  Fits(calls')
  <2> DEFINE end == ResAllocCuList(devList, c, list, pool)
  <2>1. end \in Stages /\ Len(end.taken) <= Len(list.items) /\ Len(list.items) <= MaxListCus
    BY <1>0, ListGood, ServiceAssumption
  <2>2. Hand(c, pool, end, MaxListCus)
    BY <1>4 DEF CuListAlloc
  <2> HIDE DEF end
  <2>3. Len(end.taken) \in Nat /\ Len(list.items) \in Nat
    <3>1. list.items \in Seq(Items)
      BY ListsAssumption
    <3>2. Len(end.taken) \in Nat
      BY <2>1, StageLength
    <3> QED BY <3>1, <3>2
  <2>4. Len(end.taken) <= MaxListCus
    BY <1>0, <2>1, <2>3
  <2> QED BY <1>0, <2>2, <2>4, HandFits
<1>5. ASSUME NEW c \in Clients, NEW pool \in {NoPool} \cup PoolIds, NEW list \in ListsV2,
             CuListAllocV2(c, list, pool)
      PROVE  Fits(calls')
  <2> DEFINE end == ResAllocCuListV2(devList, c, list, pool)
  <2>1. end \in Stages \cup StagesV2 /\ Len(end.taken) <= Len(list) /\ Len(list) <= MaxListCusV2
    BY <1>0, ListV2Good, ServiceAssumption
  <2>2. Hand(c, pool, end, MaxListCusV2)
    BY <1>5 DEF CuListAllocV2
  <2> HIDE DEF end
  <2>3. Len(end.taken) \in Nat /\ Len(list) \in Nat
    <3>1. list \in Seq(ItemsV2)
      BY ListsAssumption DEF ItemsV2
    <3>2. Len(end.taken) \in Nat
      BY <2>1, StageLength
    <3> QED BY <3>1, <3>2
  <2>4. Len(end.taken) <= MaxListCusV2
    BY <1>0, <2>1, <2>3
  <2> QED BY <1>0, <2>2, <2>4, HandFits
<1>6. ASSUME NEW c \in Clients, NEW pool \in {NoPool} \cup PoolIds, NEW name,
             CuGroupAlloc(c, name, pool)
      PROVE  Fits(calls')
  <2> DEFINE end == ResAllocCuGroup(devList, c, OptionsOf(name), pool)
  <2>1. Len(end.taken) <= MaxListCus
    BY <1>0, GroupGood
  <2>2. Hand(c, pool, end, MaxListCus)
    BY <1>6 DEF CuGroupAlloc
  <2> HIDE DEF end
  <2> QED BY <1>0, <2>1, <2>2, HandFits
<1>7. ASSUME NEW call \in calls, CuRelease(call) \/ CuListRelease(call)
      PROVE  Fits(calls')
  BY <1>7, CallReleases
<1>8. OtherCall \/ GroupCall => Fits(calls')
  BY DEF OtherCall, GroupCall
<1> QED BY <1>2, <1>3, <1>4, <1>5, <1>6, <1>7, <1>8 DEF ServiceNext

LEMMA CallsFit == ServiceSpec => []Fits(calls)
<1>1. ServiceInit => Fits(calls)
  BY DEF ServiceInit, Fits
<1>2. Fits(calls) /\ ServiceInv /\ [ServiceNext]_serviceVars => Fits(calls)'
  <2>1. ServiceNext /\ Fits(calls) /\ ServiceState => Fits(calls')
    BY FitsKept
  <2>2. UNCHANGED serviceVars /\ Fits(calls) => Fits(calls')
    BY DEF serviceVars
  <2> QED BY <2>1, <2>2, ServiceInvIs
<1> QED BY <1>1, <1>2, ServiceInvariant, PTL DEF ServiceSpec

(* A sequence names no more channels than it is long. *)
LEMMA AmongAtMost ==
  ASSUME NEW S, NEW seq \in Seq(S), NEW some, some \subseteq ToSet(seq)
  PROVE  Cardinality(some) \in Nat /\ Cardinality(some) <= Len(seq)
<1> DEFINE n == Len(seq)
           all == ToSet(seq)
           places == 1 .. n
<1>1. n \in Nat /\ DOMAIN seq = places
  OBVIOUS
<1>2. IsFiniteSet(places) /\ Cardinality(places) = n
  BY <1>1, FS_Interval
<1>3. seq \in Surjection(places, all)
  <2>1. seq \in [places -> all] /\ \A t \in all : \E i \in places : seq[i] = t
    BY <1>1 DEF ToSet
  <2> HIDE DEF places, all
  <2> QED BY <2>1 DEF Surjection
<1> HIDE DEF n, all, places
<1>4. IsFiniteSet(all) /\ Cardinality(all) <= n
  BY <1>2, <1>3, FS_Surjection
<1>5. some \in SUBSET all
  BY DEF all
<1>6. IsFiniteSet(some) /\ Cardinality(some) <= Cardinality(all)
  BY <1>4, <1>5, FS_Subset
<1>7. Cardinality(some) \in Nat /\ Cardinality(all) \in Nat
  BY <1>4, <1>6, FS_CardinalityType
<1> QED BY <1>1, <1>4, <1>6, <1>7 DEF n

(* What a query answers is what is left of the call, of the kernels asked  *)
(* for: what bears its id is in use, on a CU that is there, and no more    *)
(* than the call returned.                                                 *)
THEOREM QueriesAreExact == ServiceSpec => []QueryExact
<1>1. ServiceInv /\ Fits(calls) => QueryExact
  <2> SUFFICES ASSUME ServiceInv, Fits(calls), NEW call \in calls,
                      NEW kernels \in {Kernels} \cup {{k} : k \in Kernels}
               PROVE  LET answer == ResAllocationQuery(call.service, kernels, call.limit)
                      IN  /\ answer.ok
                          /\ answer.channels = {h \in Live(call) :
                                 KernelOf[devList[h[1][1]].xclbin][h[1][2]] \in kernels}
    BY DEF QueryExact
  <2> DEFINE found == {h \in Ports : /\ h[1][2] \in CusOf(devList[h[1][1]])
                                     /\ KernelOf[devList[h[1][1]].xclbin][h[1][2]] \in kernels
                                     /\ serviceOf[h] = call.service}
             live == {h \in Live(call) : KernelOf[devList[h[1][1]].xclbin][h[1][2]] \in kernels}
  <2>1. ServiceState
    BY ServiceInvIs
  <2>2. Live(call) = {h \in Ports : serviceOf[h] = call.service} /\ Live(call) \subseteq ToSet(call.taken)
    BY <2>1, LiveIs DEF Live
  <2>3. call.service # 0 /\ call.taken \in Seq(Ports)
    BY <2>1 DEF ServiceState, CallsRight
  <2>4. ASSUME NEW h \in Ports, serviceOf[h] = call.service
        PROVE  h[1][2] \in CusOf(devList[h[1][1]])
    <3>1. PortAt(devList, h).client # NoClient
      BY <2>1, <2>3, <2>4 DEF ServiceState, Marks
    <3> QED BY <2>1, <3>1, BusyOnCu DEF ServiceState
  <2>5. found = live
    BY <2>2, <2>4
  <2>6. found \subseteq ToSet(call.taken)
    BY <2>2, <2>5
  <2>7. ResAllocationQuery(call.service, kernels, call.limit)
           = [ok |-> Cardinality(found) <= call.limit, channels |-> found]
    BY DEF ResAllocationQuery
  <2> DEFINE answer == ResAllocationQuery(call.service, kernels, call.limit)
             few == Cardinality(found) <= call.limit
  <2> HIDE DEF found, live, Ports
  <2>8. Cardinality(found) \in Nat /\ Cardinality(found) <= Len(call.taken)
    BY <2>3, <2>6, AmongAtMost
  <2>9. Len(call.taken) \in Nat /\ call.limit \in Nat /\ Len(call.taken) <= call.limit
    BY <2>3 DEF Fits
  <2>10. few
    BY <2>8, <2>9
  <2>11. answer = [ok |-> few, channels |-> found]
    BY <2>7
  <2> HIDE DEF few, answer
  <2>12. answer.ok = few /\ answer.channels = found
    BY <2>11
  <2>13. answer.ok /\ answer.channels = live
    BY <2>5, <2>10, <2>12, Zenon
  <2> QED BY <2>13 DEF live, answer
<1> QED BY <1>1, ServiceInvariant, CallsFit, PTL

=============================================================================
