---------------------------- MODULE XrmAdminProofs ----------------------------
(***************************************************************************)
(* For any number of devices, any commands and whatever the drivers do:    *)
(* a command of an administrator keeps the invariant of the resource       *)
(* manager, does what it reports to have done, and takes nothing from      *)
(* anybody.                                                                *)
(***************************************************************************)
EXTENDS XrmAdmin, XrmRefinementProofs

(* A device that is out of service carries no xclbin. *)
OutIsClear(dev) == dev.isDisabled => ~IsLoaded(dev)

(* What every command starts from and keeps. *)
Good(devs, last) ==
    /\ AllInOrder(devs)
    /\ AllRight(devs, last)
    /\ \A d \in Devices : OutIsClear(devs[d])

(* A device clients use keeps its xclbin and what they hold of it. *)
Spares(dev, new) == IsDeviceBusy(dev) => new.cus = dev.cus /\ new.xclbin = dev.xclbin

Spared(devs, new) == \A d \in Devices : Spares(devs[d], new[d])

(* A device that is loaded is not touched. *)
LoadedKept(devs, new) == \A d \in Devices : IsLoaded(devs[d]) => new[d] = devs[d]

Outcomes == [ok : BOOLEAN, devs : [Devices -> DeviceType]]

----------------------------------------------------------------------------
(* Devices, one at a time.                                                 *)
LEMMA SparedOn ==
  ASSUME NEW devs, NEW mid, NEW new, Spared(devs, mid), Spared(mid, new)
  PROVE  Spared(devs, new)
BY DEF Spared, Spares, IsDeviceBusy, CusOf, IsLoaded

LEMMA BusyIsLoaded ==
  ASSUME NEW dev, IsDeviceBusy(dev)
  PROVE  IsLoaded(dev)
BY DEF IsDeviceBusy, CusOf

LEMMA KeptIsSpared ==
  ASSUME NEW devs, NEW new, LoadedKept(devs, new)
  PROVE  Spared(devs, new)
BY BusyIsLoaded DEF LoadedKept, Spared, Spares

LEMMA OutcomeIs ==
  ASSUME NEW devs \in [Devices -> DeviceType], NEW ok \in BOOLEAN
  PROVE  /\ Outcome(ok, devs) \in Outcomes
         /\ Outcome(ok, devs).devs = devs
         /\ Outcome(ok, devs).ok <=> ok
<1>1. CASE ok = TRUE
  BY <1>1 DEF Outcome, Outcomes
<1>2. CASE ok = FALSE
  BY <1>2 DEF Outcome, Outcomes
<1> QED BY <1>1, <1>2

(* One device changes. *)
LEMMA OneGood ==
  ASSUME NEW devs, NEW last \in Nat, Good(devs, last), NEW d \in Devices, NEW dev,
         InOrder(dev), DeviceRight(dev, last), OutIsClear(dev), Spares(devs[d], dev)
  PROVE  LET new == [devs EXCEPT ![d] = dev]
         IN  /\ Good(new, last) /\ Spared(devs, new)
             /\ new \in [Devices -> DeviceType]
             /\ \A e \in Devices : new[e] = IF e = d THEN dev ELSE devs[e]
<1> DEFINE new == [devs EXCEPT ![d] = dev]
<1>1. AllInOrder(new) /\ AllRight(new, last)
  BY ReplaceInOrder, ReplaceRight DEF Good
<1>2. \A e \in Devices : new[e] = IF e = d THEN dev ELSE devs[e]
  BY DEF Good, AllInOrder
<1> HIDE DEF new
<1>3. \A e \in Devices : OutIsClear(new[e])
  BY <1>2 DEF Good
<1>4. Spared(devs, new)
  BY <1>2 DEF Spared, Spares
<1>5. new \in [Devices -> DeviceType]
  BY <1>1 DEF AllInOrder, InOrder
<1> QED BY <1>1, <1>2, <1>3, <1>4, <1>5 DEF Good, new

(* deviceClearInfo. *)
LEMMA ClearGood ==
  ASSUME NEW dev, InOrder(dev), NEW last \in Nat, DeviceRight(dev, last), OutIsClear(dev),
         NEW new, new = DeviceClearInfo(dev)
  PROVE  /\ InOrder(new) /\ DeviceRight(new, last) /\ OutIsClear(new)
         /\ Spares(dev, new)
         /\ new.isDisabled = dev.isDisabled
         /\ ~IsDeviceBusy(dev) => ~IsLoaded(new) /\ new.cus = [i \in CuIds |-> EmptyCu]
<1>1. InOrder(new) /\ DeviceRight(new, last)
  BY ClearInfoInOrder, ClearInfoRight
<1>2. ~IsDeviceBusy(dev) => /\ ~IsLoaded(new)
                            /\ new.cus = [i \in CuIds |-> EmptyCu]
                            /\ new.isDisabled = dev.isDisabled
  BY DEF DeviceClearInfo, InitialDevice, IsLoaded
<1>3. IsDeviceBusy(dev) => new = dev
  BY DEF DeviceClearInfo
<1> QED BY <1>1, <1>2, <1>3 DEF OutIsClear, Spares

(* openDevice. *)
LEMMA OpenedGood ==
  ASSUME NEW dev, InOrder(dev), NEW last, DeviceRight(dev, last), OutIsClear(dev),
         NEW ok \in BOOLEAN
  PROVE  LET new == Opened(dev, ok)
         IN  /\ InOrder(new) /\ DeviceRight(new, last) /\ OutIsClear(new)
             /\ new.xclbin = dev.xclbin /\ new.isDisabled = dev.isDisabled
             /\ new.cus = dev.cus /\ new.open = (dev.open \/ ok)
<1> DEFINE new == Opened(dev, ok)
<1>1. InOrder(new) /\ DeviceRight(new, last)
  BY OpenedInOrder, HandleRight
<1>2. /\ new.xclbin = dev.xclbin /\ new.isDisabled = dev.isDisabled /\ new.cus = dev.cus
      /\ new.open = (dev.open \/ ok)
  BY DEF Opened, InOrder, DeviceType
<1> QED BY <1>1, <1>2 DEF OutIsClear, IsLoaded

(* Nothing but EmptyCu is vacant. *)
LEMMA VacantIsEmpty ==
  ASSUME NEW cu \in CuType, CuIndexed(cu), NEW last \in Nat, LoadsRight(cu, last), Vacant(cu)
  PROVE  cu = EmptyCu
<1>1. EmptyCu \in CuType /\ CuIndexed(EmptyCu) /\ LoadsRight(EmptyCu, last)
  BY EmptyCuType, EmptyCuRight, EmptyIndexed
<1>2. Keeps(EmptyCu, cu)
  BY VacantCu DEF Keeps, SameReserves, SameReserve
<1> QED BY <1>1, <1>2, SameBooks

Idle(dev) == ~IsLoaded(dev) /\ dev.cus = [i \in CuIds |-> EmptyCu]

LEMMA UnloadedIsIdle ==
  ASSUME NEW dev, InOrder(dev), NEW last \in Nat, DeviceRight(dev, last), ~IsLoaded(dev)
  PROVE  Idle(dev)
<1>1. \A i \in CuIds : dev.cus[i] = EmptyCu
  BY CusTyped, UnloadedVacant, VacantIsEmpty DEF DeviceRight
<1> QED BY <1>1 DEF Idle, InOrder, DeviceType

----------------------------------------------------------------------------
(* The commands, on one device.                                            *)
LEMMA LoadOne ==
  ASSUME NEW devs \in [Devices -> DeviceType], NEW last \in Nat, Good(devs, last),
         NEW d \in DeviceNames, NEW x \in Xclbins, NEW drv \in Drivers,
         NEW r, r = DeviceLoadXclbin(devs, d, x, drv)
  PROVE  /\ r \in Outcomes /\ Good(r.devs, last) /\ LoadedKept(devs, r.devs)
         /\ r.ok => d \in Devices /\ r.devs[d].xclbin = x
<1> DEFINE ok == d \in drv.opens
           dev == Opened(devs[d], ok)
           loads == d \in GoodOf(drv) /\ dev.open
           new == IF loads THEN LoadedWith(dev, x) ELSE DeviceClearInfo(dev)
<1>0. x \in Xclbins \cup {NoXclbin} /\ x # NoXclbin /\ drv.reads \in BOOLEAN
  BY DeviceAssumption, AdminAssumption
<1>1. CASE d \notin Devices \/ devs[d].isDisabled
  BY <1>1 DEF DeviceLoadXclbin, Outcome, Outcomes, LoadedKept
<1>2. CASE d \in Devices /\ ~devs[d].isDisabled /\ IsLoaded(devs[d])
  <2>1. r = Outcome(drv.reads /\ devs[d].xclbin = x, devs)
    BY <1>2 DEF DeviceLoadXclbin
  <2>2. r.devs = devs /\ r.ok = (drv.reads /\ devs[d].xclbin = x) /\ r \in Outcomes
    BY <2>1 DEF Outcome, Outcomes
  <2> QED BY <1>2, <2>2 DEF LoadedKept
<1>3. CASE d \in Devices /\ ~devs[d].isDisabled /\ ~IsLoaded(devs[d])
  <2>1. r = Outcome(loads, [devs EXCEPT ![d] = new])
    BY <1>3 DEF DeviceLoadXclbin
  <2>3. InOrder(devs[d]) /\ DeviceRight(devs[d], last) /\ OutIsClear(devs[d])
    BY <1>3 DEF Good, AllInOrder, AllRight
  <2>4. /\ InOrder(dev) /\ DeviceRight(dev, last) /\ OutIsClear(dev)
        /\ dev.xclbin = devs[d].xclbin /\ dev.isDisabled = devs[d].isDisabled
    <3>1. ok \in BOOLEAN
      OBVIOUS
    <3> HIDE DEF ok
    <3> QED BY <2>3, <3>1, OpenedGood
  <2>5. ~IsLoaded(dev)
    BY <1>3, <2>4 DEF IsLoaded
  <2> HIDE DEF dev
  <2>6. /\ InOrder(LoadedWith(dev, x)) /\ DeviceRight(LoadedWith(dev, x), last)
        /\ LoadedWith(dev, x).xclbin = x
        /\ LoadedWith(dev, x).isDisabled = dev.isDisabled
    <3>1. InOrder(LoadedWith(dev, x)) /\ DeviceRight(LoadedWith(dev, x), last)
      BY <2>4, <2>5, UnloadedVacant, LoadedRight, LoadedInOrder
    <3>2. LoadedWith(dev, x).xclbin = x /\ LoadedWith(dev, x).isDisabled = dev.isDisabled
      BY <2>4 DEF LoadedWith, InOrder, DeviceType
    <3> QED BY <3>1, <3>2
  <2>7. InOrder(new) /\ DeviceRight(new, last) /\ OutIsClear(new)
    <3>1. OutIsClear(LoadedWith(dev, x))
      BY <1>3, <2>4, <2>6 DEF OutIsClear
    <3> QED BY <2>4, <2>6, <3>1, ClearGood
  <2>8. Spares(devs[d], new)
    BY <1>3, BusyIsLoaded DEF Spares
  <2>9. loads => new.xclbin = x
    BY <2>6
  <2>10. loads \in BOOLEAN
    OBVIOUS
  <2> HIDE DEF new, loads
  <2>11. /\ r \in Outcomes /\ (r.ok <=> loads) /\ Good(r.devs, last)
         /\ \A e \in Devices : r.devs[e] = IF e = d THEN new ELSE devs[e]
    <3> DEFINE next == [devs EXCEPT ![d] = new]
    <3>1. /\ Good(next, last) /\ Spared(devs, next) /\ next \in [Devices -> DeviceType]
          /\ \A e \in Devices : next[e] = IF e = d THEN new ELSE devs[e]
      BY <1>3, <2>7, <2>8, OneGood
    <3>2. r = Outcome(loads, next)
      BY <2>1
    <3> HIDE DEF next
    <3>3. r \in Outcomes /\ r.devs = next /\ (r.ok <=> loads)
      BY <2>10, <3>1, <3>2, OutcomeIs
    <3> QED BY <3>1, <3>3
  <2>12. LoadedKept(devs, r.devs)
    BY <1>3, <2>11 DEF LoadedKept
  <2> QED BY <1>3, <2>9, <2>11, <2>12
<1> QED BY <1>1, <1>2, <1>3

(* What is idle, or out of service, stays so where another device changes. *)
LEMMA UnloadOne ==
  ASSUME NEW devs \in [Devices -> DeviceType], NEW last \in Nat, Good(devs, last),
         NEW d \in DeviceNames, NEW drv \in Drivers, NEW r, r = UnloadOneDevice(devs, d, drv)
  PROVE  /\ r \in Outcomes /\ Good(r.devs, last) /\ Spared(devs, r.devs)
         /\ r.ok => d \in Devices /\ Idle(r.devs[d])
         /\ \A e \in Devices : Idle(devs[e]) => Idle(r.devs[e])
<1> DEFINE new == Unloaded(devs[d], d \in drv.unlocks)
           ok == IsLoaded(devs[d]) => ~IsDeviceBusy(devs[d]) /\ d \in drv.unlocks
<1>1. CASE d \notin Devices
  BY <1>1 DEF UnloadOneDevice, Outcome, Outcomes, Spared, Spares
<1>2. CASE d \in Devices
  <2>1. r = Outcome(ok, [devs EXCEPT ![d] = new])
    BY <1>2 DEF UnloadOneDevice
  <2>2. ok \in BOOLEAN
    OBVIOUS
  <2>3. InOrder(devs[d]) /\ DeviceRight(devs[d], last) /\ OutIsClear(devs[d])
    BY <1>2 DEF Good, AllInOrder, AllRight
  <2>4. InOrder(new) /\ DeviceRight(new, last) /\ OutIsClear(new) /\ Spares(devs[d], new)
    BY <2>3, ClearGood DEF Unloaded, Spares
  <2>5. (ok \/ Idle(devs[d])) => Idle(new)
    <3>1. ok \/ Idle(devs[d]) => ~IsDeviceBusy(devs[d]) /\ new = DeviceClearInfo(devs[d])
      BY BusyIsLoaded DEF Unloaded, Idle
    <3> QED BY <2>3, <3>1, ClearGood DEF Idle
  <2> HIDE DEF new, ok
  <2>6. /\ r \in Outcomes /\ (r.ok <=> ok) /\ Good(r.devs, last) /\ Spared(devs, r.devs)
        /\ \A e \in Devices : r.devs[e] = IF e = d THEN new ELSE devs[e]
    <3> DEFINE next == [devs EXCEPT ![d] = new]
    <3>1. /\ Good(next, last) /\ Spared(devs, next) /\ next \in [Devices -> DeviceType]
          /\ \A e \in Devices : next[e] = IF e = d THEN new ELSE devs[e]
      BY <1>2, <2>3, <2>4, OneGood
    <3>2. r = Outcome(ok, next)
      BY <2>1
    <3> HIDE DEF next
    <3>3. r \in Outcomes /\ r.devs = next /\ (r.ok <=> ok)
      BY <2>2, <3>1, <3>2, OutcomeIs
    <3> QED BY <3>1, <3>3
  <2> QED BY <1>2, <2>5, <2>6
<1> QED BY <1>1, <1>2

Out(dev) == Idle(dev) /\ dev.isDisabled

LEMMA DisableOne ==
  ASSUME NEW devs \in [Devices -> DeviceType], NEW last \in Nat, Good(devs, last),
         NEW d \in DeviceNames, NEW drv \in Drivers, NEW r, r = DisableOneDevice(devs, d, drv)
  PROVE  /\ r \in Outcomes /\ Good(r.devs, last) /\ Spared(devs, r.devs)
         /\ r.ok => d \in Devices /\ Out(r.devs[d])
         /\ \A e \in Devices : Out(devs[e]) => Out(r.devs[e])
<1> DEFINE fails == d \notin Devices
                      \/ (IsLoaded(devs[d]) /\ (IsDeviceBusy(devs[d]) \/ d \notin drv.unlocks))
           dev == IF IsLoaded(devs[d]) THEN DeviceClearInfo(devs[d]) ELSE devs[d]
           out == [dev EXCEPT !.isDisabled = TRUE]
           new == IF devs[d].isDisabled THEN devs[d] ELSE out
<1>1. CASE fails
  BY <1>1 DEF DisableOneDevice, Outcome, Outcomes, Spared, Spares
<1>2. CASE ~fails
  <2>0. d \in Devices /\ (IsLoaded(devs[d]) => ~IsDeviceBusy(devs[d]))
    BY <1>2
  <2>1. r = Outcome(TRUE, [devs EXCEPT ![d] = new])
    BY <1>2 DEF DisableOneDevice
  <2> HIDE DEF fails
  <2>3. InOrder(devs[d]) /\ DeviceRight(devs[d], last) /\ OutIsClear(devs[d])
    BY <2>0 DEF Good, AllInOrder, AllRight
  <2>4. InOrder(dev) /\ DeviceRight(dev, last) /\ Idle(dev)
    BY <2>0, <2>3, ClearGood, UnloadedIsIdle DEF Idle
  <2> HIDE DEF dev
  <2>5. /\ InOrder(out) /\ DeviceRight(out, last)
        /\ out.xclbin = dev.xclbin /\ out.cus = dev.cus /\ out.isDisabled = TRUE
    BY <2>4, HandleInOrder, HandleRight DEF InOrder, DeviceType
  <2> HIDE DEF out
  <2>6. InOrder(new) /\ DeviceRight(new, last) /\ Out(new) /\ OutIsClear(new)
    BY <2>3, <2>4, <2>5, UnloadedIsIdle DEF Out, Idle, OutIsClear, IsLoaded
  <2>7. Spares(devs[d], new)
    BY <2>0, BusyIsLoaded DEF Spares
  <2> HIDE DEF new
  <2>8. /\ r \in Outcomes /\ Good(r.devs, last) /\ Spared(devs, r.devs)
        /\ \A e \in Devices : r.devs[e] = IF e = d THEN new ELSE devs[e]
    <3> DEFINE next == [devs EXCEPT ![d] = new]
    <3>1. /\ Good(next, last) /\ Spared(devs, next) /\ next \in [Devices -> DeviceType]
          /\ \A e \in Devices : next[e] = IF e = d THEN new ELSE devs[e]
      BY <2>0, <2>6, <2>7, OneGood
    <3>2. r = Outcome(TRUE, next)
      BY <2>1
    <3> HIDE DEF next
    <3>3. r \in Outcomes /\ r.devs = next /\ (r.ok <=> TRUE)
      BY <3>1, <3>2, OutcomeIs
    <3> QED BY <3>1, <3>3
  <2> QED BY <2>0, <2>6, <2>8
<1> QED BY <1>1, <1>2

LEMMA EnableOne ==
  ASSUME NEW devs \in [Devices -> DeviceType], NEW last \in Nat, Good(devs, last),
         NEW d \in DeviceNames, NEW r, r = EnableOneDevice(devs, d)
  PROVE  r \in Outcomes /\ Good(r.devs, last) /\ Spared(devs, r.devs)
<1> DEFINE new == [devs[d] EXCEPT !.isDisabled = FALSE]
<1>1. CASE d \notin Devices
  BY <1>1 DEF EnableOneDevice, Outcome, Outcomes, Spared, Spares
<1>2. CASE d \in Devices
  <2>1. r = Outcome(TRUE, [devs EXCEPT ![d] = new])
    BY <1>2 DEF EnableOneDevice
  <2>3. InOrder(devs[d]) /\ DeviceRight(devs[d], last)
    BY <1>2 DEF Good, AllInOrder, AllRight
  <2>4. /\ InOrder(new) /\ DeviceRight(new, last)
        /\ new.xclbin = devs[d].xclbin /\ new.cus = devs[d].cus /\ new.isDisabled = FALSE
    BY <2>3, HandleInOrder, HandleRight DEF InOrder, DeviceType
  <2>5. OutIsClear(new) /\ Spares(devs[d], new)
    BY <2>4 DEF OutIsClear, Spares
  <2> HIDE DEF new
  <2>6. r \in Outcomes /\ Good(r.devs, last) /\ Spared(devs, r.devs)
    <3> DEFINE next == [devs EXCEPT ![d] = new]
    <3>1. /\ Good(next, last) /\ Spared(devs, next) /\ next \in [Devices -> DeviceType]
          /\ \A e \in Devices : next[e] = IF e = d THEN new ELSE devs[e]
      BY <1>2, <2>4, <2>5, OneGood
    <3>2. r = Outcome(TRUE, next)
      BY <2>1
    <3> HIDE DEF next
    <3>3. r \in Outcomes /\ r.devs = next /\ (r.ok <=> TRUE)
      BY <3>1, <3>2, OutcomeIs
    <3> QED BY <3>1, <3>3
  <2> QED BY <2>6
<1> QED BY <1>1, <1>2

----------------------------------------------------------------------------
(* The commands, device after device: Kept[s] is what holds when the       *)
(* positions in s are worked off.                                          *)
LEMMA LoadedKeptOn ==
  ASSUME NEW devs, NEW mid, NEW new, LoadedKept(devs, mid), LoadedKept(mid, new)
  PROVE  LoadedKept(devs, new)
BY DEF LoadedKept

LEMMA LoadAllGood ==
  ASSUME NEW devs \in [Devices -> DeviceType], NEW last \in Nat, Good(devs, last),
         NEW x \in Xclbins, NEW drv \in Drivers, NEW r, r = LoadAllDevices(devs, x, drv)
  PROVE  /\ r \in Outcomes /\ Good(r.devs, last) /\ LoadedKept(devs, r.devs)
         /\ r.ok => \A d \in Devices : r.devs[d].xclbin = x
<1> DEFINE n == NumDevices
           seq == DevicesInOrder
           base == Outcome(TRUE, devs)
           op(at, d) == IF at.ok THEN DeviceLoadXclbin(at.devs, d, x, drv) ELSE at
           IsRun(h) == h = [s \in SUBSET (1 .. n) |-> IF s = {} THEN base
                                                      ELSE op(h[s \ {Max(s)}], seq[Max(s)])]
           Kept == [s \in SUBSET (1 .. n) |->
                      {at \in Outcomes :
                         /\ Good(at.devs, last) /\ LoadedKept(devs, at.devs)
                         /\ at.ok => \A i \in s : at.devs[i - 1].xclbin = x}]
           step == [s \in Parts(n) |-> [at \in Kept[Rest(s)] |-> op(at, seq[Max(s)])]]
           run == CHOOSE h : IsRun(h)
<1>0. n \in Nat /\ DOMAIN seq = 1 .. n /\ \A i \in 1 .. n : seq[i] = i - 1 /\ i - 1 \in Devices
  BY SystemAssumption DEF DevicesInOrder, Devices
<1> HIDE DEF n, seq
<1>1. \A s \in Parts(n) : Max(s) \in 1 .. n /\ Rest(s) \in SUBSET (1 .. n) /\ s \in SUBSET (1 .. n)
  BY <1>0, MaxOf, RestOf
<1>2. ASSUME NEW s \in Parts(n), NEW at \in Kept[Rest(s)]
      PROVE  op(at, seq[Max(s)]) \in Kept[s]
  <2> DEFINE d == seq[Max(s)]
             new == op(at, d)
  <2>1. /\ at \in Outcomes /\ Good(at.devs, last) /\ LoadedKept(devs, at.devs)
        /\ at.ok => \A i \in Rest(s) : at.devs[i - 1].xclbin = x
    BY <1>1
  <2>2. d \in Devices /\ d \in DeviceNames /\ d = Max(s) - 1
    BY <1>0, <1>1 DEF DeviceNames
  <2>3. CASE ~at.ok
    BY <1>1, <2>1, <2>3
  <2>4. CASE at.ok
    <3>1. /\ new \in Outcomes /\ Good(new.devs, last) /\ LoadedKept(at.devs, new.devs)
          /\ new.ok => new.devs[d].xclbin = x
      <4>1. new = DeviceLoadXclbin(at.devs, d, x, drv) /\ at.devs \in [Devices -> DeviceType]
        BY <2>1, <2>4 DEF Outcomes
      <4> QED BY <2>1, <2>2, <4>1, LoadOne
    <3> HIDE DEF new
    <3>2. LoadedKept(devs, new.devs)
      BY <2>1, <3>1, LoadedKeptOn
    <3>3. ASSUME new.ok, NEW i \in s PROVE new.devs[i - 1].xclbin = x
      <4>1. i = Max(s) \/ i \in Rest(s)
        BY DEF Rest
      <4>2. i - 1 \in Devices
        BY <1>0, <1>1
      <4>3. CASE i = Max(s)
        BY <2>2, <3>1, <3>3, <4>3
      <4>4. CASE i \in Rest(s)
        <5>1. IsLoaded(at.devs[i - 1])
          BY <2>1, <2>4, <4>4, DeviceAssumption DEF IsLoaded
        <5> QED BY <2>1, <2>4, <3>1, <4>2, <4>4, <5>1 DEF LoadedKept
      <4> QED BY <4>1, <4>3, <4>4
    <3>4. new \in Kept[s]
      BY <1>1, <3>1, <3>2, <3>3
    <3> QED BY <3>4 DEF new
  <2> QED BY <2>3, <2>4
<1>3. base \in Kept[{}]
  BY OutcomeIs DEF LoadedKept
<1> HIDE DEF op, base
<1>4. PICK h : IsFold(h, n, base, step) /\ Within(h, n, Kept)
  <2>1. Keeping(n, Kept, step)
    BY <1>1, <1>2 DEF Keeping
  <2> HIDE DEF step, Kept
  <2> QED BY <1>0, <1>3, <2>1, FoldExists
<1>5. IsRun(run)
  <2>1. \A s \in Parts(n) : step[s][h[Rest(s)]] = op(h[Rest(s)], seq[Max(s)])
    BY <1>1, <1>4 DEF Within
  <2> HIDE DEF step, Kept
  <2>2. IsRun(h)
    BY <1>4, <2>1 DEF IsFold, Rest, Parts
  <2> HIDE DEF IsRun
  <2> QED BY <2>2
<1>6. r = run[1 .. n]
  BY <1>0 DEF LoadAllDevices, UpToFailure, FoldLeft, MapThenFoldSet, op, base, seq
<1>7. run[1 .. n] \in Kept[1 .. n]
  <2>1. run[{}] = base /\ \A s \in Parts(n) : run[s] = op(run[Rest(s)], seq[Max(s)])
    BY <1>1, <1>5 DEF Parts, Rest
  <2> HIDE DEF run, Kept
  <2>2. \A s \in Parts(n) : run[Rest(s)] \in Kept[Rest(s)] => run[s] \in Kept[s]
    BY <1>2, <2>1
  <2>3. run[{}] \in Kept[{}] /\ n \in Nat
    BY <1>0, <1>3, <2>1
  <2> QED BY <2>2, <2>3, FoldKeeps
<1> HIDE DEF run
<1>8. /\ r \in Outcomes /\ Good(r.devs, last) /\ LoadedKept(devs, r.devs)
      /\ r.ok => \A i \in 1 .. n : r.devs[i - 1].xclbin = x
  BY <1>6, <1>7
<1>9. \A d \in Devices : d + 1 \in 1 .. n /\ d = (d + 1) - 1
  BY <1>0 DEF Devices, n
<1> QED BY <1>8, <1>9

Loads == [ok : BOOLEAN, stopped : BOOLEAN, devs : [Devices -> DeviceType]]

Entries == [device : DeviceNames, xclbin : Xclbins]

LEMMA LoadsAre ==
  ASSUME NEW devs \in [Devices -> DeviceType], NEW ok \in BOOLEAN, NEW stopped \in BOOLEAN,
         NEW r, r = [ok |-> ok, stopped |-> stopped, devs |-> devs]
  PROVE  r \in Loads /\ r.devs = devs /\ (r.ok <=> ok) /\ (r.stopped <=> stopped)
BY DEF Loads

(* The entry of a load command is done. *)
Carries(devs, en) == \A d \in DevicesNamed(en.device) : d \in Devices /\ devs[d].xclbin = en.xclbin

LEMMA CarriesOn ==
  ASSUME NEW devs, NEW new, LoadedKept(devs, new), NEW en \in Entries, Carries(devs, en)
  PROVE  Carries(new, en)
<1>1. en.xclbin # NoXclbin
  BY DeviceAssumption DEF Entries
<1> QED BY <1>1 DEF Carries, LoadedKept, IsLoaded

(* One entry of a load command. *)
LEMMA EntryGood ==
  ASSUME NEW last \in Nat, NEW at \in Loads, Good(at.devs, last), NEW en \in Entries,
         NEW drv \in Drivers, NEW new,
         new = LET all == LoadAllDevices(at.devs, en.xclbin, drv)
                   one == DeviceLoadXclbin(at.devs, en.device, en.xclbin, drv)
               IN  IF at.stopped THEN at
                   ELSE IF en.device = AllDevices
                   THEN [ok |-> all.ok, stopped |-> FALSE, devs |-> all.devs]
                   ELSE [ok |-> one.ok, stopped |-> ~one.ok, devs |-> one.devs]
  PROVE  /\ new \in Loads /\ Good(new.devs, last) /\ LoadedKept(at.devs, new.devs)
         /\ at.stopped => new = at
         /\ ~at.stopped /\ new.ok => Carries(new.devs, en)
         /\ ~at.stopped /\ en.device # AllDevices => (new.stopped <=> ~new.ok)
         /\ ~at.stopped /\ en.device = AllDevices => ~new.stopped
<1> DEFINE all == LoadAllDevices(at.devs, en.xclbin, drv)
           one == DeviceLoadXclbin(at.devs, en.device, en.xclbin, drv)
<1>0. /\ at.devs \in [Devices -> DeviceType]
      /\ en.device \in DeviceNames /\ en.xclbin \in Xclbins
  BY DEF Loads, Entries
<1>1. CASE at.stopped
  BY <1>1 DEF LoadedKept
<1>2. CASE ~at.stopped /\ en.device = AllDevices
  <2>1. /\ all \in Outcomes /\ Good(all.devs, last) /\ LoadedKept(at.devs, all.devs)
        /\ all.ok => \A d \in Devices : all.devs[d].xclbin = en.xclbin
    BY <1>0, LoadAllGood
  <2>2. new = [ok |-> all.ok, stopped |-> FALSE, devs |-> all.devs]
    BY <1>2
  <2> HIDE DEF all
  <2>3. all.ok \in BOOLEAN /\ all.devs \in [Devices -> DeviceType]
    BY <2>1 DEF Outcomes
  <2>4. new \in Loads /\ new.devs = all.devs /\ (new.ok <=> all.ok) /\ ~new.stopped
    <3> DEFINE no == FALSE
               ok == all.ok
               ds == all.devs
    <3>1. new = [ok |-> ok, stopped |-> no, devs |-> ds] /\ no \in BOOLEAN /\ ~no
          /\ ok \in BOOLEAN /\ ds \in [Devices -> DeviceType]
      BY <2>2, <2>3
    <3> HIDE DEF no, ok, ds
    <3>2. new \in Loads /\ new.devs = ds /\ (new.ok <=> ok) /\ (new.stopped <=> no)
      BY <3>1, LoadsAre
    <3> QED BY <3>1, <3>2 DEF ok, ds
  <2>5. new.ok => Carries(new.devs, en)
    BY <1>2, <2>1, <2>4 DEF Carries, DevicesNamed
  <2> QED BY <1>2, <2>1, <2>4, <2>5
<1>3. CASE ~at.stopped /\ en.device # AllDevices
  <2>1. /\ one \in Outcomes /\ Good(one.devs, last) /\ LoadedKept(at.devs, one.devs)
        /\ one.ok => en.device \in Devices /\ one.devs[en.device].xclbin = en.xclbin
    BY <1>0, LoadOne
  <2>2. new = [ok |-> one.ok, stopped |-> ~one.ok, devs |-> one.devs]
    BY <1>3
  <2> HIDE DEF one
  <2>3. one.ok \in BOOLEAN /\ one.devs \in [Devices -> DeviceType]
    BY <2>1 DEF Outcomes
  <2>4. new \in Loads /\ new.devs = one.devs /\ (new.ok <=> one.ok) /\ (new.stopped <=> ~one.ok)
    <3>1. CASE one.ok = TRUE
      <4>1. new = [ok |-> TRUE, stopped |-> FALSE, devs |-> one.devs]
        BY <2>2, <3>1
      <4> QED BY <2>3, <3>1, <4>1, LoadsAre
    <3>2. CASE one.ok = FALSE
      <4>1. new = [ok |-> FALSE, stopped |-> TRUE, devs |-> one.devs]
        BY <2>2, <3>2
      <4> QED BY <2>3, <3>2, <4>1, LoadsAre
    <3> QED BY <2>3, <3>1, <3>2
  <2>5. new.ok => Carries(new.devs, en)
    BY <1>3, <2>1, <2>4 DEF Carries, DevicesNamed
  <2> QED BY <1>3, <2>1, <2>4, <2>5
<1> QED BY <1>1, <1>2, <1>3

LEMMA LoadDevicesGood ==
  ASSUME NEW devs \in [Devices -> DeviceType], NEW last \in Nat, Good(devs, last),
         NEW seq \in Seq(Entries), seq # <<>>, NEW drv \in Drivers,
         NEW r, r = LoadDevices(devs, seq, drv)
  PROVE  /\ r \in Loads /\ Good(r.devs, last) /\ LoadedKept(devs, r.devs)
         /\ r.ok /\ (\A i \in 1 .. Len(seq) - 1 : seq[i].device # AllDevices) =>
                \A i \in DOMAIN seq : Carries(r.devs, seq[i])
<1> DEFINE allLast == \A i \in 1 .. Len(seq) - 1 : seq[i].device # AllDevices
           n == Len(seq)
           base == [ok |-> FALSE, stopped |-> FALSE, devs |-> devs]
           op(at, d) == LET all == LoadAllDevices(at.devs, d.xclbin, drv)
                             one == DeviceLoadXclbin(at.devs, d.device, d.xclbin, drv)
                         IN  IF at.stopped THEN at
                             ELSE IF d.device = AllDevices
                             THEN [ok |-> all.ok, stopped |-> FALSE, devs |-> all.devs]
                             ELSE [ok |-> one.ok, stopped |-> ~one.ok, devs |-> one.devs]
           IsRun(h) == h = [s \in SUBSET (1 .. n) |-> IF s = {} THEN base
                                                      ELSE op(h[s \ {Max(s)}], seq[Max(s)])]
           Kept == [s \in SUBSET (1 .. n) |->
                      {at \in Loads :
                         /\ Good(at.devs, last) /\ LoadedKept(devs, at.devs)
                         /\ at.stopped => ~at.ok
                         /\ allLast /\ ~at.stopped => \A i \in s \ {n} : Carries(at.devs, seq[i])
                         /\ allLast /\ at.ok => \A i \in s : Carries(at.devs, seq[i])}]
           step == [s \in Parts(n) |-> [at \in Kept[Rest(s)] |-> op(at, seq[Max(s)])]]
           run == CHOOSE h : IsRun(h)
<1>0. n \in Nat /\ DOMAIN seq = 1 .. n /\ \A i \in 1 .. n : seq[i] \in Entries
  OBVIOUS
<1>a. ASSUME allLast, NEW i \in 1 .. n, seq[i].device = AllDevices
      PROVE  i = n
  BY <1>a
<1> HIDE DEF n, allLast
<1>1. \A s \in Parts(n) : Max(s) \in 1 .. n /\ Rest(s) \in SUBSET (1 .. n) /\ s \in SUBSET (1 .. n)
  BY <1>0, MaxOf, RestOf
<1>2. ASSUME NEW s \in Parts(n), NEW at \in Kept[Rest(s)]
      PROVE  op(at, seq[Max(s)]) \in Kept[s]
  <2> DEFINE en == seq[Max(s)]
             new == op(at, en)
  <2>1. /\ at \in Loads /\ Good(at.devs, last) /\ LoadedKept(devs, at.devs)
        /\ at.stopped => ~at.ok
        /\ allLast /\ ~at.stopped => \A i \in Rest(s) \ {n} : Carries(at.devs, seq[i])
    BY <1>1
  <2>2. en \in Entries
    BY <1>0, <1>1
  <2>3. /\ new \in Loads /\ Good(new.devs, last) /\ LoadedKept(at.devs, new.devs)
        /\ at.stopped => new = at
        /\ ~at.stopped /\ new.ok => Carries(new.devs, en)
        /\ ~at.stopped /\ en.device # AllDevices => (new.stopped <=> ~new.ok)
        /\ ~at.stopped /\ en.device = AllDevices => ~new.stopped
    BY <2>1, <2>2, EntryGood
  <2> HIDE DEF new
  <2>4. LoadedKept(devs, new.devs)
    BY <2>1, <2>3, LoadedKeptOn
  <2>5. \A i \in s : i = Max(s) \/ i \in Rest(s) \ {n}
    <3>1. Max(s) \in 1 .. n /\ \A i \in s : i <= Max(s)
      BY <1>0, MaxOf
    <3>2. \A i \in s : i \in 1 .. n
      BY <1>1
    <3>3. ASSUME NEW i \in s, i # Max(s) PROVE i # n
      BY <1>0, <3>1, <3>2, <3>3
    <3> QED BY <3>3 DEF Rest
  <2>6. CASE at.stopped
    BY <1>1, <2>1, <2>3, <2>6 DEF new
  <2>7. CASE ~at.stopped
    <3>1. new.stopped => ~new.ok
      BY <2>3, <2>7
    <3>2. ASSUME allLast, NEW i \in Rest(s) \ {n} PROVE Carries(new.devs, seq[i])
      <4>1. seq[i] \in Entries /\ Carries(at.devs, seq[i])
        BY <1>0, <1>1, <2>1, <2>7, <3>2
      <4> QED BY <2>3, <4>1, CarriesOn
    <3>3. ASSUME allLast, new.ok \/ ~new.stopped, NEW i \in s, i # n \/ new.ok
          PROVE  Carries(new.devs, seq[i])
      <4>1. CASE i \in Rest(s) \ {n}
        BY <3>2, <3>3, <4>1
      <4>2. CASE i = Max(s)
        <5>1. en.device = AllDevices => i = n
          BY <1>1, <1>a, <3>3, <4>2
        <5>2. new.ok
          BY <2>3, <2>7, <3>3, <5>1
        <5> QED BY <2>3, <2>7, <4>2, <5>2
      <4> QED BY <2>5, <4>1, <4>2
    <3>4. new \in Kept[s]
      BY <1>1, <2>3, <2>4, <3>1, <3>3
    <3> QED BY <3>4 DEF new
  <2> QED BY <2>6, <2>7
<1>3. base \in Kept[{}]
  <2> DEFINE no == FALSE
  <2>1. base = [ok |-> no, stopped |-> no, devs |-> devs] /\ no \in BOOLEAN /\ ~no
    OBVIOUS
  <2> HIDE DEF base, no
  <2>2. base \in Loads /\ base.devs = devs /\ (base.ok <=> no) /\ (base.stopped <=> no)
    BY <2>1, LoadsAre
  <2> QED BY <2>1, <2>2 DEF LoadedKept
<1> HIDE DEF op, base
<1>4. PICK h : IsFold(h, n, base, step) /\ Within(h, n, Kept)
  <2>1. Keeping(n, Kept, step)
    BY <1>1, <1>2 DEF Keeping
  <2> HIDE DEF step, Kept
  <2> QED BY <1>0, <1>3, <2>1, FoldExists
<1>5. IsRun(run)
  <2>1. \A s \in Parts(n) : step[s][h[Rest(s)]] = op(h[Rest(s)], seq[Max(s)])
    BY <1>1, <1>4 DEF Within
  <2> HIDE DEF step, Kept
  <2>2. IsRun(h)
    BY <1>4, <2>1 DEF IsFold, Rest, Parts
  <2> HIDE DEF IsRun
  <2> QED BY <2>2
<1>6. r = run[1 .. n]
  BY <1>0 DEF LoadDevices, FoldLeft, MapThenFoldSet, op, base
<1>7. run[1 .. n] \in Kept[1 .. n]
  <2>1. run[{}] = base /\ \A s \in Parts(n) : run[s] = op(run[Rest(s)], seq[Max(s)])
    BY <1>1, <1>5 DEF Parts, Rest
  <2> HIDE DEF run, Kept
  <2>2. \A s \in Parts(n) : run[Rest(s)] \in Kept[Rest(s)] => run[s] \in Kept[s]
    BY <1>2, <2>1
  <2>3. run[{}] \in Kept[{}] /\ n \in Nat
    BY <1>0, <1>3, <2>1
  <2> QED BY <2>2, <2>3, FoldKeeps
<1> HIDE DEF run
<1>8. /\ r \in Loads /\ Good(r.devs, last) /\ LoadedKept(devs, r.devs)
      /\ allLast /\ r.ok => \A i \in 1 .. n : Carries(r.devs, seq[i])
  BY <1>6, <1>7
<1> QED BY <1>0, <1>8 DEF allLast

UnloadEach(devs, seq, drv) == UpToFailure(LAMBDA ds, d : UnloadOneDevice(ds, d, drv), devs, seq)

LEMMA UnloadEachGood ==
  ASSUME NEW devs \in [Devices -> DeviceType], NEW last \in Nat, Good(devs, last),
         NEW seq \in Seq(DeviceNames), NEW drv \in Drivers,
         NEW r, r = UnloadEach(devs, seq, drv)
  PROVE  /\ r \in Outcomes /\ Good(r.devs, last) /\ Spared(devs, r.devs)
         /\ r.ok => \A i \in DOMAIN seq : seq[i] \in Devices /\ Idle(r.devs[seq[i]])
<1> DEFINE n == Len(seq)
           base == Outcome(TRUE, devs)
           op(at, d) == IF at.ok THEN UnloadOneDevice(at.devs, d, drv) ELSE at
           IsRun(h) == h = [s \in SUBSET (1 .. n) |-> IF s = {} THEN base
                                                      ELSE op(h[s \ {Max(s)}], seq[Max(s)])]
           Kept == [s \in SUBSET (1 .. n) |->
                      {at \in Outcomes :
                         /\ Good(at.devs, last) /\ Spared(devs, at.devs)
                         /\ at.ok => \A i \in s : seq[i] \in Devices /\ Idle(at.devs[seq[i]])}]
           step == [s \in Parts(n) |-> [at \in Kept[Rest(s)] |-> op(at, seq[Max(s)])]]
           run == CHOOSE h : IsRun(h)
<1>0. n \in Nat /\ DOMAIN seq = 1 .. n /\ \A i \in 1 .. n : seq[i] \in DeviceNames
  OBVIOUS
<1> HIDE DEF n
<1>1. \A s \in Parts(n) : Max(s) \in 1 .. n /\ Rest(s) \in SUBSET (1 .. n) /\ s \in SUBSET (1 .. n)
  BY <1>0, MaxOf, RestOf
<1>2. ASSUME NEW s \in Parts(n), NEW at \in Kept[Rest(s)]
      PROVE  op(at, seq[Max(s)]) \in Kept[s]
  <2> DEFINE d == seq[Max(s)]
             new == op(at, d)
  <2>1. /\ at \in Outcomes /\ Good(at.devs, last) /\ Spared(devs, at.devs)
        /\ at.ok => \A i \in Rest(s) : seq[i] \in Devices /\ Idle(at.devs[seq[i]])
    BY <1>1
  <2>2. d \in DeviceNames
    BY <1>0, <1>1
  <2>3. CASE ~at.ok
    BY <1>1, <2>1, <2>3
  <2>4. CASE at.ok
    <3>1. /\ new \in Outcomes /\ Good(new.devs, last) /\ Spared(at.devs, new.devs)
          /\ new.ok => d \in Devices /\ Idle(new.devs[d])
          /\ \A e \in Devices : Idle(at.devs[e]) => Idle(new.devs[e])
      <4>1. new = UnloadOneDevice(at.devs, d, drv) /\ at.devs \in [Devices -> DeviceType]
        BY <2>1, <2>4 DEF Outcomes
      <4> QED BY <2>1, <2>2, <4>1, UnloadOne
    <3> HIDE DEF new
    <3>2. Spared(devs, new.devs)
      BY <2>1, <3>1, SparedOn
    <3>3. ASSUME new.ok, NEW i \in s PROVE seq[i] \in Devices /\ Idle(new.devs[seq[i]])
      <4>1. i = Max(s) \/ i \in Rest(s)
        BY DEF Rest
      <4> QED BY <2>1, <2>4, <3>1, <3>3, <4>1
    <3>4. new \in Kept[s]
      BY <1>1, <3>1, <3>2, <3>3
    <3> QED BY <3>4 DEF new
  <2> QED BY <2>3, <2>4
<1>3. base \in Kept[{}]
  BY OutcomeIs DEF Spared, Spares
<1> HIDE DEF op, base
<1>4. PICK h : IsFold(h, n, base, step) /\ Within(h, n, Kept)
  <2>1. Keeping(n, Kept, step)
    BY <1>1, <1>2 DEF Keeping
  <2> HIDE DEF step, Kept
  <2> QED BY <1>0, <1>3, <2>1, FoldExists
<1>5. IsRun(run)
  <2>1. \A s \in Parts(n) : step[s][h[Rest(s)]] = op(h[Rest(s)], seq[Max(s)])
    BY <1>1, <1>4 DEF Within
  <2> HIDE DEF step, Kept
  <2>2. IsRun(h)
    BY <1>4, <2>1 DEF IsFold, Rest, Parts
  <2> HIDE DEF IsRun
  <2> QED BY <2>2
<1>6. r = run[1 .. n]
  BY <1>0 DEF UnloadEach, UpToFailure, FoldLeft, MapThenFoldSet, op, base
<1>7. run[1 .. n] \in Kept[1 .. n]
  <2>1. run[{}] = base /\ \A s \in Parts(n) : run[s] = op(run[Rest(s)], seq[Max(s)])
    BY <1>1, <1>5 DEF Parts, Rest
  <2> HIDE DEF run, Kept
  <2>2. \A s \in Parts(n) : run[Rest(s)] \in Kept[Rest(s)] => run[s] \in Kept[s]
    BY <1>2, <2>1
  <2>3. run[{}] \in Kept[{}] /\ n \in Nat
    BY <1>0, <1>3, <2>1
  <2> QED BY <2>2, <2>3, FoldKeeps
<1> HIDE DEF run
<1>8. /\ r \in Outcomes /\ Good(r.devs, last) /\ Spared(devs, r.devs)
      /\ r.ok => \A i \in 1 .. n : seq[i] \in Devices /\ Idle(r.devs[seq[i]])
  BY <1>6, <1>7
<1> QED BY <1>0, <1>8

LEMMA DisableDevicesGood ==
  ASSUME NEW devs \in [Devices -> DeviceType], NEW last \in Nat, Good(devs, last),
         NEW seq \in Seq(DeviceNames), NEW drv \in Drivers,
         NEW r, r = DisableDevices(devs, seq, drv)
  PROVE  /\ r \in Outcomes /\ Good(r.devs, last) /\ Spared(devs, r.devs)
         /\ r.ok => \A i \in DOMAIN seq : seq[i] \in Devices /\ Out(r.devs[seq[i]])
<1> DEFINE n == Len(seq)
           base == Outcome(TRUE, devs)
           op(at, d) == IF at.ok THEN DisableOneDevice(at.devs, d, drv) ELSE at
           IsRun(h) == h = [s \in SUBSET (1 .. n) |-> IF s = {} THEN base
                                                      ELSE op(h[s \ {Max(s)}], seq[Max(s)])]
           Kept == [s \in SUBSET (1 .. n) |->
                      {at \in Outcomes :
                         /\ Good(at.devs, last) /\ Spared(devs, at.devs)
                         /\ at.ok => \A i \in s : seq[i] \in Devices /\ Out(at.devs[seq[i]])}]
           step == [s \in Parts(n) |-> [at \in Kept[Rest(s)] |-> op(at, seq[Max(s)])]]
           run == CHOOSE h : IsRun(h)
<1>0. n \in Nat /\ DOMAIN seq = 1 .. n /\ \A i \in 1 .. n : seq[i] \in DeviceNames
  OBVIOUS
<1> HIDE DEF n
<1>1. \A s \in Parts(n) : Max(s) \in 1 .. n /\ Rest(s) \in SUBSET (1 .. n) /\ s \in SUBSET (1 .. n)
  BY <1>0, MaxOf, RestOf
<1>2. ASSUME NEW s \in Parts(n), NEW at \in Kept[Rest(s)]
      PROVE  op(at, seq[Max(s)]) \in Kept[s]
  <2> DEFINE d == seq[Max(s)]
             new == op(at, d)
  <2>1. /\ at \in Outcomes /\ Good(at.devs, last) /\ Spared(devs, at.devs)
        /\ at.ok => \A i \in Rest(s) : seq[i] \in Devices /\ Out(at.devs[seq[i]])
    BY <1>1
  <2>2. d \in DeviceNames
    BY <1>0, <1>1
  <2>3. CASE ~at.ok
    BY <1>1, <2>1, <2>3
  <2>4. CASE at.ok
    <3>1. /\ new \in Outcomes /\ Good(new.devs, last) /\ Spared(at.devs, new.devs)
          /\ new.ok => d \in Devices /\ Out(new.devs[d])
          /\ \A e \in Devices : Out(at.devs[e]) => Out(new.devs[e])
      <4>1. new = DisableOneDevice(at.devs, d, drv) /\ at.devs \in [Devices -> DeviceType]
        BY <2>1, <2>4 DEF Outcomes
      <4> QED BY <2>1, <2>2, <4>1, DisableOne
    <3> HIDE DEF new
    <3>2. Spared(devs, new.devs)
      BY <2>1, <3>1, SparedOn
    <3>3. ASSUME new.ok, NEW i \in s PROVE seq[i] \in Devices /\ Out(new.devs[seq[i]])
      <4>1. i = Max(s) \/ i \in Rest(s)
        BY DEF Rest
      <4> QED BY <2>1, <2>4, <3>1, <3>3, <4>1
    <3>4. new \in Kept[s]
      BY <1>1, <3>1, <3>2, <3>3
    <3> QED BY <3>4 DEF new
  <2> QED BY <2>3, <2>4
<1>3. base \in Kept[{}]
  BY OutcomeIs DEF Spared, Spares
<1> HIDE DEF op, base
<1>4. PICK h : IsFold(h, n, base, step) /\ Within(h, n, Kept)
  <2>1. Keeping(n, Kept, step)
    BY <1>1, <1>2 DEF Keeping
  <2> HIDE DEF step, Kept
  <2> QED BY <1>0, <1>3, <2>1, FoldExists
<1>5. IsRun(run)
  <2>1. \A s \in Parts(n) : step[s][h[Rest(s)]] = op(h[Rest(s)], seq[Max(s)])
    BY <1>1, <1>4 DEF Within
  <2> HIDE DEF step, Kept
  <2>2. IsRun(h)
    BY <1>4, <2>1 DEF IsFold, Rest, Parts
  <2> HIDE DEF IsRun
  <2> QED BY <2>2
<1>6. r = run[1 .. n]
  BY <1>0 DEF DisableDevices, UpToFailure, FoldLeft, MapThenFoldSet, op, base
<1>7. run[1 .. n] \in Kept[1 .. n]
  <2>1. run[{}] = base /\ \A s \in Parts(n) : run[s] = op(run[Rest(s)], seq[Max(s)])
    BY <1>1, <1>5 DEF Parts, Rest
  <2> HIDE DEF run, Kept
  <2>2. \A s \in Parts(n) : run[Rest(s)] \in Kept[Rest(s)] => run[s] \in Kept[s]
    BY <1>2, <2>1
  <2>3. run[{}] \in Kept[{}] /\ n \in Nat
    BY <1>0, <1>3, <2>1
  <2> QED BY <2>2, <2>3, FoldKeeps
<1> HIDE DEF run
<1>8. /\ r \in Outcomes /\ Good(r.devs, last) /\ Spared(devs, r.devs)
      /\ r.ok => \A i \in 1 .. n : seq[i] \in Devices /\ Out(r.devs[seq[i]])
  BY <1>6, <1>7
<1> QED BY <1>0, <1>8

LEMMA EnableDevicesGood ==
  ASSUME NEW devs \in [Devices -> DeviceType], NEW last \in Nat, Good(devs, last),
         NEW seq \in Seq(DeviceNames),
         NEW r, r = EnableDevices(devs, seq)
  PROVE  r \in Outcomes /\ Good(r.devs, last) /\ Spared(devs, r.devs)
<1> DEFINE n == Len(seq)
           base == Outcome(TRUE, devs)
           op(at, d) == IF at.ok THEN EnableOneDevice(at.devs, d) ELSE at
           IsRun(h) == h = [s \in SUBSET (1 .. n) |-> IF s = {} THEN base
                                                      ELSE op(h[s \ {Max(s)}], seq[Max(s)])]
           Kept == [s \in SUBSET (1 .. n) |->
                      {at \in Outcomes :
                         /\ Good(at.devs, last) /\ Spared(devs, at.devs)}]
           step == [s \in Parts(n) |-> [at \in Kept[Rest(s)] |-> op(at, seq[Max(s)])]]
           run == CHOOSE h : IsRun(h)
<1>0. n \in Nat /\ DOMAIN seq = 1 .. n /\ \A i \in 1 .. n : seq[i] \in DeviceNames
  OBVIOUS
<1> HIDE DEF n
<1>1. \A s \in Parts(n) : Max(s) \in 1 .. n /\ Rest(s) \in SUBSET (1 .. n) /\ s \in SUBSET (1 .. n)
  BY <1>0, MaxOf, RestOf
<1>2. ASSUME NEW s \in Parts(n), NEW at \in Kept[Rest(s)]
      PROVE  op(at, seq[Max(s)]) \in Kept[s]
  <2> DEFINE d == seq[Max(s)]
             new == op(at, d)
  <2>1. /\ at \in Outcomes /\ Good(at.devs, last) /\ Spared(devs, at.devs)
    BY <1>1
  <2>2. d \in DeviceNames
    BY <1>0, <1>1
  <2>3. CASE ~at.ok
    BY <1>1, <2>1, <2>3
  <2>4. CASE at.ok
    <3>1. /\ new \in Outcomes /\ Good(new.devs, last) /\ Spared(at.devs, new.devs)
      <4>1. new = EnableOneDevice(at.devs, d) /\ at.devs \in [Devices -> DeviceType]
        BY <2>1, <2>4 DEF Outcomes
      <4> QED BY <2>1, <2>2, <4>1, EnableOne
    <3> HIDE DEF new
    <3>2. Spared(devs, new.devs)
      BY <2>1, <3>1, SparedOn
    <3>4. new \in Kept[s]
      BY <1>1, <3>1, <3>2
    <3> QED BY <3>4 DEF new
  <2> QED BY <2>3, <2>4
<1>3. base \in Kept[{}]
  BY OutcomeIs DEF Spared, Spares
<1> HIDE DEF op, base
<1>4. PICK h : IsFold(h, n, base, step) /\ Within(h, n, Kept)
  <2>1. Keeping(n, Kept, step)
    BY <1>1, <1>2 DEF Keeping
  <2> HIDE DEF step, Kept
  <2> QED BY <1>0, <1>3, <2>1, FoldExists
<1>5. IsRun(run)
  <2>1. \A s \in Parts(n) : step[s][h[Rest(s)]] = op(h[Rest(s)], seq[Max(s)])
    BY <1>1, <1>4 DEF Within
  <2> HIDE DEF step, Kept
  <2>2. IsRun(h)
    BY <1>4, <2>1 DEF IsFold, Rest, Parts
  <2> HIDE DEF IsRun
  <2> QED BY <2>2
<1>6. r = run[1 .. n]
  BY <1>0 DEF EnableDevices, UpToFailure, FoldLeft, MapThenFoldSet, op, base
<1>7. run[1 .. n] \in Kept[1 .. n]
  <2>1. run[{}] = base /\ \A s \in Parts(n) : run[s] = op(run[Rest(s)], seq[Max(s)])
    BY <1>1, <1>5 DEF Parts, Rest
  <2> HIDE DEF run, Kept
  <2>2. \A s \in Parts(n) : run[Rest(s)] \in Kept[Rest(s)] => run[s] \in Kept[s]
    BY <1>2, <2>1
  <2>3. run[{}] \in Kept[{}] /\ n \in Nat
    BY <1>0, <1>3, <2>1
  <2> QED BY <2>2, <2>3, FoldKeeps
<1> HIDE DEF run
<1>8. /\ r \in Outcomes /\ Good(r.devs, last) /\ Spared(devs, r.devs)
  BY <1>6, <1>7
<1> QED BY <1>0, <1>8

LEMMA JoinedAt ==
  ASSUME NEW X, NEW f \in Seq(X), NEW g \in Seq(X), NEW j \in 1 .. Len(g)
  PROVE  Len(f) + j \in DOMAIN (f \o g) /\ (f \o g)[Len(f) + j] = g[j]
OBVIOUS

(* The devices an unload command comes to: those before the entry for all  *)
(* devices, and then all; nothing behind that entry.                       *)
LEMMA UnloadDevicesGood ==
  ASSUME NEW devs \in [Devices -> DeviceType], NEW last \in Nat, Good(devs, last),
         NEW seq \in Seq(DeviceNames), NEW drv \in Drivers,
         NEW r, r = UnloadDevices(devs, seq, drv)
  PROVE  /\ r \in Outcomes /\ Good(r.devs, last) /\ Spared(devs, r.devs)
         /\ r.ok => \A i \in DOMAIN seq :
                (\A j \in 1 .. i - 1 : seq[j] # AllDevices) =>
                    \A d \in DevicesNamed(seq[i]) : d \in Devices /\ Idle(r.devs[d])
<1> DEFINE I == {i \in 1 .. Len(seq) : seq[i] = AllDevices}
           named == SelectInSeq(seq, LAMBDA d : d = AllDevices)
           front == SubSeq(seq, 1, named - 1)
           q == IF named = 0 THEN seq ELSE front \o DevicesInOrder
<1>1. named = IF I # {} THEN Min(I) ELSE 0
  BY DEF SelectInSeq
<1>2. I # {} => Min(I) \in I /\ \A i \in I : Min(I) <= i
  <2>1. I \in SUBSET Nat
    OBVIOUS
  <2> HIDE DEF I
  <2> SUFFICES ASSUME I # {} PROVE Min(I) \in I /\ \A i \in I : Min(I) <= i
    OBVIOUS
  <2>2. \E i \in I : \A j \in I : i <= j
    BY <2>1, LeastElement
  <2> QED BY <2>2 DEF Min
<1>3. r = UnloadEach(devs, q, drv)
  BY DEF UnloadDevices, UnloadEach, UpToFailure
<1>4. /\ named = 0 => \A i \in 1 .. Len(seq) : seq[i] # AllDevices
      /\ named # 0 => /\ named \in 1 .. Len(seq) /\ seq[named] = AllDevices
                      /\ \A i \in 1 .. Len(seq) : i < named => seq[i] # AllDevices
  <2>1. named # 0 => I # {}
    BY <1>1
  <2>2. named = 0 => I = {}
    BY <1>1, <1>2
  <2>3. named # 0 => named \in I /\ \A i \in I : named <= i
    BY <1>1, <1>2, <2>1
  <2> HIDE DEF named
  <2>4. ASSUME named # 0, NEW i \in 1 .. Len(seq), i < named PROVE seq[i] # AllDevices
    <3>1. i \notin I
      BY <2>3, <2>4
    <3> QED BY <3>1
  <2> QED BY <2>2, <2>3, <2>4
<1> HIDE DEF named
<1>5. /\ DevicesInOrder \in Seq(DeviceNames)
      /\ Len(DevicesInOrder) = NumDevices /\ NumDevices \in Nat
      /\ \A d \in Devices : d + 1 \in 1 .. NumDevices /\ DevicesInOrder[d + 1] = d
  BY SystemAssumption DEF DevicesInOrder, DeviceNames, Devices
<1>6. named # 0 => /\ front \in Seq(DeviceNames) /\ Len(front) = named - 1
                   /\ \A i \in 1 .. named - 1 : front[i] = seq[i]
  BY <1>4
<1> HIDE DEF front
<1>7. q \in Seq(DeviceNames)
  BY <1>5, <1>6
<1>8. /\ r \in Outcomes /\ Good(r.devs, last) /\ Spared(devs, r.devs)
      /\ r.ok => \A i \in DOMAIN q : q[i] \in Devices /\ Idle(r.devs[q[i]])
  <2> HIDE DEF q
  <2> QED BY <1>3, <1>7, UnloadEachGood
<1>9. ASSUME r.ok, NEW i \in DOMAIN seq, \A j \in 1 .. i - 1 : seq[j] # AllDevices,
             NEW d \in DevicesNamed(seq[i])
      PROVE  d \in Devices /\ Idle(r.devs[d])
  <2>1. i \in 1 .. Len(seq)
    OBVIOUS
  <2>2. CASE named = 0
    <3>1. q = seq /\ d = seq[i]
      BY <1>4, <1>9, <2>1, <2>2 DEF DevicesNamed
    <3> HIDE DEF q
    <3> QED BY <1>8, <1>9, <3>1
  <2>3. CASE named # 0
    <3>0. q = front \o DevicesInOrder /\ named \in Nat /\ named <= Len(seq)
      BY <1>4, <2>3
    <3>1. i <= named
      BY <1>4, <1>9, <2>1, <2>3
    <3>2. CASE i < named
      <4>1. seq[i] # AllDevices /\ d = seq[i]
        BY <1>4, <2>1, <2>3, <3>2 DEF DevicesNamed
      <4>2. i \in 1 .. named - 1
        BY <2>1, <3>0, <3>2
      <4>3. i \in DOMAIN q /\ q[i] = seq[i]
        BY <1>5, <1>6, <2>3, <3>0, <4>2
      <4> HIDE DEF q
      <4> QED BY <1>8, <1>9, <4>1, <4>3
    <3>3. CASE i = named
      <4>1. d \in Devices
        BY <1>4, <2>3, <3>3 DEF DevicesNamed
      <4>2. named + d \in DOMAIN q /\ q[named + d] = d
        <5>1. d + 1 \in 1 .. NumDevices /\ DevicesInOrder[d + 1] = d /\ d \in Nat
          BY <1>5, <4>1 DEF Devices
        <5>2. named + d = Len(front) + (d + 1)
          <6>1. named \in Nat /\ d \in Nat /\ Len(front) = named - 1
            BY <1>6, <2>3, <3>0, <5>1
          <6> HIDE DEF q
          <6> QED BY <6>1
        <5> HIDE DEF q
        <5>3. q = front \o DevicesInOrder
          BY <3>0
        <5>4. /\ Len(front) + (d + 1) \in DOMAIN q
              /\ q[Len(front) + (d + 1)] = DevicesInOrder[d + 1]
          BY <1>5, <1>6, <2>3, <5>1, <5>3, JoinedAt
        <5> QED BY <5>1, <5>2, <5>4
      <4> HIDE DEF q
      <4> QED BY <1>8, <1>9, <4>1, <4>2
    <3> QED BY <2>1, <3>0, <3>1, <3>2, <3>3
  <2> QED BY <2>2, <2>3
<1> QED BY <1>8, <1>9

----------------------------------------------------------------------------
(* LoadAnyFinds, of a list of devices. *)
LEMMA LoadAnyRight ==
  ASSUME NEW devs, NEW last \in Nat, Good(devs, last), NEW x \in Xclbins, NEW drv \in Drivers
  PROVE  LET end == LoadAny(devs, x, drv)
             could == {d \in GoodOf(drv) :
                         /\ ~devs[d].isDisabled
                         /\ devs[d].open \/ d \in drv.opens
                         /\ IsLoaded(devs[d]) => ~IsDeviceBusy(devs[d]) /\ d \in drv.unlocks}
             onlyUnloaded(D) == \A d \in D : end.devs[d] = devs[d] \/ ~IsLoaded(end.devs[d])
         IN  /\ \A d \in Devices : IsDeviceBusy(devs[d]) => end.devs[d] = devs[d]
             /\ \A d \in Devices : OutIsClear(end.devs[d])
             /\ IF end.ok
                THEN \E d \in could : end.devs[d].xclbin = x /\ onlyUnloaded(Devices \ {d})
                ELSE could = {} /\ onlyUnloaded(Devices)
<1> DEFINE good == GoodOf(drv)
           unlocks == drv.unlocks
           opens == drv.opens
           free == FreeDevices(devs)
           idle == IdleDevices(devs, unlocks)
           pass == LoadPass(devs, good, unlocks, opens)
           target == LoadTarget(devs, good, unlocks, opens)
           new == LoadedAny(devs, x, good, unlocks, opens)
           loads(d) == d \in good /\ ~devs[d].isDisabled /\ (devs[d].open \/ d \in opens)
           could == {d \in good : /\ ~devs[d].isDisabled
                                  /\ devs[d].open \/ d \in opens
                                  /\ IsLoaded(devs[d]) => ~IsDeviceBusy(devs[d]) /\ d \in unlocks}
           tried == {d \in pass : \A t \in target : d < t}
                      \cup (IF target \subseteq free THEN {} ELSE free)
           missed(d) == Opened(DeviceClearInfo(devs[d]), ~devs[d].isDisabled /\ d \in opens)
           hit(d) == LoadedWith(IF target \subseteq free THEN devs[d] ELSE DeviceClearInfo(devs[d]), x)
<1>0. good \in SUBSET Devices /\ unlocks \in SUBSET Devices /\ opens \in SUBSET Devices
  BY AdminAssumption DEF GoodOf
<1>1. \A d \in Devices : InOrder(devs[d]) /\ DeviceRight(devs[d], last) /\ OutIsClear(devs[d])
  BY DEF Good, AllInOrder, AllRight
<1>2. /\ free \in SUBSET Devices /\ idle \in SUBSET Devices
      /\ \A d \in Devices : d \in free <=> ~IsLoaded(devs[d])
      /\ \A d \in Devices : d \in idle <=> ~IsDeviceBusy(devs[d]) /\ (d \in free \/ d \in unlocks)
  BY DEF FreeDevices, IdleDevices
<1>3. free \subseteq idle
  BY <1>2, BusyIsLoaded
<1>4. pass = free \/ pass = idle
  BY DEF LoadPass
<1>5. /\ target \subseteq pass
      /\ \A d \in target : loads(d) /\ \A e \in pass : loads(e) => d <= e
      /\ (\E d \in pass : loads(d)) => target # {}
  <2>1. target = {d \in pass : loads(d) /\ \A e \in pass : loads(e) => d <= e}
    BY DEF LoadTarget, FirstLoadable
  <2>2. ASSUME \E d \in pass : loads(d) PROVE target # {}
    <3> DEFINE L == {d \in pass : loads(d)}
    <3>1. L # {} /\ L \in SUBSET Nat
      BY <1>2, <1>4, <2>2 DEF Devices
    <3> HIDE DEF L
    <3>2. \E d \in L : \A e \in L : d <= e
      BY <3>1, LeastElement
    <3> HIDE DEF target, pass
    <3> QED BY <2>1, <3>2 DEF L
  <2> HIDE DEF target, pass
  <2> QED BY <2>1, <2>2
<1>6. target = {} => \A d \in could : FALSE
  <2>1. ASSUME target = {}, NEW d \in could PROVE FALSE
    <3>1. loads(d) /\ d \in Devices /\ d \in idle
      BY <1>0, <1>2, <1>3, <2>1
    <3>2. pass = idle
      <4>1. CASE FirstLoadable(devs, free, good, opens) # {}
        BY <2>1, <4>1 DEF LoadTarget, LoadPass
      <4>2. CASE FirstLoadable(devs, free, good, opens) = {}
        BY <4>2 DEF LoadPass
      <4> QED BY <4>1, <4>2
    <3> HIDE DEF target, pass, idle, could, loads
    <3> QED BY <1>5, <2>1, <3>1, <3>2
  <2> QED BY <2>1
<1>7. \A d \in target : target = {d}
  <2> SUFFICES ASSUME NEW d \in target, NEW e \in target PROVE e = d
    OBVIOUS
  <2>1. d <= e /\ e <= d /\ d \in Nat /\ e \in Nat
    <3> HIDE DEF target, pass, idle, free, loads
    <3>1. d \in pass /\ e \in pass /\ loads(d) /\ loads(e)
      BY <1>5
    <3>2. d <= e /\ e <= d
      BY <1>5, <3>1
    <3>3. d \in Devices /\ e \in Devices
      BY <1>2, <1>4, <3>1
    <3> QED BY <3>2, <3>3, SystemAssumption DEF Devices
  <2> QED BY <2>1
<1>8. new = [d \in Devices |-> IF d \in target THEN hit(d) ELSE IF d \in tried THEN missed(d) ELSE devs[d]]
  BY DEF LoadedAny
<1>9. ASSUME NEW d \in Devices, d \in target \/ d \in tried PROVE ~IsDeviceBusy(devs[d])
  <2> HIDE DEF target, pass, idle, free
  <2> QED BY <1>2, <1>3, <1>4, <1>5, <1>9
<1>10. ASSUME NEW d \in Devices, ~IsDeviceBusy(devs[d])
       PROVE  ~IsLoaded(missed(d)) /\ OutIsClear(missed(d))
  <2> DEFINE b == ~devs[d].isDisabled /\ d \in opens
             clear == DeviceClearInfo(devs[d])
  <2>1. InOrder(clear) /\ DeviceRight(clear, last) /\ OutIsClear(clear) /\ ~IsLoaded(clear)
    BY <1>1, <1>10, ClearGood
  <2>2. b \in BOOLEAN
    OBVIOUS
  <2> HIDE DEF b, clear
  <2>3. OutIsClear(Opened(clear, b)) /\ Opened(clear, b).xclbin = clear.xclbin
    BY <2>1, <2>2, OpenedGood
  <2> QED BY <2>1, <2>3 DEF IsLoaded, b, clear
<1>11. ASSUME NEW d \in target PROVE hit(d).xclbin = x /\ ~hit(d).isDisabled
  <2> DEFINE dev == IF target \subseteq free THEN devs[d] ELSE DeviceClearInfo(devs[d])
  <2>1. d \in Devices /\ ~devs[d].isDisabled
    <3> HIDE DEF target, pass, idle, free
    <3> QED BY <1>2, <1>4, <1>5
  <2>2. InOrder(dev) /\ dev.isDisabled = devs[d].isDisabled
    <3> HIDE DEF target
    <3> QED BY <1>1, <2>1, ClearGood
  <2> HIDE DEF dev
  <2>3. LoadedWith(dev, x).xclbin = x /\ LoadedWith(dev, x).isDisabled = dev.isDisabled
    BY <2>2 DEF LoadedWith, InOrder, DeviceType
  <2> QED BY <2>1, <2>2, <2>3 DEF dev
<1>12. \A d \in target : d \in could /\ d \in Devices
  <2>1. \A d \in target : d \in idle /\ d \in Devices
    <3> HIDE DEF target, pass, idle, free
    <3> QED BY <1>2, <1>3, <1>4, <1>5
  <2> HIDE DEF target, pass, idle, free
  <2> QED BY <1>2, <1>5, <2>1
<1> HIDE DEF hit, missed, tried, target, could, pass, idle, free, loads
<1>13. \A d \in Devices : /\ IsDeviceBusy(devs[d]) => new[d] = devs[d]
                          /\ OutIsClear(new[d])
                          /\ d \notin target => new[d] = devs[d] \/ ~IsLoaded(new[d])
  BY <1>1, <1>8, <1>9, <1>10, <1>11 DEF OutIsClear
<1>14. ASSUME NEW d \in target
       PROVE  /\ d \in could /\ new[d].xclbin = x
              /\ \A e \in Devices \ {d} : new[e] = devs[e] \/ ~IsLoaded(new[e])
  BY <1>7, <1>8, <1>11, <1>12, <1>13
<1>15. /\ LoadAny(devs, x, drv).devs = new
       /\ LoadAny(devs, x, drv).ok <=> target # {}
  BY DEF LoadAny, target
<1> HIDE DEF new
<1>16. could = {} \/ target # {}
  BY <1>6
<1> QED BY <1>13, <1>14, <1>15, <1>16 DEF could

----------------------------------------------------------------------------
(* Every step of clients and administrators.                               *)
LEMMA SparedEvictsNobody ==
  ASSUME NEW devs, NEW last \in Nat, Good(devs, last), NEW new, Spared(devs, new)
  PROVE  \A d \in Devices : NobodyEvicted(devs[d], new[d])
<1> TAKE d \in Devices
<1>1. InOrder(devs[d]) /\ DeviceRight(devs[d], last)
  BY DEF Good, AllInOrder, AllRight
<1>2. CASE IsDeviceBusy(devs[d])
  BY <1>2 DEF Spared, Spares, NobodyEvicted, IsLoaded
<1>3. CASE ~IsDeviceBusy(devs[d])
  BY <1>1, <1>3, IdleDeviceVacant, VacantEvictsNobody
<1> QED BY <1>2, <1>3

(* What a step of the administered system keeps. *)
Kept ==
    /\ Good(devList', reservePoolId') /\ reservePoolId' \in 0 .. MaxPool
    /\ \A d \in Devices : NobodyEvicted(devList[d], devList'[d])

LEMMA CommandKeeps ==
  ASSUME Good(devList, reservePoolId), reservePoolId \in 0 .. MaxPool,
         NEW new, Good(new, reservePoolId), Spared(devList, new), Becomes(new)
  PROVE  Kept
<1>1. reservePoolId \in Nat
  BY CuAssumption
<1>2. devList' = new /\ reservePoolId' = reservePoolId
  BY DEF Becomes
<1> QED BY <1>1, <1>2, SparedEvictsNobody DEF Kept

LEMMA NextKeeps ==
  ASSUME Good(devList, reservePoolId), reservePoolId \in 0 .. MaxPool, Next,
         \A d \in Devices : OutIsClear(devList'[d])
  PROVE  Kept
<1>1. AllInOrder(devList') /\ reservePoolId' \in 0 .. MaxPool
  BY CallsInOrder DEF Good
<1>2. AllRight(devList', reservePoolId')
  BY CallsKeepLoads DEF Good
<1>3. \A d \in Devices : NobodyEvicted(devList[d], devList'[d])
  BY CallsEvictNobody DEF Good
<1> QED BY <1>1, <1>2, <1>3 DEF Good, Kept

LEMMA ClientsKeep ==
  ASSUME Good(devList, reservePoolId), reservePoolId \in 0 .. MaxPool,
         \/ \E c \in Clients : ClientCall(c)
         \/ \E pool \in PoolIds : RelinquishCuPool(pool)
  PROVE  Kept
<1>1. SameXclbins(devList, devList')
  BY ClientsKeepXclbins DEF Good
<1>2. \A d \in Devices : OutIsClear(devList'[d])
  BY <1>1 DEF SameXclbins, SameMode, Good, OutIsClear, IsLoaded
<1>3. Next
  BY DEF Next
<1> QED BY <1>2, <1>3, NextKeeps

LEMMA ResetKeeps ==
  ASSUME Good(devList, reservePoolId), reservePoolId \in 0 .. MaxPool,
         NEW d \in Devices, NEW unlocks \in BOOLEAN, ResetDevice(d, unlocks)
  PROVE  Kept
<1> DEFINE C == DeviceClients(devList[d])
           rest == Recycled(devList, C)
           dev == Unloaded(rest[d], unlocks)
           new == [dev EXCEPT !.open = FALSE]
<1>0. reservePoolId \in Nat
  BY CuAssumption
<1>1. devList' = [rest EXCEPT ![d] = new]
  BY DEF ResetDevice
<1>2. C \in SUBSET Clients
  BY DEF DeviceClients
<1> HIDE DEF C
<1>3. AllInOrder(rest) /\ AllRight(rest, reservePoolId)
  BY <1>0, <1>2, RecycledInOrder, RecycledRight DEF Good
<1>4. \A e \in Devices : OutIsClear(rest[e])
  <2>1. \A e \in Devices : rest[e] = RecycleOnDevice(devList[e], C)
    BY DEF Recycled
  <2>2. \A e \in Devices : SameMode(devList[e], RecycleOnDevice(devList[e], C))
    BY DEF Good, AllInOrder, InOrder, RecycleOnDevice, DeviceType, SameMode
  <2> HIDE DEF rest
  <2> QED BY <2>1, <2>2 DEF SameMode, Good, OutIsClear, IsLoaded
<1> HIDE DEF rest
<1>5. InOrder(rest[d]) /\ DeviceRight(rest[d], reservePoolId) /\ OutIsClear(rest[d])
  BY <1>3, <1>4 DEF AllInOrder, AllRight
<1>6. InOrder(dev) /\ OutIsClear(dev)
  BY <1>0, <1>5, ClearGood DEF Unloaded
<1> HIDE DEF dev
<1>7. OutIsClear(new)
  BY <1>6 DEF OutIsClear, IsLoaded, InOrder, DeviceType
<1> HIDE DEF new
<1>8. \A e \in Devices : OutIsClear(devList'[e])
  BY <1>1, <1>3, <1>4, <1>7 DEF AllInOrder
<1>9. Next
  BY DEF Next, DeviceCall
<1> QED BY <1>8, <1>9, NextKeeps

LEMMA LoadAnyKeeps ==
  ASSUME Good(devList, reservePoolId), reservePoolId \in 0 .. MaxPool,
         NEW drv \in Drivers, NEW x \in Xclbins, Becomes(LoadAny(devList, x, drv).devs)
  PROVE  Kept
<1> DEFINE new == LoadAny(devList, x, drv).devs
           good == GoodOf(drv)
           unlocks == drv.unlocks
           opens == drv.opens
<1>0. reservePoolId \in Nat
  BY CuAssumption
<1>1. good \in SUBSET Devices /\ unlocks \in SUBSET Devices /\ opens \in SUBSET Devices
  BY AdminAssumption DEF GoodOf
<1>2. LoadAnyDevice(x, good, unlocks, opens)
  BY DEF LoadAnyDevice, Becomes, LoadAny
<1>3. \A d \in Devices : OutIsClear(new[d])
  BY <1>0, LoadAnyRight
<1> HIDE DEF new
<1>4. devList' = new
  BY DEF Becomes, new
<1> HIDE DEF good, unlocks, opens
<1>5. Next
  BY <1>1, <1>2 DEF Next
<1> QED BY <1>3, <1>4, <1>5, NextKeeps

LEMMA ListKeeps ==
  ASSUME Good(devList, reservePoolId), reservePoolId \in 0 .. MaxPool,
         NEW opens \in SUBSET Devices, ListDevices(opens)
  PROVE  Kept
<1> DEFINE ok(d) == d \in opens
           new == [d \in Devices |-> Opened(devList[d], ok(d))]
<1>1. \A d \in Devices : ok(d) \in BOOLEAN
  OBVIOUS
<1>2. Becomes(new)
  BY DEF ListDevices
<1> HIDE DEF ok
<1>3. ASSUME NEW d \in Devices
      PROVE  /\ InOrder(new[d]) /\ DeviceRight(new[d], reservePoolId) /\ OutIsClear(new[d])
             /\ Spares(devList[d], new[d])
  <2>1. InOrder(devList[d]) /\ DeviceRight(devList[d], reservePoolId) /\ OutIsClear(devList[d])
    BY DEF Good, AllInOrder, AllRight
  <2>2. new[d] = Opened(devList[d], ok(d)) /\ ok(d) \in BOOLEAN
    BY <1>1
  <2> HIDE DEF new
  <2> QED BY <2>1, <2>2, OpenedGood DEF Spares
<1>4. AllInOrder(new)
  BY <1>3, EachInOrder
<1> HIDE DEF new
<1>5. Good(new, reservePoolId) /\ Spared(devList, new)
  BY <1>3, <1>4 DEF Good, AllRight, Spared
<1> QED BY <1>2, <1>5, CommandKeeps

LEMMA AdminKeeps ==
  ASSUME Good(devList, reservePoolId), reservePoolId \in 0 .. MaxPool, AdminNext
  PROVE  Kept
<1>0. /\ reservePoolId \in Nat
      /\ devList \in [Devices -> DeviceType]
  BY CuAssumption DEF Good, AllInOrder, InOrder
<1>1. CASE \/ \E c \in Clients : ClientCall(c)
           \/ \E pool \in PoolIds : RelinquishCuPool(pool)
  BY <1>1, ClientsKeep
<1>2. ASSUME NEW drv \in Drivers, AdminCall(drv)
      PROVE  Kept
  <2>1. ASSUME NEW command \in LoadCommands, Becomes(LoadDevices(devList, command, drv).devs)
        PROVE  Kept
    <3> DEFINE r == LoadDevices(devList, command, drv)
    <3>1. command \in Seq(Entries) /\ command # <<>>
      BY AdminAssumption DEF Entries
    <3>2. Good(r.devs, reservePoolId) /\ LoadedKept(devList, r.devs)
      BY <1>0, <3>1, LoadDevicesGood
    <3> HIDE DEF r
    <3>3. Spared(devList, r.devs)
      BY <3>2, KeptIsSpared
    <3>4. Becomes(r.devs)
      BY <2>1 DEF r
    <3> QED BY <3>2, <3>3, <3>4, CommandKeeps
  <2>2. ASSUME NEW ids \in DeviceCommands,
               \/ Becomes(UnloadDevices(devList, ids, drv).devs)
               \/ Becomes(DisableDevices(devList, ids, drv).devs)
               \/ Becomes(EnableDevices(devList, ids).devs)
        PROVE  Kept
    <3>1. ids \in Seq(DeviceNames)
      BY AdminAssumption
    <3>2. /\ Good(UnloadDevices(devList, ids, drv).devs, reservePoolId)
          /\ Spared(devList, UnloadDevices(devList, ids, drv).devs)
      BY <1>0, <3>1, UnloadDevicesGood
    <3>3. /\ Good(DisableDevices(devList, ids, drv).devs, reservePoolId)
          /\ Spared(devList, DisableDevices(devList, ids, drv).devs)
      BY <1>0, <3>1, DisableDevicesGood
    <3>4. /\ Good(EnableDevices(devList, ids).devs, reservePoolId)
          /\ Spared(devList, EnableDevices(devList, ids).devs)
      BY <1>0, <3>1, EnableDevicesGood
    <3> QED BY <2>2, <3>2, <3>3, <3>4, CommandKeeps
  <2>3. ASSUME NEW d \in Devices, ResetDevice(d, d \in drv.unlocks)
        PROVE  Kept
    <3> DEFINE unlocks == d \in drv.unlocks
    <3>1. unlocks \in BOOLEAN
      OBVIOUS
    <3>2. ResetDevice(d, unlocks)
      BY <2>3
    <3> HIDE DEF unlocks
    <3> QED BY <3>1, <3>2, ResetKeeps
  <2>4. drv.opens \in SUBSET Devices
    BY AdminAssumption
  <2> QED BY <1>2, <2>1, <2>2, <2>3, <2>4, LoadAnyKeeps, ListKeeps DEF AdminCall
<1> QED BY <1>1, <1>2 DEF AdminNext

----------------------------------------------------------------------------
(* The inductive invariant of the administered resource manager.           *)
AdminInv == IInv /\ \A d \in Devices : OutIsClear(devList[d])

LEMMA AdminInvIsGood ==
  AdminInv <=> Good(devList, reservePoolId) /\ reservePoolId \in 0 .. MaxPool
BY IInvIsRight DEF AdminInv, Good

(* Commands keep what the calls of clients and of the library keep: the    *)
(* invariant of the resource manager; and a device that is out of service  *)
(* carries no xclbin, so that disabling one that is has nothing to unload. *)
THEOREM AdminInvariant == AdminSpec => []AdminInv
<1>1. Init => AdminInv
  <2>1. Init => reservePoolId \in 0 .. MaxPool
    BY CuAssumption DEF Init
  <2>2. Init => \A d \in Devices : OutIsClear(devList[d])
    BY DEF Init, InitialDevice, OutIsClear, IsLoaded
  <2> QED BY <2>1, <2>2, InitLoadsRight, IInvIsRight DEF AdminInv
<1>2. AdminInv /\ [AdminNext]_vars => AdminInv'
  <2> SUFFICES ASSUME AdminInv, [AdminNext]_vars PROVE AdminInv'
    OBVIOUS
  <2>1. Good(devList, reservePoolId) /\ reservePoolId \in 0 .. MaxPool
    BY AdminInvIsGood
  <2>2. (AdminInv <=> Good(devList, reservePoolId) /\ reservePoolId \in 0 .. MaxPool)'
    BY AdminInvIsGood, PTL
  <2>3. CASE AdminNext
    BY <2>1, <2>2, <2>3, AdminKeeps DEF Kept
  <2>4. CASE UNCHANGED vars
    BY <2>1, <2>2, <2>4 DEF vars
  <2> QED BY <2>3, <2>4
<1> QED BY <1>1, <1>2, PTL DEF AdminSpec

(* References are counted right, and exclusive devices have one client,    *)
(* whatever administrators do.                                             *)
THEOREM AdminKeepsHoldings == AdminSpec => [](RefCounted /\ ExclusiveAlone)
<1>1. AdminInv => RefCounted /\ ExclusiveAlone
  BY DEF AdminInv, IInv, HoldingsInOrder
<1> QED BY <1>1, AdminInvariant, PTL

(* A command that is reported as completed has done what it says, on any   *)
(* number of devices and whatever the drivers do.                          *)
THEOREM CommandsDoWhatTheyReport == AdminSpec => []CompletedIsDone
<1>1. AdminInv => CompletedIsDone
  <2> SUFFICES ASSUME AdminInv PROVE CompletedIsDone
    OBVIOUS
  <2>0. /\ Good(devList, reservePoolId) /\ reservePoolId \in Nat
        /\ devList \in [Devices -> DeviceType]
    BY AdminInvIsGood, CuAssumption DEF Good, AllInOrder, InOrder
  <2>1. ASSUME NEW drv \in Drivers, NEW command \in LoadCommands,
               LoadDevices(devList, command, drv).ok,
               \A i \in 1 .. Len(command) - 1 : command[i].device # AllDevices,
               NEW i \in DOMAIN command, NEW d \in DevicesNamed(command[i].device)
        PROVE  LoadDevices(devList, command, drv).devs[d].xclbin = command[i].xclbin
    <3>1. command \in Seq(Entries) /\ command # <<>>
      BY AdminAssumption DEF Entries
    <3>2. Carries(LoadDevices(devList, command, drv).devs, command[i])
      BY <2>0, <2>1, <3>1, LoadDevicesGood
    <3> QED BY <2>1, <3>2 DEF Carries
  <2>2. ASSUME NEW drv \in Drivers, NEW ids \in DeviceCommands,
               UnloadDevices(devList, ids, drv).ok, NEW i \in DOMAIN ids,
               \A j \in 1 .. i - 1 : ids[j] # AllDevices, NEW d \in DevicesNamed(ids[i])
        PROVE  Idle(UnloadDevices(devList, ids, drv).devs[d])
    <3>1. ids \in Seq(DeviceNames)
      BY AdminAssumption
    <3> QED BY <2>0, <2>2, <3>1, UnloadDevicesGood
  <2>3. ASSUME NEW drv \in Drivers, NEW ids \in DeviceCommands,
               DisableDevices(devList, ids, drv).ok, NEW i \in DOMAIN ids
        PROVE  Out(DisableDevices(devList, ids, drv).devs[ids[i]])
    <3>1. ids \in Seq(DeviceNames)
      BY AdminAssumption
    <3> QED BY <2>0, <2>3, <3>1, DisableDevicesGood
  <2> QED BY <2>1, <2>2, <2>3 DEF CompletedIsDone, Idle, Out
<1> QED BY <1>1, AdminInvariant, PTL

(* A call that asks for any device gets one whenever there is one, and no  *)
(* device in use changes.                                                  *)
THEOREM AnyDeviceFound == AdminSpec => []LoadAnyFinds
<1>1. AdminInv => LoadAnyFinds
  <2> SUFFICES ASSUME AdminInv PROVE LoadAnyFinds
    OBVIOUS
  <2>1. Good(devList, reservePoolId) /\ reservePoolId \in Nat
    BY AdminInvIsGood, CuAssumption
  <2> QED BY <2>1, LoadAnyRight DEF LoadAnyFinds
<1> QED BY <1>1, AdminInvariant, PTL

(* No command takes an xclbin away from under a reservation or a channel.  *)
THEOREM CommandsEvictNobody == AdminSpec => UnloadEvictsNobody
<1> DEFINE Evicts == \A d \in Devices :
                       IsLoaded(devList[d]) /\ ~IsLoaded(devList'[d]) =>
                         \A s \in {d} \X CuIds :
                           /\ BusyChannels(CuAt(devList, s)) # {} => ~devList'[d].open
                           /\ \A p \in PoolIds :
                                CuAt(devList, s).reserves[p].client # NoClient =>
                                  UsesDevice(devList[d], CuAt(devList, s).reserves[p].client)
<1>1. AdminInv /\ [AdminNext]_vars => [Evicts]_vars
  <2> SUFFICES ASSUME AdminInv, AdminNext PROVE Evicts
    OBVIOUS
  <2>1. \A d \in Devices : NobodyEvicted(devList[d], devList'[d])
    BY AdminInvIsGood, AdminKeeps DEF Kept
  <2> QED BY <2>1 DEF NobodyEvicted, CuAt
<1> QED BY <1>1, AdminInvariant, PTL DEF AdminSpec, UnloadEvictsNobody

=============================================================================
