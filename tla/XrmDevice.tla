------------------------------ MODULE XrmDevice ------------------------------
(***************************************************************************)
(* One device (deviceData): the xclbin it is loaded with, who uses it and  *)
(* whether exclusively, and its CUs.  Every operator is a function on the  *)
(* value of one device.                                                    *)
(*                                                                         *)
(* A device is the record                                                  *)
(*   xclbin     the xclbin it is loaded with, NoXclbin when isLoaded is    *)
(*              false                                                      *)
(*   isExcl     one client has the device for itself                       *)
(*   isDisabled the administrator has taken it out of service              *)
(*   open       deviceHandle is not 0                                      *)
(*   procs      clientProcs: procs[c] is the reference count of client c,  *)
(*              0 when c has no slot.  The slot's position matters only in *)
(*              exclusive mode, where slot 0 is the owner and the only     *)
(*              slot in use                                                *)
(*   cus        xclbinInfo.cuList                                          *)
(***************************************************************************)
EXTENDS XrmCu

CONSTANTS
    Xclbins,        \* the xclbin files an administrator or a client may name
    NoXclbin,       \* no xclbin loaded
    NumCus,         \* the CUs a device can have: bound on numCu
    Kernels,        \* the kernel names a request can ask for
    KernelOf,       \* KernelOf[x][i]: the kernel of CU i of xclbin x, or NoKernel
    NoKernel,       \* xclbin x has no CU i (i >= numCu)
    MaxDevClients   \* XRM_MAX_DEV_CLIENTS

CuIds == 0 .. NumCus - 1

ASSUME DeviceAssumption ==
    /\ NoXclbin \notin Xclbins
    /\ NumCus \in Nat
    /\ NoKernel \notin Kernels
    /\ KernelOf \in [Xclbins -> [CuIds -> Kernels \cup {NoKernel}]]
    /\ MaxDevClients \in Nat \ {0}

DeviceType == [xclbin     : Xclbins \cup {NoXclbin},
               isExcl     : BOOLEAN,
               isDisabled : BOOLEAN,
               open       : BOOLEAN,
               procs      : [Clients -> Nat],
               cus        : [CuIds -> CuType]]

(* initDevices: a probed device, opened (openDevice may fail). *)
InitialDevice(opened) ==
    [xclbin     |-> NoXclbin,
     isExcl     |-> FALSE,
     isDisabled |-> FALSE,
     open       |-> opened,
     procs      |-> [c \in Clients |-> 0],
     cus        |-> [i \in CuIds |-> EmptyCu]]

IsLoaded(dev) == dev.xclbin # NoXclbin

CusOf(dev) == IF IsLoaded(dev)
              THEN {i \in CuIds : KernelOf[dev.xclbin][i] # NoKernel}
              ELSE {}

(* The CUs of the device that answer to the requested kernel. *)
MatchingCus(dev, kernel) == {i \in CusOf(dev) : KernelOf[dev.xclbin][i] = kernel}

(* Mutant: a device is busy when a channel is in use. *)
IsDeviceBusyByChannels(dev) == \E i \in CusOf(dev) : dev.cus[i].numChanInuse # 0

(* Mutant: a device is busy when a client uses it. *)
IsDeviceBusyByClients(dev) == \E c \in Clients : dev.procs[c] > 0

(* isDeviceBusy *)
IsDeviceBusy(dev) == \E i \in CusOf(dev) : dev.cus[i].totalUsed # 0

----------------------------------------------------------------------------
(* clientProcs[0].clientId of a device in exclusive mode, or a slot of a   *)
(* shared device.                                                          *)
UsesDevice(dev, c) == dev.procs[c] > 0

DeviceClients(dev) == {c \in Clients : UsesDevice(dev, c)}

(* getNextFreeDevForClient: the devices a client's search does not skip.   *)
IsFreeForClient(dev, c) == IsLoaded(dev) /\ (dev.isExcl => UsesDevice(dev, c))

(* Mutant: exclusive mode is granted on a device others use. *)
CanAllocClientAnyway(dev, c, excl) == dev.isExcl => UsesDevice(dev, c)

(* allocClientFromDev: whether the client is let on the device, exclusively *)
(* if excl.                                                                *)
CanAllocClient(dev, c, excl) ==
    IF dev.isExcl
    THEN UsesDevice(dev, c)
    ELSE IF excl
    THEN DeviceClients(dev) \subseteq {c}
    ELSE UsesDevice(dev, c) \/ Cardinality(DeviceClients(dev)) < MaxDevClients

(* allocClientFromDev: one more reference of c; an exclusive request turns *)
(* the device exclusive.                                                   *)
AllocClientFromDev(dev, c, excl) ==
    [dev EXCEPT !.isExcl = @ \/ excl,
                !.procs[c] = @ + 1]

(* Mutant: the last reference of an exclusive owner does not end exclusive *)
(* mode.                                                                   *)
ReleaseStayingExclusive(dev, c) ==
    IF ~IsLoaded(dev) \/ ~UsesDevice(dev, c) THEN dev ELSE [dev EXCEPT !.procs[c] = @ - 1]

(* releaseClientOnDev: one reference of c less; the last one of an         *)
(* exclusive owner makes the device shared again.  A client that has no    *)
(* reference, or does not own the exclusive device, changes nothing.       *)
ReleaseClientOnDev(dev, c) ==
    IF ~IsLoaded(dev) \/ ~UsesDevice(dev, c)
    THEN dev
    ELSE [dev EXCEPT !.procs[c] = @ - 1,
                     !.isExcl = @ /\ dev.procs[c] > 1]

(* Mutant: the search goes on without releaseClientOnDev. *)
ProbeAndKeep(dev, c, excl) ==
    IF IsFreeForClient(dev, c) /\ CanAllocClient(dev, c, excl)
    THEN AllocClientFromDev(dev, c, excl)
    ELSE dev

(* What a search for a CU leaves of a device on which it found none: the   *)
(* reference is taken (allocClientFromDev) and given back                  *)
(* (releaseClientOnDev).  If the client already used the device, and asked *)
(* for it exclusively, the device stays exclusive.                         *)
ProbeDevice(dev, c, excl) ==
    IF IsFreeForClient(dev, c) /\ CanAllocClient(dev, c, excl)
    THEN ReleaseClientOnDev(AllocClientFromDev(dev, c, excl), c)
    ELSE dev

----------------------------------------------------------------------------
(* deviceClearInfo (flushDevData): everything but the handle and           *)
(* isDisabled is reset; a busy device is left as it is.                    *)
DeviceClearInfo(dev) ==
    IF IsDeviceBusy(dev)
    THEN dev
    ELSE [InitialDevice(dev.open) EXCEPT !.isDisabled = dev.isDisabled]

(* deviceLoadXclbin when it succeeds: clientProcs and isExcl stay as they  *)
(* are, and the CUs, which are initialised, are empty on an unloaded       *)
(* device anyway: nothing is taken there, and unloading clears them.       *)
LoadedWith(dev, x) == [dev EXCEPT !.xclbin = x, !.open = TRUE]

(* openDevice on a device with no handle; xclOpen may fail. *)
Opened(dev, ok) == [dev EXCEPT !.open = @ \/ ok]

(* Mutant: reservations on devices the client does not use are forgotten. *)
RecycleWhereUsed(dev, C) ==
    LET gone == C \cap DeviceClients(dev)
    IN  [dev EXCEPT
            !.cus = [i \in CuIds |-> ReleaseAllChans(DropReservesOf(@[i], gone), gone)],
            !.isExcl = @ /\ gone = {},
            !.procs = [c \in Clients |-> IF c \in gone THEN 0 ELSE @[c]]]

(* recycleResource, its loop body, for the clients in C: their             *)
(* reservations go; if they use the device, so do their channels, their    *)
(* references, and exclusive mode.  (The code leaves the loop over the     *)
(* devices at an exclusive one whose clientProcs[0].ref is 0; there is     *)
(* none, see ExclusiveAlone of XrmSystem.)                                 *)
RecycleOnDevice(dev, C) ==
    IF ~IsLoaded(dev)
    THEN dev
    ELSE LET gone == C \cap DeviceClients(dev)
         IN  [dev EXCEPT
                !.cus = [i \in CuIds |-> ReleaseAllChans(DropReservesOf(@[i], C), gone)],
                !.isExcl = @ /\ gone = {},
                !.procs = [c \in Clients |-> IF c \in gone THEN 0 ELSE @[c]]]

----------------------------------------------------------------------------
(* The channels client c holds on the device. *)
Held(dev, c) == {h \in CuIds \X Channels : dev.cus[h[1]].channels[h[2]].client = c}

(* The reference count of each client is the number of channels it holds.  *)
DeviceRefCounted(dev) == \A c \in Clients : dev.procs[c] = Cardinality(Held(dev, c))

(* In exclusive mode one client uses the device, and no other holds a      *)
(* channel of it.                                                          *)
DeviceExclusive(dev) ==
    dev.isExcl => \E owner \in Clients :
                     /\ UsesDevice(dev, owner)
                     /\ \A c \in Clients \ {owner} : Held(dev, c) = {}

=============================================================================
