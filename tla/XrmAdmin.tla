------------------------------- MODULE XrmAdmin -------------------------------
(***************************************************************************)
(* The commands of an administrator (xrmadm), and the calls of the library *)
(* to the same end: loading, unloading, enabling and disabling several     *)
(* devices, or all, in one command, loading one device or any, and listing *)
(* them.  A command works off its devices in order under the lock and      *)
(* reports whether it is completed; clients allocate, reserve and die      *)
(* between commands.                                                       *)
(***************************************************************************)
EXTENDS XrmSystem, SequencesExt

CONSTANTS
    LoadCommands,   \* the load commands: sequences of a device and an xclbin
    DeviceCommands, \* the devices of unload, enable and disable commands
    Drivers         \* what a command meets: whether the file can be read, on
                    \* which devices it loads, which unlock, which open

AllDevices == -2

DeviceNames == Devices \cup {AllDevices, NumDevices}    \* NumDevices: out of range

ASSUME AdminAssumption ==
    /\ LoadCommands \subseteq Seq([device : DeviceNames, xclbin : Xclbins]) \ {<<>>}
    /\ DeviceCommands \subseteq Seq(DeviceNames)
    /\ Drivers \subseteq [reads : BOOLEAN, good : SUBSET Devices,
                          unlocks : SUBSET Devices, opens : SUBSET Devices]

DevicesInOrder == [i \in 1 .. NumDevices |-> i - 1]

(* Where a command stands: what it would report, and the devices. *)
Outcome(ok, devs) == [ok |-> ok, devs |-> devs]

(* Device after device, up to the first that fails. *)
UpToFailure(one(_, _), devs, ids) ==
    FoldLeft(LAMBDA at, d : IF at.ok THEN one(at.devs, d) ELSE at, Outcome(TRUE, devs), ids)

----------------------------------------------------------------------------
GoodOf(drv) == IF drv.reads THEN drv.good ELSE {}

(* deviceLoadXclbin: a device that carries the xclbin already (by uuid) is *)
(* as wanted, one that carries another is not touched.                     *)
DeviceLoadXclbin(devs, d, x, drv) ==
    LET dev == Opened(devs[d], d \in drv.opens)
        loads == d \in GoodOf(drv) /\ dev.open
    IN  IF d \notin Devices \/ devs[d].isDisabled
        THEN Outcome(FALSE, devs)
        ELSE IF IsLoaded(devs[d])
        THEN Outcome(drv.reads /\ devs[d].xclbin = x, devs)
        ELSE Outcome(loads, [devs EXCEPT ![d] = IF loads THEN LoadedWith(dev, x)
                                                ELSE DeviceClearInfo(dev)])

(* Mutant: a device on which loading fails does not stop the others. *)
LoadAllDevicesAnyway(devs, x, drv) ==
    FoldLeft(LAMBDA at, d : DeviceLoadXclbin(at.devs, d, x, drv), Outcome(TRUE, devs), DevicesInOrder)

LoadAllDevices(devs, x, drv) ==
    UpToFailure(LAMBDA ds, d : DeviceLoadXclbin(ds, d, x, drv), devs, DevicesInOrder)

(* loadDevices.  A device of its own that fails ends the command; a        *)
(* failure among all devices is forgotten when another entry follows.      *)
LoadDevices(devs, command, drv) ==
    LET entry(at, en) ==
            LET all == LoadAllDevices(at.devs, en.xclbin, drv)
                one == DeviceLoadXclbin(at.devs, en.device, en.xclbin, drv)
            IN  IF at.stopped THEN at
                ELSE IF en.device = AllDevices
                THEN [ok |-> all.ok, stopped |-> FALSE, devs |-> all.devs]
                ELSE [ok |-> one.ok, stopped |-> ~one.ok, devs |-> one.devs]
    IN  FoldLeft(entry, [ok |-> FALSE, stopped |-> FALSE, devs |-> devs], command)

(* Mutant: devices that carry an xclbin are not tried. *)
LoadAnyUnloaded(devs, x, drv) ==
    LET target == FirstLoadable(devs, FreeDevices(devs), GoodOf(drv), drv.opens)
    IN  Outcome(target # {}, [d \in Devices |-> IF d \in target THEN LoadedWith(devs[d], x)
                                               ELSE devs[d]])

(* loadOneDevice with device id -1: the device found by loadAnyDevice. *)
LoadAny(devs, x, drv) ==
    [ok |-> LoadTarget(devs, GoodOf(drv), drv.unlocks, drv.opens) # {},
     devs |-> LoadedAny(devs, x, GoodOf(drv), drv.unlocks, drv.opens)]

----------------------------------------------------------------------------
UnloadOneDevice(devs, d, drv) ==
    IF d \notin Devices THEN Outcome(FALSE, devs)
    ELSE Outcome(IsLoaded(devs[d]) => ~IsDeviceBusy(devs[d]) /\ d \in drv.unlocks,
                 [devs EXCEPT ![d] = Unloaded(@, d \in drv.unlocks)])

(* unloadCommand: after all devices nothing of the command is looked at.   *)
UnloadDevices(devs, ids, drv) ==
    LET unload(ds, d) == UnloadOneDevice(ds, d, drv)
        named == SelectInSeq(ids, LAMBDA d : d = AllDevices)
    IN  UpToFailure(unload, devs, IF named = 0 THEN ids ELSE SubSeq(ids, 1, named - 1) \o DevicesInOrder)

DisableOneDevice(devs, d, drv) ==
    IF d \notin Devices \/ (IsLoaded(devs[d]) /\ (IsDeviceBusy(devs[d]) \/ d \notin drv.unlocks))
    THEN Outcome(FALSE, devs)
    ELSE Outcome(TRUE, [devs EXCEPT ![d] =
            IF devs[d].isDisabled THEN @
            ELSE [IF IsLoaded(@) THEN DeviceClearInfo(@) ELSE @ EXCEPT !.isDisabled = TRUE]])

DisableDevices(devs, ids, drv) ==
    UpToFailure(LAMBDA ds, d : DisableOneDevice(ds, d, drv), devs, ids)

EnableOneDevice(devs, d) ==
    IF d \notin Devices THEN Outcome(FALSE, devs)
    ELSE Outcome(TRUE, [devs EXCEPT ![d].isDisabled = FALSE])

EnableDevices(devs, ids) == UpToFailure(EnableOneDevice, devs, ids)

----------------------------------------------------------------------------
Becomes(devs) == devList' = devs /\ UNCHANGED reservePoolId

(* listCommand (listDevice): a device without a handle is opened.          *)
ListDevices(opens) ==
    Becomes([d \in Devices |-> Opened(devList[d], d \in opens)])

AdminCall(drv) ==
    \/ \E command \in LoadCommands : Becomes(LoadDevices(devList, command, drv).devs)
    \/ \E x \in Xclbins : Becomes(LoadAny(devList, x, drv).devs)
    \/ \E ids \in DeviceCommands :
          \/ Becomes(UnloadDevices(devList, ids, drv).devs)
          \/ Becomes(DisableDevices(devList, ids, drv).devs)
          \/ Becomes(EnableDevices(devList, ids).devs)
    \/ ListDevices(drv.opens)
    \/ \E d \in Devices : ResetDevice(d, d \in drv.unlocks)

AdminNext ==
    \/ \E c \in Clients : ClientCall(c)
    \/ \E pool \in PoolIds : RelinquishCuPool(pool)
    \/ \E drv \in Drivers : AdminCall(drv)

AdminSpec == Init /\ [][AdminNext]_vars

----------------------------------------------------------------------------
(* Properties.                                                             *)

DevicesNamed(d) == IF d = AllDevices THEN Devices ELSE {d}

(* A command that is reported as completed has done what it says on every  *)
(* device it names, whatever it met on the way and whoever uses them: each *)
(* carries the xclbin, is unloaded, or is out of service and unloaded.     *)
(* (Load commands in which an entry follows one for all devices are        *)
(* another matter, see LoadDevices; so is what follows all devices in an   *)
(* unload command, which is not looked at, see UnloadDevices.)             *)
CompletedIsDone ==
    \A drv \in Drivers :
        /\ \A command \in LoadCommands :
              LET end == LoadDevices(devList, command, drv)
              IN  end.ok /\ (\A i \in 1 .. Len(command) - 1 : command[i].device # AllDevices) =>
                     \A i \in DOMAIN command : \A d \in DevicesNamed(command[i].device) :
                         end.devs[d].xclbin = command[i].xclbin
        /\ \A ids \in DeviceCommands :
              LET unloaded == UnloadDevices(devList, ids, drv)
                  disabled == DisableDevices(devList, ids, drv)
                  idle(dev) == ~IsLoaded(dev) /\ dev.cus = [i \in CuIds |-> EmptyCu]
              IN  /\ unloaded.ok => \A i \in DOMAIN ids :
                        (\A j \in 1 .. i - 1 : ids[j] # AllDevices) =>
                            \A d \in DevicesNamed(ids[i]) : idle(unloaded.devs[d])
                  /\ disabled.ok => \A i \in DOMAIN ids :
                                        idle(disabled.devs[ids[i]]) /\ disabled.devs[ids[i]].isDisabled

(* A call that asks for any device gets one whenever there is one that     *)
(* nobody uses and that can be loaded.  Its two passes unload idle devices *)
(* on the way, which then stay unloaded, but no device in use changes, and *)
(* one only is loaded.                                                     *)
LoadAnyFinds ==
    \A drv \in Drivers, x \in Xclbins :
        LET end == LoadAny(devList, x, drv)
            could == {d \in GoodOf(drv) :
                        /\ ~devList[d].isDisabled
                        /\ devList[d].open \/ d \in drv.opens
                        /\ IsLoaded(devList[d]) => ~IsDeviceBusy(devList[d]) /\ d \in drv.unlocks}
            onlyUnloaded(D) == \A d \in D : end.devs[d] = devList[d] \/ ~IsLoaded(end.devs[d])
        IN  /\ \A d \in Devices : IsDeviceBusy(devList[d]) => end.devs[d] = devList[d]
            /\ IF end.ok
               THEN \E d \in could : end.devs[d].xclbin = x /\ onlyUnloaded(Devices \ {d})
               ELSE could = {} /\ onlyUnloaded(Devices)

=============================================================================
