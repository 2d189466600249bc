----------------------------- MODULE AcapdAccel -----------------------------
(***************************************************************************)
(* An accelerator object of the acapd library (src/src/accel.c, shell.c,   *)
(* sys/linux/accel.c, generic-device.c and parseAccelJson() in             *)
(* json-config.c) in the hands of a program that loads it, maps the        *)
(* registers of its devices, opens its DMA channels and removes it, any    *)
(* number of times.  Of the channels only what becomes of their VFIO       *)
(* device matters here; AcapdDma models what they do.                      *)
(*                                                                         *)
(* load_accel() runs through several calls that each may fail: extract the *)
(* package, read shell.json, fetch (dfx_cfg_init), load (dfx_cfg_load),    *)
(* open the devices.  What a step did before a later one failed stays.  A  *)
(* call is one action; a fault is the step of it that fails.               *)
(*                                                                         *)
(* Behaviours of all Packages, each with the steps that may fail for it,   *)
(* are considered; a behaviour keeps the one it starts with.               *)
(*                                                                         *)
(* An operator whose comment starts with "Faulty" is no part of the model: *)
(* it is a slip the code could contain, put in place of the operator that  *)
(* follows it to see that the properties notice.                           *)
(***************************************************************************)
EXTENDS Integers, FiniteSets

CONSTANTS
    Packages,
    MaxCfgs,   \* bound: configurations fetched
    MaxFds,    \* bound: device descriptors open
    MaxTmp     \* bound: temporary directories

Cfgs == 1 .. MaxCfgs
Steps == {"extract", "json", "shell", "fetch", "load", "bind", "uio", "open", "vfio",
          "remove"}

Package ==
    [devs: 0 .. 8,         \* accel_devices of accel.json, opened in their order
     chnls: BOOLEAN,       \* dataMoverChnls of accel.json are given
     flat: BOOLEAN,        \* of any type but XRT_AIE_DFX: accel.json is not read
                           \* and no device known
     no_driver: SUBSET (1 .. 8),  \* devices without the driver uio_pdrv_genirq
     tar_gz: BOOLEAN,      \* an archive: ACAPD_ACCEL_PKG_TYPE_TAR_GZ
     env_config: BOOLEAN,  \* ACCEL_CONFIG_PATH is set: nothing is to be loaded
     may_fail: SUBSET Steps]      \* the steps that may fail

ASSUME AccelAssumption ==
    /\ \A p \in Packages : p \in Package /\ p.no_driver \subseteq 1 .. p.devs
    /\ MaxCfgs \in Nat \ {0} /\ MaxFds \in Nat /\ MaxTmp \in Nat

VARIABLES
    package,   \* the package
    accel,     \* status, is_cached, load_failure, fpga_cfg_id, has_devs
               \* (num_ip_devs > 0), chnls and tmp_dir of the object
    va,        \* ip_dev[]: devices that are mapped
    cfgs,      \* libdfx: what became of each configuration
    bound,     \* devices the library gave the driver
    fds,       \* descriptors the process has open for devices in ip_dev[]
    vfio,      \* whether it has the VFIO group of the DMA device open
    tmp,       \* temporary directories that exist
    ret        \* the last call and what it returned

vars == <<package, accel, va, cfgs, bound, fds, vfio, tmp, ret>>

Devs == 1 .. package.devs
Flat == package.flat
NoDriver == package.no_driver
TarGz == package.tar_gz
EnvConfig == package.env_config
MayFail == package.may_fail

TypeOK ==
    /\ package \in Packages
    /\ accel \in [status: {"UNLOADED", "INUSE", "UNLOADING"}, is_cached: BOOLEAN,
                  load_failure: BOOLEAN, cfg: Cfgs \cup {0}, has_devs: BOOLEAN,
                  chnls: {"none", "closed", "open"}, dir: 0 .. MaxTmp]
    /\ va \subseteq Devs
    /\ accel.status = "INUSE" => accel.is_cached
    /\ accel.is_cached => accel.cfg # 0
    /\ cfgs \in [Cfgs -> {"none", "init", "loaded", "destroyed"}]
    /\ bound \subseteq NoDriver /\ fds \in 0 .. MaxFds /\ vfio \in BOOLEAN
    /\ tmp \subseteq 1 .. MaxTmp

\* init_accel()
NewAccel == [status |-> "UNLOADED", is_cached |-> FALSE, load_failure |-> FALSE,
             cfg |-> 0, has_devs |-> FALSE, chnls |-> "none", dir |-> 0]

Init ==
    /\ package \in Packages
    /\ accel = NewAccel /\ va = {}
    /\ cfgs = [i \in Cfgs |-> "none"]
    /\ bound = {} /\ fds = 0 /\ vfio = FALSE /\ tmp = {}
    /\ ret = [op |-> "init", val |-> "SUCCESS"]

-----------------------------------------------------------------------------
(* Loading.  w is the state a step starts from and w.val what the call has *)
(* returned so far: a step after one that failed does nothing.             *)

Now == [accel |-> accel, va |-> va, cfgs |-> cfgs, bound |-> bound, fds |-> fds,
        vfio |-> vfio, tmp |-> tmp, val |-> "SUCCESS"]
Set(w, op) ==
    /\ accel' = w.accel /\ va' = w.va /\ cfgs' = w.cfgs /\ bound' = w.bound
    /\ fds' = w.fds /\ vfio' = w.vfio /\ tmp' = w.tmp
    /\ ret' = [op |-> op, val |-> w.val]
    /\ UNCHANGED package

Stopped(w, val) == [w EXCEPT !.val = val]

\* The devices and channels of accel.json, none of them open, take the place of
\* those known before; without the file nothing changes.
parseAccelJson(w, fault) ==
    IF fault = "json" THEN w
    ELSE [w EXCEPT !.va = {}, !.accel.has_devs = TRUE,
                   !.accel.chnls = IF package.chnls THEN "closed" ELSE @]

\* An archive is extracted to a directory of its own, each time.  Success is
\* returned whatever came of accel.json.
sys_accel_config(w, fault) ==
    LET n == CHOOSE k \in (1 .. MaxTmp) \ w.tmp : TRUE
    IN  IF ~TarGz \/ EnvConfig THEN parseAccelJson(w, fault)
        ELSE LET x == [w EXCEPT !.tmp = @ \cup {n}, !.accel.dir = n]
             IN  IF fault = "extract" THEN Stopped(x, "FAILURE")
                 ELSE parseAccelJson(x, fault)

\* The names and registers of the shell, in no way part of the object.
parseShellJson(w, fault) == IF fault = "shell" THEN Stopped(w, "FAILURE") ELSE w

acapd_parse_config(w, fault) ==
    LET c == IF Flat THEN w ELSE sys_accel_config(w, fault)
    IN  IF c.val # "SUCCESS" THEN c ELSE parseShellJson(c, fault)

\* dfx_cfg_init() hands out an ID that was not used before.
FreshCfg(w) == CHOOSE i \in Cfgs : w.cfgs[i] = "none"

\* Faulty: is_cached is set before it is known that the fetch worked.
sys_fetch_accel_early(w, fault) ==
    LET c == [w EXCEPT !.accel.is_cached = TRUE]
    IN  IF w.val # "SUCCESS" \/ w.accel.is_cached THEN w
        ELSE IF fault = "fetch" THEN Stopped(c, "FAILURE")
        ELSE [c EXCEPT !.cfgs[FreshCfg(w)] = "init", !.accel.cfg = FreshCfg(w)]

\* Nothing is fetched again while is_cached is set; load_accel() sets it after a
\* fetch that worked.
sys_fetch_accel(w, fault) ==
    IF w.val # "SUCCESS" \/ w.accel.is_cached THEN w
    ELSE IF fault = "fetch" THEN Stopped(w, "FAILURE")
    ELSE [w EXCEPT !.cfgs[FreshCfg(w)] = "init", !.accel.cfg = FreshCfg(w),
                   !.accel.is_cached = TRUE]

\* dfx_cfg_load() of a configuration that is not there fails.
dfx_cfg_load_fails(w, fault) == fault = "load" \/ w.cfgs[w.accel.cfg] = "destroyed"

\* A device with another driver or none is given this one; the descriptor of
\* its driver_override is not closed.
acapd_generic_device_bind(w, d, fault) ==
    IF fault = "bind" THEN Stopped(w, "EINVAL")
    ELSE IF d \in NoDriver \ w.bound
    THEN [w EXCEPT !.bound = @ \cup {d}, !.fds = @ + 1] ELSE w

acapd_generic_device_get_uio_path(w, fault) ==
    IF w.val = "SUCCESS" /\ fault = "uio" THEN Stopped(w, "EINVAL") ELSE w

\* "Already open" is never found (it asks for dev->priv, which stays NULL).  A
\* device whose path is known (ACCEL_IPn_PATH) is neither bound nor looked up;
\* it is one that has its driver and for which those two steps do not fail.
acapd_generic_device_open(w, d, fault) ==
    LET u == acapd_generic_device_get_uio_path(acapd_generic_device_bind(w, d, fault),
                                               fault)
    IN  IF u.val # "SUCCESS" THEN u
        ELSE IF fault = "open" THEN Stopped(u, "EINVAL")
        ELSE [u EXCEPT !.va = @ \cup {d}, !.fds = @ + 1]

\* The devices in their order, up to the one with number at, which a fault
\* meets; those before it are given the driver where they lack it and opened.
opened(w, fault, at) ==
    LET before == 1 .. at - 1
        lacking == (NoDriver \cap before) \ w.bound
        m == [w EXCEPT !.bound = @ \cup lacking, !.va = @ \cup before,
                       !.fds = @ + (at - 1) + Cardinality(lacking)]
    IN  IF at = 0 THEN w ELSE acapd_generic_device_open(m, at, fault)

\* The last device that is tried: any may be the one that fails.
LastTried(fault) ==
    IF fault \in {"bind", "uio", "open"} /\ package.devs # 0 THEN Devs ELSE {package.devs}

\* Only what is cached is loaded.  A configuration that cannot be loaded is
\* destroyed.
sys_load_accel(w, fault, at) ==
    IF w.val # "SUCCESS" THEN w
    ELSE IF ~w.accel.is_cached THEN Stopped(w, "FAILURE")
    ELSE IF dfx_cfg_load_fails(w, fault)
    THEN Stopped([w EXCEPT !.cfgs[w.accel.cfg] = "destroyed", !.bound = {}], "FAILURE")
    ELSE LET l == [w EXCEPT !.cfgs[w.accel.cfg] = "loaded"]
         IN  IF Flat \/ ~w.accel.has_devs THEN l ELSE opened(l, fault, at)

sys_needs_load_accel == ~EnvConfig

Faults(steps) == {"none"} \cup (MayFail \cap steps)

\* Callers do not load an object that is loaded.
load_accel ==
    /\ accel.status # "INUSE"
    /\ \E i \in Cfgs : cfgs[i] = "none"
    /\ Cardinality(tmp) < MaxTmp /\ fds + 2 * package.devs <= MaxFds
    /\ \E fault \in Faults({"extract", "json", "shell", "fetch", "load", "bind", "uio",
                            "open"}) :
       \E at \in LastTried(fault) :
          LET p == acapd_parse_config(Now, fault)
              f == sys_fetch_accel(p, fault)
              l == sys_load_accel(f, fault, at)
          IN  IF p.val # "SUCCESS" \/ ~sys_needs_load_accel THEN Set(p, "load")
              ELSE IF f.val # "SUCCESS" THEN Set(f, "load")
              ELSE Set(IF l.val = "SUCCESS" THEN [l EXCEPT !.accel.status = "INUSE"]
                       ELSE [l EXCEPT !.accel.load_failure = TRUE], "load")

-----------------------------------------------------------------------------
(* Use and removal.                                                        *)

\* The device is opened if it is not mapped yet.  Callers ask after a load that
\* returned success.
acapd_accel_get_reg_va(d) ==
    /\ accel.status = "INUSE" \/ EnvConfig
    /\ accel.has_devs /\ d \in Devs /\ d \notin va
    /\ fds + 1 < MaxFds
    /\ \E fault \in Faults({"bind", "uio", "open"}) :
          Set(acapd_generic_device_open(Now, d, fault), "map")

\* The VFIO device behind the channels is bound, its container and group are
\* opened - the kernel lets a process have the group once - and set up.  What
\* was opened when a later step fails stays open.
acapd_vfio_device_open(w, fault) ==
    IF fault \in {"bind", "vfio"} \/ w.vfio
    THEN Stopped([w EXCEPT !.vfio = @ \/ fault = "vfio"], "EINVAL")
    ELSE [w EXCEPT !.vfio = TRUE, !.accel.chnls = "open"]

\* By acapd_accel_open_channel(), or in a transfer by acapd_accel_write_data()
\* and acapd_accel_read_data(): channels that are open stay so, and once the
\* device of one is open the others cannot fail.
acapd_dma_open ==
    /\ accel.status = "INUSE" \/ EnvConfig
    /\ accel.chnls # "none"
    /\ \E fault \in Faults({"bind", "vfio"}) :
          Set(IF accel.chnls = "open" THEN Now ELSE acapd_vfio_device_open(Now, fault),
              "channel")

\* Faulty: the devices are forgotten without being closed.
sys_close_accel_frees(w) ==
    [w EXCEPT !.va = {}, !.accel.has_devs = FALSE, !.accel.chnls = "none"]

\* Of the devices ds, those that are mapped.
acapd_generic_device_close(w, ds) ==
    [w EXCEPT !.va = @ \ ds, !.fds = @ - Cardinality(w.va \cap ds)]

\* The channels and the devices are closed and forgotten.  Closing the channels
\* (acapd_vfio_device_close()) leaves the descriptors of container, group and
\* device open.
sys_close_accel(w) ==
    [acapd_generic_device_close(w, Devs) EXCEPT !.accel.has_devs = FALSE,
                                                !.accel.chnls = "none"]

\* The directory of an extracted package; that it cannot be removed is ignored.
remove_directory(w) == IF TarGz THEN [w EXCEPT !.tmp = @ \ {w.accel.dir}] ELSE w

\* Faulty: the configuration is destroyed and never taken out of the PL.
sys_remove_accel_stays(w, fault) ==
    LET t == remove_directory(w)
    IN  IF t.accel.cfg <= 0 THEN Stopped(t, "FAILURE") ELSE t

\* Success is reported whatever libdfx said.  The devices go with the overlay.
sys_remove_accel(w, fault) ==
    LET t == remove_directory(w)
    IN  IF t.accel.cfg <= 0 THEN Stopped(t, "FAILURE")
        ELSE IF fault = "remove" THEN t
        ELSE [t EXCEPT !.cfgs[t.accel.cfg] = "destroyed", !.bound = {}]

remove_accel ==
    \E fault \in Faults({"remove"}) :
       LET c == sys_close_accel(Now)
           r == IF sys_needs_load_accel THEN sys_remove_accel(c, fault) ELSE c
           next == IF r.val = "SUCCESS" THEN "UNLOADED" ELSE "UNLOADING"
       IN  Set(CASE accel.status = "UNLOADED" -> Now
                 [] accel.status = "UNLOADING" -> Stopped(Now, "INPROGRESS")
                 [] OTHER -> [r EXCEPT !.accel.status = next],
               "remove")

\* The program starts again with a new object once the old one is not in use.
init_accel ==
    /\ accel.status = "UNLOADED" /\ va = {} /\ accel.chnls # "open"
    /\ Set([Now EXCEPT !.accel = NewAccel], "init")

Next ==
    \/ load_accel
    \/ \E d \in Devs : acapd_accel_get_reg_va(d)
    \/ acapd_dma_open
    \/ remove_accel
    \/ init_accel

Spec == Init /\ [][Next]_vars

-----------------------------------------------------------------------------
(* Properties.                                                             *)

DevicesOpen == MayFail \cap {"bind", "uio", "open"} = {}   \* opening one works
CfgsGo == "remove" \notin MayFail                           \* libdfx removes

\* While the object says UNLOADED, which makes remove_accel() do nothing, none
\* of its configurations is in the PL (load_accel(), sys_load_accel()), if a
\* device can be opened once its design is loaded and what is removed goes, and
\* with ACCEL_CONFIG_PATH, when the PL is somebody else's, whatever fails.
UnloadedIsClear ==
    (DevicesOpen \/ EnvConfig) /\ CfgsGo /\ accel.status = "UNLOADED" =>
        \A i \in Cfgs : cfgs[i] # "loaded"

\* A call that reports the object removed leaves nothing of it in the PL, no
\* channel open and none of the devices in ip_dev[] open (remove_accel(),
\* sys_remove_accel(), sys_close_accel()).  The descriptors of the channels'
\* VFIO device are not among these: they stay.
RemovedIsGone ==
    DevicesOpen /\ CfgsGo /\ ~EnvConfig /\ NoDriver = {}
      /\ ret.op = "remove" /\ ret.val = "SUCCESS" =>
        fds = 0 /\ accel.chnls # "open" /\ \A i \in Cfgs : cfgs[i] # "loaded"
=============================================================================
