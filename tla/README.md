# dfx-mgr: TLA+ models and proofs

dfx-mgr loads and unloads accelerators at run time: partial bitstreams into the
slots of a base design in the programmable logic (PL), whole bitstreams, RPU
firmware, and bitstreams a user names directly. This directory holds TLA+ models
of its daemon, of the clients that call it and of the acapd library applications
link, the TLC configurations that check them, and theorems proved with TLAPS. Source
paths below are relative to the repository root (`src/` here); `daemon_helper.c` is
`src/src/daemon_helper.c`.

## The system

| Part | State | Operations | Interacts with |
|---|---|---|---|
| Accelerator requests (`daemon_helper.c`) | `platform.active_base`, `platform.active_rpu_base`; per base `active`, `slots[]` | load by name and by ID, unload by handle, name and ID, unload of the base | slot handles, libdfx, configfs, remoteproc |
| User bitstreams (`daemon_helper.c`, `user_load.c`) | entries of `base_designs[]` with `is_user_load`, type, handle, region | `user_load`, `user_unload`, `user_unload_overlay` | shares `active_base`, the handle table and configfs with the above |
| Slot handles | `platform.available_slot_handle[]` | `get_free_slot_handle`, release on unload | every load and unload |
| RPU (`rpu.c`, `rpu_helper.c`) | slots of the RPU base; rpmsg devices per slot | load, remove, list rpmsg devices | remoteproc and rpmsg in sysfs |
| Package discovery (`daemon_helper.c`: `threadFunc` and below) | `base_designs[]`, `accel_list[]`, the inotify watch table, the rescan flag | directory walk, inotify events, add and remove of bases and accelerators | runs in its own thread on the tables of the request handlers, without a lock |
| Listing (`listAccelerators`) | `list_id`s, `pkg_listing_dirty` | renumber, list | discovery, user loads, by-ID requests |
| Server loop (`example/sys/linux/dfx-mgrd.c`) | the set of client sockets | accept, read one message, dispatch, reply | all request handlers |
| Client library, command line client | one socket | request, wait for reply | server loop |
| acapd library (`accel.c`, `device.c`, `shm.c`, `dma.c`, `sys/linux/*`) | accelerator status, device and channel open state, buffers, VFIO mappings | load, open, attach, transfer, poll, close | used by the daemon for libdfx loads and by applications for DMA |
| Parsers (`json-config.c`, `pdi_parse.c`, `eeprom.c`) | none after they return | parse | discovery |

What is hard in it:

* one handle table names designs of three kinds (PL slots, RPU slots, user
  entries), each with its own load and unload path;
* a base is evicted implicitly, on the strength of a counter (`active`) that six
  places change;
* loads fail half way (a base evicted and its successor not loaded, a bitstream
  programmed and no table entry left, an overlay directory that cannot be removed);
* user Partials need a Full, or a base dfx-mgr does not know at all;
* the discovery thread changes the tables while requests are served, on events
  read in batches whose handlers may leave the batch, and packages appear file by
  file in any order;
* listing IDs are renumbered under clients that have read them, with one flag for
  all clients to say so;
* RPU firmware creates and deletes channels at any time, and the daemon is not told
  whose they are;
* a daemon that stops, a client that is interrupted, at any point of a call;
* in the library, a device has one list node for all buffers attached to it, two
  channels share a device that the last one closes, device addresses are searched
  for in an unsorted list, and a load is a chain of steps each of which may fail;
* configfs overlay names are shared between packages and user regions on Zynq.

What makes each part correct, with the properties that say so, is under *Runs*;
`PROJECT.json` lists the hazards line by line.

## Modules

| Module | What it is |
|---|---|
| `DfxDaemon` | every load and unload handler over a fixed set of installed packages |
| `HandlePool` | abstract specification: what clients are promised about slot handles |
| `DfxDrain` | `DfxDaemon` with clients that stop loading and unload everything; liveness |
| `Discovery` | the inotify thread, the directory walk and listings of the request thread, and an installer of packages |
| `DfxMgrd` | the server loop, the command line client and the client library, restarts and interruptions |
| `RpuRpmsg` | the rpmsg control and endpoint devices of RPU slots |
| `AcapdDma` | shared buffers, VFIO mappings, DMA devices and channels, both engines |
| `AcapdAccel` | an accelerator object: load, map, remove, with a fault at every step |
| `MC*` | packages, directory trees, buffers and clients for TLC |
| `DfxDaemonProofs` | type correctness of `DfxDaemon`, action by action; the owners of overlay regions |
| `DfxHandleProofs` | the inductive invariant of the handle table, the counters and the bases |
| `DfxPoolProofs` | `DfxDaemon` implements `HandlePool`; the base under a design; what the PL holds |
| `DfxMgrdProofs` | what is under way on a connection; no refusal, no false success, no unannounced old ID |
| `RpuRpmsgProofs` | the list of a slot against the channels, visit by visit of the loop |
| `AcapdDmaProofs` | references, mappings, list and transfers of the DMA library, call by call |
| `AcapdAccelProofs` | an accelerator object through every fault of load and removal |
| `DiscoveryProofs` | the shared tables of the two threads, for any directory tree: types and watches, no row twice, listings of whole packages, listing IDs |

### `DfxDaemon` and the code

The daemon serves requests one at a time (`dfx-mgrd.c`, `main`), so a handler is
one step. `Pkg` is what discovery put into `base_designs[]`; the packages come
first in the table and user entries after them. A variable per piece of state:

| Variable | Code |
|---|---|
| `active_base`, `active_rpu_base` | the pointers in `platform`, as table indices, 0 for NULL |
| `active` | `base_designs[].active` |
| `slots`, `slots_alloc` | `base_designs[].slots[]`, and whether that array is allocated |
| `used_handles` | the indices set in `platform.available_slot_handle[]` |
| `user` | `is_user_load`, `name`, `user_load_type`, `user_load_handle`, `user_load_region` of the entries after the packages |
| `overlays` | directories below the configfs overlay root |
| `fabric` | what the PL was last fully configured with (no variable of the code: the environment) |
| `reply` | the answer to the last request |

`load_accelerator_core` is split along its branches: `load_flat*`, `load_dfx*`,
`load_rpu_slot` and `rpu_*`; each is a complete pass through the function,
eviction of an idle base included. The operators keep the code's names where they
stand for one function. What libdfx, configfs, sysfs and remoteproc answer is an
outcome chosen from `Programmed` and `remove_overlay_dir`; `MayFail` says whether
failures occur. A failed full configuration may leave the old design or nothing
known (`Unknown`); `fabric` is a conservative reading of that.

Abstractions: names and regions are values, files are present or not
(`slot_dirs`, `dtbo`, the request kind `"incomplete"`), the CMA path, AES key,
fpga state text and VART environment file are left out. `fpga_cfg_id` is not a
variable: it is non-zero exactly for a base that libdfx loaded, which is what
`unload_accel_base` depends on. An `accel_list[]` entry always has its base's path
as `parent_path`, so the path comparisons of `load_accelerator_core` compare bases.

### `Discovery` and the code

Three actors: the installer (external: what a package manager does to the file
system, with the inotify events the kernel queues for watched directories), the
inotify thread (`threadFunc`) and the request thread (`listAccelerators`,
`load_accelerator`, `load_accelerator_by_id`, which call `firmware_dir_walk`).

| Variable | Code |
|---|---|
| `fs`, `file`, `queue` | the disk and the kernel's queue of events |
| `batch` | the events of one `read()` not handled yet; a `break` empties it (`drop_batch`) |
| `db.watch`, `db.bases` | `active_watch[]`, `base_designs[]` with `accel_list[]` |
| `rescan`, `dirty` | `firmware_rescan_pending`, `pkg_listing_dirty` |
| `req`, `walk` | where the request thread is; directories the walk has still to visit |
| `shown`, `loaded` | the rows of the last listing; the loaded package |

One action per branch of `threadFunc`: `dir_created`, `shell_written`,
`accel_written`, `handle_pdi_event`, `other_file`, `dir_removed`, `dir_moved_in`,
and `unknown_watch` for an event of a watch that is gone. A walk visits one
directory per step (`accel_dir_add`), and registering what it found there is a
second step (`register_base`): an event can come in between, as it can between
`assign_list_ids()` and `pkg_listing_dirty = false` (`list_ids`, `ListOrder`). A
handler of one event is one step: finer interleavings of the two threads inside a
handler, and torn strings, are not modelled.

### `DfxMgrd` and the code

`srv` is the daemon's descriptor set, `ready` the set `select()` returned, visited
in ascending order (`Rest`); `serving` is a request that was carried out and whose
reply is not written yet, so the daemon can be stopped in between. A connection is
a client and a number; the command line client makes one per call, the library
leaves its connections open (it never closes them). `done` records for each call
what the daemon did for it. A load takes a handle or fails; `version` is the
numbering of the packages, which `packages_change` and a user load advance. What the
kernel does is assumed: the number of a new socket is one nobody uses (`Unused`,
`FreeFds`), a `SEQPACKET` write to a closed peer fails, and the end of a connection
with an unread request is an error at the client.

### `RpuRpmsg` and the code

`fw`, `ctrls`, `chans`, `epts` are the kernel's: the running firmware, control
devices, channels, endpoint devices. `slots` is `base->slots[]` with
`rpmsg_ctrl_dev_name`, `virtio_num` and `rpmsg_dev_list`; `freed` is what a freed
slot left in memory, which the next `malloc()` may return (or zeroes): that is how
an uninitialised `virtio_num` is modelled. A request is one step; the directory is
read in any order. Channel names are values; `service` and `prefix` of the
setting say which share a service and which begins which. Assumed of
the kernel: endpoint devices are children of the control device they were made
with (6.0 or later) and go with it. An endpoint that was created is found again: that
the lookup after the creation fails (`rpu_helper.c:245`) is left out.

### `AcapdDma` and the code

`shm` and `node` are the buffers and the ONE list node of the device with which
`acapd_device_attach_shm()` links a buffer: `shm[b].ref` says whether the buffer's
list leads to it, `node` whose list it leads back to. `dev` is `ops`, `priv`,
`refs` and the VFIO group; `mmaps` is `vdev->mmaps` in order, `iommu` what the
kernel has mapped; `hw` the engine. A call is a chain of operators on a record of
these (`Then`), as the code is a chain of calls that return on error. A page has
two bytes and addresses are small, so that buffers of one and of two pages
(`Lifecycle`, `Reliable`) and an unaligned one can be told apart. The unmap ioctl is
called with a structure where the kernel expects its address; `setup.unmap` says how
that may end.

The engine is external. Assumed of it (`dma_end`): a transfer ends, in success or, where
`setup.may_fail` has `"transfer"`, in an error; on an error it clears the run bit of
the channel (DMACR.RS of the AXI DMA) and halts it until it is reset. A transfer given
to a channel in that state is never begun (`axidma_transfer`, `mcdma_transfer`).
`axidma_vfio_dma_poll` looks at the run bit before it looks for errors, so it takes
such a channel for an idle one.

### `AcapdAccel` and the code

`accel` holds `status`, `is_cached`, `load_failure`, `fpga_cfg_id`, whether
`ip_dev[]` is known, whether the channels are known and open, and `tmp_dir`; `cfgs` is
what became of each libdfx configuration; `bound`, `fds`, `va` are drivers bound,
descriptors open and devices mapped, of the devices in `ip_dev[]`. `vfio` says whether
the process has the VFIO group of the DMA device open: `acapd_dma_open` opens it, and
nothing closes it, as `sys_close_accel` closes the channels and
`acapd_vfio_device_close` none of the descriptors. `load_accel` is the chain
`acapd_parse_config`, `sys_fetch_accel`, `sys_load_accel`; the fault chosen is the step
that fails, at any of the devices (`LastTried`), and what the steps before it did
stays. Transfers over the channels are in `AcapdDma`.

An operator whose comment starts with "Faulty" is not part of the model. It is a
slip put in place of the operator that follows it, to see that the property named
in `PROJECT.json` fails.

## Runs

### Requests (`MCDfxDaemon`, `MCDfxDrain`)

Instances: at most three packages (a flat one; a PL_DFX one of two slots that
loads its base; a PL_DFX one of one slot that does not, with an AIE accelerator;
RPU packages of both directory structures), accelerator names shared between
packages and with a user bitstream, three handles, one overlay region, one to
three user entries. Three handles are fewer than the designs that fit, so the
table does run out; two slots are enough for a first-fit choice and for an
accelerator that fits only one of them; a second region would add symmetric
states only.

| Run | Checks | Result |
|---|---|---|
| `pl_user` | types; `HandleTable`: used handles are exactly those of what is loaded, none twice; `ActiveCounts`: the counter is the number of designs; `PartialAccounting`: Partials only on their Full or an external base, counted exactly; `RegionOwner`: a recorded region has its overlay and one owner; `BaseStable`: no base exchanged under a design | holds, 88533 states, all failures enabled |
| `rpu_mix` | PL slots, RPU slots and a user entry together: `OnlyActiveHolds`: designs sit only where unload looks; `SlotsAllocated`: no handler indexes a freed array; `ImplementsPool`: refinement of `HandlePool`, so no request disturbs the design of another handle | holds, 6636 states |
| `zynq` | on the user load path: `FabricMatches`, the active base is what the PL holds, with nothing failing | holds, 34086 states |
| `drain` | liveness: everything can be unloaded | holds under weak fairness of each `UnloadHandle(h)`, 83792 states |
| `by_id` | comment: loading by ID is not ambiguous | violated |
| `zynq_reload` | README: the base is loaded on demand | violated |

### The other components

One run per component. What the runs vary (directory trees, engines, kinds of
firmware, clients, what may fail) is a variable that every behaviour chooses first
and keeps, from a set the `MC` module names; so one run covers all of them and a
property that holds for some only says which, in its precondition. Each precondition
is one the code makes necessary; what happens without it is under *Disagreements*.

**`discovery`** (`MCDiscovery`, 610578 states). The tree is a package `b1` with
an accelerator `a1` of two slots and an accelerator `a2` of one, a flat package `b2`,
and an RPU package `r1` with two numbered slots. A site says which directories exist,
which are installed at boot, what the installer does and how often (two to five
operations), how many events one `read()` returns and what is requested.

| Site | What happens there |
|---|---|
| `MovedVersal`, `MovedJson` | whole packages moved in and out (JSON: also deleted), with listings, loads by name and ID and unloads; Versal with two events per read |
| `DeletedVersal`, `ListedVersal` | whole packages also deleted, with listings: a base of two accelerators, one event per read; two flat bases, two events per read, loads by ID |
| `GrowJson`, `GrowVersal` | an accelerator appears piece by piece in an installed package: directories made, files written or renamed into place |
| `TwoAccels` | a second accelerator grows beside an installed one, whose files and directories go and come |
| `NewBases` | bases built up in place and deleted, Versal |
| `Firmware` | RPU firmware files and slot directories come and go |
| `Rewritten` | files and directories of JSON packages deleted and made again |
| `SmallTables` | more directories than `MAX_WATCH` |

| Property | Says | Where |
|---|---|---|
| `NothingMissed` | when nothing is under way every complete package has its row | the tables have room (`Room`, `PackagesFit`), no event is dropped with its batch (`EventsKept`), `ShellsWithBase` |
| `NothingExtra` | every row is of something installed | `Room`, `EventsKept`, Versal slots come with their base (`SlotsWithBase`), no single file or directory is deleted |
| `NoDuplicates` | no accelerator has two rows | on Versal one accelerator per base (`OneAccel`) |
| `CleanIdsCurrent` | with the dirty flag clear an ID the last listing showed names what it showed, or nothing | only listings walk; Versal with whole packages, or no removals and one accelerator (`RowsNumbered`) |
| `SlotCountCurrent` | a listed Versal base has as many slots as its directories need | `Room`, `EventsKept`, `SlotsWithBase` |
| `WatchesResolved` | no kernel watch is unknown to the table | everywhere, also with the table full |
| `ListingConverges` | from some time on listings show exactly the disk | whole packages, `Room`, `EventsKept` |

**`removed_in_use`** (`MCDiscovery`): deleting the package of a loaded accelerator;
README: a slot handle is used for unload. Violated.

**`server`** (`MCDfxMgrd`, 283715 states). Hosts: `Busy` (two clients keep a socket
activated daemon busy), `Faults` (clients interrupted and the daemon stopped and started
at any point, two descriptors), `Ids` (one client names packages by ID while they
change), `Linked` (a program that uses the library, with fewer descriptors than
connections, backlog 2).

| Property | Says | Where |
|---|---|---|
| `NeverRefused` | no call is refused or ends unanswered | command line client, socket activation, nobody stopped, descriptors for all |
| `SuccessMeansDone` | success is reported only for what the daemon did for this call | command line client |
| `StaleIdWarned` | an ID of an old numbering is answered with the warning | one client, a daemon that keeps running |
| `CallsReturn` | every call returns, however busy the others are | command line client, once connected: a `connect()` that waits for room in the backlog is not counted |
| `GoneIsClosed` | the descriptor of a client that has gone is given up | everywhere |

**`rpmsg`** (`MCRpuRpmsg`, 443513 states). Two RPUs, one or two channels, three or
four creations and deletions: enough for a channel to go and come back between two
listings while another stays. Settings: `TwoChannels` (endpoints that cannot be set up),
`OneService` (two channels of one service), `StartsWith` (a name that starts another),
`AllKinds` (late firmware, firmware without rpmsg, firmware that cannot be stopped).

| Property | Says | Where |
|---|---|---|
| `OwnDevices` | a slot's number is that of its own firmware | control devices made in time, firmware stopped on unload |
| `ListCurrent` | a reply names exactly the channels that the slot's number has at that moment, but for those just failed | no name starts another |
| `EndpointOfChannel` | the recorded device is an endpoint of that channel on the slot's own control device | as `OwnDevices`, one channel per service |

**`dma`** (`MCAcapdDma`, 313729 states). Two buffers, two address ranges, both channels,
pages of two bytes. Setups: `Transfers` (AXI DMA, callers that only transfer, errors),
`Detached` (attach and detach, an unmap that fails, an engine slow to start),
`Lifecycle` (allocate, free, reset, a buffer of two pages), `Reliable` (an AXI DMA that
meets no error, a buffer of two pages), `Descriptor` (MCDMA with one descriptor in its
page).

| Property | Says | Where |
|---|---|---|
| `TransferReachesBuffer` | a transfer under way has addresses that lie in one mapping of its buffer | callers that free no buffer |
| `RefsCountChannels` | the device is open exactly while a channel is, and counts them | everywhere |
| `MappingsReal` | a mapping the library keeps is the kernel's, and none overlap | everywhere |
| `LinkedIsMapped` | a buffer whose list leads to an open device is mapped | AXI DMA, attaching left to the transfers |
| `AddressFound` | the address search never ends on a taken one | buffers of one page, none unmapped before the close, where unmapping succeeds |
| `WaitMeansDone` | a waiting call that succeeds has moved its data; with an engine that may meet errors, its transfer is over | AXI DMA that starts at once |
| `CallReturns` | a waiting call returns | an engine that sees the transfer |

**`accel`** (`MCAcapdAccel`, 9556 states). An object loaded, mapped, its channels
opened, removed and loaded again, up to four configurations and three temporary
directories. Packages: `Archive`, `Design` (no devices), `Driver` (devices that need
their driver), with faults up to the load and in opening channels; `AnyFault`; `Stuck`
(a removal libdfx refuses); `Environment` (`ACCEL_CONFIG_PATH`); `Paths` (the same with
`ACCEL_IPn_PATH`, so that devices are neither bound nor looked up).

| Property | Says | Where |
|---|---|---|
| `UnloadedIsClear` | while the object says UNLOADED nothing of it is in the PL | devices open, or `ACCEL_CONFIG_PATH`; libdfx removes |
| `RemovedIsGone` | a removal that reports success leaves no design, no open channel and no device of `ip_dev[]` open; VFIO descriptors of the channels are not counted | devices open without a driver to bind, libdfx removes, no `ACCEL_CONFIG_PATH` |

### Fairness and deadlock

* `drain`: a client repeats its unload of handle `h` until the handle is free, and
  the select loop reads every socket that has a message, so a request that stays
  possible is eventually served. Nothing is assumed about loads.
* `Discovery!FairSpec`: each of the two threads keeps running while it has
  something to do; a file being written is completed; and somebody asks for a
  listing again and again (strong fairness, because the request thread is busy with
  other requests in between). Without the last no listing could converge.
* `DfxMgrd!FairSpec`: the daemon's thread runs, a client in a call goes on, and the
  daemon is started again after it stopped (systemd). Clients are not obliged to
  call, nor are they ever interrupted by obligation.
* `AcapdDma!FairSpec`: a call that waits goes on polling, and the engine ends every
  transfer it was given, in success or in an error; nothing else.

Deadlock is checked but in `dma` and `rpmsg`. In `dma` a process that hangs in a free
or has crashed is the end; in `rpmsg` firmware that cannot be stopped on both RPUs,
with the bound on channel changes used up, leaves nothing to do.

## Disagreements

Three are runs of their own, with the quoted sentence and the line under `findings` in
`PROJECT.json`: `by_id`, `zynq_reload`, `removed_in_use`. The others were met while
modelling. The models contain them all: drop the precondition named here, add the
instance or state the property, and TLC finds the behaviour.

| Code | What it does | Left out by |
|---|---|---|
| `daemon_helper.c:225` | with all handles used a design is installed with handle -1, and no unload by handle or name reaches it | `NoHandle` in `HandleTable` |
| `daemon_helper.c:321` | a flat load over an idle DFX base that fails half way leaves `active_base` at a base the PL no longer holds (it then holds nothing known: `FabricKept`) | `MayFail = FALSE` in `zynq` |
| `daemon_helper.c:726` | unload by name looks at RPU slots and user entries before PL slots; the comment at 844 says PL first | no property about the order |
| `daemon_helper.c:1136` | one dirty flag for all clients: a listing by another clears the warning, and so does one sent to a client that was interrupted; the flag is in memory, so a daemon started again does not warn of IDs it listed before | one client and `KeepsRunning` in `StaleIdWarned` |
| `daemon_helper.c:1136` | a package moved in between the start of a listing and `pkg_listing_dirty = false` leaves the rescan flag set and the dirty flag clear: a later load by name registers it, in an entry that kept an old `list_id`, and an ID the listing showed names another package unannounced | no loads by name in `RowsNumbered` |
| `daemon_helper.c:1063` | on platforms with JSON packages a `shell.json` completed between the numbering and the clearing of the flag can add several rows of ID 0 to the printed listing | one accelerator in `RowsNumbered` |
| `daemon_helper.c:1283` | with the watch table full the scan of a base stops: it has fewer slots than its directories, or is taken for a flat one | `Room` |
| `daemon_helper.c:1471` | a slot that cannot be read clears the whole entry, and the hole is filled with a duplicate | `OneAccel` in `NoDuplicates` |
| `daemon_helper.c:1648` | removal keeps `list_id`; installed again, the package answers to its old ID unannounced | no removals, or whole packages on Versal, in `RowsNumbered` |
| `daemon_helper.c:1747` | a slot directory seen before its base has a PDI is taken for a base; and a base whose last slot PDI is deleted is not listed as the flat one it now is | `ShellsWithBase` |
| `daemon_helper.c:1762` | a slot added later does not raise the slot count | `SlotsWithBase` |
| `daemon_helper.c:2253` | an event of a directory already watched drops the rest of its batch | `EventsKept` |
| `daemon_helper.c:2272` | a `shell.json` of a directory not registered yet is not followed by a walk | `ShellsWithBase` |
| `daemon_helper.c:2316`, `2362` | a deletion reported to a watch already removed, or a directory moved in that is no known base (JSON), ends the loop: the rest of the batch is lost, a package moved in by it is never listed and one moved out or deleted stays listed | `EventsKept` |
| `daemon_helper.c:2314`, `2320` | deleted firmware files and accelerator directories stay listed | no `rmfile`, `rmdir` in `NothingExtra` |
| `dfxmgr_client.c:40` | the library leaves every connection open: the daemon runs out of descriptors and exits, and calls under way end unanswered | `KeepsRunning` in `NeverRefused` |
| `dfxmgr_client.c:49` | the library takes the end of the connection for handle 0 | `Library` in `SuccessMeansDone` |
| `rpu.c:455` | firmware without rpmsg keeps the `virtio_num` that `malloc()` returned | `InTime` |
| `rpu_helper.c:56` | endpoints are looked up by service name alone | `IsInjective(Service)` |
| `rpu_helper.c:372` | a channel whose name starts a recorded one counts as recorded | `Prefix = {}` |
| `acapd-vfio-common.c:160` | closing a device keeps its container, group and device descriptors open: a removed accelerator leaves them behind, and in the same process its channels cannot be opened again | `RemovedIsGone` counts devices of `ip_dev[]` only; no property about reopening |
| `acapd-vfio-common.c:236` | a mapping larger than an old one is put onto it | `OneSize` |
| `dma-axidma-vfio.c:162`, `178` | the poll looks at the run bit before the error bits; an error clears the run bit, so a wait for data that was not moved ends in success | `"transfer" \in MayFail` in `WaitMeansDone` |
| `dma-mcdma-vfio.c:121` | descriptors that do not fit the page are written behind it | a possible crash (`fate`), which ends the behaviour |
| `dma.c:123` | a stalled MCDMA transfer counts as complete | AXI DMA in `WaitMeansDone` |
| `shm.c:30`, `shm.c:33` | freeing an attached buffer may never return, and leaves it mapped: a buffer that gets its address is taken for it, and a transfer reaches the old memory | no `free` in `TransferReachesBuffer`; a hang ends the behaviour |
| `device.c:57`, `device.c:60` | attaching before the first open maps nothing; the one list node is taken from buffer to buffer | `OnlyTransfers` |
| `accel.c:102` | with `ACCEL_CONFIG_PATH` the devices are never closed | `~EnvConfig` in `RemovedIsGone` |
| `accel.c:107` | `is_cached` is never cleared, the next load hands over a destroyed configuration | no property: the load fails |
| `sys/linux/accel.c:212`, `215` | a device that does not open leaves the design in the PL with status UNLOADED, and a retry loses descriptors | `DevicesOpen` |
| `sys/linux/accel.c:302` | a removal that failed is reported as success | `CfgsGo` |
| `generic-device.c:83` | binding a driver loses a descriptor per device | `NoDriver = {}` |

## Proofs

TLC checks the instances above; the theorems hold for every value of the constants
that satisfies the named assumptions. All of them are proved down to the leaves by
`tlapm`. Where a property has a precondition (`KeepsRunning`, `InTime`, ...) the
theorem has it too: it is part of the property the run checks.

### Requests (`DfxDaemonProofs`, `DfxHandleProofs`, `DfxPoolProofs`)

| Theorem | States | Shows |
|---|---|---|
| `TypeCorrect` | `TypeOK` | tables keep their types; `active_base` is never an RPU package |
| `RegionsOwned` | `RegionOwner` | a recorded region has its overlay and one owner |
| `HandleTableExact` | `HandleTable` | the handle table marks exactly the handles of what is loaded, no two designs share one |
| `HoldersActive` | `OnlyActiveHolds` | occupied slots belong to an active base and can be found by handle |
| `ActiveExact` | `ActiveCounts` | `base->active` counts the designs in the base's slots |
| `PartialsCounted` | `PartialAccounting` | a user Full counts its Partials |
| `SlotsAllocatedAlways` | `SlotsAllocated` | no array is used after it was freed |
| `BaseNeverExchanged` | `BaseStable` | no request exchanges the base under a design it leaves loaded |
| `PoolImplemented` | `ImplementsPool` | `DfxDaemon` implements `HandlePool` |
| `FabricKept` | `FabricKnown` | whatever fails, the PL holds the active base or nothing known, never another design; a PL_DFX package that does not load its base design is the exception, its base is managed elsewhere |
| `FabricMatched` | `FabricMatches` | with nothing failing the PL holds the active base, on any platform |

None of the handle properties is inductive alone. `HandleTable` survives the eviction
of a base only if the base holds no handle, and the code concludes that from
`active = 0`: so `ActiveCounts` is needed. `active_base` may change only when the PL
slots are empty, which again follows from the counters, and only for the active base:
so `OnlyActiveHolds` is needed, with the fact that a flat package uses slot 0 alone
(its unload clears `active_base` without looking at other slots). For a user Full the
counter is that of its Partials, and a package is loaded only when there are none.
The invariant `IInv` is the conjunction; `IInvStep` takes it through each request,
`Inductive` is the induction. The proof of each action reduces it to one of a few
kinds of step: nothing changes hands (`QuietStep`), a slot is taken (`PlLoad`,
`LoadRpuInv`) or given back (`SlotUnload`), a user entry is registered
(`UserLoadAdds`) or given up (`UserUnloadInv`). `DfxPoolProofs` uses the same kinds:
each step that changes hands acquires the lowest free handle or releases one
(`HandlePool`), and each that exchanges the base finds nothing on the PL that stays
(`BaseStable`). `RegionOwner`, which is about boards without the Zynq user load path,
is inductive with the types alone.

Assumptions: the packages fit the table and have no more accelerators than
`RP_SLOTS_MAX`; slot counts are at most `SlotsMax`; a flat package has one PL slot and
an RPU package no AIE slots (what `initBaseDesign`, `pdi_classify_base` and
`parse_packages` establish); `NULL` is no directory, slot record or place in the
tables; the user load path is Zynq's, which is not ZynqMP.

### Server and clients (`DfxMgrdProofs`)

| Theorem | States | Shows |
|---|---|---|
| `ServerTypes` | `TypeOK` | each connection has one descriptor or one place in the backlog |
| `SuccessDone` | `SuccessMeansDone` | success is of what the daemon did for this very call |
| `CallsAccepted` | `NeverRefused` | no call is refused or left unanswered while the daemon keeps running |
| `StaleWarned` | `StaleIdWarned` | an ID of an old numbering is answered with the warning |

Connection numbers are used again, so a reply may be that of an earlier call. What
excludes it (`CallInv`): a connection has one place, a client in a call waits on a
connection of its own, and at most one request, request in service or reply exists per
connection, which is for the call under way. `NeverRefused` adds that the command line
client has no other connection open (`ClosesOwn`), so that descriptors suffice, and
that the daemon does not close that of a call (`KeepsConn`). `StaleIdWarned` adds that
the dirty flag is set, or the current listing on its way, while the client knows an
older numbering (`FlagSet`), and that this stays true of the request in service. The
proofs need `KeepsRunning`; the states that violate the two properties without it are
under *Disagreements*.

Assumptions: finitely many clients, at least one connection for each, `NULL` is none
of them.

### RPU rpmsg devices (`RpuRpmsgProofs`)

| Theorem | States | Shows |
|---|---|---|
| `RpmsgTypes` | `TypeOK` | no list has a channel twice |
| `DevicesOwn` | `OwnDevices` | a slot's number is that of its own firmware |
| `EndpointsOfChannels` | `EndpointOfChannel` | the recorded device is an endpoint of that channel |
| `ListsCurrent` | `ListCurrent` | a reply names exactly the channels of that moment |

`RpmsgInv` says, for firmware in time, that numbers are owned by the slot that runs
the firmware and that no two slots share one (`Own`), and for one channel per service
that the endpoints recorded exist (`Endpoints`). `update_rpmsg_dev_list` is a loop over
the directory in any order; `UpdInv` is its invariant, at each visit, for the list, the
endpoints made so far and the channels that failed.

Assumptions: finitely many slots and channels, `NULL` is none of them.

### DMA (`AcapdDmaProofs`)

| Theorem | States | Shows |
|---|---|---|
| `DmaTypes` | `TypeOK` | library, kernel and engine keep their types |
| `RefsCounted` | `RefsCountChannels` | the device is open exactly while a channel is |
| `MappingsKept` | `MappingsReal` | kept mappings are the kernel's, none overlap |
| `TransfersReach` | `TransferReachesBuffer` | a transfer lies in a mapping of its buffer |
| `LinkedMapped` | `LinkedIsMapped` | a buffer linked to the open device is mapped |
| `AddressesFound` | `AddressFound` | the search ends on a free address |
| `WaitsDone` | `WaitMeansDone` | a wait that succeeds has moved its data, or, where errors occur, ended with its transfer |

A call is a chain of operators on the record of the library's state, so the invariant
is one of that record, `LibInv(s)`: each operator keeps it, a chain keeps it whichever
link fails, and an action is a chain that starts at `Now`. The parts with a
precondition are carried only under it: mappings of buffers are of the memory they
have now (`Keeping`), links are of mapped buffers (`Attaching`), and mappings of one
page lie in the order of the list with no gap (`Paging`), which is why one pass
over the list finds a free address. `WaitMeansDone` needs that the channel a caller
waits for has begun its transfer, and is in error only if the engine may meet one
(`Waiting`).

Assumptions: a page has at least one byte; the descriptor page is not one of the
buffers.

### Accelerator objects (`AcapdAccelProofs`)

| Theorem | States | Shows |
|---|---|---|
| `AccelTypes` | `TypeOK` | in use only if cached, cached only with a configuration; no more descriptors are closed than are open |
| `UnloadedClear` | `UnloadedIsClear` | UNLOADED means nothing in the PL |
| `RemovedGone` | `RemovedIsGone` | a removal that reports success leaves no design, open channel or open device of `ip_dev[]` |

`AccelInv`: mapped devices are open (`MappedOpen`), with `ACCEL_CONFIG_PATH` the object
never leaves UNLOADED (`EnvUnloaded`), without it channels are open only while the
object is in use (`ChnlsClosed`), only the object's own configuration is loaded and then
the object says so (`OnlyLoaded`), and the descriptors open are those of mapped devices
(`NoLeak`), the last two under the preconditions of the properties. The steps of a load
are taken one by one, with each fault.

Assumptions: of the packages, that devices without driver are devices; bounds are
numbers.

### Discovery (`DiscoveryProofs`)

| Theorem | States | Shows |
|---|---|---|
| `DiscoveryTypes` | `TypeOK` | the tables the two threads share keep their types |
| `WatchesKnown` | `WatchesResolved` | every kernel watch is known to the table under its directory |
| `NoRowTwice` | `NoDuplicates` | no accelerator has two rows, whatever the installer does, in pieces or as a whole |
| `PackagesListed` | `NothingMissed`, where packages are `Whole` | a settled daemon lists every installed package |
| `OnlyPackagesListed` | `NothingExtra`, where packages are `Whole` | and nothing else |
| `SlotsCounted` | `SlotCountCurrent`, where packages are `Whole` | a listed Versal base has the slots its directories need |
| `IdsCurrent` | `CleanIdsCurrent`, on Versal where packages are `Whole` | while the dirty flag is clear, an ID shown names what was shown or nothing |

The tables are changed by helpers that both threads call, so the invariants are about
values `t` of the tables. Each helper keeps them, the scans of sub-directories
included, and so does every event and every step of a walk, whatever the other thread
did in between. There are four.

* `DiscoveryInv` has `Sound(t)`: types, no entry for the firmware root itself, and
  watches resolved. It holds everywhere; the others rest on it.
* `RowsInv` is for `NoDuplicates`. `add_accel_to_base()` looks for a name and path up
  to the first free entry only, so lists must have no holes and no pair twice
  (`Chained`). That needs more than the list: the base's own path may only be its first
  row and all others are directories in it, no entry may be taken out of the middle,
  and an event must be handled for the directory it is about, although entries of
  `active_watch[]` are given away again. So every watch entry knows its
  place in the tree (`Placed`), descriptors are not used twice (`Watching`), and every
  event still queued or in the batch was sent to a descriptor that belongs to the
  directory it is about or to nobody (`Told`).
* `WholeInv` is for settled states: for every difference between disk and tables it
  says what is still to come that will remove it (`Known`). A package on disk has a
  fresh entry, or the rescan flag is set, its arrival is queued, or the walk has it
  before it; a package gone whose entry has rows has its removal queued; a removal
  queued for a package that is back is followed by its arrival (`Returns`). An entry
  is fresh when its rows and its slot count are what a scan of the whole package finds
  (`FreshEntry`), which is a theorem about the scan (`Want`). When nothing is under way only
  the first alternative is left. The proof is for `Scope`: packages `Whole`,
  `Room` in the table, `EventsKept`. The properties have the last two themselves.
* `ListingInv`: while the flag is clear and no request is served, the last listing is
  of the tables as they are and IDs are unique (`Current`); from the numbering to the
  printing they stay unique. It needs no condition on events, room or batches: every handler that
  changes a row sets the flag, and only listings walk.

Assumptions: finitely many directories, each with one place below the root that agrees
with what it holds (`ShapeAssumption`: a base or RPU package at the top, accelerators in
bases, slots in accelerators, numbered slots in RPU packages); a site has the parents of
its directories (`SiteAssumption`); every directory has a description of what its
`shell.json` would say; at least one watch fits the table; `NULL` is no directory or
file name (`TreeAssumption`).

### What the prover cannot do

Loops (`update_rpmsg_dev_list`, the address search, the directory scans) are recursive
functions on an index. There is no induction rule the provers can apply to them; where
a fact is needed of every index, the proof takes the least index at which it fails
(`Least`) and refutes it from the one before. Nothing is proved about the value of a
recursive definition beyond such facts.

Only model-checked:

* liveness under fairness: `Drained`, `ListingConverges`, `CallsReturn`,
  `GoneIsClosed`, `CallReturns`;
* `NothingMissed`, `NothingExtra` and `SlotCountCurrent` of `Discovery` where packages
  appear piece by piece (`GrowJson`, `GrowVersal`, `TwoAccels`, `NewBases`,
  `Firmware`, `Rewritten`, `SmallTables`):
  there a difference between disk and tables may wait for a file event, for its
  writer, or for a directory event whose handler finds the parent unknown, and the
  invariant needs one more alternative for each order of them;
* `CleanIdsCurrent` with JSON packages, or on Versal where packages grow: IDs are then
  unique because at most one row is
  ever added to a listing, which is a statement about the history of the tables and
  not about a state of them;
* the three violations.

## Not modelled

* The text of JSON files (`jsmn.h`), the bits of a PDI (`pdi_parse.c`) and the board
  EEPROM (`eeprom.c`): pure decoding, no state after it returns. What the readers do
  to the objects, and that they may fail, is in `Discovery`, `AcapdAccel` and
  `AcapdDma`.
* In `Discovery`: accelerators one level below their base, the RPU structure with a
  directory per firmware (both in `DfxDaemon` as far as requests go), names with
  `.dpkg-new`, an overflow of the kernel's queue, the IDs of user bitstreams.
* In `AcapdDma`: a `max_buf_size` of 0, which the code does not guard against (more
  descriptors than fit the page are modelled, as a possible crash); transfers of no
  bytes; programs that detach or free a buffer while a transfer uses it. The memory of a channel's descriptor page
  and the descriptors of the VFIO driver's own bind are not counted.
* In `DfxMgrd`: descriptors the library leaves open after a failed connect, and
  malformed messages.
* UIO paths of PL slots, readback, the columns of the listing: read-only formatting.
* The bare-metal port and the example programs: not part of the daemon.

## Plan

Done: `DfxDaemon`, `HandlePool`, `DfxDrain`, `Discovery`, `DfxMgrd`, `RpuRpmsg`,
`AcapdDma` and `AcapdAccel`; every safety property a run checks is stated by a
theorem, four of `Discovery`'s with the additional condition given above.

What could follow:

1. `WholeInv` for packages that grow: the alternatives of `Known` for single
   directories and files, `GrowVersal` first, where every file asks for a rescan or is
   handled at once.
2. `CleanIdsCurrent` with JSON packages and with growing ones, with a history variable for the rows added
   since the last numbering.
3. In `Discovery`, accelerators one level below their base and the RPU structure with a
   directory per firmware.
