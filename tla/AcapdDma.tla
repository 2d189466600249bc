------------------------------ MODULE AcapdDma ------------------------------
(***************************************************************************)
(* Shared memory buffers and the DMA channels that move them               *)
(* (src/src/shm.c, dma.c, device.c and, for Linux, sys/linux/shm.c,        *)
(* device.c, acapd-vfio-common.c, dma-axidma-vfio.c, dma-mcdma-vfio.c).    *)
(*                                                                         *)
(* An accelerator has a channel to the stream and one from it; both are on *)
(* one DMA device, as parseAccelJson() sets them up.  One thread calls the *)
(* library; the DMA engine, which the library polls, runs beside it.       *)
(* acapd_accel_write_data() and acapd_accel_read_data() open the channel,  *)
(* attach the buffer, check that the channel is ready and start the        *)
(* transfer; nothing they look at until then depends on when another       *)
(* transfer ends, so they are one step.  Waiting for the end is another.   *)
(*                                                                         *)
(* Two pieces of shared state are easy to get wrong: a device has ONE list *)
(* node with which every buffer attached to it is linked, and device       *)
(* addresses are found in one pass over an unsorted list of mappings.      *)
(*                                                                         *)
(* A setup is an engine with its configuration and what its caller and the *)
(* system below do.  Behaviours of all Setups are considered; a behaviour  *)
(* stays with the one it starts with.                                      *)
(*                                                                         *)
(* Callers pass at least one byte, and do not detach or free a buffer      *)
(* while a transfer uses it.                                               *)
(*                                                                         *)
(* An operator whose comment starts with "Faulty" is no part of the model: *)
(* it is a slip the code could contain, put in place of the operator that  *)
(* follows it to see that the properties notice.                           *)
(***************************************************************************)
EXTENDS Integers, Sequences, FiniteSets, SequencesExt

CONSTANTS
    Bufs,          \* acapd_shm_t objects of the caller
    Vas,           \* address ranges mmap() may return
    PAGE,          \* bytes of a page
    Setups,
    NULL

FaultKinds == {"bind", "vfio", "slow_start", "transfer"}
OpKinds == {"alloc", "free", "attach", "detach", "write", "read", "complete",
            "reset", "close"}

Setup ==
    [engine: {"axidma", "mcdma"},     \* HWType in accel.json
     size: [Bufs -> Nat \ {0}],       \* bytes with which each buffer is allocated
     max_buf_size: Nat \ {0},         \* in accel.json: bytes of a descriptor
     bds: Nat \ {0},                  \* descriptors in the page allocated for them
     unmap: SUBSET BOOLEAN \ {{}},    \* how the unmap ioctl may end (see UnmapOk)
     may_fail: SUBSET FaultKinds,     \* faults of the system
     ops: SUBSET OpKinds,             \* calls the caller makes
     max_pages: Nat,                  \* bound: memory ever allocated
     max_maps: Nat]                   \* bound: mappings of the device

ASSUME DmaAssumption ==
    /\ PAGE \in Nat \ {0}
    /\ "bd" \notin Bufs \cup Vas /\ NULL \notin Bufs
    /\ \A s \in Setups : s \in Setup

Chnls == {"tx", "rx"}
Other(c) == IF c = "tx" THEN "rx" ELSE "tx"

VARIABLES
    setup,   \* the setup
    shm,     \* each buffer: allocated, its va, its memory, and whether
             \* shm->refs leads to the device's list node
    node,    \* the list the device's node leads back to: that of a buffer, of
             \* a descriptor page ("bd", a dead stack frame), or none
    dev,     \* ops set, priv set, refs, and whether the process holds the
             \* VFIO group open
    mmaps,   \* vdev->mmaps, in list order
    iommu,   \* mappings the kernel has for the container
    open,    \* chnl->is_open
    hw,      \* the engine: run bit and state of each channel, and the
             \* transfer it works on
    call,    \* the call that waits in acapd_dma_poll(), or NULL
    ret,     \* how the last call ended
    pages,   \* memory allocated so far
    fate     \* "ok", "hang" (a list walk that cannot end) or "crash"

vars == <<setup, shm, node, dev, mmaps, iommu, open, hw, call, ret, pages, fate>>

Engine == setup.engine
Size == setup.size
MayFail == setup.may_fail
Ops == setup.ops
MaxPages == setup.max_pages

States == {"halted", "fresh", "busy", "done", "error"}
Rets == {"ok", "EINVAL", "EBUSY", "clash"}

align_up(n) == ((n + PAGE - 1) \div PAGE) * PAGE

\* One conjunct per variable.
TypeOK ==
    /\ setup \in Setups
    /\ shm \in [Bufs -> [live: BOOLEAN, va: Vas \cup {NULL}, mem: 0 .. MaxPages,
                         ref: BOOLEAN]]
    /\ node \in Bufs \cup {"bd", NULL}
    /\ dev \in [ops: BOOLEAN, priv: BOOLEAN, refs: 0 .. 2, group: BOOLEAN]
    /\ mmaps \in Seq([va: Vas \cup {"bd"}, da: Nat, size: Nat])
    /\ \A m \in iommu : m \in [da: Nat, size: Nat, mem: 0 .. MaxPages]
    /\ open \in [Chnls -> BOOLEAN]
    /\ \A c \in Chnls : hw[c].run \in BOOLEAN /\ hw[c].st \in States
    /\ call = NULL \/ call.op \in {"write", "read", "complete"}
    /\ ret \in Rets
    /\ pages \in 0 .. MaxPages
    /\ fate \in {"ok", "hang", "crash"}

Idle == [run |-> FALSE, st |-> "halted", da |-> 0, len |-> 0, mem |-> 0, off |-> 0]

\* parseAccelJson() allocates the device and its channels with calloc().
Init ==
    /\ setup \in Setups
    /\ shm = [b \in Bufs |-> [live |-> FALSE, va |-> NULL, mem |-> 0, ref |-> FALSE]]
    /\ node = NULL
    /\ dev = [ops |-> FALSE, priv |-> FALSE, refs |-> 0, group |-> FALSE]
    /\ mmaps = <<>> /\ iommu = {}
    /\ open = [c \in Chnls |-> FALSE]
    /\ hw = [c \in Chnls |-> Idle]
    /\ call = NULL
    /\ ret = "ok"
    /\ pages = 0
    /\ fate = "ok"

-----------------------------------------------------------------------------
(* The system underneath (external).                                       *)

\* VFIO refuses a mapping that overlaps one it has.
Overlaps(maps, da, size) ==
    \E m \in maps : da < m.da + m.size /\ m.da < da + size

\* The unmap ioctl is passed its argument by value where the kernel expects an
\* address: on a 64-bit Arm build the compiler passes a copy by reference and
\* the call works, on a 32-bit one it fails.  It also fails when the size is
\* not a multiple of the page size.
UnmapOk(size) == IF size % PAGE = 0 THEN setup.unmap ELSE {FALSE}

\* A soft reset of either channel resets the whole engine.
EngineReset == [c \in Chnls |-> Idle]

-----------------------------------------------------------------------------
(* A call is a sequence of steps on the library's state s, a record of the *)
(* variables it changes and of val, how the call has gone so far; a step   *)
(* that fails ends it.                                                     *)

Now == [shm |-> shm, node |-> node, dev |-> dev, mmaps |-> mmaps, iommu |-> iommu,
        open |-> open, hw |-> hw, val |-> "ok"]
Fail(s, val) == [s EXCEPT !.val = val]
Then(s, Step(_)) == IF s.val = "ok" THEN Step(s) ELSE s

Set(s) ==
    /\ shm' = s.shm /\ node' = s.node /\ dev' = s.dev /\ mmaps' = s.mmaps
    /\ iommu' = s.iommu /\ open' = s.open /\ hw' = s.hw
Ended(val) == ret' = val /\ call' = NULL

Ready == fate = "ok" /\ call = NULL
InUse(b) == \E c \in Chnls : hw[c].st = "busy" /\ hw[c].mem = shm[b].mem

-----------------------------------------------------------------------------
(* The device.                                                             *)

\* The driver is bound, the group opened - the kernel lets a process have it
\* once - and set up.  An error leaves open what was opened.
acapd_vfio_device_open(s, fault) ==
    IF fault # "none" \/ s.dev.group
    THEN Fail([s EXCEPT !.dev.group = @ \/ fault = "vfio"], "EINVAL")
    ELSE [s EXCEPT !.dev.priv = TRUE, !.dev.group = TRUE]

\* The mappings are undone (works says whether the ioctl succeeds); the
\* descriptors of container, group and device stay open.
acapd_vfio_device_close(s, works) ==
    [s EXCEPT !.dev.priv = FALSE, !.mmaps = <<>>,
              !.iommu = IF works
                        THEN {k \in @ : \A i \in DOMAIN s.mmaps : s.mmaps[i].da # k.da}
                        ELSE @]

\* Faulty: a failed open counts as a reference.
acapd_device_get_early(s, fault) ==
    IF s.dev.priv THEN [s EXCEPT !.dev.refs = @ + 1]
    ELSE acapd_vfio_device_open([s EXCEPT !.dev.ops = TRUE, !.dev.refs = 1], fault)

\* The device is opened when it is not (priv = NULL); its references are set to
\* zero before.
acapd_device_get(s, fault) ==
    IF s.dev.priv THEN [s EXCEPT !.dev.refs = @ + 1]
    ELSE Then(acapd_vfio_device_open([s EXCEPT !.dev.ops = TRUE, !.dev.refs = 0], fault),
              LAMBDA g : [g EXCEPT !.dev.refs = @ + 1])

\* Faulty: closing leaves the list of mappings as it is.
acapd_device_put_keeps(s, works) ==
    IF ~s.dev.priv \/ s.dev.refs = 0 THEN s
    ELSE IF s.dev.refs > 1 THEN [s EXCEPT !.dev.refs = @ - 1]
    ELSE [s EXCEPT !.dev.refs = 0, !.dev.priv = FALSE, !.iommu = {}]

\* The last reference closes the device.
acapd_device_put(s, works) ==
    IF ~s.dev.priv \/ s.dev.refs = 0 THEN s
    ELSE IF s.dev.refs > 1 THEN [s EXCEPT !.dev.refs = @ - 1]
    ELSE acapd_vfio_device_close([s EXCEPT !.dev.refs = 0], works)

\* chnl->ops->open(), the same for both engines: the first channel to open
\* resets the engine.
vfio_dma_open(s, fault) ==
    Then(acapd_device_get(s, fault),
         LAMBDA g : [g EXCEPT !.hw = IF g.dev.refs = 1 THEN EngineReset ELSE @])

\* chnl->ops->close(): the last one resets it, before the mappings go.
vfio_dma_close(s, works) ==
    acapd_device_put([s EXCEPT !.hw = IF s.dev.refs = 1 THEN EngineReset ELSE @], works)

\* Faulty: a channel that is open is opened again.
acapd_dma_open_again(s, c, fault) ==
    Then(vfio_dma_open(s, fault), LAMBDA g : [g EXCEPT !.open[c] = TRUE])

acapd_dma_open(s, c, fault) ==
    IF s.open[c] THEN s
    ELSE Then(vfio_dma_open(s, fault), LAMBDA g : [g EXCEPT !.open[c] = TRUE])

\* Faulty: the engine is left running when the device goes.
acapd_dma_close_running(s, c, works) ==
    IF ~s.open[c] THEN s
    ELSE acapd_device_put([s EXCEPT !.open[c] = FALSE], works)

acapd_dma_close(s, c, works) ==
    IF ~s.open[c] THEN s ELSE vfio_dma_close([s EXCEPT !.open[c] = FALSE], works)

\* The run bit of the channel is cleared.
acapd_dma_stop(s, c) == [s EXCEPT !.hw[c].run = FALSE]

acapd_dma_reset(s, c) == [s EXCEPT !.hw = EngineReset]

OpenFaults == {"none"} \cup (MayFail \cap {"bind", "vfio"})

-----------------------------------------------------------------------------
(* Attaching and detaching.                                                *)

\* Faulty: a mapping that ends where the new one would is not looked at.
NextDaStrict(da, m, size) ==
    IF da + size < m.da THEN da
    ELSE IF da + size < m.da + m.size THEN m.da + m.size ELSE da

\* The candidate da, or what comes after m if m is in its way.
NextDa(da, m, size) ==
    IF da + size < m.da THEN da
    ELSE IF da + size <= m.da + m.size THEN m.da + m.size ELSE da

\* The device address of a new mapping: one pass over the mappings, in the
\* order in which they were made.
NewDa(maps, size) ==
    LET da[i \in 0 .. Len(maps)] ==
            IF i = 0 THEN PAGE ELSE NextDa(da[i - 1], maps[i], size)
    IN  da[Len(maps)]

\* Faulty: the mapping is made and not recorded.
vfio_attach_lost(s, va, size, mem) ==
    LET da == NewDa(s.mmaps, align_up(size))
    IN  IF ~s.dev.priv THEN Fail(s, "EINVAL")
        ELSE IF Overlaps(s.iommu, da, align_up(size)) THEN Fail(s, "clash")
        ELSE [s EXCEPT !.iommu = @ \cup {[da |-> da, size |-> align_up(size), mem |-> mem]}]

\* Maps size bytes of the memory mem at va.
vfio_attach(s, va, size, mem) ==
    LET da == NewDa(s.mmaps, align_up(size))
    IN  IF ~s.dev.priv THEN Fail(s, "EINVAL")
        ELSE IF Overlaps(s.iommu, da, align_up(size)) THEN Fail(s, "clash")
        ELSE [s EXCEPT
                !.mmaps = Append(@, [va |-> va, da |-> da, size |-> align_up(size)]),
                !.iommu = @ \cup {[da |-> da, size |-> align_up(size), mem |-> mem]}]

\* Nothing to do for a buffer whose list leads to the device.  A device that
\* was never opened has no attach operation.  The device's node is linked to
\* the buffer, wherever it was linked before.
acapd_device_attach_shm(s, b) ==
    IF s.shm[b].ref THEN s
    ELSE Then(IF s.dev.ops THEN vfio_attach(s, s.shm[b].va, Size[b], s.shm[b].mem) ELSE s,
              LAMBDA t : [t EXCEPT !.shm[b].ref = TRUE, !.node = b])

\* The first mapping of va, or 0.
MapOf(maps, va) ==
    SelectInSeq(maps, LAMBDA m : m.va = va)

\* A mapping covers whole pages, and so any offset in its buffer.
va_to_da(s, va, off) ==
    LET i == MapOf(s.mmaps, va)
    IN  IF i = 0 THEN -1 ELSE s.mmaps[i].da + off

\* The entry goes whether or not the ioctl works.
vfio_detach(s, b, works) ==
    LET i == MapOf(s.mmaps, s.shm[b].va)
    IN  IF ~s.dev.priv \/ i = 0 THEN Fail(s, "EINVAL")
        ELSE [s EXCEPT !.mmaps = RemoveAt(@, i),
                       !.iommu = IF works THEN {k \in @ : k.da # s.mmaps[i].da} ELSE @,
                       !.val = IF works THEN "ok" ELSE "EINVAL"]

\* acapd_list_del(&dev->node) takes the node out of the list it leads back to,
\* which need not be the list of the buffer.
list_del(s) ==
    IF s.node \in Bufs THEN [s EXCEPT !.shm[s.node].ref = FALSE, !.node = NULL]
    ELSE [s EXCEPT !.node = NULL]

acapd_device_detach_shm(s, b, works) ==
    IF ~s.shm[b].ref THEN Fail(s, "EINVAL")
    ELSE Then(IF s.dev.ops THEN vfio_detach(s, b, works) ELSE s, list_del)

-----------------------------------------------------------------------------
(* Channels.                                                               *)

\* Faulty: a channel that runs without an error is idle.
poll_no_idle(h) ==
    CASE Engine = "axidma" /\ h.st = "error" -> "ERRORS"
      [] Engine = "mcdma" /\ h.st \in {"halted", "error"} -> "STALLED"
      [] OTHER -> "IDLE"

\* Faulty: a channel that was not started is not told from one that works.
axidma_poll_no_run(h) ==
    CASE h.st = "error" -> "ERRORS"
      [] h.st = "done" -> "IDLE"
      [] OTHER -> "INPROGRESS"

\* A channel without its run bit is idle: one that was not started, and one
\* that an error halted.  The idle bit is set when a transfer ends, so not
\* before the first one.
axidma_vfio_dma_poll(h) ==
    CASE ~h.run -> "IDLE"
      [] h.run /\ h.st = "error" -> "ERRORS"
      [] h.run /\ h.st = "done" -> "IDLE"
      [] OTHER -> "INPROGRESS"

\* A halted channel is stalled, with or without an error.
mcdma_vfio_dma_poll(h) ==
    CASE h.st \in {"halted", "error"} -> "STALLED"
      [] h.st = "done" -> "IDLE"
      [] OTHER -> "INPROGRESS"

\* chnl->ops->poll().
poll(h) == IF Engine = "axidma" THEN axidma_vfio_dma_poll(h) ELSE mcdma_vfio_dma_poll(h)

CheckReady(s, c) ==
    CASE poll(s.hw[c]) = "ERRORS" -> Fail(s, "EINVAL")
      [] poll(s.hw[c]) = "INPROGRESS" -> Fail(s, "EBUSY")
      [] OTHER -> s

Busy(s, c, da, b, off, len) ==
    [s EXCEPT !.hw[c] = [run |-> TRUE, st |-> "busy", da |-> da, len |-> len,
                         mem |-> s.shm[b].mem, off |-> off]]

\* AXI DMA in simple mode: the run bit is set, and the transfer starts unless
\* the channel is halted: still (late), or by an error since the last reset.
axidma_transfer(s, c, b, off, len, late) ==
    LET da == va_to_da(s, s.shm[b].va, off)
    IN  IF da = -1 THEN Fail(s, "EINVAL")
        ELSE IF s.hw[c].st = "error" \/ (late /\ s.hw[c].st = "halted")
        THEN Fail([s EXCEPT !.hw[c].run = TRUE,
                            !.hw[c].st = IF @ = "error" THEN @ ELSE "fresh"], "EINVAL")
        ELSE Busy(s, c, da, b, off, len)

\* MCDMA: a page for the descriptors is allocated and attached like a buffer,
\* for each transfer; it is on the stack of the call, and not detached.  The
\* engine is reset if the other channel is idle or has failed.  The channel
\* itself is not looked at: one that an error halted does not start.
mcdma_transfer(s, c, b, off, len) ==
    LET da == va_to_da(s, s.shm[b].va, off)
    IN  IF da = -1 THEN Fail(s, "EINVAL")
        ELSE Then(vfio_attach(s, "bd", PAGE, 0),
                  LAMBDA t :
                    LET u == [t EXCEPT !.node = "bd",
                                       !.hw = IF @[Other(c)].st \in {"done", "error"}
                                              THEN EngineReset ELSE @]
                    IN  IF u.hw[c].st = "error" THEN [u EXCEPT !.hw[c].run = TRUE]
                        ELSE Busy(u, c, da, b, off, len))

Descriptors(len) == (len + setup.max_buf_size - 1) \div setup.max_buf_size

\* The data must lie in the buffer.
acapd_dma_transfer(s, c, b, off, len, late) ==
    IF off + len > Size[b] THEN Fail(s, "EINVAL")
    ELSE IF Engine = "axidma" THEN axidma_transfer(s, c, b, off, len, late)
    ELSE mcdma_transfer(s, c, b, off, len)

-----------------------------------------------------------------------------
(* The calls.                                                              *)

acapd_alloc_shm(b) ==
    /\ Ready /\ "alloc" \in Ops
    /\ ~shm[b].live /\ pages < MaxPages
    /\ \E va \in Vas \ {shm[x].va : x \in {y \in Bufs : shm[y].live}} :
          shm' = [shm EXCEPT ![b] = [live |-> TRUE, va |-> va, mem |-> pages + 1,
                                     ref |-> FALSE]]
    /\ pages' = pages + 1
    /\ Ended("ok")
    /\ UNCHANGED <<setup, node, dev, mmaps, iommu, open, hw, fate>>

\* The loop over the list takes the device's node for that of a channel, so
\* that what it takes for the device lies beyond the device: nothing is
\* detached, or what is called is no function.  The walk comes back to the
\* buffer only if the node was last linked to it.
acapd_free_shm(b) ==
    /\ Ready /\ "free" \in Ops
    /\ shm[b].live /\ ~InUse(b)
    /\ \E f \in CASE ~shm[b].ref -> {"ok"}
                  [] shm[b].ref /\ node = b -> {"ok", "crash"}
                  [] OTHER -> {"hang", "crash"} :
          /\ fate' = f
          /\ shm' = IF f = "ok" THEN [shm EXCEPT ![b].live = FALSE, ![b].ref = FALSE]
                    ELSE shm
    /\ Ended("ok")
    /\ UNCHANGED <<setup, node, dev, mmaps, iommu, open, hw, pages>>

acapd_attach_shm(b) ==
    /\ Ready /\ "attach" \in Ops
    /\ shm[b].live /\ Len(mmaps) < setup.max_maps
    /\ LET s == acapd_device_attach_shm(Now, b)
       IN  Set(s) /\ Ended(s.val)
    /\ UNCHANGED <<setup, pages, fate>>

\* Unlinking the node from a dead stack frame writes to it.
acapd_detach_shm(b) ==
    /\ Ready /\ "detach" \in Ops
    /\ shm[b].live /\ ~InUse(b)
    /\ \E works \in UnmapOk(Size[b]) :
          LET s == acapd_device_detach_shm(Now, b, works)
          IN  /\ Set(s) /\ Ended(s.val)
              /\ fate' \in IF node = "bd" /\ s.val = "ok" THEN {"ok", "crash"} ELSE {fate}
    /\ UNCHANGED <<setup, pages>>

\* acapd_accel_write_data() (tx) and acapd_accel_read_data() (rx).  More
\* descriptors than the page holds are written behind it.
transfer_data(c, b) ==
    /\ Ready /\ (IF c = "tx" THEN "write" ELSE "read") \in Ops
    /\ shm[b].live /\ Len(mmaps) + 1 < setup.max_maps
    /\ \E off \in 0 .. Size[b] - 1, wait \in BOOLEAN, fault \in OpenFaults,
          late \in {FALSE} \cup {"slow_start" \in MayFail} :
       \E len \in 1 .. Size[b] - off + 1 :
          LET op == IF c = "tx" THEN "write" ELSE "read"
              s1 == acapd_dma_open(Now, c, fault)
              s2 == Then(s1, LAMBDA s : acapd_device_attach_shm(s, b))
              s3 == Then(s2, LAMBDA s : CheckReady(s, c))
              s4 == Then(s3, LAMBDA s : acapd_dma_transfer(s, c, b, off, len, late))
          IN  /\ Set(s4)
              /\ IF s4.val = "ok" /\ wait
                 THEN call' = [op |-> op, c |-> c] /\ ret' = ret
                 ELSE Ended(s4.val)
              /\ fate' \in IF /\ Engine = "mcdma" /\ s4.val = "ok"
                              /\ Descriptors(len) > setup.bds
                           THEN {"ok", "crash"} ELSE {"ok"}
    /\ UNCHANGED <<setup, pages>>

acapd_accel_read_complete ==
    /\ Ready /\ "complete" \in Ops
    /\ \E fault \in OpenFaults :
          LET s == acapd_dma_open(Now, "rx", fault)
          IN  /\ Set(s)
              /\ IF s.val = "ok"
                 THEN call' = [op |-> "complete", c |-> "rx"] /\ ret' = ret
                 ELSE Ended(s.val)
    /\ UNCHANGED <<setup, pages, fate>>

\* acapd_dma_poll() with wait_for_complete: a stalled channel is no error.
acapd_dma_poll ==
    /\ fate = "ok" /\ call # NULL
    /\ poll(hw[call.c]) # "INPROGRESS"
    /\ Ended(IF poll(hw[call.c]) = "ERRORS" THEN "EINVAL" ELSE "ok")
    /\ UNCHANGED <<setup, shm, node, dev, mmaps, iommu, open, hw, pages, fate>>

\* Opens every channel, then stops and resets each.
acapd_accel_reset_channel ==
    /\ Ready /\ "reset" \in Ops
    /\ \E fault \in OpenFaults :
          LET s1 == acapd_dma_open(Now, "tx", fault)
              s2 == Then(s1, LAMBDA s : acapd_dma_open(s, "rx", fault))
              s3 == Then(s2, LAMBDA s : acapd_dma_reset(acapd_dma_stop(s, "tx"), "tx"))
              s4 == Then(s3, LAMBDA s : acapd_dma_reset(acapd_dma_stop(s, "rx"), "rx"))
          IN  Set(s4) /\ Ended(s4.val)
    /\ UNCHANGED <<setup, pages, fate>>

dma_close(c) ==
    /\ Ready /\ "close" \in Ops
    /\ open[c]
    /\ \E works \in setup.unmap : Set(acapd_dma_close(Now, c, works))
    /\ Ended("ok")
    /\ UNCHANGED <<setup, pages, fate>>

-----------------------------------------------------------------------------
(* The engine (external).                                                  *)

\* A transfer ends, with an error or without.  On an error the engine clears
\* the run bit of the channel and halts it, until it is reset.
dma_end(c) ==
    /\ hw[c].st = "busy"
    /\ \E st \in {"done"} \cup (IF "transfer" \in MayFail THEN {"error"} ELSE {}) :
          hw' = [hw EXCEPT ![c] = [Idle EXCEPT !.run = (st = "done"), !.st = st]]
    /\ UNCHANGED <<setup, shm, node, dev, mmaps, iommu, open, call, ret, pages, fate>>

Next ==
    \/ \E b \in Bufs : acapd_alloc_shm(b)
    \/ \E b \in Bufs : acapd_free_shm(b)
    \/ \E b \in Bufs : acapd_attach_shm(b)
    \/ \E b \in Bufs : acapd_detach_shm(b)
    \/ \E c \in Chnls, b \in Bufs : transfer_data(c, b)
    \/ acapd_accel_read_complete
    \/ acapd_dma_poll
    \/ acapd_accel_reset_channel
    \/ \E c \in Chnls : dma_close(c)
    \/ \E c \in Chnls : dma_end(c)

Spec == Init /\ [][Next]_vars

\* A call that waits goes on polling, and the engine ends every transfer it
\* was given.
FairSpec == Spec /\ WF_vars(acapd_dma_poll) /\ \A c \in Chnls : WF_vars(dma_end(c))

-----------------------------------------------------------------------------
(* Properties.                                                             *)

\* A transfer under way moves the memory of the buffer it was asked for, at
\* the offset it was asked for: its device addresses lie in one mapping the
\* kernel has of that memory (va_to_da(), and the reset before the mappings
\* go in axidma_vfio_dma_close()).  This holds for callers that keep their
\* buffers: acapd_free_shm() leaves a buffer mapped, and another one that gets
\* its address is then taken for it.
TransferReachesBuffer ==
    "free" \notin Ops => \A c \in Chnls : hw[c].st = "busy" =>
        \E k \in iommu : /\ k.mem = hw[c].mem
                         /\ hw[c].da = k.da + hw[c].off
                         /\ hw[c].off + hw[c].len <= k.size

\* The device is open exactly while a channel is, and counts the open channels
\* (acapd_device_get(), acapd_device_put()).
RefsCountChannels ==
    /\ dev.priv <=> \E c \in Chnls : open[c]
    /\ dev.refs = Cardinality({c \in Chnls : open[c]})

\* While the device is open, a buffer whose list leads to it is mapped, so that
\* attaching it again may do nothing (acapd_device_attach_shm()).  This holds
\* for callers that leave attaching to the transfers and keep their buffers: a
\* second buffer takes the one node of the device from the first.
OnlyTransfers == Ops \cap {"attach", "detach", "free"} = {}
LinkedIsMapped ==
    dev.priv /\ OnlyTransfers /\ Engine = "axidma" =>
        \A b \in Bufs :
            shm[b].live /\ shm[b].ref => MapOf(mmaps, shm[b].va) # 0

\* A mapping the library keeps is one the kernel has, of the same extent, and
\* no two overlap.
MappingsReal ==
    /\ \A i \in DOMAIN mmaps :
          \E k \in iommu : k.da = mmaps[i].da /\ k.size = mmaps[i].size
    /\ \A i, j \in DOMAIN mmaps :
          i < j => \/ mmaps[i].da + mmaps[i].size <= mmaps[j].da
                   \/ mmaps[j].da + mmaps[j].size <= mmaps[i].da

\* The search for a device address never ends at one that is taken, where all
\* mappings have one size, none is undone before the device is closed, and the
\* kernel undoes them then.
OneSize == \A b \in Bufs : align_up(Size[b]) = PAGE
AddressFound ==
    OneSize /\ Ops \cap {"detach", "free"} = {} /\ setup.unmap = {TRUE} => ret # "clash"

\* A write or a read that was told to wait and reports success has moved its
\* data, if the engine meets no error; if it may, the transfer is at least over
\* (acapd_accel_write_data(), acapd_accel_read_data()): axidma_vfio_dma_poll()
\* takes the channel an error halted for an idle one.  On an MCDMA a halted
\* channel is stalled, and that is no error.
WaitMeansDone ==
    [][Engine = "axidma" /\ "slow_start" \notin MayFail /\
       call # NULL /\ call' = NULL /\ ret' = "ok" /\ call.op # "complete"
         => \/ hw[call.c].st = "done"
            \/ "transfer" \in MayFail /\ hw[call.c].st = "error"]_vars

\* A call that waits returns, unless the process is gone (acapd_dma_poll() has
\* no bound of its own) or the engine never saw the transfer.
CallReturns ==
    (call # NULL /\ "slow_start" \notin MayFail) ~> (call = NULL \/ fate = "crash")
=============================================================================
