----------------------------- MODULE MCAcapdDma -----------------------------
(***************************************************************************)
(* Setups for AcapdDma, with buffers of equal and of different sizes.  A   *)
(* page has two bytes.                                                     *)
(***************************************************************************)
EXTENDS AcapdDma

CONSTANTS x, y, v, w

\* An AXI DMA that only transfers: open, attach and start come with the calls.
Transfers == [engine |-> "axidma", size |-> [b \in Bufs |-> IF b = x THEN 1 ELSE 2],
    max_buf_size |-> 1, bds |-> 2, unmap |-> {TRUE},
    may_fail |-> {"bind", "vfio", "transfer"},
    ops |-> {"alloc", "write", "read", "complete", "reset", "close"},
    max_pages |-> 2, max_maps |-> 4]

\* Buffers are attached and detached by the caller, and unmapping may fail.
Detached == [Transfers EXCEPT !.size = [b \in Bufs |-> 2], !.unmap = BOOLEAN,
    !.may_fail = {"slow_start", "transfer"},
    !.ops = {"alloc", "attach", "detach", "write", "complete", "close"}]

\* Buffers of one and of two pages come and go.
Lifecycle == [Transfers EXCEPT !.size = [b \in Bufs |-> IF b = x THEN 4 ELSE 2], !.unmap = BOOLEAN,
    !.may_fail = {"bind", "vfio"},
    !.ops = {"alloc", "free", "attach", "detach", "reset", "close"}, !.max_pages = 3]

\* An AXI DMA that meets no error, with a buffer of two pages.
Reliable == [Transfers EXCEPT !.size = [b \in Bufs |-> IF b = x THEN 3 ELSE 1],
    !.may_fail = {}, !.ops = {"alloc", "write", "read", "complete", "close"}]

\* An MCDMA with one descriptor in its page.
Descriptor == [Transfers EXCEPT !.engine = "mcdma", !.size = [b \in Bufs |-> 2],
    !.bds = 1, !.may_fail = {"bind", "transfer"}, !.ops = @ \cup {"attach"},
    !.max_maps = 5]

AllSetups == {Transfers, Detached, Lifecycle, Reliable, Descriptor}
=============================================================================
