--------------------------- MODULE AcapdDmaProofs ---------------------------
(***************************************************************************)
(* Proofs about AcapdDma: for any buffers, page size and setups, the type  *)
(* invariant, RefsCountChannels, MappingsReal, TransferReachesBuffer,      *)
(* LinkedIsMapped, AddressFound and WaitMeansDone.                         *)
(*                                                                         *)
(* A call is a sequence of steps on a record of the library's state, so    *)
(* the invariant is stated of such a record, and each step is shown to     *)
(* keep it; what a call leaves in the variables then has it too.           *)
(***************************************************************************)
EXTENDS AcapdDma, FiniteSetTheorems, NaturalsInduction, SequenceTheorems, TLAPS

-----------------------------------------------------------------------------
(* The inductive invariant.                                                *)

\* A buffer in use has an address.
BufSet == {r \in [live: BOOLEAN, va: Vas \cup {NULL}, mem: 0 .. MaxPages, ref: BOOLEAN] :
               r.live => r.va \in Vas}
DevSet == [ops: BOOLEAN, priv: BOOLEAN, refs: 0 .. 2, group: BOOLEAN]
MapSet == [va: Vas \cup {"bd"}, da: Nat, size: Nat \ {0}]
IommuSet == [da: Nat, size: Nat \ {0}, mem: 0 .. MaxPages]
HwSet == [run: BOOLEAN, st: States, da: Int, len: Int, mem: 0 .. MaxPages, off: Int]

\* States of the library in a call.
Lib == [shm: [Bufs -> BufSet], node: Bufs \cup {"bd", NULL}, dev: DevSet,
        mmaps: Seq(MapSet), iommu: SUBSET IommuSet, open: [Chnls -> BOOLEAN],
        hw: [Chnls -> HwSet], val: Rets]

\* The references count the open channels.  An open device has its operations
\* and holds the group.
Counted(s) ==
    /\ s.dev.refs = (IF s.open["tx"] THEN 1 ELSE 0) + (IF s.open["rx"] THEN 1 ELSE 0)
    /\ s.dev.priv <=> s.open["tx"] \/ s.open["rx"]
    /\ s.dev.priv => s.dev.ops /\ s.dev.group

\* The kernel's mappings do not overlap, and the library's are among them, each
\* once.
Mapped(s) ==
    /\ \A k, l \in s.iommu : k = l \/ k.da + k.size <= l.da \/ l.da + l.size <= k.da
    /\ \A i \in 1 .. Len(s.mmaps) :
          \E k \in s.iommu : k.da = s.mmaps[i].da /\ k.size = s.mmaps[i].size
    /\ \A i, j \in 1 .. Len(s.mmaps) : s.mmaps[i].da = s.mmaps[j].da => i = j

\* Buffer b of s has memory at va.
At(s, b, va) == s.shm[b].live /\ s.shm[b].va = va

\* The mappings of a buffer's address are mappings of its memory.
BuffersMapped(s) ==
    /\ \A a, b \in Bufs : At(s, a, s.shm[b].va) /\ s.shm[b].live => a = b
    /\ \A i \in 1 .. Len(s.mmaps) :
          s.mmaps[i].va = "bd" \/ \E b \in Bufs : At(s, b, s.mmaps[i].va)
    /\ \A i \in 1 .. Len(s.mmaps), b \in Bufs : At(s, b, s.mmaps[i].va) =>
          \E k \in s.iommu : /\ k.da = s.mmaps[i].da /\ k.mem = s.shm[b].mem
                             /\ Size[b] <= k.size

\* TransferReachesBuffer, of engine h and mappings maps.
Reaches(h, maps) ==
    \A c \in Chnls : h[c].st = "busy" =>
        \E k \in maps : /\ k.mem = h[c].mem
                        /\ h[c].da = k.da + h[c].off
                        /\ h[c].off + h[c].len <= k.size

\* A linked buffer is mapped as long as the device is open, and it is opened
\* but once.
Linked(s) ==
    \A b \in Bufs : s.shm[b].live /\ s.shm[b].ref =>
        /\ s.dev.group
        /\ s.dev.priv => \E i \in 1 .. Len(s.mmaps) : s.mmaps[i].va = s.shm[b].va

\* All mappings are a page, one behind the other, and the kernel has no others.
InOrder(s) ==
    /\ \A i \in 1 .. Len(s.mmaps) : s.mmaps[i].da = i * PAGE /\ s.mmaps[i].size = PAGE
    /\ \A k \in s.iommu : k.size = PAGE
                          /\ \E i \in 1 .. Len(s.mmaps) : k.da = s.mmaps[i].da

Keeping == "free" \notin Ops
Attaching == OnlyTransfers /\ Engine = "axidma"
Paging == OneSize /\ Ops \cap {"detach", "free"} = {} /\ setup.unmap = {TRUE}

LibInv(s) ==
    /\ setup \in Setups /\ s \in Lib /\ Counted(s) /\ Mapped(s)
    /\ Keeping => BuffersMapped(s) /\ Reaches(s.hw, s.iommu)
    /\ Attaching => Linked(s)
    /\ Paging => InOrder(s) /\ s.val # "clash"

\* The caller waits for a transfer that was started; only an engine that may
\* meet an error has met one.
Waiting ==
    /\ call = NULL \/ (call.op \in {"write", "read", "complete"} /\ call.c \in Chnls)
    /\ Engine = "axidma" /\ "slow_start" \notin MayFail
          /\ call # NULL /\ call.op # "complete" =>
              \/ hw[call.c].run /\ hw[call.c].st \in {"busy", "done"}
              \/ "transfer" \in MayFail /\ hw[call.c].st = "error"

DmaInv ==
    /\ LibInv(Now) /\ Waiting
    /\ ret \in Rets /\ pages \in 0 .. MaxPages /\ fate \in {"ok", "hang", "crash"}
    /\ Paging => ret # "clash"

-----------------------------------------------------------------------------
(* Sizes and addresses.                                                    *)

LEMMA SetupFacts ==
    ASSUME setup \in Setups
    PROVE  /\ Size \in [Bufs -> Nat \ {0}] /\ MaxPages \in Nat
           /\ Engine \in {"axidma", "mcdma"} /\ PAGE \in Nat \ {0}
           /\ setup.unmap \subseteq BOOLEAN /\ "bd" \notin Vas /\ "bd" \notin Bufs
           /\ 0 \in 0 .. MaxPages
<1>1. setup \in Setup /\ PAGE \in Nat \ {0} /\ "bd" \notin Vas /\ "bd" \notin Bufs
  BY DmaAssumption
<1>2. /\ Size \in [Bufs -> Nat \ {0}] /\ MaxPages \in Nat
      /\ Engine \in {"axidma", "mcdma"} /\ setup.unmap \subseteq BOOLEAN
  BY <1>1 DEF Setup, Size, MaxPages, Engine
<1> QED
  BY <1>1, <1>2

LEMMA AlignUp ==
    ASSUME NEW n \in Nat \ {0}
    PROVE  align_up(n) \in Nat \ {0} /\ n <= align_up(n)
BY DmaAssumption DEF align_up

LEMMA AlignPage == align_up(PAGE) = PAGE
<1> DEFINE q == (PAGE + PAGE - 1) \div PAGE
<1>1. PAGE \in Nat \ {0}
  BY DmaAssumption
<1>2. q \in Int /\ q * PAGE <= PAGE + PAGE - 1 /\ PAGE + PAGE - 1 < q * PAGE + PAGE
  BY <1>1
<1>3. align_up(PAGE) = q * PAGE
  BY DEF align_up
<1> HIDE DEF q
<1>4. q = 1
  <2>1. q >= 2 => q * PAGE >= 2 * PAGE
    BY <1>1, <1>2
  <2>2. q <= 0 => q * PAGE <= 0
    BY <1>1, <1>2
  <2> QED
    BY <1>1, <1>2, <2>1, <2>2
<1>5. 1 * PAGE = PAGE
  BY <1>1
<1> QED
  BY <1>3, <1>4, <1>5, Zenon

\* A set of numbers that is not empty has a least one.
LEMMA Least ==
    ASSUME NEW S, S \subseteq Nat, S # {}
    PROVE  \E n \in S : \A m \in S : n <= m
<1> DEFINE R == {x \in Nat \X Nat : x[1] < x[2]}
<1>1. IsWellFoundedOn(R, Nat)
  BY NatLessThanWellFounded DEF OpToRel
<1>2. PICK n \in S : \A m \in S : ~(<<m, n>> \in R)
  <2> HIDE DEF R
  <2> QED
    BY <1>1, WFMin
<1>3. \A m \in S : n <= m
  <2> SUFFICES ASSUME NEW m \in S
               PROVE  n <= m
    OBVIOUS
  <2>1. m \in Nat /\ n \in Nat /\ <<m, n>> \in Nat \X Nat
    OBVIOUS
  <2>2. m < n => <<m, n>> \in R
    BY <2>1
  <2>3. ~(m < n)
    BY <1>2, <2>2, Zenon
  <2> QED
    BY <2>1, <2>3
<1> QED
  BY <1>3

\* The candidates for a device address: what the pass over maps holds after
\* each mapping.
Candidates(maps, size, g) ==
    g = [i \in 0 .. Len(maps) |->
            IF i = 0 THEN PAGE ELSE NextDa(g[i - 1], maps[i], size)]

LEMMA CandidatesExist ==
    ASSUME NEW maps \in Seq(MapSet), NEW size \in Nat
    PROVE  \E g : Candidates(maps, size, g)
<1> DEFINE Part(n, g) == g = [i \in 0 .. n |->
                 IF i = 0 THEN PAGE ELSE NextDa(g[i - 1], maps[i], size)]
           Bad == {n \in Nat : ~\E g : Part(n, g)}
<1>1. Bad = {}
  <2> SUFFICES ASSUME Bad # {}
               PROVE  FALSE
    OBVIOUS
  <2>1. PICK n \in Bad : \A m \in Bad : n <= m
    <3>1. Bad \subseteq Nat
      OBVIOUS
    <3> HIDE DEF Bad
    <3> QED
      BY <3>1, Least
  <2>2. n \in Nat /\ ~\E g : Part(n, g)
    OBVIOUS
  <2>3. n # 0
    <3>1. Part(0, [i \in 0 .. 0 |-> PAGE])
      OBVIOUS
    <3> QED
      BY <2>2, <3>1
  <2>4. n - 1 \in Nat /\ n - 1 \notin Bad
    <3>1. n - 1 \in Nat /\ ~(n <= n - 1)
      BY <2>2, <2>3
    <3> HIDE DEF Bad
    <3> QED
      BY <2>1, <3>1
  <2>5. PICK g : Part(n - 1, g)
    BY <2>4
  <2> DEFINE f == [i \in 0 .. n |-> IF i = n THEN NextDa(g[n - 1], maps[n], size) ELSE g[i]]
  <2>6. Part(n, f)
    <3>1. ASSUME NEW i \in 0 .. n, i # 0
          PROVE  f[i] = NextDa(f[i - 1], maps[i], size)
      <4>1. CASE i = n
        BY <2>2, <2>3, <4>1
      <4>2. CASE i # n
        BY <2>2, <2>5, <3>1, <4>2
      <4> QED
        BY <4>1, <4>2
    <3>2. f[0] = PAGE
      BY <2>2, <2>3, <2>4, <2>5
    <3> QED
      BY <3>1, <3>2
  <2> QED
    BY <2>2, <2>6
<1> QED
  BY <1>1 DEF Candidates

LEMMA NewDaLast ==
    ASSUME NEW maps \in Seq(MapSet), NEW size \in Nat
    PROVE  \E g : Candidates(maps, size, g) /\ NewDa(maps, size) = g[Len(maps)]
<1> DEFINE das[i \in 0 .. Len(maps)] ==
              IF i = 0 THEN PAGE ELSE NextDa(das[i - 1], maps[i], size)
<1>1. das = [i \in 0 .. Len(maps) |->
                IF i = 0 THEN PAGE ELSE NextDa(das[i - 1], maps[i], size)]
  BY CandidatesExist DEF Candidates
<1>2. NewDa(maps, size) = das[Len(maps)]
  BY DEF NewDa
<1> HIDE DEF das
<1> QED
  BY <1>1, <1>2 DEF Candidates

\* The address found is a number.
LEMMA NewDaNat ==
    ASSUME NEW maps \in Seq(MapSet), NEW size \in Nat
    PROVE  NewDa(maps, size) \in Nat
<1>1. PICK g : Candidates(maps, size, g) /\ NewDa(maps, size) = g[Len(maps)]
  BY NewDaLast
<1>2. g[0] = PAGE /\ \A i \in 1 .. Len(maps) : g[i] = NextDa(g[i - 1], maps[i], size)
  BY <1>1 DEF Candidates
<1> DEFINE Bad == {n \in 0 .. Len(maps) : g[n] \notin Nat}
<1>3. Bad = {}
  <2> SUFFICES ASSUME Bad # {}
               PROVE  FALSE
    OBVIOUS
  <2>1. PICK n \in Bad : \A m \in Bad : n <= m
    <3>1. Bad \subseteq Nat
      OBVIOUS
    <3> HIDE DEF Bad
    <3> QED
      BY <3>1, Least
  <2>2. n # 0
    BY <1>2, DmaAssumption
  <2>3. n \in 1 .. Len(maps) /\ n - 1 \notin Bad /\ n - 1 \in 0 .. Len(maps)
    BY <2>1, <2>2
  <2>4. g[n - 1] \in Nat /\ maps[n] \in MapSet
    BY <2>3
  <2>5. NextDa(g[n - 1], maps[n], size) \in Nat
    BY <2>4 DEF NextDa, MapSet
  <2> QED
    BY <1>2, <2>3, <2>5
<1> QED
  BY <1>1, <1>3

\* Behind mappings that are a page each and in order there is room.
LEMMA NewDaNext ==
    ASSUME NEW maps \in Seq(MapSet),
           \A i \in 1 .. Len(maps) : maps[i].da = i * PAGE /\ maps[i].size = PAGE
    PROVE  NewDa(maps, PAGE) = (Len(maps) + 1) * PAGE
<1> DEFINE N == Len(maps)
<1>0. PAGE \in Nat \ {0} /\ N \in Nat
  BY DmaAssumption
<1>1. PICK g : Candidates(maps, PAGE, g) /\ NewDa(maps, PAGE) = g[N]
  BY <1>0, NewDaLast
<1>2. g[0] = PAGE /\ \A i \in 1 .. N : g[i] = NextDa(g[i - 1], maps[i], PAGE)
  BY <1>1 DEF Candidates
<1> DEFINE Bad == {n \in 0 .. N : g[n] # (n + 1) * PAGE}
<1>3. Bad = {}
  <2> SUFFICES ASSUME Bad # {}
               PROVE  FALSE
    OBVIOUS
  <2>1. PICK n \in Bad : \A m \in Bad : n <= m
    <3>1. Bad \subseteq Nat
      OBVIOUS
    <3> HIDE DEF Bad
    <3> QED
      BY <3>1, Least
  <2>2. n # 0
    BY <1>0, <1>2
  <2>3. n \in 1 .. N /\ n - 1 \notin Bad /\ n - 1 \in 0 .. N /\ n \in Nat
    BY <1>0, <2>1, <2>2
  <2>4. g[n - 1] = n * PAGE
    <3>1. g[n - 1] = ((n - 1) + 1) * PAGE
      BY <2>3
    <3>2. (n - 1) + 1 = n
      BY <2>3
    <3> QED
      BY <3>1, <3>2, Zenon
  <2> DEFINE p == n * PAGE
  <2>5. p \in Nat /\ (n + 1) * PAGE = p + PAGE
    BY <1>0, <2>3
  <2>6. maps[n].da = p /\ maps[n].size = PAGE /\ g[n - 1] = p
    BY <2>3, <2>4
  <2> HIDE DEF p
  <2>7. NextDa(p, maps[n], PAGE) = p + PAGE
    BY <1>0, <2>5, <2>6 DEF NextDa
  <2>8. g[n] = p + PAGE
    BY <1>2, <2>3, <2>6, <2>7
  <2> QED
    BY <2>5, <2>8
<1> QED
  BY <1>0, <1>1, <1>3

-----------------------------------------------------------------------------
(* Records of the library's state.                                         *)

LEMMA SetVal ==
    ASSUME NEW s \in Lib, NEW v \in Rets
    PROVE  /\ Fail(s, v) \in Lib /\ Fail(s, v).val = v
           /\ Fail(s, v).shm = s.shm /\ Fail(s, v).node = s.node
           /\ Fail(s, v).dev = s.dev /\ Fail(s, v).mmaps = s.mmaps
           /\ Fail(s, v).iommu = s.iommu /\ Fail(s, v).open = s.open
           /\ Fail(s, v).hw = s.hw
BY DEF Lib, Fail

LEMMA SetDev ==
    ASSUME NEW s \in Lib, NEW d \in DevSet
    PROVE  LET g == [s EXCEPT !.dev = d]
           IN  /\ g \in Lib /\ g.dev = d /\ g.shm = s.shm /\ g.node = s.node
               /\ g.mmaps = s.mmaps /\ g.iommu = s.iommu /\ g.open = s.open
               /\ g.hw = s.hw /\ g.val = s.val
BY DEF Lib

LEMMA SetHw ==
    ASSUME NEW s \in Lib, NEW h \in [Chnls -> HwSet]
    PROVE  LET g == [s EXCEPT !.hw = h]
           IN  /\ g \in Lib /\ g.hw = h /\ g.shm = s.shm /\ g.node = s.node
               /\ g.dev = s.dev /\ g.mmaps = s.mmaps /\ g.iommu = s.iommu
               /\ g.open = s.open /\ g.val = s.val
BY DEF Lib

LEMMA SetOpen ==
    ASSUME NEW s \in Lib, NEW o \in [Chnls -> BOOLEAN]
    PROVE  LET g == [s EXCEPT !.open = o]
           IN  /\ g \in Lib /\ g.open = o /\ g.shm = s.shm /\ g.node = s.node
               /\ g.dev = s.dev /\ g.mmaps = s.mmaps /\ g.iommu = s.iommu
               /\ g.hw = s.hw /\ g.val = s.val
BY DEF Lib

LEMMA ResetTyped ==
    ASSUME setup \in Setups
    PROVE  /\ EngineReset \in [Chnls -> HwSet]
           /\ \A c \in Chnls : EngineReset[c].st = "halted"
<1>1. Idle \in HwSet /\ Idle.st = "halted"
  BY SetupFacts DEF Idle, HwSet, States
<1> QED
  BY <1>1 DEF EngineReset

\* The invariant does not depend on the other components of the record.
LEMMA SameInv ==
    ASSUME NEW s, NEW g \in Lib, LibInv(s),
           g.shm = s.shm, g.dev = s.dev, g.mmaps = s.mmaps, g.iommu = s.iommu,
           g.open = s.open, g.hw = s.hw, Paging => g.val # "clash"
    PROVE  LibInv(g)
<1>1. Counted(g) /\ Mapped(g)
  BY DEF LibInv, Counted, Mapped
<1>2. Keeping => BuffersMapped(g) /\ Reaches(g.hw, g.iommu)
  BY DEF LibInv, BuffersMapped, At
<1>3. Attaching => Linked(g)
  BY DEF LibInv, Linked
<1>4. Paging => InOrder(g)
  BY DEF LibInv, InOrder
<1> QED
  BY <1>1, <1>2, <1>3, <1>4 DEF LibInv

\* A step that fails leaves what there was.
LEMMA FailInv ==
    ASSUME NEW s, LibInv(s), NEW v \in Rets, Paging => v # "clash"
    PROVE  LibInv(Fail(s, v))
<1>1. s \in Lib
  BY DEF LibInv
<1> QED
  BY <1>1, SetVal, SameInv

\* Of the engine only the transfers under way matter.
LEMMA HwInv ==
    ASSUME NEW s, LibInv(s), NEW h \in [Chnls -> HwSet], Keeping => Reaches(h, s.iommu)
    PROVE  LET g == [s EXCEPT !.hw = h]
           IN  LibInv(g) /\ g.hw = h /\ g.shm = s.shm /\ g.dev = s.dev
               /\ g.mmaps = s.mmaps /\ g.iommu = s.iommu /\ g.open = s.open
               /\ g.node = s.node /\ g.val = s.val
<1> DEFINE g == [s EXCEPT !.hw = h]
<1>1. s \in Lib
  BY DEF LibInv
<1>2. /\ g \in Lib /\ g.hw = h /\ g.shm = s.shm /\ g.node = s.node
      /\ g.dev = s.dev /\ g.mmaps = s.mmaps /\ g.iommu = s.iommu
      /\ g.open = s.open /\ g.val = s.val
  BY <1>1, SetHw
<1> HIDE DEF g
<1>3. Counted(g) /\ Mapped(g)
  BY <1>2 DEF LibInv, Counted, Mapped
<1>4. Keeping => BuffersMapped(g) /\ Reaches(g.hw, g.iommu)
  BY <1>2 DEF LibInv, BuffersMapped, At
<1>5. Attaching => Linked(g)
  BY <1>2 DEF LibInv, Linked
<1>6. Paging => InOrder(g) /\ g.val # "clash"
  BY <1>2 DEF LibInv, InOrder
<1>7. LibInv(g)
  BY <1>2, <1>3, <1>4, <1>5, <1>6 DEF LibInv
<1> QED
  BY <1>2, <1>7 DEF g

LEMMA ResetReaches ==
    ASSUME setup \in Setups, NEW maps
    PROVE  Reaches(EngineReset, maps)
BY ResetTyped DEF Reaches

-----------------------------------------------------------------------------
(* Opening and closing channels.                                           *)

\* Opening channel c in state s leaves g: it was open; or the device cannot be
\* opened; or another channel has it open; or it is opened.
Opened(s, c, g) ==
    /\ g \in Lib /\ g.shm = s.shm /\ g.node = s.node /\ g.mmaps = s.mmaps
    /\ g.iommu = s.iommu
    /\ \/ g = s /\ s.open[c]
       \/ /\ g.open = s.open /\ g.hw = s.hw /\ g.val = "EINVAL"
          /\ ~s.dev.priv /\ ~g.dev.priv /\ g.dev.refs = 0
          /\ s.dev.group => g.dev.group
       \/ /\ g.open = [s.open EXCEPT ![c] = TRUE] /\ g.hw = s.hw /\ g.val = "ok"
          /\ s.dev.priv /\ ~s.open[c] /\ g.dev.priv /\ g.dev.ops = s.dev.ops
          /\ g.dev.group = s.dev.group /\ g.dev.refs = s.dev.refs + 1
       \/ /\ g.open = [s.open EXCEPT ![c] = TRUE] /\ g.hw = EngineReset /\ g.val = "ok"
          /\ ~s.dev.priv /\ ~s.dev.group /\ ~s.open[c]
          /\ g.dev.ops /\ g.dev.priv /\ g.dev.group /\ g.dev.refs = 1

LEMMA DevStart ==
    ASSUME NEW d \in DevSet, NEW o \in BOOLEAN, NEW n \in 0 .. 2
    PROVE  LET e == [d EXCEPT !.ops = o, !.refs = n]
           IN  e \in DevSet /\ e.ops = o /\ e.priv = d.priv /\ e.refs = n
               /\ e.group = d.group
BY DEF DevSet

LEMMA DevOpen ==
    ASSUME NEW d \in DevSet, NEW p \in BOOLEAN, NEW g \in BOOLEAN
    PROVE  LET e == [d EXCEPT !.priv = p, !.group = g]
           IN  e \in DevSet /\ e.ops = d.ops /\ e.priv = p /\ e.refs = d.refs
               /\ e.group = g
BY DEF DevSet

LEMMA DevRef ==
    ASSUME NEW d \in DevSet, NEW n \in 0 .. 2
    PROVE  LET e == [d EXCEPT !.refs = n]
           IN  e \in DevSet /\ e.ops = d.ops /\ e.priv = d.priv /\ e.refs = n
               /\ e.group = d.group
BY DEF DevSet

LEMMA OpenFacts ==
    ASSUME NEW s, LibInv(s), s.val = "ok", NEW c \in Chnls,
           NEW fault \in {"none", "bind", "vfio"}
    PROVE  Opened(s, c, acapd_dma_open(s, c, fault))
<1>1. /\ s \in Lib /\ Counted(s) /\ setup \in Setups
      /\ s.dev \in DevSet /\ s.open \in [Chnls -> BOOLEAN] /\ s.hw \in [Chnls -> HwSet]
  BY DEF LibInv, Lib
<1>2. CASE s.open[c]
  BY <1>1, <1>2 DEF acapd_dma_open, Opened
<1> DEFINE o == [s.open EXCEPT ![c] = TRUE]
           g == acapd_dma_open(s, c, fault)
<1>3. o \in [Chnls -> BOOLEAN]
  BY <1>1
<1>4. CASE ~s.open[c] /\ s.dev.priv
  <2> DEFINE d == [s.dev EXCEPT !.refs = @ + 1]
             t == [s EXCEPT !.dev = d]
  <2>1. s.dev.refs = 1
    BY <1>1, <1>4 DEF Counted, Chnls
  <2>2. /\ d \in DevSet /\ d.priv = s.dev.priv /\ d.ops = s.dev.ops
        /\ d.group = s.dev.group /\ d.refs = s.dev.refs + 1
    BY <1>1, <2>1 DEF DevSet
  <2>3. acapd_device_get(s, fault) = t
    BY <1>4 DEF acapd_device_get
  <2> HIDE DEF d
  <2>4. /\ t \in Lib /\ t.dev = d /\ t.shm = s.shm /\ t.node = s.node
        /\ t.mmaps = s.mmaps /\ t.iommu = s.iommu /\ t.open = s.open
        /\ t.hw = s.hw /\ t.val = s.val
    BY <1>1, <2>2, SetDev
  <2> HIDE DEF t
  <2>5. vfio_dma_open(s, fault) = [t EXCEPT !.hw = t.hw]
    <3>1. t.dev.refs # 1 /\ t.val = "ok"
      BY <2>1, <2>2, <2>4
    <3> QED
      BY <2>3, <3>1 DEF vfio_dma_open, Then
  <2>6. [t EXCEPT !.hw = t.hw] = t
    BY <2>4 DEF Lib
  <2>7. g = [t EXCEPT !.open[c] = TRUE]
    BY <1>4, <2>4, <2>5, <2>6 DEF acapd_dma_open, Then
  <2>8. g = [t EXCEPT !.open = o]
    BY <2>4, <2>7
  <2> HIDE DEF o
  <2>9. /\ g \in Lib /\ g.open = o /\ g.shm = t.shm /\ g.node = t.node
        /\ g.dev = t.dev /\ g.mmaps = t.mmaps /\ g.iommu = t.iommu
        /\ g.hw = t.hw /\ g.val = t.val
    BY <1>3, <2>4, <2>8, SetOpen
  <2> QED
    BY <1>4, <2>2, <2>4, <2>9 DEF Opened, o
<1>5. CASE ~s.open[c] /\ ~s.dev.priv
  <2> DEFINE e == [s.dev EXCEPT !.ops = TRUE, !.refs = 0]
             t == [s EXCEPT !.dev = e]
             r == acapd_vfio_device_open(t, fault)
  <2>1. /\ e \in DevSet /\ e.ops = TRUE /\ e.priv = FALSE /\ e.refs = 0
        /\ e.group = s.dev.group
    <3>1. /\ e \in DevSet /\ e.ops = TRUE /\ e.priv = s.dev.priv /\ e.refs = 0
          /\ e.group = s.dev.group
      <4>1. TRUE \in BOOLEAN /\ 0 \in 0 .. 2
        OBVIOUS
      <4> QED
        BY <1>1, <4>1, DevStart, Zenon
    <3>2. s.dev.priv = FALSE
      BY <1>1, <1>5 DEF DevSet
    <3> QED
      BY <3>1, <3>2
  <2>2. [s EXCEPT !.dev.ops = TRUE, !.dev.refs = 0] = t
    BY <1>1 DEF Lib, DevSet
  <2> HIDE DEF e
  <2>3. /\ t \in Lib /\ t.dev = e /\ t.shm = s.shm /\ t.node = s.node
        /\ t.mmaps = s.mmaps /\ t.iommu = s.iommu /\ t.open = s.open
        /\ t.hw = s.hw /\ t.val = s.val
    BY <1>1, <2>1, SetDev
  <2>4. acapd_device_get(s, fault) = Then(r, LAMBDA x : [x EXCEPT !.dev.refs = @ + 1])
    BY <1>5, <2>2 DEF acapd_device_get
  <2> HIDE DEF t
  <2>5. CASE fault # "none" \/ s.dev.group
    <3> DEFINE d == [e EXCEPT !.group = @ \/ fault = "vfio"]
               u == [t EXCEPT !.dev = d]
    <3>1. d \in DevSet /\ ~d.priv /\ d.refs = 0 /\ (s.dev.group => d.group)
      BY <2>1 DEF DevSet
    <3>2. r = Fail(u, "EINVAL")
      BY <2>1, <2>3, <2>5 DEF acapd_vfio_device_open
    <3> HIDE DEF d
    <3>3. /\ u \in Lib /\ u.dev = d /\ u.shm = t.shm /\ u.node = t.node
          /\ u.mmaps = t.mmaps /\ u.iommu = t.iommu /\ u.open = t.open /\ u.hw = t.hw
      BY <2>3, <3>1, SetDev
    <3> HIDE DEF u
    <3>4. "EINVAL" \in Rets
      BY DEF Rets
    <3>5. /\ r \in Lib /\ r.dev = d /\ r.shm = s.shm /\ r.node = s.node
          /\ r.mmaps = s.mmaps /\ r.iommu = s.iommu /\ r.open = s.open /\ r.hw = s.hw
          /\ r.val = "EINVAL"
      BY <2>3, <3>2, <3>3, <3>4, SetVal
    <3> HIDE DEF r
    <3>6. g = r
      BY <1>5, <2>4, <3>5 DEF acapd_dma_open, vfio_dma_open, Then
    <3> QED
      BY <1>5, <3>1, <3>5, <3>6 DEF Opened
  <2>6. CASE fault = "none" /\ ~s.dev.group
    <3> DEFINE d == [e EXCEPT !.priv = TRUE, !.group = TRUE]
               f == [d EXCEPT !.refs = @ + 1]
               u == [r EXCEPT !.dev = f]
    <3>1. r = [t EXCEPT !.dev = d]
      <4>1. r = [t EXCEPT !.dev.priv = TRUE, !.dev.group = TRUE]
        BY <2>1, <2>3, <2>6 DEF acapd_vfio_device_open
      <4> QED
        BY <2>3, <4>1 DEF Lib, DevSet
    <3>2. /\ d \in DevSet /\ f \in DevSet /\ f.refs = 1
          /\ f.ops = TRUE /\ f.priv = TRUE /\ f.group = TRUE
      <4>1. /\ d \in DevSet /\ d.ops = TRUE /\ d.priv = TRUE /\ d.refs = 0
            /\ d.group = TRUE
        BY <2>1, DevOpen
      <4> HIDE DEF d
      <4>2. f = [d EXCEPT !.refs = 1]
        BY <4>1
      <4>3. 1 \in 0 .. 2
        OBVIOUS
      <4> HIDE DEF f
      <4>4. /\ f \in DevSet /\ f.refs = 1 /\ f.ops = d.ops /\ f.priv = d.priv
            /\ f.group = d.group
        BY <4>1, <4>2, <4>3, DevRef, Zenon
      <4> QED
        BY <4>1, <4>4
    <3> HIDE DEF d, r
    <3>3. /\ r \in Lib /\ r.dev = d /\ r.shm = s.shm /\ r.node = s.node
          /\ r.mmaps = s.mmaps /\ r.iommu = s.iommu /\ r.open = s.open /\ r.hw = s.hw
          /\ r.val = s.val
      BY <2>3, <3>1, <3>2, SetDev
    <3>4. acapd_device_get(s, fault) = u
      BY <2>4, <3>2, <3>3 DEF Then
    <3> HIDE DEF f
    <3>5. /\ u \in Lib /\ u.dev = f /\ u.shm = s.shm /\ u.node = s.node
          /\ u.mmaps = s.mmaps /\ u.iommu = s.iommu /\ u.open = s.open /\ u.val = "ok"
      BY <3>2, <3>3, SetDev
    <3> DEFINE v == [u EXCEPT !.hw = EngineReset]
    <3>6. vfio_dma_open(s, fault) = v
      BY <3>2, <3>4, <3>5 DEF vfio_dma_open, Then
    <3> HIDE DEF u
    <3>7. /\ v \in Lib /\ v.hw = EngineReset /\ v.shm = s.shm /\ v.node = s.node
          /\ v.dev = f /\ v.mmaps = s.mmaps /\ v.iommu = s.iommu
          /\ v.open = s.open /\ v.val = "ok"
      BY <1>1, <3>5, ResetTyped, SetHw
    <3> HIDE DEF v
    <3>8. g = [v EXCEPT !.open = o]
      BY <1>5, <3>6, <3>7 DEF acapd_dma_open, Then
    <3> HIDE DEF o
    <3>9. /\ g \in Lib /\ g.open = o /\ g.shm = s.shm /\ g.node = s.node
          /\ g.dev = f /\ g.mmaps = s.mmaps /\ g.iommu = s.iommu
          /\ g.hw = EngineReset /\ g.val = "ok"
      BY <1>3, <3>7, <3>8, SetOpen
    <3> QED
      BY <1>5, <2>6, <3>2, <3>9 DEF Opened, o
  <2> QED
    BY <2>5, <2>6
<1> QED
  BY <1>2, <1>4, <1>5

LEMMA OpenInv ==
    ASSUME NEW s, LibInv(s), s.val = "ok", NEW c \in Chnls,
           NEW fault \in {"none", "bind", "vfio"}
    PROVE  LET g == acapd_dma_open(s, c, fault)
           IN  LibInv(g) /\ g.shm = s.shm /\ (g.val = "ok" => g.dev.priv)
<1> DEFINE g == acapd_dma_open(s, c, fault)
<1>1. Opened(s, c, g)
  BY OpenFacts
<1> HIDE DEF g
<1>2. s \in Lib /\ s.open \in [Chnls -> BOOLEAN] /\ setup \in Setups
  BY DEF LibInv, Lib
<1>3. CASE g = s
  <2>1. s.open[c] => s.dev.priv
    BY DEF LibInv, Counted, Chnls
  <2> QED
    BY <1>1, <1>3, <2>1 DEF Opened, g
<1>4. CASE g # s
  <2>1. Counted(g)
    BY <1>1, <1>2, <1>4 DEF Opened, LibInv, Counted, Chnls
  <2>2. Mapped(g)
    BY <1>1 DEF Opened, LibInv, Mapped
  <2>3. Keeping => BuffersMapped(g)
    BY <1>1 DEF Opened, LibInv, BuffersMapped, At
  <2>4. Keeping => Reaches(g.hw, g.iommu)
    <3>1. g.iommu = s.iommu /\ (g.hw = s.hw \/ g.hw = EngineReset)
      BY <1>1, <1>4 DEF Opened
    <3> QED
      BY <1>2, <3>1, ResetReaches DEF LibInv
  <2>5. Attaching => Linked(g)
    <3>1. g.shm = s.shm /\ g.mmaps = s.mmaps
          /\ \/ s.dev.group => g.dev.group /\ (g.dev.priv => s.dev.priv)
             \/ ~s.dev.group
      BY <1>1, <1>4 DEF Opened
    <3> QED
      BY <3>1 DEF LibInv, Linked
  <2>6. Paging => InOrder(g) /\ g.val # "clash"
    BY <1>1, <1>4 DEF Opened, LibInv, InOrder
  <2>7. g \in Lib /\ g.shm = s.shm /\ (g.val = "ok" => g.dev.priv)
    BY <1>1, <1>4 DEF Opened
  <2> QED
    BY <1>2, <2>1, <2>2, <2>3, <2>4, <2>5, <2>6, <2>7 DEF LibInv, g
<1> QED
  BY <1>3, <1>4

\* Closing channel c in state s leaves g: the other channel has the device open,
\* or the engine is reset and the device closed.
Closed(s, c, works, g) ==
    /\ g \in Lib /\ g.shm = s.shm /\ g.node = s.node /\ g.val = s.val
    /\ g.open = [s.open EXCEPT ![c] = FALSE]
    /\ g.dev.ops = s.dev.ops /\ g.dev.group = s.dev.group
    /\ \/ /\ s.dev.refs = 2 /\ g.dev.refs = 1 /\ g.dev.priv = s.dev.priv
          /\ g.hw = s.hw /\ g.mmaps = s.mmaps /\ g.iommu = s.iommu
       \/ /\ s.dev.refs = 1 /\ g.dev.refs = 0 /\ ~g.dev.priv
          /\ g.hw = EngineReset /\ g.mmaps = <<>> /\ g.iommu \subseteq s.iommu
          /\ works => \A k \in g.iommu, i \in 1 .. Len(s.mmaps) : s.mmaps[i].da # k.da

LEMMA CloseFacts ==
    ASSUME NEW s, LibInv(s), NEW c \in Chnls, s.open[c], NEW works \in BOOLEAN
    PROVE  Closed(s, c, works, acapd_dma_close(s, c, works))
<1>1. /\ s \in Lib /\ Counted(s) /\ setup \in Setups
      /\ s.dev \in DevSet /\ s.open \in [Chnls -> BOOLEAN] /\ s.hw \in [Chnls -> HwSet]
      /\ s.mmaps \in Seq(MapSet) /\ s.iommu \subseteq IommuSet
  BY DEF LibInv, Lib
<1> DEFINE o == [s.open EXCEPT ![c] = FALSE]
           h == IF s.dev.refs = 1 THEN EngineReset ELSE s.hw
           t == [s EXCEPT !.open = o]
           u == [t EXCEPT !.hw = h]
           g == acapd_dma_close(s, c, works)
<1>2. o \in [Chnls -> BOOLEAN] /\ h \in [Chnls -> HwSet]
  BY <1>1, ResetTyped
<1>3. s.dev.priv /\ s.dev.refs \in {1, 2}
  BY <1>1 DEF Counted, Chnls
<1>4. [s EXCEPT !.open[c] = FALSE] = t
  OBVIOUS
<1> HIDE DEF o
<1>5. /\ t \in Lib /\ t.open = o /\ t.shm = s.shm /\ t.node = s.node
      /\ t.dev = s.dev /\ t.mmaps = s.mmaps /\ t.iommu = s.iommu
      /\ t.hw = s.hw /\ t.val = s.val
  BY <1>1, <1>2, SetOpen
<1> HIDE DEF t
<1>6. g = acapd_device_put(u, works)
  BY <1>4, <1>5 DEF acapd_dma_close, vfio_dma_close
<1> HIDE DEF h
<1>7. /\ u \in Lib /\ u.open = o /\ u.shm = s.shm /\ u.node = s.node
      /\ u.dev = s.dev /\ u.mmaps = s.mmaps /\ u.iommu = s.iommu
      /\ u.hw = h /\ u.val = s.val
  BY <1>2, <1>5, SetHw
<1> HIDE DEF u
<1>8. CASE s.dev.refs = 2
  <2> DEFINE d == [s.dev EXCEPT !.refs = 1]
  <2>1. d \in DevSet /\ d.ops = s.dev.ops /\ d.priv = s.dev.priv /\ d.refs = 1
        /\ d.group = s.dev.group
    <3>1. 1 \in 0 .. 2
      OBVIOUS
    <3> QED
      BY <1>1, <3>1, DevRef, Zenon
  <2>2. g = [u EXCEPT !.dev = d]
    BY <1>3, <1>6, <1>7, <1>8 DEF acapd_device_put
  <2> HIDE DEF d
  <2>3. /\ g \in Lib /\ g.dev = d /\ g.shm = u.shm /\ g.node = u.node
        /\ g.mmaps = u.mmaps /\ g.iommu = u.iommu /\ g.open = u.open
        /\ g.hw = u.hw /\ g.val = u.val
    BY <1>7, <2>1, <2>2, SetDev
  <2>4. g.hw = s.hw
    BY <1>7, <1>8, <2>3 DEF h
  <2> QED
    BY <1>7, <1>8, <2>1, <2>3, <2>4 DEF Closed, o
<1>9. CASE s.dev.refs = 1
  <2> DEFINE e == [s.dev EXCEPT !.refs = 0]
             v == [u EXCEPT !.dev = e]
             d == [e EXCEPT !.priv = FALSE]
             w == [v EXCEPT !.dev = d]
             I == IF works
                  THEN {k \in s.iommu : \A i \in DOMAIN s.mmaps : s.mmaps[i].da # k.da}
                  ELSE s.iommu
  <2>1. e \in DevSet /\ e.ops = s.dev.ops /\ e.refs = 0 /\ e.group = s.dev.group
    <3>1. 0 \in 0 .. 2
      OBVIOUS
    <3> QED
      BY <1>1, <3>1, DevRef, Zenon
  <2>2. g = acapd_vfio_device_close(v, works)
    BY <1>3, <1>6, <1>7, <1>9 DEF acapd_device_put
  <2> HIDE DEF e
  <2>3. /\ v \in Lib /\ v.dev = e /\ v.shm = u.shm /\ v.node = u.node
        /\ v.mmaps = u.mmaps /\ v.iommu = u.iommu /\ v.open = u.open
        /\ v.hw = u.hw /\ v.val = u.val
    BY <1>7, <2>1, SetDev
  <2> HIDE DEF v
  <2>4. d \in DevSet /\ d.ops = e.ops /\ d.priv = FALSE /\ d.refs = e.refs
        /\ d.group = e.group
    BY <2>1 DEF DevSet
  <2>5. g = [w EXCEPT !.mmaps = <<>>, !.iommu = I]
    <3>1. g = [v EXCEPT !.dev.priv = FALSE, !.mmaps = <<>>, !.iommu = I]
      <4>1. I = IF works
                THEN {k \in v.iommu : \A i \in DOMAIN v.mmaps : v.mmaps[i].da # k.da}
                ELSE v.iommu
        BY <1>7, <2>3
      <4> HIDE DEF I, g
      <4> QED
        BY <2>2, <4>1, Zenon DEF acapd_vfio_device_close
    <3> HIDE DEF I, g
    <3> QED
      BY <2>3, <3>1 DEF Lib
  <2>6. I \subseteq IommuSet /\ <<>> \in Seq(MapSet)
    BY <1>1
  <2>7. I \subseteq s.iommu
        /\ (works => \A k \in I, i \in 1 .. Len(s.mmaps) : s.mmaps[i].da # k.da)
    BY <1>1
  <2> HIDE DEF d, I
  <2>8. /\ w \in Lib /\ w.dev = d /\ w.shm = v.shm /\ w.node = v.node
        /\ w.mmaps = v.mmaps /\ w.iommu = v.iommu /\ w.open = v.open
        /\ w.hw = v.hw /\ w.val = v.val
    BY <2>3, <2>4, SetDev
  <2> HIDE DEF w, g
  <2>9. /\ g \in Lib /\ g.mmaps = <<>> /\ g.iommu = I /\ g.shm = w.shm
        /\ g.node = w.node /\ g.dev = w.dev /\ g.open = w.open
        /\ g.hw = w.hw /\ g.val = w.val
    <3> DEFINE M == <<>>
    <3>1. g = [w EXCEPT !.mmaps = M, !.iommu = I] /\ M \in Seq(MapSet)
      BY <2>5, <2>6, Zenon
    <3> HIDE DEF M
    <3>2. /\ g \in Lib /\ g.mmaps = M /\ g.iommu = I /\ g.shm = w.shm
          /\ g.node = w.node /\ g.dev = w.dev /\ g.open = w.open
          /\ g.hw = w.hw /\ g.val = w.val
      BY <2>6, <2>8, <3>1 DEF Lib
    <3> QED
      BY <3>2, Zenon DEF M
  <2>10. g.hw = EngineReset
    BY <1>7, <1>9, <2>3, <2>8, <2>9 DEF h
  <2>11. Closed(s, c, works, g)
    BY <1>7, <1>9, <2>1, <2>3, <2>4, <2>7, <2>8, <2>9, <2>10 DEF Closed, o
  <2> QED
    BY <2>11 DEF g
<1> QED
  BY <1>3, <1>8, <1>9

LEMMA CloseInv ==
    ASSUME NEW s, LibInv(s), NEW c \in Chnls, s.open[c], NEW works \in setup.unmap
    PROVE  LibInv(acapd_dma_close(s, c, works))
<1> DEFINE g == acapd_dma_close(s, c, works)
<1>1. s.open \in [Chnls -> BOOLEAN] /\ setup \in Setups /\ works \in BOOLEAN
  BY SetupFacts DEF LibInv, Lib
<1>2. Closed(s, c, works, g)
  BY <1>1, CloseFacts
<1> HIDE DEF g
<1>3. Counted(g)
  BY <1>1, <1>2 DEF Closed, LibInv, Counted, Chnls
<1>4. CASE s.dev.refs = 2
  <2>1. /\ g \in Lib /\ g.shm = s.shm /\ g.hw = s.hw /\ g.mmaps = s.mmaps
        /\ g.iommu = s.iommu /\ g.val = s.val /\ g.dev.group = s.dev.group
        /\ g.dev.priv = s.dev.priv
    BY <1>2, <1>4 DEF Closed
  <2>2. Mapped(g)
    BY <2>1 DEF LibInv, Mapped
  <2>3. Keeping => BuffersMapped(g) /\ Reaches(g.hw, g.iommu)
    BY <2>1 DEF LibInv, BuffersMapped, At
  <2>4. Attaching => Linked(g)
    BY <2>1 DEF LibInv, Linked
  <2>5. Paging => InOrder(g) /\ g.val # "clash"
    BY <2>1 DEF LibInv, InOrder
  <2> QED
    BY <1>1, <1>3, <2>1, <2>2, <2>3, <2>4, <2>5 DEF LibInv, g
<1>5. CASE s.dev.refs # 2
  <2>1. /\ g \in Lib /\ g.shm = s.shm /\ g.hw = EngineReset /\ g.mmaps = <<>>
        /\ g.iommu \subseteq s.iommu /\ g.val = s.val /\ g.dev.group = s.dev.group
        /\ ~g.dev.priv
        /\ works => \A k \in g.iommu, i \in 1 .. Len(s.mmaps) : s.mmaps[i].da # k.da
    BY <1>2, <1>5 DEF Closed
  <2>2. Len(g.mmaps) = 0
    BY <2>1
  <2>3. Mapped(g)
    BY <2>1, <2>2 DEF LibInv, Mapped
  <2>4. Keeping => BuffersMapped(g) /\ Reaches(g.hw, g.iommu)
    BY <1>1, <2>1, <2>2, ResetReaches DEF LibInv, BuffersMapped, At
  <2>5. Attaching => Linked(g)
    BY <2>1 DEF LibInv, Linked
  <2>6. Paging => InOrder(g) /\ g.val # "clash"
    <3> SUFFICES ASSUME Paging
                 PROVE  InOrder(g) /\ g.val # "clash"
      OBVIOUS
    <3>1. works
      BY DEF Paging
    <3>2. g.iommu = {}
      BY <2>1, <3>1 DEF LibInv, InOrder
    <3> QED
      BY <2>1, <2>2, <3>2 DEF LibInv, InOrder
  <2> QED
    BY <1>1, <1>3, <2>1, <2>3, <2>4, <2>5, <2>6 DEF LibInv, g
<1> QED
  BY <1>4, <1>5

-----------------------------------------------------------------------------
(* Mapping memory.                                                         *)

LEMMA PagesGrow ==
    ASSUME NEW i \in Nat, NEW n \in Nat, i <= n
    PROVE  i * PAGE \in Nat /\ n * PAGE \in Nat /\ i * PAGE <= n * PAGE
           /\ (i + 1) * PAGE = i * PAGE + PAGE
<1>1. PAGE \in Nat
  BY DmaAssumption
<1>2. PICK d \in Nat : n = i + d
  <2>1. n - i \in Nat /\ n = i + (n - i)
    OBVIOUS
  <2> QED
    BY <2>1
<1>3. n * PAGE = i * PAGE + d * PAGE
  BY <1>1, <1>2
<1>4. i * PAGE \in Nat /\ d * PAGE \in Nat /\ n * PAGE \in Nat
  BY <1>1
<1>5. (i + 1) * PAGE = i * PAGE + PAGE
  BY <1>1
<1> QED
  BY <1>3, <1>4, <1>5

\* A mapping that overlaps none.
LEMMA NoOverlap ==
    ASSUME NEW I, I \subseteq IommuSet, NEW da \in Nat, NEW a \in Nat \ {0},
           ~Overlaps(I, da, a)
    PROVE  \A l \in I : (da + a <= l.da \/ l.da + l.size <= da) /\ l.da # da
<1> SUFFICES ASSUME NEW l \in I
             PROVE  (da + a <= l.da \/ l.da + l.size <= da) /\ l.da # da
  OBVIOUS
<1>1. l.da \in Nat /\ l.size \in Nat \ {0}
  BY DEF IommuSet
<1>2. ~(da < l.da + l.size /\ l.da < da + a)
  BY DEF Overlaps
<1> QED
  BY <1>1, <1>2

\* Where mappings are a page each and in order, the address found is free.
LEMMA InOrderFree ==
    ASSUME NEW s \in Lib, InOrder(s)
    PROVE  ~Overlaps(s.iommu, NewDa(s.mmaps, PAGE), PAGE)
<1> DEFINE n == Len(s.mmaps)
<1>1. s.mmaps \in Seq(MapSet) /\ n \in Nat /\ PAGE \in Nat \ {0}
  BY DmaAssumption DEF Lib
<1>2. NewDa(s.mmaps, PAGE) = (n + 1) * PAGE
  BY <1>1, NewDaNext DEF InOrder
<1> SUFFICES ASSUME NEW l \in s.iommu
             PROVE  ~((n + 1) * PAGE < l.da + l.size)
  BY <1>2 DEF Overlaps
<1>3. PICK i \in 1 .. n : l.da = i * PAGE /\ l.size = PAGE
  BY DEF InOrder
<1>4. l.da + l.size <= (n + 1) * PAGE /\ (n + 1) * PAGE \in Nat /\ l.da + l.size \in Nat
  <2>1. i \in Nat /\ i <= n
    BY <1>1
  <2>2. i * PAGE \in Nat /\ n * PAGE \in Nat /\ i * PAGE <= n * PAGE
    BY <1>1, <2>1, PagesGrow
  <2>3. (n + 1) * PAGE = n * PAGE + PAGE
    BY <1>1, PagesGrow
  <2> HIDE DEF n
  <2> QED
    BY <1>1, <1>3, <2>2, <2>3
<1> QED
  BY <1>4

\* What a mapping made in state s leaves: it is the last of both.
AddsMap(s, va, a, mem, g) ==
    \E da \in Nat :
        /\ ~Overlaps(s.iommu, da, a) /\ da = NewDa(s.mmaps, a)
        /\ g.mmaps = Append(s.mmaps, [va |-> va, da |-> da, size |-> a])
        /\ g.iommu = s.iommu \cup {[da |-> da, size |-> a, mem |-> mem]}
        /\ g \in Lib /\ g.shm = s.shm /\ g.node = s.node /\ g.dev = s.dev
        /\ g.open = s.open /\ g.hw = s.hw /\ g.val = s.val

\* What the invariant asks of memory mem at va of which a bytes are mapped.
MayMap(s, va, a, mem) ==
    /\ Keeping => /\ va = "bd" \/ \E b \in Bufs : At(s, b, va)
                  /\ \A b \in Bufs : At(s, b, va) => mem = s.shm[b].mem /\ Size[b] <= a
    /\ OneSize => a = PAGE

LEMMA AddedInv ==
    ASSUME NEW s, LibInv(s), NEW va \in Vas \cup {"bd"}, NEW a \in Nat \ {0},
           NEW mem \in 0 .. MaxPages, MayMap(s, va, a, mem), NEW g, AddsMap(s, va, a, mem, g)
    PROVE  LibInv(g) /\ \E i \in 1 .. Len(g.mmaps) : g.mmaps[i].va = va
<1>1. PICK da \in Nat :
        /\ ~Overlaps(s.iommu, da, a) /\ da = NewDa(s.mmaps, a)
        /\ g.mmaps = Append(s.mmaps, [va |-> va, da |-> da, size |-> a])
        /\ g.iommu = s.iommu \cup {[da |-> da, size |-> a, mem |-> mem]}
        /\ g \in Lib /\ g.shm = s.shm /\ g.node = s.node /\ g.dev = s.dev
        /\ g.open = s.open /\ g.hw = s.hw /\ g.val = s.val
  BY DEF AddsMap
<1> DEFINE n == Len(s.mmaps)
           m == [va |-> va, da |-> da, size |-> a]
           k == [da |-> da, size |-> a, mem |-> mem]
<1>2. /\ s \in Lib /\ s.mmaps \in Seq(MapSet) /\ s.iommu \subseteq IommuSet /\ n \in Nat
      /\ setup \in Setups
  BY DEF LibInv, Lib
<1>3. m.va = va /\ m.da = da /\ m.size = a /\ k.da = da /\ k.size = a /\ k.mem = mem
      /\ m \in MapSet
  BY DEF MapSet
<1>4. g.mmaps = Append(s.mmaps, m) /\ g.iommu = s.iommu \cup {k}
  BY <1>1
<1> HIDE DEF m, k
<1>5. /\ Len(g.mmaps) = n + 1 /\ g.mmaps[n + 1] = m
      /\ \A i \in 1 .. n : g.mmaps[i] = s.mmaps[i]
  BY <1>2, <1>3, <1>4
<1>6. \A i \in 1 .. n + 1 : i \in 1 .. n \/ i = n + 1
  BY <1>2
<1> HIDE DEF n
<1>7. \A l \in s.iommu : (da + a <= l.da \/ l.da + l.size <= da) /\ l.da # da
  BY <1>1, <1>2, NoOverlap
<1>8. Counted(g)
  BY <1>1 DEF LibInv, Counted
<1>9. Mapped(g)
  <2>1. \A x, y \in g.iommu : x = y \/ x.da + x.size <= y.da \/ y.da + y.size <= x.da
    BY <1>3, <1>4, <1>7 DEF LibInv, Mapped
  <2>2. \A i \in 1 .. n + 1 :
          \E x \in g.iommu : x.da = g.mmaps[i].da /\ x.size = g.mmaps[i].size
    BY <1>3, <1>4, <1>5, <1>6 DEF LibInv, Mapped, n
  <2>3. \A i \in 1 .. n : s.mmaps[i].da # da
    BY <1>7 DEF LibInv, Mapped, n
  <2>4. \A i, j \in 1 .. n + 1 : g.mmaps[i].da = g.mmaps[j].da => i = j
    <3>1. \A i, j \in 1 .. n : s.mmaps[i].da = s.mmaps[j].da => i = j
      BY DEF LibInv, Mapped, n
    <3>2. \A i \in 1 .. n : g.mmaps[i].da = s.mmaps[i].da
      BY <1>5
    <3>3. g.mmaps[n + 1].da = da
      BY <1>3, <1>5
    <3> QED
      BY <1>6, <2>3, <3>1, <3>2, <3>3, Zenon
  <2> QED
    BY <1>5, <2>1, <2>2, <2>4 DEF Mapped
<1>10. Keeping => BuffersMapped(g)
  <2> SUFFICES ASSUME Keeping
               PROVE  BuffersMapped(g)
    OBVIOUS
  <2>1. BuffersMapped(s)
    BY DEF LibInv
  <2>2. \A b \in Bufs : \A x : At(g, b, x) <=> At(s, b, x)
    BY <1>1 DEF At
  <2>3. \A i \in 1 .. n + 1 :
          g.mmaps[i].va = "bd" \/ \E b \in Bufs : At(g, b, g.mmaps[i].va)
    BY <1>3, <1>5, <1>6, <2>1, <2>2 DEF BuffersMapped, MayMap, n
  <2>4. ASSUME NEW i \in 1 .. n + 1, NEW b \in Bufs, At(g, b, g.mmaps[i].va)
        PROVE  \E x \in g.iommu : /\ x.da = g.mmaps[i].da /\ x.mem = g.shm[b].mem
                                  /\ Size[b] <= x.size
    <3>1. CASE i \in 1 .. n
      BY <1>1, <1>4, <1>5, <2>1, <2>2, <2>4, <3>1 DEF BuffersMapped, n
    <3>2. CASE i = n + 1
      <4>1. At(s, b, va)
        BY <1>3, <1>5, <2>2, <2>4, <3>2
      <4>2. mem = g.shm[b].mem /\ Size[b] <= a
        BY <1>1, <4>1 DEF MayMap
      <4> QED
        BY <1>3, <1>4, <1>5, <3>2, <4>2
    <3> QED
      BY <1>6, <3>1, <3>2
  <2> QED
    BY <1>1, <1>5, <2>1, <2>2, <2>3, <2>4 DEF BuffersMapped
<1>11. Keeping => Reaches(g.hw, g.iommu)
  BY <1>1, <1>4 DEF LibInv, Reaches
<1>12. Attaching => Linked(g)
  BY <1>1, <1>5, <1>6 DEF LibInv, Linked, n
<1>13. Paging => InOrder(g) /\ g.val # "clash"
  <2> SUFFICES ASSUME Paging
               PROVE  InOrder(g) /\ g.val # "clash"
    OBVIOUS
  <2>1. InOrder(s) /\ s.val # "clash"
    BY DEF LibInv
  <2>2. a = PAGE
    BY DEF Paging, MayMap
  <2>3. da = (n + 1) * PAGE
    BY <1>1, <1>2, <2>1, <2>2, NewDaNext DEF InOrder, n
  <2>4. \A i \in 1 .. n + 1 : g.mmaps[i].da = i * PAGE /\ g.mmaps[i].size = PAGE
    BY <1>3, <1>5, <1>6, <2>1, <2>2, <2>3 DEF InOrder, n
  <2>5. \A x \in g.iommu : x.size = PAGE /\ \E i \in 1 .. n + 1 : x.da = g.mmaps[i].da
    <3>1. n + 1 \in 1 .. n + 1 /\ 1 .. n \subseteq 1 .. n + 1
      BY <1>2 DEF n
    <3> QED
      BY <1>3, <1>4, <1>5, <2>1, <2>2, <3>1 DEF InOrder, n
  <2> QED
    BY <1>1, <1>5, <2>1, <2>4, <2>5 DEF InOrder
<1>14. n + 1 \in 1 .. n + 1
  BY <1>2 DEF n
<1>15. LibInv(g)
  BY <1>1, <1>2, <1>8, <1>9, <1>10, <1>11, <1>12, <1>13 DEF LibInv
<1> QED
  BY <1>3, <1>5, <1>14, <1>15

LEMMA VfioAttachInv ==
    ASSUME NEW s, LibInv(s), s.val = "ok", NEW va \in Vas \cup {"bd"},
           NEW size \in Nat \ {0}, NEW mem \in 0 .. MaxPages,
           MayMap(s, va, align_up(size), mem)
    PROVE  LET g == vfio_attach(s, va, size, mem)
           IN  /\ LibInv(g) /\ g.shm = s.shm /\ g.node = s.node /\ g.dev = s.dev
               /\ g.open = s.open /\ g.hw = s.hw
               /\ g.val = "ok" => s.dev.priv
                                  /\ \E i \in 1 .. Len(g.mmaps) : g.mmaps[i].va = va
               /\ \A i \in 1 .. Len(s.mmaps) :
                     i \in 1 .. Len(g.mmaps) /\ g.mmaps[i] = s.mmaps[i]
               /\ s.iommu \subseteq g.iommu
<1> DEFINE a == align_up(size)
           da == NewDa(s.mmaps, a)
           g == vfio_attach(s, va, size, mem)
<1>1. /\ s \in Lib /\ s.mmaps \in Seq(MapSet) /\ s.iommu \subseteq IommuSet
      /\ setup \in Setups
  BY DEF LibInv, Lib
<1>2. a \in Nat \ {0}
  BY AlignUp
<1>3. da \in Nat
  BY <1>1, <1>2, NewDaNat
<1> HIDE DEF a, da
<1>4. CASE ~s.dev.priv \/ Overlaps(s.iommu, da, a)
  <2> DEFINE v == IF ~s.dev.priv THEN "EINVAL" ELSE "clash"
  <2>1. g = Fail(s, v)
    BY <1>4 DEF vfio_attach, a, da
  <2>2. v \in Rets /\ v # "ok"
    BY DEF Rets
  <2>3. Paging => v # "clash"
    <3> SUFFICES ASSUME Paging
                 PROVE  ~Overlaps(s.iommu, da, a)
      BY <1>4
    <3>1. a = PAGE
      BY DEF Paging, MayMap, a
    <3> QED
      BY <1>1, <3>1, InOrderFree DEF LibInv, da
  <2> HIDE DEF v, g
  <2>4. LibInv(g)
    BY <2>1, <2>2, <2>3, FailInv
  <2>5. /\ g.shm = s.shm /\ g.node = s.node /\ g.dev = s.dev /\ g.val = v
        /\ g.open = s.open /\ g.hw = s.hw /\ g.mmaps = s.mmaps /\ g.iommu = s.iommu
    BY <1>1, <2>1, <2>2, SetVal
  <2> QED
    BY <2>2, <2>4, <2>5 DEF g
<1>5. CASE s.dev.priv /\ ~Overlaps(s.iommu, da, a)
  <2> DEFINE m == [va |-> va, da |-> da, size |-> a]
             k == [da |-> da, size |-> a, mem |-> mem]
             M == Append(s.mmaps, m)
             I == s.iommu \cup {k}
  <2>1. g = [s EXCEPT !.mmaps = M, !.iommu = I]
    BY <1>5 DEF vfio_attach, a, da
  <2>2. m \in MapSet /\ k \in IommuSet
    BY <1>2, <1>3 DEF MapSet, IommuSet
  <2> HIDE DEF m, k
  <2>3. M \in Seq(MapSet) /\ I \subseteq IommuSet
        /\ \A i \in 1 .. Len(s.mmaps) : i \in 1 .. Len(M) /\ M[i] = s.mmaps[i]
    BY <1>1, <2>2
  <2> HIDE DEF M, I, g
  <2>4. /\ g \in Lib /\ g.mmaps = M /\ g.iommu = I /\ g.shm = s.shm
        /\ g.node = s.node /\ g.dev = s.dev /\ g.open = s.open
        /\ g.hw = s.hw /\ g.val = s.val
    BY <1>1, <2>1, <2>3 DEF Lib
  <2>5. AddsMap(s, va, a, mem, g)
    BY <1>3, <1>5, <2>4 DEF AddsMap, M, I, m, k, da
  <2>6. LibInv(g) /\ \E i \in 1 .. Len(g.mmaps) : g.mmaps[i].va = va
    BY <1>2, <2>5, AddedInv DEF a
  <2> QED
    BY <1>5, <2>3, <2>4, <2>6 DEF g, I
<1> QED
  BY <1>4, <1>5

\* What a step on the record leaves of the buffers when it only relinks them.
SameBufs(s, g) ==
    \A b \in Bufs : /\ g.shm[b].live = s.shm[b].live /\ g.shm[b].va = s.shm[b].va
                    /\ g.shm[b].mem = s.shm[b].mem

LEMMA SetRef ==
    ASSUME NEW d \in BufSet, NEW r \in BOOLEAN
    PROVE  LET e == [d EXCEPT !.ref = r]
           IN  e \in BufSet /\ e.live = d.live /\ e.va = d.va /\ e.mem = d.mem /\ e.ref = r
BY DEF BufSet

\* Linking and unlinking buffers: a buffer that is linked after it was linked
\* before, or is mapped.
LEMMA RelinkInv ==
    ASSUME NEW s, LibInv(s), NEW g \in Lib, SameBufs(s, g),
           g.dev = s.dev, g.mmaps = s.mmaps, g.iommu = s.iommu,
           g.open = s.open, g.hw = s.hw, g.val = s.val,
           Attaching => \A b \in Bufs :
               \/ ~g.shm[b].ref \/ s.shm[b].ref
               \/ s.dev.group /\ \E i \in 1 .. Len(s.mmaps) : s.mmaps[i].va = s.shm[b].va
    PROVE  LibInv(g)
<1>1. Counted(g) /\ Mapped(g)
  BY DEF LibInv, Counted, Mapped
<1>2. Keeping => BuffersMapped(g) /\ Reaches(g.hw, g.iommu)
  <2> SUFFICES ASSUME Keeping
               PROVE  BuffersMapped(g)
    BY DEF LibInv
  <2>1. BuffersMapped(s)
    BY DEF LibInv
  <2>2. \A b \in Bufs : \A x : At(g, b, x) <=> At(s, b, x)
    BY DEF At, SameBufs
  <2> QED
    BY <2>1, <2>2 DEF BuffersMapped, SameBufs
<1>3. Attaching => Linked(g)
  BY DEF LibInv, Linked, SameBufs
<1>4. Paging => InOrder(g)
  BY DEF LibInv, InOrder
<1> QED
  BY <1>1, <1>2, <1>3, <1>4 DEF LibInv

Linking(s, b, r, n) == [s EXCEPT !.shm[b].ref = r, !.node = n]

LEMMA LinkInv ==
    ASSUME NEW s, LibInv(s), NEW b \in Bufs, NEW r \in BOOLEAN, NEW n \in Bufs \cup {"bd", NULL},
           Attaching /\ r = TRUE =>
              s.dev.group /\ \E i \in 1 .. Len(s.mmaps) : s.mmaps[i].va = s.shm[b].va
    PROVE  LET g == Linking(s, b, r, n)
           IN  /\ LibInv(g) /\ SameBufs(s, g) /\ g.dev = s.dev /\ g.mmaps = s.mmaps
               /\ g.iommu = s.iommu /\ g.open = s.open /\ g.hw = s.hw /\ g.val = s.val
<1> DEFINE e == [s.shm[b] EXCEPT !.ref = r]
           S == [s.shm EXCEPT ![b] = e]
           g == Linking(s, b, r, n)
<1>1. s \in Lib /\ s.shm \in [Bufs -> BufSet] /\ s.shm[b] \in BufSet
  BY DEF LibInv, Lib
<1>2. /\ e \in BufSet /\ e.live = s.shm[b].live /\ e.va = s.shm[b].va
      /\ e.mem = s.shm[b].mem /\ e.ref = r
  BY <1>1, SetRef
<1>3. g = [s EXCEPT !.shm = S, !.node = n]
  BY <1>1 DEF Linking
<1> HIDE DEF e
<1>4. S \in [Bufs -> BufSet] /\ S[b] = e /\ \A x \in Bufs : x # b => S[x] = s.shm[x]
  BY <1>1, <1>2
<1> HIDE DEF S, g
<1>5. /\ g \in Lib /\ g.shm = S /\ g.mmaps = s.mmaps /\ g.iommu = s.iommu
      /\ g.dev = s.dev /\ g.open = s.open /\ g.hw = s.hw /\ g.val = s.val
  BY <1>1, <1>3, <1>4 DEF Lib
<1>6. SameBufs(s, g)
  BY <1>2, <1>4, <1>5 DEF SameBufs
<1>7. ASSUME Attaching, NEW x \in Bufs
      PROVE  \/ ~g.shm[x].ref \/ s.shm[x].ref
             \/ s.dev.group /\ \E i \in 1 .. Len(s.mmaps) : s.mmaps[i].va = s.shm[x].va
  BY <1>2, <1>4, <1>5, <1>7
<1>8. LibInv(g)
  BY <1>5, <1>6, <1>7, RelinkInv
<1> QED
  BY <1>5, <1>6, <1>8 DEF g

LEMMA DeviceAttachInv ==
    ASSUME NEW s, LibInv(s), s.val = "ok", NEW b \in Bufs, s.shm[b].live,
           Attaching => s.dev.priv
    PROVE  LET g == acapd_device_attach_shm(s, b)
           IN  LibInv(g) /\ SameBufs(s, g) /\ g.dev = s.dev /\ g.open = s.open
               /\ g.hw = s.hw
<1> DEFINE v == s.shm[b].va
           t == vfio_attach(s, v, Size[b], s.shm[b].mem)
           u == IF s.dev.ops THEN t ELSE s
           g == acapd_device_attach_shm(s, b)
<1>1. /\ s \in Lib /\ setup \in Setups /\ s.shm[b] \in BufSet /\ s.dev \in DevSet
  BY DEF LibInv, Lib
<1>2. v \in Vas /\ s.shm[b].mem \in 0 .. MaxPages
  BY <1>1 DEF BufSet
<1>3. Size[b] \in Nat \ {0} /\ align_up(Size[b]) \in Nat \ {0}
      /\ Size[b] <= align_up(Size[b])
  BY <1>1, SetupFacts, AlignUp
<1>4. MayMap(s, v, align_up(Size[b]), s.shm[b].mem)
  <2>1. Keeping => \A x \in Bufs : At(s, x, v) => x = b
    BY DEF LibInv, BuffersMapped
  <2>2. At(s, b, v)
    BY DEF At
  <2> QED
    BY <1>3, <2>1, <2>2 DEF MayMap, OneSize
<1>5. /\ LibInv(t) /\ t.shm = s.shm /\ t.dev = s.dev /\ t.open = s.open /\ t.hw = s.hw
      /\ t.val = "ok" => \E i \in 1 .. Len(t.mmaps) : t.mmaps[i].va = v
  BY <1>2, <1>3, <1>4, VfioAttachInv
<1> HIDE DEF t
<1>6. /\ LibInv(u) /\ u.shm = s.shm /\ u.dev = s.dev /\ u.open = s.open /\ u.hw = s.hw
      /\ u.val = "ok" /\ s.dev.ops => \E i \in 1 .. Len(u.mmaps) : u.mmaps[i].va = v
  BY <1>5
<1>7. CASE s.shm[b].ref
  BY <1>7 DEF acapd_device_attach_shm, SameBufs
<1>8. CASE ~s.shm[b].ref
  <2>1. g = Then(u, LAMBDA x : [x EXCEPT !.shm[b].ref = TRUE, !.node = b])
    BY <1>8 DEF acapd_device_attach_shm, t
  <2> HIDE DEF u
  <2>2. CASE u.val # "ok"
    <3>1. g = u
      BY <2>1, <2>2 DEF Then
    <3> QED
      BY <1>6, <3>1 DEF SameBufs
  <2>3. CASE u.val = "ok"
    <3> DEFINE r == TRUE
               n == b
               w == Linking(u, b, r, n)
    <3>1. g = w
      BY <2>1, <2>3 DEF Then, Linking
    <3>2. r \in BOOLEAN /\ n \in Bufs \cup {"bd", NULL}
      OBVIOUS
    <3>3. Attaching /\ r = TRUE =>
            u.dev.group /\ \E i \in 1 .. Len(u.mmaps) : u.mmaps[i].va = u.shm[b].va
      BY <1>6, <2>3 DEF LibInv, Counted
    <3> HIDE DEF r, n
    <3>4. /\ LibInv(w) /\ SameBufs(u, w) /\ w.dev = u.dev /\ w.open = u.open
          /\ w.hw = u.hw
      <4>1. LibInv(u)
        BY <1>6
      <4> QED
        BY <3>2, <3>3, <4>1, LinkInv, Zenon
    <3> QED
      BY <1>6, <3>1, <3>4 DEF SameBufs
  <2> QED
    BY <2>2, <2>3
<1> QED
  BY <1>7, <1>8

-----------------------------------------------------------------------------
(* Finding and removing mappings.                                          *)

\* MapOf() finds the first mapping of an address, if there is one.
LEMMA MapOfFacts ==
    ASSUME NEW maps \in Seq(MapSet), NEW va
    PROVE  /\ MapOf(maps, va) \in 0 .. Len(maps)
           /\ MapOf(maps, va) # 0 => maps[MapOf(maps, va)].va = va
           /\ (\E i \in 1 .. Len(maps) : maps[i].va = va) => MapOf(maps, va) # 0
<1> DEFINE S == {i \in 1 .. Len(maps) : maps[i].va = va}
<1>1. MapOf(maps, va) = IF S = {} THEN 0
                        ELSE CHOOSE i \in S : \A j \in S : i <= j
  BY DEF MapOf, SelectInSeq, Min
<1>2. S \subseteq Nat /\ Len(maps) \in Nat
  OBVIOUS
<1>3. S # {} => \E i \in S : \A j \in S : i <= j
  <2> HIDE DEF S
  <2> QED
    BY <1>2, Least
<1>4. S # {} => MapOf(maps, va) \in S
  <2> HIDE DEF S
  <2> QED
    BY <1>1, <1>3
<1>5. CASE S = {}
  <2>1. MapOf(maps, va) = 0
    BY <1>1, <1>5
  <2> QED
    BY <1>2, <1>5, <2>1
<1>6. CASE S # {}
  <2>1. MapOf(maps, va) \in 1 .. Len(maps) /\ maps[MapOf(maps, va)].va = va
    BY <1>4, <1>6
  <2> QED
    BY <1>2, <2>1
<1> QED
  BY <1>5, <1>6

\* Where entry j was before entry i was removed.
Pos(i, j) == IF j < i THEN j ELSE j + 1

LEMMA RemoveFacts ==
    ASSUME NEW maps \in Seq(MapSet), NEW i \in 1 .. Len(maps)
    PROVE  /\ RemoveAt(maps, i) \in Seq(MapSet)
           /\ \A j \in 1 .. Len(RemoveAt(maps, i)) :
                 /\ Pos(i, j) \in 1 .. Len(maps) /\ Pos(i, j) # i
                 /\ RemoveAt(maps, i)[j] = maps[Pos(i, j)]
<1> DEFINE A == SubSeq(maps, 1, i - 1)
           B == SubSeq(maps, i + 1, Len(maps))
           n == Len(maps)
<1>1. n \in Nat /\ i \in Nat /\ 1 <= i /\ i <= n
  OBVIOUS
<1>2. /\ A \in Seq(MapSet) /\ Len(A) = i - 1
      /\ \A j \in 1 .. i - 1 : A[j] = maps[j]
  BY <1>1
<1>3. /\ B \in Seq(MapSet) /\ Len(B) = n - i
      /\ \A j \in 1 .. n - i : B[j] = maps[i + j]
  BY <1>1
<1>4. RemoveAt(maps, i) = A \o B
  BY DEF RemoveAt
<1> HIDE DEF A, B
<1>5. A \o B \in Seq(MapSet) /\ Len(A \o B) = n - 1
  <2>1. A \o B \in Seq(MapSet) /\ Len(A \o B) = Len(A) + Len(B)
    BY <1>2, <1>3, ConcatProperties
  <2>2. (i - 1) + (n - i) = n - 1
    BY <1>1
  <2> QED
    BY <1>2, <1>3, <2>1, <2>2
<1>6. ASSUME NEW j \in 1 .. n - 1
      PROVE  /\ Pos(i, j) \in 1 .. n /\ Pos(i, j) # i
             /\ (A \o B)[j] = maps[Pos(i, j)]
  <2>1. CASE j < i
    BY <1>1, <1>2, <1>3, <2>1 DEF Pos
  <2>2. CASE ~(j < i)
    <3>1. j - (i - 1) \in 1 .. n - i /\ i + (j - (i - 1)) = j + 1 /\ ~(j <= i - 1)
      BY <1>1, <2>2
    <3>2. (A \o B)[j] = B[j - (i - 1)]
      BY <1>1, <1>2, <1>3, <2>2
    <3>3. B[j - (i - 1)] = maps[j + 1]
      BY <1>3, <3>1
    <3> QED
      BY <1>1, <2>2, <3>2, <3>3 DEF Pos
  <2> QED
    BY <2>1, <2>2
<1> QED
  BY <1>4, <1>5, <1>6

LEMMA PosInjective ==
    ASSUME NEW i \in Nat, NEW j \in Nat, NEW k \in Nat, Pos(i, j) = Pos(i, k)
    PROVE  j = k
BY DEF Pos

\* No transfer uses the memory of b.
Unused(s, b) == \A c \in Chnls : s.hw[c].st = "busy" => s.hw[c].mem # s.shm[b].mem

LEMMA VfioDetachInv ==
    ASSUME NEW s, LibInv(s), s.val = "ok", NEW b \in Bufs, s.shm[b].live,
           Unused(s, b), NEW works \in BOOLEAN, ~Attaching, ~Paging
    PROVE  LibInv(vfio_detach(s, b, works))
<1> DEFINE v == s.shm[b].va
           i == MapOf(s.mmaps, v)
           g == vfio_detach(s, b, works)
<1>1. /\ s \in Lib /\ setup \in Setups /\ s.mmaps \in Seq(MapSet)
      /\ s.iommu \subseteq IommuSet
  BY DEF LibInv, Lib
<1>2. "EINVAL" \in Rets /\ "ok" \in Rets
  BY DEF Rets
<1>3. CASE ~s.dev.priv \/ i = 0
  <2>1. g = Fail(s, "EINVAL")
    BY <1>3 DEF vfio_detach
  <2> QED
    BY <1>2, <2>1, FailInv
<1>4. CASE ~(~s.dev.priv \/ i = 0)
  <2>1. i \in 1 .. Len(s.mmaps) /\ s.mmaps[i].va = v
    <3>1. Len(s.mmaps) \in Nat
      BY <1>1
    <3> QED
      BY <1>1, <1>4, <3>1, MapOfFacts
  <2> DEFINE M == RemoveAt(s.mmaps, i)
             da == s.mmaps[i].da
             I == IF works THEN {k \in s.iommu : k.da # da} ELSE s.iommu
             r == IF works THEN "ok" ELSE "EINVAL"
  <2>2. g = [s EXCEPT !.mmaps = M, !.iommu = I, !.val = r]
    BY <1>4 DEF vfio_detach
  <2> HIDE DEF i
  <2>3. /\ M \in Seq(MapSet)
        /\ \A j \in 1 .. Len(M) : /\ Pos(i, j) \in 1 .. Len(s.mmaps) /\ Pos(i, j) # i
                                  /\ M[j] = s.mmaps[Pos(i, j)]
    BY <1>1, <2>1, RemoveFacts
  <2>4. I \subseteq IommuSet /\ I \subseteq s.iommu /\ r \in Rets
        /\ \A k \in s.iommu : k \in I \/ k.da = da
    BY <1>1, <1>2
  <2> HIDE DEF M, I, r, g, da
  <2>5. /\ g \in Lib /\ g.mmaps = M /\ g.iommu = I /\ g.val = r /\ g.shm = s.shm
        /\ g.dev = s.dev /\ g.open = s.open /\ g.hw = s.hw
    BY <1>1, <2>2, <2>3, <2>4 DEF Lib
  <2>6. Counted(g)
    BY <2>5 DEF LibInv, Counted
  <2>7. \A j \in 1 .. Len(M) : M[j].da # da
    BY <2>1, <2>3 DEF LibInv, Mapped, da
  <2>8. Mapped(g)
    <3>1. \A k, l \in I : k = l \/ k.da + k.size <= l.da \/ l.da + l.size <= k.da
      BY <2>4 DEF LibInv, Mapped
    <3>2. \A j \in 1 .. Len(M) : \E k \in I : k.da = M[j].da /\ k.size = M[j].size
      BY <2>3, <2>4, <2>7 DEF LibInv, Mapped
    <3>3. ASSUME NEW j \in 1 .. Len(M), NEW l \in 1 .. Len(M), M[j].da = M[l].da
          PROVE  j = l
      <4>1. Pos(i, j) = Pos(i, l)
        BY <2>3, <3>3 DEF LibInv, Mapped
      <4>2. i \in Nat /\ j \in Nat /\ l \in Nat
        BY <2>1, <2>3
      <4> QED
        BY <4>1, <4>2, PosInjective
    <3> QED
      BY <2>5, <3>1, <3>2, <3>3 DEF Mapped
  <2>9. Keeping => BuffersMapped(g) /\ Reaches(g.hw, g.iommu)
    <3> SUFFICES ASSUME Keeping
                 PROVE  BuffersMapped(g) /\ Reaches(g.hw, g.iommu)
      OBVIOUS
    <3>1. BuffersMapped(s) /\ Reaches(s.hw, s.iommu)
      BY DEF LibInv
    <3>2. \A x \in Bufs : \A y : At(g, x, y) <=> At(s, x, y)
      BY <2>5 DEF At
    <3>3. \A j \in 1 .. Len(M) :
            M[j].va = "bd" \/ \E x \in Bufs : At(s, x, M[j].va)
      BY <2>3, <3>1 DEF BuffersMapped
    <3>4. ASSUME NEW j \in 1 .. Len(M), NEW x \in Bufs, At(s, x, M[j].va)
          PROVE  \E k \in I : k.da = M[j].da /\ k.mem = s.shm[x].mem /\ Size[x] <= k.size
      BY <2>3, <2>4, <2>7, <3>1, <3>4 DEF BuffersMapped
    <3>5. BuffersMapped(g)
      <4>1. \A a, x \in Bufs : At(g, a, g.shm[x].va) /\ g.shm[x].live => a = x
        BY <2>5, <3>1, <3>2 DEF BuffersMapped
      <4> QED
        BY <2>5, <3>2, <3>3, <3>4, <4>1 DEF BuffersMapped
    <3>6. \A k \in s.iommu : k.da = da => k.mem = s.shm[b].mem
      <4>1. At(s, b, s.mmaps[i].va)
        BY <2>1 DEF At
      <4>2. PICK l \in s.iommu : l.da = da /\ l.mem = s.shm[b].mem
        BY <2>1, <3>1, <4>1 DEF BuffersMapped, da
      <4>3. \A k \in s.iommu : k.da \in Nat /\ k.size \in Nat \ {0}
        BY <1>1 DEF IommuSet
      <4>4. \A k \in s.iommu : k.da = da => k = l
        BY <4>2, <4>3 DEF LibInv, Mapped
      <4> QED
        BY <4>2, <4>4
    <3>7. Reaches(g.hw, I)
      BY <2>4, <2>5, <3>1, <3>6 DEF Reaches, Unused
    <3> QED
      BY <2>5, <3>5, <3>7
  <2>10. LibInv(g)
    BY <1>1, <2>5, <2>6, <2>8, <2>9 DEF LibInv
  <2> QED
    BY <2>10 DEF g
<1> QED
  BY <1>3, <1>4

LEMMA SetNode ==
    ASSUME NEW s, LibInv(s), NEW n \in Bufs \cup {"bd", NULL}
    PROVE  LET g == [s EXCEPT !.node = n]
           IN  LibInv(g) /\ g.shm = s.shm /\ g.dev = s.dev /\ g.mmaps = s.mmaps
               /\ g.iommu = s.iommu /\ g.open = s.open /\ g.hw = s.hw /\ g.val = s.val
<1> DEFINE g == [s EXCEPT !.node = n]
<1>1. s \in Lib
  BY DEF LibInv
<1>2. /\ g \in Lib /\ g.shm = s.shm /\ g.dev = s.dev /\ g.mmaps = s.mmaps
      /\ g.iommu = s.iommu /\ g.open = s.open /\ g.hw = s.hw /\ g.val = s.val
  BY <1>1 DEF Lib
<1> HIDE DEF g
<1>3. LibInv(g)
  BY <1>2, SameInv DEF LibInv
<1> QED
  BY <1>2, <1>3 DEF g

LEMMA ListDelInv ==
    ASSUME NEW s, LibInv(s)
    PROVE  LibInv(list_del(s))
<1>1. NULL \in Bufs \cup {"bd", NULL} /\ FALSE \in BOOLEAN
  OBVIOUS
<1>2. CASE s.node \in Bufs
  <2> DEFINE r == FALSE
             b == s.node
  <2>1. list_del(s) = Linking(s, b, r, NULL)
    BY <1>2 DEF list_del, Linking
  <2>2. r \in BOOLEAN /\ b \in Bufs
        /\ (Attaching /\ r = TRUE =>
              s.dev.group /\ \E i \in 1 .. Len(s.mmaps) : s.mmaps[i].va = s.shm[b].va)
    BY <1>2
  <2> HIDE DEF r, b
  <2>3. LibInv(Linking(s, b, r, NULL))
    BY <1>1, <2>2, LinkInv, Zenon
  <2> QED
    BY <2>1, <2>3
<1>3. CASE s.node \notin Bufs
  <2>1. list_del(s) = [s EXCEPT !.node = NULL]
    BY <1>3 DEF list_del
  <2> QED
    BY <1>1, <2>1, SetNode
<1> QED
  BY <1>2, <1>3

LEMMA DeviceDetachInv ==
    ASSUME NEW s, LibInv(s), s.val = "ok", NEW b \in Bufs, s.shm[b].live,
           Unused(s, b), NEW works \in BOOLEAN, ~Attaching, ~Paging
    PROVE  LibInv(acapd_device_detach_shm(s, b, works))
<1> DEFINE u == IF s.dev.ops THEN vfio_detach(s, b, works) ELSE s
<1>1. LibInv(u)
  BY VfioDetachInv
<1>2. CASE ~s.shm[b].ref
  <2>1. "EINVAL" \in Rets
    BY DEF Rets
  <2> QED
    BY <1>2, <2>1, FailInv DEF acapd_device_detach_shm
<1>3. CASE s.shm[b].ref
  <2>1. acapd_device_detach_shm(s, b, works) = IF u.val = "ok" THEN list_del(u) ELSE u
    BY <1>3 DEF acapd_device_detach_shm, Then
  <2> HIDE DEF u
  <2> QED
    BY <1>1, <2>1, ListDelInv
<1> QED
  BY <1>2, <1>3

-----------------------------------------------------------------------------
(* Transfers.                                                              *)

LEMMA CheckReadyInv ==
    ASSUME NEW s, LibInv(s), NEW c \in Chnls
    PROVE  LET g == CheckReady(s, c)
           IN  LibInv(g) /\ (g.val = "ok" => g = s)
<1>1. "EINVAL" \in Rets /\ "EBUSY" \in Rets /\ s \in Lib
  BY DEF Rets, LibInv
<1>2. LibInv(Fail(s, "EINVAL")) /\ Fail(s, "EINVAL").val = "EINVAL"
  BY <1>1, FailInv, SetVal
<1>3. LibInv(Fail(s, "EBUSY")) /\ Fail(s, "EBUSY").val = "EBUSY"
  BY <1>1, FailInv, SetVal
<1>4. CheckReady(s, c) \in {Fail(s, "EINVAL"), Fail(s, "EBUSY"), s}
  BY DEF CheckReady
<1> QED
  BY <1>2, <1>3, <1>4

\* The bytes off .. off + len - 1 of b, at da, are mapped.
Given(s, b, da, off, len) ==
    \E k \in s.iommu : /\ k.mem = s.shm[b].mem /\ da = k.da + off
                       /\ off + len <= k.size

LEMMA BusyInv ==
    ASSUME NEW s, LibInv(s), NEW c \in Chnls, NEW b \in Bufs, NEW da \in Int,
           NEW off \in Nat, NEW len \in Nat, Keeping => Given(s, b, da, off, len)
    PROVE  LET g == Busy(s, c, da, b, off, len)
           IN  LibInv(g) /\ g.hw[c].st = "busy" /\ g.hw[c].run /\ g.val = s.val
<1> DEFINE x == [run |-> TRUE, st |-> "busy", da |-> da, len |-> len,
                 mem |-> s.shm[b].mem, off |-> off]
           h == [s.hw EXCEPT ![c] = x]
           g == Busy(s, c, da, b, off, len)
<1>1. s.hw \in [Chnls -> HwSet] /\ s.shm[b].mem \in 0 .. MaxPages /\ setup \in Setups
  BY DEF LibInv, Lib, BufSet
<1>2. x \in HwSet
  BY <1>1 DEF HwSet, States
<1>3. /\ x.run = TRUE /\ x.st = "busy" /\ x.da = da /\ x.len = len /\ x.off = off
      /\ x.mem = s.shm[b].mem
  OBVIOUS
<1>4. g = [s EXCEPT !.hw = h]
  BY DEF Busy
<1> HIDE DEF x
<1>5. h \in [Chnls -> HwSet] /\ h[c] = x /\ \A d \in Chnls : d # c => h[d] = s.hw[d]
  BY <1>1, <1>2
<1> HIDE DEF h, g
<1>6. Keeping => Reaches(h, s.iommu)
  BY <1>3, <1>5 DEF LibInv, Reaches, Given
<1>7. LibInv(g) /\ g.hw = h /\ g.val = s.val
  BY <1>4, <1>5, <1>6, HwInv
<1> QED
  BY <1>3, <1>5, <1>7 DEF g

\* The address translation of the data in a buffer.
LEMMA VaToDa ==
    ASSUME NEW s, LibInv(s), NEW b \in Bufs, s.shm[b].live, NEW off \in Nat, NEW len \in Nat,
           off + len <= Size[b]
    PROVE  LET da == va_to_da(s, s.shm[b].va, off)
           IN  da \in Int /\ (da # -1 /\ Keeping => Given(s, b, da, off, len))
<1> DEFINE i == MapOf(s.mmaps, s.shm[b].va)
           da == va_to_da(s, s.shm[b].va, off)
<1>1. s.mmaps \in Seq(MapSet) /\ s.iommu \subseteq IommuSet /\ setup \in Setups
  BY DEF LibInv, Lib
<1>2. CASE i = 0
  BY <1>2 DEF va_to_da
<1>3. CASE i # 0
  <2>1. i \in 1 .. Len(s.mmaps) /\ s.mmaps[i].va = s.shm[b].va
    <3>1. Len(s.mmaps) \in Nat
      BY <1>1
    <3> QED
      BY <1>1, <1>3, <3>1, MapOfFacts
  <2>2. da = s.mmaps[i].da + off
    BY <1>3 DEF va_to_da
  <2> HIDE DEF i, da
  <2>3. s.mmaps[i].da \in Nat
    <3>1. s.mmaps[i] \in MapSet
      BY <1>1, <2>1
    <3> QED
      BY <3>1 DEF MapSet
  <2>4. ASSUME Keeping
        PROVE  Given(s, b, da, off, len)
    <3>1. At(s, b, s.mmaps[i].va)
      BY <2>1 DEF At
    <3>2. PICK k \in s.iommu : /\ k.da = s.mmaps[i].da /\ k.mem = s.shm[b].mem
                               /\ Size[b] <= k.size
      BY <2>1, <2>4, <3>1 DEF LibInv, BuffersMapped
    <3>3. k.size \in Nat /\ Size[b] \in Nat
      BY <1>1, SetupFacts DEF IommuSet
    <3> QED
      BY <2>2, <3>2, <3>3 DEF Given
  <2> QED
    BY <2>2, <2>3, <2>4 DEF da
<1> QED
  BY <1>2, <1>3

Started(s, c) == s.hw[c].run /\ s.hw[c].st = "busy"

LEMMA AxidmaInv ==
    ASSUME NEW s, LibInv(s), s.val = "ok", NEW c \in Chnls, NEW b \in Bufs, s.shm[b].live,
           NEW off \in Nat, NEW len \in Nat, off + len <= Size[b], NEW late \in BOOLEAN
    PROVE  LET g == axidma_transfer(s, c, b, off, len, late)
           IN  LibInv(g) /\ (g.val = "ok" => Started(g, c))
<1> DEFINE da == va_to_da(s, s.shm[b].va, off)
           g == axidma_transfer(s, c, b, off, len, late)
<1>1. da \in Int /\ (da # -1 /\ Keeping => Given(s, b, da, off, len))
  BY VaToDa
<1>2. s \in Lib /\ s.hw \in [Chnls -> HwSet] /\ setup \in Setups /\ "EINVAL" \in Rets
  BY DEF LibInv, Lib, Rets
<1> HIDE DEF da
<1>3. CASE da = -1
  <2>1. g = Fail(s, "EINVAL")
    BY <1>3 DEF axidma_transfer, da
  <2>2. LibInv(g) /\ g.val = "EINVAL"
    BY <1>2, <2>1, FailInv, SetVal
  <2> QED
    BY <2>2
<1>4. CASE da # -1 /\ (s.hw[c].st = "error" \/ (late /\ s.hw[c].st = "halted"))
  <2> DEFINE y == IF s.hw[c].st = "error" THEN s.hw[c].st ELSE "fresh"
             x == [s.hw[c] EXCEPT !.run = TRUE, !.st = y]
             h == [s.hw EXCEPT ![c] = x]
             t == [s EXCEPT !.hw = h]
             e == [s EXCEPT !.hw[c].run = TRUE,
                            !.hw[c].st = IF @ = "error" THEN @ ELSE "fresh"]
  <2>1. g = Fail(e, "EINVAL")
    BY <1>4 DEF axidma_transfer, da
  <2>2. e = t
    BY <1>2 DEF Lib
  <2> HIDE DEF e
  <2>3. x \in HwSet /\ x.st # "busy"
    BY <1>2 DEF HwSet, States
  <2> HIDE DEF x
  <2>4. h \in [Chnls -> HwSet] /\ h[c] = x /\ \A d \in Chnls : d # c => h[d] = s.hw[d]
    BY <1>2, <2>3
  <2> HIDE DEF h
  <2>5. Keeping => Reaches(h, s.iommu)
    BY <2>3, <2>4 DEF LibInv, Reaches
  <2>6. LibInv(t) /\ t \in Lib
    BY <2>4, <2>5, HwInv DEF LibInv
  <2> HIDE DEF t
  <2>7. LibInv(g) /\ g.val = "EINVAL"
    BY <1>2, <2>1, <2>2, <2>6, FailInv, SetVal
  <2> QED
    BY <2>7
<1>5. CASE da # -1 /\ ~(s.hw[c].st = "error" \/ (late /\ s.hw[c].st = "halted"))
  <2>1. g = Busy(s, c, da, b, off, len)
    BY <1>5 DEF axidma_transfer, da
  <2>2. LibInv(g) /\ Started(g, c)
    BY <1>1, <1>5, <2>1, BusyInv DEF Started
  <2> QED
    BY <2>2
<1> QED
  BY <1>3, <1>4, <1>5

LEMMA McdmaInv ==
    ASSUME NEW s, LibInv(s), s.val = "ok", NEW c \in Chnls, NEW b \in Bufs, s.shm[b].live,
           NEW off \in Nat, NEW len \in Nat, off + len <= Size[b]
    PROVE  LET g == mcdma_transfer(s, c, b, off, len)
           IN  LibInv(g)
<1> DEFINE da == va_to_da(s, s.shm[b].va, off)
           g == mcdma_transfer(s, c, b, off, len)
           t == vfio_attach(s, "bd", PAGE, 0)
<1>1. da \in Int /\ (da # -1 /\ Keeping => Given(s, b, da, off, len))
  BY VaToDa
<1>2. s \in Lib /\ s.shm \in [Bufs -> BufSet] /\ setup \in Setups /\ "EINVAL" \in Rets
  BY DEF LibInv, Lib, Rets
<1> HIDE DEF da
<1>3. CASE da = -1
  <2>1. g = Fail(s, "EINVAL")
    BY <1>3 DEF mcdma_transfer, da
  <2>2. LibInv(g) /\ g.val = "EINVAL"
    BY <1>2, <2>1, FailInv, SetVal
  <2> QED
    BY <2>2
<1>4. CASE da # -1
  <2>1. MayMap(s, "bd", align_up(PAGE), 0)
    <3>1. \A x \in Bufs : ~At(s, x, "bd")
      BY <1>2, SetupFacts DEF At, BufSet
    <3> QED
      BY <3>1, AlignPage DEF MayMap
  <2>2. LibInv(t) /\ t.shm = s.shm /\ t.hw = s.hw /\ s.iommu \subseteq t.iommu
    BY <1>2, <2>1, SetupFacts, VfioAttachInv
  <2> DEFINE h == IF t.hw[Other(c)].st \in {"done", "error"} THEN EngineReset ELSE t.hw
             w == [t EXCEPT !.node = "bd"]
             u == [w EXCEPT !.hw = h]
  <2> DEFINE n == [t EXCEPT !.node = "bd", !.hw = h]
  <2>3. g = IF t.val = "ok"
            THEN IF n.hw[c].st = "error" THEN [n EXCEPT !.hw[c].run = TRUE]
                 ELSE Busy(n, c, da, b, off, len)
            ELSE t
    BY <1>4 DEF mcdma_transfer, Then, da
  <2> HIDE DEF t
  <2>4. n = u
    OBVIOUS
  <2> HIDE DEF n
  <2>5. /\ LibInv(w) /\ w.shm = t.shm /\ w.hw = t.hw /\ w.iommu = t.iommu /\ w.val = t.val
    BY <2>2, SetNode
  <2> HIDE DEF w
  <2>6. h \in [Chnls -> HwSet] /\ (Keeping => Reaches(h, w.iommu))
    BY <1>2, <2>2, <2>5, ResetTyped, ResetReaches DEF LibInv, Lib
  <2> HIDE DEF h
  <2>7. LibInv(u) /\ u.shm = s.shm /\ s.iommu \subseteq u.iommu
    BY <2>2, <2>5, <2>6, HwInv
  <2> HIDE DEF u
  <2>8. Keeping => Given(u, b, da, off, len)
    BY <1>1, <1>4, <2>7 DEF Given
  <2>9. LibInv(Busy(u, c, da, b, off, len))
    BY <1>1, <2>7, <2>8, BusyInv
  <2>10. u.hw[c].st = "error" => LibInv([u EXCEPT !.hw[c].run = TRUE])
    <3> SUFFICES ASSUME u.hw[c].st = "error"
                 PROVE  LibInv([u EXCEPT !.hw[c].run = TRUE])
      OBVIOUS
    <3> DEFINE x == [u.hw[c] EXCEPT !.run = TRUE]
               k == [u.hw EXCEPT ![c] = x]
    <3>1. u \in Lib /\ u.hw \in [Chnls -> HwSet] /\ (Keeping => Reaches(u.hw, u.iommu))
      BY <2>7 DEF LibInv, Lib
    <3>2. [u EXCEPT !.hw[c].run = TRUE] = [u EXCEPT !.hw = k]
      BY <3>1 DEF Lib
    <3>3. x \in HwSet /\ x.st = "error"
      BY <3>1 DEF HwSet
    <3> HIDE DEF x
    <3>4. k \in [Chnls -> HwSet] /\ k[c] = x /\ \A d \in Chnls : d # c => k[d] = u.hw[d]
      BY <3>1, <3>3
    <3> HIDE DEF k
    <3>5. Keeping => Reaches(k, u.iommu)
      BY <3>1, <3>3, <3>4 DEF Reaches
    <3> QED
      BY <2>7, <3>2, <3>4, <3>5, HwInv
  <2> QED
    BY <2>2, <2>3, <2>4, <2>9, <2>10
<1> QED
  BY <1>3, <1>4

LEMMA TransferInv ==
    ASSUME NEW s, LibInv(s), s.val = "ok", NEW c \in Chnls, NEW b \in Bufs, s.shm[b].live,
           NEW off \in Nat, NEW len \in Nat, NEW late \in BOOLEAN
    PROVE  LET g == acapd_dma_transfer(s, c, b, off, len, late)
           IN  LibInv(g) /\ (g.val = "ok" /\ Engine = "axidma" => Started(g, c))
<1> DEFINE g == acapd_dma_transfer(s, c, b, off, len, late)
<1>1. "EINVAL" \in Rets /\ s \in Lib /\ Size[b] \in Nat
  BY SetupFacts DEF Rets, LibInv
<1>2. CASE off + len > Size[b]
  <2>1. g = Fail(s, "EINVAL")
    BY <1>2 DEF acapd_dma_transfer
  <2>2. LibInv(g) /\ g.val = "EINVAL"
    BY <1>1, <2>1, FailInv, SetVal
  <2> QED
    BY <2>2
<1>3. CASE off + len <= Size[b] /\ Engine = "axidma"
  <2>1. g = axidma_transfer(s, c, b, off, len, late)
    BY <1>1, <1>3 DEF acapd_dma_transfer
  <2> QED
    BY <1>3, <2>1, AxidmaInv
<1>4. CASE off + len <= Size[b] /\ Engine # "axidma"
  <2>1. g = mcdma_transfer(s, c, b, off, len)
    BY <1>1, <1>4 DEF acapd_dma_transfer
  <2> QED
    BY <1>4, <2>1, McdmaInv
<1> QED
  BY <1>1, <1>2, <1>3, <1>4

-----------------------------------------------------------------------------
(* The calls.                                                              *)

LEMMA NowFacts ==
    /\ Now.shm = shm /\ Now.node = node /\ Now.dev = dev /\ Now.mmaps = mmaps
    /\ Now.iommu = iommu /\ Now.open = open /\ Now.hw = hw /\ Now.val = "ok"
BY DEF Now

\* A call that leaves a record with the invariant leaves a state with it.
LEMMA SetInv ==
    ASSUME NEW s, LibInv(s), Set(s), setup' = setup
    PROVE  LibInv(Now)'
<1> DEFINE g == Fail(s, "ok")
<1>1. s \in Lib /\ "ok" \in Rets
  BY DEF LibInv, Rets
<1>2. LibInv(g) /\ g \in Lib
  BY <1>1, FailInv, SetVal
<1>3. /\ g.shm = s.shm /\ g.node = s.node /\ g.dev = s.dev /\ g.mmaps = s.mmaps
      /\ g.iommu = s.iommu /\ g.open = s.open /\ g.hw = s.hw /\ g.val = "ok"
  BY <1>1, SetVal
<1> HIDE DEF g
<1>4. g = [shm |-> g.shm, node |-> g.node, dev |-> g.dev, mmaps |-> g.mmaps,
           iommu |-> g.iommu, open |-> g.open, hw |-> g.hw, val |-> g.val]
  BY <1>2 DEF Lib
<1>5. Now' = g
  BY <1>3, <1>4 DEF Now, Set
<1>6. /\ Lib' = Lib /\ Size' = Size /\ Keeping' = Keeping /\ Attaching' = Attaching
      /\ Paging' = Paging
  BY DEF Lib, BufSet, DevSet, MapSet, IommuSet, HwSet, Size, Keeping, Attaching, Paging,
         Ops, MaxPages, OnlyTransfers, Engine, OneSize
<1>7. Counted(Now)' /\ Mapped(Now)'
  BY <1>2, <1>5 DEF LibInv, Counted, Mapped
<1>8. Keeping' => BuffersMapped(Now)' /\ Reaches(Now.hw, Now.iommu)'
  BY <1>2, <1>5, <1>6 DEF LibInv, BuffersMapped, At, Reaches
<1>9. Attaching' => Linked(Now)'
  BY <1>2, <1>5, <1>6 DEF LibInv, Linked
<1>10. Paging' => InOrder(Now)' /\ (Now.val # "clash")'
  BY <1>2, <1>5, <1>6 DEF LibInv, InOrder
<1>11. (setup \in Setups)' /\ (Now \in Lib)'
  BY <1>2, <1>5, <1>6 DEF LibInv
<1> QED
  BY <1>7, <1>8, <1>9, <1>10, <1>11 DEF LibInv

LEMMA InitInv == Init => DmaInv
<1> SUFFICES ASSUME Init
             PROVE  DmaInv
  OBVIOUS
<1>1. /\ setup \in Setups /\ node = NULL /\ mmaps = <<>> /\ iommu = {}
      /\ call = NULL /\ ret = "ok" /\ pages = 0 /\ fate = "ok"
  BY DEF Init
<1>2. 0 \in 0 .. MaxPages /\ "ok" \in Rets /\ "ok" # "clash"
  BY <1>1, SetupFacts DEF Rets
<1>3. shm \in [Bufs -> BufSet] /\ \A b \in Bufs : ~shm[b].live
  BY <1>2 DEF Init, BufSet
<1>4. dev \in DevSet /\ ~dev.priv /\ dev.refs = 0
  BY DEF Init, DevSet
<1>5. open \in [Chnls -> BOOLEAN] /\ ~open["tx"] /\ ~open["rx"]
  BY DEF Init, Chnls
<1>6. hw = EngineReset
  BY DEF Init, EngineReset
<1>7. hw \in [Chnls -> HwSet] /\ Reaches(hw, iommu)
  BY <1>1, <1>6, ResetTyped, ResetReaches
<1>8. mmaps \in Seq(MapSet) /\ Len(mmaps) = 0 /\ iommu \subseteq IommuSet
  BY <1>1
<1>9. Now \in Lib
  BY <1>1, <1>2, <1>3, <1>4, <1>5, <1>7, <1>8 DEF Now, Lib
<1>10. Counted(Now)
  BY <1>4, <1>5, NowFacts DEF Counted
<1>11. Mapped(Now)
  BY <1>1, <1>8, NowFacts DEF Mapped
<1>12. BuffersMapped(Now) /\ Reaches(Now.hw, Now.iommu) /\ Linked(Now)
  BY <1>3, <1>7, <1>8, NowFacts DEF BuffersMapped, At, Linked
<1>13. InOrder(Now)
  BY <1>1, <1>8, NowFacts DEF InOrder
<1>14. LibInv(Now)
  BY <1>1, <1>9, <1>10, <1>11, <1>12, <1>13, NowFacts DEF LibInv
<1> QED
  BY <1>1, <1>2, <1>14 DEF DmaInv, Waiting

\* A call that ends keeps the invariant if its record has it.
LEMMA EndedInv ==
    ASSUME DmaInv, NEW s, LibInv(s), NEW v \in Rets, Paging => v # "clash",
           Set(s), Ended(v), setup' = setup, pages' = pages, fate' \in {"ok", "hang", "crash"}
    PROVE  DmaInv'
<1>1. LibInv(Now)'
  BY SetInv
<1>2. Paging' = Paging /\ MaxPages' = MaxPages
  BY DEF Paging, MaxPages, OneSize, Ops, Size
<1>3. Waiting'
  BY DEF Waiting, Ended
<1> QED
  BY <1>1, <1>2, <1>3 DEF DmaInv, Ended

LEMMA AllocStep ==
    ASSUME DmaInv, NEW b \in Bufs, acapd_alloc_shm(b)
    PROVE  DmaInv'
<1>1. PICK va \in Vas \ {shm[x].va : x \in {y \in Bufs : shm[y].live}} :
          shm' = [shm EXCEPT ![b] = [live |-> TRUE, va |-> va, mem |-> pages + 1,
                                     ref |-> FALSE]]
  BY DEF acapd_alloc_shm
<1> DEFINE r == [live |-> TRUE, va |-> va, mem |-> pages + 1, ref |-> FALSE]
           S == [shm EXCEPT ![b] = r]
           s == [Now EXCEPT !.shm = S]
<1>2. /\ LibInv(Now) /\ Now \in Lib /\ setup \in Setups /\ shm \in [Bufs -> BufSet]
      /\ mmaps \in Seq(MapSet) /\ pages \in 0 .. MaxPages /\ pages < MaxPages
      /\ MaxPages \in Nat /\ ~shm[b].live
  BY NowFacts, SetupFacts DEF DmaInv, LibInv, Lib, acapd_alloc_shm
<1>3. /\ r \in BufSet /\ r.live = TRUE /\ r.va = va /\ r.ref = FALSE
  BY <1>2 DEF BufSet
<1>4. shm' = S
  BY <1>1
<1> HIDE DEF r
<1>5. S \in [Bufs -> BufSet] /\ S[b] = r /\ \A x \in Bufs : x # b => S[x] = shm[x]
  BY <1>2, <1>3
<1> HIDE DEF S
<1>6. /\ s \in Lib /\ s.shm = S /\ s.node = node /\ s.dev = dev /\ s.mmaps = mmaps
      /\ s.iommu = iommu /\ s.open = open /\ s.hw = hw /\ s.val = "ok"
  BY <1>2, <1>5, NowFacts DEF Lib
<1> HIDE DEF s
<1>7. Counted(s) /\ Mapped(s)
  BY <1>2, <1>6, NowFacts DEF LibInv, Counted, Mapped
<1>8. Keeping => BuffersMapped(s) /\ Reaches(s.hw, s.iommu)
  <2> SUFFICES ASSUME Keeping
               PROVE  BuffersMapped(s)
    BY <1>2, <1>6, NowFacts DEF LibInv
  <2>1. BuffersMapped(Now)
    BY <1>2 DEF LibInv
  <2>2. \A x \in Bufs : x # b => \A y : At(s, x, y) <=> At(Now, x, y)
    BY <1>5, <1>6, NowFacts DEF At
  <2>3. \A y : At(s, b, y) <=> y = va
    BY <1>3, <1>5, <1>6 DEF At
  <2>4. \A y : ~At(Now, b, y)
    BY <1>2, NowFacts DEF At
  <2>5. \A x \in Bufs : ~At(Now, x, va)
    BY NowFacts DEF At
  <2>6. \A x, y \in Bufs : At(s, x, s.shm[y].va) /\ s.shm[y].live => x = y
    <3>1. SUFFICES ASSUME NEW x \in Bufs, NEW y \in Bufs, At(s, x, s.shm[y].va), s.shm[y].live
                   PROVE  x = y
      OBVIOUS
    <3>2. At(s, y, s.shm[y].va)
      BY <3>1 DEF At
    <3>3. CASE x = b
      BY <2>2, <2>3, <2>5, <3>1, <3>2, <3>3
    <3>4. CASE y = b
      BY <1>3, <1>5, <1>6, <2>2, <2>5, <3>1, <3>4
    <3>5. CASE x # b /\ y # b
      BY <1>5, <1>6, <2>1, <2>2, <3>1, <3>5, NowFacts DEF BuffersMapped
    <3> QED
      BY <3>3, <3>4, <3>5
  <2>7. \A i \in 1 .. Len(mmaps) : mmaps[i].va # va
    <3>1. va # "bd"
      BY <1>2, SetupFacts
    <3> QED
      BY <2>1, <2>5, <3>1, NowFacts DEF BuffersMapped
  <2>8. \A i \in 1 .. Len(mmaps) :
          mmaps[i].va = "bd" \/ \E x \in Bufs : At(s, x, mmaps[i].va)
    BY <2>1, <2>2, <2>4, NowFacts DEF BuffersMapped
  <2>9. ASSUME NEW i \in 1 .. Len(mmaps), NEW x \in Bufs, At(s, x, mmaps[i].va)
        PROVE  \E k \in iommu : /\ k.da = mmaps[i].da /\ k.mem = s.shm[x].mem
                                /\ Size[x] <= k.size
    <3>1. x # b
      BY <2>3, <2>7, <2>9
    <3>2. At(Now, x, mmaps[i].va) /\ s.shm[x] = shm[x]
      BY <1>5, <1>6, <2>2, <2>9, <3>1
    <3> QED
      BY <2>1, <3>2, NowFacts DEF BuffersMapped
  <2> QED
    BY <1>6, <2>6, <2>8, <2>9 DEF BuffersMapped
<1>9. Attaching => Linked(s)
  BY <1>2, <1>3, <1>5, <1>6, NowFacts DEF LibInv, Linked
<1>10. Paging => InOrder(s) /\ s.val # "clash"
  BY <1>2, <1>6, NowFacts DEF LibInv, InOrder
<1>11. LibInv(s)
  BY <1>2, <1>6, <1>7, <1>8, <1>9, <1>10 DEF LibInv
<1>12. Set(s)
  BY <1>4, <1>6 DEF Set, acapd_alloc_shm
<1>13. LibInv(Now)'
  BY <1>11, <1>12, SetInv DEF acapd_alloc_shm
<1>14. MaxPages' = MaxPages /\ pages' \in 0 .. MaxPages /\ ret' = "ok" /\ call' = NULL
       /\ fate' = fate
  BY <1>2 DEF acapd_alloc_shm, Ended, MaxPages
<1> QED
  BY <1>13, <1>14 DEF DmaInv, Waiting, Rets

LEMMA FreeStep ==
    ASSUME DmaInv, NEW b \in Bufs, acapd_free_shm(b)
    PROVE  DmaInv'
<1>1. ~Keeping /\ ~Attaching /\ ~Paging
  BY DEF acapd_free_shm, Keeping, Attaching, Paging, OnlyTransfers
<1>2. PICK f \in {"ok", "hang", "crash"} :
         /\ fate' = f
         /\ shm' = IF f = "ok" THEN [shm EXCEPT ![b].live = FALSE, ![b].ref = FALSE]
                   ELSE shm
  BY DEF acapd_free_shm
<1> DEFINE r == [shm[b] EXCEPT !.live = FALSE, !.ref = FALSE]
           S == IF f = "ok" THEN [shm EXCEPT ![b] = r] ELSE shm
           s == [Now EXCEPT !.shm = S]
<1>3. LibInv(Now) /\ Now \in Lib /\ setup \in Setups /\ shm \in [Bufs -> BufSet]
  BY NowFacts DEF DmaInv, LibInv, Lib
<1>4. r \in BufSet
  BY <1>3 DEF BufSet
<1>5. shm' = S
  BY <1>2, <1>3
<1> HIDE DEF r
<1>6. S \in [Bufs -> BufSet]
  BY <1>3, <1>4
<1> HIDE DEF S
<1>7. /\ s \in Lib /\ s.shm = S /\ s.node = node /\ s.dev = dev /\ s.mmaps = mmaps
      /\ s.iommu = iommu /\ s.open = open /\ s.hw = hw /\ s.val = "ok"
  BY <1>3, <1>6, NowFacts DEF Lib
<1> HIDE DEF s
<1>8. Counted(s) /\ Mapped(s)
  BY <1>3, <1>7, NowFacts DEF LibInv, Counted, Mapped
<1>9. LibInv(s)
  BY <1>1, <1>3, <1>7, <1>8 DEF LibInv
<1>10. /\ Set(s) /\ Ended("ok") /\ setup' = setup /\ pages' = pages
       /\ fate' \in {"ok", "hang", "crash"} /\ "ok" \in Rets
  BY <1>2, <1>5, <1>7 DEF Set, acapd_free_shm, Rets
<1> QED
  BY <1>9, <1>10, EndedInv

LEMMA AttachStep ==
    ASSUME DmaInv, NEW b \in Bufs, acapd_attach_shm(b)
    PROVE  DmaInv'
<1> DEFINE s == acapd_device_attach_shm(Now, b)
<1>1. /\ LibInv(Now) /\ shm[b].live /\ ~Attaching /\ Set(s) /\ Ended(s.val)
      /\ setup' = setup /\ pages' = pages /\ fate' = fate
  BY DEF DmaInv, acapd_attach_shm, Attaching, OnlyTransfers
<1>2. LibInv(s)
  BY <1>1, NowFacts, DeviceAttachInv
<1> HIDE DEF s
<1>3. s.val \in Rets /\ (Paging => s.val # "clash")
  BY <1>2 DEF LibInv, Lib
<1> QED
  BY <1>1, <1>2, <1>3, EndedInv DEF DmaInv

LEMMA DetachStep ==
    ASSUME DmaInv, NEW b \in Bufs, acapd_detach_shm(b)
    PROVE  DmaInv'
<1>1. PICK works \in UnmapOk(Size[b]) :
          LET s == acapd_device_detach_shm(Now, b, works)
          IN  /\ Set(s) /\ Ended(s.val)
              /\ fate' \in IF node = "bd" /\ s.val = "ok" THEN {"ok", "crash"} ELSE {fate}
  BY DEF acapd_detach_shm
<1> DEFINE s == acapd_device_detach_shm(Now, b, works)
<1>2. /\ LibInv(Now) /\ shm[b].live /\ ~InUse(b) /\ ~Attaching /\ ~Paging
      /\ setup' = setup /\ pages' = pages /\ setup \in Setups
      /\ fate' \in {"ok", "hang", "crash"}
  BY <1>1 DEF DmaInv, LibInv, acapd_detach_shm, Attaching, OnlyTransfers, Paging
<1>3. works \in BOOLEAN
  BY <1>2, SetupFacts DEF UnmapOk
<1>4. Unused(Now, b)
  BY <1>2, NowFacts DEF Unused, InUse
<1>5. LibInv(s)
  BY <1>2, <1>3, <1>4, NowFacts, DeviceDetachInv
<1>6. Set(s) /\ Ended(s.val)
  BY <1>1
<1> HIDE DEF s
<1>7. s.val \in Rets
  BY <1>5 DEF LibInv, Lib
<1> QED
  BY <1>2, <1>5, <1>6, <1>7, EndedInv

LEMMA Faults ==
    ASSUME NEW f \in OpenFaults
    PROVE  f \in {"none", "bind", "vfio"}
BY DEF OpenFaults

LEMMA TransferStep ==
    ASSUME DmaInv, NEW c \in Chnls, NEW b \in Bufs, transfer_data(c, b)
    PROVE  DmaInv'
<1> DEFINE S1(fault) == acapd_dma_open(Now, c, fault)
           S2(fault) == Then(S1(fault), LAMBDA s : acapd_device_attach_shm(s, b))
           S3(fault) == Then(S2(fault), LAMBDA s : CheckReady(s, c))
           S4(fault, off, len, late) ==
               Then(S3(fault), LAMBDA s : acapd_dma_transfer(s, c, b, off, len, late))
<1>1. PICK off \in 0 .. Size[b] - 1, wait \in BOOLEAN, fault \in OpenFaults,
           late \in {FALSE} \cup {"slow_start" \in MayFail} :
        \E len \in 1 .. Size[b] - off + 1 :
          /\ Set(S4(fault, off, len, late))
          /\ IF S4(fault, off, len, late).val = "ok" /\ wait
             THEN call' = [op |-> IF c = "tx" THEN "write" ELSE "read", c |-> c] /\ ret' = ret
             ELSE Ended(S4(fault, off, len, late).val)
          /\ fate' \in IF /\ Engine = "mcdma" /\ S4(fault, off, len, late).val = "ok"
                          /\ Descriptors(len) > setup.bds
                       THEN {"ok", "crash"} ELSE {"ok"}
  BY Zenon DEF transfer_data
<1>2. PICK len \in 1 .. Size[b] - off + 1 :
          /\ Set(S4(fault, off, len, late))
          /\ IF S4(fault, off, len, late).val = "ok" /\ wait
             THEN call' = [op |-> IF c = "tx" THEN "write" ELSE "read", c |-> c] /\ ret' = ret
             ELSE Ended(S4(fault, off, len, late).val)
          /\ fate' \in IF /\ Engine = "mcdma" /\ S4(fault, off, len, late).val = "ok"
                          /\ Descriptors(len) > setup.bds
                       THEN {"ok", "crash"} ELSE {"ok"}
  BY <1>1, Zenon
<1> DEFINE s1 == S1(fault)
           s2 == S2(fault)
           s3 == S3(fault)
           s4 == S4(fault, off, len, late)
<1>3. /\ LibInv(Now) /\ shm[b].live /\ setup' = setup /\ pages' = pages
      /\ setup \in Setups
  BY DEF DmaInv, LibInv, transfer_data
<1>4. off \in Nat /\ len \in Nat /\ late \in BOOLEAN
  <2>1. Size[b] \in Nat
    BY <1>3, SetupFacts
  <2>2. off \in Nat /\ len \in Nat
    BY <2>1
  <2>3. late \in BOOLEAN
    <3>1. ("slow_start" \in MayFail) = TRUE \/ ("slow_start" \in MayFail) = FALSE
      OBVIOUS
    <3>2. late = FALSE \/ late = ("slow_start" \in MayFail)
      BY Zenon
    <3> QED
      BY <3>1, <3>2, Zenon
  <2> QED
    BY <2>2, <2>3
<1>5. LibInv(s1) /\ s1.shm = shm /\ (s1.val = "ok" => s1.dev.priv)
  BY <1>3, NowFacts, Faults, OpenInv
<1>6. s2 = IF s1.val = "ok" THEN acapd_device_attach_shm(s1, b) ELSE s1
  BY DEF Then
<1>7. s3 = IF s2.val = "ok" THEN CheckReady(s2, c) ELSE s2
  BY DEF Then
<1>8. s4 = IF s3.val = "ok" THEN acapd_dma_transfer(s3, c, b, off, len, late) ELSE s3
  BY DEF Then
<1> HIDE DEF s1, s2, s3, s4
<1>9. LibInv(s2) /\ s2.shm[b].live
  BY <1>3, <1>5, <1>6, DeviceAttachInv DEF SameBufs
<1>10. LibInv(s3) /\ (s3.val = "ok" => s3 = s2)
  BY <1>7, <1>9, CheckReadyInv
<1>11. LibInv(s4) /\ (s4.val = "ok" /\ Engine = "axidma" => Started(s4, c))
  BY <1>4, <1>8, <1>9, <1>10, TransferInv
<1>12. Set(s4) /\ fate' \in {"ok", "hang", "crash"}
  BY <1>2 DEF s4
<1>13. s4.val \in Rets /\ (Paging => s4.val # "clash")
  BY <1>11 DEF LibInv, Lib
<1>14. CASE s4.val = "ok" /\ wait
  <2>1. call' = [op |-> IF c = "tx" THEN "write" ELSE "read", c |-> c] /\ ret' = ret
    BY <1>2, <1>14 DEF s4
  <2>2. LibInv(Now)'
    BY <1>3, <1>11, <1>12, SetInv
  <2>3. call'.op \in {"write", "read", "complete"} /\ call'.c = c
    BY <2>1
  <2>4. Engine' = "axidma" => hw'[c].run /\ hw'[c].st = "busy"
    BY <1>3, <1>11, <1>12, <1>14 DEF Started, Set, Engine
  <2>5. Waiting'
    BY <2>3, <2>4 DEF Waiting
  <2>6. Paging' = Paging /\ MaxPages' = MaxPages
    BY <1>3 DEF Paging, MaxPages, OneSize, Ops, Size
  <2> QED
    BY <1>3, <1>12, <2>1, <2>2, <2>5, <2>6 DEF DmaInv
<1>15. CASE ~(s4.val = "ok" /\ wait)
  <2>1. Ended(s4.val)
    BY <1>2, <1>15 DEF s4
  <2> QED
    BY <1>3, <1>11, <1>12, <1>13, <2>1, EndedInv
<1> QED
  BY <1>14, <1>15

LEMMA ReadCompleteStep ==
    ASSUME DmaInv, acapd_accel_read_complete
    PROVE  DmaInv'
<1>1. PICK fault \in OpenFaults :
          LET s == acapd_dma_open(Now, "rx", fault)
          IN  /\ Set(s)
              /\ IF s.val = "ok"
                 THEN call' = [op |-> "complete", c |-> "rx"] /\ ret' = ret
                 ELSE Ended(s.val)
  BY DEF acapd_accel_read_complete
<1> DEFINE s == acapd_dma_open(Now, "rx", fault)
<1>2. LibInv(Now) /\ setup' = setup /\ pages' = pages /\ fate' = fate /\ "rx" \in Chnls
  BY DEF DmaInv, acapd_accel_read_complete, Chnls
<1>3. LibInv(s)
  BY <1>2, NowFacts, Faults, OpenInv
<1>4. /\ Set(s)
      /\ IF s.val = "ok" THEN call' = [op |-> "complete", c |-> "rx"] /\ ret' = ret
                         ELSE Ended(s.val)
  BY <1>1
<1> HIDE DEF s
<1>5. CASE s.val = "ok"
  <2>1. LibInv(Now)'
    BY <1>2, <1>3, <1>4, SetInv
  <2>2. Waiting'
    BY <1>2, <1>4, <1>5 DEF Waiting
  <2>3. Paging' = Paging /\ MaxPages' = MaxPages
    BY <1>2 DEF Paging, MaxPages, OneSize, Ops, Size
  <2> QED
    BY <1>2, <1>4, <1>5, <2>1, <2>2, <2>3 DEF DmaInv
<1>6. CASE s.val # "ok"
  <2>1. s.val \in Rets /\ (Paging => s.val # "clash")
    BY <1>3 DEF LibInv, Lib
  <2> QED
    BY <1>2, <1>3, <1>4, <1>6, <2>1, EndedInv DEF DmaInv
<1> QED
  BY <1>5, <1>6

LEMMA ResetStep ==
    ASSUME DmaInv, acapd_accel_reset_channel
    PROVE  DmaInv'
<1> DEFINE S1(fault) == acapd_dma_open(Now, "tx", fault)
           S2(fault) == Then(S1(fault), LAMBDA s : acapd_dma_open(s, "rx", fault))
           S3(fault) == Then(S2(fault), LAMBDA s : acapd_dma_reset(acapd_dma_stop(s, "tx"), "tx"))
           S4(fault) == Then(S3(fault), LAMBDA s : acapd_dma_reset(acapd_dma_stop(s, "rx"), "rx"))
<1>1. PICK fault \in OpenFaults : Set(S4(fault)) /\ Ended(S4(fault).val)
  BY DEF acapd_accel_reset_channel
<1>2. /\ LibInv(Now) /\ setup' = setup /\ pages' = pages /\ fate' = fate
      /\ "tx" \in Chnls /\ "rx" \in Chnls /\ setup \in Setups
  BY DEF DmaInv, LibInv, acapd_accel_reset_channel, Chnls
<1>3. ASSUME NEW s, LibInv(s), NEW c \in Chnls
      PROVE  LibInv(acapd_dma_reset(acapd_dma_stop(s, c), c))
  <2>1. s \in Lib /\ s.hw \in [Chnls -> HwSet]
    BY <1>3 DEF LibInv, Lib
  <2>2. acapd_dma_reset(acapd_dma_stop(s, c), c) = [s EXCEPT !.hw = EngineReset]
    BY <2>1 DEF acapd_dma_reset, acapd_dma_stop, Lib
  <2> QED
    BY <1>2, <1>3, <2>2, ResetTyped, ResetReaches, HwInv
<1> DEFINE s1 == S1(fault)
           s2 == S2(fault)
           s3 == S3(fault)
           s4 == S4(fault)
<1>4. LibInv(s1)
  BY <1>2, NowFacts, Faults, OpenInv
<1>5. s2 = IF s1.val = "ok" THEN acapd_dma_open(s1, "rx", fault) ELSE s1
  BY DEF Then
<1>6. s3 = IF s2.val = "ok" THEN acapd_dma_reset(acapd_dma_stop(s2, "tx"), "tx") ELSE s2
  BY DEF Then
<1>7. s4 = IF s3.val = "ok" THEN acapd_dma_reset(acapd_dma_stop(s3, "rx"), "rx") ELSE s3
  BY DEF Then
<1>8. Set(s4) /\ Ended(s4.val)
  BY <1>1
<1> HIDE DEF s1, s2, s3, s4
<1>9. LibInv(s2)
  BY <1>2, <1>4, <1>5, Faults, OpenInv
<1>10. LibInv(s3)
  BY <1>2, <1>3, <1>6, <1>9
<1>11. LibInv(s4)
  BY <1>2, <1>3, <1>7, <1>10
<1>12. s4.val \in Rets /\ (Paging => s4.val # "clash")
  BY <1>11 DEF LibInv, Lib
<1> QED
  BY <1>2, <1>8, <1>11, <1>12, EndedInv DEF DmaInv

LEMMA CloseStep ==
    ASSUME DmaInv, NEW c \in Chnls, dma_close(c)
    PROVE  DmaInv'
<1>1. PICK works \in setup.unmap : Set(acapd_dma_close(Now, c, works))
  BY DEF dma_close
<1> DEFINE s == acapd_dma_close(Now, c, works)
<1>2. /\ LibInv(Now) /\ open[c] /\ Ended("ok") /\ setup' = setup /\ pages' = pages
      /\ fate' = fate /\ "ok" \in Rets
  BY DEF DmaInv, dma_close, Rets
<1>3. LibInv(s)
  BY <1>2, NowFacts, CloseInv
<1>4. Set(s)
  BY <1>1
<1> HIDE DEF s
<1> QED
  BY <1>2, <1>3, <1>4, EndedInv DEF DmaInv

LEMMA SetRun ==
    ASSUME NEW d \in HwSet, NEW r \in BOOLEAN, NEW t \in States
    PROVE  LET e == [d EXCEPT !.run = r, !.st = t]
           IN  e \in HwSet /\ e.run = r /\ e.st = t
BY DEF HwSet

LEMMA EndStep ==
    ASSUME DmaInv, NEW c \in Chnls, dma_end(c)
    PROVE  DmaInv'
<1>1. PICK st \in {"done", "error"} :
          /\ hw' = [hw EXCEPT ![c] = [Idle EXCEPT !.run = (st = "done"), !.st = st]]
          /\ st = "error" => "transfer" \in MayFail
  BY DEF dma_end
<1> DEFINE x == [Idle EXCEPT !.run = (st = "done"), !.st = st]
           s == [Now EXCEPT !.hw = hw']
<1>2. /\ LibInv(Now) /\ setup \in Setups /\ Now \in Lib /\ hw \in [Chnls -> HwSet]
  BY NowFacts DEF DmaInv, LibInv, Lib
<1>3. x \in HwSet /\ x.run = (st = "done") /\ x.st = st
  <2>1. st \in States /\ TRUE \in BOOLEAN /\ FALSE \in BOOLEAN
    BY DEF States
  <2>2. Idle \in HwSet
    BY <1>2, SetupFacts DEF Idle, HwSet, States
  <2>3. CASE st = "done"
    <3>1. x = [Idle EXCEPT !.run = TRUE, !.st = st]
      BY <2>3
    <3> HIDE DEF x
    <3>2. x \in HwSet /\ x.run = TRUE /\ x.st = st
      BY <2>1, <2>2, <3>1, SetRun, Zenon
    <3> QED
      BY <2>3, <3>2
  <2>4. CASE st = "error"
    <3>1. x = [Idle EXCEPT !.run = FALSE, !.st = st]
      BY <2>4
    <3> HIDE DEF x
    <3>2. x \in HwSet /\ x.run = FALSE /\ x.st = st
      BY <2>1, <2>2, <3>1, SetRun, Zenon
    <3> QED
      BY <2>4, <3>2
  <2> QED
    BY <2>3, <2>4
<1>4. hw' = [hw EXCEPT ![c] = x]
  BY <1>1
<1> HIDE DEF x
<1>5. hw' \in [Chnls -> HwSet] /\ hw'[c] = x /\ \A d \in Chnls : d # c => hw'[d] = hw[d]
  BY <1>2, <1>3, <1>4
<1>6. Keeping => Reaches(hw', Now.iommu)
  BY <1>2, <1>3, <1>5, NowFacts DEF LibInv, Reaches
<1>7. /\ LibInv(s) /\ s.hw = hw' /\ s.shm = shm /\ s.dev = dev /\ s.mmaps = mmaps
      /\ s.iommu = iommu /\ s.open = open /\ s.node = node
  BY <1>2, <1>5, <1>6, NowFacts, HwInv
<1> HIDE DEF s
<1>8. Set(s) /\ setup' = setup /\ call' = call /\ ret' = ret /\ pages' = pages /\ fate' = fate
  BY <1>7 DEF Set, dma_end
<1>9. LibInv(Now)'
  BY <1>7, <1>8, SetInv
<1>10. Paging' = Paging /\ MaxPages' = MaxPages /\ Engine' = Engine /\ MayFail' = MayFail
  BY <1>8 DEF Paging, MaxPages, OneSize, Ops, Size, Engine, MayFail
<1>11. Waiting'
  <2>1. \A d \in Chnls : \/ hw'[d].run = hw[d].run /\ hw'[d].st = hw[d].st
                         \/ hw'[d].run /\ hw'[d].st = "done"
                         \/ "transfer" \in MayFail /\ hw'[d].st = "error"
    BY <1>1, <1>3, <1>5
  <2>2. Waiting
    BY DEF DmaInv
  <2> QED
    BY <1>8, <1>10, <2>1, <2>2, Zenon DEF Waiting
<1> QED
  BY <1>8, <1>9, <1>10, <1>11 DEF DmaInv

LEMMA PollStep ==
    ASSUME DmaInv, acapd_dma_poll
    PROVE  DmaInv'
<1>1. /\ UNCHANGED <<setup, shm, node, dev, mmaps, iommu, open, hw, pages, fate>>
      /\ call' = NULL /\ ret' \in {"ok", "EINVAL"} /\ LibInv(Now)
  BY DEF DmaInv, acapd_dma_poll, Ended
<1>2. Set(Now)
  BY <1>1, NowFacts DEF Set
<1>3. LibInv(Now)'
  BY <1>1, <1>2, SetInv
<1>4. MaxPages' = MaxPages
  BY <1>1 DEF MaxPages
<1> QED
  BY <1>1, <1>3, <1>4 DEF DmaInv, Waiting, Rets

LEMMA NextInv == DmaInv /\ [Next]_vars => DmaInv'
<1> SUFFICES ASSUME DmaInv, [Next]_vars
             PROVE  DmaInv'
  OBVIOUS
<1>1. CASE UNCHANGED vars
  <2>1. /\ UNCHANGED <<setup, shm, node, dev, mmaps, iommu, open, hw, pages, fate>>
        /\ call' = call /\ ret' = ret /\ LibInv(Now)
    BY <1>1 DEF DmaInv, vars
  <2>2. Set(Now)
    BY <2>1, NowFacts DEF Set
  <2>3. LibInv(Now)'
    BY <2>1, <2>2, SetInv
  <2>4. Paging' = Paging /\ MaxPages' = MaxPages /\ Engine' = Engine /\ MayFail' = MayFail
    BY <2>1 DEF Paging, MaxPages, OneSize, Ops, Size, Engine, MayFail
  <2>5. Waiting'
    BY <2>1, <2>4 DEF DmaInv, Waiting
  <2> QED
    BY <2>1, <2>3, <2>4, <2>5 DEF DmaInv
<1>2. CASE \E b \in Bufs : \/ acapd_alloc_shm(b) \/ acapd_free_shm(b)
                           \/ acapd_attach_shm(b) \/ acapd_detach_shm(b)
  BY <1>2, AllocStep, FreeStep, AttachStep, DetachStep
<1>3. CASE \E c \in Chnls, b \in Bufs : transfer_data(c, b)
  BY <1>3, TransferStep
<1>4. CASE acapd_accel_read_complete \/ acapd_dma_poll \/ acapd_accel_reset_channel
  BY <1>4, ReadCompleteStep, PollStep, ResetStep
<1>5. CASE \E c \in Chnls : dma_close(c) \/ dma_end(c)
  BY <1>5, CloseStep, EndStep
<1> QED
  BY <1>1, <1>2, <1>3, <1>4, <1>5 DEF Next

LEMMA DmaInvariant == Spec => []DmaInv
BY InitInv, NextInv, PTL DEF Spec

-----------------------------------------------------------------------------
(* The theorems.                                                           *)

LEMMA TypesFollow == DmaInv => TypeOK
<1> SUFFICES ASSUME DmaInv
             PROVE  TypeOK
  OBVIOUS
<1>1. Now \in Lib /\ setup \in Setups
  BY DEF DmaInv, LibInv
<1>2. /\ shm \in [Bufs -> BufSet] /\ node \in Bufs \cup {"bd", NULL} /\ dev \in DevSet
      /\ mmaps \in Seq(MapSet) /\ iommu \subseteq IommuSet
      /\ open \in [Chnls -> BOOLEAN] /\ hw \in [Chnls -> HwSet]
  BY <1>1, NowFacts DEF Lib
<1>3. shm \in [Bufs -> [live: BOOLEAN, va: Vas \cup {NULL}, mem: 0 .. MaxPages,
                        ref: BOOLEAN]]
  BY <1>2 DEF BufSet
<1>4. mmaps \in Seq([va: Vas \cup {"bd"}, da: Nat, size: Nat])
  <2> DEFINE T == [va: Vas \cup {"bd"}, da: Nat, size: Nat]
  <2>1. MapSet \subseteq T
    BY DEF MapSet
  <2> HIDE DEF T
  <2>2. mmaps \in Seq(T)
    BY <1>2, <2>1, SeqMonotonic
  <2> QED
    BY <2>2 DEF T
<1>5. \A m \in iommu : m \in [da: Nat, size: Nat, mem: 0 .. MaxPages]
  BY <1>2 DEF IommuSet
<1>6. \A c \in Chnls : hw[c].run \in BOOLEAN /\ hw[c].st \in States
  BY <1>2 DEF HwSet
<1> QED
  BY <1>1, <1>2, <1>3, <1>4, <1>5, <1>6 DEF DmaInv, Waiting, TypeOK, DevSet

\* Every variable keeps its type.
THEOREM DmaTypes == Spec => []TypeOK
BY DmaInvariant, TypesFollow, PTL

LEMMA RefsFollow == DmaInv => RefsCountChannels
<1> SUFFICES ASSUME DmaInv
             PROVE  RefsCountChannels
  OBVIOUS
<1> DEFINE O == {c \in Chnls : open[c]}
<1>1. /\ dev.refs = (IF open["tx"] THEN 1 ELSE 0) + (IF open["rx"] THEN 1 ELSE 0)
      /\ dev.priv <=> open["tx"] \/ open["rx"]
  BY NowFacts DEF DmaInv, LibInv, Counted
<1>2. Cardinality({}) = 0 /\ Cardinality({"tx"}) = 1 /\ Cardinality({"rx"}) = 1
      /\ Cardinality({"tx", "rx"}) = 2
  <2>1. IsFiniteSet({"tx"}) /\ Cardinality({"tx"}) = 1 /\ Cardinality({"rx"}) = 1
        /\ Cardinality({}) = 0
    BY FS_Singleton, FS_EmptySet
  <2>2. {"tx", "rx"} = {"tx"} \cup {"rx"} /\ "rx" \notin {"tx"}
    OBVIOUS
  <2>3. Cardinality({"tx"} \cup {"rx"}) = Cardinality({"tx"}) + 1
    BY <2>1, <2>2, FS_AddElement
  <2> QED
    BY <2>1, <2>2, <2>3
<1>3. CASE open["tx"] /\ open["rx"]
  <2>1. O = {"tx", "rx"}
    BY <1>3 DEF Chnls
  <2> QED
    BY <1>1, <1>2, <1>3, <2>1 DEF RefsCountChannels, Chnls
<1>4. CASE open["tx"] /\ ~open["rx"]
  <2>1. O = {"tx"}
    BY <1>4 DEF Chnls
  <2> QED
    BY <1>1, <1>2, <1>4, <2>1 DEF RefsCountChannels, Chnls
<1>5. CASE ~open["tx"] /\ open["rx"]
  <2>1. O = {"rx"}
    BY <1>5 DEF Chnls
  <2> QED
    BY <1>1, <1>2, <1>5, <2>1 DEF RefsCountChannels, Chnls
<1>6. CASE ~open["tx"] /\ ~open["rx"]
  <2>1. O = {}
    BY <1>6 DEF Chnls
  <2> QED
    BY <1>1, <1>2, <1>6, <2>1 DEF RefsCountChannels, Chnls
<1> QED
  BY <1>3, <1>4, <1>5, <1>6

\* The device is open exactly while a channel is, and its references count the
\* open channels (acapd_device_get(), acapd_device_put()).
THEOREM RefsCounted == Spec => []RefsCountChannels
BY DmaInvariant, RefsFollow, PTL

LEMMA MappingsFollow == DmaInv => MappingsReal
<1> SUFFICES ASSUME DmaInv
             PROVE  MappingsReal
  OBVIOUS
<1>1. Mapped(Now) /\ mmaps \in Seq(MapSet) /\ iommu \subseteq IommuSet
  BY NowFacts DEF DmaInv, LibInv, Lib
<1>2. DOMAIN mmaps = 1 .. Len(mmaps)
  BY <1>1
<1>3. \A i \in 1 .. Len(mmaps) :
         \E k \in iommu : k.da = mmaps[i].da /\ k.size = mmaps[i].size
  BY <1>1, NowFacts DEF Mapped
<1>4. ASSUME NEW i \in 1 .. Len(mmaps), NEW j \in 1 .. Len(mmaps), i < j
      PROVE  \/ mmaps[i].da + mmaps[i].size <= mmaps[j].da
             \/ mmaps[j].da + mmaps[j].size <= mmaps[i].da
  <2>1. i # j
    BY <1>1, <1>4
  <2>2. mmaps[i].da # mmaps[j].da
    BY <1>1, <2>1, NowFacts DEF Mapped
  <2>3. PICK k \in iommu : k.da = mmaps[i].da /\ k.size = mmaps[i].size
    BY <1>3
  <2>4. PICK l \in iommu : l.da = mmaps[j].da /\ l.size = mmaps[j].size
    BY <1>3
  <2>5. k # l
    BY <2>2, <2>3, <2>4
  <2>6. k.da + k.size <= l.da \/ l.da + l.size <= k.da
    BY <1>1, <2>5, NowFacts DEF Mapped
  <2> QED
    BY <2>3, <2>4, <2>6
<1> QED
  BY <1>2, <1>3, <1>4 DEF MappingsReal

\* The mappings the library keeps are the kernel's, and no two overlap
\* (vfio_attach(), vfio_detach(), acapd_vfio_device_close()).
THEOREM MappingsKept == Spec => []MappingsReal
BY DmaInvariant, MappingsFollow, PTL

LEMMA ReachFollows == DmaInv => TransferReachesBuffer
BY NowFacts DEF DmaInv, LibInv, Keeping, Reaches, TransferReachesBuffer

\* For callers that keep their buffers a transfer under way moves the memory it
\* was asked for (va_to_da(), axidma_vfio_dma_close()).
THEOREM TransfersReach == Spec => []TransferReachesBuffer
BY DmaInvariant, ReachFollows, PTL

LEMMA LinkedFollows == DmaInv => LinkedIsMapped
<1> SUFFICES ASSUME DmaInv, dev.priv, Attaching, NEW b \in Bufs, shm[b].live, shm[b].ref
             PROVE  MapOf(mmaps, shm[b].va) # 0
  BY DEF LinkedIsMapped, Attaching
<1>1. mmaps \in Seq(MapSet) /\ Linked(Now)
  BY NowFacts DEF DmaInv, LibInv, Lib
<1>2. \E i \in 1 .. Len(mmaps) : mmaps[i].va = shm[b].va
  BY <1>1, NowFacts DEF Linked
<1> QED
  BY <1>1, <1>2, MapOfFacts

\* For callers that leave attaching to the transfers a linked buffer is mapped
\* while the device is open (acapd_device_attach_shm()).
THEOREM LinkedMapped == Spec => []LinkedIsMapped
BY DmaInvariant, LinkedFollows, PTL

LEMMA AddressFollows == DmaInv => AddressFound
BY DEF DmaInv, Paging, AddressFound

\* The one pass over the mappings ends at a free address where all mappings are
\* a page, none is undone before the close, and the kernel undoes them then.
THEOREM AddressesFound == Spec => []AddressFound
BY DmaInvariant, AddressFollows, PTL

LEMMA WaitStep ==
    ASSUME DmaInv, [Next]_vars, Engine = "axidma", "slow_start" \notin MayFail,
           call # NULL, call' = NULL, ret' = "ok", call.op # "complete"
    PROVE  \/ hw[call.c].st = "done"
           \/ "transfer" \in MayFail /\ hw[call.c].st = "error"
<1>1. ~Ready /\ ~UNCHANGED vars /\ \A c \in Chnls : ~dma_end(c)
  BY DEF Ready, vars, dma_end
<1>2. acapd_dma_poll
  BY <1>1 DEF Next, acapd_alloc_shm, acapd_free_shm, acapd_attach_shm, acapd_detach_shm,
              transfer_data, acapd_accel_read_complete, acapd_accel_reset_channel, dma_close
<1> DEFINE h == hw[call.c]
<1>3. h.run \/ ("transfer" \in MayFail /\ h.st = "error")
  BY DEF DmaInv, Waiting
<1>4. poll(h) # "INPROGRESS" /\ poll(h) # "ERRORS"
  BY <1>2 DEF acapd_dma_poll, Ended
<1>5. poll(h) = axidma_vfio_dma_poll(h)
  BY DEF poll
<1>6. CASE h.run /\ h.st # "done"
  <2>1. poll(h) \in {"ERRORS", "INPROGRESS"}
    BY <1>5, <1>6 DEF axidma_vfio_dma_poll
  <2> QED
    BY <1>4, <2>1
<1> QED
  BY <1>3, <1>6

\* On an AXI DMA whose channels start in time, a write or a read that waited and
\* reports success has moved its data, or the engine has met an error
\* (acapd_dma_poll()).
THEOREM WaitsDone == Spec => WaitMeansDone
<1> DEFINE A == Engine = "axidma" /\ "slow_start" \notin MayFail
                /\ call # NULL /\ call' = NULL /\ ret' = "ok" /\ call.op # "complete"
                  => \/ hw[call.c].st = "done"
                     \/ "transfer" \in MayFail /\ hw[call.c].st = "error"
<1>1. DmaInv /\ [Next]_vars => [A]_vars
  BY WaitStep
<1>2. Spec => [][A]_vars
  <2> HIDE DEF A
  <2> QED
    BY <1>1, DmaInvariant, PTL DEF Spec
<1> QED
  BY <1>2 DEF WaitMeansDone
=============================================================================
