--------------------------- MODULE RpuRpmsgProofs ---------------------------
(***************************************************************************)
(* Proofs about RpuRpmsg: for any slots, channels and settings, the type   *)
(* invariant, OwnDevices, EndpointOfChannel and ListCurrent.               *)
(*                                                                         *)
(* update_rpmsg_dev_list() is a loop over the channels found; what holds   *)
(* of it is shown of one visit and carried over the loop by taking the     *)
(* first visit after which it would not hold.                              *)
(***************************************************************************)
EXTENDS RpuRpmsg, FiniteSetTheorems, NaturalsInduction, SequenceTheorems, TLAPS

-----------------------------------------------------------------------------
(* The inductive invariant.                                                *)

FwSet == [run: BOOLEAN, virtio: Numbers \cup {-1}]
EptSet == [n: Nat, ctrl: Numbers, chan: Chans]
FreedSet == [ctrl: Numbers \cup {-1}, virtio: Numbers]

\* No channel is in the list twice.
Distinct(list) ==
    \A i, j \in 1 .. Len(list) : list[i].chan = list[j].chan => i = j

\* Each entry of the list has an endpoint of its channel on ctrl.
HasEndpoints(list, es, ctrl) ==
    \A i \in 1 .. Len(list) :
        \E e \in es : e.n = list[i].ept /\ e.chan = list[i].chan /\ e.ctrl = ctrl

Loaded == {s \in Slots : slots[s] # NULL}

Typed ==
    /\ setting \in Settings /\ fw \in [Slots -> FwSet] /\ ctrls \subseteq Numbers
    /\ chans \subseteq Numbers \X Chans /\ epts \subseteq EptSet /\ IsFiniteSet(epts)
    /\ slots \in [Slots -> SlotRec \cup {NULL}] /\ freed \subseteq FreedSet
    /\ changes \in 0 .. setting.max_changes
    /\ \A s \in Loaded : Distinct(slots[s].list)

\* The firmware that runs is that of the loaded slots, each has a number of its
\* own, which its slot has recorded, and there are no other control devices.
Own ==
    /\ \A s \in Slots \ Loaded : fw[s].virtio = -1
    /\ \A s \in Loaded : /\ fw[s].virtio \in Numbers
                         /\ slots[s].ctrl = fw[s].virtio /\ slots[s].virtio = fw[s].virtio
    /\ \A s, t \in Loaded : fw[s].virtio = fw[t].virtio => s = t
    /\ ctrls = {fw[s].virtio : s \in Loaded}

Endpoints == \A s \in Loaded : HasEndpoints(slots[s].list, epts, slots[s].ctrl)

RpmsgInv ==
    /\ Typed
    /\ InTime => Own
    /\ InTime /\ IsInjective(Service) => Endpoints

-----------------------------------------------------------------------------
(* Numbers.                                                                *)

\* A set of numbers that is not empty has a least one.
LEMMA Least ==
    ASSUME NEW S, S \subseteq Nat, S # {}
    PROVE  \E n \in S : \A m \in S : n <= m
<1> DEFINE R == {x \in Nat \X Nat : x[1] < x[2]}
<1>1. IsWellFoundedOn(R, Nat)
  BY NatLessThanWellFounded DEF OpToRel
<1>2. PICK n \in S : \A m \in S : ~(<<m, n>> \in R)
  <2> HIDE DEF R
  <2> QED
    BY <1>1, WFMin
<1>3. \A m \in S : n <= m
  <2> SUFFICES ASSUME NEW m \in S
               PROVE  n <= m
    OBVIOUS
  <2>1. m \in Nat /\ n \in Nat /\ <<m, n>> \in Nat \X Nat
    OBVIOUS
  <2>2. m < n => <<m, n>> \in R
    BY <2>1
  <2>3. ~(m < n)
    BY <1>2, <2>2, Zenon
  <2> QED
    BY <2>1, <2>3
<1> QED
  BY <1>3

LEMMA LowestIn ==
    ASSUME NEW S, S \subseteq Nat, S # {}
    PROVE  Lowest(S) \in S
BY Least DEF Lowest

\* The values of f on S leave one of more numbers than S has elements.
LEMMA OneLeft ==
    ASSUME NEW S, IsFiniteSet(S), NEW f, DOMAIN f = S, NEW n \in Nat, Cardinality(S) <= n
    PROVE  \E x \in 0 .. n : x \notin {f[y] : y \in S}
<1> DEFINE T == {f[y] : y \in S}
           g == [y \in S |-> f[y]]
<1> SUFFICES ASSUME 0 .. n \subseteq T
             PROVE  FALSE
  OBVIOUS
<1>1. g \in Surjection(S, T)
  BY DEF Surjection
<1>2. IsFiniteSet(T) /\ Cardinality(T) <= Cardinality(S)
  BY <1>1, FS_Surjection
<1>3. Cardinality(0 .. n) = n + 1
  BY FS_Interval
<1> HIDE DEF T
<1>4. Cardinality(0 .. n) <= Cardinality(T)
  BY <1>2, FS_Subset
<1>5. Cardinality(T) \in Nat /\ Cardinality(S) \in Nat
  BY <1>2, FS_CardinalityType
<1> QED
  BY <1>2, <1>3, <1>4, <1>5

\* There is a virtio number no firmware has.
LEMMA FreeNumberFree ==
    ASSUME fw \in [Slots -> FwSet]
    PROVE  FreeNumber \in Numbers /\ \A s \in Slots : fw[s].virtio # FreeNumber
<1> DEFINE f == [s \in Slots |-> fw[s].virtio]
           n == 2 * Cardinality(Slots)
           S == Numbers \ {fw[s].virtio : s \in Slots}
<1>1. Cardinality(Slots) \in Nat /\ IsFiniteSet(Slots)
  BY RpmsgAssumption, FS_CardinalityType
<1>2. n \in Nat /\ Cardinality(Slots) <= n /\ Numbers = 0 .. n
  BY <1>1 DEF Numbers
<1>3. DOMAIN f = Slots
  OBVIOUS
<1>4. \E x \in 0 .. n : x \notin {f[y] : y \in Slots}
  <2> HIDE DEF f, n
  <2> QED
    BY <1>1, <1>2, <1>3, OneLeft
<1>5. {f[y] : y \in Slots} = {fw[s].virtio : s \in Slots}
  OBVIOUS
<1>6. S # {} /\ S \subseteq Nat
  BY <1>2, <1>4, <1>5
<1>7. Lowest(S) \in S
  <2> HIDE DEF S
  <2> QED
    BY <1>6, LowestIn
<1> QED
  BY <1>7 DEF FreeNumber

-----------------------------------------------------------------------------
(* Endpoints.                                                              *)

\* A new endpoint is the last of a finite set of them.
LEMMA NewEndpoint ==
    ASSUME NEW es, es \subseteq EptSet, IsFiniteSet(es), NEW ctrl \in Numbers, NEW c \in Chans
    PROVE  \E n \in Nat :
             LET e == [n |-> n, ctrl |-> ctrl, chan |-> c]
             IN  e \in EptSet /\ app_rpmsg_create_ept(es, ctrl, c) = es \cup {e}
                 /\ IsFiniteSet(es \cup {e})
<1> DEFINE f == [e \in es |-> e.n]
           k == Cardinality(es)
           S == (0 .. k) \ {e.n : e \in es}
           n == Lowest(S)
           e == [n |-> n, ctrl |-> ctrl, chan |-> c]
<1>1. k \in Nat /\ k <= k
  BY FS_CardinalityType
<1>2. DOMAIN f = es
  OBVIOUS
<1>3. \E x \in 0 .. k : x \notin {f[y] : y \in es}
  <2> HIDE DEF f
  <2> QED
    BY <1>1, <1>2, OneLeft
<1>4. S # {} /\ S \subseteq Nat
  BY <1>1, <1>3
<1>5. n \in Nat
  <2> HIDE DEF S
  <2> QED
    BY <1>4, LowestIn
<1>6. app_rpmsg_create_ept(es, ctrl, c) = es \cup {e}
  BY DEF app_rpmsg_create_ept
<1> HIDE DEF n
<1>7. e \in EptSet
  BY <1>5 DEF EptSet
<1>8. IsFiniteSet(es \cup {e})
  BY FS_AddElement
<1> QED
  BY <1>5, <1>6, <1>7, <1>8

\* The endpoint found for a channel is one of its service on ctrl.
LEMMA EndpointFound ==
    ASSUME NEW es, es \subseteq EptSet, NEW e \in es
    PROVE  LET n == get_rpmsg_ept_dev(es, e.ctrl, e.chan)
           IN  n \in Nat /\ \E x \in es : /\ x.n = n /\ x.ctrl = e.ctrl
                                          /\ Service[x.chan] = Service[e.chan]
<1> DEFINE X == {x \in es : x.ctrl = e.ctrl /\ Service[x.chan] = Service[e.chan]}
           S == {x.n : x \in X}
<1>1. S \subseteq Nat /\ S # {}
  BY DEF EptSet
<1>2. Lowest(S) \in S
  <2> HIDE DEF S
  <2> QED
    BY <1>1, LowestIn
<1>3. get_rpmsg_ept_dev(es, e.ctrl, e.chan) = Lowest(S)
  BY DEF get_rpmsg_ept_dev
<1> QED
  BY <1>1, <1>2, <1>3

-----------------------------------------------------------------------------
(* One visit of update_rpmsg_dev_list().                                   *)

UpdSet == [list: Seq(Row), active: SUBSET Nat, epts: SUBSET EptSet, failed: SUBSET Chans]

\* What holds after the channels D were visited for the list of ctrl, which was
\* old before.
UpdInv(t, old, ctrl, D) ==
    /\ t \in UpdSet /\ t.active \subseteq 1 .. Len(t.list) /\ Distinct(t.list)
    /\ IsFiniteSet(t.epts) /\ epts \subseteq t.epts
    /\ Prefix = {} =>
          /\ \A i \in t.active : t.list[i].chan \in D
          /\ \A c \in D : c \in t.failed \/ \E i \in t.active : t.list[i].chan = c
    /\ IsInjective(Service) /\ HasEndpoints(old, epts, ctrl) =>
          HasEndpoints(t.list, t.epts, ctrl)

LEMMA RecordedFacts ==
    ASSUME NEW list \in Seq(Row), NEW c
    PROVE  /\ recorded(list, c) = {} => \A i \in 1 .. Len(list) : list[i].chan # c
           /\ recorded(list, c) # {} =>
                 \E i \in 1 .. Len(list) : /\ recorded(list, c) = {i}
                                           /\ Prefix = {} => list[i].chan = c
<1> DEFINE same == {i \in DOMAIN list : list[i].chan = c \/ <<c, list[i].chan>> \in Prefix}
<1>1. DOMAIN list = 1 .. Len(list) /\ same \subseteq Nat
  OBVIOUS
<1>2. same # {} => Lowest(same) \in same
  <2> HIDE DEF same
  <2> QED
    BY <1>1, LowestIn
<1>3. recorded(list, c) = IF same = {} THEN {} ELSE {Lowest(same)}
  BY DEF recorded
<1>4. CASE same = {}
  BY <1>1, <1>3, <1>4
<1>5. CASE same # {}
  <2>1. recorded(list, c) = {Lowest(same)} /\ Lowest(same) \in same
    BY <1>2, <1>3, <1>5
  <2> QED
    BY <1>1, <2>1
<1> QED
  BY <1>4, <1>5

\* A channel that is recorded.
LEMMA MarkInv ==
    ASSUME NEW t, NEW old, NEW ctrl, NEW D, UpdInv(t, old, ctrl, D),
           NEW c \in Chans, recorded(t.list, c) # {}
    PROVE  UpdInv([t EXCEPT !.active = @ \cup recorded(t.list, c)], old, ctrl, D \cup {c})
<1>1. t \in UpdSet /\ t.list \in Seq(Row) /\ t.active \subseteq Nat
  BY DEF UpdInv, UpdSet
<1>2. PICK i \in 1 .. Len(t.list) : /\ recorded(t.list, c) = {i}
                                    /\ Prefix = {} => t.list[i].chan = c
  BY <1>1, RecordedFacts
<1> DEFINE A == t.active \cup {i}
           g == [t EXCEPT !.active = A]
<1>3. [t EXCEPT !.active = @ \cup recorded(t.list, c)] = g
  BY <1>2
<1>4. A \subseteq Nat /\ A \subseteq 1 .. Len(t.list)
  BY <1>1 DEF UpdInv
<1>5. i \in A /\ \A j \in A : j \in t.active \/ j = i
  OBVIOUS
<1>6. t.active \subseteq A
  OBVIOUS
<1> HIDE DEF A
<1>7. g \in UpdSet /\ g.list = t.list /\ g.active = A /\ g.epts = t.epts /\ g.failed = t.failed
  BY <1>1, <1>4 DEF UpdSet
<1> HIDE DEF g
<1>8. Prefix = {} =>
        /\ \A j \in A : t.list[j].chan \in D \cup {c}
        /\ \A d \in D \cup {c} : d \in t.failed \/ \E j \in A : t.list[j].chan = d
  BY <1>2, <1>5, <1>6 DEF UpdInv
<1>9. UpdInv(g, old, ctrl, D \cup {c})
  BY <1>4, <1>7, <1>8 DEF UpdInv
<1> QED
  BY <1>3, <1>9

\* A channel that cannot be set up.
LEMMA FailedInv ==
    ASSUME NEW t, NEW old, NEW ctrl, NEW D, UpdInv(t, old, ctrl, D), NEW c \in Chans
    PROVE  UpdInv([t EXCEPT !.failed = @ \cup {c}], old, ctrl, D \cup {c})
<1>1. t \in UpdSet
  BY DEF UpdInv
<1> DEFINE F == t.failed \cup {c}
           g == [t EXCEPT !.failed = F]
<1>2. F \subseteq Chans /\ t.failed \subseteq F /\ c \in F
  BY <1>1 DEF UpdSet
<1> HIDE DEF F
<1>3. g \in UpdSet /\ g.list = t.list /\ g.active = t.active /\ g.epts = t.epts /\ g.failed = F
  BY <1>1, <1>2 DEF UpdSet
<1> HIDE DEF g
<1>4. UpdInv(g, old, ctrl, D \cup {c})
  BY <1>2, <1>3 DEF UpdInv
<1> QED
  BY <1>4 DEF g, F

\* A channel that gets an endpoint and the entry r.
Added(t, es, r) ==
    [t EXCEPT !.epts = es, !.active = @ \cup {Len(t.list) + 1}, !.list = Append(@, r)]

LEMMA AddInv ==
    ASSUME NEW t, NEW old, NEW ctrl, NEW D, UpdInv(t, old, ctrl, D), NEW c \in Chans,
           \A i \in 1 .. Len(t.list) : t.list[i].chan # c,
           NEW es, es \subseteq EptSet, IsFiniteSet(es), t.epts \subseteq es,
           NEW r \in Row, r.chan = c,
           IsInjective(Service) => \E e \in es : e.n = r.ept /\ e.chan = c /\ e.ctrl = ctrl
    PROVE  UpdInv(Added(t, es, r), old, ctrl, D \cup {c})
<1> DEFINE n == Len(t.list)
           A == t.active \cup {n + 1}
           L == Append(t.list, r)
           g == [t EXCEPT !.epts = es, !.active = A, !.list = L]
<1>1. t \in UpdSet /\ t.list \in Seq(Row) /\ t.active \subseteq 1 .. n /\ n \in Nat
  BY DEF UpdInv, UpdSet
<1>2. /\ L \in Seq(Row) /\ Len(L) = n + 1 /\ L[n + 1] = r
      /\ \A i \in 1 .. n : L[i] = t.list[i]
  BY <1>1
<1>3. \A i \in 1 .. n + 1 : i \in 1 .. n \/ i = n + 1
  BY <1>1
<1>4. A \subseteq Nat /\ A \subseteq 1 .. n + 1 /\ t.active \subseteq A /\ n + 1 \in A
      /\ \A i \in A : i \in t.active \/ i = n + 1
  BY <1>1
<1>5. Added(t, es, r) = g
  BY DEF Added
<1> HIDE DEF n, A, L
<1>6. g \in UpdSet /\ g.list = L /\ g.active = A /\ g.epts = es /\ g.failed = t.failed
  BY <1>1, <1>2, <1>4 DEF UpdSet
<1> HIDE DEF g
<1>7. Distinct(L)
  <2>1. \A i, j \in 1 .. n : t.list[i].chan = t.list[j].chan => i = j
    BY DEF UpdInv, Distinct, n
  <2>2. \A i \in 1 .. n : L[i].chan = t.list[i].chan /\ L[i].chan # c
    BY <1>2 DEF n
  <2>3. L[n + 1].chan = c
    BY <1>2
  <2>4. \A i, j \in 1 .. n + 1 : L[i].chan = L[j].chan => i = j
    BY <1>3, <2>1, <2>2, <2>3, Zenon
  <2> QED
    BY <1>2, <2>4 DEF Distinct
<1>8. Prefix = {} =>
        /\ \A i \in A : L[i].chan \in D \cup {c}
        /\ \A d \in D \cup {c} : d \in t.failed \/ \E i \in A : L[i].chan = d
  <2> SUFFICES ASSUME Prefix = {}
               PROVE  /\ \A i \in A : L[i].chan \in D \cup {c}
                      /\ \A d \in D \cup {c} : d \in t.failed \/ \E i \in A : L[i].chan = d
    OBVIOUS
  <2>1. /\ \A i \in t.active : t.list[i].chan \in D
        /\ \A d \in D : d \in t.failed \/ \E i \in t.active : t.list[i].chan = d
    BY DEF UpdInv
  <2>2. \A i \in t.active : L[i] = t.list[i]
    BY <1>1, <1>2 DEF n
  <2>3. L[n + 1].chan = c
    BY <1>2
  <2> QED
    BY <1>4, <2>1, <2>2, <2>3
<1>9. IsInjective(Service) /\ HasEndpoints(old, epts, ctrl) => HasEndpoints(L, es, ctrl)
  <2> SUFFICES ASSUME IsInjective(Service), HasEndpoints(old, epts, ctrl)
               PROVE  HasEndpoints(L, es, ctrl)
    OBVIOUS
  <2>1. HasEndpoints(t.list, t.epts, ctrl)
    BY DEF UpdInv
  <2>2. ASSUME NEW i \in 1 .. n
        PROVE  \E e \in es : e.n = L[i].ept /\ e.chan = L[i].chan /\ e.ctrl = ctrl
    BY <1>2, <2>1 DEF HasEndpoints, n
  <2>3. \E e \in es : e.n = L[n + 1].ept /\ e.chan = L[n + 1].chan /\ e.ctrl = ctrl
    BY <1>2
  <2> QED
    BY <1>2, <1>3, <2>2, <2>3 DEF HasEndpoints
<1>10. UpdInv(g, old, ctrl, D \cup {c})
  BY <1>1, <1>2, <1>4, <1>6, <1>7, <1>8, <1>9 DEF UpdInv
<1> QED
  BY <1>5, <1>10

LEMMA CreateInv ==
    ASSUME setting \in Settings, ctrls \subseteq Numbers,
           NEW t, NEW old, NEW ctrl, NEW D, UpdInv(t, old, ctrl, D), NEW c \in Chans,
           \A i \in 1 .. Len(t.list) : t.list[i].chan # c
    PROVE  UpdInv(create_rpmsg_dev(t, ctrl, c), old, ctrl, D \cup {c})
<1> DEFINE es == setup_rpmsg_ept_dev(t, ctrl, c)
           r == [chan |-> c, ept |-> get_rpmsg_ept_dev(es, ctrl, c)]
<1>1. t \in UpdSet /\ t.epts \subseteq EptSet /\ IsFiniteSet(t.epts)
  BY DEF UpdInv, UpdSet
<1>2. CASE es = t.epts
  <2>1. create_rpmsg_dev(t, ctrl, c) = [t EXCEPT !.failed = @ \cup {c}]
    BY <1>2 DEF create_rpmsg_dev
  <2> QED
    BY <2>1, FailedInv
<1>3. CASE es # t.epts
  <2>1. create_rpmsg_dev(t, ctrl, c) = Added(t, es, r)
    BY <1>3 DEF create_rpmsg_dev, Added
  <2>2. es = app_rpmsg_create_ept(t.epts, ctrl, c) /\ ctrl \in Numbers
    BY <1>3 DEF setup_rpmsg_ept_dev, get_rpmsg_chrdev_fd
  <2>3. PICK n \in Nat :
          LET e == [n |-> n, ctrl |-> ctrl, chan |-> c]
          IN  /\ e \in EptSet
              /\ app_rpmsg_create_ept(t.epts, ctrl, c) = t.epts \cup {e}
              /\ IsFiniteSet(t.epts \cup {e})
    BY <1>1, <2>2, NewEndpoint
  <2> DEFINE e == [n |-> n, ctrl |-> ctrl, chan |-> c]
  <2>4. /\ e \in EptSet /\ es = t.epts \cup {e} /\ IsFiniteSet(es) /\ e.ctrl = ctrl
        /\ e.chan = c
    BY <2>2, <2>3
  <2> HIDE DEF e, es
  <2>5. es \subseteq EptSet /\ e \in es /\ t.epts \subseteq es
    BY <1>1, <2>4
  <2>6. /\ get_rpmsg_ept_dev(es, ctrl, c) \in Nat
        /\ \E x \in es : /\ x.n = get_rpmsg_ept_dev(es, ctrl, c) /\ x.ctrl = ctrl
                         /\ Service[x.chan] = Service[c]
    <3>1. /\ get_rpmsg_ept_dev(es, e.ctrl, e.chan) \in Nat
          /\ \E x \in es : /\ x.n = get_rpmsg_ept_dev(es, e.ctrl, e.chan)
                           /\ x.ctrl = e.ctrl /\ Service[x.chan] = Service[e.chan]
      BY <2>5, EndpointFound
    <3> QED
      BY <2>4, <3>1
  <2>7. r \in Row /\ r.chan = c /\ r.ept = get_rpmsg_ept_dev(es, ctrl, c)
    BY <2>6 DEF Row
  <2> HIDE DEF r
  <2>8. ASSUME IsInjective(Service)
        PROVE  \E x \in es : x.n = r.ept /\ x.chan = c /\ x.ctrl = ctrl
    <3>1. DOMAIN Service = Chans
      BY RpmsgAssumption DEF Setting, Service
    <3>2. \A x \in es : x.chan \in Chans
      BY <2>5 DEF EptSet
    <3> QED
      BY <2>6, <2>7, <2>8, <3>1, <3>2 DEF IsInjective
  <2>9. UpdInv(Added(t, es, r), old, ctrl, D \cup {c})
    BY <2>4, <2>5, <2>7, <2>8, AddInv
  <2> QED
    BY <2>1, <2>9 DEF es, r
<1> QED
  BY <1>2, <1>3

LEMMA VisitInv ==
    ASSUME setting \in Settings, ctrls \subseteq Numbers,
           NEW t, NEW old, NEW ctrl, NEW D, UpdInv(t, old, ctrl, D), NEW c \in Chans
    PROVE  UpdInv(visit_dev(t, ctrl, c), old, ctrl, D \cup {c})
<1>1. t.list \in Seq(Row)
  BY DEF UpdInv, UpdSet
<1>2. CASE recorded(t.list, c) # {}
  BY <1>2, MarkInv DEF visit_dev
<1>3. CASE recorded(t.list, c) = {}
  BY <1>1, <1>3, RecordedFacts, CreateInv DEF visit_dev
<1> QED
  BY <1>2, <1>3

-----------------------------------------------------------------------------
(* The loop.                                                               *)

\* The states of the loop that starts with first.
Visits(first, ctrl, order, g) ==
    g = [i \in 0 .. Len(order) |->
            IF i = 0 THEN first ELSE visit_dev(g[i - 1], ctrl, order[i])]

LEMMA VisitsExist ==
    ASSUME NEW first, NEW ctrl, NEW order \in Seq(Chans)
    PROVE  \E g : Visits(first, ctrl, order, g)
<1> DEFINE Part(n, g) == g = [i \in 0 .. n |->
                 IF i = 0 THEN first ELSE visit_dev(g[i - 1], ctrl, order[i])]
           Bad == {n \in Nat : ~\E g : Part(n, g)}
<1>1. Bad = {}
  <2> SUFFICES ASSUME Bad # {}
               PROVE  FALSE
    OBVIOUS
  <2>1. PICK n \in Bad : \A m \in Bad : n <= m
    <3>1. Bad \subseteq Nat
      OBVIOUS
    <3> HIDE DEF Bad
    <3> QED
      BY <3>1, Least
  <2>2. n \in Nat /\ ~\E g : Part(n, g)
    OBVIOUS
  <2>3. n # 0
    <3>1. Part(0, [i \in 0 .. 0 |-> first])
      OBVIOUS
    <3> QED
      BY <2>2, <3>1
  <2>4. n - 1 \in Nat /\ n - 1 \notin Bad
    <3>1. n - 1 \in Nat /\ ~(n <= n - 1)
      BY <2>2, <2>3
    <3> HIDE DEF Bad
    <3> QED
      BY <2>1, <3>1
  <2>5. PICK g : Part(n - 1, g)
    BY <2>4
  <2> DEFINE f == [i \in 0 .. n |-> IF i = n THEN visit_dev(g[n - 1], ctrl, order[n]) ELSE g[i]]
  <2>6. Part(n, f)
    <3>1. ASSUME NEW i \in 0 .. n, i # 0
          PROVE  f[i] = visit_dev(f[i - 1], ctrl, order[i])
      <4>1. CASE i = n
        BY <2>2, <2>3, <4>1
      <4>2. CASE i # n
        BY <2>2, <2>5, <3>1, <4>2
      <4> QED
        BY <4>1, <4>2
    <3>2. f[0] = first
      BY <2>2, <2>3, <2>4, <2>5
    <3> QED
      BY <3>1, <3>2
  <2> QED
    BY <2>2, <2>6
<1> QED
  BY <1>1 DEF Visits

LEMMA UpdateLast ==
    ASSUME NEW slot, NEW order \in Seq(Chans), NEW failed
    PROVE  \E g : /\ Visits([list |-> slot.list, active |-> {}, epts |-> epts,
                             failed |-> failed], slot.ctrl, order, g)
                  /\ update_rpmsg_dev_list(slot, order, failed) = g[Len(order)]
<1> DEFINE first == [list |-> slot.list, active |-> {}, epts |-> epts, failed |-> failed]
           st[i \in 0 .. Len(order)] ==
              IF i = 0 THEN first ELSE visit_dev(st[i - 1], slot.ctrl, order[i])
<1>1. st = [i \in 0 .. Len(order) |->
              IF i = 0 THEN first ELSE visit_dev(st[i - 1], slot.ctrl, order[i])]
  <2> HIDE DEF first
  <2> QED
    BY VisitsExist DEF Visits
<1>2. update_rpmsg_dev_list(slot, order, failed) = st[Len(order)]
  BY DEF update_rpmsg_dev_list
<1> HIDE DEF st
<1> QED
  BY <1>1, <1>2 DEF Visits

\* After the loop all channels of order were visited.
LEMMA UpdateInv ==
    ASSUME setting \in Settings, ctrls \subseteq Numbers, epts \subseteq EptSet,
           IsFiniteSet(epts), NEW slot \in SlotRec, Distinct(slot.list),
           NEW order \in Seq(Chans), NEW failed, failed \subseteq Chans
    PROVE  UpdInv(update_rpmsg_dev_list(slot, order, failed), slot.list, slot.ctrl,
                  {order[k] : k \in 1 .. Len(order)})
<1> DEFINE first == [list |-> slot.list, active |-> {}, epts |-> epts, failed |-> failed]
           old == slot.list
           ctrl == slot.ctrl
           D(n) == {order[k] : k \in 1 .. n}
           N == Len(order)
<1>1. PICK g : Visits(first, ctrl, order, g)
               /\ update_rpmsg_dev_list(slot, order, failed) = g[N]
  BY UpdateLast
<1>2. g[0] = first /\ \A i \in 1 .. N : g[i] = visit_dev(g[i - 1], ctrl, order[i])
  <2> HIDE DEF first
  <2> QED
    BY <1>1 DEF Visits
<1>3. UpdInv(first, old, ctrl, D(0))
  <2>1. first \in UpdSet
    BY DEF UpdSet, SlotRec
  <2>2. first.list = old /\ first.active = {} /\ first.epts = epts
    OBVIOUS
  <2> HIDE DEF first
  <2> QED
    BY <2>1, <2>2 DEF UpdInv
<1> DEFINE Bad == {n \in 0 .. N : ~UpdInv(g[n], old, ctrl, D(n))}
<1>4. Bad = {}
  <2> SUFFICES ASSUME Bad # {}
               PROVE  FALSE
    OBVIOUS
  <2>1. PICK n \in Bad : \A m \in Bad : n <= m
    <3>1. Bad \subseteq Nat
      OBVIOUS
    <3> HIDE DEF Bad
    <3> QED
      BY <3>1, Least
  <2>2. n \in 0 .. N /\ ~UpdInv(g[n], old, ctrl, D(n)) /\ n \in Nat
    OBVIOUS
  <2>3. n # 0
    BY <1>2, <1>3, <2>2
  <2>4. n \in 1 .. N /\ n - 1 \in 0 .. N /\ n - 1 \notin Bad
    <3>1. n \in 1 .. N /\ n - 1 \in 0 .. N /\ ~(n <= n - 1)
      BY <2>2, <2>3
    <3> HIDE DEF Bad
    <3> QED
      BY <2>1, <3>1
  <2>5. UpdInv(g[n - 1], old, ctrl, D(n - 1))
    BY <2>4
  <2>6. order[n] \in Chans
    BY <2>4
  <2>7. UpdInv(visit_dev(g[n - 1], ctrl, order[n]), old, ctrl, D(n - 1) \cup {order[n]})
    <3> HIDE DEF D, old, ctrl
    <3> QED
      BY <2>5, <2>6, VisitInv
  <2>8. D(n - 1) \cup {order[n]} = D(n)
    <3>1. \A k \in 1 .. n : k \in 1 .. n - 1 \/ k = n
      BY <2>2
    <3>2. n \in 1 .. n /\ 1 .. n - 1 \subseteq 1 .. n
      BY <2>2, <2>3
    <3> QED
      BY <3>1, <3>2
  <2> HIDE DEF D, old, ctrl, Bad, first
  <2> QED
    BY <1>2, <2>2, <2>4, <2>7, <2>8
<1>5. N \in 0 .. N
  OBVIOUS
<1>6. UpdInv(g[N], old, ctrl, D(N))
  BY <1>4, <1>5
<1> QED
  BY <1>1, <1>6

-----------------------------------------------------------------------------
(* Deleting the entries that are not active.                               *)

\* How many members of A are up to k.
Rank(A, k) == Cardinality({j \in A : j <= k})

LEMMA RankRange ==
    ASSUME NEW A, A \subseteq Nat, IsFiniteSet(A), NEW k \in A
    PROVE  Rank(A, k) \in 1 .. Cardinality(A)
<1> DEFINE U == {j \in A : j <= k}
<1>1. U \subseteq A /\ k \in U
  OBVIOUS
<1> HIDE DEF U
<1>2. IsFiniteSet(U) /\ Cardinality(U) <= Cardinality(A)
  BY <1>1, FS_Subset
<1>3. Cardinality(U) \in Nat /\ Cardinality(A) \in Nat /\ Cardinality(U) # 0
  BY <1>1, <1>2, FS_CardinalityType, FS_EmptySet
<1> QED
  BY <1>2, <1>3 DEF Rank, U

LEMMA RankUnique ==
    ASSUME NEW A, A \subseteq Nat, IsFiniteSet(A), NEW k \in A, NEW l \in A,
           Rank(A, k) = Rank(A, l)
    PROVE  k = l
<1>1. ASSUME NEW x \in A, NEW y \in A, Rank(A, x) = Rank(A, y), x < y
      PROVE  FALSE
  <2> DEFINE U == {j \in A : j <= x}
             V == {j \in A : j <= y}
  <2>1. U \subseteq V /\ V \subseteq A /\ y \in V /\ y \notin U
    <3>1. x \in Nat /\ y \in Nat /\ \A j \in A : j \in Nat
      OBVIOUS
    <3>2. \A j \in A : j <= x => j <= y
      BY <1>1, <3>1
    <3>3. y <= y /\ ~(y <= x)
      BY <1>1, <3>1
    <3> QED
      BY <3>2, <3>3
  <2>2. Cardinality(U) = Cardinality(V)
    BY <1>1 DEF Rank
  <2> HIDE DEF U, V
  <2>3. IsFiniteSet(V)
    BY <2>1, FS_Subset
  <2>4. U = V
    BY <2>1, <2>2, <2>3, FS_Subset
  <2> QED
    BY <2>1, <2>4
<1>2. k \in Nat /\ l \in Nat
  OBVIOUS
<1> QED
  BY <1>1, <1>2

LEMMA RankExists ==
    ASSUME NEW A, A \subseteq Nat, IsFiniteSet(A), NEW i \in 1 .. Cardinality(A)
    PROVE  \E k \in A : Rank(A, k) = i
<1> DEFINE Bad == {n \in Nat : \E S \in SUBSET Nat :
                     /\ IsFiniteSet(S) /\ Cardinality(S) = n
                     /\ \E r \in 1 .. n : \A k \in S : Rank(S, k) # r}
<1>1. Bad = {}
  <2> SUFFICES ASSUME Bad # {}
               PROVE  FALSE
    OBVIOUS
  <2>1. PICK n \in Bad : \A m \in Bad : n <= m
    <3>1. Bad \subseteq Nat
      OBVIOUS
    <3> HIDE DEF Bad
    <3> QED
      BY <3>1, Least
  <2>2. PICK S \in SUBSET Nat : /\ IsFiniteSet(S) /\ Cardinality(S) = n
                                /\ \E r \in 1 .. n : \A k \in S : Rank(S, k) # r
    OBVIOUS
  <2>3. PICK r \in 1 .. n : \A k \in S : Rank(S, k) # r
    BY <2>2
  <2>4. n \in Nat /\ n # 0 /\ S # {}
    <3>1. n \in Nat /\ n # 0
      BY <2>3
    <3> QED
      BY <2>2, <3>1, FS_EmptySet
  <2>5. PICK m \in S : \A j \in S : m <= j
    BY <2>4, Least
  <2> DEFINE B == S \ {m}
  <2>6. IsFiniteSet(B) /\ Cardinality(B) = n - 1 /\ B \in SUBSET Nat
    <3>1. IsFiniteSet(S) /\ Cardinality(S) = n /\ m \in S
      BY <2>2
    <3>2. IsFiniteSet(B) /\ Cardinality(B) = Cardinality(S) - 1
      BY <3>1, FS_RemoveElement
    <3> QED
      BY <3>1, <3>2
  <2>7. CASE r = 1
    <3>1. {j \in S : j <= m} = {m}
      <4>1. m \in Nat /\ m <= m /\ \A j \in S : j \in Nat
        BY <2>2
      <4>2. \A j \in S : j <= m <=> j = m
        BY <2>5, <4>1
      <4> QED
        BY <4>2
    <3>2. Rank(S, m) = 1
      BY <3>1, FS_Singleton DEF Rank
    <3> QED
      BY <2>3, <2>7, <3>2
  <2>8. CASE r # 1
    <3>1. r - 1 \in 1 .. n - 1 /\ n - 1 \in Nat /\ ~(n <= n - 1)
      BY <2>4, <2>8
    <3>2. n - 1 \notin Bad
      <4> HIDE DEF Bad
      <4> QED
        BY <2>1, <3>1
    <3>3. PICK k \in B : Rank(B, k) = r - 1
      <4> HIDE DEF B
      <4> QED
        BY <2>6, <3>1, <3>2
    <3> DEFINE U == {j \in B : j <= k}
    <3>4. {j \in S : j <= k} = U \cup {m} /\ m \notin U /\ U \subseteq B /\ k \in S
      BY <2>5
    <3> HIDE DEF U, B
    <3>5. Cardinality(U) = r - 1
      BY <3>3 DEF Rank, U
    <3>6. IsFiniteSet(U)
      BY <2>6, <3>4, FS_Subset
    <3>7. Cardinality(U \cup {m}) = (r - 1) + 1
      BY <3>4, <3>5, <3>6, FS_AddElement
    <3>8. Rank(S, k) = r
      BY <3>4, <3>7 DEF Rank
    <3> QED
      BY <2>3, <3>4, <3>8
  <2> QED
    BY <2>7, <2>8
<1>2. Cardinality(A) \in Nat
  BY FS_CardinalityType
<1> QED
  BY <1>1, <1>2

\* The entries left are the active ones, each once.
LEMMA DeleteFacts ==
    ASSUME NEW t \in UpdSet, t.active \subseteq 1 .. Len(t.list)
    PROVE  LET L == delete_inactive(t)
           IN  /\ L \in Seq(Row)
               /\ \A i \in 1 .. Len(L) : \E k \in t.active : L[i] = t.list[k]
               /\ \A k \in t.active : \E i \in 1 .. Len(L) : L[i] = t.list[k]
               /\ Distinct(t.list) => Distinct(L)
<1> DEFINE A == t.active
           n == Cardinality(A)
           P(i) == CHOOSE k \in A : Rank(A, k) = i
           L == delete_inactive(t)
<1>1. t.list \in Seq(Row) /\ A \subseteq Nat /\ Len(t.list) \in Nat
  BY DEF UpdSet
<1>2. IsFiniteSet(A) /\ n \in Nat
  <2>1. IsFiniteSet(1 .. Len(t.list))
    BY <1>1, FS_Interval
  <2> QED
    BY <2>1, FS_Subset, FS_CardinalityType
<1>3. L = [i \in 1 .. n |-> t.list[P(i)]]
  BY DEF delete_inactive, Rank
<1>4. \A i \in 1 .. n : P(i) \in A /\ Rank(A, P(i)) = i
  <2> HIDE DEF A
  <2> QED
    BY <1>1, <1>2, RankExists
<1>5. \A k \in A : Rank(A, k) \in 1 .. n /\ P(Rank(A, k)) = k
  <2> SUFFICES ASSUME NEW k \in A
               PROVE  Rank(A, k) \in 1 .. n /\ P(Rank(A, k)) = k
    OBVIOUS
  <2>1. Rank(A, k) \in 1 .. n
    <3> HIDE DEF A
    <3> QED
      BY <1>1, <1>2, RankRange
  <2>2. P(Rank(A, k)) \in A /\ Rank(A, P(Rank(A, k))) = Rank(A, k)
    BY <1>4, <2>1
  <2> HIDE DEF A, P
  <2> QED
    BY <1>1, <1>2, <2>1, <2>2, RankUnique
<1> HIDE DEF P, L, A, n
<1>6. \A i \in 1 .. n : L[i] = t.list[P(i)]
  BY <1>3
<1>7. L \in Seq(Row) /\ Len(L) = n
  <2>1. \A i \in 1 .. n : t.list[P(i)] \in Row
    BY <1>1, <1>4 DEF A
  <2>2. L \in [1 .. n -> Row]
    BY <1>3, <2>1
  <2> QED
    BY <1>2, <2>2
<1>8. \A i \in 1 .. n : \E k \in A : L[i] = t.list[k]
  BY <1>4, <1>6
<1>9. \A k \in A : \E i \in 1 .. n : L[i] = t.list[k]
  BY <1>5, <1>6
<1>10. ASSUME Distinct(t.list), NEW i \in 1 .. n, NEW j \in 1 .. n, L[i].chan = L[j].chan
       PROVE  i = j
  <2>1. P(i) \in 1 .. Len(t.list) /\ P(j) \in 1 .. Len(t.list)
    BY <1>4 DEF A
  <2>2. P(i) = P(j)
    BY <1>6, <1>10, <2>1 DEF Distinct
  <2>3. Rank(A, P(i)) = i /\ Rank(A, P(j)) = j
    BY <1>4
  <2> QED
    BY <2>2, <2>3
<1> QED
  BY <1>7, <1>8, <1>9, <1>10 DEF Distinct, L, A

-----------------------------------------------------------------------------
(* The steps.                                                              *)

LEMMA InitInv == Init => RpmsgInv
<1> SUFFICES ASSUME Init
             PROVE  RpmsgInv
  OBVIOUS
<1>1. Cardinality(Slots) \in Nat
  BY RpmsgAssumption, FS_CardinalityType
<1>2. 0 \in Numbers
  BY <1>1 DEF Numbers
<1>3. Loaded = {}
  BY DEF Init, Loaded
<1>4. setting.max_changes \in Nat
  BY RpmsgAssumption DEF Init, Setting
<1>5. Typed
  BY <1>2, <1>3, <1>4, FS_EmptySet DEF Init, Typed, FwSet, FreedSet, Zeroes
<1>6. Own /\ Endpoints
  BY <1>3 DEF Init, Own, Endpoints
<1> QED
  BY <1>5, <1>6 DEF RpmsgInv

\* Steps that leave the setting alone.
LEMMA SettingKept ==
    ASSUME setting' = setting
    PROVE  InTime' = InTime /\ Service' = Service
BY DEF InTime, Service, MayFail

LEMMA AnnounceStep ==
    ASSUME RpmsgInv, NEW s \in Slots, announce(s)
    PROVE  RpmsgInv'
<1>1. UNCHANGED <<setting, fw, chans, epts, slots, freed, out, changes>> /\ Typed
  BY DEF announce, RpmsgInv
<1>2. fw[s].virtio \in Numbers /\ ctrls' = ctrls \cup {fw[s].virtio}
      /\ fw[s].virtio \notin ctrls
  BY <1>1 DEF announce, Typed, FwSet
<1>3. Loaded' = Loaded
  BY <1>1 DEF Loaded
<1>4. Typed'
  BY <1>1, <1>2, <1>3 DEF Typed
<1>5. ~InTime
  <2> SUFFICES ASSUME Own
               PROVE  FALSE
    BY DEF RpmsgInv
  <2>1. s \in Loaded
    BY <1>2 DEF Own, Numbers
  <2> QED
    BY <1>2, <2>1 DEF Own
<1> QED
  BY <1>1, <1>4, <1>5, SettingKept DEF RpmsgInv

LEMMA ChannelStep ==
    ASSUME RpmsgInv, NEW s \in Slots, NEW c \in Chans, new_channel(s, c) \/ del_channel(s, c)
    PROVE  RpmsgInv'
<1>1. UNCHANGED <<setting, fw, ctrls, epts, slots, freed, out>> /\ Typed
  BY DEF new_channel, del_channel, RpmsgInv
<1>2. Loaded' = Loaded
  BY <1>1 DEF Loaded
<1>3. changes' \in 0 .. setting.max_changes
  <2>1. setting.max_changes \in Nat
    BY <1>1, RpmsgAssumption DEF Typed, Setting
  <2> QED
    BY <1>1, <2>1 DEF new_channel, del_channel, Typed
<1>4. chans' \subseteq Numbers \X Chans
  BY <1>1 DEF new_channel, del_channel, Typed
<1>5. Typed'
  BY <1>1, <1>2, <1>3, <1>4 DEF Typed
<1>6. (Own => Own') /\ (Endpoints => Endpoints')
  BY <1>1, <1>2 DEF Own, Endpoints
<1> QED
  BY <1>1, <1>5, <1>6, SettingKept DEF RpmsgInv

LEMMA LoadStep ==
    ASSUME RpmsgInv, NEW s \in Slots, NEW kind \in setting.firmware, load(s, kind)
    PROVE  RpmsgInv'
<1> DEFINE v == IF kind = "plain" THEN -1 ELSE FreeNumber
           now == IF kind = "rpmsg" THEN ctrls \cup {v} ELSE ctrls
           news == new_ctrl_devs(now)
<1>1. /\ UNCHANGED <<setting, chans, epts, freed, out, changes>> /\ Typed
      /\ slots[s] = NULL
      /\ fw' = [fw EXCEPT ![s] = [run |-> TRUE, virtio |-> v]] /\ ctrls' = now
  BY DEF load, RpmsgInv
<1>2. PICK rec \in IF news # {} THEN {[ctrl |-> n, virtio |-> n] : n \in news} ELSE freed :
          slots' = [slots EXCEPT ![s] = [ctrl |-> rec.ctrl, virtio |-> rec.virtio,
                                         list |-> <<>>]]
  BY DEF load
<1>3. FreeNumber \in Numbers /\ \A x \in Slots : fw[x].virtio # FreeNumber
  BY <1>1, FreeNumberFree DEF Typed
<1>4. v \in Numbers \cup {-1} /\ now \subseteq Numbers /\ news \subseteq now
  BY <1>1, <1>3 DEF Typed, new_ctrl_devs
<1> DEFINE r == [ctrl |-> rec.ctrl, virtio |-> rec.virtio, list |-> <<>>]
<1>5. rec.ctrl \in Numbers \cup {-1} /\ rec.virtio \in Numbers
  <2>1. CASE news # {}
    <3>1. rec \in {[ctrl |-> n, virtio |-> n] : n \in news}
      BY <2>1
    <3> QED
      BY <1>4, <3>1
  <2>2. CASE news = {}
    BY <1>1, <2>2 DEF Typed, FreedSet
  <2> QED
    BY <2>1, <2>2
<1>6. /\ r \in SlotRec /\ r.ctrl = rec.ctrl /\ r.virtio = rec.virtio /\ r.list = <<>>
      /\ Len(r.list) = 0
  <2>1. <<>> \in Seq(Row) /\ Len(<<>>) = 0
    OBVIOUS
  <2> QED
    BY <1>5, <2>1 DEF SlotRec
<1>7. r # NULL
  BY <1>6, RpmsgAssumption
<1>8. slots' = [slots EXCEPT ![s] = r]
  BY <1>2
<1> HIDE DEF r
<1>9. /\ slots' \in [Slots -> SlotRec \cup {NULL}] /\ slots'[s] = r
      /\ \A x \in Slots : x # s => slots'[x] = slots[x]
  BY <1>1, <1>6, <1>8 DEF Typed
<1>10. Loaded' = Loaded \cup {s} /\ s \notin Loaded
  BY <1>1, <1>7, <1>9 DEF Loaded
<1>11. /\ fw' \in [Slots -> FwSet] /\ fw'[s].virtio = v
       /\ \A x \in Slots : x # s => fw'[x] = fw[x]
  <2> DEFINE f == [run |-> TRUE, virtio |-> v]
  <2>1. f \in FwSet /\ f.virtio = v
    BY <1>4 DEF FwSet
  <2>2. fw' = [fw EXCEPT ![s] = f] /\ fw \in [Slots -> FwSet]
    BY <1>1 DEF Typed
  <2> HIDE DEF f
  <2> QED
    BY <2>1, <2>2
<1>12. \A x \in Loaded' : Distinct(slots'[x].list)
  <2>1. Distinct(r.list)
    BY <1>6 DEF Distinct
  <2>2. \A x \in Loaded : x \in Slots /\ x # s /\ Distinct(slots[x].list)
    BY <1>1, <1>10 DEF Typed, Loaded
  <2> QED
    BY <1>9, <1>10, <2>1, <2>2
<1>13. Typed'
  BY <1>1, <1>4, <1>9, <1>11, <1>12 DEF Typed
<1>14. ASSUME InTime
       PROVE  Own' /\ slots'[s].list = <<>>
  <2>1. Own /\ kind = "rpmsg"
    BY <1>14 DEF InTime, RpmsgInv
  <2>2. v = FreeNumber /\ now = ctrls \cup {v}
    BY <2>1
  <2>3. {slots[x].ctrl : x \in Loaded} = ctrls /\ v \notin ctrls
    BY <1>3, <2>1, <2>2 DEF Own, Loaded
  <2>4. news = {v}
    BY <2>2, <2>3 DEF new_ctrl_devs, Loaded
  <2>5. rec.ctrl = v /\ rec.virtio = v
    <3>1. rec \in {[ctrl |-> n, virtio |-> n] : n \in news}
      BY <2>4
    <3>2. PICK n \in news : rec = [ctrl |-> n, virtio |-> n]
      BY <3>1
    <3> QED
      BY <2>4, <3>2
  <2> HIDE DEF v, now, news
  <2>6. /\ \A x \in Slots \ Loaded' : fw'[x].virtio = -1
        /\ \A x \in Loaded' : /\ fw'[x].virtio \in Numbers
                              /\ slots'[x].ctrl = fw'[x].virtio
                              /\ slots'[x].virtio = fw'[x].virtio
    BY <1>3, <1>6, <1>9, <1>10, <1>11, <2>1, <2>2, <2>5 DEF Own, Loaded
  <2>7. \A x, y \in Loaded' : fw'[x].virtio = fw'[y].virtio => x = y
    BY <1>3, <1>10, <1>11, <2>1, <2>2 DEF Own, Loaded
  <2>8. ctrls' = {fw'[x].virtio : x \in Loaded'}
    <3>1. {fw'[x].virtio : x \in Loaded'} = {fw[x].virtio : x \in Loaded} \cup {v}
      BY <1>10, <1>11 DEF Loaded
    <3> QED
      BY <1>1, <2>1, <2>2, <3>1 DEF Own
  <2> QED
    BY <1>6, <1>9, <2>6, <2>7, <2>8 DEF Own
<1>15. Endpoints => Endpoints'
  BY <1>1, <1>6, <1>9, <1>10 DEF Endpoints, HasEndpoints, Loaded
<1> QED
  BY <1>1, <1>13, <1>14, <1>15, SettingKept DEF RpmsgInv

LEMMA UnloadStep ==
    ASSUME RpmsgInv, NEW s \in Slots, unload(s)
    PROVE  RpmsgInv'
<1>1. PICK stopped \in remove_rpu :
         LET v == IF stopped THEN fw[s].virtio ELSE -1
         IN  /\ fw' = IF stopped THEN [fw EXCEPT ![s] = [run |-> FALSE, virtio |-> -1]]
                      ELSE fw
             /\ ctrls' = ctrls \ {v}
             /\ chans' = {x \in chans : x[1] # v}
             /\ epts' = {e \in epts : e.ctrl # v}
  BY DEF unload
<1> DEFINE v == IF stopped THEN fw[s].virtio ELSE -1
<1>2. /\ ctrls' = ctrls \ {v} /\ chans' \subseteq chans /\ epts' \subseteq epts
      /\ \A e \in epts : e.ctrl # v => e \in epts'
  BY <1>1
<1>3. /\ UNCHANGED <<setting, out, changes>> /\ Typed /\ slots[s] # NULL
      /\ slots' = [slots EXCEPT ![s] = NULL]
      /\ freed' = freed \cup {[ctrl |-> slots[s].ctrl, virtio |-> slots[s].virtio]}
  BY DEF unload, RpmsgInv
<1>4. /\ slots' \in [Slots -> SlotRec \cup {NULL}] /\ slots'[s] = NULL
      /\ \A x \in Slots : x # s => slots'[x] = slots[x]
  BY <1>3 DEF Typed
<1>5. Loaded' = Loaded \ {s} /\ s \in Loaded
  BY <1>3, <1>4 DEF Loaded
<1>6. fw' \in [Slots -> FwSet]
  <2> DEFINE f == [run |-> FALSE, virtio |-> -1]
  <2>1. f \in FwSet
    BY DEF FwSet
  <2>2. (fw' = [fw EXCEPT ![s] = f] \/ fw' = fw) /\ fw \in [Slots -> FwSet]
    BY <1>1, <1>3 DEF Typed
  <2> HIDE DEF f
  <2> QED
    BY <2>1, <2>2
<1>7. freed' \subseteq FreedSet
  BY <1>3 DEF Typed, FreedSet, SlotRec
<1>8. IsFiniteSet(epts')
  BY <1>2, <1>3, FS_Subset DEF Typed
<1>9. \A x \in Loaded' : Distinct(slots'[x].list)
  BY <1>3, <1>4, <1>5 DEF Typed, Loaded
<1>10. Typed'
  BY <1>2, <1>3, <1>4, <1>6, <1>7, <1>8, <1>9 DEF Typed
<1>11. ASSUME InTime
       PROVE  Own' /\ (Endpoints => Endpoints')
  <2>1. Own
    BY <1>11 DEF RpmsgInv
  <2>2. stopped = TRUE
    <3>1. ("stop" \notin MayFail) = TRUE
      BY <1>11 DEF InTime
    <3>2. stopped = TRUE \/ stopped = ("stop" \notin MayFail)
      BY Zenon DEF remove_rpu
    <3> QED
      BY <3>1, <3>2, Zenon
  <2>3. v = fw[s].virtio /\ fw' = [fw EXCEPT ![s] = [run |-> FALSE, virtio |-> -1]]
    BY <1>1, <2>2
  <2> HIDE DEF v
  <2>4. fw'[s].virtio = -1 /\ \A x \in Slots : x # s => fw'[x] = fw[x]
    BY <1>3, <2>3 DEF Typed
  <2>5. \A x \in Loaded' : x \in Loaded /\ x # s /\ fw'[x] = fw[x] /\ fw[x].virtio # v
    BY <1>5, <2>1, <2>3, <2>4 DEF Own, Loaded
  <2>6. /\ \A x \in Slots \ Loaded' : fw'[x].virtio = -1
        /\ \A x \in Loaded' : /\ fw'[x].virtio \in Numbers
                              /\ slots'[x].ctrl = fw'[x].virtio
                              /\ slots'[x].virtio = fw'[x].virtio
    BY <1>4, <1>5, <2>1, <2>4, <2>5 DEF Own, Loaded
  <2>7. \A x, y \in Loaded' : fw'[x].virtio = fw'[y].virtio => x = y
    BY <2>1, <2>5 DEF Own
  <2>8. ctrls' = {fw'[x].virtio : x \in Loaded'}
    <3>1. ctrls = {fw[x].virtio : x \in Loaded}
      BY <2>1 DEF Own
    <3>2. \A n \in ctrls' : \E x \in Loaded' : n = fw'[x].virtio
      BY <1>2, <1>5, <2>3, <2>4, <3>1 DEF Loaded
    <3>3. \A x \in Loaded' : fw'[x].virtio \in ctrls'
      BY <1>2, <2>5, <3>1
    <3> QED
      BY <3>2, <3>3
  <2>9. Own'
    BY <2>6, <2>7, <2>8 DEF Own
  <2>10. ASSUME Endpoints, NEW x \in Loaded'
         PROVE  HasEndpoints(slots'[x].list, epts', slots'[x].ctrl)
    <3>1. x \in Loaded /\ slots'[x] = slots[x] /\ slots[x].ctrl # v
      BY <1>4, <2>1, <2>5 DEF Own, Loaded
    <3> QED
      BY <1>2, <2>10, <3>1 DEF Endpoints, HasEndpoints
  <2> QED
    BY <2>9, <2>10 DEF Endpoints
<1> QED
  BY <1>3, <1>10, <1>11, SettingKept DEF RpmsgInv

\* readdir() gives each channel found once.
LEMMA OrderFacts ==
    ASSUME NEW v, NEW order \in SetToSeqs(Found(v))
    PROVE  order \in Seq(Chans) /\ {order[k] : k \in 1 .. Len(order)} = Found(v)
<1> DEFINE F == Found(v)
           n == Cardinality(F)
<1>1. F \subseteq Chans
  BY DEF Found
<1> HIDE DEF F
<1>2. IsFiniteSet(F) /\ n \in Nat
  BY <1>1, RpmsgAssumption, FS_Subset, FS_CardinalityType
<1>3. order \in [1 .. n -> F] /\ \A i, j \in 1 .. n : i # j => order[i] # order[j]
  BY DEF SetToSeqs, F
<1>4. order \in Seq(F) /\ Len(order) = n
  BY <1>2, <1>3
<1>5. order \in Seq(Chans)
  BY <1>1, <1>4, SeqMonotonic
<1>6. order \in Injection(1 .. n, F)
  BY <1>3 DEF Injection, IsInjective
<1>7. Cardinality(1 .. n) = n
  BY <1>2, FS_Interval
<1>8. order \in Surjection(1 .. n, F)
  BY <1>2, <1>6, <1>7, FS_Injection
<1>9. \A c \in F : \E k \in 1 .. n : order[k] = c
  BY <1>8 DEF Surjection
<1>10. {order[k] : k \in 1 .. n} = F
  BY <1>3, <1>9
<1> QED
  BY <1>4, <1>5, <1>10 DEF F

LEMMA RefreshFacts ==
    ASSUME RpmsgInv, NEW s \in Slots, NEW asked, refresh(s, asked)
    PROVE  \E t : /\ UpdInv(t, slots[s].list, slots[s].ctrl, Found(slots[s].virtio))
                  /\ slots' = [slots EXCEPT ![s].list = delete_inactive(t)]
                  /\ epts' = t.epts
                  /\ out' = [slot |-> s, asked |-> asked, failed |-> t.failed,
                             rows |-> {r \in ToSet(delete_inactive(t)) : r.chan \in asked}]
<1>1. PICK order \in SetToSeqs(Found(slots[s].virtio)),
           failed \in IF "setup" \in MayFail THEN SUBSET Found(slots[s].virtio) ELSE {{}} :
        LET t == update_rpmsg_dev_list(slots[s], order, failed)
        IN  /\ slots' = [slots EXCEPT ![s].list = delete_inactive(t)]
            /\ epts' = t.epts
            /\ out' = [slot |-> s, asked |-> asked, failed |-> t.failed,
                       rows |-> {r \in ToSet(delete_inactive(t)) : r.chan \in asked}]
  BY DEF refresh
<1>2. /\ Typed /\ slots[s] \in SlotRec /\ Distinct(slots[s].list)
  BY DEF refresh, RpmsgInv, Typed, Loaded
<1>3. order \in Seq(Chans) /\ {order[k] : k \in 1 .. Len(order)} = Found(slots[s].virtio)
  BY OrderFacts
<1>4. failed \subseteq Chans
  BY DEF Found
<1>5. UpdInv(update_rpmsg_dev_list(slots[s], order, failed), slots[s].list, slots[s].ctrl,
             {order[k] : k \in 1 .. Len(order)})
  BY <1>2, <1>3, <1>4, UpdateInv DEF Typed
<1>6. UpdInv(update_rpmsg_dev_list(slots[s], order, failed), slots[s].list, slots[s].ctrl,
             Found(slots[s].virtio))
  BY <1>3, <1>5
<1> QED
  BY <1>1, <1>6

LEMMA RefreshStep ==
    ASSUME RpmsgInv, NEW s \in Slots, NEW asked, refresh(s, asked)
    PROVE  RpmsgInv'
<1>1. PICK t : /\ UpdInv(t, slots[s].list, slots[s].ctrl, Found(slots[s].virtio))
               /\ slots' = [slots EXCEPT ![s].list = delete_inactive(t)]
               /\ epts' = t.epts
  BY RefreshFacts
<1>2. /\ UNCHANGED <<setting, fw, ctrls, chans, freed, changes>> /\ Typed
      /\ slots[s] # NULL /\ slots \in [Slots -> SlotRec \cup {NULL}] /\ slots[s] \in SlotRec
  BY DEF refresh, RpmsgInv, Typed
<1> DEFINE L == delete_inactive(t)
           r == [slots[s] EXCEPT !.list = L]
<1>3. /\ t \in UpdSet /\ t.active \subseteq 1 .. Len(t.list) /\ Distinct(t.list)
      /\ IsFiniteSet(t.epts) /\ epts \subseteq t.epts /\ t.epts \subseteq EptSet
  BY <1>1 DEF UpdInv, UpdSet
<1>4. /\ L \in Seq(Row) /\ Distinct(L)
      /\ \A i \in 1 .. Len(L) : \E k \in t.active : L[i] = t.list[k]
  BY <1>3, DeleteFacts
<1> HIDE DEF L
<1>5. /\ r \in SlotRec /\ r.list = L /\ r.ctrl = slots[s].ctrl
      /\ r.virtio = slots[s].virtio
  BY <1>2, <1>4 DEF SlotRec
<1>6. r # NULL
  BY <1>5, RpmsgAssumption
<1>7. slots' = [slots EXCEPT ![s] = r]
  BY <1>1 DEF L
<1> HIDE DEF r
<1>8. /\ slots' \in [Slots -> SlotRec \cup {NULL}] /\ slots'[s] = r
      /\ \A x \in Slots : x # s => slots'[x] = slots[x]
  BY <1>2, <1>5, <1>7
<1>9. Loaded' = Loaded /\ s \in Loaded
  BY <1>2, <1>6, <1>8 DEF Loaded
<1>10. \A x \in Loaded' : Distinct(slots'[x].list)
  BY <1>2, <1>4, <1>5, <1>8, <1>9 DEF Typed, Loaded
<1>11. Typed'
  BY <1>1, <1>2, <1>3, <1>8, <1>10 DEF Typed
<1>12. Own => Own'
  <2>1. \A x \in Slots : slots'[x] = slots[x]
           \/ (slots'[x].ctrl = slots[x].ctrl /\ slots'[x].virtio = slots[x].virtio)
    BY <1>5, <1>8
  <2> QED
    BY <1>2, <1>9, <2>1 DEF Own, Loaded
<1>13. ASSUME IsInjective(Service), Endpoints, NEW x \in Loaded
       PROVE  HasEndpoints(slots'[x].list, epts', slots'[x].ctrl)
  <2>1. HasEndpoints(slots[x].list, epts, slots[x].ctrl)
    BY <1>13 DEF Endpoints
  <2>2. CASE x = s
    <3>1. HasEndpoints(t.list, t.epts, slots[s].ctrl)
      BY <1>1, <1>13, <2>1, <2>2 DEF UpdInv
    <3>2. HasEndpoints(L, t.epts, slots[s].ctrl)
      BY <1>3, <1>4, <3>1 DEF HasEndpoints
    <3> QED
      BY <1>1, <1>5, <1>8, <2>2, <3>2
  <2>3. CASE x # s
    BY <1>1, <1>3, <1>8, <2>1, <2>3 DEF HasEndpoints, Loaded
  <2> QED
    BY <2>2, <2>3
<1>14. IsInjective(Service) /\ Endpoints => Endpoints'
  BY <1>9, <1>13 DEF Endpoints
<1> QED
  BY <1>2, <1>11, <1>12, <1>14, SettingKept DEF RpmsgInv

LEMMA ChansTyped ==
    ASSUME RpmsgInv
    PROVE  setting.chans \subseteq Chans
BY RpmsgAssumption DEF RpmsgInv, Typed, Setting

LEMMA NextInv == RpmsgInv /\ [Next]_vars => RpmsgInv'
<1> SUFFICES ASSUME RpmsgInv, [Next]_vars
             PROVE  RpmsgInv'
  OBVIOUS
<1>1. CASE UNCHANGED vars
  <2>1. UNCHANGED <<setting, fw, ctrls, chans, epts, slots, freed, changes>>
    BY <1>1 DEF vars
  <2>2. Loaded' = Loaded
    BY <2>1 DEF Loaded
  <2>3. Typed => Typed'
    BY <2>1, <2>2 DEF Typed
  <2>4. (Own => Own') /\ (Endpoints => Endpoints')
    BY <2>1, <2>2 DEF Own, Endpoints
  <2> QED
    BY <2>1, <2>3, <2>4, SettingKept DEF RpmsgInv
<1>2. CASE \E s \in Slots : announce(s)
  BY <1>2, AnnounceStep
<1>3. CASE \E s \in Slots, c \in setting.chans : new_channel(s, c) \/ del_channel(s, c)
  BY <1>3, ChansTyped, ChannelStep
<1>4. CASE \E s \in Slots, kind \in setting.firmware : load(s, kind)
  BY <1>4, LoadStep
<1>5. CASE \E s \in Slots : unload(s)
  BY <1>5, UnloadStep
<1>6. CASE \E s \in Slots : list_accel_uio(s)
  BY <1>6, RefreshStep DEF list_accel_uio
<1>7. CASE \E s \in Slots, name \in setting.chans : get_accel_uio_by_name(s, name)
  BY <1>7, RefreshStep DEF get_accel_uio_by_name
<1> QED
  BY <1>1, <1>2, <1>3, <1>4, <1>5, <1>6, <1>7 DEF Next

LEMMA RpmsgInvariant == Spec => []RpmsgInv
BY InitInv, NextInv, PTL DEF Spec

-----------------------------------------------------------------------------
(* The theorems.                                                           *)

LEMMA TypesFollow == RpmsgInv => TypeOK
<1> SUFFICES ASSUME RpmsgInv
             PROVE  TypeOK
  OBVIOUS
<1>1. Typed
  BY DEF RpmsgInv
<1>2. \A e \in epts : e.n \in Nat /\ e.ctrl \in Numbers /\ e.chan \in Chans
  BY <1>1 DEF Typed, EptSet
<1>3. ASSUME NEW s \in Slots, slots[s] # NULL
      PROVE  /\ slots[s] \in SlotRec
             /\ IsInjective([i \in DOMAIN slots[s].list |-> slots[s].list[i].chan])
  <2>1. slots[s] \in SlotRec /\ Distinct(slots[s].list)
    BY <1>1, <1>3 DEF Typed, Loaded
  <2>2. DOMAIN slots[s].list = 1 .. Len(slots[s].list)
    BY <2>1 DEF SlotRec
  <2> QED
    BY <2>1, <2>2 DEF Distinct, IsInjective
<1> QED
  BY <1>1, <1>2, <1>3 DEF Typed, TypeOK, FwSet

\* Every variable keeps its type, and no slot's list has a channel twice.
THEOREM RpmsgTypes == Spec => []TypeOK
BY RpmsgInvariant, TypesFollow, PTL

LEMMA OwnFollows == RpmsgInv => OwnDevices
BY DEF RpmsgInv, Own, Loaded, OwnDevices

\* A slot's number is that of its own firmware where all firmware makes its
\* control device in time (get_new_rpmsg_ctrl_dev()).
THEOREM DevicesOwn == Spec => []OwnDevices
BY RpmsgInvariant, OwnFollows, PTL

LEMMA EndpointsFollow == RpmsgInv => EndpointOfChannel
<1> SUFFICES ASSUME RpmsgInv, InTime, IsInjective(Service), NEW s \in Slots, slots[s] # NULL,
                    NEW i \in DOMAIN slots[s].list
             PROVE  \E e \in epts : /\ e.n = slots[s].list[i].ept
                                    /\ e.chan = slots[s].list[i].chan
                                    /\ e.ctrl = slots[s].virtio
  BY DEF EndpointOfChannel
<1>1. s \in Loaded /\ Own /\ Endpoints /\ slots[s] \in SlotRec
  BY DEF RpmsgInv, Typed, Loaded
<1>2. slots[s].ctrl = slots[s].virtio
  BY <1>1 DEF Own
<1>3. i \in 1 .. Len(slots[s].list)
  BY <1>1 DEF SlotRec
<1> QED
  BY <1>1, <1>2, <1>3 DEF Endpoints, HasEndpoints

\* The device a slot keeps for a channel is an endpoint of that channel on the
\* slot's own control device (setup_rpmsg_ept_dev()).
THEOREM EndpointsOfChannels == Spec => []EndpointOfChannel
BY RpmsgInvariant, EndpointsFollow, PTL

LEMMA ListStep ==
    ASSUME RpmsgInv, [Next]_vars, out' # out, Prefix = {}
    PROVE  Current(out')
<1>1. PICK s \in Slots : \E asked : refresh(s, asked)
  BY DEF Next, vars, announce, new_channel, del_channel, load, unload, list_accel_uio,
         get_accel_uio_by_name
<1>2. PICK asked : refresh(s, asked)
  BY <1>1
<1>3. PICK t : /\ UpdInv(t, slots[s].list, slots[s].ctrl, Found(slots[s].virtio))
               /\ out' = [slot |-> s, asked |-> asked, failed |-> t.failed,
                          rows |-> {r \in ToSet(delete_inactive(t)) : r.chan \in asked}]
  BY <1>2, RefreshFacts
<1> DEFINE L == delete_inactive(t)
           F == Found(slots[s].virtio)
           C == {r.chan : r \in out'.rows}
<1>4. t \in UpdSet /\ t.active \subseteq 1 .. Len(t.list)
  BY <1>3 DEF UpdInv
<1>5. /\ L \in Seq(Row)
      /\ \A i \in 1 .. Len(L) : \E k \in t.active : L[i] = t.list[k]
      /\ \A k \in t.active : \E i \in 1 .. Len(L) : L[i] = t.list[k]
  BY <1>4, DeleteFacts
<1>6. /\ \A i \in t.active : t.list[i].chan \in F
      /\ \A c \in F : c \in t.failed \/ \E i \in t.active : t.list[i].chan = c
  BY <1>3 DEF UpdInv
<1>7. /\ out'.slot = s /\ out'.asked = asked /\ out'.failed = t.failed
      /\ out'.rows = {r \in ToSet(L) : r.chan \in asked}
  BY <1>3
<1> HIDE DEF L, F
<1>8. ToSet(L) = {L[i] : i \in 1 .. Len(L)}
  BY <1>5 DEF ToSet
<1>9. C \subseteq F \cap asked
  BY <1>5, <1>6, <1>7, <1>8
<1>10. ASSUME NEW c \in (F \cap asked) \ t.failed
       PROVE  c \in C
  <2>1. PICK k \in t.active : t.list[k].chan = c
    BY <1>6
  <2>2. PICK i \in 1 .. Len(L) : L[i] = t.list[k]
    BY <1>5
  <2>3. L[i] \in out'.rows
    BY <1>7, <1>8, <2>1, <2>2
  <2> QED
    BY <2>1, <2>2, <2>3
<1> QED
  BY <1>7, <1>9, <1>10 DEF F, Current

\* A reply names exactly the channels asked for that are there, but for those
\* that could not be set up (update_rpmsg_dev_list(), delete_inactive()).
THEOREM ListsCurrent == Spec => ListCurrent
<1> DEFINE A == out' # out /\ Prefix = {} => Current(out')
<1>1. RpmsgInv /\ [Next]_vars => [A]_vars
  BY ListStep
<1>2. Spec => [][A]_vars
  <2> HIDE DEF A
  <2> QED
    BY <1>1, RpmsgInvariant, PTL DEF Spec
<1> QED
  BY <1>2 DEF ListCurrent
=============================================================================
