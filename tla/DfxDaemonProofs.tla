-------------------------- MODULE DfxDaemonProofs --------------------------
(***************************************************************************)
(* Theorems about DfxDaemon for every set of packages, every table size    *)
(* and every number of handles.                                            *)
(***************************************************************************)
EXTENDS DfxDaemon, FiniteSetTheorems, TLAPS

-----------------------------------------------------------------------------
(* The constants.                                                          *)

\* The table splits into packages and user entries; NoBase and NoHandle are
\* neither an index nor a handle.
LEMMA Constants ==
    /\ Pkgs \subseteq Table /\ UserIdx \subseteq Table
    /\ Pkgs \cap UserIdx = {}
    /\ Table \subseteq Nat /\ NoBase \notin Table /\ NoBase \in Int
    /\ Handles \subseteq Nat /\ NoHandle \notin Handles /\ NoHandle \in Int
    /\ SlotIds \subseteq Nat
    /\ Unknown \notin Table /\ Unknown # NoBase /\ Unknown \in Int
    /\ IsFiniteSet(SlotIds) /\ IsFiniteSet(UserIdx)
  <1>1. IsFiniteSet(SlotIds) /\ IsFiniteSet(UserIdx)
    BY FS_Interval, TableAssumption DEF SlotIds, UserIdx
  <1>2. QED
    BY <1>1, TableAssumption
       DEF Pkgs, UserIdx, Table, NoBase, Handles, NoHandle, SlotIds, Unknown

\* Package b's slots are among SlotIds, and a flat package has slot 0.
LEMMA PkgFacts ==
    ASSUME NEW b \in Pkgs
    PROVE  /\ Pkg[b].name \in Names
           /\ SlotsOf(b) \subseteq SlotIds
           /\ IsFlat(b) \/ IsDfx(b) \/ IsRpu(b)
           /\ ~(IsFlat(b) /\ IsDfx(b)) /\ ~(IsRpu(b) /\ (IsFlat(b) \/ IsDfx(b)))
           /\ IsFlat(b) => 0 \in SlotsOf(b)
           /\ \A i \in Nat : i < Pkg[b].num_pl_slots => i \in SlotsOf(b)
           /\ \A j \in DOMAIN Pkg[b].accel_list :
                 /\ Pkg[b].accel_list[j].name \in Names
                 /\ Pkg[b].accel_list[j].slot_num \in Int
  <1>1. /\ Pkg[b].name \in Names
        /\ Pkg[b].num_pl_slots \in Nat /\ Pkg[b].num_aie_slots \in Nat
        /\ NumSlots(b) <= SlotsMax
        /\ IsFlat(b) => Pkg[b].num_pl_slots = 1
        /\ Pkg[b].type \in {"FLAT", "PL_DFX", "RPU"}
        /\ \A j \in DOMAIN Pkg[b].accel_list :
                 /\ Pkg[b].accel_list[j].name \in Names
                 /\ Pkg[b].accel_list[j].slot_num \in Int
    BY PkgAssumption
  <1>2. SlotsMax \in Nat
    BY TableAssumption
  <1>3. QED
    BY <1>1, <1>2 DEF NumSlots, SlotsOf, SlotIds, IsFlat, IsDfx, IsRpu

\* What programming a bitstream can leave behind.
LEMMA ProgrammedType ==
    ASSUME NEW ov \in SUBSET OverlayDirs, NEW dir \in OverlayDirs \cup {NULL},
           NEW was, NEW target, NEW lost,
           NEW o \in Programmed(ov, dir, was, target, lost)
    PROVE  /\ o.overlays \in SUBSET OverlayDirs
           /\ o.fabric \in {was, target, lost}
  <1> DEFINE made == ov \cup ({dir} \ {NULL})
  <1>1. made \in SUBSET OverlayDirs
    OBVIOUS
  <1>2. CASE dir \in ov
    BY <1>2 DEF Programmed
  <1>3. CASE dir \notin ov
    <2>1. \/ o = [ok |-> TRUE, overlays |-> made, fabric |-> target]
          \/ o \in [ok: {FALSE}, overlays: {ov, made}, fabric: {was, lost}]
      BY <1>3 DEF Programmed
    <2>2. CASE o = [ok |-> TRUE, overlays |-> made, fabric |-> target]
      BY <2>2, <1>1
    <2>3. CASE o \in [ok: {FALSE}, overlays: {ov, made}, fabric: {was, lost}]
      <3>1. o.overlays \in {ov, made} /\ o.fabric \in {was, lost}
        BY <2>3
      <3>2. QED
        BY <3>1, <1>1
    <2>4. QED
      BY <2>1, <2>2, <2>3
  <1>4. QED
    BY <1>2, <1>3

LEMMA ProgramFullType ==
    ASSUME TypeOK, NEW dir \in OverlayDirs \cup {NULL}, NEW target,
           NEW o \in ProgramFull(dir, target)
    PROVE  /\ o.overlays \in SUBSET OverlayDirs
           /\ o.fabric \in {fabric, target, Unknown}
  <1>1. overlays \in SUBSET OverlayDirs
    BY DEF TypeOK
  <1>2. o \in Programmed(overlays, dir, fabric, target, Unknown)
    BY DEF ProgramFull
  <1>3. QED
    BY <1>1, <1>2, ProgrammedType, Zenon

LEMMA ProgramPartialType ==
    ASSUME NEW ov \in SUBSET OverlayDirs, NEW dir \in OverlayDirs \cup {NULL},
           NEW f, NEW o \in ProgramPartial(ov, dir, f)
    PROVE  /\ o.overlays \in SUBSET OverlayDirs
           /\ o.fabric = f
  <1>1. o \in Programmed(ov, dir, f, f, f)
    BY DEF ProgramPartial
  <1>2. o.overlays \in SUBSET OverlayDirs /\ o.fabric \in {f, f, f}
    BY <1>1, ProgrammedType, Zenon
  <1>3. QED
    BY <1>2

LEMMA RemovedType ==
    ASSUME NEW ov \in SUBSET OverlayDirs, NEW dir,
           NEW o \in remove_overlay_dir(ov, dir)
    PROVE  o \in SUBSET OverlayDirs
  BY DEF remove_overlay_dir

SlotTable == [Pkgs -> [SlotIds -> SlotInfo \cup {NULL}]]

LEMMA FreeSlotsType ==
    ASSUME NEW s \in SlotTable, NEW e
    PROVE  free_slots(s, e) \in SlotTable
  BY DEF free_slots, SlotTable

LEMMA AssignType ==
    ASSUME NEW s \in SlotTable, NEW b \in Pkgs, NEW i \in SlotIds,
           NEW name \in Names, NEW h \in Handles \cup {NoHandle}
    PROVE  assign_slot(s, b, i, name, h) \in SlotTable
  BY DEF assign_slot, SlotTable, SlotInfo

LEMMA TakenType ==
    ASSUME TypeOK, NEW h \in Handles \cup {NoHandle}
    PROVE  Taken(h) \subseteq Handles
  BY DEF Taken, TypeOK

LEMMA OverlayDirType ==
    ASSUME NEW name \in Names, NEW dtbo
    PROVE  OverlayDir(name, dtbo) \in OverlayDirs \cup {NULL}
  BY DEF OverlayDir, OverlayDirs

\* Outcomes of loading a base design.
LEMMA BaseOutcomesType ==
    ASSUME TypeOK, NEW b \in Pkgs, NEW o \in BaseOutcomes(b)
    PROVE  /\ o.overlays \in SUBSET OverlayDirs
           /\ o.fabric \in {fabric, b, Unknown}
           /\ o.fabric \in Table \cup {NoBase, Unknown}
  <1>0. b \in Table /\ overlays \in SUBSET OverlayDirs
        /\ fabric \in Table \cup {NoBase, Unknown}
    BY Constants DEF TypeOK
  <1>1. OverlayDir(Pkg[b].name, Pkg[b].dtbo) \in OverlayDirs \cup {NULL}
    BY OverlayDirType, PkgFacts
  <1>2. CASE NeedsBase(active_base, b) /\ Pkg[b].load_base_design
    <2>1. o \in ProgramFull(OverlayDir(Pkg[b].name, Pkg[b].dtbo), b)
      BY <1>2 DEF BaseOutcomes
    <2>2. o.overlays \in SUBSET OverlayDirs /\ o.fabric \in {fabric, b, Unknown}
      BY <1>1, <2>1, ProgramFullType, Zenon
    <2>3. QED
      BY <1>0, <2>2
  <1>3. CASE ~(NeedsBase(active_base, b) /\ Pkg[b].load_base_design)
    BY <1>0, <1>3 DEF BaseOutcomes
  <1>4. QED
    BY <1>2, <1>3

\* The active base of the package's kind, before and after a load.
LEMMA SwitchToType ==
    ASSUME NEW cur, NEW b
    PROVE  SwitchTo(cur, b) \in {cur, b}
  BY DEF SwitchTo

LEMMA RefuseType ==
    ASSUME TypeOK, NEW code \in Int, refuse(code)
    PROVE  TypeOK'
  BY DEF TypeOK, refuse

LEMMA LoadFlatType ==
    ASSUME TypeOK, NEW b \in Pkgs, IsFlat(b), load_flat_busy(b) \/ load_flat(b)
    PROVE  TypeOK'
  <1>1. CASE load_flat_busy(b)
    BY <1>1 DEF load_flat_busy, TypeOK, NO_EMPTY_SLOT
  <1>2. CASE load_flat(b)
    <2>1. PICK o \in ProgramFull(OverlayDir(Pkg[b].name, Pkg[b].dtbo), b) :
            /\ overlays' = o.overlays /\ fabric' = o.fabric
            /\ \/ /\ active' = [active EXCEPT ![b] = 0]
                  /\ reply' = LOAD_ERROR
                  /\ UNCHANGED <<active_base, slots, used_handles>>
               \/ /\ active_base' = b
                  /\ active' = [active EXCEPT ![b] = @ + 1]
                  /\ \E h \in Handles \cup {NoHandle} :
                       /\ slots' = assign_slot(slots, b, 0, Pkg[b].name, h)
                       /\ used_handles' = Taken(h)
                       /\ reply' = h
      BY <1>2 DEF load_flat
    <2>2. /\ overlays' \in SUBSET OverlayDirs
          /\ fabric' \in Table \cup {NoBase, Unknown}
      <3>1. OverlayDir(Pkg[b].name, Pkg[b].dtbo) \in OverlayDirs \cup {NULL}
        BY OverlayDirType, PkgFacts
      <3>2. /\ o.overlays \in SUBSET OverlayDirs
            /\ o.fabric \in {fabric, b, Unknown}
        BY <3>1, ProgramFullType, Zenon
      <3>3. b \in Table /\ fabric \in Table \cup {NoBase, Unknown}
        BY Constants DEF TypeOK
      <3>4. QED
        BY <2>1, <3>2, <3>3
    <2>3. /\ slots_alloc' = slots_alloc \cup {b}
          /\ UNCHANGED <<active_rpu_base, user>>
      BY <1>2 DEF load_flat
    <2>4. b \in Table /\ 0 \in SlotIds /\ ~IsRpu(b)
      BY PkgFacts, Constants
    <2>5. CASE /\ active' = [active EXCEPT ![b] = 0]
               /\ reply' = LOAD_ERROR
               /\ UNCHANGED <<active_base, slots, used_handles>>
      BY <2>2, <2>3, <2>4, <2>5 DEF TypeOK, LOAD_ERROR
    <2>6. CASE /\ active_base' = b
               /\ active' = [active EXCEPT ![b] = @ + 1]
               /\ \E h \in Handles \cup {NoHandle} :
                       /\ slots' = assign_slot(slots, b, 0, Pkg[b].name, h)
                       /\ used_handles' = Taken(h)
                       /\ reply' = h
      <3>1. PICK h \in Handles \cup {NoHandle} :
                       /\ slots' = assign_slot(slots, b, 0, Pkg[b].name, h)
                       /\ used_handles' = Taken(h)
                       /\ reply' = h
        BY <2>6
      <3>2. slots' \in SlotTable /\ used_handles' \subseteq Handles /\ reply' \in Int
        <4>1. slots \in SlotTable
          BY DEF TypeOK, SlotTable
        <4>2. slots' \in SlotTable
          BY <4>1, <3>1, <2>4, AssignType, PkgFacts
        <4>3. used_handles' \subseteq Handles /\ reply' \in Int
          BY <3>1, TakenType, Constants
        <4>4. QED
          BY <4>2, <4>3
      <3>3. active' \in [Table -> Int]
        BY <2>4, <2>6 DEF TypeOK
      <3>4. QED
        BY <2>2, <2>3, <2>4, <2>6, <3>2, <3>3 DEF TypeOK, SlotTable
    <2>7. QED
      BY <2>1, <2>5, <2>6
  <1>3. QED
    BY <1>1, <1>2


LEMMA BumpType ==
    ASSUME NEW f \in [Table -> Int], NEW x, NEW d \in Int
    PROVE  /\ [f EXCEPT ![x] = @ + d] \in [Table -> Int]
           /\ [f EXCEPT ![x] = @ - d] \in [Table -> Int]
  <1>1. CASE x \in Table
    <2>1. f[x] + d \in Int /\ f[x] - d \in Int
      BY <1>1
    <2>2. QED
      BY <2>1
  <1>2. CASE x \notin Table
    BY <1>2
  <1>3. QED
    BY <1>1, <1>2

LEMMA AllocAfterType ==
    ASSUME TypeOK, NEW b \in Pkgs, NEW cur
    PROVE  AllocAfter(cur, b) \subseteq Pkgs
  BY DEF TypeOK, AllocAfter

LEMMA AccelType ==
    ASSUME NEW b \in Pkgs, NEW j \in DOMAIN Pkg[b].accel_list
    PROVE  /\ Pkg[b].accel_list[j].name \in Names
           /\ Pkg[b].accel_list[j].slot_num \in Int
  BY PkgFacts

LEMMA LoadDfxType ==
    ASSUME TypeOK, NEW b \in Pkgs, IsDfx(b),
           NEW a, a.name \in Names,
           \/ load_dfx_mismatch(b) \/ load_dfx_base_fails(b)
           \/ load_dfx_slot_fails(b, a) \/ load_dfx(b, a)
    PROVE  TypeOK'
  <1>1. CASE load_dfx_mismatch(b)
    BY <1>1 DEF load_dfx_mismatch, TypeOK, LOAD_ERROR
  <1>2. b \in Table /\ ~IsRpu(b)
    BY Constants, PkgFacts, IsDfx(b)
  <1>3. slots \in SlotTable
    BY DEF TypeOK, SlotTable
  <1>4. SwitchTo(active_base, b) \in {active_base, b}
    BY SwitchToType
  <1>5. free_slots(slots, Evicted(active_base, b)) \in SlotTable
    BY <1>3, FreeSlotsType, Zenon
  <1>6. AllocAfter(active_base, b) \subseteq Pkgs
    BY AllocAfterType
  <1>7. OverlayDir(a.name, a.dtbo) \in OverlayDirs \cup {NULL}
    BY OverlayDirType, Zenon
  <1>8. CASE load_dfx_base_fails(b)
    <2>1. PICK o \in BaseOutcomes(b) : overlays' = o.overlays /\ fabric' = o.fabric
      BY <1>8 DEF load_dfx_base_fails
    <2>2. /\ overlays' \in SUBSET OverlayDirs
          /\ fabric' \in Table \cup {NoBase, Unknown}
      BY <2>1, BaseOutcomesType
    <2>3. /\ active_base' = NoBase
          /\ slots' = free_slots(slots, Evicted(active_base, b))
          /\ slots_alloc' = slots_alloc \ {Evicted(active_base, b)}
          /\ active' = [active EXCEPT ![b] = 0]
          /\ reply' = LOAD_ERROR
          /\ UNCHANGED <<active_rpu_base, used_handles, user>>
      BY <1>8 DEF load_dfx_base_fails
    <2>4. slots' \in SlotTable
      BY <2>3, <1>5
    <2>5. active' \in [Table -> Int]
      BY <2>3, <1>2 DEF TypeOK
    <2>6. QED
      BY <2>2, <2>3, <2>4, <2>5 DEF TypeOK, SlotTable, LOAD_ERROR
  <1>9. CASE load_dfx_slot_fails(b, a)
    <2>1. PICK o \in BaseOutcomes(b) :
            /\ fabric' = o.fabric
            /\ \/ overlays' = o.overlays
               \/ \E p \in ProgramPartial(o.overlays,
                                          OverlayDir(a.name, a.dtbo), o.fabric) :
                     overlays' = p.overlays
            /\ reply' \in {LOAD_ERROR, NO_EMPTY_SLOT}
      BY <1>9 DEF load_dfx_slot_fails
    <2>2. /\ o.overlays \in SUBSET OverlayDirs
          /\ fabric' \in Table \cup {NoBase, Unknown}
      BY <2>1, BaseOutcomesType
    <2>3. overlays' \in SUBSET OverlayDirs
      <3>1. CASE overlays' = o.overlays
        BY <3>1, <2>2
      <3>2. CASE \E p \in ProgramPartial(o.overlays,
                                         OverlayDir(a.name, a.dtbo), o.fabric) :
                     overlays' = p.overlays
        BY <3>2, <2>2, <1>7, ProgramPartialType, Zenon
      <3>3. QED
        BY <2>1, <3>1, <3>2
    <2>4. /\ active_base' = SwitchTo(active_base, b)
          /\ slots' = free_slots(slots, Evicted(active_base, b))
          /\ slots_alloc' = AllocAfter(active_base, b)
          /\ UNCHANGED <<active_rpu_base, active, used_handles, user>>
      BY <1>9 DEF load_dfx_slot_fails
    <2>5. slots' \in SlotTable
      BY <2>4, <1>5
    <2>6. reply' \in Int
      BY <2>1 DEF LOAD_ERROR, NO_EMPTY_SLOT
    <2>7. QED
      BY <2>2, <2>3, <2>4, <2>5, <2>6, <1>2, <1>4, <1>6 DEF TypeOK, SlotTable
  <1>10. CASE load_dfx(b, a)
    <2>1. PICK o \in BaseOutcomes(b) :
            /\ fabric' = o.fabric
            /\ \E p \in ProgramPartial(o.overlays,
                                       OverlayDir(a.name, a.dtbo), o.fabric) :
                  overlays' = p.overlays
      BY <1>10 DEF load_dfx
    <2>2. /\ o.overlays \in SUBSET OverlayDirs
          /\ fabric' \in Table \cup {NoBase, Unknown}
      BY <2>1, BaseOutcomesType
    <2>3. overlays' \in SUBSET OverlayDirs
      BY <2>1, <2>2, <1>7, ProgramPartialType, Zenon
    <2>4. PICK i \in SlotIds, h \in Handles \cup {NoHandle} :
            /\ slots' = assign_slot(free_slots(slots, Evicted(active_base, b)),
                                    b, i, a.name, h)
            /\ used_handles' = Taken(h)
            /\ reply' = h
      BY <1>10 DEF load_dfx
    <2>5. slots' \in SlotTable
      BY <2>4, <1>5, AssignType, Zenon
    <2>6. used_handles' \subseteq Handles /\ reply' \in Int
      BY <2>4, TakenType, Constants
    <2>7. /\ active_base' = SwitchTo(active_base, b)
          /\ slots_alloc' = AllocAfter(active_base, b)
          /\ active' = [active EXCEPT ![SwitchTo(active_base, b)] = @ + 1]
          /\ UNCHANGED <<active_rpu_base, user>>
      BY <1>10 DEF load_dfx
    <2>8. active' \in [Table -> Int]
      <3>1. active \in [Table -> Int]
        BY DEF TypeOK
      <3>2. QED
        BY <3>1, <2>7, BumpType
    <2>9. QED
      BY <2>2, <2>3, <2>5, <2>6, <2>7, <2>8, <1>2, <1>4, <1>6 DEF TypeOK, SlotTable
  <1>11. QED
    BY <1>1, <1>8, <1>9, <1>10

LEMMA LoadRpuType ==
    ASSUME TypeOK, NEW b \in Pkgs, IsRpu(b),
           NEW a, a.name \in Names,
           rpu_mismatch(b) \/ rpu_slot_fails(b, a) \/ load_rpu_slot(b, a)
    PROVE  TypeOK'
  <1>1. CASE rpu_mismatch(b)
    BY <1>1 DEF rpu_mismatch, TypeOK, LOAD_ERROR
  <1>2. slots \in SlotTable
    BY DEF TypeOK, SlotTable
  <1>3. SwitchTo(active_rpu_base, b) \in {active_rpu_base, b}
    BY SwitchToType
  <1>4. free_slots(slots, Evicted(active_rpu_base, b)) \in SlotTable
    BY <1>2, FreeSlotsType, Zenon
  <1>5. AllocAfter(active_rpu_base, b) \subseteq Pkgs
    BY AllocAfterType
  <1>6. CASE rpu_slot_fails(b, a)
    <2>1. /\ reply' \in Int
          /\ active_rpu_base' = SwitchTo(active_rpu_base, b)
          /\ slots' = free_slots(slots, Evicted(active_rpu_base, b))
          /\ slots_alloc' = AllocAfter(active_rpu_base, b)
          /\ UNCHANGED <<active_base, active, used_handles, user, overlays, fabric>>
      BY <1>6 DEF rpu_slot_fails, LOAD_ERROR, NO_EMPTY_SLOT
    <2>2. slots' \in SlotTable
      BY <2>1, <1>4
    <2>3. QED
      BY <2>1, <2>2, <1>3, <1>5, IsRpu(b) DEF TypeOK, SlotTable
  <1>7. CASE load_rpu_slot(b, a)
    <2>1. PICK i \in SlotIds, h \in Handles \cup {NoHandle} :
            /\ slots' = assign_slot(free_slots(slots, Evicted(active_rpu_base, b)),
                                    b, i, a.name, h)
            /\ used_handles' = Taken(h)
            /\ active' = IF h >= 0
                         THEN [active EXCEPT ![SwitchTo(active_rpu_base, b)] = @ + 1]
                         ELSE active
            /\ reply' = h
      BY <1>7 DEF load_rpu_slot
    <2>2. /\ active_rpu_base' = SwitchTo(active_rpu_base, b)
          /\ slots_alloc' = AllocAfter(active_rpu_base, b)
          /\ UNCHANGED <<active_base, user, overlays, fabric>>
      BY <1>7 DEF load_rpu_slot
    <2>3. slots' \in SlotTable
      BY <2>1, <1>4, AssignType, Zenon
    <2>4. used_handles' \subseteq Handles /\ reply' \in Int
      BY <2>1, TakenType, Constants
    <2>5. active' \in [Table -> Int]
      <3>1. active \in [Table -> Int]
        BY DEF TypeOK
      <3>2. QED
        BY <3>1, <2>1, BumpType
    <2>6. QED
      BY <2>2, <2>3, <2>4, <2>5, <1>3, <1>5, IsRpu(b) DEF TypeOK, SlotTable
  <1>8. QED
    BY <1>1, <1>6, <1>7

LEMMA CoreType ==
    ASSUME TypeOK, NEW b \in Pkgs, NEW name, load_accelerator_core(b, name)
    PROVE  TypeOK'
  <1>1. LOAD_ERROR \in Int
    BY DEF LOAD_ERROR
  <1>2. CASE refuse(LOAD_ERROR)
    BY <1>1, <1>2, RefuseType
  <1>3. CASE IsFlat(b) /\ (load_flat_busy(b) \/ load_flat(b))
    BY <1>3, LoadFlatType
  <1>4. CASE IsDfx(b) /\ \E j \in DOMAIN Pkg[b].accel_list :
               \/ load_dfx_mismatch(b) \/ load_dfx_base_fails(b)
               \/ load_dfx_slot_fails(b, Pkg[b].accel_list[j])
               \/ load_dfx(b, Pkg[b].accel_list[j])
    BY <1>4, AccelType, LoadDfxType, Zenon
  <1>5. CASE IsRpu(b) /\ \E j \in DOMAIN Pkg[b].accel_list :
               \/ rpu_mismatch(b) \/ rpu_slot_fails(b, Pkg[b].accel_list[j])
               \/ load_rpu_slot(b, Pkg[b].accel_list[j])
    BY <1>5, AccelType, LoadRpuType, Zenon
  <1>6. QED
    BY <1>2, <1>3, <1>4, <1>5, Zenon DEF load_accelerator_core

LEMMA LoadType ==
    ASSUME TypeOK, NEW name, load_accelerator(name)
    PROVE  TypeOK'
  <1>1. CASE \E b \in Pkgs : load_accelerator_core(b, name)
    BY <1>1, CoreType
  <1>2. CASE \E code \in {LOAD_ERROR, NO_PACKAGE_FOUND} : refuse(code)
    BY <1>2, RefuseType DEF LOAD_ERROR, NO_PACKAGE_FOUND
  <1>3. QED
    BY <1>1, <1>2 DEF load_accelerator, Matches

UserTable == [UserIdx -> UserEntry]

LEMMA ClearRegionType ==
    ASSUME NEW us \in UserTable, NEW r
    PROVE  ClearRegion(us, r) \in UserTable
  <1>1. \A u \in UserIdx : us[u] \in UserEntry
    BY DEF UserTable
  <1>2. \A u \in UserIdx : [us[u] EXCEPT !.region = NULL] \in UserEntry
    BY <1>1 DEF UserEntry
  <1>3. QED
    BY <1>1, <1>2 DEF ClearRegion, UserTable

LEMMA UnloadedOverlayType ==
    ASSUME NEW us \in UserTable, NEW ov \in SUBSET OverlayDirs, NEW r,
           NEW o \in UnloadedOverlay(us, ov, r)
    PROVE  o.user \in UserTable /\ o.overlays \in SUBSET OverlayDirs
  <1>1. CASE r \in ov
    <2>1. o.user = ClearRegion(us, r) /\ o.overlays \in remove_overlay_dir(ov, r)
      BY <1>1 DEF UnloadedOverlay
    <2>2. QED
      BY <2>1, ClearRegionType, RemovedType, Zenon
  <1>2. CASE r \notin ov
    BY <1>2 DEF UnloadedOverlay
  <1>3. QED
    BY <1>1, <1>2

LEMMA UnloadOverlayType ==
    ASSUME TypeOK, NEW r, user_unload_overlay(r)
    PROVE  TypeOK'
  <1>1. user \in UserTable /\ overlays \in SUBSET OverlayDirs
    BY DEF TypeOK, UserTable
  <1>2. PICK o \in UnloadedOverlay(user, overlays, r) :
          user' = o.user /\ overlays' = o.overlays
    BY DEF user_unload_overlay
  <1>3. user' \in UserTable /\ overlays' \in SUBSET OverlayDirs
    <2>1. o.user \in UserTable /\ o.overlays \in SUBSET OverlayDirs
      BY <1>1, UnloadedOverlayType, Zenon
    <2>2. QED
      BY <1>2, <2>1
  <1>4. /\ reply' = 0
        /\ UNCHANGED <<active_base, active_rpu_base, active, slots, slots_alloc,
                       used_handles, fabric>>
    BY DEF user_unload_overlay
  <1>5. QED
    BY <1>3, <1>4 DEF TypeOK, UserTable

LEMMA UserProgramType ==
    ASSUME TypeOK, NEW partial, NEW region \in Regions \cup {NULL},
           NEW target \in Table \cup {NoBase, Unknown},
           NEW o \in UserProgram(partial, region, target)
    PROVE  /\ o.overlays \in SUBSET OverlayDirs
           /\ o.fabric \in Table \cup {NoBase, Unknown}
  <1>1. /\ overlays \in SUBSET OverlayDirs /\ region \in OverlayDirs \cup {NULL}
        /\ fabric \in Table \cup {NoBase, Unknown}
    BY DEF TypeOK, OverlayDirs
  <1>2. CASE partial
    <2>1. o \in ProgramPartial(overlays, region, fabric)
      BY <1>2 DEF UserProgram
    <2>2. o.overlays \in SUBSET OverlayDirs /\ o.fabric = fabric
      BY <1>1, <2>1, ProgramPartialType, Zenon
    <2>3. QED
      BY <1>1, <2>2
  <1>3. CASE ~partial
    <2>1. o \in ProgramFull(region, target)
      BY <1>3 DEF UserProgram
    <2>2. o.overlays \in SUBSET OverlayDirs /\ o.fabric \in {fabric, target, Unknown}
      BY <1>1, <2>1, ProgramFullType, Zenon
    <2>3. QED
      BY <1>1, <2>2
  <1>4. QED
    BY <1>2, <1>3

LEMMA BaseAfterEvictType ==
    ASSUME TypeOK
    PROVE  BaseAfterEvict \in {NoBase} \cup UserIdx
  BY DEF TypeOK, BaseAfterEvict

LEMMA UserLoadType ==
    ASSUME TypeOK, NEW name \in Names, NEW partial \in BOOLEAN, NEW force,
           NEW kind, NEW region \in Regions \cup {NULL},
           user_load(name, partial, force, kind, region)
    PROVE  TypeOK'
  <1>1. CASE refuse(SECURE_PLATFORM) \/ refuse(LOAD_ERROR)
    BY <1>1, RefuseType DEF SECURE_PLATFORM, LOAD_ERROR
  <1> DEFINE Outcome ==
        \/ /\ active_base' = BaseAfterEvict
           /\ reply' = LOAD_ERROR
           /\ UNCHANGED <<active, used_handles, user, overlays, fabric>>
        \/ user_load_fails(partial, region)
        \/ user_load_table_full(partial, region)
        \/ user_load_registers(name, partial, region)
  <1>2. CASE evict_for_user_load /\ Outcome
    <2>1. slots' \in SlotTable /\ slots_alloc' \subseteq Pkgs
      <3>1. slots \in SlotTable /\ slots_alloc \subseteq Pkgs
        BY DEF TypeOK, SlotTable
      <3>2. /\ slots' = free_slots(slots, UserLoadEvicts)
            /\ slots_alloc' = slots_alloc \ {UserLoadEvicts}
        BY <1>2 DEF evict_for_user_load
      <3>3. slots' \in SlotTable
        BY <3>1, <3>2, FreeSlotsType, Zenon
      <3>4. QED
        BY <3>1, <3>2, <3>3
    <2>2. active_rpu_base' = active_rpu_base
      BY <1>2 DEF evict_for_user_load
    <2>3. BaseAfterEvict \in {NoBase} \cup UserIdx
      BY BaseAfterEvictType
    <2>4. user \in UserTable /\ overlays \in SUBSET OverlayDirs
      BY DEF TypeOK, UserTable
    <2>5. Unknown \in Table \cup {NoBase, Unknown} /\ LOAD_ERROR \in Int
      BY DEF LOAD_ERROR
    <2>6. CASE /\ active_base' = BaseAfterEvict
               /\ reply' = LOAD_ERROR
               /\ UNCHANGED <<active, used_handles, user, overlays, fabric>>
      BY <2>1, <2>2, <2>3, <2>5, <2>6 DEF TypeOK, SlotTable
    <2>7. CASE user_load_fails(partial, region)
      <3>1. PICK o \in UserProgram(partial, region, Unknown) :
              overlays' = o.overlays /\ fabric' = o.fabric
        BY <2>7 DEF user_load_fails
      <3>2. /\ o.overlays \in SUBSET OverlayDirs
            /\ o.fabric \in Table \cup {NoBase, Unknown}
        BY <2>5, UserProgramType, Zenon
      <3>3. /\ active_base' = BaseAfterEvict /\ reply' = LOAD_ERROR
            /\ UNCHANGED <<active, used_handles, user>>
        BY <2>7 DEF user_load_fails
      <3>4. QED
        BY <2>1, <2>2, <2>3, <2>5, <3>1, <3>2, <3>3 DEF TypeOK, SlotTable
    <2>8. CASE user_load_table_full(partial, region)
      <3>1. PICK o \in UserProgram(partial, region, Unknown) :
              /\ fabric' = o.fabric
              /\ \/ \E c \in UnloadedOverlay(user, o.overlays, region) :
                      user' = c.user /\ overlays' = c.overlays
                 \/ overlays' = o.overlays /\ user' = user
        BY <2>8 DEF user_load_table_full
      <3>2. /\ o.overlays \in SUBSET OverlayDirs
            /\ o.fabric \in Table \cup {NoBase, Unknown}
        BY <2>5, UserProgramType, Zenon
      <3>3. user' \in UserTable /\ overlays' \in SUBSET OverlayDirs
        <4>1. CASE \E c \in UnloadedOverlay(user, o.overlays, region) :
                      user' = c.user /\ overlays' = c.overlays
          <5>1. PICK c \in UnloadedOverlay(user, o.overlays, region) :
                      user' = c.user /\ overlays' = c.overlays
            BY <4>1
          <5>2. c.user \in UserTable /\ c.overlays \in SUBSET OverlayDirs
            BY <2>4, <3>2, UnloadedOverlayType, Zenon
          <5>3. QED
            BY <5>1, <5>2
        <4>2. CASE overlays' = o.overlays /\ user' = user
          BY <4>2, <3>2, <2>4
        <4>3. QED
          BY <3>1, <4>1, <4>2
      <3>4. /\ active_base' = BaseAfterEvict /\ reply' = LOAD_ERROR
            /\ UNCHANGED <<active, used_handles>>
        BY <2>8 DEF user_load_table_full
      <3>5. QED
        BY <2>1, <2>2, <2>3, <2>5, <3>1, <3>2, <3>3, <3>4
           DEF TypeOK, SlotTable, UserTable
    <2>9. CASE user_load_registers(name, partial, region)
      <3>1. PICK u \in FreeEntries, h \in Handles \cup {NoHandle} :
              /\ \E o \in UserProgram(partial, region, u) :
                   overlays' = o.overlays /\ fabric' = o.fabric
              /\ user' = [user EXCEPT ![u] =
                       [is_user_load |-> TRUE, name |-> name,
                        partial |-> partial, handle |-> h, region |-> region]]
              /\ used_handles' = Taken(h)
              /\ reply' = h
              /\ active_base' = IF partial THEN BaseAfterEvict ELSE u
              /\ active' = [t \in Table |->
                         IF t = u THEN 0
                         ELSE IF partial /\ t = BaseAfterEvict THEN active[t] + 1
                         ELSE active[t]]
        BY <2>9 DEF user_load_registers
      <3>2. u \in UserIdx /\ u \in Table
        BY Constants DEF FreeEntries
      <3>3. PICK o \in UserProgram(partial, region, u) :
              overlays' = o.overlays /\ fabric' = o.fabric
        BY <3>1
      <3>4. /\ o.overlays \in SUBSET OverlayDirs
            /\ o.fabric \in Table \cup {NoBase, Unknown}
        <4>1. u \in Table \cup {NoBase, Unknown}
          BY <3>2
        <4>2. QED
          BY <4>1, UserProgramType, Zenon
      <3>5. [is_user_load |-> TRUE, name |-> name, partial |-> partial,
             handle |-> h, region |-> region] \in UserEntry
        BY DEF UserEntry
      <3>6. user' \in UserTable
        BY <3>1, <3>2, <3>5, <2>4 DEF UserTable
      <3>7. used_handles' \subseteq Handles /\ reply' \in Int
        BY <3>1, TakenType, Constants
      <3>8. active' \in [Table -> Int]
        <4>1. active \in [Table -> Int]
          BY DEF TypeOK
        <4>2. QED
          BY <4>1, <3>1
      <3>9. active_base' \in {NoBase} \cup UserIdx
        BY <3>1, <3>2, <2>3
      <3>10. QED
        BY <2>1, <2>2, <3>3, <3>4, <3>6, <3>7, <3>8, <3>9
           DEF TypeOK, SlotTable, UserTable
    <2>10. QED
      BY <1>2, <2>6, <2>7, <2>8, <2>9
  <1>3. QED
    BY <1>1, <1>2 DEF user_load

LEMMA UserUnloadType ==
    ASSUME TypeOK, NEW u \in UserIdx, user_unload(u)
    PROVE  TypeOK'
  <1>1. CASE refuse(LOAD_ERROR)
    BY <1>1, RefuseType DEF LOAD_ERROR
  <1>2. CASE ~refuse(LOAD_ERROR)
    <2>1. PICK o \in IF user[u].region # NULL
                     THEN UnloadedOverlay(user, overlays, user[u].region)
                     ELSE {[user |-> user, overlays |-> overlays]} :
            /\ overlays' = o.overlays
            /\ user' = [o.user EXCEPT ![u].is_user_load = FALSE,
                                      ![u].name = NULL,
                                      ![u].handle = NoHandle]
      BY <1>2 DEF user_unload
    <2>2. /\ active' = [t \in Table |-> IF user[u].partial /\ t = active_base
                                        THEN active[t] - 1 ELSE active[t]]
          /\ active_base' = IF ~user[u].partial /\ active_base = u
                            THEN NoBase ELSE active_base
          /\ used_handles' = used_handles \ {user[u].handle}
          /\ reply' = 0
          /\ UNCHANGED <<active_rpu_base, slots, slots_alloc, fabric>>
      BY <1>2 DEF user_unload
    <2>3. user \in UserTable /\ overlays \in SUBSET OverlayDirs
      BY DEF TypeOK, UserTable
    <2>4. o.user \in UserTable /\ o.overlays \in SUBSET OverlayDirs
      <3>1. CASE user[u].region # NULL
        <4>1. o \in UnloadedOverlay(user, overlays, user[u].region)
          BY <3>1, <2>1
        <4>2. QED
          BY <4>1, <2>3, UnloadedOverlayType, Zenon
      <3>2. CASE user[u].region = NULL
        BY <3>2, <2>1, <2>3
      <3>3. QED
        BY <3>1, <3>2
    <2>5. user' \in UserTable
      <3>1. o.user[u] \in UserEntry
        BY <2>4 DEF UserTable
      <3>2. [[[o.user[u] EXCEPT !.is_user_load = FALSE] EXCEPT !.name = NULL]
                EXCEPT !.handle = NoHandle] \in UserEntry
        BY <3>1 DEF UserEntry
      <3>3. QED
        BY <2>1, <2>4, <3>2 DEF UserTable
    <2>6. active' \in [Table -> Int]
      <3>1. active \in [Table -> Int]
        BY DEF TypeOK
      <3>2. QED
        BY <3>1, <2>2
    <2>7. QED
      BY <2>1, <2>2, <2>4, <2>5, <2>6 DEF TypeOK, UserTable
  <1>3. QED
    BY <1>1, <1>2

LEMMA UnloadBaseType ==
    ASSUME TypeOK, unload_accel_base
    PROVE  TypeOK'
  <1>1. CASE refuse(LOAD_ERROR)
    BY <1>1, RefuseType DEF LOAD_ERROR
  <1>2. CASE ~refuse(LOAD_ERROR)
    <2>1. /\ \/ UNCHANGED overlays
             \/ overlays' \in remove_overlay_dir(overlays, Pkg[active_base].name)
          /\ slots' = free_slots(slots, active_base)
          /\ slots_alloc' = slots_alloc \ {active_base}
          /\ active_base' = NoBase
          /\ reply' = 0
          /\ UNCHANGED <<active_rpu_base, active, used_handles, user, fabric>>
      BY <1>2, Zenon DEF unload_accel_base
    <2>2. overlays' \in SUBSET OverlayDirs
      <3>1. overlays \in SUBSET OverlayDirs
        BY DEF TypeOK
      <3>2. QED
        BY <2>1, <3>1, RemovedType
    <2>3. slots' \in SlotTable
      <3>1. slots \in SlotTable
        BY DEF TypeOK, SlotTable
      <3>2. QED
        BY <2>1, <3>1, FreeSlotsType, Zenon
    <2>4. QED
      BY <2>1, <2>2, <2>3 DEF TypeOK, SlotTable
  <1>3. QED
    BY <1>1, <1>2

\* Emptying slot i of base b.
LEMMA EmptySlotType ==
    ASSUME NEW s \in SlotTable, NEW b \in Pkgs, NEW i
    PROVE  [s EXCEPT ![b][i] = NULL] \in SlotTable
  BY DEF SlotTable

LEMMA UnloadSlotType ==
    ASSUME TypeOK, NEW h, NEW i \in SlotIds,
           \/ active_rpu_base # NoBase /\ unload_rpu_slot(h, i)
           \/ active_base \in Pkgs /\ unload_pl_slot(h, i)
    PROVE  TypeOK'
  <1>1. slots \in SlotTable /\ active \in [Table -> Int] /\ 1 \in Int
    BY DEF TypeOK, SlotTable
  <1>2. CASE active_rpu_base # NoBase /\ unload_rpu_slot(h, i)
    <2>1. /\ slots' = [slots EXCEPT ![active_rpu_base][i] = NULL]
          /\ used_handles' = used_handles \ {h}
          /\ active' = [active EXCEPT ![active_rpu_base] = @ - 1]
          /\ reply' \in {0} \cup {r \in {LOAD_ERROR} : MayFail}
          /\ UNCHANGED <<active_base, active_rpu_base, slots_alloc, user,
                         overlays, fabric>>
      BY <1>2 DEF unload_rpu_slot
    <2>2. slots' \in SlotTable
      <3>1. active_rpu_base \in Pkgs
        BY <1>2 DEF TypeOK
      <3>2. QED
        BY <2>1, <3>1, <1>1, EmptySlotType, Zenon
    <2>3. active' \in [Table -> Int]
      BY <2>1, <1>1, BumpType
    <2>4. reply' \in Int
      BY <2>1 DEF LOAD_ERROR
    <2>5. QED
      BY <2>1, <2>2, <2>3, <2>4 DEF TypeOK, SlotTable
  <1>3. CASE active_base \in Pkgs /\ unload_pl_slot(h, i)
    <2>1. /\ overlays' \in IF UseUserLoadPath
                     THEN remove_overlay_dir(overlays, slots[active_base][i].name)
                     ELSE {overlays}
          /\ slots' = [slots EXCEPT ![active_base][i] = NULL]
          /\ used_handles' = used_handles \ {h}
          /\ active' = [active EXCEPT ![active_base] = @ - 1]
          /\ active_base' = IF IsFlat(active_base) THEN NoBase ELSE active_base
          /\ reply' = 0
          /\ UNCHANGED <<active_rpu_base, slots_alloc, user, fabric>>
      BY <1>3 DEF unload_pl_slot
    <2>2. slots' \in SlotTable
      BY <2>1, <1>3, <1>1, EmptySlotType, Zenon
    <2>3. active' \in [Table -> Int]
      BY <2>1, <1>1, BumpType
    <2>4. overlays' \in SUBSET OverlayDirs
      <3>1. overlays \in SUBSET OverlayDirs
        BY DEF TypeOK
      <3>2. CASE UseUserLoadPath
        BY <3>1, <3>2, <2>1, RemovedType, Zenon
      <3>3. CASE ~UseUserLoadPath
        BY <3>1, <3>3, <2>1
      <3>4. QED
        BY <3>2, <3>3
    <2>5. QED
      BY <2>1, <2>2, <2>3, <2>4 DEF TypeOK, SlotTable
  <1>4. QED
    BY <1>2, <1>3

LEMMA UnloadType ==
    ASSUME TypeOK, NEW h, unload_accelerator(h)
    PROVE  TypeOK'
  <1>1. CASE \E u \in UserIdx : user_unload(u)
    BY <1>1, UserUnloadType
  <1>2. CASE \E i \in SlotIds :
                \/ active_rpu_base # NoBase /\ unload_rpu_slot(h, i)
                \/ active_base \in Pkgs /\ unload_pl_slot(h, i)
    BY <1>2, UnloadSlotType, Zenon
  <1>3. CASE refuse(LOAD_ERROR)
    BY <1>3, RefuseType DEF LOAD_ERROR
  <1>4. QED
    BY <1>1, <1>2, <1>3, Zenon DEF unload_accelerator, InRpuSlot, InPlSlot

\* Every request preserves the type invariant.
LEMMA TypeStep ==
    ASSUME TypeOK, [Next]_vars
    PROVE  TypeOK'
  <1>1. LOAD_ERROR \in Int
    BY DEF LOAD_ERROR
  <1>2. ASSUME NEW name \in Names, load_accelerator(name)
        PROVE  TypeOK'
    BY <1>2, LoadType
  <1>3. ASSUME NEW b \in Pkgs, NEW j \in DOMAIN Pkg[b].accel_list,
               load_accelerator_by_id(b, j)
        PROVE  TypeOK'
    BY <1>3, CoreType, Zenon DEF load_accelerator_by_id
  <1>4. ASSUME NEW b \in Pkgs, NEW j \in DOMAIN Pkg[b].accel_list,
               unload_accelerator_by_id(b, j)
        PROVE  TypeOK'
    BY <1>1, <1>4, UnloadType, RefuseType, Zenon DEF unload_accelerator_by_id
  <1>5. ASSUME NEW name \in UserNames, NEW region \in Regions \cup {NULL},
               NEW partial \in BOOLEAN, NEW force \in BOOLEAN,
               NEW kind \in {"plain", "secure", "incomplete"},
               user_load(name, partial, force, kind, region)
        PROVE  TypeOK'
    <2>1. name \in Names
      BY FlagAssumption
    <2>2. QED
      BY <1>5, <2>1, UserLoadType, Zenon
  <1>6. ASSUME NEW r \in OverlayDirs, user_unload_overlay(r)
        PROVE  TypeOK'
    BY <1>6, UnloadOverlayType
  <1>7. CASE unload_accel_base
    BY <1>7, UnloadBaseType
  <1>8. ASSUME NEW h \in Handles, unload_accelerator(h)
        PROVE  TypeOK'
    BY <1>8, UnloadType
  <1>9. ASSUME NEW name \in Names, unload_accelerator_by_name(name)
        PROVE  TypeOK'
    BY <1>1, <1>9, UnloadType, RefuseType, Zenon DEF unload_accelerator_by_name
  <1>10. CASE UNCHANGED vars
    BY <1>10 DEF vars, TypeOK
  <1>11. QED
    BY <1>2, <1>3, <1>4, <1>5, <1>6, <1>7, <1>8, <1>9, <1>10, Zenon DEF Next

LEMMA TypeInit == Init => TypeOK
  <1> SUFFICES ASSUME Init PROVE TypeOK
    OBVIOUS
  <1>2. user \in [UserIdx -> UserEntry]
    <2>1. [is_user_load |-> FALSE, name |-> NULL, partial |-> FALSE,
           handle |-> NoHandle, region |-> NULL] \in UserEntry
      BY DEF UserEntry
    <2>2. QED
      BY <2>1 DEF Init
  <1>3. slots \in [Pkgs -> [SlotIds -> SlotInfo \cup {NULL}]]
    BY DEF Init
  <1>4. active \in [Table -> Int]
    BY DEF Init
  <1>5. /\ active_base = NoBase /\ active_rpu_base = NoBase
        /\ slots_alloc = {} /\ used_handles = {} /\ overlays = {}
        /\ fabric = NoBase /\ reply = 0
    BY DEF Init
  <1>6. QED
    BY <1>2, <1>3, <1>4, <1>5 DEF TypeOK

\* The daemon's tables keep their types whatever packages are installed and
\* whatever the hardware answers: active_base never becomes an RPU package,
\* nor active_rpu_base anything else.
THEOREM TypeCorrect == Spec => []TypeOK
  <1>1. TypeOK /\ [Next]_vars => TypeOK'
    BY TypeStep
  <1>2. QED
    BY TypeInit, <1>1, PTL DEF Spec

-----------------------------------------------------------------------------
(* The overlay regions of the user entries, on platforms that load         *)
(* packages through libdfx: there only user loads make overlay directories.*)

Regioned == TypeOK /\ RegionOwner

\* No entry changes its region and no overlay goes.
RegionsKept == /\ \A u \in UserIdx : user'[u].region = user[u].region
               /\ overlays \subseteq overlays'

LEMMA KeptRegion ==
    ASSUME Regioned, RegionsKept
    PROVE  RegionOwner'
  BY DEF Regioned, RegionOwner, RegionsKept

\* Without an overlay directory programming leaves the overlays alone.
LEMMA ProgrammedNull ==
    ASSUME NEW ov \in SUBSET OverlayDirs, NEW was, NEW target, NEW lost,
           NEW o \in Programmed(ov, NULL, was, target, lost)
    PROVE  o.overlays = ov
  <1>1. NULL \notin ov
    BY NullAssumption
  <1>2. \/ o = [ok |-> TRUE, overlays |-> ov \cup ({NULL} \ {NULL}), fabric |-> target]
        \/ o \in [ok: {FALSE}, overlays: {ov, ov \cup ({NULL} \ {NULL})},
                  fabric: {was, lost}]
    BY <1>1 DEF Programmed
  <1>3. ov \cup ({NULL} \ {NULL}) = ov
    OBVIOUS
  <1>4. CASE o = [ok |-> TRUE, overlays |-> ov \cup ({NULL} \ {NULL}), fabric |-> target]
    BY <1>3, <1>4
  <1>5. CASE o \in [ok: {FALSE}, overlays: {ov, ov \cup ({NULL} \ {NULL})},
                    fabric: {was, lost}]
    BY <1>3, <1>5
  <1>6. QED
    BY <1>2, <1>4, <1>5

\* A success made the overlay directory, which was not there; a failure
\* takes no other away.
LEMMA ProgrammedDir ==
    ASSUME NEW ov, NEW dir, NEW was, NEW target, NEW lost,
           NEW o \in Programmed(ov, dir, was, target, lost)
    PROVE  /\ ov \subseteq o.overlays
           /\ o.ok => dir \notin ov /\ o.overlays = ov \cup ({dir} \ {NULL})
  <1> DEFINE made == ov \cup ({dir} \ {NULL})
  <1>1. CASE dir \in ov
    BY <1>1 DEF Programmed
  <1>2. CASE dir \notin ov
    <2>1. \/ o = [ok |-> TRUE, overlays |-> made, fabric |-> target]
          \/ o \in [ok: {FALSE}, overlays: {ov, made}, fabric: {was, lost}]
      BY <1>2 DEF Programmed
    <2>2. CASE o = [ok |-> TRUE, overlays |-> made, fabric |-> target]
      BY <1>2, <2>2
    <2>3. CASE o \in [ok: {FALSE}, overlays: {ov, made}, fabric: {was, lost}]
      <3>1. o.ok = FALSE /\ o.overlays \in {ov, made}
        BY <2>3
      <3>2. QED
        BY <3>1
    <2>4. QED
      BY <2>1, <2>2, <2>3
  <1>3. QED
    BY <1>1, <1>2

LEMMA UserProgramDir ==
    ASSUME NEW partial, NEW region, NEW target, NEW o \in UserProgram(partial, region, target)
    PROVE  /\ overlays \subseteq o.overlays
           /\ o.ok => /\ region \notin overlays
                      /\ o.overlays = overlays \cup ({region} \ {NULL})
  <1>1. CASE partial
    BY <1>1, ProgrammedDir DEF UserProgram, ProgramPartial
  <1>2. CASE ~partial
    BY <1>2, ProgrammedDir DEF UserProgram, ProgramFull
  <1>3. QED
    BY <1>1, <1>2

\* Taking the overlay of region r away clears the one entry that records it.
LEMMA OverlayTaken ==
    ASSUME Regioned, ~UseUserLoadPath, NEW ov, overlays \subseteq ov,
           NEW r \in OverlayDirs, NEW o \in UnloadedOverlay(user, ov, r)
    PROVE  /\ \A u \in UserIdx :
                 o.user[u].region = IF user[u].region = r THEN NULL ELSE user[u].region
           /\ ov \ {r} \subseteq o.overlays
  <1>1. \A u \in UserIdx : user[u] \in UserEntry
    BY DEF Regioned, TypeOK
  <1>2. r # NULL
    BY NullAssumption
  <1>3. CASE r \in ov
    <2>1. o \in [user: {ClearRegion(user, r)}, overlays: remove_overlay_dir(ov, r)]
      BY <1>3 DEF UnloadedOverlay
    <2>2. o.user = ClearRegion(user, r) /\ o.overlays \in remove_overlay_dir(ov, r)
      BY <2>1
    <2>3. ov \ {r} \subseteq o.overlays
      BY <2>2 DEF remove_overlay_dir
    <2>4. ASSUME NEW u \in UserIdx
          PROVE  o.user[u].region = IF user[u].region = r THEN NULL ELSE user[u].region
      <3>1. CASE user[u].region = r
        <4>1. \A v \in UserIdx : v < u => user[v].region # r
          BY <1>2, <3>1, Constants DEF Regioned, RegionOwner
        <4>2. o.user[u] = [user[u] EXCEPT !.region = NULL]
          BY <2>2, <3>1, <4>1 DEF ClearRegion
        <4>3. QED
          BY <1>1, <3>1, <4>2 DEF UserEntry
      <3>2. CASE user[u].region # r
        BY <2>2, <3>2 DEF ClearRegion
      <3>3. QED
        BY <3>1, <3>2
    <2>5. QED
      BY <2>3, <2>4
  <1>4. CASE r \notin ov
    <2>1. o = [user |-> user, overlays |-> ov]
      BY <1>4 DEF UnloadedOverlay
    <2>2. \A u \in UserIdx : user[u].region # r
      BY <1>2, <1>4 DEF Regioned, RegionOwner
    <2>3. QED
      BY <2>1, <2>2
  <1>5. QED
    BY <1>3, <1>4

\* An entry gives up region r, and no other overlay goes.
LEMMA TakenRegion ==
    ASSUME Regioned, ~UseUserLoadPath, NEW r,
           \A u \in UserIdx :
              user'[u].region = IF user[u].region = r THEN NULL ELSE user[u].region,
           overlays \ {r} \subseteq overlays'
    PROVE  RegionOwner'
  BY DEF Regioned, RegionOwner

LEMMA RegionsOf ==
    ASSUME Regioned, NEW u \in UserIdx
    PROVE  /\ user[u].region \in Regions \cup {NULL}
           /\ user[u].region # NULL => user[u].region \in OverlayDirs
  BY DEF Regioned, TypeOK, UserEntry, OverlayDirs

LEMMA LoadRegion ==
    ASSUME Regioned, ~UseUserLoadPath, NEW b \in Pkgs, NEW a,
           \/ load_flat_busy(b) \/ load_flat(b)
           \/ load_dfx_mismatch(b) \/ load_dfx_base_fails(b)
           \/ load_dfx_slot_fails(b, a) \/ load_dfx(b, a)
           \/ rpu_mismatch(b) \/ rpu_slot_fails(b, a) \/ load_rpu_slot(b, a)
    PROVE  RegionOwner'
  <1>1. overlays \in SUBSET OverlayDirs
    BY DEF Regioned, TypeOK
  <1>2. \A name, dtbo : OverlayDir(name, dtbo) = NULL
    BY DEF OverlayDir
  <1>3. \A target : \A o \in ProgramFull(NULL, target) : o.overlays = overlays
    BY <1>1, ProgrammedNull, Zenon DEF ProgramFull
  <1>4. \A f : \A o \in ProgramPartial(overlays, NULL, f) : o.overlays = overlays
    BY <1>1, ProgrammedNull, Zenon DEF ProgramPartial
  <1>5. \A o \in BaseOutcomes(b) : o.overlays = overlays
    BY <1>2, <1>3 DEF BaseOutcomes
  <1>6. user' = user
    BY DEF load_flat_busy, load_flat, load_dfx_mismatch, load_dfx_base_fails,
           load_dfx_slot_fails, load_dfx, rpu_mismatch, rpu_slot_fails, load_rpu_slot
  <1>7. overlays' = overlays
    <2>1. CASE load_flat_busy(b) \/ load_dfx_mismatch(b) \/ rpu_mismatch(b)
               \/ rpu_slot_fails(b, a) \/ load_rpu_slot(b, a)
      BY <2>1 DEF load_flat_busy, load_dfx_mismatch, rpu_mismatch, rpu_slot_fails,
                  load_rpu_slot
    <2>2. CASE load_flat(b)
      BY <1>2, <1>3, <2>2 DEF load_flat
    <2>3. CASE load_dfx_base_fails(b)
      BY <1>5, <2>3 DEF load_dfx_base_fails
    <2>4. CASE load_dfx_slot_fails(b, a)
      BY <1>2, <1>4, <1>5, <2>4 DEF load_dfx_slot_fails
    <2>5. CASE load_dfx(b, a)
      BY <1>2, <1>4, <1>5, <2>5 DEF load_dfx
    <2>6. QED
      BY <2>1, <2>2, <2>3, <2>4, <2>5
  <1>8. QED
    BY <1>6, <1>7, KeptRegion DEF RegionsKept

LEMMA RefuseRegion ==
    ASSUME Regioned, NEW code, refuse(code)
    PROVE  RegionOwner'
  BY KeptRegion DEF refuse, RegionsKept

LEMMA UserLoadRegion ==
    ASSUME Regioned, ~UseUserLoadPath, NEW name, NEW partial, NEW force,
           NEW kind, NEW region \in Regions \cup {NULL},
           user_load(name, partial, force, kind, region)
    PROVE  RegionOwner'
  <1>1. CASE refuse(SECURE_PLATFORM) \/ refuse(LOAD_ERROR)
    BY <1>1, RefuseRegion
  <1>2. CASE UNCHANGED <<user, overlays>>
    BY <1>2, KeptRegion DEF RegionsKept
  <1>3. CASE user_load_fails(partial, region)
    <2>1. PICK o \in UserProgram(partial, region, Unknown) : overlays' = o.overlays
      BY <1>3 DEF user_load_fails
    <2>2. overlays \subseteq overlays' /\ user' = user
      BY <1>3, <2>1, UserProgramDir DEF user_load_fails
    <2>3. QED
      BY <2>2, KeptRegion DEF RegionsKept
  <1>4. CASE user_load_table_full(partial, region)
    <2>1. PICK o \in UserProgram(partial, region, Unknown) :
            \/ /\ region # NULL
               /\ \E c \in UnloadedOverlay(user, o.overlays, region) :
                    user' = c.user /\ overlays' = c.overlays
            \/ overlays' = o.overlays /\ user' = user
      BY <1>4 DEF user_load_table_full
    <2>2. overlays \subseteq o.overlays
      BY UserProgramDir
    <2>3. CASE overlays' = o.overlays /\ user' = user
      BY <2>2, <2>3, KeptRegion DEF RegionsKept
    <2>4. CASE /\ region # NULL
               /\ \E c \in UnloadedOverlay(user, o.overlays, region) :
                    user' = c.user /\ overlays' = c.overlays
      <3>1. PICK c \in UnloadedOverlay(user, o.overlays, region) :
              user' = c.user /\ overlays' = c.overlays
        BY <2>4
      <3>2. region \in OverlayDirs
        BY <2>4 DEF OverlayDirs
      <3>3. /\ \A u \in UserIdx :
                  c.user[u].region = IF user[u].region = region
                                     THEN NULL ELSE user[u].region
            /\ o.overlays \ {region} \subseteq c.overlays
        BY <2>2, <3>2, OverlayTaken
      <3>4. overlays \ {region} \subseteq overlays'
        BY <2>2, <3>1, <3>3
      <3>5. QED
        BY <3>1, <3>3, <3>4, TakenRegion
    <2>5. QED
      BY <2>1, <2>3, <2>4
  <1>5. CASE user_load_registers(name, partial, region)
    <2>1. PICK u \in FreeEntries, h \in Handles \cup {NoHandle} :
            /\ \E o \in UserProgram(partial, region, u) : o.ok /\ overlays' = o.overlays
            /\ user' = [user EXCEPT ![u] =
                          [is_user_load |-> TRUE, name |-> name,
                           partial |-> partial, handle |-> h, region |-> region]]
      BY <1>5, Zenon DEF user_load_registers
    <2>2. /\ region \notin overlays
          /\ overlays' = overlays \cup ({region} \ {NULL})
      BY <2>1, UserProgramDir
    <2>3. u \in UserIdx /\ user \in [UserIdx -> UserEntry]
      BY DEF FreeEntries, Regioned, TypeOK
    <2>4. user'[u] = [is_user_load |-> TRUE, name |-> name,
                      partial |-> partial, handle |-> h, region |-> region]
      BY <2>1, <2>3
    <2>5. user'[u].region = region /\ \A v \in UserIdx : v # u => user'[v] = user[v]
      BY <2>1, <2>3, <2>4
    <2>6. \A v \in UserIdx : user[v].region # NULL => user[v].region # region
      BY <2>2 DEF Regioned, RegionOwner
    <2>7. QED
      BY <2>2, <2>5, <2>6 DEF Regioned, RegionOwner
  <1>6. QED
    BY <1>1, <1>2, <1>3, <1>4, <1>5, Zenon DEF user_load

LEMMA UnloadOverlayRegion ==
    ASSUME Regioned, ~UseUserLoadPath, NEW r \in OverlayDirs, user_unload_overlay(r)
    PROVE  RegionOwner'
  <1>1. PICK o \in UnloadedOverlay(user, overlays, r) :
          user' = o.user /\ overlays' = o.overlays
    BY DEF user_unload_overlay
  <1>2. /\ \A u \in UserIdx :
              o.user[u].region = IF user[u].region = r THEN NULL ELSE user[u].region
        /\ overlays \ {r} \subseteq o.overlays
    BY OverlayTaken
  <1>3. QED
    BY <1>1, <1>2, TakenRegion

LEMMA UserUnloadRegion ==
    ASSUME Regioned, ~UseUserLoadPath, NEW u \in UserIdx, user_unload(u)
    PROVE  RegionOwner'
  <1>1. CASE refuse(LOAD_ERROR)
    BY <1>1, RefuseRegion
  <1>2. CASE ~refuse(LOAD_ERROR)
    <2>1. PICK o \in IF user[u].region # NULL
                     THEN UnloadedOverlay(user, overlays, user[u].region)
                     ELSE {[user |-> user, overlays |-> overlays]} :
            /\ overlays' = o.overlays
            /\ user' = [o.user EXCEPT ![u].is_user_load = FALSE,
                                      ![u].name = NULL,
                                      ![u].handle = NoHandle]
      BY <1>2, Zenon DEF user_unload
    <2>2. user \in UserTable /\ overlays \in SUBSET OverlayDirs
      BY DEF Regioned, TypeOK, UserTable
    <2>3. o.user \in UserTable
      <3>1. CASE user[u].region # NULL
        <4>1. o \in UnloadedOverlay(user, overlays, user[u].region)
          BY <3>1, <2>1
        <4>2. QED
          BY <4>1, <2>2, UnloadedOverlayType, Zenon
      <3>2. CASE user[u].region = NULL
        BY <3>2, <2>1, <2>2
      <3>3. QED
        BY <3>1, <3>2
    <2>4. \A v \in UserIdx : user'[v].region = o.user[v].region
      <3>1. o.user[u] \in UserEntry
        BY <2>3 DEF UserTable
      <3>2. [[[o.user[u] EXCEPT !.is_user_load = FALSE] EXCEPT !.name = NULL]
                EXCEPT !.handle = NoHandle].region = o.user[u].region
        BY <3>1 DEF UserEntry
      <3>3. QED
        BY <2>1, <2>3, <3>2 DEF UserTable
    <2>5. CASE user[u].region # NULL
      <3>1. o \in UnloadedOverlay(user, overlays, user[u].region)
        BY <2>1, <2>5
      <3>2. user[u].region \in OverlayDirs
        BY <2>5, RegionsOf
      <3>3. /\ \A v \in UserIdx :
                  o.user[v].region = IF user[v].region = user[u].region
                                     THEN NULL ELSE user[v].region
            /\ overlays \ {user[u].region} \subseteq o.overlays
        BY <3>1, <3>2, OverlayTaken
      <3>4. /\ \A v \in UserIdx :
                  user'[v].region = IF user[v].region = user[u].region
                                    THEN NULL ELSE user[v].region
            /\ overlays \ {user[u].region} \subseteq overlays'
        BY <2>1, <2>4, <3>3
      <3>5. QED
        BY <3>4, TakenRegion
    <2>6. CASE user[u].region = NULL
      <3>1. o.user = user /\ o.overlays = overlays
        BY <2>1, <2>6
      <3>2. QED
        BY <2>1, <2>4, <3>1, KeptRegion DEF RegionsKept
    <2>7. QED
      BY <2>5, <2>6
  <1>3. QED
    BY <1>1, <1>2

LEMMA UnloadRegion ==
    ASSUME Regioned, ~UseUserLoadPath, NEW h, unload_accelerator(h)
    PROVE  RegionOwner'
  <1>1. CASE \E u \in UserIdx : user_unload(u)
    BY <1>1, UserUnloadRegion
  <1>2. CASE \E i \in SlotIds : unload_rpu_slot(h, i) \/ unload_pl_slot(h, i)
    BY <1>2, KeptRegion DEF unload_rpu_slot, unload_pl_slot, RegionsKept
  <1>3. CASE refuse(LOAD_ERROR)
    BY <1>3, RefuseRegion
  <1>4. QED
    BY <1>1, <1>2, <1>3, Zenon DEF unload_accelerator

LEMMA CoreRegion ==
    ASSUME Regioned, ~UseUserLoadPath, NEW b \in Pkgs, NEW name,
           load_accelerator_core(b, name)
    PROVE  RegionOwner'
  BY LoadRegion, RefuseRegion, Zenon DEF load_accelerator_core

LEMMA RegionStep ==
    ASSUME Regioned, ~UseUserLoadPath, [Next]_vars
    PROVE  RegionOwner'
  <1>1. ASSUME NEW name \in Names, load_accelerator(name)
        PROVE  RegionOwner'
    <2>1. CASE \E b \in Pkgs : load_accelerator_core(b, name)
      BY <2>1, CoreRegion
    <2>2. CASE \E code : refuse(code)
      BY <2>2, RefuseRegion
    <2>3. QED
      BY <1>1, <2>1, <2>2, Zenon DEF load_accelerator, Matches
  <1>2. ASSUME NEW b \in Pkgs, NEW j \in DOMAIN Pkg[b].accel_list,
               load_accelerator_by_id(b, j) \/ unload_accelerator_by_id(b, j)
        PROVE  RegionOwner'
    BY <1>2, CoreRegion, UnloadRegion, RefuseRegion, Zenon
       DEF load_accelerator_by_id, unload_accelerator_by_id
  <1>3. CASE unload_accel_base
    BY <1>3, RefuseRegion, KeptRegion DEF unload_accel_base, RegionsKept
  <1>4. ASSUME NEW name \in Names, unload_accelerator_by_name(name)
        PROVE  RegionOwner'
    BY <1>4, UnloadRegion, RefuseRegion, Zenon DEF unload_accelerator_by_name
  <1>5. CASE UNCHANGED vars
    BY <1>5, KeptRegion DEF vars, RegionsKept
  <1>6. QED
    BY <1>1, <1>2, <1>3, <1>4, <1>5, UserLoadRegion, UnloadOverlayRegion,
       UnloadRegion, Zenon DEF Next

\* An overlay region that a user entry records exists and has one owner, for
\* any regions, entries and failures of rmdir: unloading a design, or the
\* overlay of a region, never takes the overlay of another design away.
THEOREM RegionsOwned == Spec => []RegionOwner
  <1>1. Init => RegionOwner
    BY DEF Init, RegionOwner
  <1>2. ASSUME TypeOK, RegionOwner, [Next]_vars PROVE RegionOwner'
    <2>1. CASE UseUserLoadPath
      BY <2>1 DEF RegionOwner
    <2>2. CASE ~UseUserLoadPath
      BY <1>2, <2>2, RegionStep DEF Regioned
    <2>3. QED
      BY <2>1, <2>2
  <1>3. TypeOK /\ RegionOwner /\ [Next]_vars => RegionOwner'
    BY <1>2
  <1>4. QED
    BY TypeCorrect, <1>1, <1>3, PTL DEF Spec

=============================================================================
