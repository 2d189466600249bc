----------------------------- MODULE DfxDaemon -----------------------------
(***************************************************************************)
(* The request handlers of the dfx-mgr daemon (src/src/daemon_helper.c and *)
(* the helpers it calls in user_load.c, rpu.c, accel.c) over a fixed set   *)
(* of installed packages: loading and unloading accelerators into the      *)
(* slots of a PL base or an RPU base, loading and unloading user           *)
(* bitstreams, and the table of slot handles that names whatever is        *)
(* loaded.  The daemon serves one request at a time (the select loop of    *)
(* dfx-mgrd.c), so a handler is one atomic step.                           *)
(*                                                                         *)
(* What the hardware, libdfx, configfs and remoteproc answer is a          *)
(* nondeterministic outcome; MayFail says whether they may fail.           *)
(*                                                                         *)
(* An operator whose comment starts with "Faulty" is no part of the model: *)
(* it is a slip the code could contain, put in place of the operator that  *)
(* follows it to see that the properties notice.                           *)
(***************************************************************************)
EXTENDS Integers, Sequences, FiniteSets

CONSTANTS
    Pkg,              \* installed packages, in base_designs[] order
    Names,            \* names of bases, accelerators and user bitstreams
    UserNames,        \* names a user bitstream file may have
    Regions,          \* overlay regions a user load may name
    MAX_WATCH,        \* entries of base_designs[]
    SLOT_HANDLE_MAX,  \* entries of available_slot_handle[]
    RP_SLOTS_MAX,     \* entries of accel_list[]
    SlotsMax,         \* most slots a base design may have
    UseUserLoadPath,  \* platform.use_user_load_path (Zynq)
    IsZynqMP,         \* platform.fpga_mgr = FPGA_MGR_ZYNQMP
    MayFail,          \* may programming, rmdir and remoteproc fail?
    NULL

\* An accel_list[] entry: the _slot<N> directories it has, rpu.slot_num
\* (-1: old structure), whether it is XRT_AIE_DFX, whether a .dtbo comes
\* with it.
AccelInfo == [name: Names, slot_dirs: SUBSET Nat, slot_num: Int,
              aie: BOOLEAN, dtbo: BOOLEAN]

BasePLDesign == [name: Names, type: {"FLAT", "PL_DFX", "RPU"},
                 num_pl_slots: Nat, num_aie_slots: Nat,
                 load_base_design: BOOLEAN, dtbo: BOOLEAN,
                 accel_list: Seq(AccelInfo)]

Pkgs == 1 .. Len(Pkg)
UserIdx == (Len(Pkg) + 1) .. MAX_WATCH
Table == 1 .. MAX_WATCH
NoBase == 0                          \* a NULL active_base

Handles == 0 .. (SLOT_HANDLE_MAX - 1)
NoHandle == -1

SlotIds == 0 .. (SlotsMax - 1)
NumSlots(b) == Pkg[b].num_pl_slots + Pkg[b].num_aie_slots
SlotsOf(b) == 0 .. (NumSlots(b) - 1)
SlotInfo == [name: Names, slot_handle: Handles \cup {NoHandle}]

UserEntry == [is_user_load: BOOLEAN, name: Names \cup {NULL},
              partial: BOOLEAN, handle: Handles \cup {NoHandle},
              region: Regions \cup {NULL}]

IsFlat(b) == Pkg[b].type = "FLAT"
IsDfx(b) == Pkg[b].type = "PL_DFX"
IsRpu(b) == Pkg[b].type = "RPU"

\* Overlay directories of configfs: a user load creates one per region, the
\* user load path one per accelerator or base design.
OverlayDirs == Names \cup Regions

\* What the PL was last fully configured with: a table entry, NoBase for
\* whatever boot left there, Unknown after a load that failed half way.
Unknown == -1

\* Error replies of daemon_helper.h, negated.
LOAD_ERROR == -1
NO_PACKAGE_FOUND == -2
NO_EMPTY_SLOT == -3
SECURE_PLATFORM == -4

(***************************************************************************)
(* Assumptions on the constants.  Flat packages have their one slot        *)
(* (json-config.c, initBaseDesign; pdi-config.c, pdi_classify_base); slot  *)
(* counts fit the array alloc_base_slots allocates.                        *)
(***************************************************************************)
ASSUME TableAssumption ==
    /\ MAX_WATCH \in Nat /\ SLOT_HANDLE_MAX \in Nat /\ SlotsMax \in Nat
    /\ Len(Pkg) \in Nat /\ Len(Pkg) <= MAX_WATCH

ASSUME PkgAssumption ==
    \A b \in Pkgs :
        /\ Pkg[b].name \in Names
        /\ Pkg[b].type \in {"FLAT", "PL_DFX", "RPU"}
        /\ Pkg[b].num_pl_slots \in Nat /\ Pkg[b].num_aie_slots \in Nat
        /\ NumSlots(b) <= SlotsMax
        /\ IsFlat(b) => Pkg[b].num_pl_slots = 1
        /\ IsRpu(b) => Pkg[b].num_aie_slots = 0
        /\ Pkg[b].load_base_design \in BOOLEAN /\ Pkg[b].dtbo \in BOOLEAN
        /\ DOMAIN Pkg[b].accel_list = 1 .. Len(Pkg[b].accel_list)
        /\ Len(Pkg[b].accel_list) <= RP_SLOTS_MAX
        /\ \A j \in DOMAIN Pkg[b].accel_list :
              /\ Pkg[b].accel_list[j].name \in Names
              /\ Pkg[b].accel_list[j].slot_num \in Int
              /\ Pkg[b].accel_list[j].aie \in BOOLEAN
              /\ Pkg[b].accel_list[j].dtbo \in BOOLEAN

ASSUME FlagAssumption ==
    /\ UserNames \subseteq Names
    /\ UseUserLoadPath \in BOOLEAN /\ IsZynqMP \in BOOLEAN
    /\ ~(UseUserLoadPath /\ IsZynqMP)
    /\ MayFail \in BOOLEAN

\* NULL is no directory, no slot_info_t and no table entry.
ASSUME NullAssumption ==
    NULL \notin OverlayDirs \cup SlotInfo \cup (Table \X (SlotIds \cup {0}))

VARIABLES
    active_base,      \* platform.active_base, a table index or NoBase
    active_rpu_base,  \* platform.active_rpu_base
    active,           \* base_designs[].active
    slots,            \* base_designs[].slots[]: a slot_info_t or NULL
    slots_alloc,      \* bases whose slots array is allocated
    used_handles,     \* indices set in platform.available_slot_handle[]
    user,             \* the user load fields of base_designs[]
    overlays,         \* directories below DTBO_ROOT_DIR
    fabric,           \* what the PL is configured with
    reply             \* what the last request was answered

vars == <<active_base, active_rpu_base, active, slots, slots_alloc,
          used_handles, user, overlays, fabric, reply>>

Init ==
    /\ active_base = NoBase /\ active_rpu_base = NoBase
    /\ active = [t \in Table |-> 0]
    /\ slots = [b \in Pkgs |-> [i \in SlotIds |-> NULL]]
    /\ slots_alloc = {}
    /\ used_handles = {}
    /\ user = [u \in UserIdx |->
                 [is_user_load |-> FALSE, name |-> NULL, partial |-> FALSE,
                  handle |-> NoHandle, region |-> NULL]]
    /\ overlays = {}
    /\ fabric = NoBase
    /\ reply = 0

-----------------------------------------------------------------------------
(* Helpers of the handlers.                                                *)

\* h is what get_free_slot_handle() returns: the lowest free index, or -1.
get_free_slot_handle(h) ==
    \/ /\ h \in Handles \ used_handles
       /\ \A k \in Handles \ used_handles : h <= k
    \/ /\ Handles \subseteq used_handles
       /\ h = NoHandle

\* Faulty: index -1 is marked when no handle was free; nothing is marked.
TakenUnchecked(h) == used_handles \cup {h}
TakenUnmarked(h) == used_handles

Taken(h) == used_handles \cup ({h} \ {NoHandle})

\* slot_info_t installed in slot i of base b of the slot table s.
assign_slot(s, b, i, name, h) ==
    [s EXCEPT ![b][i] = [name |-> name, slot_handle |-> h]]

\* free(base->slots); base->slots = NULL.  A user entry has no slots array.
free_slots(s, e) ==
    [b \in Pkgs |-> IF b = e THEN [i \in SlotIds |-> NULL] ELSE s[b]]

\* Faulty: the search stops one slot early.
FindSkipsLast(b, h, i) ==
    /\ i \in SlotsOf(b) \ {NumSlots(b) - 1}
    /\ slots[b][i] # NULL
    /\ slots[b][i].slot_handle = h

\* i is the slot find_slot_from_handle(b, h) returns.
find_slot_from_handle(b, h, i) ==
    /\ i \in SlotsOf(b)
    /\ slots[b][i] # NULL
    /\ slots[b][i].slot_handle = h
    /\ \A k \in SlotsOf(b) :
          k < i => ~(slots[b][k] # NULL /\ slots[b][k].slot_handle = h)

\* Faulty: forced Partials are not looked for.
NeverExternallyManaged(base) == FALSE

is_base_externally_managed(base) ==
    /\ base = NoBase
    /\ \E u \in UserIdx : user[u].is_user_load /\ user[u].partial

\* The outcomes of programming a bitstream.  With an overlay directory dir
\* (user_load_overlay) an existing directory refuses the load and a failed
\* load removes the one it made, unless that rmdir fails too; with dir = NULL
\* the bitstream goes through sysfs or libdfx.  The fabric was configured with
\* was and is with target after success; a failure leaves was or lost.
Programmed(ov, dir, was, target, lost) ==
    IF dir \in ov
    THEN {[ok |-> FALSE, overlays |-> ov, fabric |-> was]}
    ELSE LET made == ov \cup ({dir} \ {NULL})
         IN  {[ok |-> TRUE, overlays |-> made, fabric |-> target]} \cup
             {o \in [ok: {FALSE}, overlays: {ov, made}, fabric: {was, lost}] :
                 MayFail}

ProgramFull(dir, target) == Programmed(overlays, dir, fabric, target, Unknown)

ProgramPartial(ov, dir, f) == Programmed(ov, dir, f, f, f)

\* The overlay directory user_load_from_dir() uses; libdfx keeps its own.
OverlayDir(name, dtbo) == IF UseUserLoadPath /\ dtbo THEN name ELSE NULL

\* remove_overlay_dir(): a failing rmdir is only logged.
remove_overlay_dir(ov, dir) ==
    {ov \ {dir}} \cup {o \in {ov} : MayFail}

-----------------------------------------------------------------------------
(* load_accelerator_core() for a flat package: one slot, no base design.   *)

\* Refused: something is loaded on the active base.
load_flat_busy(b) ==
    /\ active_base # NoBase /\ active[active_base] > 0
    /\ slots_alloc' = slots_alloc \cup {b}
    /\ reply' = NO_EMPTY_SLOT
    /\ UNCHANGED <<active_base, active_rpu_base, active, slots, used_handles,
                   user, overlays, fabric>>

load_flat(b) ==
    /\ ~(active_base # NoBase /\ active[active_base] > 0)
    /\ slots_alloc' = slots_alloc \cup {b}
    /\ \E o \in ProgramFull(OverlayDir(Pkg[b].name, Pkg[b].dtbo), b) :
         /\ overlays' = o.overlays /\ fabric' = o.fabric
         /\ \/ /\ ~o.ok
               /\ active' = [active EXCEPT ![b] = 0]
               /\ reply' = LOAD_ERROR
               /\ UNCHANGED <<active_base, slots, used_handles>>
            \/ /\ o.ok
               /\ active_base' = b
               /\ active' = [active EXCEPT ![b] = @ + 1]
               /\ \E h \in Handles \cup {NoHandle} :
                    /\ get_free_slot_handle(h)
                    /\ slots' = assign_slot(slots, b, 0, Pkg[b].name, h)
                    /\ used_handles' = Taken(h)
                    /\ reply' = h
    /\ UNCHANGED <<active_rpu_base, user>>

-----------------------------------------------------------------------------
(* Choosing the base and the slot of a slotted package.                    *)

\* The entry load_accelerator_core() finds for a name: the last match.
AccelEntry(b, name, j) ==
    /\ j \in DOMAIN Pkg[b].accel_list
    /\ Pkg[b].accel_list[j].name = name
    /\ \A k \in DOMAIN Pkg[b].accel_list :
          Pkg[b].accel_list[k].name = name => k <= j

\* cur is the active base of b's kind (PL or RPU).
Evicted(cur, b) ==       \* idle and of another package: it is dropped
    IF cur # NoBase /\ active[cur] = 0 /\ cur # b THEN cur ELSE NoBase

\* Faulty: the check is missing; a single design does not count.
MismatchNever(cur, b) == FALSE
MismatchAboveOne(cur, b) == cur # NoBase /\ active[cur] > 1 /\ cur # b

Mismatch(cur, b) ==      \* in use and of another package: refused
    cur # NoBase /\ active[cur] > 0 /\ cur # b

NeedsBase(cur, b) == cur = NoBase \/ Evicted(cur, b) # NoBase

SwitchTo(cur, b) == IF NeedsBase(cur, b) THEN b ELSE cur

\* Faulty: the slots array of the new base is not allocated.
AllocMissing(cur, b) == slots_alloc \ {Evicted(cur, b)}

AllocAfter(cur, b) ==
    (slots_alloc \ {Evicted(cur, b)}) \cup
    {e \in {b} : NeedsBase(cur, b)}

\* Slots an accelerator with these _slot<N> directories may take.
Fitting(b, dirs) == {i \in SlotsOf(b) : slots[b][i] = NULL /\ i \in dirs}

FirstFit(b, dirs, i) ==
    i \in Fitting(b, dirs) /\ \A k \in Fitting(b, dirs) : i <= k

(* load_accelerator_core() for a PL_DFX package.                           *)

\* Faulty: the base design is not loaded after another base was evicted.
BaseOutcomesKept(b) ==
    IF active_base = NoBase /\ Pkg[b].load_base_design
    THEN ProgramFull(OverlayDir(Pkg[b].name, Pkg[b].dtbo), b)
    ELSE {[ok |-> TRUE, overlays |-> overlays, fabric |-> fabric]}

\* Outcomes of loading the base design, where that is called for.
BaseOutcomes(b) ==
    IF NeedsBase(active_base, b) /\ Pkg[b].load_base_design
    THEN ProgramFull(OverlayDir(Pkg[b].name, Pkg[b].dtbo), b)
    ELSE {[ok |-> TRUE, overlays |-> overlays, fabric |-> fabric]}

load_dfx_mismatch(b) ==
    /\ Mismatch(active_base, b)
    /\ reply' = LOAD_ERROR
    /\ UNCHANGED <<active_base, active_rpu_base, active, slots, slots_alloc,
                   used_handles, user, overlays, fabric>>

load_dfx_base_fails(b) ==
    /\ ~Mismatch(active_base, b)
    /\ \E o \in BaseOutcomes(b) :
         /\ ~o.ok
         /\ overlays' = o.overlays /\ fabric' = o.fabric
    /\ active_base' = NoBase
    /\ slots' = free_slots(slots, Evicted(active_base, b))
    /\ slots_alloc' = slots_alloc \ {Evicted(active_base, b)}
    /\ active' = [active EXCEPT ![b] = 0]
    /\ reply' = LOAD_ERROR
    /\ UNCHANGED <<active_rpu_base, used_handles, user>>

\* The base is there; the accelerator finds no slot, is an AIE design, or
\* fails to load.  The base stays active.
load_dfx_slot_fails(b, a) ==
    /\ ~Mismatch(active_base, b)
    /\ \E o \in BaseOutcomes(b) :
         /\ o.ok
         /\ fabric' = o.fabric
         /\ \/ /\ Fitting(b, a.slot_dirs) = {}
               /\ overlays' = o.overlays
               /\ reply' = NO_EMPTY_SLOT
            \/ /\ Fitting(b, a.slot_dirs) # {} /\ a.aie
               /\ overlays' = o.overlays
               /\ reply' = LOAD_ERROR
            \/ /\ Fitting(b, a.slot_dirs) # {} /\ ~a.aie
               /\ \E p \in ProgramPartial(o.overlays,
                                          OverlayDir(a.name, a.dtbo), o.fabric) :
                    ~p.ok /\ overlays' = p.overlays
               /\ reply' = LOAD_ERROR
    /\ active_base' = SwitchTo(active_base, b)
    /\ slots' = free_slots(slots, Evicted(active_base, b))
    /\ slots_alloc' = AllocAfter(active_base, b)
    /\ UNCHANGED <<active_rpu_base, active, used_handles, user>>

load_dfx(b, a) ==
    /\ ~Mismatch(active_base, b)
    /\ ~a.aie
    /\ \E o \in BaseOutcomes(b) :
         /\ o.ok
         /\ fabric' = o.fabric
         /\ \E p \in ProgramPartial(o.overlays,
                                    OverlayDir(a.name, a.dtbo), o.fabric) :
              p.ok /\ overlays' = p.overlays
    /\ active_base' = SwitchTo(active_base, b)
    /\ slots_alloc' = AllocAfter(active_base, b)
    /\ active' = [active EXCEPT ![SwitchTo(active_base, b)] = @ + 1]
    /\ \E i \in SlotIds, h \in Handles \cup {NoHandle} :
         /\ FirstFit(b, a.slot_dirs, i)
         /\ get_free_slot_handle(h)
         /\ slots' = assign_slot(free_slots(slots, Evicted(active_base, b)),
                                 b, i, a.name, h)
         /\ used_handles' = Taken(h)
         /\ reply' = h
    /\ UNCHANGED <<active_rpu_base, user>>

-----------------------------------------------------------------------------
(* load_accelerator_core() for an RPU package.  There is no base design to *)
(* load, and remove_base() of an RPU base fails on its zero cfg id.        *)

\* Faulty: validate_rpu_slot_availability() does not look at the slot.
RpuSlotOccupied(b, a, i) ==
    \/ a.slot_num >= 0 /\ i = a.slot_num /\ i < Pkg[b].num_pl_slots
    \/ a.slot_num < 0 /\ FirstFit(b, a.slot_dirs, i)

\* Slot i is where firmware a goes: its own slot in the new structure, the
\* first free one with a _slot<N> directory in the old one.
RpuSlot(b, a, i) ==
    \/ /\ a.slot_num >= 0
       /\ i = a.slot_num
       /\ i < Pkg[b].num_pl_slots       \* validate_rpu_slot_availability()
       /\ slots[b][i] = NULL
    \/ /\ a.slot_num < 0
       /\ FirstFit(b, a.slot_dirs, i)

rpu_mismatch(b) ==
    /\ Mismatch(active_rpu_base, b)
    /\ reply' = LOAD_ERROR
    /\ UNCHANGED <<active_base, active_rpu_base, active, slots, slots_alloc,
                   used_handles, user, overlays, fabric>>

rpu_slot_fails(b, a) ==
    /\ ~Mismatch(active_rpu_base, b)
    /\ \/ /\ \A i \in SlotIds : ~RpuSlot(b, a, i)
          /\ reply' = NO_EMPTY_SLOT
       \/ /\ \E i \in SlotIds : RpuSlot(b, a, i)
          /\ MayFail
          /\ reply' = LOAD_ERROR
    /\ active_rpu_base' = SwitchTo(active_rpu_base, b)
    /\ slots' = free_slots(slots, Evicted(active_rpu_base, b))
    /\ slots_alloc' = AllocAfter(active_rpu_base, b)
    /\ UNCHANGED <<active_base, active, used_handles, user, overlays, fabric>>

\* finalize_rpu_slot_setup() installs the slot whatever handle it gets;
\* active counts it only with a handle.
load_rpu_slot(b, a) ==
    /\ ~Mismatch(active_rpu_base, b)
    /\ active_rpu_base' = SwitchTo(active_rpu_base, b)
    /\ slots_alloc' = AllocAfter(active_rpu_base, b)
    /\ \E i \in SlotIds, h \in Handles \cup {NoHandle} :
         /\ RpuSlot(b, a, i)
         /\ get_free_slot_handle(h)
         /\ slots' = assign_slot(free_slots(slots, Evicted(active_rpu_base, b)),
                                 b, i, a.name, h)
         /\ used_handles' = Taken(h)
         /\ active' = IF h >= 0
                      THEN [active EXCEPT ![SwitchTo(active_rpu_base, b)] = @ + 1]
                      ELSE active
         /\ reply' = h
    /\ UNCHANGED <<active_base, user, overlays, fabric>>

-----------------------------------------------------------------------------
(* The load requests.                                                      *)

refuse(code) ==
    /\ reply' = code
    /\ UNCHANGED <<active_base, active_rpu_base, active, slots, slots_alloc,
                   used_handles, user, overlays, fabric>>

load_accelerator_core(b, name) ==
    \/ /\ ~IsRpu(b) /\ is_base_externally_managed(active_base)
       /\ refuse(LOAD_ERROR)
    \/ /\ IsFlat(b) /\ ~is_base_externally_managed(active_base)
       /\ load_flat_busy(b) \/ load_flat(b)
    \/ /\ ~IsFlat(b) /\ \A j \in DOMAIN Pkg[b].accel_list : ~AccelEntry(b, name, j)
       /\ IsRpu(b) \/ ~is_base_externally_managed(active_base)
       /\ refuse(LOAD_ERROR)
    \/ /\ IsDfx(b) /\ ~is_base_externally_managed(active_base)
       /\ \E j \in DOMAIN Pkg[b].accel_list :
            /\ AccelEntry(b, name, j)
            /\ \/ load_dfx_mismatch(b)
               \/ load_dfx_base_fails(b)
               \/ load_dfx_slot_fails(b, Pkg[b].accel_list[j])
               \/ load_dfx(b, Pkg[b].accel_list[j])
    \/ /\ IsRpu(b)
       /\ \E j \in DOMAIN Pkg[b].accel_list :
            /\ AccelEntry(b, name, j)
            /\ \/ rpu_mismatch(b)
               \/ rpu_slot_fails(b, Pkg[b].accel_list[j])
               \/ load_rpu_slot(b, Pkg[b].accel_list[j])

\* The packages whose own name or an accelerator's name is name.
Matches(name) ==
    {b \in Pkgs : \/ Pkg[b].name = name
                  \/ \E j \in DOMAIN Pkg[b].accel_list :
                        Pkg[b].accel_list[j].name = name}

\* LOAD_ACCEL, LOAD_ACCEL_BY_NAME: the first match of findBaseDesign().  A
\* user entry of that name comes later in the table and has no accelerators.
load_accelerator(name) ==
    \/ \E b \in Matches(name) :
         /\ \A c \in Matches(name) : b <= c
         /\ load_accelerator_core(b, name)
    \/ /\ Matches(name) = {}
       /\ refuse(IF \E u \in UserIdx : user[u].is_user_load /\ user[u].name = name
                 THEN LOAD_ERROR ELSE NO_PACKAGE_FOUND)

\* LOAD_ACCEL_BY_ID of the ID shown for entry j of package b: the ID picks
\* the package, the entry's name is looked up again.
load_accelerator_by_id(b, j) ==
    /\ Pkg[b].num_pl_slots > 0          \* else it has no ID
    /\ load_accelerator_core(b, Pkg[b].accel_list[j].name)

-----------------------------------------------------------------------------
(* User bitstreams.                                                        *)

\* Faulty: the region stays recorded.
ClearRegionMissing(us, r) == us

\* Clears user_load_region of the first entry that records region r.
ClearRegion(us, r) ==
    [u \in UserIdx |->
        IF us[u].region = r /\ \A v \in UserIdx : v < u => us[v].region # r
        THEN [us[u] EXCEPT !.region = NULL]
        ELSE us[u]]

\* user_unload_overlay(r) on user table us: directory and entry outcomes.
UnloadedOverlay(us, ov, r) ==
    IF r \in ov
    THEN [user: {ClearRegion(us, r)}, overlays: remove_overlay_dir(ov, r)]
    ELSE {[user |-> us, overlays |-> ov]}

\* USER_UNLOAD: remove the overlay of a region, keep the design.
user_unload_overlay(r) ==
    /\ \E o \in UnloadedOverlay(user, overlays, r) :
         user' = o.user /\ overlays' = o.overlays
    /\ reply' = 0
    /\ UNCHANGED <<active_base, active_rpu_base, active, slots, slots_alloc,
                   used_handles, fabric>>

\* Faulty: a Full may replace a user Full.
UserLoadBlockedNotByFull(partial) ==
    /\ active_base # NoBase
    /\ \/ active_base \in UserIdx /\ active[active_base] >= MAX_WATCH
       \/ /\ active_base \in Pkgs
          /\ IsFlat(active_base) \/ active[active_base] > 0

\* What stands in the way of a user load before anything is changed.
UserLoadBlocked(partial) ==
    /\ active_base # NoBase
    /\ \/ /\ active_base \in UserIdx
          /\ ~partial \/ active[active_base] >= MAX_WATCH
       \/ /\ active_base \in Pkgs
          /\ IsFlat(active_base) \/ active[active_base] > 0

\* An idle PL_DFX base is removed before the other checks.
UserLoadEvicts == IF active_base \in Pkgs THEN active_base ELSE NoBase
BaseAfterEvict == IF active_base \in Pkgs THEN NoBase ELSE active_base

\* Refused after the eviction: a Partial with no base and no --force, a Full
\* under a forced Partial, a message without its files.
UserLoadRefused(partial, force, kind) ==
    \/ partial /\ BaseAfterEvict = NoBase /\ ~force
    \/ ~partial /\ is_base_externally_managed(BaseAfterEvict)
    \/ kind = "incomplete"

FreeEntries == {u \in UserIdx : ~user[u].is_user_load}

evict_for_user_load ==
    /\ slots' = free_slots(slots, UserLoadEvicts)
    /\ slots_alloc' = slots_alloc \ {UserLoadEvicts}
    /\ UNCHANGED active_rpu_base

\* Where a user bitstream leaves the fabric: a Partial leaves it alone.
UserProgram(partial, region, target) ==
    IF partial THEN ProgramPartial(overlays, region, fabric)
               ELSE ProgramFull(region, target)

user_load_fails(partial, region) ==
    /\ \E o \in UserProgram(partial, region, Unknown) :
         ~o.ok /\ overlays' = o.overlays /\ fabric' = o.fabric
    /\ active_base' = BaseAfterEvict
    /\ reply' = LOAD_ERROR
    /\ UNCHANGED <<active, used_handles, user>>

\* Programmed, but base_designs[] is full: the overlay is taken back.
user_load_table_full(partial, region) ==
    /\ FreeEntries = {}
    /\ \E o \in UserProgram(partial, region, Unknown) :
         /\ o.ok /\ fabric' = o.fabric
         /\ \/ /\ region # NULL
               /\ \E c \in UnloadedOverlay(user, o.overlays, region) :
                    user' = c.user /\ overlays' = c.overlays
            \/ /\ region = NULL
               /\ overlays' = o.overlays /\ UNCHANGED user
    /\ active_base' = BaseAfterEvict
    /\ reply' = LOAD_ERROR
    /\ UNCHANGED <<active, used_handles>>

user_load_registers(name, partial, region) ==
    /\ \E u \in FreeEntries, h \in Handles \cup {NoHandle} :
         /\ \A v \in FreeEntries : u <= v
         /\ get_free_slot_handle(h)
         /\ \E o \in UserProgram(partial, region, u) :
              o.ok /\ overlays' = o.overlays /\ fabric' = o.fabric
         /\ user' = [user EXCEPT ![u] =
                       [is_user_load |-> TRUE, name |-> name,
                        partial |-> partial, handle |-> h, region |-> region]]
         /\ used_handles' = Taken(h)
         /\ reply' = h
         /\ active_base' = IF partial THEN BaseAfterEvict ELSE u
         /\ active' = [t \in Table |->
                         IF t = u THEN 0
                         ELSE IF partial /\ t = BaseAfterEvict THEN active[t] + 1
                         ELSE active[t]]

\* USER_LOAD.  region is NULL for a bitstream without overlay; kind tells a
\* request with secure-load flags and one with a file missing from others.
user_load(name, partial, force, kind, region) ==
    \/ /\ kind = "secure" /\ ~IsZynqMP
       /\ refuse(SECURE_PLATFORM)
    \/ /\ kind = "secure" => IsZynqMP
       /\ UserLoadBlocked(partial)
       /\ refuse(LOAD_ERROR)
    \/ /\ kind = "secure" => IsZynqMP
       /\ ~UserLoadBlocked(partial)
       /\ evict_for_user_load
       /\ \/ /\ UserLoadRefused(partial, force, kind)
             /\ active_base' = BaseAfterEvict
             /\ reply' = LOAD_ERROR
             /\ UNCHANGED <<active, used_handles, user, overlays, fabric>>
          \/ /\ ~UserLoadRefused(partial, force, kind)
             /\ \/ user_load_fails(partial, region)
                \/ user_load_table_full(partial, region)
                \/ user_load_registers(name, partial, region)

\* user_unload() of entry u.
user_unload(u) ==
    \/ /\ ~user[u].partial /\ active_base = u /\ active[u] > 0
       /\ refuse(LOAD_ERROR)
    \/ /\ ~(~user[u].partial /\ active_base = u /\ active[u] > 0)
       /\ \E o \in IF user[u].region # NULL
                   THEN UnloadedOverlay(user, overlays, user[u].region)
                   ELSE {[user |-> user, overlays |-> overlays]} :
            /\ overlays' = o.overlays
            /\ user' = [o.user EXCEPT ![u].is_user_load = FALSE,
                                      ![u].name = NULL,
                                      ![u].handle = NoHandle]
       /\ active' = [t \in Table |-> IF user[u].partial /\ t = active_base
                                     THEN active[t] - 1 ELSE active[t]]
       /\ active_base' = IF ~user[u].partial /\ active_base = u
                         THEN NoBase ELSE active_base
       /\ used_handles' = used_handles \ {user[u].handle}
       /\ reply' = 0
       /\ UNCHANGED <<active_rpu_base, slots, slots_alloc, fabric>>

-----------------------------------------------------------------------------
(* The unload requests.                                                    *)

\* UNLOAD_ACCEL of "base" or -1, UNLOAD_ACCEL_BY_ID of 0.  libdfx refuses a
\* base it never loaded (load_base_design "no").
unload_accel_base ==
    \/ /\ active_base = NoBase \/ active_base \in UserIdx
       /\ refuse(LOAD_ERROR)
    \/ /\ active_base \in Pkgs
       /\ ~IsDfx(active_base) \/ active[active_base] # 0
       /\ refuse(LOAD_ERROR)
    \/ /\ active_base \in Pkgs /\ IsDfx(active_base) /\ active[active_base] = 0
       /\ ~UseUserLoadPath /\ (MayFail \/ ~Pkg[active_base].load_base_design)
       /\ refuse(LOAD_ERROR)
    \/ /\ active_base \in Pkgs /\ IsDfx(active_base) /\ active[active_base] = 0
       /\ \/ /\ ~UseUserLoadPath /\ Pkg[active_base].load_base_design
             /\ UNCHANGED overlays
          \/ /\ UseUserLoadPath
             /\ overlays' \in remove_overlay_dir(overlays, Pkg[active_base].name)
       /\ slots' = free_slots(slots, active_base)
       /\ slots_alloc' = slots_alloc \ {active_base}
       /\ active_base' = NoBase
       /\ reply' = 0
       /\ UNCHANGED <<active_rpu_base, active, used_handles, user, fabric>>

\* The slot is freed and its handle released even when remoteproc refuses.
unload_rpu_slot(h, i) ==
    /\ find_slot_from_handle(active_rpu_base, h, i)
    /\ slots' = [slots EXCEPT ![active_rpu_base][i] = NULL]
    /\ used_handles' = used_handles \ {h}
    /\ active' = [active EXCEPT ![active_rpu_base] = @ - 1]
    /\ reply' \in {0} \cup {r \in {LOAD_ERROR} : MayFail}
    /\ UNCHANGED <<active_base, active_rpu_base, slots_alloc, user, overlays,
                   fabric>>

unload_pl_slot(h, i) ==
    /\ find_slot_from_handle(active_base, h, i)
    /\ overlays' \in IF UseUserLoadPath
                     THEN remove_overlay_dir(overlays, slots[active_base][i].name)
                     ELSE {overlays}
    /\ slots' = [slots EXCEPT ![active_base][i] = NULL]
    /\ used_handles' = used_handles \ {h}
    /\ active' = [active EXCEPT ![active_base] = @ - 1]
    /\ active_base' = IF IsFlat(active_base) THEN NoBase ELSE active_base
    /\ reply' = 0
    /\ UNCHANGED <<active_rpu_base, slots_alloc, user, fabric>>

\* A user entry has no slots for find_slot_from_handle() to search.
InRpuSlot(h) == /\ active_rpu_base # NoBase
                /\ \E i \in SlotIds : find_slot_from_handle(active_rpu_base, h, i)
InPlSlot(h) == /\ active_base \in Pkgs
               /\ \E i \in SlotIds : find_slot_from_handle(active_base, h, i)
InUser(h) == \E u \in UserIdx : user[u].is_user_load /\ user[u].handle = h

\* UNLOAD_ACCEL, UNLOAD_ACCEL_BY_HANDLE with handle h.
unload_accelerator(h) ==
    \/ \E u \in UserIdx :
         /\ user[u].is_user_load /\ user[u].handle = h
         /\ \A v \in UserIdx : v < u => ~(user[v].is_user_load /\ user[v].handle = h)
         /\ user_unload(u)
    \/ /\ ~InUser(h) /\ InRpuSlot(h)
       /\ \E i \in SlotIds : unload_rpu_slot(h, i)
    \/ /\ ~InUser(h) /\ ~InRpuSlot(h) /\ InPlSlot(h)
       /\ \E i \in SlotIds : unload_pl_slot(h, i)
    \/ /\ ~InUser(h) /\ ~InRpuSlot(h) /\ ~InPlSlot(h)
       /\ refuse(LOAD_ERROR)

\* h is the handle of the first slot of base b that holds name.
HandleInBase(b, name, h) ==
    \E i \in SlotsOf(b) :
        /\ slots[b][i] # NULL /\ slots[b][i].name = name
        /\ \A k \in SlotsOf(b) :
              k < i => ~(slots[b][k] # NULL /\ slots[b][k].name = name)
        /\ h = slots[b][i].slot_handle

BaseHolds(b, name) ==
    /\ b \in Pkgs
    /\ \E i \in SlotsOf(b) : slots[b][i] # NULL /\ slots[b][i].name = name

UserHolds(u, name) == user[u].is_user_load /\ user[u].name = name

\* h is what find_slot_handle_by_name() returns: RPU slots, then user
\* entries, then PL slots.
find_slot_handle_by_name(name, h) ==
    \/ /\ BaseHolds(active_rpu_base, name)
       /\ HandleInBase(active_rpu_base, name, h)
    \/ /\ ~BaseHolds(active_rpu_base, name)
       /\ \E u \in UserIdx :
            /\ UserHolds(u, name)
            /\ \A v \in UserIdx : v < u => ~UserHolds(v, name)
            /\ h = user[u].handle
    \/ /\ ~BaseHolds(active_rpu_base, name)
       /\ \A u \in UserIdx : ~UserHolds(u, name)
       /\ BaseHolds(active_base, name)
       /\ HandleInBase(active_base, name, h)
    \/ /\ ~BaseHolds(active_rpu_base, name)
       /\ \A u \in UserIdx : ~UserHolds(u, name)
       /\ ~BaseHolds(active_base, name)
       /\ h = NoHandle

unload_accelerator_by_name(name) ==
    \E h \in Handles \cup {NoHandle} :
        /\ find_slot_handle_by_name(name, h)
        /\ \/ h >= 0 /\ unload_accelerator(h)
           \/ h < 0 /\ refuse(LOAD_ERROR)

\* UNLOAD_ACCEL_BY_ID of the ID shown for entry j of package b: the first
\* slot of b that holds a design of that name.  The ID of a user entry leads
\* to its handle, hence to unload_accelerator(h).
unload_accelerator_by_id(b, j) ==
    /\ Pkg[b].num_pl_slots > 0
    /\ LET name == Pkg[b].accel_list[j].name
       IN  \/ \E h \in Handles : /\ HandleInBase(b, name, h)
                                 /\ unload_accelerator(h)
           \/ /\ \A h \in Handles : ~HandleInBase(b, name, h)
              /\ refuse(LOAD_ERROR)

-----------------------------------------------------------------------------
Next ==
    \/ \E name \in Names : load_accelerator(name)
    \/ \E b \in Pkgs : \E j \in DOMAIN Pkg[b].accel_list :
          \/ load_accelerator_by_id(b, j)
          \/ unload_accelerator_by_id(b, j)
    \/ \E name \in UserNames, region \in Regions \cup {NULL},
          partial, force \in BOOLEAN, kind \in {"plain", "secure", "incomplete"} :
          user_load(name, partial, force, kind, region)
    \/ \E r \in OverlayDirs : user_unload_overlay(r)
    \/ unload_accel_base
    \/ \E h \in Handles : unload_accelerator(h)
    \/ \E name \in Names : unload_accelerator_by_name(name)

Spec == Init /\ [][Next]_vars

-----------------------------------------------------------------------------
(***************************************************************************)
(* Properties.                                                             *)
(***************************************************************************)

\* Whatever is loaded: a slot <<b, i>> of a package or a user entry <<u, 0>>.
SlotHolders == {x \in Pkgs \X SlotIds : slots[x[1]][x[2]] # NULL}
UserHolders == {x \in UserIdx \X {0} : user[x[1]].is_user_load}
Holders == SlotHolders \cup UserHolders

HandleOf(x) == IF x[1] \in Pkgs THEN slots[x[1]][x[2]].slot_handle
                                ELSE user[x[1]].handle

Occupied(b) == {i \in SlotIds : slots[b][i] # NULL}
Counted(b) == {i \in Occupied(b) : IsRpu(b) => slots[b][i].slot_handle # NoHandle}
Partials == {u \in UserIdx : user[u].is_user_load /\ user[u].partial}

\* The variables keep their types; active_base is a PL package or a Full user
\* entry, active_rpu_base an RPU package.
TypeOK ==
    /\ active_base \in {NoBase} \cup UserIdx \cup {b \in Pkgs : ~IsRpu(b)}
    /\ active_rpu_base \in {NoBase} \cup {b \in Pkgs : IsRpu(b)}
    /\ active \in [Table -> Int]
    /\ slots \in [Pkgs -> [SlotIds -> SlotInfo \cup {NULL}]]
    /\ slots_alloc \subseteq Pkgs
    /\ used_handles \subseteq Handles
    /\ user \in [UserIdx -> UserEntry]
    /\ overlays \subseteq OverlayDirs
    /\ fabric \in Table \cup {NoBase, Unknown}
    /\ reply \in Int

\* No slot handle is lost and none is given out twice: the indices set in
\* available_slot_handle[] are exactly the handles of what is loaded, across
\* PL slots, RPU slots and user entries, and no two of those share one.
HandleTable ==
    /\ used_handles = {HandleOf(x) : x \in Holders} \ {NoHandle}
    /\ \A x, y \in Holders :
          HandleOf(x) = HandleOf(y) /\ HandleOf(x) # NoHandle => x = y

\* Whatever occupies a slot can be found by its handle: only the active PL
\* base and the active RPU base hold designs, in slots that
\* find_slot_from_handle() searches.  A base is never dropped with a design
\* still in it, except an RPU firmware that got no handle.
OnlyActiveHolds ==
    \A x \in SlotHolders :
        /\ x[1] = (IF IsRpu(x[1]) THEN active_rpu_base ELSE active_base)
        /\ x[2] \in SlotsOf(x[1])

\* base->active, on which every decision to evict or refuse a base rests, is
\* the number of designs in the base's slots (those with a handle, on an RPU
\* base), through failed loads, evictions and unloads alike.
ActiveCounts == \A b \in Pkgs : active[b] = Cardinality(Counted(b))

\* A user Full is never unloaded or replaced under its Partials: while it is
\* the active base its active counts exactly the Partials loaded, and Partials
\* exist only on such a Full or on an externally managed base.
PartialAccounting ==
    /\ active_base \in UserIdx =>
          /\ user[active_base].is_user_load /\ ~user[active_base].partial
          /\ active[active_base] = Cardinality(Partials)
    /\ Partials # {} => active_base \in UserIdx \cup {NoBase}

\* The slots array of an active base is allocated whenever a handler indexes
\* it, and a freed array held no design.
SlotsAllocated ==
    /\ active_base \in Pkgs => active_base \in slots_alloc
    /\ active_rpu_base # NoBase => active_rpu_base \in slots_alloc
    /\ \A b \in Pkgs : Occupied(b) # {} => b \in slots_alloc

\* A region recorded in a user entry has its overlay directory and belongs to
\* that entry alone, so that unloading one design never removes the overlay
\* of another (platforms that load packages through libdfx).
RegionOwner ==
    ~UseUserLoadPath =>
        \A u \in UserIdx : user[u].region # NULL =>
            /\ user[u].region \in overlays
            /\ \A v \in UserIdx : user[v].region = user[u].region => v = u

\* The design the daemon takes for the active base is the one in the PL: a
\* partial bitstream is never loaded over a foreign or broken static shell
\* (bases that dfx-mgr loads itself).
FabricMatches ==
    active_base # NoBase =>
        \/ fabric = active_base
        \/ /\ active_base \in Pkgs
           /\ IsDfx(active_base) /\ ~Pkg[active_base].load_base_design

\* What sits on the PL base: designs in PL slots and user Partials.
OnPl == {x \in SlotHolders : ~IsRpu(x[1])} \cup
        {x \in UserHolders : user[x[1]].partial}

\* The base is never exchanged under a design that stays loaded on it.
BaseStable == [][(OnPl \cap OnPl') # {} => active_base' = active_base]_vars

\* The design each handle names, as the clients see it.
PoolOf == [h \in Handles |->
             IF \E x \in Holders : HandleOf(x) = h
             THEN CHOOSE x \in Holders : HandleOf(x) = h ELSE NULL]

Pool == INSTANCE HandlePool WITH pool <- PoolOf,
                                 Designs <- Table \X (SlotIds \cup {0})

\* The daemon implements the handle pool: every request of every kind is an
\* acquisition of the lowest free handle, a release of one, or neither.
ImplementsPool == Pool!PoolSpec

-----------------------------------------------------------------------------
(***************************************************************************)
(* What the documentation and the comments say, where the code disagrees.  *)
(***************************************************************************)

\* "Resolves the ID to the exact base design ... bypassing name-based lookup
\* to avoid ambiguity when multiple accelerators share the same name"
\* (load_accelerator_by_id): firmware loaded by ID runs in its own slot.
ByIdTakesItsSlot ==
    [][\A b \in Pkgs : \A j \in DOMAIN Pkg[b].accel_list :
          LET n == Pkg[b].accel_list[j].slot_num IN
          /\ IsRpu(b) /\ n \in SlotsOf(b)
          /\ load_accelerator_by_id(b, j) /\ reply' >= 0
          => slots'[b][n] # NULL /\ slots'[b][n].slot_handle = reply']_vars

\* "For DFX designs, the base/static shell will be loaded automatically if not
\* already loaded when loading an accelerator.  The accelerator will then be
\* loaded to one of the free slots" (README): with no base active, no forced
\* Partial and no failure, the load goes through.
BaseLoadsOnDemand ==
    [][\A b \in Pkgs : \A j \in DOMAIN Pkg[b].accel_list :
          /\ ~MayFail /\ IsDfx(b) /\ ~Pkg[b].accel_list[j].aie
          /\ active_base = NoBase /\ Partials = {}
          /\ load_accelerator_by_id(b, j)
          => reply' # LOAD_ERROR]_vars

=============================================================================
