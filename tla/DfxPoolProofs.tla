--------------------------- MODULE DfxPoolProofs ---------------------------
(***************************************************************************)
(* What a request may do to the designs that are loaded, for every set of  *)
(* packages: the daemon implements HandlePool, the base is never exchanged *)
(* under a design that stays, and the PL holds what the daemon believes.   *)
(*                                                                         *)
(* Every step is of one of five kinds.  The kinds speak of slots and user  *)
(* entries one by one; what they make of PoolOf follows from the handles   *)
(* being exact, which DfxHandleProofs shows.                               *)
(***************************************************************************)
EXTENDS DfxHandleProofs

\* Nothing is loaded or unloaded, but for firmware without a handle.
Quiet == AllKept /\ SameUsers /\ reply' <= 0

LoadsSlot(b, i, h) ==
    /\ slots[b][i] = NULL /\ slots'[b][i] # NULL /\ slots'[b][i].slot_handle = h
    /\ get_free_slot_handle(h) /\ reply' = h
    /\ KeptBut(b, i) /\ SameUsers

LoadsUser(u, h) ==
    /\ ~user[u].is_user_load /\ user'[u].is_user_load /\ user'[u].handle = h
    /\ get_free_slot_handle(h) /\ reply' = h
    /\ AllKept /\ SameBut(u)

UnloadsSlot(b, i, h) ==
    /\ slots[b][i] # NULL /\ slots[b][i].slot_handle = h
    /\ slots'[b][i] = NULL /\ reply' <= 0
    /\ KeptBut(b, i) /\ SameUsers

UnloadsUser(u) ==
    /\ user[u].is_user_load /\ ~user'[u].is_user_load /\ reply' <= 0
    /\ AllKept /\ SameBut(u)

Loads == \E h \in Handles \cup {NoHandle} :
            \/ \E b \in Pkgs, i \in SlotIds : LoadsSlot(b, i, h)
            \/ \E u \in UserIdx : LoadsUser(u, h)

Unloads == \/ \E b \in Pkgs, i \in SlotIds, h \in Handles : UnloadsSlot(b, i, h)
           \/ \E u \in UserIdx : UnloadsUser(u)

\* The base changes only while there is no Partial.
BaseKept == active_base' = active_base \/ Partials = {}

StepKind == (Quiet \/ Loads \/ Unloads) /\ BaseKept

-----------------------------------------------------------------------------
(* The kind of every request.                                              *)

LEMMA QuietKind ==
    ASSUME slots' = slots, user' = user, reply' <= 0, BaseKept
    PROVE  StepKind
  BY DEF StepKind, Quiet, AllKept, Kept, SameUsers, SameUser

LEMMA RefuseKind ==
    ASSUME NEW code \in Int, code <= 0, refuse(code)
    PROVE  StepKind
  BY QuietKind DEF refuse, BaseKept

LEMMA Codes ==
    /\ LOAD_ERROR \in Int /\ LOAD_ERROR <= 0
    /\ NO_EMPTY_SLOT \in Int /\ NO_EMPTY_SLOT <= 0
    /\ NO_PACKAGE_FOUND \in Int /\ NO_PACKAGE_FOUND <= 0
    /\ SECURE_PLATFORM \in Int /\ SECURE_PLATFORM <= 0
  BY DEF LOAD_ERROR, NO_EMPTY_SLOT, NO_PACKAGE_FOUND, SECURE_PLATFORM

\* assign_slot() on a slot table that differs from the current one only in
\* firmware without a handle.
LEMMA AssignKind ==
    ASSUME NEW s \in SlotTable, NEW b \in Pkgs, NEW i \in SlotIds,
           NEW name \in Names, NEW h \in Handles \cup {NoHandle},
           \A c \in Pkgs, k \in SlotIds :
              \/ s[c][k] = slots[c][k]
              \/ s[c][k] = NULL /\ IsRpu(c) /\ slots[c][k].slot_handle = NoHandle,
           slots[b][i] = NULL, get_free_slot_handle(h),
           slots' = assign_slot(s, b, i, name, h), user' = user,
           reply' = h, BaseKept
    PROVE  StepKind
  <1>1. slots'[b][i] = [name |-> name, slot_handle |-> h]
    BY DEF assign_slot, SlotTable
  <1>2. [name |-> name, slot_handle |-> h] \in SlotInfo
    BY DEF SlotInfo
  <1>3. slots'[b][i] # NULL /\ slots'[b][i].slot_handle = h
    BY <1>1, <1>2, NullAssumption
  <1>4. \A c \in Pkgs, k \in SlotIds : c # b \/ k # i => slots'[c][k] = s[c][k]
    BY DEF assign_slot, SlotTable
  <1>5. KeptBut(b, i)
    BY <1>4 DEF KeptBut, Kept
  <1>6. SameUsers
    BY DEF SameUsers, SameUser
  <1>7. LoadsSlot(b, i, h)
    BY <1>3, <1>5, <1>6 DEF LoadsSlot
  <1>8. QED
    BY <1>7 DEF StepKind, Loads

LEMMA LoadFlatKind ==
    ASSUME IInv, NEW b \in Pkgs, IsFlat(b),
           ~is_base_externally_managed(active_base),
           load_flat_busy(b) \/ load_flat(b)
    PROVE  StepKind
  <1>1. CASE load_flat_busy(b)
    BY <1>1, Codes, QuietKind DEF load_flat_busy, BaseKept
  <1>2. CASE load_flat(b)
    <2>1. /\ \A c \in Pkgs, i \in SlotIds : ~IsRpu(c) => slots[c][i] = NULL
          /\ Partials = {}
      BY <1>2, PlIdle DEF load_flat
    <2>2. BaseKept /\ user' = user
      BY <1>2, <2>1 DEF BaseKept, load_flat
    <2>3. CASE slots' = slots /\ reply' = LOAD_ERROR
      BY <2>2, <2>3, Codes, QuietKind
    <2>4. ASSUME NEW h \in Handles \cup {NoHandle}, get_free_slot_handle(h),
                 slots' = assign_slot(slots, b, 0, Pkg[b].name, h), reply' = h
          PROVE  StepKind
      <3>1. 0 \in SlotIds /\ Pkg[b].name \in Names /\ ~IsRpu(b)
        BY PkgFacts
      <3>2. slots[b][0] = NULL /\ slots \in SlotTable
        BY <2>1, <3>1 DEF IInv, TypeOK, SlotTable
      <3>3. QED
        BY <2>2, <2>4, <3>1, <3>2, AssignKind, Zenon
    <2>5. QED
      BY <1>2, <2>3, <2>4, Zenon DEF load_flat
  <1>3. QED
    BY <1>1, <1>2

LEMMA LoadDfxKind ==
    ASSUME IInv, NEW b \in Pkgs, IsDfx(b),
           ~is_base_externally_managed(active_base),
           NEW a, a.name \in Names,
           \/ load_dfx_mismatch(b) \/ load_dfx_base_fails(b)
           \/ load_dfx_slot_fails(b, a) \/ load_dfx(b, a)
    PROVE  StepKind
  <1>1. ~IsRpu(b)
    BY PkgFacts
  <1>2. CASE load_dfx_mismatch(b)
    BY <1>2, Codes, QuietKind DEF load_dfx_mismatch, BaseKept
  <1>3. ASSUME ~Mismatch(active_base, b)
        PROVE  /\ free_slots(slots, Evicted(active_base, b)) = slots
               /\ Partials = {}
    BY <1>1, <1>3, PlSwitch
  <1>4. CASE load_dfx_base_fails(b)
    BY <1>3, <1>4, Codes, QuietKind DEF load_dfx_base_fails, BaseKept
  <1>5. CASE load_dfx_slot_fails(b, a)
    BY <1>3, <1>5, Codes, QuietKind DEF load_dfx_slot_fails, BaseKept
  <1>6. CASE load_dfx(b, a)
    <2>1. ~Mismatch(active_base, b) /\ user' = user
      BY <1>6 DEF load_dfx
    <2>2. PICK i \in SlotIds, h \in Handles \cup {NoHandle} :
            /\ FirstFit(b, a.slot_dirs, i)
            /\ get_free_slot_handle(h)
            /\ slots' = assign_slot(free_slots(slots, Evicted(active_base, b)),
                                    b, i, a.name, h)
            /\ reply' = h
      BY <1>6, Zenon DEF load_dfx
    <2>3. slots[b][i] = NULL
      BY <2>2 DEF FirstFit, Fitting
    <2>4. slots' = assign_slot(slots, b, i, a.name, h) /\ BaseKept
      BY <1>3, <2>1, <2>2 DEF BaseKept
    <2>5. slots \in SlotTable
      BY DEF IInv, TypeOK, SlotTable
    <2>6. QED
      BY <2>1, <2>2, <2>3, <2>4, <2>5, AssignKind, Zenon
  <1>7. QED
    BY <1>2, <1>4, <1>5, <1>6

LEMMA LoadRpuKind ==
    ASSUME IInv, NEW b \in Pkgs, IsRpu(b), NEW a, a.name \in Names,
           rpu_mismatch(b) \/ rpu_slot_fails(b, a) \/ load_rpu_slot(b, a)
    PROVE  StepKind
  <1>1. CASE rpu_mismatch(b)
    BY <1>1, Codes, QuietKind DEF rpu_mismatch, BaseKept
  <1> DEFINE s == free_slots(slots, Evicted(active_rpu_base, b))
  <1>2. s \in SlotTable
    BY FreeSlotsType DEF IInv, TypeOK, SlotTable
  <1>3. ASSUME ~Mismatch(active_rpu_base, b)
        PROVE  \A c \in Pkgs, k \in SlotIds :
                 \/ s[c][k] = slots[c][k]
                 \/ s[c][k] = NULL /\ IsRpu(c) /\ slots[c][k].slot_handle = NoHandle
    BY <1>3, RpuSwitch
  <1> HIDE DEF s
  <1>4. CASE rpu_slot_fails(b, a)
    <2>1. /\ ~Mismatch(active_rpu_base, b) /\ slots' = s /\ user' = user
          /\ reply' <= 0 /\ BaseKept
      BY <1>4, Codes DEF rpu_slot_fails, s, BaseKept
    <2>2. QED
      BY <1>3, <2>1 DEF StepKind, Quiet, AllKept, Kept, SameUsers, SameUser
  <1>5. CASE load_rpu_slot(b, a)
    <2>1. ~Mismatch(active_rpu_base, b) /\ user' = user /\ BaseKept
      BY <1>5 DEF load_rpu_slot, BaseKept
    <2>2. PICK i \in SlotIds, h \in Handles \cup {NoHandle} :
            /\ RpuSlot(b, a, i)
            /\ get_free_slot_handle(h)
            /\ slots' = assign_slot(s, b, i, a.name, h)
            /\ reply' = h
      BY <1>5, Zenon DEF load_rpu_slot, s
    <2>3. slots[b][i] = NULL
      BY <2>2, RpuSlotFree
    <2>4. QED
      BY <1>2, <1>3, <2>1, <2>2, <2>3, AssignKind, Zenon
  <1>6. QED
    BY <1>1, <1>4, <1>5

\* Taking an overlay away loads and unloads nothing.
LEMMA OverlaySame ==
    ASSUME IInv, NEW ov, NEW r, NEW o \in UnloadedOverlay(user, ov, r), user' = o.user
    PROVE  SameUsers
  BY OverlayView DEF IInv, SameUsers, SameUser

LEMMA UserLoadKind ==
    ASSUME IInv, NEW name \in Names, NEW partial \in BOOLEAN, NEW force,
           NEW kind, NEW region \in Regions \cup {NULL},
           user_load(name, partial, force, kind, region)
    PROVE  StepKind
  <1>1. CASE refuse(SECURE_PLATFORM) \/ refuse(LOAD_ERROR)
    BY <1>1, Codes, RefuseKind
  <1>2. ASSUME ~UserLoadBlocked(partial), evict_for_user_load
        PROVE  /\ AllKept
               /\ BaseAfterEvict = active_base \/ Partials = {}
    <2>1. slots' = slots
      BY <1>2, UserEvicts
    <2>2. BaseAfterEvict = active_base \/ active_base \in Pkgs
      BY DEF BaseAfterEvict
    <2>3. active_base \in Pkgs => Partials = {}
      BY Constants DEF IInv, PartialAccounting
    <2>4. QED
      BY <2>1, <2>2, <2>3 DEF AllKept, Kept
  <1>3. CASE /\ ~UserLoadBlocked(partial) /\ evict_for_user_load
             /\ active_base' = BaseAfterEvict /\ reply' = LOAD_ERROR
             /\ UNCHANGED user
    BY <1>2, <1>3, Codes DEF StepKind, Quiet, BaseKept, SameUsers, SameUser
  <1>4. CASE /\ ~UserLoadBlocked(partial) /\ evict_for_user_load
             /\ user_load_table_full(partial, region)
    <2>1. active_base' = BaseAfterEvict /\ reply' = LOAD_ERROR
      BY <1>4 DEF user_load_table_full
    <2>2. \/ UNCHANGED user
          \/ \E ov : \E c \in UnloadedOverlay(user, ov, region) : user' = c.user
      BY <1>4, Zenon DEF user_load_table_full
    <2>3. SameUsers
      <3>1. CASE UNCHANGED user
        BY <3>1 DEF SameUsers, SameUser
      <3>2. CASE \E ov : \E c \in UnloadedOverlay(user, ov, region) : user' = c.user
        BY <3>2, OverlaySame, Zenon
      <3>3. QED
        BY <2>2, <3>1, <3>2
    <2>4. QED
      BY <1>2, <1>4, <2>1, <2>3, Codes DEF StepKind, Quiet, BaseKept
  <1>5. CASE /\ ~UserLoadBlocked(partial) /\ evict_for_user_load
             /\ ~UserLoadRefused(partial, force, kind)
             /\ user_load_registers(name, partial, region)
    <2>1. PICK u \in FreeEntries, h \in Handles \cup {NoHandle} :
            /\ get_free_slot_handle(h)
            /\ user' = [user EXCEPT ![u] =
                          [is_user_load |-> TRUE, name |-> name,
                           partial |-> partial, handle |-> h, region |-> region]]
            /\ reply' = h
            /\ active_base' = IF partial THEN BaseAfterEvict ELSE u
      BY <1>5, Zenon DEF user_load_registers
    <2>2. u \in UserIdx /\ ~user[u].is_user_load
      BY DEF FreeEntries
    <2>3. user'[u] = [is_user_load |-> TRUE, name |-> name,
                      partial |-> partial, handle |-> h, region |-> region]
      BY <2>1, <2>2 DEF IInv, TypeOK
    <2>4. user'[u].is_user_load /\ user'[u].handle = h
      BY <2>3
    <2>5. SameBut(u)
      BY <2>1 DEF IInv, TypeOK, SameBut, SameUser
    <2>6. LoadsUser(u, h)
      BY <1>2, <1>5, <2>1, <2>2, <2>4, <2>5 DEF LoadsUser
    <2>7. ~partial => Partials = {}
      <3>1. ~partial => active_base \notin UserIdx
        BY <1>5, Constants DEF UserLoadBlocked
      <3>2. active_base \notin UserIdx => BaseAfterEvict = NoBase
        BY DEF BaseAfterEvict, IInv, TypeOK
      <3>3. ~partial => ~is_base_externally_managed(BaseAfterEvict)
        BY <1>5 DEF UserLoadRefused
      <3>4. QED
        BY <3>1, <3>2, <3>3 DEF is_base_externally_managed, Partials
    <2>8. BaseKept
      BY <1>2, <1>5, <2>1, <2>7 DEF BaseKept
    <2>9. QED
      BY <2>2, <2>6, <2>8 DEF StepKind, Loads
  <1>6. QED
    BY <1>1, <1>3, <1>4, <1>5, Zenon DEF user_load, user_load_fails

LEMMA UnloadOverlayKind ==
    ASSUME IInv, NEW r, user_unload_overlay(r)
    PROVE  StepKind
  <1>1. PICK o \in UnloadedOverlay(user, overlays, r) : user' = o.user
    BY DEF user_unload_overlay
  <1>2. SameUsers
    BY <1>1, OverlaySame
  <1>3. QED
    BY <1>2 DEF user_unload_overlay, StepKind, Quiet, BaseKept, AllKept, Kept

LEMMA UserUnloadKind ==
    ASSUME IInv, NEW u \in UserIdx, user[u].is_user_load, user_unload(u)
    PROVE  StepKind
  <1>1. CASE refuse(LOAD_ERROR)
    BY <1>1, Codes, RefuseKind
  <1>2. CASE ~refuse(LOAD_ERROR)
    <2>1. /\ ~(~user[u].partial /\ active_base = u /\ active[u] > 0)
          /\ active_base' = IF ~user[u].partial /\ active_base = u
                            THEN NoBase ELSE active_base
          /\ reply' = 0 /\ slots' = slots
      BY <1>2 DEF user_unload
    <2>2. PICK o \in IF user[u].region # NULL
                     THEN UnloadedOverlay(user, overlays, user[u].region)
                     ELSE {[user |-> user, overlays |-> overlays]} :
            user' = [o.user EXCEPT ![u].is_user_load = FALSE,
                                   ![u].name = NULL,
                                   ![u].handle = NoHandle]
      BY <1>2, Zenon DEF user_unload
    <2>3. user \in UserTable /\ overlays \in SUBSET OverlayDirs
      BY DEF IInv, TypeOK, UserTable
    <2>4. /\ o.user \in UserTable
          /\ \A v \in UserIdx :
                /\ o.user[v].is_user_load = user[v].is_user_load
                /\ o.user[v].partial = user[v].partial
                /\ o.user[v].handle = user[v].handle
      <3>1. CASE user[u].region # NULL
        <4>1. o \in UnloadedOverlay(user, overlays, user[u].region)
          BY <3>1, <2>2
        <4>2. o.user \in UserTable
          BY <4>1, <2>3, UnloadedOverlayType, Zenon
        <4>3. QED
          BY <4>1, <4>2, OverlayView DEF IInv
      <3>2. CASE user[u].region = NULL
        BY <3>2, <2>2, <2>3
      <3>3. QED
        BY <3>1, <3>2
    <2>5. o.user[u] \in UserEntry
      BY <2>4 DEF UserTable
    <2>6. ~user'[u].is_user_load
      BY <2>2, <2>4, <2>5 DEF UserTable, UserEntry
    <2>7. \A v \in UserIdx : v # u => user'[v] = o.user[v]
      BY <2>2, <2>4 DEF UserTable
    <2>8. SameBut(u) /\ AllKept
      BY <2>1, <2>4, <2>7 DEF SameBut, SameUser, AllKept, Kept
    <2>9. UnloadsUser(u)
      BY <2>1, <2>6, <2>8 DEF UnloadsUser
    <2>10. BaseKept
      <3>1. CASE ~user[u].partial /\ active_base = u
        <4>1. active[u] = Cardinality(Partials) /\ Cardinality(Partials) \in Nat
          BY <3>1, PartialsFinite DEF IInv, PartialAccounting
        <4>2. Cardinality(Partials) = 0
          BY <2>1, <3>1, <4>1
        <4>3. QED
          BY <4>2, PartialsFinite, FS_EmptySet DEF BaseKept
      <3>2. CASE ~(~user[u].partial /\ active_base = u)
        BY <2>1, <3>2 DEF BaseKept
      <3>3. QED
        BY <3>1, <3>2
    <2>11. QED
      BY <2>9, <2>10 DEF StepKind, Unloads
  <1>3. QED
    BY <1>1, <1>2

LEMMA UnloadBaseKind ==
    ASSUME IInv, unload_accel_base
    PROVE  StepKind
  <1>1. CASE refuse(LOAD_ERROR)
    BY <1>1, Codes, RefuseKind
  <1>2. CASE ~refuse(LOAD_ERROR)
    <2>1. /\ active_base \in Pkgs /\ active[active_base] = 0
          /\ slots' = free_slots(slots, active_base)
          /\ user' = user /\ reply' = 0
      BY <1>2 DEF unload_accel_base
    <2>2. ~IsRpu(active_base) /\ Partials = {}
      BY <2>1, Constants DEF IInv, TypeOK, PartialAccounting
    <2>3. slots' = slots
      BY <2>1, <2>2, FreeIdle
    <2>4. QED
      BY <2>1, <2>2, <2>3, QuietKind DEF BaseKept
  <1>3. QED
    BY <1>1, <1>2

LEMMA UnloadSlotKind ==
    ASSUME IInv, NEW h \in Handles, NEW i \in SlotIds,
           \/ active_rpu_base # NoBase /\ unload_rpu_slot(h, i)
           \/ active_base \in Pkgs /\ unload_pl_slot(h, i)
    PROVE  StepKind
  <1>1. ASSUME NEW b \in Pkgs, slots[b][i] # NULL, slots[b][i].slot_handle = h,
               slots' = [slots EXCEPT ![b][i] = NULL], user' = user,
               reply' <= 0, BaseKept
        PROVE  StepKind
    <2>1. slots \in [Pkgs -> [SlotIds -> SlotInfo \cup {NULL}]]
      BY DEF IInv, TypeOK
    <2>2. slots'[b][i] = NULL
      BY <1>1, <2>1
    <2>3. KeptBut(b, i)
      BY <1>1, <2>1 DEF KeptBut, Kept
    <2>4. SameUsers
      BY <1>1 DEF SameUsers, SameUser
    <2>5. UnloadsSlot(b, i, h)
      BY <1>1, <2>2, <2>3, <2>4 DEF UnloadsSlot
    <2>6. QED
      BY <1>1, <2>5 DEF StepKind, Unloads
  <1>2. CASE active_rpu_base # NoBase /\ unload_rpu_slot(h, i)
    <2>1. active_rpu_base \in Pkgs
      BY <1>2 DEF IInv, TypeOK
    <2>2. slots[active_rpu_base][i] # NULL /\ slots[active_rpu_base][i].slot_handle = h
      BY <1>2 DEF unload_rpu_slot, find_slot_from_handle
    <2>3. /\ slots' = [slots EXCEPT ![active_rpu_base][i] = NULL]
          /\ user' = user /\ reply' <= 0 /\ BaseKept
      BY <1>2, Codes DEF unload_rpu_slot, BaseKept
    <2>4. QED
      BY <1>1, <2>1, <2>2, <2>3, Zenon
  <1>3. CASE active_base \in Pkgs /\ unload_pl_slot(h, i)
    <2>1. slots[active_base][i] # NULL /\ slots[active_base][i].slot_handle = h
      BY <1>3 DEF unload_pl_slot, find_slot_from_handle
    <2>2. Partials = {}
      BY <1>3, Constants DEF IInv, PartialAccounting
    <2>3. /\ slots' = [slots EXCEPT ![active_base][i] = NULL]
          /\ user' = user /\ reply' <= 0 /\ BaseKept
      BY <1>3, <2>2 DEF unload_pl_slot, BaseKept
    <2>4. QED
      BY <1>1, <1>3, <2>1, <2>3, Zenon
  <1>4. QED
    BY <1>2, <1>3

LEMMA UnloadKind ==
    ASSUME IInv, NEW h \in Handles, unload_accelerator(h)
    PROVE  StepKind
  <1>1. CASE \E u \in UserIdx : user[u].is_user_load /\ user_unload(u)
    BY <1>1, UserUnloadKind
  <1>2. CASE \E i \in SlotIds :
                \/ active_rpu_base # NoBase /\ unload_rpu_slot(h, i)
                \/ active_base \in Pkgs /\ unload_pl_slot(h, i)
    BY <1>2, UnloadSlotKind, Zenon
  <1>3. CASE refuse(LOAD_ERROR)
    BY <1>3, Codes, RefuseKind
  <1>4. QED
    BY <1>1, <1>2, <1>3, Zenon DEF unload_accelerator, InRpuSlot, InPlSlot

LEMMA CoreKind ==
    ASSUME IInv, NEW b \in Pkgs, NEW name, load_accelerator_core(b, name)
    PROVE  StepKind
  <1>1. CASE refuse(LOAD_ERROR)
    BY <1>1, Codes, RefuseKind
  <1>2. CASE /\ IsFlat(b) /\ ~is_base_externally_managed(active_base)
             /\ load_flat_busy(b) \/ load_flat(b)
    BY <1>2, LoadFlatKind
  <1>3. CASE /\ IsDfx(b) /\ ~is_base_externally_managed(active_base)
             /\ \E j \in DOMAIN Pkg[b].accel_list :
                  \/ load_dfx_mismatch(b) \/ load_dfx_base_fails(b)
                  \/ load_dfx_slot_fails(b, Pkg[b].accel_list[j])
                  \/ load_dfx(b, Pkg[b].accel_list[j])
    BY <1>3, AccelType, LoadDfxKind, Zenon
  <1>4. CASE /\ IsRpu(b)
             /\ \E j \in DOMAIN Pkg[b].accel_list :
                  \/ rpu_mismatch(b) \/ rpu_slot_fails(b, Pkg[b].accel_list[j])
                  \/ load_rpu_slot(b, Pkg[b].accel_list[j])
    BY <1>4, AccelType, LoadRpuKind, Zenon
  <1>5. QED
    BY <1>1, <1>2, <1>3, <1>4, Zenon DEF load_accelerator_core

\* Every request of every kind.
LEMMA NextKind ==
    ASSUME IInv, Next
    PROVE  StepKind
  <1>1. ASSUME NEW name \in Names, load_accelerator(name)
        PROVE  StepKind
    <2>1. CASE \E b \in Pkgs : load_accelerator_core(b, name)
      BY <2>1, CoreKind
    <2>2. CASE \E code \in {LOAD_ERROR, NO_PACKAGE_FOUND} : refuse(code)
      BY <2>2, Codes, RefuseKind
    <2>3. QED
      BY <1>1, <2>1, <2>2 DEF load_accelerator, Matches
  <1>2. ASSUME NEW b \in Pkgs, NEW j \in DOMAIN Pkg[b].accel_list,
               load_accelerator_by_id(b, j)
        PROVE  StepKind
    BY <1>2, CoreKind, Zenon DEF load_accelerator_by_id
  <1>3. ASSUME NEW b \in Pkgs, NEW j \in DOMAIN Pkg[b].accel_list,
               unload_accelerator_by_id(b, j)
        PROVE  StepKind
    BY <1>3, Codes, UnloadKind, RefuseKind, Zenon DEF unload_accelerator_by_id
  <1>4. ASSUME NEW name \in UserNames, NEW region \in Regions \cup {NULL},
               NEW partial \in BOOLEAN, NEW force \in BOOLEAN,
               NEW kind \in {"plain", "secure", "incomplete"},
               user_load(name, partial, force, kind, region)
        PROVE  StepKind
    <2>1. name \in Names
      BY FlagAssumption
    <2>2. QED
      BY <1>4, <2>1, UserLoadKind, Zenon
  <1>5. ASSUME NEW r \in OverlayDirs, user_unload_overlay(r)
        PROVE  StepKind
    BY <1>5, UnloadOverlayKind
  <1>6. ASSUME NEW name \in Names, unload_accelerator_by_name(name)
        PROVE  StepKind
    <2>1. PICK h \in Handles \cup {NoHandle} :
             \/ h >= 0 /\ unload_accelerator(h)
             \/ h < 0 /\ refuse(LOAD_ERROR)
      BY <1>6 DEF unload_accelerator_by_name
    <2>2. h >= 0 => h \in Handles
      BY DEF NoHandle
    <2>3. QED
      BY <2>1, <2>2, Codes, UnloadKind, RefuseKind
  <1>7. QED
    BY <1>1, <1>2, <1>3, <1>4, <1>5, <1>6, UnloadBaseKind, UnloadKind, Zenon DEF Next

-----------------------------------------------------------------------------
(* The base under a design that stays.                                     *)

\* The PL base is never exchanged under a design in one of its slots or under
\* a user Partial that the request leaves loaded, by no load, eviction or
\* failure of any request.
THEOREM BaseNeverExchanged == Spec => BaseStable
  <1>1. ASSUME IInv, IInv', Next, OnPl \cap OnPl' # {}
        PROVE  active_base' = active_base
    <2>1. PICK x : x \in OnPl /\ x \in OnPl'
      BY <1>1
    <2>2. CASE x[1] \in Pkgs
      <3>1. x[1] \notin UserIdx
        BY <2>2, Constants
      <3>2. /\ x[2] \in SlotIds /\ ~IsRpu(x[1])
            /\ slots[x[1]][x[2]] # NULL /\ slots'[x[1]][x[2]] # NULL
        BY <2>1, <3>1 DEF OnPl, SlotHolders, UserHolders
      <3>3. active_base = x[1] /\ active_base' = x[1]
        BY <1>1, <2>2, <3>2 DEF IInv, SlotsPlaced, SlotPlaced
      <3>4. QED
        BY <3>3
    <2>3. CASE x[1] \notin Pkgs
      <3>1. x[1] \in UserIdx /\ user[x[1]].is_user_load /\ user[x[1]].partial
        BY <2>1, <2>3 DEF OnPl, SlotHolders, UserHolders
      <3>2. Partials # {}
        BY <3>1 DEF Partials
      <3>3. QED
        BY <1>1, <3>2, NextKind DEF StepKind, BaseKept
    <2>4. QED
      BY <2>2, <2>3
  <1>2. IInv /\ IInv' /\ [Next]_vars
           => [OnPl \cap OnPl' # {} => active_base' = active_base]_vars
    BY <1>1
  <1>3. QED
    BY <1>2, Inductive, PTL DEF Spec, BaseStable

-----------------------------------------------------------------------------
(* The handle pool.                                                        *)

\* Design x is loaded and has handle h.
Named(x, h) ==
    \/ \E b \in Pkgs, i \in SlotIds :
          x = <<b, i>> /\ slots[b][i] # NULL /\ slots[b][i].slot_handle = h
    \/ \E u \in UserIdx :
          x = <<u, 0>> /\ user[u].is_user_load /\ user[u].handle = h

LEMMA NamedHolder ==
    ASSUME NEW x, NEW h
    PROVE  Named(x, h) <=> x \in Holders /\ HandleOf(x) = h
  <1>1. ASSUME Named(x, h) PROVE x \in Holders /\ HandleOf(x) = h
    <2>1. CASE \E b \in Pkgs, i \in SlotIds :
                  x = <<b, i>> /\ slots[b][i] # NULL /\ slots[b][i].slot_handle = h
      BY <2>1 DEF Holders, SlotHolders, HandleOf
    <2>2. CASE \E u \in UserIdx :
                  x = <<u, 0>> /\ user[u].is_user_load /\ user[u].handle = h
      BY <2>2, Constants DEF Holders, UserHolders, HandleOf
    <2>3. QED
      BY <1>1, <2>1, <2>2 DEF Named
  <1>2. ASSUME x \in Holders, HandleOf(x) = h PROVE Named(x, h)
    <2>1. CASE x \in SlotHolders
      BY <1>2, <2>1 DEF SlotHolders, HandleOf, Named
    <2>2. CASE x \in UserHolders
      <3>1. /\ x[1] \in UserIdx /\ x[2] = 0 /\ user[x[1]].is_user_load
            /\ x = <<x[1], x[2]>>
        BY <2>2 DEF UserHolders
      <3>2. x[1] \notin Pkgs
        BY <3>1, Constants
      <3>3. QED
        BY <1>2, <3>1, <3>2 DEF HandleOf, Named
    <2>3. QED
      BY <1>2, <2>1, <2>2 DEF Holders
  <1>3. QED
    BY <1>1, <1>2

\* A design is a table entry with a slot, so it is not NULL, and has one handle.
LEMMA NamedDesign ==
    ASSUME NEW x, NEW h, Named(x, h)
    PROVE  /\ x \in Table \X (SlotIds \cup {0}) /\ x # NULL
           /\ \A g : Named(x, g) => g = h
  <1>1. x \in Table \X (SlotIds \cup {0})
    BY Constants DEF Named
  <1>2. x # NULL
    BY <1>1, NullAssumption
  <1>3. \A g : Named(x, g) => g = h
    BY NamedHolder
  <1>4. QED
    BY <1>1, <1>2, <1>3

\* PoolOf is the function from a handle to the design it names.
PoolExact ==
    /\ PoolOf = [h \in Handles |-> PoolOf[h]]
    /\ \A h \in Handles : \A x : Named(x, h) => PoolOf[h] = x
    /\ \A h \in Handles : (\A x : ~Named(x, h)) => PoolOf[h] = NULL
    /\ \A h \in Handles : h \in used_handles <=> PoolOf[h] # NULL

LEMMA PoolOfIs == HandleTable => PoolExact
  <1> SUFFICES ASSUME HandleTable PROVE PoolExact
    OBVIOUS
  <1>1. PoolOf = [h \in Handles |-> PoolOf[h]]
    BY DEF PoolOf
  <1>2. ASSUME NEW h \in Handles, NEW x, Named(x, h)
        PROVE  PoolOf[h] = x
    <2>1. x \in Holders /\ HandleOf(x) = h /\ h # NoHandle
      BY <1>2, NamedHolder, Constants
    <2>2. \A y \in Holders : HandleOf(y) = h => y = x
      BY <2>1 DEF HandleTable
    <2>3. PoolOf[h] = CHOOSE y \in Holders : HandleOf(y) = h
      BY <2>1 DEF PoolOf
    <2>4. QED
      BY <2>1, <2>2, <2>3
  <1>3. ASSUME NEW h \in Handles, \A x : ~Named(x, h)
        PROVE  PoolOf[h] = NULL
    BY <1>3, NamedHolder DEF PoolOf
  <1>4. ASSUME NEW h \in Handles
        PROVE  h \in used_handles <=> \E x : Named(x, h)
    <2>1. h # NoHandle
      BY Constants
    <2>2. h \in used_handles <=> \E x \in Holders : HandleOf(x) = h
      BY <2>1 DEF HandleTable
    <2>3. QED
      BY <2>2, NamedHolder
  <1>5. \A h \in Handles : h \in used_handles <=> PoolOf[h] # NULL
    BY <1>2, <1>3, <1>4, NamedDesign
  <1>6. QED
    BY <1>1, <1>2, <1>3, <1>5 DEF PoolExact

\* What the five kinds of step make of the names.
LEMMA NamedQuiet ==
    ASSUME Quiet, NEW x, NEW h \in Handles
    PROVE  Named(x, h)' <=> Named(x, h)
  <1>1. h # NoHandle
    BY Constants
  <1>2. QED
    BY <1>1 DEF Quiet, AllKept, Kept, SameUsers, SameUser, Named

LEMMA NamedLoadSlot ==
    ASSUME NEW b \in Pkgs, NEW i \in SlotIds, NEW h, LoadsSlot(b, i, h),
           NEW x, NEW g \in Handles
    PROVE  /\ Named(x, g)' <=> Named(x, g) \/ (x = <<b, i>> /\ g = h)
           /\ ~Named(<<b, i>>, g)
  <1>1. g # NoHandle /\ b \notin UserIdx
    BY Constants
  <1>2. ~Named(<<b, i>>, g)
    BY <1>1 DEF Named, LoadsSlot
  <1>3. Named(x, g)' <=> Named(x, g) \/ (x = <<b, i>> /\ g = h)
    BY <1>1 DEF LoadsSlot, KeptBut, Kept, SameUsers, SameUser, Named
  <1>4. QED
    BY <1>2, <1>3

LEMMA NamedLoadUser ==
    ASSUME NEW u \in UserIdx, NEW h, LoadsUser(u, h), NEW x, NEW g \in Handles
    PROVE  /\ Named(x, g)' <=> Named(x, g) \/ (x = <<u, 0>> /\ g = h)
           /\ ~Named(<<u, 0>>, g)
  <1>1. g # NoHandle /\ u \notin Pkgs
    BY Constants
  <1>2. ~Named(<<u, 0>>, g)
    BY <1>1 DEF Named, LoadsUser
  <1>3. Named(x, g)' <=> Named(x, g) \/ (x = <<u, 0>> /\ g = h)
    BY <1>1 DEF LoadsUser, AllKept, Kept, SameBut, SameUser, Named
  <1>4. QED
    BY <1>2, <1>3

LEMMA NamedUnloadSlot ==
    ASSUME NEW b \in Pkgs, NEW i \in SlotIds, NEW h, UnloadsSlot(b, i, h),
           NEW x, NEW g \in Handles
    PROVE  /\ Named(x, g)' <=> Named(x, g) /\ x # <<b, i>>
           /\ Named(<<b, i>>, h)
  <1>1. g # NoHandle /\ b \notin UserIdx
    BY Constants
  <1>2. Named(<<b, i>>, h)
    BY DEF Named, UnloadsSlot
  <1>3. Named(x, g)' <=> Named(x, g) /\ x # <<b, i>>
    BY <1>1 DEF UnloadsSlot, KeptBut, Kept, SameUsers, SameUser, Named
  <1>4. QED
    BY <1>2, <1>3

LEMMA NamedUnloadUser ==
    ASSUME NEW u \in UserIdx, UnloadsUser(u), NEW x, NEW g \in Handles
    PROVE  /\ Named(x, g)' <=> Named(x, g) /\ x # <<u, 0>>
           /\ Named(<<u, 0>>, user[u].handle)
  <1>1. g # NoHandle /\ u \notin Pkgs
    BY Constants
  <1>2. Named(<<u, 0>>, user[u].handle)
    BY DEF Named, UnloadsUser
  <1>3. Named(x, g)' <=> Named(x, g) /\ x # <<u, 0>>
    BY <1>1 DEF UnloadsUser, AllKept, Kept, SameBut, SameUser, Named
  <1>4. QED
    BY <1>2, <1>3

-----------------------------------------------------------------------------
(* Each kind of step is a step of HandlePool.                              *)

LEMMA PoolQuiet ==
    ASSUME PoolExact, PoolExact', Quiet
    PROVE  Pool!PoolNext
  <1>1. \A h \in Handles : PoolOf'[h] = PoolOf[h]
    <2> SUFFICES ASSUME NEW h \in Handles PROVE PoolOf'[h] = PoolOf[h]
      OBVIOUS
    <2>1. \A x : Named(x, h)' <=> Named(x, h)
      BY NamedQuiet
    <2>2. QED
      BY <2>1 DEF PoolExact
  <1>2. PoolOf' = PoolOf
    BY <1>1 DEF PoolExact
  <1>3. QED
    BY <1>2 DEF Pool!PoolNext, Pool!Other, Quiet

\* A design d that had no handle gets the lowest free one.
LEMMA PoolAcquire ==
    ASSUME PoolExact, PoolExact', NEW d \in Table \X (SlotIds \cup {0}),
           NEW h \in Handles, get_free_slot_handle(h), reply' = h,
           \A g \in Handles : ~Named(d, g),
           \A x : \A g \in Handles :
              Named(x, g)' <=> Named(x, g) \/ (x = d /\ g = h)
    PROVE  Pool!PoolNext
  <1>1. /\ h \notin used_handles
        /\ \A k \in Handles : k \notin used_handles => h <= k
    BY Constants DEF get_free_slot_handle
  <1>2. /\ PoolOf[h] = NULL
        /\ \A k \in Handles : PoolOf[k] = NULL => h <= k
    BY <1>1 DEF PoolExact
  <1>3. d # NULL
    BY NullAssumption
  <1>4. \A k \in Handles : PoolOf[k] # d
    <2> SUFFICES ASSUME NEW k \in Handles, PoolOf[k] = d PROVE FALSE
      OBVIOUS
    <2>1. PICK x : Named(x, k)
      BY <1>3 DEF PoolExact
    <2>2. QED
      BY <2>1 DEF PoolExact
  <1>5. \A x : ~Named(x, h)
    BY <1>2, NamedDesign DEF PoolExact
  <1>6. PoolOf'[h] = d
    BY DEF PoolExact
  <1>7. \A k \in Handles : k # h => PoolOf'[k] = PoolOf[k]
    <2> SUFFICES ASSUME NEW k \in Handles, k # h PROVE PoolOf'[k] = PoolOf[k]
      OBVIOUS
    <2>1. \A x : Named(x, k)' <=> Named(x, k)
      OBVIOUS
    <2>2. QED
      BY <2>1 DEF PoolExact
  <1>8. PoolOf' = [PoolOf EXCEPT ![h] = d]
    BY <1>6, <1>7 DEF PoolExact
  <1>9. Pool!Acquire(h)
    BY <1>2, <1>4, <1>8 DEF Pool!Acquire
  <1>10. QED
    BY <1>9 DEF Pool!PoolNext

\* The design d named by handle h goes.
LEMMA PoolRelease ==
    ASSUME PoolExact, PoolExact', NEW d, NEW h \in Handles, Named(d, h),
           reply' <= 0,
           \A x : \A g \in Handles : Named(x, g)' <=> Named(x, g) /\ x # d
    PROVE  Pool!PoolNext
  <1>1. PoolOf[h] = d /\ d # NULL
    BY NamedDesign DEF PoolExact
  <1>2. \A x : Named(x, h) => x = d
    BY <1>1 DEF PoolExact
  <1>3. PoolOf'[h] = NULL
    BY <1>2 DEF PoolExact
  <1>4. \A k \in Handles : k # h => PoolOf'[k] = PoolOf[k]
    <2> SUFFICES ASSUME NEW k \in Handles, k # h PROVE PoolOf'[k] = PoolOf[k]
      OBVIOUS
    <2>1. ~Named(d, k)
      BY NamedDesign
    <2>2. \A x : Named(x, k)' <=> Named(x, k)
      BY <2>1
    <2>3. QED
      BY <2>2 DEF PoolExact
  <1>5. PoolOf' = [PoolOf EXCEPT ![h] = NULL]
    BY <1>3, <1>4 DEF PoolExact
  <1>6. Pool!Release(h)
    BY <1>1, <1>5 DEF Pool!Release
  <1>7. QED
    BY <1>6 DEF Pool!PoolNext

\* A design that gets no handle, or had none, does not show in the pool.
LEMMA PoolUnnamed ==
    ASSUME PoolExact, PoolExact', reply' <= 0,
           \A x : \A g \in Handles : Named(x, g)' <=> Named(x, g)
    PROVE  Pool!PoolNext
  <1>1. \A h \in Handles : PoolOf'[h] = PoolOf[h]
    BY DEF PoolExact
  <1>2. PoolOf' = PoolOf
    BY <1>1 DEF PoolExact
  <1>3. QED
    BY <1>2 DEF Pool!PoolNext, Pool!Other

LEMMA PoolStep ==
    ASSUME IInv, IInv', PoolExact, PoolExact', Next
    PROVE  Pool!PoolNext
  <1>0. Quiet \/ Loads \/ Unloads
    BY NextKind DEF StepKind
  <1>1. CASE Quiet
    BY <1>1, PoolQuiet
  <1>2. ASSUME NEW h \in Handles \cup {NoHandle}, NEW d \in Table \X (SlotIds \cup {0}),
               get_free_slot_handle(h), reply' = h,
               \A g \in Handles : ~Named(d, g),
               \A x : \A g \in Handles :
                  Named(x, g)' <=> Named(x, g) \/ (x = d /\ g = h)
        PROVE  Pool!PoolNext
    <2>1. CASE h \in Handles
      BY <1>2, <2>1, PoolAcquire, Zenon
    <2>2. CASE h = NoHandle
      <3>1. \A x : \A g \in Handles : Named(x, g)' <=> Named(x, g)
        BY <1>2, <2>2, Constants
      <3>2. reply' <= 0
        BY <1>2, <2>2 DEF NoHandle
      <3>3. QED
        BY <3>1, <3>2, PoolUnnamed
    <2>3. QED
      BY <2>1, <2>2
  <1>3. ASSUME NEW h \in Handles \cup {NoHandle}, NEW b \in Pkgs, NEW i \in SlotIds,
               LoadsSlot(b, i, h)
        PROVE  Pool!PoolNext
    <2>1. <<b, i>> \in Table \X (SlotIds \cup {0})
      BY Constants
    <2>2. get_free_slot_handle(h) /\ reply' = h
      BY <1>3 DEF LoadsSlot
    <2>3. QED
      BY <1>2, <1>3, <2>1, <2>2, NamedLoadSlot, Zenon
  <1>4. ASSUME NEW h \in Handles \cup {NoHandle}, NEW u \in UserIdx, LoadsUser(u, h)
        PROVE  Pool!PoolNext
    <2>1. <<u, 0>> \in Table \X (SlotIds \cup {0})
      BY Constants
    <2>2. get_free_slot_handle(h) /\ reply' = h
      BY <1>4 DEF LoadsUser
    <2>3. QED
      BY <1>2, <1>4, <2>1, <2>2, NamedLoadUser, Zenon
  <1>5. ASSUME NEW b \in Pkgs, NEW i \in SlotIds, NEW h \in Handles, UnloadsSlot(b, i, h)
        PROVE  Pool!PoolNext
    <2>1. Named(<<b, i>>, h) /\ reply' <= 0
      BY <1>5, NamedUnloadSlot DEF UnloadsSlot
    <2>2. \A x : \A g \in Handles : Named(x, g)' <=> Named(x, g) /\ x # <<b, i>>
      BY <1>5, NamedUnloadSlot
    <2>3. QED
      BY <2>1, <2>2, PoolRelease, Zenon
  <1>6. ASSUME NEW u \in UserIdx, UnloadsUser(u)
        PROVE  Pool!PoolNext
    <2>1. user[u].handle \in Handles \cup {NoHandle}
      BY DEF IInv, TypeOK, UserEntry
    <2>2. \A x : \A g \in Handles : Named(x, g)' <=> Named(x, g) /\ x # <<u, 0>>
      BY <1>6, NamedUnloadUser
    <2>3. reply' <= 0
      BY <1>6 DEF UnloadsUser
    <2>4. CASE user[u].handle \in Handles
      <3>1. Named(<<u, 0>>, user[u].handle)
        BY <1>6, <2>4, NamedUnloadUser
      <3>2. QED
        BY <2>2, <2>3, <2>4, <3>1, PoolRelease, Zenon
    <2>5. CASE user[u].handle = NoHandle
      <3>1. \A g \in Handles : ~Named(<<u, 0>>, g)
        BY <2>5, Constants DEF Named
      <3>2. \A x : \A g \in Handles : Named(x, g)' <=> Named(x, g)
        BY <2>2, <3>1
      <3>3. QED
        BY <2>3, <3>2, PoolUnnamed
    <2>6. QED
      BY <2>1, <2>4, <2>5
  <1>7. QED
    BY <1>0, <1>1, <1>3, <1>4, <1>5, <1>6 DEF Loads, Unloads

LEMMA PoolInitial == Init => Pool!PoolInit
  <1> SUFFICES ASSUME Init PROVE Pool!PoolInit
    OBVIOUS
  <1>1. \A h \in Handles : \A x : ~Named(x, h)
    BY DEF Init, Named
  <1>2. PoolExact
    BY IInvInit, ExactIsHandleTable, PoolOfIs DEF IInv
  <1>3. PoolOf = [h \in Handles |-> NULL]
    BY <1>1, <1>2 DEF PoolExact
  <1>4. QED
    BY <1>3 DEF Pool!PoolInit, Init

\* The daemon implements HandlePool for any packages and any number of
\* handles: whatever a request does to slots, bases, overlays and user
\* entries, its client sees the lowest free handle acquired, one handle
\* released, or the pool left alone.
THEOREM PoolImplemented == Spec => ImplementsPool
  <1>1. IInv => PoolExact
    BY ExactIsHandleTable, PoolOfIs DEF IInv
  <1>2. ASSUME IInv, IInv', PoolExact, PoolExact', [Next]_vars
        PROVE  [Pool!PoolNext]_<<PoolOf, reply>>
    <2>1. CASE Next
      BY <1>2, <2>1, PoolStep
    <2>2. CASE UNCHANGED vars
      <3>1. PoolOf' = PoolOf /\ reply' = reply
        BY <2>2 DEF vars, PoolOf, Holders, SlotHolders, UserHolders, HandleOf
      <3>2. QED
        BY <3>1
    <2>3. QED
      BY <1>2, <2>1, <2>2
  <1>3. IInv /\ IInv' /\ PoolExact /\ PoolExact' /\ [Next]_vars
           => [Pool!PoolNext]_<<PoolOf, reply>>
    BY <1>2
  <1>4. QED
    BY <1>1, <1>3, Inductive, PoolInitial, PTL DEF Spec, ImplementsPool, Pool!PoolSpec

-----------------------------------------------------------------------------
(* What the PL is configured with.                                         *)

\* FabricMatches where loads may fail: the PL holds the active base, or a load
\* that failed half way left it in pieces, but never another design.
FabricKnown ==
    active_base # NoBase =>
        \/ fabric = active_base
        \/ MayFail /\ fabric = Unknown
        \/ /\ active_base \in Pkgs
           /\ IsDfx(active_base) /\ ~Pkg[active_base].load_base_design

LEMMA ProgrammedFabric ==
    ASSUME NEW ov, NEW dir, NEW was, NEW target, NEW lost,
           NEW o \in Programmed(ov, dir, was, target, lost)
    PROVE  /\ o.ok => o.fabric = target
           /\ ~o.ok => o.fabric = was \/ (MayFail /\ o.fabric = lost)
  <1> DEFINE made == ov \cup ({dir} \ {NULL})
  <1>1. CASE dir \in ov
    BY <1>1 DEF Programmed
  <1>2. CASE dir \notin ov
    <2>1. \/ o = [ok |-> TRUE, overlays |-> made, fabric |-> target]
          \/ MayFail /\ o \in [ok: {FALSE}, overlays: {ov, made}, fabric: {was, lost}]
      BY <1>2 DEF Programmed
    <2>2. CASE o = [ok |-> TRUE, overlays |-> made, fabric |-> target]
      BY <2>2
    <2>3. CASE MayFail /\ o \in [ok: {FALSE}, overlays: {ov, made}, fabric: {was, lost}]
      <3>1. o.ok = FALSE /\ o.fabric \in {was, lost}
        BY <2>3
      <3>2. QED
        BY <2>3, <3>1
    <2>4. QED
      BY <2>1, <2>2, <2>3
  <1>3. QED
    BY <1>1, <1>2

LEMMA FullFabric ==
    ASSUME NEW dir, NEW target, NEW o \in ProgramFull(dir, target)
    PROVE  /\ o.ok => o.fabric = target
           /\ ~o.ok => o.fabric = fabric \/ (MayFail /\ o.fabric = Unknown)
  BY ProgrammedFabric DEF ProgramFull

\* A step that leaves the PL alone and keeps the base, or drops it.
LEMMA FabricSame ==
    ASSUME FabricKnown, fabric' = fabric, active_base' \in {NoBase, active_base}
    PROVE  FabricKnown'
  BY DEF FabricKnown

LEMMA LoadFlatFabric ==
    ASSUME IInv, FabricKnown, NEW b \in Pkgs, load_flat_busy(b) \/ load_flat(b)
    PROVE  FabricKnown'
  <1>1. CASE load_flat_busy(b)
    BY <1>1, FabricSame DEF load_flat_busy
  <1>2. CASE load_flat(b)
    <2>1. PICK o \in ProgramFull(OverlayDir(Pkg[b].name, Pkg[b].dtbo), b) :
            /\ fabric' = o.fabric
            /\ \/ ~o.ok /\ active_base' = active_base
               \/ o.ok /\ active_base' = b
      BY <1>2, Zenon DEF load_flat
    <2>2. /\ o.ok => o.fabric = b
          /\ ~o.ok => o.fabric = fabric \/ (MayFail /\ o.fabric = Unknown)
      BY FullFabric
    <2>3. QED
      BY <2>1, <2>2 DEF FabricKnown
  <1>3. QED
    BY <1>1, <1>2

LEMMA LoadDfxFabric ==
    ASSUME IInv, FabricKnown, NEW b \in Pkgs, IsDfx(b),
           ~is_base_externally_managed(active_base), NEW a,
           \/ load_dfx_mismatch(b) \/ load_dfx_base_fails(b)
           \/ load_dfx_slot_fails(b, a) \/ load_dfx(b, a)
    PROVE  FabricKnown'
  <1>1. CASE load_dfx_mismatch(b)
    BY <1>1, FabricSame DEF load_dfx_mismatch
  <1>2. CASE load_dfx_base_fails(b)
    BY <1>2 DEF load_dfx_base_fails, FabricKnown
  <1>3. CASE load_dfx_slot_fails(b, a) \/ load_dfx(b, a)
    <2>1. ~Mismatch(active_base, b) /\ active_base' = SwitchTo(active_base, b)
      BY <1>3 DEF load_dfx_slot_fails, load_dfx
    <2>2. PICK o \in BaseOutcomes(b) : o.ok /\ fabric' = o.fabric
      BY <1>3, Zenon DEF load_dfx_slot_fails, load_dfx
    <2>3. ~IsRpu(b)
      BY PkgFacts
    <2>4. /\ active_base' = b
          /\ ~NeedsBase(active_base, b) => active_base = b
      <3>1. /\ SwitchTo(active_base, b) = b
        BY <2>1, <2>3, PlSwitch
      <3>2. QED
        BY <2>1, <3>1 DEF SwitchTo
    <2>5. CASE NeedsBase(active_base, b) /\ Pkg[b].load_base_design
      <3>1. o \in ProgramFull(OverlayDir(Pkg[b].name, Pkg[b].dtbo), b)
        BY <2>5 DEF BaseOutcomes
      <3>2. fabric' = b
        BY <2>2, <3>1, FullFabric
      <3>3. QED
        BY <2>4, <3>2 DEF FabricKnown
    <2>6. CASE ~NeedsBase(active_base, b)
      <3>1. fabric' = fabric
        BY <2>2, <2>6 DEF BaseOutcomes
      <3>2. QED
        BY <2>4, <2>6, <3>1, FabricSame
    <2>7. CASE ~Pkg[b].load_base_design
      BY <2>4, <2>7 DEF FabricKnown
    <2>8. QED
      BY <2>5, <2>6, <2>7
  <1>4. QED
    BY <1>1, <1>2, <1>3

LEMMA UserLoadFabric ==
    ASSUME IInv, FabricKnown, NEW name, NEW partial \in BOOLEAN, NEW force,
           NEW kind, NEW region, user_load(name, partial, force, kind, region)
    PROVE  FabricKnown'
  <1>1. CASE refuse(SECURE_PLATFORM) \/ refuse(LOAD_ERROR)
    BY <1>1, FabricSame DEF refuse
  <1>2. BaseAfterEvict \in {NoBase, active_base}
    BY DEF BaseAfterEvict
  <1>3. CASE active_base' = BaseAfterEvict /\ fabric' = fabric
    BY <1>2, <1>3, FabricSame
  <1>4. \A target : \A o \in UserProgram(TRUE, region, target) : o.fabric = fabric
    BY ProgrammedFabric DEF UserProgram, ProgramPartial
  <1>5. ~UserLoadBlocked(FALSE) => BaseAfterEvict = NoBase
    BY Constants DEF UserLoadBlocked, BaseAfterEvict, IInv, TypeOK
  <1>6. CASE /\ ~UserLoadBlocked(partial)
             /\ \/ user_load_fails(partial, region)
                \/ user_load_table_full(partial, region)
    <2>1. active_base' = BaseAfterEvict
      BY <1>6 DEF user_load_fails, user_load_table_full
    <2>2. CASE partial
      <3>1. PICK o \in UserProgram(partial, region, Unknown) : fabric' = o.fabric
        BY <1>6, Zenon DEF user_load_fails, user_load_table_full
      <3>2. partial = TRUE
        BY <2>2
      <3>3. QED
        BY <1>3, <1>4, <2>1, <3>1, <3>2
    <2>3. CASE ~partial
      BY <1>5, <1>6, <2>1, <2>3 DEF FabricKnown
    <2>4. QED
      BY <2>2, <2>3
  <1>7. CASE user_load_registers(name, partial, region)
    <2>1. PICK u \in FreeEntries :
            /\ \E o \in UserProgram(partial, region, u) : o.ok /\ fabric' = o.fabric
            /\ active_base' = IF partial THEN BaseAfterEvict ELSE u
      BY <1>7, Zenon DEF user_load_registers
    <2>2. CASE partial
      BY <1>3, <1>4, <2>1, <2>2
    <2>3. CASE ~partial
      <3>1. fabric' = u
        BY <2>1, <2>3, FullFabric DEF UserProgram
      <3>2. QED
        BY <2>1, <2>3, <3>1 DEF FabricKnown
    <2>4. QED
      BY <2>2, <2>3
  <1>8. QED
    BY <1>1, <1>3, <1>6, <1>7, Zenon DEF user_load

LEMMA UnloadFabric ==
    ASSUME FabricKnown, NEW h, unload_accelerator(h)
    PROVE  FabricKnown'
  <1>1. CASE \E u \in UserIdx : user_unload(u)
    BY <1>1, FabricSame DEF user_unload, refuse
  <1>2. CASE \E i \in SlotIds : unload_rpu_slot(h, i) \/ unload_pl_slot(h, i)
    BY <1>2, FabricSame DEF unload_rpu_slot, unload_pl_slot
  <1>3. CASE refuse(LOAD_ERROR)
    BY <1>3, FabricSame DEF refuse
  <1>4. QED
    BY <1>1, <1>2, <1>3, Zenon DEF unload_accelerator

LEMMA CoreFabric ==
    ASSUME IInv, FabricKnown, NEW b \in Pkgs, NEW name, load_accelerator_core(b, name)
    PROVE  FabricKnown'
  <1>1. CASE refuse(LOAD_ERROR)
    BY <1>1, FabricSame DEF refuse
  <1>2. CASE load_flat_busy(b) \/ load_flat(b)
    BY <1>2, LoadFlatFabric
  <1>3. CASE /\ IsDfx(b) /\ ~is_base_externally_managed(active_base)
             /\ \E j \in DOMAIN Pkg[b].accel_list :
                  \/ load_dfx_mismatch(b) \/ load_dfx_base_fails(b)
                  \/ load_dfx_slot_fails(b, Pkg[b].accel_list[j])
                  \/ load_dfx(b, Pkg[b].accel_list[j])
    BY <1>3, LoadDfxFabric, Zenon
  <1>4. CASE \E a : rpu_mismatch(b) \/ rpu_slot_fails(b, a) \/ load_rpu_slot(b, a)
    BY <1>4, FabricSame DEF rpu_mismatch, rpu_slot_fails, load_rpu_slot
  <1>5. QED
    BY <1>1, <1>2, <1>3, <1>4, Zenon DEF load_accelerator_core

LEMMA FabricStep ==
    ASSUME IInv, FabricKnown, [Next]_vars
    PROVE  FabricKnown'
  <1>1. \A code : refuse(code) => FabricKnown'
    BY FabricSame DEF refuse
  <1>2. ASSUME NEW name \in Names, load_accelerator(name)
        PROVE  FabricKnown'
    BY <1>1, <1>2, CoreFabric, Zenon DEF load_accelerator, Matches
  <1>3. ASSUME NEW b \in Pkgs, NEW j \in DOMAIN Pkg[b].accel_list,
               load_accelerator_by_id(b, j) \/ unload_accelerator_by_id(b, j)
        PROVE  FabricKnown'
    BY <1>1, <1>3, CoreFabric, UnloadFabric, Zenon
       DEF load_accelerator_by_id, unload_accelerator_by_id
  <1>4. ASSUME NEW r \in OverlayDirs, user_unload_overlay(r)
        PROVE  FabricKnown'
    BY <1>4, FabricSame DEF user_unload_overlay
  <1>5. CASE unload_accel_base
    BY <1>1, <1>5, FabricSame DEF unload_accel_base
  <1>6. ASSUME NEW name \in Names, unload_accelerator_by_name(name)
        PROVE  FabricKnown'
    BY <1>1, <1>6, UnloadFabric, Zenon DEF unload_accelerator_by_name
  <1>7. CASE UNCHANGED vars
    BY <1>7, FabricSame DEF vars
  <1>8. QED
    BY <1>2, <1>3, <1>4, <1>5, <1>6, <1>7, UserLoadFabric, UnloadFabric, Zenon DEF Next

\* The PL never holds another full design than the active base, whatever
\* fails: a load that failed half way can leave it unconfigured, no more.
THEOREM FabricKept == Spec => []FabricKnown
  <1>1. Init => FabricKnown
    BY DEF Init, FabricKnown
  <1>2. IInv /\ FabricKnown /\ [Next]_vars => FabricKnown'
    BY FabricStep
  <1>3. QED
    BY Inductive, <1>1, <1>2, PTL DEF Spec

\* While no load fails half way the active base is what the PL holds, so that
\* no partial bitstream is ever loaded over a foreign static shell.
THEOREM FabricMatched ==
    ASSUME ~MayFail
    PROVE  Spec => []FabricMatches
  <1>1. FabricKnown => FabricMatches
    BY DEF FabricKnown, FabricMatches
  <1>2. QED
    BY FabricKept, <1>1, PTL

=============================================================================
