-------------------------- MODULE DfxHandleProofs --------------------------
(***************************************************************************)
(* The slot handle table of DfxDaemon is exact for every set of packages   *)
(* and every number of handles.                                            *)
(*                                                                         *)
(* HandleTable is not inductive: a base whose slots are freed must not     *)
(* hold a design with a handle, and the code decides that from             *)
(* base->active.  So the counters, and where designs may sit, are part of  *)
(* the invariant, and so are the Partials, which count on a user Full.     *)
(***************************************************************************)
EXTENDS DfxDaemonProofs

\* OnlyActiveHolds, ActiveCounts and HandleTable slot by slot.
SlotPlaced(b, i) ==
    /\ b = (IF IsRpu(b) THEN active_rpu_base ELSE active_base)
    /\ i \in SlotsOf(b)
    /\ IsFlat(b) => i = 0

HasSlot(h) == \E b \in Pkgs, i \in SlotIds :
                 slots[b][i] # NULL /\ slots[b][i].slot_handle = h
HasUser(h) == \E u \in UserIdx : user[u].is_user_load /\ user[u].handle = h

HandlesExact ==
    /\ \A h \in Handles : h \in used_handles <=> HasSlot(h) \/ HasUser(h)
    /\ \A b, c \in Pkgs, i, j \in SlotIds :
          /\ slots[b][i] # NULL /\ slots[c][j] # NULL
          /\ slots[b][i].slot_handle = slots[c][j].slot_handle
          /\ slots[b][i].slot_handle # NoHandle
          => b = c /\ i = j
    /\ \A u, v \in UserIdx :
          /\ user[u].is_user_load /\ user[v].is_user_load
          /\ user[u].handle = user[v].handle /\ user[u].handle # NoHandle
          => u = v
    /\ \A b \in Pkgs, i \in SlotIds, u \in UserIdx :
          /\ slots[b][i] # NULL /\ user[u].is_user_load
          /\ slots[b][i].slot_handle = user[u].handle
          => user[u].handle = NoHandle

SlotsPlaced == \A b \in Pkgs, i \in SlotIds : slots[b][i] # NULL => SlotPlaced(b, i)

\* The inductive invariant.
IInv == /\ TypeOK
        /\ SlotsPlaced
        /\ ActiveCounts
        /\ PartialAccounting
        /\ SlotsAllocated
        /\ HandlesExact

-----------------------------------------------------------------------------
(* IInv and the properties it stands for.                                  *)

LEMMA PlacedIsOnlyActive == SlotsPlaced => OnlyActiveHolds
  BY DEF SlotsPlaced, SlotPlaced, OnlyActiveHolds, SlotHolders

LEMMA ExactIsHandleTable == TypeOK /\ HandlesExact => HandleTable
  <1> SUFFICES ASSUME TypeOK, HandlesExact PROVE HandleTable
    OBVIOUS
  <1>1. \A b \in Pkgs, i \in SlotIds :
           slots[b][i] # NULL => slots[b][i].slot_handle \in Handles \cup {NoHandle}
    BY DEF TypeOK, SlotInfo
  <1>2. \A u \in UserIdx : user[u].handle \in Handles \cup {NoHandle}
    BY DEF TypeOK, UserEntry
  <1>3. \A x \in Holders :
           \/ /\ x[1] \in Pkgs /\ x[2] \in SlotIds /\ slots[x[1]][x[2]] # NULL
              /\ x = <<x[1], x[2]>>
              /\ HandleOf(x) = slots[x[1]][x[2]].slot_handle
           \/ /\ x[1] \in UserIdx /\ x[2] = 0 /\ user[x[1]].is_user_load
              /\ x = <<x[1], x[2]>>
              /\ HandleOf(x) = user[x[1]].handle
    <2> SUFFICES ASSUME NEW x \in Holders
                 PROVE  \/ /\ x[1] \in Pkgs /\ x[2] \in SlotIds
                           /\ slots[x[1]][x[2]] # NULL
                           /\ x = <<x[1], x[2]>>
                           /\ HandleOf(x) = slots[x[1]][x[2]].slot_handle
                        \/ /\ x[1] \in UserIdx /\ x[2] = 0
                           /\ user[x[1]].is_user_load
                           /\ x = <<x[1], x[2]>>
                           /\ HandleOf(x) = user[x[1]].handle
      OBVIOUS
    <2>1. CASE x \in SlotHolders
      BY <2>1 DEF SlotHolders, HandleOf
    <2>2. CASE x \in UserHolders
      <3>1. /\ x[1] \in UserIdx /\ x[2] = 0 /\ user[x[1]].is_user_load
            /\ x = <<x[1], x[2]>>
        BY <2>2 DEF UserHolders
      <3>2. x[1] \notin Pkgs
        BY <3>1, Constants
      <3>3. QED
        BY <3>1, <3>2 DEF HandleOf
    <2>3. QED
      BY <2>1, <2>2 DEF Holders
  <1>4. \A x \in Holders : HandleOf(x) \in Handles \cup {NoHandle}
    BY <1>1, <1>2, <1>3
  <1>5. used_handles \subseteq {HandleOf(x) : x \in Holders} \ {NoHandle}
    <2> SUFFICES ASSUME NEW h \in used_handles
                 PROVE  h # NoHandle /\ \E x \in Holders : HandleOf(x) = h
      OBVIOUS
    <2>1. h \in Handles
      BY DEF TypeOK
    <2>2. h # NoHandle
      BY <2>1, Constants
    <2>3. HasSlot(h) \/ HasUser(h)
      BY <2>1 DEF HandlesExact
    <2>4. CASE HasSlot(h)
      <3>1. PICK b \in Pkgs, i \in SlotIds :
               slots[b][i] # NULL /\ slots[b][i].slot_handle = h
        BY <2>4 DEF HasSlot
      <3>2. <<b, i>> \in Holders /\ HandleOf(<<b, i>>) = h
        BY <3>1 DEF Holders, SlotHolders, HandleOf
      <3>3. QED
        BY <2>2, <3>2
    <2>5. CASE HasUser(h)
      <3>1. PICK u \in UserIdx : user[u].is_user_load /\ user[u].handle = h
        BY <2>5 DEF HasUser
      <3>2. <<u, 0>> \in Holders /\ HandleOf(<<u, 0>>) = h
        BY <3>1, Constants DEF Holders, UserHolders, HandleOf
      <3>3. QED
        BY <2>2, <3>2
    <2>6. QED
      BY <2>3, <2>4, <2>5
  <1>6. {HandleOf(x) : x \in Holders} \ {NoHandle} \subseteq used_handles
    <2> SUFFICES ASSUME NEW x \in Holders, HandleOf(x) # NoHandle
                 PROVE  HandleOf(x) \in used_handles
      OBVIOUS
    <2>1. HandleOf(x) \in Handles
      BY <1>4
    <2>2. HasSlot(HandleOf(x)) \/ HasUser(HandleOf(x))
      BY <1>3 DEF HasSlot, HasUser
    <2>3. QED
      BY <2>1, <2>2 DEF HandlesExact
  <1>7. \A x, y \in Holders :
           HandleOf(x) = HandleOf(y) /\ HandleOf(x) # NoHandle => x = y
    BY <1>3 DEF HandlesExact
  <1>8. QED
    BY <1>5, <1>6, <1>7 DEF HandleTable

-----------------------------------------------------------------------------
(* What the invariant says of a base that is idle, and of the Partials.    *)

LEMMA CountedFinite ==
    ASSUME NEW b
    PROVE  /\ Counted(b) \subseteq SlotIds
           /\ IsFiniteSet(Counted(b)) /\ Cardinality(Counted(b)) \in Nat
  <1>1. Counted(b) \subseteq SlotIds
    BY DEF Counted, Occupied
  <1>2. QED
    BY <1>1, Constants, FS_Subset, FS_CardinalityType

LEMMA PartialsFinite == IsFiniteSet(Partials) /\ Cardinality(Partials) \in Nat
  <1>1. Partials \subseteq UserIdx
    BY DEF Partials
  <1>2. QED
    BY <1>1, Constants, FS_Subset, FS_CardinalityType

\* The active counter of an active base is never negative.
LEMMA ActiveNat ==
    ASSUME IInv
    PROVE  /\ \A b \in Pkgs : active[b] \in Nat
           /\ active_base # NoBase => active[active_base] \in Nat
  <1>1. \A b \in Pkgs : active[b] \in Nat
    BY CountedFinite DEF IInv, ActiveCounts
  <1>2. active_base \in {NoBase} \cup UserIdx \cup Pkgs
    BY DEF IInv, TypeOK
  <1>3. active_base \in UserIdx => active[active_base] \in Nat
    BY PartialsFinite DEF IInv, PartialAccounting
  <1>4. QED
    BY <1>1, <1>2, <1>3

\* What an idle base holds: nothing, or RPU firmware without a handle.
Idle(b) == \A i \in SlotIds :
              slots[b][i] # NULL => IsRpu(b) /\ slots[b][i].slot_handle = NoHandle

LEMMA IdleBase ==
    ASSUME IInv, NEW b \in Pkgs, active[b] = 0
    PROVE  Idle(b)
  <1>1. Cardinality(Counted(b)) = 0
    BY DEF IInv, ActiveCounts
  <1>2. Counted(b) = {}
    BY <1>1, CountedFinite, FS_EmptySet
  <1>3. QED
    BY <1>2 DEF Idle, Counted, Occupied

\* A base that is not active is empty.
LEMMA InactiveEmpty ==
    ASSUME IInv, NEW b \in Pkgs, b # (IF IsRpu(b) THEN active_rpu_base ELSE active_base)
    PROVE  /\ \A i \in SlotIds : slots[b][i] = NULL
           /\ active[b] = 0
  <1>1. \A i \in SlotIds : slots[b][i] = NULL
    BY DEF IInv, SlotsPlaced, SlotPlaced
  <1>2. Counted(b) = {}
    BY <1>1 DEF Counted, Occupied
  <1>3. active[b] = 0
    BY <1>2, FS_EmptySet DEF IInv, ActiveCounts
  <1>4. QED
    BY <1>1, <1>3

\* Nothing of the PL is in use when the base is idle and not forced.
LEMMA PlIdle ==
    ASSUME IInv, ~is_base_externally_managed(active_base),
           ~(active_base # NoBase /\ active[active_base] > 0)
    PROVE  /\ \A b \in Pkgs, i \in SlotIds : ~IsRpu(b) => slots[b][i] = NULL
           /\ \A b \in Pkgs : ~IsRpu(b) => active[b] = 0
           /\ Partials = {}
  <1>1. active_base # NoBase => active[active_base] = 0
    BY ActiveNat
  <1>2. \A b \in Pkgs : ~IsRpu(b) => active[b] = 0
    <2> SUFFICES ASSUME NEW b \in Pkgs, ~IsRpu(b) PROVE active[b] = 0
      OBVIOUS
    <2>1. CASE b = active_base
      BY <2>1, <1>1, Constants
    <2>2. CASE b # active_base
      BY <2>2, InactiveEmpty
    <2>3. QED
      BY <2>1, <2>2
  <1>3. \A b \in Pkgs, i \in SlotIds : ~IsRpu(b) => slots[b][i] = NULL
    BY <1>2, IdleBase DEF Idle
  <1>4. Partials = {}
    <2>1. CASE active_base = NoBase
      BY <2>1 DEF is_base_externally_managed, Partials
    <2>2. CASE active_base \in UserIdx
      <3>1. Cardinality(Partials) = 0
        BY <2>2, <1>1, Constants DEF IInv, PartialAccounting
      <3>2. QED
        BY <3>1, PartialsFinite, FS_EmptySet
    <2>3. CASE active_base \in Pkgs
      BY <2>3, Constants DEF IInv, PartialAccounting
    <2>4. QED
      BY <2>1, <2>2, <2>3 DEF IInv, TypeOK
  <1>5. QED
    BY <1>2, <1>3, <1>4

-----------------------------------------------------------------------------
(* How a step may change the slots and the user entries, and what that     *)
(* makes of the handle table.                                              *)

\* Slot k of base c keeps its design, or loses firmware without a handle.
Kept(c, k) ==
    \/ slots'[c][k] = slots[c][k]
    \/ /\ slots'[c][k] = NULL
       /\ IsRpu(c) /\ slots[c][k].slot_handle = NoHandle

SameUser(u) ==
    /\ user'[u].is_user_load = user[u].is_user_load
    /\ user'[u].partial = user[u].partial
    /\ user'[u].handle = user[u].handle

AllKept == \A c \in Pkgs, k \in SlotIds : Kept(c, k)
KeptBut(b, i) == \A c \in Pkgs, k \in SlotIds : c # b \/ k # i => Kept(c, k)
SameUsers == \A u \in UserIdx : SameUser(u)
SameBut(u) == \A v \in UserIdx : v # u => SameUser(v)

LEMMA KeptHandles ==
    ASSUME AllKept
    PROVE  \A h \in Handles : HasSlot(h)' <=> HasSlot(h)
  BY Constants DEF HasSlot, AllKept, Kept

LEMMA ExactQuiet ==
    ASSUME HandlesExact, AllKept, SameUsers, used_handles' = used_handles
    PROVE  HandlesExact'
  <1>1. \A h \in Handles : HasSlot(h)' <=> HasSlot(h)
    BY KeptHandles
  <1>2. \A h \in Handles : HasUser(h)' <=> HasUser(h)
    BY DEF HasUser, SameUsers, SameUser
  <1>3. \A c \in Pkgs, k \in SlotIds : slots'[c][k] # NULL => slots'[c][k] = slots[c][k]
    BY DEF AllKept, Kept
  <1>4. QED
    BY <1>1, <1>2, <1>3 DEF HandlesExact, SameUsers, SameUser

\* A handle from get_free_slot_handle() is nobody's.
LEMMA FreshHandle ==
    ASSUME TypeOK, HandlesExact, NEW h \in Handles \cup {NoHandle},
           get_free_slot_handle(h)
    PROVE  /\ h \notin used_handles
           /\ h # NoHandle => ~HasSlot(h) /\ ~HasUser(h)
           /\ Taken(h) = IF h = NoHandle THEN used_handles ELSE used_handles \cup {h}
  <1>1. h \notin used_handles
    BY Constants DEF get_free_slot_handle, TypeOK
  <1>2. h # NoHandle => ~HasSlot(h) /\ ~HasUser(h)
    BY <1>1 DEF HandlesExact
  <1>3. QED
    BY <1>1, <1>2 DEF Taken

LEMMA ExactAddSlot ==
    ASSUME TypeOK, HandlesExact, NEW b \in Pkgs, NEW i \in SlotIds,
           NEW h \in Handles \cup {NoHandle}, get_free_slot_handle(h),
           slots[b][i] = NULL, slots'[b][i] # NULL, slots'[b][i].slot_handle = h,
           KeptBut(b, i), SameUsers, used_handles' = Taken(h)
    PROVE  HandlesExact'
  <1>1. /\ h # NoHandle => ~HasSlot(h) /\ ~HasUser(h)
        /\ used_handles' = IF h = NoHandle THEN used_handles ELSE used_handles \cup {h}
    BY FreshHandle
  <1>2. \A c \in Pkgs, k \in SlotIds :
           slots'[c][k] # NULL => slots'[c][k] = slots[c][k] \/ (c = b /\ k = i)
    BY DEF KeptBut, Kept
  <1>3. \A g \in Handles : HasSlot(g)' <=> HasSlot(g) \/ g = h
    BY <1>2, Constants DEF HasSlot, KeptBut, Kept
  <1>4. \A g \in Handles : HasUser(g)' <=> HasUser(g)
    BY DEF HasUser, SameUsers, SameUser
  <1>5. \A g \in Handles : g \in used_handles' <=> HasSlot(g)' \/ HasUser(g)'
    BY <1>1, <1>3, <1>4, Constants DEF HandlesExact
  <1>6. \A c, d \in Pkgs, j, k \in SlotIds :
           /\ slots'[c][j] # NULL /\ slots'[d][k] # NULL
           /\ slots'[c][j].slot_handle = slots'[d][k].slot_handle
           /\ slots'[c][j].slot_handle # NoHandle
           => c = d /\ j = k
    BY <1>1, <1>2 DEF HandlesExact, HasSlot
  <1>7. \A c \in Pkgs, j \in SlotIds, u \in UserIdx :
           /\ slots'[c][j] # NULL /\ user'[u].is_user_load
           /\ slots'[c][j].slot_handle = user'[u].handle
           => user'[u].handle = NoHandle
    BY <1>1, <1>2 DEF HandlesExact, HasUser, SameUsers, SameUser
  <1>8. QED
    BY <1>5, <1>6, <1>7 DEF HandlesExact, SameUsers, SameUser

LEMMA ExactRemSlot ==
    ASSUME HandlesExact, NEW b \in Pkgs, NEW i \in SlotIds, NEW h \in Handles,
           slots[b][i] # NULL, slots[b][i].slot_handle = h,
           slots'[b][i] = NULL, KeptBut(b, i), SameUsers,
           used_handles' = used_handles \ {h}
    PROVE  HandlesExact'
  <1>1. h # NoHandle
    BY Constants
  <1>2. \A c \in Pkgs, k \in SlotIds :
           slots'[c][k] # NULL => slots'[c][k] = slots[c][k] /\ (c # b \/ k # i)
    BY DEF KeptBut, Kept
  <1>3. \A g \in Handles : HasSlot(g)' <=> HasSlot(g) /\ g # h
    BY <1>1, <1>2, Constants DEF HasSlot, KeptBut, Kept, HandlesExact
  <1>4. \A g \in Handles : HasUser(g)' <=> HasUser(g)
    BY DEF HasUser, SameUsers, SameUser
  <1>5. ~HasUser(h)
    BY <1>1 DEF HasUser, HandlesExact
  <1>6. \A g \in Handles : g \in used_handles' <=> HasSlot(g)' \/ HasUser(g)'
    BY <1>3, <1>4, <1>5 DEF HandlesExact
  <1>7. QED
    BY <1>2, <1>6 DEF HandlesExact, SameUsers, SameUser

LEMMA ExactAddUser ==
    ASSUME TypeOK, HandlesExact, NEW u \in UserIdx,
           NEW h \in Handles \cup {NoHandle}, get_free_slot_handle(h),
           ~user[u].is_user_load, user'[u].is_user_load, user'[u].handle = h,
           AllKept, SameBut(u), used_handles' = Taken(h)
    PROVE  HandlesExact'
  <1>1. /\ h # NoHandle => ~HasSlot(h) /\ ~HasUser(h)
        /\ used_handles' = IF h = NoHandle THEN used_handles ELSE used_handles \cup {h}
    BY FreshHandle
  <1>2. \A c \in Pkgs, k \in SlotIds : slots'[c][k] # NULL => slots'[c][k] = slots[c][k]
    BY DEF AllKept, Kept
  <1>3. \A g \in Handles : HasSlot(g)' <=> HasSlot(g)
    BY KeptHandles
  <1>4. \A g \in Handles : HasUser(g)' <=> HasUser(g) \/ g = h
    <2> SUFFICES ASSUME NEW g \in Handles PROVE HasUser(g)' <=> HasUser(g) \/ g = h
      OBVIOUS
    <2>1. HasUser(g)' => HasUser(g) \/ g = h
      BY DEF HasUser, SameBut, SameUser
    <2>2. HasUser(g) => HasUser(g)'
      BY DEF HasUser, SameBut, SameUser
    <2>3. g = h => HasUser(g)'
      BY DEF HasUser
    <2>4. QED
      BY <2>1, <2>2, <2>3
  <1>5. \A g \in Handles : g \in used_handles' <=> HasSlot(g)' \/ HasUser(g)'
    BY <1>1, <1>3, <1>4, Constants DEF HandlesExact
  <1>6. \A v, w \in UserIdx :
           /\ user'[v].is_user_load /\ user'[w].is_user_load
           /\ user'[v].handle = user'[w].handle /\ user'[v].handle # NoHandle
           => v = w
    BY <1>1 DEF HandlesExact, HasUser, SameBut, SameUser
  <1>7. \A c \in Pkgs, j \in SlotIds, v \in UserIdx :
           /\ slots'[c][j] # NULL /\ user'[v].is_user_load
           /\ slots'[c][j].slot_handle = user'[v].handle
           => user'[v].handle = NoHandle
    BY <1>1, <1>2 DEF HandlesExact, HasSlot, SameBut, SameUser
  <1>8. QED
    BY <1>2, <1>5, <1>6, <1>7 DEF HandlesExact

LEMMA ExactRemUser ==
    ASSUME TypeOK, HandlesExact, NEW u \in UserIdx,
           user[u].is_user_load, ~user'[u].is_user_load,
           slots' = slots, SameBut(u),
           used_handles' = used_handles \ {user[u].handle}
    PROVE  HandlesExact'
  <1>1. \A g \in Handles : HasSlot(g)' <=> HasSlot(g)
    BY DEF HasSlot
  <1>2. \A g \in Handles : HasUser(g)' <=> HasUser(g) /\ g # user[u].handle
    BY Constants DEF HasUser, SameBut, SameUser, HandlesExact
  <1>3. \A g \in Handles : g = user[u].handle => ~HasSlot(g)
    BY Constants DEF HasSlot, HandlesExact
  <1>4. \A g \in Handles : g \in used_handles' <=> HasSlot(g)' \/ HasUser(g)'
    BY <1>1, <1>2, <1>3 DEF HandlesExact
  <1>5. \A v, w \in UserIdx :
           /\ user'[v].is_user_load /\ user'[w].is_user_load
           /\ user'[v].handle = user'[w].handle /\ user'[v].handle # NoHandle
           => v = w
    BY DEF HandlesExact, SameBut, SameUser
  <1>6. \A c \in Pkgs, j \in SlotIds, v \in UserIdx :
           /\ slots'[c][j] # NULL /\ user'[v].is_user_load
           /\ slots'[c][j].slot_handle = user'[v].handle
           => user'[v].handle = NoHandle
    BY DEF HandlesExact, SameBut, SameUser
  <1>7. QED
    BY <1>4, <1>5, <1>6 DEF HandlesExact

-----------------------------------------------------------------------------
(* What a step makes of the counters, the bases and the Partials.          *)

LEMMA CountedKept ==
    ASSUME NEW c \in Pkgs, \A k \in SlotIds : Kept(c, k)
    PROVE  Counted(c)' = Counted(c)
  BY DEF Counted, Occupied, Kept

LEMMA CountsQuiet ==
    ASSUME ActiveCounts, AllKept, \A b \in Pkgs : active'[b] = active[b]
    PROVE  ActiveCounts'
  <1>1. \A b \in Pkgs : Counted(b)' = Counted(b)
    BY CountedKept DEF AllKept
  <1>2. QED
    BY <1>1 DEF ActiveCounts

\* A slot is taken; on an RPU base it counts only with a handle.
LEMMA CountsAddSlot ==
    ASSUME ActiveCounts, NEW b \in Pkgs, NEW i \in SlotIds,
           slots[b][i] = NULL, slots'[b][i] # NULL, KeptBut(b, i),
           \A c \in Pkgs : c # b => active'[c] = active[c],
           active'[b] = IF IsRpu(b) /\ slots'[b][i].slot_handle = NoHandle
                        THEN active[b] ELSE active[b] + 1
    PROVE  ActiveCounts'
  <1>1. \A c \in Pkgs : c # b => Counted(c)' = Counted(c)
    BY CountedKept DEF KeptBut
  <1>2. \A k \in SlotIds : k # i => Kept(b, k)
    BY DEF KeptBut
  <1>3. i \notin Counted(b)
    BY DEF Counted, Occupied
  <1>4. Cardinality(Counted(b) \cup {i}) = Cardinality(Counted(b)) + 1
    BY <1>3, CountedFinite, FS_AddElement
  <1>5. active'[b] = Cardinality(Counted(b)')
    <2>1. CASE IsRpu(b) /\ slots'[b][i].slot_handle = NoHandle
      <3>1. Counted(b)' = Counted(b)
        BY <1>2, <2>1 DEF Counted, Occupied, Kept
      <3>2. QED
        BY <2>1, <3>1 DEF ActiveCounts
    <2>2. CASE ~(IsRpu(b) /\ slots'[b][i].slot_handle = NoHandle)
      <3>1. Counted(b)' = Counted(b) \cup {i}
        BY <1>2, <2>2 DEF Counted, Occupied, Kept
      <3>2. QED
        BY <1>4, <2>2, <3>1 DEF ActiveCounts
    <2>3. QED
      BY <2>1, <2>2
  <1>6. QED
    BY <1>1, <1>5 DEF ActiveCounts

LEMMA CountsRemSlot ==
    ASSUME ActiveCounts, NEW b \in Pkgs, NEW i \in SlotIds,
           slots[b][i] # NULL, slots[b][i].slot_handle # NoHandle,
           slots'[b][i] = NULL, KeptBut(b, i),
           \A c \in Pkgs : c # b => active'[c] = active[c],
           active'[b] = active[b] - 1
    PROVE  ActiveCounts'
  <1>1. \A c \in Pkgs : c # b => Counted(c)' = Counted(c)
    BY CountedKept DEF KeptBut
  <1>2. i \in Counted(b)
    BY DEF Counted, Occupied
  <1>3. Cardinality(Counted(b) \ {i}) = Cardinality(Counted(b)) - 1
    BY <1>2, CountedFinite, FS_RemoveElement
  <1>4. \A k \in SlotIds : k # i => Kept(b, k)
    BY DEF KeptBut
  <1>5. Counted(b)' = Counted(b) \ {i}
    BY <1>4 DEF Counted, Occupied, Kept
  <1>6. QED
    BY <1>1, <1>3, <1>5 DEF ActiveCounts

\* The PL base changes only while the PL slots are empty.
LEMMA PlacedPl ==
    ASSUME SlotsPlaced, AllKept, active_rpu_base' = active_rpu_base,
           \/ active_base' = active_base
           \/ \A b \in Pkgs, i \in SlotIds : ~IsRpu(b) => slots[b][i] = NULL
    PROVE  SlotsPlaced'
  BY DEF SlotsPlaced, SlotPlaced, AllKept, Kept

\* The RPU base changes only while the RPU slots hold nothing that stays.
LEMMA PlacedRpu ==
    ASSUME SlotsPlaced, AllKept, active_base' = active_base,
           \/ active_rpu_base' = active_rpu_base
           \/ \A b \in Pkgs, i \in SlotIds : IsRpu(b) => slots'[b][i] = NULL
    PROVE  SlotsPlaced'
  BY DEF SlotsPlaced, SlotPlaced, AllKept, Kept

LEMMA AllocStep ==
    ASSUME SlotsAllocated, AllKept,
           active_base' \in Pkgs => active_base' \in slots_alloc',
           active_rpu_base' # NoBase => active_rpu_base' \in slots_alloc',
           \A b \in slots_alloc \ slots_alloc' : \A i \in SlotIds : slots'[b][i] = NULL
    PROVE  SlotsAllocated'
  BY DEF SlotsAllocated, Occupied, AllKept, Kept

LEMMA PartialsQuiet ==
    ASSUME PartialAccounting, SameUsers,
           \/ /\ active_base' = active_base
              /\ active_base \in UserIdx => active'[active_base] = active[active_base]
           \/ active_base' = NoBase
           \/ active_base' \in Pkgs /\ Partials = {}
    PROVE  PartialAccounting'
  <1>1. Partials' = Partials
    BY DEF Partials, SameUsers, SameUser
  <1>2. CASE /\ active_base' = active_base
             /\ active_base \in UserIdx => active'[active_base] = active[active_base]
    BY <1>1, <1>2 DEF PartialAccounting, SameUsers, SameUser
  <1>3. CASE active_base' = NoBase
    BY <1>3, Constants DEF PartialAccounting
  <1>4. CASE active_base' \in Pkgs /\ Partials = {}
    BY <1>1, <1>4, Constants DEF PartialAccounting
  <1>5. QED
    BY <1>2, <1>3, <1>4

\* A step that adds and removes nothing.
LEMMA QuietStep ==
    ASSUME IInv, TypeOK', AllKept, SameUsers, used_handles' = used_handles,
           \A b \in Pkgs : active'[b] = active[b],
           SlotsPlaced', PartialAccounting', SlotsAllocated'
    PROVE  IInv'
  BY ExactQuiet, CountsQuiet DEF IInv

\* A step after which every table is the same.
LEMMA SameStep ==
    ASSUME IInv, TypeOK',
           UNCHANGED <<active_base, active_rpu_base, active, slots, used_handles>>,
           slots_alloc \subseteq slots_alloc', SameUsers
    PROVE  IInv'
  <1>1. AllKept
    BY DEF AllKept, Kept
  <1>2. SlotsPlaced'
    BY <1>1, PlacedPl DEF IInv
  <1>3. PartialAccounting'
    BY PartialsQuiet DEF IInv
  <1>4. SlotsAllocated'
    BY DEF IInv, SlotsAllocated, Occupied
  <1>5. QED
    BY <1>1, <1>2, <1>3, <1>4, QuietStep

-----------------------------------------------------------------------------
(* The load requests on the PL.                                            *)

\* Freeing the slots of an idle PL base frees nothing.
LEMMA FreeIdle ==
    ASSUME IInv, NEW e, e \in Pkgs => ~IsRpu(e) /\ active[e] = 0
    PROVE  free_slots(slots, e) = slots
  <1>1. slots \in [Pkgs -> [SlotIds -> SlotInfo \cup {NULL}]]
    BY DEF IInv, TypeOK
  <1>2. e \in Pkgs => slots[e] = [i \in SlotIds |-> NULL]
    <2> SUFFICES ASSUME e \in Pkgs PROVE slots[e] = [i \in SlotIds |-> NULL]
      OBVIOUS
    <2>1. \A i \in SlotIds : slots[e][i] = NULL
      BY IdleBase DEF Idle
    <2>2. slots[e] \in [SlotIds -> SlotInfo \cup {NULL}]
      BY <1>1
    <2>3. QED
      BY <2>1, <2>2
  <1>3. QED
    BY <1>1, <1>2 DEF free_slots

\* What a PL_DFX load finds once the base check is passed.
LEMMA PlSwitch ==
    ASSUME IInv, NEW b \in Pkgs, ~IsRpu(b), ~Mismatch(active_base, b),
           ~is_base_externally_managed(active_base)
    PROVE  /\ SwitchTo(active_base, b) = b
           /\ free_slots(slots, Evicted(active_base, b)) = slots
           /\ Partials = {}
           /\ \/ active_base = b /\ ~NeedsBase(active_base, b)
              \/ /\ \A c \in Pkgs, i \in SlotIds : ~IsRpu(c) => slots[c][i] = NULL
                 /\ active[b] = 0
           /\ b \in AllocAfter(active_base, b)
           /\ \A c \in slots_alloc :
                 \/ c \in slots_alloc \ {Evicted(active_base, b)}
                 \/ c # active_rpu_base /\ \A i \in SlotIds : slots[c][i] = NULL
  <1>1. CASE active_base = b
    <2>1. Evicted(active_base, b) = NoBase /\ ~NeedsBase(active_base, b)
      BY <1>1, Constants DEF Evicted, NeedsBase
    <2>2. SwitchTo(active_base, b) = b
      BY <1>1, <2>1 DEF SwitchTo
    <2>3. free_slots(slots, Evicted(active_base, b)) = slots
      BY <2>1, FreeIdle, Constants
    <2>4. Partials = {}
      BY <1>1, Constants DEF IInv, PartialAccounting
    <2>5. \A c \in slots_alloc : c # NoBase
      BY Constants DEF IInv, TypeOK
    <2>6. b \in AllocAfter(active_base, b)
      BY <1>1, <2>1, <2>5, Constants DEF IInv, SlotsAllocated, AllocAfter
    <2>7. QED
      BY <1>1, <2>1, <2>2, <2>3, <2>4, <2>5, <2>6
  <1>2. CASE active_base # b
    <2>1. ~(active_base # NoBase /\ active[active_base] > 0)
      BY <1>2 DEF Mismatch
    <2>2. /\ \A c \in Pkgs, i \in SlotIds : ~IsRpu(c) => slots[c][i] = NULL
          /\ \A c \in Pkgs : ~IsRpu(c) => active[c] = 0
          /\ Partials = {}
      BY <2>1, PlIdle
    <2>3. active_base # NoBase => active[active_base] = 0
      BY <2>1, ActiveNat
    <2>4. NeedsBase(active_base, b) /\ Evicted(active_base, b) = active_base
      BY <1>2, <2>3 DEF Evicted, NeedsBase
    <2>5. active_base \in Pkgs => ~IsRpu(active_base) /\ active[active_base] = 0
      BY <2>3, Constants DEF IInv, TypeOK
    <2>6. free_slots(slots, Evicted(active_base, b)) = slots
      BY <2>4, <2>5, FreeIdle
    <2>7. SwitchTo(active_base, b) = b /\ b \in AllocAfter(active_base, b)
      BY <2>4 DEF SwitchTo, AllocAfter
    <2>8. ASSUME NEW c \in slots_alloc, c = active_base
          PROVE  c # active_rpu_base /\ \A i \in SlotIds : slots[c][i] = NULL
      <3>1. c \in Pkgs
        BY DEF IInv, TypeOK
      <3>2. ~IsRpu(c)
        BY <3>1, <2>8, <2>5
      <3>3. c # active_rpu_base
        BY <3>1, <3>2, Constants DEF IInv, TypeOK
      <3>4. QED
        BY <3>1, <3>2, <3>3, <2>2
    <2>9. QED
      BY <2>2, <2>4, <2>6, <2>7, <2>8
  <1>3. QED
    BY <1>1, <1>2

\* A design comes into an empty PL slot and its base becomes the active one.
LEMMA PlLoad ==
    ASSUME IInv, TypeOK', NEW b \in Pkgs, ~IsRpu(b),
           NEW i \in SlotsOf(b), IsFlat(b) => i = 0,
           NEW h \in Handles \cup {NoHandle}, get_free_slot_handle(h),
           NEW name \in Names, slots[b][i] = NULL,
           slots' = assign_slot(slots, b, i, name, h),
           used_handles' = Taken(h), active' = [active EXCEPT ![b] = @ + 1],
           active_base' = b, UNCHANGED <<active_rpu_base, user>>,
           Partials = {},
           \/ active_base = b
           \/ \A c \in Pkgs, k \in SlotIds : ~IsRpu(c) => slots[c][k] = NULL,
           b \in slots_alloc',
           \A c \in slots_alloc :
              \/ c \in slots_alloc'
              \/ c # active_rpu_base /\ \A k \in SlotIds : slots[c][k] = NULL
    PROVE  IInv'
  <1>1. i \in SlotIds
    BY PkgFacts
  <1>2. slots \in [Pkgs -> [SlotIds -> SlotInfo \cup {NULL}]] /\ active \in [Table -> Int]
    BY DEF IInv, TypeOK
  <1>3. slots'[b][i] = [name |-> name, slot_handle |-> h]
    BY <1>1, <1>2 DEF assign_slot
  <1>4. slots'[b][i] # NULL /\ slots'[b][i].slot_handle = h
    <2>1. [name |-> name, slot_handle |-> h] \in SlotInfo
      BY DEF SlotInfo
    <2>2. QED
      BY <1>3, <2>1, NullAssumption
  <1>5. \A c \in Pkgs, k \in SlotIds : c # b \/ k # i => slots'[c][k] = slots[c][k]
    BY <1>1, <1>2 DEF assign_slot
  <1>6. KeptBut(b, i)
    BY <1>5 DEF KeptBut, Kept
  <1>7. SameUsers
    BY DEF SameUsers, SameUser
  <1>8. HandlesExact'
    BY <1>1, <1>4, <1>6, <1>7, ExactAddSlot DEF IInv
  <1>9. b \in Table
    BY Constants
  <1>10. /\ active'[b] = active[b] + 1
         /\ \A c \in Pkgs : c # b => active'[c] = active[c]
    BY <1>2, <1>9, Constants
  <1>11. ActiveCounts'
    BY <1>1, <1>4, <1>6, <1>10, CountsAddSlot DEF IInv
  <1>12. SlotsPlaced'
    <2> SUFFICES ASSUME NEW c \in Pkgs, NEW k \in SlotIds, slots'[c][k] # NULL
                 PROVE  SlotPlaced(c, k)'
      BY DEF SlotsPlaced
    <2>1. CASE c = b /\ k = i
      BY <2>1 DEF SlotPlaced
    <2>2. CASE c # b \/ k # i
      <3>1. slots[c][k] # NULL
        BY <2>2, <1>5
      <3>2. SlotPlaced(c, k)
        BY <3>1 DEF IInv, SlotsPlaced
      <3>3. QED
        BY <3>1, <3>2 DEF SlotPlaced
    <2>3. QED
      BY <2>1, <2>2
  <1>13. PartialAccounting'
    BY <1>7, PartialsQuiet DEF IInv
  <1>14. active_rpu_base' # NoBase => active_rpu_base' \in slots_alloc'
    BY DEF IInv, SlotsAllocated
  <1>15. \A c \in Pkgs : Occupied(c)' # {} => c \in slots_alloc'
    <2> SUFFICES ASSUME NEW c \in Pkgs, c # b, NEW k \in SlotIds, slots'[c][k] # NULL
                 PROVE  c \in slots_alloc'
      BY DEF Occupied
    <2>1. slots[c][k] # NULL
      BY <1>5
    <2>2. c \in slots_alloc
      BY <2>1 DEF IInv, SlotsAllocated, Occupied
    <2>3. QED
      BY <2>1, <2>2
  <1>16. SlotsAllocated'
    BY <1>14, <1>15 DEF SlotsAllocated
  <1>17. QED
    BY <1>8, <1>11, <1>12, <1>13, <1>16 DEF IInv

LEMMA ZeroedSame ==
    ASSUME TypeOK, NEW b \in Pkgs, active[b] = 0
    PROVE  [active EXCEPT ![b] = 0] = active
  BY DEF TypeOK

LEMMA LoadFlatInv ==
    ASSUME IInv, NEW b \in Pkgs, IsFlat(b),
           ~is_base_externally_managed(active_base),
           load_flat_busy(b) \/ load_flat(b)
    PROVE  IInv'
  <1>0. TypeOK'
    BY LoadFlatType DEF IInv
  <1>1. ~IsRpu(b) /\ 0 \in SlotsOf(b) /\ 0 \in SlotIds /\ Pkg[b].name \in Names
    BY PkgFacts
  <1>2. CASE load_flat_busy(b)
    <2>1. /\ UNCHANGED <<active_base, active_rpu_base, active, slots, used_handles>>
          /\ slots_alloc \subseteq slots_alloc' /\ SameUsers
      BY <1>2 DEF load_flat_busy, SameUsers, SameUser
    <2>2. QED
      BY <1>0, <2>1, SameStep
  <1>3. CASE load_flat(b)
    <2>1. /\ \A c \in Pkgs, i \in SlotIds : ~IsRpu(c) => slots[c][i] = NULL
          /\ \A c \in Pkgs : ~IsRpu(c) => active[c] = 0
          /\ Partials = {}
      BY <1>3, PlIdle DEF load_flat
    <2>2. slots_alloc \subseteq slots_alloc' /\ b \in slots_alloc'
      BY <1>3 DEF load_flat
    <2>3. UNCHANGED <<active_rpu_base, user>>
      BY <1>3 DEF load_flat
    <2>4. CASE /\ active' = [active EXCEPT ![b] = 0]
               /\ UNCHANGED <<active_base, slots, used_handles>>
      <3>1. active' = active
        BY <1>1, <2>1, <2>4, ZeroedSame DEF IInv
      <3>2. SameUsers
        BY <2>3 DEF SameUsers, SameUser
      <3>3. QED
        BY <1>0, <2>2, <2>3, <2>4, <3>1, <3>2, SameStep
    <2>5. ASSUME NEW h \in Handles \cup {NoHandle}, get_free_slot_handle(h),
                 active_base' = b, active' = [active EXCEPT ![b] = @ + 1],
                 slots' = assign_slot(slots, b, 0, Pkg[b].name, h),
                 used_handles' = Taken(h)
          PROVE  IInv'
      <3>1. slots[b][0] = NULL
        BY <1>1, <2>1
      <3>2. QED
        BY <1>0, <1>1, <2>1, <2>2, <2>3, <2>5, <3>1, PlLoad, Zenon
    <2>6. QED
      BY <1>3, <2>4, <2>5, Zenon DEF load_flat
  <1>4. QED
    BY <1>2, <1>3

\* A base design that fails to load was called for.
LEMMA BaseFailure ==
    ASSUME NEW b, NEW o \in BaseOutcomes(b), ~o.ok
    PROVE  NeedsBase(active_base, b)
  BY DEF BaseOutcomes

LEMMA LoadDfxInv ==
    ASSUME IInv, NEW b \in Pkgs, IsDfx(b),
           ~is_base_externally_managed(active_base),
           NEW a, a.name \in Names,
           \/ load_dfx_mismatch(b) \/ load_dfx_base_fails(b)
           \/ load_dfx_slot_fails(b, a) \/ load_dfx(b, a)
    PROVE  IInv'
  <1>0. TypeOK'
    BY LoadDfxType, Zenon DEF IInv
  <1>1. ~IsRpu(b) /\ ~IsFlat(b)
    BY PkgFacts
  <1>2. CASE load_dfx_mismatch(b)
    <2>1. /\ UNCHANGED <<active_base, active_rpu_base, active, slots, used_handles>>
          /\ slots_alloc \subseteq slots_alloc' /\ SameUsers
      BY <1>2 DEF load_dfx_mismatch, SameUsers, SameUser
    <2>2. QED
      BY <1>0, <2>1, SameStep
  <1>3. ASSUME ~Mismatch(active_base, b)
        PROVE  /\ SwitchTo(active_base, b) = b
               /\ free_slots(slots, Evicted(active_base, b)) = slots
               /\ Partials = {}
               /\ \/ active_base = b /\ ~NeedsBase(active_base, b)
                  \/ /\ \A c \in Pkgs, i \in SlotIds : ~IsRpu(c) => slots[c][i] = NULL
                     /\ active[b] = 0
               /\ b \in AllocAfter(active_base, b)
               /\ \A c \in slots_alloc :
                     \/ c \in slots_alloc \ {Evicted(active_base, b)}
                     \/ c # active_rpu_base /\ \A i \in SlotIds : slots[c][i] = NULL
    BY <1>1, <1>3, PlSwitch
  <1>4. slots_alloc \ {Evicted(active_base, b)} \subseteq AllocAfter(active_base, b)
    BY DEF AllocAfter
  <1>5. CASE load_dfx_base_fails(b)
    <2>1. ~Mismatch(active_base, b) /\ NeedsBase(active_base, b)
      BY <1>5, BaseFailure DEF load_dfx_base_fails
    <2>2. /\ slots' = slots /\ active' = active
          /\ \A c \in Pkgs, i \in SlotIds : ~IsRpu(c) => slots[c][i] = NULL
      BY <1>3, <1>5, <2>1, ZeroedSame DEF load_dfx_base_fails, IInv
    <2>3. /\ active_base' = NoBase /\ UNCHANGED <<active_rpu_base, used_handles, user>>
          /\ slots_alloc' = slots_alloc \ {Evicted(active_base, b)}
      BY <1>5 DEF load_dfx_base_fails
    <2>4. AllKept /\ SameUsers
      BY <2>2, <2>3 DEF AllKept, Kept, SameUsers, SameUser
    <2>5. SlotsPlaced' /\ PartialAccounting'
      BY <2>2, <2>3, <2>4, PlacedPl, PartialsQuiet DEF IInv
    <2>6. active_rpu_base' # NoBase => active_rpu_base' \in slots_alloc'
      BY <1>3, <2>1, <2>3 DEF IInv, SlotsAllocated
    <2>7. SlotsAllocated'
      BY <1>3, <2>1, <2>2, <2>3, <2>4, <2>6, AllocStep, Constants DEF IInv
    <2>8. QED
      BY <1>0, <2>2, <2>3, <2>4, <2>5, <2>7, QuietStep
  <1>6. CASE load_dfx_slot_fails(b, a)
    <2>1. ~Mismatch(active_base, b)
      BY <1>6 DEF load_dfx_slot_fails
    <2>2. /\ slots' = slots /\ active_base' = b
          /\ slots_alloc' = AllocAfter(active_base, b)
          /\ UNCHANGED <<active_rpu_base, active, used_handles, user>>
      BY <1>3, <1>6, <2>1 DEF load_dfx_slot_fails
    <2>3. AllKept /\ SameUsers
      BY <2>2 DEF AllKept, Kept, SameUsers, SameUser
    <2>4. SlotsPlaced' /\ PartialAccounting'
      BY <1>3, <2>1, <2>2, <2>3, PlacedPl, PartialsQuiet DEF IInv
    <2>5. active_rpu_base' # NoBase => active_rpu_base' \in slots_alloc'
      BY <1>3, <1>4, <2>1, <2>2 DEF IInv, SlotsAllocated
    <2>6. SlotsAllocated'
      BY <1>3, <1>4, <2>1, <2>2, <2>3, <2>5, AllocStep DEF IInv
    <2>7. QED
      BY <1>0, <2>2, <2>3, <2>4, <2>6, QuietStep
  <1>7. CASE load_dfx(b, a)
    <2>1. ~Mismatch(active_base, b)
      BY <1>7 DEF load_dfx
    <2>2. /\ active_base' = b /\ slots_alloc' = AllocAfter(active_base, b)
          /\ active' = [active EXCEPT ![b] = @ + 1]
          /\ UNCHANGED <<active_rpu_base, user>>
      BY <1>3, <1>7, <2>1 DEF load_dfx
    <2>3. PICK i \in SlotIds, h \in Handles \cup {NoHandle} :
            /\ FirstFit(b, a.slot_dirs, i)
            /\ get_free_slot_handle(h)
            /\ slots' = assign_slot(free_slots(slots, Evicted(active_base, b)),
                                    b, i, a.name, h)
            /\ used_handles' = Taken(h)
      BY <1>7, Zenon DEF load_dfx
    <2>4. i \in SlotsOf(b) /\ slots[b][i] = NULL
      BY <2>3 DEF FirstFit, Fitting
    <2>5. slots' = assign_slot(slots, b, i, a.name, h)
      BY <1>3, <2>1, <2>3
    <2>6. \/ active_base = b
          \/ \A c \in Pkgs, k \in SlotIds : ~IsRpu(c) => slots[c][k] = NULL
      BY <1>3, <2>1
    <2>7. /\ b \in slots_alloc'
          /\ \A c \in slots_alloc :
                \/ c \in slots_alloc'
                \/ c # active_rpu_base /\ \A k \in SlotIds : slots[c][k] = NULL
      BY <1>3, <1>4, <2>1, <2>2
    <2>8. Partials = {}
      BY <1>3, <2>1
    <2>9. QED
      BY <1>0, <1>1, <2>2, <2>3, <2>4, <2>5, <2>6, <2>7, <2>8, PlLoad, Zenon
  <1>8. QED
    BY <1>2, <1>5, <1>6, <1>7

-----------------------------------------------------------------------------
(* The load requests on the RPU.                                           *)

\* What an RPU load finds once the base check is passed: the base it drops
\* holds nothing but firmware without a handle.
LEMMA RpuSwitch ==
    ASSUME IInv, NEW b \in Pkgs, IsRpu(b), ~Mismatch(active_rpu_base, b),
           NEW s, s = free_slots(slots, Evicted(active_rpu_base, b))
    PROVE  /\ SwitchTo(active_rpu_base, b) = b
           /\ \A c \in Pkgs, k \in SlotIds :
                 \/ s[c][k] = slots[c][k]
                 \/ /\ s[c][k] = NULL
                    /\ IsRpu(c) /\ slots[c][k].slot_handle = NoHandle
           /\ \A k \in SlotIds : s[b][k] = slots[b][k]
           /\ \/ active_rpu_base = b
              \/ \A c \in Pkgs, k \in SlotIds : IsRpu(c) => s[c][k] = NULL
           /\ b \in AllocAfter(active_rpu_base, b)
           /\ \A c \in slots_alloc :
                 \/ c \in AllocAfter(active_rpu_base, b)
                 \/ c # active_base /\ \A k \in SlotIds : s[c][k] = NULL
  <1> DEFINE e == Evicted(active_rpu_base, b)
  <1>1. \A c \in Pkgs, k \in SlotIds : s[c][k] = IF c = e THEN NULL ELSE slots[c][k]
    BY DEF free_slots
  <1>2. \A c \in slots_alloc : c = e \/ c \in AllocAfter(active_rpu_base, b)
    BY DEF AllocAfter
  <1>3. CASE active_rpu_base = b
    <2>1. e = NoBase /\ ~NeedsBase(active_rpu_base, b)
      BY <1>3, Constants DEF Evicted, NeedsBase
    <2>2. \A c \in Pkgs : c # e
      BY <2>1, Constants
    <2>3. \A c \in slots_alloc : c \in AllocAfter(active_rpu_base, b)
      BY <1>2, <2>2 DEF IInv, TypeOK
    <2>4. b \in slots_alloc
      BY <1>3, Constants DEF IInv, SlotsAllocated
    <2>5. SwitchTo(active_rpu_base, b) = b
      BY <1>3, <2>1 DEF SwitchTo
    <2>6. \A c \in Pkgs, k \in SlotIds : s[c][k] = slots[c][k]
      BY <1>1, <2>2
    <2>7. QED
      BY <1>3, <2>3, <2>4, <2>5, <2>6
  <1>4. CASE active_rpu_base # b
    <2>1. active_rpu_base # NoBase => active_rpu_base \in Pkgs /\ IsRpu(active_rpu_base)
      BY DEF IInv, TypeOK
    <2>2. active_rpu_base # NoBase => active[active_rpu_base] = 0
      BY <1>4, <2>1, ActiveNat DEF Mismatch
    <2>3. NeedsBase(active_rpu_base, b) /\ e = active_rpu_base
      BY <1>4, <2>2 DEF Evicted, NeedsBase
    <2>4. SwitchTo(active_rpu_base, b) = b /\ b \in AllocAfter(active_rpu_base, b)
      BY <2>3 DEF SwitchTo, AllocAfter
    <2>5. \A c \in Pkgs, k \in SlotIds : IsRpu(c) /\ c # e => slots[c][k] = NULL
      BY <2>3, InactiveEmpty
    <2>6. \A c \in Pkgs, k \in SlotIds : IsRpu(c) => s[c][k] = NULL
      BY <1>1, <2>5
    <2>7. \A k \in SlotIds : s[b][k] = slots[b][k]
      BY <1>1, <1>4, <2>3
    <2>8. \A c \in Pkgs, k \in SlotIds :
             \/ s[c][k] = slots[c][k]
             \/ /\ s[c][k] = NULL
                /\ IsRpu(c) /\ slots[c][k].slot_handle = NoHandle
      <3> SUFFICES ASSUME NEW c \in Pkgs, NEW k \in SlotIds, s[c][k] # slots[c][k]
                   PROVE  /\ s[c][k] = NULL
                          /\ IsRpu(c) /\ slots[c][k].slot_handle = NoHandle
        OBVIOUS
      <3>1. c = e /\ s[c][k] = NULL /\ slots[c][k] # NULL
        BY <1>1
      <3>2. c = active_rpu_base /\ active[c] = 0
        BY <3>1, <2>2, <2>3, Constants
      <3>3. Idle(c)
        BY <3>2, IdleBase
      <3>4. QED
        BY <3>1, <3>3 DEF Idle
    <2>9. \A c \in slots_alloc :
             \/ c \in AllocAfter(active_rpu_base, b)
             \/ c # active_base /\ \A k \in SlotIds : s[c][k] = NULL
      <3> SUFFICES ASSUME NEW c \in slots_alloc, c = e
                   PROVE  c # active_base /\ \A k \in SlotIds : s[c][k] = NULL
        BY <1>2
      <3>1. c \in Pkgs /\ IsRpu(c)
        BY <2>1, <2>3, Constants DEF IInv, TypeOK
      <3>2. c # active_base
        BY <3>1, Constants DEF IInv, TypeOK
      <3>3. QED
        BY <2>6, <3>1, <3>2
    <2>10. QED
      BY <2>4, <2>6, <2>7, <2>8, <2>9
  <1>5. QED
    BY <1>3, <1>4

\* Where firmware goes is an empty slot of its base.
LEMMA RpuSlotFree ==
    ASSUME NEW b \in Pkgs, NEW a, NEW i \in SlotIds, RpuSlot(b, a, i)
    PROVE  i \in SlotsOf(b) /\ slots[b][i] = NULL
  <1>1. i \in Nat
    BY Constants
  <1>2. i < Pkg[b].num_pl_slots => i \in SlotsOf(b)
    BY <1>1, PkgFacts
  <1>3. QED
    BY <1>2 DEF RpuSlot, FirstFit, Fitting

LEMMA LoadRpuInv ==
    ASSUME IInv, NEW b \in Pkgs, IsRpu(b), NEW a, a.name \in Names,
           rpu_mismatch(b) \/ rpu_slot_fails(b, a) \/ load_rpu_slot(b, a)
    PROVE  IInv'
  <1>0. TypeOK'
    BY LoadRpuType, Zenon DEF IInv
  <1>1. CASE rpu_mismatch(b)
    <2>1. /\ UNCHANGED <<active_base, active_rpu_base, active, slots, used_handles>>
          /\ slots_alloc \subseteq slots_alloc' /\ SameUsers
      BY <1>1 DEF rpu_mismatch, SameUsers, SameUser
    <2>2. QED
      BY <1>0, <2>1, SameStep
  <1> DEFINE s == free_slots(slots, Evicted(active_rpu_base, b))
  <1>2. s = free_slots(slots, Evicted(active_rpu_base, b))
    OBVIOUS
  <1>3. s \in [Pkgs -> [SlotIds -> SlotInfo \cup {NULL}]]
    BY FreeSlotsType DEF IInv, TypeOK, SlotTable
  <1> HIDE DEF s
  <1>4. ASSUME ~Mismatch(active_rpu_base, b)
        PROVE  /\ SwitchTo(active_rpu_base, b) = b
               /\ \A c \in Pkgs, k \in SlotIds :
                     \/ s[c][k] = slots[c][k]
                     \/ /\ s[c][k] = NULL
                        /\ IsRpu(c) /\ slots[c][k].slot_handle = NoHandle
               /\ \A k \in SlotIds : s[b][k] = slots[b][k]
               /\ \/ active_rpu_base = b
                  \/ \A c \in Pkgs, k \in SlotIds : IsRpu(c) => s[c][k] = NULL
               /\ b \in AllocAfter(active_rpu_base, b)
               /\ \A c \in slots_alloc :
                     \/ c \in AllocAfter(active_rpu_base, b)
                     \/ c # active_base /\ \A k \in SlotIds : s[c][k] = NULL
    BY <1>2, <1>4, RpuSwitch
  <1>5. CASE rpu_slot_fails(b, a)
    <2>1. /\ ~Mismatch(active_rpu_base, b)
          /\ active_rpu_base' = SwitchTo(active_rpu_base, b)
          /\ slots' = s /\ slots_alloc' = AllocAfter(active_rpu_base, b)
          /\ UNCHANGED <<active_base, active, used_handles, user>>
      BY <1>5 DEF rpu_slot_fails, s
    <2>2. AllKept /\ SameUsers
      BY <1>4, <2>1 DEF AllKept, Kept, SameUsers, SameUser
    <2>3. SlotsPlaced'
      BY <1>4, <2>1, <2>2, PlacedRpu DEF IInv
    <2>4. PartialAccounting'
      BY <2>1, <2>2, PartialsQuiet DEF IInv
    <2>5. active_base' \in Pkgs => active_base' \in slots_alloc'
      BY <1>4, <2>1 DEF IInv, SlotsAllocated
    <2>6. SlotsAllocated'
      BY <1>4, <2>1, <2>2, <2>5, AllocStep DEF IInv
    <2>7. QED
      BY <1>0, <2>1, <2>2, <2>3, <2>4, <2>6, QuietStep
  <1>6. CASE load_rpu_slot(b, a)
    <2>1. /\ ~Mismatch(active_rpu_base, b)
          /\ active_rpu_base' = SwitchTo(active_rpu_base, b)
          /\ slots_alloc' = AllocAfter(active_rpu_base, b)
          /\ UNCHANGED <<active_base, user>>
      BY <1>6 DEF load_rpu_slot
    <2>2. PICK i \in SlotIds, h \in Handles \cup {NoHandle} :
            /\ RpuSlot(b, a, i)
            /\ get_free_slot_handle(h)
            /\ slots' = assign_slot(s, b, i, a.name, h)
            /\ used_handles' = Taken(h)
            /\ active' = IF h >= 0
                         THEN [active EXCEPT ![SwitchTo(active_rpu_base, b)] = @ + 1]
                         ELSE active
      BY <1>6, Zenon DEF load_rpu_slot, s
    <2>3. i \in SlotsOf(b) /\ slots[b][i] = NULL
      BY <2>2, RpuSlotFree
    <2>4. slots'[b][i] = [name |-> a.name, slot_handle |-> h]
      BY <1>3, <2>2 DEF assign_slot
    <2>5. slots'[b][i] # NULL /\ slots'[b][i].slot_handle = h
      <3>1. [name |-> a.name, slot_handle |-> h] \in SlotInfo
        BY DEF SlotInfo
      <3>2. QED
        BY <2>4, <3>1, NullAssumption
    <2>6. \A c \in Pkgs, k \in SlotIds : c # b \/ k # i => slots'[c][k] = s[c][k]
      BY <1>3, <2>2 DEF assign_slot
    <2>7. KeptBut(b, i) /\ SameUsers
      BY <1>4, <2>1, <2>6 DEF KeptBut, Kept, SameUsers, SameUser
    <2>8. HandlesExact'
      BY <2>2, <2>3, <2>5, <2>7, ExactAddSlot DEF IInv
    <2>9. h >= 0 <=> h # NoHandle
      BY Constants DEF NoHandle
    <2>10. active \in [Table -> Int] /\ Pkgs \subseteq Table
      BY Constants DEF IInv, TypeOK
    <2>11. /\ active'[b] = IF h = NoHandle THEN active[b] ELSE active[b] + 1
           /\ \A c \in Pkgs : c # b => active'[c] = active[c]
      BY <1>4, <2>1, <2>2, <2>9, <2>10
    <2>12. ActiveCounts'
      BY <2>3, <2>5, <2>7, <2>11, CountsAddSlot DEF IInv
    <2>13. SlotsPlaced'
      <3> SUFFICES ASSUME NEW c \in Pkgs, NEW k \in SlotIds, slots'[c][k] # NULL
                   PROVE  SlotPlaced(c, k)'
        BY DEF SlotsPlaced
      <3>1. CASE c = b /\ k = i
        BY <1>4, <2>1, <2>3, <3>1, PkgFacts DEF SlotPlaced
      <3>2. CASE c # b \/ k # i
        <4>1. s[c][k] # NULL /\ slots[c][k] # NULL
          BY <1>4, <2>1, <2>6, <3>2
        <4>2. SlotPlaced(c, k)
          BY <4>1 DEF IInv, SlotsPlaced
        <4>3. IsRpu(c) => active_rpu_base = b
          BY <1>4, <2>1, <4>1
        <4>4. QED
          BY <1>4, <2>1, <4>2, <4>3 DEF SlotPlaced
      <3>3. QED
        BY <3>1, <3>2
    <2>14. PartialAccounting'
      <3>1. active_base \in UserIdx => active'[active_base] = active[active_base]
        BY <1>4, <2>1, <2>2, <2>10, Constants
      <3>2. QED
        BY <2>1, <2>7, <3>1, PartialsQuiet DEF IInv
    <2>15. SlotsAllocated'
      <3>1. active_base' \in Pkgs => active_base' \in slots_alloc'
        BY <1>4, <2>1 DEF IInv, SlotsAllocated
      <3>2. active_rpu_base' \in slots_alloc'
        BY <1>4, <2>1
      <3>3. \A c \in Pkgs : Occupied(c)' # {} => c \in slots_alloc'
        <4> SUFFICES ASSUME NEW c \in Pkgs, c # b, NEW k \in SlotIds, slots'[c][k] # NULL
                     PROVE  c \in slots_alloc'
          BY <1>4, <2>1 DEF Occupied
        <4>1. s[c][k] # NULL /\ slots[c][k] # NULL
          BY <1>4, <2>1, <2>6
        <4>2. c \in slots_alloc
          BY <4>1 DEF IInv, SlotsAllocated, Occupied
        <4>3. QED
          BY <1>4, <2>1, <4>1, <4>2
      <3>4. QED
        BY <3>1, <3>2, <3>3 DEF SlotsAllocated
    <2>16. QED
      BY <1>0, <2>8, <2>12, <2>13, <2>14, <2>15 DEF IInv
  <1>7. QED
    BY <1>1, <1>5, <1>6

-----------------------------------------------------------------------------
(* User bitstreams.                                                        *)

\* Taking an overlay away changes nothing but the region of an entry.
LEMMA OverlayView ==
    ASSUME TypeOK, NEW ov, NEW r, NEW o \in UnloadedOverlay(user, ov, r)
    PROVE  \A u \in UserIdx :
              /\ o.user[u].is_user_load = user[u].is_user_load
              /\ o.user[u].partial = user[u].partial
              /\ o.user[u].handle = user[u].handle
  <1>1. \A u \in UserIdx : user[u] \in UserEntry
    BY DEF TypeOK
  <1>2. o.user = ClearRegion(user, r) \/ o.user = user
    <2>1. CASE r \in ov
      <3>1. o \in [user: {ClearRegion(user, r)}, overlays: remove_overlay_dir(ov, r)]
        BY <2>1 DEF UnloadedOverlay
      <3>2. QED
        BY <3>1
    <2>2. CASE r \notin ov
      BY <2>2 DEF UnloadedOverlay
    <2>3. QED
      BY <2>1, <2>2
  <1>3. \A u \in UserIdx :
           \/ ClearRegion(user, r)[u] = user[u]
           \/ ClearRegion(user, r)[u] = [user[u] EXCEPT !.region = NULL]
    BY DEF ClearRegion
  <1>4. \A u \in UserIdx :
           /\ [user[u] EXCEPT !.region = NULL].is_user_load = user[u].is_user_load
           /\ [user[u] EXCEPT !.region = NULL].partial = user[u].partial
           /\ [user[u] EXCEPT !.region = NULL].handle = user[u].handle
    BY <1>1 DEF UserEntry
  <1>5. QED
    BY <1>2, <1>3, <1>4

\* The base a user load drops holds nothing.
LEMMA UserEvicts ==
    ASSUME IInv, NEW partial, ~UserLoadBlocked(partial), evict_for_user_load
    PROVE  /\ slots' = slots /\ active_rpu_base' = active_rpu_base
           /\ \A c \in slots_alloc :
                 \/ c \in slots_alloc'
                 \/ c # active_rpu_base /\ \A i \in SlotIds : slots[c][i] = NULL
           /\ BaseAfterEvict \in {NoBase} \cup UserIdx
           /\ \/ BaseAfterEvict = active_base
              \/ /\ BaseAfterEvict = NoBase
                 /\ \A b \in Pkgs, i \in SlotIds : ~IsRpu(b) => slots[b][i] = NULL
  <1>1. BaseAfterEvict \in {NoBase} \cup UserIdx
    BY BaseAfterEvictType DEF IInv
  <1>2. /\ slots' = free_slots(slots, UserLoadEvicts)
        /\ slots_alloc' = slots_alloc \ {UserLoadEvicts}
        /\ active_rpu_base' = active_rpu_base
    BY DEF evict_for_user_load
  <1>3. CASE active_base \in Pkgs
    <2>1. active_base # NoBase /\ active[active_base] = 0
      BY <1>3, Constants, ActiveNat DEF UserLoadBlocked
    <2>2. \A b \in Pkgs, i \in SlotIds : ~IsRpu(b) => slots[b][i] = NULL
      BY <2>1, PlIdle DEF is_base_externally_managed
    <2>3. ~IsRpu(active_base)
      BY <1>3, Constants DEF IInv, TypeOK
    <2>4. UserLoadEvicts = active_base /\ BaseAfterEvict = NoBase
      BY <1>3 DEF UserLoadEvicts, BaseAfterEvict
    <2>5. slots' = slots
      BY <1>2, <2>1, <2>3, <2>4, FreeIdle
    <2>6. active_base # active_rpu_base
      BY <1>3, <2>1, <2>3 DEF IInv, TypeOK
    <2>7. \A c \in slots_alloc :
             \/ c \in slots_alloc'
             \/ c # active_rpu_base /\ \A i \in SlotIds : slots[c][i] = NULL
      BY <1>2, <1>3, <2>2, <2>3, <2>4, <2>6
    <2>8. QED
      BY <1>1, <1>2, <2>2, <2>4, <2>5, <2>7
  <1>4. CASE active_base \notin Pkgs
    <2>1. UserLoadEvicts = NoBase /\ BaseAfterEvict = active_base
      BY <1>4 DEF UserLoadEvicts, BaseAfterEvict
    <2>2. slots' = slots
      BY <1>2, <2>1, FreeIdle, Constants
    <2>3. slots_alloc' = slots_alloc
      BY <1>2, <2>1, Constants DEF IInv, TypeOK
    <2>4. QED
      BY <1>1, <1>2, <2>1, <2>2, <2>3
  <1>5. QED
    BY <1>3, <1>4

\* A user load that registers nothing.
LEMMA UserLoadQuiet ==
    ASSUME IInv, TypeOK', NEW partial, ~UserLoadBlocked(partial),
           evict_for_user_load, active_base' = BaseAfterEvict,
           UNCHANGED <<active, used_handles>>, SameUsers
    PROVE  IInv'
  <1>1. /\ slots' = slots /\ active_rpu_base' = active_rpu_base
        /\ \A c \in slots_alloc :
              \/ c \in slots_alloc'
              \/ c # active_rpu_base /\ \A i \in SlotIds : slots[c][i] = NULL
        /\ BaseAfterEvict \in {NoBase} \cup UserIdx
        /\ \/ BaseAfterEvict = active_base
           \/ /\ BaseAfterEvict = NoBase
              /\ \A b \in Pkgs, i \in SlotIds : ~IsRpu(b) => slots[b][i] = NULL
    BY UserEvicts
  <1>2. AllKept
    BY <1>1 DEF AllKept, Kept
  <1>3. SlotsPlaced' /\ PartialAccounting'
    BY <1>1, <1>2, PlacedPl, PartialsQuiet DEF IInv
  <1>4. active_base' \notin Pkgs
    BY <1>1, Constants
  <1>5. active_rpu_base' # NoBase => active_rpu_base' \in slots_alloc'
    BY <1>1 DEF IInv, SlotsAllocated
  <1>6. SlotsAllocated'
    BY <1>1, <1>2, <1>4, <1>5, AllocStep DEF IInv
  <1>7. QED
    BY <1>1, <1>2, <1>3, <1>6, QuietStep

\* A user load that registers entry u.  A Full becomes the active base, with
\* no Partial there; a Partial counts on the Full below it, if there is one.
LEMMA UserLoadAdds ==
    ASSUME IInv, TypeOK', NEW name, NEW partial \in BOOLEAN, NEW force, NEW kind,
           NEW region, ~UserLoadBlocked(partial), evict_for_user_load,
           ~UserLoadRefused(partial, force, kind),
           user_load_registers(name, partial, region)
    PROVE  IInv'
  <1>1. /\ slots' = slots /\ active_rpu_base' = active_rpu_base
        /\ \A c \in slots_alloc :
              \/ c \in slots_alloc'
              \/ c # active_rpu_base /\ \A i \in SlotIds : slots[c][i] = NULL
        /\ BaseAfterEvict \in {NoBase} \cup UserIdx
        /\ \/ BaseAfterEvict = active_base
           \/ /\ BaseAfterEvict = NoBase
              /\ \A b \in Pkgs, i \in SlotIds : ~IsRpu(b) => slots[b][i] = NULL
    BY UserEvicts
  <1>2. PICK u \in FreeEntries, h \in Handles \cup {NoHandle} :
          /\ get_free_slot_handle(h)
          /\ user' = [user EXCEPT ![u] =
                        [is_user_load |-> TRUE, name |-> name,
                         partial |-> partial, handle |-> h, region |-> region]]
          /\ used_handles' = Taken(h)
          /\ active_base' = IF partial THEN BaseAfterEvict ELSE u
          /\ active' = [t \in Table |->
                          IF t = u THEN 0
                          ELSE IF partial /\ t = BaseAfterEvict THEN active[t] + 1
                          ELSE active[t]]
    BY Zenon DEF user_load_registers
  <1>3. u \in UserIdx /\ ~user[u].is_user_load /\ u \in Table /\ u \notin Pkgs
    BY Constants DEF FreeEntries
  <1>4. user'[u] = [is_user_load |-> TRUE, name |-> name,
                    partial |-> partial, handle |-> h, region |-> region]
    BY <1>2, <1>3 DEF IInv, TypeOK
  <1>5. user'[u].is_user_load /\ user'[u].partial = partial /\ user'[u].handle = h
    BY <1>4
  <1>6. \A v \in UserIdx : v # u => user'[v] = user[v]
    BY <1>2 DEF IInv, TypeOK
  <1>7. AllKept /\ SameBut(u)
    BY <1>1, <1>6 DEF AllKept, Kept, SameBut, SameUser
  <1>8. HandlesExact'
    BY <1>2, <1>3, <1>5, <1>7, ExactAddUser DEF IInv
  <1>9. \A b \in Pkgs : active'[b] = active[b]
    BY <1>1, <1>2, <1>3, Constants
  <1>10. ActiveCounts'
    BY <1>7, <1>9, CountsQuiet DEF IInv
  <1>11. active_base' \notin Pkgs
    BY <1>1, <1>2, <1>3, Constants
  <1>12. active_rpu_base' # NoBase => active_rpu_base' \in slots_alloc'
    BY <1>1 DEF IInv, SlotsAllocated
  <1>13. SlotsAllocated'
    BY <1>1, <1>7, <1>11, <1>12, AllocStep DEF IInv
  <1>14. CASE partial
    <2>1. active_base' = BaseAfterEvict
      BY <1>2, <1>14
    <2>2. SlotsPlaced'
      BY <1>1, <1>7, <2>1, PlacedPl DEF IInv
    <2>3. Partials' = Partials \cup {u} /\ u \notin Partials
      BY <1>3, <1>5, <1>6, <1>14 DEF Partials
    <2>4. Cardinality(Partials \cup {u}) = Cardinality(Partials) + 1
      BY <2>3, PartialsFinite, FS_AddElement
    <2>5. ASSUME active_base' \in UserIdx
          PROVE  /\ user'[active_base'].is_user_load /\ ~user'[active_base'].partial
                 /\ active'[active_base'] = Cardinality(Partials')
      <3>1. active_base' = active_base
        BY <1>1, <2>1, <2>5, Constants
      <3>2. /\ user[active_base].is_user_load /\ ~user[active_base].partial
            /\ active[active_base] = Cardinality(Partials)
        BY <2>5, <3>1 DEF IInv, PartialAccounting
      <3>3. active_base # u
        BY <1>3, <3>2
      <3>4. active'[active_base] = active[active_base] + 1
        BY <1>2, <1>14, <2>1, <2>5, <3>1, <3>3, Constants
      <3>5. QED
        BY <1>6, <2>3, <2>4, <2>5, <3>1, <3>2, <3>3, <3>4
    <2>6. active_base' \in UserIdx \cup {NoBase}
      BY <1>1, <2>1
    <2>7. PartialAccounting'
      BY <2>5, <2>6 DEF PartialAccounting
    <2>8. QED
      BY <1>8, <1>10, <1>13, <2>2, <2>7 DEF IInv
  <1>15. CASE ~partial
    <2>1. active_base' = u
      BY <1>2, <1>15
    <2>2. active_base \notin UserIdx
      BY <1>15, Constants DEF UserLoadBlocked
    <2>3. BaseAfterEvict = NoBase
      BY <1>1, <2>2
    <2>4. ~is_base_externally_managed(NoBase)
      BY <1>15, <2>3 DEF UserLoadRefused
    <2>5. Partials = {}
      BY <2>4 DEF is_base_externally_managed, Partials
    <2>6. Partials' = {}
      BY <1>5, <1>6, <1>15, <2>5 DEF Partials
    <2>7. \A b \in Pkgs, i \in SlotIds : ~IsRpu(b) => slots[b][i] = NULL
      <3>1. CASE active_base = NoBase
        BY <3>1, InactiveEmpty, Constants
      <3>2. CASE active_base # NoBase
        BY <1>1, <2>3, <3>2
      <3>3. QED
        BY <3>1, <3>2
    <2>8. SlotsPlaced'
      BY <1>1, <1>7, <2>7, PlacedPl DEF IInv
    <2>9. active'[u] = 0
      BY <1>2, <1>3
    <2>10. PartialAccounting'
      BY <1>5, <1>15, <2>1, <2>6, <2>9, FS_EmptySet DEF PartialAccounting
    <2>11. QED
      BY <1>8, <1>10, <1>13, <2>8, <2>10 DEF IInv
  <1>16. QED
    BY <1>14, <1>15

LEMMA RefuseInv ==
    ASSUME IInv, NEW code \in Int, refuse(code)
    PROVE  IInv'
  <1>1. TypeOK'
    BY RefuseType DEF IInv
  <1>2. /\ UNCHANGED <<active_base, active_rpu_base, active, slots, used_handles>>
        /\ slots_alloc \subseteq slots_alloc' /\ SameUsers
    BY DEF refuse, SameUsers, SameUser
  <1>3. QED
    BY <1>1, <1>2, SameStep

LEMMA UserLoadInv ==
    ASSUME IInv, NEW name \in Names, NEW partial \in BOOLEAN, NEW force,
           NEW kind, NEW region \in Regions \cup {NULL},
           user_load(name, partial, force, kind, region)
    PROVE  IInv'
  <1>0. TypeOK'
    BY UserLoadType, Zenon DEF IInv
  <1>1. SECURE_PLATFORM \in Int /\ LOAD_ERROR \in Int
    BY DEF SECURE_PLATFORM, LOAD_ERROR
  <1>2. CASE refuse(SECURE_PLATFORM) \/ refuse(LOAD_ERROR)
    BY <1>1, <1>2, RefuseInv
  <1>3. CASE /\ ~UserLoadBlocked(partial) /\ evict_for_user_load
             /\ active_base' = BaseAfterEvict
             /\ UNCHANGED <<active, used_handles, user>>
    <2>1. SameUsers
      BY <1>3 DEF SameUsers, SameUser
    <2>2. QED
      BY <1>0, <1>3, <2>1, UserLoadQuiet
  <1>4. CASE /\ ~UserLoadBlocked(partial) /\ evict_for_user_load
             /\ user_load_table_full(partial, region)
    <2>1. active_base' = BaseAfterEvict /\ UNCHANGED <<active, used_handles>>
      BY <1>4 DEF user_load_table_full
    <2>2. \/ UNCHANGED user
          \/ \E ov : \E c \in UnloadedOverlay(user, ov, region) : user' = c.user
      BY <1>4, Zenon DEF user_load_table_full
    <2>3. CASE UNCHANGED user
      BY <1>0, <1>4, <2>1, <2>3, UserLoadQuiet DEF SameUsers, SameUser
    <2>4. CASE \E ov : \E c \in UnloadedOverlay(user, ov, region) : user' = c.user
      <3>1. PICK ov : \E c \in UnloadedOverlay(user, ov, region) : user' = c.user
        BY <2>4
      <3>2. PICK c \in UnloadedOverlay(user, ov, region) : user' = c.user
        BY <3>1
      <3>3. \A u \in UserIdx :
              /\ c.user[u].is_user_load = user[u].is_user_load
              /\ c.user[u].partial = user[u].partial
              /\ c.user[u].handle = user[u].handle
        BY OverlayView DEF IInv
      <3>4. SameUsers
        BY <3>2, <3>3 DEF SameUsers, SameUser
      <3>5. QED
        BY <1>0, <1>4, <2>1, <3>4, UserLoadQuiet
    <2>5. QED
      BY <2>2, <2>3, <2>4
  <1>5. CASE /\ ~UserLoadBlocked(partial) /\ evict_for_user_load
             /\ ~UserLoadRefused(partial, force, kind)
             /\ user_load_registers(name, partial, region)
    BY <1>0, <1>5, UserLoadAdds, Zenon
  <1>6. QED
    BY <1>2, <1>3, <1>4, <1>5, Zenon DEF user_load, user_load_fails

\* USER_UNLOAD takes an overlay away and no design.
LEMMA UnloadOverlayInv ==
    ASSUME IInv, NEW r, user_unload_overlay(r)
    PROVE  IInv'
  <1>1. TypeOK'
    BY UnloadOverlayType DEF IInv
  <1>2. PICK o \in UnloadedOverlay(user, overlays, r) : user' = o.user
    BY DEF user_unload_overlay
  <1>3. \A u \in UserIdx :
           /\ o.user[u].is_user_load = user[u].is_user_load
           /\ o.user[u].partial = user[u].partial
           /\ o.user[u].handle = user[u].handle
    BY OverlayView DEF IInv
  <1>4. SameUsers
    BY <1>2, <1>3 DEF SameUsers, SameUser
  <1>5. /\ UNCHANGED <<active_base, active_rpu_base, active, slots, used_handles>>
        /\ slots_alloc \subseteq slots_alloc'
    BY DEF user_unload_overlay
  <1>6. QED
    BY <1>1, <1>4, <1>5, SameStep

\* A user entry is given up: a Partial leaves the count of its Full, a Full
\* goes only when it is not the base or carries no Partial.
LEMMA UserUnloadInv ==
    ASSUME IInv, NEW u \in UserIdx, user[u].is_user_load, user_unload(u)
    PROVE  IInv'
  <1>0. TypeOK'
    BY UserUnloadType DEF IInv
  <1>1. CASE refuse(LOAD_ERROR)
    BY <1>1, RefuseInv DEF LOAD_ERROR
  <1>2. CASE ~refuse(LOAD_ERROR)
    <2>1. /\ ~(~user[u].partial /\ active_base = u /\ active[u] > 0)
          /\ active' = [t \in Table |-> IF user[u].partial /\ t = active_base
                                        THEN active[t] - 1 ELSE active[t]]
          /\ active_base' = IF ~user[u].partial /\ active_base = u
                            THEN NoBase ELSE active_base
          /\ used_handles' = used_handles \ {user[u].handle}
          /\ UNCHANGED <<active_rpu_base, slots, slots_alloc>>
      BY <1>2 DEF user_unload
    <2>2. PICK o \in IF user[u].region # NULL
                     THEN UnloadedOverlay(user, overlays, user[u].region)
                     ELSE {[user |-> user, overlays |-> overlays]} :
            user' = [o.user EXCEPT ![u].is_user_load = FALSE,
                                   ![u].name = NULL,
                                   ![u].handle = NoHandle]
      BY <1>2, Zenon DEF user_unload
    <2>3. user \in UserTable /\ overlays \in SUBSET OverlayDirs
      BY DEF IInv, TypeOK, UserTable
    <2>4. /\ o.user \in UserTable
          /\ \A v \in UserIdx :
                /\ o.user[v].is_user_load = user[v].is_user_load
                /\ o.user[v].partial = user[v].partial
                /\ o.user[v].handle = user[v].handle
      <3>1. CASE user[u].region # NULL
        <4>1. o \in UnloadedOverlay(user, overlays, user[u].region)
          BY <3>1, <2>2
        <4>2. o.user \in UserTable
          BY <4>1, <2>3, UnloadedOverlayType, Zenon
        <4>3. QED
          BY <4>1, <4>2, OverlayView DEF IInv
      <3>2. CASE user[u].region = NULL
        BY <3>2, <2>2, <2>3
      <3>3. QED
        BY <3>1, <3>2
    <2>5. \A v \in UserIdx : o.user[v] \in UserEntry
      BY <2>4 DEF UserTable
    <2>6. ~user'[u].is_user_load
      BY <2>2, <2>4, <2>5 DEF UserTable, UserEntry
    <2>7. \A v \in UserIdx : v # u => user'[v] = o.user[v]
      BY <2>2, <2>4 DEF UserTable
    <2>8. SameBut(u)
      BY <2>4, <2>7 DEF SameBut, SameUser
    <2>9. AllKept
      BY <2>1 DEF AllKept, Kept
    <2>10. HandlesExact'
      BY <2>1, <2>6, <2>8, ExactRemUser DEF IInv
    <2>11. active_base \in Pkgs => ~user[u].partial
      BY Constants DEF IInv, PartialAccounting, Partials
    <2>12. \A b \in Pkgs : active'[b] = active[b]
      BY <2>1, <2>11, Constants
    <2>13. ActiveCounts'
      BY <2>9, <2>12, CountsQuiet DEF IInv
    <2>14. active_base' = active_base \/ (active_base \in UserIdx /\ active_base' = NoBase)
      BY <2>1
    <2>15. SlotsPlaced'
      <3>1. active_base' # active_base =>
               \A b \in Pkgs, i \in SlotIds : ~IsRpu(b) => slots[b][i] = NULL
        BY <2>14, InactiveEmpty, Constants
      <3>2. QED
        BY <2>1, <2>9, <3>1, PlacedPl DEF IInv
    <2>16. SlotsAllocated'
      BY <2>1, <2>14, Constants DEF IInv, SlotsAllocated, Occupied
    <2>17. PartialAccounting'
      <3>1. CASE user[u].partial
        <4>1. Partials' = Partials \ {u} /\ u \in Partials
          BY <2>6, <2>8, <3>1 DEF Partials, SameBut, SameUser
        <4>2. Cardinality(Partials \ {u}) = Cardinality(Partials) - 1
          BY <4>1, PartialsFinite, FS_RemoveElement
        <4>3. active_base' = active_base /\ active_base \in UserIdx \cup {NoBase}
          BY <2>1, <3>1, <4>1 DEF IInv, PartialAccounting
        <4>4. ASSUME active_base \in UserIdx
              PROVE  /\ user'[active_base].is_user_load /\ ~user'[active_base].partial
                     /\ active'[active_base] = Cardinality(Partials')
          <5>1. /\ user[active_base].is_user_load /\ ~user[active_base].partial
                /\ active[active_base] = Cardinality(Partials)
            BY <4>4 DEF IInv, PartialAccounting
          <5>2. active'[active_base] = active[active_base] - 1
            BY <2>1, <3>1, <4>4, Constants
          <5>3. active_base # u
            BY <3>1, <5>1
          <5>4. QED
            BY <2>8, <4>1, <4>2, <4>4, <5>1, <5>2, <5>3 DEF SameBut, SameUser
        <4>5. QED
          BY <4>3, <4>4 DEF PartialAccounting
      <3>2. CASE ~user[u].partial
        <4>1. Partials' = Partials
          BY <2>6, <2>8, <3>2 DEF Partials, SameBut, SameUser
        <4>2. active' = [t \in Table |-> active[t]]
          BY <2>1, <3>2
        <4>3. CASE active_base = u
          BY <2>1, <3>2, <4>3, Constants DEF PartialAccounting
        <4>4. CASE active_base # u
          BY <2>1, <2>8, <4>1, <4>2, <4>4, Constants
             DEF IInv, PartialAccounting, SameBut, SameUser
        <4>5. QED
          BY <4>3, <4>4
      <3>3. QED
        BY <3>1, <3>2
    <2>18. QED
      BY <1>0, <2>10, <2>13, <2>15, <2>16, <2>17 DEF IInv
  <1>3. QED
    BY <1>1, <1>2

-----------------------------------------------------------------------------
(* The unload requests.                                                    *)

LEMMA UnloadBaseInv ==
    ASSUME IInv, unload_accel_base
    PROVE  IInv'
  <1>0. TypeOK'
    BY UnloadBaseType DEF IInv
  <1>1. CASE refuse(LOAD_ERROR)
    BY <1>1, RefuseInv DEF LOAD_ERROR
  <1>2. CASE ~refuse(LOAD_ERROR)
    <2>1. /\ active_base \in Pkgs /\ active[active_base] = 0
          /\ slots' = free_slots(slots, active_base)
          /\ slots_alloc' = slots_alloc \ {active_base}
          /\ active_base' = NoBase
          /\ UNCHANGED <<active_rpu_base, active, used_handles, user>>
      BY <1>2 DEF unload_accel_base
    <2>2. ~IsRpu(active_base) /\ active_base # NoBase /\ active_base # active_rpu_base
      BY <2>1, Constants DEF IInv, TypeOK
    <2>3. \A b \in Pkgs, i \in SlotIds : ~IsRpu(b) => slots[b][i] = NULL
      BY <2>1, <2>2, PlIdle DEF is_base_externally_managed
    <2>4. slots' = slots
      BY <2>1, <2>2, FreeIdle
    <2>5. AllKept /\ SameUsers
      BY <2>1, <2>4 DEF AllKept, Kept, SameUsers, SameUser
    <2>6. SlotsPlaced' /\ PartialAccounting'
      BY <2>1, <2>3, <2>5, PlacedPl, PartialsQuiet DEF IInv
    <2>7. active_rpu_base' # NoBase => active_rpu_base' \in slots_alloc'
      BY <2>1, <2>2 DEF IInv, SlotsAllocated
    <2>8. SlotsAllocated'
      BY <2>1, <2>2, <2>3, <2>4, <2>5, <2>7, AllocStep, Constants DEF IInv
    <2>9. QED
      BY <1>0, <2>1, <2>5, <2>6, <2>8, QuietStep
  <1>3. QED
    BY <1>1, <1>2

\* A design leaves slot i of base b, which stays active unless it is flat.
LEMMA SlotUnload ==
    ASSUME IInv, TypeOK', NEW b \in Pkgs, NEW i \in SlotIds, NEW h \in Handles,
           b = IF IsRpu(b) THEN active_rpu_base ELSE active_base,
           slots[b][i] # NULL, slots[b][i].slot_handle = h,
           slots' = [slots EXCEPT ![b][i] = NULL],
           used_handles' = used_handles \ {h},
           active' = [active EXCEPT ![b] = @ - 1],
           active_base' = active_base \/ (IsFlat(b) /\ active_base' = NoBase),
           UNCHANGED <<active_rpu_base, slots_alloc, user>>
    PROVE  IInv'
  <1>1. slots \in [Pkgs -> [SlotIds -> SlotInfo \cup {NULL}]] /\ active \in [Table -> Int]
    BY DEF IInv, TypeOK
  <1>2. slots'[b][i] = NULL
    BY <1>1
  <1>3. \A c \in Pkgs, k \in SlotIds : c # b \/ k # i => slots'[c][k] = slots[c][k]
    BY <1>1
  <1>4. KeptBut(b, i) /\ SameUsers
    BY <1>3 DEF KeptBut, Kept, SameUsers, SameUser
  <1>5. HandlesExact'
    BY <1>2, <1>4, ExactRemSlot DEF IInv
  <1>6. /\ active'[b] = active[b] - 1
        /\ \A t \in Table : t # b => active'[t] = active[t]
    BY <1>1, Constants
  <1>7. ActiveCounts'
    <2>1. h # NoHandle
      BY Constants
    <2>2. \A c \in Pkgs : c # b => active'[c] = active[c]
      BY <1>6, Constants
    <2>3. QED
      BY <1>2, <1>4, <1>6, <2>1, <2>2, CountsRemSlot DEF IInv
  <1>8. SlotsPlaced'
    <2> SUFFICES ASSUME NEW c \in Pkgs, NEW k \in SlotIds, slots'[c][k] # NULL
                 PROVE  SlotPlaced(c, k)'
      BY DEF SlotsPlaced
    <2>1. slots[c][k] # NULL /\ (c # b \/ k # i)
      BY <1>2, <1>3
    <2>2. SlotPlaced(c, k) /\ SlotPlaced(b, i)
      BY <2>1 DEF IInv, SlotsPlaced
    <2>3. CASE active_base' = active_base
      BY <2>2, <2>3 DEF SlotPlaced
    <2>4. CASE IsFlat(b) /\ active_base' = NoBase
      <3>1. ~IsRpu(b)
        BY <2>4, PkgFacts
      <3>2. IsRpu(c)
        BY <2>1, <2>2, <2>4, <3>1 DEF SlotPlaced
      <3>3. QED
        BY <2>2, <3>2 DEF SlotPlaced
    <2>5. QED
      BY <2>3, <2>4
  <1>9. PartialAccounting'
    <2>1. active_base \in UserIdx => active'[active_base] = active[active_base]
      BY <1>6, Constants
    <2>2. QED
      BY <1>4, <2>1, PartialsQuiet DEF IInv
  <1>10. SlotsAllocated'
    <2>1. \A c \in Pkgs : Occupied(c)' # {} => Occupied(c) # {}
      BY <1>2, <1>3 DEF Occupied
    <2>2. QED
      BY <2>1, Constants DEF IInv, SlotsAllocated
  <1>11. QED
    BY <1>5, <1>7, <1>8, <1>9, <1>10 DEF IInv

LEMMA UnloadSlotInv ==
    ASSUME IInv, NEW h \in Handles, NEW i \in SlotIds,
           \/ active_rpu_base # NoBase /\ unload_rpu_slot(h, i)
           \/ active_base \in Pkgs /\ unload_pl_slot(h, i)
    PROVE  IInv'
  <1>0. TypeOK'
    BY UnloadSlotType, Zenon DEF IInv
  <1>1. CASE active_rpu_base # NoBase /\ unload_rpu_slot(h, i)
    <2>1. active_rpu_base \in Pkgs /\ IsRpu(active_rpu_base)
      BY <1>1 DEF IInv, TypeOK
    <2>2. slots[active_rpu_base][i] # NULL /\ slots[active_rpu_base][i].slot_handle = h
      BY <1>1 DEF unload_rpu_slot, find_slot_from_handle
    <2>3. /\ slots' = [slots EXCEPT ![active_rpu_base][i] = NULL]
          /\ used_handles' = used_handles \ {h}
          /\ active' = [active EXCEPT ![active_rpu_base] = @ - 1]
          /\ UNCHANGED <<active_base, active_rpu_base, slots_alloc, user>>
      BY <1>1 DEF unload_rpu_slot
    <2>4. active_rpu_base = IF IsRpu(active_rpu_base) THEN active_rpu_base ELSE active_base
      BY <2>1
    <2>5. QED
      BY <1>0, <2>1, <2>2, <2>3, <2>4, SlotUnload, Zenon
  <1>2. CASE active_base \in Pkgs /\ unload_pl_slot(h, i)
    <2>1. active_base \in Pkgs /\ ~IsRpu(active_base)
      BY <1>2, Constants DEF IInv, TypeOK
    <2>2. slots[active_base][i] # NULL /\ slots[active_base][i].slot_handle = h
      BY <1>2 DEF unload_pl_slot, find_slot_from_handle
    <2>3. /\ slots' = [slots EXCEPT ![active_base][i] = NULL]
          /\ used_handles' = used_handles \ {h}
          /\ active' = [active EXCEPT ![active_base] = @ - 1]
          /\ active_base' = active_base \/ (IsFlat(active_base) /\ active_base' = NoBase)
          /\ UNCHANGED <<active_rpu_base, slots_alloc, user>>
      BY <1>2 DEF unload_pl_slot
    <2>4. active_base = IF IsRpu(active_base) THEN active_rpu_base ELSE active_base
      BY <2>1
    <2>5. QED
      BY <1>0, <2>1, <2>2, <2>3, <2>4, SlotUnload, Zenon
  <1>3. QED
    BY <1>1, <1>2

LEMMA UnloadInv ==
    ASSUME IInv, NEW h \in Handles, unload_accelerator(h)
    PROVE  IInv'
  <1>1. CASE \E u \in UserIdx : user[u].is_user_load /\ user_unload(u)
    BY <1>1, UserUnloadInv
  <1>2. CASE \E i \in SlotIds :
                \/ active_rpu_base # NoBase /\ unload_rpu_slot(h, i)
                \/ active_base \in Pkgs /\ unload_pl_slot(h, i)
    BY <1>2, UnloadSlotInv, Zenon
  <1>3. CASE refuse(LOAD_ERROR)
    BY <1>3, RefuseInv DEF LOAD_ERROR
  <1>4. QED
    BY <1>1, <1>2, <1>3, Zenon DEF unload_accelerator, InRpuSlot, InPlSlot

-----------------------------------------------------------------------------
(* Every request.                                                          *)

LEMMA CoreInv ==
    ASSUME IInv, NEW b \in Pkgs, NEW name, load_accelerator_core(b, name)
    PROVE  IInv'
  <1>1. LOAD_ERROR \in Int
    BY DEF LOAD_ERROR
  <1>2. CASE refuse(LOAD_ERROR)
    BY <1>1, <1>2, RefuseInv
  <1>3. CASE /\ IsFlat(b) /\ ~is_base_externally_managed(active_base)
             /\ load_flat_busy(b) \/ load_flat(b)
    BY <1>3, LoadFlatInv
  <1>4. CASE /\ IsDfx(b) /\ ~is_base_externally_managed(active_base)
             /\ \E j \in DOMAIN Pkg[b].accel_list :
                  \/ load_dfx_mismatch(b) \/ load_dfx_base_fails(b)
                  \/ load_dfx_slot_fails(b, Pkg[b].accel_list[j])
                  \/ load_dfx(b, Pkg[b].accel_list[j])
    BY <1>4, AccelType, LoadDfxInv, Zenon
  <1>5. CASE /\ IsRpu(b)
             /\ \E j \in DOMAIN Pkg[b].accel_list :
                  \/ rpu_mismatch(b) \/ rpu_slot_fails(b, Pkg[b].accel_list[j])
                  \/ load_rpu_slot(b, Pkg[b].accel_list[j])
    BY <1>5, AccelType, LoadRpuInv, Zenon
  <1>6. QED
    BY <1>2, <1>3, <1>4, <1>5, Zenon DEF load_accelerator_core

LEMMA LoadInv ==
    ASSUME IInv, NEW name, load_accelerator(name)
    PROVE  IInv'
  <1>1. CASE \E b \in Pkgs : load_accelerator_core(b, name)
    BY <1>1, CoreInv
  <1>2. CASE \E code \in {LOAD_ERROR, NO_PACKAGE_FOUND} : refuse(code)
    BY <1>2, RefuseInv DEF LOAD_ERROR, NO_PACKAGE_FOUND
  <1>3. QED
    BY <1>1, <1>2 DEF load_accelerator, Matches

LEMMA IInvStep ==
    ASSUME IInv, [Next]_vars
    PROVE  IInv'
  <1>1. LOAD_ERROR \in Int
    BY DEF LOAD_ERROR
  <1>2. ASSUME NEW name \in Names, load_accelerator(name)
        PROVE  IInv'
    BY <1>2, LoadInv
  <1>3. ASSUME NEW b \in Pkgs, NEW j \in DOMAIN Pkg[b].accel_list,
               load_accelerator_by_id(b, j)
        PROVE  IInv'
    BY <1>3, CoreInv, Zenon DEF load_accelerator_by_id
  <1>4. ASSUME NEW b \in Pkgs, NEW j \in DOMAIN Pkg[b].accel_list,
               unload_accelerator_by_id(b, j)
        PROVE  IInv'
    BY <1>1, <1>4, UnloadInv, RefuseInv, Zenon DEF unload_accelerator_by_id
  <1>5. ASSUME NEW name \in UserNames, NEW region \in Regions \cup {NULL},
               NEW partial \in BOOLEAN, NEW force \in BOOLEAN,
               NEW kind \in {"plain", "secure", "incomplete"},
               user_load(name, partial, force, kind, region)
        PROVE  IInv'
    <2>1. name \in Names
      BY FlagAssumption
    <2>2. QED
      BY <1>5, <2>1, UserLoadInv, Zenon
  <1>6. ASSUME NEW r \in OverlayDirs, user_unload_overlay(r)
        PROVE  IInv'
    BY <1>6, UnloadOverlayInv
  <1>7. CASE unload_accel_base
    BY <1>7, UnloadBaseInv
  <1>8. ASSUME NEW h \in Handles, unload_accelerator(h)
        PROVE  IInv'
    BY <1>8, UnloadInv
  <1>9. ASSUME NEW name \in Names, unload_accelerator_by_name(name)
        PROVE  IInv'
    <2>1. PICK h \in Handles \cup {NoHandle} :
             \/ h >= 0 /\ unload_accelerator(h)
             \/ h < 0 /\ refuse(LOAD_ERROR)
      BY <1>9 DEF unload_accelerator_by_name
    <2>2. h >= 0 => h \in Handles
      BY DEF NoHandle
    <2>3. QED
      BY <1>1, <2>1, <2>2, UnloadInv, RefuseInv
  <1>10. CASE UNCHANGED vars
    <2>1. /\ UNCHANGED <<active_base, active_rpu_base, active, slots, used_handles>>
          /\ slots_alloc \subseteq slots_alloc' /\ SameUsers
      BY <1>10 DEF vars, SameUsers, SameUser
    <2>2. TypeOK'
      BY <1>10 DEF vars, IInv, TypeOK
    <2>3. QED
      BY <2>1, <2>2, SameStep
  <1>11. QED
    BY <1>2, <1>3, <1>4, <1>5, <1>6, <1>7, <1>8, <1>9, <1>10, Zenon DEF Next

LEMMA IInvInit == Init => IInv
  <1> SUFFICES ASSUME Init PROVE IInv
    OBVIOUS
  <1>1. TypeOK
    BY TypeInit
  <1>2. /\ active_base = NoBase /\ active_rpu_base = NoBase
        /\ slots_alloc = {} /\ used_handles = {}
    BY DEF Init
  <1>3. \A b \in Pkgs, i \in SlotIds : slots[b][i] = NULL
    BY DEF Init
  <1>4. \A u \in UserIdx : ~user[u].is_user_load
    BY DEF Init
  <1>5. SlotsPlaced
    BY <1>3 DEF SlotsPlaced
  <1>6. ActiveCounts
    <2>1. \A b \in Pkgs : Counted(b) = {} /\ active[b] = 0
      BY <1>3, Constants DEF Counted, Occupied, Init
    <2>2. QED
      BY <2>1, FS_EmptySet DEF ActiveCounts
  <1>7. PartialAccounting
    BY <1>2, <1>4, Constants DEF PartialAccounting, Partials
  <1>8. SlotsAllocated
    BY <1>2, <1>3, Constants DEF SlotsAllocated, Occupied
  <1>9. HandlesExact
    BY <1>2, <1>3, <1>4 DEF HandlesExact, HasSlot, HasUser
  <1>10. QED
    BY <1>1, <1>5, <1>6, <1>7, <1>8, <1>9 DEF IInv

\* IInv holds in every state the daemon reaches, whatever packages are
\* installed and whatever the hardware answers.
THEOREM Inductive == Spec => []IInv
  <1>1. IInv /\ [Next]_vars => IInv'
    BY IInvStep
  <1>2. QED
    BY IInvInit, <1>1, PTL DEF Spec

\* available_slot_handle[] marks exactly the handles of what is loaded and no
\* two designs share one, for any packages and any SLOT_HANDLE_MAX: a handle
\* is never leaked by a failed load nor given out twice.
THEOREM HandleTableExact == Spec => []HandleTable
  <1>1. IInv => HandleTable
    BY ExactIsHandleTable DEF IInv
  <1>2. QED
    BY Inductive, <1>1, PTL

\* A design with a handle always sits in a slot of an active base that
\* find_slot_from_handle() searches, so that it can be unloaded again.
THEOREM HoldersActive == Spec => []OnlyActiveHolds
  <1>1. IInv => OnlyActiveHolds
    BY PlacedIsOnlyActive DEF IInv
  <1>2. QED
    BY Inductive, <1>1, PTL

\* base->active counts the designs in the base's slots, through failed loads,
\* evictions and unloads alike.
THEOREM ActiveExact == Spec => []ActiveCounts
  <1>1. IInv => ActiveCounts
    BY DEF IInv
  <1>2. QED
    BY Inductive, <1>1, PTL

\* The active counter of a user Full is the number of Partials on it, and
\* Partials exist only on a user Full or on an externally managed base.
THEOREM PartialsCounted == Spec => []PartialAccounting
  <1>1. IInv => PartialAccounting
    BY DEF IInv
  <1>2. QED
    BY Inductive, <1>1, PTL

\* No handler indexes the slots array of a base after it was freed.
THEOREM SlotsAllocatedAlways == Spec => []SlotsAllocated
  <1>1. IInv => SlotsAllocated
    BY DEF IInv
  <1>2. QED
    BY Inductive, <1>1, PTL

=============================================================================
