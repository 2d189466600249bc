-------------------------- MODULE DiscoveryProofs --------------------------
(***************************************************************************)
(* For any directory tree, any table sizes and any sites: the tables of    *)
(* Discovery keep their types, every watch the kernel has is one that      *)
(* active_watch[] knows, and no accelerator has two rows.  Where packages  *)
(* come and go as a whole, a settled daemon lists exactly the packages on  *)
(* disk, with the slots they need, and on Versal an ID a listing showed    *)
(* names what it showed until the dirty flag says otherwise.               *)
(*                                                                         *)
(* Both threads change one value, db, by the same helpers, so the proofs   *)
(* are about values t of db.  There are four inductive invariants, each    *)
(* with a part of its own below: what a helper keeps, then what the scan   *)
(* of a slot, of an accelerator and of a base directory keeps (inductions  *)
(* over the directories), then the steps.                                  *)
(*   DiscoveryInv   the tables are sound                                   *)
(*   WholeInv       each package is known, announced or to be walked       *)
(*   ListingInv     the last listing is current while the flag is clear    *)
(*   RowsInv        an event reaches the watch of the directory it is      *)
(*                  about, and the rows of a base are of directories in it *)
(***************************************************************************)
EXTENDS Discovery, FiniteSetTheorems, FunctionTheorems, NaturalsInduction,
        SequenceTheorems, WellFoundedInduction, TLAPS

Places == Dirs \cup {Root}

\* An entry of base_designs[] is never that of the firmware location itself.
BaseSet == {b \in Base : b.path # Root}
Lists == [AccelIdx -> Accel]
Tables == [watch: [Table -> Watch], bases: [Table -> BaseSet],
           wd: [Places -> Int], next: Nat]

Resolved(t) ==
    \A d \in Places : t.wd[d] # -1 =>
        \E i \in Table : t.watch[i].wd = t.wd[d] /\ t.watch[i].path = d

Sound(t) == t \in Tables /\ Resolved(t)

\* What the helpers read besides the tables.
OnDisk ==
    /\ site \in Sites
    /\ fs \subseteq site.dirs
    /\ file \in [Dirs -> {"none", "partial", "full"}]

Requests == [kind: {"boot", "none", "list", "load"},
             pc: {"idle", "walk", "serve", "clear", "print"}]

Walking(w) ==
    w = [todo |-> w.todo, reg |-> w.reg] /\ w.reg \in Dirs \cup {NULL}

\* The inductive invariant.
DiscoveryInv ==
    /\ OnDisk
    /\ Sound(db)
    /\ rescan \in BOOLEAN /\ dirty \in BOOLEAN
    /\ req \in Requests
    /\ Walking(walk)

-----------------------------------------------------------------------------
(* Numbers and the tree.                                                   *)

LEMMA Least ==
    ASSUME NEW S, S \subseteq Nat, S # {}
    PROVE  \E n \in S : \A m \in S : n <= m
<1> DEFINE R == {x \in Nat \X Nat : x[1] < x[2]}
<1>1. IsWellFoundedOn(R, Nat)
  BY NatLessThanWellFounded DEF OpToRel
<1>2. PICK n \in S : \A m \in S : ~(<<m, n>> \in R)
  <2> HIDE DEF R
  <2> QED
    BY <1>1, WFMin
<1>3. \A m \in S : n <= m
  <2> SUFFICES ASSUME NEW m \in S
               PROVE  n <= m
    OBVIOUS
  <2>1. m \in Nat /\ n \in Nat /\ <<m, n>> \in Nat \X Nat
    OBVIOUS
  <2>2. m < n => <<m, n>> \in R
    BY <2>1
  <2>3. ~(m < n)
    BY <1>2, <2>2, Zenon
  <2> QED
    BY <2>1, <2>3
<1> QED
  BY <1>3

LEMMA LowestIn ==
    ASSUME NEW S, S \subseteq Nat, S # {}
    PROVE  Lowest(S) \in S
BY Least DEF Lowest

LEMMA MaxOfTwo ==
    ASSUME NEW m \in Nat, NEW n \in Nat
    PROVE  Max({m, n}) \in Nat
<1>1. \E x \in {m, n} : \A y \in {m, n} : x >= y
  <2>1. CASE m >= n
    BY <2>1
  <2>2. CASE n >= m
    BY <2>2
  <2> QED
    BY <2>1, <2>2
<1> QED
  BY <1>1 DEF Max

LEMMA SiteFacts ==
    ASSUME site \in Sites
    PROVE  /\ site \in Site /\ site.dirs \subseteq Dirs
           /\ site.max_watch \in Nat \ {0} /\ site.installed \subseteq site.dirs
           /\ Table \subseteq Nat /\ 1 \in Table /\ IsFiniteSet(Table)
<1>1. site \in Site /\ site.installed \subseteq site.dirs
  BY TreeAssumption
<1>2. site.max_watch \in Nat \ {0} /\ site.dirs \subseteq Dirs
  BY <1>1 DEF Site
<1>3. IsFiniteSet(1 .. site.max_watch)
  BY <1>2, FS_Interval
<1> QED
  BY <1>1, <1>2, <1>3 DEF Table

LEMMA AccelIdxFacts == AccelIdx \subseteq Nat /\ IsFiniteSet(AccelIdx)
<1>1. RP_SLOTS_MAX \in Nat
  BY TreeAssumption
<1> QED
  BY <1>1, FS_Interval DEF AccelIdx

LEMMA ParentIn ==
    ASSUME NEW d \in Dirs
    PROVE  Parent(d) \in Places
BY TreeAssumption DEF Parent, ParentOf, Places

LEMMA LowestRow ==
    ASSUME site \in Sites, NEW S, S \subseteq Table, S # {}
    PROVE  Lowest(S) \in S /\ Lowest(S) \in Table
BY SiteFacts, LowestIn

-----------------------------------------------------------------------------
(* Watches.                                                                *)

\* What add_dir_watch() makes of the tables when it adds a watch.
Added(t, i, d, w) == [t EXCEPT !.watch[i] = w, !.wd[d] = t.next, !.next = @ + 1]

LEMMA AddedFields ==
    ASSUME NEW t, t \in Tables, NEW i, NEW d, NEW w
    PROVE  LET u == Added(t, i, d, w)
           IN  /\ u.watch = [t.watch EXCEPT ![i] = w] /\ u.bases = t.bases
               /\ u.wd = [t.wd EXCEPT ![d] = t.next] /\ u.next = t.next + 1
               /\ u = [watch |-> u.watch, bases |-> u.bases, wd |-> u.wd, next |-> u.next]
<1> DEFINE u == Added(t, i, d, w)
           v == [t EXCEPT !.watch[i] = w]
           x == [v EXCEPT !.wd[d] = t.next]
<1>1. u = [x EXCEPT !.next = @ + 1]
  BY DEF Added
<1>2. /\ v = [watch |-> v.watch, bases |-> v.bases, wd |-> v.wd, next |-> v.next]
      /\ v.watch = [t.watch EXCEPT ![i] = w] /\ v.wd = t.wd /\ v.next = t.next
      /\ v.bases = t.bases
  BY DEF Tables
<1> HIDE DEF v
<1>3. /\ x = [watch |-> x.watch, bases |-> x.bases, wd |-> x.wd, next |-> x.next]
      /\ x.watch = v.watch /\ x.wd = [t.wd EXCEPT ![d] = t.next] /\ x.next = t.next
      /\ x.bases = t.bases
  BY <1>2
<1> HIDE DEF x
<1>4. /\ u.watch = [t.watch EXCEPT ![i] = w] /\ u.wd = [t.wd EXCEPT ![d] = t.next]
      /\ u.next = t.next + 1 /\ u.bases = t.bases
      /\ u = [watch |-> u.watch, bases |-> u.bases, wd |-> u.wd, next |-> u.next]
  BY <1>1, <1>2, <1>3
<1> HIDE DEF u
<1> QED
  BY <1>4 DEF u

LEMMA AddedSound ==
    ASSUME site \in Sites, NEW t, Sound(t), NEW i \in Table, t.watch[i].wd = -1,
           NEW d \in Places, NEW w \in Watch, w.wd = t.next, w.path = d
    PROVE  Sound(Added(t, i, d, w)) /\ Added(t, i, d, w).bases = t.bases
<1> DEFINE u == Added(t, i, d, w)
<1>1. /\ t \in Tables /\ t.watch \in [Table -> Watch] /\ t.wd \in [Places -> Int]
      /\ t.next \in Nat
  BY DEF Sound, Tables
<1>2. /\ u.watch = [t.watch EXCEPT ![i] = w] /\ u.wd = [t.wd EXCEPT ![d] = t.next]
      /\ u.next = t.next + 1 /\ u.bases = t.bases
      /\ u = [watch |-> u.watch, bases |-> u.bases, wd |-> u.wd, next |-> u.next]
  BY <1>1, AddedFields
<1>3. u.watch \in [Table -> Watch] /\ u.wd \in [Places -> Int] /\ u.next \in Nat
  BY <1>1, <1>2
<1>4. u \in Tables
  BY <1>1, <1>2, <1>3 DEF Tables
<1>5. ASSUME NEW e \in Places, u.wd[e] # -1
      PROVE  \E k \in Table : u.watch[k].wd = u.wd[e] /\ u.watch[k].path = e
  <2>1. CASE e = d
    <3>1. u.watch[i] = w /\ u.wd[e] = t.next
      BY <1>1, <1>2, <2>1
    <3> QED
      BY <2>1, <3>1
  <2>2. CASE e # d
    <3>1. u.wd[e] = t.wd[e]
      BY <1>1, <1>2, <2>2
    <3>2. PICK k \in Table : t.watch[k].wd = t.wd[e] /\ t.watch[k].path = e
      BY <1>5, <3>1 DEF Sound, Resolved
    <3>3. k # i
      BY <1>5, <3>1, <3>2
    <3>4. u.watch[k] = t.watch[k]
      BY <1>1, <1>2, <3>3
    <3> QED
      BY <3>1, <3>2, <3>4
  <2> QED
    BY <2>1, <2>2
<1> HIDE DEF u
<1>6. Sound(u)
  BY <1>4, <1>5 DEF Sound, Resolved
<1> QED
  BY <1>2, <1>6 DEF u

LEMMA AddWatchSound ==
    ASSUME site \in Sites, NEW t, Sound(t), NEW d \in Places,
           NEW pname \in Path, NEW ppath \in Path
    PROVE  /\ Sound(add_dir_watch(t, d, pname, ppath).t)
           /\ add_dir_watch(t, d, pname, ppath).t.bases = t.bases
           /\ add_dir_watch(t, d, pname, ppath).ok \in BOOLEAN
<1> DEFINE r == add_dir_watch(t, d, pname, ppath)
           i == Lowest(FreeWatches(t))
           w == [wd |-> t.next, path |-> d, parent_name |-> pname, parent_path |-> ppath]
<1>1. CASE WatchesOf(t, d) # {} \/ d \notin fs \cup {Root} \/ FreeWatches(t) = {}
  <2>1. r.t = t /\ r.ok \in BOOLEAN
    BY <1>1 DEF add_dir_watch
  <2> HIDE DEF r
  <2> QED
    BY <2>1 DEF r
<1>2. CASE ~(WatchesOf(t, d) # {} \/ d \notin fs \cup {Root} \/ FreeWatches(t) = {})
  <2>1. r = [ok |-> TRUE, t |-> Added(t, i, d, w)]
    BY <1>2 DEF add_dir_watch, Added
  <2>2. i \in FreeWatches(t) /\ i \in Table
    BY <1>2, LowestRow DEF FreeWatches
  <2>3. t.watch[i].wd = -1
    BY <2>2 DEF FreeWatches
  <2>4. w \in Watch /\ w.wd = t.next /\ w.path = d
    BY DEF Watch, Path, Places, Sound, Tables
  <2> HIDE DEF i, w
  <2>5. Sound(Added(t, i, d, w)) /\ Added(t, i, d, w).bases = t.bases
    BY <2>2, <2>3, <2>4, AddedSound
  <2>6. r.t = Added(t, i, d, w) /\ r.ok = TRUE
    BY <2>1
  <2> HIDE DEF r
  <2> QED
    BY <2>5, <2>6 DEF r
<1> QED
  BY <1>1, <1>2

LEMMA OneDropped ==
    ASSUME NEW g \in [Places -> Int], NEW d \in Places
    PROVE  /\ [g EXCEPT ![d] = -1] \in [Places -> Int]
           /\ \A e \in Places : [g EXCEPT ![d] = -1][e] \in {-1, g[e]}
<1> DEFINE f == [g EXCEPT ![d] = -1]
<1>1. f = [e \in Places |-> IF e = d THEN -1 ELSE g[e]]
  OBVIOUS
<1> HIDE DEF f
<1>2. f \in [Places -> Int] /\ \A e \in Places : f[e] \in {-1, g[e]}
  BY <1>1
<1> QED
  BY <1>2 DEF f

\* Kernel watches may go at any time; those left are still resolved.
LEMMA DroppedSound ==
    ASSUME NEW t, Sound(t), NEW f \in [Places -> Int],
           \A d \in Places : f[d] \in {-1, t.wd[d]}
    PROVE  Sound([t EXCEPT !.wd = f])
<1> DEFINE u == [t EXCEPT !.wd = f]
<1>1. u \in Tables /\ u.wd = f /\ u.watch = t.watch
  BY DEF Sound, Tables
<1> HIDE DEF u
<1>2. Resolved(u)
  BY <1>1 DEF Sound, Resolved
<1> QED
  BY <1>1, <1>2 DEF Sound, u

Renamed(w, n, p) == [w EXCEPT !.wd = n, !.path = p]

LEMMA RenamedWatch ==
    ASSUME NEW w \in Watch, NEW n \in Int, NEW p \in Path
    PROVE  Renamed(w, n, p) \in Watch
<1> DEFINE v == [w EXCEPT !.wd = n]
<1>1. v \in Watch
  BY DEF Watch
<1>2. Renamed(w, n, p) = [v EXCEPT !.path = p]
  BY DEF Renamed
<1> HIDE DEF v
<1> QED
  BY <1>1, <1>2 DEF Watch

\* The row of path is emptied, and its descriptor is no longer the kernel's.
Unwatched(t, path) ==
    [i \in Table |-> IF t.watch[i].path = path THEN Renamed(t.watch[i], -1, NULL)
                                              ELSE t.watch[i]]

LEMMA RemoveWatchFields ==
    ASSUME site \in Sites, NEW t, Sound(t), NEW path
    PROVE  LET u == remove_watch(t, path)
               wds == {t.watch[i].wd : i \in WatchesOf(t, path)}
           IN  /\ u \in Tables /\ u.watch = Unwatched(t, path) /\ u.bases = t.bases
               /\ u.wd = [d \in Places |-> IF t.wd[d] \in wds THEN -1 ELSE t.wd[d]]
               /\ u.next = t.next
<1> DEFINE u == remove_watch(t, path)
           wds == {t.watch[i].wd : i \in WatchesOf(t, path)}
           W == Unwatched(t, path)
           D == [d \in Places |-> IF t.wd[d] \in wds THEN -1 ELSE t.wd[d]]
           v == [t EXCEPT !.watch = W]
<1>1. /\ t \in Tables /\ t.watch \in [Table -> Watch] /\ t.wd \in [Places -> Int]
      /\ DOMAIN t.wd = Places
  BY DEF Sound, Tables
<1>2. W \in [Table -> Watch]
  <2>1. ASSUME NEW i \in Table
        PROVE  W[i] \in Watch
    <3>1. t.watch[i] \in Watch
      BY <1>1
    <3>2. Renamed(t.watch[i], -1, NULL) \in Watch
      BY <3>1, RenamedWatch DEF Path
    <3> QED
      BY <3>1, <3>2 DEF Unwatched
  <2> QED
    BY <2>1 DEF Unwatched
<1>3. D \in [Places -> Int]
  <2> HIDE DEF wds
  <2> QED
    BY <1>1
<1>4. u = [v EXCEPT !.wd = D]
  <2>1. u = [t EXCEPT !.watch = W,
                      !.wd = [d \in DOMAIN @ |-> IF @[d] \in wds THEN -1 ELSE @[d]]]
    BY DEF remove_watch, Unwatched, Renamed
  <2>2. v.wd = t.wd
    BY <1>1 DEF Tables
  <2> HIDE DEF wds, W, u
  <2>3. u = [v EXCEPT !.wd = [d \in DOMAIN @ |-> IF @[d] \in wds THEN -1 ELSE @[d]]]
    BY <2>1
  <2> HIDE DEF v
  <2> QED
    BY <1>1, <2>2, <2>3
<1> HIDE DEF W, D
<1>5. v \in Tables /\ v.watch = W /\ v.wd = t.wd /\ v.bases = t.bases /\ v.next = t.next
  BY <1>1, <1>2 DEF Tables
<1> HIDE DEF v
<1>6. u \in Tables /\ u.watch = W /\ u.wd = D /\ u.bases = t.bases /\ u.next = t.next
  BY <1>3, <1>4, <1>5 DEF Tables
<1> HIDE DEF u
<1> QED
  BY <1>6 DEF u, W, D

\* remove_watch() gives a kernel watch back with its entry.
LEMMA RemoveWatchSound ==
    ASSUME site \in Sites, NEW t, Sound(t), NEW path
    PROVE  /\ Sound(remove_watch(t, path))
           /\ remove_watch(t, path).bases = t.bases
<1> DEFINE u == remove_watch(t, path)
           wds == {t.watch[i].wd : i \in WatchesOf(t, path)}
           W == Unwatched(t, path)
           D == [d \in Places |-> IF t.wd[d] \in wds THEN -1 ELSE t.wd[d]]
<1>1. u \in Tables /\ u.watch = W /\ u.wd = D /\ u.bases = t.bases
  BY RemoveWatchFields
<1>2. \A d \in Places : D[d] # -1 =>
         /\ D[d] = t.wd[d]
         /\ \A i \in Table : t.watch[i].wd = D[d] => W[i] = t.watch[i]
  <2> SUFFICES ASSUME NEW d \in Places, D[d] # -1, NEW i \in Table,
                      t.watch[i].wd = t.wd[d]
               PROVE  D[d] = t.wd[d] /\ W[i] = t.watch[i]
    <3>1. \A d \in Places : D[d] # -1 => D[d] = t.wd[d]
      OBVIOUS
    <3> HIDE DEF D, W
    <3> QED
      BY <3>1
  <2>1. D[d] = t.wd[d] /\ t.wd[d] \notin wds
    OBVIOUS
  <2>2. i \notin WatchesOf(t, path)
    BY <2>1
  <2>3. t.watch[i].path # path
    BY <2>2 DEF WatchesOf
  <2> QED
    BY <2>1, <2>3 DEF Unwatched
<1> HIDE DEF W, D, u
<1>3. Resolved(u)
  <2> SUFFICES ASSUME NEW d \in Places, D[d] # -1
               PROVE  \E i \in Table : W[i].wd = D[d] /\ W[i].path = d
    BY <1>1 DEF Resolved
  <2>1. D[d] = t.wd[d]
    BY <1>2
  <2>2. PICK i \in Table : t.watch[i].wd = t.wd[d] /\ t.watch[i].path = d
    BY <2>1 DEF Sound, Resolved
  <2> QED
    BY <1>2, <2>1, <2>2
<1> QED
  BY <1>1, <1>3 DEF Sound, u

-----------------------------------------------------------------------------
(* base_designs[].                                                         *)

LEMMA SetBases ==
    ASSUME NEW t, Sound(t), NEW bs \in [Table -> BaseSet]
    PROVE  Sound([t EXCEPT !.bases = bs]) /\ [t EXCEPT !.bases = bs].bases = bs
<1> DEFINE u == [t EXCEPT !.bases = bs]
<1>1. u \in Tables /\ u.bases = bs /\ u.watch = t.watch /\ u.wd = t.wd
  BY DEF Sound, Tables
<1> HIDE DEF u
<1>2. Resolved(u)
  BY <1>1 DEF Sound, Resolved
<1> QED
  BY <1>1, <1>2 DEF Sound, u

LEMMA SetBase ==
    ASSUME NEW t, Sound(t), NEW i \in Table, NEW b \in BaseSet
    PROVE  Sound([t EXCEPT !.bases[i] = b]) /\ [t EXCEPT !.bases[i] = b].bases[i] = b
<1> DEFINE bs == [t.bases EXCEPT ![i] = b]
<1>1. bs \in [Table -> BaseSet] /\ bs[i] = b
  BY DEF Sound, Tables
<1>2. [t EXCEPT !.bases[i] = b] = [t EXCEPT !.bases = bs]
  BY DEF Sound, Tables
<1> HIDE DEF bs
<1> QED
  BY <1>1, <1>2, SetBases

LEMMA BaseFacts ==
    ASSUME NEW t, Sound(t), NEW i \in Table
    PROVE  /\ t.bases[i] \in BaseSet /\ t.bases[i].path \in Dirs \cup {NULL}
           /\ t.bases[i].accel_list \in Lists
BY DEF Sound, Tables, BaseSet, Base, Path, Lists

\* A base whose accelerators change stays a base.
LEMMA NewList ==
    ASSUME NEW b \in BaseSet, NEW l \in Lists
    PROVE  [b EXCEPT !.accel_list = l] \in BaseSet
BY DEF BaseSet, Base, Lists

LEMMA SetList ==
    ASSUME NEW t, Sound(t), NEW i \in Table, NEW l \in Lists
    PROVE  Sound([t EXCEPT !.bases[i].accel_list = l])
<1> DEFINE b == [t.bases[i] EXCEPT !.accel_list = l]
<1>1. [t EXCEPT !.bases[i].accel_list = l] = [t EXCEPT !.bases[i] = b]
  BY DEF Sound, Tables
<1>2. b \in BaseSet
  BY BaseFacts, NewList
<1> HIDE DEF b
<1> QED
  BY <1>1, <1>2, SetBase

LEMMA NamedEntry ==
    ASSUME NEW a \in Accel, NEW path \in Path, NEW name \in Path
    PROVE  [a EXCEPT !.path = path, !.name = name] \in Accel
<1> DEFINE b == [a EXCEPT !.path = path]
<1>1. b \in Accel
  BY DEF Accel
<1>2. [a EXCEPT !.path = path, !.name = name] = [b EXCEPT !.name = name]
  OBVIOUS
<1> HIDE DEF b
<1> QED
  BY <1>1, <1>2 DEF Accel

LEMMA EnteredList ==
    ASSUME NEW l \in Lists, NEW j \in AccelIdx, NEW path \in Path, NEW name \in Path
    PROVE  [l EXCEPT ![j].path = path, ![j].name = name] \in Lists
<1> DEFINE a == [l[j] EXCEPT !.path = path, !.name = name]
<1>1. l[j] \in Accel
  BY DEF Lists
<1>2. a \in Accel
  BY <1>1, NamedEntry
<1>3. [l EXCEPT ![j].path = path, ![j].name = name] = [l EXCEPT ![j] = a]
  BY DEF Lists
<1> HIDE DEF a
<1> QED
  BY <1>2, <1>3 DEF Lists

LEMMA AccelSlotIn ==
    ASSUME NEW l, NEW name, NEW path
    PROVE  AccelSlot(l, name, path) \in AccelIdx \cup {0}
<1> DEFINE S == {j \in AccelIdx : \/ l[j].path = NULL
                                  \/ l[j].path = path /\ l[j].name = name}
<1>1. S # {} => Lowest(S) \in S
  <2>1. S \subseteq Nat
    BY AccelIdxFacts
  <2> HIDE DEF S
  <2> QED
    BY <2>1, LowestIn
<1> QED
  BY <1>1 DEF AccelSlot

LEMMA AddAccelList ==
    ASSUME NEW l \in Lists, NEW name \in Path, NEW path \in Path
    PROVE  add_accel_to_base(l, name, path) \in Lists
<1> DEFINE j == AccelSlot(l, name, path)
<1>1. j \in AccelIdx \cup {0}
  BY AccelSlotIn
<1> HIDE DEF j
<1>2. j # 0 => [l EXCEPT ![j].path = path, ![j].name = name] \in Lists
  BY <1>1, EnteredList
<1> QED
  BY <1>2 DEF add_accel_to_base, j

LEMMA NoAccelType == NoAccel \in Accel
BY DEF NoAccel, Accel, Path

LEMMA AddPdiList ==
    ASSUME NEW l \in Lists, NEW name \in Path, NEW path \in Path, NEW d
    PROVE  add_pdi_accel(l, name, path, d) \in Lists
<1> DEFINE j == AccelSlot(l, name, path)
<1>1. j \in AccelIdx \cup {0}
  BY AccelSlotIn
<1> HIDE DEF j
<1>2. [l EXCEPT ![j] = NoAccel] \in Lists
  BY <1>1, NoAccelType DEF Lists
<1> QED
  BY <1>2, AddAccelList DEF add_pdi_accel, j

LEMMA FlatAccel ==
    ASSUME NEW b \in BaseSet
    PROVE  register_flat_accel(b) \in BaseSet
<1> DEFINE l == [b.accel_list EXCEPT ![1].path = b.path, ![1].name = b.path]
<1>1. b.accel_list \in Lists /\ b.path \in Path
  BY DEF BaseSet, Base, Lists
<1>2. l \in Lists
  <2>1. CASE 1 \in AccelIdx
    BY <1>1, <2>1, EnteredList
  <2>2. CASE 1 \notin AccelIdx
    BY <1>1, <2>2 DEF Lists
  <2> QED
    BY <2>1, <2>2
<1>3. register_flat_accel(b) = [b EXCEPT !.accel_list = l]
  BY DEF register_flat_accel, BaseSet, Base
<1> HIDE DEF l
<1> QED
  BY <1>2, <1>3, NewList

LEMMA ClearedType ==
    ASSUME NEW a \in Accel
    PROVE  ClearAccel(a) \in Accel
BY NamedEntry DEF ClearAccel, Path

LEMMA WithoutType ==
    ASSUME NEW l \in Lists, NEW path
    PROVE  WithoutAccel(l, path) \in Lists
<1> DEFINE S == {j \in AccelIdx : l[j].path = path}
           k == Lowest(S)
<1>1. CASE S = {}
  BY <1>1 DEF WithoutAccel
<1>2. CASE S # {}
  <2>1. S \subseteq Nat
    BY AccelIdxFacts
  <2>2. k \in S
    <3> HIDE DEF S
    <3> QED
      BY <1>2, <2>1, LowestIn
  <2>3. WithoutAccel(l, path) = [l EXCEPT ![k] = ClearAccel(@)]
    BY <1>2 DEF WithoutAccel
  <2>4. k \in AccelIdx
    BY <2>2
  <2> HIDE DEF k
  <2>5. ClearAccel(l[k]) \in Accel
    BY <2>4, ClearedType DEF Lists
  <2> QED
    BY <2>3, <2>4, <2>5 DEF Lists
<1> QED
  BY <1>1, <1>2

LEMMA RemoveAccelSound ==
    ASSUME NEW t, Sound(t), NEW path, NEW parent
    PROVE  Sound(remove_accel(t, path, parent))
<1> DEFINE b(i) == IF t.bases[i].path # parent THEN t.bases[i]
                   ELSE [t.bases[i] EXCEPT !.accel_list = WithoutAccel(@, path)]
           bs == [i \in Table |-> b(i)]
<1>1. ASSUME NEW i \in Table
      PROVE  b(i) \in BaseSet
  BY BaseFacts, WithoutType, NewList
<1>2. bs \in [Table -> BaseSet]
  <2> HIDE DEF b
  <2> QED
    BY <1>1
<1>3. remove_accel(t, path, parent) = [t EXCEPT !.bases = bs]
  BY DEF remove_accel
<1> HIDE DEF bs
<1> QED
  BY <1>2, <1>3, SetBases

LEMMA RemoveBaseSound ==
    ASSUME site \in Sites, NEW t, Sound(t), NEW path
    PROVE  Sound(remove_base_design(t, path))
<1> DEFINE S == {i \in Table : t.bases[i].path = path}
           i == Lowest(S)
           l == [j \in AccelIdx |-> ClearAccel(t.bases[i].accel_list[j])]
           b == [path |-> NULL, type |-> "", num_pl_slots |-> 0, accel_list |-> l]
<1>1. CASE S = {}
  BY <1>1 DEF remove_base_design
<1>2. CASE S # {}
  <2>1. i \in Table
    BY <1>2, LowestRow
  <2>2. remove_base_design(t, path) = [t EXCEPT !.bases[i] = b]
    BY <1>2, Zenon DEF remove_base_design
  <2> HIDE DEF i
  <2>3. t.bases[i].accel_list \in Lists
    BY <2>1, BaseFacts
  <2>4. l \in Lists
    BY <2>3, ClearedType DEF Lists
  <2> HIDE DEF l
  <2>5. b \in BaseSet
    BY <2>4, TreeAssumption DEF BaseSet, Base, Path, Lists
  <2> HIDE DEF b
  <2> QED
    BY <2>1, <2>2, <2>5, SetBase
<1> QED
  BY <1>1, <1>2

LEMMA NumberedType ==
    ASSUME site \in Sites, NEW t, Sound(t), NEW i \in Table
    PROVE  Numbered(t, i) \in Lists
<1>1. ASSUME NEW j \in AccelIdx
      PROVE  Numbered(t, i)[j] \in Accel
  <2> DEFINE T == {r \in Rows(t) : Before(r, <<i, j>>)}
             n == Cardinality(T)
  <2>1. n \in Nat
    <3>1. IsFiniteSet(Table \X AccelIdx)
      BY SiteFacts, AccelIdxFacts, FS_Product
    <3>2. T \subseteq Table \X AccelIdx
      BY DEF Rows
    <3> HIDE DEF T
    <3> QED
      BY <3>1, <3>2, FS_Subset, FS_CardinalityType
  <2>2. t.bases[i].accel_list[j] \in Accel
    BY BaseFacts DEF Lists
  <2>3. Numbered(t, i)[j] \in {t.bases[i].accel_list[j],
                               [t.bases[i].accel_list[j] EXCEPT !.list_id = n]}
    BY DEF Numbered
  <2> HIDE DEF n
  <2> QED
    BY <2>1, <2>2, <2>3 DEF Accel
<1> QED
  BY <1>1 DEF Numbered, Lists

LEMMA AssignSound ==
    ASSUME site \in Sites, NEW t, Sound(t)
    PROVE  Sound(assign_list_ids(t))
<1> DEFINE b(i) == [t.bases[i] EXCEPT !.accel_list = Numbered(t, i)]
           bs == [i \in Table |-> b(i)]
<1>1. ASSUME NEW i \in Table
      PROVE  b(i) \in BaseSet
  BY BaseFacts, NumberedType, NewList
<1>2. bs \in [Table -> BaseSet]
  <2> HIDE DEF b
  <2> QED
    BY <1>1
<1>3. assign_list_ids(t) = [t EXCEPT !.bases = bs]
  BY DEF assign_list_ids
<1> HIDE DEF bs
<1> QED
  BY <1>2, <1>3, SetBases

\* findBaseDesign_path() finds an entry in use, or nothing.
LEMMA FoundBase ==
    ASSUME site \in Sites, NEW t, Sound(t), NEW path
    PROVE  \/ findBaseDesign_path(t, path) = 0
           \/ /\ findBaseDesign_path(t, path) \in Table
              /\ t.bases[findBaseDesign_path(t, path)].path \in Dirs
<1> DEFINE M == Matching(t, path)
<1>1. CASE M = {}
  BY <1>1 DEF findBaseDesign_path
<1>2. CASE M # {}
  <2>1. Lowest(M) \in M /\ Lowest(M) \in Table
    <3>1. M \subseteq Table
      BY DEF Matching
    <3> HIDE DEF M
    <3> QED
      BY <1>2, <3>1, LowestRow
  <2>2. t.bases[Lowest(M)].path # NULL
    BY <2>1 DEF Matching
  <2>3. findBaseDesign_path(t, path) = Lowest(M)
    BY <1>2 DEF findBaseDesign_path
  <2> HIDE DEF M
  <2> QED
    BY <2>1, <2>2, <2>3, BaseFacts
<1> QED
  BY <1>1, <1>2

LEMMA AddBaseSound ==
    ASSUME site \in Sites, NEW t, Sound(t), NEW d \in Dirs
    PROVE  Sound(add_base_design(t, d))
<1> DEFINE free == {i \in Table : t.bases[i].path = NULL}
           k == Lowest(free)
           b == [t.bases[k] EXCEPT !.path = d]
<1>1. CASE (\E i \in Table : t.bases[i].path = d) \/ free = {}
  BY <1>1 DEF add_base_design
<1>2. CASE ~((\E i \in Table : t.bases[i].path = d) \/ free = {})
  <2>1. k \in Table
    BY <1>2, LowestRow
  <2>2. add_base_design(t, d) = [t EXCEPT !.bases[k].path = d]
    BY <1>2 DEF add_base_design
  <2> HIDE DEF k
  <2>3. [t EXCEPT !.bases[k].path = d] = [t EXCEPT !.bases[k] = b]
    BY <2>1 DEF Sound, Tables
  <2>4. b \in BaseSet
    <3>1. t.bases[k] \in Base /\ d \in Path /\ d # Root
      BY <2>1, BaseFacts, TreeAssumption DEF BaseSet, Path
    <3> QED
      BY <3>1 DEF BaseSet, Base
  <2> HIDE DEF b
  <2> QED
    BY <2>1, <2>2, <2>3, <2>4, SetBase
<1> QED
  BY <1>1, <1>2

-----------------------------------------------------------------------------
(* Scanning a base.                                                        *)

\* A base as it is initialised from its files.
LEMMA InitBaseType ==
    ASSUME OnDisk, NEW b \in BaseSet, b.path \in Dirs
    PROVE  /\ init_base_from_pdi(b).b \in BaseSet
           /\ initBaseDesign(b).b \in BaseSet
           /\ init_base_from_pdi(b).b.path = b.path
           /\ initBaseDesign(b).b.path = b.path
<1> DEFINE N(type, n) == [b EXCEPT !.type = type, !.num_pl_slots = n]
           M(n) == [b EXCEPT !.num_pl_slots = n]
<1>1. ASSUME NEW type \in {"", "FLAT", "PL_DFX", "RPU"}, NEW n \in Nat
      PROVE  N(type, n) \in BaseSet /\ N(type, n).path = b.path
  <2> DEFINE c == [b EXCEPT !.type = type]
  <2>1. c \in BaseSet /\ c.path = b.path
    BY DEF BaseSet, Base
  <2>2. N(type, n) = [c EXCEPT !.num_pl_slots = n]
    OBVIOUS
  <2> HIDE DEF c, N
  <2> QED
    BY <2>1, <2>2 DEF BaseSet, Base
<1>2. /\ Kind[b.path] \in Kinds /\ file[b.path] \in {"none", "partial", "full"}
      /\ Shell[b.path].type \in {"FLAT", "PL_DFX"} /\ Shell[b.path].slots \in Nat
      /\ NumRpu \in Nat
  BY TreeAssumption DEF OnDisk
<1>3. N("RPU", NumRpu) \in BaseSet /\ N("RPU", NumRpu).path = b.path
  <2> HIDE DEF N
  <2> QED
    BY <1>1, <1>2
<1>4. /\ N(Shell[b.path].type, Shell[b.path].slots) \in BaseSet
      /\ N(Shell[b.path].type, Shell[b.path].slots).path = b.path
  <2> HIDE DEF N
  <2> QED
    BY <1>1, <1>2
<1>5. N("", 0) \in BaseSet /\ N("", 0).path = b.path
  <2> HIDE DEF N
  <2> QED
    BY <1>1
<1>6. ASSUME NEW n \in Nat
      PROVE  M(n) \in BaseSet /\ M(n).path = b.path
  BY DEF BaseSet, Base
<1>7. initBaseDesign(b).b \in BaseSet /\ initBaseDesign(b).b.path = b.path
  <2>1. CASE Kind[b.path] = "rpu"
    <3>1. initBaseDesign(b) = [ok |-> TRUE, b |-> N("RPU", NumRpu)]
      BY <2>1 DEF initBaseDesign
    <3> HIDE DEF N
    <3> QED
      BY <1>3, <3>1
  <2>2. CASE Kind[b.path] # "rpu" /\ file[b.path] = "none"
    <3>1. initBaseDesign(b) = [ok |-> FALSE, b |-> b]
      BY <2>2 DEF initBaseDesign
    <3> QED
      BY <3>1
  <2>3. CASE Kind[b.path] # "rpu" /\ file[b.path] = "partial"
    <3> DEFINE n == IF b.type = "FLAT" THEN 1 ELSE 0
    <3>1. initBaseDesign(b) = [ok |-> TRUE, b |-> M(n)]
      BY <2>3 DEF initBaseDesign
    <3>2. n \in Nat
      OBVIOUS
    <3> HIDE DEF n, M
    <3> QED
      BY <1>6, <3>1, <3>2
  <2>4. CASE Kind[b.path] # "rpu" /\ file[b.path] = "full"
    <3>1. initBaseDesign(b) =
            [ok |-> TRUE, b |-> N(Shell[b.path].type, Shell[b.path].slots)]
      BY <2>4 DEF initBaseDesign
    <3> HIDE DEF N
    <3> QED
      BY <1>4, <3>1
  <2> QED
    BY <1>2, <2>1, <2>2, <2>3, <2>4
<1>8. init_base_from_pdi(b).b \in {b, N("", 0)}
  BY DEF init_base_from_pdi
<1> HIDE DEF N
<1> QED
  BY <1>5, <1>7, <1>8

\* What a scan carries along.
ScanSound(x) ==
    /\ x = [t |-> x.t, range |-> x.range, stop |-> x.stop]
    /\ Sound(x.t) /\ x.range \in Nat /\ x.stop \in BOOLEAN

LEMMA ScanSlotSound ==
    ASSUME OnDisk, NEW i \in Table, NEW a \in Dirs, NEW x, ScanSound(x), NEW s
    PROVE  ScanSound(ScanSlotDir(i, a, x, s))
<1> DEFINE w == add_dir_watch(x.t, s, a, a)
           list == w.t.bases[i].accel_list
           entered == IF IsVersal THEN add_pdi_accel(list, a, a, s)
                                  ELSE add_accel_to_base(list, a, a)
           new == [w.t EXCEPT !.bases[i].accel_list = entered]
           n == Max({x.range, SlotIndex[s] + 1})
           y == ScanSlotDir(i, a, x, s)
<1>1. CASE x.stop \/ s \notin fs
  BY <1>1 DEF ScanSlotDir
<1>2. CASE ~(x.stop \/ s \notin fs)
  <2>1. s \in Dirs /\ site \in Sites /\ a \in Path /\ s \in Places
    BY <1>2, SiteFacts DEF OnDisk, Path, Places
  <2>2. Sound(w.t) /\ w.ok \in BOOLEAN
    BY <2>1, AddWatchSound DEF ScanSound
  <2>3. CASE ~w.ok
    <3>1. y = [x EXCEPT !.t = w.t, !.stop = TRUE]
      BY <1>2, <2>3 DEF ScanSlotDir
    <3> HIDE DEF y, w
    <3> QED
      BY <2>2, <3>1 DEF ScanSound, y
  <2>4. CASE w.ok /\ ~SlotHasFile(s)
    <3>1. y = [x EXCEPT !.t = w.t]
      BY <1>2, <2>4 DEF ScanSlotDir
    <3> HIDE DEF y, w
    <3> QED
      BY <2>2, <3>1 DEF ScanSound, y
  <2>5. CASE w.ok /\ SlotHasFile(s)
    <3>1. y = [x EXCEPT !.t = new, !.range = n]
      BY <1>2, <2>5 DEF ScanSlotDir
    <3>2. Sound(new)
      <4>1. list \in Lists
        BY <2>2, BaseFacts
      <4> HIDE DEF list, w
      <4>2. entered \in Lists
        BY <2>1, <4>1, AddPdiList, AddAccelList
      <4> HIDE DEF entered
      <4> QED
        BY <2>2, <4>2, SetList
    <3>3. n \in Nat
      <4>1. SlotIndex \in [Dirs -> Nat]
        BY TreeAssumption
      <4>2. x.range \in Nat /\ SlotIndex[s] + 1 \in Nat
        BY <2>1, <4>1 DEF ScanSound
      <4> QED
        BY <4>2, MaxOfTwo
    <3> HIDE DEF y, new, n
    <3> QED
      BY <3>1, <3>2, <3>3 DEF ScanSound, y
  <2> QED
    BY <2>3, <2>4, <2>5
<1> QED
  BY <1>1, <1>2

\* f holds what the scan of an accelerator directory a carries after each slot
\* directory.
SlotScan(i, a, first, f) ==
    f = [k \in 0 .. Len(Children[a]) |->
           IF k = 0 THEN first ELSE ScanSlotDir(i, a, f[k - 1], Children[a][k])]

LEMMA SlotScanExists ==
    ASSUME NEW i, NEW a \in Dirs, NEW first
    PROVE  \E f : SlotScan(i, a, first, f)
<1> DEFINE Step(x, k) == ScanSlotDir(i, a, x, Children[a][k])
           Part(n, g) == g = [k \in 0 .. n |-> IF k = 0 THEN first ELSE Step(g[k - 1], k)]
           Bad == {n \in Nat : ~\E g : Part(n, g)}
<1>1. Bad = {}
  <2> HIDE DEF Step
  <2> SUFFICES ASSUME Bad # {}
               PROVE  FALSE
    OBVIOUS
  <2>1. PICK n \in Bad : \A m \in Bad : n <= m
    <3>1. Bad \subseteq Nat
      OBVIOUS
    <3> HIDE DEF Bad
    <3> QED
      BY <3>1, Least
  <2>2. n \in Nat /\ ~\E g : Part(n, g)
    OBVIOUS
  <2>3. n # 0
    <3>1. Part(0, [k \in 0 .. 0 |-> first])
      OBVIOUS
    <3> QED
      BY <2>2, <3>1
  <2>4. n - 1 \in Nat /\ n - 1 \notin Bad
    <3>1. n - 1 \in Nat /\ ~(n <= n - 1)
      BY <2>2, <2>3
    <3> HIDE DEF Bad
    <3> QED
      BY <2>1, <3>1
  <2>5. PICK g : Part(n - 1, g)
    BY <2>4
  <2> DEFINE f == [k \in 0 .. n |-> IF k = n THEN Step(g[n - 1], n) ELSE g[k]]
  <2>6. Part(n, f)
    <3>1. ASSUME NEW k \in 0 .. n, k # 0
          PROVE  f[k] = Step(f[k - 1], k)
      <4>1. CASE k = n
        BY <2>2, <2>3, <4>1
      <4>2. CASE k # n
        BY <2>2, <2>5, <3>1, <4>2
      <4> QED
        BY <4>1, <4>2
    <3>2. f[0] = first
      BY <2>2, <2>3, <2>4, <2>5
    <3> QED
      BY <3>1, <3>2
  <2> QED
    BY <2>2, <2>6
<1>2. Len(Children[a]) \in Nat
  BY TreeAssumption
<1> QED
  BY <1>1, <1>2 DEF SlotScan

LEMMA ScanSlotsSound ==
    ASSUME OnDisk, NEW i \in Table, NEW a \in Dirs, NEW first, ScanSound(first)
    PROVE  ScanSound(ScanSlotDirs(i, a, first))
<1> DEFINE acc[k \in 0 .. Len(Children[a])] ==
             IF k = 0 THEN first ELSE ScanSlotDir(i, a, acc[k - 1], Children[a][k])
           N == Len(Children[a])
           Bad == {k \in 0 .. N : ~ScanSound(acc[k])}
<1>1. SlotScan(i, a, first, acc)
  <2>1. acc = CHOOSE f : SlotScan(i, a, first, f)
    BY DEF SlotScan
  <2>2. \E f : SlotScan(i, a, first, f)
    BY SlotScanExists
  <2> HIDE DEF acc
  <2> QED
    BY <2>1, <2>2
<1>2. ScanSlotDirs(i, a, first) = acc[N]
  BY DEF ScanSlotDirs
<1> HIDE DEF acc
<1>3. N \in Nat
  BY TreeAssumption
<1>4. /\ acc[0] = first
      /\ \A k \in 1 .. N : acc[k] = ScanSlotDir(i, a, acc[k - 1], Children[a][k])
  BY <1>1, <1>3 DEF SlotScan
<1> HIDE DEF N
<1>5. Bad = {}
  <2> SUFFICES ASSUME Bad # {}
               PROVE  FALSE
    OBVIOUS
  <2>1. PICK k \in Bad : \A m \in Bad : k <= m
    <3>1. Bad \subseteq Nat
      BY <1>3
    <3> HIDE DEF Bad
    <3> QED
      BY <3>1, Least
  <2>2. k \in 0 .. N /\ ~ScanSound(acc[k])
    OBVIOUS
  <2>3. k # 0
    BY <1>4, <2>2
  <2>4. k - 1 \in 0 .. N /\ ~(k <= k - 1)
    BY <1>3, <2>2, <2>3
  <2>5. ScanSound(acc[k - 1])
    BY <2>1, <2>4
  <2>6. acc[k] = ScanSlotDir(i, a, acc[k - 1], Children[a][k])
    BY <1>3, <1>4, <2>2, <2>3
  <2> QED
    BY <2>2, <2>5, <2>6, ScanSlotSound
<1> QED
  BY <1>2, <1>3, <1>5

LEMMA ScanAccelSound ==
    ASSUME OnDisk, NEW i \in Table, NEW pname \in Path, NEW d \in Dirs, NEW x,
           ScanSound(x), NEW a
    PROVE  ScanSound(ScanAccelDir(i, pname, d, x, a))
<1> DEFINE w == add_dir_watch(x.t, a, pname, d)
           y == ScanAccelDir(i, pname, d, x, a)
           z == [x EXCEPT !.t = w.t]
<1>1. CASE x.stop \/ a \notin fs
  BY <1>1 DEF ScanAccelDir
<1>2. CASE ~(x.stop \/ a \notin fs)
  <2>1. a \in Dirs /\ site \in Sites /\ d \in Path /\ a \in Places
    BY <1>2, SiteFacts DEF OnDisk, Path, Places
  <2>2. Sound(w.t) /\ w.ok \in BOOLEAN
    BY <2>1, AddWatchSound DEF ScanSound
  <2>3. CASE ~w.ok
    <3>1. y = [x EXCEPT !.t = w.t, !.stop = TRUE]
      BY <1>2, <2>3 DEF ScanAccelDir
    <3> HIDE DEF y, w
    <3> QED
      BY <2>2, <3>1 DEF ScanSound, y
  <2>4. CASE w.ok
    <3>1. y = ScanSlotDirs(i, a, z)
      BY <1>2, <2>4 DEF ScanAccelDir
    <3> HIDE DEF w
    <3>2. ScanSound(z)
      BY <2>2 DEF ScanSound
    <3> HIDE DEF y, z
    <3> QED
      BY <2>1, <3>1, <3>2, ScanSlotsSound DEF y
  <2> QED
    BY <2>2, <2>3, <2>4
<1> QED
  BY <1>1, <1>2

LEMMA ScanRpuSound ==
    ASSUME OnDisk, NEW i \in Table, NEW pname \in Path, NEW d \in Dirs, NEW x,
           ScanSound(x), NEW c
    PROVE  ScanSound(parse_rpu_slot_dir(i, pname, d, x, c))
<1> DEFINE w == add_dir_watch(x.t, c, pname, d)
           y == parse_rpu_slot_dir(i, pname, d, x, c)
           l == add_accel_to_base(w.t.bases[i].accel_list, c, c)
           new == [w.t EXCEPT !.bases[i].accel_list = l]
<1>1. CASE c \notin fs
  BY <1>1 DEF parse_rpu_slot_dir
<1>2. CASE c \in fs
  <2>1. c \in Dirs /\ site \in Sites /\ d \in Path /\ c \in Places /\ c \in Path
    BY <1>2, SiteFacts DEF OnDisk, Path, Places
  <2>2. Sound(w.t)
    BY <2>1, AddWatchSound DEF ScanSound
  <2>3. CASE file[c] = "none"
    <3>1. y = [x EXCEPT !.t = w.t]
      BY <1>2, <2>3 DEF parse_rpu_slot_dir
    <3> HIDE DEF y, w
    <3> QED
      BY <2>2, <3>1 DEF ScanSound, y
  <2>4. CASE file[c] # "none"
    <3>1. w.t.bases[i].accel_list \in Lists
      BY <2>2, BaseFacts
    <3>2. l \in Lists
      <4> HIDE DEF w
      <4> QED
        BY <2>1, <3>1, AddAccelList
    <3>3. y = [x EXCEPT !.t = new]
      BY <1>2, <2>4, Zenon DEF parse_rpu_slot_dir
    <3> HIDE DEF y, l, w
    <3>4. Sound(new)
      BY <2>2, <3>2, SetList
    <3> HIDE DEF new
    <3> QED
      BY <3>3, <3>4 DEF ScanSound, y
  <2> QED
    BY <2>3, <2>4
<1> QED
  BY <1>1, <1>2

LEMMA ScanSubdirSound ==
    ASSUME OnDisk, NEW i \in Table, NEW pname \in Path, NEW d \in Dirs, NEW x,
           ScanSound(x), NEW c
    PROVE  ScanSound(ScanSubdir(i, pname, d, x, c))
BY ScanAccelSound, ScanRpuSound DEF ScanSubdir

\* f holds what the scan of a base d carries after each subdirectory.
SubScan(i, pname, d, first, f) ==
    f = [k \in 0 .. Len(Children[d]) |->
           IF k = 0 THEN first ELSE ScanSubdir(i, pname, d, f[k - 1], Children[d][k])]

LEMMA SubScanExists ==
    ASSUME NEW i, NEW pname, NEW d \in Dirs, NEW first
    PROVE  \E f : SubScan(i, pname, d, first, f)
<1> DEFINE Step(x, k) == ScanSubdir(i, pname, d, x, Children[d][k])
           Part(n, g) == g = [k \in 0 .. n |-> IF k = 0 THEN first ELSE Step(g[k - 1], k)]
           Bad == {n \in Nat : ~\E g : Part(n, g)}
<1>1. Bad = {}
  <2> HIDE DEF Step
  <2> SUFFICES ASSUME Bad # {}
               PROVE  FALSE
    OBVIOUS
  <2>1. PICK n \in Bad : \A m \in Bad : n <= m
    <3>1. Bad \subseteq Nat
      OBVIOUS
    <3> HIDE DEF Bad
    <3> QED
      BY <3>1, Least
  <2>2. n \in Nat /\ ~\E g : Part(n, g)
    OBVIOUS
  <2>3. n # 0
    <3>1. Part(0, [k \in 0 .. 0 |-> first])
      OBVIOUS
    <3> QED
      BY <2>2, <3>1
  <2>4. n - 1 \in Nat /\ n - 1 \notin Bad
    <3>1. n - 1 \in Nat /\ ~(n <= n - 1)
      BY <2>2, <2>3
    <3> HIDE DEF Bad
    <3> QED
      BY <2>1, <3>1
  <2>5. PICK g : Part(n - 1, g)
    BY <2>4
  <2> DEFINE f == [k \in 0 .. n |-> IF k = n THEN Step(g[n - 1], n) ELSE g[k]]
  <2>6. Part(n, f)
    <3>1. ASSUME NEW k \in 0 .. n, k # 0
          PROVE  f[k] = Step(f[k - 1], k)
      <4>1. CASE k = n
        BY <2>2, <2>3, <4>1
      <4>2. CASE k # n
        BY <2>2, <2>5, <3>1, <4>2
      <4> QED
        BY <4>1, <4>2
    <3>2. f[0] = first
      BY <2>2, <2>3, <2>4, <2>5
    <3> QED
      BY <3>1, <3>2
  <2> QED
    BY <2>2, <2>6
<1>2. Len(Children[d]) \in Nat
  BY TreeAssumption
<1> QED
  BY <1>1, <1>2 DEF SubScan

LEMMA ScanSubdirsSound ==
    ASSUME OnDisk, NEW i \in Table, NEW pname \in Path, NEW d \in Dirs, NEW first,
           ScanSound(first)
    PROVE  ScanSound(ScanSubdirs(i, pname, d, first))
<1> DEFINE acc[k \in 0 .. Len(Children[d])] ==
             IF k = 0 THEN first ELSE ScanSubdir(i, pname, d, acc[k - 1], Children[d][k])
           N == Len(Children[d])
           Bad == {k \in 0 .. N : ~ScanSound(acc[k])}
<1>1. SubScan(i, pname, d, first, acc)
  <2>1. acc = CHOOSE f : SubScan(i, pname, d, first, f)
    BY DEF SubScan
  <2>2. \E f : SubScan(i, pname, d, first, f)
    BY SubScanExists
  <2> HIDE DEF acc
  <2> QED
    BY <2>1, <2>2
<1>2. ScanSubdirs(i, pname, d, first) = acc[N]
  BY DEF ScanSubdirs
<1> HIDE DEF acc
<1>3. N \in Nat
  BY TreeAssumption
<1>4. /\ acc[0] = first
      /\ \A k \in 1 .. N : acc[k] = ScanSubdir(i, pname, d, acc[k - 1], Children[d][k])
  BY <1>1, <1>3 DEF SubScan
<1> HIDE DEF N
<1>5. Bad = {}
  <2> SUFFICES ASSUME Bad # {}
               PROVE  FALSE
    OBVIOUS
  <2>1. PICK k \in Bad : \A m \in Bad : k <= m
    <3>1. Bad \subseteq Nat
      BY <1>3
    <3> HIDE DEF Bad
    <3> QED
      BY <3>1, Least
  <2>2. k \in 0 .. N /\ ~ScanSound(acc[k])
    OBVIOUS
  <2>3. k # 0
    BY <1>4, <2>2
  <2>4. k - 1 \in 0 .. N /\ ~(k <= k - 1)
    BY <1>3, <2>2, <2>3
  <2>5. ScanSound(acc[k - 1])
    BY <2>1, <2>4
  <2>6. acc[k] = ScanSubdir(i, pname, d, acc[k - 1], Children[d][k])
    BY <1>3, <1>4, <2>2, <2>3
  <2> QED
    BY <2>2, <2>5, <2>6, ScanSubdirSound
<1> QED
  BY <1>2, <1>3, <1>5

LEMMA ClassifyType ==
    ASSUME NEW b \in BaseSet, NEW n \in Nat
    PROVE  pdi_classify_base(b, n) \in BaseSet
<1> DEFINE N(type, k) == [b EXCEPT !.type = type, !.num_pl_slots = k]
<1>1. ASSUME NEW type \in {"", "FLAT", "PL_DFX", "RPU"}, NEW k \in Nat
      PROVE  N(type, k) \in BaseSet
  <2> DEFINE c == [b EXCEPT !.type = type]
  <2>1. c \in BaseSet
    BY DEF BaseSet, Base
  <2>2. N(type, k) = [c EXCEPT !.num_pl_slots = k]
    OBVIOUS
  <2> HIDE DEF c, N
  <2> QED
    BY <2>1, <2>2 DEF BaseSet, Base
<1>2. pdi_classify_base(b, n) \in {N("PL_DFX", n), register_flat_accel(N("FLAT", 1))}
  BY DEF pdi_classify_base
<1> HIDE DEF N
<1>3. N("PL_DFX", n) \in BaseSet /\ N("FLAT", 1) \in BaseSet
  BY <1>1
<1> QED
  BY <1>2, <1>3, FlatAccel

LEMMA ParseSound ==
    ASSUME OnDisk, NEW t, Sound(t), NEW i \in Table, t.bases[i].path \in Dirs,
           NEW pname \in Path
    PROVE  Sound(parse_packages(t, i, pname))
<1> DEFINE d == t.bases[i].path
           first == [t |-> t, range |-> 0, stop |-> FALSE]
           end == ScanSubdirs(i, pname, d, first)
           flat == register_flat_accel(t.bases[i])
           dfx == pdi_classify_base(end.t.bases[i], end.range)
<1>1. /\ Sound([t EXCEPT !.bases[i] = flat])
  <2>1. flat \in BaseSet
    BY BaseFacts, FlatAccel
  <2> HIDE DEF flat
  <2> QED
    BY <2>1, SetBase
<1>2. ScanSound(end)
  <2>1. ScanSound(first)
    BY DEF ScanSound
  <2> HIDE DEF first, d
  <2> QED
    BY <2>1, ScanSubdirsSound DEF d
<1>3. Sound(end.t) /\ end.range \in Nat
  BY <1>2 DEF ScanSound
<1>4. parse_packages(t, i, pname) \in
        {[t EXCEPT !.bases[i] = flat], [end.t EXCEPT !.bases[i] = dfx], end.t}
  BY Zenon DEF parse_packages
<1> HIDE DEF end
<1>5. dfx \in BaseSet
  BY <1>3, BaseFacts, ClassifyType
<1> HIDE DEF dfx, flat
<1>6. Sound([end.t EXCEPT !.bases[i] = dfx])
  BY <1>3, <1>5, SetBase
<1> QED
  BY <1>1, <1>3, <1>4, <1>6

LEMMA ReloadSound ==
    ASSUME OnDisk, NEW t, Sound(t), NEW i \in Table, NEW pname \in Path,
           NEW r, r.b \in BaseSet, r.b.path \in Dirs
    PROVE  Sound(Reload(t, i, pname, r))
<1> DEFINE u == [t EXCEPT !.bases[i] = r.b]
<1>1. Sound(u) /\ u.bases[i] = r.b
  BY SetBase
<1> HIDE DEF u
<1>2. Sound(parse_packages(u, i, pname))
  BY <1>1, ParseSound
<1> QED
  BY <1>2 DEF Reload, u

-----------------------------------------------------------------------------
(* The steps.                                                              *)

LEMMA StepDone ==
    ASSUME DiscoveryInv, site' = site, fs' \subseteq site.dirs,
           file' \in [Dirs -> {"none", "partial", "full"}], Sound(db'),
           rescan' \in BOOLEAN, dirty' \in BOOLEAN, req' \in Requests, Walking(walk')
    PROVE  DiscoveryInv'
<1>1. Table' = Table
  BY DEF Table
<1>2. Sound(db)'
  BY <1>1 DEF Sound, Tables, Resolved
<1>3. OnDisk'
  BY DEF DiscoveryInv, OnDisk
<1> QED
  BY <1>2, <1>3 DEF DiscoveryInv, Walking

LEMMA InstallerDone ==
    ASSUME DiscoveryInv, site' = site, fs' \subseteq site.dirs,
           file' \in [Dirs -> {"none", "partial", "full"}], Sound(db'),
           UNCHANGED <<rescan, dirty, req, walk>>
    PROVE  DiscoveryInv'
BY StepDone DEF DiscoveryInv

LEMMA InotifyDone ==
    ASSUME DiscoveryInv, UNCHANGED inotify, Sound(db'), rescan' \in BOOLEAN,
           dirty' \in BOOLEAN
    PROVE  DiscoveryInv'
BY StepDone DEF DiscoveryInv, OnDisk, inotify, disk

LEMMA RequestDone ==
    ASSUME DiscoveryInv, UNCHANGED request, Sound(db'), rescan' \in BOOLEAN,
           dirty' \in BOOLEAN, req' \in Requests, Walking(walk')
    PROVE  DiscoveryInv'
BY StepDone DEF DiscoveryInv, OnDisk, request, disk

LEMMA InitInv == Init => DiscoveryInv
<1> SUFFICES ASSUME Init
             PROVE  DiscoveryInv
  OBVIOUS
<1>1. site \in Sites /\ fs \subseteq site.dirs
  BY SiteFacts DEF Init
<1>2. file \in [Dirs -> {"none", "partial", "full"}]
  BY DEF Init
<1> DEFINE W == [i \in Table |-> IF i = 1
                   THEN [NoWatch EXCEPT !.wd = 1, !.path = Root] ELSE NoWatch]
           l == [j \in AccelIdx |-> NoAccel]
           b == [path |-> NULL, type |-> "", num_pl_slots |-> 0, accel_list |-> l]
           B == [i \in Table |-> b]
           D == [d \in Dirs \cup {Root} |-> IF d = Root THEN 1 ELSE -1]
<1>3. db = [watch |-> W, bases |-> B, wd |-> D, next |-> 2]
  BY DEF Init
<1>4. W \in [Table -> Watch]
  <2>1. NoWatch \in Watch
    BY DEF NoWatch, Watch, Path
  <2>2. Renamed(NoWatch, 1, Root) \in Watch
    BY <2>1, RenamedWatch DEF Path
  <2>3. W = [i \in Table |-> IF i = 1 THEN Renamed(NoWatch, 1, Root) ELSE NoWatch]
    BY DEF Renamed
  <2> QED
    BY <2>1, <2>2, <2>3
<1>5. B \in [Table -> BaseSet]
  <2>1. l \in Lists
    BY NoAccelType DEF Lists
  <2> HIDE DEF l
  <2>2. b \in BaseSet
    BY <2>1, TreeAssumption DEF BaseSet, Base, Lists, Path
  <2> HIDE DEF b
  <2> QED
    BY <2>2
<1>6. D \in [Places -> Int]
  BY DEF Places
<1>7. \A d \in Places : D[d] # -1 => W[1].wd = D[d] /\ W[1].path = d
  <2>1. W[1].wd = 1 /\ W[1].path = Root
    BY <1>1, SiteFacts DEF NoWatch
  <2> QED
    BY <2>1 DEF Places
<1> HIDE DEF W, B, D
<1>8. db \in Tables
  BY <1>3, <1>4, <1>5, <1>6 DEF Tables
<1>9. Resolved(db)
  BY <1>1, <1>3, <1>7, SiteFacts DEF Resolved
<1>10. req \in Requests /\ Walking(walk) /\ rescan \in BOOLEAN /\ dirty \in BOOLEAN
  BY DEF Init, Requests, Walking
<1> QED
  BY <1>1, <1>2, <1>8, <1>9, <1>10 DEF DiscoveryInv, OnDisk, Sound

\* What the installer does to the disk, and to the kernel's watches.
LEMMA InstallerStep ==
    ASSUME DiscoveryInv, Installer
    PROVE  DiscoveryInv'
<1> DEFINE Files == [Dirs -> {"none", "partial", "full"}]
<1>1. /\ site \in Sites /\ fs \subseteq site.dirs /\ site.dirs \subseteq Dirs
      /\ file \in Files /\ Sound(db) /\ db.wd \in [Places -> Int] /\ DOMAIN db.wd = Places
  BY SiteFacts DEF DiscoveryInv, OnDisk, Sound, Tables
<1>2. site' = site /\ UNCHANGED <<rescan, dirty, req, walk>>
  BY DEF Installer
<1>3. PICK d \in Dirs :
         \/ mkdir(d) \/ open_file(d) \/ rename_file(d) \/ unlink(d) \/ rmdir(d)
         \/ rmtree(d) \/ move_in(d) \/ move_out(d) \/ close_file(d)
  BY DEF Installer
<1>4. /\ fs' \subseteq site.dirs /\ file' \in Files
  <2>1. CASE mkdir(d)
    BY <1>1, <2>1 DEF mkdir
  <2>2. CASE open_file(d) \/ rename_file(d) \/ unlink(d) \/ close_file(d)
    BY <1>1, <2>2 DEF open_file, rename_file, unlink, close_file
  <2>3. CASE rmdir(d)
    BY <1>1, <2>3 DEF rmdir
  <2>4. CASE rmtree(d) \/ move_out(d)
    BY <1>1, <2>4 DEF rmtree, move_out
  <2>5. CASE move_in(d)
    BY <1>1, <2>5 DEF move_in
  <2> QED
    BY <1>3, <2>1, <2>2, <2>3, <2>4, <2>5
<1>5. Sound(db')
  <2>1. CASE UNCHANGED db
    BY <1>1, <2>1
  <2>2. CASE db' = [db EXCEPT !.wd[d] = -1]
    <3> DEFINE f == [db.wd EXCEPT ![d] = -1]
    <3>1. db' = [db EXCEPT !.wd = f]
      BY <2>2, Zenon
    <3>2. f \in [Places -> Int] /\ \A e \in Places : f[e] \in {-1, db.wd[e]}
      BY <1>1, OneDropped DEF Places
    <3> HIDE DEF f
    <3> QED
      BY <1>1, <3>1, <3>2, DroppedSound
  <2>3. CASE db' = [db EXCEPT !.wd = [c \in DOMAIN @ |->
                                        IF c \in Below(d) THEN -1 ELSE @[c]]]
    <3> DEFINE f == [c \in Places |-> IF c \in Below(d) THEN -1 ELSE db.wd[c]]
    <3>1. db' = [db EXCEPT !.wd = f]
      <4>1. f = [c \in DOMAIN db.wd |-> IF c \in Below(d) THEN -1 ELSE db.wd[c]]
        BY <1>1
      <4> QED
        BY <2>3, <4>1, Zenon
    <3>2. f \in [Places -> Int] /\ \A e \in Places : f[e] \in {-1, db.wd[e]}
      BY <1>1
    <3> HIDE DEF f
    <3> QED
      BY <1>1, <3>1, <3>2, DroppedSound
  <2> QED
    BY <1>3, <2>1, <2>2, <2>3 DEF mkdir, open_file, rename_file, unlink, close_file,
       rmdir, rmtree, move_in, move_out
<1> QED
  BY <1>2, <1>4, <1>5, InstallerDone

LEMMA EventWatchType ==
    ASSUME DiscoveryInv, NEW w \in EventWatch
    PROVE  /\ w \in Watch /\ WatchName(w) \in Path /\ w.path \in Path
           /\ w.parent_name \in Path /\ w.parent_path \in Path
<1>1. w \in Watch
  BY DEF EventWatch, get_watch, DiscoveryInv, Sound, Tables
<1> QED
  BY <1>1 DEF Watch, WatchName, Path

\* A base that is found is initialised again by what one of the readers made
\* of it, and scanned.
LEMMA FoundReload ==
    ASSUME OnDisk, NEW t, Sound(t), NEW path, findBaseDesign_path(t, path) # 0,
           NEW pname \in Path, NEW r,
           LET b == t.bases[findBaseDesign_path(t, path)]
           IN  r \in {initBaseDesign(b), init_base_from_pdi(b), init_base_design(b)}
    PROVE  Sound(Reload(t, findBaseDesign_path(t, path), pname, r))
<1> DEFINE i == findBaseDesign_path(t, path)
           b == t.bases[i]
<1>1. i \in Table /\ b.path \in Dirs /\ b \in BaseSet
  BY FoundBase, BaseFacts DEF OnDisk
<1>2. r \in {initBaseDesign(b), init_base_from_pdi(b)}
  BY DEF init_base_design
<1> HIDE DEF i, b
<1>3. r.b \in BaseSet /\ r.b.path \in Dirs
  BY <1>1, <1>2, InitBaseType
<1> QED
  BY <1>1, <1>3, ReloadSound DEF i

LEMMA BaseChangedStep ==
    ASSUME DiscoveryInv, NEW path, NEW pname \in Path, BaseChanged(path, pname)
    PROVE  Sound(db') /\ dirty' \in BOOLEAN
<1> DEFINE t == assign_list_ids(db)
           i == findBaseDesign_path(t, path)
<1>1. OnDisk /\ site \in Sites /\ Sound(t)
  BY AssignSound DEF DiscoveryInv, OnDisk
<1>2. /\ dirty' = TRUE
      /\ \/ db' = t
         \/ i # 0 /\ db' = Reload(t, i, pname, initBaseDesign(t.bases[i]))
  BY DEF BaseChanged
<1> HIDE DEF t
<1>3. i # 0 => Sound(Reload(t, i, pname, initBaseDesign(t.bases[i])))
  BY <1>1, FoundReload
<1> HIDE DEF i
<1> QED
  BY <1>1, <1>2, <1>3

\* A PDI, in a base directory or in a slot directory.
LEMMA PdiStep ==
    ASSUME DiscoveryInv, handle_pdi_event
    PROVE  DiscoveryInv'
<1> DEFINE t == assign_list_ids(db)
<1>1. /\ OnDisk /\ site \in Sites /\ Sound(db) /\ rescan \in BOOLEAN /\ dirty \in BOOLEAN
      /\ Sound(t)
  BY AssignSound DEF DiscoveryInv, OnDisk
<1>2. UNCHANGED inotify
  BY DEF handle_pdi_event
<1>3. CASE UNCHANGED <<db, rescan, dirty>>
  BY <1>1, <1>2, <1>3, InotifyDone
<1>4. ASSUME NEW w \in EventWatch, dirty' = TRUE, BasePdi(t, w)
      PROVE  DiscoveryInv'
  <2> DEFINE i == findBaseDesign_path(t, w.path)
             r == init_base_from_pdi(t.bases[i])
  <2>1. /\ db' = t \/ (i # 0 /\ db' = Reload(t, i, WatchName(w), r))
        /\ rescan' \in BOOLEAN
    BY <1>1, <1>4 DEF BasePdi
  <2> HIDE DEF t
  <2>2. i # 0 => Sound(Reload(t, i, WatchName(w), r))
    BY <1>1, EventWatchType, FoundReload
  <2> HIDE DEF i, r
  <2>3. Sound(db')
    BY <1>1, <2>1, <2>2
  <2> QED
    BY <1>2, <1>4, <2>1, <2>3, InotifyDone
<1>5. ASSUME NEW w \in EventWatch, dirty' = TRUE, SlotPdi(t, w)
      PROVE  DiscoveryInv'
  <2> DEFINE p == findBaseDesign_path(t, w.parent_path)
             g == findBaseDesign_path(t, path_to_watch(t, w.parent_path).parent_path)
             L(i, name, path) == add_pdi_accel(t.bases[i].accel_list, name, path, w.path)
             N(i, name, path) == [t EXCEPT !.bases[i].accel_list = L(i, name, path)]
  <2>1. /\ rescan' = rescan
        /\ \/ db' = t
           \/ p # 0 /\ db' = N(p, w.path, w.path)
           \/ g # 0 /\ db' = N(g, w.parent_name, w.parent_path)
    BY <1>5 DEF SlotPdi
  <2> HIDE DEF t
  <2>2. (p # 0 => p \in Table) /\ (g # 0 => g \in Table)
    BY <1>1, FoundBase
  <2> HIDE DEF p, g
  <2>3. ASSUME NEW i \in Table, NEW name \in Path, NEW path \in Path
        PROVE  Sound(N(i, name, path))
    <3>1. L(i, name, path) \in Lists
      BY <1>1, BaseFacts, AddPdiList
    <3> HIDE DEF L
    <3> QED
      BY <1>1, <3>1, SetList
  <2> HIDE DEF N
  <2>4. Sound(db')
    BY <1>1, <2>1, <2>2, <2>3, EventWatchType
  <2> QED
    BY <1>1, <1>2, <1>5, <2>1, <2>4, InotifyDone
<1> QED
  BY <1>3, <1>4, <1>5 DEF handle_pdi_event

LEMMA EventStep ==
    ASSUME DiscoveryInv, InotifyThread
    PROVE  DiscoveryInv'
<1>1. /\ OnDisk /\ site \in Sites /\ Sound(db) /\ rescan \in BOOLEAN /\ dirty \in BOOLEAN
  BY DEF DiscoveryInv, OnDisk
<1>2. CASE read_batch
  <2>1. UNCHANGED <<disk, db, rescan, dirty, req, walk>>
    BY <1>2 DEF read_batch
  <2> QED
    BY <1>1, <2>1, StepDone DEF DiscoveryInv, OnDisk, disk
<1>3. CASE unknown_watch \/ other_file
  <2>1. UNCHANGED inotify /\ db' = db /\ rescan' \in BOOLEAN /\ dirty' \in BOOLEAN
    BY <1>1, <1>3 DEF unknown_watch, other_file
  <2> QED
    BY <1>1, <2>1, InotifyDone
<1>4. CASE dir_created
  <2>1. PICK w \in EventWatch :
          /\ db' = add_dir_watch(db, batch[1].name, WatchName(w), w.path).t
          /\ rescan' \in {rescan, TRUE}
    BY <1>4 DEF dir_created
  <2>2. batch[1].name \in Places /\ UNCHANGED inotify /\ dirty' = dirty
    BY <1>4 DEF dir_created, Event, Places
  <2>3. WatchName(w) \in Path /\ w.path \in Path
    BY EventWatchType
  <2>4. Sound(db')
    BY <1>1, <2>1, <2>2, <2>3, AddWatchSound
  <2> QED
    BY <1>1, <2>1, <2>2, <2>4, InotifyDone
<1>5. CASE shell_written
  <2>1. PICK w \in EventWatch : BaseChanged(w.path, WatchName(w))
    BY <1>5 DEF shell_written
  <2>2. Sound(db') /\ dirty' \in BOOLEAN
    BY <2>1, EventWatchType, BaseChangedStep
  <2>3. UNCHANGED inotify /\ rescan' = rescan
    BY <1>5 DEF shell_written
  <2> QED
    BY <1>1, <2>2, <2>3, InotifyDone
<1>6. CASE dir_moved_in
  <2>1. rescan' = TRUE /\ UNCHANGED inotify
    BY <1>6 DEF dir_moved_in, MovedIn
  <2>2. PICK w \in EventWatch :
          \/ dirty' = TRUE /\ db' = assign_list_ids(db)
          \/ BaseChanged(batch[1].name, WatchName(w))
    BY <1>6 DEF dir_moved_in
  <2>3. Sound(db') /\ dirty' \in BOOLEAN
    BY <1>1, <2>2, EventWatchType, BaseChangedStep, AssignSound
  <2> QED
    BY <2>1, <2>3, InotifyDone
<1>7. CASE accel_written
  <2> DEFINE t == assign_list_ids(db)
  <2>1. UNCHANGED inotify /\ rescan' = rescan
    BY <1>7 DEF accel_written
  <2>2. PICK w \in EventWatch :
          LET i == AccelBase(t, w)
          IN  /\ dirty' \in {dirty, TRUE}
              /\ \/ db' = db \/ db' = t
                 \/ /\ i # 0
                    /\ db' = [t EXCEPT !.bases[i].accel_list =
                                add_accel_to_base(@, w.parent_name, w.parent_path)]
    BY <1>7, Zenon DEF accel_written
  <2>3. Sound(t)
    BY <1>1, AssignSound
  <2> HIDE DEF t
  <2> DEFINE i == AccelBase(t, w)
             l == add_accel_to_base(t.bases[i].accel_list, w.parent_name, w.parent_path)
  <2>4. i # 0 => i \in Table
    BY <1>1, <2>3, FoundBase DEF AccelBase
  <2> HIDE DEF i
  <2>5. i # 0 => l \in Lists
    BY <2>3, <2>4, BaseFacts, EventWatchType, AddAccelList
  <2>6. db' = db \/ db' = t \/ (i # 0 /\ db' = [t EXCEPT !.bases[i].accel_list = l])
    BY <2>2, Zenon DEF i
  <2> HIDE DEF l
  <2>7. Sound(db')
    BY <1>1, <2>3, <2>4, <2>5, <2>6, SetList
  <2> QED
    BY <1>1, <2>1, <2>2, <2>7, InotifyDone
<1>8. CASE handle_pdi_event
  BY <1>8, PdiStep
<1>9. CASE dir_removed
  <2> DEFINE d == batch[1].name
  <2>1. PICK w \in EventWatch :
          \/ db' = assign_list_ids(remove_watch(remove_base_design(db, d), d))
          \/ db' = assign_list_ids(remove_watch(remove_accel(db, d, w.path), d))
    BY <1>9 DEF dir_removed
  <2> HIDE DEF d
  <2>2. Sound(remove_base_design(db, d)) /\ Sound(remove_accel(db, d, w.path))
    BY <1>1, RemoveBaseSound, RemoveAccelSound
  <2>3. Sound(db')
    BY <1>1, <2>1, <2>2, RemoveWatchSound, AssignSound
  <2>4. dirty' = TRUE /\ UNCHANGED inotify /\ rescan' = rescan
    BY <1>9 DEF dir_removed
  <2> QED
    BY <1>1, <2>3, <2>4, InotifyDone
<1> QED
  BY <1>2, <1>3, <1>4, <1>5, <1>6, <1>7, <1>8, <1>9 DEF InotifyThread

\* accel_dir_add() clears the parent name of a watch that is there already.
LEMMA UnnamedSound ==
    ASSUME NEW t, Sound(t), NEW i \in Table
    PROVE  Sound([t EXCEPT !.watch[i].parent_name = NULL])
<1> DEFINE w == [t.watch[i] EXCEPT !.parent_name = NULL]
           W == [t.watch EXCEPT ![i] = w]
           u == [t EXCEPT !.watch = W]
<1>1. t.watch \in [Table -> Watch]
  BY DEF Sound, Tables
<1>2. w \in Watch /\ w.wd = t.watch[i].wd /\ w.path = t.watch[i].path
  BY <1>1 DEF Watch, Path
<1>3. [t EXCEPT !.watch[i].parent_name = NULL] = u
  BY DEF Sound, Tables
<1> HIDE DEF w
<1>4. /\ W \in [Table -> Watch]
      /\ \A k \in Table : W[k].wd = t.watch[k].wd /\ W[k].path = t.watch[k].path
  BY <1>1, <1>2
<1> HIDE DEF W
<1>5. u \in Tables /\ u.watch = W /\ u.wd = t.wd
  BY <1>4 DEF Sound, Tables
<1> HIDE DEF u
<1>6. Resolved(u)
  BY <1>4, <1>5 DEF Sound, Resolved
<1> QED
  BY <1>3, <1>5, <1>6 DEF Sound

LEMMA WatchForWalkSound ==
    ASSUME DiscoveryInv, NEW d \in Dirs
    PROVE  Sound(WatchForWalk(d).t)
<1> DEFINE r == WatchForWalk(d)
           S == WatchesOf(db, d)
           i == Lowest(S)
           u == [db EXCEPT !.watch[i].parent_name = NULL]
<1>1. site \in Sites /\ Sound(db)
  BY DEF DiscoveryInv, OnDisk
<1>2. CASE S # {}
  <2>1. i \in Table
    <3>1. S \subseteq Table
      BY DEF WatchesOf
    <3> HIDE DEF S
    <3> QED
      BY <1>1, <1>2, <3>1, LowestRow
  <2>2. r = [ok |-> TRUE, t |-> u]
    BY <1>2 DEF WatchForWalk
  <2> HIDE DEF i, r
  <2>3. Sound(u)
    BY <1>1, <2>1, UnnamedSound
  <2> HIDE DEF u
  <2> QED
    BY <2>2, <2>3 DEF r
<1>3. CASE S = {}
  <2>1. r = add_dir_watch(db, d, NULL, Parent(d))
    BY <1>3 DEF WatchForWalk
  <2>2. d \in Places /\ NULL \in Path /\ Parent(d) \in Path
    BY ParentIn DEF Places, Path
  <2> HIDE DEF r
  <2> QED
    BY <1>1, <2>1, <2>2, AddWatchSound DEF r
<1> QED
  BY <1>2, <1>3

LEMMA WalkStep ==
    ASSUME DiscoveryInv, accel_dir_add
    PROVE  DiscoveryInv'
<1> DEFINE d == Head(walk.todo)
           w == WatchForWalk(d)
<1>1. /\ Sound(db) /\ fs \subseteq Dirs /\ rescan \in BOOLEAN /\ dirty \in BOOLEAN
      /\ req \in Requests /\ Walking(walk)
  BY SiteFacts DEF DiscoveryInv, OnDisk
<1>2. UNCHANGED <<request, rescan, dirty, req>>
  BY DEF accel_dir_add
<1>3. \/ db' = db /\ \E x : walk' = [walk EXCEPT !.todo = x]
      \/ d \in fs /\ db' = w.t /\ \E x : walk' = [walk EXCEPT !.todo = x]
      \/ d \in fs /\ db' = w.t /\ walk' = [todo |-> Tail(walk.todo), reg |-> d]
  BY DEF accel_dir_add
<1> HIDE DEF d
<1>4. d \in fs => Sound(w.t)
  BY <1>1, WatchForWalkSound
<1> HIDE DEF w
<1>5. Sound(db')
  BY <1>1, <1>3, <1>4
<1>6. Walking(walk')
  BY <1>1, <1>3 DEF Walking
<1> QED
  BY <1>1, <1>2, <1>5, <1>6, RequestDone

LEMMA RegisterStep ==
    ASSUME DiscoveryInv, register_base
    PROVE  DiscoveryInv'
<1> DEFINE t == add_base_design(db, walk.reg)
           i == findBaseDesign_path(t, walk.reg)
           r == init_base_design(t.bases[i])
<1>1. /\ OnDisk /\ site \in Sites /\ Sound(db) /\ rescan \in BOOLEAN /\ dirty \in BOOLEAN
      /\ req \in Requests /\ Walking(walk)
  BY DEF DiscoveryInv, OnDisk
<1>2. UNCHANGED <<request, rescan, dirty, req>> /\ walk' = [walk EXCEPT !.reg = NULL]
  BY DEF register_base
<1>3. db' = t \/ (i # 0 /\ db' = Reload(t, i, t.bases[i].path, r))
  BY DEF register_base
<1>4. Sound(t)
  <2>1. walk.reg \in Dirs
    BY <1>1 DEF register_base, Walking
  <2> QED
    BY <1>1, <2>1, AddBaseSound
<1> HIDE DEF t
<1>5. i # 0 => Sound(Reload(t, i, t.bases[i].path, r))
  <2>1. i # 0 => t.bases[i].path \in Path
    BY <1>1, <1>4, FoundBase DEF Path
  <2> QED
    BY <1>1, <1>4, <2>1, FoundReload
<1> HIDE DEF i, r
<1>6. Sound(db')
  BY <1>3, <1>4, <1>5
<1>7. Walking(walk')
  BY <1>1, <1>2 DEF Walking
<1> QED
  BY <1>1, <1>2, <1>6, <1>7, RequestDone

LEMMA RequestStep ==
    ASSUME DiscoveryInv, RequestThread
    PROVE  DiscoveryInv'
<1>1. /\ site \in Sites /\ Sound(db) /\ rescan \in BOOLEAN /\ dirty \in BOOLEAN
      /\ req \in Requests /\ Walking(walk) /\ Sound(assign_list_ids(db))
  BY AssignSound DEF DiscoveryInv, OnDisk
<1>2. CASE begin_request("list") \/ begin_request("load")
  <2>1. UNCHANGED <<request, db, dirty>> /\ rescan' = FALSE
    BY <1>2 DEF begin_request, Begin
  <2>2. req' \in Requests /\ Walking(walk')
    BY <1>2 DEF begin_request, Begin, Requests, Walking
  <2> QED
    BY <1>1, <2>1, <2>2, RequestDone
<1>3. CASE accel_dir_add \/ register_base
  BY <1>3, WalkStep, RegisterStep
<1>4. CASE walk_done
  <2>1. UNCHANGED <<request, db, rescan, dirty, walk>> /\ req' \in Requests
    BY <1>1, <1>4 DEF walk_done, Requests
  <2> QED
    BY <1>1, <2>1, RequestDone
<1>5. CASE boot_done \/ list_ids
  <2>1. /\ UNCHANGED <<request, rescan, dirty, walk>> /\ req' \in Requests
        /\ db' = assign_list_ids(db)
    BY <1>1, <1>5 DEF boot_done, list_ids, Requests
  <2> QED
    BY <1>1, <2>1, RequestDone
<1>6. CASE listAccelerators
  <2>1. UNCHANGED <<request, db, rescan, walk>> /\ dirty' \in BOOLEAN
    BY <1>1, <1>6 DEF listAccelerators
  <2>2. req' \in Requests
    BY <1>1, <1>6 DEF listAccelerators, Requests
  <2> QED
    BY <1>1, <2>1, <2>2, RequestDone
<1>7. CASE load_by_name \/ load_by_id \/ unload
  <2>1. UNCHANGED <<request, db, rescan, dirty, walk>> /\ req' \in Requests
    BY <1>1, <1>7 DEF load_by_name, load_by_id, unload, Requests
  <2> QED
    BY <1>1, <2>1, RequestDone
<1> QED
  BY <1>2, <1>3, <1>4, <1>5, <1>6, <1>7 DEF RequestThread

LEMMA NextInv == DiscoveryInv /\ [Next]_vars => DiscoveryInv'
<1> SUFFICES ASSUME DiscoveryInv, [Next]_vars
             PROVE  DiscoveryInv'
  OBVIOUS
<1>1. CASE UNCHANGED vars
  <2>1. UNCHANGED <<site, fs, file, db, rescan, dirty, req, walk>>
    BY <1>1 DEF vars
  <2> QED
    BY <2>1, StepDone DEF DiscoveryInv, OnDisk
<1> QED
  BY <1>1, InstallerStep, EventStep, RequestStep DEF Next

LEMMA DiscoveryInvariant == Spec => []DiscoveryInv
BY InitInv, NextInv, PTL DEF Spec

-----------------------------------------------------------------------------
(* The theorems.                                                           *)

\* The tables both threads share keep their types, whatever the tree, the
\* events and the order in which the threads run (parse_packages(),
\* assign_list_ids(), remove_base_design()).
THEOREM DiscoveryTypes == Spec => []TypeOK
<1>1. DiscoveryInv => TypeOK
  <2> SUFFICES ASSUME DiscoveryInv
               PROVE  TypeOK
    OBVIOUS
  <2>1. db.watch \in [Table -> Watch] /\ db.bases \in [Table -> Base]
    BY DEF DiscoveryInv, Sound, Tables, BaseSet
  <2>2. {rescan, dirty} \subseteq BOOLEAN
    BY DEF DiscoveryInv
  <2> QED
    BY <2>1, <2>2 DEF DiscoveryInv, OnDisk, Requests, TypeOK
<1> QED
  BY <1>1, DiscoveryInvariant, PTL

\* Every event of the kernel can be resolved to a directory: no kernel watch is
\* without its entry in active_watch[], however full that table is and however
\* directories go and watches are removed (add_dir_watch(), remove_watch()).
THEOREM WatchesKnown == Spec => []WatchesResolved
<1>1. DiscoveryInv => WatchesResolved
  BY DEF DiscoveryInv, Sound, Resolved, WatchesResolved, Places
<1> QED
  BY <1>1, DiscoveryInvariant, PTL

-----------------------------------------------------------------------------
(***************************************************************************)
(* Packages that come and go as a whole.                                   *)
(***************************************************************************)

Top(p) == p \in site.dirs /\ Parent(p) = Root
Inside(p) == {c \in site.dirs : Parent(c) = p}

\* The accelerators of a base, and the rows its package is to have.
Accels(p) == {a \in Inside(p) : Inside(a) # {}}
Flat(p) == IF IsVersal THEN Accels(p) = {} ELSE Shell[p].type = "FLAT"
Want(p) == IF Kind[p] = "rpu" THEN Inside(p) ELSE IF Flat(p) THEN {p} ELSE Accels(p)

\* The package a directory belongs to.
Home(d) == IF Parent(d) = Root THEN d
           ELSE IF Parent(Parent(d)) = Root THEN Parent(d) ELSE Parent(Parent(d))

DiskWhole ==
    /\ \A d \in site.dirs : d \in fs <=> Home(d) \in fs
    /\ \A d \in Dirs : file[d] = IF d \in fs /\ FileName(d) # NULL THEN "full" ELSE "none"

\* active_watch[]: a row for each directory at most, the first one that of the
\* firmware location.
WatchRows(t) ==
    /\ t.next > 1 /\ t.wd[Root] = 1
    /\ t.watch[1].path = Root /\ t.watch[1].wd = 1 /\ t.watch[1].parent_name = NULL
    /\ \A k \in Table :
          /\ t.watch[k].path \in site.dirs \cup {Root, NULL}
          /\ t.watch[k].wd = -1 <=> t.watch[k].path = NULL
          /\ t.watch[k].path # Root => t.watch[k].wd # 1
          /\ Top(t.watch[k].path) => t.watch[k].parent_name = NULL
    /\ \A k, l \in Table :
          t.watch[k].path = t.watch[l].path /\ t.watch[k].path # NULL => k = l

\* accel_list[]: its entries are among W, each once, none after a free one.
ListOf(l, W) ==
    /\ \A j \in AccelIdx : l[j].path # NULL => l[j].path \in W /\ l[j].name = l[j].path
    /\ \A j, k \in AccelIdx : j < k /\ l[k].path # NULL =>
          l[j].path # NULL /\ l[j].path # l[k].path

\* base_designs[]: an entry for each package at most.
EntryOf(b) ==
    /\ b.path # NULL => Top(b.path)
    /\ ListOf(b.accel_list, IF b.path = NULL THEN {} ELSE Want(b.path))
Entries(t) ==
    /\ \A k \in Table : EntryOf(t.bases[k])
    /\ \A k, l \in Table :
          t.bases[k].path = t.bases[l].path /\ t.bases[k].path # NULL => k = l

Paths(l) == {l[j].path : j \in AccelIdx}

\* The entry of a package that is listed as it is on disk.
FreshEntry(b) ==
    /\ PackagesFit => Want(b.path) \subseteq Paths(b.accel_list) /\ b.num_pl_slots > 0
    /\ IsVersal /\ Kind[b.path] # "rpu" =>
          \A a \in Inside(b.path) : \A s \in Inside(a) : SlotIndex[s] < b.num_pl_slots
Fresh(t, p) == \E k \in Table : t.bases[k].path = p /\ FreshEntry(t.bases[k])
Held(t, p) == \E k \in Table : t.bases[k].path = p
                               /\ \E j \in AccelIdx : t.bases[k].accel_list[j].path # NULL

Gone == {"DELETE_DIR", "MOVED_FROM_DIR"}
Events == [wd: Int, mask: Gone \cup {"MOVED_TO_DIR"}, name: Dirs]
EventOf(e) ==
    /\ Parent(e.name) = Root => e.wd = 1
    /\ e.mask # "DELETE_DIR" => Parent(e.name) = Root
    /\ e.mask = "DELETE_DIR" => "rmtree" \in site.ops
Pending == batch \o queue

Announced(E, p) == \E k \in DOMAIN E : E[k].mask = "MOVED_TO_DIR" /\ E[k].name = p
Leaving(E, p) == \E k \in DOMAIN E : E[k].mask \in Gone /\ E[k].name = p
Returns(E, p) == \A k \in DOMAIN E : E[k].mask \in Gone /\ E[k].name = p =>
    \E l \in DOMAIN E : k < l /\ E[l].mask = "MOVED_TO_DIR" /\ E[l].name = p
Queued(q, p) == \E k \in DOMAIN q : q[k] = p

Tops == {p \in site.dirs : Parent(p) = Root}
WalkOf ==
    /\ walk.todo \in Seq(Tops) /\ (walk.reg # NULL => Top(walk.reg))
    /\ req.pc # "walk" => walk.todo = <<>> /\ walk.reg = NULL

EventsOf ==
    /\ batch \in Seq(Events) /\ queue \in Seq(Events) /\ Len(batch) <= site.max_batch
    /\ \A k \in DOMAIN Pending : EventOf(Pending[k])

\* A package on disk is in the tables, or will be; one that is not is not listed,
\* or will be taken off.
KnownIn(p, disks, t, E, again, w) ==
    /\ p \in disks => Returns(E, p)
    /\ p \notin disks /\ Held(t, p) => Leaving(E, p)
    /\ p \in disks => \/ Fresh(t, p) \/ again \/ Announced(E, p)
                      \/ Queued(w.todo, p) \/ w.reg = p
Known(p) == KnownIn(p, fs, db, Pending, rescan, walk)

WholeInv ==
    /\ DiskWhole /\ WatchRows(db) /\ Entries(db) /\ EventsOf /\ WalkOf
    /\ \A p \in Tops : Known(p)

Scope == Whole /\ Room /\ EventsKept

-----------------------------------------------------------------------------
(* The tree.                                                               *)

LEMMA TreeFacts ==
    ASSUME NEW d \in Dirs
    PROVE  /\ Parent(d) \in Places
           /\ \E k \in DOMAIN Children[Parent(d)] : Children[Parent(d)][k] = d
<1>1. \E p \in Places : \E k \in DOMAIN Children[p] : Children[p][k] = d
  BY TreeAssumption DEF Places
<1>2. Parent(d) = CHOOSE p \in Places : \E k \in DOMAIN Children[p] : Children[p][k] = d
  BY DEF Parent, ParentOf, Places
<1> QED
  BY <1>1, <1>2

LEMMA ChildFacts ==
    ASSUME NEW p \in Places, NEW k \in DOMAIN Children[p]
    PROVE  Children[p][k] \in Dirs /\ Parent(Children[p][k]) = p
<1>1. Children[p][k] \in Dirs
  BY TreeAssumption DEF Places
<1>2. \A q \in Places :
         (\E l \in DOMAIN Children[q] : Children[q][l] = Children[p][k]) => q = p
  BY ShapeAssumption DEF Places
<1> QED
  BY <1>1, <1>2, TreeFacts

\* A directory is of the kind its place in the tree says.
LEMMA KindFacts ==
    ASSUME NEW d \in Dirs
    PROVE  \/ Parent(d) = Root /\ Kind[d] \in {"base", "rpu"}
           \/ /\ Parent(d) \in Dirs /\ Parent(d) # Root
              /\ <<Kind[Parent(d)], Kind[d]>> \in
                     {<<"base", "accel">>, <<"accel", "slot">>, <<"rpu", "rpuslot">>}
<1>1. PICK k \in DOMAIN Children[Parent(d)] : Children[Parent(d)][k] = d
  BY TreeFacts
<1>2. Parent(d) \in Dirs \cup {Root} /\ Root \notin Dirs
  BY TreeFacts, TreeAssumption DEF Places
<1>3. IF Parent(d) = Root THEN Kind[d] \in {"base", "rpu"}
      ELSE <<Kind[Parent(d)], Kind[d]>> \in
             {<<"base", "accel">>, <<"accel", "slot">>, <<"rpu", "rpuslot">>}
  BY <1>1, <1>2, ShapeAssumption
<1> QED
  BY <1>2, <1>3

\* The package of a directory, and what is below a package.
LEMMA HomeFacts ==
    ASSUME NEW d \in Dirs
    PROVE  /\ Home(d) \in Dirs /\ Parent(Home(d)) = Root
           /\ Parent(d) # Root => Parent(d) \in Dirs /\ Home(Parent(d)) = Home(d)
           /\ \A p \in Dirs : Parent(p) = Root => (d \in Below(p) <=> Home(d) = p)
<1> DEFINE u == Parent(d)
<1>1. CASE u = Root
  <2>1. Home(d) = d
    BY <1>1 DEF Home
  <2> QED
    BY <1>1, <2>1, TreeAssumption DEF Below, BelowOf
<1>2. CASE u # Root /\ Parent(u) = Root
  <2>1. u \in Dirs /\ Home(d) = u /\ Home(u) = u
    BY <1>2, KindFacts DEF Home
  <2> QED
    BY <1>2, <2>1, TreeAssumption DEF Below, BelowOf
<1>3. CASE u # Root /\ Parent(u) # Root
  <2>1. u \in Dirs /\ <<Kind[u], Kind[d]>> \in
             {<<"base", "accel">>, <<"accel", "slot">>, <<"rpu", "rpuslot">>}
    BY <1>3, KindFacts
  <2>2. Parent(u) \in Dirs /\ <<Kind[Parent(u)], Kind[u]>> \in
             {<<"base", "accel">>, <<"accel", "slot">>, <<"rpu", "rpuslot">>}
    BY <1>3, <2>1, KindFacts
  <2>3. Kind[Parent(u)] = "base"
    BY <2>1, <2>2
  <2>4. Parent(Parent(u)) = Root
    BY <2>2, <2>3, KindFacts
  <2>5. Home(d) = Parent(u) /\ Home(u) = Parent(u)
    BY <1>3, <2>4 DEF Home
  <2> QED
    BY <1>3, <2>1, <2>2, <2>4, <2>5, TreeAssumption DEF Below, BelowOf
<1> QED
  BY <1>1, <1>2, <1>3

\* SetToSeq() lists the elements of a set.
LEMMA SetToSeqFacts ==
    ASSUME NEW S, IsFiniteSet(S)
    PROVE  /\ SetToSeq(S) \in Seq(S) /\ DOMAIN SetToSeq(S) = 1 .. Len(SetToSeq(S))
           /\ \A k \in DOMAIN SetToSeq(S) : SetToSeq(S)[k] \in S
           /\ \A x \in S : \E k \in DOMAIN SetToSeq(S) : SetToSeq(S)[k] = x
<1> DEFINE n == Cardinality(S)
           f == SetToSeq(S)
<1>1. n \in Nat /\ ExistsBijection(1 .. n, S)
  BY FS_CardinalityType
<1>2. \E g \in [1 .. n -> S] : IsInjective(g)
  BY <1>1, Zenon DEF ExistsBijection, Bijection, Injection
<1>3. f \in [1 .. n -> S] /\ IsInjective(f)
  BY <1>2, Zenon DEF SetToSeq
<1> HIDE DEF f
<1>4. f \in Injection(1 .. n, S)
  BY <1>3 DEF Injection
<1>5. Cardinality(1 .. n) = n
  BY <1>1, FS_Interval
<1>6. f \in Surjection(1 .. n, S)
  BY <1>4, <1>5, FS_Injection
<1>7. \A x \in S : \E k \in 1 .. n : f[k] = x
  BY <1>6, Zenon DEF Surjection
<1>8. f \in Seq(S) /\ Len(f) = n /\ DOMAIN f = 1 .. n
  BY <1>1, <1>3
<1> QED
  BY <1>3, <1>7, <1>8 DEF f

LEMMA DirsFinite ==
    ASSUME site \in Sites
    PROVE  /\ IsFiniteSet(site.dirs) /\ Cardinality(site.dirs) \in Nat
           /\ \A S \in SUBSET site.dirs : IsFiniteSet(S) /\ S \subseteq Dirs
<1>1. site.dirs \subseteq Dirs /\ IsFiniteSet(Dirs)
  BY SiteFacts, TreeAssumption
<1> QED
  BY <1>1, FS_Subset, FS_CardinalityType

\* There is a free row for a directory that has none.
LEMMA FreeRow ==
    ASSUME site \in Sites, Room, NEW t, Sound(t), WatchRows(t), NEW d \in site.dirs,
           WatchesOf(t, d) = {}
    PROVE  FreeWatches(t) # {}
<1> SUFFICES ASSUME FreeWatches(t) = {}
             PROVE  FALSE
  OBVIOUS
<1> DEFINE T == (site.dirs \ {d}) \cup {Root}
           f == [k \in Table |-> t.watch[k].path]
<1>1. \A k \in Table : t.watch[k].path # NULL /\ t.watch[k].path # d
  BY DEF FreeWatches, WatchesOf, WatchRows
<1>2. f \in [Table -> T]
  BY <1>1 DEF WatchRows
<1>3. IsFiniteSet(T) /\ Cardinality(T) = Cardinality(site.dirs)
  <2>1. IsFiniteSet(site.dirs) /\ Cardinality(site.dirs) \in Nat /\ Root \notin site.dirs
    BY DirsFinite, SiteFacts, TreeAssumption
  <2>2. /\ IsFiniteSet(site.dirs \ {d})
        /\ Cardinality(site.dirs \ {d}) = Cardinality(site.dirs) - 1
    BY <2>1, FS_RemoveElement
  <2>3. Root \notin site.dirs \ {d}
    BY <2>1
  <2> HIDE DEF T
  <2>4. IsFiniteSet(T) /\ Cardinality(T) = Cardinality(site.dirs \ {d}) + 1
    BY <2>2, <2>3, FS_AddElement DEF T
  <2> QED
    BY <2>1, <2>2, <2>4
<1>4. IsFiniteSet(Table) /\ Cardinality(Table) = site.max_watch
  BY SiteFacts, FS_Interval DEF Table
<1>5. Cardinality(T) < Cardinality(Table)
  BY <1>3, <1>4, DirsFinite, SiteFacts DEF Room
<1> HIDE DEF T, f
<1>6. PICK x, y \in Table : x # y /\ f[x] = f[y]
  BY <1>2, <1>3, <1>4, <1>5, FS_PigeonHole
<1>7. t.watch[x].path = t.watch[y].path
  BY <1>6 DEF f
<1> QED
  BY <1>1, <1>6, <1>7 DEF WatchRows

LEMMA FreeBase ==
    ASSUME site \in Sites, Room, NEW t, Sound(t), Entries(t)
    PROVE  \E k \in Table : t.bases[k].path = NULL
<1> SUFFICES ASSUME \A k \in Table : t.bases[k].path # NULL
             PROVE  FALSE
  OBVIOUS
<1> DEFINE f == [k \in Table |-> t.bases[k].path]
<1>1. f \in [Table -> site.dirs]
  BY DEF Entries, EntryOf, Top
<1>2. IsFiniteSet(Table) /\ Cardinality(Table) = site.max_watch
  BY SiteFacts, FS_Interval DEF Table
<1>3. IsFiniteSet(site.dirs) /\ Cardinality(site.dirs) < Cardinality(Table)
  BY <1>2, DirsFinite, SiteFacts DEF Room
<1> HIDE DEF f
<1>4. PICK x, y \in Table : x # y /\ f[x] = f[y]
  BY <1>1, <1>2, <1>3, FS_PigeonHole
<1>5. t.bases[x].path = t.bases[y].path
  BY <1>4 DEF f
<1> QED
  BY <1>4, <1>5 DEF Entries

\* accel_list[] has a free entry for a row it is to have and has not.
LEMMA FreeEntry ==
    ASSUME NEW W, IsFiniteSet(W), Cardinality(W) <= RP_SLOTS_MAX, NEW l \in Lists,
           ListOf(l, W), NEW a \in W, a \notin Paths(l)
    PROVE  \E j \in AccelIdx : l[j].path = NULL
<1> SUFFICES ASSUME \A j \in AccelIdx : l[j].path # NULL
             PROVE  FALSE
  OBVIOUS
<1> DEFINE f == [j \in AccelIdx |-> l[j].path]
<1>1. f \in [AccelIdx -> W \ {a}]
  BY DEF ListOf, Paths
<1>2. IsFiniteSet(AccelIdx) /\ Cardinality(AccelIdx) = RP_SLOTS_MAX /\ RP_SLOTS_MAX \in Nat
  BY TreeAssumption, FS_Interval DEF AccelIdx
<1>3. IsFiniteSet(W \ {a}) /\ Cardinality(W \ {a}) = Cardinality(W) - 1
  BY FS_RemoveElement
<1>4. Cardinality(W) \in Nat
  BY FS_CardinalityType
<1> HIDE DEF f
<1>5. PICK x, y \in AccelIdx : x # y /\ f[x] = f[y]
  BY <1>1, <1>2, <1>3, <1>4, FS_PigeonHole
<1>6. l[x].path = l[y].path
  BY <1>5 DEF f
<1>7. x \in Nat /\ y \in Nat
  BY AccelIdxFacts
<1>8. x < y \/ y < x
  BY <1>5, <1>7
<1> QED
  BY <1>6, <1>8 DEF ListOf

-----------------------------------------------------------------------------
(* Entering an accelerator.                                                *)

LEMMA LowestLeast ==
    ASSUME NEW S, S \subseteq Nat, S # {}
    PROVE  Lowest(S) \in S /\ \A k \in S : Lowest(S) <= k
BY Least DEF Lowest

\* What entering a at index j makes of a list.
EnterAt(l, j, a) == [l EXCEPT ![j].path = a, ![j].name = a]

LEMMA EnteredAt ==
    ASSUME NEW l \in Lists, NEW j \in AccelIdx, NEW a \in Path
    PROVE  /\ EnterAt(l, j, a) \in Lists
           /\ EnterAt(l, j, a)[j].path = a /\ EnterAt(l, j, a)[j].name = a
           /\ \A k \in AccelIdx : k # j => EnterAt(l, j, a)[k] = l[k]
<1> DEFINE e == [l[j] EXCEPT !.path = a, !.name = a]
           m == [l EXCEPT ![j].path = a, ![j].name = a]
<1>1. l[j] \in Accel
  BY DEF Lists
<1>2. e.path = a /\ e.name = a
  BY <1>1 DEF Accel
<1>3. m = [l EXCEPT ![j] = e]
  BY DEF Lists
<1>4. m \in Lists
  BY EnteredList
<1> HIDE DEF e, m
<1>5. m[j] = e /\ \A k \in AccelIdx : k # j => m[k] = l[k]
  BY <1>3 DEF Lists
<1> QED
  BY <1>2, <1>4, <1>5 DEF m, EnterAt

LEMMA AddListed ==
    ASSUME NEW W, W \subseteq Dirs, NEW l \in Lists, ListOf(l, W), NEW a \in W
    PROVE  LET m == add_accel_to_base(l, a, a)
           IN  /\ m \in Lists /\ ListOf(m, W)
               /\ \A p \in W : p \in Paths(l) => p \in Paths(m)
               /\ IsFiniteSet(W) /\ Cardinality(W) <= RP_SLOTS_MAX => a \in Paths(m)
<1> DEFINE S == {j \in AccelIdx : \/ l[j].path = NULL
                                  \/ l[j].path = a /\ l[j].name = a}
           m == add_accel_to_base(l, a, a)
           Fits == IsFiniteSet(W) /\ Cardinality(W) <= RP_SLOTS_MAX
<1>1. a \in Path /\ a # NULL /\ AccelIdx \subseteq Nat /\ S \subseteq Nat
  BY AccelIdxFacts, TreeAssumption DEF Path
<1>2. AccelSlot(l, a, a) = IF S = {} THEN 0 ELSE Lowest(S)
  BY DEF AccelSlot
<1>3. m \in Lists
  BY <1>1, AddAccelList
<1>4. CASE S = {}
  <2>1. m = l
    BY <1>2, <1>4 DEF add_accel_to_base
  <2>2. a \notin Paths(l)
    BY <1>1, <1>4 DEF ListOf, Paths
  <2>3. Fits => S # {}
    BY <2>2, FreeEntry
  <2> HIDE DEF m
  <2> QED
    BY <1>3, <1>4, <2>1, <2>3 DEF m
<1>5. CASE S # {}
  <2> DEFINE j == Lowest(S)
  <2>1. j \in S /\ \A k \in S : j <= k
    <3> HIDE DEF S
    <3> QED
      BY <1>1, <1>5, LowestLeast
  <2>2. j \in AccelIdx /\ j \in Nat /\ j # 0
    BY <1>1, <2>1, TreeAssumption DEF AccelIdx
  <2>3. m = IF l[j].path # NULL THEN l ELSE EnterAt(l, j, a)
    BY <1>2, <1>5, <2>2 DEF add_accel_to_base, EnterAt
  <2> HIDE DEF j, m
  <2>4. CASE l[j].path # NULL
    <3>1. m = l /\ l[j].path = a
      BY <2>1, <2>3, <2>4
    <3> QED
      BY <1>3, <2>2, <3>1 DEF m, Paths
  <2>5. CASE l[j].path = NULL
    <3>1. /\ m[j].path = a /\ m[j].name = a
          /\ \A k \in AccelIdx : k # j => m[k] = l[k]
      BY <1>1, <2>2, <2>3, <2>5, EnteredAt
    <3>2. \A k \in AccelIdx : j < k => m[k].path = NULL
      <4> SUFFICES ASSUME NEW k \in AccelIdx, j < k
                   PROVE  m[k].path = NULL
        OBVIOUS
      <4>1. k # j /\ l[k].path = NULL
        BY <1>1, <2>2, <2>5 DEF ListOf
      <4> QED
        BY <3>1, <4>1
    <3>3. \A k \in AccelIdx : k < j => m[k] = l[k] /\ l[k].path # NULL /\ l[k].path # a
      <4> SUFFICES ASSUME NEW k \in AccelIdx, k < j
                   PROVE  m[k] = l[k] /\ l[k].path # NULL /\ l[k].path # a
        OBVIOUS
      <4>1. k \notin S /\ k # j
        BY <1>1, <2>1, <2>2
      <4>2. l[k].path # NULL /\ l[k].path # a
        BY <1>1, <4>1 DEF ListOf
      <4> QED
        BY <3>1, <4>1, <4>2
    <3>4. ListOf(m, W)
      <4>1. ASSUME NEW k \in AccelIdx, m[k].path # NULL
            PROVE  m[k].path \in W /\ m[k].name = m[k].path
        BY <3>1, <4>1 DEF ListOf
      <4>2. ASSUME NEW k \in AccelIdx, NEW n \in AccelIdx, k < n, m[n].path # NULL
            PROVE  m[k].path # NULL /\ m[k].path # m[n].path
        <5>1. k \in Nat /\ n \in Nat /\ ~(j < n)
          BY <1>1, <3>2, <4>2
        <5>2. k < j /\ (n = j \/ n < j)
          BY <2>2, <4>2, <5>1
        <5> QED
          BY <3>1, <3>3, <4>2, <5>2 DEF ListOf
      <4> QED
        BY <4>1, <4>2 DEF ListOf
    <3>5. \A p \in W : p \in Paths(l) => p \in Paths(m)
      <4> SUFFICES ASSUME NEW p \in W, NEW k \in AccelIdx, l[k].path = p
                   PROVE  p \in Paths(m)
        BY DEF Paths
      <4>1. k # j
        BY <2>5, TreeAssumption
      <4> QED
        BY <3>1, <4>1 DEF Paths
    <3>6. a \in Paths(m)
      BY <2>2, <3>1 DEF Paths
    <3> QED
      BY <1>3, <3>4, <3>5, <3>6 DEF m
  <2> QED
    BY <2>4, <2>5
<1> QED
  BY <1>4, <1>5

-----------------------------------------------------------------------------
(* The watch table.                                                        *)

LEMMA AddWatchRows ==
    ASSUME site \in Sites, Room, fs \subseteq site.dirs, NEW t, Sound(t), WatchRows(t),
           NEW d \in fs, NEW pname \in Path, NEW ppath \in Path, Top(d) => pname = NULL
    PROVE  LET r == add_dir_watch(t, d, pname, ppath)
           IN  r.ok /\ Sound(r.t) /\ WatchRows(r.t) /\ r.t.bases = t.bases
<1> DEFINE r == add_dir_watch(t, d, pname, ppath)
           i == Lowest(FreeWatches(t))
           w == [wd |-> t.next, path |-> d, parent_name |-> pname, parent_path |-> ppath]
<1>1. d \in site.dirs /\ d \in Places /\ d # Root /\ d # NULL
  BY SiteFacts, TreeAssumption DEF Places
<1>2. Sound(r.t) /\ r.t.bases = t.bases
  BY <1>1, AddWatchSound
<1>3. CASE WatchesOf(t, d) # {}
  <2>1. r.t = t /\ r.ok
    BY <1>3 DEF add_dir_watch
  <2> HIDE DEF r
  <2> QED
    BY <1>2, <2>1 DEF r
<1>4. CASE WatchesOf(t, d) = {}
  <2>1. FreeWatches(t) # {}
    BY <1>1, <1>4, FreeRow
  <2>2. r = [ok |-> TRUE, t |-> Added(t, i, d, w)]
    BY <1>4, <2>1 DEF add_dir_watch, Added
  <2>3. i \in Table /\ t.watch[i].wd = -1
    BY <2>1, LowestRow DEF FreeWatches
  <2>7. w.wd = t.next /\ w.path = d /\ w.parent_name = pname
    OBVIOUS
  <2> DEFINE u == Added(t, i, d, w)
  <2>5. r.ok /\ r.t = u
    BY <2>2
  <2> HIDE DEF i, w
  <2>15. t \in Tables
    BY DEF Sound
  <2>4. /\ u.watch = [t.watch EXCEPT ![i] = w] /\ u.wd = [t.wd EXCEPT ![d] = t.next]
        /\ u.next = t.next + 1
    BY <2>15, AddedFields
  <2>6. /\ t.watch \in [Table -> Watch] /\ t.wd \in [Places -> Int] /\ t.next \in Nat
        /\ t.next > 1 /\ Root \in Places /\ 1 \in Table
    BY SiteFacts DEF Sound, Tables, WatchRows, Places
  <2> HIDE DEF u, r
  <2>8. /\ u.watch[i] = w
        /\ \A k \in Table : k # i => u.watch[k] = t.watch[k]
    BY <2>3, <2>4, <2>6
  <2>9. i # 1
    BY <2>3 DEF WatchRows
  <2>10. u.next > 1 /\ u.wd[Root] = 1
    BY <1>1, <2>4, <2>6 DEF WatchRows
  <2>11. u.watch[1].path = Root /\ u.watch[1].wd = 1 /\ u.watch[1].parent_name = NULL
    BY <2>6, <2>8, <2>9 DEF WatchRows
  <2>12. ASSUME NEW k \in Table
         PROVE  /\ u.watch[k].path \in site.dirs \cup {Root, NULL}
                /\ u.watch[k].wd = -1 <=> u.watch[k].path = NULL
                /\ u.watch[k].path # Root => u.watch[k].wd # 1
                /\ Top(u.watch[k].path) => u.watch[k].parent_name = NULL
    <3>1. CASE k = i
      <4>1. t.next # -1 /\ t.next # 1
        BY <2>6
      <4> QED
        BY <1>1, <2>7, <2>8, <3>1, <4>1
    <3>2. CASE k # i
      BY <2>8, <3>2 DEF WatchRows
    <3> QED
      BY <3>1, <3>2
  <2>13. ASSUME NEW k \in Table, NEW l \in Table, u.watch[k].path = u.watch[l].path,
                u.watch[k].path # NULL
         PROVE  k = l
    <3>1. \A m \in Table : t.watch[m].path # d
      BY <1>4 DEF WatchesOf
    <3> QED
      BY <2>7, <2>8, <2>13, <3>1 DEF WatchRows
  <2>14. WatchRows(u)
    BY <2>10, <2>11, <2>12, <2>13 DEF WatchRows
  <2> QED
    BY <1>2, <2>5, <2>14 DEF r
<1> QED
  BY <1>3, <1>4

LEMMA RemoveWatchRows ==
    ASSUME site \in Sites, NEW t, Sound(t), WatchRows(t), NEW d \in Dirs
    PROVE  WatchRows(remove_watch(t, d))
<1> DEFINE u == remove_watch(t, d)
           wds == {t.watch[i].wd : i \in WatchesOf(t, d)}
           D == [e \in Places |-> IF t.wd[e] \in wds THEN -1 ELSE t.wd[e]]
<1>1. u.watch = Unwatched(t, d) /\ u.wd = D /\ u.next = t.next
  BY RemoveWatchFields
<1>2. d # Root /\ d # NULL /\ Root \in Places /\ 1 \in Table
  BY SiteFacts, TreeAssumption DEF Places
<1>3. ASSUME NEW k \in Table
      PROVE  \/ t.watch[k].path # d /\ u.watch[k] = t.watch[k]
             \/ t.watch[k].path = d /\ u.watch[k].path = NULL /\ u.watch[k].wd = -1
  <2>1. t.watch[k] \in Watch
    BY DEF Sound, Tables
  <2>2. Renamed(t.watch[k], -1, NULL).path = NULL /\ Renamed(t.watch[k], -1, NULL).wd = -1
    BY <2>1 DEF Renamed, Watch
  <2> QED
    BY <1>1, <2>2 DEF Unwatched
<1>4. D[Root] = 1
  <2>1. 1 \notin wds
    BY <1>2 DEF WatchesOf, WatchRows
  <2>2. t.wd[Root] = 1
    BY DEF WatchRows
  <2> HIDE DEF wds
  <2> QED
    BY <1>2, <2>1, <2>2
<1> HIDE DEF u, D
<1>5. u.next > 1 /\ u.wd[Root] = 1
  BY <1>1, <1>4 DEF WatchRows
<1>6. u.watch[1] = t.watch[1]
  BY <1>2, <1>3 DEF WatchRows
<1>7. NULL # Root /\ ~Top(NULL)
  BY SiteFacts, TreeAssumption DEF Top
<1> QED
  BY <1>2, <1>3, <1>5, <1>6, <1>7 DEF WatchRows, u

\* The rest of the tables does not matter to the rows.
LEMMA SameRows ==
    ASSUME NEW t, NEW u, WatchRows(t), u.watch = t.watch, u.wd = t.wd, u.next = t.next
    PROVE  WatchRows(u)
BY DEF WatchRows

\* accel_dir_add() adds a watch, or takes the parent name off one.
LEMMA WalkWatchRows ==
    ASSUME DiscoveryInv, Room, WatchRows(db), NEW d \in fs, Top(d)
    PROVE  LET r == WatchForWalk(d)
           IN  r.ok /\ WatchRows(r.t) /\ r.t.bases = db.bases
<1> DEFINE r == WatchForWalk(d)
           S == WatchesOf(db, d)
           i == Lowest(S)
           u == [db EXCEPT !.watch[i].parent_name = NULL]
<1>1. site \in Sites /\ Sound(db) /\ fs \subseteq site.dirs
  BY DEF DiscoveryInv, OnDisk
<1>2. CASE S # {}
  <2>1. i \in Table
    <3>1. S \subseteq Table
      BY DEF WatchesOf
    <3> HIDE DEF S
    <3> QED
      BY <1>1, <1>2, <3>1, LowestRow
  <2>2. r.ok /\ r.t = u
    BY <1>2 DEF WatchForWalk
  <2> HIDE DEF i, r
  <2>3. db.watch \in [Table -> Watch] /\ db \in Tables
    BY <1>1 DEF Sound, Tables
  <2> DEFINE w == [db.watch[i] EXCEPT !.parent_name = NULL]
  <2>4. /\ u.watch = [db.watch EXCEPT ![i] = w] /\ u.bases = db.bases /\ u.wd = db.wd
        /\ u.next = db.next
    BY <2>3 DEF Tables
  <2>5. w.wd = db.watch[i].wd /\ w.path = db.watch[i].path /\ w.parent_name = NULL
    BY <2>1, <2>3 DEF Watch
  <2> HIDE DEF u, w
  <2>6. \A k \in Table : /\ u.watch[k].wd = db.watch[k].wd
                         /\ u.watch[k].path = db.watch[k].path
                         /\ u.watch[k].parent_name \in {NULL, db.watch[k].parent_name}
    BY <2>1, <2>3, <2>4, <2>5
  <2>7. 1 \in Table
    BY <1>1, SiteFacts
  <2>8. WatchRows(u)
    BY <2>4, <2>6, <2>7 DEF WatchRows
  <2> QED
    BY <2>2, <2>4, <2>8 DEF r
<1>3. CASE S = {}
  <2>1. r = add_dir_watch(db, d, NULL, Parent(d))
    BY <1>3 DEF WatchForWalk
  <2>2. NULL \in Path /\ Parent(d) \in Path
    BY DEF Path, Top
  <2> DEFINE x == add_dir_watch(db, d, NULL, Parent(d))
  <2>3. x.ok /\ WatchRows(x.t) /\ x.t.bases = db.bases
    <3> HIDE DEF r, i, u, S
    <3> QED
      BY <1>1, <2>2, AddWatchRows
  <2>4. r = x
    BY <2>1
  <2> HIDE DEF r, x
  <2> QED
    BY <2>3, <2>4 DEF r
<1> QED
  BY <1>2, <1>3

-----------------------------------------------------------------------------
(* What a scan of a package finds.                                         *)

LEMMA SetListFields ==
    ASSUME NEW t, Sound(t), NEW i \in Table, NEW l
    PROVE  LET u == [t EXCEPT !.bases[i].accel_list = l]
           IN  /\ u.watch = t.watch /\ u.wd = t.wd /\ u.next = t.next
               /\ u.bases[i] = [t.bases[i] EXCEPT !.accel_list = l]
               /\ u.bases[i].accel_list = l
               /\ \A k \in Table : k # i => u.bases[k] = t.bases[k]
<1> DEFINE u == [t EXCEPT !.bases[i].accel_list = l]
           b == [t.bases[i] EXCEPT !.accel_list = l]
<1>1. t \in Tables /\ t.bases \in [Table -> BaseSet] /\ t.bases[i] \in Base
  BY DEF Sound, Tables, BaseSet
<1>2. /\ u.watch = t.watch /\ u.wd = t.wd /\ u.next = t.next
      /\ u.bases = [t.bases EXCEPT ![i] = b]
  BY <1>1 DEF Tables
<1>3. b.accel_list = l
  BY <1>1 DEF Base
<1> HIDE DEF b
<1>4. u.bases[i] = b /\ \A k \in Table : k # i => u.bases[k] = t.bases[k]
  BY <1>1, <1>2
<1> HIDE DEF u
<1> QED
  BY <1>2, <1>3, <1>4 DEF u, b

LEMMA MaxFacts ==
    ASSUME NEW m \in Nat, NEW n \in Nat
    PROVE  Max({m, n}) \in Nat /\ m <= Max({m, n}) /\ n <= Max({m, n})
<1>1. \E x \in {m, n} : \A y \in {m, n} : x >= y
  <2>1. CASE m >= n
    BY <2>1
  <2>2. CASE n >= m
    BY <2>2
  <2> QED
    BY <2>1, <2>2
<1>2. Max({m, n}) \in {m, n} /\ \A y \in {m, n} : Max({m, n}) >= y
  BY <1>1 DEF Max
<1> QED
  BY <1>2

LEMMA WantFacts ==
    ASSUME site \in Sites, NEW p, Top(p)
    PROVE  /\ Want(p) \subseteq Dirs /\ IsFiniteSet(Want(p))
           /\ PackagesFit => Cardinality(Want(p)) <= RP_SLOTS_MAX
           /\ p \in Dirs /\ Kind[p] \in {"base", "rpu"}
<1>1. p \in Dirs /\ p \in site.dirs
  BY SiteFacts DEF Top
<1>2. Kind[p] \in {"base", "rpu"}
  BY <1>1, KindFacts, TreeAssumption DEF Top
<1>3. Want(p) \in SUBSET Inside(p) \/ Want(p) = {p}
  BY DEF Want, Accels
<1>4. Inside(p) \in SUBSET site.dirs /\ {p} \in SUBSET site.dirs
  BY <1>1 DEF Inside
<1>5. IsFiniteSet(Inside(p)) /\ Want(p) \subseteq site.dirs
  BY <1>3, <1>4, DirsFinite
<1>6. ASSUME PackagesFit
      PROVE  Cardinality(Want(p)) <= RP_SLOTS_MAX
  <2>1. Cardinality(Inside(p)) <= RP_SLOTS_MAX /\ RP_SLOTS_MAX > 0 /\ RP_SLOTS_MAX \in Nat
    BY <1>1, <1>6, TreeAssumption DEF PackagesFit, Inside
  <2>2. CASE Want(p) \in SUBSET Inside(p)
    <3>1. /\ Cardinality(Want(p)) <= Cardinality(Inside(p))
          /\ Cardinality(Want(p)) \in Nat /\ Cardinality(Inside(p)) \in Nat
      BY <1>5, <2>2, FS_Subset, FS_CardinalityType
    <3> QED
      BY <2>1, <3>1
  <2>3. CASE Want(p) = {p}
    <3>1. Cardinality({p}) = 1
      BY FS_Singleton
    <3> QED
      BY <2>1, <2>3, <3>1
  <2> QED
    BY <1>3, <2>2, <2>3
<1>7. IsFiniteSet(Want(p)) /\ Want(p) \subseteq Dirs
  BY <1>5, DirsFinite
<1> QED
  BY <1>1, <1>2, <1>6, <1>7

\* What a scan of package p, entry i of bases, has come to.
ScanOf(x, i, p, bases) ==
    /\ ScanSound(x) /\ ~x.stop /\ WatchRows(x.t)
    /\ \A k \in Table : k # i => x.t.bases[k] = bases[k]
    /\ x.t.bases[i] = [bases[i] EXCEPT !.accel_list = x.t.bases[i].accel_list]
    /\ ListOf(x.t.bases[i].accel_list, Want(p))
    /\ p \notin fs => x.t.bases[i].accel_list = bases[i].accel_list
    /\ Accels(p) = {} => x.range = 0

\* A later stage y of scan x has lost nothing.
Later(x, y, i, p) ==
    /\ x.range <= y.range
    /\ \A q \in Want(p) : q \in Paths(x.t.bases[i].accel_list)
                            => q \in Paths(y.t.bases[i].accel_list)

\* The scan has been in directory c, one that holds a file.
RowOf(c) == IF Kind[c] = "slot" THEN Parent(c) ELSE c
Visited(x, i, p, c) ==
    /\ RowOf(c) \in Want(p)
    /\ PackagesFit => RowOf(c) \in Paths(x.t.bases[i].accel_list)
    /\ Kind[c] = "slot" => SlotIndex[c] < x.range

\* Packages that are scanned: all but flat ones with a shell.json.
Scanned(p) == Top(p) /\ (Kind[p] = "base" /\ ~IsVersal => Shell[p].type # "FLAT")

LEMMA LaterSame ==
    ASSUME NEW x, NEW i, NEW p, ScanSound(x)
    PROVE  Later(x, x, i, p)
BY DEF Later, ScanSound

LEMMA LaterLater ==
    ASSUME NEW x, NEW y, NEW z, NEW i, NEW p, ScanSound(x), ScanSound(y), ScanSound(z),
           Later(x, y, i, p), Later(y, z, i, p)
    PROVE  Later(x, z, i, p)
<1>1. x.range \in Nat /\ y.range \in Nat /\ z.range \in Nat
  BY DEF ScanSound
<1>2. x.range <= z.range
  BY <1>1 DEF Later
<1> QED
  BY <1>2, Zenon DEF Later

LEMMA VisitedLater ==
    ASSUME NEW x, NEW y, NEW i, NEW p, NEW c \in Dirs, ScanSound(x), ScanSound(y),
           Later(x, y, i, p), Visited(x, i, p, c)
    PROVE  Visited(y, i, p, c)
<1>1. x.range \in Nat /\ y.range \in Nat /\ SlotIndex[c] \in Nat
  BY TreeAssumption DEF ScanSound
<1>2. Kind[c] = "slot" => SlotIndex[c] < y.range
  BY <1>1 DEF Later, Visited
<1>3. PackagesFit => RowOf(c) \in Paths(y.t.bases[i].accel_list)
  BY DEF Later, Visited
<1> QED
  BY <1>2, <1>3 DEF Visited

\* A directory's watch is added.
LEMMA ScanWatch ==
    ASSUME OnDisk, Room, NEW i \in Table, NEW p, NEW bases, NEW x, ScanOf(x, i, p, bases),
           NEW d \in fs, Parent(d) # Root, NEW pname \in Path, NEW ppath \in Path
    PROVE  LET w == add_dir_watch(x.t, d, pname, ppath)
               y == [t |-> w.t, range |-> x.range, stop |-> x.stop]
           IN  /\ w.ok /\ w.t.bases = x.t.bases
               /\ ScanOf(y, i, p, bases) /\ Later(x, y, i, p)
<1> DEFINE w == add_dir_watch(x.t, d, pname, ppath)
           y == [t |-> w.t, range |-> x.range, stop |-> x.stop]
<1>1. w.ok /\ Sound(w.t) /\ WatchRows(w.t) /\ w.t.bases = x.t.bases
  <2>1. site \in Sites /\ fs \subseteq site.dirs /\ Sound(x.t) /\ WatchRows(x.t) /\ ~Top(d)
    BY DEF OnDisk, ScanOf, ScanSound, Top
  <2> QED
    BY <2>1, AddWatchRows
<1> HIDE DEF w
<1>2. y.t = w.t /\ y.range = x.range /\ y.stop = x.stop /\ ScanSound(y)
  BY <1>1 DEF ScanOf, ScanSound
<1> HIDE DEF y
<1>3. ScanOf(y, i, p, bases)
  BY <1>1, <1>2 DEF ScanOf
<1>4. Later(x, y, i, p)
  BY <1>1, <1>2 DEF Later, ScanSound
<1> QED
  BY <1>1, <1>3, <1>4 DEF w, y

LEMMA ScanRecord ==
    ASSUME NEW x, ScanSound(x), NEW u, NEW n
    PROVE  /\ [x EXCEPT !.t = u] = [t |-> u, range |-> x.range, stop |-> x.stop]
           /\ [x EXCEPT !.t = u, !.range = n] = [t |-> u, range |-> n, stop |-> x.stop]
<1> DEFINE v == [x EXCEPT !.t = u]
<1>1. v = [t |-> u, range |-> x.range, stop |-> x.stop]
  BY DEF ScanSound
<1>2. [x EXCEPT !.t = u, !.range = n] = [v EXCEPT !.range = n]
  OBVIOUS
<1> HIDE DEF v
<1>3. [v EXCEPT !.range = n] = [t |-> u, range |-> n, stop |-> x.stop]
  BY <1>1
<1> QED
  BY <1>1, <1>2, <1>3 DEF v

\* An accelerator is entered in the list.
LEMMA ScanEnter ==
    ASSUME OnDisk, NEW i \in Table, NEW p, Top(p), p \in fs, NEW bases, NEW x,
           ScanOf(x, i, p, bases), NEW a \in Want(p), NEW n \in Nat, x.range <= n,
           Accels(p) = {} => n = 0
    PROVE  LET m == add_accel_to_base(x.t.bases[i].accel_list, a, a)
               y == [t |-> [x.t EXCEPT !.bases[i].accel_list = m], range |-> n,
                     stop |-> x.stop]
           IN  /\ ScanOf(y, i, p, bases) /\ Later(x, y, i, p) /\ y.range = n
               /\ PackagesFit => a \in Paths(y.t.bases[i].accel_list)
<1> DEFINE l == x.t.bases[i].accel_list
           m == add_accel_to_base(l, a, a)
           u == [x.t EXCEPT !.bases[i].accel_list = m]
           y == [t |-> u, range |-> n, stop |-> x.stop]
<1>1. site \in Sites /\ Sound(x.t) /\ l \in Lists /\ ListOf(l, Want(p)) /\ WatchRows(x.t)
  BY BaseFacts DEF OnDisk, ScanOf, ScanSound
<1>2. /\ Want(p) \subseteq Dirs /\ IsFiniteSet(Want(p))
      /\ PackagesFit => Cardinality(Want(p)) <= RP_SLOTS_MAX
  BY <1>1, WantFacts
<1>3. /\ m \in Lists /\ ListOf(m, Want(p))
      /\ \A q \in Want(p) : q \in Paths(l) => q \in Paths(m)
      /\ PackagesFit => a \in Paths(m)
  BY <1>1, <1>2, AddListed
<1> HIDE DEF m
<1>4. Sound(u)
  BY <1>1, <1>3, SetList
<1>5. /\ u.watch = x.t.watch /\ u.wd = x.t.wd /\ u.next = x.t.next
      /\ u.bases[i] = [x.t.bases[i] EXCEPT !.accel_list = m] /\ u.bases[i].accel_list = m
      /\ \A k \in Table : k # i => u.bases[k] = x.t.bases[k]
  BY <1>1, SetListFields
<1> HIDE DEF u
<1>6. y.t = u /\ y.range = n /\ ~y.stop /\ ScanSound(y)
  <2>1. x.stop \in BOOLEAN /\ ~x.stop
    BY DEF ScanOf, ScanSound
  <2>2. y.t = u /\ y.range = n /\ y.stop = x.stop
    OBVIOUS
  <2> QED
    BY <1>4, <2>1, <2>2 DEF ScanSound
<1> HIDE DEF y
<1>7. WatchRows(u)
  BY <1>1, <1>5, SameRows
<1>8. u.bases[i] = [bases[i] EXCEPT !.accel_list = m]
  <2>1. u.bases[i] = [[bases[i] EXCEPT !.accel_list = l] EXCEPT !.accel_list = m]
    BY <1>5 DEF ScanOf
  <2> QED
    BY <2>1
<1>9. ScanOf(y, i, p, bases)
  BY <1>3, <1>5, <1>6, <1>7, <1>8 DEF ScanOf
<1>10. Later(x, y, i, p)
  BY <1>3, <1>5, <1>6 DEF Later
<1> QED
  <2>1. /\ ScanOf(y, i, p, bases) /\ Later(x, y, i, p) /\ y.range = n
        /\ PackagesFit => a \in Paths(y.t.bases[i].accel_list)
    BY <1>3, <1>5, <1>6, <1>9, <1>10
  <2> QED
    BY <2>1, Zenon DEF y, u, m

LEMMA SlotFacts ==
    ASSUME site \in Sites, NEW p, Scanned(p), NEW a \in Inside(p), NEW s \in Dirs,
           Parent(s) = a
    PROVE  /\ a \in Dirs /\ a # Root /\ Kind[p] = "base" /\ Kind[a] = "accel"
           /\ Kind[s] = "slot" /\ Home(s) = p /\ Home(a) = p
           /\ s \in site.dirs => a \in Want(p) /\ Accels(p) # {}
<1>1. p \in site.dirs /\ p \in Dirs /\ a \in site.dirs /\ a \in Dirs /\ Parent(a) = p
  BY SiteFacts DEF Scanned, Top, Inside
<1>2. p # Root /\ a # Root
  BY <1>1, TreeAssumption
<1>3. Kind[a] = "accel" /\ Kind[s] = "slot" /\ Kind[p] = "base"
  <2>1. <<Kind[a], Kind[s]>> \in
           {<<"base", "accel">>, <<"accel", "slot">>, <<"rpu", "rpuslot">>}
    BY <1>2, KindFacts
  <2>2. <<Kind[p], Kind[a]>> \in
           {<<"base", "accel">>, <<"accel", "slot">>, <<"rpu", "rpuslot">>}
    BY <1>1, <1>2, KindFacts
  <2> QED
    BY <2>1, <2>2
<1>4. Home(s) = p /\ Home(a) = p
  BY <1>1, <1>2 DEF Home, Scanned, Top
<1>5. ASSUME s \in site.dirs
      PROVE  a \in Want(p) /\ Accels(p) # {}
  <2>1. a \in Accels(p)
    BY <1>5 DEF Accels, Inside
  <2>2. ~Flat(p)
    BY <1>3, <2>1 DEF Flat, Scanned
  <2> QED
    BY <1>3, <2>1, <2>2 DEF Want
<1> QED
  BY <1>1, <1>2, <1>3, <1>4, <1>5

LEMMA WholeFiles ==
    ASSUME OnDisk, DiskWhole, NEW d \in fs
    PROVE  /\ Kind[d] \in {"base", "slot", "rpuslot"} => file[d] = "full"
           /\ d \in Dirs /\ d \in site.dirs /\ Home(d) \in fs
<1>1. d \in Dirs /\ d \in site.dirs /\ Home(d) \in fs
  BY SiteFacts DEF OnDisk, DiskWhole
<1>2. Kind[d] \in {"base", "slot", "rpuslot"} => FileName(d) # NULL
  BY TreeAssumption DEF FileName
<1> QED
  BY <1>1, <1>2 DEF DiskWhole

LEMMA ScanSlotOf ==
    ASSUME OnDisk, DiskWhole, Room, NEW i \in Table, NEW p, Scanned(p), NEW bases, NEW x,
           ScanOf(x, i, p, bases), NEW a \in Inside(p), NEW s \in Dirs, Parent(s) = a
    PROVE  LET y == ScanSlotDir(i, a, x, s)
           IN  /\ ScanOf(y, i, p, bases) /\ Later(x, y, i, p)
               /\ s \in fs => Visited(y, i, p, s)
<1> DEFINE y == ScanSlotDir(i, a, x, s)
<1>1. ~x.stop /\ ScanSound(x) /\ site \in Sites
  BY DEF ScanOf, OnDisk
<1>2. CASE s \notin fs
  <2>1. y = x
    BY <1>1, <1>2 DEF ScanSlotDir
  <2> HIDE DEF y
  <2> QED
    BY <1>1, <1>2, <2>1, LaterSame DEF y
<1>3. CASE s \in fs
  <2> DEFINE w == add_dir_watch(x.t, s, a, a)
             v == [t |-> w.t, range |-> x.range, stop |-> x.stop]
             n == Max({x.range, SlotIndex[s] + 1})
             list == w.t.bases[i].accel_list
             m == add_accel_to_base(list, a, a)
             new == [w.t EXCEPT !.bases[i].accel_list = m]
             z == [t |-> new, range |-> n, stop |-> x.stop]
  <2>1. /\ a \in Dirs /\ Kind[s] = "slot" /\ s \in site.dirs /\ file[s] = "full"
        /\ a \in Want(p) /\ Accels(p) # {} /\ p \in fs /\ Top(p) /\ a # Root
    BY <1>1, <1>3, SlotFacts, WholeFiles DEF Scanned
  <2>2. w.ok /\ ScanOf(v, i, p, bases) /\ Later(x, v, i, p)
    BY <1>3, <2>1, ScanWatch DEF Path
  <2>3. y = z
    <3>1. (IF IsVersal THEN add_pdi_accel(list, a, a, s) ELSE m) = m
      BY <2>1 DEF add_pdi_accel
    <3>2. y = [x EXCEPT !.t = new, !.range = n]
      <4> HIDE DEF m, list, n
      <4> QED
        BY <1>1, <1>3, <2>1, <2>2, <3>1 DEF ScanSlotDir, SlotHasFile, m, list, n
    <3> HIDE DEF new, n, y
    <3> QED
      BY <1>1, <3>2, ScanRecord
  <2>4. x.range \in Nat /\ SlotIndex[s] \in Nat
    BY <1>1, TreeAssumption DEF ScanSound
  <2>5. n \in Nat /\ x.range <= n /\ SlotIndex[s] + 1 <= n
    BY <2>4, MaxFacts
  <2>6. v.t = w.t /\ v.range = x.range /\ v.stop = x.stop
    OBVIOUS
  <2> HIDE DEF n, w, y
  <2>7. /\ ScanOf(z, i, p, bases) /\ Later(v, z, i, p) /\ z.range = n
        /\ PackagesFit => a \in Paths(z.t.bases[i].accel_list)
    <3> HIDE DEF v
    <3>1. v.range <= n
      BY <2>5, <2>6
    <3> QED
      BY <2>1, <2>2, <2>5, <2>6, <3>1, ScanEnter
  <2>8. ScanSound(v) /\ ScanSound(z)
    BY <2>2, <2>7 DEF ScanOf
  <2> HIDE DEF v, z
  <2>9. Later(x, z, i, p)
    BY <1>1, <2>2, <2>7, <2>8, LaterLater
  <2>10. Visited(z, i, p, s)
    BY <2>1, <2>4, <2>5, <2>7 DEF Visited, RowOf
  <2> QED
    BY <2>3, <2>7, <2>9, <2>10 DEF y
<1> QED
  BY <1>2, <1>3

LEMMA Climb ==
    ASSUME NEW N \in Nat, NEW G, 0 \in G, \A k \in 1 .. N : k - 1 \in G => k \in G
    PROVE  N \in G
<1> DEFINE Bad == {k \in 0 .. N : k \notin G}
<1> SUFFICES ASSUME Bad # {}
             PROVE  FALSE
  BY DEF Bad
<1>1. PICK k \in Bad : \A m \in Bad : k <= m
  <2>1. Bad \subseteq Nat
    OBVIOUS
  <2> HIDE DEF Bad
  <2> QED
    BY <2>1, Least
<1>2. k \in 0 .. N /\ k \notin G /\ k # 0
  OBVIOUS
<1>3. k \in 1 .. N /\ k - 1 \in 0 .. N /\ ~(k <= k - 1)
  BY <1>2
<1>4. k - 1 \in G
  BY <1>1, <1>3
<1> QED
  BY <1>2, <1>3, <1>4

\* The stages of the scan of an accelerator directory.
SlotSteps(i, a, first) == CHOOSE f : SlotScan(i, a, first, f)

LEMMA SlotStages ==
    ASSUME NEW i, NEW a \in Dirs, NEW first
    PROVE  LET acc == SlotSteps(i, a, first)
           IN  /\ acc[0] = first
               /\ ScanSlotDirs(i, a, first) = acc[Len(Children[a])]
               /\ \A k \in 1 .. Len(Children[a]) :
                     acc[k] = ScanSlotDir(i, a, acc[k - 1], Children[a][k])
<1> DEFINE acc[k \in 0 .. Len(Children[a])] ==
             IF k = 0 THEN first ELSE ScanSlotDir(i, a, acc[k - 1], Children[a][k])
           N == Len(Children[a])
<1>1. acc = SlotSteps(i, a, first)
  BY DEF SlotScan, SlotSteps
<1>2. SlotScan(i, a, first, SlotSteps(i, a, first))
  BY SlotScanExists DEF SlotSteps
<1>3. ScanSlotDirs(i, a, first) = acc[N]
  BY DEF ScanSlotDirs
<1> HIDE DEF acc
<1>4. N \in Nat
  BY TreeAssumption
<1>5. /\ acc[0] = first
      /\ \A k \in 1 .. N : acc[k] = ScanSlotDir(i, a, acc[k - 1], Children[a][k])
  <2> DEFINE s(k) == IF k = 0 THEN first ELSE ScanSlotDir(i, a, acc[k - 1], Children[a][k])
  <2>1. acc = [k \in 0 .. N |-> s(k)]
    BY <1>1, <1>2, Zenon DEF SlotScan
  <2> HIDE DEF s, N
  <2>2. \A k \in 0 .. N : acc[k] = s(k)
    BY <2>1
  <2>3. 0 \in 0 .. N /\ \A k \in 1 .. N : k \in 0 .. N /\ k # 0
    BY <1>4
  <2> QED
    BY <2>2, <2>3 DEF s
<1> QED
  BY <1>1, <1>3, <1>5

\* The same for a base directory.
SubSteps(i, pname, d, first) == CHOOSE f : SubScan(i, pname, d, first, f)

LEMMA SubStages ==
    ASSUME NEW i, NEW pname, NEW d \in Dirs, NEW first
    PROVE  LET acc == SubSteps(i, pname, d, first)
           IN  /\ acc[0] = first
               /\ ScanSubdirs(i, pname, d, first) = acc[Len(Children[d])]
               /\ \A k \in 1 .. Len(Children[d]) :
                     acc[k] = ScanSubdir(i, pname, d, acc[k - 1], Children[d][k])
<1> DEFINE acc[k \in 0 .. Len(Children[d])] ==
             IF k = 0 THEN first ELSE ScanSubdir(i, pname, d, acc[k - 1], Children[d][k])
           N == Len(Children[d])
<1>1. acc = SubSteps(i, pname, d, first)
  BY DEF SubScan, SubSteps
<1>2. SubScan(i, pname, d, first, SubSteps(i, pname, d, first))
  BY SubScanExists DEF SubSteps
<1>3. ScanSubdirs(i, pname, d, first) = acc[N]
  BY DEF ScanSubdirs
<1> HIDE DEF acc
<1>4. N \in Nat
  BY TreeAssumption
<1>5. /\ acc[0] = first
      /\ \A k \in 1 .. N :
            acc[k] = ScanSubdir(i, pname, d, acc[k - 1], Children[d][k])
  <2> DEFINE s(k) == IF k = 0 THEN first
                     ELSE ScanSubdir(i, pname, d, acc[k - 1], Children[d][k])
  <2>1. acc = [k \in 0 .. N |-> s(k)]
    BY <1>1, <1>2, Zenon DEF SubScan
  <2> HIDE DEF s, N
  <2>2. \A k \in 0 .. N : acc[k] = s(k)
    BY <2>1
  <2>3. 0 \in 0 .. N /\ \A k \in 1 .. N : k \in 0 .. N /\ k # 0
    BY <1>4
  <2> QED
    BY <2>2, <2>3 DEF s
<1> QED
  BY <1>1, <1>3, <1>5

LEMMA ScanSlotsOf ==
    ASSUME OnDisk, DiskWhole, Room, NEW i \in Table, NEW p, Scanned(p), NEW bases,
           NEW first, ScanOf(first, i, p, bases), NEW a \in Inside(p)
    PROVE  LET y == ScanSlotDirs(i, a, first)
           IN  /\ ScanOf(y, i, p, bases) /\ Later(first, y, i, p)
               /\ \A s \in fs : Parent(s) = a => Visited(y, i, p, s)
<1> DEFINE N == Len(Children[a])
<1>1. a \in Dirs /\ a \in Places /\ N \in Nat /\ DOMAIN Children[a] = 1 .. N
      /\ ScanSound(first)
  <2>1. site \in Sites /\ ScanSound(first)
    BY DEF OnDisk, ScanOf
  <2>2. a \in Dirs /\ a \in Places
    BY <2>1, SiteFacts DEF Inside, Places
  <2>3. Children[a] \in Seq(Dirs)
    BY <2>2, TreeAssumption
  <2> QED
    BY <2>1, <2>2, <2>3
<1> DEFINE acc == SlotSteps(i, a, first)
<1>2. /\ acc[0] = first /\ ScanSlotDirs(i, a, first) = acc[N]
      /\ \A k \in 1 .. N : acc[k] = ScanSlotDir(i, a, acc[k - 1], Children[a][k])
  BY <1>1, SlotStages
<1> HIDE DEF acc
<1> DEFINE Stage(k) ==
             /\ ScanOf(acc[k], i, p, bases) /\ Later(first, acc[k], i, p)
             /\ \A l \in 1 .. k : Children[a][l] \in fs =>
                   Visited(acc[k], i, p, Children[a][l])
           G == {k \in 0 .. N : Stage(k)}
<1>3. 0 \in G
  BY <1>1, <1>2, LaterSame
<1>4. ASSUME NEW k \in 1 .. N, k - 1 \in G
      PROVE  k \in G
  <2> DEFINE s == Children[a][k]
             x == acc[k - 1]
             y == acc[k]
  <2>1. Stage(k - 1)
    BY <1>4
  <2>2. s \in Dirs /\ Parent(s) = a
    BY <1>1, ChildFacts
  <2>3. y = ScanSlotDir(i, a, x, s)
    BY <1>2
  <2>4. ScanOf(x, i, p, bases) /\ Later(first, x, i, p)
    BY <2>1
  <2> HIDE DEF x, y, s
  <2>5. /\ ScanOf(y, i, p, bases) /\ Later(x, y, i, p)
        /\ s \in fs => Visited(y, i, p, s)
    BY <2>2, <2>3, <2>4, ScanSlotOf
  <2>6. ScanSound(x) /\ ScanSound(y)
    BY <2>4, <2>5 DEF ScanOf
  <2>7. Later(first, y, i, p)
    BY <1>1, <2>4, <2>5, <2>6, LaterLater
  <2>8. ASSUME NEW l \in 1 .. k, Children[a][l] \in fs
        PROVE  Visited(y, i, p, Children[a][l])
    <3>1. CASE l = k
      BY <2>5, <2>8, <3>1 DEF s
    <3>2. CASE l # k
      <4>1. l \in 1 .. (k - 1) /\ l \in 1 .. N
        BY <1>1, <3>2
      <4>2. Visited(x, i, p, Children[a][l]) /\ Children[a][l] \in Dirs
        BY <1>1, <2>1, <2>8, <4>1, ChildFacts DEF x
      <4> QED
        BY <2>5, <2>6, <4>2, VisitedLater
    <3> QED
      BY <3>1, <3>2
  <2>9. Stage(k)
    BY <2>5, <2>7, <2>8 DEF y
  <2> HIDE DEF Stage
  <2> QED
    BY <1>1, <2>9
<1>5. N \in G
  <2> HIDE DEF G
  <2> QED
    BY <1>1, <1>3, <1>4, Climb
<1>6. Stage(N)
  BY <1>5
<1>7. ASSUME NEW s \in fs, Parent(s) = a
      PROVE  Visited(acc[N], i, p, s)
  <2>1. s \in Dirs
    BY SiteFacts DEF OnDisk
  <2>2. PICK k \in 1 .. N : Children[a][k] = s
    BY <1>1, <1>7, <2>1, TreeFacts
  <2> QED
    BY <1>6, <1>7, <2>2
<1> QED
  BY <1>2, <1>6, <1>7

\* The scan has been in subdirectory c of the base and in what it holds.
VisitedBelow(x, i, p, c) ==
    \A s \in fs : Parent(s) = c \/ (s = c /\ Kind[c] = "rpuslot") => Visited(x, i, p, s)

LEMMA WholeParent ==
    ASSUME OnDisk, DiskWhole, NEW s \in fs, Parent(s) # Root
    PROVE  Parent(s) \in fs
<1>1. s \in Dirs /\ s \in site.dirs /\ Home(s) \in fs /\ site \in Sites
  BY WholeFiles DEF OnDisk
<1>2. Parent(s) \in site.dirs
  BY <1>1, SiteAssumption
<1>3. Home(Parent(s)) = Home(s)
  BY <1>1, HomeFacts
<1> QED
  BY <1>1, <1>2, <1>3 DEF DiskWhole

LEMMA ScanAccelOf ==
    ASSUME OnDisk, DiskWhole, Room, NEW i \in Table, NEW p, Scanned(p), NEW bases, NEW x,
           ScanOf(x, i, p, bases), NEW pname \in Path, NEW a \in Dirs, Parent(a) = p,
           Kind[a] = "accel"
    PROVE  LET y == ScanAccelDir(i, pname, p, x, a)
           IN  /\ ScanOf(y, i, p, bases) /\ Later(x, y, i, p) /\ VisitedBelow(y, i, p, a)
<1> DEFINE y == ScanAccelDir(i, pname, p, x, a)
<1>1. ~x.stop /\ ScanSound(x) /\ site \in Sites /\ p \in Dirs /\ p # Root /\ a # Root
  <2>1. ~x.stop /\ ScanSound(x) /\ site \in Sites /\ p \in site.dirs
    BY DEF ScanOf, OnDisk, Scanned, Top
  <2> QED
    BY <2>1, SiteFacts, TreeAssumption
<1>2. CASE a \notin fs
  <2>1. y = x
    BY <1>1, <1>2 DEF ScanAccelDir
  <2>2. VisitedBelow(x, i, p, a)
    BY <1>1, <1>2, WholeParent DEF VisitedBelow
  <2> HIDE DEF y
  <2> QED
    BY <1>1, <2>1, <2>2, LaterSame DEF y
<1>3. CASE a \in fs
  <2> DEFINE w == add_dir_watch(x.t, a, pname, p)
             v == [t |-> w.t, range |-> x.range, stop |-> x.stop]
  <2>1. w.ok /\ ScanOf(v, i, p, bases) /\ Later(x, v, i, p)
    <3>1. p \in Path /\ Parent(a) # Root
      BY <1>1 DEF Path
    <3> QED
      BY <1>3, <3>1, ScanWatch
  <2>2. y = ScanSlotDirs(i, a, v)
    <3>1. [x EXCEPT !.t = w.t] = v
      BY <1>1, ScanRecord
    <3> HIDE DEF v
    <3> QED
      BY <1>1, <1>3, <2>1, <3>1 DEF ScanAccelDir
  <2>3. a \in Inside(p)
    BY <1>3 DEF OnDisk, Inside
  <2> HIDE DEF v, w, y
  <2>4. /\ ScanOf(y, i, p, bases) /\ Later(v, y, i, p)
        /\ \A s \in fs : Parent(s) = a => Visited(y, i, p, s)
    BY <2>1, <2>2, <2>3, ScanSlotsOf
  <2>5. ScanSound(v) /\ ScanSound(y)
    BY <2>1, <2>4 DEF ScanOf
  <2>6. Later(x, y, i, p)
    BY <1>1, <2>1, <2>4, <2>5, LaterLater
  <2>7. VisitedBelow(y, i, p, a)
    BY <2>4 DEF VisitedBelow
  <2> QED
    BY <2>4, <2>6, <2>7 DEF y
<1> QED
  BY <1>2, <1>3

LEMMA ScanRpuOf ==
    ASSUME OnDisk, DiskWhole, Room, NEW i \in Table, NEW p, Scanned(p), NEW bases, NEW x,
           ScanOf(x, i, p, bases), NEW pname \in Path, NEW c \in Dirs, Parent(c) = p,
           Kind[c] = "rpuslot"
    PROVE  LET y == parse_rpu_slot_dir(i, pname, p, x, c)
           IN  /\ ScanOf(y, i, p, bases) /\ Later(x, y, i, p) /\ VisitedBelow(y, i, p, c)
<1> DEFINE y == parse_rpu_slot_dir(i, pname, p, x, c)
<1>1. ~x.stop /\ ScanSound(x) /\ site \in Sites /\ p \in Dirs /\ p # Root /\ c # Root
  <2>1. ~x.stop /\ ScanSound(x) /\ site \in Sites /\ p \in site.dirs
    BY DEF ScanOf, OnDisk, Scanned, Top
  <2> QED
    BY <2>1, SiteFacts, TreeAssumption
<1>2. \A s \in Dirs : Parent(s) # c
  <2> SUFFICES ASSUME NEW s \in Dirs, Parent(s) = c
               PROVE  FALSE
    OBVIOUS
  <2>1. <<Kind[c], Kind[s]>> \in
           {<<"base", "accel">>, <<"accel", "slot">>, <<"rpu", "rpuslot">>}
    BY <1>1, KindFacts
  <2> QED
    BY <2>1
<1>3. fs \subseteq Dirs
  BY <1>1, SiteFacts DEF OnDisk
<1>4. CASE c \notin fs
  <2>1. y = x
    BY <1>4 DEF parse_rpu_slot_dir
  <2>2. VisitedBelow(x, i, p, c)
    BY <1>2, <1>3, <1>4 DEF VisitedBelow
  <2> HIDE DEF y
  <2> QED
    BY <1>1, <2>1, <2>2, LaterSame DEF y
<1>5. CASE c \in fs
  <2> DEFINE w == add_dir_watch(x.t, c, pname, p)
             v == [t |-> w.t, range |-> x.range, stop |-> x.stop]
             m == add_accel_to_base(w.t.bases[i].accel_list, c, c)
             new == [w.t EXCEPT !.bases[i].accel_list = m]
             z == [t |-> new, range |-> x.range, stop |-> x.stop]
  <2>1. w.ok /\ ScanOf(v, i, p, bases) /\ Later(x, v, i, p)
    <3>1. p \in Path /\ Parent(c) # Root
      BY <1>1 DEF Path
    <3> QED
      BY <1>5, <3>1, ScanWatch
  <2>2. file[c] = "full" /\ Home(c) \in fs /\ c \in site.dirs
    BY <1>5, WholeFiles
  <2>3. Home(c) = p /\ Top(p)
    BY <1>1 DEF Home, Scanned, Top
  <2>4. c \in Want(p)
    <3>1. <<Kind[p], Kind[c]>> \in
           {<<"base", "accel">>, <<"accel", "slot">>, <<"rpu", "rpuslot">>}
      BY <1>1, KindFacts
    <3>2. Kind[p] = "rpu"
      BY <3>1
    <3> QED
      BY <2>2, <3>2 DEF Want, Inside
  <2>5. y = z
    <3>1. y = [x EXCEPT !.t = new]
      BY <1>5, <2>2 DEF parse_rpu_slot_dir
    <3> HIDE DEF new, y
    <3> QED
      BY <1>1, <3>1, ScanRecord
  <2>6. v.t = w.t /\ v.range = x.range /\ v.stop = x.stop
    OBVIOUS
  <2>7. x.range \in Nat /\ x.range <= x.range /\ (Accels(p) = {} => x.range = 0)
    BY <1>1 DEF ScanSound, ScanOf
  <2> HIDE DEF w, y
  <2>8. /\ ScanOf(z, i, p, bases) /\ Later(v, z, i, p) /\ z.range = x.range
        /\ PackagesFit => c \in Paths(z.t.bases[i].accel_list)
    <3> HIDE DEF v
    <3>1. v.range <= x.range
      BY <2>6, <2>7
    <3> QED
      BY <2>1, <2>2, <2>3, <2>4, <2>6, <2>7, <3>1, ScanEnter
  <2>9. ScanSound(v) /\ ScanSound(z)
    BY <2>1, <2>8 DEF ScanOf
  <2> HIDE DEF v, z
  <2>10. Later(x, z, i, p)
    BY <1>1, <2>1, <2>8, <2>9, LaterLater
  <2>11. Visited(z, i, p, c)
    BY <2>4, <2>8 DEF Visited, RowOf
  <2>12. VisitedBelow(z, i, p, c)
    BY <1>2, <1>3, <2>11 DEF VisitedBelow
  <2> QED
    BY <2>5, <2>8, <2>10, <2>12 DEF y
<1> QED
  BY <1>4, <1>5

LEMMA ScanSubdirOf ==
    ASSUME OnDisk, DiskWhole, Room, NEW i \in Table, NEW p, Scanned(p), NEW bases, NEW x,
           ScanOf(x, i, p, bases), NEW pname \in Path, NEW c \in Dirs, Parent(c) = p
    PROVE  LET y == ScanSubdir(i, pname, p, x, c)
           IN  /\ ScanOf(y, i, p, bases) /\ Later(x, y, i, p) /\ VisitedBelow(y, i, p, c)
<1>1. p \in Dirs /\ p # Root /\ Parent(p) = Root
  <2>1. site \in Sites /\ p \in site.dirs /\ Parent(p) = Root
    BY DEF OnDisk, Scanned, Top
  <2> QED
    BY <2>1, SiteFacts, TreeAssumption
<1>2. <<Kind[p], Kind[c]>> \in
         {<<"base", "accel">>, <<"accel", "slot">>, <<"rpu", "rpuslot">>}
  BY <1>1, KindFacts
<1>3. Kind[p] \in {"base", "rpu"}
  BY <1>1, KindFacts
<1>4. Kind[c] = "accel" \/ Kind[c] = "rpuslot"
  BY <1>2, <1>3
<1>5. CASE Kind[c] = "accel"
  BY <1>5, ScanAccelOf DEF ScanSubdir
<1>6. CASE Kind[c] = "rpuslot"
  BY <1>6, ScanRpuOf DEF ScanSubdir
<1> QED
  BY <1>4, <1>5, <1>6

LEMMA BelowLater ==
    ASSUME OnDisk, NEW x, NEW y, NEW i, NEW p, NEW c, ScanSound(x), ScanSound(y),
           Later(x, y, i, p), VisitedBelow(x, i, p, c)
    PROVE  VisitedBelow(y, i, p, c)
<1>1. fs \subseteq Dirs
  BY SiteFacts DEF OnDisk
<1> QED
  BY <1>1, VisitedLater DEF VisitedBelow

LEMMA ScanSubdirsOf ==
    ASSUME OnDisk, DiskWhole, Room, NEW i \in Table, NEW p, Scanned(p), NEW bases,
           NEW first, ScanOf(first, i, p, bases), NEW pname \in Path
    PROVE  LET y == ScanSubdirs(i, pname, p, first)
           IN  /\ ScanOf(y, i, p, bases)
               /\ \A c \in Dirs : Parent(c) = p => VisitedBelow(y, i, p, c)
<1> DEFINE N == Len(Children[p])
           acc == SubSteps(i, pname, p, first)
<1>1. p \in Dirs /\ p \in Places /\ N \in Nat /\ DOMAIN Children[p] = 1 .. N
      /\ ScanSound(first)
  <2>1. site \in Sites /\ ScanSound(first) /\ p \in site.dirs
    BY DEF OnDisk, ScanOf, Scanned, Top
  <2>2. p \in Dirs /\ p \in Places
    BY <2>1, SiteFacts DEF Places
  <2>3. Children[p] \in Seq(Dirs)
    BY <2>2, TreeAssumption
  <2> QED
    BY <2>1, <2>2, <2>3
<1>2. /\ acc[0] = first /\ ScanSubdirs(i, pname, p, first) = acc[N]
      /\ \A k \in 1 .. N : acc[k] = ScanSubdir(i, pname, p, acc[k - 1], Children[p][k])
  BY <1>1, SubStages
<1> HIDE DEF acc
<1> DEFINE Stage(k) ==
             /\ ScanOf(acc[k], i, p, bases)
             /\ \A l \in 1 .. k : VisitedBelow(acc[k], i, p, Children[p][l])
           G == {k \in 0 .. N : Stage(k)}
<1>3. 0 \in G
  BY <1>1, <1>2
<1>4. ASSUME NEW k \in 1 .. N, k - 1 \in G
      PROVE  k \in G
  <2> DEFINE c == Children[p][k]
             x == acc[k - 1]
             y == acc[k]
  <2>1. Stage(k - 1)
    BY <1>4
  <2>2. c \in Dirs /\ Parent(c) = p
    BY <1>1, ChildFacts
  <2>3. y = ScanSubdir(i, pname, p, x, c)
    BY <1>2
  <2>4. ScanOf(x, i, p, bases)
    BY <2>1
  <2> HIDE DEF x, y, c
  <2>5. ScanOf(y, i, p, bases) /\ Later(x, y, i, p) /\ VisitedBelow(y, i, p, c)
    BY <2>2, <2>3, <2>4, ScanSubdirOf
  <2>6. ScanSound(x) /\ ScanSound(y)
    BY <2>4, <2>5 DEF ScanOf
  <2>8. ASSUME NEW l \in 1 .. k
        PROVE  VisitedBelow(y, i, p, Children[p][l])
    <3>1. CASE l = k
      BY <2>5, <3>1 DEF c
    <3>2. CASE l # k
      <4>1. l \in 1 .. (k - 1)
        BY <1>1, <3>2
      <4>2. VisitedBelow(x, i, p, Children[p][l])
        BY <2>1, <4>1 DEF x
      <4> QED
        BY <2>5, <2>6, <4>2, BelowLater
    <3> QED
      BY <3>1, <3>2
  <2>9. Stage(k)
    BY <2>5, <2>8 DEF y
  <2> HIDE DEF Stage
  <2> QED
    BY <1>1, <2>9
<1>5. N \in G
  <2> HIDE DEF G
  <2> QED
    BY <1>1, <1>3, <1>4, Climb
<1>6. Stage(N)
  BY <1>5
<1>7. ASSUME NEW c \in Dirs, Parent(c) = p
      PROVE  VisitedBelow(acc[N], i, p, c)
  <2>2. PICK k \in 1 .. N : Children[p][k] = c
    BY <1>1, <1>7, TreeFacts
  <2> QED
    BY <1>6, <2>2
<1> QED
  BY <1>2, <1>6, <1>7

-----------------------------------------------------------------------------
(* Registering a package.                                                  *)

LEMMA FullScan ==
    ASSUME OnDisk, DiskWhole, Room, NEW t, Sound(t), WatchRows(t), NEW i \in Table, NEW p,
           Scanned(p), ListOf(t.bases[i].accel_list, Want(p)), NEW pname \in Path
    PROVE  LET end == ScanSubdirs(i, pname, p, [t |-> t, range |-> 0, stop |-> FALSE])
               found == IF Kind[p] = "rpu" THEN Inside(p) ELSE Accels(p)
           IN  /\ ScanOf(end, i, p, t.bases)
               /\ p \in fs =>
                    /\ \A a \in Inside(p) : \A s \in Inside(a) : SlotIndex[s] < end.range
                    /\ PackagesFit => found \subseteq Paths(end.t.bases[i].accel_list)
<1> DEFINE first == [t |-> t, range |-> 0, stop |-> FALSE]
           end == ScanSubdirs(i, pname, p, first)
           found == IF Kind[p] = "rpu" THEN Inside(p) ELSE Accels(p)
<1>1. ScanOf(first, i, p, t.bases)
  <2>1. ScanSound(first) /\ ~first.stop /\ first.t = t /\ first.range = 0
    BY DEF ScanSound
  <2>2. t.bases[i] \in Base
    BY DEF Sound, Tables, BaseSet
  <2>3. t.bases[i] = [t.bases[i] EXCEPT !.accel_list = t.bases[i].accel_list]
    BY <2>2 DEF Base
  <2> HIDE DEF first
  <2> QED
    BY <2>1, <2>3 DEF ScanOf
<1> HIDE DEF first
<1>2. /\ ScanOf(end, i, p, t.bases)
      /\ \A c \in Dirs : Parent(c) = p => VisitedBelow(end, i, p, c)
  BY <1>1, ScanSubdirsOf
<1> HIDE DEF end
<1>3. site \in Sites /\ p \in Dirs /\ Parent(p) = Root /\ Top(p) /\ p # Root
  <2>1. site \in Sites /\ p \in site.dirs /\ Parent(p) = Root /\ Top(p)
    BY DEF OnDisk, Scanned, Top
  <2> QED
    BY <2>1, SiteFacts, TreeAssumption
<1>4. ASSUME p \in fs, NEW a \in Inside(p), NEW s \in Inside(a)
      PROVE  SlotIndex[s] < end.range /\ Visited(end, i, p, s) /\ RowOf(s) = a
  <2>1. s \in site.dirs /\ a \in site.dirs /\ s \in Dirs /\ a \in Dirs
        /\ Parent(s) = a /\ Parent(a) = p
    BY <1>3, SiteFacts DEF Inside
  <2>2. Kind[s] = "slot" /\ Home(s) = p
    BY <1>3, <2>1, SlotFacts
  <2>3. s \in fs
    BY <1>4, <2>1, <2>2 DEF DiskWhole
  <2>4. Visited(end, i, p, s)
    BY <1>2, <2>1, <2>3 DEF VisitedBelow
  <2> QED
    BY <2>1, <2>2, <2>4 DEF Visited, RowOf
<1>5. ASSUME p \in fs, PackagesFit, NEW q \in found
      PROVE  q \in Paths(end.t.bases[i].accel_list)
  <2>1. CASE Kind[p] = "rpu"
    <3>1. q \in Dirs /\ q \in site.dirs /\ Parent(q) = p
      BY <1>3, <1>5, <2>1, SiteFacts DEF Inside
    <3>2. <<Kind[p], Kind[q]>> \in
             {<<"base", "accel">>, <<"accel", "slot">>, <<"rpu", "rpuslot">>}
      BY <1>3, <3>1, KindFacts
    <3>3. Kind[q] = "rpuslot" /\ Home(q) = p
      BY <1>3, <2>1, <3>1, <3>2 DEF Home
    <3>4. q \in fs
      BY <1>5, <3>1, <3>3 DEF DiskWhole
    <3>5. Visited(end, i, p, q)
      BY <1>2, <3>1, <3>3, <3>4 DEF VisitedBelow
    <3> QED
      BY <1>5, <3>3, <3>5 DEF Visited, RowOf
  <2>2. CASE Kind[p] # "rpu"
    <3>1. q \in Inside(p) /\ Inside(q) # {}
      BY <1>5, <2>2 DEF Accels
    <3>2. PICK s \in Inside(q) : TRUE
      BY <3>1
    <3>3. Visited(end, i, p, s) /\ RowOf(s) = q
      BY <1>4, <1>5, <3>1
    <3> QED
      BY <1>5, <3>3 DEF Visited
  <2> QED
    BY <2>1, <2>2
<1> QED
  <2> HIDE DEF found
  <2>1. /\ ScanOf(end, i, p, t.bases)
        /\ p \in fs =>
             /\ \A a \in Inside(p) : \A s \in Inside(a) : SlotIndex[s] < end.range
             /\ PackagesFit => found \subseteq Paths(end.t.bases[i].accel_list)
    BY <1>2, <1>4, <1>5
  <2> QED
    BY <2>1, Zenon DEF first, end, found

\* A base gets its type and its number of slots.
Typed(b, type, n) == [b EXCEPT !.type = type, !.num_pl_slots = n]

BaseTypes == {"", "FLAT", "PL_DFX", "RPU"}
NoType == ""

LEMMA BaseTypeFacts ==
    /\ NoType \in BaseTypes /\ NoType # "FLAT" /\ NoType # "RPU"
    /\ "FLAT" \in BaseTypes /\ "PL_DFX" \in BaseTypes /\ "RPU" \in BaseTypes
BY DEF BaseTypes, NoType

LEMMA TypedFields ==
    ASSUME NEW b \in BaseSet, NEW type \in BaseTypes, NEW n \in Nat
    PROVE  /\ Typed(b, type, n) \in BaseSet /\ Typed(b, type, n).path = b.path
           /\ Typed(b, type, n).type = type /\ Typed(b, type, n).num_pl_slots = n
           /\ Typed(b, type, n).accel_list = b.accel_list
<1> DEFINE c == [b EXCEPT !.type = type]
<1>1. c \in BaseSet /\ c.path = b.path /\ c.type = type /\ c.accel_list = b.accel_list
  BY DEF BaseSet, Base, BaseTypes
<1>2. Typed(b, type, n) = [c EXCEPT !.num_pl_slots = n]
  BY DEF Typed
<1> HIDE DEF c
<1> QED
  BY <1>1, <1>2 DEF BaseSet, Base

\* The accelerator of a flat base is entered first, and is alone.
LEMMA FlatListed ==
    ASSUME NEW b \in BaseSet, b.path \in Dirs, ListOf(b.accel_list, {b.path})
    PROVE  LET c == register_flat_accel(b)
           IN  /\ c.path = b.path /\ c.num_pl_slots = b.num_pl_slots
               /\ ListOf(c.accel_list, {b.path})
               /\ RP_SLOTS_MAX > 0 => b.path \in Paths(c.accel_list)
<1> DEFINE l == b.accel_list
           m == EnterAt(l, 1, b.path)
<1>1. l \in Lists /\ b.path \in Path /\ b.path # NULL /\ AccelIdx \subseteq Nat
  BY AccelIdxFacts, TreeAssumption DEF BaseSet, Base, Lists
<1>2. register_flat_accel(b) = [b EXCEPT !.accel_list = m]
  BY DEF register_flat_accel, BaseSet, Base, EnterAt
<1>3. ListOf(m, {b.path}) /\ (RP_SLOTS_MAX > 0 => b.path \in Paths(m))
  <2>1. CASE 1 \in AccelIdx
    <3>1. /\ m[1].path = b.path /\ m[1].name = b.path
          /\ \A k \in AccelIdx : k # 1 => m[k] = l[k]
      BY <1>1, <2>1, EnteredAt
    <3>2. \A k \in AccelIdx : k # 1 => l[k].path = NULL
      <4> SUFFICES ASSUME NEW k \in AccelIdx, k # 1, l[k].path # NULL
                   PROVE  FALSE
        OBVIOUS
      <4>1. 1 < k
        BY TreeAssumption DEF AccelIdx
      <4> QED
        BY <2>1, <4>1 DEF ListOf
    <3> HIDE DEF m, l
    <3>3. ListOf(m, {b.path})
      <4>1. \A k \in AccelIdx : m[k].path # NULL => k = 1
        BY <3>1, <3>2
      <4>2. \A j, k \in AccelIdx : j < k => k # 1
        BY TreeAssumption DEF AccelIdx
      <4> QED
        BY <3>1, <4>1, <4>2 DEF ListOf
    <3> QED
      BY <2>1, <3>1, <3>3 DEF Paths
  <2>2. CASE 1 \notin AccelIdx
    <3>1. AccelIdx = {} /\ ~(RP_SLOTS_MAX > 0)
      BY <2>2, TreeAssumption DEF AccelIdx
    <3> QED
      BY <3>1 DEF ListOf
  <2> QED
    BY <2>1, <2>2
<1> HIDE DEF m
<1>4. /\ [b EXCEPT !.accel_list = m].path = b.path
      /\ [b EXCEPT !.accel_list = m].num_pl_slots = b.num_pl_slots
      /\ [b EXCEPT !.accel_list = m].accel_list = m
  BY DEF BaseSet, Base
<1> QED
  BY <1>2, <1>3, <1>4

LEMMA SetBaseFields ==
    ASSUME NEW t, Sound(t), NEW i \in Table, NEW b
    PROVE  LET u == [t EXCEPT !.bases[i] = b]
           IN  /\ u.watch = t.watch /\ u.wd = t.wd /\ u.next = t.next /\ u.bases[i] = b
               /\ \A k \in Table : k # i => u.bases[k] = t.bases[k]
<1> DEFINE u == [t EXCEPT !.bases[i] = b]
<1>1. t \in Tables /\ t.bases \in [Table -> BaseSet]
  BY DEF Sound, Tables
<1>2. /\ u.watch = t.watch /\ u.wd = t.wd /\ u.next = t.next
      /\ u.bases = [t.bases EXCEPT ![i] = b]
  BY <1>1 DEF Tables
<1> HIDE DEF u
<1> QED
  BY <1>1, <1>2 DEF u

LEMMA InitOf ==
    ASSUME OnDisk, DiskWhole, NEW b \in BaseSet, Top(b.path)
    PROVE  LET p == b.path
               r == init_base_design(b)
           IN  /\ Kind[p] = "rpu" => r = [ok |-> TRUE, b |-> Typed(b, "RPU", NumRpu)]
               /\ Kind[p] # "rpu" /\ p \notin fs => ~r.ok
               /\ Kind[p] # "rpu" /\ p \in fs =>
                     IF IsVersal THEN r = [ok |-> TRUE, b |-> Typed(b, NoType, 0)]
                     ELSE r = [ok |-> TRUE,
                               b |-> Typed(b, Shell[p].type, Shell[p].slots)]
<1> DEFINE p == b.path
<1>1. p \in Dirs /\ p \in site.dirs /\ Kind[p] \in {"base", "rpu"}
  BY WantFacts DEF OnDisk, Top
<1>2. Kind[p] = "rpu" =>
        init_base_design(b) = [ok |-> TRUE, b |-> Typed(b, "RPU", NumRpu)]
  BY DEF init_base_design, initBaseDesign, Typed
<1>3. ASSUME Kind[p] # "rpu", p \notin fs
      PROVE  ~init_base_design(b).ok
  <2>1. file[p] = "none"
    BY <1>1, <1>3 DEF DiskWhole
  <2>2. initBaseDesign(b) = [ok |-> FALSE, b |-> b]
    BY <1>3, <2>1 DEF initBaseDesign
  <2>3. init_base_from_pdi(b) = [ok |-> FALSE, b |-> b]
    BY <2>1 DEF init_base_from_pdi
  <2> QED
    BY <2>2, <2>3 DEF init_base_design
<1>4. ASSUME Kind[p] # "rpu", p \in fs
      PROVE  IF IsVersal THEN init_base_design(b) = [ok |-> TRUE, b |-> Typed(b, NoType, 0)]
             ELSE init_base_design(b) =
                    [ok |-> TRUE, b |-> Typed(b, Shell[p].type, Shell[p].slots)]
  <2>1. file[p] = "full"
    BY <1>1, <1>4, WholeFiles
  <2> QED
    BY <1>4, <2>1 DEF init_base_design, initBaseDesign, init_base_from_pdi, Typed,
                      NoType
<1> QED
  BY <1>2, <1>3, <1>4

\* What registering a package at entry i makes of the tables.
Registered(t, u, i, p) ==
    /\ WatchRows(u) /\ \A k \in Table : k # i => u.bases[k] = t.bases[k]
    /\ u.bases[i].path = p /\ EntryOf(u.bases[i])
    /\ p \in fs => FreshEntry(u.bases[i])
    /\ p \notin fs => u.bases[i].accel_list = t.bases[i].accel_list

\* A scan of entry i ends; the entry is left as it is, or as c.
LEMMA ScanEnds ==
    ASSUME NEW t, NEW i \in Table, NEW p, Top(p), p # NULL, NEW end,
           ScanOf(end, i, p, t.bases), t.bases[i].path = p, t.bases[i] \in BaseSet
    PROVE  /\ end.t.bases[i].path = p
           /\ end.t.bases[i].num_pl_slots = t.bases[i].num_pl_slots
           /\ end.t.bases[i].type = t.bases[i].type
           /\ EntryOf(end.t.bases[i])
<1> DEFINE l == end.t.bases[i].accel_list
<1>1. end.t.bases[i] = [t.bases[i] EXCEPT !.accel_list = l]
  BY DEF ScanOf
<1>2. ListOf(l, Want(p))
  BY DEF ScanOf
<1> HIDE DEF l
<1>3. /\ end.t.bases[i].path = p
      /\ end.t.bases[i].num_pl_slots = t.bases[i].num_pl_slots
      /\ end.t.bases[i].type = t.bases[i].type
  BY <1>1 DEF BaseSet, Base
<1> QED
  BY <1>2, <1>3 DEF EntryOf, l

LEMMA TopPath ==
    ASSUME site \in Sites, NEW p, Top(p)
    PROVE  p \in Dirs /\ p # NULL /\ p # Root /\ p \in Path
BY SiteFacts, TreeAssumption DEF Top, Path

\* parse_packages() of an entry that is not flat, on other platforms than Versal
\* or for RPU firmware.
LEMMA ParsePlain ==
    ASSUME OnDisk, DiskWhole, Room, NEW t, Sound(t), WatchRows(t), NEW i \in Table, NEW p,
           Scanned(p), t.bases[i].path = p, ListOf(t.bases[i].accel_list, Want(p)),
           NEW pname \in Path, ~IsVersal \/ Kind[p] = "rpu",
           t.bases[i].type # "FLAT", Kind[p] = "rpu" => t.bases[i].type = "RPU",
           PackagesFit => t.bases[i].num_pl_slots > 0
    PROVE  Registered(t, parse_packages(t, i, pname), i, p)
<1> DEFINE first == [t |-> t, range |-> 0, stop |-> FALSE]
           end == ScanSubdirs(i, pname, p, first)
           found == IF Kind[p] = "rpu" THEN Inside(p) ELSE Accels(p)
           u == parse_packages(t, i, pname)
<1>1. Top(p) /\ p # NULL /\ p \in Dirs /\ t.bases[i] \in BaseSet
  BY TopPath, BaseFacts DEF Scanned, OnDisk
<1>2. /\ ScanOf(end, i, p, t.bases)
      /\ p \in fs /\ PackagesFit => found \subseteq Paths(end.t.bases[i].accel_list)
  BY FullScan
<1>3. u = end.t
  BY DEF parse_packages
<1> HIDE DEF end, u
<1>4. /\ u.bases[i].path = p /\ u.bases[i].num_pl_slots = t.bases[i].num_pl_slots
      /\ EntryOf(u.bases[i])
  BY <1>1, <1>2, <1>3, ScanEnds
<1>5. Want(p) = found
  <2>1. CASE Kind[p] = "rpu"
    BY <2>1 DEF Want
  <2>2. CASE Kind[p] # "rpu"
    <3>1. Kind[p] = "base" /\ ~IsVersal
      BY <2>2, <1>1, WantFacts DEF OnDisk
    <3>2. ~Flat(p)
      BY <3>1 DEF Flat, Scanned
    <3> QED
      BY <2>2, <3>2 DEF Want
  <2> QED
    BY <2>1, <2>2
<1>6. p \in fs => FreshEntry(u.bases[i])
  BY <1>2, <1>3, <1>4, <1>5 DEF FreshEntry
<1> QED
  BY <1>2, <1>3, <1>4, <1>6 DEF Registered, ScanOf, u

\* A flat base.
LEMMA ParseFlat ==
    ASSUME OnDisk, DiskWhole, NEW t, Sound(t), WatchRows(t), NEW i \in Table, NEW p,
           Top(p), Kind[p] = "base", ~IsVersal, p \in fs, Shell[p].type = "FLAT",
           t.bases[i].path = p, ListOf(t.bases[i].accel_list, Want(p)),
           NEW pname \in Path, t.bases[i].type = "FLAT",
           PackagesFit => t.bases[i].num_pl_slots > 0
    PROVE  Registered(t, parse_packages(t, i, pname), i, p)
<1> DEFINE c == register_flat_accel(t.bases[i])
           u == [t EXCEPT !.bases[i] = c]
<1>1. Top(p) /\ p # NULL /\ p \in Dirs /\ t.bases[i] \in BaseSet
  BY TopPath, BaseFacts DEF OnDisk
<1>2. parse_packages(t, i, pname) = u
  BY DEF parse_packages
<1>3. Want(p) = {p}
  BY DEF Want, Flat
<1>4. /\ c.path = p /\ c.num_pl_slots = t.bases[i].num_pl_slots /\ ListOf(c.accel_list, {p})
      /\ RP_SLOTS_MAX > 0 => p \in Paths(c.accel_list)
  BY <1>1, <1>3, FlatListed
<1> HIDE DEF c
<1>5. /\ u.watch = t.watch /\ u.wd = t.wd /\ u.next = t.next /\ u.bases[i] = c
      /\ \A k \in Table : k # i => u.bases[k] = t.bases[k]
  BY SetBaseFields
<1> HIDE DEF u
<1>6. WatchRows(u)
  BY <1>5, SameRows
<1>7. EntryOf(c) /\ FreshEntry(c)
  <2>1. EntryOf(c)
    BY <1>1, <1>3, <1>4 DEF EntryOf
  <2>2. PackagesFit => RP_SLOTS_MAX > 0
    BY DEF PackagesFit
  <2> QED
    BY <1>3, <1>4, <2>1, <2>2 DEF FreshEntry
<1> QED
  BY <1>2, <1>4, <1>5, <1>6, <1>7 DEF Registered

\* A base on Versal is classified by what the scan found.
LEMMA ParseVersal ==
    ASSUME OnDisk, DiskWhole, Room, NEW t, Sound(t), WatchRows(t), NEW i \in Table, NEW p,
           Top(p), Kind[p] = "base", IsVersal, p \in fs, t.bases[i].path = p,
           ListOf(t.bases[i].accel_list, Want(p)), NEW pname \in Path,
           t.bases[i].type = NoType
    PROVE  Registered(t, parse_packages(t, i, pname), i, p)
<1> DEFINE first == [t |-> t, range |-> 0, stop |-> FALSE]
           end == ScanSubdirs(i, pname, p, first)
           b == end.t.bases[i]
           c == pdi_classify_base(b, end.range)
           u == [end.t EXCEPT !.bases[i] = c]
<1>1. Scanned(p) /\ p # NULL /\ p \in Dirs /\ t.bases[i] \in BaseSet
  BY TopPath, BaseFacts DEF Scanned, OnDisk
<1>2. /\ ScanOf(end, i, p, t.bases)
      /\ \A a \in Inside(p) : \A s \in Inside(a) : SlotIndex[s] < end.range
      /\ PackagesFit => Accels(p) \subseteq Paths(b.accel_list)
  BY <1>1, FullScan
<1>3. parse_packages(t, i, pname) = u
  BY BaseTypeFacts DEF parse_packages
<1> HIDE DEF end
<1>4. b.path = p /\ EntryOf(b)
  BY <1>1, <1>2, ScanEnds
<1>5. ScanSound(end) /\ Sound(end.t) /\ b \in BaseSet /\ end.range \in Nat
  BY <1>2, BaseFacts DEF ScanOf, ScanSound
<1>6. end.range = 0 <=> Accels(p) = {}
  <2>1. ASSUME end.range = 0, NEW a \in Accels(p)
        PROVE  FALSE
    <3>1. PICK s \in Inside(a) : a \in Inside(p)
      BY DEF Accels
    <3>2. s \in Dirs
      BY <1>1, SiteFacts DEF Inside, OnDisk
    <3>3. SlotIndex[s] \in Nat /\ SlotIndex[s] < 0
      BY <1>2, <2>1, <3>1, <3>2, TreeAssumption
    <3> QED
      BY <3>3
  <2> QED
    BY <1>2, <2>1 DEF ScanOf
<1>7. c.path = p /\ EntryOf(c) /\ FreshEntry(c)
  <2>1. CASE end.range > 0
    <3>1. c = Typed(b, "PL_DFX", end.range)
      BY <2>1 DEF pdi_classify_base, Typed
    <3> HIDE DEF c, b
    <3>2. c.path = b.path /\ c.num_pl_slots = end.range /\ c.accel_list = b.accel_list
      <4>1. b \in BaseSet /\ end.range \in Nat /\ "PL_DFX" \in BaseTypes
        BY <1>5, BaseTypeFacts
      <4> QED
        BY <3>1, <4>1, TypedFields
    <3>3. Want(p) = Accels(p)
      BY <1>5, <1>6, <2>1 DEF Want, Flat
    <3>4. EntryOf(c)
      BY <1>4, <3>2 DEF EntryOf
    <3> QED
      BY <1>2, <1>4, <2>1, <3>2, <3>3, <3>4 DEF FreshEntry, b
  <2>2. CASE end.range = 0
    <3> DEFINE f == Typed(b, "FLAT", 1)
    <3>1. c = register_flat_accel(f)
      BY <1>5, <2>2 DEF pdi_classify_base, Typed
    <3> HIDE DEF c, b
    <3>2. /\ f \in BaseSet /\ f.path = p /\ f.num_pl_slots = 1
          /\ f.accel_list = b.accel_list
      <4>1. b \in BaseSet /\ b.path = p /\ "FLAT" \in BaseTypes
        BY <1>4, <1>5, BaseTypeFacts
      <4> QED
        BY <4>1, TypedFields
    <3> HIDE DEF f
    <3>3. Accels(p) = {} /\ Want(p) = {p}
      BY <1>6, <2>2 DEF Want, Flat
    <3>4. ListOf(f.accel_list, {f.path})
      BY <1>1, <1>4, <3>2, <3>3 DEF EntryOf
    <3>5. /\ c.path = p /\ c.num_pl_slots = 1 /\ ListOf(c.accel_list, {p})
          /\ RP_SLOTS_MAX > 0 => p \in Paths(c.accel_list)
      BY <1>1, <3>1, <3>2, <3>4, FlatListed
    <3>6. EntryOf(c)
      BY <1>1, <3>3, <3>5 DEF EntryOf
    <3>7. PackagesFit => RP_SLOTS_MAX > 0
      BY DEF PackagesFit
    <3>8. \A a \in Inside(p) : Inside(a) = {}
      BY <3>3 DEF Accels
    <3> QED
      BY <3>3, <3>5, <3>6, <3>7, <3>8 DEF FreshEntry
  <2> QED
    BY <1>5, <2>1, <2>2
<1> HIDE DEF c, b
<1>8. /\ u.watch = end.t.watch /\ u.wd = end.t.wd /\ u.next = end.t.next /\ u.bases[i] = c
      /\ \A k \in Table : k # i => u.bases[k] = end.t.bases[k]
  BY <1>5, SetBaseFields
<1> HIDE DEF u
<1>9. WatchRows(end.t) /\ \A k \in Table : k # i => end.t.bases[k] = t.bases[k]
  BY <1>2 DEF ScanOf
<1>10. WatchRows(u)
  BY <1>8, <1>9, SameRows
<1> QED
  BY <1>3, <1>7, <1>8, <1>9, <1>10 DEF Registered

LEMMA ReloadOf ==
    ASSUME OnDisk, DiskWhole, Room, NEW t, Sound(t), WatchRows(t), NEW i \in Table, NEW p,
           Top(p), t.bases[i].path = p, EntryOf(t.bases[i]), NEW pname \in Path
    PROVE  Registered(t, Reload(t, i, pname, init_base_design(t.bases[i])), i, p)
<1> DEFINE b == t.bases[i]
           r == init_base_design(b)
           v == Reload(t, i, pname, r)
<1>1. b \in BaseSet /\ p \in Dirs /\ p # NULL /\ Kind[p] \in {"base", "rpu"}
      /\ ListOf(b.accel_list, Want(p))
  BY TopPath, BaseFacts, WantFacts DEF OnDisk, EntryOf
<1>2. ASSUME NEW type \in BaseTypes, NEW n \in Nat
      PROVE  LET u == [t EXCEPT !.bases[i] = Typed(b, type, n)]
             IN  /\ Sound(u) /\ WatchRows(u) /\ u.bases[i].path = p
                 /\ ListOf(u.bases[i].accel_list, Want(p))
                 /\ u.bases[i].type = type /\ u.bases[i].num_pl_slots = n
                 /\ \A k \in Table : k # i => u.bases[k] = t.bases[k]
                 /\ \A w : Registered(u, w, i, p) => Registered(t, w, i, p)
  <2> DEFINE c == Typed(b, type, n)
             u == [t EXCEPT !.bases[i] = c]
  <2>1. /\ c \in BaseSet /\ c.path = p /\ c.type = type /\ c.num_pl_slots = n
        /\ c.accel_list = b.accel_list
    <3> HIDE DEF b
    <3> QED
      BY <1>1, TypedFields DEF b
  <2> HIDE DEF c
  <2>2. /\ u.watch = t.watch /\ u.wd = t.wd /\ u.next = t.next /\ u.bases[i] = c
        /\ \A k \in Table : k # i => u.bases[k] = t.bases[k]
    BY SetBaseFields
  <2>3. Sound(u)
    BY <2>1, SetBase
  <2> HIDE DEF u
  <2>4. WatchRows(u)
    BY <2>2, SameRows
  <2>5. ASSUME NEW w, Registered(u, w, i, p)
        PROVE  Registered(t, w, i, p)
    BY <2>1, <2>2, <2>5 DEF Registered
  <2>6. /\ Sound(u) /\ WatchRows(u) /\ u.bases[i].path = p
        /\ ListOf(u.bases[i].accel_list, Want(p))
        /\ u.bases[i].type = type /\ u.bases[i].num_pl_slots = n
        /\ \A k \in Table : k # i => u.bases[k] = t.bases[k]
        /\ \A w : Registered(u, w, i, p) => Registered(t, w, i, p)
    BY <1>1, <2>1, <2>2, <2>3, <2>4, <2>5
  <2> QED
    BY <2>6, Zenon DEF u, c
<1>3. Shell[p].type \in BaseTypes /\ Shell[p].slots \in Nat /\ NumRpu \in Nat
  BY <1>1, TreeAssumption, BaseTypeFacts
<1>4. CASE Kind[p] = "rpu"
  <2> DEFINE u == [t EXCEPT !.bases[i] = Typed(b, "RPU", NumRpu)]
  <2>1. r = [ok |-> TRUE, b |-> Typed(b, "RPU", NumRpu)]
    BY <1>1, <1>4, InitOf
  <2>2. v = parse_packages(u, i, pname)
    BY <2>1 DEF Reload
  <2>3. /\ Sound(u) /\ WatchRows(u) /\ u.bases[i].path = p
        /\ ListOf(u.bases[i].accel_list, Want(p))
        /\ u.bases[i].type = "RPU" /\ u.bases[i].num_pl_slots = NumRpu
        /\ \A w : Registered(u, w, i, p) => Registered(t, w, i, p)
    <3> HIDE DEF b
    <3> QED
      BY <1>2, <1>3, BaseTypeFacts
  <2>4. PackagesFit => NumRpu > 0
    BY DEF PackagesFit
  <2>5. Scanned(p)
    BY <1>4 DEF Scanned
  <2> HIDE DEF u, v
  <2>6. Registered(u, v, i, p)
    BY <1>4, <2>2, <2>3, <2>4, <2>5, ParsePlain
  <2> QED
    BY <2>3, <2>6 DEF v
<1>5. CASE Kind[p] # "rpu" /\ p \notin fs
  <2>1. ~r.ok
    BY <1>1, <1>5, InitOf
  <2>2. v = t
    BY <2>1 DEF Reload
  <2> QED
    BY <1>5, <2>2 DEF Registered
<1>6. CASE Kind[p] # "rpu" /\ p \in fs /\ IsVersal
  <2> DEFINE u == [t EXCEPT !.bases[i] = Typed(b, NoType, 0)]
  <2>1. r = [ok |-> TRUE, b |-> Typed(b, NoType, 0)]
    BY <1>1, <1>6, InitOf
  <2>2. v = parse_packages(u, i, pname)
    BY <2>1 DEF Reload
  <2>3. /\ Sound(u) /\ WatchRows(u) /\ u.bases[i].path = p
        /\ ListOf(u.bases[i].accel_list, Want(p)) /\ u.bases[i].type = NoType
        /\ \A w : Registered(u, w, i, p) => Registered(t, w, i, p)
    <3> HIDE DEF b
    <3> QED
      BY <1>2, BaseTypeFacts
  <2> HIDE DEF u, v
  <2>4. Registered(u, v, i, p)
    BY <1>1, <1>6, <2>2, <2>3, ParseVersal
  <2> QED
    BY <2>3, <2>4 DEF v
<1>7. CASE Kind[p] # "rpu" /\ p \in fs /\ ~IsVersal
  <2> DEFINE u == [t EXCEPT !.bases[i] = Typed(b, Shell[p].type, Shell[p].slots)]
  <2>1. r = [ok |-> TRUE, b |-> Typed(b, Shell[p].type, Shell[p].slots)]
    BY <1>1, <1>7, InitOf
  <2>2. v = parse_packages(u, i, pname)
    BY <2>1 DEF Reload
  <2>3. /\ Sound(u) /\ WatchRows(u) /\ u.bases[i].path = p
        /\ ListOf(u.bases[i].accel_list, Want(p))
        /\ u.bases[i].type = Shell[p].type /\ u.bases[i].num_pl_slots = Shell[p].slots
        /\ \A w : Registered(u, w, i, p) => Registered(t, w, i, p)
    <3> HIDE DEF b
    <3> QED
      BY <1>2, <1>3, BaseTypeFacts
  <2>4. PackagesFit => Shell[p].slots > 0
    BY <1>1, <1>7 DEF PackagesFit, Top
  <2> HIDE DEF u, v
  <2>5. Registered(u, v, i, p)
    <3>1. CASE Shell[p].type = "FLAT"
      BY <1>1, <1>7, <2>2, <2>3, <2>4, <3>1, ParseFlat
    <3>2. CASE Shell[p].type # "FLAT"
      <4>1. Scanned(p)
        BY <3>2 DEF Scanned
      <4> QED
        BY <1>7, <2>2, <2>3, <2>4, <3>2, <4>1, ParsePlain
    <3> QED
      BY <3>1, <3>2
  <2> QED
    BY <2>3, <2>5 DEF v
<1> QED
  BY <1>4, <1>5, <1>6, <1>7

-----------------------------------------------------------------------------
(* The table of bases as a whole.                                          *)

\* What becomes of the tables when no package but one of X is taken off them.
Tidy(t, u, X) ==
    /\ WatchRows(u) /\ Entries(u)
    /\ \A q \in Tops : q \notin fs /\ Held(u, q) => Held(t, q)
    /\ \A q \in Tops \ X : q \in fs /\ Fresh(t, q) => Fresh(u, q)

LEMMA TidyTidy ==
    ASSUME NEW t, NEW u, NEW v, NEW X, Tidy(t, u, X), Tidy(u, v, X)
    PROVE  Tidy(t, v, X)
BY Zenon DEF Tidy

LEMMA TidySame ==
    ASSUME NEW t, NEW u, NEW X, WatchRows(u), Entries(t), u.bases = t.bases
    PROVE  Tidy(t, u, X)
BY DEF Tidy, Entries, Held, Fresh

\* The entry of a package is the only one that is found for it.
LEMMA FindOf ==
    ASSUME site \in Sites, NEW t, Sound(t), Entries(t), NEW d, Top(d)
    PROVE  /\ \A i \in Table : t.bases[i].path = d => findBaseDesign_path(t, d) = i
           /\ (\A i \in Table : t.bases[i].path # d) => findBaseDesign_path(t, d) = 0
<1>1. d \in Dirs /\ d # NULL /\ d # Root /\ Parent(d) = Root
  BY TopPath DEF Top
<1>2. ASSUME NEW k \in Table, t.bases[k].path # NULL, t.bases[k].path # d,
             NEW j \in AccelIdx, t.bases[k].accel_list[j].path = d
      PROVE  FALSE
  <2> DEFINE q == t.bases[k].path
  <2>1. Top(q) /\ d \in Want(q)
    BY <1>1, <1>2 DEF Entries, EntryOf, ListOf
  <2>2. q # Root
    BY <2>1, TopPath
  <2>3. d \in Inside(q) \/ d = q
    BY <2>1 DEF Want, Accels
  <2> QED
    BY <1>1, <1>2, <2>2, <2>3 DEF Inside
<1>3. \A k \in Table : k \in Matching(t, d) <=> t.bases[k].path = d
  BY <1>1, <1>2 DEF Matching
<1>4. Matching(t, d) \subseteq Table
  BY DEF Matching
<1>5. ASSUME NEW i \in Table, t.bases[i].path = d
      PROVE  findBaseDesign_path(t, d) = i
  <2>1. Matching(t, d) = {i}
    BY <1>1, <1>3, <1>4, <1>5 DEF Entries
  <2>2. Lowest({i}) = i
    BY LowestRow
  <2> QED
    BY <2>1, <2>2 DEF findBaseDesign_path
<1>6. ASSUME \A i \in Table : t.bases[i].path # d
      PROVE  findBaseDesign_path(t, d) = 0
  <2>1. Matching(t, d) = {}
    BY <1>3, <1>4, <1>6
  <2> QED
    BY <2>1 DEF findBaseDesign_path
<1> QED
  BY <1>5, <1>6

\* Registering a package at its entry.
LEMMA RegisteredTidy ==
    ASSUME NEW t, NEW u, NEW i \in Table, NEW p, Entries(t), Registered(t, u, i, p),
           p # NULL, t.bases[i].path = p
    PROVE  Tidy(t, u, {}) /\ (p \in fs => Fresh(u, p))
<1>1. Entries(u)
  <2>1. \A k \in Table : EntryOf(u.bases[k]) /\ u.bases[k].path = t.bases[k].path
    BY DEF Entries, Registered
  <2> QED
    BY <2>1 DEF Entries
<1>2. ASSUME NEW q \in Tops, q \notin fs, Held(u, q)
      PROVE  Held(t, q)
  <2>1. PICK k \in Table : u.bases[k].path = q
                           /\ \E j \in AccelIdx : u.bases[k].accel_list[j].path # NULL
    BY <1>2 DEF Held
  <2>2. CASE k = i
    BY <1>2, <2>1, <2>2 DEF Held, Registered
  <2>3. CASE k # i
    BY <2>1, <2>3 DEF Held, Registered
  <2> QED
    BY <2>2, <2>3
<1>3. ASSUME NEW q \in Tops, q \in fs, Fresh(t, q)
      PROVE  Fresh(u, q)
  <2>1. PICK k \in Table : t.bases[k].path = q /\ FreshEntry(t.bases[k])
    BY <1>3 DEF Fresh
  <2>2. CASE k # i
    BY <2>1, <2>2 DEF Fresh, Registered
  <2>3. CASE k = i /\ p \in fs
    BY <2>1, <2>3 DEF Fresh, Registered
  <2> QED
    BY <1>3, <2>1, <2>2, <2>3
<1>4. p \in fs => Fresh(u, p)
  BY DEF Registered, Fresh
<1> QED
  BY <1>1, <1>2, <1>3, <1>4 DEF Tidy, Registered

\* A free entry has no accelerators.
LEMMA FreeEmpty ==
    ASSUME NEW b, EntryOf(b), b.path = NULL
    PROVE  \A j \in AccelIdx : b.accel_list[j].path = NULL
BY DEF EntryOf, ListOf

\* add_base_design() gives a package an entry, unless it has one.
LEMMA AddBaseOf ==
    ASSUME site \in Sites, Room, NEW t, Sound(t), WatchRows(t), Entries(t), NEW d, Top(d)
    PROVE  LET u == add_base_design(t, d)
           IN  Tidy(t, u, {}) /\ \E k \in Table : u.bases[k].path = d
<1> DEFINE u == add_base_design(t, d)
<1>1. CASE \E i \in Table : t.bases[i].path = d
  <2>1. u = t
    BY <1>1 DEF add_base_design
  <2>2. Tidy(t, t, {})
    BY TidySame
  <2> HIDE DEF u
  <2> QED
    BY <1>1, <2>1, <2>2 DEF u
<1>2. CASE ~\E i \in Table : t.bases[i].path = d
  <2> DEFINE free == {i \in Table : t.bases[i].path = NULL}
             k == Lowest(free)
             b == [t.bases[k] EXCEPT !.path = d]
             v == [t EXCEPT !.bases[k] = b]
  <2>1. free # {}
    BY FreeBase
  <2>2. k \in Table /\ t.bases[k].path = NULL
    BY <2>1, LowestRow
  <2>3. u = [t EXCEPT !.bases[k].path = d]
    BY <1>2, <2>1 DEF add_base_design
  <2> HIDE DEF k, u
  <2>4. u = v
    BY <2>2, <2>3 DEF Sound, Tables
  <2>5. t.bases[k] \in Base /\ d # NULL
    BY <2>2, BaseFacts, TopPath DEF BaseSet
  <2>6. b.path = d /\ b.accel_list = t.bases[k].accel_list
    BY <2>5 DEF Base
  <2> HIDE DEF b
  <2>7. /\ v.watch = t.watch /\ v.wd = t.wd /\ v.next = t.next /\ v.bases[k] = b
        /\ \A l \in Table : l # k => v.bases[l] = t.bases[l]
    BY <2>2, SetBaseFields
  <2> HIDE DEF v
  <2>8. WatchRows(v)
    BY <2>7, SameRows
  <2>9. \A j \in AccelIdx : b.accel_list[j].path = NULL
    <3>1. EntryOf(t.bases[k])
      BY <2>2 DEF Entries
    <3> QED
      BY <2>2, <2>6, <3>1, FreeEmpty
  <2>10. EntryOf(b)
    BY <2>6, <2>9 DEF EntryOf, ListOf
  <2>11. Entries(v)
    <3>1. \A l \in Table : EntryOf(v.bases[l])
      BY <2>7, <2>10 DEF Entries
    <3>2. ASSUME NEW l \in Table, NEW m \in Table, v.bases[l].path = v.bases[m].path,
                 v.bases[l].path # NULL
          PROVE  l = m
      BY <1>2, <2>6, <2>7, <3>2 DEF Entries
    <3> QED
      BY <3>1, <3>2 DEF Entries
  <2>12. ASSUME NEW q, Held(v, q)
         PROVE  Held(t, q)
    BY <2>7, <2>9, <2>12 DEF Held
  <2>13. ASSUME NEW q \in Tops, Fresh(t, q)
         PROVE  Fresh(v, q)
    <3>1. PICK l \in Table : t.bases[l].path = q /\ FreshEntry(t.bases[l])
      BY <2>13 DEF Fresh
    <3>2. q # NULL
      BY TopPath DEF Tops, Top
    <3>3. l # k
      BY <2>2, <3>1, <3>2
    <3> QED
      BY <2>7, <3>1, <3>3 DEF Fresh
  <2> QED
    BY <2>2, <2>4, <2>6, <2>7, <2>8, <2>11, <2>12, <2>13 DEF Tidy, u
<1> QED
  BY <1>1, <1>2

\* A package is given an entry, initialised and scanned.
LEMMA RegisterOf ==
    ASSUME OnDisk, DiskWhole, Room, NEW t, Sound(t), WatchRows(t), Entries(t), NEW p,
           Top(p), NEW i \in Table, t.bases[i].path = p, NEW pname \in Path
    PROVE  LET u == Reload(t, i, pname, init_base_design(t.bases[i]))
           IN  Tidy(t, u, {}) /\ (p \in fs => Fresh(u, p))
<1> DEFINE u == Reload(t, i, pname, init_base_design(t.bases[i]))
<1>1. EntryOf(t.bases[i])
  BY DEF Entries
<1>2. Registered(t, u, i, p)
  BY <1>1, ReloadOf
<1>3. p # NULL
  BY TopPath DEF OnDisk
<1> HIDE DEF u
<1> QED
  BY <1>2, <1>3, RegisteredTidy DEF u

\* Numbering the packages changes their numbers only.
Alike(b, c) ==
    /\ c.path = b.path /\ c.num_pl_slots = b.num_pl_slots
    /\ \A j \in AccelIdx : /\ c.accel_list[j].path = b.accel_list[j].path
                           /\ c.accel_list[j].name = b.accel_list[j].name

LEMMA AlikeFacts ==
    ASSUME NEW b, NEW c, Alike(b, c)
    PROVE  (EntryOf(b) => EntryOf(c)) /\ (FreshEntry(b) => FreshEntry(c))
<1>1. Paths(c.accel_list) = Paths(b.accel_list)
  BY DEF Alike, Paths
<1>2. EntryOf(b) => EntryOf(c)
  BY DEF Alike, EntryOf, ListOf
<1>3. FreshEntry(b) => FreshEntry(c)
  BY <1>1 DEF Alike, FreshEntry
<1> QED
  BY <1>2, <1>3

LEMMA AssignFields ==
    ASSUME site \in Sites, NEW t, Sound(t)
    PROVE  LET u == assign_list_ids(t)
           IN  /\ u.watch = t.watch /\ u.wd = t.wd /\ u.next = t.next
               /\ \A k \in Table : Alike(t.bases[k], u.bases[k])
<1> DEFINE u == assign_list_ids(t)
           bs == [k \in Table |-> [t.bases[k] EXCEPT !.accel_list = Numbered(t, k)]]
<1>1. u = [t EXCEPT !.bases = bs]
  BY DEF assign_list_ids
<1>2. t \in Tables
  BY DEF Sound
<1> HIDE DEF u
<1>3. u.watch = t.watch /\ u.wd = t.wd /\ u.next = t.next /\ u.bases = bs
  BY <1>1, <1>2 DEF Tables
<1>4. ASSUME NEW k \in Table
      PROVE  Alike(t.bases[k], u.bases[k])
  <2> DEFINE b == t.bases[k]
             c == [b EXCEPT !.accel_list = Numbered(t, k)]
  <2>1. u.bases[k] = c
    BY <1>3
  <2>2. b \in Base /\ b.accel_list \in Lists
    BY BaseFacts DEF BaseSet
  <2>3. ASSUME NEW j \in AccelIdx
        PROVE  /\ Numbered(t, k)[j].path = b.accel_list[j].path
               /\ Numbered(t, k)[j].name = b.accel_list[j].name
    <3> DEFINE n == Cardinality({r \in Rows(t) : Before(r, <<k, j>>)})
    <3>1. Numbered(t, k)[j] \in {b.accel_list[j], [b.accel_list[j] EXCEPT !.list_id = n]}
      BY DEF Numbered
    <3>2. b.accel_list[j] \in Accel
      BY <2>2 DEF Lists
    <3> HIDE DEF n, b
    <3> QED
      BY <3>1, <3>2 DEF Accel
  <2>4. c.path = b.path /\ c.num_pl_slots = b.num_pl_slots /\ c.accel_list = Numbered(t, k)
    <3> HIDE DEF b
    <3> QED
      BY <2>2 DEF Base
  <2> HIDE DEF b, c
  <2> QED
    BY <2>1, <2>3, <2>4 DEF Alike, b
<1> QED
  BY <1>3, <1>4 DEF u

LEMMA AssignTidy ==
    ASSUME site \in Sites, NEW t, Sound(t), WatchRows(t), Entries(t)
    PROVE  LET u == assign_list_ids(t)
           IN  /\ Tidy(t, u, {}) /\ \A q : Held(u, q) => Held(t, q)
               /\ \A k \in Table : u.bases[k].path = t.bases[k].path
<1> DEFINE u == assign_list_ids(t)
<1>1. /\ u.watch = t.watch /\ u.wd = t.wd /\ u.next = t.next
      /\ \A k \in Table : Alike(t.bases[k], u.bases[k])
  BY AssignFields
<1> HIDE DEF u
<1>2. WatchRows(u)
  BY <1>1, SameRows
<1>3. \A k \in Table : u.bases[k].path = t.bases[k].path
  BY <1>1 DEF Alike
<1>4. Entries(u)
  <2>1. \A k \in Table : EntryOf(u.bases[k])
    BY <1>1, AlikeFacts DEF Entries
  <2> QED
    BY <1>3, <2>1 DEF Entries
<1>5. \A q : Held(u, q) => Held(t, q)
  BY <1>1 DEF Held, Alike
<1>6. \A q : Fresh(t, q) => Fresh(u, q)
  BY <1>1, <1>3, AlikeFacts DEF Fresh
<1> QED
  BY <1>2, <1>3, <1>4, <1>5, <1>6 DEF Tidy, u

\* remove_base_design() takes a package off the tables.
LEMMA RemoveBaseOf ==
    ASSUME site \in Sites, NEW t, Sound(t), WatchRows(t), Entries(t), NEW d \in Dirs
    PROVE  LET u == remove_base_design(t, d)
           IN  Tidy(t, u, {d}) /\ \A q : Held(u, q) => Held(t, q) /\ q # d
<1> DEFINE u == remove_base_design(t, d)
           S == {i \in Table : t.bases[i].path = d}
<1>1. CASE S = {}
  <2>1. u = t
    BY <1>1 DEF remove_base_design
  <2>2. Tidy(t, t, {d})
    BY TidySame
  <2>3. ~Held(t, d)
    BY <1>1 DEF Held
  <2> HIDE DEF u
  <2> QED
    BY <2>1, <2>2, <2>3 DEF u
<1>2. CASE S # {}
  <2> DEFINE i == Lowest(S)
             l == [j \in AccelIdx |-> ClearAccel(t.bases[i].accel_list[j])]
             b == [path |-> NULL, type |-> "", num_pl_slots |-> 0, accel_list |-> l]
             v == [t EXCEPT !.bases[i] = b]
  <2>1. i \in Table /\ t.bases[i].path = d
    BY <1>2, LowestRow
  <2>2. u = v
    BY <1>2, Zenon DEF remove_base_design
  <2>3. b.path = NULL /\ b.accel_list = l
    <3> HIDE DEF l
    <3> QED
      OBVIOUS
  <2> HIDE DEF i, u
  <2>4. \A j \in AccelIdx : l[j].path = NULL
    <3> SUFFICES ASSUME NEW j \in AccelIdx
                 PROVE  l[j].path = NULL
      OBVIOUS
    <3>1. t.bases[i].accel_list[j] \in Accel
      BY <2>1, BaseFacts DEF Lists
    <3>2. ClearAccel(t.bases[i].accel_list[j]).path = NULL
      <4> DEFINE e == [t.bases[i].accel_list[j] EXCEPT !.path = NULL]
      <4>1. ClearAccel(t.bases[i].accel_list[j]) = [e EXCEPT !.name = NULL]
        BY DEF ClearAccel
      <4>2. e \in Accel /\ e.path = NULL
        BY <3>1 DEF Accel, Path
      <4> HIDE DEF e
      <4> QED
        BY <4>1, <4>2 DEF Accel
    <3> QED
      BY <3>2
  <2> HIDE DEF l, b
  <2>5. /\ v.watch = t.watch /\ v.wd = t.wd /\ v.next = t.next /\ v.bases[i] = b
        /\ \A k \in Table : k # i => v.bases[k] = t.bases[k]
    BY <2>1, SetBaseFields
  <2> HIDE DEF v
  <2>6. WatchRows(v)
    BY <2>5, SameRows
  <2>7. EntryOf(b)
    BY <2>3, <2>4 DEF EntryOf, ListOf
  <2>8. Entries(v)
    <3>1. \A k \in Table : EntryOf(v.bases[k])
      BY <2>5, <2>7 DEF Entries
    <3>2. ASSUME NEW k \in Table, NEW m \in Table, v.bases[k].path = v.bases[m].path,
                 v.bases[k].path # NULL
          PROVE  k = m
      BY <2>3, <2>5, <3>2 DEF Entries
    <3> QED
      BY <3>1, <3>2 DEF Entries
  <2>9. d # NULL
    BY TreeAssumption
  <2>10. ASSUME NEW q, Held(v, q)
         PROVE  Held(t, q) /\ q # d
    <3>1. PICK k \in Table : v.bases[k].path = q
                             /\ \E j \in AccelIdx : v.bases[k].accel_list[j].path # NULL
      BY <2>10 DEF Held
    <3>2. k # i
      BY <2>3, <2>4, <2>5, <3>1
    <3>3. q # d
      BY <2>1, <2>5, <2>9, <3>1, <3>2 DEF Entries
    <3> QED
      BY <2>5, <3>1, <3>2, <3>3 DEF Held
  <2>11. ASSUME NEW q, q # d, Fresh(t, q)
         PROVE  Fresh(v, q)
    BY <2>1, <2>5, <2>11 DEF Fresh
  <2> QED
    BY <2>2, <2>6, <2>8, <2>10, <2>11 DEF Tidy, u
<1> QED
  BY <1>1, <1>2

\* remove_accel() for the watch of a directory that is no package changes
\* nothing.
LEMMA RemoveAccelOf ==
    ASSUME NEW t, Sound(t), WatchRows(t), Entries(t), NEW d \in Dirs, NEW parent,
           ~Top(parent)
    PROVE  LET u == remove_accel(t, d, parent)
           IN  WatchRows(u) /\ u.bases = t.bases
<1> DEFINE u == remove_accel(t, d, parent)
           b(k) == IF t.bases[k].path # parent THEN t.bases[k]
                   ELSE [t.bases[k] EXCEPT !.accel_list = WithoutAccel(@, d)]
           bs == [k \in Table |-> b(k)]
<1>1. ASSUME NEW k \in Table
      PROVE  b(k) = t.bases[k]
  <2>1. CASE t.bases[k].path # parent
    BY <2>1
  <2>2. CASE t.bases[k].path = parent
    <3> DEFINE l == t.bases[k].accel_list
    <3>1. EntryOf(t.bases[k]) /\ t.bases[k].path = NULL
      BY <2>2 DEF Entries, EntryOf
    <3>2. \A j \in AccelIdx : l[j].path # d
      <4>1. d # NULL
        BY TreeAssumption
      <4> QED
        BY <3>1, <4>1, FreeEmpty
    <3>3. WithoutAccel(l, d) = l
      <4>1. {j \in AccelIdx : l[j].path = d} = {}
        BY <3>2
      <4> QED
        BY <4>1, Zenon DEF WithoutAccel
    <3>4. t.bases[k] \in Base
      BY BaseFacts DEF BaseSet
    <3> QED
      BY <2>2, <3>3, <3>4 DEF Base
  <2> QED
    BY <2>1, <2>2
<1>2. t.bases \in [Table -> BaseSet] /\ t \in Tables
  BY DEF Sound, Tables
<1>3. bs = t.bases
  <2> HIDE DEF b
  <2> QED
    BY <1>1, <1>2
<1>4. u = [t EXCEPT !.bases = bs]
  BY DEF remove_accel
<1> HIDE DEF bs, u
<1>5. u.bases = t.bases /\ u.watch = t.watch /\ u.wd = t.wd /\ u.next = t.next
  BY <1>2, <1>3, <1>4 DEF Tables
<1> QED
  BY <1>5, SameRows DEF u

\* What dir_removed makes of the tables: the package d, if it is one, is gone.
LEMMA RemovedOf ==
    ASSUME site \in Sites, NEW t, Sound(t), WatchRows(t), Entries(t), NEW d \in Dirs,
           NEW w, w.parent_name # NULL => ~Top(w.path) /\ ~Top(d)
    PROVE  LET v == IF w.parent_name = NULL THEN remove_base_design(t, d)
                                            ELSE remove_accel(t, d, w.path)
               u == assign_list_ids(remove_watch(v, d))
           IN  Tidy(t, u, {d}) /\ \A q : Held(u, q) => Held(t, q) /\ q # d
<1> DEFINE v == IF w.parent_name = NULL THEN remove_base_design(t, d)
                                        ELSE remove_accel(t, d, w.path)
           x == remove_watch(v, d)
           u == assign_list_ids(x)
<1>1. Sound(v) /\ Tidy(t, v, {d}) /\ \A q : Held(v, q) => Held(t, q) /\ q # d
  <2>1. CASE w.parent_name = NULL
    BY <2>1, RemoveBaseOf, RemoveBaseSound
  <2>2. CASE w.parent_name # NULL
    <3> DEFINE y == remove_accel(t, d, w.path)
    <3>1. v = y
      BY <2>2
    <3>2. WatchRows(y) /\ y.bases = t.bases /\ Sound(y)
      BY <2>2, RemoveAccelOf, RemoveAccelSound
    <3> HIDE DEF y, v
    <3>3. Tidy(t, y, {d})
      BY <3>2, TidySame
    <3>4. \A q : Held(y, q) => Held(t, q)
      BY <3>2 DEF Held
    <3>5. ~Held(t, d)
      BY <2>2, TreeAssumption DEF Held, Entries, EntryOf
    <3> QED
      BY <3>1, <3>2, <3>3, <3>4, <3>5
  <2> QED
    BY <2>1, <2>2
<1> HIDE DEF v
<1>2. Entries(v) /\ WatchRows(v)
  BY <1>1 DEF Tidy
<1>3. Sound(x) /\ x.bases = v.bases /\ WatchRows(x)
  BY <1>1, <1>2, RemoveWatchSound, RemoveWatchRows
<1> HIDE DEF x
<1>4. Tidy(v, x, {d}) /\ \A q : Held(x, q) => Held(v, q)
  BY <1>2, <1>3, TidySame DEF Held
<1>5. Entries(x)
  BY <1>4 DEF Tidy
<1>6. Tidy(x, u, {}) /\ \A q : Held(u, q) => Held(x, q)
  BY <1>3, <1>5, AssignTidy
<1> HIDE DEF u
<1>7. Tidy(x, u, {d})
  BY <1>6, Zenon DEF Tidy
<1>8. Tidy(t, x, {d})
  BY <1>1, <1>4, TidyTidy
<1>9. Tidy(t, u, {d})
  BY <1>7, <1>8, TidyTidy
<1> QED
  <2>1. Tidy(t, u, {d}) /\ \A q : Held(u, q) => Held(t, q) /\ q # d
    BY <1>1, <1>4, <1>6, <1>9
  <2> QED
    BY <2>1, Zenon DEF u, x, v

-----------------------------------------------------------------------------
(* Events.                                                                 *)

\* The first event is handled.
LEMMA FirstHandled ==
    ASSUME NEW E \in Seq(Events), E # <<>>, NEW p
    PROVE  LET e == E[1]
               F == Tail(E)
           IN  /\ e \in Events /\ F \in Seq(Events)
               /\ (\A k \in DOMAIN E : EventOf(E[k])) =>
                     EventOf(e) /\ \A k \in DOMAIN F : EventOf(F[k])
               /\ Returns(E, p) => Returns(F, p)
               /\ Returns(E, p) /\ e.mask \in Gone /\ e.name = p => Announced(F, p)
               /\ Leaving(E, p) /\ ~(e.mask \in Gone /\ e.name = p) => Leaving(F, p)
               /\ Announced(E, p) /\ ~(e.mask = "MOVED_TO_DIR" /\ e.name = p)
                     => Announced(F, p)
<1> DEFINE e == E[1]
           F == Tail(E)
           n == Len(E)
<1>1. n \in Nat /\ n > 0 /\ DOMAIN E = 1 .. n /\ e \in Events
  <2>1. n \in Nat /\ n > 0 /\ DOMAIN E = 1 .. n
    BY EmptySeq
  <2> QED
    BY <2>1
<1>2. /\ F \in Seq(Events) /\ DOMAIN F = 1 .. (n - 1)
      /\ \A k \in 1 .. (n - 1) : F[k] = E[k + 1]
  BY HeadTailProperties
<1> HIDE DEF F, n, e
<1>3. ASSUME NEW k \in DOMAIN E, k # 1
      PROVE  k - 1 \in DOMAIN F /\ F[k - 1] = E[k]
  BY <1>1, <1>2, <1>3
<1>4. ASSUME NEW k \in DOMAIN F
      PROVE  k + 1 \in DOMAIN E /\ F[k] = E[k + 1]
  BY <1>1, <1>2, <1>4
<1>5. (\A k \in DOMAIN E : EventOf(E[k])) =>
         EventOf(e) /\ \A k \in DOMAIN F : EventOf(F[k])
  BY <1>1, <1>4 DEF e
<1>6. ASSUME Returns(E, p)
      PROVE  Returns(F, p)
  <2> SUFFICES ASSUME NEW k \in DOMAIN F, F[k].mask \in Gone, F[k].name = p
               PROVE  \E l \in DOMAIN F : k < l /\ F[l].mask = "MOVED_TO_DIR" /\ F[l].name = p
    BY DEF Returns
  <2>1. PICK l \in DOMAIN E : k + 1 < l /\ E[l].mask = "MOVED_TO_DIR" /\ E[l].name = p
    BY <1>4, <1>6 DEF Returns
  <2>2. l # 1 /\ k < l - 1
    BY <1>1, <1>2, <2>1
  <2> QED
    BY <1>3, <2>1, <2>2
<1>7. ASSUME Returns(E, p), e.mask \in Gone, e.name = p
      PROVE  Announced(F, p)
  <2>1. PICK l \in DOMAIN E : 1 < l /\ E[l].mask = "MOVED_TO_DIR" /\ E[l].name = p
    BY <1>1, <1>7 DEF Returns, e
  <2> QED
    BY <1>3, <2>1 DEF Announced
<1>8. ASSUME Leaving(E, p), ~(e.mask \in Gone /\ e.name = p)
      PROVE  Leaving(F, p)
  BY <1>3, <1>8 DEF Leaving, e
<1>9. ASSUME Announced(E, p), ~(e.mask = "MOVED_TO_DIR" /\ e.name = p)
      PROVE  Announced(F, p)
  BY <1>3, <1>9 DEF Announced, e
<1>10. /\ e \in Events /\ F \in Seq(Events)
       /\ (\A k \in DOMAIN E : EventOf(E[k])) =>
             EventOf(e) /\ \A k \in DOMAIN F : EventOf(F[k])
       /\ Returns(E, p) => Returns(F, p)
       /\ Returns(E, p) /\ e.mask \in Gone /\ e.name = p => Announced(F, p)
       /\ Leaving(E, p) /\ ~(e.mask \in Gone /\ e.name = p) => Leaving(F, p)
       /\ Announced(E, p) /\ ~(e.mask = "MOVED_TO_DIR" /\ e.name = p) => Announced(F, p)
  BY <1>1, <1>2, <1>5, <1>6, <1>7, <1>8, <1>9
<1> QED
  BY <1>10, Zenon DEF e, F

\* Events are added.
LEMMA EventsAdded ==
    ASSUME NEW E \in Seq(Events), NEW F \in Seq(Events), NEW p
    PROVE  LET G == E \o F
           IN  /\ G \in Seq(Events)
               /\ (\A k \in DOMAIN E : EventOf(E[k])) /\ (\A k \in DOMAIN F : EventOf(F[k]))
                     => \A k \in DOMAIN G : EventOf(G[k])
               /\ Announced(E, p) \/ Announced(F, p) => Announced(G, p)
               /\ Leaving(E, p) \/ Leaving(F, p) => Leaving(G, p)
               /\ (Returns(E, p) \/ Announced(F, p)) /\ ~Leaving(F, p) => Returns(G, p)
<1> DEFINE G == E \o F
           m == Len(E)
           n == Len(F)
<1>1. m \in Nat /\ n \in Nat /\ DOMAIN E = 1 .. m /\ DOMAIN F = 1 .. n
  OBVIOUS
<1>2. /\ G \in Seq(Events) /\ DOMAIN G = 1 .. (m + n)
      /\ \A k \in 1 .. (m + n) : G[k] = IF k <= m THEN E[k] ELSE F[k - m]
  BY ConcatProperties
<1> HIDE DEF G, m, n
<1>3. ASSUME NEW k \in DOMAIN E
      PROVE  k \in DOMAIN G /\ G[k] = E[k] /\ k <= m /\ k \in Nat
  BY <1>1, <1>2, <1>3
<1>4. ASSUME NEW k \in DOMAIN F
      PROVE  m + k \in DOMAIN G /\ G[m + k] = F[k] /\ m < m + k /\ k \in Nat
  <2>1. m + k \in 1 .. (m + n) /\ ~(m + k <= m) /\ (m + k) - m = k
    BY <1>1
  <2> QED
    BY <1>1, <1>2, <2>1
<1>5. ASSUME NEW k \in DOMAIN G
      PROVE  \/ k \in DOMAIN E /\ G[k] = E[k]
             \/ k - m \in DOMAIN F /\ G[k] = F[k - m]
  BY <1>1, <1>2, <1>5
<1>6. (\A k \in DOMAIN E : EventOf(E[k])) /\ (\A k \in DOMAIN F : EventOf(F[k]))
         => \A k \in DOMAIN G : EventOf(G[k])
  BY <1>5
<1>7. Announced(E, p) \/ Announced(F, p) => Announced(G, p)
  BY <1>3, <1>4 DEF Announced
<1>8. Leaving(E, p) \/ Leaving(F, p) => Leaving(G, p)
  BY <1>3, <1>4 DEF Leaving
<1>9. ASSUME Returns(E, p) \/ Announced(F, p), ~Leaving(F, p)
      PROVE  Returns(G, p)
  <2> SUFFICES ASSUME NEW k \in DOMAIN G, G[k].mask \in Gone, G[k].name = p
               PROVE  \E l \in DOMAIN G : k < l /\ G[l].mask = "MOVED_TO_DIR" /\ G[l].name = p
    BY DEF Returns
  <2>1. k \in DOMAIN E /\ G[k] = E[k]
    BY <1>5, <1>9 DEF Leaving
  <2>2. CASE Returns(E, p)
    <3>1. PICK l \in DOMAIN E : k < l /\ E[l].mask = "MOVED_TO_DIR" /\ E[l].name = p
      BY <2>1, <2>2 DEF Returns
    <3> QED
      BY <1>3, <3>1
  <2>3. CASE Announced(F, p)
    <3>1. PICK l \in DOMAIN F : F[l].mask = "MOVED_TO_DIR" /\ F[l].name = p
      BY <2>3 DEF Announced
    <3>2. m + l \in DOMAIN G /\ G[m + l] = F[l] /\ m < m + l /\ l \in Nat
      BY <1>4
    <3>3. k <= m /\ k \in Nat
      BY <1>3, <2>1
    <3>4. k < m + l
      BY <1>1, <3>2, <3>3
    <3> QED
      BY <3>1, <3>2, <3>4
  <2> QED
    BY <1>9, <2>2, <2>3
<1>10. /\ G \in Seq(Events)
       /\ (\A k \in DOMAIN E : EventOf(E[k])) /\ (\A k \in DOMAIN F : EventOf(F[k]))
             => \A k \in DOMAIN G : EventOf(G[k])
       /\ Announced(E, p) \/ Announced(F, p) => Announced(G, p)
       /\ Leaving(E, p) \/ Leaving(F, p) => Leaving(G, p)
       /\ (Returns(E, p) \/ Announced(F, p)) /\ ~Leaving(F, p) => Returns(G, p)
  BY <1>2, <1>6, <1>7, <1>8, <1>9
<1> QED
  BY <1>10, Zenon DEF G

-----------------------------------------------------------------------------
(* A step of a site where packages are whole.                              *)

LEMMA SameSite ==
    ASSUME site' = site
    PROVE  /\ WatchRows(db)' <=> WatchRows(db')
           /\ Entries(db)' <=> Entries(db')
           /\ Tops' = Tops /\ \A e : EventOf(e)' <=> EventOf(e)
           /\ \A p : Top(p)' <=> Top(p)
           /\ \A p : Held(db, p)' <=> Held(db', p)
           /\ \A p : Fresh(db, p)' <=> Fresh(db', p)
<1>1. WatchRows(db)' <=> WatchRows(db')
  BY DEF WatchRows, Table, Top
<1>2. Entries(db)' <=> Entries(db')
  BY DEF Entries, EntryOf, ListOf, Want, Accels, Inside, Flat, IsVersal, Table, Top
<1>3. Tops' = Tops
  BY DEF Tops
<1>4. \A e : EventOf(e)' <=> EventOf(e)
  BY DEF EventOf
<1>5. \A p : Top(p)' <=> Top(p)
  BY DEF Top
<1>6. \A p : Held(db, p)' <=> Held(db', p)
  BY DEF Held, Table
<1>7. \A p : Fresh(db, p)' <=> Fresh(db', p)
  BY DEF Fresh, FreshEntry, Table, PackagesFit, Want, Accels, Inside, Flat, IsVersal, Paths
<1> QED
  BY <1>1, <1>2, <1>3, <1>4, <1>5, <1>6, <1>7

LEMMA WholeDone ==
    ASSUME site' = site, DiskWhole', WatchRows(db'), Entries(db'),
           batch' \in Seq(Events), queue' \in Seq(Events), Len(batch') <= site.max_batch,
           NEW E, E = batch' \o queue', \A k \in DOMAIN E : EventOf(E[k]),
           walk'.todo \in Seq(Tops), walk'.reg # NULL => Top(walk'.reg),
           req'.pc # "walk" => walk'.todo = <<>> /\ walk'.reg = NULL,
           \A p \in Tops : KnownIn(p, fs', db', E, rescan', walk')
    PROVE  WholeInv'
<1>1. WatchRows(db)' /\ Entries(db)' /\ Tops' = Tops
  BY SameSite
<1>2. EventsOf'
  BY DEF EventsOf, EventOf, Pending
<1>3. WalkOf'
  BY <1>1, SameSite DEF WalkOf
<1>4. ASSUME NEW p \in Tops
      PROVE  Known(p)'
  <2>1. KnownIn(p, fs', db', E, rescan', walk')
    OBVIOUS
  <2>2. (Held(db, p)' <=> Held(db', p)) /\ (Fresh(db, p)' <=> Fresh(db', p))
    BY SameSite
  <2> QED
    BY <2>1, <2>2 DEF Known, KnownIn, Pending, Returns, Leaving, Announced, Queued
<1> QED
  BY <1>1, <1>2, <1>3, <1>4 DEF WholeInv

\* The installer moves or deletes package d, and the kernel reports F.
LEMMA PackageChanged ==
    ASSUME DiscoveryInv, WholeInv, site' = site, UNCHANGED <<rescan, batch, req, walk>>,
           NEW d \in Dirs, DiskWhole', db'.watch = db.watch, db'.bases = db.bases,
           db'.next = db.next, db'.wd[Root] = db.wd[Root], NEW F \in Seq(Events),
           queue' = queue \o F, \A k \in DOMAIN F : EventOf(F[k]),
           \A p \in Tops \ {d} : (p \in fs' <=> p \in fs) /\ ~Leaving(F, p),
           d \in fs' => Announced(F, d) /\ ~Leaving(F, d),
           d \notin fs' => Leaving(F, d)
    PROVE  WholeInv'
<1> DEFINE E == Pending \o F
<1>1. /\ batch \in Seq(Events) /\ queue \in Seq(Events) /\ Pending \in Seq(Events)
      /\ Len(batch) <= site.max_batch /\ \A k \in DOMAIN Pending : EventOf(Pending[k])
  BY ConcatProperties DEF WholeInv, EventsOf, Pending
<1>2. E = batch' \o queue'
  BY <1>1, ConcatAssociative DEF Pending
<1>3. queue' \in Seq(Events) /\ batch' \in Seq(Events)
  BY <1>1, ConcatProperties
<1>4. \A k \in DOMAIN E : EventOf(E[k])
  BY <1>1, EventsAdded
<1>5. WatchRows(db') /\ Entries(db')
  BY DEF WholeInv, WatchRows, Entries
<1>6. \A p : (Held(db', p) <=> Held(db, p)) /\ (Fresh(db', p) <=> Fresh(db, p))
  BY DEF Held, Fresh
<1>7. ASSUME NEW p \in Tops
      PROVE  KnownIn(p, fs', db', E, rescan', walk')
  <2>1. KnownIn(p, fs, db, Pending, rescan, walk)
    BY DEF WholeInv, Known
  <2>2. /\ Announced(Pending, p) \/ Announced(F, p) => Announced(E, p)
        /\ Leaving(Pending, p) \/ Leaving(F, p) => Leaving(E, p)
        /\ (Returns(Pending, p) \/ Announced(F, p)) /\ ~Leaving(F, p) => Returns(E, p)
    BY <1>1, EventsAdded
  <2> HIDE DEF E
  <2>3. CASE p = d
    BY <2>2, <2>3 DEF KnownIn
  <2>4. CASE p # d
    BY <1>6, <2>1, <2>2, <2>4 DEF KnownIn
  <2> QED
    BY <2>3, <2>4
<1>8. /\ walk'.todo \in Seq(Tops) /\ (walk'.reg # NULL => Top(walk'.reg))
      /\ (req'.pc # "walk" => walk'.todo = <<>> /\ walk'.reg = NULL)
  BY DEF WholeInv, WalkOf
<1> HIDE DEF E
<1> QED
  BY <1>1, <1>2, <1>3, <1>4, <1>5, <1>7, <1>8, WholeDone

\* What is below a package.
LEMMA BelowFacts ==
    ASSUME NEW d \in Dirs, Parent(d) = Root
    PROVE  /\ d \in Below(d) /\ Root \notin Below(d) /\ Below(d) \subseteq Dirs
           /\ \A e \in Dirs : e \in Below(d) <=> Home(e) \in Below(d)
           /\ \A e \in Dirs : e \in Below(d) /\ Parent(e) = Root => e = d
<1>1. d \in Below(d) /\ Below(d) \subseteq Dirs /\ Root \notin Below(d)
  BY TreeAssumption DEF Below, BelowOf
<1>2. ASSUME NEW e \in Dirs
      PROVE  /\ e \in Below(d) <=> Home(e) \in Below(d)
             /\ e \in Below(d) /\ Parent(e) = Root => e = d
  <2>1. Home(e) \in Dirs /\ Parent(Home(e)) = Root /\ (e \in Below(d) <=> Home(e) = d)
    BY HomeFacts
  <2>2. Home(Home(e)) = Home(e) /\ (Parent(e) = Root => Home(e) = e)
    BY <2>1 DEF Home
  <2>3. Home(e) \in Below(d) <=> Home(Home(e)) = d
    BY <2>1, HomeFacts
  <2> QED
    BY <2>1, <2>2, <2>3
<1> QED
  BY <1>1, <1>2

\* The disk after a package is moved in, and after it is gone.
LEMMA DiskAfter ==
    ASSUME OnDisk, DiskWhole, site' = site, NEW d \in Dirs, Parent(d) = Root,
           \/ /\ fs' = fs \cup (Below(d) \cap site.dirs) /\ d \notin fs
              /\ file' = [c \in Dirs |-> IF c \in Below(d) \cap site.dirs /\ FileName(c) # NULL
                                         THEN "full" ELSE file[c]]
           \/ /\ fs' = fs \ Below(d)
              /\ file' = [c \in Dirs |-> IF c \in Below(d) THEN "none" ELSE file[c]]
    PROVE  DiskWhole'
<1>1. \A e \in Dirs : FileName(e)' = FileName(e)
  BY DEF FileName, IsVersal
<1>2. /\ d \in Below(d) /\ \A e \in Dirs : e \in Below(d) <=> Home(e) \in Below(d)
      /\ \A e \in Dirs : e \in Below(d) /\ Parent(e) = Root => e = d
  BY BelowFacts
<1>3. site.dirs \subseteq Dirs /\ site \in Sites /\ fs \subseteq site.dirs
  BY SiteFacts DEF OnDisk
<1>4. ASSUME NEW e \in site.dirs
      PROVE  Home(e) \in Dirs /\ Home(e) \in site.dirs /\ Parent(Home(e)) = Root
  <2>1. e \in Dirs /\ Parent(e) \in site.dirs \cup {Root}
    BY <1>3, SiteAssumption
  <2>2. Home(e) \in Dirs /\ Parent(Home(e)) = Root
    BY <2>1, HomeFacts
  <2>3. CASE Parent(e) = Root
    BY <2>2, <2>3 DEF Home
  <2>4. CASE Parent(e) # Root
    <3>1. Parent(e) \in site.dirs /\ Parent(Parent(e)) \in site.dirs \cup {Root}
      BY <1>3, <2>1, <2>4, SiteAssumption
    <3> QED
      BY <2>2, <2>4, <3>1 DEF Home
  <2> QED
    BY <2>3, <2>4
<1>5. ASSUME NEW e \in site.dirs
      PROVE  e \in fs' <=> Home(e) \in fs'
  <2>1. e \in fs <=> Home(e) \in fs
    BY DEF DiskWhole
  <2>2. e \in Below(d) <=> Home(e) \in Below(d)
    BY <1>2, <1>3
  <2> QED
    BY <1>4, <2>1, <2>2
<1>6. ASSUME NEW e \in Dirs
      PROVE  file'[e] = IF e \in fs' /\ FileName(e) # NULL THEN "full" ELSE "none"
  <2>1. file[e] = IF e \in fs /\ FileName(e) # NULL THEN "full" ELSE "none"
    BY DEF DiskWhole
  <2> QED
    BY <1>3, <2>1
<1> QED
  BY <1>1, <1>5, <1>6 DEF DiskWhole

\* One event of the firmware location's watch.
LEMMA OneEvent ==
    ASSUME NEW mask \in Gone \cup {"MOVED_TO_DIR"}, mask # "DELETE_DIR", NEW d \in Dirs,
           Parent(d) = Root
    PROVE  LET F == <<[wd |-> 1, mask |-> mask, name |-> d]>>
           IN  /\ F \in Seq(Events) /\ \A k \in DOMAIN F : EventOf(F[k])
               /\ \A p : Leaving(F, p) <=> mask \in Gone /\ p = d
               /\ \A p : Announced(F, p) <=> mask = "MOVED_TO_DIR" /\ p = d
<1> DEFINE e == [wd |-> 1, mask |-> mask, name |-> d]
           F == <<e>>
<1>1. e \in Events /\ e.wd = 1 /\ e.mask = mask /\ e.name = d
  BY DEF Events
<1>2. EventOf(e)
  BY <1>1 DEF EventOf
<1> HIDE DEF e
<1>3. F \in Seq(Events) /\ DOMAIN F = {1} /\ F[1] = e
  BY <1>1
<1> HIDE DEF F
<1>4. /\ \A k \in DOMAIN F : EventOf(F[k])
      /\ \A p : Leaving(F, p) <=> mask \in Gone /\ p = d
      /\ \A p : Announced(F, p) <=> mask = "MOVED_TO_DIR" /\ p = d
  BY <1>1, <1>2, <1>3 DEF Leaving, Announced
<1> QED
  BY <1>3, <1>4 DEF e, F

\* The watches of a package that goes are given back.
LEMMA WatchesDropped ==
    ASSUME NEW d \in Dirs, Parent(d) = Root, Sound(db),
           db' = [db EXCEPT !.wd = [c \in DOMAIN @ |-> IF c \in Below(d) THEN -1 ELSE @[c]]]
    PROVE  /\ db'.watch = db.watch /\ db'.bases = db.bases /\ db'.next = db.next
           /\ db'.wd[Root] = db.wd[Root]
<1> DEFINE f == [c \in DOMAIN db.wd |-> IF c \in Below(d) THEN -1 ELSE db.wd[c]]
<1>1. db \in Tables /\ DOMAIN db.wd = Places /\ Root \in Places
  BY DEF Sound, Tables, Places
<1>2. f[Root] = db.wd[Root]
  BY <1>1, BelowFacts
<1>3. db' = [db EXCEPT !.wd = f]
  BY Zenon
<1> HIDE DEF f
<1>4. db'.watch = db.watch /\ db'.bases = db.bases /\ db'.next = db.next /\ db'.wd = f
  BY <1>1, <1>3 DEF Tables
<1> QED
  BY <1>2, <1>4

LEMMA MoveWhole ==
    ASSUME DiscoveryInv, WholeInv, NEW d \in Dirs, move_in(d) \/ move_out(d),
           UNCHANGED <<site, rescan, batch, req, walk>>
    PROVE  WholeInv'
<1> DEFINE mask == IF move_in(d) THEN "MOVED_TO_DIR" ELSE "MOVED_FROM_DIR"
           F == <<[wd |-> 1, mask |-> mask, name |-> d]>>
<1>1. /\ OnDisk /\ DiskWhole /\ Sound(db) /\ WatchRows(db) /\ queue \in Seq(Events)
      /\ db.wd[Root] = 1 /\ Parent(d) = Root
  BY DEF DiscoveryInv, WholeInv, EventsOf, WatchRows, move_in, move_out
<1>2. /\ d \in Below(d) /\ Below(d) \subseteq Dirs
      /\ \A e \in Dirs : e \in Below(d) /\ Parent(e) = Root => e = d
  BY <1>1, BelowFacts
<1>3. mask \in Gone \cup {"MOVED_TO_DIR"} /\ mask # "DELETE_DIR"
  BY DEF Gone
<1>4. DiskWhole'
  BY <1>1, DiskAfter DEF move_in, move_out
<1>5. \A p \in Tops : p \in Dirs /\ Parent(p) = Root
  BY <1>1, SiteFacts DEF Tops, OnDisk
<1>6. CASE move_in(d)
  <2>1. /\ mask = "MOVED_TO_DIR" /\ d \in site.dirs /\ d \notin fs
        /\ fs' = fs \cup (Below(d) \cap site.dirs) /\ db' = db
        /\ queue' = Append(queue, [wd |-> 1, mask |-> mask, name |-> d])
    BY <1>1, <1>6 DEF move_in, Emit
  <2> HIDE DEF mask
  <2>2. /\ F \in Seq(Events) /\ \A k \in DOMAIN F : EventOf(F[k])
        /\ \A p : ~Leaving(F, p)
        /\ Announced(F, d)
    BY <1>1, <1>3, <2>1, OneEvent DEF Gone
  <2>3. queue' = queue \o F
    <3>1. [wd |-> 1, mask |-> mask, name |-> d] \in Events
      BY <1>3 DEF Events
    <3> QED
      BY <1>1, <2>1, <3>1, AppendIsConcat
  <2>4. d \in fs' /\ \A p \in Tops \ {d} : p \in fs' <=> p \in fs
    BY <1>2, <1>5, <2>1
  <2> HIDE DEF F
  <2> QED
    BY <1>4, <2>1, <2>2, <2>3, <2>4, PackageChanged
<1>7. CASE move_out(d) /\ ~move_in(d)
  <2>1. /\ mask = "MOVED_FROM_DIR" /\ fs' = fs \ Below(d)
        /\ queue' = Append(queue, [wd |-> 1, mask |-> mask, name |-> d])
    BY <1>1, <1>7 DEF move_out, Emit
  <2>2. /\ db'.watch = db.watch /\ db'.bases = db.bases /\ db'.next = db.next
        /\ db'.wd[Root] = db.wd[Root]
    BY <1>1, <1>7, WatchesDropped DEF move_out
  <2> HIDE DEF mask
  <2>3. /\ F \in Seq(Events) /\ \A k \in DOMAIN F : EventOf(F[k])
        /\ \A p : Leaving(F, p) <=> p = d
    BY <1>1, <1>3, <2>1, OneEvent DEF Gone
  <2>4. queue' = queue \o F
    <3>1. [wd |-> 1, mask |-> mask, name |-> d] \in Events
      BY <1>3 DEF Events
    <3> QED
      BY <1>1, <2>1, <3>1, AppendIsConcat
  <2>5. d \notin fs' /\ \A p \in Tops \ {d} : p \in fs' <=> p \in fs
    BY <1>2, <1>5, <2>1
  <2> HIDE DEF F
  <2> QED
    BY <1>4, <2>2, <2>3, <2>4, <2>5, PackageChanged
<1> QED
  BY <1>6, <1>7

\* rm -r of a package reports directories below it.
LEMMA DeletedOrder ==
    ASSUME DiscoveryInv, NEW d \in Dirs
    PROVE  LET seen == {c \in fs \cap Below(d) : db.wd[Parent(c)] # -1}
               inner == {c \in seen : Parent(c) = d}
               order == SetToSeq(seen \ (inner \cup {d})) \o SetToSeq(inner)
                            \o SetToSeq(seen \cap {d})
               F == [k \in DOMAIN order |->
                       [wd |-> db.wd[Parent(order[k])], mask |-> "DELETE_DIR",
                        name |-> order[k]]]
           IN  /\ F \in Seq(Events) /\ DOMAIN F = DOMAIN order
               /\ \A k \in DOMAIN order : order[k] \in seen
               /\ d \in seen => \E k \in DOMAIN order : order[k] = d
<1> DEFINE seen == {c \in fs \cap Below(d) : db.wd[Parent(c)] # -1}
           inner == {c \in seen : Parent(c) = d}
           A == SetToSeq(seen \ (inner \cup {d}))
           B == SetToSeq(inner)
           C == SetToSeq(seen \cap {d})
           order == A \o B \o C
           e(k) == [wd |-> db.wd[Parent(order[k])], mask |-> "DELETE_DIR",
                    name |-> order[k]]
           F == [k \in DOMAIN order |-> e(k)]
<1>1. /\ site \in Sites /\ fs \subseteq site.dirs /\ site.dirs \subseteq Dirs
      /\ db.wd \in [Places -> Int]
  BY SiteFacts DEF DiscoveryInv, OnDisk, Sound, Tables
<1>2. seen \in SUBSET site.dirs /\ inner \in SUBSET seen
  BY <1>1
<1> HIDE DEF seen, inner
<1>3. /\ seen \ (inner \cup {d}) \in SUBSET site.dirs /\ inner \in SUBSET site.dirs
      /\ seen \cap {d} \in SUBSET site.dirs
  BY <1>2
<1>4. /\ IsFiniteSet(seen \ (inner \cup {d})) /\ IsFiniteSet(inner)
      /\ IsFiniteSet(seen \cap {d})
  BY <1>1, <1>3, DirsFinite
<1>5. A \in Seq(seen) /\ B \in Seq(seen) /\ C \in Seq(seen)
  <2>1. A \in Seq(seen \ (inner \cup {d})) /\ B \in Seq(inner) /\ C \in Seq(seen \cap {d})
    BY <1>4, SetToSeqFacts
  <2> HIDE DEF A, B, C
  <2> QED
    BY <1>2, <2>1
<1>6. d \in seen => \E k \in DOMAIN C : C[k] = d
  BY <1>4, SetToSeqFacts
<1> HIDE DEF A, B, C
<1>7. order \in Seq(seen) /\ (d \in seen => \E k \in DOMAIN order : order[k] = d)
  <2> DEFINE G == A \o B
  <2>1. G \in Seq(seen) /\ Len(G) \in Nat
    BY <1>5, ConcatProperties
  <2> HIDE DEF G
  <2>2. /\ G \o C \in Seq(seen) /\ Len(G \o C) = Len(G) + Len(C)
        /\ \A k \in 1 .. Len(G) + Len(C) : (G \o C)[k] = IF k <= Len(G) THEN G[k]
                                                         ELSE C[k - Len(G)]
    BY <1>5, <2>1, ConcatProperties
  <2>3. ASSUME d \in seen
        PROVE  \E k \in DOMAIN (G \o C) : (G \o C)[k] = d
    <3>1. PICK k \in DOMAIN C : C[k] = d
      BY <1>6, <2>3
    <3>2. k \in Nat /\ Len(C) \in Nat /\ k > 0 /\ k <= Len(C)
      BY <1>5
    <3>3. /\ Len(G) + k \in 1 .. Len(G) + Len(C) /\ ~(Len(G) + k <= Len(G))
          /\ (Len(G) + k) - Len(G) = k
      BY <2>1, <3>2
    <3>4. (G \o C)[Len(G) + k] = d
      BY <2>2, <3>1, <3>3
    <3>5. Len(G) + k \in DOMAIN (G \o C)
      BY <2>2, <3>3
    <3> QED
      BY <3>4, <3>5
  <2> QED
    BY <2>2, <2>3 DEF G
<1> HIDE DEF order
<1>8. \A k \in DOMAIN order : order[k] \in seen
  BY <1>7
<1>9. ASSUME NEW k \in DOMAIN order
      PROVE  e(k) \in Events
  <2> DEFINE c == order[k]
  <2>1. c \in Dirs /\ Parent(c) \in Places
    BY <1>1, <1>2, <1>8, ParentIn
  <2>2. db.wd[Parent(c)] \in Int
    BY <1>1, <2>1
  <2> HIDE DEF c
  <2>3. [wd |-> db.wd[Parent(c)], mask |-> "DELETE_DIR", name |-> c] \in Events
    BY <2>1, <2>2 DEF Events, Gone
  <2> QED
    BY <2>3 DEF c
<1> HIDE DEF e
<1>10. F \in Seq(Events)
  <2>1. Len(order) \in Nat /\ DOMAIN order = 1 .. Len(order)
    BY <1>7
  <2>2. F \in [1 .. Len(order) -> Events]
    BY <1>9, <2>1
  <2> HIDE DEF F
  <2> QED
    BY <2>1, <2>2
<1>11. /\ F \in Seq(Events) /\ DOMAIN F = DOMAIN order
       /\ \A k \in DOMAIN order : order[k] \in seen
       /\ d \in seen => \E k \in DOMAIN order : order[k] = d
  BY <1>7, <1>8, <1>10
<1> QED
  BY <1>11, Zenon DEF F, e, order, A, B, C, inner, seen

\* With the firmware location watched, the package itself is among them.
LEMMA DeletedEvents ==
    ASSUME DiscoveryInv, WholeInv, NEW d \in Dirs, Parent(d) = Root, d \in fs,
           "rmtree" \in site.ops
    PROVE  LET seen == {c \in fs \cap Below(d) : db.wd[Parent(c)] # -1}
               inner == {c \in seen : Parent(c) = d}
               order == SetToSeq(seen \ (inner \cup {d})) \o SetToSeq(inner)
                            \o SetToSeq(seen \cap {d})
               F == [k \in DOMAIN order |->
                       [wd |-> db.wd[Parent(order[k])], mask |-> "DELETE_DIR",
                        name |-> order[k]]]
           IN  /\ F \in Seq(Events) /\ \A k \in DOMAIN F : EventOf(F[k])
               /\ \A p \in Tops : Leaving(F, p) <=> p = d
<1> DEFINE seen == {c \in fs \cap Below(d) : db.wd[Parent(c)] # -1}
           inner == {c \in seen : Parent(c) = d}
           order == SetToSeq(seen \ (inner \cup {d})) \o SetToSeq(inner)
                        \o SetToSeq(seen \cap {d})
           e(k) == [wd |-> db.wd[Parent(order[k])], mask |-> "DELETE_DIR",
                    name |-> order[k]]
           F == [k \in DOMAIN order |-> e(k)]
<1>1. site.dirs \subseteq Dirs /\ fs \subseteq site.dirs /\ db.wd[Root] = 1
  BY SiteFacts DEF DiscoveryInv, OnDisk, WholeInv, WatchRows
<1>2. /\ d \in Below(d) /\ \A c \in Dirs : c \in Below(d) /\ Parent(c) = Root => c = d
  BY BelowFacts
<1>3. d \in seen /\ seen \subseteq Below(d)
  BY <1>1, <1>2
<1>4. /\ F \in Seq(Events) /\ DOMAIN F = DOMAIN order
      /\ \A k \in DOMAIN order : order[k] \in seen
      /\ \E k \in DOMAIN order : order[k] = d
  BY <1>3, DeletedOrder, Zenon
<1> HIDE DEF seen, inner, order
<1>5. ASSUME NEW k \in DOMAIN order
      PROVE  F[k].mask = "DELETE_DIR" /\ F[k].name = order[k] /\ EventOf(F[k])
  <2>1. /\ F[k].mask = "DELETE_DIR" /\ F[k].name = order[k]
        /\ F[k].wd = db.wd[Parent(order[k])]
    OBVIOUS
  <2> HIDE DEF F
  <2> QED
    BY <1>1, <2>1 DEF EventOf
<1> HIDE DEF F, e
<1>6. ASSUME NEW p \in Tops
      PROVE  Leaving(F, p) <=> p = d
  <2>1. p \in Dirs /\ Parent(p) = Root
    BY <1>1 DEF Tops
  <2>2. Leaving(F, p) => p = d
    BY <1>2, <1>3, <1>4, <1>5, <2>1 DEF Leaving
  <2>3. Leaving(F, d)
    BY <1>4, <1>5 DEF Leaving, Gone
  <2> QED
    BY <2>2, <2>3
<1>7. /\ F \in Seq(Events) /\ \A k \in DOMAIN F : EventOf(F[k])
      /\ \A p \in Tops : Leaving(F, p) <=> p = d
  BY <1>4, <1>5, <1>6
<1> QED
  BY <1>7, Zenon DEF F, e, order, inner, seen

LEMMA DeleteWhole ==
    ASSUME DiscoveryInv, WholeInv, NEW d \in Dirs, rmtree(d),
           UNCHANGED <<site, rescan, batch, req, walk>>
    PROVE  WholeInv'
<1> DEFINE seen == {c \in fs \cap Below(d) : db.wd[Parent(c)] # -1}
           inner == {c \in seen : Parent(c) = d}
           order == SetToSeq(seen \ (inner \cup {d})) \o SetToSeq(inner)
                        \o SetToSeq(seen \cap {d})
           F == [k \in DOMAIN order |->
                   [wd |-> db.wd[Parent(order[k])], mask |-> "DELETE_DIR",
                    name |-> order[k]]]
<1>1. /\ OnDisk /\ DiskWhole /\ Sound(db)
      /\ Parent(d) = Root /\ d \in fs /\ "rmtree" \in site.ops /\ fs' = fs \ Below(d)
  BY DEF DiscoveryInv, WholeInv, rmtree, Operation
<1>2. /\ d \in Below(d) /\ Below(d) \subseteq Dirs
      /\ \A e \in Dirs : e \in Below(d) /\ Parent(e) = Root => e = d
  BY <1>1, BelowFacts
<1>3. DiskWhole'
  BY <1>1, DiskAfter DEF rmtree
<1>4. queue' = queue \o F
  BY Zenon DEF rmtree
<1>5. /\ F \in Seq(Events) /\ \A k \in DOMAIN F : EventOf(F[k])
      /\ \A p \in Tops : Leaving(F, p) <=> p = d
  BY <1>1, DeletedEvents
<1> HIDE DEF F
<1>6. /\ db'.watch = db.watch /\ db'.bases = db.bases /\ db'.next = db.next
      /\ db'.wd[Root] = db.wd[Root]
  BY <1>1, WatchesDropped DEF rmtree
<1>7. \A p \in Tops : p \in Dirs /\ Parent(p) = Root
  BY <1>1, SiteFacts DEF Tops, OnDisk
<1>8. d \in Tops
  BY <1>1 DEF OnDisk, Tops
<1>9. d \notin fs' /\ \A p \in Tops \ {d} : p \in fs' <=> p \in fs
  BY <1>1, <1>2, <1>7
<1> QED
  BY <1>3, <1>4, <1>5, <1>6, <1>8, <1>9, PackageChanged

LEMMA InstallerWhole ==
    ASSUME DiscoveryInv, Scope, WholeInv, Installer
    PROVE  WholeInv'
<1>1. PICK d \in Dirs :
         \/ mkdir(d) \/ open_file(d) \/ rename_file(d) \/ unlink(d) \/ rmdir(d)
         \/ rmtree(d) \/ move_in(d) \/ move_out(d) \/ close_file(d)
  BY DEF Installer
<1>2. UNCHANGED <<site, rescan, batch, req, walk>>
  BY DEF Installer
<1>3. site.ops \subseteq {"movein", "moveout", "rmtree"}
  BY DEF Scope, Whole
<1>4. ~(mkdir(d) \/ open_file(d) \/ rename_file(d) \/ unlink(d) \/ rmdir(d))
  BY <1>3 DEF mkdir, open_file, rename_file, unlink, rmdir, Operation
<1>5. ~close_file(d)
  BY DEF close_file, WholeInv, DiskWhole
<1> QED
  BY <1>1, <1>2, <1>4, <1>5, MoveWhole, DeleteWhole

\* A walk that begins has every package to visit.
LEMMA WalkAll ==
    ASSUME site \in Sites
    PROVE  Subdirs(Root) \in Seq(Tops) /\ \A p \in Tops : Queued(Subdirs(Root), p)
<1>1. Subdirs(Root) = SetToSeq(Tops)
  BY Zenon DEF Subdirs, Tops
<1>2. IsFiniteSet(Tops)
  BY DirsFinite DEF Tops
<1> QED
  BY <1>1, <1>2, SetToSeqFacts DEF Queued

\* threadFunc(): before the first walk nothing is listed.
LEMMA InitWhole ==
    ASSUME Init, Scope
    PROVE  WholeInv
<1>1. OnDisk /\ Sound(db) /\ site \in Sites /\ site.dirs \subseteq Dirs
  BY InitInv, SiteFacts DEF DiscoveryInv, OnDisk
<1>2. DiskWhole
  <2>1. ASSUME NEW d \in site.dirs
        PROVE  d \in fs <=> Home(d) \in fs
    <3> DEFINE p == Home(d)
    <3>1. p \in Dirs /\ Parent(p) = Root /\ d \in Below(p) /\ d \in Dirs
      BY <1>1, HomeFacts
    <3> HIDE DEF p
    <3>2. Below(p) \cap site.installed =
             IF p \in site.installed THEN Below(p) \cap site.dirs ELSE {}
      BY <3>1 DEF Scope, Whole
    <3>3. fs = site.installed
      BY DEF Init
    <3>4. d \in fs <=> p \in fs
      BY <3>1, <3>2, <3>3
    <3> QED
      BY <3>4 DEF p
  <2> QED
    BY <2>1 DEF DiskWhole, Init
<1>3. NULL \notin site.dirs /\ Root \notin site.dirs /\ NULL # Root
  BY <1>1, TreeAssumption
<1>4. WatchRows(db)
  <2> DEFINE W == [i \in Table |-> IF i = 1
                    THEN [NoWatch EXCEPT !.wd = 1, !.path = Root] ELSE NoWatch]
             D == [d \in Dirs \cup {Root} |-> IF d = Root THEN 1 ELSE -1]
  <2>1. db.watch = W /\ db.wd = D /\ db.next = 2
    BY DEF Init
  <2>2. /\ W[1].path = Root /\ W[1].wd = 1 /\ W[1].parent_name = NULL
        /\ \A k \in Table : k # 1 => W[k].path = NULL /\ W[k].wd = -1
    BY <1>1, SiteFacts DEF NoWatch
  <2>3. D[Root] = 1
    OBVIOUS
  <2> HIDE DEF W, D
  <2>4. 1 \in Table
    BY <1>1, SiteFacts
  <2> QED
    BY <1>3, <2>1, <2>2, <2>3, <2>4 DEF WatchRows, Top
<1>5. \A k \in Table : /\ db.bases[k].path = NULL
                       /\ \A j \in AccelIdx : db.bases[k].accel_list[j].path = NULL
  BY DEF Init, NoAccel
<1>6. Entries(db) /\ \A p : ~Held(db, p)
  BY <1>5 DEF Entries, EntryOf, ListOf, Held
<1>7. /\ batch = <<>> /\ queue = <<>> /\ walk.todo = Subdirs(Root) /\ walk.reg = NULL
      /\ req.pc = "walk" /\ Pending = <<>>
  <2>1. batch = <<>> /\ queue = <<>>
    BY DEF Init
  <2>2. walk = [todo |-> Subdirs(Root), reg |-> NULL] /\ req = [kind |-> "boot", pc |-> "walk"]
    BY DEF Init
  <2>3. Pending = <<>>
    BY <2>1 DEF Pending
  <2> QED
    BY <2>1, <2>2, <2>3
<1>8. EventsOf
  <2>1. site.max_batch \in Nat
    BY <1>1, SiteFacts DEF Site
  <2>2. Len(<<>>) = 0 /\ DOMAIN Pending = {}
    BY <1>7
  <2> QED
    BY <1>7, <2>1, <2>2 DEF EventsOf
<1>9. WalkOf
  BY <1>1, <1>7, WalkAll DEF WalkOf
<1>10. ASSUME NEW p \in Tops
       PROVE  Known(p)
  <2>1. Queued(walk.todo, p) /\ ~Held(db, p) /\ DOMAIN Pending = {}
    BY <1>1, <1>6, <1>7, WalkAll
  <2> QED
    BY <2>1 DEF Known, KnownIn, Returns
<1> QED
  BY <1>2, <1>4, <1>6, <1>8, <1>9, <1>10 DEF WholeInv

-----------------------------------------------------------------------------
(* The inotify thread.                                                     *)

LEMMA DiskSame ==
    ASSUME DiskWhole, UNCHANGED <<site, fs, file>>
    PROVE  DiskWhole'
BY DEF DiskWhole, FileName, IsVersal

LEMMA PendingTail ==
    ASSUME site \in Sites, EventsOf, batch # <<>>
    PROVE  /\ Pending \in Seq(Events) /\ Pending # <<>> /\ Pending[1] = batch[1]
           /\ Tail(batch) \in Seq(Events) /\ Len(Tail(batch)) <= site.max_batch
           /\ Tail(Pending) = Tail(batch) \o queue
<1> DEFINE m == Len(batch)
           n == Len(queue)
           P == Tail(Pending)
           Q == Tail(batch) \o queue
<1>1. batch \in Seq(Events) /\ queue \in Seq(Events) /\ Len(batch) <= site.max_batch
  BY DEF EventsOf
<1>2. m \in Nat /\ n \in Nat /\ m > 0
  BY <1>1, EmptySeq
<1>3. /\ Pending \in Seq(Events) /\ Len(Pending) = m + n
      /\ \A k \in 1 .. (m + n) : Pending[k] = IF k <= m THEN batch[k] ELSE queue[k - m]
  BY <1>1, ConcatProperties DEF Pending
<1>4. Pending # <<>> /\ Pending[1] = batch[1]
  BY <1>2, <1>3, EmptySeq
<1>5. /\ Tail(batch) \in Seq(Events) /\ Len(Tail(batch)) = m - 1
      /\ \A k \in 1 .. (m - 1) : Tail(batch)[k] = batch[k + 1]
  BY <1>1, HeadTailProperties
<1>6. /\ P \in Seq(Events) /\ Len(P) = m + n - 1
      /\ \A k \in 1 .. (m + n - 1) : P[k] = Pending[k + 1]
  BY <1>3, <1>4, HeadTailProperties
<1>7. /\ Q \in Seq(Events) /\ Len(Q) = m - 1 + n
      /\ \A k \in 1 .. (m - 1 + n) : Q[k] = IF k <= m - 1 THEN Tail(batch)[k]
                                            ELSE queue[k - (m - 1)]
  BY <1>1, <1>5, ConcatProperties
<1>8. Len(Tail(batch)) <= site.max_batch
  <2>1. site.max_batch \in Nat
    BY SiteFacts DEF Site
  <2> QED
    BY <1>1, <1>2, <1>5, <2>1
<1> HIDE DEF m, n, P, Q
<1>9. ASSUME NEW k \in 1 .. Len(P)
      PROVE  P[k] = Q[k]
  <2>1. k \in Nat /\ k + 1 \in 1 .. (m + n) /\ k \in 1 .. (m + n - 1)
        /\ k \in 1 .. (m - 1 + n)
    BY <1>2, <1>6
  <2>2. P[k] = IF k + 1 <= m THEN batch[k + 1] ELSE queue[(k + 1) - m]
    BY <1>3, <1>6, <2>1
  <2>3. CASE k <= m - 1
    <3>1. k \in 1 .. (m - 1) /\ k + 1 <= m
      BY <1>2, <2>1, <2>3
    <3> QED
      BY <1>5, <1>7, <2>1, <2>2, <2>3, <3>1
  <2>4. CASE ~(k <= m - 1)
    <3>1. ~(k + 1 <= m) /\ (k + 1) - m = k - (m - 1)
      BY <1>2, <2>1, <2>4
    <3> QED
      BY <1>7, <2>1, <2>2, <2>4, <3>1
  <2> QED
    BY <2>3, <2>4
<1>10. P = Q
  <2>1. Len(P) = Len(Q)
    BY <1>2, <1>6, <1>7
  <2> QED
    BY <1>6, <1>7, <1>9, <2>1, SeqEqual
<1> QED
  BY <1>3, <1>4, <1>5, <1>8, <1>10 DEF P, Q

\* A handler is done with the first event of the batch.
LEMMA HandledDone ==
    ASSUME DiscoveryInv, WholeInv, batch # <<>>, UNCHANGED <<site, fs, file, queue, req, walk>>,
           batch' = Tail(batch), WatchRows(db'), Entries(db'),
           \A p \in Tops : KnownIn(p, fs, db', Tail(Pending), rescan', walk)
    PROVE  WholeInv'
<1>1. DiskWhole' /\ EventsOf /\ WalkOf /\ site \in Sites
  BY DiskSame DEF WholeInv, DiscoveryInv, OnDisk
<1>2. /\ Pending \in Seq(Events) /\ Pending # <<>> /\ Tail(batch) \in Seq(Events)
      /\ Len(Tail(batch)) <= site.max_batch /\ Tail(Pending) = Tail(batch) \o queue
  BY <1>1, PendingTail
<1>3. \A k \in DOMAIN Tail(Pending) : EventOf(Tail(Pending)[k])
  BY <1>1, <1>2, FirstHandled DEF EventsOf
<1> DEFINE E == Tail(Pending)
<1>4. E = batch' \o queue' /\ \A k \in DOMAIN E : EventOf(E[k])
  BY <1>2, <1>3
<1>5. \A p \in Tops : KnownIn(p, fs', db', E, rescan', walk')
  OBVIOUS
<1> HIDE DEF E
<1>6. /\ batch' \in Seq(Events) /\ queue' \in Seq(Events) /\ Len(batch') <= site.max_batch
  BY <1>1, <1>2 DEF EventsOf
<1>7. /\ walk'.todo \in Seq(Tops) /\ (walk'.reg # NULL => Top(walk'.reg))
      /\ (req'.pc # "walk" => walk'.todo = <<>> /\ walk'.reg = NULL)
  BY <1>1 DEF WalkOf
<1> QED
  BY <1>1, <1>4, <1>5, <1>6, <1>7, WholeDone

\* The watch of an event is that of the firmware location if it is about a
\* package.
LEMMA WatchOfEvent ==
    ASSUME DiscoveryInv, WholeInv, batch # <<>>
    PROVE  LET e == batch[1]
           IN  /\ e \in Events /\ EventOf(e)
               /\ Parent(e.name) = Root => EventWatch = {db.watch[1]}
               /\ \A w \in EventWatch :
                     /\ w.parent_name # NULL => ~Top(w.path) /\ ~Top(e.name)
                     /\ WatchName(w) \in Path
<1> DEFINE e == batch[1]
<1>1. /\ EventsOf /\ WatchRows(db) /\ site \in Sites
  BY DEF WholeInv, DiscoveryInv, OnDisk
<1>2. e \in Events /\ EventOf(e)
  <2>1. e = Pending[1] /\ Pending \in Seq(Events) /\ Pending # <<>>
    BY <1>1, PendingTail
  <2>2. \A k \in DOMAIN Pending : EventOf(Pending[k])
    BY <1>1 DEF EventsOf
  <2> QED
    BY <2>1, <2>2, FirstHandled
<1> HIDE DEF e
<1>3. ASSUME Parent(e.name) = Root
      PROVE  EventWatch = {db.watch[1]}
  <2> DEFINE S == get_watch(db, e.wd)
  <2>1. e.wd = 1
    BY <1>2, <1>3 DEF EventOf
  <2>2. S = {1}
    <3>1. 1 \in Table
      BY <1>1, SiteFacts
    <3> QED
      BY <1>1, <2>1, <3>1 DEF get_watch, WatchRows
  <2>3. Lowest(S) = 1
    <3>1. 1 <= 1
      OBVIOUS
    <3> QED
      BY <2>2, <3>1 DEF Lowest
  <2>4. EventWatch = {db.watch[i] : i \in {k \in S : k = Lowest(S)}}
    BY Zenon DEF EventWatch, e
  <2> HIDE DEF S
  <2> QED
    BY <2>2, <2>3, <2>4
<1>4. ASSUME NEW w \in EventWatch
      PROVE  /\ w.parent_name # NULL => ~Top(w.path) /\ ~Top(e.name)
             /\ WatchName(w) \in Path
  <2>1. PICK k \in Table : w = db.watch[k]
    BY DEF EventWatch, get_watch
  <2>2. w.parent_name # NULL => ~Top(w.path)
    BY <1>1, <2>1 DEF WatchRows
  <2>3. Top(e.name) => w.parent_name = NULL
    BY <1>1, <1>3 DEF Top, WatchRows
  <2> QED
    BY <2>2, <2>3, EventWatchType
<1> QED
  BY <1>2, <1>3, <1>4, Zenon DEF e

\* Reading a batch keeps the events and their order.
LEMMA ReadSeqs ==
    ASSUME site \in Sites, NEW S, batch \in Seq(S), queue \in Seq(S), read_batch
    PROVE  /\ batch' \in Seq(S) /\ queue' \in Seq(S) /\ Len(batch') <= site.max_batch
           /\ batch' \o queue' = batch \o queue
<1> DEFINE n == Min({Len(queue), site.max_batch})
<1>1. batch' = SubSeq(queue, 1, n) /\ queue' = SubSeq(queue, n + 1, Len(queue))
  BY DEF read_batch
<1>2. Len(queue) \in Nat /\ site.max_batch \in Nat
  BY SiteFacts DEF Site
<1>3. n \in Nat /\ n <= Len(queue) /\ n <= site.max_batch
  <2> DEFINE a == Len(queue)
             b == site.max_batch
  <2>1. a \in Nat /\ b \in Nat
    BY <1>2
  <2> HIDE DEF a, b
  <2>2. \E x \in {a, b} : \A y \in {a, b} : x =< y
    <3>1. CASE a <= b
      BY <2>1, <3>1
    <3>2. CASE b <= a
      BY <2>1, <3>2
    <3> QED
      BY <2>1, <3>1, <3>2
  <2>3. Min({a, b}) \in {a, b} /\ \A y \in {a, b} : Min({a, b}) =< y
    BY <2>2 DEF Min
  <2> QED
    BY <2>1, <2>3 DEF a, b
<1> HIDE DEF n
<1>4. batch' \in Seq(S) /\ Len(batch') = n /\ queue' \in Seq(S)
  <2>1. \A i \in 1 .. n : queue[i] \in S
    BY <1>2, <1>3
  <2>2. \A i \in n + 1 .. Len(queue) : queue[i] \in S
    BY <1>2, <1>3
  <2>3. SubSeq(queue, 1, n) \in Seq(S) /\ Len(SubSeq(queue, 1, n)) = n
    BY <1>2, <1>3, <2>1, SubSeqProperties
  <2>4. SubSeq(queue, n + 1, Len(queue)) \in Seq(S)
    BY <1>2, <1>3, <2>2, SubSeqProperties
  <2> QED
    BY <1>1, <2>3, <2>4
<1>5. batch' \o queue' = batch \o queue
  <2>1. 1 \in 1 .. Len(queue) + 1 /\ n \in 1 - 1 .. Len(queue) /\ Len(queue) \in n .. Len(queue)
    BY <1>2, <1>3
  <2>2. SubSeq(queue, 1, n) \o SubSeq(queue, n + 1, Len(queue)) = SubSeq(queue, 1, Len(queue))
    BY <2>1, ConcatAdjacentSubSeq
  <2>3. SubSeq(queue, 1, Len(queue)) = queue /\ <<>> \o queue = queue
    BY SubSeqFull, ConcatEmptySeq
  <2>4. batch = <<>>
    BY DEF read_batch
  <2> QED
    BY <1>1, <2>2, <2>3, <2>4
<1>6. Len(batch') <= site.max_batch
  BY <1>3, <1>4
<1> QED
  BY <1>4, <1>5, <1>6

LEMMA ReadWhole ==
    ASSUME DiscoveryInv, WholeInv, read_batch
    PROVE  WholeInv'
<1>1. /\ EventsOf /\ WalkOf /\ site \in Sites /\ DiskWhole /\ WatchRows(db) /\ Entries(db)
  BY DEF WholeInv, DiscoveryInv, OnDisk
<1>2. UNCHANGED <<site, fs, file, db, rescan, req, walk>>
  BY DEF read_batch, disk
<1>3. /\ batch' \in Seq(Events) /\ queue' \in Seq(Events) /\ Len(batch') <= site.max_batch
      /\ Pending = batch' \o queue'
  BY <1>1, ReadSeqs DEF EventsOf, Pending
<1>4. \A k \in DOMAIN Pending : EventOf(Pending[k])
  BY <1>1 DEF EventsOf
<1>5. DiskWhole' /\ WatchRows(db') /\ Entries(db')
  BY <1>1, <1>2, DiskSame
<1>6. \A p \in Tops : KnownIn(p, fs', db', Pending, rescan', walk')
  BY <1>2 DEF WholeInv, Known
<1>7. /\ walk'.todo \in Seq(Tops) /\ (walk'.reg # NULL => Top(walk'.reg))
      /\ (req'.pc # "walk" => walk'.todo = <<>> /\ walk'.reg = NULL)
  BY <1>1, <1>2 DEF WalkOf
<1> QED
  BY <1>2, <1>3, <1>4, <1>5, <1>6, <1>7, WholeDone

LEMMA OneInBatch ==
    ASSUME site \in Sites, EventsOf, batch # <<>>, site.max_batch <= 1
    PROVE  Tail(batch) = <<>>
<1>1. batch \in Seq(Events) /\ Len(batch) <= site.max_batch /\ site.max_batch \in Nat
  BY SiteFacts DEF EventsOf, Site
<1>2. /\ Len(batch) \in Nat /\ Len(Tail(batch)) = Len(batch) - 1 /\ Len(Tail(batch)) \in Nat
      /\ Tail(batch) \in Seq(Events)
  BY <1>1, HeadTailProperties
<1>3. Len(Tail(batch)) = 0
  <2> DEFINE m == Len(batch)
             n == Len(Tail(batch))
  <2>1. m \in Nat /\ n \in Nat /\ n = m - 1 /\ m <= site.max_batch
    BY <1>1, <1>2
  <2> HIDE DEF m, n
  <2>2. n = 0
    BY <1>1, <2>1
  <2> QED
    BY <2>2 DEF n
<1> QED
  BY <1>2, <1>3, EmptySeq

\* Only the events of deleted directories inside a package may find their watch
\* gone, and such an event is alone in its batch.
LEMMA UnknownWhole ==
    ASSUME DiscoveryInv, Scope, WholeInv, unknown_watch
    PROVE  WholeInv'
<1> DEFINE e == batch[1]
<1>1. /\ EventsOf /\ site \in Sites /\ WatchRows(db) /\ Entries(db)
  BY DEF WholeInv, DiscoveryInv, OnDisk
<1>2. /\ batch # <<>> /\ batch' = <<>> /\ EventWatch = {}
      /\ UNCHANGED <<site, fs, file, queue, req, walk, db, rescan>>
  BY DEF unknown_watch, Event, drop_batch, inotify, disk
<1>3. e \in Events /\ EventOf(e) /\ Parent(e.name) # Root
  BY <1>2, WatchOfEvent
<1>4. /\ Pending \in Seq(Events) /\ Pending # <<>> /\ Pending[1] = e
      /\ Tail(batch) \in Seq(Events)
  BY <1>1, <1>2, PendingTail
<1> HIDE DEF e
<1>5. site.max_batch <= 1
  BY <1>3 DEF EventOf, Scope, EventsKept
<1>6. batch' = Tail(batch)
  BY <1>1, <1>2, <1>5, OneInBatch
<1>7. ASSUME NEW p \in Tops
      PROVE  KnownIn(p, fs, db', Tail(Pending), rescan', walk)
  <2>1. p # e.name
    BY <1>3 DEF Tops
  <2>2. KnownIn(p, fs, db, Pending, rescan, walk)
    BY DEF WholeInv, Known
  <2>3. /\ Returns(Pending, p) => Returns(Tail(Pending), p)
        /\ Leaving(Pending, p) => Leaving(Tail(Pending), p)
        /\ Announced(Pending, p) => Announced(Tail(Pending), p)
    BY <1>4, <2>1, FirstHandled
  <2> QED
    BY <1>2, <2>2, <2>3 DEF KnownIn
<1> QED
  BY <1>1, <1>2, <1>6, <1>7, HandledDone

\* A handler that keeps the entries and asks for a rescan.
LEMMA RescanDone ==
    ASSUME DiscoveryInv, WholeInv, batch # <<>>, UNCHANGED <<site, fs, file, queue, req, walk>>,
           batch' = Tail(batch), batch[1].mask = "MOVED_TO_DIR", Tidy(db, db', {}),
           rescan' = TRUE
    PROVE  WholeInv'
<1>1. EventsOf /\ site \in Sites
  BY DEF WholeInv, DiscoveryInv, OnDisk
<1>2. Pending \in Seq(Events) /\ Pending # <<>> /\ Pending[1] = batch[1]
  BY <1>1, PendingTail
<1>3. ASSUME NEW p \in Tops
      PROVE  KnownIn(p, fs, db', Tail(Pending), rescan', walk)
  <2>1. KnownIn(p, fs, db, Pending, rescan, walk)
    BY DEF WholeInv, Known
  <2>2. /\ Returns(Pending, p) => Returns(Tail(Pending), p)
        /\ Leaving(Pending, p) => Leaving(Tail(Pending), p)
    BY <1>2, FirstHandled DEF Gone
  <2>3. p \notin fs /\ Held(db', p) => Held(db, p)
    BY DEF Tidy
  <2> QED
    BY <2>1, <2>2, <2>3 DEF KnownIn
<1>4. WatchRows(db') /\ Entries(db')
  BY DEF Tidy
<1> QED
  BY <1>3, <1>4, HandledDone

\* The package a directory moved in is looked for, on JSON platforms.
LEMMA MovedBase ==
    ASSUME OnDisk, DiskWhole, Room, ~IsVersal, NEW t, Sound(t), WatchRows(t), Entries(t),
           NEW d \in Dirs, Parent(d) = Root, NEW i, i = findBaseDesign_path(t, d), i # 0,
           NEW pname \in Path
    PROVE  Tidy(t, Reload(t, i, pname, initBaseDesign(t.bases[i])), {})
<1>1. site \in Sites
  BY DEF OnDisk
<1>2. Matching(t, d) # {}
  BY DEF findBaseDesign_path
<1>3. Top(d)
  <2>1. PICK k \in Table : /\ t.bases[k].path # NULL
                           /\ \/ t.bases[k].path = d
                              \/ \E j \in AccelIdx : t.bases[k].accel_list[j].path = d
    BY <1>2 DEF Matching
  <2> DEFINE p == t.bases[k].path
  <2>2. Top(p) /\ ListOf(t.bases[k].accel_list, Want(p))
    BY <2>1 DEF Entries, EntryOf
  <2>3. Want(p) \subseteq site.dirs
    BY <2>2 DEF Want, Accels, Inside, Top
  <2>4. d # NULL
    BY TreeAssumption
  <2> HIDE DEF p
  <2>5. d = p \/ d \in Want(p)
    BY <2>1, <2>2, <2>4 DEF ListOf, p
  <2> QED
    BY <2>2, <2>3, <2>5 DEF Top
<1>4. i \in Table /\ t.bases[i].path = d
  <2>1. PICK k \in Table : t.bases[k].path = d
    BY <1>1, <1>3, FindOf
  <2>2. i = k
    BY <1>1, <1>3, <2>1, FindOf
  <2> QED
    BY <2>1, <2>2
<1>5. init_base_design(t.bases[i]) = initBaseDesign(t.bases[i])
  BY DEF init_base_design
<1>6. Tidy(t, Reload(t, i, pname, init_base_design(t.bases[i])), {})
  BY <1>3, <1>4, RegisterOf
<1> QED
  BY <1>5, <1>6

LEMMA MovedInWhole ==
    ASSUME DiscoveryInv, Scope, WholeInv, dir_moved_in
    PROVE  WholeInv'
<1> DEFINE e == batch[1]
           t == assign_list_ids(db)
           i == findBaseDesign_path(t, e.name)
<1>1. /\ EventsOf /\ OnDisk /\ site \in Sites /\ Sound(db) /\ WatchRows(db) /\ Entries(db)
      /\ DiskWhole /\ Room
  BY DEF WholeInv, DiscoveryInv, OnDisk, Scope
<1>2. /\ batch # <<>> /\ e.mask = "MOVED_TO_DIR" /\ e.name \in Dirs /\ rescan' = TRUE
      /\ UNCHANGED <<site, fs, file, queue, req, walk>>
  BY DEF dir_moved_in, Event, MovedIn, inotify, disk
<1>3. EventOf(e) /\ \A w \in EventWatch : WatchName(w) \in Path
  BY <1>2, WatchOfEvent
<1>4. Parent(e.name) = Root
  BY <1>2, <1>3 DEF EventOf
<1>5. PICK w \in EventWatch :
         \/ IsVersal /\ batch' = Tail(batch) /\ db' = t
         \/ ~IsVersal /\ BaseChanged(e.name, WatchName(w))
  BY DEF dir_moved_in, next_event
<1>6. BaseChanged(e.name, WatchName(w)) =>
         \/ i = 0 /\ batch' = <<>> /\ db' = t
         \/ /\ i # 0 /\ batch' = Tail(batch)
            /\ db' = Reload(t, i, WatchName(w), initBaseDesign(t.bases[i]))
  BY DEF BaseChanged, drop_batch, next_event
<1>7. Sound(t) /\ Tidy(db, t, {})
  BY <1>1, AssignSound, AssignTidy
<1> HIDE DEF t, i
<1>8. batch' = Tail(batch)
  <2>1. CASE IsVersal
    BY <1>5, <2>1
  <2>2. CASE ~IsVersal
    <3>1. site.max_batch <= 1
      BY <2>2 DEF Scope, EventsKept
    <3>2. Tail(batch) = <<>>
      BY <1>1, <1>2, <3>1, OneInBatch
    <3> QED
      BY <1>5, <1>6, <2>2, <3>2
  <2> QED
    BY <2>1, <2>2
<1>9. Tidy(db, db', {})
  <2>1. CASE db' = t
    BY <1>7, <2>1
  <2>2. CASE /\ ~IsVersal /\ i # 0
             /\ db' = Reload(t, i, WatchName(w), initBaseDesign(t.bases[i]))
    <3>1. WatchRows(t) /\ Entries(t)
      BY <1>7 DEF Tidy
    <3>2. WatchName(w) \in Path
      BY <1>3
    <3>3. i = findBaseDesign_path(t, e.name)
      BY DEF i
    <3>4. Tidy(t, db', {})
      BY <1>1, <1>2, <1>4, <1>7, <2>2, <3>1, <3>2, <3>3, MovedBase
    <3> QED
      BY <1>7, <3>4, TidyTidy
  <2> QED
    BY <1>5, <1>6, <2>1, <2>2
<1> QED
  BY <1>2, <1>8, <1>9, RescanDone

LEMMA RemovedWhole ==
    ASSUME DiscoveryInv, WholeInv, dir_removed
    PROVE  WholeInv'
<1> DEFINE e == batch[1]
           d == e.name
<1>1. /\ EventsOf /\ site \in Sites /\ Sound(db) /\ WatchRows(db) /\ Entries(db)
  BY DEF WholeInv, DiscoveryInv, OnDisk
<1>2. /\ batch # <<>> /\ e.mask \in Gone /\ d \in Dirs /\ rescan' = rescan
      /\ UNCHANGED <<site, fs, file, queue, req, walk>> /\ batch' = Tail(batch)
  BY DEF dir_removed, Event, inotify, disk, next_event, Gone
<1>3. PICK w \in EventWatch :
         LET t == IF w.parent_name = NULL THEN remove_base_design(db, d)
                                          ELSE remove_accel(db, d, w.path)
         IN  db' = assign_list_ids(remove_watch(t, d))
  BY DEF dir_removed
<1>4. w.parent_name # NULL => ~Top(w.path) /\ ~Top(d)
  BY <1>2, WatchOfEvent
<1>5. Pending \in Seq(Events) /\ Pending # <<>> /\ Pending[1] = e
  BY <1>1, <1>2, PendingTail
<1> HIDE DEF e, d
<1>6. Tidy(db, db', {d}) /\ \A q : Held(db', q) => Held(db, q) /\ q # d
  BY <1>1, <1>2, <1>3, <1>4, RemovedOf
<1>7. ASSUME NEW p \in Tops
      PROVE  KnownIn(p, fs, db', Tail(Pending), rescan', walk)
  <2>1. KnownIn(p, fs, db, Pending, rescan, walk)
    BY DEF WholeInv, Known
  <2>2. /\ Returns(Pending, p) => Returns(Tail(Pending), p)
        /\ Returns(Pending, p) /\ p = d => Announced(Tail(Pending), p)
        /\ Leaving(Pending, p) /\ p # d => Leaving(Tail(Pending), p)
        /\ Announced(Pending, p) => Announced(Tail(Pending), p)
    BY <1>2, <1>5, FirstHandled DEF d, Gone
  <2>3. /\ Held(db', p) => Held(db, p) /\ p # d
        /\ p # d /\ p \in fs /\ Fresh(db, p) => Fresh(db', p)
    BY <1>6 DEF Tidy
  <2> QED
    BY <1>2, <2>1, <2>2, <2>3 DEF KnownIn
<1>8. WatchRows(db') /\ Entries(db')
  BY <1>6 DEF Tidy
<1> QED
  BY <1>2, <1>7, <1>8, HandledDone

LEMMA InotifyWhole ==
    ASSUME DiscoveryInv, Scope, WholeInv, InotifyThread
    PROVE  WholeInv'
<1>1. batch # <<>> => batch[1].mask \in Gone \cup {"MOVED_TO_DIR"} /\ batch[1].name \in Dirs
  BY WatchOfEvent DEF Events
<1>2. ~(dir_created \/ shell_written \/ accel_written \/ handle_pdi_event \/ other_file)
  BY <1>1 DEF dir_created, shell_written, accel_written, handle_pdi_event, other_file,
              Event, Gone
<1> QED
  BY <1>2, ReadWhole, UnknownWhole, MovedInWhole, RemovedWhole DEF InotifyThread

-----------------------------------------------------------------------------
(* The request thread.                                                     *)

LEMMA ServedDone ==
    ASSUME DiscoveryInv, WholeInv, UNCHANGED request, WatchRows(db'), Entries(db'),
           walk'.todo \in Seq(Tops), walk'.reg # NULL => Top(walk'.reg),
           req'.pc # "walk" => walk'.todo = <<>> /\ walk'.reg = NULL,
           \A p \in Tops : KnownIn(p, fs, db', Pending, rescan', walk')
    PROVE  WholeInv'
<1>1. UNCHANGED <<site, fs, file, queue, batch>>
  BY DEF request, disk
<1>2. DiskWhole' /\ EventsOf
  BY <1>1, DiskSame DEF WholeInv
<1>3. /\ batch' \in Seq(Events) /\ queue' \in Seq(Events) /\ Len(batch') <= site.max_batch
      /\ \A k \in DOMAIN Pending : EventOf(Pending[k])
  BY <1>1, <1>2 DEF EventsOf
<1>4. Pending = batch' \o queue'
  BY <1>1 DEF Pending
<1>5. \A p \in Tops : KnownIn(p, fs', db', Pending, rescan', walk')
  BY <1>1
<1> QED
  BY <1>1, <1>2, <1>3, <1>4, <1>5, WholeDone

LEMMA BeginWhole ==
    ASSUME DiscoveryInv, WholeInv, NEW kind, begin_request(kind)
    PROVE  WholeInv'
<1>1. /\ UNCHANGED <<request, db>> /\ rescan' = FALSE /\ req.pc = "idle"
      /\ walk' = [todo |-> IF rescan THEN Subdirs(Root) ELSE <<>>, reg |-> NULL]
      /\ req'.pc = IF rescan THEN "walk" ELSE "serve"
  BY DEF begin_request, Begin
<1>2. /\ WatchRows(db') /\ Entries(db') /\ site \in Sites /\ walk.todo = <<>> /\ walk.reg = NULL
  BY <1>1 DEF WholeInv, WalkOf, DiscoveryInv, OnDisk
<1>3. /\ walk'.todo = (IF rescan THEN Subdirs(Root) ELSE <<>>) /\ walk'.reg = NULL
  BY <1>1
<1>4. Subdirs(Root) \in Seq(Tops) /\ \A p \in Tops : Queued(Subdirs(Root), p)
  BY <1>2, WalkAll
<1>5. walk'.todo \in Seq(Tops)
  BY <1>3, <1>4
<1>6. ASSUME NEW p \in Tops
      PROVE  KnownIn(p, fs, db', Pending, rescan', walk')
  <2>1. KnownIn(p, fs, db, Pending, rescan, walk)
    BY DEF WholeInv, Known
  <2>2. p # NULL
    BY <1>2, SiteFacts, TreeAssumption DEF Tops
  <2>3. ~Queued(walk.todo, p)
    BY <1>2 DEF Queued
  <2>4. rescan => Queued(walk'.todo, p)
    BY <1>3, <1>4
  <2> QED
    BY <1>1, <1>2, <2>1, <2>2, <2>3, <2>4 DEF KnownIn
<1>7. req'.pc # "walk" => walk'.todo = <<>> /\ walk'.reg = NULL
  BY <1>1, <1>3
<1> QED
  BY <1>1, <1>2, <1>3, <1>5, <1>6, <1>7, ServedDone

LEMMA FirstVisited ==
    ASSUME NEW q \in Seq(Tops), q # <<>>
    PROVE  /\ Head(q) \in Tops /\ Tail(q) \in Seq(Tops)
           /\ \A p : Queued(q, p) => p = Head(q) \/ Queued(Tail(q), p)
<1>1. /\ Head(q) \in Tops /\ Tail(q) \in Seq(Tops) /\ Len(Tail(q)) = Len(q) - 1
      /\ \A k \in 1 .. Len(Tail(q)) : Tail(q)[k] = q[k + 1]
  BY HeadTailProperties
<1>2. ASSUME NEW p, Queued(q, p), p # Head(q)
      PROVE  Queued(Tail(q), p)
  <2>1. PICK k \in DOMAIN q : q[k] = p
    BY <1>2 DEF Queued
  <2>2. Len(q) \in Nat /\ k \in 1 .. Len(q) /\ k # 1
    BY <1>2, <2>1
  <2>3. k - 1 \in 1 .. Len(Tail(q)) /\ (k - 1) + 1 = k
    BY <1>1, <2>2
  <2>4. Tail(q)[k - 1] = p
    BY <1>1, <2>1, <2>3
  <2>5. DOMAIN Tail(q) = 1 .. Len(Tail(q))
    BY <1>1
  <2> QED
    BY <2>3, <2>4, <2>5 DEF Queued
<1> QED
  BY <1>1, <1>2

\* The next package of the walk is skipped if it is not there, else it is a
\* base, gets its watch and is registered next.
LEMMA VisitWhole ==
    ASSUME DiscoveryInv, Scope, WholeInv, accel_dir_add
    PROVE  WholeInv'
<1> DEFINE d == Head(walk.todo)
           w == WatchForWalk(d)
<1>1. /\ OnDisk /\ site \in Sites /\ DiskWhole /\ Room /\ WatchRows(db) /\ Entries(db) /\ WalkOf
      /\ Walking(walk)
  BY DEF WholeInv, DiscoveryInv, OnDisk, Scope
<1>2. /\ req.pc = "walk" /\ walk.reg = NULL /\ walk.todo # <<>>
      /\ UNCHANGED <<request, rescan, req>>
  BY DEF accel_dir_add
<1>3. /\ d \in Tops /\ Tail(walk.todo) \in Seq(Tops)
      /\ \A p : Queued(walk.todo, p) => p = d \/ Queued(Tail(walk.todo), p)
  BY <1>1, <1>2, FirstVisited DEF WalkOf
<1>4. \/ d \notin fs /\ walk' = [walk EXCEPT !.todo = Tail(@)] /\ db' = db
      \/ d \in fs /\ ~w.ok
      \/ d \in fs /\ w.ok /\ walk' = [todo |-> Tail(walk.todo), reg |-> d] /\ db' = w.t
      \/ d \in fs /\ ~dir_is_base_design(d)
  BY DEF accel_dir_add
<1> HIDE DEF d
<1>5. ASSUME d \in fs
      PROVE  w.ok /\ WatchRows(w.t) /\ w.t.bases = db.bases
  BY <1>1, <1>3, <1>5, WalkWatchRows DEF Top, Tops
<1>6. d \in fs => dir_is_base_design(d)
  <2>1. d \in Dirs /\ Parent(d) = Root
    BY <1>1, <1>3, SiteFacts DEF Tops
  <2>2. Kind[d] \in {"base", "rpu"}
    BY <2>1, KindFacts, TreeAssumption
  <2>3. CASE Kind[d] = "base"
    <3>1. FileName(d) \in {"pdi", "shell.json"}
      BY <2>3 DEF FileName
    <3>2. FileName(d) # NULL
      BY <3>1, TreeAssumption
    <3> QED
      BY <1>1, <2>1, <3>1, <3>2 DEF DiskWhole, dir_is_base_design
  <2> QED
    BY <2>2, <2>3 DEF dir_is_base_design
<1> HIDE DEF w
<1>7. /\ walk'.todo = Tail(walk.todo)
      /\ \/ d \notin fs /\ walk'.reg = NULL /\ db' = db
         \/ d \in fs /\ walk'.reg = d /\ db' = w.t
  <2>1. CASE d \notin fs
    BY <1>1, <1>2, <1>4, <2>1 DEF Walking
  <2>2. CASE d \in fs
    <3>1. w.ok /\ dir_is_base_design(d)
      BY <1>5, <1>6, <2>2
    <3>2. walk' = [todo |-> Tail(walk.todo), reg |-> d] /\ db' = w.t
      BY <1>4, <2>2, <3>1, Zenon
    <3> QED
      BY <2>2, <3>2
  <2> QED
    BY <2>1, <2>2
<1>8. db'.bases = db.bases /\ WatchRows(db')
  BY <1>1, <1>5, <1>7
<1>9. Entries(db') /\ \A p : (Held(db', p) <=> Held(db, p)) /\ (Fresh(db', p) <=> Fresh(db, p))
  BY <1>1, <1>8 DEF Entries, Held, Fresh
<1>10. ASSUME NEW p \in Tops
       PROVE  KnownIn(p, fs, db', Pending, rescan', walk')
  <2>1. KnownIn(p, fs, db, Pending, rescan, walk)
    BY DEF WholeInv, Known
  <2>2. p # NULL
    BY <1>1, SiteFacts, TreeAssumption DEF Tops
  <2> QED
    BY <1>2, <1>3, <1>7, <1>9, <2>1, <2>2 DEF KnownIn
<1>11. walk'.todo \in Seq(Tops) /\ (walk'.reg # NULL => Top(walk'.reg))
  BY <1>3, <1>7 DEF Top, Tops
<1>12. req'.pc = "walk"
  BY <1>2
<1> QED
  BY <1>2, <1>8, <1>9, <1>10, <1>11, <1>12, ServedDone

LEMMA RegisterWhole ==
    ASSUME DiscoveryInv, Scope, WholeInv, register_base
    PROVE  WholeInv'
<1> DEFINE p == walk.reg
           t == add_base_design(db, p)
           i == findBaseDesign_path(t, p)
           u == Reload(t, i, t.bases[i].path, init_base_design(t.bases[i]))
<1>1. /\ OnDisk /\ site \in Sites /\ DiskWhole /\ Room /\ Sound(db) /\ WatchRows(db)
      /\ Entries(db) /\ WalkOf /\ Walking(walk)
  BY DEF WholeInv, DiscoveryInv, OnDisk, Scope
<1>2. /\ req.pc = "walk" /\ p # NULL /\ walk' = [walk EXCEPT !.reg = NULL]
      /\ db' = (IF i = 0 THEN t ELSE u) /\ UNCHANGED <<request, rescan, req>>
  BY DEF register_base
<1>3. Top(p) /\ p \in Dirs
  BY <1>1, <1>2, SiteFacts DEF WalkOf, Top
<1>4. Sound(t)
  BY <1>1, <1>3, AddBaseSound
<1>5. Tidy(db, t, {}) /\ \E k \in Table : t.bases[k].path = p
  BY <1>1, <1>3, AddBaseOf
<1> HIDE DEF p, t
<1>6. WatchRows(t) /\ Entries(t)
  BY <1>5 DEF Tidy
<1>7. i \in Table /\ t.bases[i].path = p
  <2>1. PICK k \in Table : t.bases[k].path = p
    BY <1>5
  <2>2. i = k
    BY <1>1, <1>3, <1>4, <1>6, <2>1, FindOf
  <2> QED
    BY <2>1, <2>2
<1> HIDE DEF i
<1>8. Tidy(t, u, {}) /\ (p \in fs => Fresh(u, p))
  <2>1. t.bases[i].path \in Path
    BY <1>3, <1>7 DEF Path
  <2> QED
    BY <1>1, <1>3, <1>4, <1>6, <1>7, <2>1, RegisterOf
<1> HIDE DEF u
<1>9. db' = u
  <2>1. i # 0
    BY <1>7 DEF Table
  <2> QED
    BY <1>2, <2>1
<1>10. Tidy(db, db', {}) /\ (p \in fs => Fresh(db', p))
  BY <1>5, <1>8, <1>9, TidyTidy
<1>11. walk'.todo = walk.todo /\ walk'.reg = NULL
  BY <1>1, <1>2 DEF Walking
<1>12. ASSUME NEW q \in Tops
       PROVE  KnownIn(q, fs, db', Pending, rescan', walk')
  <2>1. KnownIn(q, fs, db, Pending, rescan, walk)
    BY DEF WholeInv, Known
  <2>2. /\ q \notin fs /\ Held(db', q) => Held(db, q)
        /\ q \in fs /\ Fresh(db, q) => Fresh(db', q)
    BY <1>10 DEF Tidy
  <2> QED
    BY <1>2, <1>10, <1>11, <2>1, <2>2 DEF KnownIn, p
<1>13. WatchRows(db') /\ Entries(db')
  BY <1>10 DEF Tidy
<1>14. /\ walk'.todo \in Seq(Tops) /\ req'.pc = "walk"
  BY <1>1, <1>2, <1>11 DEF WalkOf
<1> QED
  BY <1>2, <1>11, <1>12, <1>13, <1>14, ServedDone

LEMMA RequestWhole ==
    ASSUME DiscoveryInv, Scope, WholeInv, RequestThread
    PROVE  WholeInv'
<1>1. /\ site \in Sites /\ Sound(db) /\ WatchRows(db) /\ Entries(db) /\ WalkOf
  BY DEF WholeInv, DiscoveryInv, OnDisk
<1>2. \A p \in Tops : KnownIn(p, fs, db, Pending, rescan, walk)
  BY DEF WholeInv, Known
<1>3. CASE begin_request("list") \/ begin_request("load")
  BY <1>3, BeginWhole
<1>4. CASE accel_dir_add \/ register_base
  BY <1>4, VisitWhole, RegisterWhole
<1>5. CASE walk_done
  <2>1. /\ UNCHANGED <<request, db, rescan, walk>> /\ walk.todo = <<>> /\ walk.reg = NULL
    BY <1>5 DEF walk_done
  <2> QED
    BY <1>1, <1>2, <2>1, ServedDone DEF WalkOf
<1>6. CASE boot_done \/ list_ids
  <2>1. /\ UNCHANGED <<request, rescan, walk>> /\ req.pc = "serve"
        /\ db' = assign_list_ids(db)
    BY <1>6 DEF boot_done, list_ids
  <2>2. Tidy(db, db', {})
    BY <1>1, <2>1, AssignTidy
  <2>3. WatchRows(db') /\ Entries(db')
    BY <2>2 DEF Tidy
  <2>4. \A p \in Tops : KnownIn(p, fs, db', Pending, rescan', walk')
    BY <1>2, <2>1, <2>2 DEF KnownIn, Tidy
  <2> QED
    BY <1>1, <2>1, <2>3, <2>4, ServedDone DEF WalkOf
<1>7. CASE listAccelerators \/ load_by_name
  <2>1. UNCHANGED <<request, db, rescan, walk>> /\ req.pc # "walk"
    BY <1>7 DEF listAccelerators, load_by_name
  <2> QED
    BY <1>1, <1>2, <2>1, ServedDone DEF WalkOf
<1>8. CASE load_by_id \/ unload
  <2>1. UNCHANGED <<request, db, rescan, req, walk>>
    BY <1>8 DEF load_by_id, unload
  <2> QED
    BY <1>1, <1>2, <2>1, ServedDone DEF WalkOf
<1> QED
  BY <1>3, <1>4, <1>5, <1>6, <1>7, <1>8 DEF RequestThread

LEMMA SameScope ==
    ASSUME [Next]_vars
    PROVE  site' = site /\ (Scope' => Scope)
<1>1. site' = site
  <2>1. CASE Installer
    BY <2>1 DEF Installer
  <2>2. CASE InotifyThread
    BY <2>2 DEF InotifyThread, read_batch, unknown_watch, dir_created, shell_written,
                dir_moved_in, accel_written, handle_pdi_event, other_file, dir_removed,
                inotify, disk
  <2>3. CASE RequestThread
    BY <2>3 DEF RequestThread, begin_request, accel_dir_add, register_base, walk_done,
                boot_done, list_ids, listAccelerators, load_by_name, load_by_id, unload,
                request, disk
  <2>4. CASE UNCHANGED vars
    BY <2>4 DEF vars
  <2> QED
    BY <2>1, <2>2, <2>3, <2>4 DEF Next
<1> QED
  BY <1>1 DEF Scope, Whole, Room, EventsKept, IsVersal

LEMMA NextWhole ==
    ASSUME DiscoveryInv, Scope => WholeInv, [Next]_vars
    PROVE  (Scope => WholeInv)'
<1> SUFFICES ASSUME Scope'
             PROVE  WholeInv'
  OBVIOUS
<1>1. site' = site /\ Scope /\ WholeInv
  BY SameScope
<1>2. CASE UNCHANGED vars
  <2>1. UNCHANGED <<request, db, rescan, req, walk>>
    BY <1>2 DEF vars, request, disk
  <2> QED
    BY <1>1, <2>1, ServedDone DEF WholeInv, WalkOf, Known
<1> QED
  BY <1>1, <1>2, InstallerWhole, InotifyWhole, RequestWhole DEF Next

\* Where packages come and go as a whole, the tables have room and no event is
\* dropped, every package is known.
LEMMA WholeInvariant == Spec => [](Scope => WholeInv)
<1>1. Init => (Scope => WholeInv)
  BY InitWhole
<1>2. DiscoveryInv /\ (Scope => WholeInv) /\ [Next]_vars => (Scope => WholeInv)'
  BY NextWhole
<1> QED
  BY <1>1, <1>2, DiscoveryInvariant, PTL DEF Spec

-----------------------------------------------------------------------------
(* What is listed when nothing is under way.                               *)

LEMMA SettledKnown ==
    ASSUME DiscoveryInv, WholeInv, Settled, NEW p \in Tops
    PROVE  (p \in fs => Fresh(db, p)) /\ (Held(db, p) => p \in fs)
<1>1. /\ batch = <<>> /\ queue = <<>> /\ ~rescan /\ walk.todo = <<>> /\ walk.reg = NULL
  BY DEF Settled, WholeInv, WalkOf
<1>2. DOMAIN Pending = {}
  BY <1>1 DEF Pending
<1>3. KnownIn(p, fs, db, Pending, rescan, walk)
  BY DEF WholeInv, Known
<1>4. p # NULL
  BY SiteFacts, TreeAssumption DEF Tops, DiscoveryInv, OnDisk
<1>5. ~Queued(walk.todo, p) /\ ~Announced(Pending, p) /\ ~Leaving(Pending, p)
  BY <1>1, <1>2 DEF Queued, Announced, Leaving
<1> QED
  BY <1>1, <1>3, <1>4, <1>5 DEF KnownIn

\* What is on disk of a package that is there.
LEMMA OnDiskInside ==
    ASSUME OnDisk, DiskWhole, NEW p \in Tops, p \in fs, NEW a \in Inside(p)
    PROVE  /\ a \in Dirs /\ a \in fs /\ Parent(a) = p
           /\ Kind[p] = "rpu" => Kind[a] = "rpuslot" /\ file[a] = "full"
           /\ Kind[p] # "rpu" => Kind[p] = "base" /\ file[p] = "full" /\ Kind[a] = "accel"
           /\ \A s \in Inside(a) : /\ s \in fs /\ s \in Dirs /\ Parent(s) = a
                                   /\ Kind[s] = "slot" /\ file[s] = "full"
<1>1. /\ p \in Dirs /\ p \in site.dirs /\ Parent(p) = Root /\ a \in Dirs /\ a \in site.dirs
      /\ Parent(a) = p /\ p # Root
  BY SiteFacts, TreeAssumption DEF OnDisk, Tops, Inside
<1>2. \A d \in site.dirs : (d \in fs <=> Home(d) \in fs)
  BY DEF DiskWhole
<1>3. Home(p) = p /\ Home(a) = p
  BY <1>1 DEF Home
<1>4. a \in fs
  BY <1>1, <1>2, <1>3
<1>5. /\ Kind[p] \in {"base", "rpu"}
      /\ <<Kind[p], Kind[a]>> \in
             {<<"base", "accel">>, <<"accel", "slot">>, <<"rpu", "rpuslot">>}
  BY <1>1, KindFacts, TreeAssumption
<1>6. \A d \in Dirs : d \in fs /\ Kind[d] \in {"base", "slot", "rpuslot"} => file[d] = "full"
  BY TreeAssumption DEF DiskWhole, FileName
<1>7. ASSUME NEW s \in Inside(a)
      PROVE  /\ s \in fs /\ s \in Dirs /\ Parent(s) = a
             /\ Kind[s] = "slot" /\ file[s] = "full"
  <2>1. s \in Dirs /\ s \in site.dirs /\ Parent(s) = a /\ a # Root
    BY <1>1, SiteFacts, TreeAssumption DEF OnDisk, Inside
  <2>2. <<Kind[a], Kind[s]>> \in
             {<<"base", "accel">>, <<"accel", "slot">>, <<"rpu", "rpuslot">>}
    BY <2>1, KindFacts
  <2>3. Kind[s] = "slot"
    BY <1>5, <2>2
  <2>4. Home(s) = p
    BY <1>1, <2>1 DEF Home
  <2> QED
    BY <1>2, <1>6, <2>1, <2>3, <2>4
<1> QED
  BY <1>1, <1>4, <1>5, <1>6, <1>7

\* The rows a package is to have are the ones expected of it.
LEMMA WantExpected ==
    ASSUME OnDisk, DiskWhole, NEW p \in Tops, p \in fs
    PROVE  Want(p) \subseteq Expected
<1>1. /\ p \in Dirs /\ Parent(p) = Root /\ fs \subseteq site.dirs
  BY SiteFacts DEF OnDisk, Tops
<1>2. Kind[p] \in {"base", "rpu"}
  BY <1>1, KindFacts, TreeAssumption
<1>3. CASE Kind[p] = "rpu"
  <2>1. Want(p) = Inside(p)
    BY <1>3 DEF Want
  <2> QED
    BY <1>3, <2>1, OnDiskInside DEF Expected
<1>4. CASE Kind[p] = "base"
  <2>1. file[p] = "full"
    BY <1>1, <1>4, TreeAssumption DEF DiskWhole, FileName
  <2>2. CompleteBase(p)
    BY <1>4, <2>1 DEF CompleteBase
  <2>3. CASE Flat(p)
    <3>1. Want(p) = {p}
      BY <1>4, <2>3 DEF Want
    <3>2. ASSUME IsVersal, NEW a \in fs, Parent(a) = p
          PROVE  SlotsOnDisk(a) = {}
      <4>1. a \in Inside(p) /\ Inside(a) = {}
        BY <1>1, <2>3, <3>2 DEF Inside, Flat, Accels
      <4> QED
        BY <1>1, <4>1 DEF SlotsOnDisk, Inside
    <3>3. ~IsVersal => Shell[p].type = "FLAT"
      BY <2>3 DEF Flat
    <3>4. p \in Expected
      BY <2>2, <3>2, <3>3 DEF Expected
    <3> QED
      BY <3>1, <3>4
  <2>4. CASE ~Flat(p)
    <3>1. Want(p) = Accels(p)
      BY <1>4, <2>4 DEF Want
    <3>2. ASSUME NEW a \in Accels(p)
          PROVE  a \in Expected
      <4>1. a \in Inside(p)
        BY <3>2 DEF Accels
      <4>2. PICK s : s \in Inside(a)
        BY <3>2 DEF Accels
      <4>3. a \in fs /\ Parent(a) = p /\ Kind[a] = "accel"
        BY <1>4, <4>1, OnDiskInside
      <4>4. s \in fs /\ Parent(s) = a /\ file[s] = "full"
        BY <4>1, <4>2, OnDiskInside
      <4>5. SlotsOnDisk(a) # {}
        BY <4>4 DEF SlotsOnDisk
      <4> QED
        BY <2>2, <4>3, <4>5 DEF Expected
    <3> QED
      BY <3>1, <3>2
  <2> QED
    BY <2>3, <2>4
<1> QED
  BY <1>2, <1>3, <1>4

LEMMA ExpectedWant ==
    ASSUME OnDisk, DiskWhole, PackagesFit, NEW x \in Expected
    PROVE  \E p \in Tops : p \in fs /\ x \in Want(p)
<1>1. /\ site \in Sites /\ fs \subseteq site.dirs /\ site.dirs \subseteq Dirs
  BY SiteFacts DEF OnDisk
<1>2. \A d \in Dirs : Kind[d] \in {"base", "rpu"} => Parent(d) = Root
  BY KindFacts
<1>3. CASE x \in fs /\ Kind[x] = "accel" /\ CompleteBase(Parent(x)) /\ SlotsOnDisk(x) # {}
  <2> DEFINE p == Parent(x)
  <2>1. p \in fs /\ Kind[p] = "base" /\ p \in Tops
    BY <1>1, <1>2, <1>3 DEF CompleteBase, Tops
  <2> HIDE DEF p
  <2>2. x \in Inside(p)
    BY <1>1, <1>3 DEF Inside, p
  <2>3. Inside(x) # {}
    BY <1>1, <1>3 DEF Inside, SlotsOnDisk
  <2>4. x \in Accels(p)
    BY <2>2, <2>3 DEF Accels
  <2>5. ~Flat(p)
    <3>1. CASE IsVersal
      BY <2>4, <3>1 DEF Flat
    <3>2. CASE ~IsVersal
      <4>1. p \in site.dirs /\ x \in site.dirs /\ Parent(x) = p
        BY <1>1, <1>3, <2>1 DEF p
      <4>2. Shell[p].type # "FLAT"
        BY <2>1, <3>2, <4>1 DEF PackagesFit
      <4> QED
        BY <3>2, <4>2 DEF Flat
    <3> QED
      BY <3>1, <3>2
  <2>6. x \in Want(p)
    BY <2>1, <2>4, <2>5 DEF Want
  <2> QED
    BY <2>1, <2>6
<1>4. CASE x \in fs /\ Kind[x] = "rpuslot"
  <2> DEFINE p == Parent(x)
  <2>1. x \in Dirs /\ p \in Dirs /\ p # Root /\ Kind[p] = "rpu"
    BY <1>1, <1>4, KindFacts
  <2>2. Parent(p) = Root /\ Home(x) = p
    BY <1>2, <2>1 DEF Home
  <2>3. p \in fs
    BY <1>1, <1>4, <2>2 DEF DiskWhole
  <2>4. p \in Tops /\ x \in Inside(p)
    BY <1>1, <1>4, <2>2, <2>3 DEF Tops, Inside
  <2> HIDE DEF p
  <2> QED
    BY <2>1, <2>3, <2>4 DEF Want
<1>5. CASE /\ x \in fs /\ CompleteBase(x)
           /\ IF IsVersal THEN \A a \in fs : Parent(a) = x => SlotsOnDisk(a) = {}
              ELSE Shell[x].type = "FLAT"
  <2>1. x \in Tops /\ Kind[x] = "base"
    BY <1>1, <1>2, <1>5 DEF CompleteBase, Tops
  <2>2. IsVersal => Accels(x) = {}
    <3> SUFFICES ASSUME IsVersal, NEW a \in Accels(x)
                 PROVE  FALSE
      OBVIOUS
    <3>1. a \in Inside(x)
      BY DEF Accels
    <3>2. PICK s : s \in Inside(a)
      BY DEF Accels
    <3>3. a \in fs /\ Parent(a) = x
      BY <1>5, <2>1, <3>1, OnDiskInside
    <3>4. s \in fs /\ Parent(s) = a /\ file[s] = "full"
      BY <1>5, <2>1, <3>1, <3>2, OnDiskInside
    <3>5. s \in SlotsOnDisk(a)
      BY <3>4 DEF SlotsOnDisk
    <3> QED
      BY <1>5, <3>3, <3>5
  <2>3. Flat(x)
    BY <1>5, <2>2 DEF Flat
  <2>4. x \in Want(x)
    BY <2>1, <2>3 DEF Want
  <2> QED
    BY <1>5, <2>1, <2>4
<1> QED
  BY <1>3, <1>4, <1>5 DEF Expected

-----------------------------------------------------------------------------
(* The theorems.                                                           *)

\* Where packages are installed, moved and deleted as a whole, no installed one
\* is missed: once nothing is under way every base, accelerator and RPU firmware
\* on disk has its row, whatever the installer did, in whatever order the inotify
\* thread handled its events and the request thread walked the directories
\* (threadFunc(), accel_dir_add(), parse_packages(), firmware_rescan_pending).
THEOREM PackagesListed == Spec => [](Whole => NothingMissed)
<1>1. DiscoveryInv /\ (Scope => WholeInv) => (Whole => NothingMissed)
  <2> SUFFICES ASSUME DiscoveryInv, WholeInv, Settled, PackagesFit, NEW x \in Expected
               PROVE  x \in RowPaths
    BY DEF NothingMissed, Scope
  <2>1. OnDisk /\ DiskWhole /\ Entries(db)
    BY DEF DiscoveryInv, WholeInv
  <2>2. PICK p \in Tops : p \in fs /\ x \in Want(p)
    BY <2>1, ExpectedWant
  <2>3. Fresh(db, p)
    BY <2>2, SettledKnown
  <2>4. PICK k \in Table : db.bases[k].path = p /\ FreshEntry(db.bases[k])
    BY <2>3 DEF Fresh
  <2>5. x \in Paths(db.bases[k].accel_list) /\ db.bases[k].num_pl_slots > 0
    BY <2>2, <2>4 DEF FreshEntry
  <2>6. PICK j \in AccelIdx : db.bases[k].accel_list[j].path = x
    BY <2>5 DEF Paths
  <2>7. p # NULL /\ x # NULL
    <3>1. site \in Sites /\ Top(p)
      BY <2>1 DEF OnDisk, Tops, Top
    <3>2. Want(p) \subseteq Dirs /\ p \in Dirs
      BY <3>1, WantFacts
    <3> QED
      BY <2>2, <3>2, TreeAssumption
  <2>8. <<k, j>> \in Rows(db)
    BY <2>4, <2>5, <2>6, <2>7 DEF Rows
  <2> QED
    BY <2>6, <2>8 DEF RowPaths
<1> QED
  BY <1>1, DiscoveryInvariant, WholeInvariant, PTL

\* And nothing else is listed: no row is left of a package that was moved out or
\* deleted, even if it went while its directory was being read
\* (remove_base_design(), accel_dir_add()).
THEOREM OnlyPackagesListed == Spec => [](Whole => NothingExtra)
<1>1. DiscoveryInv /\ (Scope => WholeInv) => (Whole => NothingExtra)
  <2> SUFFICES ASSUME DiscoveryInv, WholeInv, Settled, NEW x \in RowPaths
               PROVE  x \in Expected
    BY DEF NothingExtra, Scope
  <2>1. OnDisk /\ DiskWhole /\ Entries(db)
    BY DEF DiscoveryInv, WholeInv
  <2>2. PICK r \in Rows(db) : x = db.bases[r[1]].accel_list[r[2]].path
    BY DEF RowPaths
  <2> DEFINE k == r[1]
             j == r[2]
             p == db.bases[k].path
  <2>3. k \in Table /\ j \in AccelIdx /\ p # NULL /\ x # NULL
        /\ x = db.bases[k].accel_list[j].path
    BY <2>2 DEF Rows
  <2> HIDE DEF k, j
  <2>4. Top(p) /\ ListOf(db.bases[k].accel_list, Want(p))
    BY <2>1, <2>3 DEF Entries, EntryOf
  <2>5. x \in Want(p)
    BY <2>3, <2>4 DEF ListOf
  <2>6. p \in Tops /\ Held(db, p)
    BY <2>3, <2>4 DEF Tops, Top, Held
  <2> HIDE DEF p
  <2>7. p \in fs
    BY <2>6, SettledKnown
  <2> QED
    BY <2>1, <2>5, <2>6, <2>7, WantExpected
<1> QED
  BY <1>1, DiscoveryInvariant, WholeInvariant, PTL

\* And on Versal a listed base has as many slots as its slot directories need,
\* the highest index included (pdi_classify_base()).
THEOREM SlotsCounted == Spec => [](Whole => SlotCountCurrent)
<1>1. DiscoveryInv /\ (Scope => WholeInv) => (Whole => SlotCountCurrent)
  <2> SUFFICES ASSUME DiscoveryInv, WholeInv, Settled, IsVersal, NEW i \in Table, NEW s \in fs,
                      db.bases[i].path # NULL, Kind[s] = "slot",
                      db.bases[i].path = Parent(Parent(s))
               PROVE  SlotIndex[s] < db.bases[i].num_pl_slots
    BY DEF SlotCountCurrent, Scope
  <2> DEFINE a == Parent(s)
             p == db.bases[i].path
  <2>1. OnDisk /\ DiskWhole /\ Entries(db) /\ site \in Sites
    BY DEF DiscoveryInv, WholeInv, OnDisk
  <2>2. s \in Dirs /\ s \in site.dirs /\ Top(p) /\ Parent(p) = Root /\ p \in Tops /\ p \in Dirs
    BY <2>1, SiteFacts DEF OnDisk, Entries, EntryOf, Top, Tops
  <2>3. a \in Dirs /\ a # Root /\ Kind[a] = "accel"
    BY <2>2, KindFacts
  <2>4. p = Parent(a) /\ p # Root
    BY <2>2, TreeAssumption
  <2> HIDE DEF a, p
  <2>5. Kind[p] = "base"
    BY <2>3, <2>4, KindFacts
  <2>6. a \in site.dirs
    <3>1. Parent(s) \in site.dirs \cup {Root}
      BY <2>1, <2>2, SiteAssumption
    <3> QED
      BY <2>3, <3>1 DEF a
  <2>7. a \in Inside(p) /\ s \in Inside(a)
    BY <2>2, <2>4, <2>6 DEF Inside, a
  <2>8. p \in fs
    <3>1. Home(s) = p
      BY <2>2, <2>3, <2>4 DEF Home, a
    <3> QED
      BY <2>1, <2>2, <3>1 DEF DiskWhole
  <2>9. PICK k \in Table : db.bases[k].path = p /\ FreshEntry(db.bases[k])
    BY <2>2, <2>8, SettledKnown DEF Fresh
  <2>10. k = i
    BY <2>1, <2>9 DEF Entries, p
  <2>11. FreshEntry(db.bases[i]) /\ db.bases[i].path = p
    BY <2>9, <2>10
  <2> QED
    BY <2>5, <2>7, <2>11 DEF FreshEntry
<1> QED
  BY <1>1, DiscoveryInvariant, WholeInvariant, PTL

-----------------------------------------------------------------------------
(***************************************************************************)
(* Listing IDs, on Versal with packages that come whole.                   *)
(***************************************************************************)

IdOf(t, r) == t.bases[r[1]].accel_list[r[2]].list_id
Unique(t) == \A r, s \in Rows(t) : IdOf(t, r) = IdOf(t, s) => r = s

\* assign_list_ids() gives every row an ID of its own.
LEMMA AssignUnique ==
    ASSUME site \in Sites, NEW t, Sound(t)
    PROVE  Unique(assign_list_ids(t))
<1> DEFINE u == assign_list_ids(t)
           upto(r) == {q \in Rows(t) : Before(q, r)}
<1>1. \A k \in Table : Alike(t.bases[k], u.bases[k])
  BY AssignFields
<1>2. Rows(u) = Rows(t) /\ Rows(t) \subseteq Table \X AccelIdx
  <2> HIDE DEF u
  <2> QED
    BY <1>1 DEF Rows, Alike
<1>3. IsFiniteSet(Rows(t))
  <2>1. IsFiniteSet(Table \X AccelIdx)
    BY SiteFacts, AccelIdxFacts, FS_Product
  <2> QED
    BY <1>2, <2>1, FS_Subset
<1>4. ASSUME NEW r \in Rows(t)
      PROVE  IdOf(u, r) = Cardinality(upto(r))
  <2> DEFINE k == r[1]
             j == r[2]
             b == t.bases[k]
             n == Cardinality(upto(r))
  <2>1. k \in Table /\ j \in AccelIdx /\ r = <<k, j>>
    BY <1>2
  <2> HIDE DEF k, j
  <2>2. u.bases[k].accel_list = Numbered(t, k)
    <3>1. t \in Tables /\ b \in BaseSet
      BY <2>1, BaseFacts DEF Sound
    <3>2. u.bases = [i \in Table |-> [t.bases[i] EXCEPT !.accel_list = Numbered(t, i)]]
      BY <3>1 DEF assign_list_ids, Tables
    <3>3. u.bases[k] = [b EXCEPT !.accel_list = Numbered(t, k)]
      BY <2>1, <3>2
    <3> HIDE DEF b, u
    <3> QED
      BY <3>1, <3>3 DEF BaseSet, Base
  <2>3. Numbered(t, k)[j] = [b.accel_list[j] EXCEPT !.list_id = n]
    BY <2>1 DEF Numbered
  <2>4. b.accel_list[j] \in Accel
    BY <2>1, BaseFacts DEF Lists
  <2> HIDE DEF n, b, u
  <2>5. IdOf(u, r) = n
    BY <2>1, <2>2, <2>3, <2>4 DEF IdOf, Accel, k, j
  <2> QED
    BY <2>5 DEF n
<1>5. ASSUME NEW r \in Rows(t), NEW s \in Rows(t), Before(r, s), r # s
      PROVE  Cardinality(upto(r)) # Cardinality(upto(s))
  <2>1. /\ r[1] \in Nat /\ r[2] \in Nat /\ s[1] \in Nat /\ s[2] \in Nat
        /\ r = <<r[1], r[2]>> /\ s = <<s[1], s[2]>>
    BY <1>2, SiteFacts, AccelIdxFacts
  <2>2. \A q \in Rows(t) : q[1] \in Nat /\ q[2] \in Nat
    BY <1>2, SiteFacts, AccelIdxFacts
  <2>3. upto(r) \subseteq upto(s)
    BY <1>5, <2>1, <2>2 DEF Before
  <2>4. s \in upto(s)
    BY <2>1 DEF Before
  <2>5. s \notin upto(r)
    <3> SUFFICES ASSUME Before(s, r)
                 PROVE  FALSE
      OBVIOUS
    <3>1. r[1] = s[1] /\ r[2] = s[2]
      BY <1>5, <2>1 DEF Before
    <3> QED
      BY <1>5, <2>1, <3>1
  <2>6. IsFiniteSet(upto(s))
    BY <1>3, FS_Subset
  <2> HIDE DEF upto
  <2>7. Cardinality(upto(s)) = Cardinality(upto(r)) => upto(s) = upto(r)
    BY <2>3, <2>6, FS_Subset
  <2> QED
    BY <2>4, <2>5, <2>7
<1>6. ASSUME NEW r \in Rows(t), NEW s \in Rows(t)
      PROVE  Before(r, s) \/ Before(s, r)
  <2>1. r[1] \in Nat /\ r[2] \in Nat /\ s[1] \in Nat /\ s[2] \in Nat
    BY <1>2, SiteFacts, AccelIdxFacts
  <2> QED
    BY <2>1 DEF Before
<1> HIDE DEF u, upto
<1>7. ASSUME NEW r \in Rows(u), NEW s \in Rows(u), IdOf(u, r) = IdOf(u, s), r # s
      PROVE  FALSE
  <2>1. r \in Rows(t) /\ s \in Rows(t)
    BY <1>2
  <2>2. Cardinality(upto(r)) = Cardinality(upto(s))
    BY <1>4, <1>7, <2>1
  <2> QED
    BY <1>5, <1>6, <1>7, <2>1, <2>2
<1> QED
  BY <1>7 DEF Unique, u

\* What the proof is about: only whole packages come and go, on Versal, and
\* only listings walk the directories.
Listing == IsVersal /\ Whole /\ "load" \notin site.requests

Current == shown = Shown(db) /\ Unique(db)

ListingInv ==
    /\ \A d \in Dirs : file[d] # "partial"
    /\ batch \in Seq(Events) /\ queue \in Seq(Events)
    /\ req.kind # "load" /\ (req.kind = "boot" => shown = {})
    /\ req.pc \in {"clear", "print"} => Unique(db)
    /\ req.pc = "idle" /\ ~dirty => shown = {} \/ Current

LEMMA SameBases ==
    ASSUME site' = site, db'.bases = db.bases
    PROVE  (Unique(db) => Unique(db)') /\ (Shown(db) = Shown(db)')
<1>1. Rows(db)' = Rows(db)
  BY DEF Rows, Table
<1> QED
  BY <1>1 DEF Unique, IdOf, Shown

LEMMA InstallerListing ==
    ASSUME DiscoveryInv, Listing, ListingInv, Installer
    PROVE  ListingInv'
<1>1. PICK d \in Dirs :
         \/ mkdir(d) \/ open_file(d) \/ rename_file(d) \/ unlink(d) \/ rmdir(d)
         \/ rmtree(d) \/ move_in(d) \/ move_out(d) \/ close_file(d)
  BY DEF Installer
<1>2. UNCHANGED <<site, dirty, batch, req, shown>>
  BY DEF Installer
<1>3. site.ops \subseteq {"movein", "moveout", "rmtree"}
  BY DEF Listing, Whole
<1>4. ~(mkdir(d) \/ open_file(d) \/ rename_file(d) \/ unlink(d) \/ rmdir(d))
  BY <1>3 DEF mkdir, open_file, rename_file, unlink, rmdir, Operation
<1>5. ~close_file(d)
  BY DEF close_file, ListingInv
<1>6. \A c \in Dirs : file[c]' # "partial"
  <2>1. \A c \in Dirs : file[c]' \in {file[c], "none", "full"}
    BY <1>1, <1>4, <1>5 DEF rmtree, move_in, move_out
  <2> QED
    BY <2>1 DEF ListingInv
<1>7. /\ queue \in Seq(Events) /\ Root \in Places /\ db \in Tables /\ db.wd \in [Places -> Int]
  BY DEF ListingInv, DiscoveryInv, Sound, Tables, Places
<1>8. queue' \in Seq(Events)
  <2>1. CASE rmtree(d)
    <3> DEFINE seen == {c \in fs \cap Below(d) : db.wd[Parent(c)] # -1}
               inner == {c \in seen : Parent(c) = d}
               order == SetToSeq(seen \ (inner \cup {d})) \o SetToSeq(inner)
                            \o SetToSeq(seen \cap {d})
               F == [k \in DOMAIN order |->
                       [wd |-> db.wd[Parent(order[k])], mask |-> "DELETE_DIR",
                        name |-> order[k]]]
    <3>1. queue' = queue \o F
      BY <2>1, Zenon DEF rmtree
    <3>2. F \in Seq(Events)
      BY DeletedOrder, Zenon
    <3> HIDE DEF F
    <3> QED
      BY <1>7, <3>1, <3>2, ConcatProperties
  <2>2. CASE move_in(d) \/ move_out(d)
    <3>1. PICK mask \in {"MOVED_TO_DIR", "MOVED_FROM_DIR"} :
             \/ queue' = queue
             \/ queue' = Append(queue, [wd |-> db.wd[Root], mask |-> mask, name |-> d])
      BY <2>2 DEF move_in, move_out, Emit
    <3>2. [wd |-> db.wd[Root], mask |-> mask, name |-> d] \in Events
      BY <1>7 DEF Events, Gone
    <3> QED
      BY <1>7, <3>1, <3>2, AppendProperties
  <2> QED
    BY <1>1, <1>4, <1>5, <2>1, <2>2
<1>9. db'.bases = db.bases
  <2>1. db' = db \/ db' = [db EXCEPT !.wd = [c \in DOMAIN @ |-> IF c \in Below(d) THEN -1 ELSE @[c]]]
    BY <1>1, <1>4, <1>5 DEF rmtree, move_in, move_out
  <2> QED
    BY <1>7, <2>1 DEF Tables
<1>10. (Unique(db) => Unique(db)') /\ Shown(db) = Shown(db)'
  BY <1>2, <1>9, SameBases
<1> QED
  BY <1>2, <1>6, <1>8, <1>10 DEF ListingInv, Current

\* The inotify thread numbers the rows and sets the flag.
LEMMA InotifyListing ==
    ASSUME DiscoveryInv, Listing, ListingInv, InotifyThread
    PROVE  ListingInv'
<1>1. /\ batch \in Seq(Events) /\ queue \in Seq(Events) /\ IsVersal /\ site \in Sites /\ Sound(db)
  BY DEF ListingInv, Listing, DiscoveryInv, OnDisk
<1>2. ASSUME batch # <<>>
      PROVE  /\ Tail(batch) \in Seq(Events) /\ batch[1].name \in Dirs
             /\ batch[1].mask \in Gone \cup {"MOVED_TO_DIR"}
  <2>1. batch[1] \in Events
    BY <1>1, <1>2, EmptySeq
  <2> QED
    BY <1>1, <1>2, <2>1, HeadTailProperties DEF Events
<1>3. ~(dir_created \/ shell_written \/ accel_written \/ handle_pdi_event \/ other_file)
  BY <1>2, TreeAssumption DEF dir_created, shell_written, accel_written, handle_pdi_event,
                              other_file, Event, Gone
<1>4. CASE read_batch
  <2>1. UNCHANGED <<site, file, db, dirty, req, shown>>
    BY <1>4 DEF read_batch, disk
  <2>2. batch' \in Seq(Events) /\ queue' \in Seq(Events)
    BY <1>1, <1>4, ReadSeqs
  <2>3. (Unique(db) => Unique(db)') /\ Shown(db) = Shown(db)'
    BY <2>1, SameBases
  <2> QED
    BY <2>1, <2>2, <2>3 DEF ListingInv, Current
<1>5. CASE unknown_watch
  <2>1. UNCHANGED <<site, file, queue, db, dirty, req, shown>> /\ batch' = <<>>
    BY <1>5 DEF unknown_watch, inotify, disk, drop_batch
  <2>2. (Unique(db) => Unique(db)') /\ Shown(db) = Shown(db)'
    BY <2>1, SameBases
  <2> QED
    BY <1>1, <2>1, <2>2 DEF ListingInv, Current
<1>6. CASE dir_moved_in \/ dir_removed
  <2>1. /\ UNCHANGED <<site, file, queue, req, shown>> /\ dirty' = TRUE /\ batch # <<>>
        /\ batch' = Tail(batch)
    BY <1>1, <1>6 DEF dir_moved_in, dir_removed, inotify, disk, next_event, Event
  <2>2. \E t : Sound(t) /\ db' = assign_list_ids(t)
    <3>1. CASE dir_moved_in
      BY <1>1, <3>1 DEF dir_moved_in
    <3>2. CASE dir_removed
      <4> DEFINE d == batch[1].name
      <4>1. PICK w \in EventWatch :
              \/ db' = assign_list_ids(remove_watch(remove_base_design(db, d), d))
              \/ db' = assign_list_ids(remove_watch(remove_accel(db, d, w.path), d))
        BY <3>2 DEF dir_removed
      <4> HIDE DEF d
      <4> QED
        BY <1>1, <4>1, RemoveBaseSound, RemoveAccelSound, RemoveWatchSound
    <3> QED
      BY <1>6, <3>1, <3>2
  <2>3. Unique(db')
    BY <1>1, <2>2, AssignUnique
  <2>4. Unique(db)'
    BY <2>1, <2>3 DEF Unique, IdOf, Rows, Table
  <2> QED
    BY <1>1, <1>2, <2>1, <2>4 DEF ListingInv
<1> QED
  BY <1>3, <1>4, <1>5, <1>6 DEF InotifyThread

\* A listing numbers the rows, clears the flag and then prints.
LEMMA RequestListing ==
    ASSUME DiscoveryInv, Listing, ListingInv, RequestThread
    PROVE  ListingInv'
<1>1. UNCHANGED <<site, file, queue, batch>>
  BY DEF RequestThread, begin_request, accel_dir_add, register_base, walk_done, boot_done,
         list_ids, listAccelerators, load_by_name, load_by_id, unload, request, disk
<1>2. /\ site \in Sites /\ Sound(db) /\ req \in Requests /\ dirty \in BOOLEAN
  BY DEF DiscoveryInv, OnDisk
<1> DEFINE Rest == /\ req'.kind # "load" /\ (req'.kind = "boot" => shown' = {})
                   /\ req'.pc \in {"clear", "print"} => Unique(db)'
                   /\ req'.pc = "idle" /\ ~dirty' => shown' = {} \/ Current'
<1>3. SUFFICES Rest
  BY <1>1 DEF ListingInv
<1>4. db'.bases = db.bases => (Unique(db) => Unique(db)') /\ Shown(db) = Shown(db)'
  BY <1>1, SameBases
<1>5. CASE begin_request("list") \/ begin_request("load")
  <2>1. \E kind \in {"list", "load"} :
           kind \in site.requests /\ req' = [kind |-> kind, pc |-> IF rescan THEN "walk" ELSE "serve"]
    BY <1>5 DEF begin_request, Begin
  <2>2. req'.kind = "list" /\ req'.pc \in {"walk", "serve"}
    BY <2>1 DEF Listing
  <2> QED
    BY <2>2
<1>6. CASE accel_dir_add \/ register_base
  <2>1. UNCHANGED <<req, shown, dirty>> /\ req.pc = "walk"
    BY <1>6 DEF accel_dir_add, register_base
  <2> QED
    BY <2>1 DEF ListingInv
<1>7. CASE walk_done
  <2>1. UNCHANGED <<shown, dirty>> /\ req'.kind = req.kind /\ req'.pc = "serve"
    BY <1>2, <1>7 DEF walk_done, Requests
  <2> QED
    BY <2>1 DEF ListingInv
<1>8. CASE boot_done
  <2>1. shown' = shown /\ req.kind = "boot" /\ req'.kind = "none" /\ req'.pc = "idle"
    BY <1>8 DEF boot_done
  <2> QED
    BY <2>1 DEF ListingInv
<1>9. CASE list_ids
  <2>1. req'.kind = "list" /\ req'.pc = "clear" /\ db' = assign_list_ids(db)
    BY <1>2, <1>9 DEF list_ids, Requests
  <2>2. Unique(db')
    BY <1>2, <2>1, AssignUnique
  <2>3. Unique(db)'
    BY <1>1, <2>2 DEF Unique, IdOf, Rows, Table
  <2> QED
    BY <2>1, <2>3
<1>10. CASE listAccelerators /\ req.pc = "clear"
  <2>1. db' = db /\ shown' = shown /\ req'.kind = req.kind /\ req'.pc = "print"
    BY <1>2, <1>10 DEF listAccelerators, ListOrder, Requests
  <2> QED
    BY <1>4, <1>10, <2>1 DEF ListingInv
<1>11. CASE listAccelerators /\ req.pc = "print"
  <2>1. db' = db /\ shown' = Shown(db) /\ req'.kind = "none" /\ req'.pc = "idle"
    BY <1>11 DEF listAccelerators, ListOrder
  <2> QED
    BY <1>4, <1>11, <2>1 DEF ListingInv, Current
<1>12. CASE load_by_name
  BY <1>12 DEF load_by_name, ListingInv
<1>13. CASE load_by_id \/ unload
  <2>1. UNCHANGED <<db, req, shown, dirty>>
    BY <1>13 DEF load_by_id, unload
  <2> QED
    BY <1>4, <2>1 DEF ListingInv, Current
<1>14. listAccelerators => req.pc \in {"clear", "print"}
  BY DEF listAccelerators
<1> QED
  BY <1>5, <1>6, <1>7, <1>8, <1>9, <1>10, <1>11, <1>12, <1>13, <1>14 DEF RequestThread

LEMMA ListingInvariant == Spec => [](Listing => ListingInv)
<1>1. Init => (Listing => ListingInv)
  <2> SUFFICES ASSUME Init
               PROVE  ListingInv
    OBVIOUS
  <2>1. \A d \in Dirs : file[d] # "partial"
    BY DEF Init
  <2>2. /\ batch = <<>> /\ queue = <<>> /\ shown = {}
        /\ req = [kind |-> "boot", pc |-> "walk"]
    BY DEF Init
  <2> QED
    BY <2>1, <2>2 DEF ListingInv
<1>2. DiscoveryInv /\ (Listing => ListingInv) /\ [Next]_vars => (Listing => ListingInv)'
  <2> SUFFICES ASSUME DiscoveryInv, Listing => ListingInv, [Next]_vars, Listing'
               PROVE  ListingInv'
    OBVIOUS
  <2>1. site' = site
    BY SameScope
  <2>2. Listing /\ ListingInv
    BY <2>1 DEF Listing, IsVersal, Whole
  <2>3. CASE UNCHANGED vars
    <3>1. UNCHANGED <<site, file, queue, batch, db, dirty, req, shown>>
      BY <2>3 DEF vars
    <3>2. (Unique(db) => Unique(db)') /\ Shown(db) = Shown(db)'
      BY <3>1, SameBases
    <3> QED
      BY <2>2, <3>1, <3>2 DEF ListingInv, Current
  <2> QED
    BY <2>2, <2>3, InstallerListing, InotifyListing, RequestListing DEF Next
<1> QED
  BY <1>1, <1>2, DiscoveryInvariant, PTL DEF Spec

\* On Versal, with packages that come and go whole and only listings that walk,
\* pkg_listing_dirty is never clear while an ID of the last listing names another
\* package than it showed, however the inotify thread renumbers the rows while a
\* listing is made (listAccelerators(), assign_list_ids()).
THEOREM IdsCurrent == Spec => [](IsVersal /\ Whole => CleanIdsCurrent)
<1>1. (Listing => ListingInv) => (IsVersal /\ Whole => CleanIdsCurrent)
  <2> SUFFICES ASSUME ListingInv, ~dirty, req.pc = "idle", NEW row \in shown,
                      NEW r \in find_accel_by_list_id(db, row.id)
               PROVE  /\ db.bases[r[1]].path = row.base
                      /\ db.bases[r[1]].accel_list[r[2]].path = row.path
    BY DEF CleanIdsCurrent, RowsNumbered, Listing
  <2>1. shown = Shown(db) /\ Unique(db)
    BY DEF ListingInv, Current
  <2>2. PICK q \in Rows(db) :
           row = [id |-> IdOf(db, q), base |-> db.bases[q[1]].path,
                  name |-> db.bases[q[1]].accel_list[q[2]].name,
                  path |-> db.bases[q[1]].accel_list[q[2]].path]
    BY <2>1 DEF Shown, IdOf
  <2>3. /\ row.id = IdOf(db, q) /\ row.base = db.bases[q[1]].path
        /\ row.path = db.bases[q[1]].accel_list[q[2]].path
    BY <2>2
  <2>4. r \in Rows(db) /\ IdOf(db, r) = row.id
    BY DEF find_accel_by_list_id, IdOf
  <2>5. r = q
    BY <2>1, <2>3, <2>4 DEF Unique
  <2> QED
    BY <2>3, <2>5
<1> QED
  BY <1>1, ListingInvariant, PTL

-----------------------------------------------------------------------------
(***************************************************************************)
(* One row for each accelerator, whatever the installer does.  Every watch *)
(* is that of its directory, an event reaches the watch of the directory   *)
(* it is about, and the accelerators of a base are its own directory or    *)
(* directories in it, in the first entries of its list.                    *)
(***************************************************************************)

DirMasks == {"CREATE_DIR", "DELETE_DIR", "MOVED_FROM_DIR", "MOVED_TO_DIR"}

\* Event e is about directory x: about a subdirectory of it, or about its file.
Concerns(e, x) ==
    IF e.mask \in DirMasks
    THEN e.name \in Dirs /\ Parent(e.name) = x /\ (e.mask = "MOVED_TO_DIR" => x = Root)
    ELSE x \in Dirs /\ FileName(x) = e.name
Told(t, e) ==
    /\ e.wd \in Int /\ e.wd # -1 /\ e.wd < t.next
    /\ \A k \in Table : t.watch[k].wd = e.wd => Concerns(e, t.watch[k].path)

\* A watch knows where its directory is.
Placed(w) ==
    /\ w.path \in site.dirs \cup {Root, NULL}
    /\ w.path \in Dirs => /\ w.parent_path = Parent(w.path)
                          /\ w.parent_name \in {NULL, Parent(w.path)}
                          /\ Parent(w.path) = Root => w.parent_name = NULL

\* active_watch[], with events E not handled yet.
Watching(t, E) ==
    /\ \A k \in Table : Placed(t.watch[k]) /\ t.watch[k].wd < t.next
    /\ \A k, l \in Table : t.watch[k].wd = t.watch[l].wd /\ t.watch[k].wd # -1 => k = l
    /\ \A e \in E : Told(t, e)

\* accel_list[] of base p: none after a free entry, none twice.
BaseDir(p) == p \in site.dirs /\ Kind[p] \in {"base", "rpu", "slot"}
Chained(l, p) ==
    /\ \A j \in AccelIdx : l[j].path # NULL =>
          /\ IF l[j].path = p THEN j = 1
             ELSE l[j].path \in site.dirs /\ Parent(l[j].path) = p
          /\ IsVersal => l[j].name = l[j].path
    /\ \A j, k \in AccelIdx : j < k /\ l[k].path # NULL =>
          /\ l[j].path # NULL
          /\ ~(l[j].path = l[k].path /\ l[j].name = l[k].name)
Listed(b) ==
    IF b.path = NULL THEN \A j \in AccelIdx : b.accel_list[j].path = NULL
    ELSE BaseDir(b.path) /\ Chained(b.accel_list, b.path)

Orderly(t, E) ==
    /\ Sound(t) /\ Watching(t, E)
    /\ \A k \in Table : Listed(t.bases[k])

Alert == [wd: Int, mask: DirMasks \cup {"CREATE", "MOVED_TO"},
          name: Dirs \cup {FileName(d) : d \in Dirs}]
Alerts(t) == {e \in Alert : Told(t, e)}
RowsInv ==
    /\ Orderly(db, Alerts(db))
    /\ batch \in Seq(Alerts(db)) /\ queue \in Seq(Alerts(db))
    /\ walk.reg # NULL => BaseDir(walk.reg)

-----------------------------------------------------------------------------
(* active_watch[].                                                         *)

LEMMA SameWatching ==
    ASSUME NEW E, NEW t, NEW u, Watching(t, E), u.watch = t.watch, u.next = t.next
    PROVE  Watching(u, E)
BY DEF Watching, Told

LEMMA WatchTypes ==
    ASSUME NEW t, Sound(t)
    PROVE  /\ t \in Tables /\ t.watch \in [Table -> Watch] /\ t.next \in Nat
           /\ \A k \in Table : t.watch[k] \in Watch /\ t.watch[k].wd \in Int
BY DEF Sound, Tables, Watch

LEMMA AddOrderly ==
    ASSUME OnDisk, NEW E, NEW t, Orderly(t, E), NEW d \in Dirs,
           NEW pname \in {NULL, Parent(d)}, Parent(d) = Root => pname = NULL
    PROVE  LET r == add_dir_watch(t, d, pname, Parent(d))
           IN  Orderly(r.t, E) /\ r.t.bases = t.bases
<1> DEFINE ppath == Parent(d)
           r == add_dir_watch(t, d, pname, ppath)
           i == Lowest(FreeWatches(t))
           w == [wd |-> t.next, path |-> d, parent_name |-> pname, parent_path |-> ppath]
<1>1. d \in Places /\ d # Root /\ d # NULL /\ pname \in Path /\ ppath \in Path
      /\ site \in Sites /\ Sound(t) /\ Watching(t, E)
  BY ParentIn, TreeAssumption DEF Places, Path, OnDisk, Orderly
<1>2. Sound(r.t) /\ r.t.bases = t.bases
  BY <1>1, AddWatchSound
<1>3. CASE WatchesOf(t, d) # {} \/ d \notin fs \cup {Root} \/ FreeWatches(t) = {}
  <2>1. r.t = t
    BY <1>3 DEF add_dir_watch
  <2> HIDE DEF r
  <2> QED
    BY <1>2, <2>1 DEF r
<1>4. CASE ~(WatchesOf(t, d) # {} \/ d \notin fs \cup {Root} \/ FreeWatches(t) = {})
  <2>1. r = [ok |-> TRUE, t |-> Added(t, i, d, w)]
    BY <1>4 DEF add_dir_watch, Added
  <2>2. i \in Table
    BY <1>1, <1>4, LowestRow DEF FreeWatches
  <2>3. d \in site.dirs
    BY <1>1, <1>4 DEF OnDisk
  <2>4. w.wd = t.next /\ w.path = d /\ w.parent_name = pname /\ w.parent_path = ppath
    OBVIOUS
  <2> DEFINE u == Added(t, i, d, w)
  <2>5. r.t = u
    BY <2>1
  <2> HIDE DEF i, w
  <2>13. t \in Tables
    BY <1>1, WatchTypes
  <2>6. /\ u.watch = [t.watch EXCEPT ![i] = w] /\ u.wd = [t.wd EXCEPT ![d] = t.next]
        /\ u.next = t.next + 1
    <3> HIDE DEF r
    <3> QED
      BY <2>13, AddedFields
  <2> HIDE DEF u, r
  <2>7. /\ u.watch[i] = w /\ t.next \in Nat
        /\ \A k \in Table : /\ k # i => u.watch[k] = t.watch[k]
                            /\ t.watch[k].wd \in Int /\ t.watch[k].wd < t.next
    BY <1>1, <2>2, <2>6, WatchTypes DEF Watching
  <2>8. Placed(w)
    BY <1>1, <2>3, <2>4 DEF Placed
  <2>9. \A k \in Table : Placed(u.watch[k]) /\ u.watch[k].wd < u.next
    BY <1>1, <2>4, <2>6, <2>7, <2>8 DEF Watching
  <2>10. ASSUME NEW k \in Table, NEW l \in Table, u.watch[k].wd = u.watch[l].wd,
                u.watch[k].wd # -1
         PROVE  k = l
    BY <1>1, <2>4, <2>7, <2>10 DEF Watching
  <2>11. ASSUME NEW e \in E
         PROVE  Told(u, e)
    <3>1. Told(t, e)
      BY <1>1 DEF Watching
    <3>2. e.wd \in Int /\ e.wd < t.next
      BY <3>1 DEF Told
    <3>3. e.wd < u.next /\ w.wd # e.wd
      BY <2>4, <2>6, <2>7, <3>2
    <3> QED
      BY <2>7, <3>1, <3>3 DEF Told
  <2>12. Watching(u, E)
    BY <2>9, <2>10, <2>11 DEF Watching
  <2> QED
    BY <1>2, <2>5, <2>12 DEF r, Orderly
<1> QED
  BY <1>3, <1>4

LEMMA RemoveOrderly ==
    ASSUME site \in Sites, NEW E, NEW t, Orderly(t, E), NEW d \in Dirs
    PROVE  Orderly(remove_watch(t, d), E)
<1> DEFINE u == remove_watch(t, d)
<1>1. Sound(t) /\ Watching(t, E) /\ NULL \notin Dirs
  BY TreeAssumption DEF Orderly
<1>2. u.watch = Unwatched(t, d) /\ u.next = t.next /\ u.bases = t.bases /\ Sound(u)
  BY <1>1, RemoveWatchFields, RemoveWatchSound
<1>3. ASSUME NEW k \in Table
      PROVE  u.watch[k] = t.watch[k] \/ (u.watch[k].path = NULL /\ u.watch[k].wd = -1)
  <2>1. t.watch[k] \in Watch
    BY <1>1, WatchTypes
  <2>2. Renamed(t.watch[k], -1, NULL).path = NULL /\ Renamed(t.watch[k], -1, NULL).wd = -1
    BY <2>1 DEF Renamed, Watch
  <2> QED
    BY <1>2, <2>2 DEF Unwatched
<1> HIDE DEF u
<1>4. t.next \in Nat
  BY <1>1, WatchTypes
<1>5. \A k \in Table : Placed(u.watch[k]) /\ u.watch[k].wd < u.next
  BY <1>1, <1>2, <1>3, <1>4 DEF Watching, Placed
<1>6. \A k, l \in Table : u.watch[k].wd = u.watch[l].wd /\ u.watch[k].wd # -1 => k = l
  BY <1>1, <1>3 DEF Watching
<1>7. \A e \in E : Told(u, e)
  BY <1>1, <1>2, <1>3 DEF Watching, Told
<1> QED
  BY <1>2, <1>5, <1>6, <1>7 DEF Watching, Orderly, u

LEMMA WalkOrderly ==
    ASSUME DiscoveryInv, NEW E, Orderly(db, E), NEW d \in Dirs
    PROVE  Orderly(WatchForWalk(d).t, E)
<1> DEFINE r == WatchForWalk(d)
           S == WatchesOf(db, d)
           i == Lowest(S)
           u == [db EXCEPT !.watch[i].parent_name = NULL]
<1>1. site \in Sites /\ Sound(db) /\ Watching(db, E) /\ OnDisk
  BY DEF DiscoveryInv, OnDisk, Orderly
<1>2. CASE S # {}
  <2>1. i \in Table
    <3>1. S \subseteq Table
      BY DEF WatchesOf
    <3> HIDE DEF S
    <3> QED
      BY <1>1, <1>2, <3>1, LowestRow
  <2>2. r.t = u
    BY <1>2 DEF WatchForWalk
  <2> HIDE DEF i, r
  <2>3. db.watch \in [Table -> Watch] /\ db \in Tables
    BY <1>1, WatchTypes
  <2> DEFINE w == [db.watch[i] EXCEPT !.parent_name = NULL]
  <2>4. u.watch = [db.watch EXCEPT ![i] = w] /\ u.bases = db.bases /\ u.next = db.next
    BY <2>3 DEF Tables
  <2>5. /\ w.wd = db.watch[i].wd /\ w.path = db.watch[i].path /\ w.parent_name = NULL
        /\ w.parent_path = db.watch[i].parent_path
    BY <2>1, <2>3 DEF Watch
  <2>6. Sound(u)
    BY <1>1, <2>1, UnnamedSound
  <2> HIDE DEF u, w
  <2>7. \A k \in Table : /\ u.watch[k].wd = db.watch[k].wd
                         /\ u.watch[k].path = db.watch[k].path
                         /\ u.watch[k].parent_path = db.watch[k].parent_path
                         /\ u.watch[k].parent_name \in {NULL, db.watch[k].parent_name}
    BY <2>1, <2>3, <2>4, <2>5
  <2>8. \A k \in Table : Placed(u.watch[k]) /\ u.watch[k].wd < u.next
    BY <1>1, <2>4, <2>7 DEF Watching, Placed
  <2>9. \A k, l \in Table : u.watch[k].wd = u.watch[l].wd /\ u.watch[k].wd # -1 => k = l
    BY <1>1, <2>7 DEF Watching
  <2>10. \A e \in E : Told(u, e)
    BY <1>1, <2>4, <2>7 DEF Watching, Told
  <2>11. Orderly(u, E)
    BY <2>4, <2>6, <2>8, <2>9, <2>10 DEF Watching, Orderly
  <2> QED
    BY <2>2, <2>11 DEF r
<1>3. CASE S = {}
  <2>1. r = add_dir_watch(db, d, NULL, Parent(d))
    BY <1>3 DEF WatchForWalk
  <2> HIDE DEF r, S, i, u
  <2>2. Orderly(add_dir_watch(db, d, NULL, Parent(d)).t, E)
    BY <1>1, AddOrderly
  <2> QED
    BY <2>1, <2>2 DEF r
<1> QED
  BY <1>2, <1>3

-----------------------------------------------------------------------------
(* accel_list[].                                                           *)

NameAt(l, j, name, path) == [l EXCEPT ![j].path = path, ![j].name = name]

LEMMA NamedAt ==
    ASSUME NEW l \in Lists, NEW j \in AccelIdx, NEW path \in Path, NEW name \in Path
    PROVE  LET m == NameAt(l, j, name, path)
           IN  /\ m[j].path = path /\ m[j].name = name
               /\ \A k \in AccelIdx : k # j => m[k] = l[k]
<1> DEFINE e == [l[j] EXCEPT !.path = path, !.name = name]
           m == NameAt(l, j, name, path)
<1>1. l[j] \in Accel
  BY DEF Lists
<1>2. e.path = path /\ e.name = name
  BY <1>1 DEF Accel
<1>3. m = [l EXCEPT ![j] = e]
  BY DEF Lists, NameAt
<1> HIDE DEF e, m
<1>5. m[j] = e /\ \A k \in AccelIdx : k # j => m[k] = l[k]
  BY <1>3 DEF Lists
<1> QED
  BY <1>2, <1>5 DEF m

\* AccelSlot() is the first entry that is free or is the accelerator's.
LEMMA FirstSlot ==
    ASSUME NEW l, NEW name, NEW path
    PROVE  LET j == AccelSlot(l, name, path)
               Fits(k) == l[k].path = NULL \/ (l[k].path = path /\ l[k].name = name)
           IN  \/ j = 0 /\ \A k \in AccelIdx : ~Fits(k)
               \/ /\ j \in AccelIdx /\ Fits(j)
                  /\ \A k \in AccelIdx : k < j => ~Fits(k)
<1> DEFINE Fits(k) == l[k].path = NULL \/ (l[k].path = path /\ l[k].name = name)
           S == {k \in AccelIdx : Fits(k)}
           j == AccelSlot(l, name, path)
<1>1. S \subseteq Nat /\ AccelIdx \subseteq Nat
  BY AccelIdxFacts
<1>2. j = IF S = {} THEN 0 ELSE Lowest(S)
  BY DEF AccelSlot
<1>3. S # {} => Lowest(S) \in S /\ \A k \in S : Lowest(S) <= k
  <2> HIDE DEF S
  <2> QED
    BY <1>1, LowestIn, LowestLeast
<1>4. CASE S = {}
  <2>1. j = 0
    BY <1>2, <1>4
  <2> HIDE DEF j
  <2> QED
    BY <1>4, <2>1 DEF j
<1>5. CASE S # {}
  <2>1. j \in S /\ \A k \in S : j <= k
    BY <1>2, <1>3, <1>5
  <2> HIDE DEF j
  <2>2. \A k \in AccelIdx : k < j => k \notin S
    <3> HIDE DEF S
    <3> QED
      BY <1>1, <2>1
  <2> QED
    BY <2>1, <2>2 DEF j
<1> QED
  BY <1>4, <1>5

\* Entering an accelerator directory a of base p.
LEMMA EnterChained ==
    ASSUME NEW p, NEW l \in Lists, Chained(l, p), NEW a \in site.dirs, a \in Dirs,
           Parent(a) = p, a # p, NEW name \in Path, IsVersal => name = a
    PROVE  Chained(add_accel_to_base(l, name, a), p)
<1> DEFINE j == AccelSlot(l, name, a)
           m == NameAt(l, j, name, a)
           Fits(k) == l[k].path = NULL \/ (l[k].path = a /\ l[k].name = name)
<1>1. CASE j = 0 \/ l[j].path # NULL
  BY <1>1 DEF add_accel_to_base
<1>2. CASE ~(j = 0 \/ l[j].path # NULL)
  <2>1. add_accel_to_base(l, name, a) = m
    BY <1>2 DEF add_accel_to_base, NameAt
  <2>2. j \in AccelIdx /\ l[j].path = NULL /\ \A k \in AccelIdx : k < j => ~Fits(k)
    BY <1>2, FirstSlot
  <2> HIDE DEF j
  <2>3. /\ m[j].path = a /\ m[j].name = name
        /\ \A k \in AccelIdx : k # j => m[k] = l[k]
    <3>1. a \in Path
      BY DEF Path
    <3> QED
      BY <2>2, <3>1, NamedAt
  <2> HIDE DEF m
  <2>4. AccelIdx \subseteq Nat /\ a # NULL
    BY AccelIdxFacts, TreeAssumption
  <2>5. \A k \in AccelIdx : j < k => l[k].path = NULL
    BY <2>2 DEF Chained
  <2>6. \A k \in AccelIdx : k = j \/ k < j \/ j < k
    BY <2>2, <2>4
  <2>7. ASSUME NEW k \in AccelIdx, m[k].path # NULL
        PROVE  /\ IF m[k].path = p THEN k = 1
                  ELSE m[k].path \in site.dirs /\ Parent(m[k].path) = p
               /\ IsVersal => m[k].name = m[k].path
    <3>1. CASE k = j
      BY <2>3, <3>1
    <3>2. CASE k # j
      BY <2>3, <2>7, <3>2 DEF Chained
    <3> QED
      BY <3>1, <3>2
  <2>8. ASSUME NEW h \in AccelIdx, NEW k \in AccelIdx, h < k, m[k].path # NULL
        PROVE  m[h].path # NULL /\ ~(m[h].path = m[k].path /\ m[h].name = m[k].name)
    <3>1. CASE k = j
      <4>1. h # j /\ m[h] = l[h] /\ ~Fits(h)
        BY <2>2, <2>3, <2>4, <2>8, <3>1
      <4> QED
        BY <2>3, <3>1, <4>1
    <3>2. CASE k # j
      <4>1. l[k].path # NULL /\ m[k] = l[k]
        BY <2>3, <2>8, <3>2
      <4>2. k < j
        BY <2>5, <2>6, <3>2, <4>1
      <4>3. h # j
        BY <2>2, <2>4, <2>8, <4>2
      <4> QED
        BY <2>3, <2>8, <4>1, <4>3 DEF Chained
    <3> QED
      BY <3>1, <3>2
  <2> QED
    BY <2>1, <2>7, <2>8 DEF Chained
<1> QED
  BY <1>1, <1>2

\* A PDI that cannot be read takes the accelerator out: with one accelerator
\* beside the base, it is the last entry.
LEMMA PdiChained ==
    ASSUME site \in Sites, OneAccel, IsVersal, NEW p, p \in Dirs, NEW l \in Lists,
           Chained(l, p), NEW a \in site.dirs, a \in Dirs, Parent(a) = p, a # p,
           Kind[p] = "base", NEW s
    PROVE  Chained(add_pdi_accel(l, a, a, s), p)
<1> DEFINE j == AccelSlot(l, a, a)
           m == [l EXCEPT ![j] = NoAccel]
<1>1. Chained(add_accel_to_base(l, a, a), p)
  BY EnterChained DEF Path
<1>2. CASE ~(j # 0 /\ file[s] # "full")
  BY <1>1, <1>2 DEF add_pdi_accel
<1>3. CASE j # 0 /\ file[s] # "full"
  <2>1. add_pdi_accel(l, a, a, s) = m
    BY <1>3 DEF add_pdi_accel
  <2>2. j \in AccelIdx /\ (l[j].path = NULL \/ (l[j].path = a /\ l[j].name = a))
    BY <1>3, FirstSlot
  <2>3. ASSUME NEW c \in site.dirs, Parent(c) = p
        PROVE  c = a
    <3>1. c \in Dirs /\ p # Root
      BY SiteFacts, TreeAssumption
    <3>2. /\ <<Kind[p], Kind[c]>> \in
               {<<"base", "accel">>, <<"accel", "slot">>, <<"rpu", "rpuslot">>}
          /\ <<Kind[p], Kind[a]>> \in
               {<<"base", "accel">>, <<"accel", "slot">>, <<"rpu", "rpuslot">>}
      BY <2>3, <3>1, KindFacts
    <3>3. Kind[c] = "accel" /\ Kind[a] = "accel"
      BY <3>2
    <3> QED
      BY <2>3, <3>3 DEF OneAccel
  <2> HIDE DEF j
  <2>9. NoAccel.path = NULL
    BY DEF NoAccel
  <2>4. /\ m[j].path = NULL /\ \A k \in AccelIdx : k # j => m[k] = l[k]
    BY <2>2, <2>9 DEF Lists
  <2> HIDE DEF m
  <2>5. AccelIdx \subseteq Nat /\ a # NULL /\ j \in Nat /\ j > 0
    <3>1. AccelIdx \subseteq Nat /\ a # NULL
      BY AccelIdxFacts, TreeAssumption
    <3>2. \A k \in AccelIdx : k > 0
      BY TreeAssumption DEF AccelIdx
    <3> QED
      BY <2>2, <3>1, <3>2
  <2>6. ASSUME NEW k \in AccelIdx, j < k
        PROVE  l[k].path = NULL
    <3> SUFFICES ASSUME l[k].path # NULL
                 PROVE  FALSE
      OBVIOUS
    <3>1. l[j].path = a /\ l[j].name = a
      BY <2>2, <2>6 DEF Chained
    <3>2. k # 1
      BY <2>5, <2>6
    <3>3. l[k].path = a /\ l[k].name = a
      BY <2>3, <3>2 DEF Chained
    <3> QED
      BY <2>2, <2>6, <3>1, <3>3 DEF Chained
  <2>7. ASSUME NEW k \in AccelIdx, m[k].path # NULL
        PROVE  k # j /\ k < j /\ m[k] = l[k]
    BY <2>2, <2>4, <2>5, <2>6, <2>7
  <2>8. ASSUME NEW h \in AccelIdx, NEW k \in AccelIdx, h < k, m[k].path # NULL
        PROVE  m[h].path # NULL /\ ~(m[h].path = m[k].path /\ m[h].name = m[k].name)
    <3>1. k < j /\ m[k] = l[k]
      BY <2>7, <2>8
    <3>2. h # j /\ m[h] = l[h]
      BY <2>4, <2>5, <2>8, <3>1
    <3> QED
      BY <2>8, <3>1, <3>2 DEF Chained
  <2> QED
    BY <2>1, <2>7, <2>8 DEF Chained
<1> QED
  BY <1>2, <1>3

LEMMA FlatChained ==
    ASSUME NEW b \in BaseSet, b.path # NULL, Listed(b)
    PROVE  Listed(register_flat_accel(b)) /\ register_flat_accel(b).path = b.path
<1> DEFINE l == b.accel_list
           p == b.path
           m == NameAt(l, 1, p, p)
<1>1. l \in Lists /\ p \in Path /\ AccelIdx \subseteq Nat /\ Chained(l, p) /\ BaseDir(p)
  BY AccelIdxFacts DEF BaseSet, Base, Lists, Listed
<1>2. register_flat_accel(b) = [b EXCEPT !.accel_list = m]
  BY DEF register_flat_accel, BaseSet, Base, NameAt
<1>3. Chained(m, p)
  <2>1. CASE 1 \in AccelIdx
    <3>1. /\ m[1].path = p /\ m[1].name = p
          /\ \A k \in AccelIdx : k # 1 => m[k] = l[k]
      BY <1>1, <2>1, NamedAt
    <3> HIDE DEF m, l, p
    <3>2. p # NULL
      BY DEF p
    <3>3. \A h, k \in AccelIdx : h < k => k # 1
      BY TreeAssumption DEF AccelIdx
    <3>4. ASSUME NEW k \in AccelIdx, m[k].path # NULL
          PROVE  /\ IF m[k].path = p THEN k = 1
                    ELSE m[k].path \in site.dirs /\ Parent(m[k].path) = p
                 /\ IsVersal => m[k].name = m[k].path
      BY <1>1, <3>1, <3>4 DEF Chained
    <3>5. ASSUME NEW h \in AccelIdx, NEW k \in AccelIdx, h < k, m[k].path # NULL
          PROVE  m[h].path # NULL /\ ~(m[h].path = m[k].path /\ m[h].name = m[k].name)
      <4>1. k # 1 /\ m[k] = l[k] /\ l[k].path # NULL /\ l[k].path # p
        BY <1>1, <3>1, <3>3, <3>5 DEF Chained
      <4> QED
        BY <1>1, <3>1, <3>2, <3>5, <4>1 DEF Chained
    <3> QED
      BY <3>4, <3>5 DEF Chained
  <2>2. CASE 1 \notin AccelIdx
    <3>1. AccelIdx = {}
      BY <2>2, TreeAssumption DEF AccelIdx
    <3> QED
      BY <3>1 DEF Chained
  <2> QED
    BY <2>1, <2>2
<1> HIDE DEF m
<1>4. /\ [b EXCEPT !.accel_list = m].path = b.path
      /\ [b EXCEPT !.accel_list = m].accel_list = m
  BY DEF BaseSet, Base
<1> QED
  BY <1>1, <1>2, <1>3, <1>4 DEF Listed

-----------------------------------------------------------------------------
(* base_designs[].                                                         *)

LEMMA SetBaseOrderly ==
    ASSUME NEW E, NEW t, Orderly(t, E), NEW i \in Table, NEW b \in BaseSet, Listed(b)
    PROVE  LET u == [t EXCEPT !.bases[i] = b]
           IN  Orderly(u, E) /\ u.bases[i] = b
<1> DEFINE u == [t EXCEPT !.bases[i] = b]
<1>1. Sound(t) /\ Watching(t, E)
  BY DEF Orderly
<1>2. Sound(u)
  BY <1>1, SetBase
<1>3. /\ u.watch = t.watch /\ u.wd = t.wd /\ u.next = t.next /\ u.bases[i] = b
      /\ \A k \in Table : k # i => u.bases[k] = t.bases[k]
  BY <1>1, SetBaseFields
<1> HIDE DEF u
<1>4. Watching(u, E)
  BY <1>1, <1>3, SameWatching
<1>5. \A k \in Table : Listed(u.bases[k])
  BY <1>3 DEF Orderly
<1> QED
  BY <1>2, <1>3, <1>4, <1>5 DEF Orderly, u

LEMMA SetListOrderly ==
    ASSUME NEW E, NEW t, Orderly(t, E), NEW i \in Table, NEW l \in Lists,
           t.bases[i].path # NULL, Chained(l, t.bases[i].path)
    PROVE  LET u == [t EXCEPT !.bases[i].accel_list = l]
           IN  Orderly(u, E) /\ u.bases[i].path = t.bases[i].path
<1> DEFINE b == [t.bases[i] EXCEPT !.accel_list = l]
<1>1. Sound(t) /\ Listed(t.bases[i])
  BY DEF Orderly
<1>2. [t EXCEPT !.bases[i].accel_list = l] = [t EXCEPT !.bases[i] = b]
  BY <1>1 DEF Sound, Tables
<1>3. b \in BaseSet
  BY <1>1, BaseFacts, NewList
<1>4. b.path = t.bases[i].path /\ b.accel_list = l
  BY <1>1, BaseFacts DEF BaseSet, Base
<1> HIDE DEF b
<1>5. Listed(b)
  BY <1>1, <1>4 DEF Listed
<1> QED
  BY <1>2, <1>3, <1>4, <1>5, SetBaseOrderly

\* The tables but for base_designs[], entry by entry.
LEMMA BasesOrderly ==
    ASSUME NEW E, NEW t, Orderly(t, E), NEW u, Sound(u), u.watch = t.watch,
           u.next = t.next, \A k \in Table : Listed(u.bases[k])
    PROVE  Orderly(u, E)
BY SameWatching DEF Orderly

-----------------------------------------------------------------------------
(* A scan, at a base directory p whose entry is i.                         *)

ScanOrderly(x, i, p, E) ==
    ScanSound(x) /\ Orderly(x.t, E) /\ x.t.bases[i].path = p

LEMMA InsideFacts ==
    ASSUME NEW d \in Dirs, Parent(d) \in Dirs
    PROVE  /\ Parent(d) # Root /\ d # Parent(d)
           /\ <<Kind[Parent(d)], Kind[d]>> \in
                 {<<"base", "accel">>, <<"accel", "slot">>, <<"rpu", "rpuslot">>}
<1>1. Parent(d) # Root
  BY TreeAssumption
<1>2. <<Kind[Parent(d)], Kind[d]>> \in
         {<<"base", "accel">>, <<"accel", "slot">>, <<"rpu", "rpuslot">>}
  BY <1>1, KindFacts
<1> QED
  BY <1>1, <1>2

LEMMA ScanSlotOrderly ==
    ASSUME OnDisk, OneAccel, NEW E, NEW i \in Table, NEW p \in Dirs, NEW a \in Dirs,
           Parent(a) = p, NEW x, ScanOrderly(x, i, p, E), NEW s \in Dirs, Parent(s) = a
    PROVE  ScanOrderly(ScanSlotDir(i, a, x, s), i, p, E)
<1> DEFINE y == ScanSlotDir(i, a, x, s)
           w == add_dir_watch(x.t, s, a, a)
           list == w.t.bases[i].accel_list
           m == IF IsVersal THEN add_pdi_accel(list, a, a, s)
                ELSE add_accel_to_base(list, a, a)
           new == [w.t EXCEPT !.bases[i].accel_list = m]
<1>1. /\ Kind[p] = "base" /\ a # p /\ a # Root /\ p # NULL /\ site \in Sites
      /\ ScanSound(x) /\ Orderly(x.t, E) /\ x.t.bases[i].path = p
  <2>1. /\ <<Kind[a], Kind[s]>> \in
             {<<"base", "accel">>, <<"accel", "slot">>, <<"rpu", "rpuslot">>}
        /\ <<Kind[p], Kind[a]>> \in
             {<<"base", "accel">>, <<"accel", "slot">>, <<"rpu", "rpuslot">>}
    BY InsideFacts
  <2>2. Kind[p] = "base"
    BY <2>1
  <2> QED
    BY <2>2, InsideFacts, TreeAssumption DEF ScanOrderly, OnDisk
<1>2. ScanSound(y)
  BY <1>1, ScanSlotSound
<1>3. CASE x.stop \/ s \notin fs
  <2>1. y = x
    BY <1>3 DEF ScanSlotDir
  <2> HIDE DEF y
  <2> QED
    BY <2>1 DEF y
<1>4. CASE ~(x.stop \/ s \notin fs)
  <2>1. a \in site.dirs
    BY <1>1, <1>4, SiteAssumption DEF OnDisk
  <2>2. Orderly(w.t, E) /\ w.t.bases = x.t.bases
    BY <1>1, AddOrderly
  <2>3. y.t \in {w.t, new}
    <3>1. \/ y = [x EXCEPT !.t = w.t, !.stop = TRUE]
          \/ y = [x EXCEPT !.t = w.t]
          \/ y = [x EXCEPT !.t = new, !.range = Max({@, SlotIndex[s] + 1})]
      BY <1>4, Zenon DEF ScanSlotDir
    <3> HIDE DEF y, w, new
    <3> QED
      BY <1>1, <3>1 DEF ScanSound
  <2> HIDE DEF w, y
  <2>4. w.t.bases[i].path = p /\ list \in Lists /\ Chained(list, p)
    <3>1. w.t.bases[i].path = p /\ Sound(w.t) /\ Listed(w.t.bases[i])
      BY <1>1, <2>2 DEF Orderly
    <3> QED
      BY <1>1, <3>1, BaseFacts DEF Listed
  <2> HIDE DEF list
  <2>5. m \in Lists /\ Chained(m, p)
    <3>1. a \in Path
      BY DEF Path
    <3>2. IsVersal => add_pdi_accel(list, a, a, s) \in Lists
                      /\ Chained(add_pdi_accel(list, a, a, s), p)
      BY <1>1, <2>1, <2>4, <3>1, AddPdiList, PdiChained
    <3>3. add_accel_to_base(list, a, a) \in Lists
          /\ Chained(add_accel_to_base(list, a, a), p)
      BY <1>1, <2>1, <2>4, <3>1, AddAccelList, EnterChained
    <3> QED
      BY <3>2, <3>3
  <2> HIDE DEF m
  <2>6. Orderly(new, E) /\ new.bases[i].path = p
    BY <1>1, <2>2, <2>4, <2>5, SetListOrderly
  <2> HIDE DEF new
  <2> QED
    BY <1>2, <2>2, <2>3, <2>4, <2>6 DEF ScanOrderly, y
<1> QED
  BY <1>3, <1>4

LEMMA ScanSlotsOrderly ==
    ASSUME OnDisk, OneAccel, NEW E, NEW i \in Table, NEW p \in Dirs, NEW a \in Dirs,
           Parent(a) = p, NEW first, ScanOrderly(first, i, p, E)
    PROVE  ScanOrderly(ScanSlotDirs(i, a, first), i, p, E)
<1> DEFINE N == Len(Children[a])
           acc == SlotSteps(i, a, first)
<1>1. a \in Dirs /\ a \in Places /\ N \in Nat /\ DOMAIN Children[a] = 1 .. N
  <2>1. Children[a] \in Seq(Dirs)
    BY TreeAssumption
  <2> QED
    BY <2>1 DEF Places
<1>2. /\ acc[0] = first /\ ScanSlotDirs(i, a, first) = acc[N]
      /\ \A k \in 1 .. N : acc[k] = ScanSlotDir(i, a, acc[k - 1], Children[a][k])
  BY <1>1, SlotStages
<1> HIDE DEF acc
<1> DEFINE G == {k \in 0 .. N : ScanOrderly(acc[k], i, p, E)}
<1>3. 0 \in G
  BY <1>1, <1>2
<1>4. ASSUME NEW k \in 1 .. N, k - 1 \in G
      PROVE  k \in G
  <2>1. Children[a][k] \in Dirs /\ Parent(Children[a][k]) = a
    BY <1>1, ChildFacts
  <2>2. ScanOrderly(ScanSlotDir(i, a, acc[k - 1], Children[a][k]), i, p, E)
    BY <1>4, <2>1, ScanSlotOrderly
  <2> QED
    BY <1>1, <1>2, <2>2
<1>5. N \in G
  <2> HIDE DEF G
  <2> QED
    BY <1>1, <1>3, <1>4, Climb
<1> QED
  BY <1>2, <1>5

LEMMA ScanAccelOrderly ==
    ASSUME OnDisk, OneAccel, NEW E, NEW i \in Table, NEW p \in Dirs,
           NEW pname \in {NULL, p}, NEW x, ScanOrderly(x, i, p, E), NEW a \in Dirs,
           Parent(a) = p
    PROVE  ScanOrderly(ScanAccelDir(i, pname, p, x, a), i, p, E)
<1> DEFINE y == ScanAccelDir(i, pname, p, x, a)
           w == add_dir_watch(x.t, a, pname, p)
           z == [x EXCEPT !.t = w.t]
<1>1. /\ p # Root /\ site \in Sites /\ pname \in Path
      /\ ScanSound(x) /\ Orderly(x.t, E) /\ x.t.bases[i].path = p
  BY TreeAssumption DEF ScanOrderly, OnDisk, Path
<1>2. ScanSound(y)
  BY <1>1, ScanAccelSound
<1>3. CASE x.stop \/ a \notin fs
  <2>1. y = x
    BY <1>3 DEF ScanAccelDir
  <2> HIDE DEF y
  <2> QED
    BY <2>1 DEF y
<1>4. CASE ~(x.stop \/ a \notin fs)
  <2>1. Orderly(w.t, E) /\ w.t.bases = x.t.bases
    BY <1>1, AddOrderly
  <2>2. y = [x EXCEPT !.t = w.t, !.stop = TRUE] \/ y = ScanSlotDirs(i, a, z)
    BY <1>4, Zenon DEF ScanAccelDir
  <2> HIDE DEF w, y
  <2>3. CASE y = [x EXCEPT !.t = w.t, !.stop = TRUE]
    <3>1. y.t = w.t
      BY <1>1, <2>3 DEF ScanSound
    <3> QED
      BY <1>1, <1>2, <2>1, <3>1 DEF ScanOrderly, y
  <2>4. CASE y = ScanSlotDirs(i, a, z)
    <3>1. z.t = w.t /\ ScanSound(z)
      BY <1>1, <2>1 DEF ScanSound, Orderly
    <3> HIDE DEF z
    <3>2. ScanOrderly(z, i, p, E)
      BY <1>1, <2>1, <3>1 DEF ScanOrderly
    <3> QED
      BY <2>4, <3>2, ScanSlotsOrderly DEF y
  <2> QED
    BY <2>2, <2>3, <2>4
<1> QED
  BY <1>3, <1>4

LEMMA ScanRpuOrderly ==
    ASSUME OnDisk, OneAccel, NEW E, NEW i \in Table, NEW p \in Dirs,
           NEW pname \in {NULL, p}, NEW x, ScanOrderly(x, i, p, E), NEW c \in Dirs,
           Parent(c) = p
    PROVE  ScanOrderly(parse_rpu_slot_dir(i, pname, p, x, c), i, p, E)
<1> DEFINE y == parse_rpu_slot_dir(i, pname, p, x, c)
           w == add_dir_watch(x.t, c, pname, p)
           list == w.t.bases[i].accel_list
           m == add_accel_to_base(list, c, c)
           new == [w.t EXCEPT !.bases[i].accel_list = m]
<1>1. /\ p # Root /\ p # NULL /\ c # p /\ site \in Sites /\ pname \in Path
      /\ ScanSound(x) /\ Orderly(x.t, E) /\ x.t.bases[i].path = p
  <2>1. c # p /\ p # Root
    BY InsideFacts
  <2> QED
    BY <2>1, TreeAssumption DEF ScanOrderly, OnDisk, Path
<1>2. ScanSound(y)
  BY <1>1, ScanRpuSound
<1>3. CASE c \notin fs
  <2>1. y = x
    BY <1>3 DEF parse_rpu_slot_dir
  <2> HIDE DEF y
  <2> QED
    BY <2>1 DEF y
<1>4. CASE c \in fs
  <2>1. c \in site.dirs /\ c \in Path
    BY <1>4 DEF OnDisk, Path
  <2>2. Orderly(w.t, E) /\ w.t.bases = x.t.bases
    BY <1>1, AddOrderly
  <2>3. y.t \in {w.t, new}
    <3>1. y = [x EXCEPT !.t = w.t] \/ y = [x EXCEPT !.t = new]
      BY <1>4, Zenon DEF parse_rpu_slot_dir
    <3> HIDE DEF y, w, new
    <3> QED
      BY <1>1, <3>1 DEF ScanSound
  <2> HIDE DEF w, y
  <2>4. w.t.bases[i].path = p /\ list \in Lists /\ Chained(list, p)
    <3>1. w.t.bases[i].path = p /\ Sound(w.t) /\ Listed(w.t.bases[i])
      BY <1>1, <2>2 DEF Orderly
    <3> QED
      BY <1>1, <3>1, BaseFacts DEF Listed
  <2> HIDE DEF list
  <2>5. m \in Lists /\ Chained(m, p)
    BY <1>1, <2>1, <2>4, AddAccelList, EnterChained
  <2> HIDE DEF m
  <2>6. Orderly(new, E) /\ new.bases[i].path = p
    BY <1>1, <2>2, <2>4, <2>5, SetListOrderly
  <2> HIDE DEF new
  <2> QED
    BY <1>2, <2>2, <2>3, <2>4, <2>6 DEF ScanOrderly, y
<1> QED
  BY <1>3, <1>4

LEMMA ScanSubdirsOrderly ==
    ASSUME OnDisk, OneAccel, NEW E, NEW i \in Table, NEW p \in Dirs,
           NEW pname \in {NULL, p}, NEW first, ScanOrderly(first, i, p, E)
    PROVE  ScanOrderly(ScanSubdirs(i, pname, p, first), i, p, E)
<1> DEFINE N == Len(Children[p])
           acc == SubSteps(i, pname, p, first)
<1>1. p \in Dirs /\ p \in Places /\ N \in Nat /\ DOMAIN Children[p] = 1 .. N
  <2>1. Children[p] \in Seq(Dirs)
    BY TreeAssumption
  <2> QED
    BY <2>1 DEF Places
<1>2. /\ acc[0] = first /\ ScanSubdirs(i, pname, p, first) = acc[N]
      /\ \A k \in 1 .. N : acc[k] = ScanSubdir(i, pname, p, acc[k - 1], Children[p][k])
  BY <1>1, SubStages
<1> HIDE DEF acc
<1> DEFINE G == {k \in 0 .. N : ScanOrderly(acc[k], i, p, E)}
<1>3. 0 \in G
  BY <1>1, <1>2
<1>4. ASSUME NEW k \in 1 .. N, k - 1 \in G
      PROVE  k \in G
  <2> DEFINE c == Children[p][k]
  <2>1. c \in Dirs /\ Parent(c) = p
    BY <1>1, ChildFacts
  <2> HIDE DEF c
  <2>2. ScanOrderly(ScanSubdir(i, pname, p, acc[k - 1], c), i, p, E)
    BY <1>4, <2>1, ScanAccelOrderly, ScanRpuOrderly DEF ScanSubdir
  <2> QED
    BY <1>1, <1>2, <2>2 DEF c
<1>5. N \in G
  <2> HIDE DEF G
  <2> QED
    BY <1>1, <1>3, <1>4, Climb
<1> QED
  BY <1>2, <1>5

\* What the readers of a base's files leave alone.
LEMMA InitList ==
    ASSUME OnDisk, NEW b \in BaseSet, b.path \in Dirs
    PROVE  /\ init_base_from_pdi(b).b.accel_list = b.accel_list
           /\ initBaseDesign(b).b.accel_list = b.accel_list
<1> DEFINE M(n) == [b EXCEPT !.num_pl_slots = n]
<1>1. /\ Kind[b.path] \in Kinds /\ file[b.path] \in {"none", "partial", "full"}
      /\ Shell[b.path].type \in BaseTypes /\ Shell[b.path].slots \in Nat
      /\ NumRpu \in Nat
  BY TreeAssumption DEF OnDisk, BaseTypes
<1>2. \A n \in Nat : M(n).accel_list = b.accel_list
  BY DEF BaseSet, Base
<1>3. initBaseDesign(b).b.accel_list = b.accel_list
  <2>1. CASE Kind[b.path] = "rpu"
    <3>1. initBaseDesign(b).b = Typed(b, "RPU", NumRpu)
      BY <2>1 DEF initBaseDesign, Typed
    <3> QED
      BY <1>1, <3>1, BaseTypeFacts, TypedFields
  <2>2. CASE Kind[b.path] # "rpu" /\ file[b.path] = "none"
    BY <2>2 DEF initBaseDesign
  <2>3. CASE Kind[b.path] # "rpu" /\ file[b.path] = "partial"
    <3> DEFINE n == IF b.type = "FLAT" THEN 1 ELSE 0
    <3>1. initBaseDesign(b).b = M(n)
      BY <2>3 DEF initBaseDesign
    <3>2. n \in Nat
      OBVIOUS
    <3> HIDE DEF n, M
    <3> QED
      BY <1>2, <3>1, <3>2
  <2>4. CASE Kind[b.path] # "rpu" /\ file[b.path] = "full"
    <3>1. initBaseDesign(b).b = Typed(b, Shell[b.path].type, Shell[b.path].slots)
      BY <2>4 DEF initBaseDesign, Typed
    <3> QED
      BY <1>1, <3>1, TypedFields
  <2> QED
    BY <1>1, <2>1, <2>2, <2>3, <2>4
<1>4. init_base_from_pdi(b).b \in {b, Typed(b, NoType, 0)}
  BY DEF init_base_from_pdi, Typed, NoType
<1>5. Typed(b, NoType, 0).accel_list = b.accel_list
  BY BaseTypeFacts, TypedFields
<1> QED
  BY <1>3, <1>4, <1>5

LEMMA ClassifyListed ==
    ASSUME NEW b \in BaseSet, b.path # NULL, Listed(b), NEW n \in Nat
    PROVE  Listed(pdi_classify_base(b, n))
<1>1. pdi_classify_base(b, n) \in
        {Typed(b, "PL_DFX", n), register_flat_accel(Typed(b, "FLAT", 1))}
  BY DEF pdi_classify_base, Typed
<1>2. ASSUME NEW type \in BaseTypes, NEW k \in Nat
      PROVE  /\ Typed(b, type, k) \in BaseSet /\ Typed(b, type, k).path # NULL
             /\ Listed(Typed(b, type, k))
  BY TypedFields DEF Listed
<1>3. Listed(Typed(b, "PL_DFX", n)) /\ Listed(register_flat_accel(Typed(b, "FLAT", 1)))
  BY <1>2, BaseTypeFacts, FlatChained
<1> QED
  BY <1>1, <1>3

LEMMA ParseOrderly ==
    ASSUME OnDisk, OneAccel, NEW E, NEW t, Orderly(t, E), NEW i \in Table,
           NEW p \in Dirs, t.bases[i].path = p, NEW pname \in {NULL, p}
    PROVE  Orderly(parse_packages(t, i, pname), E)
<1> DEFINE first == [t |-> t, range |-> 0, stop |-> FALSE]
           end == ScanSubdirs(i, pname, p, first)
           flat == register_flat_accel(t.bases[i])
           dfx == pdi_classify_base(end.t.bases[i], end.range)
<1>1. p # NULL /\ Sound(t) /\ Listed(t.bases[i]) /\ t.bases[i] \in BaseSet
  BY TreeAssumption, BaseFacts DEF Orderly
<1>2. flat \in BaseSet /\ Listed(flat)
  BY <1>1, FlatAccel, FlatChained
<1> HIDE DEF flat
<1>3. Orderly([t EXCEPT !.bases[i] = flat], E)
  BY <1>2, SetBaseOrderly
<1>4. ScanOrderly(first, i, p, E)
  <2>1. first.t = t /\ ScanSound(first)
    BY <1>1 DEF ScanSound
  <2> HIDE DEF first
  <2> QED
    BY <2>1 DEF ScanOrderly
<1>5. parse_packages(t, i, pname) \in
        {[t EXCEPT !.bases[i] = flat], [end.t EXCEPT !.bases[i] = dfx], end.t}
  BY Zenon DEF parse_packages, flat
<1> HIDE DEF first
<1>6. ScanOrderly(end, i, p, E)
  BY <1>4, ScanSubdirsOrderly
<1> HIDE DEF end
<1>7. /\ Orderly(end.t, E) /\ end.range \in Nat /\ end.t.bases[i] \in BaseSet
      /\ end.t.bases[i].path = p /\ Listed(end.t.bases[i])
  BY <1>6, BaseFacts DEF ScanOrderly, ScanSound, Orderly
<1>8. dfx \in BaseSet /\ Listed(dfx)
  BY <1>1, <1>7, ClassifyType, ClassifyListed
<1> HIDE DEF dfx
<1>9. Orderly([end.t EXCEPT !.bases[i] = dfx], E)
  BY <1>7, <1>8, SetBaseOrderly
<1> QED
  BY <1>3, <1>5, <1>7, <1>9

LEMMA ReloadOrderly ==
    ASSUME OnDisk, OneAccel, NEW E, NEW t, Orderly(t, E), NEW i \in Table,
           NEW p \in Dirs, t.bases[i].path = p, NEW pname \in {NULL, p}, NEW r,
           r \in {initBaseDesign(t.bases[i]), init_base_from_pdi(t.bases[i]),
                  init_base_design(t.bases[i])}
    PROVE  Orderly(Reload(t, i, pname, r), E)
<1> DEFINE b == t.bases[i]
           u == [t EXCEPT !.bases[i] = r.b]
<1>1. b \in BaseSet /\ Listed(b)
  BY BaseFacts DEF Orderly
<1>2. r \in {initBaseDesign(b), init_base_from_pdi(b)}
  BY DEF init_base_design
<1> HIDE DEF b
<1>3. r.b \in BaseSet /\ r.b.path = p /\ r.b.accel_list = b.accel_list /\ b.path = p
  <2>1. b.path = p
    BY DEF b
  <2> QED
    BY <1>1, <1>2, <2>1, InitBaseType, InitList
<1>4. Listed(r.b)
  BY <1>1, <1>3 DEF Listed
<1>5. Orderly(u, E) /\ u.bases[i] = r.b
  BY <1>3, <1>4, SetBaseOrderly
<1> HIDE DEF u
<1>6. Orderly(parse_packages(u, i, pname), E)
  BY <1>3, <1>5, ParseOrderly
<1> QED
  BY <1>6 DEF Reload, u

\* The entry found for a base directory is its own, not that of another base
\* it is an accelerator of.
LEMMA FoundOwn ==
    ASSUME site \in Sites, NEW E, NEW t, Orderly(t, E), NEW d \in Dirs,
           Kind[d] \in {"base", "rpu", "slot"}, findBaseDesign_path(t, d) # 0
    PROVE  /\ findBaseDesign_path(t, d) \in Table
           /\ t.bases[findBaseDesign_path(t, d)].path = d
<1> DEFINE M == Matching(t, d)
           i == findBaseDesign_path(t, d)
<1>1. i = Lowest(M) /\ M # {}
  BY DEF findBaseDesign_path
<1>2. M \subseteq Table
  BY DEF Matching
<1> HIDE DEF M, i
<1>3. i \in M /\ i \in Table
  BY <1>1, <1>2, LowestRow
<1> DEFINE p == t.bases[i].path
<1>4. p # NULL /\ (p = d \/ \E j \in AccelIdx : t.bases[i].accel_list[j].path = d)
  BY <1>3 DEF M, Matching
<1>5. p = d
  <2> SUFFICES ASSUME p # d
               PROVE  FALSE
    OBVIOUS
  <2>1. PICK j \in AccelIdx : t.bases[i].accel_list[j].path = d
    BY <1>4
  <2>2. BaseDir(p) /\ Chained(t.bases[i].accel_list, p)
    BY <1>3, <1>4 DEF Orderly, Listed
  <2>3. Parent(d) = p /\ d # NULL
    BY <2>1, <2>2, TreeAssumption DEF Chained
  <2>4. p \in Dirs /\ Kind[p] \in {"base", "rpu", "slot"}
    BY <2>2, SiteFacts DEF BaseDir
  <2> HIDE DEF p
  <2>5. <<Kind[p], Kind[d]>> \in
           {<<"base", "accel">>, <<"accel", "slot">>, <<"rpu", "rpuslot">>}
    BY <2>3, <2>4, InsideFacts
  <2> QED
    BY <2>4, <2>5
<1> QED
  BY <1>3, <1>5 DEF i

LEMMA AssignOrderly ==
    ASSUME site \in Sites, NEW E, NEW t, Orderly(t, E)
    PROVE  Orderly(assign_list_ids(t), E)
<1> DEFINE u == assign_list_ids(t)
<1>1. Sound(t) /\ Sound(u)
  BY AssignSound DEF Orderly
<1>2. /\ u.watch = t.watch /\ u.wd = t.wd /\ u.next = t.next
      /\ \A k \in Table : Alike(t.bases[k], u.bases[k])
  BY <1>1, AssignFields
<1> HIDE DEF u
<1>3. ASSUME NEW k \in Table
      PROVE  Listed(u.bases[k])
  <2>1. Listed(t.bases[k]) /\ Alike(t.bases[k], u.bases[k])
    BY <1>2 DEF Orderly
  <2> QED
    BY <2>1 DEF Alike, Listed, Chained
<1> QED
  BY <1>1, <1>2, <1>3, BasesOrderly DEF u

LEMMA RemoveBaseOrderly ==
    ASSUME site \in Sites, NEW E, NEW t, Orderly(t, E), NEW path
    PROVE  Orderly(remove_base_design(t, path), E)
<1> DEFINE S == {k \in Table : t.bases[k].path = path}
           i == Lowest(S)
           l == [j \in AccelIdx |-> ClearAccel(t.bases[i].accel_list[j])]
           b == [path |-> NULL, type |-> NoType, num_pl_slots |-> 0, accel_list |-> l]
<1>1. CASE S = {}
  BY <1>1 DEF remove_base_design
<1>2. CASE S # {}
  <2>1. i \in Table
    BY <1>2, LowestRow
  <2>2. remove_base_design(t, path) = [t EXCEPT !.bases[i] = b]
    BY <1>2, Zenon DEF remove_base_design, NoType
  <2> HIDE DEF i
  <2>3. t.bases[i].accel_list \in Lists
    BY <2>1, BaseFacts DEF Orderly
  <2>4. l \in Lists
    BY <2>3, ClearedType DEF Lists
  <2>5. \A j \in AccelIdx : l[j].path = NULL
    <3>1. ASSUME NEW j \in AccelIdx
          PROVE  ClearAccel(t.bases[i].accel_list[j]).path = NULL
      <4>1. t.bases[i].accel_list[j] \in Accel
        BY <2>3 DEF Lists
      <4> QED
        BY <4>1 DEF ClearAccel, Accel
    <3> QED
      BY <3>1
  <2> HIDE DEF l
  <2>6. b \in BaseSet /\ b.path = NULL /\ b.accel_list = l
    BY <2>4, BaseTypeFacts, TreeAssumption DEF BaseSet, Base, Path, Lists, BaseTypes
  <2> HIDE DEF b
  <2>7. Listed(b)
    BY <2>5, <2>6 DEF Listed
  <2> QED
    BY <2>1, <2>2, <2>6, <2>7, SetBaseOrderly
<1> QED
  BY <1>1, <1>2

LEMMA AddBaseOrderly ==
    ASSUME site \in Sites, NEW E, NEW t, Orderly(t, E), NEW d, BaseDir(d)
    PROVE  Orderly(add_base_design(t, d), E)
<1> DEFINE free == {k \in Table : t.bases[k].path = NULL}
           i == Lowest(free)
           b == [t.bases[i] EXCEPT !.path = d]
<1>1. CASE (\E k \in Table : t.bases[k].path = d) \/ free = {}
  BY <1>1 DEF add_base_design
<1>2. CASE ~((\E k \in Table : t.bases[k].path = d) \/ free = {})
  <2>1. i \in Table /\ t.bases[i].path = NULL
    <3>1. i \in free /\ i \in Table
      BY <1>2, LowestRow
    <3> QED
      BY <3>1
  <2>2. add_base_design(t, d) = [t EXCEPT !.bases[i].path = d]
    BY <1>2 DEF add_base_design
  <2> HIDE DEF i
  <2>3. [t EXCEPT !.bases[i].path = d] = [t EXCEPT !.bases[i] = b]
    BY <2>1 DEF Orderly, Sound, Tables
  <2>4. d \in Dirs /\ d \in Path /\ d # Root /\ d # NULL
    BY SiteFacts, TreeAssumption DEF BaseDir, Path
  <2>5. t.bases[i] \in Base /\ Listed(t.bases[i])
    BY <2>1, BaseFacts DEF BaseSet, Orderly
  <2>6. b \in BaseSet /\ b.path = d /\ b.accel_list = t.bases[i].accel_list
    BY <2>4, <2>5 DEF BaseSet, Base
  <2> HIDE DEF b
  <2>7. Listed(b)
    BY <2>1, <2>4, <2>5, <2>6 DEF Listed, Chained
  <2> QED
    BY <2>1, <2>2, <2>3, <2>6, <2>7, SetBaseOrderly
<1> QED
  BY <1>1, <1>2

\* remove_accel() of a directory that is no base has nothing to do.
LEMMA RemoveAccelOrderly ==
    ASSUME NEW E, NEW t, Orderly(t, E), NEW path, NEW parent,
           \A k \in Table : t.bases[k].path # parent
    PROVE  Orderly(remove_accel(t, path, parent), E)
<1> DEFINE u == remove_accel(t, path, parent)
           b(k) == IF t.bases[k].path # parent THEN t.bases[k]
                   ELSE [t.bases[k] EXCEPT !.accel_list = WithoutAccel(@, path)]
           bs == [k \in Table |-> b(k)]
<1>1. Sound(t) /\ Sound(u) /\ t \in Tables
  BY RemoveAccelSound DEF Orderly, Sound
<1>2. u = [t EXCEPT !.bases = bs]
  BY DEF remove_accel
<1>3. \A k \in Table : bs[k] = t.bases[k]
  OBVIOUS
<1> HIDE DEF u, bs
<1>4. u.watch = t.watch /\ u.next = t.next /\ u.bases = bs
  BY <1>1, <1>2 DEF Tables
<1>5. \A k \in Table : Listed(u.bases[k])
  BY <1>3, <1>4 DEF Orderly
<1> QED
  BY <1>1, <1>4, <1>5, BasesOrderly DEF u

-----------------------------------------------------------------------------
(* Steps of the installer.                                                 *)

LEMMA RowsDone ==
    ASSUME DiscoveryInv, RowsInv, site' = site, Orderly(db', Alerts(db)),
           batch' \in Seq(Alerts(db)), queue' \in Seq(Alerts(db)),
           walk'.reg # NULL => BaseDir(walk'.reg)
    PROVE  RowsInv'
<1>1. IsVersal' = IsVersal /\ Table' = Table
  BY DEF IsVersal, Table
<1>2. \A d : FileName(d)' = FileName(d)
  BY <1>1 DEF FileName
<1>3. Alert' = Alert
  BY <1>2 DEF Alert
<1>4. \A e : Told(db', e) <=> Told(db, e)'
  BY <1>1, <1>2 DEF Told, Concerns
<1>5. Alerts(db) \subseteq Alerts(db)'
  <2>1. \A e \in Alerts(db) : Told(db', e)
    BY DEF Orderly, Watching
  <2>2. \A e \in Alerts(db) : e \in Alert
    BY DEF Alerts
  <2>3. Alerts(db)' = {e \in Alert' : Told(db, e)'}
    BY DEF Alerts
  <2> QED
    BY <1>3, <1>4, <2>1, <2>2, <2>3
<1>6. \A p : BaseDir(p)' <=> BaseDir(p)
  BY DEF BaseDir
<1>7. \A k \in Table : Listed(db.bases[k])'
  <2>1. \A l, p : Chained(l, p)' <=> Chained(l, p)
    BY <1>1 DEF Chained
  <2>2. \A k \in Table : Listed(db'.bases[k])
    BY DEF Orderly
  <2> QED
    BY <1>6, <2>1, <2>2 DEF Listed
<1>8. Watching(db, Alerts(db))'
  <2>1. Watching(db', Alerts(db))
    BY DEF Orderly
  <2>2. \A e \in Alerts(db)' : Told(db, e)'
    BY DEF Alerts
  <2>3. \A k \in Table : Placed(db.watch[k])' /\ db'.watch[k].wd < db'.next
    BY <2>1 DEF Watching, Placed
  <2> QED
    BY <1>1, <2>1, <2>2, <2>3 DEF Watching
<1>9. Sound(db)'
  BY <1>1 DEF Orderly, Sound, Tables, Resolved
<1>10. Orderly(db, Alerts(db))'
  BY <1>1, <1>7, <1>8, <1>9 DEF Orderly
<1>11. batch' \in Seq(Alerts(db)') /\ queue' \in Seq(Alerts(db)')
  BY <1>5
<1> QED
  BY <1>6, <1>10, <1>11 DEF RowsInv

LEMMA SoundNext ==
    ASSUME DiscoveryInv', site' = site
    PROVE  Sound(db')
<1>1. Table' = Table
  BY DEF Table
<1> QED
  BY <1>1 DEF DiscoveryInv, Sound, Tables, Resolved

\* An event reaches the watch of the directory it is about.
LEMMA EmittedTold ==
    ASSUME NEW t, Orderly(t, Alerts(t)), NEW p \in Places, t.wd[p] # -1, NEW mask, NEW name,
           mask \in DirMasks \cup {"CREATE", "MOVED_TO"},
           name \in Dirs \cup {FileName(d) : d \in Dirs},
           LET e == [wd |-> t.wd[p], mask |-> mask, name |-> name] IN Concerns(e, p)
    PROVE  [wd |-> t.wd[p], mask |-> mask, name |-> name] \in Alerts(t)
<1> DEFINE e == [wd |-> t.wd[p], mask |-> mask, name |-> name]
<1>1. Sound(t) /\ Watching(t, Alerts(t)) /\ t.wd[p] \in Int
  BY DEF Orderly, Sound, Tables
<1>2. e \in Alert /\ e.wd = t.wd[p] /\ Concerns(e, p)
  BY <1>1 DEF Alert
<1>3. PICK i \in Table : t.watch[i].wd = t.wd[p] /\ t.watch[i].path = p
  BY <1>1 DEF Sound, Resolved
<1> HIDE DEF e
<1>4. Told(t, e)
  <2>1. e.wd \in Int /\ e.wd # -1 /\ e.wd < t.next
    BY <1>1, <1>2, <1>3 DEF Watching
  <2>2. \A k \in Table : t.watch[k].wd = e.wd => k = i
    BY <1>1, <1>2, <1>3 DEF Watching
  <2> QED
    BY <1>2, <1>3, <2>1, <2>2 DEF Told
<1> QED
  BY <1>2, <1>4 DEF Alerts, e

LEMMA EmitRows ==
    ASSUME DiscoveryInv, RowsInv, NEW p \in Places, NEW mask, NEW name,
           Emit(p, mask, name), mask \in DirMasks \cup {"CREATE", "MOVED_TO"},
           name \in Dirs \cup {FileName(d) : d \in Dirs},
           IF mask \in DirMasks
           THEN name \in Dirs /\ Parent(name) = p /\ (mask = "MOVED_TO_DIR" => p = Root)
           ELSE p \in Dirs /\ FileName(p) = name
    PROVE  queue' \in Seq(Alerts(db))
<1> DEFINE e == [wd |-> db.wd[p], mask |-> mask, name |-> name]
<1>1. queue \in Seq(Alerts(db)) /\ Orderly(db, Alerts(db))
  BY DEF RowsInv
<1>2. queue' = IF db.wd[p] = -1 THEN queue ELSE Append(queue, e)
  BY DEF Emit
<1>3. Concerns(e, p)
  <2>1. e.mask = mask /\ e.name = name
    OBVIOUS
  <2> HIDE DEF e
  <2> QED
    BY <2>1 DEF Concerns
<1>4. db.wd[p] # -1 => e \in Alerts(db)
  BY <1>1, <1>3, EmittedTold
<1> HIDE DEF e
<1> QED
  BY <1>1, <1>2, <1>4, AppendProperties

LEMMA DeletedRows ==
    ASSUME DiscoveryInv, RowsInv, NEW d \in Dirs, rmtree(d)
    PROVE  queue' \in Seq(Alerts(db))
<1> DEFINE seen == {c \in fs \cap Below(d) : db.wd[Parent(c)] # -1}
           inner == {c \in seen : Parent(c) = d}
           order == SetToSeq(seen \ (inner \cup {d})) \o SetToSeq(inner)
                        \o SetToSeq(seen \cap {d})
           e(k) == [wd |-> db.wd[Parent(order[k])], mask |-> "DELETE_DIR",
                    name |-> order[k]]
           F == [k \in DOMAIN order |-> e(k)]
<1>1. site.dirs \subseteq Dirs /\ fs \subseteq site.dirs
  BY SiteFacts DEF DiscoveryInv, OnDisk
<1>2. queue' = queue \o F
  BY Zenon DEF rmtree
<1>3. F \in Seq(Events) /\ DOMAIN F = DOMAIN order /\ \A k \in DOMAIN order : order[k] \in seen
  BY DeletedOrder, Zenon
<1>4. \A c \in seen : c \in Dirs /\ db.wd[Parent(c)] # -1
  BY <1>1
<1> HIDE DEF order, seen, inner
<1>5. ASSUME NEW k \in DOMAIN order
      PROVE  e(k) \in Alerts(db)
  <2> DEFINE c == order[k]
             p == Parent(c)
             m == "DELETE_DIR"
             f == [wd |-> db.wd[p], mask |-> m, name |-> c]
  <2>1. c \in Dirs /\ p \in Places /\ db.wd[p] # -1
    BY <1>3, <1>4, ParentIn
  <2>2. m \in DirMasks /\ m # "MOVED_TO_DIR"
    BY DEF DirMasks
  <2>3. Orderly(db, Alerts(db))
    BY DEF RowsInv
  <2> HIDE DEF c, m
  <2>4. Concerns(f, p)
    <3>1. f.mask = m /\ f.name = c
      OBVIOUS
    <3>2. p = Parent(c)
      OBVIOUS
    <3> HIDE DEF f, p
    <3> QED
      BY <2>1, <2>2, <3>1, <3>2 DEF Concerns
  <2> HIDE DEF p
  <2>5. f \in Alerts(db)
    BY <2>1, <2>2, <2>3, <2>4, EmittedTold
  <2> QED
    BY <2>5, Zenon DEF f, m, p, c
<1> HIDE DEF e
<1>6. F \in Seq(Alerts(db))
  <2>1. Len(F) \in Nat /\ DOMAIN F = 1 .. Len(F)
    BY <1>3
  <2>2. \A k \in 1 .. Len(F) : F[k] \in Alerts(db)
    BY <1>3, <1>5, <2>1
  <2>3. F \in [1 .. Len(F) -> Alerts(db)]
    BY <1>3, <2>1, <2>2
  <2> HIDE DEF F
  <2> QED
    BY <2>1, <2>3
<1> HIDE DEF F
<1>7. queue \in Seq(Alerts(db))
  BY DEF RowsInv
<1> QED
  BY <1>2, <1>6, <1>7, ConcatProperties

LEMMA InstallerRows ==
    ASSUME DiscoveryInv, RowsInv, Installer
    PROVE  RowsInv'
<1>1. PICK d \in Dirs :
         \/ mkdir(d) \/ open_file(d) \/ rename_file(d) \/ unlink(d) \/ rmdir(d)
         \/ rmtree(d) \/ move_in(d) \/ move_out(d) \/ close_file(d)
  BY DEF Installer
<1>2. site' = site /\ batch' = batch /\ walk' = walk
  BY DEF Installer
<1>3. /\ Orderly(db, Alerts(db)) /\ batch \in Seq(Alerts(db)) /\ queue \in Seq(Alerts(db))
      /\ walk.reg # NULL => BaseDir(walk.reg)
  BY DEF RowsInv
<1>4. db \in Tables /\ Sound(db')
  <2>1. DiscoveryInv'
    BY InstallerStep
  <2> QED
    BY <1>2, <2>1, SoundNext DEF DiscoveryInv, Sound
<1>5. db'.watch = db.watch /\ db'.next = db.next /\ db'.bases = db.bases
  <2>1. \/ db' = db \/ (\E x : db' = [db EXCEPT !.wd = x])
    <3>1. CASE rmdir(d)
      <4>1. db' = [db EXCEPT !.wd = [db.wd EXCEPT ![d] = -1]]
        BY <3>1, Zenon DEF rmdir
      <4> QED
        BY <4>1
    <3>2. CASE rmtree(d) \/ move_out(d)
      BY <3>2, Zenon DEF rmtree, move_out
    <3>3. CASE ~(rmdir(d) \/ rmtree(d) \/ move_out(d))
      BY <1>1, <3>3 DEF mkdir, open_file, rename_file, unlink, close_file, move_in
    <3> QED
      BY <3>1, <3>2, <3>3
  <2> QED
    BY <1>4, <2>1 DEF Tables
<1>6. Orderly(db', Alerts(db))
  BY <1>3, <1>4, <1>5, BasesOrderly DEF Orderly
<1>7. queue' \in Seq(Alerts(db))
  <2>1. d \in Places /\ Parent(d) \in Places /\ FileName(d) \in {FileName(c) : c \in Dirs}
    BY ParentIn DEF Places
  <2>2. CASE mkdir(d)
    BY <2>1, <2>2, EmitRows DEF mkdir, DirMasks
  <2>3. CASE open_file(d) \/ close_file(d)
    BY <2>1, <2>3, EmitRows DEF open_file, close_file, DirMasks
  <2>4. CASE rename_file(d)
    BY <2>1, <2>4, EmitRows DEF rename_file, DirMasks
  <2>5. CASE unlink(d)
    BY <1>3, <2>5 DEF unlink
  <2>6. CASE rmdir(d)
    BY <2>1, <2>6, EmitRows DEF rmdir, DirMasks
  <2>7. CASE rmtree(d)
    BY <2>7, DeletedRows
  <2>8. CASE move_in(d)
    BY <2>1, <2>8, EmitRows DEF move_in, DirMasks
  <2>9. CASE move_out(d)
    BY <2>1, <2>9, EmitRows DEF move_out, DirMasks
  <2> QED
    BY <1>1, <2>2, <2>3, <2>4, <2>5, <2>6, <2>7, <2>8, <2>9
<1> QED
  BY <1>2, <1>3, <1>6, <1>7, RowsDone

-----------------------------------------------------------------------------
(* Steps of the inotify thread.                                            *)

LEMMA TailOf ==
    ASSUME NEW S, batch \in Seq(S), batch # <<>>
    PROVE  Tail(batch) \in Seq(S) /\ batch[1] \in S /\ <<>> \in Seq(S)
<1>1. Len(batch) \in Nat /\ Len(batch) > 0
  BY EmptySeq
<1> QED
  BY <1>1, HeadTailProperties

\* A handler that leaves the tables in order is done, with its event or with
\* the whole batch.
LEMMA HandlerDone ==
    ASSUME DiscoveryInv, RowsInv, UNCHANGED inotify, batch # <<>>,
           batch' \in {Tail(batch), <<>>}, Orderly(db', Alerts(db))
    PROVE  RowsInv'
<1>1. batch \in Seq(Alerts(db)) /\ queue' \in Seq(Alerts(db))
      /\ site' = site /\ walk' = walk /\ (walk.reg # NULL => BaseDir(walk.reg))
  BY DEF RowsInv, inotify, disk
<1>2. batch' \in Seq(Alerts(db))
  BY <1>1, TailOf
<1> QED
  BY <1>1, <1>2, RowsDone

\* The watch of the event at hand.
LEMMA EventPlaced ==
    ASSUME DiscoveryInv, RowsInv, batch # <<>>, NEW w \in EventWatch
    PROVE  /\ w \in Watch /\ Placed(w) /\ Concerns(batch[1], w.path)
           /\ \E k \in Table : w = db.watch[k]
<1> DEFINE S == get_watch(db, batch[1].wd)
<1>1. PICK k \in S : w = db.watch[k]
  BY DEF EventWatch
<1>2. k \in Table /\ db.watch[k].wd = batch[1].wd
  BY DEF get_watch
<1>3. batch[1] \in Alerts(db)
  BY TailOf DEF RowsInv
<1>4. Told(db, batch[1])
  BY <1>3 DEF Alerts
<1>5. Watching(db, Alerts(db)) /\ Sound(db)
  BY DEF RowsInv, Orderly
<1> QED
  BY <1>1, <1>2, <1>4, <1>5, WatchTypes DEF Told, Watching

\* Files of base and slot directories.
LEMMA FileOwners ==
    ASSUME NEW x \in Dirs
    PROVE  /\ FileName(x) = "pdi" => IsVersal /\ Kind[x] \in {"base", "slot"}
           /\ FileName(x) = "shell.json" => Kind[x] = "base"
           /\ FileName(x) = "accel.json" => ~IsVersal /\ Kind[x] = "slot"
<1>1. NULL \notin {"pdi", "shell.json", "accel.json"}
  BY TreeAssumption
<1>2. CASE Kind[x] = "base"
  BY <1>2 DEF FileName
<1>3. CASE Kind[x] = "slot"
  BY <1>3 DEF FileName
<1>4. CASE Kind[x] = "rpuslot"
  BY <1>4 DEF FileName
<1>5. CASE Kind[x] \notin {"base", "slot", "rpuslot"}
  <2>1. FileName(x) = NULL
    BY <1>5 DEF FileName
  <2> QED
    BY <1>1, <2>1
<1> QED
  BY <1>2, <1>3, <1>4, <1>5

LEMMA CreatedRows ==
    ASSUME DiscoveryInv, RowsInv, dir_created
    PROVE  RowsInv'
<1> DEFINE d == batch[1].name
<1>1. batch # <<>> /\ batch[1].mask = "CREATE_DIR" /\ d \in Dirs /\ UNCHANGED inotify
  BY DEF dir_created, Event
<1>2. PICK w \in EventWatch :
         /\ db' = add_dir_watch(db, d, WatchName(w), w.path).t
         /\ batch' \in {Tail(batch), <<>>}
  BY Zenon DEF dir_created, drop_batch, next_event
<1>3. Parent(d) = w.path
  BY <1>1, <1>2, EventPlaced DEF Concerns, DirMasks
<1>4. WatchName(w) \in {NULL, Parent(d)} /\ (Parent(d) = Root => WatchName(w) = NULL)
  BY <1>3 DEF WatchName
<1>5. OnDisk /\ Orderly(db, Alerts(db))
  BY DEF DiscoveryInv, RowsInv
<1> HIDE DEF d
<1>6. Orderly(add_dir_watch(db, d, WatchName(w), Parent(d)).t, Alerts(db))
  BY <1>1, <1>4, <1>5, AddOrderly
<1>7. Orderly(db', Alerts(db))
  BY <1>2, <1>3, <1>6
<1> QED
  BY <1>1, <1>2, <1>7, HandlerDone

\* A base whose files changed.
LEMMA ChangedOrderly ==
    ASSUME DiscoveryInv, OneAccel, RowsInv, NEW d \in Dirs,
           Kind[d] \in {"base", "rpu", "slot"}, NEW pname \in {NULL, d},
           BaseChanged(d, pname)
    PROVE  batch' \in {Tail(batch), <<>>} /\ Orderly(db', Alerts(db))
<1> DEFINE t == assign_list_ids(db)
           i == findBaseDesign_path(t, d)
<1>1. OnDisk /\ site \in Sites /\ Orderly(db, Alerts(db))
  BY DEF DiscoveryInv, OnDisk, RowsInv
<1>2. Orderly(t, Alerts(db))
  BY <1>1, AssignOrderly
<1>3. /\ batch' \in {Tail(batch), <<>>}
      /\ \/ db' = t
         \/ i # 0 /\ db' = Reload(t, i, pname, initBaseDesign(t.bases[i]))
  BY DEF BaseChanged, drop_batch, next_event
<1> HIDE DEF t
<1>4. i # 0 => i \in Table /\ t.bases[i].path = d
  BY <1>1, <1>2, FoundOwn
<1> HIDE DEF i
<1>5. i # 0 => Orderly(Reload(t, i, pname, initBaseDesign(t.bases[i])), Alerts(db))
  BY <1>1, <1>2, <1>4, ReloadOrderly
<1> QED
  BY <1>2, <1>3, <1>5

LEMMA ShellRows ==
    ASSUME DiscoveryInv, OneAccel, RowsInv, shell_written
    PROVE  RowsInv'
<1>1. /\ batch # <<>> /\ batch[1].mask \in {"CREATE", "MOVED_TO"}
      /\ batch[1].name = "shell.json" /\ UNCHANGED inotify
  BY DEF shell_written, Event
<1>2. PICK w \in EventWatch : BaseChanged(w.path, WatchName(w))
  BY DEF shell_written
<1>3. w.path \in Dirs /\ FileName(w.path) = "shell.json"
  BY <1>1, EventPlaced DEF Concerns, DirMasks
<1>4. Kind[w.path] = "base" /\ WatchName(w) = w.path
  BY <1>3, FileOwners, TreeAssumption DEF WatchName
<1>5. batch' \in {Tail(batch), <<>>} /\ Orderly(db', Alerts(db))
  BY <1>2, <1>3, <1>4, ChangedOrderly
<1> QED
  BY <1>1, <1>5, HandlerDone

LEMMA MovedInRows ==
    ASSUME DiscoveryInv, OneAccel, RowsInv, dir_moved_in
    PROVE  RowsInv'
<1> DEFINE d == batch[1].name
<1>1. batch # <<>> /\ batch[1].mask = "MOVED_TO_DIR" /\ d \in Dirs /\ UNCHANGED inotify
  BY DEF dir_moved_in, Event
<1>2. PICK w \in EventWatch :
         \/ batch' = Tail(batch) /\ db' = assign_list_ids(db)
         \/ BaseChanged(d, WatchName(w))
  BY DEF dir_moved_in, next_event
<1>3. w.path = Root /\ Parent(d) = Root
  BY <1>1, EventPlaced DEF Concerns, DirMasks
<1>4. Kind[d] \in {"base", "rpu"} /\ WatchName(w) = NULL
  BY <1>1, <1>3, KindFacts DEF WatchName
<1>5. site \in Sites /\ Orderly(db, Alerts(db))
  BY DEF DiscoveryInv, OnDisk, RowsInv
<1> HIDE DEF d
<1>6. batch' \in {Tail(batch), <<>>} /\ Orderly(db', Alerts(db))
  BY <1>1, <1>2, <1>4, <1>5, AssignOrderly, ChangedOrderly
<1> QED
  BY <1>1, <1>6, HandlerDone

\* The base of the accelerator a slot directory s belongs to, found by way of
\* the watch of the accelerator directory.
LEMMA GrandparentOwn ==
    ASSUME DiscoveryInv, NEW E, NEW t, Orderly(t, E), NEW s \in site.dirs,
           Kind[s] = "slot", WatchesOf(t, Parent(s)) # {}
    PROVE  LET g == findBaseDesign_path(t, path_to_watch(t, Parent(s)).parent_path)
               b == Parent(Parent(s))
           IN  /\ Parent(s) \in site.dirs /\ Parent(s) \in Dirs /\ b \in Dirs
               /\ Parent(s) # b /\ Kind[b] = "base" /\ Kind[Parent(s)] = "accel"
               /\ g # 0 => g \in Table /\ t.bases[g].path = b
<1> DEFINE a == Parent(s)
           b == Parent(a)
           W == WatchesOf(t, a)
           k == Lowest(W)
           up == path_to_watch(t, a)
           g == findBaseDesign_path(t, up.parent_path)
<1>1. site \in Sites /\ s \in Dirs
  BY SiteFacts DEF DiscoveryInv, OnDisk
<1>2. a \in Dirs /\ <<Kind[a], Kind[s]>> \in
         {<<"base", "accel">>, <<"accel", "slot">>, <<"rpu", "rpuslot">>}
  BY <1>1, KindFacts
<1>3. Kind[a] = "accel" /\ a # Root /\ a \in site.dirs
  <2>1. a # Root
    BY <1>2, TreeAssumption
  <2>2. a \in site.dirs
    BY <1>1, <2>1, SiteAssumption
  <2> QED
    BY <1>2, <2>1, <2>2
<1>4. b \in Dirs /\ <<Kind[b], Kind[a]>> \in
         {<<"base", "accel">>, <<"accel", "slot">>, <<"rpu", "rpuslot">>}
  <2> HIDE DEF a
  <2> QED
    BY <1>2, <1>3, KindFacts
<1>5. Kind[b] = "base" /\ a # b
  BY <1>3, <1>4
<1>6. k \in Table /\ t.watch[k].path = a /\ up = t.watch[k]
  <2>1. W \subseteq Table
    BY DEF WatchesOf
  <2>2. up = t.watch[k]
    BY DEF path_to_watch
  <2> HIDE DEF W
  <2>3. k \in W /\ k \in Table
    BY <1>1, <2>1, LowestRow DEF W
  <2> QED
    BY <2>2, <2>3 DEF W, WatchesOf
<1> HIDE DEF a, b, k, up
<1>7. up.parent_path = b
  BY <1>2, <1>6 DEF Orderly, Watching, Placed, b
<1>8. g # 0 => g \in Table /\ t.bases[g].path = b
  BY <1>1, <1>4, <1>5, <1>7, FoundOwn
<1>9. /\ a \in site.dirs /\ a \in Dirs /\ b \in Dirs /\ a # b /\ Kind[b] = "base"
      /\ Kind[a] = "accel" /\ (g # 0 => g \in Table /\ t.bases[g].path = b)
  BY <1>2, <1>3, <1>4, <1>5, <1>8
<1> QED
  BY <1>9, Zenon DEF a, b, up, g

LEMMA AccelRows ==
    ASSUME DiscoveryInv, OneAccel, RowsInv, accel_written
    PROVE  RowsInv'
<1> DEFINE t == assign_list_ids(db)
<1>1. /\ batch # <<>> /\ batch[1].mask = "CREATE"
      /\ batch[1].name = "accel.json" /\ UNCHANGED inotify
  BY DEF accel_written, Event
<1>2. PICK w \in EventWatch :
         LET i == AccelBase(t, w)
         IN  /\ batch' \in {Tail(batch), <<>>}
             /\ \/ db' = db \/ db' = t
                \/ /\ i # 0 /\ WatchesOf(db, w.parent_path) # {}
                   /\ db' = [t EXCEPT !.bases[i].accel_list =
                               add_accel_to_base(@, w.parent_name, w.parent_path)]
  BY Zenon DEF accel_written, drop_batch, next_event
<1> DEFINE s == w.path
           a == Parent(s)
           b == Parent(a)
           i == AccelBase(t, w)
           l == t.bases[i].accel_list
           m == add_accel_to_base(l, w.parent_name, a)
<1>3. s \in Dirs /\ FileName(s) = "accel.json" /\ Placed(w)
  BY <1>1, EventPlaced DEF Concerns, DirMasks
<1>4. ~IsVersal /\ Kind[s] = "slot" /\ w.parent_path = a /\ w.parent_name \in {NULL, a}
      /\ s \in site.dirs
  <2>1. ~IsVersal /\ Kind[s] = "slot"
    BY <1>3, FileOwners
  <2>2. s # Root /\ s # NULL
    BY <1>3, TreeAssumption
  <2> QED
    BY <1>3, <2>1, <2>2 DEF Placed
<1>5. site \in Sites /\ Orderly(db, Alerts(db)) /\ Sound(db)
  BY DEF DiscoveryInv, OnDisk, RowsInv
<1>6. Orderly(t, Alerts(db)) /\ t.watch = db.watch
  BY <1>5, AssignOrderly, AssignFields
<1>7. \/ db' = db \/ db' = t
      \/ i # 0 /\ WatchesOf(t, a) # {} /\ db' = [t EXCEPT !.bases[i].accel_list = m]
  <2>1. WatchesOf(t, a) = WatchesOf(db, a)
    BY <1>6 DEF WatchesOf
  <2> HIDE DEF t
  <2> QED
    BY <1>2, <1>4, <2>1, Zenon
<1> HIDE DEF t
<1>8. i = findBaseDesign_path(t, path_to_watch(t, a).parent_path)
  BY <1>4 DEF AccelBase
<1> HIDE DEF i, s
<1>9. CASE i # 0 /\ WatchesOf(t, a) # {} /\ db' = [t EXCEPT !.bases[i].accel_list = m]
  <2>1. /\ a \in site.dirs /\ a \in Dirs /\ b \in Dirs /\ a # b
        /\ i \in Table /\ t.bases[i].path = b
    BY <1>4, <1>6, <1>8, <1>9, GrandparentOwn
  <2> HIDE DEF a
  <2>2. l \in Lists /\ Chained(l, b) /\ b # NULL
    <3>1. Sound(t) /\ Listed(t.bases[i]) /\ b # NULL
      BY <1>6, <2>1, TreeAssumption DEF Orderly
    <3> HIDE DEF b
    <3> QED
      BY <2>1, <3>1, BaseFacts DEF Listed
  <2> HIDE DEF l
  <2>3. w.parent_name \in Path /\ a \in Path
    BY <1>4, <2>1 DEF Path
  <2>4. m \in Lists /\ Chained(m, b)
    BY <1>4, <2>1, <2>2, <2>3, AddAccelList, EnterChained
  <2> HIDE DEF m, b
  <2>5. Orderly([t EXCEPT !.bases[i].accel_list = m], Alerts(db))
    BY <1>6, <2>1, <2>2, <2>4, SetListOrderly
  <2>6. Orderly(db', Alerts(db))
    BY <1>9, <2>5
  <2> QED
    BY <1>1, <1>2, <2>6, HandlerDone
<1>10. CASE db' = db \/ db' = t
  BY <1>1, <1>2, <1>5, <1>6, <1>10, HandlerDone
<1> QED
  BY <1>7, <1>9, <1>10

\* A PDI in a base directory, or in one taken for a base.
LEMMA BasePdiOrderly ==
    ASSUME DiscoveryInv, OneAccel, NEW E, NEW t, Orderly(t, E), NEW w, w.path \in Dirs,
           Kind[w.path] \in {"base", "slot"}, BasePdi(t, w)
    PROVE  Orderly(db', E)
<1> DEFINE p == w.path
           i == findBaseDesign_path(t, p)
           r == init_base_from_pdi(t.bases[i])
<1>1. OnDisk /\ site \in Sites
  BY DEF DiscoveryInv, OnDisk
<1>2. db' = t \/ (i # 0 /\ db' = Reload(t, i, WatchName(w), r))
  BY DEF BasePdi
<1>3. WatchName(w) \in {NULL, p}
  BY DEF WatchName
<1> HIDE DEF p
<1>4. i # 0 => i \in Table /\ t.bases[i].path = p
  BY <1>1, FoundOwn DEF p
<1> HIDE DEF i
<1>5. i # 0 => Orderly(Reload(t, i, WatchName(w), r), E)
  BY <1>1, <1>3, <1>4, ReloadOrderly DEF p
<1> QED
  BY <1>2, <1>5

\* A PDI in a slot directory, two levels below its base.
LEMMA SlotPdiOrderly ==
    ASSUME DiscoveryInv, OneAccel, IsVersal, NEW E, NEW t, Orderly(t, E), NEW w,
           w.path \in site.dirs, Kind[w.path] = "slot", w.parent_path = Parent(w.path),
           w.parent_name = Parent(w.path), SlotPdi(t, w)
    PROVE  Orderly(db', E)
<1> DEFINE s == w.path
           a == Parent(s)
           b == Parent(a)
           g == findBaseDesign_path(t, path_to_watch(t, a).parent_path)
           l == t.bases[g].accel_list
           m == add_pdi_accel(l, a, a, s)
<1>1. site \in Sites /\ s \in Dirs
  BY SiteFacts DEF DiscoveryInv, OnDisk
<1>2. Kind[a] = "accel" /\ a \in Dirs
  BY <1>1, KindFacts
<1>3. ~\E i \in {findBaseDesign_path(t, a)} \ {0} : t.bases[i].path = a
  <2> SUFFICES ASSUME findBaseDesign_path(t, a) # 0
               PROVE  t.bases[findBaseDesign_path(t, a)].path # a
    OBVIOUS
  <2> DEFINE i == findBaseDesign_path(t, a)
  <2>1. Sound(t)
    BY DEF Orderly
  <2>2. i \in Table
    BY <1>1, <2>1, FoundBase
  <2>3. Listed(t.bases[i])
    BY <2>2 DEF Orderly
  <2> HIDE DEF i, a
  <2>4. t.bases[i].path # a
    BY <1>2, <2>3, TreeAssumption DEF Listed, BaseDir
  <2> QED
    BY <2>4 DEF i
<1>4. \/ db' = t
      \/ WatchesOf(t, a) # {} /\ g # 0 /\ db' = [t EXCEPT !.bases[g].accel_list = m]
  <2> HIDE DEF a, s
  <2>1. w.path = s /\ w.parent_path = a /\ w.parent_name = a
    BY DEF a, s
  <2> QED
    BY <1>3, <2>1 DEF SlotPdi
<1>5. CASE WatchesOf(t, a) # {} /\ g # 0 /\ db' = [t EXCEPT !.bases[g].accel_list = m]
  <2>1. /\ a \in site.dirs /\ a \in Dirs /\ b \in Dirs /\ a # b /\ Kind[b] = "base"
        /\ g \in Table /\ t.bases[g].path = b
    BY <1>5, GrandparentOwn
  <2> HIDE DEF s, a, g
  <2>2. l \in Lists /\ Chained(l, b) /\ b # NULL
    <3>1. Sound(t) /\ Listed(t.bases[g]) /\ b # NULL
      BY <2>1, TreeAssumption DEF Orderly
    <3> HIDE DEF b
    <3> QED
      BY <2>1, <3>1, BaseFacts DEF Listed
  <2> HIDE DEF l
  <2>3. a \in Path
    BY <2>1 DEF Path
  <2>4. m \in Lists /\ Chained(m, b)
    BY <1>1, <2>1, <2>2, <2>3, AddPdiList, PdiChained
  <2> HIDE DEF m, b
  <2>5. Orderly([t EXCEPT !.bases[g].accel_list = m], E)
    BY <2>1, <2>2, <2>4, SetListOrderly
  <2> QED
    BY <1>5, <2>5
<1> QED
  BY <1>4, <1>5

LEMMA PdiRows ==
    ASSUME DiscoveryInv, OneAccel, RowsInv, handle_pdi_event
    PROVE  RowsInv'
<1> DEFINE t == assign_list_ids(db)
<1>1. /\ batch # <<>> /\ batch[1].mask \in {"CREATE", "MOVED_TO"}
      /\ batch[1].name = "pdi" /\ batch' = Tail(batch) /\ UNCHANGED inotify
  BY DEF handle_pdi_event, Event, next_event
<1>2. site \in Sites /\ Orderly(db, Alerts(db))
  BY DEF DiscoveryInv, OnDisk, RowsInv
<1>3. Orderly(t, Alerts(db))
  BY <1>2, AssignOrderly
<1>4. ASSUME NEW w \in EventWatch, \/ w.parent_name = NULL /\ BasePdi(t, w)
                                   \/ w.parent_name # NULL /\ SlotPdi(t, w)
      PROVE  Orderly(db', Alerts(db))
  <2> HIDE DEF t
  <2>1. w.path \in Dirs /\ FileName(w.path) = "pdi" /\ Placed(w)
    BY <1>1, EventPlaced DEF Concerns, DirMasks
  <2>2. IsVersal /\ Kind[w.path] \in {"base", "slot"}
    BY <2>1, FileOwners
  <2>3. /\ w.path \in site.dirs /\ w.parent_path = Parent(w.path)
        /\ w.parent_name \in {NULL, Parent(w.path)}
        /\ Parent(w.path) = Root => w.parent_name = NULL
    BY <2>1, TreeAssumption DEF Placed
  <2>4. CASE w.parent_name = NULL /\ BasePdi(t, w)
    BY <1>3, <2>1, <2>2, <2>4, BasePdiOrderly
  <2>5. CASE w.parent_name # NULL /\ SlotPdi(t, w)
    <3>1. Kind[w.path] = "slot" /\ w.parent_name = Parent(w.path)
      BY <2>1, <2>2, <2>3, <2>5, KindFacts
    <3> QED
      BY <1>3, <2>2, <2>3, <2>5, <3>1, SlotPdiOrderly
  <2> QED
    BY <1>4, <2>4, <2>5
<1>5. \/ db' = db
      \/ \E w \in EventWatch : \/ w.parent_name = NULL /\ BasePdi(t, w)
                               \/ w.parent_name # NULL /\ SlotPdi(t, w)
  BY DEF handle_pdi_event
<1> HIDE DEF t
<1>6. Orderly(db', Alerts(db))
  BY <1>2, <1>4, <1>5
<1> QED
  BY <1>1, <1>6, HandlerDone

LEMMA RemovedRows ==
    ASSUME DiscoveryInv, RowsInv, dir_removed
    PROVE  RowsInv'
<1> DEFINE d == batch[1].name
<1>1. /\ batch # <<>> /\ batch[1].mask \in {"DELETE_DIR", "MOVED_FROM_DIR"} /\ d \in Dirs
      /\ batch' = Tail(batch) /\ UNCHANGED inotify
  BY DEF dir_removed, Event, next_event
<1>2. PICK w \in EventWatch :
         db' = assign_list_ids(remove_watch(
                  IF w.parent_name = NULL THEN remove_base_design(db, d)
                                          ELSE remove_accel(db, d, w.path), d))
  BY DEF dir_removed
<1>3. Parent(d) = w.path /\ Placed(w)
  BY <1>1, EventPlaced DEF Concerns, DirMasks
<1>4. site \in Sites /\ Orderly(db, Alerts(db)) /\ Sound(db)
  BY DEF DiscoveryInv, OnDisk, RowsInv
<1> DEFINE t == IF w.parent_name = NULL THEN remove_base_design(db, d)
                                        ELSE remove_accel(db, d, w.path)
<1> HIDE DEF d
<1>5. Orderly(t, Alerts(db))
  <2>1. CASE w.parent_name = NULL
    <3>1. Orderly(remove_base_design(db, d), Alerts(db))
      BY <1>4, RemoveBaseOrderly
    <3> QED
      BY <2>1, <3>1
  <2>2. CASE w.parent_name # NULL
    <3>1. ASSUME NEW k \in Table, db.bases[k].path = w.path
          PROVE  FALSE
      <4>1. w.path \in Dirs /\ Kind[w.path] \in {"base", "rpu", "slot"}
        <5>1. w.path \in Dirs
          <6>1. Parent(d) \in Places
            BY <1>1, ParentIn
          <6>2. db.bases[k].path # Root
            BY <1>4, BaseFacts DEF BaseSet
          <6> QED
            BY <1>3, <3>1, <6>1, <6>2 DEF Places
        <5>2. Listed(db.bases[k])
          BY <1>4 DEF Orderly
        <5> QED
          BY <3>1, <5>1, <5>2, TreeAssumption DEF Listed, BaseDir
      <4>2. Kind[w.path] # "slot"
        <5>1. <<Kind[Parent(d)], Kind[d]>> \in
                 {<<"base", "accel">>, <<"accel", "slot">>, <<"rpu", "rpuslot">>}
          BY <1>1, <1>3, <4>1, InsideFacts
        <5> QED
          BY <1>3, <5>1
      <4>3. Parent(w.path) = Root
        BY <4>1, <4>2, KindFacts
      <4> QED
        BY <1>3, <2>2, <4>1, <4>3 DEF Placed
    <3>2. Orderly(remove_accel(db, d, w.path), Alerts(db))
      BY <1>4, <3>1, RemoveAccelOrderly
    <3> QED
      BY <2>2, <3>2
  <2> QED
    BY <2>1, <2>2
<1>6. db' = assign_list_ids(remove_watch(t, d))
  BY <1>2
<1> HIDE DEF t
<1>7. Orderly(db', Alerts(db))
  BY <1>1, <1>4, <1>5, <1>6, RemoveOrderly, AssignOrderly
<1> QED
  BY <1>1, <1>7, HandlerDone

LEMMA InotifyRows ==
    ASSUME DiscoveryInv, OneAccel, RowsInv, InotifyThread
    PROVE  RowsInv'
<1>1. CASE read_batch
  <2>1. site \in Sites /\ batch \in Seq(Alerts(db)) /\ queue \in Seq(Alerts(db))
        /\ Orderly(db, Alerts(db)) /\ (walk.reg # NULL => BaseDir(walk.reg))
    BY DEF DiscoveryInv, OnDisk, RowsInv
  <2>2. batch' \in Seq(Alerts(db)) /\ queue' \in Seq(Alerts(db))
    BY <1>1, <2>1, ReadSeqs
  <2>3. db' = db /\ walk' = walk /\ site' = site
    BY <1>1 DEF read_batch, disk
  <2> QED
    BY <2>1, <2>2, <2>3, RowsDone
<1>2. CASE unknown_watch \/ other_file
  <2>1. /\ UNCHANGED inotify /\ batch # <<>> /\ batch' \in {Tail(batch), <<>>}
        /\ Orderly(db', Alerts(db))
    BY <1>2 DEF unknown_watch, other_file, Event, drop_batch, next_event, RowsInv
  <2> QED
    BY <2>1, HandlerDone
<1> QED
  BY <1>1, <1>2, CreatedRows, ShellRows, MovedInRows, AccelRows, PdiRows, RemovedRows
     DEF InotifyThread

-----------------------------------------------------------------------------
(* Steps of the request thread.                                            *)

LEMMA WalkRows ==
    ASSUME DiscoveryInv, RowsInv, accel_dir_add
    PROVE  RowsInv'
<1> DEFINE d == Head(walk.todo)
           w == WatchForWalk(d)
<1>1. /\ site \in Sites /\ fs \subseteq site.dirs /\ site.dirs \subseteq Dirs /\ Walking(walk)
      /\ Orderly(db, Alerts(db)) /\ batch \in Seq(Alerts(db)) /\ queue \in Seq(Alerts(db))
  BY SiteFacts DEF DiscoveryInv, OnDisk, RowsInv
<1>2. site' = site /\ batch' = batch /\ queue' = queue /\ walk.reg = NULL
  BY DEF accel_dir_add, request, disk
<1>3. \/ db' = db /\ \E x : walk' = [walk EXCEPT !.todo = x]
      \/ d \in fs /\ db' = w.t /\ \E x : walk' = [walk EXCEPT !.todo = x]
      \/ /\ d \in fs /\ db' = w.t /\ dir_is_base_design(d)
         /\ walk' = [todo |-> Tail(walk.todo), reg |-> d]
  BY DEF accel_dir_add
<1> HIDE DEF d
<1>4. d \in fs => Orderly(w.t, Alerts(db))
  BY <1>1, WalkOrderly
<1>5. d \in fs /\ dir_is_base_design(d) => BaseDir(d)
  BY <1>1, FileOwners DEF dir_is_base_design, BaseDir
<1> HIDE DEF w
<1>6. Orderly(db', Alerts(db))
  BY <1>1, <1>3, <1>4
<1>7. walk'.reg # NULL => BaseDir(walk'.reg)
  BY <1>1, <1>2, <1>3, <1>5 DEF Walking
<1> QED
  BY <1>1, <1>2, <1>6, <1>7, RowsDone

LEMMA RegisterRows ==
    ASSUME DiscoveryInv, OneAccel, RowsInv, register_base
    PROVE  RowsInv'
<1> DEFINE p == walk.reg
           t == add_base_design(db, p)
           i == findBaseDesign_path(t, p)
           r == init_base_design(t.bases[i])
<1>1. /\ OnDisk /\ site \in Sites /\ Walking(walk) /\ site.dirs \subseteq Dirs
      /\ Orderly(db, Alerts(db)) /\ batch \in Seq(Alerts(db)) /\ queue \in Seq(Alerts(db))
  BY SiteFacts DEF DiscoveryInv, OnDisk, RowsInv
<1>2. /\ site' = site /\ batch' = batch /\ queue' = queue
      /\ p # NULL /\ walk' = [walk EXCEPT !.reg = NULL]
  BY DEF register_base, request, disk
<1>3. db' = t \/ (i # 0 /\ db' = Reload(t, i, t.bases[i].path, r))
  BY DEF register_base
<1>4. BaseDir(p)
  BY <1>2 DEF RowsInv
<1> HIDE DEF p
<1>5. p \in Dirs /\ Kind[p] \in {"base", "rpu", "slot"}
  BY <1>1, <1>4 DEF BaseDir
<1>6. Orderly(t, Alerts(db))
  BY <1>1, <1>4, AddBaseOrderly
<1> HIDE DEF t
<1>7. i # 0 => i \in Table /\ t.bases[i].path = p
  BY <1>1, <1>5, <1>6, FoundOwn
<1> HIDE DEF i
<1>8. i # 0 => Orderly(Reload(t, i, t.bases[i].path, r), Alerts(db))
  BY <1>1, <1>5, <1>6, <1>7, ReloadOrderly
<1> HIDE DEF r
<1>9. Orderly(db', Alerts(db))
  BY <1>3, <1>6, <1>8
<1>10. walk'.reg = NULL
  BY <1>1, <1>2 DEF Walking
<1> QED
  BY <1>1, <1>2, <1>9, <1>10, RowsDone

LEMMA RequestRows ==
    ASSUME DiscoveryInv, OneAccel, RowsInv, RequestThread
    PROVE  RowsInv'
<1>1. /\ site \in Sites /\ Orderly(db, Alerts(db)) /\ Orderly(assign_list_ids(db), Alerts(db))
      /\ batch \in Seq(Alerts(db)) /\ queue \in Seq(Alerts(db))
      /\ walk.reg # NULL => BaseDir(walk.reg)
  BY AssignOrderly DEF DiscoveryInv, OnDisk, RowsInv
<1>2. CASE accel_dir_add \/ register_base
  BY <1>2, WalkRows, RegisterRows
<1>3. CASE ~(accel_dir_add \/ register_base)
  <2>1. UNCHANGED request /\ (db' = db \/ db' = assign_list_ids(db))
        /\ (walk' = walk \/ walk'.reg = NULL)
    BY <1>3 DEF RequestThread, begin_request, Begin, walk_done, boot_done, list_ids,
                listAccelerators, load_by_name, load_by_id, unload
  <2>2. site' = site /\ batch' = batch /\ queue' = queue
    BY <2>1 DEF request, disk
  <2> QED
    BY <1>1, <2>1, <2>2, RowsDone
<1> QED
  BY <1>2, <1>3

-----------------------------------------------------------------------------
(* Every step, and the rows.                                               *)

LEMMA InitRows == Init => RowsInv
<1> SUFFICES ASSUME Init
             PROVE  RowsInv
  OBVIOUS
<1> DEFINE w == [NoWatch EXCEPT !.wd = 1, !.path = Root]
           l == [j \in AccelIdx |-> NoAccel]
<1>1. Sound(db) /\ site \in Sites /\ db \in Tables
  BY InitInv DEF DiscoveryInv, OnDisk, Sound
<1>2. \A k \in Table : db.watch[k] = IF k = 1 THEN w ELSE NoWatch
  BY DEF Init
<1>3. db.next = 2 /\ \A k \in Table : db.bases[k].path = NULL /\ db.bases[k].accel_list = l
  BY DEF Init
<1>4. w.wd = 1 /\ w.path = Root /\ NoWatch.wd = -1 /\ NoWatch.path = NULL
  BY DEF NoWatch
<1>5. \A j \in AccelIdx : l[j].path = NULL
  BY DEF NoAccel
<1> HIDE DEF w, l
<1>6. \A k \in Table : Listed(db.bases[k])
  BY <1>3, <1>5 DEF Listed
<1>7. \A k \in Table : Placed(db.watch[k]) /\ db.watch[k].wd < db.next
  <2>1. \A x : x.path \in {Root, NULL} => Placed(x)
    BY TreeAssumption DEF Placed
  <2> QED
    BY <1>2, <1>3, <1>4, <2>1
<1>8. \A k, m \in Table : db.watch[k].wd = db.watch[m].wd /\ db.watch[k].wd # -1 => k = m
  BY <1>2, <1>4
<1>9. Orderly(db, Alerts(db))
  BY <1>1, <1>6, <1>7, <1>8 DEF Orderly, Watching, Alerts
<1>10. batch = <<>> /\ queue = <<>> /\ walk.reg = NULL
  BY DEF Init
<1>11. <<>> \in Seq(Alerts(db))
  OBVIOUS
<1> QED
  BY <1>9, <1>10, <1>11 DEF RowsInv

LEMMA NextRows ==
    ASSUME DiscoveryInv, OneAccel => RowsInv, [Next]_vars
    PROVE  (OneAccel => RowsInv)'
<1> SUFFICES ASSUME OneAccel'
             PROVE  RowsInv'
  OBVIOUS
<1>1. OneAccel /\ RowsInv
  BY SameScope DEF OneAccel, IsVersal
<1>2. CASE UNCHANGED vars
  <2>1. site' = site /\ db' = db /\ batch' = batch /\ queue' = queue /\ walk' = walk
    BY <1>2 DEF vars
  <2> QED
    BY <1>1, <2>1, RowsDone DEF RowsInv
<1> QED
  BY <1>1, <1>2, InstallerRows, InotifyRows, RequestRows DEF Next

\* Events reach the watches of the directories they are about, and the rows of
\* a base are those of its own directories.
LEMMA RowsInvariant == Spec => [](OneAccel => RowsInv)
<1>1. Init => (OneAccel => RowsInv)
  BY InitRows
<1>2. DiscoveryInv /\ (OneAccel => RowsInv) /\ [Next]_vars => (OneAccel => RowsInv)'
  BY NextRows
<1> QED
  BY <1>1, <1>2, DiscoveryInvariant, PTL DEF Spec

\* No accelerator has two rows, whatever the installer does, in pieces or as a
\* whole, and however often the threads register it: a walk, an event and a
\* parse of the whole base all come to add_accel_to_base(), which looks at
\* entries up to the first free one only.
THEOREM NoRowTwice == Spec => []NoDuplicates
<1>1. (OneAccel => RowsInv) => NoDuplicates
  <2> SUFFICES ASSUME RowsInv, NEW r \in Rows(db), NEW s \in Rows(db), r[1] = s[1],
                 LET l == db.bases[r[1]].accel_list
                 IN  l[r[2]].path = l[s[2]].path /\ l[r[2]].name = l[s[2]].name
               PROVE  r = s
    BY DEF NoDuplicates
  <2> DEFINE k == r[1]
             l == db.bases[k].accel_list
             i == r[2]
             j == s[2]
  <2>1. /\ r = <<k, i>> /\ s = <<k, j>> /\ k \in Table /\ i \in AccelIdx /\ j \in AccelIdx
        /\ db.bases[k].path # NULL /\ l[i].path # NULL /\ l[j].path # NULL
    BY DEF Rows
  <2>2. l[i].path = l[j].path /\ l[i].name = l[j].name
    OBVIOUS
  <2>3. Listed(db.bases[k])
    BY <2>1 DEF RowsInv, Orderly
  <2> HIDE DEF k, i, j
  <2>4. Chained(l, db.bases[k].path)
    BY <2>1, <2>3 DEF Listed
  <2> HIDE DEF l
  <2>5. ~(i < j) /\ ~(j < i)
    BY <2>1, <2>2, <2>4 DEF Chained
  <2>6. i = j
    BY <2>1, <2>5, AccelIdxFacts
  <2> QED
    BY <2>1, <2>6
<1> QED
  BY <1>1, RowsInvariant, PTL
=============================================================================
