----------------------------- MODULE Discovery -----------------------------
(***************************************************************************)
(* How the daemon learns which packages are installed                      *)
(* (src/src/daemon_helper.c, pdi-config.c, json-config.c, rpu.c).  Two     *)
(* threads share the watch table active_watch[], the table base_designs[], *)
(* the rescan flag and the dirty flag, without a lock:                     *)
(*   - the inotify thread reads batches of file system events and handles  *)
(*     them one by one; several handlers leave the loop over the batch;    *)
(*   - the request thread walks the firmware directory when a request      *)
(*     finds the rescan flag set, and numbers and prints the packages.     *)
(* A third party installs and removes packages meanwhile.                  *)
(*                                                                         *)
(* The handler of one event, the visit of one directory by a walk and each *)
(* statement of a listing are atomic.  A directory stands for its path and *)
(* its name.  The file that makes a directory a package or a slot          *)
(* (shell.json, accel.json, a PDI, an RPU .elf) is absent, being written   *)
(* or complete.                                                            *)
(*                                                                         *)
(* A site is a platform with its table sizes, what is and may be installed *)
(* on it, and what the installer and clients there do.  Behaviours of all  *)
(* Sites are considered; a behaviour stays at the one it starts at.        *)
(*                                                                         *)
(* An operator whose comment starts with "Faulty" is no part of the model: *)
(* it is a slip the code could contain, put in place of the operator that  *)
(* follows it to see that the properties notice.                           *)
(***************************************************************************)
EXTENDS Integers, Sequences, FiniteSets, FiniteSetsExt, SequencesExt

CONSTANTS
    Dirs,          \* directories that may exist below the firmware location
    Root,          \* the firmware location itself
    Kind,          \* what a directory holds: see Kinds
    Children,      \* its possible subdirectories, in readdir order
    SlotIndex,     \* N of a directory <accel>_slot<N>
    Shell,         \* shell_type and num_pl_slots a shell.json in it states
    NumRpu,        \* get_number_of_rpu()
    RP_SLOTS_MAX,  \* entries of accel_list[]
    Sites,
    NULL

Kinds == {"base", "accel", "slot", "rpu", "rpuslot"}
Operations == {"mkdir", "write", "rename", "rmdir", "rmfile", "rmtree", "movein",
               "moveout"}

Site == [versal: BOOLEAN,       \* platform.fpga_mgr = FPGA_MGR_VERSAL
         max_watch: Nat \ {0},  \* MAX_WATCH
         dirs: SUBSET Dirs,     \* directories that may exist
         installed: SUBSET Dirs,\* there, complete, when the daemon starts
         ops: SUBSET Operations,\* what the installer may do
         max_ops: Nat,          \* bound: how many operations it does
         max_batch: Nat,        \* events one read() returns at most
         requests: SUBSET {"list", "load", "load_id", "unload"}]

ASSUME TreeAssumption ==
    /\ IsFiniteSet(Dirs) /\ Root \notin Dirs
    /\ NULL \notin Dirs \cup {Root, "pdi", "shell.json", "accel.json", "elf"}
    /\ Kind \in [Dirs -> Kinds]
    /\ Children \in [Dirs \cup {Root} -> Seq(Dirs)]
    /\ \A d \in Dirs : \E p \in Dirs \cup {Root} :
          \E k \in DOMAIN Children[p] : Children[p][k] = d
    /\ SlotIndex \in [Dirs -> Nat]
    /\ Shell \in [Dirs -> [type: {"FLAT", "PL_DFX"}, slots: Nat]]
    /\ NumRpu \in Nat /\ RP_SLOTS_MAX \in Nat
    /\ \A s \in Sites : s \in Site /\ s.installed \subseteq s.dirs

\* A directory has one place in the tree, which agrees with what it holds.
ASSUME ShapeAssumption ==
    \A p \in Dirs \cup {Root} : \A k \in DOMAIN Children[p] :
        LET d == Children[p][k]
        IN  /\ \A q \in Dirs \cup {Root} :
                  (\E l \in DOMAIN Children[q] : Children[q][l] = d) => q = p
            /\ IF p = Root THEN Kind[d] \in {"base", "rpu"}
               ELSE <<Kind[p], Kind[d]>> \in
                        {<<"base", "accel">>, <<"accel", "slot">>, <<"rpu", "rpuslot">>}

AccelIdx == 1 .. RP_SLOTS_MAX

ParentOf == [d \in Dirs |-> CHOOSE p \in Dirs \cup {Root} :
                                \E k \in DOMAIN Children[p] : Children[p][k] = d]
Parent(d) == ParentOf[d]

BelowOf == [d \in Dirs |-> {d} \cup
              {c \in Dirs : \/ Parent(c) = d
                            \/ Parent(c) # Root /\ Parent(Parent(c)) = d}]
Below(d) == BelowOf[d]

\* What may exist at a site, and what does at first, includes the directory it
\* is in.
ASSUME SiteAssumption ==
    \A s \in Sites : \A dirs \in {s.dirs, s.installed} :
        \A d \in dirs : Parent(d) \in dirs \cup {Root}

VARIABLES
    site,          \* the site
    fs,            \* directories that exist
    file,          \* their files: "none", "partial" or "full"
    queue,         \* events in the kernel, oldest first
    ops,           \* operations the installer has done
    db,            \* watch: active_watch[], bases: base_designs[],
                   \* wd: kernel watches, next: the next watch descriptor
    rescan,        \* firmware_rescan_pending
    dirty,         \* pkg_listing_dirty
    batch,         \* events of the current batch not handled yet
    req,           \* request thread: what it serves and where it is
    walk,          \* todo: directories to visit, reg: base being registered
    shown,         \* what the last -listPackage printed
    loaded         \* the accelerator in the PL: its base_designs[] index
                   \* and package, or NULL

vars == <<site, fs, file, queue, ops, db, rescan, dirty, batch, req, walk, shown,
          loaded>>
disk == <<site, fs, file, ops>>

IsVersal == site.versal
Table == 1 .. site.max_watch                  \* of active_watch[], base_designs[]
Subdirs(d) == SetToSeq({c \in site.dirs : Parent(c) = d})

\* The file that matters in a directory of each kind.
FileName(d) ==
    CASE Kind[d] = "base" -> IF IsVersal THEN "pdi" ELSE "shell.json"
      [] Kind[d] = "slot" -> IF IsVersal THEN "pdi" ELSE "accel.json"
      [] Kind[d] = "rpuslot" -> "elf"
      [] OTHER -> NULL

Path == Dirs \cup {Root, NULL}
Accel == [path: Path, name: Path, list_id: Nat]
Base == [path: Path, type: {"", "FLAT", "PL_DFX", "RPU"}, num_pl_slots: Nat,
         accel_list: [AccelIdx -> Accel]]
Watch == [wd: Int, path: Path, parent_name: Path, parent_path: Path]

NoAccel == [path |-> NULL, name |-> NULL, list_id |-> 0]
NoWatch == [wd |-> -1, path |-> NULL, parent_name |-> NULL, parent_path |-> NULL]

Lowest(S) == CHOOSE i \in S : \A k \in S : i <= k

-----------------------------------------------------------------------------
(* The watch table.  t is the value of db.                                 *)

WatchesOf(t, path) == {i \in Table : t.watch[i].path = path}
path_to_watch(t, path) == t.watch[Lowest(WatchesOf(t, path))]

get_watch(t, wd) == {i \in Table : t.watch[i].wd = wd}

FreeWatches(t) == {i \in Table : t.watch[i].wd = -1}

\* Faulty: a kernel watch that finds no room in the table stays.
add_dir_watch_leaks(t, d, pname, ppath) ==
    IF WatchesOf(t, d) # {} THEN [ok |-> TRUE, t |-> t]
    ELSE IF d \notin fs \cup {Root} THEN [ok |-> FALSE, t |-> t]
    ELSE IF FreeWatches(t) = {}
    THEN [ok |-> FALSE, t |-> [t EXCEPT !.wd[d] = t.next, !.next = @ + 1]]
    ELSE [ok |-> TRUE,
          t |-> [t EXCEPT
                  !.watch[Lowest(FreeWatches(t))] =
                      [wd |-> t.next, path |-> d, parent_name |-> pname,
                       parent_path |-> ppath],
                  !.wd[d] = t.next,
                  !.next = @ + 1]]

\* A watch on d, unless there is one; the kernel watch is given back when the
\* table is full.
add_dir_watch(t, d, pname, ppath) ==
    IF WatchesOf(t, d) # {} THEN [ok |-> TRUE, t |-> t]
    ELSE IF d \notin fs \cup {Root} \/ FreeWatches(t) = {}
    THEN [ok |-> FALSE, t |-> t]
    ELSE [ok |-> TRUE,
          t |-> [t EXCEPT
                  !.watch[Lowest(FreeWatches(t))] =
                      [wd |-> t.next, path |-> d, parent_name |-> pname,
                       parent_path |-> ppath],
                  !.wd[d] = t.next,
                  !.next = @ + 1]]

remove_watch(t, path) ==
    LET wds == {t.watch[i].wd : i \in WatchesOf(t, path)}
    IN  [t EXCEPT !.watch = [i \in Table |-> IF @[i].path = path
                               THEN [@[i] EXCEPT !.wd = -1, !.path = NULL]
                               ELSE @[i]],
                  !.wd = [d \in DOMAIN @ |-> IF @[d] \in wds THEN -1 ELSE @[d]]]

-----------------------------------------------------------------------------
(* base_designs[].                                                         *)

\* The index findBaseDesign_path() finds for a base or accelerator path.
Matching(t, path) ==
    {i \in Table : /\ t.bases[i].path # NULL
                   /\ \/ t.bases[i].path = path
                      \/ \E j \in AccelIdx : t.bases[i].accel_list[j].path = path}
findBaseDesign_path(t, path) ==
    IF Matching(t, path) = {} THEN 0 ELSE Lowest(Matching(t, path))

add_base_design(t, d) ==
    LET free == {i \in Table : t.bases[i].path = NULL}
    IN  IF (\E i \in Table : t.bases[i].path = d) \/ free = {} THEN t
        ELSE [t EXCEPT !.bases[Lowest(free)].path = d]

\* Faulty: only a free entry is looked for.
FreeAccelSlot(list, name, path) ==
    LET S == {j \in AccelIdx : list[j].path = NULL}
    IN  IF S = {} THEN 0 ELSE Lowest(S)

\* The entry add_accel_to_base() returns: the first that is this accelerator
\* or is free; 0 when the list is full.
AccelSlot(list, name, path) ==
    LET S == {j \in AccelIdx : \/ list[j].path = NULL
                               \/ list[j].path = path /\ list[j].name = name}
    IN  IF S = {} THEN 0 ELSE Lowest(S)

add_accel_to_base(list, name, path) ==
    LET j == AccelSlot(list, name, path)
    IN  IF j = 0 \/ list[j].path # NULL THEN list
        ELSE [list EXCEPT ![j].path = path, ![j].name = name]

\* add_accel_to_base() followed by init_accel_from_pdi(): a PDI that cannot be
\* read zeroes the entry.
add_pdi_accel(list, name, path, slot_dir) ==
    LET j == AccelSlot(list, name, path)
    IN  IF j # 0 /\ file[slot_dir] # "full" THEN [list EXCEPT ![j] = NoAccel]
        ELSE add_accel_to_base(list, name, path)

register_flat_accel(b) ==
    [b EXCEPT !.accel_list[1].path = b.path, !.accel_list[1].name = b.path]

\* Faulty: the listing ID is reset to -1, as the watch descriptor is.
ClearAccelAll(a) == [a EXCEPT !.path = NULL, !.name = NULL, !.list_id = -1]

\* An entry is emptied; its listing ID stays behind.
ClearAccel(a) == [a EXCEPT !.path = NULL, !.name = NULL]

\* The first entry of path is emptied.
WithoutAccel(list, path) ==
    LET S == {j \in AccelIdx : list[j].path = path}
    IN  IF S = {} THEN list ELSE [list EXCEPT ![Lowest(S)] = ClearAccel(@)]

remove_accel(t, path, parent) ==
    [t EXCEPT !.bases = [i \in Table |->
        IF t.bases[i].path # parent THEN t.bases[i]
        ELSE [t.bases[i] EXCEPT !.accel_list = WithoutAccel(@, path)]]]

\* Faulty: the accelerators of a base that goes stay in its entry.
remove_base_only(t, path) ==
    LET S == {i \in Table : t.bases[i].path = path}
    IN  IF S = {} THEN t ELSE [t EXCEPT !.bases[Lowest(S)].path = NULL]

remove_base_design(t, path) ==
    LET S == {i \in Table : t.bases[i].path = path}
    IN  IF S = {} THEN t
        ELSE [t EXCEPT !.bases[Lowest(S)] =
                [path |-> NULL, type |-> "", num_pl_slots |-> 0,
                 accel_list |-> [j \in AccelIdx |-> ClearAccel(@.accel_list[j])]]]

\* Entries a listing shows and an ID may name.
Rows(t) == {r \in Table \X AccelIdx :
              /\ t.bases[r[1]].path # NULL /\ t.bases[r[1]].num_pl_slots > 0
              /\ t.bases[r[1]].accel_list[r[2]].path # NULL}

Before(r, s) == r[1] < s[1] \/ (r[1] = s[1] /\ r[2] <= s[2])

\* The accelerators of base i, those listed numbered in the order of the rows.
Numbered(t, i) ==
    [j \in AccelIdx |->
        IF <<i, j>> \notin Rows(t) THEN t.bases[i].accel_list[j]
        ELSE [t.bases[i].accel_list[j] EXCEPT
                !.list_id = Cardinality({r \in Rows(t) : Before(r, <<i, j>>)})]]

assign_list_ids(t) ==
    [t EXCEPT !.bases = [i \in Table |->
        [t.bases[i] EXCEPT !.accel_list = Numbered(t, i)]]]

-----------------------------------------------------------------------------
(* Initialising a base and scanning its directory.                         *)

\* dir_is_base_design(): by name, by a PDI, or by a shell.json.
dir_is_base_design(d) ==
    \/ Kind[d] = "rpu"
    \/ FileName(d) \in {"pdi", "shell.json"} /\ file[d] # "none"

\* initBaseDesign() for RPU and JSON bases.  A shell.json still being written
\* does not parse: the slot count is reset and the type stays.
initBaseDesign(b) ==
    CASE Kind[b.path] = "rpu" ->
            [ok |-> TRUE, b |-> [b EXCEPT !.type = "RPU", !.num_pl_slots = NumRpu]]
      [] Kind[b.path] # "rpu" /\ file[b.path] = "none" -> [ok |-> FALSE, b |-> b]
      [] Kind[b.path] # "rpu" /\ file[b.path] = "partial" ->
            [ok |-> TRUE,
             b |-> [b EXCEPT !.num_pl_slots = IF b.type = "FLAT" THEN 1 ELSE 0]]
      [] OTHER ->
            [ok |-> TRUE, b |-> [b EXCEPT !.type = Shell[b.path].type,
                                          !.num_pl_slots = Shell[b.path].slots]]

init_base_from_pdi(b) ==
    IF file[b.path] # "full" THEN [ok |-> FALSE, b |-> b]
    ELSE [ok |-> TRUE, b |-> [b EXCEPT !.type = "", !.num_pl_slots = 0]]

init_base_design(b) ==
    IF IsVersal /\ Kind[b.path] # "rpu" THEN init_base_from_pdi(b)
                                        ELSE initBaseDesign(b)

\* slots[i].has_pdi on Versal, stat() of accel.json elsewhere.
SlotHasFile(s) == file[s] # "none"

\* One slot directory s of accelerator directory a, for base i: it is watched,
\* and the accelerator is entered when the slot has its file.  acc.range is the
\* number of slots seen so far; a watch that cannot be added stops the scan.
ScanSlotDir(i, a, acc, s) ==
    LET w == add_dir_watch(acc.t, s, a, a)
        list == w.t.bases[i].accel_list
        entered == IF IsVersal THEN add_pdi_accel(list, a, a, s)
                               ELSE add_accel_to_base(list, a, a)
    IN  IF acc.stop \/ s \notin fs THEN acc
        ELSE IF ~w.ok THEN [acc EXCEPT !.t = w.t, !.stop = TRUE]
        ELSE IF ~SlotHasFile(s) THEN [acc EXCEPT !.t = w.t]
        ELSE [acc EXCEPT !.t = [w.t EXCEPT !.bases[i].accel_list = entered],
                         !.range = Max({@, SlotIndex[s] + 1})]

\* All of them, in readdir order, from first on.
ScanSlotDirs(i, a, first) ==
    LET acc[k \in 0 .. Len(Children[a])] ==
            IF k = 0 THEN first ELSE ScanSlotDir(i, a, acc[k - 1], Children[a][k])
    IN  acc[Len(Children[a])]

ScanAccelDir(i, pname, path, acc, a) ==
    LET w == add_dir_watch(acc.t, a, pname, path)
    IN  IF acc.stop \/ a \notin fs THEN acc
        ELSE IF ~w.ok THEN [acc EXCEPT !.t = w.t, !.stop = TRUE]
        ELSE ScanSlotDirs(i, a, [acc EXCEPT !.t = w.t])

\* A numbered directory of an RPU base: every .elf in it is an accelerator of
\* its own, and a watch that cannot be added does not matter.
parse_rpu_slot_dir(i, pname, path, acc, d) ==
    LET w == add_dir_watch(acc.t, d, pname, path)
    IN  IF d \notin fs THEN acc
        ELSE IF file[d] = "none" THEN [acc EXCEPT !.t = w.t]
        ELSE [acc EXCEPT !.t = [w.t EXCEPT !.bases[i].accel_list =
                                    add_accel_to_base(@, d, d)]]

\* Faulty: the highest index itself is taken for the number of slots.
classify_by_index(b, range) ==
    IF range > 0 THEN [b EXCEPT !.type = "PL_DFX", !.num_pl_slots = Max({1, range - 1})]
    ELSE register_flat_accel([b EXCEPT !.type = "FLAT", !.num_pl_slots = 1])

pdi_classify_base(b, range) ==
    IF range > 0 THEN [b EXCEPT !.type = "PL_DFX", !.num_pl_slots = range]
    ELSE register_flat_accel([b EXCEPT !.type = "FLAT", !.num_pl_slots = 1])

\* One subdirectory c of base i, whose path is d.
ScanSubdir(i, pname, d, acc, c) ==
    IF Kind[c] = "rpuslot" THEN parse_rpu_slot_dir(i, pname, d, acc, c)
                           ELSE ScanAccelDir(i, pname, d, acc, c)

ScanSubdirs(i, pname, d, first) ==
    LET acc[k \in 0 .. Len(Children[d])] ==
            IF k = 0 THEN first ELSE ScanSubdir(i, pname, d, acc[k - 1], Children[d][k])
    IN  acc[Len(Children[d])]

\* parse_packages() for entry i, whose watches get parent name pname.
parse_packages(t, i, pname) ==
    LET end == ScanSubdirs(i, pname, t.bases[i].path,
                           [t |-> t, range |-> 0, stop |-> FALSE])
    IN  IF t.bases[i].type = "FLAT"
        THEN [t EXCEPT !.bases[i] = register_flat_accel(@)]
        ELSE IF IsVersal /\ t.bases[i].type # "RPU"
        THEN [end.t EXCEPT !.bases[i] = pdi_classify_base(@, end.range)]
        ELSE end.t

\* Entry i is initialised from r and, if that worked, its directory scanned.
Reload(t, i, pname, r) ==
    IF r.ok THEN parse_packages([t EXCEPT !.bases[i] = r.b], i, pname) ELSE t

-----------------------------------------------------------------------------
(* The installer.                                                          *)

\* The kernel reports to the watch on directory p, if there is one.
Emit(p, mask, name) ==
    queue' = IF db.wd[p] = -1 THEN queue
             ELSE Append(queue, [wd |-> db.wd[p], mask |-> mask, name |-> name])

Operation(op) == op \in site.ops /\ ops < site.max_ops /\ ops' = ops + 1

mkdir(d) ==
    /\ Operation("mkdir")
    /\ d \in site.dirs \ fs /\ Parent(d) \in fs \cup {Root}
    /\ fs' = fs \cup {d}
    /\ Emit(Parent(d), "CREATE_DIR", d)
    /\ UNCHANGED <<file, db>>

open_file(d) ==
    /\ Operation("write")
    /\ d \in fs /\ FileName(d) # NULL /\ file[d] = "none"
    /\ file' = [file EXCEPT ![d] = "partial"]
    /\ Emit(d, "CREATE", FileName(d))
    /\ UNCHANGED <<fs, db>>

\* The writer of a file always gets to close it.
close_file(d) ==
    /\ file[d] = "partial"
    /\ file' = [file EXCEPT ![d] = "full"]
    /\ Emit(d, "CREATE", FileName(d))
    /\ UNCHANGED <<fs, db, ops>>

rename_file(d) ==
    /\ Operation("rename")
    /\ d \in fs /\ FileName(d) # NULL /\ file[d] = "none"
    /\ file' = [file EXCEPT ![d] = "full"]
    /\ Emit(d, "MOVED_TO", FileName(d))
    /\ UNCHANGED <<fs, db>>

\* Nobody handles the event of a deleted file.
unlink(d) ==
    /\ Operation("rmfile")
    /\ d \in fs /\ file[d] = "full"
    /\ file' = [file EXCEPT ![d] = "none"]
    /\ UNCHANGED <<fs, db, queue>>

\* A single empty directory; its watch goes with it.
rmdir(d) ==
    /\ Operation("rmdir")
    /\ d \in fs /\ file[d] # "partial"
    /\ \A c \in fs : Parent(c) # d
    /\ fs' = fs \ {d}
    /\ file' = [file EXCEPT ![d] = "none"]
    /\ Emit(Parent(d), "DELETE_DIR", d)
    /\ db' = [db EXCEPT !.wd[d] = -1]

\* rm -r of a package: the kernel reports every directory to the watch of its
\* parent, the deepest first.
rmtree(d) ==
    /\ Operation("rmtree")
    /\ Parent(d) = Root /\ d \in fs
    /\ \A c \in Below(d) : file[c] # "partial"
    /\ fs' = fs \ Below(d)
    /\ file' = [c \in Dirs |-> IF c \in Below(d) THEN "none" ELSE file[c]]
    /\ LET seen == {c \in fs \cap Below(d) : db.wd[Parent(c)] # -1}
           inner == {c \in seen : Parent(c) = d}
           order == SetToSeq(seen \ (inner \cup {d})) \o SetToSeq(inner)
                        \o SetToSeq(seen \cap {d})
       IN  queue' = queue \o [k \in DOMAIN order |->
                      [wd |-> db.wd[Parent(order[k])], mask |-> "DELETE_DIR",
                       name |-> order[k]]]
    /\ db' = [db EXCEPT !.wd = [c \in DOMAIN @ |->
                                  IF c \in Below(d) THEN -1 ELSE @[c]]]

\* A whole package is moved in or out of the firmware location.
move_in(d) ==
    /\ Operation("movein")
    /\ Parent(d) = Root /\ d \in site.dirs \ fs
    /\ fs' = fs \cup (Below(d) \cap site.dirs)
    /\ file' = [c \in Dirs |-> IF c \in Below(d) \cap site.dirs /\ FileName(c) # NULL
                               THEN "full" ELSE file[c]]
    /\ Emit(Root, "MOVED_TO_DIR", d)
    /\ UNCHANGED db

move_out(d) ==
    /\ Operation("moveout")
    /\ Parent(d) = Root /\ d \in fs
    /\ \A c \in Below(d) : file[c] # "partial"
    /\ fs' = fs \ Below(d)
    /\ file' = [c \in Dirs |-> IF c \in Below(d) THEN "none" ELSE file[c]]
    /\ Emit(Root, "MOVED_FROM_DIR", d)
    /\ db' = [db EXCEPT !.wd = [c \in DOMAIN @ |->
                                  IF c \in Below(d) THEN -1 ELSE @[c]]]

Installer ==
    /\ \E d \in Dirs : \/ mkdir(d) \/ open_file(d) \/ rename_file(d)
                       \/ unlink(d) \/ rmdir(d) \/ rmtree(d) \/ move_in(d) \/ move_out(d)
                       \/ close_file(d)
    /\ UNCHANGED <<site, rescan, dirty, batch, req, walk, shown, loaded>>

-----------------------------------------------------------------------------
(* The inotify thread.                                                     *)

inotify == <<disk, queue, req, walk, shown, loaded>>   \* what it leaves alone

read_batch ==
    /\ batch = <<>> /\ queue # <<>> /\ req.kind # "boot"
    /\ LET n == Min({Len(queue), site.max_batch})
       IN  /\ batch' = SubSeq(queue, 1, n)
           /\ queue' = SubSeq(queue, n + 1, Len(queue))
    /\ UNCHANGED <<disk, db, rescan, dirty, req, walk, shown, loaded>>

\* The watch of the first event of the batch, if it is still known.
EventWatch == LET S == get_watch(db, batch[1].wd)
              IN  {db.watch[i] : i \in {k \in S : k = Lowest(S)}}

Event(mask, names) ==
    batch # <<>> /\ batch[1].mask \in mask /\ batch[1].name \in names

next_event == batch' = Tail(batch)
drop_batch == batch' = <<>>                           \* a break in the loop
WatchName(w) == IF w.path = Root THEN NULL ELSE w.path

\* An event of a watch that is gone ends the batch, except for a PDI and for
\* files that only ask for a rescan.
unknown_watch ==
    /\ \/ Event({"CREATE_DIR", "DELETE_DIR", "MOVED_FROM_DIR", "MOVED_TO_DIR"}, Dirs)
       \/ Event({"CREATE", "MOVED_TO"}, {"shell.json"})
       \/ Event({"CREATE"}, {"accel.json"})
    /\ EventWatch = {}
    /\ drop_batch
    /\ UNCHANGED <<inotify, db, rescan, dirty>>

dir_created ==
    /\ Event({"CREATE_DIR"}, Dirs)
    /\ \E w \in EventWatch :
         /\ LET d == batch[1].name
                r == add_dir_watch(db, d, WatchName(w), w.path)
            IN  /\ db' = r.t
                /\ IF WatchesOf(db, d) # {} \/ ~r.ok
                   THEN drop_batch /\ UNCHANGED rescan
                   ELSE next_event /\ rescan' = TRUE
    /\ UNCHANGED <<inotify, dirty>>

\* shell.json written or renamed into place, or a directory moved in, on a
\* platform with JSON packages: the base is initialised again if it is known.
BaseChanged(path, pname) ==
    LET t == assign_list_ids(db)
        i == findBaseDesign_path(t, path)
    IN  /\ dirty' = TRUE
        /\ IF i = 0 THEN drop_batch /\ db' = t
           ELSE /\ next_event
                /\ db' = Reload(t, i, pname, initBaseDesign(t.bases[i]))

shell_written ==
    /\ Event({"CREATE", "MOVED_TO"}, {"shell.json"})
    /\ \E w \in EventWatch : BaseChanged(w.path, WatchName(w))
    /\ UNCHANGED <<inotify, rescan>>

\* Faulty: the rescan is left to the next change.
MovedInUnscanned == UNCHANGED rescan

MovedIn == rescan' = TRUE

dir_moved_in ==
    /\ Event({"MOVED_TO_DIR"}, Dirs)
    /\ EventWatch # {} /\ MovedIn
    /\ \E w \in EventWatch :
         /\ \/ /\ IsVersal
               /\ next_event /\ dirty' = TRUE /\ db' = assign_list_ids(db)
            \/ ~IsVersal /\ BaseChanged(batch[1].name, WatchName(w))
    /\ UNCHANGED inotify

\* The base of an accelerator whose slot directory has watch w.
AccelBase(t, w) == findBaseDesign_path(t, path_to_watch(t, w.parent_path).parent_path)

accel_written ==
    /\ Event({"CREATE"}, {"accel.json"})
    /\ \E w \in EventWatch :
         LET t == assign_list_ids(db)
             i == AccelBase(t, w)
         IN  IF WatchesOf(db, w.parent_path) = {}
             THEN drop_batch /\ UNCHANGED <<db, dirty>>
             ELSE /\ dirty' = TRUE
                  /\ IF i = 0 THEN drop_batch /\ db' = t
                     ELSE /\ next_event
                          /\ db' = [t EXCEPT !.bases[i].accel_list =
                               add_accel_to_base(@, w.parent_name, w.parent_path)]
    /\ UNCHANGED <<inotify, rescan>>

\* A PDI in a base directory.
BasePdi(t, w) ==
    LET i == findBaseDesign_path(t, w.path)
    IN  /\ db' = IF i = 0 THEN t
                 ELSE Reload(t, i, WatchName(w), init_base_from_pdi(t.bases[i]))
        /\ rescan' = (rescan \/ i = 0)

\* A PDI in a slot directory, one or two levels below its base.
SlotPdi(t, w) ==
    LET p == findBaseDesign_path(t, w.parent_path)
        up == path_to_watch(t, w.parent_path)
        g == findBaseDesign_path(t, up.parent_path)
    IN  /\ UNCHANGED rescan
        /\ db' = CASE \E i \in {p} \ {0} : t.bases[i].path = w.parent_path ->
                        [t EXCEPT !.bases[p].accel_list =
                            add_pdi_accel(@, w.path, w.path, w.path)]
                   [] WatchesOf(t, w.parent_path) = {} -> t
                   [] g = 0 -> t
                   [] OTHER ->
                        [t EXCEPT !.bases[g].accel_list =
                            add_pdi_accel(@, w.parent_name, w.parent_path, w.path)]

handle_pdi_event ==
    /\ Event({"CREATE", "MOVED_TO"}, {"pdi"})
    /\ next_event
    /\ \/ /\ EventWatch = {}
          /\ UNCHANGED <<db, rescan, dirty>>
       \/ \E w \in EventWatch :
            /\ dirty' = TRUE
            /\ LET t == assign_list_ids(db)
               IN  \/ w.parent_name = NULL /\ BasePdi(t, w)
                   \/ w.parent_name # NULL /\ SlotPdi(t, w)
    /\ UNCHANGED inotify

\* Any other file, and accel.json renamed into place.
other_file ==
    /\ \/ Event({"CREATE", "MOVED_TO"}, {"elf"})
       \/ Event({"MOVED_TO"}, {"accel.json"})
    /\ rescan' = TRUE
    /\ next_event
    /\ UNCHANGED <<inotify, db, dirty>>

dir_removed ==
    /\ Event({"DELETE_DIR", "MOVED_FROM_DIR"}, Dirs)
    /\ \E w \in EventWatch :
         /\ LET d == batch[1].name
                t == IF w.parent_name = NULL THEN remove_base_design(db, d)
                                             ELSE remove_accel(db, d, w.path)
            IN  db' = assign_list_ids(remove_watch(t, d))
    /\ dirty' = TRUE
    /\ next_event
    /\ UNCHANGED <<inotify, rescan>>

InotifyThread ==
    \/ read_batch \/ unknown_watch \/ dir_created \/ shell_written
    \/ dir_moved_in \/ accel_written \/ handle_pdi_event \/ other_file
    \/ dir_removed

-----------------------------------------------------------------------------
(* The request thread.                                                     *)

request == <<disk, queue, batch>>                     \* what it leaves alone

\* Faulty: only a load walks, a listing prints what is known.
BeginUnwalked(kind) ==
    LET walks == rescan /\ kind = "load"
    IN  /\ req' = [kind |-> kind, pc |-> IF walks THEN "walk" ELSE "serve"]
        /\ walk' = [todo |-> IF walks THEN Subdirs(Root) ELSE <<>>, reg |-> NULL]
        /\ rescan' = (rescan /\ ~walks)

\* The start of a listing or of a load by name: the flag is cleared, then the
\* directories are walked.
Begin(kind) ==
    /\ req' = [kind |-> kind, pc |-> IF rescan THEN "walk" ELSE "serve"]
    /\ walk' = [todo |-> IF rescan THEN Subdirs(Root) ELSE <<>>, reg |-> NULL]
    /\ rescan' = FALSE

begin_request(kind) ==
    /\ kind \in site.requests /\ req.pc = "idle"
    /\ Begin(kind)
    /\ UNCHANGED <<request, db, dirty, shown, loaded>>

\* accel_dir_add() up to the decision whether the directory is a base: a
\* watch already there loses its parent name.
WatchForWalk(d) ==
    IF WatchesOf(db, d) # {}
    THEN [ok |-> TRUE,
          t |-> [db EXCEPT !.watch[Lowest(WatchesOf(db, d))].parent_name = NULL]]
    ELSE add_dir_watch(db, d, NULL, Parent(d))

accel_dir_add ==
    /\ req.pc = "walk" /\ walk.reg = NULL /\ walk.todo # <<>>
    /\ LET d == Head(walk.todo)
           w == WatchForWalk(d)
       IN  \/ /\ d \notin fs
              /\ walk' = [walk EXCEPT !.todo = Tail(@)]
              /\ UNCHANGED db
           \/ /\ d \in fs /\ ~w.ok
              /\ walk' = [walk EXCEPT !.todo = Tail(@)]
              /\ db' = w.t
           \/ /\ d \in fs /\ w.ok /\ dir_is_base_design(d)
              /\ walk' = [todo |-> Tail(walk.todo), reg |-> d]
              /\ db' = w.t
           \/ /\ d \in fs /\ w.ok /\ ~dir_is_base_design(d)
              /\ walk' = [walk EXCEPT !.todo = Subdirs(d) \o Tail(@)]
              /\ db' = w.t
    /\ UNCHANGED <<request, rescan, dirty, req, shown, loaded>>

\* The rest of accel_dir_add(): the base is entered, initialised and scanned.
register_base ==
    /\ req.pc = "walk" /\ walk.reg # NULL
    /\ LET t == add_base_design(db, walk.reg)
           i == findBaseDesign_path(t, walk.reg)
       IN  db' = IF i = 0 THEN t
                 ELSE Reload(t, i, t.bases[i].path, init_base_design(t.bases[i]))
    /\ walk' = [walk EXCEPT !.reg = NULL]
    /\ UNCHANGED <<request, rescan, dirty, req, shown, loaded>>

walk_done ==
    /\ req.pc = "walk" /\ walk.reg = NULL /\ walk.todo = <<>>
    /\ req' = [req EXCEPT !.pc = "serve"]
    /\ UNCHANGED <<request, db, rescan, dirty, walk, shown, loaded>>

\* The end of the first walk, before requests are served.
boot_done ==
    /\ req = [kind |-> "boot", pc |-> "serve"]
    /\ db' = assign_list_ids(db)
    /\ req' = [kind |-> "none", pc |-> "idle"]
    /\ UNCHANGED <<request, rescan, dirty, walk, shown, loaded>>

\* listAccelerators(): IDs, then the flag, then the rows.
list_ids ==
    /\ req = [kind |-> "list", pc |-> "serve"]
    /\ db' = assign_list_ids(db)
    /\ req' = [req EXCEPT !.pc = "clear"]
    /\ UNCHANGED <<request, rescan, dirty, walk, shown, loaded>>

\* Faulty: the rows are printed before the flag is cleared.
ListOrderSwapped == <<"print", "clear">>

ListOrder == <<"clear", "print">>

Shown(t) == {[id |-> t.bases[r[1]].accel_list[r[2]].list_id,
              base |-> t.bases[r[1]].path,
              name |-> t.bases[r[1]].accel_list[r[2]].name,
              path |-> t.bases[r[1]].accel_list[r[2]].path] : r \in Rows(t)}

listAccelerators ==
    /\ req.pc \in {"clear", "print"}
    /\ LET now == IF req.pc = "clear" THEN ListOrder[1] ELSE ListOrder[2]
       IN  /\ dirty' = (dirty /\ now # "clear")
           /\ shown' = IF now = "print" THEN Shown(db) ELSE shown
    /\ req' = IF req.pc = "clear" THEN [req EXCEPT !.pc = "print"]
                                  ELSE [kind |-> "none", pc |-> "idle"]
    /\ UNCHANGED <<request, db, rescan, walk, loaded>>

\* The rows that have ID id, the first of which find_accel_by_list_id() takes.
find_accel_by_list_id(t, id) ==
    LET S == {r \in Rows(t) : t.bases[r[1]].accel_list[r[2]].list_id = id}
    IN  {r \in S : \A x \in S : Before(r, x)}

\* Loading row r, whose files are read again; a base in use refuses every
\* other package.
Load(r) ==
    loaded' = IF loaded = NULL /\ db.bases[r[1]].accel_list[r[2]].path \in fs
              THEN [idx |-> r[1], path |-> db.bases[r[1]].path] ELSE loaded

load_by_name ==
    /\ req = [kind |-> "load", pc |-> "serve"]
    /\ \/ Rows(db) = {} /\ UNCHANGED loaded
       \/ \E r \in Rows(db) : Load(r)
    /\ req' = [kind |-> "none", pc |-> "idle"]
    /\ UNCHANGED <<request, db, rescan, dirty, walk, shown>>

load_by_id ==
    /\ "load_id" \in site.requests /\ req.pc = "idle"
    /\ \E row \in shown : \E r \in find_accel_by_list_id(db, row.id) : Load(r)
    /\ UNCHANGED <<request, db, rescan, dirty, req, walk, shown>>

\* The handle is looked for in the slots of the active base's entry.
unload ==
    /\ "unload" \in site.requests /\ req.pc = "idle" /\ loaded # NULL
    /\ db.bases[loaded.idx].num_pl_slots > 0
    /\ loaded' = NULL
    /\ UNCHANGED <<request, db, rescan, dirty, req, walk, shown>>

RequestThread ==
    \/ begin_request("list") \/ begin_request("load")
    \/ accel_dir_add \/ register_base \/ walk_done \/ boot_done
    \/ list_ids \/ listAccelerators \/ load_by_name \/ load_by_id \/ unload

-----------------------------------------------------------------------------
\* threadFunc(): empty tables, the first walk about to begin.
Init ==
    /\ site \in Sites
    /\ fs = site.installed
    /\ file = [d \in Dirs |-> IF d \in fs /\ FileName(d) # NULL
                              THEN "full" ELSE "none"]
    /\ queue = <<>> /\ batch = <<>> /\ ops = 0
    /\ db = [watch |-> [i \in Table |-> IF i = 1
                          THEN [NoWatch EXCEPT !.wd = 1, !.path = Root] ELSE NoWatch],
             bases |-> [i \in Table |->
                          [path |-> NULL, type |-> "", num_pl_slots |-> 0,
                           accel_list |-> [j \in AccelIdx |-> NoAccel]]],
             wd |-> [d \in Dirs \cup {Root} |-> IF d = Root THEN 1 ELSE -1],
             next |-> 2]
    /\ rescan = FALSE /\ dirty = FALSE
    /\ req = [kind |-> "boot", pc |-> "walk"]
    /\ walk = [todo |-> Subdirs(Root), reg |-> NULL]
    /\ shown = {} /\ loaded = NULL

Next == Installer \/ InotifyThread \/ RequestThread

\* Both threads keep running: weak fairness of their steps, with the guard of
\* each written out, since a thread is stopped only by having nothing to do.
\* Files being written get closed, and somebody keeps asking for the list.
Fairness ==
    /\ []<>(batch = <<>> /\ (queue = <<>> \/ req.kind = "boot")) \/ []<><<TRUE>>_batch
    /\ []<>(req.pc = "idle") \/ []<><<TRUE>>_<<req, walk>>
    /\ \A d \in Dirs : WF_file(close_file(d))
    /\ SF_req(begin_request("list"))

Spec == Init /\ [][Next]_vars
FairSpec == Spec /\ Fairness

-----------------------------------------------------------------------------
(***************************************************************************)
(* Properties.                                                             *)
(***************************************************************************)

\* The tables keep their types.
TypeOK ==
    /\ site \in Sites
    /\ fs \subseteq site.dirs
    /\ file \in [Dirs -> {"none", "partial", "full"}]
    /\ db.watch \in [Table -> Watch]
    /\ db.bases \in [Table -> Base]
    /\ {rescan, dirty} \subseteq BOOLEAN
    /\ req.kind \in {"boot", "none", "list", "load"}
    /\ req.pc \in {"idle", "walk", "serve", "clear", "print"}

\* Every kernel watch can be resolved: its descriptor is in active_watch[],
\* also when that table is full.
WatchesResolved ==
    \A d \in Dirs \cup {Root} :
        db.wd[d] # -1 => \E i \in Table : /\ db.watch[i].wd = db.wd[d]
                                          /\ db.watch[i].path = d

\* Nothing is under way: no event is unread or half handled, no request is
\* being served, no file is being written, and no walk is asked for.
Settled ==
    /\ queue = <<>> /\ batch = <<>> /\ req.pc = "idle" /\ ~rescan
    /\ \A d \in Dirs : file[d] # "partial"

\* There is an entry of active_watch[] for every directory.
Room == site.max_watch > Cardinality(site.dirs)

\* Packages are installed, moved in and out, and deleted as a whole.
Whole ==
    /\ site.ops \subseteq {"movein", "moveout", "rmtree"}
    /\ \A p \in Dirs : Parent(p) = Root =>
          Below(p) \cap site.installed =
              IF p \in site.installed THEN Below(p) \cap site.dirs ELSE {}

\* No event is lost when a handler leaves the loop over the batch: there is one
\* in a batch, or none leaves it, as all events are of the firmware location's
\* watch and none is about a file.
EventsKept ==
    site.max_batch <= 1 \/ (IsVersal /\ site.ops \subseteq {"movein", "moveout"})

\* Packages the tables are made for: there are slots, accel_list[] has room,
\* and the package of a flat shell has no accelerators beside it.
PackagesFit ==
    /\ NumRpu > 0 /\ RP_SLOTS_MAX > 0
    /\ \A p \in site.dirs :
          /\ Cardinality({a \in site.dirs : Parent(a) = p}) <= RP_SLOTS_MAX
          /\ Kind[p] = "base" /\ ~IsVersal =>
                /\ Shell[p].slots > 0
                /\ Shell[p].type = "FLAT" => \A a \in site.dirs : Parent(a) # p

\* On Versal the slots of a base are counted when the base is registered: they
\* come with it.
SlotsWithBase ==
    site.versal => Whole \/ \A d \in site.dirs : Kind[d] # "accel"

\* On other platforms a shell.json that appears in a directory not entered as a
\* base yet is not followed by a walk: it comes with its directory.  On Versal
\* a slot seen before its base is taken for one, and nobody notices that a base
\* whose last slot is deleted is a flat one: the base is there first and stays.
ShellsWithBase ==
    \/ Whole
    \/ /\ site.versal
       /\ \A a \in site.dirs : Kind[a] = "accel" =>
             /\ Parent(a) \in site.installed
             /\ site.ops \cap {"rmfile", "rmdir", "rmtree", "moveout"} = {}
    \/ /\ ~site.versal
       /\ site.ops \cap {"rmtree", "rmdir", "rmfile"} = {}
       /\ \A d \in site.dirs : Kind[d] = "base" => d \in site.installed

\* The packages on disk that a listing must show, by the path of their row.
CompleteBase(d) == d \in fs /\ Kind[d] = "base" /\ file[d] = "full"
SlotsOnDisk(a) == {s \in fs : Parent(s) = a /\ file[s] = "full"}
Expected ==
    {a \in fs : Kind[a] = "accel" /\ CompleteBase(Parent(a)) /\ SlotsOnDisk(a) # {}}
    \cup {d \in fs : Kind[d] = "rpuslot" /\ file[d] = "full"}
    \cup {d \in fs : CompleteBase(d) /\ IF IsVersal
                        THEN \A a \in fs : Parent(a) = d => SlotsOnDisk(a) = {}
                        ELSE Shell[d].type = "FLAT"}

RowPaths == {db.bases[r[1]].accel_list[r[2]].path : r \in Rows(db)}

\* No installed package is missed: when nothing is under way, every complete
\* base, accelerator and RPU firmware has its row, in whatever order its
\* directories and files appeared and whichever thread saw them first, if the
\* tables have room and no event is lost.
NothingMissed ==
    Settled /\ Room /\ PackagesFit /\ EventsKept /\ ShellsWithBase =>
        Expected \subseteq RowPaths

\* Nothing else is listed: when nothing is under way, every row is that of
\* something installed.  Deleted files and single deleted directories are left
\* out: the daemon does not follow them.  With a full watch table a base is
\* taken for a flat one, and a lost event may be that of a package that goes.
NothingExtra ==
    Settled /\ Room /\ EventsKept /\ SlotsWithBase
            /\ site.ops \cap {"rmfile", "rmdir"} = {} =>
        RowPaths \subseteq Expected

\* A PDI that cannot be read empties an entry, and the first free entry may
\* then come before that of the accelerator looked for: on Versal a base has one
\* accelerator.
OneAccel ==
    IsVersal => \A a, c \in site.dirs :
        Kind[a] = "accel" /\ Kind[c] = "accel" /\ Parent(a) = Parent(c) => a = c

\* No accelerator has two rows ("Check for duplicates: same name AND same
\* path", add_accel_to_base).
NoDuplicates ==
    OneAccel =>
    \A r, s \in Rows(db) :
        /\ r[1] = s[1]
        /\ db.bases[r[1]].accel_list[r[2]].path = db.bases[s[1]].accel_list[s[2]].path
        /\ db.bases[r[1]].accel_list[r[2]].name = db.bases[s[1]].accel_list[s[2]].name
        => r = s

\* Only listings walk the directories, and rows that come with an ID of their
\* own are numbered before a listing is printed: on Versal packages come whole,
\* else no ID is left behind and at most one accelerator is added at a time.
RowsNumbered ==
    /\ "load" \notin site.requests
    /\ \/ IsVersal /\ Whole
       \/ /\ site.ops \cap {"rmfile", "rmdir", "rmtree", "moveout"} = {}
          /\ Cardinality({a \in site.dirs : Kind[a] = "accel"}) <= 1

\* "reply: pkg IDs changed since last -listPackage" (DFX_RESP_PKG_DIRTY): while
\* the flag is clear, an ID the last listing showed names what it showed, or
\* nothing.
CleanIdsCurrent ==
    ~dirty /\ req.pc = "idle" /\ RowsNumbered =>
        \A row \in shown : \A r \in find_accel_by_list_id(db, row.id) :
            /\ db.bases[r[1]].path = row.base
            /\ db.bases[r[1]].accel_list[r[2]].path = row.path

\* On Versal "slot count is taken from the highest <accelerator>_slot<N> index
\* found" (README.md): when nothing is under way, a listed base has as many
\* slots as its slot directories with a PDI need, the last of them included.
SlotCountCurrent ==
    Settled /\ Room /\ EventsKept /\ IsVersal /\ SlotsWithBase =>
        \A i \in Table, s \in fs :
            /\ db.bases[i].path # NULL /\ file[s] = "full" /\ Kind[s] = "slot"
            /\ db.bases[i].path = Parent(Parent(s)) /\ file[db.bases[i].path] = "full"
            => SlotIndex[s] < db.bases[i].num_pl_slots

\* The handle of a loaded package is "used for unload" (README.md): the entry
\* platform.active_base points to is still that package's, and has slots to
\* look for the handle in, whatever the installer did since.
HandleUnloads ==
    loaded # NULL => /\ db.bases[loaded.idx].path = loaded.path
                     /\ db.bases[loaded.idx].num_pl_slots > 0

\* Listings catch up: the installer does finitely many operations, and from
\* some time on the last listing shows exactly what it left on disk.
ListingConverges ==
    Whole /\ Room /\ EventsKept /\ "list" \in site.requests =>
        <>[]({row.path : row \in shown} = Expected)

=============================================================================
