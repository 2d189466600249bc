---------------------------- MODULE MCDiscovery ----------------------------
(***************************************************************************)
(* A small directory tree for Discovery, and sites on it.                  *)
(***************************************************************************)
EXTENDS Discovery

CONSTANTS b1, a1, s1, s2, a2, t1, b2, r1, q0, q1

\* A package b1 with an accelerator a1 of two slots and an accelerator a2 of one,
\* a package b2 without any, and an RPU package r1 with two numbered slots.
TreeKind == [d \in Dirs |->
    CASE d \in {b1, b2} -> "base" [] d \in {a1, a2} -> "accel" [] d \in {s1, s2, t1} -> "slot"
      [] d = r1 -> "rpu" [] OTHER -> "rpuslot"]
TreeChildren == [d \in Dirs \cup {Root} |->
    CASE d = Root -> <<b1, b2, r1>> [] d = b1 -> <<a1, a2>> [] d = a1 -> <<s1, s2>>
      [] d = a2 -> <<t1>> [] d = r1 -> <<q0, q1>> [] OTHER -> <<>>]
TreeShell == [d \in Dirs |->
    IF d = b1 THEN [type |-> "PL_DFX", slots |-> 2] ELSE [type |-> "FLAT", slots |-> 1]]
TreeIndex == [d \in Dirs |-> IF d = s2 THEN 1 ELSE 0]

\* Whole packages come and go: moved, several events in a read(); also deleted;
\* with listings only.
MovedVersal == [versal |-> TRUE, max_watch |-> 6, dirs |-> {b1, a1, s1, s2, b2},
    installed |-> {}, ops |-> {"movein", "moveout"}, max_ops |-> 4,
    max_batch |-> 2, requests |-> {"list", "load", "load_id", "unload"}]
DeletedVersal == [MovedVersal EXCEPT !.dirs = {b1, a1, s1, a2, t1},
    !.ops = {"movein", "rmtree"}, !.max_batch = 1, !.requests = {"list"}]
ListedVersal == [MovedVersal EXCEPT !.dirs = {b1, b2}, !.ops = @ \cup {"rmtree"},
    !.requests = {"list", "load_id", "unload"}]
MovedJson == [MovedVersal EXCEPT !.versal = FALSE, !.dirs = {b1, a1, s1, b2},
    !.ops = @ \cup {"rmtree"}, !.max_ops = 3, !.max_batch = 1]

\* An accelerator is built up in a package that is there.
GrowJson == [MovedJson EXCEPT !.dirs = {b1, a1, s1, s2}, !.installed = {b1},
    !.ops = {"mkdir", "write", "rename"}, !.max_ops = 5, !.requests = {"list"}]
GrowVersal == [GrowJson EXCEPT !.versal = TRUE, !.max_ops = 4]

\* A second accelerator beside one that is there, files and directories of which
\* go and come.
TwoAccels == [GrowJson EXCEPT !.dirs = {b1, a1, s1, a2, t1},
    !.installed = {b1, a1, s1, a2}, !.ops = {"mkdir", "write", "rmdir", "rmfile"},
    !.max_ops = 3]

\* RPU firmware comes and goes, bases are built up, and a table is too small.
Firmware == [MovedVersal EXCEPT !.dirs = {r1, q0, q1}, !.installed = {r1, q0},
    !.ops = {"mkdir", "write", "rename", "rmfile", "rmdir"}, !.max_ops = 3,
    !.max_batch = 1, !.requests = {"list"}]
NewBases == [GrowVersal EXCEPT !.dirs = {b1, b2}, !.installed = {b1},
    !.ops = {"mkdir", "write", "rename", "rmtree"}, !.max_ops = 3]
SmallTables == [MovedVersal EXCEPT !.max_watch = 3, !.dirs = {b1, a1, s1, b2},
    !.ops = @ \cup {"rmtree", "mkdir"}, !.max_ops = 2, !.max_batch = 1, !.requests = {"list"}]

\* Files and directories of JSON packages are deleted and made again.
Rewritten == [GrowJson EXCEPT !.dirs = {b1, a1, s1}, !.installed = {b1, a1},
    !.ops = {"mkdir", "write", "rmdir", "rmfile", "rmtree"},
    !.max_ops = 3]

AllSites == {MovedVersal, DeletedVersal, ListedVersal, MovedJson, GrowJson, GrowVersal,
             TwoAccels, Firmware, NewBases, SmallTables, Rewritten}

\* A package is deleted while its accelerator is in use.
InUse == {[MovedVersal EXCEPT !.dirs = {b1, a1, s1}, !.installed = {b1, a1, s1},
    !.ops = {"rmtree"}, !.max_batch = 1, !.requests = {"load", "unload"}]}
=============================================================================
