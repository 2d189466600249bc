----------------------------- MODULE MCDfxDrain -----------------------------
(* Packages for model-checking DfxDrain: one of each kind.                 *)
EXTENDS DfxDrain

Accel(name, dirs, num) ==
    [name |-> name, slot_dirs |-> dirs, slot_num |-> num,
     aie |-> FALSE, dtbo |-> TRUE]

Package(name, type, n, loads, accels) ==
    [name |-> name, type |-> type, num_pl_slots |-> n, num_aie_slots |-> 0,
     load_base_design |-> loads, dtbo |-> TRUE, accel_list |-> accels]

DrainPkgs ==
    <<Package("flat", "FLAT", 1, TRUE, <<Accel("flat", {}, -1)>>),
      Package("shell", "PL_DFX", 1, TRUE, <<Accel("fir", {0}, -1)>>),
      Package("rpu", "RPU", 1, FALSE, <<Accel("fw", {}, 0)>>)>>

DrainNames == {"flat", "shell", "rpu", "fir", "fw", "top"}

=============================================================================
