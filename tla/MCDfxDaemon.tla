---------------------------- MODULE MCDfxDaemon ----------------------------
(***************************************************************************)
(* Packages for model-checking DfxDaemon: a flat package, a PL_DFX package *)
(* of two slots that loads its base, a PL_DFX package of one slot that     *)
(* does not, and two RPU packages, one with the new and one with the old   *)
(* directory structure.                                                    *)
(***************************************************************************)
EXTENDS DfxDaemon

Accel(name, dirs, num) ==
    [name |-> name, slot_dirs |-> dirs, slot_num |-> num,
     aie |-> FALSE, dtbo |-> TRUE]

Package(name, type, n, loads, accels) ==
    [name |-> name, type |-> type, num_pl_slots |-> n, num_aie_slots |-> 0,
     load_base_design |-> loads, dtbo |-> TRUE, accel_list |-> accels]

FlatPkg == Package("flat", "FLAT", 1, TRUE, <<Accel("flat", {}, -1)>>)
DfxPkg == Package("shell", "PL_DFX", 2, TRUE,
                  <<Accel("fir", {0, 1}, -1), Accel("fft", {1}, -1)>>)
\* Not loaded by dfx-mgr; its second accelerator is an AIE design.
BarePkg == Package("bare", "PL_DFX", 1, FALSE,
                   <<Accel("fir", {0}, -1),
                     [Accel("aie", {0}, -1) EXCEPT !.aie = TRUE]>>)
\* Firmware fw has an .elf in both slot directories of rpu.
RpuPkg == Package("rpu", "RPU", 2, FALSE,
                  <<Accel("fw", {}, 0), Accel("fw", {}, 1)>>)
RpuOldPkg == Package("rpu_old", "RPU", 1, FALSE, <<Accel("echo", {0, 1}, -1)>>)

PlPkgs == <<FlatPkg, DfxPkg, BarePkg>>
PlNames == {"flat", "shell", "bare", "fir", "fft", "aie", "top"}

RpuPkgs == <<DfxPkg, RpuPkg, RpuOldPkg>>
RpuNames == {"shell", "rpu", "rpu_old", "fir", "fft", "fw", "echo"}

=============================================================================
