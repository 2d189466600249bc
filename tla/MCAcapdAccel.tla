---------------------------- MODULE MCAcapdAccel ----------------------------
(***************************************************************************)
(* Packages for AcapdAccel.                                                *)
(***************************************************************************)
EXTENDS AcapdAccel

\* An archive with two devices and channels; every step up to the load may fail.
Archive == [devs |-> 2, chnls |-> TRUE, flat |-> FALSE, no_driver |-> {}, tar_gz |-> TRUE,
    env_config |-> FALSE, may_fail |-> {"extract", "json", "shell", "fetch", "load", "vfio"}]

\* A package without devices, and one whose devices need their driver.
Design == [Archive EXCEPT !.devs = 0, !.chnls = FALSE, !.flat = TRUE]
Driver == [Archive EXCEPT !.no_driver = {1, 2}, !.tar_gz = FALSE]

\* Every step may fail; removing may fail.
AnyFault == [Driver EXCEPT !.may_fail = Steps]
Stuck == [Archive EXCEPT !.may_fail = {"load", "remove"}]

\* The design is loaded by somebody else.
Environment == [AnyFault EXCEPT !.devs = 4, !.env_config = TRUE,
    !.may_fail = {"bind", "uio", "open"}]

\* The same, with the paths of the devices given.
Paths == [Environment EXCEPT !.devs = 2, !.no_driver = {}, !.may_fail = {"open", "vfio"}]

AllPackages == {Archive, Design, Driver, AnyFault, Stuck, Environment, Paths}
=============================================================================
