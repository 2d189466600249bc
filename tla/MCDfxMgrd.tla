----------------------------- MODULE MCDfxMgrd ------------------------------
(***************************************************************************)
(* Hosts for DfxMgrd.                                                      *)
(***************************************************************************)
EXTENDS DfxMgrd

CONSTANTS p, q

\* Two command line clients keep a socket activated daemon busy.
Busy == [clients |-> {p, q}, library |-> {}, activated |-> TRUE,
    calls |-> {"load", "unload", "quit"}, may_stop |-> {}, handles |-> {0},
    max_fds |-> 4, backlog |-> 1, max_changes |-> 0]

\* Clients and daemon are stopped.
Faults == [Busy EXCEPT !.activated = FALSE, !.calls = {"load", "query"},
    !.may_stop = {"client", "daemon"}, !.max_fds = 2]

\* One client names packages by ID while the packages change.
Ids == [Busy EXCEPT !.clients = {p}, !.activated = FALSE, !.handles = {0, 1},
    !.calls = {"load_id", "unload_id", "list", "user_load"},
    !.max_fds = 2, !.max_changes = 2]

\* A program that uses the library, and a daemon with few descriptors.
Linked == [Faults EXCEPT !.clients = {p}, !.library = {p}, !.handles = {0, 1},
    !.calls = {"load", "unload"}, !.may_stop = {"client"}, !.max_fds = 1,
    !.backlog = 2]

AllHosts == {Busy, Faults, Ids, Linked}
=============================================================================
