------------------------------ MODULE DfxDrain ------------------------------
(***************************************************************************)
(* The daemon with clients that at some point stop loading and only unload *)
(* what is loaded, handle by handle, retrying what is refused.             *)
(***************************************************************************)
EXTENDS DfxDaemon

VARIABLE draining      \* clients only unload from now on

drain_vars == <<vars, draining>>

DrainInit == Init /\ draining = FALSE

Serve == ~draining /\ Next /\ UNCHANGED draining

StopLoading == ~draining /\ draining' = TRUE /\ UNCHANGED vars

UnloadHandle(h) ==
    draining /\ unload_accelerator(h) /\ UNCHANGED draining

DrainNext == Serve \/ StopLoading \/ \E h \in Handles : UnloadHandle(h)

\* The select loop of the daemon reads every connection that has a request,
\* so a client that keeps asking for a handle to be unloaded is served.
DrainSpec == /\ DrainInit /\ [][DrainNext]_drain_vars
             /\ \A h \in Handles : WF_drain_vars(UnloadHandle(h))

\* Whatever was loaded, in whatever order, refused requests included, can be
\* unloaded again: no design waits for another forever (a Full waits for its
\* Partials), every handle returns to the pool.
Drained == draining ~> used_handles = {}

=============================================================================
