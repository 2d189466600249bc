----------------------------- MODULE HandlePool -----------------------------
(***************************************************************************)
(* What the daemon promises its clients about slot handles, whatever the   *)
(* kind of design behind them: a load that succeeds answers with the       *)
(* lowest handle nobody holds, which from then on names that design and no *)
(* other; an unload gives one handle back.  Nothing else touches the pool. *)
(***************************************************************************)
EXTENDS Integers

CONSTANTS Handles,   \* handle numbers
          Designs,   \* what a handle may name
          NULL

VARIABLES pool,      \* the design each handle names, or NULL
          reply      \* the answer to the last request

PoolInit == pool = [h \in Handles |-> NULL] /\ reply = 0

Acquire(h) ==
    /\ pool[h] = NULL
    /\ \A k \in Handles : pool[k] = NULL => h <= k
    /\ \E d \in Designs :
         /\ \A k \in Handles : pool[k] # d
         /\ pool' = [pool EXCEPT ![h] = d]
    /\ reply' = h

Release(h) ==
    /\ pool[h] # NULL
    /\ pool' = [pool EXCEPT ![h] = NULL]
    /\ reply' <= 0

\* Refused, or about something that has no handle.
Other == reply' <= 0 /\ UNCHANGED pool

PoolNext == (\E h \in Handles : Acquire(h) \/ Release(h)) \/ Other

PoolSpec == PoolInit /\ [][PoolNext]_<<pool, reply>>

=============================================================================
