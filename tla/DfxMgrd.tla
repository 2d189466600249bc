------------------------------ MODULE DfxMgrd -------------------------------
(***************************************************************************)
(* The daemon's server loop (src/example/sys/linux/dfx-mgrd.c) and those   *)
(* who call it: the command line client (dfx-mgr-client.c) and programs    *)
(* that link the client library (src/src/dfxmgr_client.c).                 *)
(*                                                                         *)
(* Every call makes a connection of its own, writes one request and reads  *)
(* one reply.  The daemon selects, then visits the descriptors that were   *)
(* ready in ascending order: it accepts one connection, or reads one       *)
(* request, carries it out and writes the reply.  Clients may be           *)
(* interrupted and the daemon stopped and started again at any point; with *)
(* socket activation systemd keeps the listening socket meanwhile.         *)
(*                                                                         *)
(* What a request does to accelerators is in DfxDaemon.  Here a load takes *)
(* a handle or fails, and the package IDs a client has read are the number *)
(* of the numbering they belong to.                                        *)
(*                                                                         *)
(* A host has a daemon with its limits, clients and what they do.          *)
(* Behaviours of all Hosts are considered; a behaviour stays on the one it *)
(* starts on.                                                              *)
(*                                                                         *)
(* An operator whose comment starts with "Faulty" is no part of the model: *)
(* it is a slip the code could contain, put in place of the operator that  *)
(* follows it to see that the properties notice.                           *)
(***************************************************************************)
EXTENDS Integers, Sequences, FiniteSets, SequencesExt

CONSTANTS
    Clients,
    MaxConns,   \* descriptors of a client process
    Hosts,
    NULL

Ops == {"load", "load_id", "unload", "unload_id", "list", "user_load",
        "query", "quit"}
Conns == Clients \X (1 .. MaxConns)
socket_d == 0   \* the listening socket has the lowest descriptor

Host == [clients: SUBSET Clients,
         library: SUBSET Clients, \* those that use dfxmgr_client.c; the others
                                  \* are dfx-mgr-client
         activated: BOOLEAN,      \* systemd owns the listening socket
         calls: SUBSET Ops,       \* requests made
         may_stop: SUBSET {"client",    \* is interrupted
                           "daemon"},   \* is stopped
         handles: SUBSET Nat,     \* slot handles
         max_fds: Nat \ {0},      \* descriptors of the daemon, besides the
                                  \* listening socket
         backlog: Nat \ {0},      \* host.backlog
         max_changes: Nat]        \* bound: changes of the package list

\* What a call returned: which request, its result, a handle.
Results == [op: Ops, val: {"ok", "error", "refused"}, h: Nat]

\* A request that was carried out: its result, the numbering at that time, and
\* whether it was made for another one.
Served == [conn: Conns, op: Ops, val: {"ok", "error"}, h: Nat, ver: Int,
           stale: BOOLEAN]

\* Nothing else is the same as NULL.
ASSUME ServerAssumption ==
    /\ IsFiniteSet(Clients) /\ MaxConns \in Nat \ {0}
    /\ NULL \notin Conns \cup Results \cup Served
    /\ \A h \in Hosts : h \in Host

VARIABLES
    host,       \* the host
    up,         \* the daemon runs
    backlog,    \* connections not accepted yet
    srv,        \* fds: the connection of each of the daemon's descriptors
    ready,      \* readfds: descriptors this pass has still to visit
    serving,    \* the request carried out and not answered yet
    open,       \* connections whose client end is open
    inbox,      \* requests the daemon has not read
    outbox,     \* replies not read
    cl,         \* each client: where it is, connection, request, last result,
                \* what was done for its call, numbering it has listed
    loaded,     \* handles in use
    version,    \* numbering of the package list
    dirty       \* pkg_listing_dirty

vars == <<host, up, backlog, srv, ready, serving, open, inbox, outbox, cl, loaded,
          version, dirty>>

Library == host.library
Activated == host.activated
Handles == host.handles
Fds == 1 .. host.max_fds

TypeOK ==
    /\ host \in Hosts
    /\ up \in BOOLEAN /\ dirty \in BOOLEAN
    /\ IsInjective(backlog) /\ ToSet(backlog) \subseteq Conns
    /\ srv \in [Fds -> Conns \cup {NULL}]
    \* a connection has one descriptor, and is not also waiting to be accepted
    /\ \A f, g \in Fds : srv[f] # NULL /\ srv[f] = srv[g] => f = g
    /\ \A f \in Fds : srv[f] \notin ToSet(backlog)
    /\ ready \subseteq Fds \cup {socket_d}
    /\ open \subseteq Conns
    /\ \A r \in inbox : r.conn \in Conns /\ r.op \in Ops
    /\ \A r \in outbox : r.conn \in Conns /\ r.op \in Ops
    /\ loaded \subseteq Handles
    /\ version \in 0 .. host.max_changes
    /\ \A c \in Clients : cl[c].pc \in {"idle", "connected", "waiting"}

Idle == [pc |-> "idle", conn |-> NULL, op |-> NULL, res |-> NULL, done |-> NULL,
         seen |-> -1]

Init ==
    /\ host \in Hosts
    /\ up = FALSE /\ backlog = <<>> /\ srv = [f \in Fds |-> NULL] /\ ready = {}
    /\ serving = NULL /\ open = {} /\ inbox = {} /\ outbox = {}
    /\ cl = [c \in Clients |-> Idle]
    /\ loaded = {} /\ version = 0 /\ dirty = FALSE

server == <<up, srv, ready, serving>>
tables == <<loaded, version, dirty>>

Accepted(k) == \E f \in Fds : srv[f] = k
Alive(k) == Accepted(k) \/ k \in ToSet(backlog)
Lowest(S) == CHOOSE n \in S : \A m \in S : n <= m

\* Faulty: only a load by ID carries the flag.
allow_warn_load(op) == op = "load_id"

\* Requests that name an ID are answered with DFX_RESP_PKG_DIRTY.
allow_warn(op) == op \in {"load_id", "unload_id"}

-----------------------------------------------------------------------------
(* Clients.                                                                *)

\* Numbers the kernel may give a new connection of c: not open, and forgotten by
\* the daemon.
Unused(c) == {i \in 1 .. MaxConns : <<c, i>> \notin open /\ ~Alive(<<c, i>>)
                                    /\ \A r \in inbox : r.conn # <<c, i>>}

\* The result of call op; a command line client exits and so closes its
\* connection, the library leaves it open.
Return(c, op, val, h) ==
    /\ cl' = [cl EXCEPT ![c].pc = "idle", ![c].conn = NULL, ![c].op = NULL,
                        ![c].res = [op |-> op, val |-> val, h |-> h]]
    /\ open' = IF c \in Library THEN open ELSE open \ {cl[c].conn}

\* A call begins: socket(), connect().  connect() waits while the backlog is
\* full, and fails when nobody listens; a client names IDs it has listed.
initSocket(c, op) ==
    /\ cl[c].pc = "idle"
    /\ allow_warn(op) => cl[c].seen >= 0
    /\ IF (up \/ Activated) /\ Cardinality({k \in open : k[1] = c}) < MaxConns
       THEN /\ Len(backlog) < host.backlog /\ Unused(c) # {}
            /\ LET k == <<c, Lowest(Unused(c))>>
               IN  /\ backlog' = Append(backlog, k)
                   /\ open' = open \cup {k}
                   /\ cl' = [cl EXCEPT ![c].pc = "connected", ![c].conn = k,
                                       ![c].op = op, ![c].res = NULL,
                                       ![c].done = NULL]
       ELSE /\ cl' = [cl EXCEPT ![c].res = [op |-> op, val |-> "refused", h |-> 0],
                                ![c].done = NULL]
            /\ UNCHANGED <<backlog, open>>
    /\ UNCHANGED <<host, server, inbox, outbox, tables>>

\* write(); it fails once the daemon's end is closed.
send_msg(c, h) ==
    /\ cl[c].pc = "connected"
    /\ IF Alive(cl[c].conn)
       THEN /\ inbox' = inbox \cup {[conn |-> cl[c].conn, op |-> cl[c].op,
                                     ver |-> cl[c].seen, h |-> h]}
            /\ cl' = [cl EXCEPT ![c].pc = "waiting"]
            /\ UNCHANGED open
       ELSE Return(c, cl[c].op, "error", 0) /\ UNCHANGED inbox
    /\ UNCHANGED <<host, server, backlog, outbox, tables>>

\* The reply.  A listing shows the client the IDs.
recv_msg(c) ==
    /\ cl[c].pc = "waiting"
    /\ \E r \in outbox :
          /\ r.conn = cl[c].conn
          /\ outbox' = outbox \ {r}
          /\ cl' = [cl EXCEPT ![c].pc = "idle", ![c].conn = NULL, ![c].op = NULL,
                              ![c].seen = IF r.op = "list" THEN r.ver ELSE @,
                              ![c].res = [op |-> r.op, val |-> r.val, h |-> r.h]]
    /\ open' = IF c \in Library THEN open ELSE open \ {cl[c].conn}
    /\ UNCHANGED <<host, server, backlog, inbox, tables>>

\* Faulty: the command line client tests for errors only.
OutcomesOfEof_unchecked(c) == {"ok", "error"}

\* read() returned 0.  The library takes that for a reply and looks at a
\* message that was never filled in.
OutcomesOfEof(c) == IF c \in Library THEN {"ok", "error"} ELSE {"error"}

\* The daemon's end is closed and no reply came: read() fails if the daemon had
\* not read the request, and returns 0 otherwise.
recv_eof(c) ==
    /\ cl[c].pc = "waiting" /\ ~Alive(cl[c].conn)
    /\ \A r \in outbox : r.conn # cl[c].conn
    /\ LET unread == {r \in inbox : r.conn = cl[c].conn}
       IN  /\ \E val \in IF unread # {} THEN {"error"} ELSE OutcomesOfEof(c) :
                 Return(c, cl[c].op, val, 0)
           /\ inbox' = inbox \ unread
    /\ UNCHANGED <<host, server, backlog, outbox, tables>>

\* The process of c ends, in a call or between two, and its descriptors are
\* closed.
interrupt(c) ==
    /\ "client" \in host.may_stop
    /\ \E k \in open : k[1] = c
    /\ open' = {k \in open : k[1] # c}
    /\ outbox' = {r \in outbox : r.conn[1] # c}
    /\ inbox' = {r \in inbox : r.conn[1] # c \/ Alive(r.conn)}
    /\ cl' = [cl EXCEPT ![c] = [Idle EXCEPT !.seen = cl[c].seen]]
    /\ UNCHANGED <<host, server, backlog, tables>>

-----------------------------------------------------------------------------
(* The daemon.                                                             *)

\* Faulty: main() makes a listening socket of its own even if it was given one.
start_own_socket == <<>>

\* What is left of the backlog when the daemon has its listening socket.
start_backlog == IF Activated THEN backlog ELSE <<>>

\* main() up to the loop.
start ==
    /\ ~up
    /\ up' = TRUE /\ backlog' = start_backlog
    /\ srv' = [f \in Fds |-> NULL] /\ ready' = {} /\ serving' = NULL
    /\ loaded' = {} /\ dirty' = FALSE
    /\ UNCHANGED <<host, open, inbox, outbox, cl, version>>

\* The process ends: its descriptors are closed, with its own listening socket
\* the connections in the backlog too.
Exit ==
    /\ up' = FALSE /\ srv' = [f \in Fds |-> NULL] /\ ready' = {} /\ serving' = NULL
    /\ backlog' = IF Activated THEN backlog ELSE <<>>
    /\ inbox' = {r \in inbox : r.conn \in open \cup ToSet(backlog')}

stop ==
    /\ "daemon" \in host.may_stop /\ up
    /\ Exit
    /\ UNCHANGED <<host, open, outbox, cl, tables>>

\* A client end is closed with nothing left to read.
AtEof(k) == k \notin open /\ \A r \in inbox : r.conn # k

Readable ==
    {f \in Fds : srv[f] # NULL /\ (AtEof(srv[f]) \/ \E r \in inbox : r.conn = srv[f])}
      \cup (IF backlog # <<>> THEN {socket_d} ELSE {})

select ==
    /\ up /\ serving = NULL /\ ready = {} /\ Readable # {}
    /\ ready' = Readable
    /\ UNCHANGED <<host, up, backlog, srv, serving, open, inbox, outbox, cl, tables>>

\* Faulty: one descriptor per pass, the lowest.
Rest_first_only(f) == {}

\* The descriptors still to visit after f.
Rest(f) == ready \ {f}

Visiting(f) == up /\ serving = NULL /\ f \in ready /\ \A g \in ready : f <= g

FreeFds == {f \in Fds : srv[f] = NULL}

\* Faulty: the result of accept() is not looked at, and FD_SET(-1) made of it.
accept_unchecked ==
    /\ Visiting(socket_d)
    /\ IF FreeFds # {}
       THEN /\ srv' = [srv EXCEPT ![Lowest(FreeFds)] = Head(backlog)]
            /\ backlog' = Tail(backlog)
       ELSE /\ srv' = [f \in Fds \cup {-1} |-> IF f \in Fds THEN srv[f] ELSE NULL]
            /\ UNCHANGED backlog
    /\ ready' = Rest(socket_d)
    /\ UNCHANGED <<host, up, serving, open, inbox, outbox, cl, tables>>

\* One connection per pass.  Without a descriptor accept() fails and the
\* daemon exits.
accept ==
    /\ Visiting(socket_d)
    /\ IF FreeFds # {}
       THEN /\ srv' = [srv EXCEPT ![Lowest(FreeFds)] = Head(backlog)]
            /\ backlog' = Tail(backlog)
            /\ ready' = Rest(socket_d)
            /\ UNCHANGED <<up, serving, inbox>>
       ELSE Exit
    /\ UNCHANGED <<host, open, outbox, cl, tables>>

closed(f) == [srv EXCEPT ![f] = NULL]

\* process_dfx_req() reads nothing: the client is gone.
close_fd(f) ==
    /\ f \in Fds /\ Visiting(f) /\ AtEof(srv[f])
    /\ srv' = closed(f) /\ ready' = Rest(f)
    /\ UNCHANGED <<host, up, backlog, serving, open, inbox, outbox, cl, tables>>

\* The outcomes of each request: result and handle, and the handles in use, the
\* numbering and the flag after it.
Outcomes(r) ==
    LET Same(val) == [val |-> val, h |-> 0, loaded |-> loaded, version |-> version,
                      dirty |-> dirty]
        h == Lowest(Handles \ loaded)
        Loaded == [Same("ok") EXCEPT !.h = h, !.loaded = @ \cup {h}]
    IN  CASE r.op \in {"load", "load_id"} ->
               {Same("error")} \cup (IF Handles = loaded THEN {} ELSE {Loaded})
          [] r.op = "user_load" ->
               {Same("error")} \cup
               (IF Handles = loaded \/ version = host.max_changes THEN {}
                ELSE {[Loaded EXCEPT !.version = @ + 1, !.dirty = TRUE]})
          [] r.op \in {"unload", "unload_id"} ->
               {IF r.h \in loaded
                THEN [Same("ok") EXCEPT !.h = r.h, !.loaded = @ \ {r.h}]
                ELSE Same("error")}
          [] r.op = "list" -> {[Same("ok") EXCEPT !.dirty = FALSE]}
          [] OTHER -> {Same("ok")}

\* process_dfx_req() up to the reply.
process_dfx_req(f) ==
    /\ f \in Fds /\ Visiting(f)
    /\ \E r \in inbox :
          /\ r.conn = srv[f] /\ r.op # "quit"
          /\ inbox' = inbox \ {r}
          /\ \E o \in Outcomes(r) :
                /\ loaded' = o.loaded /\ version' = o.version /\ dirty' = o.dirty
                /\ serving' = [conn |-> r.conn, op |-> r.op, val |-> o.val,
                               h |-> o.h, ver |-> version,
                               stale |-> r.ver # version]
                /\ cl' = IF r.conn = cl[r.conn[1]].conn
                         THEN [cl EXCEPT ![r.conn[1]].done =
                                  [op |-> r.op, val |-> o.val, h |-> o.h]]
                         ELSE cl
    /\ ready' = Rest(f)
    /\ UNCHANGED <<host, up, backlog, srv, open, outbox>>

process_quit(f) ==
    /\ f \in Fds /\ Visiting(f)
    /\ \E r \in inbox : r.conn = srv[f] /\ r.op = "quit" /\ inbox' = inbox \ {r}
    /\ srv' = closed(f) /\ ready' = Rest(f)
    /\ UNCHANGED <<host, up, backlog, serving, open, outbox, cl, tables>>

\* format_load_response() and write(), which fails when the client is gone.
reply ==
    /\ up /\ serving # NULL
    /\ outbox' = IF serving.conn \in open
                 THEN outbox \cup {[conn |-> serving.conn, op |-> serving.op,
                                    val |-> serving.val, h |-> serving.h,
                                    ver |-> serving.ver, stale |-> serving.stale,
                                    warn |-> allow_warn(serving.op) /\ dirty]}
                 ELSE outbox
    /\ serving' = NULL
    /\ UNCHANGED <<host, up, backlog, srv, ready, open, inbox, cl, tables>>

\* The inotify thread: mark_pkg_listing_dirty().
packages_change ==
    /\ up /\ version < host.max_changes
    /\ version' = version + 1 /\ dirty' = TRUE
    /\ UNCHANGED <<host, server, backlog, open, inbox, outbox, cl, loaded>>

Visit ==
    \/ accept
    \/ \E f \in Fds : close_fd(f)
    \/ \E f \in Fds : process_dfx_req(f)
    \/ \E f \in Fds : process_quit(f)

Client(c) ==
    \/ \E h \in Handles : send_msg(c, h)
    \/ recv_msg(c)
    \/ recv_eof(c)

Next ==
    \/ start
    \/ stop
    \/ select
    \/ Visit
    \/ reply
    \/ packages_change
    \/ \E c \in host.clients, op \in host.calls : initSocket(c, op)
    \/ \E c \in Clients : Client(c)
    \/ \E c \in Clients : interrupt(c)

Spec == Init /\ [][Next]_vars

\* The daemon's thread runs, a client in a call goes on, and somebody starts
\* the daemon.
Fairness ==
    /\ WF_vars(start) /\ WF_vars(select) /\ WF_vars(Visit) /\ WF_vars(reply)
    /\ \A c \in Clients : WF_vars(Client(c))

FairSpec == Spec /\ Fairness

-----------------------------------------------------------------------------
(* Properties.                                                             *)

\* A call reports success only if the daemon did, for this call, what it
\* reports: a client is not told of a load that never happened because the
\* daemon went away or answered another connection (send_and_recv_msg(),
\* dfxmgr_load(), process_dfx_req()).  The library takes the end of a
\* connection for a reply.
SuccessMeansDone ==
    \A c \in Clients \ Library :
        cl[c].res # NULL /\ cl[c].res.val = "ok" /\ cl[c].res.op # "quit"
            => cl[c].done = cl[c].res

\* Nobody is interrupted, and the daemon has a descriptor for every connection
\* its clients can make, so that it never exits.
KeepsRunning ==
    host.may_stop = {} /\ host.max_fds >= Cardinality(host.clients \X (1 .. MaxConns))

\* A request that names an ID of an old numbering is answered with the warning
\* (format_load_response(), DFX_RESP_PKG_DIRTY), if no other client has listed
\* the packages since.  The flag is in memory only: a daemon that was started
\* again does not warn, nor one that sent a listing to a client that was gone.
StaleIdWarned ==
    Cardinality(host.clients) = 1 /\ KeepsRunning =>
        \A r \in outbox :
            r.op \in {"load_id", "unload_id"} /\ r.stale => r.warn

\* With socket activation a call made before the daemon is there waits for it:
\* no call of the command line client is refused, nor ends without a reply
\* (main(), listen_fd_from_env()).  A program that links the library runs out of
\* descriptors, as it leaves every connection open.
NeverRefused ==
    Activated /\ KeepsRunning =>
    \A c \in Clients \ Library : cl[c].res # NULL =>
        /\ cl[c].res.val # "refused"
        /\ cl[c].res.op # "quit" => cl[c].done # NULL

\* Every call of the command line client returns, however busy the other
\* clients keep the daemon.
CallsReturn ==
    \A c \in Clients : cl[c].pc # "idle" /\ c \notin Library ~> cl[c].pc = "idle"

\* The daemon gives up the descriptor of every client that has gone, so that
\* only clients that exist use up its descriptors (process_dfx_req()).
GoneIsClosed ==
    \A k \in Conns : Accepted(k) /\ k \notin open ~> ~Accepted(k) \/ k \in open
=============================================================================
