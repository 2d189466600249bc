--------------------------- MODULE DfxMgrdProofs ---------------------------
(***************************************************************************)
(* Proofs about DfxMgrd: for any clients and hosts, the type invariant,    *)
(* SuccessMeansDone, NeverRefused and StaleIdWarned.                       *)
(*                                                                         *)
(* The argument is about what is under way on a connection: at most one    *)
(* request not read, one being answered, or one reply not read, and as     *)
(* long as the client end is open, it belongs to the call the client is    *)
(* in.  So a reply is never that of an earlier call, although connections  *)
(* get the numbers of closed ones and clients and daemon may stop at any   *)
(* point.                                                                  *)
(***************************************************************************)
EXTENDS DfxMgrd, FiniteSetTheorems, NaturalsInduction, TLAPS

-----------------------------------------------------------------------------
(* The inductive invariant.                                                *)

HostConns == host.clients \X (1 .. MaxConns)

ClientSet == [pc: {"idle", "connected", "waiting"}, conn: Conns \cup {NULL},
              op: Ops \cup {NULL}, res: Results \cup {NULL}, done: Results \cup {NULL},
              seen: Int]
Requests == [conn: HostConns, op: Ops, ver: Int, h: Nat]
HostServed == [conn: HostConns, op: Ops, val: {"ok", "error"}, h: Nat, ver: Int,
               stale: BOOLEAN]
Replies == [conn: HostConns, op: Ops, val: {"ok", "error"}, h: Nat, ver: Int,
            stale: BOOLEAN, warn: BOOLEAN]

\* What the variables hold, more closely than TypeOK says it.
Shape ==
    /\ host \in Hosts /\ up \in BOOLEAN /\ dirty \in BOOLEAN
    /\ backlog \in Seq(HostConns)
    /\ srv \in [Fds -> HostConns \cup {NULL}]
    /\ ready \subseteq Fds \cup {socket_d}
    /\ serving \in HostServed \cup {NULL}
    /\ open \subseteq HostConns
    /\ inbox \subseteq Requests
    /\ outbox \subseteq Replies
    /\ cl \in [Clients -> ClientSet]
    /\ loaded \subseteq Handles
    /\ version \in 0 .. host.max_changes

\* A connection has one descriptor or one place in the backlog.
OnePlace ==
    /\ \A i, j \in 1 .. Len(backlog) : backlog[i] = backlog[j] => i = j
    /\ \A f, g \in Fds : srv[f] # NULL /\ srv[f] = srv[g] => f = g
    /\ \A f \in Fds, i \in 1 .. Len(backlog) : srv[f] # backlog[i]

\* The descriptors to visit: the listening one only while somebody waits.
\* A daemon that is not running has none open.
Listening ==
    /\ socket_d \in ready => backlog # <<>>
    /\ ~up => ready = {} /\ \A f \in Fds : srv[f] = NULL

\* A client in a call has its connection open, one that is not has none.
InCall ==
    \A c \in Clients :
        IF cl[c].pc = "idle" THEN cl[c].conn = NULL
        ELSE /\ cl[c].conn \in open /\ cl[c].conn[1] = c
             /\ cl[c].res = NULL
             /\ cl[c].op \in Ops

\* Of the clients C, that of connection k waits for the reply to its call on k.
Waits(C, k) == C[k[1]].conn = k /\ C[k[1]].pc = "waiting"

\* Of the clients C, that of r is the one for whom r was done.
Answers(C, r) == C[r.conn[1]].done = [op |-> r.op, val |-> r.val, h |-> r.h]

RequestsOne ==
    /\ \A r, s \in inbox : r.conn = s.conn => r = s
    /\ \A r \in inbox : r.conn \in open =>
          /\ Waits(cl, r.conn)
          /\ r.op = cl[r.conn[1]].op /\ r.ver = cl[r.conn[1]].seen

ServingOne ==
    serving # NULL =>
        /\ Accepted(serving.conn)
        /\ \A r \in inbox : r.conn # serving.conn
        /\ serving.conn \in open => Waits(cl, serving.conn) /\ Answers(cl, serving)

RepliesOne ==
    /\ \A r, s \in outbox : r.conn = s.conn => r = s
    /\ \A r \in outbox :
          /\ r.conn \in open /\ Waits(cl, r.conn) /\ Answers(cl, r)
          /\ \A s \in inbox : s.conn # r.conn
          /\ serving # NULL => serving.conn # r.conn

CallInv ==
    /\ Shape /\ OnePlace /\ Listening /\ InCall
    /\ RequestsOne /\ ServingOne /\ RepliesOne /\ SuccessMeansDone

-----------------------------------------------------------------------------
(* While the daemon keeps running.                                         *)

\* The command line client has no connection but that of its call.
ClosesOwn ==
    \A c \in Clients \ Library, k \in open : k[1] = c => cl[c].conn = k

\* Connection k has one of the descriptors S or a place in the backlog B.
Lives(S, B, k) == (\E f \in DOMAIN S : S[f] = k) \/ \E i \in 1 .. Len(B) : B[i] = k

\* The daemon keeps the connection of a call, but for that of a quit it has
\* carried out.
KeepsConn ==
    \A c \in Clients \ Library : cl[c].pc # "idle" =>
        Lives(srv, backlog, cl[c].conn) \/ (cl[c].pc = "waiting" /\ cl[c].op = "quit")

RefusedInv == ClosesOwn /\ (Activated /\ KeepsRunning => KeepsConn /\ NeverRefused)

\* A listing that is current is on its way to the only client.
ListingSent ==
    \/ serving # NULL /\ serving.op = "list" /\ serving.ver = version
    \/ \E r \in outbox : r.op = "list" /\ r.ver = version

OneClient == Cardinality(host.clients) = 1 /\ KeepsRunning

\* What a client is in the middle of is on a connection it has open.
NoneLeft ==
    /\ \A r \in inbox : r.conn \in open
    /\ serving # NULL => serving.conn \in open

\* A client uses IDs it has read.
IdsListed ==
    \A c \in Clients : cl[c].pc # "idle" /\ allow_warn(cl[c].op) => cl[c].seen >= 0

\* Unless the flag is set, a client knows the numbering or is being told of it.
FlagSet ==
    \A c \in host.clients : dirty \/ cl[c].seen \in {-1, version} \/ ListingSent

\* Unless the flag is set, a listing on its way is current.
ListingsCurrent ==
    /\ \A r \in outbox : r.op = "list" => r.ver = version \/ dirty
    /\ serving # NULL /\ serving.op = "list" => serving.ver = version \/ dirty

\* Before the daemon has run, nobody has had a reply from it.
NoneYet ==
    ~up => outbox = {} /\ \A c \in host.clients : cl[c].seen = -1

\* The request being answered is one to warn about only if the flag is set.
ServingWarned ==
    serving # NULL /\ allow_warn(serving.op) /\ serving.stale => dirty

WarnInv ==
    /\ NoneLeft /\ FlagSet /\ ListingsCurrent /\ NoneYet
    /\ ServingWarned /\ StaleIdWarned

StaleInv == IdsListed /\ (OneClient => WarnInv)

-----------------------------------------------------------------------------
(* Constants, and what a connection's place is.                            *)

LEMMA HostFacts ==
    ASSUME host \in Hosts
    PROVE  /\ host.clients \subseteq Clients /\ host.calls \subseteq Ops
           /\ host.handles \subseteq Nat /\ host.max_fds \in Nat \ {0}
           /\ host.backlog \in Nat /\ host.max_changes \in Nat
           /\ MaxConns \in Nat \ {0} /\ NULL \notin Conns /\ NULL \notin Results
           /\ HostConns \subseteq Conns /\ Fds \subseteq Nat
           /\ socket_d \notin Fds /\ socket_d \in Nat
<1>1. /\ host \in Host /\ MaxConns \in Nat \ {0}
      /\ NULL \notin Conns /\ NULL \notin Results
  BY ServerAssumption
<1>2. /\ host.clients \subseteq Clients /\ host.calls \subseteq Ops
      /\ host.handles \subseteq Nat /\ host.max_fds \in Nat \ {0}
      /\ host.backlog \in Nat /\ host.max_changes \in Nat
  BY <1>1 DEF Host
<1>3. HostConns \subseteq Conns
  BY <1>2 DEF HostConns, Conns
<1>4. Fds \subseteq Nat /\ socket_d \notin Fds /\ socket_d \in Nat
  BY <1>2 DEF Fds, socket_d
<1> QED
  BY <1>1, <1>2, <1>3, <1>4

LEMMA SameHost ==
    ASSUME host' = host
    PROVE  /\ HostConns' = HostConns /\ Fds' = Fds /\ Handles' = Handles
           /\ Library' = Library /\ Activated' = Activated /\ Requests' = Requests
           /\ HostServed' = HostServed /\ Replies' = Replies
           /\ KeepsRunning' = KeepsRunning /\ OneClient' = OneClient
BY DEF HostConns, Fds, Handles, Library, Activated, Requests, HostServed, Replies,
       KeepsRunning, OneClient

LEMMA LowestIn ==
    ASSUME NEW S, S \subseteq Nat, S # {}
    PROVE  Lowest(S) \in S
<1> DEFINE R == {x \in Nat \X Nat : x[1] < x[2]}
<1>1. IsWellFoundedOn(R, Nat)
  BY NatLessThanWellFounded DEF OpToRel
<1>2. PICK n \in S : \A m \in S : ~(<<m, n>> \in R)
  <2> HIDE DEF R
  <2> QED
    BY <1>1, WFMin
<1>3. \A m \in S : n <= m
  <2> SUFFICES ASSUME NEW m \in S
               PROVE  n <= m
    OBVIOUS
  <2>1. m \in Nat /\ n \in Nat /\ <<m, n>> \in Nat \X Nat
    OBVIOUS
  <2>2. m < n => <<m, n>> \in R
    BY <2>1
  <2>3. ~(m < n)
    BY <1>2, <2>2, Zenon
  <2> QED
    BY <2>1, <2>3
<1>4. \E x \in S : \A m \in S : x <= m
  BY <1>3
<1> QED
  BY <1>4, Zenon DEF Lowest

\* The connections in the backlog.
LEMMA BacklogSet ==
    ASSUME Shape
    PROVE  /\ Len(backlog) \in Nat
           /\ ToSet(backlog) = {backlog[i] : i \in 1 .. Len(backlog)}
           /\ \A i \in 1 .. Len(backlog) : backlog[i] \in HostConns
<1>1. backlog \in Seq(HostConns)
  BY DEF Shape
<1>2. DOMAIN backlog = 1 .. Len(backlog)
  BY <1>1
<1> QED
  BY <1>1, <1>2 DEF ToSet

LEMMA ConnOfClient ==
    ASSUME host \in Hosts, NEW k \in HostConns
    PROVE  k[1] \in host.clients /\ k[1] \in Clients /\ k \in Conns /\ k # NULL
BY HostFacts DEF HostConns

-----------------------------------------------------------------------------
(* Steps in which the daemon answers nobody: what is under way may only    *)
(* become less.                                                            *)

LEMMA Fewer ==
    ASSUME CallInv, host' = host, cl' = cl, open' = open,
           inbox' \subseteq inbox, outbox' \subseteq outbox,
           serving' = NULL \/ (serving' = serving /\ srv' = srv)
    PROVE  (InCall /\ RequestsOne /\ ServingOne /\ RepliesOne /\ SuccessMeansDone)'
<1> USE SameHost
<1>1. InCall'
  BY DEF CallInv, InCall
<1>2. RequestsOne'
  BY DEF CallInv, RequestsOne, Waits
<1>3. ServingOne'
  BY DEF CallInv, ServingOne, Waits, Answers, Accepted
<1>4. RepliesOne'
  BY DEF CallInv, RepliesOne, Waits, Answers
<1>5. SuccessMeansDone'
  BY DEF CallInv, SuccessMeansDone
<1> QED
  BY <1>1, <1>2, <1>3, <1>4, <1>5

\* The daemon's descriptors and the backlog after it was started or ended.
LEMMA NoDescriptors ==
    ASSUME CallInv, host' = host, srv' = [f \in Fds |-> NULL], ready' = {},
           backlog' = backlog \/ backlog' = <<>>
    PROVE  (OnePlace /\ Listening)' /\ backlog' \in Seq(HostConns)
           /\ srv' \in [Fds -> HostConns \cup {NULL}]
<1>1. host \in Hosts /\ backlog \in Seq(HostConns)
  BY DEF CallInv, Shape
<1>2. backlog' \in Seq(HostConns)
  <2>1. <<>> \in Seq(HostConns)
    OBVIOUS
  <2>2. CASE backlog' = backlog
    BY <1>1, <2>2
  <2>3. CASE backlog' = <<>>
    BY <2>1, <2>3, Zenon
  <2> QED
    BY <2>2, <2>3
<1>3. srv' \in [Fds -> HostConns \cup {NULL}]
  OBVIOUS
<1>4. \A i \in 1 .. Len(backlog') : backlog'[i] # NULL
  BY <1>1, <1>2, ConnOfClient
<1>5. \A i, j \in 1 .. Len(backlog') : backlog'[i] = backlog'[j] => i = j
  BY DEF CallInv, OnePlace
<1>6. OnePlace'
  BY <1>4, <1>5, SameHost DEF OnePlace
<1>7. Listening'
  BY SameHost DEF Listening
<1> QED
  BY <1>2, <1>3, <1>6, <1>7

LEMMA StartCall == CallInv /\ start => CallInv'
<1> SUFFICES ASSUME CallInv, start
             PROVE  CallInv'
  OBVIOUS
<1>1. /\ host' = host /\ open' = open /\ inbox' = inbox /\ outbox' = outbox /\ cl' = cl
      /\ version' = version /\ up' = TRUE /\ serving' = NULL /\ loaded' = {}
      /\ dirty' = FALSE /\ srv' = [f \in Fds |-> NULL] /\ ready' = {}
      /\ backlog' = backlog \/ backlog' = <<>>
  BY DEF start, start_backlog
<1>2. (InCall /\ RequestsOne /\ ServingOne /\ RepliesOne /\ SuccessMeansDone)'
  BY <1>1, Fewer
<1>3. (OnePlace /\ Listening)' /\ backlog' \in Seq(HostConns)
      /\ srv' \in [Fds -> HostConns \cup {NULL}]
  BY <1>1, NoDescriptors
<1>4. Shape'
  BY <1>1, <1>3, SameHost DEF CallInv, Shape
<1> QED
  BY <1>2, <1>3, <1>4 DEF CallInv

LEMMA ExitCall ==
    ASSUME CallInv, Exit, UNCHANGED <<host, open, outbox, cl, tables>>
    PROVE  CallInv'
<1>1. /\ host' = host /\ open' = open /\ inbox' \subseteq inbox /\ outbox' = outbox
      /\ cl' = cl /\ version' = version /\ up' = FALSE /\ serving' = NULL
      /\ loaded' = loaded /\ dirty' = dirty
      /\ srv' = [f \in Fds |-> NULL] /\ ready' = {}
      /\ backlog' = backlog \/ backlog' = <<>>
  BY DEF Exit, tables
<1>2. (InCall /\ RequestsOne /\ ServingOne /\ RepliesOne /\ SuccessMeansDone)'
  BY <1>1, Fewer
<1>3. (OnePlace /\ Listening)' /\ backlog' \in Seq(HostConns)
      /\ srv' \in [Fds -> HostConns \cup {NULL}]
  BY <1>1, NoDescriptors
<1>4. Shape'
  BY <1>1, <1>3, SameHost DEF CallInv, Shape
<1> QED
  BY <1>2, <1>3, <1>4 DEF CallInv

LEMMA SelectCall == CallInv /\ select => CallInv'
<1> SUFFICES ASSUME CallInv, select
             PROVE  CallInv'
  OBVIOUS
<1>1. /\ host' = host /\ up' = up /\ backlog' = backlog /\ srv' = srv
      /\ serving' = serving /\ open' = open /\ inbox' = inbox /\ outbox' = outbox
      /\ cl' = cl /\ loaded' = loaded /\ version' = version /\ dirty' = dirty
      /\ up /\ ready' = Readable
  BY DEF select, tables
<1>2. (InCall /\ RequestsOne /\ ServingOne /\ RepliesOne /\ SuccessMeansDone)'
  BY <1>1, Fewer
<1>3. Readable \subseteq Fds \cup {socket_d} /\ (socket_d \in Readable => backlog # <<>>)
  <2>1. socket_d \notin Fds
    BY HostFacts DEF CallInv, Shape
  <2> QED
    BY <2>1 DEF Readable
<1>4. Shape'
  BY <1>1, <1>3, SameHost DEF CallInv, Shape
<1>5. (OnePlace /\ Listening)'
  BY <1>1, <1>3, SameHost DEF CallInv, OnePlace, Listening
<1> QED
  BY <1>2, <1>4, <1>5 DEF CallInv

LEMMA AcceptCall == CallInv /\ accept => CallInv'
<1> SUFFICES ASSUME CallInv, accept
             PROVE  CallInv'
  OBVIOUS
<1>1. CASE FreeFds = {}
  <2>1. Exit /\ UNCHANGED <<host, open, outbox, cl, tables>>
    BY <1>1 DEF accept
  <2> QED
    BY <2>1, ExitCall
<1>2. CASE FreeFds # {}
  <2> DEFINE f == Lowest(FreeFds)
             k == Head(backlog)
  <2>1. /\ host' = host /\ up' = up /\ serving' = serving /\ open' = open
        /\ inbox' = inbox /\ outbox' = outbox /\ cl' = cl /\ loaded' = loaded
        /\ version' = version /\ dirty' = dirty
        /\ srv' = [srv EXCEPT ![f] = k] /\ backlog' = Tail(backlog)
        /\ ready' = ready \ {socket_d}
        /\ serving = NULL /\ up /\ socket_d \in ready
    BY <1>2 DEF accept, tables, Rest, Visiting
  <2>2. host \in Hosts /\ backlog \in Seq(HostConns) /\ backlog # <<>>
        /\ srv \in [Fds -> HostConns \cup {NULL}]
    BY <2>1 DEF CallInv, Shape, Listening
  <2>3. f \in Fds /\ srv[f] = NULL
    <3>1. FreeFds \subseteq Nat
      BY <2>2, HostFacts DEF FreeFds
    <3>2. f \in FreeFds
      BY <1>2, <3>1, LowestIn
    <3> QED
      BY <3>2 DEF FreeFds
  <2> HIDE DEF f
  <2>4. /\ k = backlog[1] /\ k \in HostConns /\ Len(backlog) \in Nat /\ Len(backlog) >= 1
        /\ Tail(backlog) \in Seq(HostConns) /\ Len(Tail(backlog)) = Len(backlog) - 1
        /\ \A i \in 1 .. Len(Tail(backlog)) : Tail(backlog)[i] = backlog[i + 1]
    BY <2>2
  <2> HIDE DEF k
  <2>5. srv' \in [Fds -> HostConns \cup {NULL}]
    BY <2>1, <2>2, <2>3, <2>4
  <2>6. (InCall /\ RequestsOne /\ ServingOne /\ RepliesOne /\ SuccessMeansDone)'
    BY <2>1, Fewer
  <2>7. Shape'
    BY <2>1, <2>4, <2>5, SameHost DEF CallInv, Shape
  <2>8. OnePlace'
    <3>1. /\ \A i, j \in 1 .. Len(backlog) : backlog[i] = backlog[j] => i = j
          /\ \A g, h \in Fds : srv[g] # NULL /\ srv[g] = srv[h] => g = h
          /\ \A g \in Fds, i \in 1 .. Len(backlog) : srv[g] # backlog[i]
      BY DEF CallInv, OnePlace
    <3>2. \A i, j \in 1 .. Len(backlog') : backlog'[i] = backlog'[j] => i = j
      BY <2>1, <2>4, <3>1
    <3>3. \A g \in Fds : srv'[g] = IF g = f THEN k ELSE srv[g]
      BY <2>1, <2>2, <2>3
    <3>4. \A g, h \in Fds : srv'[g] # NULL /\ srv'[g] = srv'[h] => g = h
      BY <2>4, <3>1, <3>3
    <3>5. \A i \in 1 .. Len(backlog') : i + 1 \in 1 .. Len(backlog) /\ i + 1 # 1
                                        /\ backlog'[i] = backlog[i + 1]
      BY <2>1, <2>4
    <3>6. \A i \in 1 .. Len(backlog') : backlog'[i] # k
      BY <3>1, <3>5, <2>4
    <3>7. \A g \in Fds, i \in 1 .. Len(backlog') : srv'[g] # backlog'[i]
      BY <3>1, <3>3, <3>5, <3>6
    <3> QED
      BY <2>1, <3>2, <3>4, <3>7, SameHost DEF OnePlace
  <2>9. Listening'
    BY <2>1 DEF Listening
  <2> QED
    BY <2>6, <2>7, <2>8, <2>9 DEF CallInv
<1> QED
  BY <1>1, <1>2

\* A descriptor is closed.
LEMMA ClosedCall ==
    ASSUME CallInv, NEW f \in Fds, Visiting(f), srv' = closed(f), ready' = Rest(f),
           inbox' \subseteq inbox,
           UNCHANGED <<host, up, backlog, serving, open, outbox, cl, tables>>
    PROVE  CallInv'
<1>1. /\ host' = host /\ up' = up /\ backlog' = backlog /\ serving' = serving
      /\ open' = open /\ outbox' = outbox /\ cl' = cl /\ loaded' = loaded
      /\ version' = version /\ dirty' = dirty
      /\ srv' = [srv EXCEPT ![f] = NULL] /\ ready' = ready \ {f} /\ serving = NULL /\ up
  BY DEF tables, closed, Rest, Visiting
<1>2. host \in Hosts /\ srv \in [Fds -> HostConns \cup {NULL}]
  BY DEF CallInv, Shape
<1>3. \A g \in Fds : srv'[g] = IF g = f THEN NULL ELSE srv[g]
  BY <1>1, <1>2
<1>4. (InCall /\ RequestsOne /\ ServingOne /\ RepliesOne /\ SuccessMeansDone)'
  BY <1>1, Fewer
<1>5. Shape'
  <2>1. srv' \in [Fds -> HostConns \cup {NULL}]
    BY <1>1, <1>2
  <2> QED
    BY <1>1, <2>1, SameHost DEF CallInv, Shape
<1>6. OnePlace'
  <2>1. \A i \in 1 .. Len(backlog) : backlog[i] # NULL
    BY <1>2, BacklogSet, ConnOfClient DEF CallInv
  <2> QED
    BY <1>1, <1>3, <2>1, SameHost DEF CallInv, OnePlace
<1>7. Listening'
  BY <1>1 DEF CallInv, Listening
<1> QED
  BY <1>4, <1>5, <1>6, <1>7 DEF CallInv

LEMMA PackagesCall == CallInv /\ packages_change => CallInv'
<1> SUFFICES ASSUME CallInv, packages_change
             PROVE  CallInv'
  OBVIOUS
<1>1. /\ host' = host /\ up' = up /\ backlog' = backlog /\ srv' = srv /\ ready' = ready
      /\ serving' = serving /\ open' = open /\ inbox' = inbox /\ outbox' = outbox
      /\ cl' = cl /\ loaded' = loaded /\ version' = version + 1 /\ dirty' = TRUE
      /\ version < host.max_changes
  BY DEF packages_change, server
<1>2. (InCall /\ RequestsOne /\ ServingOne /\ RepliesOne /\ SuccessMeansDone)'
  BY <1>1, Fewer
<1>3. version' \in 0 .. host.max_changes
  BY <1>1, HostFacts DEF CallInv, Shape
<1>4. Shape'
  BY <1>1, <1>3, SameHost DEF CallInv, Shape
<1>5. (OnePlace /\ Listening)'
  BY <1>1, SameHost DEF CallInv, OnePlace, Listening
<1> QED
  BY <1>2, <1>4, <1>5 DEF CallInv

-----------------------------------------------------------------------------
(* Requests and replies.                                                   *)

\* What a request may come to.
LEMMA OutcomesTyped ==
    ASSUME Shape, NEW r \in Requests, NEW o \in Outcomes(r)
    PROVE  /\ o.val \in {"ok", "error"} /\ o.h \in Nat /\ o.loaded \subseteq Handles
           /\ o.version \in 0 .. host.max_changes /\ o.dirty \in BOOLEAN
           /\ o.version # version => o.dirty
           /\ r.op # "list" /\ dirty => o.dirty
           /\ r.op = "list" => o.version = version
<1> DEFINE Same(val) == [val |-> val, h |-> 0, loaded |-> loaded, version |-> version,
                         dirty |-> dirty]
           h == Lowest(Handles \ loaded)
           Loaded == [Same("ok") EXCEPT !.h = h, !.loaded = @ \cup {h}]
           User == [Loaded EXCEPT !.version = @ + 1, !.dirty = TRUE]
           Gone == [Same("ok") EXCEPT !.h = r.h, !.loaded = @ \ {r.h}]
           Listed == [Same("ok") EXCEPT !.dirty = FALSE]
<1>1. /\ loaded \subseteq Handles /\ Handles \subseteq Nat /\ dirty \in BOOLEAN
      /\ version \in 0 .. host.max_changes /\ host.max_changes \in Nat /\ r.h \in Nat
  BY HostFacts DEF Shape, Handles, Requests
<1>2. Handles # loaded => h \in Handles
  <2>1. Handles # loaded => Handles \ loaded # {} /\ Handles \ loaded \subseteq Nat
    BY <1>1
  <2> QED
    BY <2>1, LowestIn
<1> HIDE DEF h
<1>3. \/ o = Same("ok") \/ o = Same("error")
      \/ o = Loaded /\ Handles # loaded /\ r.op # "list"
      \/ o = User /\ Handles # loaded /\ version # host.max_changes /\ r.op # "list"
      \/ o = Gone /\ r.op # "list"
      \/ o = Listed /\ r.op = "list"
  <2>1. CASE r.op \in {"load", "load_id"}
    BY <2>1 DEF Outcomes, h
  <2>2. CASE r.op = "user_load"
    BY <2>2 DEF Outcomes, h
  <2>3. CASE r.op \in {"unload", "unload_id"}
    BY <2>3 DEF Outcomes, h
  <2>4. CASE r.op = "list"
    BY <2>4 DEF Outcomes, h
  <2>5. CASE r.op \notin {"load", "load_id", "user_load", "unload", "unload_id", "list"}
    BY <2>5 DEF Outcomes, h
  <2> QED
    BY <2>1, <2>2, <2>3, <2>4, <2>5
<1>4. CASE o = Same("ok") \/ o = Same("error")
  <2>1. /\ o.val \in {"ok", "error"} /\ o.h = 0 /\ o.loaded = loaded
        /\ o.version = version /\ o.dirty = dirty
    BY <1>4
  <2> QED
    BY <1>1, <2>1
<1>5. CASE o = Loaded /\ Handles # loaded /\ r.op # "list"
  BY <1>1, <1>2, <1>5
<1>6. CASE o = User /\ Handles # loaded /\ version # host.max_changes /\ r.op # "list"
  BY <1>1, <1>2, <1>6
<1>7. CASE o = Gone /\ r.op # "list"
  BY <1>1, <1>7
<1>8. CASE o = Listed /\ r.op = "list"
  BY <1>1, <1>8
<1> QED
  BY <1>3, <1>4, <1>5, <1>6, <1>7, <1>8

\* The descriptor f is read: request r is carried out with outcome o.  Its
\* client, if it still waits, is the one it was done for.
Carried(f, r, o) ==
    /\ r \in Requests /\ r.conn = srv[f] /\ r.op # "quit"
    /\ serving = NULL /\ up
    /\ inbox' = inbox \ {r} /\ ready' = ready \ {f}
    /\ loaded' = o.loaded /\ version' = o.version /\ dirty' = o.dirty
    /\ serving' = [conn |-> r.conn, op |-> r.op, val |-> o.val, h |-> o.h,
                   ver |-> version, stale |-> r.ver # version]
    /\ cl' \in [Clients -> ClientSet]
    /\ \A d \in Clients :
          /\ cl'[d].pc = cl[d].pc /\ cl'[d].conn = cl[d].conn
          /\ cl'[d].op = cl[d].op /\ cl'[d].res = cl[d].res
          /\ cl'[d].seen = cl[d].seen
          /\ IF r.conn = cl[d].conn /\ d = r.conn[1]
             THEN cl'[d].done = [op |-> r.op, val |-> o.val, h |-> o.h]
             ELSE cl'[d].done = cl[d].done
    /\ host' = host /\ up' = up /\ backlog' = backlog /\ srv' = srv
    /\ open' = open /\ outbox' = outbox

LEMMA ProcessFacts ==
    ASSUME CallInv, NEW f \in Fds, process_dfx_req(f)
    PROVE  \E r \in inbox : \E o \in Outcomes(r) : Carried(f, r, o)
<1>0. PICK r \in inbox : \E o \in Outcomes(r) :
        /\ r.conn = srv[f] /\ r.op # "quit" /\ inbox' = inbox \ {r}
        /\ loaded' = o.loaded /\ version' = o.version /\ dirty' = o.dirty
        /\ serving' = [conn |-> r.conn, op |-> r.op, val |-> o.val, h |-> o.h,
                       ver |-> version, stale |-> r.ver # version]
        /\ cl' = IF r.conn = cl[r.conn[1]].conn
                 THEN [cl EXCEPT ![r.conn[1]].done =
                          [op |-> r.op, val |-> o.val, h |-> o.h]]
                 ELSE cl
  BY DEF process_dfx_req
<1>1. PICK o \in Outcomes(r) :
        /\ r.conn = srv[f] /\ r.op # "quit" /\ inbox' = inbox \ {r}
        /\ loaded' = o.loaded /\ version' = o.version /\ dirty' = o.dirty
        /\ serving' = [conn |-> r.conn, op |-> r.op, val |-> o.val, h |-> o.h,
                       ver |-> version, stale |-> r.ver # version]
        /\ cl' = IF r.conn = cl[r.conn[1]].conn
                 THEN [cl EXCEPT ![r.conn[1]].done =
                          [op |-> r.op, val |-> o.val, h |-> o.h]]
                 ELSE cl
  BY <1>0
<1> DEFINE c == r.conn[1]
           D == [op |-> r.op, val |-> o.val, h |-> o.h]
<1>2. r \in Requests /\ host \in Hosts /\ cl \in [Clients -> ClientSet]
  BY DEF CallInv, Shape
<1>3. c \in Clients /\ r.op \in Ops
  BY <1>2, ConnOfClient DEF Requests
<1>4. D \in Results
  <2>1. o.val \in {"ok", "error"} /\ o.h \in Nat
    BY <1>2, OutcomesTyped DEF CallInv
  <2> QED
    BY <1>3, <2>1 DEF Results
<1>5. cl' = IF r.conn = cl[c].conn THEN [cl EXCEPT ![c].done = D] ELSE cl
  BY <1>1
<1> HIDE DEF c, D
<1>6. /\ cl' \in [Clients -> ClientSet]
      /\ \A d \in Clients :
            /\ cl'[d].pc = cl[d].pc /\ cl'[d].conn = cl[d].conn
            /\ cl'[d].op = cl[d].op /\ cl'[d].res = cl[d].res
            /\ cl'[d].seen = cl[d].seen
            /\ IF r.conn = cl[d].conn /\ d = c
               THEN cl'[d].done = D ELSE cl'[d].done = cl[d].done
  <2>1. CASE r.conn = cl[c].conn
    <3> DEFINE x == [cl[c] EXCEPT !.done = D]
    <3>1. /\ x \in ClientSet /\ x.pc = cl[c].pc /\ x.conn = cl[c].conn
          /\ x.op = cl[c].op /\ x.res = cl[c].res /\ x.seen = cl[c].seen /\ x.done = D
      BY <1>2, <1>3, <1>4 DEF ClientSet
    <3>2. cl' = [cl EXCEPT ![c] = x]
      BY <1>5, <2>1
    <3> HIDE DEF x
    <3>3. cl' \in [Clients -> ClientSet]
          /\ \A d \in Clients : cl'[d] = IF d = c THEN x ELSE cl[d]
      BY <1>2, <3>1, <3>2
    <3> QED
      BY <2>1, <3>1, <3>3
  <2>2. CASE r.conn # cl[c].conn
    BY <1>2, <1>5, <2>2
  <2> QED
    BY <2>1, <2>2
<1>7. /\ host' = host /\ up' = up /\ backlog' = backlog /\ srv' = srv /\ open' = open
      /\ outbox' = outbox /\ serving = NULL /\ up /\ ready' = ready \ {f}
  BY DEF process_dfx_req, Visiting, Rest
<1> QED
  BY <1>1, <1>2, <1>6, <1>7 DEF Carried, c, D

LEMMA ProcessCall ==
    ASSUME CallInv, NEW f \in Fds, process_dfx_req(f)
    PROVE  CallInv'
<1>0. PICK r \in inbox : \E o \in Outcomes(r) : Carried(f, r, o)
  BY ProcessFacts
<1>1. PICK o \in Outcomes(r) : Carried(f, r, o)
  BY <1>0
<1> USE DEF Carried
<1> DEFINE k == r.conn
           c == k[1]
           D == [op |-> r.op, val |-> o.val, h |-> o.h]
<1>2. /\ host \in Hosts /\ inbox \subseteq Requests /\ outbox \subseteq Replies
      /\ srv \in [Fds -> HostConns \cup {NULL}] /\ version \in Int
  BY DEF CallInv, Shape
<1>3. k \in HostConns /\ c \in Clients /\ k # NULL
  BY <1>1, <1>2, ConnOfClient DEF Requests
<1>4. /\ o.val \in {"ok", "error"} /\ o.h \in Nat /\ o.loaded \subseteq Handles
      /\ o.version \in 0 .. host.max_changes /\ o.dirty \in BOOLEAN
  BY <1>1, OutcomesTyped DEF CallInv
<1>5. \A s \in inbox : s.conn \in HostConns /\ s.conn[1] \in Clients
  BY <1>2, ConnOfClient DEF Requests
<1>6. \A s \in outbox : s.conn \in HostConns /\ s.conn[1] \in Clients
  BY <1>2, ConnOfClient DEF Replies
<1>7. /\ serving'.conn = k /\ serving'.op = r.op /\ serving'.val = o.val
      /\ serving'.h = o.h /\ serving' \in HostServed
  BY <1>1, <1>2, <1>3, <1>4 DEF HostServed, Requests
<1>8. Shape'
  BY <1>1, <1>4, <1>7, SameHost DEF CallInv, Shape
<1>9. OnePlace' /\ Listening'
  BY <1>1, SameHost DEF CallInv, OnePlace, Listening
<1>10. InCall'
  BY <1>1 DEF CallInv, InCall
<1>11. RequestsOne'
  BY <1>1, <1>5 DEF CallInv, RequestsOne, Waits
<1>12. ServingOne'
  <2>1. Accepted(k)'
    BY <1>1, SameHost DEF Accepted
  <2>2. \A s \in inbox' : s.conn # k
    BY <1>1 DEF CallInv, RequestsOne
  <2>3. k \in open => Waits(cl', k) /\ cl'[c].done = D
    BY <1>1, <1>3 DEF CallInv, RequestsOne, Waits
  <2> HIDE DEF k
  <2>4. k \in open' => Waits(cl', serving'.conn) /\ Answers(cl', serving')
    BY <1>1, <1>7, <2>3 DEF Waits, Answers
  <2> QED
    BY <1>7, <2>1, <2>2, <2>4 DEF ServingOne
<1>13. RepliesOne'
  <2>1. \A s \in outbox : s.conn # k
    BY DEF CallInv, RepliesOne
  <2>2. \A s \in outbox : Waits(cl, s.conn) /\ Answers(cl, s) /\ s.conn \in open
                          /\ \A q \in inbox : q.conn # s.conn
    BY DEF CallInv, RepliesOne
  <2>3. \A s \in outbox : Waits(cl', s.conn) /\ Answers(cl', s)
    <3> SUFFICES ASSUME NEW s \in outbox
                 PROVE  Waits(cl', s.conn) /\ Answers(cl', s)
      OBVIOUS
    <3> DEFINE d == s.conn[1]
    <3>1. cl[d].conn = s.conn /\ cl[d].pc = "waiting" /\ d \in Clients
      BY <1>6, <2>2 DEF Waits
    <3>2. cl'[d].conn = cl[d].conn /\ cl'[d].pc = cl[d].pc /\ cl'[d].done = cl[d].done
      BY <1>1, <2>1, <3>1
    <3> QED
      BY <2>2, <3>1, <3>2 DEF Waits, Answers
  <2>4. \A s, t \in outbox : s.conn = t.conn => s = t
    BY DEF CallInv, RepliesOne
  <2> HIDE DEF k
  <2> QED
    BY <1>1, <1>7, <2>1, <2>2, <2>3, <2>4 DEF RepliesOne
<1>14. SuccessMeansDone'
  <2> SUFFICES ASSUME NEW d \in Clients \ Library,
                      cl'[d].res # NULL, cl'[d].res.val = "ok", cl'[d].res.op # "quit"
               PROVE  cl'[d].done = cl'[d].res
    BY <1>1, SameHost DEF SuccessMeansDone
  <2>1. cl[d].conn = NULL
    BY <1>1 DEF CallInv, InCall
  <2> QED
    BY <1>1, <1>3, <2>1 DEF CallInv, SuccessMeansDone
<1> QED
  BY <1>8, <1>9, <1>10, <1>11, <1>12, <1>13, <1>14 DEF CallInv

LEMMA ReplyCall == CallInv /\ reply => CallInv'
<1> SUFFICES ASSUME CallInv, reply
             PROVE  CallInv'
  OBVIOUS
<1> DEFINE k == serving.conn
           q == [conn |-> serving.conn, op |-> serving.op, val |-> serving.val,
                 h |-> serving.h, ver |-> serving.ver, stale |-> serving.stale,
                 warn |-> allow_warn(serving.op) /\ dirty]
<1>1. /\ host' = host /\ up' = up /\ backlog' = backlog /\ srv' = srv /\ ready' = ready
      /\ open' = open /\ inbox' = inbox /\ cl' = cl /\ loaded' = loaded
      /\ version' = version /\ dirty' = dirty /\ serving' = NULL /\ serving # NULL
      /\ outbox' = IF k \in open THEN outbox \cup {q} ELSE outbox
  BY DEF reply, tables
<1>2. serving \in HostServed /\ dirty \in BOOLEAN
  BY <1>1 DEF CallInv, Shape
<1>3. /\ q \in Replies /\ q.conn = k /\ q.op = serving.op /\ q.val = serving.val
      /\ q.h = serving.h
  BY <1>2 DEF HostServed, Replies, allow_warn
<1> HIDE DEF q
<1>4. Shape'
  BY <1>1, <1>3, SameHost DEF CallInv, Shape
<1>5. OnePlace' /\ Listening'
  BY <1>1, SameHost DEF CallInv, OnePlace, Listening
<1>6. InCall' /\ RequestsOne' /\ ServingOne' /\ SuccessMeansDone'
  BY <1>1, SameHost
     DEF CallInv, InCall, RequestsOne, ServingOne, SuccessMeansDone, Waits
<1>7. RepliesOne'
  <2>1. /\ \A s \in inbox : s.conn # k
        /\ k \in open => Waits(cl, k) /\ Answers(cl, serving)
    BY <1>1 DEF CallInv, ServingOne
  <2>2. \A s \in outbox : s.conn # k
    BY <1>1 DEF CallInv, RepliesOne
  <2>3. \A s \in outbox' : \/ s \in outbox
                           \/ s = q /\ k \in open
    BY <1>1
  <2>4. \A s, t \in outbox' : s.conn = t.conn => s = t
    BY <1>3, <2>2, <2>3 DEF CallInv, RepliesOne
  <2>5. k \in open => Waits(cl', q.conn) /\ Answers(cl', q)
    BY <1>1, <1>3, <2>1 DEF Waits, Answers
  <2>6. \A s \in outbox : Waits(cl', s.conn) /\ Answers(cl', s)
    BY <1>1 DEF CallInv, RepliesOne, Waits, Answers
  <2>7. \A s \in outbox' : s.conn \in open /\ \A r \in inbox : r.conn # s.conn
    BY <1>3, <2>1, <2>3 DEF CallInv, RepliesOne
  <2> QED
    BY <1>1, <2>3, <2>4, <2>5, <2>6, <2>7 DEF RepliesOne
<1> QED
  BY <1>4, <1>5, <1>6, <1>7 DEF CallInv

-----------------------------------------------------------------------------
(* Steps of a client.                                                      *)

\* Client c is in no call any more, and what is still under way on connections
\* it has open is not on the one it used.
LEMMA CallEnds ==
    ASSUME CallInv, NEW c \in Clients,
           host' = host, up' = up, backlog' = backlog, srv' = srv, ready' = ready,
           serving' = serving, loaded' = loaded, version' = version, dirty' = dirty,
           cl' \in [Clients -> ClientSet],
           \A d \in Clients : d # c => cl'[d] = cl[d],
           cl'[c].pc = "idle", cl'[c].conn = NULL,
           open' \subseteq open, \A k \in open : k \in open' \/ k[1] = c,
           inbox' \subseteq inbox, outbox' \subseteq outbox,
           \A r \in inbox' : r.conn \in open' => r.conn # cl[c].conn,
           \A r \in outbox' : r.conn \in open' /\ r.conn # cl[c].conn,
           serving # NULL /\ serving.conn \in open' => serving.conn # cl[c].conn,
           c \notin Library /\ cl'[c].res # NULL /\ cl'[c].res.val = "ok"
              /\ cl'[c].res.op # "quit" => cl'[c].done = cl'[c].res
    PROVE  CallInv'
<1>1. /\ host \in Hosts /\ inbox \subseteq Requests /\ outbox \subseteq Replies
      /\ serving \in HostServed \cup {NULL}
  BY DEF CallInv, Shape
<1>2. /\ \A r \in inbox : r.conn \in HostConns /\ r.conn[1] \in Clients
      /\ \A r \in outbox : r.conn \in HostConns /\ r.conn[1] \in Clients
      /\ serving # NULL => serving.conn \in HostConns /\ serving.conn[1] \in Clients
  BY <1>1, ConnOfClient DEF Requests, Replies, HostServed
<1>3. Shape'
  BY SameHost DEF CallInv, Shape
<1>4. (OnePlace /\ Listening)'
  BY SameHost DEF CallInv, OnePlace, Listening
<1>5. InCall'
  BY DEF CallInv, InCall
<1>6. \A k \in open' : k[1] \in Clients /\ k # cl[c].conn /\ Waits(cl, k) =>
                          k[1] # c /\ Waits(cl', k) /\ cl'[k[1]] = cl[k[1]]
  BY DEF Waits
<1>7. RequestsOne'
  <2>1. \A r \in inbox' : r.conn \in open' =>
           /\ Waits(cl', r.conn) /\ cl'[r.conn[1]] = cl[r.conn[1]]
           /\ r.op = cl[r.conn[1]].op /\ r.ver = cl[r.conn[1]].seen
    BY <1>2, <1>6 DEF CallInv, RequestsOne
  <2> QED
    BY <2>1 DEF CallInv, RequestsOne
<1>8. ServingOne'
  <2>1. serving # NULL /\ serving.conn \in open' =>
           /\ Waits(cl', serving.conn)
           /\ cl'[serving.conn[1]] = cl[serving.conn[1]] /\ Answers(cl, serving)
    BY <1>2, <1>6 DEF CallInv, ServingOne
  <2>2. serving # NULL => Accepted(serving.conn)' /\ \A r \in inbox' : r.conn # serving.conn
    BY SameHost DEF CallInv, ServingOne, Accepted
  <2> QED
    BY <2>1, <2>2 DEF ServingOne, Answers
<1>9. RepliesOne'
  <2>1. \A r \in outbox' : /\ Waits(cl', r.conn) /\ cl'[r.conn[1]] = cl[r.conn[1]]
                           /\ Answers(cl, r)
    BY <1>2, <1>6 DEF CallInv, RepliesOne
  <2>2. \A r \in outbox' : Waits(cl', r.conn) /\ Answers(cl', r)
    BY <2>1 DEF Answers
  <2> QED
    BY <2>2 DEF CallInv, RepliesOne
<1>10. SuccessMeansDone'
  BY SameHost DEF CallInv, SuccessMeansDone
<1> QED
  BY <1>3, <1>4, <1>5, <1>7, <1>8, <1>9, <1>10 DEF CallInv

LEMMA ClientBecomes ==
    ASSUME cl \in [Clients -> ClientSet], NEW c \in Clients, NEW x \in ClientSet,
           cl' = [cl EXCEPT ![c] = x]
    PROVE  /\ cl' \in [Clients -> ClientSet] /\ cl'[c] = x
           /\ \A d \in Clients : d # c => cl'[d] = cl[d]
OBVIOUS

\* What Return() and a reply make of client c.
LEMMA Returned ==
    ASSUME cl \in [Clients -> ClientSet], NEW c \in Clients, NEW n \in Int,
           NEW R \in Results,
           cl' = [cl EXCEPT ![c].pc = "idle", ![c].conn = NULL, ![c].op = NULL,
                            ![c].seen = n, ![c].res = R]
    PROVE  /\ cl' \in [Clients -> ClientSet]
           /\ \A d \in Clients : d # c => cl'[d] = cl[d]
           /\ cl'[c].pc = "idle" /\ cl'[c].conn = NULL /\ cl'[c].res = R
           /\ cl'[c].done = cl[c].done /\ cl'[c].seen = n
<1> DEFINE x == [cl[c] EXCEPT !.pc = "idle", !.conn = NULL, !.op = NULL, !.seen = n,
                              !.res = R]
<1>1. /\ x \in ClientSet /\ x.pc = "idle" /\ x.conn = NULL /\ x.res = R
      /\ x.done = cl[c].done /\ x.seen = n
  BY DEF ClientSet
<1>2. cl' = [cl EXCEPT ![c] = x]
  OBVIOUS
<1> HIDE DEF x
<1>3. /\ cl' \in [Clients -> ClientSet] /\ cl'[c] = x
      /\ \A d \in Clients : d # c => cl'[d] = cl[d]
  BY <1>1, <1>2, ClientBecomes, Zenon
<1> QED
  BY <1>1, <1>3, Zenon

LEMMA ReturnFacts ==
    ASSUME cl \in [Clients -> ClientSet], NEW c \in Clients, NEW op \in Ops,
           NEW val \in {"ok", "error", "refused"}, Return(c, op, val, 0)
    PROVE  /\ cl' \in [Clients -> ClientSet]
           /\ \A d \in Clients : d # c => cl'[d] = cl[d]
           /\ cl'[c].pc = "idle" /\ cl'[c].conn = NULL
           /\ cl'[c].res = [op |-> op, val |-> val, h |-> 0]
           /\ cl'[c].done = cl[c].done /\ cl'[c].seen = cl[c].seen
           /\ open' = IF c \in Library THEN open ELSE open \ {cl[c].conn}
<1> DEFINE R == [op |-> op, val |-> val, h |-> 0]
<1>1. R \in Results
  BY DEF Results
<1>2. cl[c].seen \in Int
  BY DEF ClientSet
<1>3. cl' = [cl EXCEPT ![c].pc = "idle", ![c].conn = NULL, ![c].op = NULL,
                       ![c].seen = cl[c].seen, ![c].res = R]
  <2>1. cl' = [cl EXCEPT ![c].pc = "idle", ![c].conn = NULL, ![c].op = NULL,
                         ![c].res = R]
    BY DEF Return
  <2> HIDE DEF R
  <2> QED
    BY <2>1 DEF ClientSet
<1>4. open' = IF c \in Library THEN open ELSE open \ {cl[c].conn}
  BY DEF Return
<1> HIDE DEF R
<1>5. /\ cl' \in [Clients -> ClientSet]
      /\ \A d \in Clients : d # c => cl'[d] = cl[d]
      /\ cl'[c].pc = "idle" /\ cl'[c].conn = NULL /\ cl'[c].res = R
      /\ cl'[c].done = cl[c].done /\ cl'[c].seen = cl[c].seen
  BY <1>1, <1>2, <1>3, Returned
<1> QED
  BY <1>4, <1>5 DEF R

\* The client of connection k, given that it has it.
LEMMA OwnConn ==
    ASSUME CallInv, NEW c \in Clients, cl[c].pc # "idle"
    PROVE  /\ cl[c].conn \in open /\ cl[c].conn \in HostConns /\ cl[c].conn[1] = c
           /\ cl[c].op \in Ops /\ cl[c].res = NULL /\ cl[c].seen \in Int
           /\ cl[c].pc # "waiting" =>
                 /\ \A r \in inbox : r.conn # cl[c].conn
                 /\ \A r \in outbox : r.conn # cl[c].conn
                 /\ serving # NULL => serving.conn # cl[c].conn
<1>1. /\ cl[c].conn \in open /\ cl[c].conn[1] = c /\ cl[c].op \in Ops /\ cl[c].res = NULL
      /\ open \subseteq HostConns
  BY DEF CallInv, InCall, Shape
<1>2. cl[c].seen \in Int
  BY DEF CallInv, Shape, ClientSet
<1>3. cl[c].pc # "waiting" => ~Waits(cl, cl[c].conn)
  BY <1>1 DEF Waits
<1>4. cl[c].pc # "waiting" =>
                 /\ \A r \in inbox : r.conn # cl[c].conn
                 /\ \A r \in outbox : r.conn # cl[c].conn
                 /\ serving # NULL => serving.conn # cl[c].conn
  BY <1>1, <1>3 DEF CallInv, RequestsOne, RepliesOne, ServingOne
<1> QED
  BY <1>1, <1>2, <1>4

LEMMA EofCall ==
    ASSUME CallInv, NEW c \in Clients, recv_eof(c)
    PROVE  CallInv'
<1> DEFINE k == cl[c].conn
           unread == {r \in inbox : r.conn = k}
<1>1. /\ host' = host /\ up' = up /\ backlog' = backlog /\ srv' = srv /\ ready' = ready
      /\ serving' = serving /\ outbox' = outbox /\ loaded' = loaded
      /\ version' = version /\ dirty' = dirty
      /\ cl[c].pc = "waiting" /\ ~Alive(k) /\ (\A r \in outbox : r.conn # k)
      /\ inbox' = inbox \ unread
  BY DEF recv_eof, server, tables
<1>2. PICK val \in {"ok", "error"} :
         Return(c, cl[c].op, val, 0) /\ (c \notin Library => val = "error")
  BY DEF recv_eof, OutcomesOfEof
<1>3. /\ k \in open /\ k[1] = c /\ cl[c].op \in Ops /\ cl \in [Clients -> ClientSet]
  BY <1>1, OwnConn DEF CallInv, Shape
<1>4. /\ cl' \in [Clients -> ClientSet]
      /\ \A d \in Clients : d # c => cl'[d] = cl[d]
      /\ cl'[c].pc = "idle" /\ cl'[c].conn = NULL
      /\ cl'[c].res = [op |-> cl[c].op, val |-> val, h |-> 0]
      /\ open' = IF c \in Library THEN open ELSE open \ {cl[c].conn}
  <2>1. val \in {"ok", "error", "refused"} /\ Return(c, cl[c].op, val, 0)
    BY <1>2
  <2>2. cl \in [Clients -> ClientSet] /\ cl[c].op \in Ops
    BY <1>3
  <2> HIDE DEF k
  <2> QED
    BY <2>1, <2>2, ReturnFacts
<1>5. serving # NULL => serving.conn # k
  BY <1>1 DEF CallInv, ServingOne, Alive
<1>6. \A r \in inbox' : r.conn # k
  BY <1>1
<1>7. c \notin Library => cl'[c].res.val # "ok"
  BY <1>2, <1>4
<1>8. open' \subseteq open /\ \A j \in open : j \in open' \/ j[1] = c
  BY <1>3, <1>4
<1>9. \A r \in outbox : r.conn \in open'
  BY <1>1, <1>4 DEF CallInv, RepliesOne
<1> HIDE DEF k
<1> QED
  BY <1>1, <1>4, <1>5, <1>6, <1>7, <1>8, <1>9, CallEnds DEF k

LEMMA SendCall ==
    ASSUME CallInv, NEW c \in Clients, NEW h \in Handles, send_msg(c, h)
    PROVE  CallInv'
<1> DEFINE k == cl[c].conn
           q == [conn |-> k, op |-> cl[c].op, ver |-> cl[c].seen, h |-> h]
<1>1. /\ host' = host /\ up' = up /\ backlog' = backlog /\ srv' = srv /\ ready' = ready
      /\ serving' = serving /\ outbox' = outbox /\ loaded' = loaded
      /\ version' = version /\ dirty' = dirty /\ cl[c].pc = "connected"
  BY DEF send_msg, server, tables
<1>2. /\ k \in open /\ k[1] = c /\ cl[c].op \in Ops /\ cl[c].seen \in Int
      /\ k \in HostConns /\ cl[c].res = NULL
      /\ \A r \in inbox : r.conn # k
      /\ \A r \in outbox : r.conn # k
      /\ serving # NULL => serving.conn # k
  BY <1>1, OwnConn
<1>3. /\ host \in Hosts /\ cl \in [Clients -> ClientSet] /\ h \in Nat
      /\ inbox \subseteq Requests /\ outbox \subseteq Replies
      /\ serving \in HostServed \cup {NULL}
  BY HostFacts DEF CallInv, Shape, Handles
<1>4. CASE Alive(k)
  <2>1. /\ inbox' = inbox \cup {q} /\ open' = open
        /\ cl' = [cl EXCEPT ![c].pc = "waiting"]
    BY <1>4 DEF send_msg
  <2>2. q \in Requests /\ q.conn = k /\ q.op = cl[c].op /\ q.ver = cl[c].seen
    BY <1>2, <1>3 DEF Requests
  <2>3. /\ cl' \in [Clients -> ClientSet]
        /\ \A d \in Clients :
              /\ cl'[d].conn = cl[d].conn /\ cl'[d].op = cl[d].op
              /\ cl'[d].res = cl[d].res /\ cl'[d].done = cl[d].done
              /\ cl'[d].seen = cl[d].seen
              /\ cl'[d].pc = IF d = c THEN "waiting" ELSE cl[d].pc
    <3> DEFINE x == [cl[c] EXCEPT !.pc = "waiting"]
    <3>1. /\ x \in ClientSet /\ x.conn = cl[c].conn /\ x.op = cl[c].op
          /\ x.res = cl[c].res /\ x.done = cl[c].done /\ x.seen = cl[c].seen
          /\ x.pc = "waiting"
      BY <1>3 DEF ClientSet
    <3>2. cl' = [cl EXCEPT ![c] = x]
      BY <2>1
    <3> HIDE DEF x
    <3> QED
      BY <1>3, <3>1, <3>2
  <2> HIDE DEF q, k
  <2>4. Shape'
    BY <1>1, <2>1, <2>2, <2>3, SameHost DEF CallInv, Shape
  <2>5. (OnePlace /\ Listening)'
    BY <1>1, SameHost DEF CallInv, OnePlace, Listening
  <2>6. InCall'
    BY <1>1, <1>2, <2>1, <2>3 DEF CallInv, InCall, k
  <2>7. \A j \in HostConns : Waits(cl, j) => Waits(cl', j)
    BY <1>3, <2>3, ConnOfClient DEF Waits
  <2>8. \A r : r.conn \in HostConns /\ Answers(cl, r) => Answers(cl', r)
    BY <1>3, <2>3, ConnOfClient DEF Answers
  <2>9. RequestsOne'
    <3>1. \A r, t \in inbox' : r.conn = t.conn => r = t
      BY <1>2, <2>1, <2>2 DEF CallInv, RequestsOne
    <3>2. \A r \in inbox : r.conn \in HostConns /\ r.conn[1] \in Clients
      BY <1>3, ConnOfClient DEF Requests
    <3>3. \A r \in inbox : r.conn \in open =>
             /\ Waits(cl', r.conn)
             /\ r.op = cl'[r.conn[1]].op /\ r.ver = cl'[r.conn[1]].seen
      BY <3>2, <2>3, <2>7 DEF CallInv, RequestsOne
    <3>4. Waits(cl', k) /\ q.op = cl'[k[1]].op /\ q.ver = cl'[k[1]].seen
      BY <1>2, <2>2, <2>3 DEF Waits, k
    <3> QED
      BY <2>1, <2>2, <3>1, <3>3, <3>4 DEF RequestsOne
  <2>10. ServingOne'
    <3>1. serving # NULL => serving.conn \in HostConns
      BY <1>3 DEF HostServed
    <3>2. serving # NULL => Accepted(serving.conn)'
      BY <1>1, SameHost DEF CallInv, ServingOne, Accepted
    <3>3. serving # NULL => \A r \in inbox' : r.conn # serving.conn
      BY <1>2, <2>1, <2>2 DEF CallInv, ServingOne
    <3>4. serving # NULL /\ serving.conn \in open =>
             Waits(cl', serving.conn) /\ Answers(cl', serving)
      BY <2>7, <2>8, <3>1 DEF CallInv, ServingOne
    <3> QED
      BY <1>1, <2>1, <3>2, <3>3, <3>4 DEF ServingOne
  <2>11. RepliesOne'
    <3>1. \A r \in outbox : r.conn \in HostConns
      BY <1>3 DEF Replies
    <3>2. \A r \in outbox : Waits(cl', r.conn) /\ Answers(cl', r)
      BY <2>7, <2>8, <3>1 DEF CallInv, RepliesOne
    <3> QED
      BY <1>1, <1>2, <2>1, <2>2, <3>2 DEF CallInv, RepliesOne
  <2>12. SuccessMeansDone'
    BY <1>1, <2>3, SameHost DEF CallInv, SuccessMeansDone
  <2> QED
    BY <2>4, <2>5, <2>6, <2>9, <2>10, <2>11, <2>12 DEF CallInv
<1>5. CASE ~Alive(k)
  <2>1. Return(c, cl[c].op, "error", 0) /\ inbox' = inbox
    BY <1>5 DEF send_msg
  <2>2. /\ cl' \in [Clients -> ClientSet]
        /\ \A d \in Clients : d # c => cl'[d] = cl[d]
        /\ cl'[c].pc = "idle" /\ cl'[c].conn = NULL
        /\ cl'[c].res = [op |-> cl[c].op, val |-> "error", h |-> 0]
        /\ open' = IF c \in Library THEN open ELSE open \ {cl[c].conn}
    BY <1>2, <1>3, <2>1, ReturnFacts
  <2>3. cl'[c].res.val # "ok"
    BY <2>2
  <2>4. open' \subseteq open /\ \A j \in open : j \in open' \/ j[1] = c
    BY <1>2, <2>2
  <2>5. \A r \in outbox : r.conn \in open'
    BY <1>2, <2>2 DEF CallInv, RepliesOne
  <2> HIDE DEF k
  <2> QED
    BY <1>1, <1>2, <2>1, <2>2, <2>3, <2>4, <2>5, CallEnds DEF k
<1> QED
  BY <1>4, <1>5

\* The reply r that client c reads, and the client after it.
Reads(c, r) ==
    /\ r \in Replies /\ r.conn = cl[c].conn /\ outbox' = outbox \ {r}
    /\ cl' \in [Clients -> ClientSet]
    /\ \A d \in Clients : d # c => cl'[d] = cl[d]
    /\ cl'[c].pc = "idle" /\ cl'[c].conn = NULL
    /\ cl'[c].res = [op |-> r.op, val |-> r.val, h |-> r.h]
    /\ cl'[c].done = cl[c].done
    /\ cl'[c].seen = IF r.op = "list" THEN r.ver ELSE cl[c].seen

LEMMA ReadFacts ==
    ASSUME CallInv, NEW c \in Clients, recv_msg(c)
    PROVE  \E r \in outbox : Reads(c, r)
<1>1. PICK r \in outbox :
        /\ r.conn = cl[c].conn /\ outbox' = outbox \ {r}
        /\ cl' = [cl EXCEPT ![c].pc = "idle", ![c].conn = NULL, ![c].op = NULL,
                            ![c].seen = IF r.op = "list" THEN r.ver ELSE @,
                            ![c].res = [op |-> r.op, val |-> r.val, h |-> r.h]]
  BY DEF recv_msg
<1> DEFINE R == [op |-> r.op, val |-> r.val, h |-> r.h]
           n == IF r.op = "list" THEN r.ver ELSE cl[c].seen
<1>2. r \in Replies /\ cl \in [Clients -> ClientSet]
  BY DEF CallInv, Shape
<1>3. R \in Results /\ n \in Int
  BY <1>2 DEF Replies, Results, ClientSet
<1>4. cl' = [cl EXCEPT ![c].pc = "idle", ![c].conn = NULL, ![c].op = NULL,
                       ![c].seen = n, ![c].res = R]
  BY <1>1, <1>2 DEF ClientSet
<1> HIDE DEF R, n
<1>5. /\ cl' \in [Clients -> ClientSet]
      /\ \A d \in Clients : d # c => cl'[d] = cl[d]
      /\ cl'[c].pc = "idle" /\ cl'[c].conn = NULL /\ cl'[c].res = R
      /\ cl'[c].done = cl[c].done /\ cl'[c].seen = n
  BY <1>2, <1>3, <1>4, Returned
<1> QED
  BY <1>1, <1>2, <1>5 DEF Reads, R, n

LEMMA ReadCall ==
    ASSUME CallInv, NEW c \in Clients, recv_msg(c)
    PROVE  CallInv'
<1>1. PICK r \in outbox : Reads(c, r)
  BY ReadFacts
<1> USE DEF Reads
<1> DEFINE k == cl[c].conn
<1>2. /\ host' = host /\ up' = up /\ backlog' = backlog /\ srv' = srv /\ ready' = ready
      /\ serving' = serving /\ inbox' = inbox /\ loaded' = loaded
      /\ version' = version /\ dirty' = dirty /\ cl[c].pc = "waiting"
      /\ open' = IF c \in Library THEN open ELSE open \ {k}
  BY DEF recv_msg, server, tables
<1>3. k \in open /\ k[1] = c
  BY <1>2, OwnConn
<1>4. /\ \A s \in inbox : s.conn # k
      /\ serving # NULL => serving.conn # k
      /\ \A s \in outbox' : s.conn # k /\ s.conn \in open'
  BY <1>1, <1>2 DEF CallInv, RepliesOne
<1>5. cl'[c].done = cl'[c].res
  <2>1. cl[c].done = [op |-> r.op, val |-> r.val, h |-> r.h]
    BY <1>1, <1>3 DEF CallInv, RepliesOne, Answers
  <2> QED
    BY <1>1, <2>1
<1>6. open' \subseteq open /\ \A j \in open : j \in open' \/ j[1] = c
  BY <1>2, <1>3
<1> HIDE DEF k
<1> QED
  BY <1>1, <1>2, <1>4, <1>5, <1>6, CallEnds DEF k

LEMMA InterruptCall ==
    ASSUME CallInv, NEW c \in Clients, interrupt(c)
    PROVE  CallInv'
<1> DEFINE x == [Idle EXCEPT !.seen = cl[c].seen]
<1>1. /\ host' = host /\ up' = up /\ backlog' = backlog /\ srv' = srv /\ ready' = ready
      /\ serving' = serving /\ loaded' = loaded /\ version' = version /\ dirty' = dirty
      /\ open' = {k \in open : k[1] # c}
      /\ outbox' = {r \in outbox : r.conn[1] # c}
      /\ inbox' = {r \in inbox : r.conn[1] # c \/ Alive(r.conn)}
      /\ cl' = [cl EXCEPT ![c] = x]
  BY DEF interrupt, server, tables
<1>2. cl \in [Clients -> ClientSet] /\ cl[c].seen \in Int
  BY DEF CallInv, Shape, ClientSet
<1>3. x \in ClientSet /\ x.pc = "idle" /\ x.conn = NULL /\ x.res = NULL
  BY <1>2 DEF ClientSet, Idle
<1> HIDE DEF x
<1>4. cl' \in [Clients -> ClientSet] /\ cl'[c] = x
      /\ \A d \in Clients : d # c => cl'[d] = cl[d]
  BY <1>1, <1>2, <1>3, ClientBecomes
<1>5. cl[c].conn # NULL => cl[c].conn[1] = c
  BY DEF CallInv, InCall
<1>6. \A k \in open' : k # cl[c].conn
  <2>1. \A k \in open : k # NULL
    BY ConnOfClient DEF CallInv, Shape
  <2> QED
    BY <1>1, <1>5, <2>1
<1>7. \A r \in outbox' : r.conn \in open'
  BY <1>1 DEF CallInv, RepliesOne
<1>8. open' \subseteq open /\ (\A j \in open : j \in open' \/ j[1] = c)
      /\ inbox' \subseteq inbox /\ outbox' \subseteq outbox
  BY <1>1
<1> QED
  BY <1>1, <1>3, <1>4, <1>6, <1>7, <1>8, CallEnds

\* Where a call cannot connect it fails, and nothing else changes.
RefusedCall(c, op) ==
    /\ cl' \in [Clients -> ClientSet] /\ (\A d \in Clients : d # c => cl'[d] = cl[d])
    /\ cl'[c].pc = "idle" /\ cl'[c].conn = NULL /\ cl'[c].seen = cl[c].seen
    /\ cl'[c].res = [op |-> op, val |-> "refused", h |-> 0]
    /\ backlog' = backlog /\ open' = open

\* Otherwise it has a connection k that is not in use.
ConnectedCall(c, op, k) ==
    /\ k \in HostConns /\ k[1] = c /\ k \notin open /\ ~Alive(k)
    /\ \A r \in inbox : r.conn # k
    /\ cl' \in [Clients -> ClientSet] /\ (\A d \in Clients : d # c => cl'[d] = cl[d])
    /\ cl'[c].pc = "connected" /\ cl'[c].conn = k /\ cl'[c].op = op
    /\ cl'[c].res = NULL /\ cl'[c].seen = cl[c].seen
    /\ backlog' = Append(backlog, k) /\ open' = open \cup {k}

LEMMA ConnectFacts ==
    ASSUME CallInv, NEW c \in host.clients, NEW op \in host.calls, initSocket(c, op)
    PROVE  /\ c \in Clients /\ op \in Ops /\ cl[c].pc = "idle" /\ cl[c].conn = NULL
           /\ host' = host /\ up' = up /\ srv' = srv /\ ready' = ready
           /\ serving' = serving /\ inbox' = inbox /\ outbox' = outbox
           /\ loaded' = loaded /\ version' = version /\ dirty' = dirty
           /\ \/ /\ ~((up \/ Activated) /\ Cardinality({k \in open : k[1] = c}) < MaxConns)
                 /\ RefusedCall(c, op)
              \/ \E k \in HostConns : ConnectedCall(c, op, k)
<1>1. /\ host \in Hosts /\ cl \in [Clients -> ClientSet] /\ c \in Clients /\ op \in Ops
      /\ cl[c].pc = "idle" /\ cl[c].conn = NULL
  BY HostFacts DEF CallInv, Shape, initSocket, InCall
<1>2. /\ host' = host /\ up' = up /\ srv' = srv /\ ready' = ready
      /\ serving' = serving /\ inbox' = inbox /\ outbox' = outbox
      /\ loaded' = loaded /\ version' = version /\ dirty' = dirty
  BY DEF initSocket, server, tables
<1>3. CASE ~((up \/ Activated) /\ Cardinality({k \in open : k[1] = c}) < MaxConns)
  <2> DEFINE R == [op |-> op, val |-> "refused", h |-> 0]
             x == [cl[c] EXCEPT !.res = R, !.done = NULL]
  <2>1. /\ cl' = [cl EXCEPT ![c].res = R, ![c].done = NULL]
        /\ backlog' = backlog /\ open' = open
    BY <1>3 DEF initSocket
  <2>2. R \in Results
    BY <1>1 DEF Results
  <2>3. cl' = [cl EXCEPT ![c] = x]
    BY <2>1
  <2> HIDE DEF R
  <2>4. x \in ClientSet /\ x.pc = "idle" /\ x.conn = NULL /\ x.res = R
        /\ x.seen = cl[c].seen
    BY <1>1, <2>2 DEF ClientSet
  <2> HIDE DEF x
  <2>5. cl' \in [Clients -> ClientSet] /\ cl'[c] = x
        /\ \A d \in Clients : d # c => cl'[d] = cl[d]
    BY <1>1, <2>3, <2>4, ClientBecomes
  <2>6. RefusedCall(c, op)
    BY <2>1, <2>4, <2>5 DEF RefusedCall, R
  <2> QED
    BY <1>1, <1>2, <1>3, <2>6
<1>4. CASE (up \/ Activated) /\ Cardinality({k \in open : k[1] = c}) < MaxConns
  <2> DEFINE n == Lowest(Unused(c))
             k == <<c, n>>
             x == [cl[c] EXCEPT !.pc = "connected", !.conn = k, !.op = op, !.res = NULL,
                                !.done = NULL]
  <2>1. /\ Unused(c) # {}
        /\ backlog' = Append(backlog, k) /\ open' = open \cup {k}
        /\ cl' = [cl EXCEPT ![c].pc = "connected", ![c].conn = k, ![c].op = op,
                            ![c].res = NULL, ![c].done = NULL]
    BY <1>4 DEF initSocket
  <2>2. n \in Unused(c)
    <3>1. Unused(c) \subseteq Nat
      BY DEF Unused
    <3> QED
      BY <2>1, <3>1, LowestIn
  <2>3. cl' = [cl EXCEPT ![c] = x]
    BY <2>1
  <2> HIDE DEF n
  <2>4. /\ k \in HostConns /\ k[1] = c /\ k \notin open /\ ~Alive(k)
        /\ \A r \in inbox : r.conn # k
    BY <2>2 DEF Unused, HostConns
  <2>5. k \in Conns
    BY <1>1, <2>4, HostFacts
  <2> HIDE DEF k
  <2>6. /\ x \in ClientSet /\ x.pc = "connected" /\ x.conn = k /\ x.op = op
        /\ x.res = NULL /\ x.seen = cl[c].seen
    BY <1>1, <2>5 DEF ClientSet
  <2> HIDE DEF x
  <2>7. cl' \in [Clients -> ClientSet] /\ cl'[c] = x
        /\ \A d \in Clients : d # c => cl'[d] = cl[d]
    BY <1>1, <2>3, <2>6, ClientBecomes
  <2>8. ConnectedCall(c, op, k)
    BY <2>1, <2>4, <2>6, <2>7 DEF ConnectedCall
  <2> QED
    BY <1>1, <1>2, <2>4, <2>8
<1> QED
  BY <1>3, <1>4

\* The backlog with one more connection.
LEMMA Appended ==
    ASSUME Shape, NEW k \in HostConns, backlog' = Append(backlog, k)
    PROVE  /\ backlog' \in Seq(HostConns) /\ Len(backlog) \in Nat
           /\ Len(backlog') = Len(backlog) + 1 /\ backlog' # <<>>
           /\ backlog'[Len(backlog) + 1] = k
           /\ \A i \in 1 .. Len(backlog) : backlog'[i] = backlog[i]
<1>1. backlog \in Seq(HostConns)
  BY DEF Shape
<1> QED
  BY <1>1

LEMMA ConnectCall ==
    ASSUME CallInv, NEW c \in host.clients, NEW op \in host.calls, initSocket(c, op)
    PROVE  CallInv'
<1>1. /\ c \in Clients /\ op \in Ops /\ cl[c].pc = "idle" /\ cl[c].conn = NULL
      /\ host' = host /\ up' = up /\ srv' = srv /\ ready' = ready
      /\ serving' = serving /\ inbox' = inbox /\ outbox' = outbox
      /\ loaded' = loaded /\ version' = version /\ dirty' = dirty
      /\ RefusedCall(c, op) \/ \E k \in HostConns : ConnectedCall(c, op, k)
  BY ConnectFacts
<1>2. /\ host \in Hosts /\ inbox \subseteq Requests /\ outbox \subseteq Replies
      /\ serving \in HostServed \cup {NULL} /\ open \subseteq HostConns
  BY DEF CallInv, Shape
<1>3. \A j \in open : j # cl[c].conn
  BY <1>1, <1>2, ConnOfClient
<1>4. CASE RefusedCall(c, op)
  <2>1. cl'[c].res.val # "ok"
    BY <1>4 DEF RefusedCall
  <2>2. \A r \in outbox : r.conn \in open
    BY DEF CallInv, RepliesOne
  <2> QED
    BY <1>1, <1>3, <1>4, <2>1, <2>2, CallEnds DEF RefusedCall
<1>5. ASSUME NEW k \in HostConns, ConnectedCall(c, op, k)
      PROVE  CallInv'
  <2> USE <1>5 DEF ConnectedCall
  <2>1. /\ backlog' \in Seq(HostConns) /\ Len(backlog) \in Nat
        /\ Len(backlog') = Len(backlog) + 1 /\ backlog' # <<>>
        /\ backlog'[Len(backlog) + 1] = k
        /\ \A i \in 1 .. Len(backlog) : backlog'[i] = backlog[i]
    BY Appended DEF CallInv
  <2>2. /\ \A i \in 1 .. Len(backlog) : backlog[i] # k
        /\ \A f \in Fds : srv[f] # k
    BY BacklogSet DEF CallInv, Alive, Accepted
  <2>3. Shape'
    BY <1>1, <2>1, SameHost DEF CallInv, Shape
  <2>4. OnePlace'
    <3>1. \A i \in 1 .. Len(backlog') :
             \/ i \in 1 .. Len(backlog) /\ backlog'[i] = backlog[i]
             \/ i = Len(backlog) + 1 /\ backlog'[i] = k
      BY <2>1
    <3>2. \A i, j \in 1 .. Len(backlog') : backlog'[i] = backlog'[j] => i = j
      BY <2>2, <3>1 DEF CallInv, OnePlace
    <3>3. \A f \in Fds, i \in 1 .. Len(backlog') : srv[f] # backlog'[i]
      BY <2>2, <3>1 DEF CallInv, OnePlace
    <3> QED
      BY <1>1, <3>2, <3>3, SameHost DEF CallInv, OnePlace
  <2>5. Listening'
    BY <1>1, <2>1, SameHost DEF CallInv, Listening
  <2>6. InCall'
    BY <1>1 DEF CallInv, InCall
  <2>7. \A j \in open : j[1] \in Clients /\ Waits(cl, j) =>
                           /\ Waits(cl', j) /\ cl'[j[1]] = cl[j[1]] /\ j \in open'
    BY <1>3 DEF Waits
  <2>8. /\ \A r \in inbox : r.conn[1] \in Clients
        /\ \A r \in outbox : r.conn[1] \in Clients
        /\ serving # NULL => serving.conn[1] \in Clients
    BY <1>2, ConnOfClient DEF Requests, Replies, HostServed
  <2>9. RequestsOne'
    <3>1. \A r \in inbox : r.conn \in open =>
           /\ Waits(cl', r.conn) /\ cl'[r.conn[1]] = cl[r.conn[1]]
           /\ r.op = cl[r.conn[1]].op /\ r.ver = cl[r.conn[1]].seen
      BY <2>7, <2>8 DEF CallInv, RequestsOne
    <3> QED
      BY <1>1, <3>1 DEF CallInv, RequestsOne
  <2>10. ServingOne'
    <3>1. serving # NULL => Accepted(serving.conn) /\ serving.conn # k
      BY <2>2 DEF CallInv, ServingOne, Accepted
    <3>2. serving # NULL /\ serving.conn \in open' =>
             /\ Waits(cl', serving.conn)
             /\ cl'[serving.conn[1]] = cl[serving.conn[1]] /\ Answers(cl, serving)
      BY <2>7, <2>8, <3>1 DEF CallInv, ServingOne
    <3>3. serving # NULL => Accepted(serving.conn)'
                            /\ \A r \in inbox' : r.conn # serving.conn
      BY <1>1, <3>1, SameHost DEF CallInv, ServingOne, Accepted
    <3> QED
      BY <1>1, <3>2, <3>3 DEF ServingOne, Answers
  <2>11. RepliesOne'
    <3>1. \A r \in outbox : /\ Waits(cl', r.conn) /\ cl'[r.conn[1]] = cl[r.conn[1]]
                            /\ Answers(cl, r) /\ r.conn \in open'
      BY <2>7, <2>8 DEF CallInv, RepliesOne
    <3>2. \A r \in outbox : Waits(cl', r.conn) /\ Answers(cl', r) /\ r.conn \in open'
      BY <3>1 DEF Answers
    <3> QED
      BY <1>1, <3>2 DEF CallInv, RepliesOne
  <2>12. SuccessMeansDone'
    BY <1>1, SameHost DEF CallInv, SuccessMeansDone
  <2> QED
    BY <2>3, <2>4, <2>5, <2>6, <2>9, <2>10, <2>11, <2>12 DEF CallInv
<1> QED
  BY <1>1, <1>4, <1>5

-----------------------------------------------------------------------------
(* The invariant holds.                                                    *)

LEMMA CallStart == Init => CallInv
<1> SUFFICES ASSUME Init
             PROVE  CallInv
  OBVIOUS
<1>1. host \in Hosts /\ host.max_changes \in Nat
  BY HostFacts DEF Init
<1>2. Idle \in ClientSet /\ Idle.pc = "idle" /\ Idle.conn = NULL /\ Idle.res = NULL
  BY DEF Idle, ClientSet
<1>3. cl \in [Clients -> ClientSet] /\ \A c \in Clients : cl[c] = Idle
  BY <1>2 DEF Init
<1>4. backlog \in Seq(HostConns) /\ Len(backlog) = 0 /\ backlog = <<>>
  <2>1. <<>> \in Seq(HostConns) /\ Len(<<>>) = 0
    OBVIOUS
  <2>2. backlog = <<>>
    BY DEF Init
  <2> QED
    BY <2>1, <2>2, Zenon
<1>5. Shape
  <2>1. /\ up \in BOOLEAN /\ dirty \in BOOLEAN /\ srv \in [Fds -> HostConns \cup {NULL}]
        /\ ready \subseteq Fds \cup {socket_d} /\ serving \in HostServed \cup {NULL}
        /\ open \subseteq HostConns /\ inbox \subseteq Requests
        /\ outbox \subseteq Replies /\ loaded \subseteq Handles
        /\ version \in 0 .. host.max_changes
    <3>1. /\ up = FALSE /\ dirty = FALSE /\ srv = [f \in Fds |-> NULL] /\ ready = {}
          /\ serving = NULL /\ open = {} /\ inbox = {} /\ outbox = {} /\ loaded = {}
          /\ version = 0
      BY DEF Init
    <3>2. srv \in [Fds -> HostConns \cup {NULL}]
      BY <3>1
    <3>3. version \in 0 .. host.max_changes
      BY <1>1, <3>1
    <3>4. up \in BOOLEAN /\ dirty \in BOOLEAN
      BY <3>1, Zenon
    <3> QED
      BY <3>1, <3>2, <3>3, <3>4, Zenon
  <2> QED
    BY <1>1, <1>3, <1>4, <2>1, Zenon DEF Shape
<1>6. OnePlace /\ Listening
  BY <1>4 DEF Init, OnePlace, Listening
<1>7. InCall /\ RequestsOne /\ ServingOne /\ RepliesOne
  BY <1>2, <1>3 DEF Init, InCall, RequestsOne, ServingOne, RepliesOne
<1>8. SuccessMeansDone
  BY <1>2, <1>3 DEF SuccessMeansDone
<1> QED
  BY <1>5, <1>6, <1>7, <1>8 DEF CallInv

LEMMA CallStutter == CallInv /\ UNCHANGED vars => CallInv'
<1> SUFFICES ASSUME CallInv, UNCHANGED vars
             PROVE  CallInv'
  OBVIOUS
<1>1. (InCall /\ RequestsOne /\ ServingOne /\ RepliesOne /\ SuccessMeansDone)'
  BY Fewer DEF vars
<1>2. Shape' /\ OnePlace' /\ Listening'
  BY SameHost DEF vars, CallInv, Shape, OnePlace, Listening
<1> QED
  BY <1>1, <1>2 DEF CallInv

LEMMA VisitCall == CallInv /\ Visit => CallInv'
<1> SUFFICES ASSUME CallInv, Visit
             PROVE  CallInv'
  OBVIOUS
<1>1. CASE accept
  BY <1>1, AcceptCall
<1>2. ASSUME NEW f \in Fds, close_fd(f)
      PROVE  CallInv'
  <2>1. /\ Visiting(f) /\ srv' = closed(f) /\ ready' = Rest(f) /\ inbox' \subseteq inbox
        /\ UNCHANGED <<host, up, backlog, serving, open, outbox, cl, tables>>
    BY <1>2 DEF close_fd
  <2> QED
    BY <2>1, ClosedCall
<1>3. ASSUME NEW f \in Fds, process_dfx_req(f)
      PROVE  CallInv'
  BY <1>3, ProcessCall
<1>4. ASSUME NEW f \in Fds, process_quit(f)
      PROVE  CallInv'
  <2>1. /\ Visiting(f) /\ srv' = closed(f) /\ ready' = Rest(f) /\ inbox' \subseteq inbox
        /\ UNCHANGED <<host, up, backlog, serving, open, outbox, cl, tables>>
    BY <1>4 DEF process_quit
  <2> QED
    BY <2>1, ClosedCall
<1> QED
  BY <1>1, <1>2, <1>3, <1>4 DEF Visit

LEMMA CallStep == CallInv /\ [Next]_vars => CallInv'
<1> SUFFICES ASSUME CallInv, [Next]_vars
             PROVE  CallInv'
  OBVIOUS
<1>1. CASE start
  BY <1>1, StartCall
<1>2. CASE stop
  BY <1>2, ExitCall DEF stop
<1>3. CASE select \/ Visit \/ reply \/ packages_change
  BY <1>3, SelectCall, VisitCall, ReplyCall, PackagesCall
<1>4. ASSUME NEW c \in host.clients, NEW op \in host.calls, initSocket(c, op)
      PROVE  CallInv'
  BY <1>4, ConnectCall
<1>5. ASSUME NEW c \in Clients, Client(c)
      PROVE  CallInv'
  BY <1>5, SendCall, ReadCall, EofCall DEF Client
<1>6. ASSUME NEW c \in Clients, interrupt(c)
      PROVE  CallInv'
  BY <1>6, InterruptCall
<1>7. CASE UNCHANGED vars
  BY <1>7, CallStutter
<1> QED
  BY <1>1, <1>2, <1>3, <1>4, <1>5, <1>6, <1>7 DEF Next

LEMMA CallInvariant == Spec => []CallInv
BY CallStart, CallStep, PTL DEF Spec

\* The type invariant: above all that a connection has one descriptor, or waits
\* to be accepted, although numbers of closed connections are used again.
THEOREM ServerTypes == Spec => []TypeOK
<1>1. CallInv => TypeOK
  <2> SUFFICES ASSUME CallInv
               PROVE  TypeOK
    OBVIOUS
  <2>1. host \in Hosts /\ HostConns \subseteq Conns
    BY HostFacts DEF CallInv, Shape
  <2>2. DOMAIN backlog = 1 .. Len(backlog)
        /\ ToSet(backlog) = {backlog[i] : i \in 1 .. Len(backlog)}
        /\ \A i \in 1 .. Len(backlog) : backlog[i] \in HostConns
    BY BacklogSet DEF CallInv, Shape
  <2>3. IsInjective(backlog) /\ ToSet(backlog) \subseteq Conns
        /\ \A f \in Fds : srv[f] \notin ToSet(backlog)
    BY <2>1, <2>2 DEF CallInv, OnePlace, IsInjective
  <2>4. srv \in [Fds -> Conns \cup {NULL}] /\ open \subseteq Conns
        /\ \A f, g \in Fds : srv[f] # NULL /\ srv[f] = srv[g] => f = g
    BY <2>1 DEF CallInv, Shape, OnePlace
  <2>5. /\ \A r \in inbox : r.conn \in Conns /\ r.op \in Ops
        /\ \A r \in outbox : r.conn \in Conns /\ r.op \in Ops
        /\ \A c \in Clients : cl[c].pc \in {"idle", "connected", "waiting"}
    BY <2>1 DEF CallInv, Shape, Requests, Replies, ClientSet
  <2> QED
    BY <2>1, <2>3, <2>4, <2>5 DEF CallInv, Shape, TypeOK
<1> QED
  BY <1>1, CallInvariant, PTL

\* The command line client is told of success only of what the daemon did for
\* this very call, whatever the clients, however they and the daemon stop.
THEOREM SuccessDone == Spec => []SuccessMeansDone
BY CallInvariant, PTL DEF CallInv

-----------------------------------------------------------------------------
(* While the daemon keeps running, no call is refused.                     *)

LEMMA AliveLives ==
    ASSUME Shape, NEW k
    PROVE  Alive(k) <=> Lives(srv, backlog, k)
<1>1. DOMAIN srv = Fds
  BY DEF Shape
<1>2. ToSet(backlog) = {backlog[i] : i \in 1 .. Len(backlog)}
  BY BacklogSet
<1> QED
  BY <1>1, <1>2 DEF Alive, Accepted, Lives

\* There are not more connections than descriptors, and one of them waits.
LEMMA DescriptorLeft ==
    ASSUME CallInv, KeepsRunning, backlog # <<>>
    PROVE  FreeFds # {}
<1> SUFFICES ASSUME FreeFds = {}
             PROVE  FALSE
  OBVIOUS
<1> DEFINE k == backlog[1]
           T == HostConns \ {k}
<1>1. /\ host \in Hosts /\ srv \in [Fds -> HostConns \cup {NULL}]
      /\ backlog \in Seq(HostConns)
  BY DEF CallInv, Shape
<1>2. 1 \in 1 .. Len(backlog) /\ k \in HostConns
  BY <1>1
<1>3. IsFiniteSet(HostConns) /\ Cardinality(HostConns) \in Nat
  <2>1. IsFiniteSet(host.clients)
    BY <1>1, HostFacts, ServerAssumption, FS_Subset
  <2>2. IsFiniteSet(1 .. MaxConns)
    BY ServerAssumption, FS_Interval
  <2> QED
    BY <2>1, <2>2, FS_Product, FS_CardinalityType DEF HostConns
<1>4. IsFiniteSet(T) /\ Cardinality(T) = Cardinality(HostConns) - 1
  BY <1>2, <1>3, FS_RemoveElement
<1>5. IsFiniteSet(Fds) /\ Cardinality(Fds) = host.max_fds /\ host.max_fds \in Nat \ {0}
  <2>1. host.max_fds \in Nat \ {0}
    BY <1>1, HostFacts
  <2> QED
    BY <2>1, FS_Interval DEF Fds
<1>6. host.max_fds >= Cardinality(HostConns)
  BY DEF KeepsRunning, HostConns
<1>7. srv \in [Fds -> T]
  <2>1. \A f \in Fds : srv[f] # NULL
    BY DEF FreeFds
  <2>2. \A f \in Fds : srv[f] # k
    BY <1>2 DEF CallInv, OnePlace
  <2> QED
    BY <1>1, <2>1, <2>2
<1>8. Cardinality(T) < Cardinality(Fds)
  BY <1>3, <1>4, <1>5, <1>6
<1> HIDE DEF T
<1>9. \E f, g \in Fds : f # g /\ srv[f] = srv[g]
  BY <1>4, <1>5, <1>7, <1>8, FS_PigeonHole
<1> QED
  BY <1>9 DEF CallInv, OnePlace, FreeFds

\* Steps of the daemon in which it keeps the connections clients have open.
LEMMA KeptRefused ==
    ASSUME CallInv, RefusedInv, host' = host, open' = open,
           \A c \in Clients : /\ cl'[c].pc = cl[c].pc /\ cl'[c].conn = cl[c].conn
                              /\ cl'[c].op = cl[c].op /\ cl'[c].res = cl[c].res
                              /\ cl[c].done # NULL => cl'[c].done # NULL,
           Activated /\ KeepsRunning =>
              \A c \in Clients \ Library :
                 cl[c].pc # "idle" /\ Lives(srv, backlog, cl[c].conn) =>
                    \/ Lives(srv', backlog', cl[c].conn)
                    \/ cl[c].pc = "waiting" /\ cl[c].op = "quit"
    PROVE  RefusedInv'
<1> USE SameHost
<1>1. ClosesOwn'
  BY DEF RefusedInv, ClosesOwn
<1>2. Activated /\ KeepsRunning => KeepsConn'
  BY DEF RefusedInv, KeepsConn
<1>3. Activated /\ KeepsRunning => NeverRefused'
  BY DEF RefusedInv, NeverRefused
<1> QED
  BY <1>1, <1>2, <1>3 DEF RefusedInv

LEMMA StartRefused == CallInv /\ RefusedInv /\ start => RefusedInv'
<1> SUFFICES ASSUME CallInv, RefusedInv, start
             PROVE  RefusedInv'
  OBVIOUS
<1>1. host' = host /\ open' = open /\ cl' = cl /\ ~up
      /\ (Activated => backlog' = backlog)
  BY DEF start, start_backlog
<1>2. \A k \in open : ~\E f \in DOMAIN srv : srv[f] = k
  <2>1. \A k \in open : k # NULL
    BY ConnOfClient DEF CallInv, Shape
  <2> QED
    BY <1>1, <2>1 DEF CallInv, Listening, Shape
<1>3. Activated => \A k \in open : Lives(srv, backlog, k) => Lives(srv', backlog', k)
  BY <1>1, <1>2 DEF Lives
<1>4. \A c \in Clients : cl[c].pc # "idle" => cl[c].conn \in open
  BY DEF CallInv, InCall
<1> QED
  BY <1>1, <1>3, <1>4, KeptRefused

LEMMA AcceptRefused == CallInv /\ RefusedInv /\ accept => RefusedInv'
<1> SUFFICES ASSUME CallInv, RefusedInv, accept
             PROVE  RefusedInv'
  OBVIOUS
<1>1. host' = host /\ open' = open /\ cl' = cl /\ socket_d \in ready
  BY DEF accept, Visiting
<1>2. ASSUME KeepsRunning, NEW k, Lives(srv, backlog, k), k # NULL
      PROVE  Lives(srv', backlog', k)
  <2> DEFINE g == Lowest(FreeFds)
  <2>1. FreeFds # {}
    BY <1>1, <1>2, DescriptorLeft DEF CallInv, Listening
  <2>2. srv' = [srv EXCEPT ![g] = Head(backlog)] /\ backlog' = Tail(backlog)
    BY <2>1 DEF accept
  <2>3. /\ srv \in [Fds -> HostConns \cup {NULL}] /\ backlog \in Seq(HostConns)
        /\ backlog # <<>> /\ host \in Hosts
    BY <1>1 DEF CallInv, Shape, Listening
  <2>4. g \in Fds /\ srv[g] = NULL
    <3>1. FreeFds \subseteq Nat
      BY <2>3, HostFacts DEF FreeFds
    <3>2. g \in FreeFds
      BY <2>1, <3>1, LowestIn
    <3> QED
      BY <3>2 DEF FreeFds
  <2> HIDE DEF g
  <2>5. /\ Head(backlog) = backlog[1] /\ Len(backlog) \in Nat
        /\ Len(backlog') = Len(backlog) - 1
        /\ \A i \in 1 .. Len(backlog') : backlog'[i] = backlog[i + 1]
    BY <2>2, <2>3
  <2>6. DOMAIN srv' = Fds /\ DOMAIN srv = Fds /\ srv'[g] = backlog[1]
        /\ \A f \in Fds : f # g => srv'[f] = srv[f]
    BY <2>2, <2>3, <2>4, <2>5
  <2>7. CASE \E f \in DOMAIN srv : srv[f] = k
    BY <1>2, <2>4, <2>6, <2>7 DEF Lives
  <2>8. ASSUME NEW i \in 1 .. Len(backlog), backlog[i] = k
        PROVE  Lives(srv', backlog', k)
    <3>1. CASE i = 1
      BY <2>4, <2>6, <2>8, <3>1 DEF Lives
    <3>2. CASE i # 1
      <4>1. i - 1 \in 1 .. Len(backlog') /\ (i - 1) + 1 = i
        BY <2>5, <3>2
      <4>2. backlog'[i - 1] = k
        BY <2>5, <2>8, <4>1
      <4> QED
        BY <4>1, <4>2 DEF Lives
    <3> QED
      BY <3>1, <3>2
  <2> QED
    BY <1>2, <2>7, <2>8 DEF Lives
<1>3. \A c \in Clients : cl[c].pc # "idle" => cl[c].conn # NULL
  BY ConnOfClient DEF CallInv, InCall, Shape
<1> QED
  BY <1>1, <1>2, <1>3, KeptRefused

\* Closing descriptor f: no client waits for anything but a quit there.
LEMMA ClosedRefused ==
    ASSUME CallInv, RefusedInv, NEW f \in Fds, srv' = closed(f),
           UNCHANGED <<host, up, backlog, serving, open, outbox, cl, tables>>,
           \A c \in Clients : cl[c].pc # "idle" /\ cl[c].conn = srv[f] =>
              cl[c].pc = "waiting" /\ cl[c].op = "quit"
    PROVE  RefusedInv'
<1>1. srv \in [Fds -> HostConns \cup {NULL}] /\ srv' = [srv EXCEPT ![f] = NULL]
  BY DEF CallInv, Shape, closed
<1>2. \A k : k # srv[f] /\ Lives(srv, backlog, k) => Lives(srv', backlog', k)
  BY <1>1 DEF Lives
<1> QED
  BY <1>2, KeptRefused

LEMMA VisitRefused == CallInv /\ RefusedInv /\ Visit => RefusedInv'
<1> SUFFICES ASSUME CallInv, RefusedInv, Visit
             PROVE  RefusedInv'
  OBVIOUS
<1>1. CASE accept
  BY <1>1, AcceptRefused
<1>2. ASSUME NEW f \in Fds, close_fd(f)
      PROVE  RefusedInv'
  <2>1. /\ srv' = closed(f) /\ srv[f] \notin open
        /\ UNCHANGED <<host, up, backlog, serving, open, outbox, cl, tables>>
    BY <1>2 DEF close_fd, AtEof
  <2>2. \A c \in Clients : cl[c].pc # "idle" => cl[c].conn # srv[f]
    BY <2>1 DEF CallInv, InCall
  <2> QED
    BY <2>1, <2>2, ClosedRefused
<1>3. ASSUME NEW f \in Fds, process_dfx_req(f)
      PROVE  RefusedInv'
  <2>1. PICK r \in inbox : \E o \in Outcomes(r) : Carried(f, r, o)
    BY <1>3, ProcessFacts
  <2>2. PICK o \in Outcomes(r) : Carried(f, r, o)
    BY <2>1
  <2>3. [op |-> r.op, val |-> o.val, h |-> o.h] # NULL
    <3>1. o.val \in {"ok", "error"} /\ o.h \in Nat /\ r.op \in Ops
      BY <2>2, OutcomesTyped DEF CallInv, Carried, Requests
    <3>2. NULL \notin Results
      BY ServerAssumption
    <3> QED
      BY <3>1, <3>2 DEF Results
  <2>4. \A c \in Clients : /\ cl'[c].pc = cl[c].pc /\ cl'[c].conn = cl[c].conn
                           /\ cl'[c].op = cl[c].op /\ cl'[c].res = cl[c].res
                           /\ cl[c].done # NULL => cl'[c].done # NULL
    BY <2>2, <2>3 DEF Carried
  <2>5. host' = host /\ open' = open /\ srv' = srv /\ backlog' = backlog
    BY <2>2 DEF Carried
  <2> QED
    BY <2>4, <2>5, KeptRefused
<1>4. ASSUME NEW f \in Fds, process_quit(f)
      PROVE  RefusedInv'
  <2>1. /\ srv' = closed(f)
        /\ UNCHANGED <<host, up, backlog, serving, open, outbox, cl, tables>>
    BY <1>4 DEF process_quit
  <2>2. PICK r \in inbox : r.conn = srv[f] /\ r.op = "quit"
    BY <1>4 DEF process_quit
  <2>3. \A c \in Clients : cl[c].pc # "idle" /\ cl[c].conn = srv[f] =>
              cl[c].pc = "waiting" /\ cl[c].op = "quit"
    BY <2>2 DEF CallInv, InCall, RequestsOne, Waits
  <2> QED
    BY <2>1, <2>3, ClosedRefused
<1> QED
  BY <1>1, <1>2, <1>3, <1>4 DEF Visit

\* The call of client c ends, and with it the connection of the command line
\* client.
LEMMA EndRefused ==
    ASSUME CallInv, RefusedInv, NEW c \in Clients, host' = host, srv' = srv,
           backlog' = backlog, \A d \in Clients : d # c => cl'[d] = cl[d],
           cl'[c].pc = "idle", open' \subseteq open,
           c \notin Library => \A k \in open' : k[1] = c => k # cl[c].conn,
           Activated /\ KeepsRunning /\ c \notin Library /\ cl'[c].res # NULL =>
              /\ cl'[c].res.val # "refused"
              /\ cl'[c].res.op # "quit" => cl'[c].done # NULL
    PROVE  RefusedInv'
<1> USE SameHost
<1>1. ClosesOwn'
  BY DEF RefusedInv, ClosesOwn
<1>2. Activated /\ KeepsRunning => KeepsConn'
  BY DEF RefusedInv, KeepsConn
<1>3. Activated /\ KeepsRunning => NeverRefused'
  BY DEF RefusedInv, NeverRefused
<1> QED
  BY <1>1, <1>2, <1>3 DEF RefusedInv

LEMMA ReadRefused ==
    ASSUME CallInv, RefusedInv, NEW c \in Clients, recv_msg(c)
    PROVE  RefusedInv'
<1>1. PICK r \in outbox : Reads(c, r)
  BY ReadFacts
<1>2. /\ host' = host /\ srv' = srv /\ backlog' = backlog /\ cl[c].pc = "waiting"
      /\ open' = IF c \in Library THEN open ELSE open \ {cl[c].conn}
  BY DEF recv_msg, server
<1>3. cl[c].conn[1] = c
  BY <1>2, OwnConn
<1>4. cl'[c].done = [op |-> r.op, val |-> r.val, h |-> r.h]
  BY <1>1, <1>3 DEF CallInv, RepliesOne, Answers, Reads
<1>5. /\ [op |-> r.op, val |-> r.val, h |-> r.h] # NULL
      /\ cl'[c].res.val = r.val /\ r.val # "refused"
  <2>1. r.val \in {"ok", "error"} /\ r.h \in Nat /\ r.op \in Ops
    BY <1>1 DEF Reads, Replies
  <2>2. NULL \notin Results
    BY ServerAssumption
  <2> QED
    BY <1>1, <2>1, <2>2 DEF Results, Reads
<1>6. open' \subseteq open /\ (c \notin Library => \A k \in open' : k # cl[c].conn)
  BY <1>2
<1> QED
  BY <1>1, <1>2, <1>4, <1>5, <1>6, EndRefused DEF Reads

LEMMA EofRefused ==
    ASSUME CallInv, RefusedInv, NEW c \in Clients, recv_eof(c)
    PROVE  RefusedInv'
<1>1. /\ host' = host /\ srv' = srv /\ backlog' = backlog
      /\ cl[c].pc = "waiting" /\ ~Alive(cl[c].conn)
  BY DEF recv_eof, server
<1>2. PICK val \in {"ok", "error"} : Return(c, cl[c].op, val, 0)
  BY DEF recv_eof, OutcomesOfEof
<1>3. cl[c].op \in Ops /\ cl \in [Clients -> ClientSet]
  BY <1>1, OwnConn DEF CallInv, Shape
<1>4. val \in {"ok", "error", "refused"} /\ val # "refused"
  OBVIOUS
<1>5. /\ \A d \in Clients : d # c => cl'[d] = cl[d]
      /\ cl'[c].pc = "idle" /\ cl'[c].conn = NULL
      /\ cl'[c].res = [op |-> cl[c].op, val |-> val, h |-> 0]
      /\ open' = IF c \in Library THEN open ELSE open \ {cl[c].conn}
  BY <1>2, <1>3, <1>4, ReturnFacts
<1>6. Activated /\ KeepsRunning /\ c \notin Library => cl[c].op = "quit"
  BY <1>1, AliveLives DEF CallInv, RefusedInv, KeepsConn
<1>7. cl'[c].res.val = val /\ cl'[c].res.op = cl[c].op
  BY <1>5
<1>8. open' \subseteq open /\ (c \notin Library => \A k \in open' : k # cl[c].conn)
  BY <1>5
<1> QED
  BY <1>1, <1>4, <1>5, <1>6, <1>7, <1>8, EndRefused

LEMMA SendRefused ==
    ASSUME CallInv, RefusedInv, NEW c \in Clients, NEW h \in Handles, send_msg(c, h)
    PROVE  RefusedInv'
<1>1. /\ host' = host /\ srv' = srv /\ backlog' = backlog /\ cl[c].pc = "connected"
  BY DEF send_msg, server
<1>2. cl[c].op \in Ops /\ cl \in [Clients -> ClientSet]
  BY <1>1, OwnConn DEF CallInv, Shape
<1>3. CASE Alive(cl[c].conn)
  <2>1. open' = open /\ cl' = [cl EXCEPT ![c].pc = "waiting"]
    BY <1>3 DEF send_msg
  <2>2. \A d \in Clients : /\ cl'[d].conn = cl[d].conn /\ cl'[d].op = cl[d].op
                           /\ cl'[d].res = cl[d].res /\ cl'[d].done = cl[d].done
                           /\ cl'[d].pc = IF d = c THEN "waiting" ELSE cl[d].pc
    BY <1>2, <2>1 DEF ClientSet
  <2>3. ClosesOwn'
    BY <1>1, <2>1, <2>2, SameHost DEF RefusedInv, ClosesOwn
  <2>4. Activated /\ KeepsRunning => KeepsConn'
    BY <1>1, <2>2, SameHost DEF RefusedInv, KeepsConn
  <2>5. Activated /\ KeepsRunning => NeverRefused'
    BY <1>1, <2>2, SameHost DEF RefusedInv, NeverRefused
  <2> QED
    BY <1>1, <2>3, <2>4, <2>5, SameHost DEF RefusedInv
<1>4. CASE ~Alive(cl[c].conn)
  <2>1. Return(c, cl[c].op, "error", 0)
    BY <1>4 DEF send_msg
  <2>2. /\ \A d \in Clients : d # c => cl'[d] = cl[d]
        /\ cl'[c].pc = "idle"
        /\ open' = IF c \in Library THEN open ELSE open \ {cl[c].conn}
    BY <1>2, <2>1, ReturnFacts
  <2>3. ~(Activated /\ KeepsRunning /\ c \notin Library)
    BY <1>1, <1>4, AliveLives DEF CallInv, RefusedInv, KeepsConn
  <2>4. open' \subseteq open /\ (c \notin Library => \A k \in open' : k # cl[c].conn)
    BY <2>2
  <2> QED
    BY <1>1, <2>2, <2>3, <2>4, EndRefused
<1> QED
  BY <1>3, <1>4

LEMMA InterruptRefused ==
    ASSUME CallInv, RefusedInv, NEW c \in Clients, interrupt(c)
    PROVE  RefusedInv'
<1>1. /\ host' = host /\ srv' = srv /\ backlog' = backlog
      /\ open' = {k \in open : k[1] # c} /\ ~KeepsRunning
      /\ cl' = [cl EXCEPT ![c] = [Idle EXCEPT !.seen = cl[c].seen]]
  BY DEF interrupt, server, KeepsRunning
<1>2. cl \in [Clients -> ClientSet]
  BY DEF CallInv, Shape
<1>3. (\A d \in Clients : d # c => cl'[d] = cl[d]) /\ cl'[c].pc = "idle"
  BY <1>1, <1>2 DEF Idle
<1>4. open' \subseteq open /\ \A k \in open' : k[1] # c
  BY <1>1
<1> QED
  BY <1>1, <1>3, <1>4, EndRefused

LEMMA ConnectRefused ==
    ASSUME CallInv, RefusedInv, NEW c \in host.clients, NEW op \in host.calls,
           initSocket(c, op)
    PROVE  RefusedInv'
<1>1. /\ c \in Clients /\ cl[c].pc = "idle" /\ cl[c].conn = NULL
      /\ host' = host /\ srv' = srv
      /\ \/ /\ ~((up \/ Activated) /\ Cardinality({k \in open : k[1] = c}) < MaxConns)
            /\ RefusedCall(c, op)
         \/ \E k \in HostConns : ConnectedCall(c, op, k)
  BY ConnectFacts
<1>2. c \notin Library => \A k \in open : k[1] # c
  <2>1. \A k \in open : k # NULL
    BY ConnOfClient DEF CallInv, Shape
  <2> QED
    BY <1>1, <2>1 DEF RefusedInv, ClosesOwn
<1>3. CASE /\ ~((up \/ Activated) /\ Cardinality({k \in open : k[1] = c}) < MaxConns)
           /\ RefusedCall(c, op)
  <2>1. ~(Activated /\ c \notin Library)
    <3> SUFFICES ASSUME Activated, c \notin Library
                 PROVE  FALSE
      OBVIOUS
    <3>1. {k \in open : k[1] = c} = {}
      BY <1>2
    <3>2. Cardinality({k \in open : k[1] = c}) = 0
      BY <3>1, FS_EmptySet
    <3> QED
      BY <1>3, <3>2, ServerAssumption
  <2>2. /\ \A d \in Clients : d # c => cl'[d] = cl[d]
        /\ cl'[c].pc = "idle" /\ backlog' = backlog /\ open' = open
    BY <1>3 DEF RefusedCall
  <2> QED
    BY <1>1, <1>2, <2>1, <2>2, EndRefused
<1>4. ASSUME NEW k \in HostConns, ConnectedCall(c, op, k)
      PROVE  RefusedInv'
  <2> USE <1>4 DEF ConnectedCall
  <2>1. /\ Len(backlog) \in Nat /\ Len(backlog') = Len(backlog) + 1
        /\ backlog'[Len(backlog) + 1] = k
        /\ \A i \in 1 .. Len(backlog) : backlog'[i] = backlog[i]
    BY Appended DEF CallInv
  <2>2. Lives(srv', backlog', k)
    BY <2>1 DEF Lives
  <2>3. \A j : Lives(srv, backlog, j) => Lives(srv', backlog', j)
    BY <1>1, <2>1 DEF Lives
  <2>4. ClosesOwn'
    BY <1>1, <1>2, SameHost DEF RefusedInv, ClosesOwn
  <2>5. Activated /\ KeepsRunning => KeepsConn'
    BY <1>1, <2>2, <2>3, SameHost DEF RefusedInv, KeepsConn
  <2>6. Activated /\ KeepsRunning => NeverRefused'
    BY <1>1, SameHost DEF RefusedInv, NeverRefused
  <2> QED
    BY <1>1, <2>4, <2>5, <2>6, SameHost DEF RefusedInv
<1> QED
  BY <1>1, <1>3, <1>4

LEMMA RefusedStart == Init => RefusedInv
<1> SUFFICES ASSUME Init
             PROVE  RefusedInv
  OBVIOUS
<1>1. open = {} /\ \A c \in Clients : cl[c].pc = "idle" /\ cl[c].res = NULL
  BY DEF Init, Idle
<1> QED
  BY <1>1 DEF RefusedInv, ClosesOwn, KeepsConn, NeverRefused

LEMMA RefusedStep == CallInv /\ RefusedInv /\ [Next]_vars => RefusedInv'
<1> SUFFICES ASSUME CallInv, RefusedInv, [Next]_vars
             PROVE  RefusedInv'
  OBVIOUS
<1>1. CASE start
  BY <1>1, StartRefused
<1>2. CASE stop
  <2>1. host' = host /\ open' = open /\ cl' = cl /\ ~KeepsRunning
    BY <1>2 DEF stop, KeepsRunning
  <2> QED
    BY <2>1, KeptRefused
<1>3. CASE Visit
  BY <1>3, VisitRefused
<1>4. CASE select \/ reply \/ packages_change \/ UNCHANGED vars
  <2>1. host' = host /\ open' = open /\ cl' = cl /\ srv' = srv /\ backlog' = backlog
    BY <1>4 DEF select, reply, packages_change, server, tables, vars
  <2> QED
    BY <2>1, KeptRefused
<1>5. ASSUME NEW c \in host.clients, NEW op \in host.calls, initSocket(c, op)
      PROVE  RefusedInv'
  BY <1>5, ConnectRefused
<1>6. ASSUME NEW c \in Clients, Client(c)
      PROVE  RefusedInv'
  BY <1>6, SendRefused, ReadRefused, EofRefused DEF Client
<1>7. ASSUME NEW c \in Clients, interrupt(c)
      PROVE  RefusedInv'
  BY <1>7, InterruptRefused
<1> QED
  BY <1>1, <1>2, <1>3, <1>4, <1>5, <1>6, <1>7 DEF Next

\* With socket activation no call of the command line client is refused or left
\* without a reply, whenever the daemon starts and however many clients there
\* are, as long as the daemon has a descriptor for each of their connections.
THEOREM CallsAccepted == Spec => []NeverRefused
<1>1. RefusedInv => NeverRefused
  BY DEF RefusedInv, NeverRefused
<1> QED
  BY <1>1, RefusedStart, RefusedStep, CallInvariant, PTL DEF Spec

-----------------------------------------------------------------------------
(* One client, and a daemon that keeps running: the flag is cleared only by *)
(* a listing the client gets to see before it names an ID.                  *)

LEMMA OnlyClient ==
    ASSUME host \in Hosts, OneClient, NEW c \in host.clients, NEW d \in host.clients
    PROVE  c = d
<1>1. IsFiniteSet(host.clients)
  BY HostFacts, ServerAssumption, FS_Subset
<1>2. \E x : host.clients = {x}
  BY <1>1, FS_Singleton DEF OneClient
<1> QED
  BY <1>2

\* While a request waits there is no reply waiting.
LEMMA NoReply ==
    ASSUME CallInv, OneClient, NoneLeft, NEW r \in inbox
    PROVE  outbox = {}
<1> SUFFICES ASSUME NEW s \in outbox
             PROVE  FALSE
  OBVIOUS
<1>1. host \in Hosts /\ r.conn \in HostConns /\ s.conn \in HostConns
  BY DEF CallInv, Shape, Requests, Replies
<1>2. r.conn[1] = s.conn[1]
  BY <1>1, ConnOfClient, OnlyClient
<1>3. Waits(cl, r.conn) /\ Waits(cl, s.conn)
  BY DEF CallInv, RequestsOne, RepliesOne, NoneLeft
<1>4. r.conn = s.conn
  BY <1>2, <1>3 DEF Waits
<1> QED
  BY <1>4 DEF CallInv, RepliesOne

\* Steps that leave alone what the daemon says and the client has read.
LEMMA KeptStale ==
    ASSUME StaleInv, host' = host, IdsListed',
           OneClient => /\ up' = up /\ NoneLeft'
                        /\ version' = version /\ dirty' = dirty
                        /\ serving' = serving /\ outbox' = outbox
                        /\ \A c \in host.clients : cl'[c].seen = cl[c].seen
    PROVE  StaleInv'
<1> SUFFICES ASSUME OneClient
             PROVE  WarnInv'
  BY SameHost DEF StaleInv
<1>1. WarnInv
  BY DEF StaleInv
<1>2. (FlagSet /\ ListingsCurrent)'
  BY <1>1 DEF WarnInv, FlagSet, ListingsCurrent, ListingSent
<1>3. (NoneYet /\ ServingWarned)'
  BY <1>1 DEF WarnInv, NoneYet, ServingWarned
<1>4. StaleIdWarned'
  BY <1>1, SameHost DEF WarnInv, StaleIdWarned, OneClient
<1> QED
  BY <1>2, <1>3, <1>4 DEF WarnInv

\* The daemon starts, and for the only time.
LEMMA StartStale == CallInv /\ StaleInv /\ start => StaleInv'
<1> SUFFICES ASSUME CallInv, StaleInv, start
             PROVE  StaleInv'
  OBVIOUS
<1>1. /\ host' = host /\ open' = open /\ inbox' = inbox /\ outbox' = outbox /\ cl' = cl
      /\ up' = TRUE /\ ~up /\ serving' = NULL
  BY DEF start
<1>2. IdsListed'
  BY <1>1 DEF StaleInv, IdsListed
<1>3. ASSUME OneClient
      PROVE  WarnInv'
  <2>1. WarnInv
    BY <1>3 DEF StaleInv
  <2>2. outbox' = {} /\ \A c \in host'.clients : cl'[c].seen = -1
    BY <1>1, <2>1 DEF WarnInv, NoneYet
  <2>3. NoneLeft'
    BY <1>1, <2>1 DEF WarnInv, NoneLeft
  <2>4. (FlagSet /\ ListingsCurrent /\ NoneYet /\ ServingWarned /\ StaleIdWarned)'
    BY <1>1, <2>2 DEF FlagSet, ListingsCurrent, NoneYet, ServingWarned, StaleIdWarned
  <2> QED
    BY <2>3, <2>4 DEF WarnInv
<1> QED
  BY <1>1, <1>2, <1>3, SameHost DEF StaleInv

LEMMA AcceptStale == CallInv /\ StaleInv /\ accept => StaleInv'
<1> SUFFICES ASSUME CallInv, StaleInv, accept
             PROVE  StaleInv'
  OBVIOUS
<1>1. /\ host' = host /\ open' = open /\ outbox' = outbox /\ cl' = cl
      /\ version' = version /\ dirty' = dirty /\ socket_d \in ready
  BY DEF accept, Visiting, tables
<1>2. IdsListed'
  BY <1>1 DEF StaleInv, IdsListed
<1>3. ASSUME OneClient
      PROVE  up' = up /\ serving' = serving /\ inbox' = inbox
  <2>1. FreeFds # {}
    BY <1>1, <1>3, DescriptorLeft DEF CallInv, Listening, OneClient
  <2> QED
    BY <2>1 DEF accept
<1>4. OneClient => NoneLeft'
  BY <1>1, <1>3 DEF StaleInv, WarnInv, NoneLeft
<1> QED
  BY <1>1, <1>2, <1>3, <1>4, KeptStale

\* Packages change: the flag is set.
LEMMA PackagesStale == CallInv /\ StaleInv /\ packages_change => StaleInv'
<1> SUFFICES ASSUME CallInv, StaleInv, packages_change
             PROVE  StaleInv'
  OBVIOUS
<1>1. /\ host' = host /\ open' = open /\ inbox' = inbox /\ outbox' = outbox /\ cl' = cl
      /\ up' = up /\ serving' = serving /\ dirty' = TRUE
  BY DEF packages_change, server
<1>2. IdsListed'
  BY <1>1 DEF StaleInv, IdsListed
<1>3. ASSUME OneClient
      PROVE  WarnInv'
  <2>1. WarnInv
    BY <1>3 DEF StaleInv
  <2>2. (NoneLeft /\ NoneYet)'
    BY <1>1, <2>1 DEF WarnInv, NoneLeft, NoneYet
  <2>3. (FlagSet /\ ListingsCurrent /\ ServingWarned)'
    BY <1>1 DEF FlagSet, ListingsCurrent, ServingWarned
  <2>4. StaleIdWarned'
    BY <1>1, <1>3, <2>1, SameHost DEF WarnInv, StaleIdWarned, OneClient
  <2> QED
    BY <2>2, <2>3, <2>4 DEF WarnInv
<1> QED
  BY <1>1, <1>2, <1>3, SameHost DEF StaleInv

\* A request is carried out.  A listing clears the flag and carries the
\* numbering; an ID of another numbering finds the flag set.
LEMMA ProcessStale ==
    ASSUME CallInv, StaleInv, NEW f \in Fds, process_dfx_req(f)
    PROVE  StaleInv'
<1>1. PICK r \in inbox : \E o \in Outcomes(r) : Carried(f, r, o)
  BY ProcessFacts
<1>2. PICK o \in Outcomes(r) : Carried(f, r, o)
  BY <1>1
<1>3. /\ r \in Requests /\ serving = NULL /\ up /\ inbox' = inbox \ {r}
      /\ version' = o.version /\ dirty' = o.dirty
      /\ serving' = [conn |-> r.conn, op |-> r.op, val |-> o.val, h |-> o.h,
                     ver |-> version, stale |-> r.ver # version]
      /\ \A d \in Clients : /\ cl'[d].pc = cl[d].pc /\ cl'[d].op = cl[d].op
                            /\ cl'[d].seen = cl[d].seen
  BY <1>2 DEF Carried
<1>4. host' = host /\ up' = up /\ open' = open /\ outbox' = outbox
  BY DEF process_dfx_req
<1>5. /\ o.version # version => o.dirty
      /\ r.op # "list" /\ dirty => o.dirty
      /\ r.op = "list" => o.version = version
  BY <1>3, OutcomesTyped DEF CallInv
<1>6. /\ serving'.conn = r.conn /\ serving'.op = r.op /\ serving'.ver = version
      /\ serving'.stale = (r.ver # version)
  BY <1>3
<1>7. IdsListed'
  BY <1>3 DEF StaleInv, IdsListed
<1>8. ASSUME OneClient
      PROVE  WarnInv'
  <2> DEFINE c == r.conn[1]
  <2>1. WarnInv
    BY <1>8 DEF StaleInv
  <2>2. outbox = {}
    BY <1>8, <2>1, NoReply DEF WarnInv
  <2>3. ~ListingSent
    BY <1>3, <2>2 DEF ListingSent
  <2>4. r.conn \in open
    BY <2>1 DEF WarnInv, NoneLeft
  <2>5. c \in host.clients /\ c \in Clients
    BY <1>3, ConnOfClient DEF CallInv, Shape, Requests
  <2>6. cl[c].pc = "waiting" /\ cl[c].op = r.op /\ cl[c].seen = r.ver
    BY <2>4 DEF CallInv, RequestsOne, Waits
  <2>7. r.ver \in Int
    BY <1>3 DEF Requests
  <2>8. allow_warn(r.op) => r.ver >= 0 /\ r.op # "list"
    BY <2>5, <2>6 DEF StaleInv, IdsListed, allow_warn
  <2>9. allow_warn(r.op) /\ r.ver # version => dirty
    BY <2>1, <2>3, <2>5, <2>6, <2>7, <2>8 DEF WarnInv, FlagSet
  <2> HIDE DEF c
  <2>10. NoneLeft'
    BY <1>3, <1>4, <1>6, <2>1, <2>4 DEF WarnInv, NoneLeft
  <2>11. FlagSet'
    <3>1. host.clients \subseteq Clients
      BY HostFacts DEF CallInv, Shape
    <3>2. CASE r.op = "list"
      <4>1. serving' # NULL
        <5>1. o.val \in {"ok", "error"} /\ o.h \in Nat
          BY <1>3, OutcomesTyped DEF CallInv
        <5>2. r.conn \in Conns /\ r.op \in Ops /\ version \in Int
          BY <1>3, HostFacts DEF CallInv, Shape, Requests
        <5>3. serving' \in Served
          BY <1>3, <5>1, <5>2 DEF Served
        <5> QED
          BY <5>3, ServerAssumption
      <4>2. ListingSent'
        BY <1>3, <1>5, <1>6, <3>2, <4>1 DEF ListingSent
      <4> QED
        BY <4>2 DEF FlagSet
    <3>3. CASE r.op # "list"
      BY <1>3, <1>4, <1>5, <2>1, <2>3, <3>1, <3>3 DEF WarnInv, FlagSet
    <3> QED
      BY <3>2, <3>3
  <2>12. ListingsCurrent'
    BY <1>3, <1>4, <1>5, <1>6, <2>2 DEF ListingsCurrent
  <2>13. NoneYet'
    BY <1>3, <1>4 DEF NoneYet
  <2>14. ServingWarned'
    BY <1>3, <1>5, <1>6, <2>8, <2>9 DEF ServingWarned
  <2>15. StaleIdWarned'
    BY <1>4, <2>2 DEF StaleIdWarned
  <2> QED
    BY <2>10, <2>11, <2>12, <2>13, <2>14, <2>15 DEF WarnInv
<1> QED
  BY <1>4, <1>7, <1>8, SameHost DEF StaleInv

LEMMA ReplyStale == CallInv /\ StaleInv /\ reply => StaleInv'
<1> SUFFICES ASSUME CallInv, StaleInv, reply
             PROVE  StaleInv'
  OBVIOUS
<1> DEFINE q == [conn |-> serving.conn, op |-> serving.op, val |-> serving.val,
                 h |-> serving.h, ver |-> serving.ver, stale |-> serving.stale,
                 warn |-> allow_warn(serving.op) /\ dirty]
<1>1. /\ host' = host /\ up' = up /\ open' = open /\ inbox' = inbox /\ cl' = cl
      /\ version' = version /\ dirty' = dirty /\ serving' = NULL
      /\ serving # NULL /\ up
      /\ outbox' = IF serving.conn \in open THEN outbox \cup {q} ELSE outbox
  BY DEF reply, tables
<1>2. /\ q.op = serving.op /\ q.ver = serving.ver /\ q.stale = serving.stale
      /\ q.warn = (allow_warn(serving.op) /\ dirty)
  OBVIOUS
<1> HIDE DEF q
<1>3. IdsListed'
  BY <1>1 DEF StaleInv, IdsListed
<1>4. ASSUME OneClient
      PROVE  WarnInv'
  <2>1. WarnInv
    BY <1>4 DEF StaleInv
  <2>2. outbox' = outbox \cup {q}
    BY <1>1, <2>1 DEF WarnInv, NoneLeft
  <2>3. (NoneLeft /\ NoneYet /\ ServingWarned)'
    BY <1>1, <2>1 DEF WarnInv, NoneLeft, NoneYet, ServingWarned
  <2>4. ListingSent => ListingSent'
    BY <1>1, <1>2, <2>2 DEF ListingSent
  <2>5. FlagSet'
    BY <1>1, <2>1, <2>4 DEF WarnInv, FlagSet
  <2>6. ListingsCurrent'
    BY <1>1, <1>2, <2>1, <2>2 DEF WarnInv, ListingsCurrent
  <2>7. q.op \in {"load_id", "unload_id"} /\ q.stale => q.warn
    BY <1>1, <1>2, <2>1 DEF WarnInv, ServingWarned, allow_warn
  <2>8. StaleIdWarned'
    BY <1>1, <1>4, <2>1, <2>2, <2>7, SameHost DEF WarnInv, StaleIdWarned, OneClient
  <2> QED
    BY <2>3, <2>5, <2>6, <2>8 DEF WarnInv
<1> QED
  BY <1>1, <1>3, <1>4, SameHost DEF StaleInv

\* The other visits tell the clients nothing.
LEMMA VisitStale == CallInv /\ StaleInv /\ Visit => StaleInv'
<1> SUFFICES ASSUME CallInv, StaleInv, Visit
             PROVE  StaleInv'
  OBVIOUS
<1>1. CASE accept
  BY <1>1, AcceptStale
<1>2. ASSUME NEW f \in Fds, close_fd(f) \/ process_quit(f)
      PROVE  StaleInv'
  <2>1. /\ host' = host /\ up' = up /\ open' = open /\ outbox' = outbox /\ cl' = cl
        /\ serving' = serving /\ version' = version /\ dirty' = dirty
        /\ inbox' \subseteq inbox
    BY <1>2 DEF close_fd, process_quit, tables
  <2>2. IdsListed'
    BY <2>1 DEF StaleInv, IdsListed
  <2>3. OneClient => NoneLeft'
    BY <2>1 DEF StaleInv, WarnInv, NoneLeft
  <2> QED
    BY <2>1, <2>2, <2>3, KeptStale
<1>3. ASSUME NEW f \in Fds, process_dfx_req(f)
      PROVE  StaleInv'
  BY <1>3, ProcessStale
<1> QED
  BY <1>1, <1>2, <1>3 DEF Visit

\* A call ends without a reply: nothing of it is under way.
LEMMA ErrorStale ==
    ASSUME CallInv, StaleInv, NEW c \in Clients, cl[c].pc # "idle",
           NEW val \in {"ok", "error"}, Return(c, cl[c].op, val, 0),
           UNCHANGED <<host, server, backlog, outbox, tables>>,
           inbox' \subseteq inbox, \A r \in inbox' : r.conn # cl[c].conn,
           serving # NULL => serving.conn # cl[c].conn
    PROVE  StaleInv'
<1>1. cl \in [Clients -> ClientSet] /\ cl[c].op \in Ops
  BY OwnConn DEF CallInv, Shape
<1>2. val \in {"ok", "error", "refused"}
  OBVIOUS
<1>3. /\ \A d \in Clients : d # c => cl'[d] = cl[d]
      /\ cl'[c].pc = "idle" /\ cl'[c].seen = cl[c].seen
      /\ open' = IF c \in Library THEN open ELSE open \ {cl[c].conn}
  BY <1>1, <1>2, ReturnFacts
<1>4. /\ host' = host /\ up' = up /\ serving' = serving /\ outbox' = outbox
      /\ version' = version /\ dirty' = dirty
  BY DEF server, tables
<1>5. IdsListed'
  BY <1>3 DEF StaleInv, IdsListed
<1>6. OneClient => NoneLeft'
  BY <1>3, <1>4 DEF StaleInv, WarnInv, NoneLeft
<1>7. \A d \in host.clients : cl'[d].seen = cl[d].seen
  BY <1>3, HostFacts DEF CallInv, Shape
<1> QED
  BY <1>4, <1>5, <1>6, <1>7, KeptStale

LEMMA EofStale ==
    ASSUME CallInv, StaleInv, NEW c \in Clients, recv_eof(c)
    PROVE  StaleInv'
<1>1. /\ UNCHANGED <<host, server, backlog, outbox, tables>>
      /\ cl[c].pc = "waiting" /\ ~Alive(cl[c].conn)
      /\ inbox' = inbox \ {r \in inbox : r.conn = cl[c].conn}
  BY DEF recv_eof
<1>2. PICK val \in {"ok", "error"} : Return(c, cl[c].op, val, 0)
  BY DEF recv_eof, OutcomesOfEof
<1>3. serving # NULL => serving.conn # cl[c].conn
  BY <1>1 DEF CallInv, ServingOne, Alive
<1>4. inbox' \subseteq inbox /\ \A r \in inbox' : r.conn # cl[c].conn
  BY <1>1
<1> QED
  BY <1>1, <1>2, <1>3, <1>4, ErrorStale

LEMMA SendStale ==
    ASSUME CallInv, StaleInv, NEW c \in Clients, NEW h \in Handles, send_msg(c, h)
    PROVE  StaleInv'
<1> DEFINE q == [conn |-> cl[c].conn, op |-> cl[c].op, ver |-> cl[c].seen, h |-> h]
<1>1. UNCHANGED <<host, server, backlog, outbox, tables>> /\ cl[c].pc = "connected"
  BY DEF send_msg
<1>2. /\ cl \in [Clients -> ClientSet] /\ cl[c].conn \in open
      /\ \A r \in inbox : r.conn # cl[c].conn
      /\ serving # NULL => serving.conn # cl[c].conn
  BY <1>1, OwnConn DEF CallInv, Shape
<1>3. CASE Alive(cl[c].conn)
  <2>1. inbox' = inbox \cup {q} /\ open' = open
        /\ cl' = [cl EXCEPT ![c].pc = "waiting"]
    BY <1>3 DEF send_msg
  <2>2. q.conn = cl[c].conn
    OBVIOUS
  <2> HIDE DEF q
  <2>3. \A d \in Clients : /\ cl'[d].op = cl[d].op /\ cl'[d].seen = cl[d].seen
                           /\ cl'[d].pc = IF d = c THEN "waiting" ELSE cl[d].pc
    BY <1>2, <2>1 DEF ClientSet
  <2>4. IdsListed'
    BY <1>1, <2>3 DEF StaleInv, IdsListed
  <2>5. /\ host' = host /\ up' = up /\ serving' = serving /\ outbox' = outbox
        /\ version' = version /\ dirty' = dirty
    BY <1>1 DEF server, tables
  <2>6. OneClient => NoneLeft'
    BY <1>2, <2>1, <2>2, <2>5 DEF StaleInv, WarnInv, NoneLeft
  <2>7. \A d \in host.clients : cl'[d].seen = cl[d].seen
    BY <2>3, HostFacts DEF CallInv, Shape
  <2> QED
    BY <2>4, <2>5, <2>6, <2>7, KeptStale
<1>4. CASE ~Alive(cl[c].conn)
  <2>1. Return(c, cl[c].op, "error", 0) /\ inbox' = inbox
    BY <1>4 DEF send_msg
  <2>2. cl[c].pc # "idle" /\ "error" \in {"ok", "error"}
    BY <1>1
  <2> QED
    BY <1>1, <1>2, <2>1, <2>2, ErrorStale
<1> QED
  BY <1>3, <1>4

\* The client reads the reply; that of a listing is current, or the flag is set.
LEMMA ReadStale ==
    ASSUME CallInv, StaleInv, NEW c \in Clients, recv_msg(c)
    PROVE  StaleInv'
<1>1. PICK r \in outbox : Reads(c, r)
  BY ReadFacts
<1>2. /\ host' = host /\ up' = up /\ serving' = serving /\ inbox' = inbox
      /\ version' = version /\ dirty' = dirty /\ cl[c].pc = "waiting"
      /\ open' = IF c \in Library THEN open ELSE open \ {cl[c].conn}
  BY DEF recv_msg, server, tables
<1>3. /\ r.conn = cl[c].conn /\ outbox' = outbox \ {r}
      /\ \A d \in Clients : d # c => cl'[d] = cl[d]
      /\ cl'[c].pc = "idle"
      /\ cl'[c].seen = IF r.op = "list" THEN r.ver ELSE cl[c].seen
  BY <1>1 DEF Reads
<1>4. IdsListed'
  BY <1>3 DEF StaleInv, IdsListed
<1>5. ASSUME OneClient
      PROVE  WarnInv'
  <2>1. WarnInv
    BY <1>5 DEF StaleInv
  <2>2. up
    BY <2>1 DEF WarnInv, NoneYet
  <2>3. NoneLeft'
    <3>1. /\ \A s \in inbox : s.conn # cl[c].conn
          /\ serving # NULL => serving.conn # cl[c].conn
      BY <1>3 DEF CallInv, RepliesOne
    <3> QED
      BY <1>2, <2>1, <3>1 DEF WarnInv, NoneLeft
  <2>4. host.clients \subseteq Clients
    BY HostFacts DEF CallInv, Shape
  <2>5. FlagSet'
    <3>1. CASE r.op = "list"
      <4>1. \A d \in host.clients : d = c
        <5>1. host \in Hosts /\ r.conn \in HostConns
          BY <1>1 DEF CallInv, Shape, Reads, Replies
        <5>2. c \in host.clients
          BY <1>2, <1>3, <5>1, OwnConn, ConnOfClient
        <5> QED
          BY <1>5, <5>1, <5>2, OnlyClient
      <4>2. r.ver = version \/ dirty
        BY <2>1, <3>1 DEF WarnInv, ListingsCurrent
      <4>3. cl'[c].seen = r.ver
        BY <1>3, <3>1
      <4> QED
        BY <1>2, <4>1, <4>2, <4>3 DEF FlagSet
    <3>2. CASE r.op # "list"
      <4>1. ListingSent => ListingSent'
        BY <1>2, <1>3, <3>2 DEF ListingSent
      <4>2. \A d \in host.clients : cl'[d].seen = cl[d].seen
        BY <1>3, <2>4, <3>2
      <4> QED
        BY <1>2, <2>1, <4>1, <4>2 DEF WarnInv, FlagSet
    <3> QED
      BY <3>1, <3>2
  <2>6. (ListingsCurrent /\ NoneYet /\ ServingWarned)'
    BY <1>2, <1>3, <2>1, <2>2 DEF WarnInv, ListingsCurrent, NoneYet, ServingWarned
  <2>7. StaleIdWarned'
    BY <1>2, <1>3, <1>5, <2>1, SameHost DEF WarnInv, StaleIdWarned, OneClient
  <2> QED
    BY <2>3, <2>5, <2>6, <2>7 DEF WarnInv
<1> QED
  BY <1>2, <1>4, <1>5, SameHost DEF StaleInv

LEMMA ConnectStale ==
    ASSUME CallInv, StaleInv, NEW c \in host.clients, NEW op \in host.calls,
           initSocket(c, op)
    PROVE  StaleInv'
<1>1. /\ c \in Clients /\ host' = host /\ up' = up /\ serving' = serving
      /\ inbox' = inbox /\ outbox' = outbox /\ version' = version /\ dirty' = dirty
      /\ RefusedCall(c, op) \/ \E k \in HostConns : ConnectedCall(c, op, k)
  BY ConnectFacts
<1>2. /\ \A d \in Clients : d # c => cl'[d] = cl[d]
      /\ cl'[c].seen = cl[c].seen /\ (cl'[c].pc = "idle" \/ cl'[c].op = op)
      /\ open \subseteq open'
  BY <1>1 DEF RefusedCall, ConnectedCall
<1>3. allow_warn(op) => cl[c].seen >= 0
  BY DEF initSocket
<1>4. IdsListed'
  BY <1>2, <1>3 DEF StaleInv, IdsListed
<1>5. OneClient => NoneLeft'
  BY <1>1, <1>2 DEF StaleInv, WarnInv, NoneLeft
<1>6. \A d \in host.clients : cl'[d].seen = cl[d].seen
  BY <1>2, HostFacts DEF CallInv, Shape
<1> QED
  BY <1>1, <1>4, <1>5, <1>6, KeptStale

LEMMA StaleStart == Init => StaleInv
<1> SUFFICES ASSUME Init
             PROVE  StaleInv
  OBVIOUS
<1>1. /\ inbox = {} /\ outbox = {} /\ serving = NULL /\ host \in Hosts
      /\ \A c \in Clients : cl[c].pc = "idle" /\ cl[c].seen = -1
  BY DEF Init, Idle
<1>2. host.clients \subseteq Clients
  BY <1>1, HostFacts
<1>3. IdsListed
  BY <1>1 DEF IdsListed
<1>4. WarnInv
  BY <1>1, <1>2 DEF WarnInv, NoneLeft, FlagSet, ListingsCurrent, NoneYet,
                    ServingWarned, StaleIdWarned
<1> QED
  BY <1>3, <1>4 DEF StaleInv

LEMMA StaleStep == CallInv /\ StaleInv /\ [Next]_vars => StaleInv'
<1> SUFFICES ASSUME CallInv, StaleInv, [Next]_vars
             PROVE  StaleInv'
  OBVIOUS
<1>1. CASE start
  BY <1>1, StartStale
<1>2. CASE stop
  <2>1. host' = host /\ cl' = cl /\ ~OneClient
    BY <1>2 DEF stop, OneClient, KeepsRunning
  <2> QED
    BY <2>1, SameHost DEF StaleInv, IdsListed
<1>3. CASE Visit
  BY <1>3, VisitStale
<1>4. CASE select \/ UNCHANGED vars
  <2>1. /\ host' = host /\ up' = up /\ open' = open /\ outbox' = outbox /\ cl' = cl
        /\ serving' = serving /\ version' = version /\ dirty' = dirty /\ inbox' = inbox
    BY <1>4 DEF select, tables, vars
  <2>2. IdsListed'
    BY <2>1 DEF StaleInv, IdsListed
  <2>3. OneClient => NoneLeft'
    BY <2>1 DEF StaleInv, WarnInv, NoneLeft
  <2> QED
    BY <2>1, <2>2, <2>3, KeptStale
<1>5. CASE reply
  BY <1>5, ReplyStale
<1>6. CASE packages_change
  BY <1>6, PackagesStale
<1>7. ASSUME NEW c \in host.clients, NEW op \in host.calls, initSocket(c, op)
      PROVE  StaleInv'
  BY <1>7, ConnectStale
<1>8. ASSUME NEW c \in Clients, Client(c)
      PROVE  StaleInv'
  BY <1>8, SendStale, ReadStale, EofStale DEF Client
<1>9. ASSUME NEW c \in Clients, interrupt(c)
      PROVE  StaleInv'
  <2>1. host' = host /\ ~OneClient
    BY <1>9 DEF interrupt, OneClient, KeepsRunning
  <2>2. cl' = [cl EXCEPT ![c] = [Idle EXCEPT !.seen = cl[c].seen]]
    BY <1>9 DEF interrupt
  <2>3. cl \in [Clients -> ClientSet]
    BY DEF CallInv, Shape
  <2>4. (\A d \in Clients : d # c => cl'[d] = cl[d]) /\ cl'[c].pc = "idle"
    BY <2>2, <2>3 DEF Idle
  <2> QED
    BY <2>1, <2>4, SameHost DEF StaleInv, IdsListed
<1> QED
  BY <1>1, <1>2, <1>3, <1>4, <1>5, <1>6, <1>7, <1>8, <1>9 DEF Next

\* The only client of a daemon that keeps running is warned whenever it names
\* an ID of an old numbering, however the changes of the packages fall between
\* its requests, their processing and their replies (format_load_response()).
THEOREM StaleWarned == Spec => []StaleIdWarned
<1>1. StaleInv => StaleIdWarned
  BY DEF StaleInv, WarnInv, OneClient, StaleIdWarned
<1> QED
  BY <1>1, StaleStart, StaleStep, CallInvariant, PTL DEF Spec
=============================================================================
