-------------------------- MODULE AcapdAccelProofs --------------------------
(***************************************************************************)
(* Proofs about AcapdAccel: for every set of packages and every bound, the *)
(* type invariant, UnloadedIsClear and RemovedIsGone.                      *)
(*                                                                         *)
(* load_accel() and remove_accel() are sequences of calls, each a function *)
(* of the state w the one before it left.  One lemma per call says what it *)
(* keeps and what it may change; the lemma of an action puts the lemmas of *)
(* its calls together.                                                     *)
(***************************************************************************)
EXTENDS AcapdAccel, FiniteSetTheorems, TLAPS

-----------------------------------------------------------------------------
(* The inductive invariant.                                                *)

\* Each mapped device has a descriptor, so that closing it is not one too many.
MappedOpen == fds >= Cardinality(va)

\* With ACCEL_CONFIG_PATH an object never becomes loaded.
EnvUnloaded == EnvConfig => accel.status = "UNLOADED"

\* What is in the PL is the configuration the object in use knows.
OnlyLoaded ==
    (DevicesOpen \/ EnvConfig) /\ CfgsGo =>
        \A i \in Cfgs : cfgs[i] = "loaded" => accel.status = "INUSE" /\ i = accel.cfg

\* Where no device needs the driver, the descriptors are those of the mapped
\* devices, and only an object in use has any.
NoLeak ==
    DevicesOpen /\ ~EnvConfig /\ NoDriver = {} =>
        fds = Cardinality(va) /\ (accel.status # "INUSE" => va = {})

\* Only an object in use has channels open.
ChnlsClosed == ~EnvConfig /\ accel.status # "INUSE" => accel.chnls # "open"

AccelInv ==
    /\ TypeOK /\ MappedOpen /\ EnvUnloaded /\ OnlyLoaded /\ NoLeak /\ ChnlsClosed
    /\ RemovedIsGone

-----------------------------------------------------------------------------
(* The state between two calls.                                            *)

AccelSet == [status: {"UNLOADED", "INUSE", "UNLOADING"}, is_cached: BOOLEAN,
             load_failure: BOOLEAN, cfg: Cfgs \cup {0}, has_devs: BOOLEAN,
             chnls: {"none", "closed", "open"}, dir: 0 .. MaxTmp]

Work == [accel: AccelSet, va: SUBSET Devs,
         cfgs: [Cfgs -> {"none", "init", "loaded", "destroyed"}],
         bound: SUBSET NoDriver, fds: Int, vfio: BOOLEAN, tmp: SUBSET (1 .. MaxTmp),
         val: {"SUCCESS", "FAILURE", "EINVAL", "INPROGRESS"}]

\* From w to x the object keeps its status and configuration, and opens no
\* channel.
SameObject(w, x) ==
    /\ x.accel.status = w.accel.status
    /\ x.accel.is_cached = w.accel.is_cached
    /\ x.accel.cfg = w.accel.cfg
    /\ x.accel.chnls = "open" => w.accel.chnls = "open"

\* From w to x neither the PL nor the descriptors change.
SamePL(w, x) == x.cfgs = w.cfgs /\ x.bound = w.bound /\ x.fds = w.fds

LEMMA PackageFacts ==
    ASSUME package \in Packages
    PROVE  /\ package.devs \in Nat /\ package.no_driver \subseteq 1 .. package.devs
           /\ package.flat \in BOOLEAN /\ package.tar_gz \in BOOLEAN
           /\ package.env_config \in BOOLEAN /\ package.may_fail \subseteq Steps
           /\ MaxCfgs \in Nat \ {0} /\ MaxFds \in Nat /\ MaxTmp \in Nat
<1>1. /\ package \in Package /\ package.no_driver \subseteq 1 .. package.devs
      /\ MaxCfgs \in Nat \ {0} /\ MaxFds \in Nat /\ MaxTmp \in Nat
  BY AccelAssumption
<1>2. package.devs \in 0 .. 8
  BY <1>1 DEF Package
<1>3. 0 .. 8 \subseteq Nat
  OBVIOUS
<1> QED
  BY <1>1, <1>2, <1>3 DEF Package

\* Subsets of an interval, and what their cardinalities come to.
LEMMA IntervalSets ==
    ASSUME NEW n \in Nat, NEW S \in SUBSET (1 .. n)
    PROVE  /\ IsFiniteSet(S) /\ Cardinality(S) \in 0 .. n
           /\ IsFiniteSet(1 .. n) /\ Cardinality(1 .. n) = n
<1>1. IsFiniteSet(1 .. n) /\ Cardinality(1 .. n) = n
  BY FS_Interval
<1>2. IsFiniteSet(S) /\ Cardinality(S) <= n
  BY <1>1, FS_Subset
<1>3. Cardinality(S) \in Nat
  BY <1>2, FS_CardinalityType
<1> QED
  BY <1>1, <1>2, <1>3

LEMMA OneMore ==
    ASSUME NEW S, IsFiniteSet(S), NEW d
    PROVE  /\ Cardinality(S \cup {d}) \in Nat
           /\ Cardinality(S \cup {d}) <= Cardinality(S) + 1
           /\ d \notin S => Cardinality(S \cup {d}) = Cardinality(S) + 1
<1>1. Cardinality(S) \in Nat
  BY FS_CardinalityType
<1>2. CASE d \in S
  <2>1. Cardinality(S \cup {d}) = Cardinality(S)
    <3>1. S \cup {d} = S
      BY <1>2
    <3> QED
      BY <3>1
  <2> QED
    BY <1>1, <1>2, <2>1
<1>3. CASE d \notin S
  BY <1>1, <1>3, FS_AddElement
<1> QED
  BY <1>2, <1>3

LEMMA NowTyped == TypeOK => Now \in Work
BY DEF TypeOK, Now, Work, AccelSet

-----------------------------------------------------------------------------
(* The calls of load_accel().                                              *)

\* A directory is left for the next archive.
LEMMA DirectoryLeft ==
    ASSUME MaxTmp \in Nat, NEW t \in SUBSET (1 .. MaxTmp), Cardinality(t) < MaxTmp
    PROVE  (CHOOSE k \in (1 .. MaxTmp) \ t : TRUE) \in 1 .. MaxTmp
<1>1. t # 1 .. MaxTmp
  BY IntervalSets
<1>2. \E k \in (1 .. MaxTmp) \ t : TRUE
  BY <1>1
<1> QED
  BY <1>2

LEMMA ParseJson ==
    ASSUME NEW w \in Work, NEW fault
    PROVE  LET x == parseAccelJson(w, fault)
           IN  /\ x \in Work /\ SameObject(w, x) /\ SamePL(w, x)
               /\ x.va = w.va \/ x.va = {}
               /\ x.val = w.val
<1> DEFINE c == IF package.chnls THEN "closed" ELSE w.accel.chnls
           a == [w.accel EXCEPT !.has_devs = TRUE, !.chnls = c]
           j == [w EXCEPT !.va = {}, !.accel = a]
<1>1. parseAccelJson(w, fault) \in {w, j}
  BY DEF parseAccelJson, Work
<1>2. c \in {"closed", w.accel.chnls} /\ w.accel \in AccelSet
  BY DEF Work
<1> HIDE DEF c
<1>3. /\ a \in AccelSet /\ a.status = w.accel.status /\ a.is_cached = w.accel.is_cached
      /\ a.cfg = w.accel.cfg /\ (a.chnls = "open" => w.accel.chnls = "open")
  BY <1>2 DEF AccelSet
<1> HIDE DEF a
<1>4. /\ j \in Work /\ j.accel = a /\ j.va = {} /\ j.cfgs = w.cfgs /\ j.bound = w.bound
      /\ j.fds = w.fds /\ j.val = w.val
  BY <1>3 DEF Work
<1> HIDE DEF j
<1> QED
  BY <1>1, <1>3, <1>4 DEF SameObject, SamePL

LEMMA Config ==
    ASSUME MaxTmp \in Nat, NEW w \in Work, NEW fault, Cardinality(w.tmp) < MaxTmp
    PROVE  LET x == sys_accel_config(w, fault)
           IN  /\ x \in Work /\ SameObject(w, x) /\ SamePL(w, x)
               /\ x.va = w.va \/ x.va = {}
<1> DEFINE n == CHOOSE k \in (1 .. MaxTmp) \ w.tmp : TRUE
           e == [w EXCEPT !.tmp = @ \cup {n}, !.accel.dir = n]
<1>1. w.tmp \in SUBSET (1 .. MaxTmp)
  BY DEF Work
<1>2. n \in 1 .. MaxTmp
  BY <1>1, DirectoryLeft
<1>3. e \in Work /\ SameObject(w, e) /\ SamePL(w, e) /\ e.va = w.va
  <2> DEFINE a == [w.accel EXCEPT !.dir = n]
             t == w.tmp \cup {n}
  <2>1. e = [w EXCEPT !.tmp = t, !.accel = a]
    BY DEF Work
  <2>2. a \in AccelSet /\ a.status = w.accel.status /\ a.is_cached = w.accel.is_cached
        /\ a.cfg = w.accel.cfg /\ a.chnls = w.accel.chnls
    <3> HIDE DEF n
    <3>1. w.accel \in AccelSet /\ n \in 0 .. MaxTmp
      BY <1>2 DEF Work
    <3> QED
      BY <3>1 DEF AccelSet
  <2>3. t \in SUBSET (1 .. MaxTmp)
    BY <1>1, <1>2
  <2> HIDE DEF e, a, t
  <2> QED
    BY <2>1, <2>2, <2>3 DEF Work, SameObject, SamePL
<1>4. LET x == parseAccelJson(e, fault)
      IN  /\ x \in Work /\ SameObject(e, x) /\ SamePL(e, x)
          /\ x.va = e.va \/ x.va = {}
  BY <1>3, ParseJson
<1>5. LET x == Stopped(e, "FAILURE")
      IN  x \in Work /\ SameObject(e, x) /\ SamePL(e, x) /\ x.va = e.va
  BY <1>3 DEF Stopped, Work, AccelSet, SameObject, SamePL
<1>6. CASE ~TarGz \/ EnvConfig
  <2>1. sys_accel_config(w, fault) = parseAccelJson(w, fault)
    BY <1>6 DEF sys_accel_config
  <2> QED
    BY <2>1, ParseJson
<1>7. CASE ~(~TarGz \/ EnvConfig) /\ fault = "extract"
  <2>1. sys_accel_config(w, fault) = Stopped(e, "FAILURE")
    BY <1>7 DEF sys_accel_config
  <2> QED
    BY <2>1, <1>3, <1>5 DEF SameObject, SamePL
<1>8. CASE ~(~TarGz \/ EnvConfig) /\ fault # "extract"
  <2>1. sys_accel_config(w, fault) = parseAccelJson(e, fault)
    BY <1>8 DEF sys_accel_config
  <2> QED
    BY <2>1, <1>3, <1>4 DEF SameObject, SamePL
<1> QED
  BY <1>6, <1>7, <1>8

LEMMA ParseConfig ==
    ASSUME MaxTmp \in Nat, NEW w \in Work, NEW fault, Cardinality(w.tmp) < MaxTmp
    PROVE  LET x == acapd_parse_config(w, fault)
           IN  /\ x \in Work /\ SameObject(w, x) /\ SamePL(w, x)
               /\ x.va = w.va \/ x.va = {}
<1> DEFINE c == IF Flat THEN w ELSE sys_accel_config(w, fault)
<1>1. c \in Work /\ SameObject(w, c) /\ SamePL(w, c) /\ (c.va = w.va \/ c.va = {})
  <2>1. CASE Flat
    BY <2>1 DEF SameObject, SamePL
  <2>2. CASE ~Flat
    BY <2>2, Config
  <2> QED
    BY <2>1, <2>2
<1>2. LET x == parseShellJson(c, fault)
      IN  x \in Work /\ SameObject(c, x) /\ SamePL(c, x) /\ x.va = c.va
  <2> HIDE DEF c
  <2> QED
    BY <1>1 DEF parseShellJson, Stopped, Work, AccelSet, SameObject, SamePL
<1>3. acapd_parse_config(w, fault) \in {c, parseShellJson(c, fault)}
  BY DEF acapd_parse_config
<1> HIDE DEF c
<1> QED
  BY <1>1, <1>2, <1>3 DEF SameObject, SamePL

\* A fetch that succeeds leaves the object with a configuration.
LEMMA Fetch ==
    ASSUME NEW w \in Work, NEW fault, \E i \in Cfgs : w.cfgs[i] = "none",
           w.accel.is_cached => w.accel.cfg # 0
    PROVE  LET x == sys_fetch_accel(w, fault)
           IN  /\ x \in Work
               /\ x.accel.status = w.accel.status /\ x.accel.chnls = w.accel.chnls
               /\ x.accel.is_cached => x.accel.cfg # 0
               /\ x.val = "SUCCESS" => x.accel.is_cached
               /\ \A i \in Cfgs : x.cfgs[i] = "loaded" => w.cfgs[i] = "loaded"
               /\ x.va = w.va /\ x.fds = w.fds
<1>1. FreshCfg(w) \in Cfgs
  BY DEF FreshCfg
<1>2. FreshCfg(w) # 0
  BY <1>1 DEF Cfgs
<1>3. CASE w.val # "SUCCESS" \/ w.accel.is_cached
  BY <1>3 DEF sys_fetch_accel, Work
<1>4. CASE ~(w.val # "SUCCESS" \/ w.accel.is_cached) /\ fault = "fetch"
  BY <1>4 DEF sys_fetch_accel, Stopped, Work, AccelSet
<1>5. CASE ~(w.val # "SUCCESS" \/ w.accel.is_cached) /\ fault # "fetch"
  <2> DEFINE k == FreshCfg(w)
             x == [w EXCEPT !.cfgs[k] = "init", !.accel.cfg = k,
                            !.accel.is_cached = TRUE]
  <2>1. sys_fetch_accel(w, fault) = x
    BY <1>5 DEF sys_fetch_accel
  <2>2. k \in Cfgs /\ k # 0
    BY <1>1, <1>2
  <2> HIDE DEF k
  <2>3. x \in Work /\ x.accel.status = w.accel.status /\ x.accel.cfg # 0
        /\ x.accel.chnls = w.accel.chnls /\ x.accel.is_cached /\ x.va = w.va /\ x.fds = w.fds
    BY <2>2 DEF Work, AccelSet
  <2>4. x.cfgs = [w.cfgs EXCEPT ![k] = "init"]
    BY DEF Work
  <2>5. \A i \in Cfgs : x.cfgs[i] = "loaded" => w.cfgs[i] = "loaded"
    BY <2>2, <2>4 DEF Work
  <2> QED
    BY <2>1, <2>3, <2>5
<1> QED
  BY <1>3, <1>4, <1>5

-----------------------------------------------------------------------------
(* Opening devices.                                                        *)

\* Opening the device d: what becomes of the descriptors, and that d is mapped
\* if nothing fails.
LEMMA OpenOne ==
    ASSUME NEW w \in Work, NEW d \in Devs, NEW fault, w.val = "SUCCESS"
    PROVE  LET x == acapd_generic_device_open(w, d, fault)
           IN  /\ x \in Work /\ x.accel = w.accel /\ x.cfgs = w.cfgs
               /\ \/ x.va = w.va /\ x.fds \in {w.fds, w.fds + 1}
                     /\ fault \in {"bind", "uio", "open"}
                  \/ x.va = w.va \cup {d} /\ x.fds \in {w.fds + 1, w.fds + 2}
                     /\ (NoDriver = {} => x.fds = w.fds + 1)
                     /\ x.val = "SUCCESS"
<1> DEFINE b == acapd_generic_device_bind(w, d, fault)
           u == acapd_generic_device_get_uio_path(b, fault)
           x == acapd_generic_device_open(w, d, fault)
<1>1. /\ b \in Work /\ b.accel = w.accel /\ b.cfgs = w.cfgs /\ b.va = w.va
      /\ b.fds \in {w.fds, w.fds + 1} /\ (NoDriver = {} => b.fds = w.fds)
      /\ b.val = "SUCCESS" \/ fault = "bind"
  <2> DEFINE B == w.bound \cup {d}
             F == w.fds + 1
  <2>1. CASE fault = "bind"
    BY <2>1 DEF acapd_generic_device_bind, Stopped, Work
  <2>2. CASE fault # "bind" /\ d \in NoDriver \ w.bound
    <3>1. b = [w EXCEPT !.bound = B, !.fds = F]
      BY <2>2 DEF acapd_generic_device_bind
    <3>2. B \in SUBSET NoDriver /\ F \in Int
      BY <2>2 DEF Work
    <3> HIDE DEF b, B
    <3> QED
      BY <2>2, <3>1, <3>2 DEF Work
  <2>3. CASE fault # "bind" /\ d \notin NoDriver \ w.bound
    BY <2>3 DEF acapd_generic_device_bind
  <2> QED
    BY <2>1, <2>2, <2>3
<1>2. /\ u \in Work /\ u.accel = w.accel /\ u.cfgs = w.cfgs /\ u.va = w.va
      /\ u.fds \in {w.fds, w.fds + 1} /\ (NoDriver = {} => u.fds = w.fds)
      /\ u.val = "SUCCESS" \/ fault \in {"bind", "uio"}
  <2> HIDE DEF b
  <2> QED
    BY <1>1 DEF acapd_generic_device_get_uio_path, Stopped, Work
<1>3. x = IF u.val # "SUCCESS" THEN u
          ELSE IF fault = "open" THEN Stopped(u, "EINVAL")
          ELSE [u EXCEPT !.va = @ \cup {d}, !.fds = @ + 1]
  BY DEF acapd_generic_device_open
<1> HIDE DEF u, x
<1>4. CASE u.val # "SUCCESS"
  BY <1>2, <1>3, <1>4 DEF x
<1>5. CASE u.val = "SUCCESS" /\ fault = "open"
  BY <1>2, <1>3, <1>5 DEF Stopped, Work, x
<1>6. CASE u.val = "SUCCESS" /\ fault # "open"
  <2>1. x = [u EXCEPT !.va = @ \cup {d}, !.fds = @ + 1]
    BY <1>3, <1>6
  <2>2. /\ x \in Work /\ x.accel = u.accel /\ x.cfgs = u.cfgs /\ x.va = u.va \cup {d}
        /\ x.fds = u.fds + 1 /\ x.val = "SUCCESS" /\ w.fds \in Int
    <3> DEFINE V == u.va \cup {d}
               F == u.fds + 1
    <3>1. V \in SUBSET Devs /\ F \in Int /\ w.fds \in Int
      BY <1>2 DEF Work
    <3>2. x = [u EXCEPT !.va = V, !.fds = F]
      BY <2>1
    <3> HIDE DEF V
    <3>3. x \in Work /\ x.accel = u.accel /\ x.cfgs = u.cfgs /\ x.va = V
          /\ x.fds = F /\ x.val = u.val
      BY <3>1, <3>2, <1>2 DEF Work
    <3> QED
      BY <3>1, <3>3, <1>6 DEF V
  <2>3. x.fds \in {w.fds + 1, w.fds + 2} /\ (NoDriver = {} => x.fds = w.fds + 1)
    BY <2>2, <1>2
  <2> QED
    BY <2>2, <2>3, <1>2 DEF x
<1> QED
  BY <1>4, <1>5, <1>6

\* From w to x devices were opened: at most two descriptors for each, one at
\* least for each that is mapped, and exactly one where the driver is there.
Opened(w, x) ==
    /\ x \in Work /\ x.accel = w.accel /\ x.cfgs = w.cfgs
    /\ w.fds <= x.fds /\ x.fds <= w.fds + 2 * package.devs
    /\ w.fds >= Cardinality(w.va) => x.fds >= Cardinality(x.va)
    /\ DevicesOpen => x.val = "SUCCESS"
    /\ DevicesOpen /\ NoDriver = {} /\ w.va = {} /\ w.fds = 0 =>
          x.fds = Cardinality(x.va)

LEMMA MayFailIn ==
    ASSUME NEW steps, NEW fault \in Faults(steps), DevicesOpen
    PROVE  fault \notin {"bind", "uio", "open"}
BY DEF Faults, DevicesOpen

LEMMA OpenAll ==
    ASSUME package \in Packages, NEW w \in Work, NEW steps, NEW fault \in Faults(steps),
           NEW at \in LastTried(fault), w.val = "SUCCESS"
    PROVE  Opened(w, opened(w, fault, at))
<1> DEFINE n == at
           before == 1 .. n - 1
           lacking == (NoDriver \cap before) \ w.bound
           m == [w EXCEPT !.bound = @ \cup lacking, !.va = @ \cup before,
                          !.fds = @ + (n - 1) + Cardinality(lacking)]
           x == acapd_generic_device_open(m, n, fault)
<1>1. /\ n \in Nat /\ package.devs \in Nat /\ n <= package.devs
      /\ fault \notin {"bind", "uio", "open"} => n = package.devs
  BY PackageFacts DEF LastTried, Devs
<1>2. w.va \in SUBSET (1 .. package.devs) /\ IsFiniteSet(w.va) /\ Cardinality(w.va) \in Nat
  <2>1. w.va \in SUBSET (1 .. package.devs)
    BY DEF Work, Devs
  <2> QED
    BY <2>1, <1>1, IntervalSets
<1>3. w.fds \in Int
  BY DEF Work
<1>4. CASE n = 0
  <2>1. opened(w, fault, at) = w
    BY <1>4 DEF opened
  <2>2. w.va = {} => Cardinality(w.va) = 0
    BY FS_EmptySet
  <2> QED
    BY <2>1, <2>2, <1>1, <1>2, <1>3 DEF Opened
<1>5. CASE n # 0
  <2>1. n - 1 \in Nat /\ n \in 1 .. package.devs /\ before \subseteq 1 .. package.devs
    BY <1>1, <1>5
  <2>2. IsFiniteSet(before) /\ Cardinality(before) = n - 1
    BY <2>1, IntervalSets
  <2>3. Cardinality(lacking) \in 0 .. n - 1 /\ (NoDriver = {} => Cardinality(lacking) = 0)
    <3>1. lacking \in SUBSET (1 .. n - 1)
      OBVIOUS
    <3>2. NoDriver = {} => lacking = {}
      OBVIOUS
    <3> QED
      BY <3>1, <3>2, <2>1, IntervalSets, FS_EmptySet
  <2>4. /\ m \in Work /\ m.accel = w.accel /\ m.cfgs = w.cfgs /\ m.val = "SUCCESS"
        /\ m.va = w.va \cup before /\ m.fds = w.fds + (n - 1) + Cardinality(lacking)
    <3>1. lacking \subseteq NoDriver /\ before \subseteq Devs
          /\ Cardinality(lacking) \in Int /\ n - 1 \in Int
      BY <2>1, <2>3 DEF Devs
    <3> DEFINE B == w.bound \cup lacking
               V == w.va \cup before
               F == w.fds + (n - 1) + Cardinality(lacking)
    <3> HIDE DEF lacking, before, n
    <3>2. B \in SUBSET NoDriver /\ V \in SUBSET Devs /\ F \in Int
      BY <3>1 DEF Work
    <3>3. m = [w EXCEPT !.bound = B, !.va = V, !.fds = F]
      OBVIOUS
    <3> HIDE DEF m, B, V, F
    <3>4. /\ m \in Work /\ m.accel = w.accel /\ m.cfgs = w.cfgs /\ m.val = w.val
          /\ m.va = V /\ m.fds = F
      BY <3>2, <3>3 DEF Work
    <3> QED
      BY <3>4 DEF V, F
  <2>5. opened(w, fault, at) = x
    BY <1>5 DEF opened
  <2>6. n \in Devs
    BY <2>1 DEF Devs
  <2>7. /\ x \in Work /\ x.accel = m.accel /\ x.cfgs = m.cfgs
        /\ \/ x.va = m.va /\ x.fds \in {m.fds, m.fds + 1}
              /\ fault \in {"bind", "uio", "open"}
           \/ x.va = m.va \cup {n} /\ x.fds \in {m.fds + 1, m.fds + 2}
              /\ (NoDriver = {} => x.fds = m.fds + 1)
              /\ x.val = "SUCCESS"
    <3> HIDE DEF m, n
    <3> QED
      BY <2>4, <2>6, OpenOne
  <2> HIDE DEF m, x, lacking, before, n
  <2>8. Cardinality(m.va) \in Nat /\ Cardinality(m.va) <= Cardinality(w.va) + (n - 1)
        /\ IsFiniteSet(m.va)
    <3>1. m.va = w.va \cup before
      BY <2>4
    <3>2. /\ IsFiniteSet(m.va)
          /\ Cardinality(m.va) = Cardinality(w.va) + Cardinality(before)
                                  - Cardinality(w.va \cap before)
      BY <3>1, <2>2, <1>2, FS_Union
    <3>3. Cardinality(w.va \cap before) \in Nat
      BY <2>2, <1>2, FS_Intersection, FS_CardinalityType
    <3>4. Cardinality(m.va) \in Nat
      BY <3>2, FS_CardinalityType
    <3> QED
      BY <3>2, <3>3, <3>4, <2>1, <2>2, <1>1, <1>2
  <2>9. Cardinality(m.va \cup {n}) \in Nat
        /\ Cardinality(m.va \cup {n}) <= Cardinality(m.va) + 1
    BY <2>8, OneMore
  <2>10. w.fds <= x.fds /\ x.fds <= w.fds + 2 * package.devs
    BY <2>1, <2>3, <2>4, <2>7, <1>1, <1>3
  <2>11. w.fds >= Cardinality(w.va) => x.fds >= Cardinality(x.va)
    <3>1. CASE x.va = m.va /\ x.fds \in {m.fds, m.fds + 1}
      BY <3>1, <2>1, <2>3, <2>4, <2>8, <1>1, <1>2, <1>3
    <3>2. CASE x.va = m.va \cup {n} /\ x.fds \in {m.fds + 1, m.fds + 2}
      BY <3>2, <2>1, <2>3, <2>4, <2>8, <2>9, <1>1, <1>2, <1>3
    <3> QED
      BY <3>1, <3>2, <2>7
  <2>12. DevicesOpen => x.val = "SUCCESS" /\ x.va = m.va \cup {n}
    BY <2>7, MayFailIn
  <2>13. DevicesOpen /\ NoDriver = {} /\ w.va = {} /\ w.fds = 0 =>
           x.fds = Cardinality(x.va)
    <3> SUFFICES ASSUME DevicesOpen, NoDriver = {}, w.va = {}, w.fds = 0
                 PROVE  x.fds = Cardinality(x.va)
      OBVIOUS
    <3>1. x.va = before \cup {n} /\ x.fds = n
      BY <2>1, <2>3, <2>4, <2>7, <2>12, MayFailIn
    <3>2. before \cup {n} = 1 .. n
      BY <1>1, <2>1 DEF before
    <3> QED
      BY <3>1, <3>2, <1>1, IntervalSets
  <2> QED
    BY <2>4, <2>5, <2>7, <2>10, <2>11, <2>12, <2>13 DEF Opened, n
<1> QED
  BY <1>4, <1>5

\* From w to x the configuration was loaded and the devices opened, or the
\* configuration was destroyed, or opening a device failed.
LEMMA Load ==
    ASSUME package \in Packages, NEW w \in Work, NEW steps, NEW fault \in Faults(steps),
           NEW at \in LastTried(fault), w.val = "SUCCESS", w.accel.cfg \in Cfgs,
           w.accel.is_cached
    PROVE  LET x == sys_load_accel(w, fault, at)
           IN  /\ x \in Work /\ x.accel = w.accel
               /\ \A i \in Cfgs : i # w.accel.cfg => x.cfgs[i] = w.cfgs[i]
               /\ w.fds <= x.fds /\ x.fds <= w.fds + 2 * package.devs
               /\ w.fds >= Cardinality(w.va) => x.fds >= Cardinality(x.va)
               /\ DevicesOpen =>
                     \/ x.val = "SUCCESS"
                     \/ /\ x.cfgs[w.accel.cfg] = "destroyed"
                        /\ x.va = w.va /\ x.fds = w.fds
               /\ DevicesOpen /\ NoDriver = {} /\ w.va = {} /\ w.fds = 0 =>
                     x.fds = Cardinality(x.va)
<1> DEFINE k == w.accel.cfg
           gone == [w.cfgs EXCEPT ![k] = "destroyed"]
           there == [w.cfgs EXCEPT ![k] = "loaded"]
           s == [w EXCEPT !.cfgs = gone, !.bound = {}, !.val = "FAILURE"]
           l == [w EXCEPT !.cfgs = there]
           x == sys_load_accel(w, fault, at)
<1>1. w.cfgs \in [Cfgs -> {"none", "init", "loaded", "destroyed"}] /\ k \in Cfgs
      /\ w.fds \in Int /\ package.devs \in Nat
  BY PackageFacts DEF Work
<1>2. /\ gone \in [Cfgs -> {"none", "init", "loaded", "destroyed"}]
      /\ there \in [Cfgs -> {"none", "init", "loaded", "destroyed"}]
      /\ gone[k] = "destroyed"
      /\ \A i \in Cfgs : i # k => gone[i] = w.cfgs[i] /\ there[i] = w.cfgs[i]
  <2> HIDE DEF k
  <2> QED
    BY <1>1
<1>3. /\ Stopped([w EXCEPT !.cfgs[w.accel.cfg] = "destroyed", !.bound = {}], "FAILURE") = s
      /\ [w EXCEPT !.cfgs[w.accel.cfg] = "loaded"] = l
  BY DEF Stopped, Work
<1> HIDE DEF gone, there
<1>4. s \in Work /\ s.accel = w.accel /\ s.cfgs = gone /\ s.va = w.va /\ s.fds = w.fds
  BY <1>2 DEF Work
<1>5. /\ l \in Work /\ l.accel = w.accel /\ l.cfgs = there /\ l.va = w.va /\ l.fds = w.fds
      /\ l.val = "SUCCESS"
  BY <1>2 DEF Work
<1>6. x = IF dfx_cfg_load_fails(w, fault) THEN s
          ELSE IF Flat \/ ~w.accel.has_devs THEN l ELSE opened(l, fault, at)
  BY <1>3 DEF sys_load_accel
<1> HIDE DEF s, l, k, x
<1>7. CASE x = s
  <2>1. w.va = {} => Cardinality(w.va) = 0
    BY FS_EmptySet
  <2>2. w.fds <= w.fds /\ w.fds <= w.fds + 2 * package.devs
    BY <1>1
  <2> QED
    BY <1>2, <1>4, <1>7, <2>1, <2>2 DEF x, k
<1>8. CASE x = l
  <2>1. w.va = {} => Cardinality(w.va) = 0
    BY FS_EmptySet
  <2>2. w.fds <= w.fds /\ w.fds <= w.fds + 2 * package.devs
    BY <1>1
  <2> QED
    BY <1>2, <1>5, <1>8, <2>1, <2>2 DEF x, k
<1>9. CASE x = opened(l, fault, at)
  <2>1. Opened(l, x)
    BY <1>5, <1>9, OpenAll
  <2> QED
    BY <1>2, <1>5, <2>1 DEF Opened, x, k
<1> QED
  BY <1>6, <1>7, <1>8, <1>9

-----------------------------------------------------------------------------
(* The invariant of the state r a call ends in.                            *)

Sound(r) ==
    /\ r \in Work
    /\ r.accel.status = "INUSE" => r.accel.is_cached
    /\ r.accel.is_cached => r.accel.cfg # 0
    /\ r.fds \in 0 .. MaxFds /\ r.fds >= Cardinality(r.va)
    /\ EnvConfig => r.accel.status = "UNLOADED"
    /\ (DevicesOpen \/ EnvConfig) /\ CfgsGo =>
          \A i \in Cfgs : r.cfgs[i] = "loaded" =>
              r.accel.status = "INUSE" /\ i = r.accel.cfg
    /\ DevicesOpen /\ ~EnvConfig /\ NoDriver = {} =>
          r.fds = Cardinality(r.va) /\ (r.accel.status # "INUSE" => r.va = {})
    /\ ~EnvConfig /\ r.accel.status # "INUSE" => r.accel.chnls # "open"

\* What a removal that reports success leaves.
Gone(r) ==
    DevicesOpen /\ CfgsGo /\ ~EnvConfig /\ NoDriver = {} /\ r.val = "SUCCESS" =>
        r.fds = 0 /\ r.accel.chnls # "open" /\ \A i \in Cfgs : r.cfgs[i] # "loaded"

LEMMA NowSound == AccelInv => Sound(Now) /\ Now.val = "SUCCESS"
<1> SUFFICES ASSUME AccelInv
             PROVE  Sound(Now) /\ Now.val = "SUCCESS"
  OBVIOUS
<1>1. Now \in Work
  BY NowTyped DEF AccelInv
<1>2. /\ Now.accel = accel /\ Now.va = va /\ Now.cfgs = cfgs /\ Now.fds = fds
      /\ Now.val = "SUCCESS"
  BY DEF Now
<1> QED
  BY <1>1, <1>2
     DEF AccelInv, TypeOK, MappedOpen, EnvUnloaded, OnlyLoaded, NoLeak, ChnlsClosed, Sound

LEMMA SetSound ==
    ASSUME package \in Packages, NEW r, Sound(r), NEW op, Set(r, op),
           op = "remove" => Gone(r)
    PROVE  AccelInv'
<1>1. /\ accel' = r.accel /\ va' = r.va /\ cfgs' = r.cfgs /\ bound' = r.bound
      /\ fds' = r.fds /\ vfio' = r.vfio /\ tmp' = r.tmp /\ ret' = [op |-> op, val |-> r.val]
      /\ package' = package
  BY DEF Set
<1>2. /\ Devs' = Devs /\ NoDriver' = NoDriver /\ EnvConfig' = EnvConfig
      /\ DevicesOpen' = DevicesOpen /\ CfgsGo' = CfgsGo
  BY <1>1 DEF Devs, NoDriver, EnvConfig, DevicesOpen, CfgsGo, MayFail
<1>3. TypeOK'
  BY <1>1, <1>2 DEF TypeOK, Sound, Work, AccelSet
<1>4. (MappedOpen /\ EnvUnloaded)'
  BY <1>1, <1>2 DEF MappedOpen, EnvUnloaded, Sound
<1>5. (OnlyLoaded /\ NoLeak /\ ChnlsClosed)'
  BY <1>1, <1>2 DEF OnlyLoaded, NoLeak, ChnlsClosed, Sound
<1>6. RemovedIsGone'
  <2>1. ret'.op = op /\ ret'.val = r.val
    BY <1>1
  <2> QED
    BY <1>1, <1>2, <2>1 DEF RemovedIsGone, Gone
<1> QED
  BY <1>3, <1>4, <1>5, <1>6 DEF AccelInv

LEMMA LoadStep == AccelInv /\ load_accel => AccelInv'
<1> SUFFICES ASSUME AccelInv, load_accel
             PROVE  AccelInv'
  OBVIOUS
<1> DEFINE steps == {"extract", "json", "shell", "fetch", "load", "bind", "uio", "open"}
<1>0. PICK fault \in Faults(steps) : \E at \in LastTried(fault) :
          LET p == acapd_parse_config(Now, fault)
              f == sys_fetch_accel(p, fault)
              l == sys_load_accel(f, fault, at)
          IN  IF p.val # "SUCCESS" \/ ~sys_needs_load_accel THEN Set(p, "load")
              ELSE IF f.val # "SUCCESS" THEN Set(f, "load")
              ELSE Set(IF l.val = "SUCCESS" THEN [l EXCEPT !.accel.status = "INUSE"]
                       ELSE [l EXCEPT !.accel.load_failure = TRUE], "load")
  BY DEF load_accel
<1>1. PICK at \in LastTried(fault) :
          LET p == acapd_parse_config(Now, fault)
              f == sys_fetch_accel(p, fault)
              l == sys_load_accel(f, fault, at)
          IN  IF p.val # "SUCCESS" \/ ~sys_needs_load_accel THEN Set(p, "load")
              ELSE IF f.val # "SUCCESS" THEN Set(f, "load")
              ELSE Set(IF l.val = "SUCCESS" THEN [l EXCEPT !.accel.status = "INUSE"]
                       ELSE [l EXCEPT !.accel.load_failure = TRUE], "load")
  BY <1>0
<1> HIDE DEF steps
<1>2. /\ accel.status # "INUSE" /\ (\E i \in Cfgs : cfgs[i] = "none")
      /\ Cardinality(tmp) < MaxTmp /\ fds + 2 * package.devs <= MaxFds
  BY DEF load_accel
<1>3. package \in Packages /\ MaxTmp \in Nat /\ MaxFds \in Nat /\ package.devs \in Nat
  BY PackageFacts DEF AccelInv, TypeOK
<1>4. Sound(Now) /\ Now.val = "SUCCESS"
  BY NowSound
<1>5. Now.accel = accel /\ Now.tmp = tmp /\ Now.cfgs = cfgs /\ Now.fds = fds /\ Now.va = va
  BY DEF Now
<1> DEFINE p == acapd_parse_config(Now, fault)
           f == sys_fetch_accel(p, fault)
           l == sys_load_accel(f, fault, at)
           u == [l EXCEPT !.accel.status = "INUSE"]
           b == [l EXCEPT !.accel.load_failure = TRUE]
<1>6. p \in Work /\ SameObject(Now, p) /\ SamePL(Now, p) /\ (p.va = va \/ p.va = {})
  <2>1. Now \in Work /\ Cardinality(Now.tmp) < MaxTmp
    BY <1>2, <1>4, <1>5 DEF Sound
  <2> QED
    BY <2>1, <1>3, <1>5, ParseConfig
<1> HIDE DEF p
<1>7. IsFiniteSet(va) /\ Cardinality(va) \in Nat /\ Cardinality({}) = 0
  <2>1. va \in SUBSET (1 .. package.devs)
    BY DEF AccelInv, TypeOK, Devs
  <2> QED
    BY <2>1, <1>3, IntervalSets, FS_EmptySet
<1>8. Sound(p) /\ p.accel.status # "INUSE"
  <2>1. p.accel.status = accel.status /\ p.accel.is_cached = accel.is_cached
        /\ p.accel.cfg = accel.cfg /\ p.cfgs = cfgs /\ p.fds = fds
        /\ (p.accel.chnls = "open" => accel.chnls = "open")
    BY <1>5, <1>6 DEF SameObject, SamePL
  <2>2. fds \in Int /\ fds >= Cardinality(va) /\ fds \in 0 .. MaxFds
    BY <1>3, <1>4, <1>5 DEF Sound, Work
  <2>3. fds >= Cardinality(p.va) /\ (Cardinality(va) = fds /\ va = {} => p.va = {} /\ fds = 0)
    BY <1>6, <1>7, <2>2
  <2>4. DevicesOpen /\ ~EnvConfig /\ NoDriver = {} => fds = Cardinality(p.va) /\ p.va = {}
    BY <1>2, <1>4, <1>5, <1>7, <2>3 DEF Sound
  <2> QED
    BY <1>2, <1>4, <1>5, <1>6, <2>1, <2>2, <2>3, <2>4 DEF Sound
<1>9. /\ f \in Work /\ f.accel.status = p.accel.status /\ f.accel.chnls = p.accel.chnls
      /\ f.accel.is_cached => f.accel.cfg # 0
      /\ f.val = "SUCCESS" => f.accel.is_cached
      /\ \A i \in Cfgs : f.cfgs[i] = "loaded" => p.cfgs[i] = "loaded"
      /\ f.va = p.va /\ f.fds = p.fds
  <2>1. \E i \in Cfgs : p.cfgs[i] = "none"
    BY <1>2, <1>5, <1>6 DEF SamePL
  <2>2. p.accel.is_cached => p.accel.cfg # 0
    BY <1>8 DEF Sound
  <2> QED
    BY <1>6, <2>1, <2>2, Fetch
<1> HIDE DEF f
<1>10. Sound(f) /\ f.accel.status # "INUSE"
  BY <1>8, <1>9 DEF Sound
<1>11. CASE p.val # "SUCCESS" \/ ~sys_needs_load_accel
  <2>1. Set(p, "load")
    BY <1>1, <1>11 DEF p
  <2> QED
    BY <2>1, <1>3, <1>8, SetSound
<1>12. CASE ~(p.val # "SUCCESS" \/ ~sys_needs_load_accel) /\ f.val # "SUCCESS"
  <2>1. Set(f, "load")
    BY <1>1, <1>12 DEF p, f
  <2> QED
    BY <2>1, <1>3, <1>10, SetSound
<1>13. CASE ~(p.val # "SUCCESS" \/ ~sys_needs_load_accel) /\ f.val = "SUCCESS"
  <2> DEFINE k == f.accel.cfg
  <2>1. k \in Cfgs /\ f.accel.is_cached /\ ~EnvConfig
    BY <1>9, <1>13 DEF sys_needs_load_accel, Work, AccelSet
  <2>2. /\ l \in Work /\ l.accel = f.accel
        /\ \A i \in Cfgs : i # k => l.cfgs[i] = f.cfgs[i]
        /\ f.fds <= l.fds /\ l.fds <= f.fds + 2 * package.devs
        /\ f.fds >= Cardinality(f.va) => l.fds >= Cardinality(l.va)
        /\ DevicesOpen => \/ l.val = "SUCCESS"
                          \/ l.cfgs[k] = "destroyed" /\ l.va = f.va /\ l.fds = f.fds
        /\ DevicesOpen /\ NoDriver = {} /\ f.va = {} /\ f.fds = 0 =>
              l.fds = Cardinality(l.va)
    BY <1>3, <1>9, <1>13, <2>1, Load
  <2> HIDE DEF l
  <2>3. l.fds \in 0 .. MaxFds /\ l.fds >= Cardinality(l.va)
    <3>1. f.fds = fds /\ f.fds >= Cardinality(f.va) /\ f.fds \in Int /\ l.fds \in Int
          /\ f.fds >= 0
      BY <1>5, <1>6, <1>9, <1>10, <2>2 DEF SamePL, Sound, Work
    <3>2. l.fds >= Cardinality(l.va)
      BY <2>2, <3>1
    <3> QED
      BY <1>2, <1>3, <2>2, <3>1, <3>2
  <2>4. (DevicesOpen \/ EnvConfig) /\ CfgsGo => \A i \in Cfgs : f.cfgs[i] # "loaded"
    BY <1>10 DEF Sound
  <2>5. DevicesOpen /\ NoDriver = {} => f.va = {} /\ f.fds = 0
    BY <1>7, <1>10, <2>1 DEF Sound
  <2>6. CASE l.val = "SUCCESS"
    <3> DEFINE a == [l.accel EXCEPT !.status = "INUSE"]
    <3>1. a \in AccelSet /\ a.status = "INUSE" /\ a.cfg = k /\ a.is_cached
      BY <2>1, <2>2 DEF Work, AccelSet
    <3>2. u = [l EXCEPT !.accel = a]
      BY <2>2 DEF Work
    <3> HIDE DEF a, u
    <3>3. u \in Work /\ u.accel = a /\ u.va = l.va /\ u.cfgs = l.cfgs /\ u.fds = l.fds
      BY <2>2, <3>1, <3>2 DEF Work
    <3>4. k # 0
      BY <2>1, <1>9
    <3>5. (DevicesOpen \/ EnvConfig) /\ CfgsGo =>
             \A i \in Cfgs : u.cfgs[i] = "loaded" => i = k
      BY <2>2, <2>4, <3>3
    <3>6. Sound(u)
      BY <2>1, <2>2, <2>3, <2>5, <3>1, <3>3, <3>4, <3>5 DEF Sound
    <3>7. Set(u, "load")
      BY <1>1, <1>13, <2>6 DEF p, f, l, u
    <3> QED
      BY <3>6, <3>7, <1>3, SetSound
  <2>7. CASE l.val # "SUCCESS"
    <3> DEFINE a == [l.accel EXCEPT !.load_failure = TRUE]
    <3>1. a \in AccelSet /\ a.status = f.accel.status /\ a.cfg = k /\ a.is_cached
          /\ a.chnls = f.accel.chnls
      BY <2>1, <2>2 DEF Work, AccelSet
    <3>2. b = [l EXCEPT !.accel = a]
      BY <2>2 DEF Work
    <3> HIDE DEF a, b
    <3>3. b \in Work /\ b.accel = a /\ b.va = l.va /\ b.cfgs = l.cfgs /\ b.fds = l.fds
      BY <2>2, <3>1, <3>2 DEF Work
    <3>4. k # 0
      BY <2>1, <1>9
    <3>5. (DevicesOpen \/ EnvConfig) /\ CfgsGo =>
             \A i \in Cfgs : b.cfgs[i] # "loaded"
      BY <2>1, <2>2, <2>4, <2>7, <3>3
    <3>6. Sound(b)
      BY <1>10, <2>1, <2>2, <2>3, <2>5, <2>7, <3>1, <3>3, <3>4, <3>5 DEF Sound
    <3>7. Set(b, "load")
      BY <1>1, <1>13, <2>7 DEF p, f, l, b
    <3> QED
      BY <3>6, <3>7, <1>3, SetSound
  <2> QED
    BY <2>6, <2>7
<1> QED
  BY <1>11, <1>12, <1>13

-----------------------------------------------------------------------------
(* Mapping a device, and removal.                                          *)

LEMMA MapStep ==
    ASSUME NEW d \in Devs, AccelInv, acapd_accel_get_reg_va(d)
    PROVE  AccelInv'
<1> DEFINE steps == {"bind", "uio", "open"}
<1>1. PICK fault \in Faults(steps) :
         Set(acapd_generic_device_open(Now, d, fault), "map")
  BY DEF acapd_accel_get_reg_va
<1> HIDE DEF steps
<1>2. /\ accel.status = "INUSE" \/ EnvConfig
      /\ d \notin va /\ fds + 1 < MaxFds
  BY DEF acapd_accel_get_reg_va
<1>3. package \in Packages /\ MaxFds \in Nat /\ package.devs \in Nat
  BY PackageFacts DEF AccelInv, TypeOK
<1>4. Sound(Now) /\ Now.val = "SUCCESS"
  BY NowSound
<1>5. Now.accel = accel /\ Now.cfgs = cfgs /\ Now.fds = fds /\ Now.va = va
  BY DEF Now
<1> DEFINE x == acapd_generic_device_open(Now, d, fault)
<1>6. /\ x \in Work /\ x.accel = accel /\ x.cfgs = cfgs
      /\ \/ x.va = va /\ x.fds \in {fds, fds + 1} /\ fault \in {"bind", "uio", "open"}
         \/ x.va = va \cup {d} /\ x.fds \in {fds + 1, fds + 2}
            /\ (NoDriver = {} => x.fds = fds + 1)
  <2>1. Now \in Work
    BY <1>4 DEF Sound
  <2> QED
    BY <2>1, <1>4, <1>5, OpenOne
<1> HIDE DEF x
<1>7. IsFiniteSet(va) /\ Cardinality(va) \in Nat
  <2>1. va \in SUBSET (1 .. package.devs)
    BY DEF AccelInv, TypeOK, Devs
  <2> QED
    BY <2>1, <1>3, IntervalSets
<1>8. Cardinality(va \cup {d}) = Cardinality(va) + 1
  BY <1>2, <1>7, OneMore
<1>9. fds \in Int /\ fds \in 0 .. MaxFds /\ fds >= Cardinality(va)
  BY <1>3, <1>4, <1>5 DEF Sound, Work
<1>10. x.fds \in 0 .. MaxFds /\ x.fds >= Cardinality(x.va)
  <2>1. CASE x.va = va /\ x.fds \in {fds, fds + 1}
    BY <2>1, <1>2, <1>3, <1>7, <1>9
  <2>2. CASE x.va = va \cup {d} /\ x.fds \in {fds + 1, fds + 2}
    BY <2>2, <1>2, <1>3, <1>7, <1>8, <1>9
  <2> QED
    BY <1>6, <2>1, <2>2
<1>11. DevicesOpen /\ ~EnvConfig /\ NoDriver = {} => x.fds = Cardinality(x.va)
  <2> SUFFICES ASSUME DevicesOpen, ~EnvConfig, NoDriver = {}
               PROVE  x.fds = Cardinality(x.va)
    OBVIOUS
  <2>1. fault \notin {"bind", "uio", "open"}
    BY MayFailIn
  <2>2. fds = Cardinality(va)
    BY <1>4, <1>5 DEF Sound
  <2> QED
    BY <1>6, <1>8, <2>1, <2>2
<1>12. Sound(x)
  BY <1>2, <1>4, <1>5, <1>6, <1>10, <1>11 DEF Sound
<1> QED
  BY <1>1, <1>3, <1>12, SetSound DEF x

LEMMA ChannelStep == AccelInv /\ acapd_dma_open => AccelInv'
<1> SUFFICES ASSUME AccelInv, acapd_dma_open
             PROVE  AccelInv'
  OBVIOUS
<1>1. PICK fault \in Faults({"bind", "vfio"}) :
         Set(IF accel.chnls = "open" THEN Now ELSE acapd_vfio_device_open(Now, fault),
             "channel")
  BY DEF acapd_dma_open
<1>2. accel.status = "INUSE" \/ EnvConfig
  BY DEF acapd_dma_open
<1>3. package \in Packages /\ Sound(Now) /\ Now \in Work /\ Now.accel = accel
  BY NowSound DEF AccelInv, TypeOK, Sound, Now
<1> DEFINE V == Now.vfio \/ fault = "vfio"
           a == [Now.accel EXCEPT !.chnls = "open"]
           e == [Now EXCEPT !.vfio = V, !.val = "EINVAL"]
           o == [Now EXCEPT !.vfio = TRUE, !.accel = a]
<1>4. CASE accel.chnls = "open"
  BY <1>1, <1>3, <1>4, SetSound
<1>5. CASE accel.chnls # "open" /\ (fault \in {"bind", "vfio"} \/ Now.vfio)
  <2>1. acapd_vfio_device_open(Now, fault) = e
    BY <1>5 DEF acapd_vfio_device_open, Stopped
  <2>2. V \in BOOLEAN
    OBVIOUS
  <2> HIDE DEF V
  <2>3. /\ e \in Work /\ e.accel = Now.accel /\ e.cfgs = Now.cfgs /\ e.fds = Now.fds
        /\ e.va = Now.va
    BY <1>3, <2>2 DEF Work
  <2> HIDE DEF e
  <2>4. Sound(e)
    BY <1>3, <2>3 DEF Sound
  <2>5. Set(e, "channel")
    BY <1>1, <1>5, <2>1
  <2> QED
    BY <1>3, <2>4, <2>5, SetSound
<1>6. CASE accel.chnls # "open" /\ ~(fault \in {"bind", "vfio"} \/ Now.vfio)
  <2>1. acapd_vfio_device_open(Now, fault) = [Now EXCEPT !.vfio = TRUE, !.accel.chnls = "open"]
    BY <1>6 DEF acapd_vfio_device_open
  <2>2. [Now EXCEPT !.vfio = TRUE, !.accel.chnls = "open"] = o
    BY <1>3 DEF Work
  <2>3. /\ a \in AccelSet /\ a.status = accel.status /\ a.is_cached = accel.is_cached
        /\ a.cfg = accel.cfg
    BY <1>3 DEF Work, AccelSet
  <2> HIDE DEF a
  <2>4. /\ o \in Work /\ o.accel = a /\ o.cfgs = Now.cfgs /\ o.fds = Now.fds
        /\ o.va = Now.va
    BY <1>3, <2>3 DEF Work
  <2> HIDE DEF o
  <2>5. Sound(o)
    BY <1>2, <1>3, <2>3, <2>4 DEF Sound
  <2>6. Set(o, "channel")
    BY <1>1, <1>6, <2>1, <2>2
  <2> QED
    BY <1>3, <2>5, <2>6, SetSound
<1> QED
  BY <1>4, <1>5, <1>6

\* Closing leaves no device mapped, takes back a descriptor for each that was,
\* and leaves no channel.
LEMMA Close ==
    ASSUME package \in Packages, NEW w, Sound(w)
    PROVE  LET x == sys_close_accel(w)
           IN  /\ x \in Work /\ SameObject(w, x) /\ x.cfgs = w.cfgs /\ x.val = w.val
               /\ x.va = {} /\ x.fds = w.fds - Cardinality(w.va)
               /\ x.fds \in 0 .. MaxFds /\ x.accel.chnls = "none"
<1> DEFINE V == w.va \ Devs
           F == w.fds - Cardinality(w.va \cap Devs)
           c == [w EXCEPT !.va = V, !.fds = F]
           a == [c.accel EXCEPT !.has_devs = FALSE, !.chnls = "none"]
           x == sys_close_accel(w)
<1>1. w \in Work /\ w.va \in SUBSET Devs /\ w.fds \in Int
  BY DEF Sound, Work
<1>2. V = {} /\ w.va \cap Devs = w.va
  BY <1>1
<1>3. Cardinality(w.va) \in Nat
  BY <1>1, PackageFacts, IntervalSets DEF Devs
<1>4. F = w.fds - Cardinality(w.va) /\ F \in Int
  <2>1. Cardinality(w.va \cap Devs) = Cardinality(w.va)
    BY <1>2
  <2> QED
    BY <1>1, <1>3, <2>1
<1>5. x = [c EXCEPT !.accel.has_devs = FALSE, !.accel.chnls = "none"]
  BY DEF sys_close_accel, acapd_generic_device_close
<1> HIDE DEF V, F, x
<1>6. /\ c \in Work /\ c.accel = w.accel /\ c.cfgs = w.cfgs /\ c.val = w.val /\ c.va = {}
      /\ c.fds = w.fds - Cardinality(w.va)
  <2>1. V \in SUBSET Devs
    BY <1>2
  <2>2. c \in Work /\ c.accel = w.accel /\ c.cfgs = w.cfgs /\ c.val = w.val /\ c.va = V
        /\ c.fds = F
    BY <1>1, <1>4, <2>1 DEF Work
  <2> QED
    BY <1>2, <1>4, <2>2
<1> HIDE DEF c
<1>7. x = [c EXCEPT !.accel = a]
  BY <1>5, <1>6 DEF Work
<1>8. /\ a \in AccelSet /\ a.status = w.accel.status /\ a.is_cached = w.accel.is_cached
      /\ a.cfg = w.accel.cfg /\ a.chnls = "none"
  BY <1>6 DEF Work, AccelSet
<1> HIDE DEF a
<1>9. x \in Work /\ x.accel = a /\ x.cfgs = c.cfgs /\ x.val = c.val /\ x.va = c.va
      /\ x.fds = c.fds
  BY <1>6, <1>7, <1>8 DEF Work
<1>10. x.fds \in 0 .. MaxFds
  <2>1. w.fds \in 0 .. MaxFds /\ w.fds >= Cardinality(w.va) /\ MaxFds \in Nat
    BY PackageFacts DEF Sound
  <2> QED
    BY <1>1, <1>3, <1>6, <1>9, <2>1
<1> QED
  BY <1>6, <1>8, <1>9, <1>10 DEF SameObject, x

\* Of an object with a configuration: it is destroyed unless libdfx refuses.
LEMMA Remove ==
    ASSUME NEW w \in Work, NEW fault, w.accel.cfg \in Cfgs
    PROVE  LET x == sys_remove_accel(w, fault)
           IN  /\ x \in Work /\ x.accel = w.accel /\ x.va = w.va /\ x.fds = w.fds
               /\ x.val = w.val
               /\ fault # "remove" => x.cfgs = [w.cfgs EXCEPT ![w.accel.cfg] = "destroyed"]
<1> DEFINE t == remove_directory(w)
           k == w.accel.cfg
           gone == [w.cfgs EXCEPT ![k] = "destroyed"]
           r == [t EXCEPT !.cfgs = gone, !.bound = {}]
           x == sys_remove_accel(w, fault)
<1>1. /\ t \in Work /\ t.accel = w.accel /\ t.va = w.va /\ t.fds = w.fds /\ t.val = w.val
      /\ t.cfgs = w.cfgs
  <2> DEFINE T == w.tmp \ {w.accel.dir}
  <2>1. T \in SUBSET (1 .. MaxTmp)
    BY DEF Work
  <2>2. t = w \/ t = [w EXCEPT !.tmp = T]
    BY DEF remove_directory
  <2> HIDE DEF T, t
  <2> QED
    BY <2>1, <2>2 DEF Work
<1> HIDE DEF t
<1>2. w.cfgs \in [Cfgs -> {"none", "init", "loaded", "destroyed"}] /\ k \in Cfgs
      /\ ~(k <= 0)
  BY DEF Work, Cfgs
<1>3. gone \in [Cfgs -> {"none", "init", "loaded", "destroyed"}]
  <2> HIDE DEF k
  <2> QED
    BY <1>2
<1>4. x = IF fault = "remove" THEN t ELSE r
  BY <1>1, <1>2 DEF sys_remove_accel, t
<1> HIDE DEF gone, x
<1>5. /\ r \in Work /\ r.accel = t.accel /\ r.va = t.va /\ r.fds = t.fds /\ r.val = t.val
      /\ r.cfgs = gone
  BY <1>1, <1>3 DEF Work
<1> HIDE DEF r
<1> QED
  BY <1>1, <1>4, <1>5 DEF x, gone

LEMMA RemoveStep == AccelInv /\ remove_accel => AccelInv'
<1> SUFFICES ASSUME AccelInv, remove_accel
             PROVE  AccelInv'
  OBVIOUS
<1> DEFINE next(r) == IF r.val = "SUCCESS" THEN "UNLOADED" ELSE "UNLOADING"
           c == sys_close_accel(Now)
<1>1. PICK fault \in Faults({"remove"}) :
        LET r == IF sys_needs_load_accel THEN sys_remove_accel(c, fault) ELSE c
        IN  Set(CASE accel.status = "UNLOADED" -> Now
                  [] accel.status = "UNLOADING" -> Stopped(Now, "INPROGRESS")
                  [] OTHER -> [r EXCEPT !.accel.status = next(r)],
                "remove")
  BY DEF remove_accel
<1>2. package \in Packages
  BY DEF AccelInv, TypeOK
<1>3. Sound(Now) /\ Now.val = "SUCCESS"
  BY NowSound
<1>4. Now.accel = accel /\ Now.cfgs = cfgs /\ Now.fds = fds /\ Now.va = va
  BY DEF Now
<1>5. CASE accel.status = "UNLOADED"
  <2>1. Set(Now, "remove")
    BY <1>1, <1>5
  <2>2. Gone(Now)
    BY <1>3, <1>4, <1>5, FS_EmptySet DEF Gone, Sound
  <2> QED
    BY <2>1, <2>2, <1>2, <1>3, SetSound
<1>6. CASE accel.status = "UNLOADING"
  <2> DEFINE s == Stopped(Now, "INPROGRESS")
  <2>1. Set(s, "remove")
    BY <1>1, <1>6
  <2>2. /\ s \in Work /\ s.accel = Now.accel /\ s.cfgs = Now.cfgs /\ s.fds = Now.fds
        /\ s.va = Now.va /\ s.val = "INPROGRESS"
    BY <1>3 DEF Sound, Stopped, Work
  <2> HIDE DEF s
  <2>3. Sound(s) /\ Gone(s)
    BY <1>3, <2>2 DEF Sound, Gone
  <2> QED
    BY <2>1, <2>3, <1>2, SetSound
<1>7. CASE accel.status \notin {"UNLOADED", "UNLOADING"}
  <2> DEFINE r == sys_remove_accel(c, fault)
             k == accel.cfg
             a == [r.accel EXCEPT !.status = "UNLOADED"]
             x == [r EXCEPT !.accel = a]
  <2>1. accel.status = "INUSE" /\ accel.is_cached /\ ~EnvConfig /\ k \in Cfgs
    BY <1>7 DEF AccelInv, TypeOK, EnvUnloaded
  <2>2. /\ c \in Work /\ SameObject(Now, c) /\ c.cfgs = cfgs /\ c.val = "SUCCESS"
        /\ c.va = {} /\ c.fds = fds - Cardinality(va) /\ c.fds \in 0 .. MaxFds
        /\ c.accel.chnls = "none"
    BY <1>2, <1>3, <1>4, Close
  <2> HIDE DEF c
  <2>3. c.accel.is_cached = accel.is_cached /\ c.accel.cfg = k
    BY <1>4, <2>2 DEF SameObject
  <2>4. /\ r \in Work /\ r.accel = c.accel /\ r.va = {} /\ r.fds = c.fds
        /\ r.val = "SUCCESS"
        /\ fault # "remove" => r.cfgs = [cfgs EXCEPT ![k] = "destroyed"]
    BY <2>1, <2>2, <2>3, Remove
  <2>5. Set([r EXCEPT !.accel.status = "UNLOADED"], "remove")
    BY <1>1, <2>1, <2>4 DEF sys_needs_load_accel
  <2> HIDE DEF r
  <2>6. [r EXCEPT !.accel.status = "UNLOADED"] = x
    BY <2>4 DEF Work
  <2>7. a \in AccelSet /\ a.status = "UNLOADED" /\ a.is_cached = accel.is_cached
        /\ a.cfg = k /\ a.chnls = "none"
    BY <2>2, <2>3, <2>4 DEF Work, AccelSet
  <2> HIDE DEF a
  <2>8. /\ x \in Work /\ x.accel = a /\ x.va = {} /\ x.fds = c.fds /\ x.cfgs = r.cfgs
        /\ x.val = "SUCCESS"
    BY <2>4, <2>7 DEF Work
  <2> HIDE DEF x
  <2>9. (DevicesOpen \/ EnvConfig) /\ CfgsGo => \A i \in Cfgs : x.cfgs[i] # "loaded"
    <3> SUFFICES ASSUME DevicesOpen \/ EnvConfig, CfgsGo
                 PROVE  \A i \in Cfgs : x.cfgs[i] # "loaded"
      OBVIOUS
    <3>1. fault # "remove"
      BY DEF Faults, CfgsGo
    <3>2. x.cfgs = [cfgs EXCEPT ![k] = "destroyed"]
      BY <2>4, <2>8, <3>1
    <3>3. \A i \in Cfgs : cfgs[i] = "loaded" => i = k
      BY DEF AccelInv, OnlyLoaded
    <3>4. cfgs \in [Cfgs -> {"none", "init", "loaded", "destroyed"}]
      BY DEF AccelInv, TypeOK
    <3> HIDE DEF k
    <3> QED
      BY <3>2, <3>3, <3>4, <2>1
  <2>10. DevicesOpen /\ ~EnvConfig /\ NoDriver = {} => x.fds = 0
    <3>1. fds \in Int
      BY DEF AccelInv, TypeOK
    <3> QED
      BY <3>1, <2>2, <2>8 DEF AccelInv, NoLeak
  <2>11. x.fds \in 0 .. MaxFds /\ x.fds >= Cardinality(x.va) /\ Cardinality(x.va) = 0
    BY <2>2, <2>8, FS_EmptySet
  <2>12. Sound(x)
    <3>1. k # 0 /\ ~(x.accel.status = "INUSE") /\ x.accel.status = "UNLOADED"
          /\ x.accel.cfg = k
      BY <2>1, <2>7, <2>8 DEF Cfgs
    <3> QED
      BY <2>1, <2>7, <2>8, <2>9, <2>10, <2>11, <3>1 DEF Sound
  <2>13. Gone(x)
    BY <2>7, <2>8, <2>9, <2>10 DEF Gone
  <2> QED
    BY <2>5, <2>6, <2>12, <2>13, <1>2, SetSound
<1> QED
  BY <1>5, <1>6, <1>7

LEMMA RestartStep == AccelInv /\ init_accel => AccelInv'
<1> SUFFICES ASSUME AccelInv, init_accel
             PROVE  AccelInv'
  OBVIOUS
<1> DEFINE x == [Now EXCEPT !.accel = NewAccel]
<1>1. accel.status = "UNLOADED" /\ va = {} /\ Set(x, "init")
  BY DEF init_accel
<1>2. package \in Packages /\ MaxTmp \in Nat
  BY PackageFacts DEF AccelInv, TypeOK
<1>3. Sound(Now)
  BY NowSound
<1>4. NewAccel \in AccelSet
  BY <1>2 DEF NewAccel, AccelSet
<1>5. /\ x \in Work /\ x.accel = NewAccel /\ x.cfgs = cfgs /\ x.va = Now.va
      /\ x.fds = Now.fds
  BY <1>3, <1>4 DEF Sound, Work, Now
<1> HIDE DEF x
<1>6. Now.cfgs = cfgs /\ Now.accel = accel /\ Now.va = va
  BY DEF Now
<1>7. Sound(x)
  <2>1. NewAccel.status = "UNLOADED" /\ ~NewAccel.is_cached /\ NewAccel.chnls = "none"
    BY DEF NewAccel
  <2> QED
    BY <1>1, <1>3, <1>5, <1>6, <2>1 DEF Sound
<1> QED
  BY <1>1, <1>2, <1>7, SetSound

-----------------------------------------------------------------------------
(* The theorems.                                                           *)

LEMMA AccelStart == Init => AccelInv
<1> SUFFICES ASSUME Init
             PROVE  AccelInv
  OBVIOUS
<1>1. package \in Packages /\ MaxTmp \in Nat /\ MaxFds \in Nat
  BY PackageFacts DEF Init
<1>2. Cardinality({}) = 0
  BY FS_EmptySet
<1>3. TypeOK
  <2>1. /\ NewAccel \in AccelSet /\ NewAccel.status # "INUSE" /\ ~NewAccel.is_cached
    BY <1>1 DEF NewAccel, AccelSet
  <2>2. accel \in AccelSet /\ accel.status # "INUSE" /\ ~accel.is_cached
    BY <2>1, Zenon DEF Init
  <2>3. /\ package \in Packages /\ va = {} /\ cfgs = [i \in Cfgs |-> "none"] /\ bound = {}
        /\ fds = 0 /\ vfio \in BOOLEAN /\ tmp = {}
    BY Zenon DEF Init
  <2> QED
    BY <1>1, <2>2, <2>3 DEF AccelSet, TypeOK
<1> QED
  BY <1>2, <1>3 DEF Init, NewAccel, AccelInv, MappedOpen, EnvUnloaded,
                    OnlyLoaded, NoLeak, ChnlsClosed, RemovedIsGone

LEMMA AccelStutter == AccelInv /\ UNCHANGED vars => AccelInv'
<1> SUFFICES ASSUME AccelInv, UNCHANGED vars
             PROVE  AccelInv'
  OBVIOUS
<1>1. /\ Devs' = Devs /\ NoDriver' = NoDriver /\ EnvConfig' = EnvConfig
      /\ DevicesOpen' = DevicesOpen /\ CfgsGo' = CfgsGo
  BY DEF vars, Devs, NoDriver, EnvConfig, DevicesOpen, CfgsGo, MayFail
<1> QED
  BY <1>1 DEF vars, AccelInv, TypeOK, MappedOpen, EnvUnloaded, OnlyLoaded,
              NoLeak, ChnlsClosed, RemovedIsGone

LEMMA AccelInvariant == Spec => []AccelInv
<1>1. AccelInv /\ [Next]_vars => AccelInv'
  BY LoadStep, MapStep, ChannelStep, RemoveStep, RestartStep, AccelStutter DEF Next
<1> QED
  BY <1>1, AccelStart, PTL DEF Spec

\* The type invariant: above all that a loaded object knows its configuration
\* (sys_fetch_accel()) and that no more descriptors are closed than are open
\* (sys_close_accel()).
THEOREM AccelTypes == Spec => []TypeOK
BY AccelInvariant, PTL DEF AccelInv

\* An object that says UNLOADED has no configuration in the PL, whatever the
\* package and whichever other steps of load_accel() fail.
THEOREM UnloadedClear == Spec => []UnloadedIsClear
<1>1. AccelInv => UnloadedIsClear
  BY DEF AccelInv, OnlyLoaded, UnloadedIsClear
<1> QED
  BY <1>1, AccelInvariant, PTL

\* A remove_accel() that reports success leaves no configuration in the PL, no
\* channel open, and none of the devices in ip_dev[] open.
THEOREM RemovedGone == Spec => []RemovedIsGone
BY AccelInvariant, PTL DEF AccelInv
=============================================================================
