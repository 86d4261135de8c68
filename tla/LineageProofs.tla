---------------------------- MODULE LineageProofs ----------------------------
(***************************************************************************)
(* Proofs about what is known of processes, for any pids, names and limits.*)
(* First the enricher's cache under any sequence of records, then the map  *)
(* of the probes under any interleaving of processes, seeding and enricher,*)
(* and last the lineage of an event, which depends on both.                *)
(***************************************************************************)
EXTENDS Lineage, FiniteSetTheorems, SequenceTheorems, WellFoundedInduction, TLAPS

-----------------------------------------------------------------------------
(* The enricher: a cache without a circle of processes without a name.     *)

\* The type of the cache.
CacheOK(map) ==
  /\ DOMAIN map \subseteq Keys
  /\ \A pid \in DOMAIN map : map[pid] \in Infos

\* No circle without a name in a cache.
NoCircle(map) ==
  \A ring \in (SUBSET {pid \in DOMAIN map : map[pid].comm = NoName}) \ {{}} :
    \E pid \in ring : map[pid].ppid \notin ring

LEMMA InvariantForm ==
  /\ NoNamelessCycle <=> (~ blank => NoCircle(processes))
  /\ NoNamelessCycle' <=> (~ blank' => NoCircle(processes'))
  BY DEF NoNamelessCycle, NoCircle, Nameless

LEMMA InsertType ==
  ASSUME NEW map, CacheOK(map), NEW pid \in Keys, NEW info \in Infos
  PROVE  CacheOK(Insert(map, pid, info))
  BY DEF CacheOK, Insert

LEMMA InfoType ==
  ASSUME NEW ppid \in Keys, NEW name \in Names \union {NoName}
  PROVE  /\ Info(ppid, name) \in Infos
         /\ Info(ppid, name).ppid = ppid /\ Info(ppid, name).comm = name
  BY DEF Info, Infos

LEMMA RecordType ==
  ASSUME NEW raw \in Records
  PROVE  /\ raw.pid \in Keys /\ raw.ppid \in Keys
         /\ raw.comm \in Names \union {NoName} /\ Comm(raw) \in Names \union {NoName}
         /\ raw.kind # "exec" => Comm(raw) = raw.comm
  BY DEF Records, Keys, Comm

LEMMA NamedType ==
  ASSUME NEW map, CacheOK(map), NEW pid \in Keys, NEW name \in Names \union {NoName}
  PROVE  CacheOK(Named(map, pid, name))
<1>1. CASE pid \notin DOMAIN map
  <2>1. NoPid \in Keys
    BY DEF Keys
  <2> QED
    BY <1>1, <2>1, InfoType, InsertType DEF Named
<1>2. CASE pid \in DOMAIN map /\ map[pid].comm = NoName
  <2>1. map[pid].ppid \in Keys
    BY <1>2 DEF CacheOK, Infos
  <2> QED
    BY <1>2, <2>1, InfoType, InsertType DEF Named
<1>3. CASE pid \in DOMAIN map /\ map[pid].comm # NoName
  BY <1>3 DEF Named
<1> QED
  BY <1>1, <1>2, <1>3

LEMMA UpdatedType ==
  ASSUME NEW map, CacheOK(map), NEW raw \in Records
  PROVE  CacheOK(Updated(map, raw))
<1>1. CASE raw.kind = "processfork"
  <2>1. Info(raw.ppid, NoName) \in Infos
    BY RecordType, InfoType
  <2>2. CacheOK(Insert(map, raw.pid, Info(raw.ppid, NoName)))
    BY <2>1, RecordType, InsertType
  <2> QED
    BY <1>1, <2>2, RecordType, NamedType DEF Updated
<1>2. CASE raw.kind = "exec"
  <2>1. Info(raw.ppid, Comm(raw)) \in Infos
    BY RecordType, InfoType
  <2> QED
    BY <1>2, <2>1, RecordType, InsertType DEF Updated
<1>3. CASE raw.kind = "other"
  <2>1. Info(raw.ppid, raw.comm) \in Infos
    BY RecordType, InfoType
  <2> QED
    BY <1>3, <2>1, RecordType, InsertType DEF Updated
<1> QED
  BY <1>1, <1>2, <1>3 DEF Records

LEMMA ClearedType ==
  ASSUME NEW map, CacheOK(map)
  PROVE  CacheOK(Cleared(map))
  BY DEF CacheOK, Cleared

\* An entry with a name closes no circle.
LEMMA InsertNamed ==
  ASSUME NEW map, NoCircle(map), NEW pid, NEW info, info.comm # NoName
  PROVE  NoCircle(Insert(map, pid, info))
<1> DEFINE map2 == Insert(map, pid, info)
<1>1. /\ DOMAIN map2 = DOMAIN map \union {pid}
      /\ \A key \in DOMAIN map \union {pid} :
           map2[key] = IF key = pid THEN info ELSE map[key]
  BY DEF Insert
<1> HIDE DEF map2
<1>2. ASSUME NEW ring \in (SUBSET {p \in DOMAIN map2 : map2[p].comm = NoName}) \ {{}}
      PROVE  \E p \in ring : map2[p].ppid \notin ring
  <2>1. \A p \in ring : p \in DOMAIN map /\ map2[p] = map[p] /\ map[p].comm = NoName
    BY <1>1
  <2>2. ring \in (SUBSET {p \in DOMAIN map : map[p].comm = NoName}) \ {{}}
    BY <2>1
  <2>3. PICK p \in ring : map[p].ppid \notin ring
    BY <2>2 DEF NoCircle
  <2> QED
    BY <2>1, <2>3
<1> QED
  BY <1>2 DEF NoCircle, map2

\* Neither does a fork, since it leaves the parent with a name: a circle through
\* the child would have to go on through the parent.
LEMMA Forked ==
  ASSUME NEW map, CacheOK(map), NoCircle(map),
         NEW pid \in Keys, NEW ppid \in Keys, NEW name \in Names
  PROVE  NoCircle(Named(Insert(map, pid, Info(ppid, NoName)), ppid, name))
<1> DEFINE map1 == Insert(map, pid, Info(ppid, NoName))
           map2 == Named(map1, ppid, name)
<1>1. /\ DOMAIN map1 = DOMAIN map \union {pid}
      /\ map1[pid] = Info(ppid, NoName)
      /\ \A key \in DOMAIN map : key # pid => map1[key] = map[key]
  BY DEF Insert
<1>2. name # NoName /\ Info(ppid, NoName).ppid = ppid
  BY ProcessAssumption DEF Info
<1> HIDE DEF map1
<1>3. \/ ppid \in DOMAIN map1 /\ map1[ppid].comm # NoName /\ map2 = map1
      \/ \E p : map2 = Insert(map1, ppid, Info(p, name))
  BY DEF Named
<1>4. /\ DOMAIN map2 = DOMAIN map1 \union {ppid}
      /\ map2[ppid].comm # NoName
      /\ \A key \in DOMAIN map1 : key # ppid => map2[key] = map1[key]
  <2>1. CASE ppid \in DOMAIN map1 /\ map1[ppid].comm # NoName /\ map2 = map1
    BY <2>1
  <2>2. ASSUME NEW p, map2 = Insert(map1, ppid, Info(p, name))
        PROVE  <1>4!:
    <3>1. Info(p, name).comm # NoName
      BY <1>2 DEF Info
    <3> QED
      BY <2>2, <3>1 DEF Insert
  <2> QED
    BY <1>3, <2>1, <2>2
<1> HIDE DEF map2
<1>5. ASSUME NEW ring \in (SUBSET {p \in DOMAIN map2 : map2[p].comm = NoName}) \ {{}}
      PROVE  \E p \in ring : map2[p].ppid \notin ring
  <2>1. ppid \notin ring
    BY <1>4
  <2>2. CASE pid \in ring
    <3>1. map2[pid].ppid = ppid
      BY <1>1, <1>2, <1>4, <2>1, <2>2
    <3> QED
      BY <2>1, <2>2, <3>1
  <2>3. CASE pid \notin ring
    <3>1. \A p \in ring : p \in DOMAIN map /\ map2[p] = map[p] /\ map[p].comm = NoName
      BY <1>1, <1>4, <2>1, <2>3
    <3>2. ring \in (SUBSET {p \in DOMAIN map : map[p].comm = NoName}) \ {{}}
      BY <3>1
    <3>3. PICK p \in ring : map[p].ppid \notin ring
      BY <3>2 DEF NoCircle
    <3> QED
      BY <3>1, <3>3
  <2> QED
    BY <2>2, <2>3
<1> QED
  BY <1>5 DEF NoCircle, map2, map1

LEMMA UpdatedHasNoCircle ==
  ASSUME NEW map, CacheOK(map), NoCircle(map), NEW raw \in Records, Comm(raw) # NoName
  PROVE  NoCircle(Updated(map, raw))
<1>1. CASE raw.kind = "processfork"
  <2>1. raw.comm \in Names
    BY <1>1, RecordType
  <2> QED
    BY <1>1, <2>1, RecordType, Forked DEF Updated
<1>2. CASE raw.kind = "exec"
  <2>1. Info(raw.ppid, Comm(raw)).comm # NoName
    BY RecordType, InfoType
  <2> QED
    BY <1>2, <2>1, InsertNamed DEF Updated
<1>3. CASE raw.kind = "other"
  <2>1. Info(raw.ppid, raw.comm).comm # NoName
    BY <1>3, RecordType, InfoType
  <2> QED
    BY <1>3, <2>1, InsertNamed DEF Updated
<1> QED
  BY <1>1, <1>2, <1>3 DEF Records

LEMMA ClearedHasNoCircle ==
  ASSUME NEW map, NoCircle(map)
  PROVE  NoCircle(Cleared(map))
<1>1. NoCircle(<<>>)
  BY DEF NoCircle
<1> QED
  BY <1>1 DEF Cleared

-----------------------------------------------------------------------------
(* The invariant.                                                          *)

CacheInv == CacheOK(processes) /\ NoNamelessCycle

LEMMA InitInv ==
  ASSUME Init
  PROVE  CacheInv
<1>1. /\ CacheOK(processes)
      /\ \A pid \in DOMAIN processes :
           processes[pid].comm = NoName => processes[pid].ppid \notin DOMAIN processes
  <2>1. PICK known \in SUBSET Pids : processes \in [known -> Infos]
    BY DEF Init, Seeds
  <2>2. \A pid \in DOMAIN processes :
          processes[pid].comm = NoName => processes[pid].ppid = NoPid
    BY DEF Init, Seeds
  <2>3. DOMAIN processes \subseteq Pids /\ NoPid \notin Pids
    BY <2>1, ProcessAssumption
  <2>4. CacheOK(processes)
    BY <2>1, <2>3 DEF CacheOK, Keys
  <2> QED
    BY <2>2, <2>3, <2>4
<1>2. ASSUME NEW ring \in (SUBSET {p \in DOMAIN processes : processes[p].comm = NoName}) \ {{}}
      PROVE  \E p \in ring : processes[p].ppid \notin ring
  <2>1. PICK p : p \in ring
    OBVIOUS
  <2>2. processes[p].ppid \notin DOMAIN processes
    BY <1>1, <2>1
  <2> QED
    BY <2>1, <2>2
<1>3. NoCircle(processes)
  BY <1>2 DEF NoCircle
<1> QED
  BY <1>1, <1>3, InvariantForm DEF CacheInv

LEMMA StepInv ==
  ASSUME CacheInv, [Next]_vars
  PROVE  CacheInv'
<1>1. ASSUME NEW raw \in Records, Enrich(raw) PROVE CacheInv'
  <2>1. /\ processes' = Cleared(Updated(processes, raw))
        /\ blank' = (blank \/ Comm(raw) = NoName)
    BY <1>1 DEF Enrich
  <2>2. CacheOK(processes')
    BY <2>1, UpdatedType, ClearedType DEF CacheInv
  <2>3. ASSUME ~ blank' PROVE NoCircle(processes')
    <3>1. ~ blank /\ Comm(raw) # NoName
      BY <2>1, <2>3
    <3>2. NoCircle(processes)
      BY <3>1, InvariantForm DEF CacheInv
    <3> QED
      BY <2>1, <3>1, <3>2, UpdatedHasNoCircle, ClearedHasNoCircle DEF CacheInv
  <2> QED
    BY <2>2, <2>3, InvariantForm DEF CacheInv, CacheOK
<1>2. ASSUME UNCHANGED <<processes, blank>> PROVE CacheInv'
  BY <1>2 DEF CacheInv, CacheOK, NoNamelessCycle, Nameless
<1> QED
  BY <1>1, <1>2 DEF Next, Step, Return, vars

\* As long as every record carries a name, no order of forks, execs and reuses
\* of pids makes a circle of processes without a name, for any number of pids
\* and any size of the cache; a walk of lineage() can go round named ones only, and
\* each of these brings it nearer to max_lineage.
THEOREM NoNamelessCycleEver == Spec => []NoNamelessCycle
<1>1. CacheInv => NoNamelessCycle
  BY DEF CacheInv
<1> QED
  BY <1>1, InitInv, StepInv, PTL DEF Spec

-----------------------------------------------------------------------------
(* The types.                                                              *)

LEMMA InitTypeOK == Init => TypeOK
  BY InitInv DEF Init, TypeOK, CacheInv, CacheOK, Idle

LEMMA StepTypeOK ==
  ASSUME TypeOK, [Next]_vars
  PROVE  TypeOK'
<1>1. ASSUME NEW raw \in Records, Enrich(raw) PROVE TypeOK'
  <2>1. CacheOK(processes')
    BY <1>1, UpdatedType, ClearedType DEF Enrich, TypeOK, CacheOK
  <2>2. ParentComm(processes', raw) \in Names \union {NoName}
    BY <2>1, RecordType DEF ParentComm, CacheOK, Infos
  <2>3. event' \in Walks
    <3>1. <<>> \in Seq(Names)
      OBVIOUS
    <3> QED
      BY <1>1, <2>2, <3>1, RecordType DEF Enrich, Walks
  <2> QED
    BY <1>1, <2>1, <2>3 DEF Enrich, TypeOK, CacheOK
<1>2. CASE Step
  <2>1. event \in Walks /\ processes[event.pid] \in Infos
    BY <1>2 DEF Step, WalkOn, TypeOK, Idle
  <2>2. event' \in Walks
    <3> DEFINE info == processes[event.pid]
    <3>1. CASE info.comm = NoName
      BY <1>2, <2>1, <3>1 DEF Step, Walks, Infos
    <3>2. CASE info.comm # NoName
      <4>1. Append(event.lineage, info.comm) \in Seq(Names)
        BY <2>1, <3>2 DEF Walks, Infos
      <4> QED
        BY <1>2, <2>1, <3>2, <4>1 DEF Step, Walks, Infos
    <3> QED
      BY <3>1, <3>2
  <2> QED
    BY <1>2, <2>2 DEF Step, TypeOK
<1>3. CASE Return
  BY <1>3 DEF Return, TypeOK
<1>4. CASE UNCHANGED vars
  BY <1>4 DEF vars, TypeOK
<1> QED
  BY <1>1, <1>2, <1>3, <1>4 DEF Next

\* Whatever the records, the cache maps pids to a parent and a name, and the
\* lineage of an event is made of names.
THEOREM EnricherTypeOK == Spec => []TypeOK
  BY InitTypeOK, StepTypeOK, PTL DEF Spec

-----------------------------------------------------------------------------
(* The bound of the cache.                                                 *)

LEMMA CacheSize ==
  ASSUME NEW map, CacheOK(map)
  PROVE  /\ IsFiniteSet(DOMAIN map) /\ Cardinality(DOMAIN map) \in Nat
         /\ Cardinality(DOMAIN map) <= Cardinality(Keys)
<1>1. IsFiniteSet(Keys)
  BY ProcessAssumption, FS_AddElement DEF Keys
<1> QED
  BY <1>1, FS_Subset, FS_CardinalityType DEF CacheOK

LEMMA ClearedBound ==
  ASSUME NEW map, CacheOK(map)
  PROVE  Cardinality(DOMAIN Cleared(map)) <= MaxProcesses
<1>2. IsFiniteSet(DOMAIN map) /\ Cardinality(DOMAIN map) \in Nat
  BY CacheSize
<1>3. DOMAIN <<>> = {} /\ Cardinality({}) = 0
  BY FS_EmptySet
<1>4. CASE Cardinality(DOMAIN map) > MaxProcesses
  BY <1>3, <1>4, EnricherAssumption DEF Cleared
<1>5. CASE ~ (Cardinality(DOMAIN map) > MaxProcesses)
  BY <1>2, <1>5, EnricherAssumption DEF Cleared
<1> QED
  BY <1>4, <1>5

\* Whatever the walk over /proc has found, a step that changes the cache leaves it
\* with at most MAX_PROCESSES entries.
THEOREM UpdatesBoundCache == Spec => UpdatesKeepCacheBounded
<1> DEFINE Bounded == Cardinality(DOMAIN processes') <= MaxProcesses
<1>1. ASSUME CacheInv, [Next]_vars PROVE [processes' # processes => Bounded]_vars
  <2>1. ASSUME NEW raw \in Records, Enrich(raw) PROVE Bounded
    <3>1. processes' = Cleared(Updated(processes, raw))
      BY <2>1 DEF Enrich
    <3>2. CacheOK(Updated(processes, raw))
      BY <1>1, UpdatedType DEF CacheInv
    <3> QED
      BY <3>1, <3>2, ClearedBound
  <2>2. ASSUME Step \/ Return \/ UNCHANGED vars PROVE processes' = processes
    BY <2>2 DEF Step, Return, vars
  <2> HIDE DEF Bounded
  <2> QED
    BY <1>1, <2>1, <2>2 DEF Next
<1> QED
  BY <1>1, InitInv, StepInv, PTL DEF Spec, UpdatesKeepCacheBounded

-----------------------------------------------------------------------------
(* The map of the probes.                                                  *)

\* What probes and walk can hold.
Probing == {User} \union [at : {"execve", "emit", "exec"}, ppid : Keys, name : Names]
                  \union [at : {"sched_exec"}, ppid : Keys]
Walking == [of : {"tree", "cache", "done"}, next : Pids, at : {"list"}]
           \union [of : {"tree", "cache"}, next : Pids, at : {"read"}]
           \union [of : {"tree"}, next : Pids, at : {"insert"}, ppid : Keys]
           \union [of : {"cache"}, next : Pids, at : {"insert"}, comm : Names \union {NoName}]

TreeTypeOK ==
  /\ alive \subseteq Pids /\ late \subseteq Pids /\ stale \subseteq Pids
  /\ parent \in [Pids -> Keys] /\ forker \in [Pids -> Keys]
  /\ comm \in [Pids -> Names] /\ seen \in [Pids -> Names]
  /\ probe \in [Pids -> Probing] /\ walk \in Walking
  /\ tree \in [DOMAIN tree -> Keys]
  /\ DOMAIN tree \subseteq Pids /\ Cardinality(DOMAIN tree) <= MaxNodes

\* A probe runs in a process that is there.
ProbesInProcesses == \A p \in Pids : probe[p] # User => p \in alive

Looked == {"execve", "sched_exec"}

\* A process forked after the walks is in the map with its forker, or the map is
\* full; what its probe has looked up is still so, since nobody else writes it.
LateInv ==
  /\ late # {} => walk.of = "done"
  /\ \A p \in alive \intersect late :
       IF p \in DOMAIN tree THEN forker[p] # NoPid => tree[p] = forker[p]
                            ELSE Cardinality(DOMAIN tree) >= MaxNodes
  /\ \A p \in late : probe[p].at \in Looked => probe[p].ppid = Lookup(p)

\* What is on the way to the map for a process is a parent it has had.
KinInv ==
  \A p \in alive : forker[p] # NoPid =>
    LET kin == {NoPid, forker[p], InitPid} IN
    /\ parent[p] \in kin
    /\ p \notin stale =>
         /\ p \in DOMAIN tree => tree[p] \in kin
         /\ probe[p].at \in Looked => probe[p].ppid \in kin
         /\ walk.of = "tree" /\ walk.at = "insert" /\ walk.next = p => walk.ppid \in kin

TreeInv == TreeTypeOK /\ ProbesInProcesses /\ LateInv /\ KinInv

\* What an insert into the map does: the entry of one pid is set, unless the map
\* is full and does not have it.
LEMMA UpsertFacts ==
  ASSUME TreeTypeOK, NEW pid \in Pids, NEW ppid \in Keys, Upsert(pid, ppid)
  PROVE  /\ tree' \in [DOMAIN tree' -> Keys]
         /\ DOMAIN tree' \subseteq Pids /\ Cardinality(DOMAIN tree') <= MaxNodes
         /\ pid \in DOMAIN tree' => tree'[pid] = ppid
         /\ pid \notin DOMAIN tree' =>
              pid \notin DOMAIN tree /\ Cardinality(DOMAIN tree) >= MaxNodes
         /\ pid \in DOMAIN tree => pid \in DOMAIN tree'
         /\ \A q \in Pids \ {pid} :
              /\ q \in DOMAIN tree' <=> q \in DOMAIN tree
              /\ q \in DOMAIN tree => tree'[q] = tree[q]
         /\ Cardinality(DOMAIN tree) >= MaxNodes => DOMAIN tree' = DOMAIN tree
<1>1. IsFiniteSet(DOMAIN tree) /\ Cardinality(DOMAIN tree) \in Nat
  BY ProcessAssumption, FS_Subset, FS_CardinalityType DEF TreeTypeOK
<1>2. CASE pid \notin DOMAIN tree /\ Cardinality(DOMAIN tree) >= MaxNodes
  BY <1>2 DEF Upsert, TreeTypeOK
<1>3. CASE ~ (pid \notin DOMAIN tree /\ Cardinality(DOMAIN tree) >= MaxNodes)
  <2>1. tree' = [q \in DOMAIN tree \union {pid} |-> IF q = pid THEN ppid ELSE tree[q]]
    BY <1>3 DEF Upsert
  <2>2. /\ DOMAIN tree' = DOMAIN tree \union {pid}
        /\ tree' \in [DOMAIN tree \union {pid} -> Keys]
    BY <2>1 DEF TreeTypeOK
  <2>3. /\ Cardinality(DOMAIN tree') <= MaxNodes
        /\ pid \in DOMAIN tree \/ Cardinality(DOMAIN tree) < MaxNodes
    <3>1. CASE pid \in DOMAIN tree
      <4>1. DOMAIN tree' = DOMAIN tree
        BY <2>2, <3>1
      <4> QED
        BY <3>1, <4>1 DEF TreeTypeOK
    <3>2. CASE pid \notin DOMAIN tree
      <4>1. Cardinality(DOMAIN tree') = Cardinality(DOMAIN tree) + 1
        BY <1>1, <2>2, <3>2, FS_AddElement
      <4>2. ~ (Cardinality(DOMAIN tree) >= MaxNodes)
        BY <1>3, <3>2
      <4> QED
        BY <1>1, <4>1, <4>2, ProcessTreeAssumption
    <3> QED
      BY <3>1, <3>2
  <2>4. Cardinality(DOMAIN tree) >= MaxNodes => DOMAIN tree' = DOMAIN tree
    <3>1. Cardinality(DOMAIN tree) >= MaxNodes => pid \in DOMAIN tree
      BY <1>3
    <3> QED
      BY <2>2, <3>1
  <2> QED
    BY <2>1, <2>2, <2>3, <2>4 DEF TreeTypeOK
<1> QED
  BY <1>2, <1>3

\* What the map has for a process that an insert does not concern stays.
LEMMA UpsertLookup ==
  ASSUME TreeTypeOK, NEW pid \in Pids, NEW ppid \in Keys, Upsert(pid, ppid),
         NEW q \in Pids \ {pid}
  PROVE  Lookup(q)' = Lookup(q)
BY UpsertFacts DEF Lookup

LEMMA LookupType == TreeTypeOK => \A p \in Pids : Lookup(p) \in Keys
BY DEF Lookup, TreeTypeOK, Keys

LEMMA TreeInitInv == TreeInit => TreeInv
<1> SUFFICES ASSUME TreeInit PROVE TreeInv
  OBVIOUS
<1>1. /\ alive \subseteq Pids /\ InitPid \in Pids /\ NoPid \in Keys /\ InitPid \in Keys
      /\ parent = [p \in Pids |-> IF p \in alive \ {InitPid} THEN InitPid ELSE NoPid]
      /\ probe = [p \in Pids |-> User] /\ tree = <<>> /\ forker = parent /\ seen = comm
      /\ late = {} /\ stale = {} /\ walk = Walk("tree", 1)
  BY ProcessTreeAssumption DEF TreeInit, Keys
<1>2. comm \in [Pids -> Names]
  BY DEF TreeInit
<1>3. walk \in Walking /\ walk.at = "list"
  BY <1>1 DEF Walk, Walking, InitPid
<1>4. /\ tree \in [DOMAIN tree -> Keys]
      /\ DOMAIN tree \subseteq Pids /\ Cardinality(DOMAIN tree) <= MaxNodes
  <2>1. DOMAIN tree = {} /\ Cardinality({}) = 0
    BY <1>1, FS_EmptySet
  <2> QED
    BY <1>1, <2>1, ProcessTreeAssumption
<1>5. probe \in [Pids -> Probing] /\ parent \in [Pids -> Keys]
  BY <1>1 DEF Probing
<1>6. TreeTypeOK
  BY <1>1, <1>2, <1>3, <1>4, <1>5 DEF TreeTypeOK
<1>7. \A p \in Pids : probe[p] = User /\ probe[p].at \notin Looked
  BY <1>1 DEF User, Looked
<1>8. KinInv
  BY <1>1, <1>3, <1>7 DEF KinInv
<1> QED
  BY <1>1, <1>6, <1>7, <1>8 DEF TreeInv, ProbesInProcesses, LateInv

\* What a process holds in a probe, and the walk over /proc, by where it is.
LEMMA ProbeTypes ==
  ASSUME TreeTypeOK, NEW p \in Pids
  PROVE  /\ probe[p].at \in {"execve", "emit", "exec"} =>
              /\ probe[p].ppid \in Keys /\ probe[p].name \in Names
              /\ probe[p] = [at |-> probe[p].at, ppid |-> probe[p].ppid, name |-> probe[p].name]
         /\ probe[p].at = "sched_exec" => probe[p].ppid \in Keys
         /\ probe[p].at # "user" => probe[p] # User
BY DEF TreeTypeOK, Probing, User

LEMMA WalkTypes ==
  ASSUME TreeTypeOK
  PROVE  /\ walk.next \in Pids /\ walk.of \in {"tree", "cache", "done"}
         /\ walk.of = "tree" /\ walk.at = "insert" => walk.ppid \in Keys
         /\ walk.of = "cache" /\ walk.at = "insert" => walk.comm \in Names \union {NoName}
BY DEF TreeTypeOK, Walking

LEMMA NextPidType ==
  ASSUME TreeTypeOK, walk.of # "done"
  PROVE  NextPid \in Walking /\ NextPid.at = "list"
<1>1. walk.next \in Pids /\ walk.of \in {"tree", "cache"}
  BY WalkTypes
<1>2. Pids = 1..NumPids /\ NumPids \in Nat /\ 1 \in Pids
  BY ProcessAssumption, ProcessTreeAssumption, FS_CardinalityType DEF NumPids, InitPid
<1>3. walk.next < NumPids => walk.next + 1 \in Pids
  BY <1>1, <1>2
<1> QED
  BY <1>1, <1>2, <1>3 DEF NextPid, Walk, Walking

LEMMA ForkInv ==
  ASSUME TreeInv, NEW p \in Pids, NEW c \in Pids, Fork(p, c)
  PROVE  TreeInv'
<1>1. /\ p \in alive /\ probe[p] = User /\ c \notin alive /\ c # p
      /\ alive' = alive \union {c}
      /\ parent' = [parent EXCEPT ![c] = p]
      /\ comm' = [comm EXCEPT ![c] = comm[p]]
      /\ Upsert(c, p)
      /\ forker' = [q \in Pids |-> IF q = c THEN p
                                   ELSE IF forker[q] = c THEN NoPid ELSE forker[q]]
      /\ seen' = [seen EXCEPT ![c] = comm[p]]
      /\ late' = IF walk.of = "done" THEN late \union {c} ELSE late \ {c}
      /\ stale' = IF walk.of = "tree" /\ walk.next = c /\ walk.at = "insert"
                    THEN stale \union {c} ELSE stale \ {c}
      /\ UNCHANGED <<probe, walk>>
  BY DEF Fork
<1>2. TreeTypeOK /\ p \in Keys /\ NoPid \in Keys
  BY DEF TreeInv, Keys
<1>3. /\ tree' \in [DOMAIN tree' -> Keys]
      /\ DOMAIN tree' \subseteq Pids /\ Cardinality(DOMAIN tree') <= MaxNodes
      /\ c \in DOMAIN tree' => tree'[c] = p
      /\ c \notin DOMAIN tree' => c \notin DOMAIN tree /\ Cardinality(DOMAIN tree) >= MaxNodes
      /\ \A q \in Pids \ {c} : /\ q \in DOMAIN tree' <=> q \in DOMAIN tree
                               /\ q \in DOMAIN tree => tree'[q] = tree[q]
      /\ Cardinality(DOMAIN tree) >= MaxNodes => DOMAIN tree' = DOMAIN tree
  BY <1>1, <1>2, UpsertFacts
<1>4. TreeTypeOK'
  BY <1>1, <1>2, <1>3 DEF TreeTypeOK
<1>5. ProbesInProcesses'
  BY <1>1 DEF TreeInv, ProbesInProcesses
<1>6. probe[c] = User /\ probe[c].at \notin Looked
  BY <1>1 DEF TreeInv, ProbesInProcesses, User, Looked
<1>7. forker'[c] = p /\ \A q \in Pids \ {c} : forker'[q] # NoPid => forker'[q] = forker[q]
  BY <1>1
<1>8. LateInv'
  <2>1. late' # {} => walk'.of = "done"
    BY <1>1 DEF TreeInv, LateInv
  <2>2. ASSUME NEW q \in alive' \intersect late'
        PROVE  IF q \in DOMAIN tree' THEN forker'[q] # NoPid => tree'[q] = forker'[q]
                                     ELSE Cardinality(DOMAIN tree') >= MaxNodes
    <3>1. CASE q = c
      BY <1>3, <1>7, <3>1
    <3>2. CASE q # c
      <4>1. q \in alive \intersect late /\ q \in Pids \ {c}
        BY <1>1, <1>2, <2>2, <3>2 DEF TreeTypeOK
      <4>2. IF q \in DOMAIN tree THEN forker[q] # NoPid => tree[q] = forker[q]
                                 ELSE Cardinality(DOMAIN tree) >= MaxNodes
        BY <4>1 DEF TreeInv, LateInv
      <4> QED
        BY <1>3, <1>7, <4>1, <4>2
    <3> QED
      BY <3>1, <3>2
  <2>3. ASSUME NEW q \in late', probe'[q].at \in Looked PROVE probe'[q].ppid = Lookup(q)'
    <3>1. q # c /\ q \in late /\ q \in Pids \ {c}
      BY <1>1, <1>2, <1>6, <2>3 DEF TreeTypeOK
    <3>2. Lookup(q)' = Lookup(q)
      BY <1>1, <1>2, <3>1, UpsertLookup
    <3> QED
      BY <1>1, <2>3, <3>1, <3>2 DEF TreeInv, LateInv
  <2> QED
    BY <2>1, <2>2, <2>3 DEF LateInv
<1>9. KinInv'
  <2> SUFFICES ASSUME NEW q \in alive', forker'[q] # NoPid
               PROVE  /\ parent'[q] \in {NoPid, forker'[q], InitPid}
                      /\ q \notin stale' =>
                           /\ q \in DOMAIN tree' => tree'[q] \in {NoPid, forker'[q], InitPid}
                           /\ probe'[q].at \in Looked =>
                                probe'[q].ppid \in {NoPid, forker'[q], InitPid}
                           /\ walk'.of = "tree" /\ walk'.at = "insert" /\ walk'.next = q =>
                                walk'.ppid \in {NoPid, forker'[q], InitPid}
    BY DEF KinInv
  <2>1. CASE q = c
    <3>1. parent'[q] = p
      BY <1>1, <1>2, <2>1 DEF TreeTypeOK
    <3>2. q \notin stale' => ~ (walk'.of = "tree" /\ walk'.at = "insert" /\ walk'.next = q)
      BY <1>1, <2>1
    <3> QED
      BY <1>1, <1>3, <1>6, <1>7, <2>1, <3>1, <3>2
  <2>2. CASE q # c
    <3>1. q \in alive /\ q \in Pids \ {c} /\ forker'[q] = forker[q] /\ forker[q] # NoPid
      BY <1>1, <1>2, <1>7, <2>2 DEF TreeTypeOK
    <3>2. parent'[q] = parent[q] /\ (q \in stale' <=> q \in stale)
      BY <1>1, <1>2, <3>1 DEF TreeTypeOK
    <3>3. /\ parent[q] \in {NoPid, forker[q], InitPid}
          /\ q \notin stale =>
               /\ q \in DOMAIN tree => tree[q] \in {NoPid, forker[q], InitPid}
               /\ probe[q].at \in Looked => probe[q].ppid \in {NoPid, forker[q], InitPid}
               /\ walk.of = "tree" /\ walk.at = "insert" /\ walk.next = q =>
                    walk.ppid \in {NoPid, forker[q], InitPid}
      BY <3>1 DEF TreeInv, KinInv
    <3> QED
      BY <1>1, <1>3, <3>1, <3>2, <3>3
  <2> QED
    BY <2>1, <2>2
<1> QED
  BY <1>4, <1>5, <1>8, <1>9 DEF TreeInv

\* A step that leaves the map alone, and of the probes moves that of one process:
\* it may look that process up.
LEMMA ProbeStepInv ==
  ASSUME TreeInv, NEW p \in alive,
         UNCHANGED <<alive, parent, tree, walk, forker, late, stale>>,
         comm' \in [Pids -> Names], seen' \in [Pids -> Names], probe' \in [Pids -> Probing],
         \A q \in Pids \ {p} : probe'[q] = probe[q],
         probe'[p].at \in Looked => probe'[p].ppid = Lookup(p)
  PROVE  TreeInv'
<1>1. TreeTypeOK'
  BY DEF TreeInv, TreeTypeOK
<1>2. ProbesInProcesses'
  BY DEF TreeInv, ProbesInProcesses
<1>3. \A q \in Pids : Lookup(q)' = Lookup(q)
  BY DEF Lookup
<1>4. LateInv'
  <2>1. ASSUME NEW q \in late, probe'[q].at \in Looked PROVE probe'[q].ppid = Lookup(q)
    <3>1. q \in Pids
      BY DEF TreeInv, TreeTypeOK
    <3> QED
      BY <2>1, <3>1 DEF TreeInv, LateInv
  <2> QED
    BY <1>3, <2>1 DEF TreeInv, TreeTypeOK, LateInv
<1>5. KinInv'
  <2>1. ASSUME NEW q \in alive, forker[q] # NoPid, q \notin stale, probe'[q].at \in Looked
        PROVE  probe'[q].ppid \in {NoPid, forker[q], InitPid}
    <3>1. q \in Pids
      BY DEF TreeInv, TreeTypeOK
    <3>2. CASE q = p
      BY <2>1, <3>2 DEF TreeInv, KinInv, Lookup
    <3>3. CASE q # p
      BY <2>1, <3>1, <3>3 DEF TreeInv, KinInv
    <3> QED
      BY <3>2, <3>3
  <2> QED
    BY <2>1 DEF TreeInv, KinInv
<1> QED
  BY <1>1, <1>2, <1>4, <1>5 DEF TreeInv

\* A probe stores what it has looked up.
LEMMA StoreInv ==
  ASSUME TreeInv, NEW p \in Pids, probe[p].at \in Looked, Upsert(p, probe[p].ppid),
         UNCHANGED <<alive, parent, comm, walk, forker, seen, late, stale>>,
         probe' \in [Pids -> Probing], \A q \in Pids \ {p} : probe'[q] = probe[q],
         probe'[p].at \notin Looked
  PROVE  TreeInv'
<1>1. TreeTypeOK /\ probe[p].ppid \in Keys /\ p \in alive
  BY ProbeTypes DEF TreeInv, ProbesInProcesses, Looked
<1>2. /\ tree' \in [DOMAIN tree' -> Keys]
      /\ DOMAIN tree' \subseteq Pids /\ Cardinality(DOMAIN tree') <= MaxNodes
      /\ p \in DOMAIN tree' => tree'[p] = probe[p].ppid
      /\ p \notin DOMAIN tree' => p \notin DOMAIN tree /\ Cardinality(DOMAIN tree) >= MaxNodes
      /\ p \in DOMAIN tree => p \in DOMAIN tree'
      /\ \A q \in Pids \ {p} : /\ q \in DOMAIN tree' <=> q \in DOMAIN tree
                               /\ q \in DOMAIN tree => tree'[q] = tree[q]
      /\ Cardinality(DOMAIN tree) >= MaxNodes => DOMAIN tree' = DOMAIN tree
  BY <1>1, UpsertFacts
<1>3. TreeTypeOK'
  BY <1>1, <1>2 DEF TreeTypeOK
<1>4. ProbesInProcesses'
  BY <1>1 DEF TreeInv, ProbesInProcesses
<1>5. LateInv'
  <2>1. ASSUME NEW q \in alive \intersect late
        PROVE  IF q \in DOMAIN tree' THEN forker[q] # NoPid => tree'[q] = forker[q]
                                     ELSE Cardinality(DOMAIN tree') >= MaxNodes
    <3>1. IF q \in DOMAIN tree THEN forker[q] # NoPid => tree[q] = forker[q]
                               ELSE Cardinality(DOMAIN tree) >= MaxNodes
      BY DEF TreeInv, LateInv
    <3>2. CASE q = p
      <4>1. probe[p].ppid = Lookup(p)
        BY <3>2 DEF TreeInv, LateInv
      <4>2. CASE p \in DOMAIN tree
        BY <1>2, <3>1, <3>2, <4>1, <4>2 DEF Lookup
      <4>3. CASE p \notin DOMAIN tree
        BY <1>2, <3>1, <3>2, <4>3
      <4> QED
        BY <4>2, <4>3
    <3>3. CASE q # p
      <4>1. q \in Pids \ {p}
        BY <1>1, <3>3 DEF TreeTypeOK
      <4> QED
        BY <1>2, <3>1, <4>1
    <3> QED
      BY <3>2, <3>3
  <2>2. ASSUME NEW q \in late, probe'[q].at \in Looked PROVE probe'[q].ppid = Lookup(q)'
    <3>1. q \in Pids \ {p}
      BY <1>1, <2>2 DEF TreeTypeOK
    <3>2. Lookup(q)' = Lookup(q)
      BY <1>1, <3>1, UpsertLookup
    <3> QED
      BY <2>2, <3>1, <3>2 DEF TreeInv, LateInv
  <2> QED
    BY <2>1, <2>2 DEF TreeInv, LateInv
<1>6. KinInv'
  <2> SUFFICES ASSUME NEW q \in alive, forker[q] # NoPid, q \notin stale
               PROVE  /\ q \in DOMAIN tree' => tree'[q] \in {NoPid, forker[q], InitPid}
                      /\ probe'[q].at \in Looked => probe'[q].ppid \in {NoPid, forker[q], InitPid}
    BY DEF TreeInv, KinInv
  <2>1. /\ q \in DOMAIN tree => tree[q] \in {NoPid, forker[q], InitPid}
        /\ probe[q].at \in Looked => probe[q].ppid \in {NoPid, forker[q], InitPid}
    BY DEF TreeInv, KinInv
  <2>2. q \in Pids
    BY <1>1 DEF TreeTypeOK
  <2> QED
    BY <1>2, <2>1, <2>2
<1> QED
  BY <1>3, <1>4, <1>5, <1>6 DEF TreeInv

LEMMA RunInv ==
  ASSUME TreeInv, NEW p \in Pids, Run(p)
  PROVE  TreeInv'
<1>0. TreeTypeOK /\ Lookup(p) \in Keys
  BY LookupType DEF TreeInv
<1>1. CASE \E c \in Pids : Fork(p, c)
  BY <1>1, ForkInv
<1>2. CASE \E name \in Names : Execve(p, name)
  <2>1. PICK name \in Names : Execve(p, name)
    BY <1>2
  <2>2. /\ p \in alive
        /\ probe' = [probe EXCEPT ![p] = [at |-> "execve", ppid |-> Lookup(p), name |-> name]]
        /\ UNCHANGED <<alive, parent, comm, tree, walk, forker, seen, late, stale>>
    BY <2>1 DEF Execve, histVars
  <2>3. [at |-> "execve", ppid |-> Lookup(p), name |-> name] \in Probing
    BY <1>0 DEF Probing
  <2>4. probe' \in [Pids -> Probing] /\ \A q \in Pids \ {p} : probe'[q] = probe[q]
    BY <1>0, <2>2, <2>3 DEF TreeTypeOK
  <2>5. probe'[p].ppid = Lookup(p)
    BY <1>0, <2>2 DEF TreeTypeOK
  <2> QED
    BY <1>0, <2>2, <2>4, <2>5, ProbeStepInv DEF TreeTypeOK
<1>3. CASE ExecveStore(p)
  <2>1. /\ probe[p].at = "execve" /\ Upsert(p, probe[p].ppid)
        /\ probe' = [probe EXCEPT ![p].at = "emit"]
        /\ UNCHANGED <<alive, parent, comm, walk, forker, seen, late, stale>>
    BY <1>3 DEF ExecveStore, osVars, histVars
  <2>2. /\ probe[p].ppid \in Keys /\ probe[p].name \in Names
        /\ probe[p] = [at |-> "execve", ppid |-> probe[p].ppid, name |-> probe[p].name]
    BY <1>0, <2>1, ProbeTypes
  <2>3. [probe[p] EXCEPT !.at = "emit"]
          = [at |-> "emit", ppid |-> probe[p].ppid, name |-> probe[p].name]
    BY <2>2
  <2>4. probe' \in [Pids -> Probing] /\ \A q \in Pids \ {p} : probe'[q] = probe[q]
    BY <1>0, <2>1, <2>2, <2>3 DEF TreeTypeOK, Probing
  <2>5. probe[p].at \in Looked /\ probe'[p].at \notin Looked
    BY <1>0, <2>1, <2>3 DEF TreeTypeOK, Looked
  <2> QED
    BY <2>1, <2>4, <2>5, StoreInv
<1>4. CASE ExecveEmit(p)
  <2>1. /\ probe[p].at = "emit"
        /\ seen' = [seen EXCEPT ![p] = probe[p].name]
        /\ probe' = [probe EXCEPT ![p].at = "exec"]
        /\ UNCHANGED <<alive, parent, comm, tree, walk, forker, late, stale>>
    BY <1>4 DEF ExecveEmit, osVars
  <2>2. /\ probe[p].ppid \in Keys /\ probe[p].name \in Names
        /\ probe[p] = [at |-> "emit", ppid |-> probe[p].ppid, name |-> probe[p].name]
    BY <1>0, <2>1, ProbeTypes
  <2>3. [probe[p] EXCEPT !.at = "exec"]
          = [at |-> "exec", ppid |-> probe[p].ppid, name |-> probe[p].name]
    BY <2>2
  <2>4. probe' \in [Pids -> Probing] /\ \A q \in Pids \ {p} : probe'[q] = probe[q]
    BY <1>0, <2>1, <2>2, <2>3 DEF TreeTypeOK, Probing
  <2>5. probe'[p].at \notin Looked /\ p \in alive /\ seen' \in [Pids -> Names]
    BY <1>0, <2>1, <2>2, <2>3, ProbeTypes DEF TreeTypeOK, TreeInv, ProbesInProcesses, Looked
  <2> QED
    BY <1>0, <2>1, <2>4, <2>5, ProbeStepInv DEF TreeTypeOK
<1>5. CASE ExecFails(p)
  <2>1. /\ probe[p].at = "exec" /\ probe' = [probe EXCEPT ![p] = User]
        /\ UNCHANGED <<alive, parent, comm, tree, walk, forker, seen, late, stale>>
    BY <1>5 DEF ExecFails, osVars, histVars
  <2>2. probe' \in [Pids -> Probing] /\ \A q \in Pids \ {p} : probe'[q] = probe[q]
    BY <1>0, <2>1 DEF TreeTypeOK, Probing
  <2>3. probe'[p].at \notin Looked /\ p \in alive
    BY <1>0, <2>1, ProbeTypes DEF TreeTypeOK, TreeInv, ProbesInProcesses, Looked, User
  <2> QED
    BY <1>0, <2>1, <2>2, <2>3, ProbeStepInv DEF TreeTypeOK
<1>6. CASE ExecSucceeds(p)
  <2>1. /\ probe[p].at = "exec"
        /\ comm' = [comm EXCEPT ![p] = probe[p].name]
        /\ probe' = [probe EXCEPT ![p] = [at |-> "sched_exec", ppid |-> Lookup(p)]]
        /\ UNCHANGED <<alive, parent, tree, walk, forker, seen, late, stale>>
    BY <1>6 DEF ExecSucceeds, histVars
  <2>2. [at |-> "sched_exec", ppid |-> Lookup(p)] \in Probing /\ probe[p].name \in Names
    BY <1>0, <2>1, ProbeTypes DEF Probing
  <2>3. probe' \in [Pids -> Probing] /\ \A q \in Pids \ {p} : probe'[q] = probe[q]
    BY <1>0, <2>1, <2>2 DEF TreeTypeOK
  <2>4. probe'[p].ppid = Lookup(p) /\ comm' \in [Pids -> Names]
    BY <1>0, <2>1, <2>2 DEF TreeTypeOK
  <2>5. p \in alive
    BY <1>0, <2>1, ProbeTypes DEF TreeInv, ProbesInProcesses
  <2> QED
    BY <1>0, <2>1, <2>3, <2>4, <2>5, ProbeStepInv DEF TreeTypeOK
<1>7. CASE SchedExecStore(p)
  <2>1. /\ probe[p].at = "sched_exec" /\ Upsert(p, probe[p].ppid)
        /\ probe' = [probe EXCEPT ![p] = User]
        /\ UNCHANGED <<alive, parent, comm, walk, forker, seen, late, stale>>
    BY <1>7 DEF SchedExecStore, osVars, histVars
  <2>2. probe' \in [Pids -> Probing] /\ \A q \in Pids \ {p} : probe'[q] = probe[q]
    BY <1>0, <2>1 DEF TreeTypeOK, Probing
  <2>3. probe[p].at \in Looked /\ probe'[p].at \notin Looked
    BY <1>0, <2>1 DEF TreeTypeOK, Looked, User
  <2> QED
    BY <2>1, <2>2, <2>3, StoreInv
<1>8. CASE Syscall(p)
  <2>1. p \in alive /\ probe[p] = User
        /\ UNCHANGED <<alive, parent, comm, probe, tree, walk, forker, seen, late, stale>>
    BY <1>8 DEF Syscall, histVars
  <2>2. probe'[p].at \notin Looked
    BY <2>1 DEF User, Looked
  <2> QED
    BY <1>0, <2>1, <2>2, ProbeStepInv DEF TreeTypeOK
<1>9. CASE Exit(p)
  <2>1. /\ p \in alive \ {InitPid} /\ probe[p] = User
        /\ alive' = alive \ {p}
        /\ parent' = [q \in Pids |-> IF q = p THEN NoPid
                                     ELSE IF parent[q] = p THEN InitPid ELSE parent[q]]
        /\ UNCHANGED <<comm, probe, tree, walk, forker, seen, late, stale>>
    BY <1>9 DEF Exit, histVars
  <2>2. TreeTypeOK'
    <3>1. parent' \in [Pids -> Keys]
      BY <1>0, <2>1, ProcessTreeAssumption DEF TreeTypeOK, Keys
    <3> QED
      BY <1>0, <2>1, <3>1 DEF TreeTypeOK
  <2>3. ProbesInProcesses'
    BY <2>1 DEF TreeInv, ProbesInProcesses
  <2>4. LateInv'
    BY <2>1 DEF TreeInv, LateInv, Lookup
  <2>5. KinInv'
    BY <1>0, <2>1 DEF TreeInv, TreeTypeOK, KinInv
  <2> QED
    BY <2>2, <2>3, <2>4, <2>5 DEF TreeInv
<1> QED
  BY <1>1, <1>2, <1>3, <1>4, <1>5, <1>6, <1>7, <1>8, <1>9 DEF Run

\* The walks only read, but for the insert of the first.
LEMMA WalkStepInv ==
  ASSUME TreeInv, walk.of # "done", walk' \in Walking,
         UNCHANGED <<alive, parent, comm, probe, tree, forker, seen, late, stale>>,
         walk'.of = "tree" /\ walk'.at = "insert" /\ walk'.next \in alive =>
           walk'.ppid = parent[walk'.next]
  PROVE  TreeInv'
<1>1. TreeTypeOK' /\ ProbesInProcesses'
  BY DEF TreeInv, TreeTypeOK, ProbesInProcesses
<1>2. LateInv'
  BY DEF TreeInv, LateInv, Lookup
<1>3. KinInv'
  BY DEF TreeInv, KinInv
<1> QED
  BY <1>1, <1>2, <1>3 DEF TreeInv

\* While the walk stores a parent no process was forked after it.
LEMMA SeedInsertInv ==
  ASSUME TreeInv, SeedInsert
  PROVE  TreeInv'
<1>1. /\ walk.of = "tree" /\ walk.at = "insert" /\ Upsert(walk.next, walk.ppid)
      /\ walk' = NextPid
      /\ UNCHANGED <<alive, parent, comm, probe, forker, seen, late, stale>>
  BY DEF SeedInsert, WalkFrame, osVars, histVars
<1>2. TreeTypeOK /\ walk.next \in Pids /\ walk.ppid \in Keys
  BY <1>1, WalkTypes DEF TreeInv
<1>3. walk' \in Walking /\ walk'.at = "list"
  BY <1>1, <1>2, NextPidType
<1>4. /\ tree' \in [DOMAIN tree' -> Keys]
      /\ DOMAIN tree' \subseteq Pids /\ Cardinality(DOMAIN tree') <= MaxNodes
      /\ walk.next \in DOMAIN tree' => tree'[walk.next] = walk.ppid
      /\ \A q \in Pids \ {walk.next} : /\ q \in DOMAIN tree' <=> q \in DOMAIN tree
                                       /\ q \in DOMAIN tree => tree'[q] = tree[q]
  BY <1>1, <1>2, UpsertFacts
<1>5. TreeTypeOK' /\ ProbesInProcesses'
  BY <1>1, <1>2, <1>3, <1>4 DEF TreeInv, TreeTypeOK, ProbesInProcesses
<1>6. LateInv'
  <2>1. late = {} /\ late' = {}
    BY <1>1 DEF TreeInv, LateInv
  <2> QED
    BY <2>1 DEF LateInv
<1>7. KinInv'
  <2> SUFFICES ASSUME NEW q \in alive, forker[q] # NoPid, q \notin stale, q \in DOMAIN tree'
               PROVE  tree'[q] \in {NoPid, forker[q], InitPid}
    BY <1>1, <1>3 DEF TreeInv, KinInv
  <2>1. q \in Pids
    BY <1>2 DEF TreeTypeOK
  <2>2. CASE q = walk.next
    BY <1>1, <1>4, <2>2 DEF TreeInv, KinInv
  <2>3. CASE q # walk.next
    BY <1>4, <2>1, <2>3 DEF TreeInv, KinInv
  <2> QED
    BY <2>2, <2>3
<1> QED
  BY <1>5, <1>6, <1>7 DEF TreeInv

LEMMA WalksInv ==
  ASSUME TreeInv, List \/ SeedRead \/ CacheRead \/ CacheInsert
  PROVE  TreeInv'
<1>0. /\ UNCHANGED <<alive, parent, comm, probe, tree, forker, seen, late, stale>>
      /\ walk.of # "done" /\ TreeTypeOK
  BY DEF List, SeedRead, CacheRead, CacheInsert, WalkFrame, osVars, histVars, TreeInv
<1>1. CASE List
  <2>1. CASE walk.next \in alive
    <3>1. walk' = [walk EXCEPT !.at = "read"] /\ walk.at = "list"
      BY <1>1, <2>1 DEF List
    <3>2. walk \in [of : {"tree", "cache", "done"}, next : Pids, at : {"list"}]
      BY <1>0, <3>1 DEF TreeTypeOK, Walking
    <3>3. walk' \in Walking /\ walk'.at = "read"
      BY <1>0, <3>1, <3>2 DEF Walking
    <3> QED
      BY <1>0, <3>3, WalkStepInv
  <2>2. CASE walk.next \notin alive
    <3>1. walk' \in Walking /\ walk'.at = "list"
      BY <1>0, <1>1, <2>2, NextPidType DEF List
    <3> QED
      BY <1>0, <3>1, WalkStepInv
  <2> QED
    BY <2>1, <2>2
<1>2. CASE SeedRead
  <2>1. walk' = [of |-> "tree", next |-> walk.next, at |-> "insert", ppid |-> StatPpid]
    BY <1>2 DEF SeedRead
  <2>2. walk.next \in Pids /\ StatPpid \in Keys
    BY <1>0, WalkTypes DEF StatPpid, TreeTypeOK, Keys
  <2>3. walk' \in Walking
    BY <2>1, <2>2 DEF Walking
  <2>4. walk'.next \in alive => walk'.ppid = parent[walk'.next]
    BY <2>1 DEF StatPpid
  <2> QED
    BY <1>0, <2>3, <2>4, WalkStepInv
<1>3. CASE CacheRead
  <2>1. walk' = [of |-> "cache", next |-> walk.next, at |-> "insert",
                 comm |-> IF walk.next \in alive THEN comm[walk.next] ELSE NoName]
    BY <1>3 DEF CacheRead
  <2>2. walk.next \in Pids /\ comm[walk.next] \in Names
    BY <1>0, WalkTypes DEF TreeTypeOK
  <2>3. walk' \in Walking /\ walk'.of # "tree"
    BY <2>1, <2>2 DEF Walking
  <2> QED
    BY <1>0, <2>3, WalkStepInv
<1>4. CASE CacheInsert
  <2>1. walk' \in Walking /\ walk'.at = "list"
    BY <1>0, <1>4, NextPidType DEF CacheInsert
  <2> QED
    BY <1>0, <2>1, WalkStepInv
<1> QED
  BY <1>1, <1>2, <1>3, <1>4

LEMMA TreeStepInv == TreeInv /\ [LineageNext]_allVars => TreeInv'
<1> SUFFICES ASSUME TreeInv, [LineageNext]_allVars PROVE TreeInv'
  OBVIOUS
<1>1. CASE ProcessOrProbe
  BY <1>1, RunInv, WalksInv, SeedInsertInv DEF ProcessOrProbe, TreeNext
<1>2. CASE CacheRead \/ CacheInsert
  BY <1>2, WalksInv
<1>3. CASE EnrichNext \/ LineageStep \/ UNCHANGED allVars
  <2>1. UNCHANGED <<alive, parent, comm, probe, tree, walk, forker, seen, late, stale>>
    BY <1>3 DEF EnrichNext, LineageStep, allVars, treeVars, osVars, histVars
  <2> QED
    BY <2>1 DEF TreeInv, TreeTypeOK, ProbesInProcesses, LateInv, KinInv, Lookup
<1> QED
  BY <1>1, <1>2, <1>3 DEF LineageNext

\* What PROCESS_TREE knows, what the probes and the walk hold on its way there,
\* and what processes there are, keep to each other, in any interleaving of the
\* processes, the walks over /proc and the enricher.
THEOREM TreeInvariant == LineageSpec => []TreeInv
<1>1. LineageInit => TreeInv
  BY TreeInitInv DEF LineageInit
<1> QED
  BY <1>1, TreeStepInv, PTL DEF LineageSpec

\* A process forked after the walks is in the map with its forker unless the map
\* was full, whatever execs, exits and reuse of pids follow.
THEOREM LateForksKnownEver == LineageSpec => []LateForksKnown
<1>1. TreeInv => LateForksKnown
  BY DEF TreeInv, LateInv, LateForksKnown
<1> QED
  BY <1>1, TreeInvariant, PTL

\* The race between the seeding and the probes never gives a process a parent
\* it did not have, except through a pid reused in the walk's hands.
THEOREM NoStrangerAsParentEver == LineageSpec => []NoStrangerAsParent
<1>1. TreeInv => NoStrangerAsParent
  BY DEF TreeInv, KinInv, NoStrangerAsParent
<1> QED
  BY <1>1, TreeInvariant, PTL

-----------------------------------------------------------------------------
(* The records, and what the enricher makes of them.                       *)

\* Why LineageTypeOK holds, next to TreeInv: records carry the names of running
\* processes and of what they execute, and no name is empty.
RecordsOK ==
  /\ records \in Seq(ToSet(records))
  /\ \A i \in DOMAIN records :
       /\ Raw(records[i]) \in Records
       /\ Comm(Raw(records[i])) # NoName

LineageInv == TreeInv /\ RecordsOK /\ TypeOK /\ ~ blank

LEMMA ListForm ==
  ASSUME NEW s
  PROVE  s \in Seq(ToSet(s)) <=> Len(s) \in Nat /\ s = [i \in 1..Len(s) |-> s[i]]
<1>1. ASSUME s \in Seq(ToSet(s)) PROVE Len(s) \in Nat /\ s = [i \in 1..Len(s) |-> s[i]]
  BY <1>1
<1>2. ASSUME Len(s) \in Nat, s = [i \in 1..Len(s) |-> s[i]] PROVE s \in Seq(ToSet(s))
  <2>1. DOMAIN s = 1..Len(s)
    BY <1>2
  <2>2. s \in [1..Len(s) -> ToSet(s)]
    BY <1>2, <2>1 DEF ToSet
  <2> QED
    BY <1>2, <2>2, SeqDef
<1> QED
  BY <1>1, <1>2

\* The code's part of a record.
LEMMA RawRecord ==
  ASSUME NEW kind, NEW pid, NEW ppid, NEW name, NEW path, NEW told
  PROVE  Raw([kind |-> kind, pid |-> pid, ppid |-> ppid, comm |-> name, path |-> path,
              claim |-> told])
         = [kind |-> kind, pid |-> pid, ppid |-> ppid, comm |-> name, path |-> path]
<1> DEFINE r == [kind |-> kind, pid |-> pid, ppid |-> ppid, comm |-> name, path |-> path,
                 claim |-> told]
           raw == [kind |-> kind, pid |-> pid, ppid |-> ppid, comm |-> name, path |-> path]
<1>1. DOMAIN r \ {"claim"} = DOMAIN raw
  OBVIOUS
<1>2. \A field \in DOMAIN raw : r[field] = raw[field]
  OBVIOUS
<1>3. raw = [field \in DOMAIN raw |-> raw[field]]
  OBVIOUS
<1> QED
  BY <1>1, <1>2, <1>3 DEF Raw

LEMMA EmitOK ==
  ASSUME RecordsOK, NEW kind \in {"processfork", "exec", "other"}, NEW pid \in Pids,
         NEW ppid \in Keys, NEW name \in Names, NEW path \in Names \union {NoName}, NEW told,
         Emit(kind, pid, ppid, name, path, told)
  PROVE  RecordsOK'
<1> DEFINE r == [kind |-> kind, pid |-> pid, ppid |-> ppid, comm |-> name, path |-> path,
                 claim |-> told]
           n == Len(records)  S == ToSet(records) \union {r}
<1>1. records' = Append(records, r)
  BY DEF Emit
<1>2. Raw(r) \in Records /\ Comm(Raw(r)) # NoName
  <2>1. Raw(r) = [kind |-> kind, pid |-> pid, ppid |-> ppid, comm |-> name, path |-> path]
    BY RawRecord
  <2> QED
    BY <2>1, ProcessAssumption DEF Records, Comm
<1> HIDE DEF r
<1>3. n \in Nat /\ records = [i \in 1..n |-> records[i]]
  BY ListForm DEF RecordsOK
<1>4. records \in Seq(S)
  <2>1. records \in [1..n -> S]
    BY <1>3 DEF ToSet
  <2> QED
    BY <1>3, <2>1, SeqDef
<1> HIDE DEF S
<1>5. /\ records' \in Seq(S) /\ Len(records') = n + 1 /\ DOMAIN records' = 1..(n + 1)
      /\ records'[n + 1] = r /\ \A i \in 1..n : records'[i] = records[i]
  BY <1>1, <1>4 DEF S
<1> HIDE DEF n
<1>6. records' \in Seq(ToSet(records'))
  BY <1>3, <1>5, ListForm
<1>7. ASSUME NEW i \in DOMAIN records'
      PROVE  Raw(records'[i]) \in Records /\ Comm(Raw(records'[i])) # NoName
  <2>1. CASE i = n + 1
    BY <1>2, <1>5, <2>1
  <2>2. CASE i # n + 1
    <3>1. i \in 1..n
      BY <1>3, <1>5, <2>2
    <3>2. i \in DOMAIN records /\ records'[i] = records[i]
      BY <1>3, <1>5, <3>1
    <3> QED
      BY <3>2 DEF RecordsOK
  <2> QED
    BY <2>1, <2>2
<1>8. ToSet(records)' = ToSet(records')
  BY DEF ToSet
<1> QED
  BY <1>6, <1>7, <1>8 DEF RecordsOK

\* A record is taken from the front.
LEMMA TakeOK ==
  ASSUME RecordsOK, records # <<>>
  PROVE  /\ Raw(Head(records)) \in Records /\ Comm(Raw(Head(records))) # NoName
         /\ records' = Tail(records) => RecordsOK'
<1> DEFINE n == Len(records)  S == ToSet(records)
<1>1. n \in Nat /\ records \in Seq(S) /\ DOMAIN records = 1..n
  BY DEF RecordsOK
<1> HIDE DEF S
<1>2. n # 0 /\ Head(records) = records[1]
  BY <1>1
<1>3. ASSUME records' = Tail(records) PROVE RecordsOK'
  <2>1. /\ records' \in Seq(S) /\ Len(records') = n - 1 /\ DOMAIN records' = 1..(n - 1)
        /\ \A i \in 1..(n - 1) : records'[i] = records[i + 1]
    BY <1>1, <1>2, <1>3
  <2> HIDE DEF n
  <2>2. records' \in Seq(ToSet(records'))
    BY <1>1, <2>1, ListForm
  <2>3. \A i \in 1..(n - 1) : i + 1 \in DOMAIN records
    BY <1>1
  <2> QED
    BY <2>1, <2>2, <2>3 DEF RecordsOK, ToSet
<1>4. 1 \in DOMAIN records
  BY <1>1, <1>2
<1> QED
  BY <1>2, <1>3, <1>4 DEF RecordsOK

LEMMA RecordsUnchanged == RecordsOK /\ UNCHANGED records => RecordsOK'
BY DEF RecordsOK

LEMMA RunRecords ==
  ASSUME TreeInv, RecordsOK, NEW p \in Pids, Run(p)
  PROVE  RecordsOK'
<1>0. TreeTypeOK /\ Lookup(p) \in Keys /\ comm[p] \in Names /\ p \in Keys
  BY LookupType DEF TreeInv, TreeTypeOK, Keys
<1>1. ASSUME NEW c \in Pids, Fork(p, c) PROVE RecordsOK'
  <2> DEFINE told == IF walk.of = "done" THEN <<seen[p]>> \o Told(p)' ELSE <<>>
  <2>1. Emit("processfork", c, p, comm[p], NoName, told)
    BY <1>1 DEF Fork
  <2> HIDE DEF told
  <2> QED
    BY <1>0, <2>1, EmitOK
<1>2. ASSUME ExecveEmit(p) PROVE RecordsOK'
  <2>1. /\ probe[p].name \in Names
        /\ Emit("exec", p, Lookup(p), comm[p], probe[p].name, Told(p)')
    BY <1>0, <1>2, ProbeTypes DEF ExecveEmit, EmitOwn
  <2> QED
    BY <1>0, <2>1, EmitOK
<1>3. ASSUME Syscall(p) PROVE RecordsOK'
  <2>1. Emit("other", p, Lookup(p), comm[p], NoName, Told(p)')
    BY <1>3 DEF Syscall, EmitOwn
  <2> QED
    BY <1>0, <2>1, EmitOK
<1>4. ASSUME \/ \E name \in Names : Execve(p, name)
             \/ ExecveStore(p) \/ ExecFails(p) \/ ExecSucceeds(p) \/ SchedExecStore(p) \/ Exit(p)
      PROVE  RecordsOK'
  <2>1. UNCHANGED records
    BY <1>4 DEF Execve, ExecveStore, ExecFails, ExecSucceeds, SchedExecStore, Exit
  <2> QED
    BY <2>1, RecordsUnchanged
<1> QED
  BY <1>1, <1>2, <1>3, <1>4 DEF Run

LEMMA LineageInitInv == LineageInit => LineageInv
<1> SUFFICES ASSUME LineageInit PROVE LineageInv
  OBVIOUS
<1>1. /\ TreeInit /\ processes = <<>> /\ event = Idle /\ blank = FALSE /\ records = <<>>
  BY DEF LineageInit, TreeInit
<1>2. RecordsOK
  <2>1. <<>> \in Seq(ToSet(<<>>)) /\ DOMAIN <<>> = {}
    OBVIOUS
  <2> QED
    BY <1>1, <2>1 DEF RecordsOK
<1>3. TypeOK
  <2>1. DOMAIN processes = {}
    BY <1>1
  <2> QED
    BY <1>1, <2>1 DEF TypeOK
<1> QED
  BY <1>1, <1>2, <1>3, TreeInitInv DEF LineageInv

\* A step of the composition is one of the enricher, or leaves it alone, once its
\* cache has been seeded.
LEMMA EnricherMoves ==
  ASSUME LineageInv, [LineageNext]_allVars
  PROVE  walk.of = "done" => [Next]_vars
<1>1. CASE ProcessOrProbe \/ CacheRead \/ UNCHANGED allVars
  BY <1>1 DEF ProcessOrProbe, CacheRead, allVars
<1>2. CASE CacheInsert
  BY <1>2 DEF CacheInsert
<1>3. CASE EnrichNext
  <2>1. Raw(Head(records)) \in Records
    BY <1>3, TakeOK DEF EnrichNext, LineageInv
  <2> QED
    BY <1>3, <2>1 DEF EnrichNext, Next
<1>4. CASE LineageStep
  BY <1>4 DEF LineageStep, Next
<1> QED
  BY <1>1, <1>2, <1>3, <1>4 DEF LineageNext

LEMMA LineageStepInv == LineageInv /\ [LineageNext]_allVars => LineageInv'
<1> SUFFICES ASSUME LineageInv, [LineageNext]_allVars PROVE LineageInv'
  OBVIOUS
<1>0. TreeInv /\ TreeTypeOK /\ RecordsOK /\ TypeOK /\ ~ blank /\ TreeInv'
  BY TreeStepInv DEF LineageInv, TreeInv
<1>1. CASE ProcessOrProbe
  <2>1. UNCHANGED vars
    BY <1>1 DEF ProcessOrProbe
  <2>2. TypeOK' /\ ~ blank'
    BY <1>0, <2>1, StepTypeOK DEF vars
  <2>3. CASE \E p \in Pids : Run(p)
    BY <1>0, <2>2, <2>3, RunRecords DEF LineageInv
  <2>4. CASE List \/ SeedRead \/ SeedInsert
    BY <1>0, <2>2, <2>4, RecordsUnchanged DEF LineageInv, List, SeedRead, SeedInsert, WalkFrame
  <2> QED
    BY <1>1, <2>3, <2>4 DEF ProcessOrProbe, TreeNext
<1>2. CASE CacheRead \/ UNCHANGED allVars
  <2>1. UNCHANGED vars /\ UNCHANGED records
    BY <1>2 DEF CacheRead, WalkFrame, allVars, treeVars
  <2> QED
    BY <1>0, <2>1, RecordsUnchanged, StepTypeOK DEF LineageInv, vars
<1>3. CASE CacheInsert
  <2>1. /\ processes' = Insert(processes, walk.next, Info(StatPpid, walk.comm))
        /\ UNCHANGED <<records, event, blank>>
        /\ walk.of = "cache" /\ walk.at = "insert"
    BY <1>3 DEF CacheInsert, WalkFrame
  <2>2. walk.next \in Keys /\ Info(StatPpid, walk.comm) \in Infos
    BY <1>0, <2>1, WalkTypes, InfoType DEF StatPpid, TreeTypeOK, Keys
  <2>3. CacheOK(processes)
    BY <1>0 DEF TypeOK, CacheOK
  <2>4. CacheOK(processes')
    BY <2>1, <2>2, <2>3, InsertType
  <2>5. TypeOK'
    BY <1>0, <2>1, <2>4 DEF TypeOK, CacheOK
  <2> QED
    BY <1>0, <2>1, <2>5, RecordsUnchanged DEF LineageInv
<1>4. CASE EnrichNext
  <2>1. /\ Enrich(Raw(Head(records))) /\ records # <<>> /\ records' = Tail(records)
    BY <1>4 DEF EnrichNext
  <2>2. Raw(Head(records)) \in Records /\ Comm(Raw(Head(records))) # NoName /\ RecordsOK'
    BY <1>0, <2>1, TakeOK
  <2>3. Next
    BY <2>1, <2>2 DEF Next
  <2>4. ~ blank'
    BY <1>0, <2>1, <2>2 DEF Enrich
  <2> QED
    BY <1>0, <2>2, <2>3, <2>4, StepTypeOK DEF LineageInv
<1>5. CASE LineageStep
  <2>1. Next /\ UNCHANGED <<records, blank>>
    BY <1>5 DEF LineageStep, Next, Step, Return, treeVars
  <2> QED
    BY <1>0, <2>1, RecordsUnchanged, StepTypeOK DEF LineageInv
<1> QED
  BY <1>1, <1>2, <1>3, <1>4, <1>5 DEF LineageNext

\* The records of the ring are such as the enricher is given in its own module,
\* and carry a name: the condition under which its walks come to an end.
THEOREM LineageInvariant == LineageSpec => []LineageInv
<1> QED
  BY LineageInitInv, LineageStepInv, PTL DEF LineageSpec

\* The map keeps its size, ring and cache their types, in every interleaving.
THEOREM LineageTypesHold == LineageSpec => []LineageTypeOK
<1>1. LineageInv => LineageTypeOK
  BY DEF LineageInv, TreeInv, TreeTypeOK, RecordsOK, LineageTypeOK
<1> QED
  BY <1>1, LineageInvariant, PTL

\* Once its cache has been seeded, the enricher behind the probes does nothing
\* that its own module does not: what is proved there of a step holds here.
THEOREM SeededEnricherSteps == LineageSpec => [][walk.of = "done" => [Next]_vars]_allVars
<1>1. LineageInv /\ [LineageNext]_allVars => [walk.of = "done" => [Next]_vars]_allVars
  BY EnricherMoves
<1> QED
  BY <1>1, LineageInvariant, PTL DEF LineageSpec

-----------------------------------------------------------------------------
(***************************************************************************)
(* The lineage of an event.  A record claims the names of the processes    *)
(* that forked its own, one the other.  The claim is true of the cache as  *)
(* it will be once the records before it have been handled, so the         *)
(* invariant speaks of the caches from the one the enricher has now to the *)
(* one it will have when the ring is empty.                                *)
(***************************************************************************)

(* What the claim is: Ancestry, defined by recursion, for every length.    *)

\* Induction over the numbers: a set that is not empty has a least one.
LEMMA LeastNumber ==
  ASSUME NEW S \in SUBSET Nat, S # {}
  PROVE  \E m \in S : \A k \in S : m <= k
<1> DEFINE Less == {ss \in Nat \X Nat : ss[1] < ss[2]}
<1>1. IsWellFoundedOn(Less, Nat)
  BY NatLessThanWellFounded DEF OpToRel
<1>2. PICK m \in S : \A k \in S : ~ (<<k, m>> \in Less)
  <2> HIDE DEF Less
  <2> QED
    BY <1>1, WFMin
<1>3. ASSUME NEW k \in S PROVE m <= k
  <2>1. k \in Nat /\ m \in Nat /\ ~ (k < m)
    BY <1>2
  <2> QED
    BY <2>1
<1> QED
  BY <1>3

\* The function Ancestry defines, step by step.
Row(m, g, by, names, known) ==
  [q \in Pids |-> IF m = 0 \/ q \notin known \/ by[q] = NoPid THEN <<>>
                  ELSE <<names[by[q]]>> \o g[m - 1][by[q]]]

IsChain(g, n, by, names, known) == g = [m \in 0..n |-> Row(m, g, by, names, known)]

LEMMA ChainExists ==
  ASSUME NEW by, NEW names, NEW known, NEW n \in Nat
  PROVE  \E g : IsChain(g, n, by, names, known)
<1> DEFINE Without == {m \in Nat : ~ \E g : IsChain(g, m, by, names, known)}
<1> SUFFICES ASSUME Without # {} PROVE FALSE
  OBVIOUS
<1>1. PICK m \in Without : \A k \in Without : m <= k
  BY LeastNumber
<1>2. CASE m = 0
  <2> DEFINE h == [j \in 0..0 |-> [q \in Pids |-> <<>>]]
  <2>1. \A j \in 0..0 : Row(j, h, by, names, known) = [q \in Pids |-> <<>>]
    BY DEF Row
  <2>2. IsChain(h, 0, by, names, known)
    BY <2>1 DEF IsChain
  <2> HIDE DEF h
  <2> QED
    BY <1>2, <2>2
<1>3. CASE m # 0
  <2>1. m - 1 \in Nat /\ m - 1 \notin Without
    BY <1>1, <1>3
  <2>2. PICK g : IsChain(g, m - 1, by, names, known)
    BY <2>1
  <2> DEFINE h == [j \in 0..m |-> IF j = m THEN Row(m, g, by, names, known) ELSE g[j]]
  <2>3. \A j \in 0..(m - 1) : g[j] = Row(j, g, by, names, known)
    BY <2>2 DEF IsChain
  <2>4. \A j \in 0..(m - 1) : h[j] = g[j]
    BY <1>1
  <2>5. \A j \in 0..m : Row(j, h, by, names, known) = Row(j, g, by, names, known)
    <3> SUFFICES ASSUME NEW j \in 0..m
                 PROVE  Row(j, h, by, names, known) = Row(j, g, by, names, known)
      OBVIOUS
    <3> HIDE DEF h
    <3>1. CASE j = 0
      BY <3>1 DEF Row
    <3>2. CASE j # 0
      <4>1. h[j - 1] = g[j - 1]
        BY <2>4, <3>2
      <4> QED
        BY <4>1 DEF Row
    <3> QED
      BY <3>1, <3>2
  <2>6. \A j \in 0..m : h[j] = Row(j, g, by, names, known)
    <3>1. \A j \in 0..m : j # m => j \in 0..(m - 1)
      BY <1>1
    <3> QED
      BY <2>3, <3>1
  <2>7. IsChain(h, m, by, names, known)
    <3>1. h = [j \in 0..m |-> h[j]]
      OBVIOUS
    <3> HIDE DEF h
    <3> QED
      BY <2>5, <2>6, <3>1 DEF IsChain
  <2> HIDE DEF h
  <2> QED
    BY <1>1, <2>7
<1> QED
  BY <1>2, <1>3

LEMMA AncestryForm ==
  ASSUME NEW by, NEW names, NEW known
  PROVE  \E g : /\ IsChain(g, NumPids, by, names, known)
                /\ \A p : Ancestry(p, by, names, known) = g[NumPids][p]
<1> DEFINE g == CHOOSE g : IsChain(g, NumPids, by, names, known)
<1>1. NumPids \in Nat
  BY ProcessAssumption, FS_CardinalityType DEF NumPids
<1>2. IsChain(g, NumPids, by, names, known)
  BY <1>1, ChainExists
<1>3. ASSUME NEW p PROVE Ancestry(p, by, names, known) = g[NumPids][p]
  BY DEF Ancestry, IsChain, Row
<1> HIDE DEF g
<1> QED
  BY <1>2, <1>3

-----------------------------------------------------------------------------
\* A walk that is at q, in the cache V, tells what s holds behind its first n.
TellsFrom(V, q, s, n) ==
  \E pids : /\ n < Len(s) => pids[n + 1] = q
            /\ \A i \in (n + 1)..Len(s) :
                 /\ pids[i] \in Pids /\ pids[i] \in DOMAIN V
                 /\ V[pids[i]].comm = s[i]
                 /\ i < Len(s) => V[pids[i]].ppid = pids[i + 1]

Tells(V, q, s) == s \in Seq(Names) /\ TellsFrom(V, q, s, 0)

LEMMA TellsNothing ==
  ASSUME NEW V, NEW q
  PROVE  Tells(V, q, <<>>)
<1>1. Len(<<>>) = 0
  OBVIOUS
<1>2. \E pids : TRUE
  OBVIOUS
<1> QED
  BY <1>1, <1>2, EmptySeq DEF Tells, TellsFrom

LEMMA TellsCons ==
  ASSUME NEW V, NEW q \in Pids, q \in DOMAIN V, NEW s \in Seq(Names), NEW name \in Names,
         V[q].comm = name, s # <<>> => Tells(V, V[q].ppid, s)
  PROVE  Tells(V, q, <<name>> \o s)
<1> DEFINE t == <<name>> \o s
<1>1. /\ t \in Seq(Names) /\ Len(t) = Len(s) + 1 /\ Len(s) \in Nat
      /\ t[1] = name /\ \A i \in 2..Len(t) : t[i] = s[i - 1]
  <2>1. <<name>> \in Seq(Names) /\ Len(<<name>>) = 1 /\ <<name>>[1] = name /\ Len(s) \in Nat
    OBVIOUS
  <2>2. /\ t \in Seq(Names) /\ Len(t) = 1 + Len(s)
        /\ \A i \in 1..(1 + Len(s)) : t[i] = IF i <= 1 THEN <<name>>[i] ELSE s[i - 1]
    BY <2>1, ConcatProperties
  <2> HIDE DEF t
  <2> QED
    BY <2>1, <2>2
<1> HIDE DEF t
<1>2. \E pids : /\ Len(s) # 0 => pids[1] = V[q].ppid
                /\ \A i \in 1..Len(s) : /\ pids[i] \in Pids /\ pids[i] \in DOMAIN V
                                        /\ V[pids[i]].comm = s[i]
                                        /\ i < Len(s) => V[pids[i]].ppid = pids[i + 1]
  <2>1. CASE s = <<>>
    <3>1. Len(s) = 0 /\ \E pids : TRUE
      BY <2>1
    <3> QED
      BY <3>1
  <2>2. CASE s # <<>>
    <3>1. Len(s) # 0
      BY <2>2
    <3>2. TellsFrom(V, V[q].ppid, s, 0) /\ 0 < Len(s) /\ 0 + 1 = 1
      BY <1>1, <2>2, <3>1 DEF Tells
    <3> QED
      BY <3>2 DEF TellsFrom
  <2> QED
    BY <2>1, <2>2
<1>3. PICK pids : /\ Len(s) # 0 => pids[1] = V[q].ppid
                  /\ \A i \in 1..Len(s) : /\ pids[i] \in Pids /\ pids[i] \in DOMAIN V
                                          /\ V[pids[i]].comm = s[i]
                                          /\ i < Len(s) => V[pids[i]].ppid = pids[i + 1]
  BY <1>2
<1> DEFINE qids == [i \in Nat |-> IF i = 1 THEN q ELSE pids[i - 1]]
<1>4. qids[1] = q /\ \A i \in Nat : i # 1 => qids[i] = pids[i - 1]
  OBVIOUS
<1> HIDE DEF qids
<1>5. ASSUME NEW i \in 1..Len(t)
      PROVE  /\ qids[i] \in Pids /\ qids[i] \in DOMAIN V /\ V[qids[i]].comm = t[i]
             /\ i < Len(t) => V[qids[i]].ppid = qids[i + 1]
  <2>0. i \in Nat /\ i + 1 \in Nat /\ i + 1 # 1 /\ (i + 1) - 1 = i
    BY <1>1
  <2>1. CASE i = 1
    <3>1. qids[i] = q /\ t[i] = name /\ qids[i + 1] = pids[1]
      BY <1>1, <1>4, <2>0, <2>1
    <3>2. i < Len(t) => Len(s) # 0
      BY <1>1, <2>1
    <3> QED
      BY <1>3, <3>1, <3>2
  <2>2. CASE i # 1
    <3>1. i - 1 \in 1..Len(s) /\ i \in 2..Len(t) /\ (i - 1) + 1 = i
          /\ (i < Len(t) => i - 1 < Len(s))
      BY <1>1, <2>0, <2>2
    <3>2. qids[i] = pids[i - 1] /\ t[i] = s[i - 1] /\ qids[i + 1] = pids[i]
      BY <1>1, <1>4, <2>0, <2>2, <3>1
    <3>3. /\ pids[i - 1] \in Pids /\ pids[i - 1] \in DOMAIN V
          /\ V[pids[i - 1]].comm = s[i - 1]
          /\ i - 1 < Len(s) => V[pids[i - 1]].ppid = pids[(i - 1) + 1]
      BY <1>3, <3>1
    <3> QED
      BY <3>1, <3>2, <3>3
  <2> QED
    BY <2>1, <2>2
<1>6. TellsFrom(V, q, t, 0)
  BY <1>4, <1>5 DEF TellsFrom
<1> QED
  BY <1>1, <1>6 DEF t, Tells

\* What a process's forkers are called can be read off a cache that links each
\* of them to its own.
LEMMA AncestryTold ==
  ASSUME NEW by \in [Pids -> Keys], NEW names \in [Pids -> Names], NEW known \in SUBSET Pids,
         NEW V,
         \A q \in known : by[q] # NoPid =>
           /\ q \in DOMAIN V /\ V[q].ppid = by[q]
           /\ by[q] \in DOMAIN V /\ V[by[q]].comm = names[by[q]],
         NEW p \in Pids
  PROVE  LET s == Ancestry(p, by, names, known) IN
         /\ s # <<>> => p \in known /\ by[p] # NoPid
         /\ Tells(V, by[p], s)
<1>1. PICK g : /\ IsChain(g, NumPids, by, names, known)
               /\ \A q : Ancestry(q, by, names, known) = g[NumPids][q]
  BY AncestryForm
<1>2. NumPids \in Nat
  BY ProcessAssumption, FS_CardinalityType DEF NumPids
<1> DEFINE Good(m, q) == /\ g[m][q] # <<>> => q \in known /\ by[q] # NoPid
                         /\ Tells(V, by[q], g[m][q])
           Bad == {m \in 0..NumPids : ~ \A q \in Pids : Good(m, q)}
<1>3. \A m \in 0..NumPids : \A q \in Pids :
        g[m][q] = IF m = 0 \/ q \notin known \/ by[q] = NoPid THEN <<>>
                  ELSE <<names[by[q]]>> \o g[m - 1][by[q]]
  <2>1. \A m \in 0..NumPids : g[m] = Row(m, g, by, names, known)
    BY <1>1 DEF IsChain
  <2> SUFFICES ASSUME NEW m \in 0..NumPids, NEW q \in Pids
               PROVE  g[m][q] = IF m = 0 \/ q \notin known \/ by[q] = NoPid THEN <<>>
                                ELSE <<names[by[q]]>> \o g[m - 1][by[q]]
    OBVIOUS
  <2>2. g[m][q] = Row(m, g, by, names, known)[q]
    BY <2>1
  <2> QED
    BY <2>2 DEF Row
<1>4. Bad = {}
  <2> SUFFICES ASSUME Bad # {} PROVE FALSE
    OBVIOUS
  <2>1. PICK m \in Bad : \A k \in Bad : m <= k
    <3>1. Bad \in SUBSET Nat
      BY <1>2
    <3> HIDE DEF Bad
    <3> QED
      BY <3>1, LeastNumber
  <2>2. m \in 0..NumPids
    OBVIOUS
  <2>3. ASSUME NEW q \in Pids PROVE Good(m, q)
    <3>1. CASE m = 0 \/ q \notin known \/ by[q] = NoPid
      <4>1. g[m][q] = <<>> /\ <<>> \in Seq(Names)
        BY <1>3, <2>2, <3>1, EmptySeq
      <4> QED
        BY <4>1, TellsNothing
    <3>2. CASE ~ (m = 0 \/ q \notin known \/ by[q] = NoPid)
      <4>1. g[m][q] = <<names[by[q]]>> \o g[m - 1][by[q]]
        BY <1>3, <2>2, <3>2
      <4>2. m - 1 \in 0..NumPids /\ ~ (m <= m - 1)
        BY <1>2, <2>2, <3>2
      <4>3. m - 1 \notin Bad
        BY <2>1, <4>2
      <4>4. by[q] \in Pids
        BY <3>2 DEF Keys
      <4>5. Good(m - 1, by[q])
        BY <4>2, <4>3, <4>4
      <4> DEFINE s == g[m - 1][by[q]]
      <4>6. s \in Seq(Names) /\ (s # <<>> => Tells(V, V[by[q]].ppid, s))
        BY <4>4, <4>5, TellsNothing DEF Tells
      <4> HIDE DEF s
      <4>7. Tells(V, by[q], <<names[by[q]]>> \o s)
        BY <3>2, <4>4, <4>6, TellsCons
      <4> QED
        BY <3>2, <4>1, <4>7 DEF s
    <3> QED
      BY <3>1, <3>2
  <2> QED
    BY <2>1, <2>3
<1>5. Good(NumPids, p)
  BY <1>2, <1>4
<1> QED
  BY <1>1, <1>5

-----------------------------------------------------------------------------
(* What a record does to any cache.                                        *)

HasName(V, pid) == pid \in DOMAIN V /\ V[pid].comm # NoName

LEMMA InfoForm ==
  ASSUME NEW ppid, NEW name
  PROVE  Info(ppid, name).ppid = ppid /\ Info(ppid, name).comm = name
BY DEF Info

LEMMA ForkedForm ==
  ASSUME NEW V, NEW raw, NEW V2, V2 = Updated(V, raw), raw.kind = "processfork",
         NEW c, c = raw.pid, NEW p, p = raw.ppid, NEW name, name = raw.comm,
         p # c, name # NoName
  PROVE  /\ DOMAIN V2 = DOMAIN V \union {c, p}
         /\ V2[c] = Info(p, NoName)
         /\ V2[p].comm = (IF HasName(V, p) THEN V[p].comm ELSE name)
         /\ p \in DOMAIN V => V2[p].ppid = V[p].ppid
         /\ \A q \in DOMAIN V : q \notin {c, p} => V2[q] = V[q]
<1> DEFINE V1 == Insert(V, c, Info(p, NoName))
<1>1. V2 = Named(V1, p, name)
  BY DEF Updated
<1>2. /\ DOMAIN V1 = DOMAIN V \union {c} /\ V1[c] = Info(p, NoName)
      /\ \A q \in DOMAIN V : q # c => V1[q] = V[q]
  BY DEF Insert
<1> HIDE DEF V1
<1>3. CASE p \notin DOMAIN V1
  <2> DEFINE V3 == Insert(V1, p, Info(NoPid, name))
  <2>1. V2 = V3
    BY <1>1, <1>3 DEF Named
  <2>2. p \notin DOMAIN V /\ ~ HasName(V, p)
    BY <1>2, <1>3 DEF HasName
  <2>3. /\ DOMAIN V3 = DOMAIN V1 \union {p} /\ V3[p] = Info(NoPid, name)
        /\ \A q \in DOMAIN V1 : q # p => V3[q] = V1[q]
    BY DEF Insert
  <2> HIDE DEF V3
  <2>4. V2[p].comm = name
    BY <2>1, <2>3, InfoForm
  <2>5. \A q \in DOMAIN V : q \notin {c, p} => V2[q] = V[q]
    BY <1>2, <2>1, <2>3
  <2>6. DOMAIN V2 = DOMAIN V \union {c, p} /\ V2[c] = Info(p, NoName)
    BY <1>2, <2>1, <2>3
  <2> QED
    BY <2>2, <2>4, <2>5, <2>6
<1>4. CASE p \in DOMAIN V1 /\ V1[p].comm = NoName
  <2>1. V2 = Insert(V1, p, Info(V1[p].ppid, name))
    BY <1>1, <1>4 DEF Named
  <2>2. p \in DOMAIN V /\ V1[p] = V[p] /\ ~ HasName(V, p)
    BY <1>2, <1>4 DEF HasName
  <2> QED
    BY <1>2, <2>1, <2>2, InfoForm DEF Insert
<1>5. CASE p \in DOMAIN V1 /\ V1[p].comm # NoName
  <2>1. V2 = V1
    BY <1>1, <1>5 DEF Named
  <2>2. p \in DOMAIN V /\ V1[p] = V[p] /\ HasName(V, p)
    BY <1>2, <1>5 DEF HasName
  <2> QED
    BY <1>2, <2>1, <2>2
<1> QED
  BY <1>3, <1>4, <1>5

LEMMA ExecutedForm ==
  ASSUME NEW V, NEW raw, NEW V2, V2 = Updated(V, raw), raw.kind = "exec",
         raw.path # NoName, NEW p, p = raw.pid
  PROVE  /\ DOMAIN V2 = DOMAIN V \union {p}
         /\ V2[p] = Info(raw.ppid, raw.path)
         /\ \A q \in DOMAIN V : q # p => V2[q] = V[q]
<1>1. V2 = Insert(V, p, Info(raw.ppid, raw.path))
  BY DEF Updated, Comm
<1> QED
  BY <1>1 DEF Insert

LEMMA OtherForm ==
  ASSUME NEW V, NEW raw, NEW V2, V2 = Updated(V, raw), raw.kind = "other",
         NEW p, p = raw.pid
  PROVE  /\ DOMAIN V2 = DOMAIN V \union {p}
         /\ p \notin DOMAIN V => V2[p] = Info(raw.ppid, raw.comm)
         /\ \A q \in DOMAIN V : V2[q] = V[q]
<1>1. V2 = IF p \in DOMAIN V THEN V ELSE Insert(V, p, Info(raw.ppid, raw.comm))
  BY DEF Updated
<1> QED
  BY <1>1 DEF Insert

-----------------------------------------------------------------------------
(* What the enricher will know of a process, once it has handled the ring. *)

\* The cache has the name the records tell, or will still get it from the process.
Settled(V, f) ==
  IF HasName(V, f) THEN V[f].comm = seen[f] ELSE comm[f] = seen[f] /\ probe[f].at # "exec"

\* A process forked after the walks leads to its forker, under the forker's name.
Linked(V, q) ==
  /\ q \in DOMAIN V /\ V[q].ppid = forker[q]
  /\ forker[q] \in DOMAIN V /\ V[forker[q]].comm = seen[forker[q]]

Links(V) == \A q \in late \intersect DOMAIN tree : forker[q] # NoPid => Linked(V, q)

\* What a step of the processes adds to a cache that is up to date.
Grows(V, V2) ==
  \/ UNCHANGED records /\ V2 = V
  \/ \E r : records' = Append(records, r) /\ V2 = Updated(V, Raw(r))

\* A process that goes by the name its records tell goes on to do so.
Untouched(f) ==
  comm[f] = seen[f] /\ probe[f].at # "exec" =>
    seen'[f] = seen[f] /\ comm'[f] = seen[f] /\ probe'[f].at # "exec"

Learns(V, V2) ==
  /\ \A f \in alive : /\ Settled(V, f) => Settled(V2, f)'
                      /\ Untouched(f) \/ Settled(V2, f)'
  /\ \A f \in alive' \ alive : Settled(V2, f)'
  /\ (\A f \in alive : Settled(V, f)) /\ Links(V) => Links(V2)'

LEMMA AppendOnce ==
  ASSUME RecordsOK, NEW r, records' = Append(records, r)
  PROVE  /\ Len(records) \in Nat /\ Len(records') = Len(records) + 1
         /\ DOMAIN records = 1..Len(records) /\ DOMAIN records' = 1..(Len(records) + 1)
         /\ records'[Len(records) + 1] = r
         /\ \A i \in 1..Len(records) : records'[i] = records[i]
<1> DEFINE n == Len(records)  S == ToSet(records) \union {r}
<1>1. n \in Nat /\ records = [i \in 1..n |-> records[i]]
  BY ListForm DEF RecordsOK
<1>2. records \in Seq(S)
  <2>1. records \in [1..n -> S]
    BY <1>1 DEF ToSet
  <2> QED
    BY <1>1, <2>1, SeqDef
<1>3. r \in S
  OBVIOUS
<1> HIDE DEF S
<1> QED
  BY <1>1, <1>2, <1>3

LEMMA GrowsOnce ==
  ASSUME RecordsOK, NEW r, records' = Append(records, r), NEW V, NEW V2, Grows(V, V2)
  PROVE  V2 = Updated(V, Raw(r))
<1>1. ~ UNCHANGED records
  <2>1. Len(records) \in Nat /\ Len(records') = Len(records) + 1
    BY AppendOnce
  <2> QED
    BY <2>1
<1>2. PICK r2 : records' = Append(records, r2) /\ V2 = Updated(V, Raw(r2))
  BY <1>1 DEF Grows
<1>3. r2 = r
  <2>1. records'[Len(records) + 1] = r2 /\ records'[Len(records) + 1] = r
    BY <1>2, AppendOnce
  <2> QED
    BY <2>1
<1> QED
  BY <1>2, <1>3

LEMMA EmitGrows ==
  ASSUME RecordsOK, NEW kind, NEW pid, NEW ppid, NEW name, NEW path, NEW told,
         Emit(kind, pid, ppid, name, path, told), NEW V, NEW V2, Grows(V, V2)
  PROVE  V2 = Updated(V, [kind |-> kind, pid |-> pid, ppid |-> ppid, comm |-> name, path |-> path])
<1>1. records' = Append(records, [kind |-> kind, pid |-> pid, ppid |-> ppid, comm |-> name,
                                  path |-> path, claim |-> told])
  BY DEF Emit
<1> QED
  BY <1>1, GrowsOnce, RawRecord

LEMMA ForkLearns ==
  ASSUME TreeInv, RecordsOK, NEW p \in Pids, NEW c \in Pids, Fork(p, c),
         NEW V, NEW V2, Grows(V, V2)
  PROVE  Learns(V, V2) /\ (Settled(V, p) => p \in DOMAIN V2 /\ V2[p].comm = seen[p])
<1>1. /\ p \in alive /\ c \notin alive /\ c # p
      /\ alive' = alive \union {c}
      /\ comm' = [comm EXCEPT ![c] = comm[p]] /\ seen' = [seen EXCEPT ![c] = comm[p]]
      /\ forker' = [q \in Pids |-> IF q = c THEN p
                                   ELSE IF forker[q] = c THEN NoPid ELSE forker[q]]
      /\ late' \subseteq late \union {c} /\ Upsert(c, p) /\ UNCHANGED probe
  BY DEF Fork
<1>2. /\ TreeTypeOK /\ alive \subseteq Pids /\ comm \in [Pids -> Names] /\ seen \in [Pids -> Names]
      /\ NoName \notin Names /\ p \in Keys /\ NoPid \notin Pids
  BY ProcessAssumption DEF TreeInv, TreeTypeOK, Keys
<1>3. probe[c].at # "exec"
  BY <1>1 DEF TreeInv, ProbesInProcesses, User
<1> DEFINE raw == [kind |-> "processfork", pid |-> c, ppid |-> p, comm |-> comm[p],
                   path |-> NoName]
<1>4. V2 = Updated(V, raw)
  <2> DEFINE told == IF walk.of = "done" THEN <<seen[p]>> \o Told(p)' ELSE <<>>
  <2>1. Emit("processfork", c, p, comm[p], NoName, told)
    BY DEF Fork
  <2> HIDE DEF told
  <2> QED
    BY <2>1, EmitGrows
<1>5. /\ DOMAIN V2 = DOMAIN V \union {c, p}
      /\ V2[c].ppid = p /\ V2[c].comm = NoName
      /\ V2[p].comm = (IF HasName(V, p) THEN V[p].comm ELSE comm[p])
      /\ p \in DOMAIN V => V2[p].ppid = V[p].ppid
      /\ \A q \in DOMAIN V : q \notin {c, p} => V2[q] = V[q]
  <2>1. comm[p] # NoName /\ p # c
    BY <1>1, <1>2
  <2>2. raw.kind = "processfork" /\ raw.pid = c /\ raw.ppid = p /\ raw.comm = comm[p]
    OBVIOUS
  <2> HIDE DEF raw
  <2>3. /\ DOMAIN V2 = DOMAIN V \union {c, p}
        /\ V2[c] = Info(p, NoName)
        /\ V2[p].comm = (IF HasName(V, p) THEN V[p].comm ELSE comm[p])
        /\ p \in DOMAIN V => V2[p].ppid = V[p].ppid
        /\ \A q \in DOMAIN V : q \notin {c, p} => V2[q] = V[q]
    BY <1>4, <2>1, <2>2, ForkedForm
  <2> QED
    BY <2>3, InfoForm
<1>6. Settled(V, p) => p \in DOMAIN V2 /\ V2[p].comm = seen[p]
  BY <1>5 DEF Settled
<1>7. ASSUME NEW f \in alive PROVE (Settled(V, f) => Settled(V2, f)') /\ Untouched(f)
  <2>1. f \in Pids /\ f # c /\ comm'[f] = comm[f] /\ seen'[f] = seen[f] /\ seen[f] \in Names
    BY <1>1, <1>2
  <2>2. CASE f = p
    <3>1. Settled(V, f) => HasName(V2, f) /\ V2[f].comm = seen[f]
      BY <1>2, <1>6, <2>1, <2>2 DEF HasName
    <3> QED
      BY <1>1, <2>1, <3>1 DEF Settled, HasName, Untouched
  <2>3. CASE f # p
    <3>1. (HasName(V2, f) <=> HasName(V, f)) /\ (HasName(V, f) => V2[f] = V[f])
      BY <1>5, <2>1, <2>3 DEF HasName
    <3> QED
      BY <1>1, <2>1, <3>1 DEF Settled, HasName, Untouched
  <2> QED
    BY <2>2, <2>3
<1>8. ASSUME NEW f \in alive' \ alive PROVE Settled(V2, f)'
  <2>1. f = c /\ comm'[c] = seen'[c] /\ probe'[c].at # "exec" /\ ~ HasName(V2, c)
    BY <1>1, <1>2, <1>3, <1>5 DEF HasName
  <2> QED
    BY <2>1 DEF Settled, HasName
<1>9. ASSUME Settled(V, p), Links(V), NEW q \in late' \intersect DOMAIN tree', forker'[q] # NoPid
      PROVE  Linked(V2, q)'
  <2>1. q \in Pids /\ q \in late \union {c}
    BY <1>1, <1>2 DEF TreeTypeOK
  <2>2. CASE q = c
    <3>1. forker'[q] = p /\ seen'[p] = seen[p]
      BY <1>1, <1>2, <2>1, <2>2
    <3> QED
      BY <1>5, <1>6, <1>9, <2>2, <3>1 DEF Linked
  <2>3. CASE q # c
    <3>1. q \in late \intersect DOMAIN tree
      <4>1. q \in DOMAIN tree' <=> q \in DOMAIN tree
        BY <1>1, <1>2, <2>1, <2>3, UpsertFacts
      <4> QED
        BY <2>1, <2>3, <4>1
    <3>2. forker'[q] = forker[q] /\ forker[q] # NoPid /\ forker[q] # c
      BY <1>1, <2>1, <2>3, <1>9
    <3>3. /\ q \in DOMAIN V /\ V[q].ppid = forker[q]
          /\ forker[q] \in DOMAIN V /\ V[forker[q]].comm = seen[forker[q]]
      BY <1>9, <3>1, <3>2 DEF Links, Linked
    <3>4. forker[q] \in Pids /\ seen'[forker[q]] = seen[forker[q]] /\ seen[forker[q]] \in Names
      BY <1>1, <1>2, <2>1, <3>2 DEF TreeTypeOK, Keys
    <3>5. V2[q].ppid = V[q].ppid
      BY <1>5, <2>3, <3>3
    <3>6. V2[forker[q]].comm = V[forker[q]].comm
      <4>1. CASE forker[q] = p
        BY <1>2, <1>5, <3>3, <3>4, <4>1 DEF HasName
      <4>2. CASE forker[q] # p
        BY <1>5, <3>2, <3>3, <4>2
      <4> QED
        BY <4>1, <4>2
    <3> QED
      BY <1>5, <3>2, <3>3, <3>4, <3>5, <3>6 DEF Linked
  <2> QED
    BY <2>2, <2>3
<1>10. (\A f \in alive : Settled(V, f)) /\ Links(V) => Links(V2)'
  BY <1>1, <1>9 DEF Links
<1> QED
  BY <1>6, <1>7, <1>8, <1>10 DEF Learns

LEMMA ExecveEmitLearns ==
  ASSUME TreeInv, RecordsOK, NEW p \in Pids, ExecveEmit(p), NEW V, NEW V2, Grows(V, V2)
  PROVE  Learns(V, V2)
<1> DEFINE name == probe[p].name
           raw == [kind |-> "exec", pid |-> p, ppid |-> Lookup(p), comm |-> comm[p], path |-> name]
<1>1. /\ seen' = [seen EXCEPT ![p] = name]
      /\ probe[p].at = "emit" /\ probe' = [probe EXCEPT ![p].at = "exec"]
      /\ UNCHANGED <<alive, comm, tree, forker, late>>
      /\ Emit("exec", p, Lookup(p), comm[p], name, Told(p)')
  BY DEF ExecveEmit, EmitOwn, osVars
<1>2. /\ TreeTypeOK /\ alive \subseteq Pids /\ seen \in [Pids -> Names] /\ name \in Names
      /\ name # NoName /\ p \in alive
  BY <1>1, ProbeTypes, ProcessAssumption DEF TreeInv, TreeTypeOK, ProbesInProcesses
<1>3. V2 = Updated(V, raw)
  BY <1>1, EmitGrows
<1>4. /\ DOMAIN V2 = DOMAIN V \union {p}
      /\ V2[p].ppid = Lookup(p) /\ V2[p].comm = name
      /\ \A q \in DOMAIN V : q # p => V2[q] = V[q]
  <2>1. raw.kind = "exec" /\ raw.pid = p /\ raw.ppid = Lookup(p) /\ raw.path = name
    OBVIOUS
  <2> HIDE DEF raw
  <2>2. /\ DOMAIN V2 = DOMAIN V \union {p}
        /\ V2[p] = Info(raw.ppid, raw.path)
        /\ \A q \in DOMAIN V : q # p => V2[q] = V[q]
    BY <1>2, <1>3, <2>1, ExecutedForm
  <2> QED
    BY <2>1, <2>2, InfoForm
<1>5. seen'[p] = name /\ \A q \in Pids : q # p => seen'[q] = seen[q] /\ probe'[q] = probe[q]
  BY <1>1, <1>2 DEF TreeTypeOK
<1> HIDE DEF raw, name
<1>6. ASSUME NEW f \in alive
      PROVE  /\ Settled(V, f) => Settled(V2, f)'
             /\ Untouched(f) \/ Settled(V2, f)'
  <2>1. CASE f = p
    <3>1. Settled(V2, p)'
      BY <1>2, <1>4, <1>5 DEF Settled, HasName
    <3> QED
      BY <2>1, <3>1
  <2>2. CASE f # p
    <3>1. (HasName(V2, f) <=> HasName(V, f)) /\ (HasName(V, f) => V2[f] = V[f])
      BY <1>4, <2>2 DEF HasName
    <3>2. f \in Pids /\ comm' = comm
      BY <1>1, <1>2
    <3> QED
      BY <1>5, <2>2, <3>1, <3>2 DEF Settled, HasName, Untouched
  <2> QED
    BY <2>1, <2>2
<1>7. ASSUME Links(V), NEW q \in late \intersect DOMAIN tree, forker[q] # NoPid
      PROVE  Linked(V2, q)'
  <2>1. /\ q \in Pids /\ forker[q] \in Pids
        /\ q \in DOMAIN V /\ V[q].ppid = forker[q]
        /\ forker[q] \in DOMAIN V /\ V[forker[q]].comm = seen[forker[q]]
    BY <1>2, <1>7 DEF Links, Linked, TreeTypeOK, Keys
  <2>2. V2[q].ppid = forker[q]
    <3>1. CASE q = p
      <4>1. tree[p] = forker[p]
        BY <1>2, <1>7, <3>1 DEF TreeInv, LateInv
      <4> QED
        BY <1>4, <1>7, <3>1, <4>1 DEF Lookup
    <3>2. CASE q # p
      BY <1>4, <2>1, <3>2
    <3> QED
      BY <3>1, <3>2
  <2>3. V2[forker[q]].comm = seen'[forker[q]]
    BY <1>4, <1>5, <2>1
  <2> QED
    BY <1>1, <1>4, <2>1, <2>2, <2>3 DEF Linked
<1>8. Links(V) => Links(V2)'
  BY <1>1, <1>7 DEF Links
<1> QED
  BY <1>1, <1>6, <1>8 DEF Learns

LEMMA SyscallLearns ==
  ASSUME TreeInv, RecordsOK, NEW p \in Pids, Syscall(p), NEW V, NEW V2, Grows(V, V2)
  PROVE  Learns(V, V2)
<1> DEFINE raw == [kind |-> "other", pid |-> p, ppid |-> Lookup(p), comm |-> comm[p],
                   path |-> NoName]
<1>1. /\ UNCHANGED <<alive, comm, probe, tree, forker, seen, late>>
      /\ Emit("other", p, Lookup(p), comm[p], NoName, Told(p)')
  BY DEF Syscall, EmitOwn, histVars
<1>2. TreeTypeOK /\ alive \subseteq Pids /\ comm[p] # NoName
  BY ProcessAssumption DEF TreeInv, TreeTypeOK
<1>3. V2 = Updated(V, raw)
  BY <1>1, EmitGrows
<1>4. /\ DOMAIN V2 = DOMAIN V \union {p}
      /\ p \notin DOMAIN V => V2[p].comm = comm[p]
      /\ \A q \in DOMAIN V : V2[q] = V[q]
  <2>1. raw.kind = "other" /\ raw.pid = p /\ raw.comm = comm[p]
    OBVIOUS
  <2> HIDE DEF raw
  <2>2. /\ DOMAIN V2 = DOMAIN V \union {p}
        /\ p \notin DOMAIN V => V2[p] = Info(raw.ppid, raw.comm)
        /\ \A q \in DOMAIN V : V2[q] = V[q]
    BY <1>3, <2>1, OtherForm
  <2> QED
    BY <2>1, <2>2, InfoForm
<1> HIDE DEF raw
<1>5. ASSUME NEW f \in alive, Settled(V, f) PROVE Settled(V2, f)'
  <2>1. CASE f \in DOMAIN V \/ f # p
    <3>1. (HasName(V2, f) <=> HasName(V, f)) /\ (HasName(V, f) => V2[f] = V[f])
      BY <1>4, <2>1 DEF HasName
    <3> QED
      BY <1>1, <1>5, <3>1 DEF Settled, HasName
  <2>2. CASE f \notin DOMAIN V /\ f = p
    <3>1. comm[p] = seen[p] /\ probe[p].at # "exec"
      BY <1>5, <2>2 DEF Settled, HasName
    <3> QED
      BY <1>1, <1>2, <1>4, <2>2, <3>1 DEF Settled, HasName
  <2> QED
    BY <2>1, <2>2
<1>6. \A f \in alive : Untouched(f)
  BY <1>1 DEF Untouched
<1>7. Links(V) => Links(V2)'
  BY <1>1, <1>4 DEF Links, Linked
<1> QED
  BY <1>1, <1>5, <1>6, <1>7 DEF Learns

\* Any other step of a process writes no record, and changes the name only to one
\* that a record has told.
LEMMA SilentLearns ==
  ASSUME TreeInv, RecordsOK, NEW p \in Pids,
         \/ \E name \in Names : Execve(p, name)
         \/ ExecveStore(p) \/ ExecFails(p) \/ ExecSucceeds(p) \/ SchedExecStore(p) \/ Exit(p),
         NEW V, NEW V2, Grows(V, V2)
  PROVE  Learns(V, V2)
<1>1. TreeTypeOK /\ alive \subseteq Pids
  BY DEF TreeInv, TreeTypeOK
<1>2. /\ UNCHANGED <<records, seen, forker, late>> /\ alive' \subseteq alive
      /\ \A f \in Pids : Untouched(f)
  <2>1. CASE \E name \in Names : Execve(p, name)
    <3>1. PICK name \in Names : Execve(p, name)
      BY <2>1
    <3>2. /\ probe' = [probe EXCEPT ![p] = [at |-> "execve", ppid |-> Lookup(p), name |-> name]]
          /\ UNCHANGED <<alive, comm, records, seen, forker, late>>
      BY <3>1 DEF Execve, histVars
    <3> QED
      BY <1>1, <3>2 DEF Untouched, TreeTypeOK
  <2>2. CASE ExecveStore(p) \/ ExecFails(p) \/ SchedExecStore(p)
    <3>1. /\ UNCHANGED <<alive, comm, records, seen, forker, late>>
          /\ \/ probe[p].at = "execve" /\ probe' = [probe EXCEPT ![p].at = "emit"]
             \/ probe' = [probe EXCEPT ![p] = User]
      BY <2>2 DEF ExecveStore, ExecFails, SchedExecStore, osVars, histVars
    <3>2. probe'[p].at # "exec" /\ \A q \in Pids : q # p => probe'[q] = probe[q]
      BY <1>1, <3>1, ProbeTypes DEF TreeTypeOK, User
    <3> QED
      BY <1>1, <3>1, <3>2 DEF Untouched
  <2>3. CASE ExecSucceeds(p)
    <3>1. /\ probe[p].at = "exec" /\ comm' = [comm EXCEPT ![p] = probe[p].name]
          /\ probe' = [probe EXCEPT ![p] = [at |-> "sched_exec", ppid |-> Lookup(p)]]
          /\ UNCHANGED <<alive, records, seen, forker, late>>
      BY <2>3 DEF ExecSucceeds, histVars
    <3> QED
      BY <1>1, <3>1 DEF Untouched, TreeTypeOK
  <2>4. CASE Exit(p)
    BY <2>4 DEF Exit, histVars, Untouched
  <2> QED
    BY <2>1, <2>2, <2>3, <2>4
<1>3. V2 = V
  <2>1. ASSUME NEW r, records' = Append(records, r) PROVE FALSE
    <3>1. Len(records) \in Nat /\ Len(records') = Len(records) + 1
      BY <2>1, AppendOnce
    <3> QED
      BY <1>2, <3>1
  <2> QED
    BY <2>1 DEF Grows
<1>4. late' \intersect DOMAIN tree' \subseteq late \intersect DOMAIN tree
  <2>1. CASE ExecveStore(p) \/ SchedExecStore(p)
    <3>1. probe[p].at \in Looked /\ Upsert(p, probe[p].ppid) /\ probe[p].ppid \in Keys
      BY <1>1, <2>1, ProbeTypes DEF ExecveStore, SchedExecStore, Looked
    <3>2. p \in alive
      BY <1>1, <3>1, ProbeTypes DEF Looked, TreeInv, ProbesInProcesses
    <3>3. p \in late => p \in DOMAIN tree \/ Cardinality(DOMAIN tree) >= MaxNodes
      BY <3>2 DEF TreeInv, LateInv
    <3>4. /\ \A q \in Pids \ {p} : q \in DOMAIN tree' <=> q \in DOMAIN tree
          /\ Cardinality(DOMAIN tree) >= MaxNodes => DOMAIN tree' = DOMAIN tree
          /\ DOMAIN tree' \subseteq Pids
      BY <1>1, <3>1, UpsertFacts
    <3> QED
      BY <1>2, <3>3, <3>4
  <2>2. CASE ~ (ExecveStore(p) \/ SchedExecStore(p))
    <3>1. UNCHANGED tree
      BY <2>2 DEF Execve, ExecFails, ExecSucceeds, Exit
    <3> QED
      BY <1>2, <3>1
  <2> QED
    BY <2>1, <2>2
<1>5. ASSUME NEW f \in alive, Settled(V, f) PROVE Settled(V2, f)'
  <2>1. f \in Pids /\ Untouched(f)
    BY <1>1, <1>2
  <2> QED
    BY <1>2, <1>3, <1>5, <2>1 DEF Settled, Untouched, HasName
<1>6. Links(V) => Links(V2)'
  BY <1>2, <1>3, <1>4 DEF Links, Linked
<1> QED
  BY <1>1, <1>2, <1>5, <1>6 DEF Learns

LEMMA RunLearns ==
  ASSUME TreeInv, RecordsOK, NEW p \in Pids, Run(p), NEW V, NEW V2, Grows(V, V2)
  PROVE  Learns(V, V2)
BY ForkLearns, ExecveEmitLearns, SyscallLearns, SilentLearns DEF Run

LEMMA EmittedForm ==
  ASSUME RecordsOK, NEW kind, NEW pid, NEW ppid, NEW name, NEW path, NEW told,
         Emit(kind, pid, ppid, name, path, told), NEW r, records' = Append(records, r)
  PROVE  /\ Raw(r) = [kind |-> kind, pid |-> pid, ppid |-> ppid, comm |-> name, path |-> path]
         /\ r.claim = told /\ Raw(r).ppid = ppid
<1> DEFINE r2 == [kind |-> kind, pid |-> pid, ppid |-> ppid, comm |-> name, path |-> path,
                  claim |-> told]
<1>1. records' = Append(records, r2)
  BY DEF Emit
<1>2. r2.claim = told /\ Raw(r2) = [kind |-> kind, pid |-> pid, ppid |-> ppid, comm |-> name,
                                    path |-> path]
  BY RawRecord
<1> HIDE DEF r2
<1>3. r = r2
  <2>1. records'[Len(records) + 1] = r /\ records'[Len(records) + 1] = r2
    BY <1>1, AppendOnce
  <2> QED
    BY <2>1
<1> QED
  BY <1>2, <1>3

-----------------------------------------------------------------------------
(* What a record claims, the cache tells, once it has handled the record.  *)

LEMMA ToldTells ==
  ASSUME TreeInv', NEW V, Links(V)', NEW p \in Pids
  PROVE  /\ Told(p)' # <<>> => p \in late' \intersect DOMAIN tree' /\ forker'[p] # NoPid
         /\ Tells(V, forker'[p], Told(p)')
<1> DEFINE known == late' \intersect DOMAIN tree'
<1>1. forker' \in [Pids -> Keys] /\ seen' \in [Pids -> Names] /\ known \in SUBSET Pids
  BY DEF TreeInv, TreeTypeOK
<1>2. \A q \in known : forker'[q] # NoPid =>
        /\ q \in DOMAIN V /\ V[q].ppid = forker'[q]
        /\ forker'[q] \in DOMAIN V /\ V[forker'[q]].comm = seen'[forker'[q]]
  BY DEF Links, Linked
<1>3. Told(p)' = Ancestry(p, forker', seen', known)
  BY DEF Told
<1> HIDE DEF known
<1>4. LET s == Ancestry(p, forker', seen', known) IN
        /\ s # <<>> => p \in known /\ forker'[p] # NoPid
        /\ Tells(V, forker'[p], s)
  BY <1>1, <1>2, AncestryTold
<1> QED
  BY <1>3, <1>4 DEF known

\* The record of a process tells its own forkers.
LEMMA OwnClaim ==
  ASSUME TreeInv, TreeInv', NEW p \in alive, UNCHANGED <<tree, forker, late>>, NEW V, Links(V)'
  PROVE  Tells(V, Lookup(p), Told(p)')
<1>1. p \in Pids
  BY DEF TreeInv, TreeTypeOK
<1>2. CASE Told(p)' = <<>>
  BY <1>2, TellsNothing
<1>3. CASE Told(p)' # <<>>
  <2>1. p \in late \intersect DOMAIN tree /\ forker[p] # NoPid /\ Tells(V, forker[p], Told(p)')
    BY <1>1, <1>3, ToldTells
  <2>2. Lookup(p) = forker[p]
    BY <2>1 DEF TreeInv, LateInv, Lookup
  <2> QED
    BY <2>1, <2>2
<1> QED
  BY <1>2, <1>3

LEMMA RunClaims ==
  ASSUME TreeInv, TreeInv', RecordsOK, NEW p \in Pids, Run(p),
         NEW r, records' = Append(records, r), NEW V, NEW V2, V2 = Updated(V, Raw(r)),
         \A f \in alive : Settled(V, f), Links(V)
  PROVE  Tells(V2, Raw(r).ppid, r.claim)
<1>0. Grows(V, V2)
  BY DEF Grows
<1>1. Links(V2)'
  BY <1>0, RunLearns DEF Learns
<1>2. ASSUME NEW c \in Pids, Fork(p, c) PROVE Tells(V2, Raw(r).ppid, r.claim)
  <2> DEFINE told == IF walk.of = "done" THEN <<seen[p]>> \o Told(p)' ELSE <<>>
  <2>1. Emit("processfork", c, p, comm[p], NoName, told) /\ p \in alive
    BY <1>2 DEF Fork
  <2>2. Raw(r).ppid = p /\ r.claim = told
    <3> HIDE DEF told
    <3> QED
      BY <2>1, EmittedForm
  <2>3. CASE walk.of # "done"
    BY <2>2, <2>3, TellsNothing
  <2>4. CASE walk.of = "done"
    <3>1. p \in DOMAIN V2 /\ V2[p].comm = seen[p] /\ seen[p] \in Names
      BY <1>0, <1>2, <2>1, ForkLearns DEF TreeInv, TreeTypeOK
    <3>2. /\ Tells(V2, forker'[p], Told(p)')
          /\ Told(p)' # <<>> => p \in late' \intersect DOMAIN tree' /\ forker'[p] # NoPid
      BY <1>1, ToldTells
    <3>3. Told(p)' # <<>> => V2[p].ppid = forker'[p]
      BY <1>1, <3>2 DEF Links, Linked
    <3>4. Told(p)' \in Seq(Names) /\ (Told(p)' # <<>> => Tells(V2, V2[p].ppid, Told(p)'))
      BY <3>2, <3>3 DEF Tells
    <3>5. Tells(V2, p, <<seen[p]>> \o Told(p)')
      BY <3>1, <3>4, TellsCons
    <3> QED
      BY <2>2, <2>4, <3>5
  <2> QED
    BY <2>3, <2>4
<1>3. ASSUME ExecveEmit(p) \/ Syscall(p) PROVE Tells(V2, Raw(r).ppid, r.claim)
  <2>1. /\ p \in alive /\ UNCHANGED <<tree, forker, late>>
        /\ \E kind, path : Emit(kind, p, Lookup(p), comm[p], path, Told(p)')
    <3>1. probe[p].at = "emit" => p \in alive
      BY ProbeTypes DEF TreeInv, ProbesInProcesses
    <3> QED
      BY <1>3, <3>1 DEF ExecveEmit, Syscall, EmitOwn, histVars
  <2>2. PICK kind, path : Emit(kind, p, Lookup(p), comm[p], path, Told(p)')
    BY <2>1
  <2>3. Raw(r).ppid = Lookup(p) /\ r.claim = Told(p)'
    BY <2>2, EmittedForm
  <2> QED
    BY <1>1, <2>1, <2>3, OwnClaim
<1>4. ASSUME UNCHANGED records PROVE FALSE
  <2>1. Len(records) \in Nat /\ Len(records') = Len(records) + 1
    BY AppendOnce
  <2> QED
    BY <1>4, <2>1
<1> QED
  BY <1>2, <1>3, <1>4 DEF Run, Execve, ExecveStore, ExecFails, ExecSucceeds, SchedExecStore, Exit

LEMMA SilentClaims ==
  ASSUME TreeInv, TreeInv', RecordsOK, walk.of # "done", NEW p \in Pids, Run(p),
         NEW r, records' = Append(records, r)
  PROVE  r.claim = <<>>
<1>1. ASSUME NEW c \in Pids, Fork(p, c) PROVE r.claim = <<>>
  <2> DEFINE told == IF walk.of = "done" THEN <<seen[p]>> \o Told(p)' ELSE <<>>
  <2>1. Emit("processfork", c, p, comm[p], NoName, told)
    BY <1>1 DEF Fork
  <2>2. r.claim = told
    <3> HIDE DEF told
    <3> QED
      BY <2>1, EmittedForm
  <2> QED
    BY <2>2
<1>2. ASSUME ExecveEmit(p) \/ Syscall(p) PROVE r.claim = <<>>
  <2>1. /\ UNCHANGED <<tree, forker, late>>
        /\ \E kind, path : Emit(kind, p, Lookup(p), comm[p], path, Told(p)')
    BY <1>2 DEF ExecveEmit, Syscall, EmitOwn, histVars
  <2>2. PICK kind, path : Emit(kind, p, Lookup(p), comm[p], path, Told(p)')
    BY <2>1
  <2>3. r.claim = Told(p)'
    BY <2>2, EmittedForm
  <2>4. late' = {}
    BY <2>1 DEF TreeInv, LateInv
  <2>5. PICK V : V = <<>>
    OBVIOUS
  <2>6. Links(V)'
    BY <2>4 DEF Links
  <2> QED
    BY <2>3, <2>4, <2>6, ToldTells
<1>3. ASSUME UNCHANGED records PROVE FALSE
  <2>1. Len(records) \in Nat /\ Len(records') = Len(records) + 1
    BY AppendOnce
  <2> QED
    BY <1>3, <2>1
<1> QED
  BY <1>1, <1>2, <1>3 DEF Run, Execve, ExecveStore, ExecFails, ExecSucceeds, SchedExecStore, Exit

-----------------------------------------------------------------------------
(* The invariant.                                                          *)

\* W holds the caches from one record to the next, up to the k-th.
Handled(W, rs, k) == \A j \in 1..k : W[j] = Updated(W[j - 1], Raw(rs[j]))

\* A process has a record in the ring that settles its name, or it has had the
\* same name all along and whatever is known of it by then is this name.
Retold(f) == \A W : Handled(W, records, Len(records)) => Settled(W[Len(records)], f)

Fresh(f) ==
  /\ comm[f] = seen[f] /\ probe[f].at # "exec"
  /\ HasName(processes, f) => processes[f].comm = seen[f]
  /\ walk.of = "cache" /\ walk.at = "insert" /\ walk.next = f => walk.comm \in {NoName, seen[f]}
  /\ \A W : /\ Handled(W, records, Len(records))
            /\ HasName(W[0], f) => W[0][f].comm = seen[f]
            => Settled(W[Len(records)], f)

NamesCome ==
  walk.of # "done" =>
    /\ event = Idle
    /\ \A k \in DOMAIN records : records[k].claim = <<>>
    /\ \A f \in alive : Retold(f) \/ Fresh(f)

CacheCatchesUp ==
  walk.of = "done" =>
    \A W : W[0] = processes /\ Handled(W, records, Len(records)) =>
      (\A f \in alive : Settled(W[Len(records)], f)) /\ Links(W[Len(records)])

RecordsTell ==
  \A k \in DOMAIN records : \A W :
    W[0] = processes /\ Handled(W, records, k) =>
      Tells(W[k], Raw(records[k]).ppid, records[k].claim)

WalkTells ==
  event.walking =>
    /\ claim \in Seq(Names) /\ Len(event.lineage) <= MaxLineage
    /\ \A i \in 1..Len(claim) : i <= Len(event.lineage) => event.lineage[i] = claim[i]
    /\ TellsFrom(processes, event.pid, claim, Len(event.lineage))

TellInv == LineageInv /\ NamesCome /\ CacheCatchesUp /\ RecordsTell /\ WalkTells

LEMMA Reaches ==
  ASSUME RecordsOK, UNCHANGED records \/ \E r : records' = Append(records, r),
         NEW W, Handled(W, records', Len(records'))
  PROVE  /\ Handled(W, records, Len(records))
         /\ \E V, V2 : V = W[Len(records)] /\ V2 = W[Len(records')] /\ Grows(V, V2)
<1>1. CASE UNCHANGED records
  BY <1>1 DEF Grows
<1>2. ASSUME NEW r, records' = Append(records, r)
      PROVE  /\ Handled(W, records, Len(records))
             /\ \E V, V2 : V = W[Len(records)] /\ V2 = W[Len(records')] /\ Grows(V, V2)
  <2> DEFINE n == Len(records)
  <2>1. /\ n \in Nat /\ Len(records') = n + 1 /\ records'[n + 1] = r
        /\ \A i \in 1..n : records'[i] = records[i]
    BY <1>2, AppendOnce
  <2> HIDE DEF n
  <2>2. \A j \in 1..(n + 1) : W[j] = Updated(W[j - 1], Raw(records'[j]))
    BY <2>1 DEF Handled
  <2>3. \A j \in 1..n : W[j] = Updated(W[j - 1], Raw(records[j]))
    BY <2>1, <2>2
  <2>4. W[n + 1] = Updated(W[n], Raw(r))
    <3>1. n + 1 \in 1..(n + 1) /\ (n + 1) - 1 = n
      BY <2>1
    <3> QED
      BY <2>1, <2>2, <3>1
  <2> QED
    BY <1>2, <2>1, <2>3, <2>4 DEF n, Handled, Grows
<1> QED
  BY <1>1, <1>2

LEMMA RunForm ==
  ASSUME NEW p \in Pids, Run(p)
  PROVE  UNCHANGED records \/ \E r : records' = Append(records, r)
<1>1. ASSUME NEW c \in Pids, Fork(p, c) PROVE \E r : records' = Append(records, r)
  BY <1>1 DEF Fork, Emit
<1> QED
  BY <1>1 DEF Run, Execve, ExecveStore, ExecveEmit, ExecFails, ExecSucceeds, SchedExecStore,
              Syscall, Exit, EmitOwn, Emit

LEMMA RunTells ==
  ASSUME TellInv, TreeInv', LineageInv', event = Idle, NEW p \in Pids, Run(p),
         UNCHANGED <<vars, claim>>
  PROVE  TellInv'
<1> DEFINE n == Len(records)
<1>1. TreeInv /\ RecordsOK /\ UNCHANGED <<processes, event, claim, walk>>
  BY RunForm DEF TellInv, LineageInv, vars, Run, Fork, Execve, ExecveStore, ExecveEmit, ExecFails,
     ExecSucceeds, SchedExecStore, Syscall, Exit
<1>2. UNCHANGED records \/ \E r : records' = Append(records, r)
  BY RunForm
<1>3. WalkTells'
  BY <1>1 DEF WalkTells, Idle
<1>4. RecordsTell'
  <2>1. CASE UNCHANGED records
    BY <1>1, <2>1 DEF TellInv, RecordsTell
  <2>2. ASSUME NEW r, records' = Append(records, r), NEW k \in DOMAIN records', NEW W,
               W[0] = processes, Handled(W, records', k)
        PROVE  Tells(W[k], Raw(records'[k]).ppid, records'[k].claim)
    <3>1. /\ n \in Nat /\ Len(records') = n + 1 /\ records'[n + 1] = r
          /\ DOMAIN records = 1..n /\ DOMAIN records' = 1..(n + 1)
          /\ \A i \in 1..n : records'[i] = records[i]
      BY <1>1, <2>2, AppendOnce
    <3> HIDE DEF n
    <3>2. CASE k \in 1..n
      <4>1. Handled(W, records, k)
        BY <2>2, <3>1, <3>2 DEF Handled
      <4>2. Tells(W[k], Raw(records[k]).ppid, records[k].claim)
        BY <2>2, <3>1, <3>2, <4>1 DEF TellInv, RecordsTell
      <4> QED
        BY <3>1, <3>2, <4>2
    <3>3. CASE k = n + 1
      <4>1. CASE walk.of # "done"
        BY <1>1, <2>2, <3>1, <3>3, <4>1, SilentClaims, TellsNothing
      <4>2. CASE walk.of = "done"
        <5>1. /\ Handled(W, records, n)
              /\ \E V, V2 : V = W[n] /\ V2 = W[n + 1] /\ Grows(V, V2)
          BY <1>1, <1>2, <2>2, <3>1, <3>3, Reaches DEF n
        <5>2. PICK V, V2 : V = W[n] /\ V2 = W[n + 1] /\ Grows(V, V2)
          BY <5>1
        <5>3. (\A f \in alive : Settled(V, f)) /\ Links(V)
          BY <2>2, <4>2, <5>1, <5>2 DEF n, TellInv, CacheCatchesUp
        <5>4. V2 = Updated(V, Raw(r))
          BY <1>1, <2>2, <5>2, GrowsOnce
        <5>5. Tells(V2, Raw(r).ppid, r.claim)
          BY <1>1, <2>2, <5>3, <5>4, RunClaims
        <5> QED
          BY <3>1, <3>3, <5>2, <5>5
      <4> QED
        BY <4>1, <4>2
    <3> QED
      BY <2>2, <3>1, <3>2, <3>3
  <2> QED
    BY <1>1, <1>2, <2>1, <2>2 DEF RecordsTell
<1>5. CacheCatchesUp'
  <2> SUFFICES ASSUME walk.of = "done", NEW W, W[0] = processes,
                      Handled(W, records', Len(records')), NEW V2, V2 = W[Len(records')]
               PROVE  (\A f \in alive' : Settled(V2, f)') /\ Links(V2)'
    BY <1>1 DEF CacheCatchesUp, Settled, HasName, Links, Linked
  <2>1. /\ Handled(W, records, n)
        /\ \E V : V = W[n] /\ Grows(V, V2)
    BY <1>1, <1>2, Reaches
  <2>2. PICK V : V = W[n] /\ Grows(V, V2)
    BY <2>1
  <2>3. (\A f \in alive : Settled(V, f)) /\ Links(V)
    BY <2>1, <2>2 DEF TellInv, CacheCatchesUp
  <2> QED
    BY <1>1, <2>2, <2>3, RunLearns DEF Learns
<1>6. NamesCome'
  <2> SUFFICES ASSUME walk.of # "done"
               PROVE  /\ \A k \in DOMAIN records' : records'[k].claim = <<>>
                      /\ \A f \in alive' : Retold(f)' \/ Fresh(f)'
    BY <1>1 DEF NamesCome
  <2>1. ASSUME NEW k \in DOMAIN records' PROVE records'[k].claim = <<>>
    <3>1. CASE UNCHANGED records
      BY <3>1 DEF TellInv, NamesCome
    <3>2. ASSUME NEW r, records' = Append(records, r) PROVE records'[k].claim = <<>>
      <4>1. /\ n \in Nat /\ records'[n + 1] = r
            /\ DOMAIN records = 1..n /\ DOMAIN records' = 1..(n + 1)
            /\ \A i \in 1..n : records'[i] = records[i]
        BY <1>1, <3>2, AppendOnce
      <4>2. r.claim = <<>>
        BY <1>1, <3>2, SilentClaims
      <4> HIDE DEF n
      <4>3. k = n + 1 \/ k \in 1..n
        BY <4>1
      <4> QED
        BY <4>1, <4>2, <4>3 DEF TellInv, NamesCome
    <3> QED
      BY <1>2, <3>1, <3>2
  <2>2. ASSUME NEW f \in alive' PROVE Retold(f)' \/ Fresh(f)'
    <3>1. ASSUME NEW W, Handled(W, records', Len(records'))
          PROVE  /\ Handled(W, records, n)
                 /\ \E V, V2 : V = W[n] /\ V2 = W[Len(records')] /\ Learns(V, V2)
      <4>1. /\ Handled(W, records, n)
            /\ \E V, V2 : V = W[n] /\ V2 = W[Len(records')] /\ Grows(V, V2)
        BY <1>1, <1>2, <3>1, Reaches
      <4> QED
        BY <1>1, <4>1, RunLearns
    <3>2. ASSUME \A W : Handled(W, records', Len(records')) =>
                   \E V2 : V2 = W[Len(records')] /\ Settled(V2, f)'
          PROVE  Retold(f)'
      BY <3>2 DEF Retold, Settled, HasName
    <3>3. CASE f \notin alive \/ ~ Untouched(f)
      BY <3>1, <3>2, <3>3 DEF Learns
    <3>4. CASE f \in alive /\ Retold(f)
      BY <3>1, <3>2, <3>4 DEF Learns, Retold
    <3>5. CASE f \in alive /\ Untouched(f) /\ Fresh(f)
      <4>1. seen'[f] = seen[f] /\ comm'[f] = seen[f] /\ probe'[f].at # "exec"
        BY <3>5 DEF Fresh, Untouched
      <4>2. ASSUME NEW W, Handled(W, records', Len(records')),
                   HasName(W[0], f) => W[0][f].comm = seen'[f]
            PROVE  \E V2 : V2 = W[Len(records')] /\ Settled(V2, f)'
        BY <3>1, <3>5, <4>1, <4>2 DEF Fresh, Learns
      <4>3. ASSUME NEW W, Handled(W, records', Len(records')),
                   HasName(W[0], f) => W[0][f].comm = seen'[f]
            PROVE  Settled(W[Len(records)], f)'
        BY <4>2, <4>3 DEF Settled, HasName
      <4> QED
        BY <1>1, <3>5, <4>1, <4>3 DEF Fresh, HasName
    <3> QED
      BY <3>3, <3>4, <3>5 DEF TellInv, NamesCome
  <2> QED
    BY <2>1, <2>2
<1> QED
  BY <1>3, <1>4, <1>5, <1>6 DEF TellInv

\* What a step of the walks over /proc does: it may put the name it holds into the
\* cache, and the name it comes to hold is that of the process.
LEMMA WalkForm ==
  ASSUME TreeInv, List \/ SeedRead \/ SeedInsert \/ CacheRead \/ CacheInsert,
         UNCHANGED vars \/ CacheInsert, UNCHANGED claim
  PROVE  /\ walk.of # "done" /\ late' = {}
         /\ UNCHANGED <<alive, comm, probe, records, forker, seen, late, event, claim>>
         /\ \A f \in alive : HasName(processes', f) =>
              \/ HasName(processes, f) /\ processes'[f].comm = processes[f].comm
              \/ /\ walk.of = "cache" /\ walk.at = "insert" /\ walk.next = f
                 /\ processes'[f].comm = walk.comm
         /\ walk'.of = "cache" /\ walk'.at = "insert" =>
              walk'.comm = IF walk'.next \in alive THEN comm[walk'.next] ELSE NoName
<1>1. /\ walk.of # "done" /\ late' = {}
      /\ UNCHANGED <<alive, comm, probe, records, forker, seen, late, event, claim>>
  BY DEF List, SeedRead, SeedInsert, CacheRead, CacheInsert, WalkFrame, osVars, histVars, vars,
         TreeInv, LateInv
<1>2. CASE CacheInsert
  <2>1. /\ processes' = Insert(processes, walk.next, Info(StatPpid, walk.comm))
        /\ walk.of = "cache" /\ walk.at = "insert" /\ walk' = NextPid
    BY <1>2 DEF CacheInsert
  <2>2. /\ DOMAIN processes' = DOMAIN processes \union {walk.next}
        /\ processes'[walk.next].comm = walk.comm
        /\ \A q \in DOMAIN processes : q # walk.next => processes'[q] = processes[q]
    BY <2>1, InfoForm DEF Insert
  <2>3. walk'.at = "list"
    BY <1>1, <2>1, NextPidType DEF TreeInv
  <2> QED
    BY <1>1, <2>1, <2>2, <2>3 DEF HasName
<1>3. CASE List \/ SeedRead \/ SeedInsert \/ CacheRead
  <2>1. UNCHANGED processes
    <3>1. CASE UNCHANGED vars
      BY <3>1 DEF vars
    <3>2. CASE CacheInsert
      BY <1>3, <3>2 DEF List, SeedRead, SeedInsert, CacheRead, CacheInsert
    <3> QED
      BY <3>1, <3>2
  <2>2. CASE CacheRead
    BY <1>1, <2>1, <2>2 DEF CacheRead, HasName
  <2>3. CASE List
    <3>1. walk'.at # "insert"
      BY <1>1, <2>3, NextPidType DEF List, TreeInv, TreeTypeOK, Walking
    <3> QED
      BY <1>1, <2>1, <3>1 DEF HasName
  <2>4. CASE SeedRead
    BY <1>1, <2>1, <2>4 DEF SeedRead, HasName
  <2>5. CASE SeedInsert
    <3>1. walk'.at = "list"
      BY <1>1, <2>5, NextPidType DEF SeedInsert, TreeInv
    <3> QED
      BY <1>1, <2>1, <3>1 DEF HasName
  <2> QED
    BY <1>3, <2>2, <2>3, <2>4, <2>5
<1> QED
  BY <1>2, <1>3

LEMMA WalksTell ==
  ASSUME TellInv, LineageInv', List \/ SeedRead \/ SeedInsert \/ CacheRead \/ CacheInsert,
         UNCHANGED vars \/ CacheInsert, UNCHANGED claim
  PROVE  TellInv'
<1>1. /\ walk.of # "done" /\ late' = {}
      /\ UNCHANGED <<alive, comm, probe, records, forker, seen, late, event, claim>>
      /\ \A f \in alive : HasName(processes', f) =>
           \/ HasName(processes, f) /\ processes'[f].comm = processes[f].comm
           \/ /\ walk.of = "cache" /\ walk.at = "insert" /\ walk.next = f
              /\ processes'[f].comm = walk.comm
      /\ walk'.of = "cache" /\ walk'.at = "insert" =>
           walk'.comm = IF walk'.next \in alive THEN comm[walk'.next] ELSE NoName
  BY WalkForm DEF TellInv, LineageInv
<1>2. event = Idle /\ \A k \in DOMAIN records : records[k].claim = <<>>
  BY <1>1 DEF TellInv, NamesCome
<1>3. ASSUME NEW f \in alive PROVE Retold(f)' \/ Fresh(f)'
  <2>1. CASE Retold(f)
    BY <1>1, <2>1 DEF Retold, Settled, HasName
  <2>2. CASE Fresh(f)
    <3>1. HasName(processes', f) => processes'[f].comm = seen[f]
      BY <1>1, <2>2 DEF Fresh, HasName
    <3>2. walk'.of = "cache" /\ walk'.at = "insert" /\ walk'.next = f => walk'.comm = seen[f]
      BY <1>1, <2>2 DEF Fresh
    <3>3. \A W : /\ Handled(W, records, Len(records))
                 /\ HasName(W[0], f) => W[0][f].comm = seen[f]
                 => Settled(W[Len(records)], f)
      BY <2>2 DEF Fresh
    <3> QED
      BY <1>1, <2>2, <3>1, <3>2, <3>3 DEF Fresh, Settled, HasName
  <2> QED
    BY <1>1, <2>1, <2>2 DEF TellInv, NamesCome
<1>4. NamesCome'
  BY <1>1, <1>2, <1>3 DEF NamesCome
<1>5. CacheCatchesUp'
  <2> SUFFICES ASSUME NEW W, W[0] = processes', Handled(W, records', Len(records')),
                      NEW f \in alive
               PROVE  Settled(W[Len(records)], f)'
    BY <1>1 DEF CacheCatchesUp, Links
  <2>1. CASE Retold(f)'
    BY <2>1 DEF Retold, Settled, HasName
  <2>2. CASE Fresh(f)'
    BY <2>2 DEF Fresh, Settled, HasName
  <2> QED
    BY <1>3, <2>1, <2>2
<1>6. RecordsTell'
  BY <1>1, <1>2, TellsNothing DEF RecordsTell
<1>7. WalkTells'
  BY <1>1, <1>2 DEF WalkTells, Idle
<1> QED
  BY <1>4, <1>5, <1>6, <1>7 DEF TellInv

-----------------------------------------------------------------------------
(* The enricher takes a record, and walks.                                 *)

\* No record empties the cache.  That is so if MAX_PROCESSES, 32768, is at least the
\* number of keys: the pids and 0, 32768 in all unless pid_max has been raised.
KeepsCache ==
  EnrichNext =>
    Cardinality(DOMAIN Updated(processes, Raw(Head(records)))) <= MaxProcesses

LEMMA EnrichNextTells ==
  ASSUME TellInv, LineageInv', EnrichNext, KeepsCache
  PROVE  TellInv'
<1> DEFINE n == Len(records)  raw == Raw(Head(records))
<1>1. /\ walk.of = "done" /\ records # <<>> /\ Enrich(raw)
      /\ claim' = Head(records).claim /\ records' = Tail(records)
      /\ UNCHANGED <<alive, comm, probe, tree, walk, forker, seen, late>>
  BY DEF EnrichNext, osVars, histVars
<1>2. /\ n \in Nat \ {0} /\ Head(records) = records[1]
      /\ Len(records') = n - 1 /\ DOMAIN records = 1..n /\ DOMAIN records' = 1..(n - 1)
      /\ \A i \in 1..(n - 1) : records'[i] = records[i + 1]
  <2> DEFINE S == ToSet(records)
  <2>1. records \in Seq(S)
    BY DEF TellInv, LineageInv, RecordsOK
  <2> HIDE DEF S
  <2> QED
    BY <1>1, <2>1
<1>3. /\ processes' = Updated(processes, raw)
      /\ event'.walking /\ event'.pid = raw.ppid /\ event'.lineage = <<>>
  <2>1. Cardinality(DOMAIN Updated(processes, raw)) <= MaxProcesses
    BY DEF KeepsCache
  <2> HIDE DEF raw
  <2>2. processes' = Updated(processes, raw)
    <3>1. processes' = IF Cardinality(DOMAIN Updated(processes, raw)) > MaxProcesses THEN <<>>
                       ELSE Updated(processes, raw)
      BY <1>1 DEF Enrich, Cleared
    <3>2. ~ (Cardinality(DOMAIN Updated(processes, raw)) > MaxProcesses)
      <4>1. raw \in Records
        BY <1>1, TakeOK DEF TellInv, LineageInv, raw
      <4>2. CacheOK(processes)
        BY DEF TellInv, LineageInv, TypeOK, CacheOK
      <4>3. Cardinality(DOMAIN Updated(processes, raw)) \in Nat
        BY <4>1, <4>2, UpdatedType, CacheSize
      <4> QED
        BY <2>1, <4>3, EnricherAssumption
    <3> QED
      BY <3>1, <3>2
  <2> QED
    BY <1>1, <2>2 DEF Enrich
<1> HIDE DEF n, raw
\* A sequence of caches from the next record on goes back to this one.
<1>4. ASSUME NEW W, W[0] = processes', NEW k \in 0..(n - 1), Handled(W, records', k)
      PROVE  \E W2 : /\ W2[0] = processes /\ Handled(W2, records, k + 1)
                     /\ W2[k + 1] = W[k]
  <2> DEFINE W2 == [j \in Nat |-> IF j = 0 THEN processes ELSE W[j - 1]]
  <2>1. W2[0] = processes /\ W2[k + 1] = W[k] /\ \A j \in Nat : j # 0 => W2[j] = W[j - 1]
    <3>1. k + 1 \in Nat /\ k + 1 # 0 /\ (k + 1) - 1 = k
      BY <1>2
    <3> QED
      BY <3>1
  <2> HIDE DEF W2
  <2>2. ASSUME NEW j \in 1..(k + 1) PROVE W2[j] = Updated(W2[j - 1], Raw(records[j]))
    <3>1. CASE j = 1
      BY <1>2, <1>3, <1>4, <2>1, <3>1 DEF raw
    <3>2. CASE j # 1
      <4>1. /\ j - 1 \in 1..k /\ j - 1 \in 1..(n - 1) /\ (j - 1) + 1 = j
            /\ j \in Nat /\ j # 0 /\ j - 1 \in Nat /\ j - 1 # 0
        BY <1>2, <3>2
      <4>2. W[j - 1] = Updated(W[(j - 1) - 1], Raw(records'[j - 1]))
        BY <1>4, <4>1 DEF Handled
      <4>3. records'[j - 1] = records[j]
        BY <1>2, <4>1
      <4> QED
        BY <2>1, <4>1, <4>2, <4>3
    <3> QED
      BY <3>1, <3>2
  <2> QED
    BY <2>1, <2>2 DEF Handled
<1>5. CacheCatchesUp'
  <2> SUFFICES ASSUME NEW W, W[0] = processes', Handled(W, records', n - 1)
               PROVE  (\A f \in alive : Settled(W[n - 1], f)) /\ Links(W[n - 1])
    BY <1>1, <1>2 DEF CacheCatchesUp, Settled, HasName, Links, Linked
  <2>1. n - 1 \in 0..(n - 1) /\ (n - 1) + 1 = n
    BY <1>2
  <2>2. PICK W2 : W2[0] = processes /\ Handled(W2, records, n) /\ W2[n] = W[n - 1]
    BY <1>4, <2>1
  <2> QED
    BY <1>1, <2>2 DEF n, TellInv, CacheCatchesUp
<1>6. RecordsTell'
  <2> SUFFICES ASSUME NEW k \in DOMAIN records', NEW W, W[0] = processes', Handled(W, records', k)
               PROVE  Tells(W[k], Raw(records'[k]).ppid, records'[k].claim)
    BY DEF RecordsTell
  <2>1. k \in 0..(n - 1) /\ k + 1 \in DOMAIN records /\ records'[k] = records[k + 1]
    BY <1>2
  <2>2. PICK W2 : W2[0] = processes /\ Handled(W2, records, k + 1) /\ W2[k + 1] = W[k]
    BY <1>4, <2>1
  <2>3. Tells(W2[k + 1], Raw(records[k + 1]).ppid, records[k + 1].claim)
    BY <2>1, <2>2 DEF TellInv, RecordsTell
  <2> QED
    BY <2>1, <2>2, <2>3
<1>7. Tells(processes', raw.ppid, claim')
  <2> DEFINE W == [j \in Nat |-> IF j = 0 THEN processes ELSE processes']
  <2>1. W[0] = processes /\ W[1] = processes'
    OBVIOUS
  <2> HIDE DEF W
  <2>2. Handled(W, records, 1)
    BY <1>2, <1>3, <2>1 DEF Handled, raw
  <2>3. 1 \in DOMAIN records
    BY <1>2
  <2>4. Tells(W[1], Raw(records[1]).ppid, records[1].claim)
    BY <2>1, <2>2, <2>3 DEF TellInv, RecordsTell
  <2> QED
    BY <1>1, <1>2, <2>1, <2>4 DEF raw
<1>8. WalkTells'
  <2>1. Len(event'.lineage) = 0 /\ 0 <= MaxLineage
    BY <1>3, EnricherAssumption
  <2>2. claim' \in Seq(Names) /\ TellsFrom(processes', event'.pid, claim', 0)
    BY <1>3, <1>7 DEF Tells
  <2>3. \A i \in 1..Len(claim') : ~ (i <= 0)
    BY <2>2
  <2> QED
    BY <2>1, <2>2, <2>3 DEF WalkTells
<1> QED
  BY <1>1, <1>5, <1>6, <1>8 DEF TellInv, NamesCome

LEMMA LineageStepTells ==
  ASSUME TellInv, LineageInv', LineageStep
  PROVE  TellInv'
<1>1. /\ UNCHANGED <<alive, comm, probe, tree, walk, records, forker, seen, late, claim>>
      /\ UNCHANGED processes /\ event.walking
  BY DEF LineageStep, Step, Return, WalkOn, treeVars
<1>2. event # Idle /\ walk.of = "done"
  BY <1>1 DEF TellInv, NamesCome, Idle
<1>3. NamesCome' /\ CacheCatchesUp' /\ RecordsTell'
  BY <1>1, <1>2 DEF TellInv, NamesCome, CacheCatchesUp, RecordsTell, Settled, HasName, Links, Linked
<1>4. CASE Return
  BY <1>3, <1>4 DEF Return, TellInv, WalkTells, Idle
<1>5. CASE Step
  <2> DEFINE pid == event.pid  s == event.lineage  info == processes[pid]
  <2>1. /\ event \in Walks /\ s \in Seq(Names) /\ Len(s) < MaxLineage
        /\ pid \in DOMAIN processes /\ info \in Infos
        /\ event' = [event EXCEPT !.pid = info.ppid,
                       !.lineage = IF info.comm = NoName THEN @ ELSE Append(@, info.comm)]
    BY <1>1, <1>2, <1>5 DEF Step, WalkOn, TellInv, LineageInv, TypeOK, Walks
  <2>2. /\ claim \in Seq(Names)
        /\ \A i \in 1..Len(claim) : i <= Len(s) => s[i] = claim[i]
        /\ TellsFrom(processes, pid, claim, Len(s))
    BY <1>1 DEF TellInv, WalkTells
  <2>3. /\ event'.walking /\ event'.pid = info.ppid
        /\ event'.lineage = IF info.comm = NoName THEN s ELSE Append(s, info.comm)
    BY <1>1, <2>1 DEF Walks
  <2>4. Len(s) \in Nat /\ Len(claim) \in Nat /\ MaxLineage \in Nat
    BY <2>1, <2>2, EnricherAssumption
  <2> HIDE DEF pid, s, info
  <2>5. CASE Len(s) < Len(claim)
    <3>1. PICK pids : /\ pids[Len(s) + 1] = pid
                      /\ \A i \in (Len(s) + 1)..Len(claim) :
                           /\ pids[i] \in Pids /\ pids[i] \in DOMAIN processes
                           /\ processes[pids[i]].comm = claim[i]
                           /\ i < Len(claim) => processes[pids[i]].ppid = pids[i + 1]
      BY <2>2, <2>5 DEF TellsFrom
    <3>2. Len(s) + 1 \in (Len(s) + 1)..Len(claim) /\ Len(s) + 1 \in 1..Len(claim)
      BY <2>4, <2>5
    <3>3. /\ info.comm = claim[Len(s) + 1] /\ claim[Len(s) + 1] \in Names
          /\ Len(s) + 1 < Len(claim) => info.ppid = pids[(Len(s) + 1) + 1]
      BY <2>2, <3>1, <3>2, ElementOfSeq DEF info
    <3>4. event'.lineage = Append(s, info.comm) /\ info.comm \in Names
      BY <2>3, <3>3, ProcessAssumption
    <3>5. /\ Len(event'.lineage) = Len(s) + 1 /\ event'.lineage[Len(s) + 1] = info.comm
          /\ \A i \in 1..Len(s) : event'.lineage[i] = s[i]
      BY <2>1, <3>4 DEF s
    <3>6. Len(event'.lineage) <= MaxLineage
      BY <2>1, <2>4, <3>5 DEF s
    <3>7. ASSUME NEW i \in 1..Len(claim), i <= Len(event'.lineage)
          PROVE  event'.lineage[i] = claim[i]
      <4>1. CASE i = Len(s) + 1
        BY <3>3, <3>5, <4>1
      <4>2. CASE i # Len(s) + 1
        <5>1. i \in 1..Len(s) /\ i <= Len(s)
          BY <2>4, <3>5, <3>7, <4>2
        <5> QED
          BY <2>2, <3>5, <5>1
      <4> QED
        BY <4>1, <4>2
    <3>8. TellsFrom(processes, event'.pid, claim, Len(event'.lineage))
      <4>1. \A i \in ((Len(s) + 1) + 1)..Len(claim) : i \in (Len(s) + 1)..Len(claim)
        BY <2>4
      <4>2. /\ Len(s) + 1 < Len(claim) => pids[(Len(s) + 1) + 1] = info.ppid
            /\ \A i \in ((Len(s) + 1) + 1)..Len(claim) :
                 /\ pids[i] \in Pids /\ pids[i] \in DOMAIN processes
                 /\ processes[pids[i]].comm = claim[i]
                 /\ i < Len(claim) => processes[pids[i]].ppid = pids[i + 1]
        BY <3>1, <3>3, <4>1
      <4> QED
        BY <2>3, <3>5, <4>2 DEF TellsFrom
    <3> QED
      BY <1>1, <1>3, <2>2, <3>6, <3>7, <3>8 DEF TellInv, WalkTells
  <2>6. CASE ~ (Len(s) < Len(claim))
    <3>1. /\ Len(event'.lineage) <= MaxLineage /\ Len(event'.lineage) >= Len(s)
          /\ Len(event'.lineage) \in Nat
          /\ \A i \in 1..Len(s) : event'.lineage[i] = s[i]
      <4>1. CASE info.comm = NoName
        BY <2>1, <2>3, <2>4, <4>1 DEF s
      <4>2. CASE info.comm # NoName
        <5>1. info.comm \in Names
          BY <2>1, <4>2 DEF Infos, info
        <5>2. /\ Len(event'.lineage) = Len(s) + 1
              /\ \A i \in 1..Len(s) : event'.lineage[i] = s[i]
          BY <2>1, <2>3, <4>2, <5>1 DEF s
        <5> QED
          BY <2>1, <2>4, <5>2 DEF s
      <4> QED
        BY <4>1, <4>2
    <3>2. \A i \in 1..Len(claim) : i \in 1..Len(s) /\ i <= Len(s)
      BY <2>4, <2>6
    <3>3. \A i \in 1..Len(claim) : event'.lineage[i] = claim[i]
      BY <2>2, <3>1, <3>2
    <3>4. TellsFrom(processes, event'.pid, claim, Len(event'.lineage))
      <4>1. /\ ~ (Len(event'.lineage) < Len(claim))
            /\ (Len(event'.lineage) + 1)..Len(claim) = {}
        BY <2>4, <2>6, <3>1
      <4>2. \E pids : TRUE
        OBVIOUS
      <4> QED
        BY <4>1, <4>2 DEF TellsFrom
    <3> QED
      BY <1>1, <1>3, <2>2, <3>1, <3>3, <3>4 DEF TellInv, WalkTells
  <2> QED
    BY <2>5, <2>6
<1> QED
  BY <1>4, <1>5 DEF LineageStep

LEMMA LineageInitTells == LineageInit => TellInv
<1> SUFFICES ASSUME LineageInit PROVE TellInv
  OBVIOUS
<1>1. /\ TreeInit /\ processes = <<>> /\ event = Idle /\ records = <<>>
  BY DEF LineageInit, TreeInit
<1>2. /\ probe = [p \in Pids |-> User] /\ seen = comm /\ walk = Walk("tree", 1)
      /\ alive \subseteq Pids /\ Len(records) = 0 /\ DOMAIN records = {} /\ DOMAIN processes = {}
  BY <1>1 DEF TreeInit
<1>3. walk.of = "tree" /\ \A f \in alive : probe[f].at = "user"
  BY <1>2 DEF Walk, User
<1>4. ASSUME NEW f \in alive PROVE Fresh(f)
  <2>1. comm[f] = seen[f] /\ probe[f].at # "exec" /\ ~ HasName(processes, f)
    BY <1>2, <1>3 DEF HasName
  <2>2. ASSUME NEW W, HasName(W[0], f) => W[0][f].comm = seen[f]
        PROVE  Settled(W[Len(records)], f)
    BY <1>2, <2>1, <2>2 DEF Settled
  <2> QED
    BY <1>3, <2>1, <2>2 DEF Fresh
<1>5. NamesCome /\ CacheCatchesUp
  BY <1>1, <1>2, <1>3, <1>4 DEF NamesCome, CacheCatchesUp
<1>6. RecordsTell /\ WalkTells
  BY <1>1, <1>2 DEF RecordsTell, WalkTells, Idle
<1> QED
  BY <1>5, <1>6, LineageInitInv DEF TellInv

LEMMA TellStepInv == TellInv /\ [LineageNext]_allVars /\ [KeepsCache]_allVars => TellInv'
<1> SUFFICES ASSUME TellInv, [LineageNext]_allVars, [KeepsCache]_allVars PROVE TellInv'
  OBVIOUS
<1>0. LineageInv' /\ TreeInv'
  BY LineageStepInv DEF TellInv, LineageInv
<1>1. CASE ProcessOrProbe
  <2>1. CASE \E p \in Pids : Run(p)
    BY <1>0, <1>1, <2>1, RunTells DEF ProcessOrProbe
  <2>2. CASE List \/ SeedRead \/ SeedInsert
    BY <1>0, <1>1, <2>2, WalksTell DEF ProcessOrProbe
  <2> QED
    BY <1>1, <2>1, <2>2 DEF ProcessOrProbe, TreeNext
<1>2. CASE CacheRead \/ CacheInsert
  BY <1>0, <1>2, WalksTell DEF CacheRead, CacheInsert
<1>3. CASE UNCHANGED allVars
  BY <1>0, <1>3 DEF allVars, treeVars, vars, TellInv, NamesCome, CacheCatchesUp, RecordsTell,
     WalkTells, Retold, Fresh, Settled, HasName, Links, Linked
<1>4. CASE EnrichNext
  <2>1. KeepsCache
    BY DEF KeepsCache, allVars, treeVars, EnrichNext
  <2> QED
    BY <1>0, <1>4, <2>1, EnrichNextTells
<1>5. CASE LineageStep
  BY <1>0, <1>5, LineageStepTells
<1> QED
  BY <1>1, <1>2, <1>3, <1>4, <1>5 DEF LineageNext

LEMMA SamePart ==
  ASSUME NEW s \in Seq(Names), NEW t \in Seq(Names), NEW n \in Nat, n <= Len(s), n <= Len(t),
         \A i \in 1..n : s[i] = t[i]
  PROVE  SubSeq(s, 1, n) = SubSeq(t, 1, n)
<1>1. \A i \in 1..n : s[i] \in Names /\ t[i] \in Names
  BY ElementOfSeq
<1>2. /\ SubSeq(s, 1, n) \in Seq(Names) /\ Len(SubSeq(s, 1, n)) = n
      /\ \A i \in 1..n : SubSeq(s, 1, n)[i] = s[i]
  BY <1>1, SubSeqProperties
<1>3. /\ SubSeq(t, 1, n) \in Seq(Names) /\ Len(SubSeq(t, 1, n)) = n
      /\ \A i \in 1..n : SubSeq(t, 1, n)[i] = t[i]
  BY <1>1, SubSeqProperties
<1> QED
  BY <1>2, <1>3, SeqEqual

\* A walk that has come to its end without a pid has told the claim.
LEMMA ToldAtEnd == TellInv => LineageTellsForkers
<1> SUFFICES ASSUME TellInv, event # Idle, ~ WalkOn
             PROVE  \/ IsPrefix(claim, event.lineage)
                    \/ Len(event.lineage) = MaxLineage /\ IsPrefix(event.lineage, claim)
  BY DEF LineageTellsForkers
<1> DEFINE s == event.lineage
<1>1. event \in Walks /\ event.walking /\ s \in Seq(Names)
  BY DEF TellInv, LineageInv, TypeOK, Walks
<1>2. /\ claim \in Seq(Names) /\ Len(s) <= MaxLineage
      /\ \A i \in 1..Len(claim) : i <= Len(s) => s[i] = claim[i]
      /\ TellsFrom(processes, event.pid, claim, Len(s))
  BY <1>1 DEF TellInv, WalkTells
<1>3. Len(s) \in Nat /\ Len(claim) \in Nat /\ MaxLineage \in Nat
  BY <1>1, <1>2, EnricherAssumption
<1>4. CASE Len(claim) <= Len(s)
  <2>1. \A i \in 1..Len(claim) : claim[i] = s[i]
    BY <1>2, <1>3, <1>4
  <2>2. SubSeq(claim, 1, Len(claim)) = SubSeq(s, 1, Len(claim))
    BY <1>1, <1>2, <1>3, <1>4, <2>1, SamePart
  <2> QED
    BY <1>4, <2>2 DEF IsPrefix
<1>5. CASE Len(s) < Len(claim)
  <2>1. event.pid \in Pids /\ event.pid \in DOMAIN processes
    <3>1. Len(s) + 1 \in (Len(s) + 1)..Len(claim)
      BY <1>3, <1>5
    <3> HIDE DEF s
    <3> QED
      BY <1>2, <1>5, <3>1 DEF TellsFrom
  <2>2. event.pid # NoPid
    BY <2>1, ProcessAssumption
  <2>3. Len(s) = MaxLineage
    BY <1>1, <1>2, <1>3, <2>1, <2>2 DEF WalkOn
  <2>4. \A i \in 1..Len(s) : s[i] = claim[i]
    BY <1>2, <1>3, <1>5
  <2>5. SubSeq(s, 1, Len(s)) = SubSeq(claim, 1, Len(s))
    BY <1>1, <1>2, <1>3, <1>5, <2>4, SamePart
  <2> QED
    BY <1>3, <1>5, <2>3, <2>5 DEF IsPrefix
<1> QED
  BY <1>3, <1>4, <1>5

\* While no record empties the cache, the lineage of an event begins with what the
\* processes that forked its process, one the other, were called at the record.
THEOREM LineageToldEver ==
  LineageSpec /\ [][KeepsCache]_allVars => []LineageTellsForkers
<1> QED
  BY LineageInitTells, TellStepInv, ToldAtEnd, PTL DEF LineageSpec

\* The same for every behaviour if the cache has room for all pids and the key 0:
\* then no record empties it.
THEOREM LineageToldIfRoom ==
  Cardinality(Keys) <= MaxProcesses => (LineageSpec => []LineageTellsForkers)
<1> SUFFICES ASSUME Cardinality(Keys) <= MaxProcesses PROVE LineageSpec => []LineageTellsForkers
  OBVIOUS
<1>1. LineageInv => KeepsCache
  <2> SUFFICES ASSUME LineageInv, EnrichNext
               PROVE  Cardinality(DOMAIN Updated(processes, Raw(Head(records)))) <= MaxProcesses
    BY DEF KeepsCache
  <2>1. Raw(Head(records)) \in Records /\ CacheOK(processes)
    BY TakeOK DEF EnrichNext, LineageInv, TypeOK, CacheOK
  <2> DEFINE map == Updated(processes, Raw(Head(records)))
  <2>2. CacheOK(map)
    BY <2>1, UpdatedType
  <2> HIDE DEF map
  <2>3. Cardinality(DOMAIN map) \in Nat /\ Cardinality(DOMAIN map) <= Cardinality(Keys)
    BY <2>2, CacheSize
  <2>4. Cardinality(Keys) \in Nat
    BY ProcessAssumption, FS_AddElement, FS_CardinalityType DEF Keys
  <2> QED
    BY <2>3, <2>4, EnricherAssumption DEF map
<1> QED
  BY <1>1, LineageInvariant, LineageToldEver, PTL DEF LineageSpec
=============================================================================
