------------------------------ MODULE Enricher ------------------------------
(***************************************************************************)
(* The userspace process cache of enricher.rs: what each record does to it *)
(* and the walk that collects the lineage of an event.  The main loop holds*)
(* the enricher's lock from the update to the end of the walk.             *)
(*                                                                         *)
(* The walk follows ppid without a bound on its steps: only named entries  *)
(* count towards max_lineage.  A circle of processes can come about, since *)
(* pids are used again, and it is the names that end the walk.             *)
(***************************************************************************)
EXTENDS Processes, Sequences

CONSTANTS
  MaxProcesses,  \* MAX_PROCESSES = 32768
  MaxLineage     \* max_lineage = 8

ASSUME EnricherAssumption == MaxProcesses \in Nat /\ MaxLineage \in Nat

VARIABLES
  processes,  \* pid -> its parent and name, for the pids the cache knows
  event,      \* the event whose lineage is being collected
  blank       \* history: a record without a name has been handled

vars == <<processes, event, blank>>

Infos == [ppid : Keys, comm : Names \union {NoName}]
Records == [kind : {"processfork", "exec", "other"}, pid : Pids, ppid : Keys,
            comm : Names \union {NoName}, path : Names \union {NoName}]

Info(ppid, comm) == [ppid |-> ppid, comm |-> comm]
Idle == [walking |-> FALSE]
Walks == [walking : {TRUE}, parentComm : Names \union {NoName}, pid : Keys,
          lineage : Seq(Names)]

TypeOK ==
  /\ DOMAIN processes \subseteq Keys
  /\ \A pid \in DOMAIN processes : processes[pid] \in Infos
  /\ event \in Walks \union {Idle}
  /\ blank \in BOOLEAN

\* What seed_from_proc has found.  A process that is gone when its files are
\* read has neither name nor parent; its pid is not used again between the two.
Seeds ==
  {seed \in UNION {[known -> Infos] : known \in SUBSET Pids} :
     \A pid \in DOMAIN seed : seed[pid].comm = NoName => seed[pid].ppid = NoPid}

Init ==
  /\ processes \in Seeds
  /\ event = Idle
  /\ blank = FALSE

-----------------------------------------------------------------------------
Insert(map, pid, info) ==
  [key \in DOMAIN map \union {pid} |-> IF key = pid THEN info ELSE map[key]]

\* The name of an event: the binary's, if the record has one.
Comm(raw) == IF raw.kind = "exec" /\ raw.path # NoName THEN raw.path ELSE raw.comm

\* Mutant of Named: only a parent the cache does not know gets the name.
NamedIfNew(map, pid, comm) ==
  IF pid \in DOMAIN map THEN map ELSE Insert(map, pid, Info(NoPid, comm))

\* A fork gives the parent a name if it has none.
Named(map, pid, comm) ==
  IF pid \notin DOMAIN map THEN Insert(map, pid, Info(NoPid, comm))
  ELSE IF map[pid].comm = NoName THEN Insert(map, pid, Info(map[pid].ppid, comm))
  ELSE map

Updated(map, raw) ==
  CASE raw.kind = "processfork" ->
         Named(Insert(map, raw.pid, Info(raw.ppid, NoName)), raw.ppid, raw.comm)
    [] raw.kind = "exec" -> Insert(map, raw.pid, Info(raw.ppid, Comm(raw)))
    [] OTHER ->
         IF raw.pid \in DOMAIN map THEN map
         ELSE Insert(map, raw.pid, Info(raw.ppid, raw.comm))

\* Mutant of Cleared: one process too many.
ClearedLate(map) == IF Cardinality(DOMAIN map) > MaxProcesses + 1 THEN <<>> ELSE map

\* A cache that has grown too large is emptied, the new entry included.
Cleared(map) == IF Cardinality(DOMAIN map) > MaxProcesses THEN <<>> ELSE map

ParentComm(map, raw) ==
  IF raw.kind = "processfork" THEN raw.comm
  ELSE IF raw.ppid \in DOMAIN map THEN map[raw.ppid].comm
  ELSE NoName

Enrich(raw) ==
  /\ event = Idle
  /\ processes' = Cleared(Updated(processes, raw))
  /\ event' = [walking |-> TRUE, parentComm |-> ParentComm(processes', raw),
               pid |-> raw.ppid, lineage |-> <<>>]
  /\ blank' = (blank \/ Comm(raw) = NoName)

WalkOn ==
  /\ event.walking
  /\ event.pid # NoPid /\ Len(event.lineage) < MaxLineage
  /\ event.pid \in DOMAIN processes

\* Mutant of Step: the walk stays at a process without a name.
StepIfNamed ==
  /\ WalkOn
  /\ LET info == processes[event.pid] IN
       event' = IF info.comm = NoName THEN event
                ELSE [event EXCEPT !.pid = info.ppid, !.lineage = Append(@, info.comm)]
  /\ UNCHANGED <<processes, blank>>

Step ==
  /\ WalkOn
  /\ LET info == processes[event.pid] IN
       event' = [event EXCEPT
                   !.pid = info.ppid,
                   !.lineage = IF info.comm = NoName THEN @ ELSE Append(@, info.comm)]
  /\ UNCHANGED <<processes, blank>>

Return ==
  /\ event.walking /\ ~ WalkOn
  /\ event' = Idle
  /\ UNCHANGED <<processes, blank>>

Next == (\E raw \in Records : Enrich(raw)) \/ Step \/ Return

Spec == Init /\ [][Next]_vars

\* lineage() is a loop without an await: the thread that runs it goes on.
FairSpec == Spec /\ WF_vars(Step) /\ WF_vars(Return)

-----------------------------------------------------------------------------
Nameless == {pid \in DOMAIN processes : processes[pid].comm = NoName}

\* Whatever the order in which pids are forked, renamed and used again, no
\* process without a name leads back to itself through others without a name:
\* from any set of them the walk gets out.  A record without a name voids this.
NoNamelessCycle ==
  ~ blank => \A ring \in (SUBSET Nameless) \ {{}} :
                \E pid \in ring : processes[pid].ppid \notin ring

\* A record never leaves the cache larger than MAX_PROCESSES, even if the walk
\* over /proc had filled it beyond.
UpdatesKeepCacheBounded ==
  [][processes' # processes => Cardinality(DOMAIN processes') <= MaxProcesses]_vars

\* The walk for every event comes to an end, also around a circle of parents.
LineageEnds == (event.walking /\ ~ blank) ~> ~ event.walking
=============================================================================
