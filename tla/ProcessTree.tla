----------------------------- MODULE ProcessTree -----------------------------
(***************************************************************************)
(* PROCESS_TREE, the BPF map from a pid to its parent: the probes that     *)
(* write it, the walk over /proc that seeds it after the probes have been  *)
(* attached, and the records that carry what is looked up in it.           *)
(*                                                                         *)
(* The processes themselves are the environment.  A probe runs in the      *)
(* process that hit it, so a process is in one probe at a time, while the  *)
(* seeding thread and the other processes run on.  No probe sees an exit,  *)
(* and nothing is ever removed from the map; the fork probe is modelled as *)
(* try_fork reads its arguments, the parent's pid and name and the child's *)
(* pid.  The ring is taken to have room, Transport models its loss.  The   *)
(* program walks over /proc a second time, for the enricher's cache: that  *)
(* walk is in Lineage, and the sources of both are in `walk'.              *)
(***************************************************************************)
EXTENDS Processes, Sequences

CONSTANTS
  MaxNodes,  \* PROCESS_TREE: 8192
  MaxOps     \* bound: forks, execs, other system calls and exits

\* Pids are 1..NumPids; 1, the init process, never ends.
NumPids == Cardinality(Pids)
InitPid == 1

ASSUME ProcessTreeAssumption ==
  Pids = 1..NumPids /\ InitPid \in Pids /\ MaxNodes \in Nat /\ MaxOps \in Nat

VARIABLES
  alive,   \* the running processes
  parent,  \* task_struct->real_parent, as /proc/<pid>/stat shows it
  comm,    \* task_struct->comm
  probe,   \* pid -> where the process is in execve and the probes on its way
  tree,    \* PROCESS_TREE: pid -> ppid
  walk,    \* the walks over /proc: which one, at which pid, what it has read
  records, \* the ring
  forker,  \* history: who forked a process, until the forker's pid is reused
  seen,    \* history: the last name of a process that its records tell
  late,    \* history: the processes forked after both walks were over
  stale,   \* history: the pids reused while the walk held the old process
  ops      \* history: for the bound

osVars == <<alive, parent, comm, ops>>
histVars == <<forker, seen, late, stale>>
treeVars == <<alive, parent, comm, probe, tree, walk, records, forker, seen,
              late, stale, ops>>

User == [at |-> "user"]
Walk(of, next) == [of |-> of, next |-> next, at |-> "list"]

TreeInit ==
  /\ alive \in {running \in SUBSET Pids : InitPid \in running}
  /\ parent = [p \in Pids |-> IF p \in alive \ {InitPid} THEN InitPid ELSE NoPid]
  /\ \E name \in Names : comm = [p \in Pids |-> name]
  /\ probe = [p \in Pids |-> User]
  /\ tree = <<>>
  /\ walk = Walk("tree", 1)
  /\ records = <<>>
  /\ forker = parent
  /\ seen = comm
  /\ late = {} /\ stale = {}
  /\ ops = 0

-----------------------------------------------------------------------------
(* The map and the ring.                                                   *)

\* Mutant of Lookup: a process that is not in the map has the largest u32.
LookupOrMax(pid) == IF pid \in DOMAIN tree THEN tree[pid] ELSE NumPids + 1

\* lookup_ppid: 0 if the map has no entry.
Lookup(pid) == IF pid \in DOMAIN tree THEN tree[pid] ELSE NoPid

\* Mutant of Upsert: an entry that is there already stays as it is.
InsertIfAbsent(pid, ppid) ==
  tree' = IF pid \in DOMAIN tree \/ Cardinality(DOMAIN tree) >= MaxNodes THEN tree
          ELSE [q \in DOMAIN tree \union {pid} |-> IF q = pid THEN ppid ELSE tree[q]]

\* PROCESS_TREE.insert, whose error is ignored: a full map takes no new key.
Upsert(pid, ppid) ==
  tree' = IF pid \notin DOMAIN tree /\ Cardinality(DOMAIN tree) >= MaxNodes THEN tree
          ELSE [q \in DOMAIN tree \union {pid} |-> IF q = pid THEN ppid ELSE tree[q]]

\* The names of a process's forkers, nearest first, as far as they were forked
\* after the walks, had room in the map and their pids have not been reused.  A
\* process the map had no room for loses its parent in the cache with its next
\* exec, whose record has parent 0.
Ancestry(p, by, names, known) ==
  LET chain[n \in 0..NumPids] ==
        [q \in Pids |-> IF n = 0 \/ q \notin known \/ by[q] = NoPid THEN <<>>
                        ELSE <<names[by[q]]>> \o chain[n - 1][by[q]]]
  IN  chain[NumPids][p]

Told(p) == Ancestry(p, forker, seen, late \intersect DOMAIN tree)

\* A record, and what its lineage has to begin with, which is not in the code.
Emit(kind, pid, ppid, name, path, claim) ==
  records' = Append(records, [kind |-> kind, pid |-> pid, ppid |-> ppid,
                              comm |-> name, path |-> path, claim |-> claim])

EmitOwn(kind, p, path) == Emit(kind, p, Lookup(p), comm[p], path, Told(p)')

-----------------------------------------------------------------------------
(* The processes and the probes they run into.                             *)

Count == ops < MaxOps /\ ops' = ops + 1

\* sched_process_fork comes before the child can run.
Fork(p, c) ==
  /\ p \in alive /\ probe[p] = User /\ c \notin alive
  /\ Count
  /\ alive' = alive \union {c}
  /\ parent' = [parent EXCEPT ![c] = p]
  /\ comm' = [comm EXCEPT ![c] = comm[p]]
  /\ Upsert(c, p)
  /\ forker' = [q \in Pids |-> IF q = c THEN p
                               ELSE IF forker[q] = c THEN NoPid ELSE forker[q]]
  /\ seen' = [seen EXCEPT ![c] = comm[p]]
  /\ late' = IF walk.of = "done" THEN late \union {c} ELSE late \ {c}
  /\ stale' = IF walk.of = "tree" /\ walk.next = c /\ walk.at = "insert"
                THEN stale \union {c} ELSE stale \ {c}
  /\ Emit("processfork", c, p, comm[p], NoName,
          IF walk.of = "done" THEN <<seen[p]>> \o Told(p)' ELSE <<>>)
  /\ UNCHANGED <<probe, walk>>

\* try_execve, in the steps the seeding can come between: look the parent up,
\* store it again, look it up for the record.
Execve(p, name) ==
  /\ p \in alive /\ probe[p] = User
  /\ Count
  /\ probe' = [probe EXCEPT ![p] = [at |-> "execve", ppid |-> Lookup(p), name |-> name]]
  /\ UNCHANGED <<alive, parent, comm, tree, walk, records, histVars>>

ExecveStore(p) ==
  /\ probe[p].at = "execve"
  /\ Upsert(p, probe[p].ppid)
  /\ probe' = [probe EXCEPT ![p].at = "emit"]
  /\ UNCHANGED <<osVars, walk, records, histVars>>

ExecveEmit(p) ==
  /\ probe[p].at = "emit"
  /\ seen' = [seen EXCEPT ![p] = probe[p].name]
  /\ probe' = [probe EXCEPT ![p].at = "exec"]
  /\ UNCHANGED <<osVars, tree, walk, forker, late, stale>>
  /\ EmitOwn("exec", p, probe[p].name)

ExecFails(p) ==
  /\ probe[p].at = "exec"
  /\ probe' = [probe EXCEPT ![p] = User]
  /\ UNCHANGED <<osVars, tree, walk, records, histVars>>

\* The name changes, and try_exec looks the parent up and stores it again.
ExecSucceeds(p) ==
  /\ probe[p].at = "exec"
  /\ comm' = [comm EXCEPT ![p] = probe[p].name]
  /\ probe' = [probe EXCEPT ![p] = [at |-> "sched_exec", ppid |-> Lookup(p)]]
  /\ UNCHANGED <<alive, parent, ops, tree, walk, records, histVars>>

SchedExecStore(p) ==
  /\ probe[p].at = "sched_exec"
  /\ Upsert(p, probe[p].ppid)
  /\ probe' = [probe EXCEPT ![p] = User]
  /\ UNCHANGED <<osVars, walk, records, histVars>>

\* try_connect, try_openat.
Syscall(p) ==
  /\ p \in alive /\ probe[p] = User
  /\ Count
  /\ UNCHANGED <<alive, parent, comm, probe, tree, walk, histVars>>
  /\ EmitOwn("other", p, NoName)

\* The children go to the init process.
Exit(p) ==
  /\ p \in alive \ {InitPid} /\ probe[p] = User
  /\ Count
  /\ alive' = alive \ {p}
  /\ parent' = [q \in Pids |-> IF q = p THEN NoPid
                               ELSE IF parent[q] = p THEN InitPid ELSE parent[q]]
  /\ UNCHANGED <<comm, probe, tree, walk, records, histVars>>

Run(p) ==
  \/ \E c \in Pids : Fork(p, c)
  \/ \E name \in Names : Execve(p, name)
  \/ ExecveStore(p) \/ ExecveEmit(p) \/ ExecFails(p)
  \/ ExecSucceeds(p) \/ SchedExecStore(p)
  \/ Syscall(p) \/ Exit(p)

-----------------------------------------------------------------------------
(* The walk over /proc.                                                    *)

WalkFrame == UNCHANGED <<osVars, probe, records, histVars>>

\* The next pid, or the next walk.
NextPid ==
  IF walk.next < NumPids THEN Walk(walk.of, walk.next + 1)
  ELSE Walk(IF walk.of = "tree" THEN "cache" ELSE "done", 1)

\* read_dir yields the pids that have a process when it comes to them.
List ==
  /\ walk.of # "done" /\ walk.at = "list"
  /\ walk' = IF walk.next \in alive THEN [walk EXCEPT !.at = "read"] ELSE NextPid
  /\ WalkFrame /\ UNCHANGED tree

\* parse_ppid: a process that is gone by now reads as 0.
StatPpid == IF walk.next \in alive THEN parent[walk.next] ELSE NoPid

SeedRead ==
  /\ walk.of = "tree" /\ walk.at = "read"
  /\ walk' = [of |-> "tree", next |-> walk.next, at |-> "insert", ppid |-> StatPpid]
  /\ WalkFrame /\ UNCHANGED tree

SeedInsert ==
  /\ walk.of = "tree" /\ walk.at = "insert"
  /\ Upsert(walk.next, walk.ppid)
  /\ walk' = NextPid
  /\ WalkFrame

TreeNext == (\E p \in Pids : Run(p)) \/ List \/ SeedRead \/ SeedInsert

-----------------------------------------------------------------------------
\* A process forked after the walks is in the map with the process that forked
\* it, unless the map was full: no exec, failed or not, no reuse of a pid and no
\* exit changes that.
LateForksKnown ==
  \A p \in alive \intersect late :
    forker[p] # NoPid =>
      \/ p \in DOMAIN tree /\ tree[p] = forker[p]
      \/ p \notin DOMAIN tree /\ Cardinality(DOMAIN tree) >= MaxNodes

\* A process that was there before may have lost its parent to the race between
\* the seeding and a probe, which both store what they looked up before.  But
\* the map never gives it a parent it did not have, except through a pid that
\* was reused between the reading of stat and the insert.
NoStrangerAsParent ==
  \A p \in (alive \intersect DOMAIN tree) \ stale :
    forker[p] # NoPid => tree[p] \in {NoPid, forker[p], InitPid}
==============================================================================
