------------------------------- MODULE Lineage -------------------------------
(***************************************************************************)
(* ProcessTree and Enricher together: what the probes know of a process,   *)
(* the walk over /proc that seeds the enricher's cache once the map has    *)
(* been seeded, and the enricher that takes the records in the order of    *)
(* the ring once the cache has been seeded.                                *)
(*                                                                         *)
(* The two sides share nothing but the records, so the processes are held  *)
(* while the enricher walks a lineage; between records they run on.        *)
(***************************************************************************)
EXTENDS ProcessTree, Enricher, SequencesExt

VARIABLE claim   \* history: the claim of the record in hand

allVars == <<treeVars, vars, claim>>

LineageInit ==
  /\ TreeInit
  /\ processes = <<>> /\ event = Idle /\ blank = FALSE
  /\ claim = <<>>

-----------------------------------------------------------------------------
ProcessOrProbe ==
  /\ event = Idle
  /\ TreeNext
  /\ UNCHANGED <<vars, claim>>

\* seed_from_proc reads the name first, and the parent after it: a process that
\* is gone when a file is read leaves its value empty.
CacheRead ==
  /\ walk.of = "cache" /\ walk.at = "read"
  /\ walk' = [of |-> "cache", next |-> walk.next, at |-> "insert",
              comm |-> IF walk.next \in alive THEN comm[walk.next] ELSE NoName]
  /\ WalkFrame /\ UNCHANGED <<tree, vars, claim>>

CacheInsert ==
  /\ walk.of = "cache" /\ walk.at = "insert"
  /\ processes' = Insert(processes, walk.next, Info(StatPpid, walk.comm))
  /\ walk' = NextPid
  /\ WalkFrame /\ UNCHANGED <<tree, event, blank, claim>>

\* A record as the code has it.
Raw(record) == [field \in DOMAIN record \ {"claim"} |-> record[field]]

EnrichNext ==
  /\ walk.of = "done" /\ records # <<>>
  /\ Enrich(Raw(Head(records)))
  /\ claim' = Head(records).claim
  /\ records' = Tail(records)
  /\ UNCHANGED <<osVars, probe, tree, walk, histVars>>

LineageStep ==
  /\ Step \/ Return
  /\ UNCHANGED <<treeVars, claim>>

LineageNext ==
  ProcessOrProbe \/ CacheRead \/ CacheInsert \/ EnrichNext \/ LineageStep

LineageSpec == LineageInit /\ [][LineageNext]_allVars

-----------------------------------------------------------------------------
\* The map stays within its size, and the enricher is given nothing but the
\* records that its own module allows for.
LineageTypeOK ==
  /\ tree \in [DOMAIN tree -> Keys]
  /\ DOMAIN tree \subseteq Pids /\ Cardinality(DOMAIN tree) <= MaxNodes
  /\ \A i \in DOMAIN records : Raw(records[i]) \in Records
  /\ TypeOK

\* The lineage of an event begins with the names that the forkers of its process
\* had when the record was taken, as far back as they were forked after the walks
\* and had room in the map: through execs that fail, exits and the reuse of pids,
\* and however far the enricher lags behind the kernel.  The cache must have room
\* for all pids: a record that overflows it empties it.
LineageTellsForkers ==
  (event # Idle /\ ~ WalkOn) =>
    \/ IsPrefix(claim, event.lineage)
    \/ Len(event.lineage) = MaxLineage /\ IsPrefix(event.lineage, claim)
==============================================================================
