--------------------------- MODULE K8sCacheProofs ---------------------------
(***************************************************************************)
(* An event never carries the metadata of a pod it did not happen in, for  *)
(* any number of containers, pods and pids.  The invariant speaks of the   *)
(* cache, of the answers in hand and of the two steps of the lookup.  And  *)
(* a refresh is as good as a snapshot, though the runtime is asked twice   *)
(* and containers come and go between the two answers.                     *)
(***************************************************************************)
EXTENDS K8sCache, TLAPS

\* Every entry is the container's own, with its pod or none: what a refresh has
\* joined, and what the cache holds.
OwnMeta(map) ==
  /\ DOMAIN map \subseteq Containers
  /\ \A c \in DOMAIN map : map[c].container = c /\ map[c].pod \in {SandboxOf[c], None}

\* The inductive invariant behind OwnPodOrNone: until the lookup has read the
\* cgroup, a pid that was not used again is where it was, or gone.
LookupInv ==
  /\ OwnMeta(cache)
  /\ refresh.at = "swapping" => OwnMeta(refresh.map)
  /\ event.at = "queued" =>
       event.pid \in Pids /\ (event.reused \/ process[event.pid] \in {event.origin, "gone"})
  /\ event.at = "looking" => event.reused \/ event.id \in {event.origin, None}
  /\ OwnPodOrNone

\* The part of the types that the steps rely on.
ProcessOK == process = [p \in Pids |-> process[p]] /\ containers \subseteq Containers

Inv == ProcessOK /\ LookupInv

LEMMA InitInv == Init => Inv
  BY DEF Init, Inv, ProcessOK, LookupInv, OwnMeta, OwnPodOrNone, NoEvent

\* What a refresh joins from the two answers is each container's own.
LEMMA JoinIsOwn ==
  ASSUME NEW pods, containers \subseteq Containers
  PROVE  OwnMeta([c \in containers |-> Meta(c, PodOf(c, pods))])
  BY DEF OwnMeta, Meta, PodOf

\* The containers and processes move; only a pid that is used again matters.
LEMMA EnvironmentInv ==
  ASSUME Inv, Environment
  PROVE  Inv'
<1>1. CASE \E s \in Sandboxes : CreateSandbox(s) \/ RemoveSandbox(s)
  BY <1>1 DEF CreateSandbox, RemoveSandbox, Inv, ProcessOK, LookupInv, OwnMeta,
              OwnPodOrNone
<1>2. ASSUME NEW c \in Containers, CreateContainer(c) PROVE Inv'
  BY <1>2 DEF CreateContainer, Inv, ProcessOK, LookupInv, OwnMeta, OwnPodOrNone
<1>3. ASSUME NEW c \in Containers, RemoveContainer(c) PROVE Inv'
  BY <1>3 DEF RemoveContainer, Inv, ProcessOK, LookupInv, OwnMeta, OwnPodOrNone
<1>4. ASSUME NEW p \in Pids, EndProcess(p) PROVE Inv'
  BY <1>4 DEF EndProcess, runtimeVars, Inv, ProcessOK, LookupInv, OwnMeta, OwnPodOrNone
<1>5. ASSUME NEW p \in Pids, NEW place \in Places, StartProcess(p, place) PROVE Inv'
  <2>1. CASE event.at = "queued" /\ event.pid = p
    BY <1>5, <2>1 DEF StartProcess, runtimeVars, Inv, ProcessOK, LookupInv, OwnMeta,
                      OwnPodOrNone
  <2>2. CASE ~ (event.at = "queued" /\ event.pid = p)
    BY <1>5, <2>2 DEF StartProcess, runtimeVars, Inv, ProcessOK, LookupInv, OwnMeta,
                      OwnPodOrNone
  <2> QED
    BY <2>1, <2>2
<1> QED
  BY <1>1, <1>2, <1>3, <1>4, <1>5 DEF Environment

\* A refresh changes the cache at its end only, to what it has joined.
LEMMA RefreshInv ==
  ASSUME Inv, Refresh
  PROVE  Inv'
<1> USE DEF Inv, ProcessOK, LookupInv, OwnPodOrNone, RefreshFrame
<1>1. CASE Connect \/ ListPodSandbox \/ Fail \/ Wake
  BY <1>1 DEF Connect, ListPodSandbox, Fail, Wake, OwnMeta
<1>2. CASE ListContainers
  <2>1. OwnMeta(refresh'.map)
    BY <1>2, JoinIsOwn DEF ListContainers
  <2>2. OwnMeta(cache)'
    BY <1>2 DEF ListContainers, OwnMeta
  <2> QED
    BY <1>2, <2>1, <2>2 DEF ListContainers, OwnMeta
<1>3. CASE Swap
  BY <1>3 DEF Swap, OwnMeta
<1> QED
  BY <1>1, <1>2, <1>3 DEF Refresh

\* The lookup reads the cgroup of the pid, and then the cache.
LEMMA EventInv ==
  ASSUME Inv, (\E p \in Pids : Happen(p)) \/ ReadCgroup \/ LookupById
  PROVE  Inv'
<1> USE DEF Inv, ProcessOK, LookupInv, OwnPodOrNone, EventFrame, runtimeVars
<1>1. ASSUME NEW p \in Pids, Happen(p) PROVE Inv'
  BY <1>1 DEF Happen, OwnMeta
<1>2. CASE ReadCgroup
  <2>1. event'.reused \/ event'.id \in {event'.origin, None}
    BY <1>2, K8sAssumption DEF ReadCgroup
  <2> QED
    BY <1>2, <2>1 DEF ReadCgroup, OwnMeta
<1>3. CASE LookupById
  <2>1. event.id \in DOMAIN cache => event.id # None /\ cache[event.id].container = event.id
    BY K8sAssumption DEF OwnMeta
  <2> QED
    BY <1>3, <2>1 DEF LookupById, Lookup, OwnMeta
<1> QED
  BY <1>1, <1>2, <1>3

LEMMA StepInv ==
  ASSUME Inv, [Next]_vars
  PROVE  Inv'
<1>1. CASE UNCHANGED vars
  BY <1>1 DEF vars, runtimeVars, Inv, ProcessOK, LookupInv, OwnMeta, OwnPodOrNone
<1> QED
  BY <1>1, EnvironmentInv, RefreshInv, EventInv DEF Next

\* The invariant of the cache and of the lookup, whatever comes and goes.
THEOREM LookupInvariant == Spec => []LookupInv
<1>1. Inv => LookupInv
  BY DEF Inv
<1> QED
  BY <1>1, InitInv, StepInv, PTL DEF Spec

\* An event carries the metadata of its own container, with its own pod or none,
\* or no metadata, unless its pid was used again before the lookup.
THEOREM OwnPodOrNoneEver == Spec => []OwnPodOrNone
<1>1. LookupInv => OwnPodOrNone
  BY DEF LookupInv
<1> QED
  BY <1>1, LookupInvariant, PTL

-----------------------------------------------------------------------------
(* The types, with those of the answers in hand.                           *)

IsMap(map) == DOMAIN map \subseteq Containers /\ map \in [DOMAIN map -> Metas]

AnswersOK == refresh.at = "swapping" => IsMap(refresh.map)

Types == TypeOK /\ containers \subseteq Containers /\ AnswersOK

LEMMA InitTypes == Init => Types
  BY DEF Init, Types, TypeOK, AnswersOK, NoEvent

LEMMA StepTypes ==
  ASSUME Types, [Next]_vars
  PROVE  Types'
<1> USE DEF Types, TypeOK, AnswersOK, IsMap
<1>1. CASE Environment
  <2>1. CASE \E s \in Sandboxes : CreateSandbox(s) \/ RemoveSandbox(s)
    BY <2>1 DEF CreateSandbox, RemoveSandbox
  <2>2. CASE \E c \in Containers : CreateContainer(c) \/ RemoveContainer(c)
    BY <2>2 DEF CreateContainer, RemoveContainer
  <2>3. ASSUME NEW p \in Pids, EndProcess(p) PROVE Types'
    BY <2>3 DEF EndProcess, runtimeVars
  <2>4. ASSUME NEW p \in Pids, NEW place \in Places, StartProcess(p, place) PROVE Types'
    <3>1. process' \in [Pids -> Places \union {"gone"}]
      BY <2>4 DEF StartProcess
    <3>2. event'.at = event.at /\ (event.at = "done" => event' = event)
      BY <2>4 DEF StartProcess
    <3> QED
      BY <2>4, <3>1, <3>2 DEF StartProcess, runtimeVars
  <2> QED
    BY <1>1, <2>1, <2>2, <2>3, <2>4 DEF Environment
<1>2. CASE Refresh
  <2> USE DEF RefreshFrame
  <2>1. CASE Connect \/ ListPodSandbox \/ Fail \/ Wake
    BY <2>1 DEF Connect, ListPodSandbox, Fail, Wake
  <2>2. CASE ListContainers
    <3>1. \A c \in containers : Meta(c, PodOf(c, refresh.pods)) \in Metas
      BY K8sAssumption DEF Meta, Metas, PodOf
    <3>2. IsMap(refresh'.map)
      BY <2>2, <3>1 DEF ListContainers
    <3> QED
      BY <2>2, <3>2 DEF ListContainers
  <2>3. CASE Swap
    BY <2>3 DEF Swap
  <2> QED
    BY <1>2, <2>1, <2>2, <2>3 DEF Refresh
<1>3. CASE (\E p \in Pids : Happen(p)) \/ ReadCgroup \/ LookupById
  <2> USE DEF EventFrame, runtimeVars
  <2>1. CASE (\E p \in Pids : Happen(p)) \/ ReadCgroup
    BY <2>1 DEF Happen, ReadCgroup
  <2>2. CASE LookupById
    <3>1. Lookup(event.id) \in Metas \union {None}
      BY DEF Lookup
    <3> QED
      BY <2>2, <3>1 DEF LookupById
  <2> QED
    BY <1>3, <2>1, <2>2
<1>4. CASE UNCHANGED vars
  BY <1>4 DEF vars, runtimeVars
<1> QED
  BY <1>1, <1>2, <1>3, <1>4 DEF Next

\* The cache maps containers to metadata, whatever the runtime answers, and an
\* event gets metadata or none.
THEOREM K8sCacheTypeOK == Spec => []TypeOK
<1>1. Types => TypeOK
  BY DEF Types
<1> QED
  BY <1>1, InitTypes, StepTypes, PTL DEF Spec

-----------------------------------------------------------------------------
(* The snapshot.                                                           *)

\* A container has its sandbox as long as it is there.
HasSandbox == \A c \in containers : SandboxOf[c] \in sandboxes

\* What was there all through the refresh is there, and what is there was there
\* at some time in it.
Bracketed == throughout \subseteq containers /\ containers \subseteq during

\* The first answer has the sandbox of every container that stays, the second one
\* the container.
AnswersCover ==
  /\ refresh.at = "containers" => \A c \in throughout : SandboxOf[c] \in refresh.pods
  /\ refresh.at = "swapping" =>
       /\ throughout \subseteq DOMAIN refresh.map
       /\ \A c \in throughout : refresh.map[c].pod = SandboxOf[c]
       /\ DOMAIN refresh.map \subseteq during

SnapshotInv == HasSandbox /\ Bracketed /\ AnswersCover

LEMMA InitSnapshot == Init => SnapshotInv
  BY DEF Init, SnapshotInv, HasSandbox, Bracketed, AnswersCover

LEMMA StepSnapshot ==
  ASSUME SnapshotInv, [Next]_vars
  PROVE  SnapshotInv'
<1> USE DEF SnapshotInv, HasSandbox, Bracketed, AnswersCover
<1>1. CASE Environment
  <2>1. ASSUME NEW s \in Sandboxes, CreateSandbox(s) \/ RemoveSandbox(s)
        PROVE  SnapshotInv'
    BY <2>1 DEF CreateSandbox, RemoveSandbox
  <2>2. ASSUME NEW c \in Containers, CreateContainer(c) \/ RemoveContainer(c)
        PROVE  SnapshotInv'
    BY <2>2 DEF CreateContainer, RemoveContainer
  <2>3. ASSUME NEW p \in Pids, EndProcess(p) \/ \E place \in Places : StartProcess(p, place)
        PROVE  SnapshotInv'
    BY <2>3 DEF EndProcess, StartProcess, runtimeVars
  <2> QED
    BY <1>1, <2>1, <2>2, <2>3 DEF Environment
<1>2. CASE Refresh
  <2> USE DEF RefreshFrame
  <2>1. CASE Connect \/ ListPodSandbox \/ Swap \/ Fail \/ Wake
    BY <2>1 DEF Connect, ListPodSandbox, Swap, Fail, Wake
  <2>2. CASE ListContainers
    BY <2>2 DEF ListContainers, Meta, PodOf
  <2> QED
    BY <1>2, <2>1, <2>2 DEF Refresh
<1>3. CASE (\E p \in Pids : Happen(p)) \/ ReadCgroup \/ LookupById
  BY <1>3 DEF Happen, ReadCgroup, LookupById, EventFrame, runtimeVars
<1>4. CASE UNCHANGED vars
  BY <1>4 DEF vars, runtimeVars
<1> QED
  BY <1>1, <1>2, <1>3, <1>4 DEF Next

\* However containers and sandboxes come and go between the answers, the cache
\* after a refresh has every container that was there all the time, with its pod,
\* and none that was not there in it.
THEOREM RefreshIsAsSnapshot == Spec => RefreshIsSnapshot
<1> DEFINE Snapshot ==
      refresh.at = "swapping" /\ refresh'.at = "sleeping" =>
        /\ throughout \subseteq DOMAIN cache'
        /\ \A c \in throughout : cache'[c].pod = SandboxOf[c]
        /\ DOMAIN cache' \subseteq during
<1>1. ASSUME SnapshotInv, [Next]_vars PROVE [Snapshot]_vars
  <2>1. CASE Swap
    BY <1>1, <2>1 DEF Swap, SnapshotInv, AnswersCover
  <2>2. CASE Refresh /\ ~ Swap
    BY <2>2 DEF Refresh, Connect, ListPodSandbox, ListContainers, Fail, AtCall, Wake
  <2>3. CASE ~ Refresh
    <3>1. refresh' = refresh
      BY <1>1, <2>3 DEF Next, Environment, CreateSandbox, RemoveSandbox, CreateContainer,
         RemoveContainer, StartProcess, EndProcess, Happen, ReadCgroup, LookupById,
         EventFrame, vars
    <3> QED
      BY <3>1
  <2> QED
    BY <2>1, <2>2, <2>3
<1> QED
  BY <1>1, InitSnapshot, StepSnapshot, PTL DEF Spec, RefreshIsSnapshot
=============================================================================
