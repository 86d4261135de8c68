------------------------------ MODULE K8sCache ------------------------------
(***************************************************************************)
(* The metadata cache of k8s.rs: a task asks the container runtime for its *)
(* pod sandboxes and then for its containers, joins the two answers and    *)
(* replaces the cache; an event is given the metadata of the container its *)
(* pid is in when the event is processed.                                  *)
(*                                                                         *)
(* The runtime, the containers and their processes are the environment.  A *)
(* container is removed before its sandbox, and container ids are not used *)
(* again, unlike pids.  A call to the runtime has no timeout.  The short   *)
(* and the prefixed form of a container id are one id here.                *)
(***************************************************************************)
EXTENDS Naturals, FiniteSets

CONSTANTS
  Containers,   \* container ids
  Sandboxes,    \* pod sandboxes, one per pod
  SandboxOf,    \* container -> the sandbox it is created in
  Pids,
  None          \* no container, no pod, no metadata

ASSUME K8sAssumption ==
  /\ SandboxOf \in [Containers -> Sandboxes]
  /\ None \notin Containers \union Sandboxes
  /\ "host" \notin Containers /\ "gone" \notin Containers

VARIABLES
  sandboxes,   \* the sandboxes there are
  containers,  \* the containers there are
  process,     \* pid -> the container it is in, "host" or "gone"
  refresh,     \* where refresh_loop is, and the answers it holds
  cache,       \* container -> its metadata, here the pod
  event,       \* the event being looked up
  used,        \* history: the container ids used
  throughout,  \* history: the containers there all through this refresh
  during       \* history: the containers there at some time in this refresh

runtimeVars == <<sandboxes, containers, used, throughout, during>>
vars == <<runtimeVars, process, refresh, cache, event>>

NoEvent == [at |-> "none"]
Places == Containers \union {"host"}
Meta(c, pod) == [container |-> c, pod |-> pod]
Metas == [container : Containers, pod : Sandboxes \union {None}]

TypeOK ==
  /\ sandboxes \subseteq Sandboxes /\ containers \subseteq used
  /\ process \in [Pids -> Places \union {"gone"}]
  /\ refresh.at \in {"connecting", "sandboxes", "containers", "swapping", "sleeping"}
  /\ cache \in [DOMAIN cache -> Metas] /\ DOMAIN cache \subseteq Containers
  /\ event.at \in {"none", "queued", "looking", "done"}
  /\ event.at = "done" => event.meta \in Metas \union {None}

Init ==
  /\ sandboxes = {} /\ containers = {} /\ used = {}
  /\ process = [p \in Pids |-> "gone"]
  /\ refresh = [at |-> "connecting"]
  /\ cache = <<>>
  /\ event = NoEvent
  /\ throughout = {} /\ during = {}

-----------------------------------------------------------------------------
(* The containers and their processes.                                     *)

CreateSandbox(s) ==
  /\ s \notin sandboxes /\ \A c \in used : SandboxOf[c] # s
  /\ sandboxes' = sandboxes \union {s}
  /\ UNCHANGED <<containers, used, throughout, during, process, refresh, cache, event>>

RemoveSandbox(s) ==
  /\ s \in sandboxes /\ \A c \in containers : SandboxOf[c] # s
  /\ sandboxes' = sandboxes \ {s}
  /\ UNCHANGED <<containers, used, throughout, during, process, refresh, cache, event>>

CreateContainer(c) ==
  /\ c \notin used /\ SandboxOf[c] \in sandboxes
  /\ containers' = containers \union {c} /\ used' = used \union {c}
  /\ during' = during \union {c}
  /\ UNCHANGED <<sandboxes, throughout, process, refresh, cache, event>>

RemoveContainer(c) ==
  /\ c \in containers
  /\ containers' = containers \ {c}
  /\ throughout' = throughout \ {c}
  /\ process' = [p \in Pids |-> IF process[p] = c THEN "gone" ELSE process[p]]
  /\ UNCHANGED <<sandboxes, used, during, refresh, cache, event>>

StartProcess(p, place) ==
  /\ process[p] = "gone" /\ place \in containers \union {"host"}
  /\ process' = [process EXCEPT ![p] = place]
  /\ event' = IF event.at = "queued" /\ event.pid = p
                THEN [event EXCEPT !.reused = TRUE] ELSE event
  /\ UNCHANGED <<runtimeVars, refresh, cache>>

EndProcess(p) ==
  /\ process[p] # "gone"
  /\ process' = [process EXCEPT ![p] = "gone"]
  /\ UNCHANGED <<runtimeVars, refresh, cache, event>>

Environment ==
  \/ \E s \in Sandboxes : CreateSandbox(s) \/ RemoveSandbox(s)
  \/ \E c \in Containers : CreateContainer(c) \/ RemoveContainer(c)
  \/ \E p \in Pids : EndProcess(p) \/ \E place \in Places : StartProcess(p, place)

-----------------------------------------------------------------------------
(* refresh_loop.                                                           *)

RefreshFrame == UNCHANGED <<sandboxes, containers, used, process, event>>

\* connect_cri, then list_pod_sandbox, then list_containers.
Connect ==
  /\ refresh.at = "connecting"
  /\ refresh' = [at |-> "sandboxes"]
  /\ throughout' = containers /\ during' = containers
  /\ RefreshFrame /\ UNCHANGED cache

ListPodSandbox ==
  /\ refresh.at = "sandboxes"
  /\ refresh' = [at |-> "containers", pods |-> sandboxes]
  /\ RefreshFrame /\ UNCHANGED <<cache, throughout, during>>

\* Mutant of PodOf: a container whose sandbox is not listed gets the pod of
\* another one.
PodOfFirst(c, pods) ==
  IF SandboxOf[c] \in pods \/ pods = {} THEN SandboxOf[c] ELSE CHOOSE s \in pods : TRUE

\* A sandbox that came after the first answer is not in it.
PodOf(c, pods) == IF SandboxOf[c] \in pods THEN SandboxOf[c] ELSE None

ListContainers ==
  /\ refresh.at = "containers"
  /\ refresh' = [at |-> "swapping",
                 map |-> [c \in containers |-> Meta(c, PodOf(c, refresh.pods))]]
  /\ RefreshFrame /\ UNCHANGED <<cache, throughout, during>>

\* Mutant of Swap: what is in the cache stays there.
SwapMerges ==
  /\ refresh.at = "swapping"
  /\ cache' = [c \in DOMAIN cache \union DOMAIN refresh.map |->
                 IF c \in DOMAIN refresh.map THEN refresh.map[c] ELSE cache[c]]
  /\ refresh' = [at |-> "sleeping"]
  /\ RefreshFrame /\ UNCHANGED <<throughout, during>>

Swap ==
  /\ refresh.at = "swapping"
  /\ cache' = refresh.map
  /\ refresh' = [at |-> "sleeping"]
  /\ RefreshFrame /\ UNCHANGED <<throughout, during>>

AtCall == refresh.at \in {"connecting", "sandboxes", "containers"}

\* Mutant of Fail: the error is returned to the caller, and the task is over.
FailForGood ==
  /\ AtCall
  /\ refresh' = [at |-> "over"]
  /\ RefreshFrame /\ UNCHANGED <<cache, throughout, during>>

\* Any call may fail, and as often as it likes: the cache stays as it is until the
\* next refresh.
Fail ==
  /\ AtCall
  /\ refresh' = [at |-> "sleeping"]
  /\ RefreshFrame /\ UNCHANGED <<cache, throughout, during>>

Wake ==
  /\ refresh.at = "sleeping"
  /\ refresh' = [at |-> "connecting"]
  /\ RefreshFrame /\ UNCHANGED <<cache, throughout, during>>

Refresh == Connect \/ ListPodSandbox \/ ListContainers \/ Swap \/ Fail \/ Wake

-----------------------------------------------------------------------------
(* lookup_by_pid, for an event that waits since it happened.               *)

EventFrame == UNCHANGED <<runtimeVars, process, refresh, cache>>

Happen(p) ==
  /\ event.at \in {"none", "done"} /\ process[p] # "gone"
  /\ event' = [at |-> "queued", pid |-> p, origin |-> process[p], reused |-> FALSE]
  /\ EventFrame

\* container_id_from_pid: a process on the host, or gone, has no container.
ReadCgroup ==
  /\ event.at = "queued"
  /\ event' = [at |-> "looking", origin |-> event.origin, reused |-> event.reused,
               id |-> IF process[event.pid] \in Containers THEN process[event.pid] ELSE None]
  /\ EventFrame

\* lookup_by_container_id
Lookup(id) == IF id \in DOMAIN cache THEN cache[id] ELSE None

LookupById ==
  /\ event.at = "looking"
  /\ event' = [at |-> "done", origin |-> event.origin, reused |-> event.reused,
               meta |-> Lookup(event.id)]
  /\ EventFrame

Next ==
  \/ Environment
  \/ Refresh
  \/ (\E p \in Pids : Happen(p)) \/ ReadCgroup \/ LookupById

Spec == Init /\ [][Next]_vars

\* The task goes on after its sleep, and the lock is free in time.  A call to
\* the runtime need not return.
FairSpec == Spec /\ WF_vars(Wake) /\ WF_vars(Swap)

-----------------------------------------------------------------------------
\* Whatever comes and goes between the event, the two answers of the runtime and
\* the two steps of the lookup, an event carries the metadata of the container
\* it happened in and of no other pod, or none, unless its pid was used again.
OwnPodOrNone ==
  event.at = "done" /\ ~ event.reused /\ event.meta # None =>
    /\ event.meta.container = event.origin
    /\ event.meta.pod \in {SandboxOf[event.origin], None}

\* A refresh is as good as a snapshot: after it, the cache has every container
\* that was there all the time, with its pod, and none that was gone before.
RefreshIsSnapshot ==
  [][refresh.at = "swapping" /\ refresh'.at = "sleeping" =>
       /\ throughout \subseteq DOMAIN cache'
       /\ \A c \in throughout : cache'[c].pod = SandboxOf[c]
       /\ DOMAIN cache' \subseteq during]_vars

\* The runtime is down for good, as behind a socket that is not there: there is no
\* end of failures, and from some time on no refresh gets all its answers.
RuntimeDown == []<><<Fail>>_vars /\ <>[](refresh.at # "swapping")

\* A container that stays is known with its pod at some time, however often the
\* runtime fails meanwhile, unless it is down for good or never answers a call.
EventuallyKnown ==
  \/ RuntimeDown
  \/ \A c \in Containers :
       c \in containers ~>
         \/ c \notin containers
         \/ c \in DOMAIN cache /\ cache[c].pod = SandboxOf[c]
         \/ []AtCall
=============================================================================
