# A TLA+ model of ebpf-sentinel

This directory holds TLA+ specifications of ebpf-sentinel, an endpoint sensor
for Linux: eBPF probes write fixed-size records into a BPF ring buffer; a Rust
daemon reads, enriches and evaluates them against rules and exports alerts.
TLC checks the specifications on small instances, and TLAPS proves the most
important invariants for every value of the constants.

All paths below are relative to the repository; `PROJECT.json` maps each
definition to the lines it stands for.

## 1. The system

    process --probe--> PROCESS_TREE                          kernel
               |
               +-----> EVENTS (ring) ---- consumer thread --> channel
                                                                |
       /proc --walk--> Enricher cache <---- process_event <-----+
                                             |      main loop (select!)
             emit event to every sink <------+
             rules --> suppressor --> triage --> emit alert to every sink

| Component (source) | State | Operations | Makes it hard |
|---|---|---|---|
| Probes (`sentinel-ebpf/src/probes.rs`, `helpers.rs`) | `PROCESS_TREE`, per-CPU `SCRATCH` | execve, connect, openat, fork and exec probes | run on all CPUs at once, before and during the seeding; errors of map and ring are ignored |
| Ring, consumer thread, channel (`main.rs`, `pipeline.rs`) | the ring, the thread, the `mpsc` channel | output, parse, `blocking_send`, `recv`, close | full ring, full channel, a record that is in both, a thread that ends only by a failed send |
| Probe loader (`loader.rs`) | BPF maps | load and attach, path prefixes, walk over `/proc` | races with the probes it has just attached; a failure half way |
| Enricher (`enricher.rs`) | process cache, at most 32768 entries | seed, update by fork / exec / other, lineage walk | pids used again, a cache seeded from the future of its records, an unbounded loop |
| Event processing (`process_event` in `main.rs`) | none of its own | enrich, count, emit, evaluate, suppress, triage, emit | six ways out, of which `?` at a sink drops the rest of the event |
| Rule engine (`rules/mod.rs`) | loaded rules | load, evaluate, `should_alert`, `should_triage` | ids looked up again; imports may share ids; untagged enums, casts |
| Sigma import (`rules/sigma.rs`) | none | translate a document into a rule | a richer language squeezed into a smaller one |
| Suppressor (`suppress.rs`) | a queue of timestamps per (rule, pid) | `allow` | timestamps out of order, saturating arithmetic, pops at the front only |
| Sinks (`sinks/`) | file, gRPC client | `emit_event`, `emit_alert`, `flush` | partial failure, lost answers, `println!` that panics |
| Triage client (`triage.rs`) | none | one HTTP request | no timeout |
| Main loop (`main.rs`) | - | `select!` between `recv` and `ctrl_c`, flush, drops | exit waits for the consumer thread |
| Metrics (`metrics.rs`) | four counters, connections | increment, accept, gather, reply | counted before what they count has happened; read one after the other while they grow; silent clients |
| Kubernetes cache (`k8s.rs`) | container id -> pod | refresh by two calls, lookup by pid | pods that come and go between the calls and lookups |
| Path matching (`helpers.rs`) | `MONITORED_PATHS`, one scan per `openat` | fill, prefix match on buffers | both sides are cut to fit; the array is scanned while it is written |
| Configuration (`config.rs`) | none after start | load, validate | - |

What makes each correct, in one line:

- *Transport*: what the ring takes reaches the main loop once and in order; a
  record is lost only to a full ring; both buffers keep within their sizes; the
  consumer thread does not outlive the daemon.
- *Suppressor*: no more than `max_alerts` per window, and no denial without
  that many grants in the window.
- *Event processing*: every event is evaluated and every alert asked for is
  exported, refused, or met a failing sink; what sinks receive is rate limited.
- *Main loop*: end to end order and accounting; `ctrl_c` ends it; it exits.
- *Process tree and enricher*: the parents of processes forked after start-up
  are known and their names told; the walk for a lineage ends.
- *Start-up*: all or nothing; what runs is what was configured.
- *Path matching*: no write below a configured path is missed, and nothing is
  reported without cause, whatever is cut and whenever the open comes.
- *Rules, Sigma*: a native rule matches what its file says; an import misses or
  adds nothing to what its document means, but where that is known.
- *Metrics*: a scraped counter never seems to fall; a silent client holds up
  nobody else.
- *Kubernetes cache*: an event never carries the metadata of another pod; a
  container that stays becomes known, if the runtime does not keep failing.

## 2. The modules

| Module | Models | Checked by | Proofs |
|---|---|---|---|
| `Suppressor` | `suppress.rs`, limits of `config.rs` | `MCSuppressor` | `SuppressorProofs` |
| `SlidingWindow` | abstract: what the suppressor promises | refinement in `suppressor` | `SuppressorProofs` |
| `Transport` | probe output, ring, consumer thread, channel | `Transport.cfg` | `TransportProofs` |
| `LossyFifo` | abstract: a bounded lossy queue | refinement in `transport` | `TransportProofs` |
| `Dispatch` | `process_event`, `MultiSink` and sinks, rule actions, triage; composes `Suppressor` | `MCDispatch` | `DispatchProofs` |
| `Sentinel` | the daemon: composes `Transport` and `Dispatch` with the main loop | `MCSentinel` | `SentinelProofs` |
| `Processes` | what processes are known by: pids and names | in the three below | - |
| `Enricher` | the process cache and `lineage()` | `Enricher.cfg` | `LineageProofs` |
| `ProcessTree` | processes, probes, `PROCESS_TREE` and its seeding | through `MCLineage` | `LineageProofs` |
| `Lineage` | composes `ProcessTree`, the walk of `seed_from_proc` and `Enricher` | `MCLineage` | `LineageProofs` |
| `K8sCache` | `k8s.rs`: the refresh task and the lookup | `MCK8sCache` | `K8sCacheProofs` |
| `FileIntegrity` | the path prefixes, their copy into the array, the scan by the openat probe | through `MCStartup` | `StartupProofs` |
| `Rules` | what a rule file says, what is made of it, which events it matches | through `MCStartup` | `StartupProofs` |
| `SigmaImport` | the translation of a Sigma document, next to its meaning | through `MCStartup` | - |
| `Startup` | `main` up to the loop; composes `FileIntegrity`, `Rules` and `SigmaImport` | `MCStartup` | `StartupProofs` |
| `MetricsServer` | `metrics.rs`: the counters and the HTTP endpoint | `MetricsServer.cfg` | `MetricsProofs` |

Operators whose comment says *Mutant of X* are plausible bugs in X. No
specification uses them; `PROJECT.json` says which property each one breaks
when it takes X's place.

### Suppressor
`buckets` is the map behind the mutex: the bucket of a (rule, pid) is the queue
of granted timestamps. `allow()` holds the mutex from start to end, hence one
action per outcome: `Off` (`max_alerts = 0`), `Deny`, `Grant`. The loop that
pops expired entries is the relation `Expires(bucket, cutoff, n)`: it stops at
the first entry that is not older than the cutoff. Arithmetic saturates at
`U64Max`. `clock` and `Called` say how far a timestamp may lie behind the newest
one (`MaxSkew`): probes stamp a record before it enters the ring. `granted` and
`lastCall` are history. `SlidingWindow` is what the code promises, without
buckets, expiry or saturation: the grants are kept for ever and the window is
counted from them. With skewed timestamps the edge of its window is blurred by
`Slack`, which the refinement sets to `MaxSkew`; with no skew every call has one
possible answer.

### Transport
One action per step that another thread can see: `Stamp` and `Output` of a
probe on a CPU; `Parse`, `Reject`, `Send`, `SendFails`, `Release`, `Sleep`,
`Wake` of the consumer thread; `Recv`, `CloseRx`, `Detach` of the main task. The
item read from the ring is released at the end of the loop body, so during
`blocking_send` the record still takes up room, and after it the record is in
both buffers (`Pending` counts it once). `sameLayout` is chosen at the start: a
kernel object built with another record size makes every record a parse error.

### Dispatch
The state between two actions is the state at an `.await` of `process_event`.
`SinkFails` is the `?` operator: it leaves the event at once. For gRPC the
record may have reached the server. `StdoutPanics` is `println!` on a closed
descriptor. A failed write of the ndjson sink may leave part of the line in the
file: `TornLine` marks it, and since the sink stays open and appends, the next
record is written on behind it and is spoilt too (`SpoiltLine`) though its write
succeeds. Which rules match is left open (any set up to `MaxHits`); what the
code does with the matches, including the lookup of the actions by id, is not.
The matches are handled in the order of the rules, so those still to come are a
set (`alerts`), the next one its least (`First`).

### Sentinel
`Receive` joins `Recv` and `Begin`; `ShutDown` is the other branch of `select!`.
After the loop come `Flush`, the drops in reverse order of declaration
(`DropReceiver` before `DropLoader`), and `Exit`, which waits for the blocking
thread as the tokio runtime does.

### Enricher
`Enrich` is `update_tree` with the clearing at its end; `Step` and `Return` are
the loop of `lineage()`, which is a loop of its own because its end is not
obvious: only named entries count towards `max_lineage`. `blank` is history: a
record without a name was handled. The cache starts as any result of
`seed_from_proc` (`Seeds`), a pid not being used again between the reading of
its two files.

### ProcessTree and Lineage
The processes are the environment: they fork, exec, fail to exec, make system
calls and exit, and pids are used again at once. `try_execve` is three steps
(look up, store, look up and emit) and `try_exec` two, since the seeding thread
may insert between them. `List`, `SeedRead`, `SeedInsert` are the walk of
`seed_process_tree`; `CacheRead` and `CacheInsert` that of `seed_from_proc`.
A full map refuses a new key silently. `forker`, `seen`, `late`, `stale` and the
`claim` of a record are history: what the kernel knew when the record was taken.
The probes are attached at the start; the fork probe is modelled as `try_fork`
reads its arguments; a record's path is taken to be readable. `Lineage` lets the
enricher take the records in ring order, however late.

### K8sCache
`refresh_loop` is one action per await: `Connect`, `ListPodSandbox`,
`ListContainers` (with the join), `Swap`, `Fail` at any call, `Wake`. The lookup
is two actions, the read of `/proc/<pid>/cgroup` and the read of the map, since
the refresh task runs on another worker thread. Containers, sandboxes and
processes are the environment; container ids are unique, pids are not.
`throughout`, `during`, `used` and the origin of an event are history. The event
is in `queued` for as long as its record waits in ring and channel.

### FileIntegrity
A path is a sequence of bytes, a buffer of `MAX_PATH_LEN` bytes the sequence in
front of its first NUL. `CopyByte` is the kernel's copy of one map value, so a
scan may see any front part of an entry; `SetReturns` is the return of `map.set`.
`Openat` is the probe up to the scan: the name is cut as
`bpf_probe_read_user_str` cuts it, or is empty when it cannot be read. `ScanHit`
and `ScanOn` are one turn of the loop over all entries. `since` is history: which
entries were set when the open began.

### Rules, SigmaImport and Startup
`Startup` is `main` in the order of its steps: `Attach` (one probe at a time),
the paths, the walk (which is `ProcessTree`'s), the native rules, the Sigma
documents one by one (`ReadDoc`: `kept` are those that could be translated) and
their rules all at once, the sinks, and `Fail` for the `?` after each. Opens reach their probe
from the moment it is attached. The rules and the translation are operators: a
section of a rule file becomes a group as serde's untagged enum does it
(`ParseGroup`), a number is cast, a missing field matches nothing. Beside each
stands its reference: `SectionSays` is what the file says, `Means` what Sigma says
a document means. A text is a sequence of symbols (a slash, a numeral, a piece of
a name), a numeral is one symbol (`Digits`), and case
folding is a map of symbols. `MayMiss` and `MayExceed` list
where the import is known to be stricter or laxer than the document: by the shape
of the document, and of the event only whether capitals stand in a text that is
not compared for equality. Some cases were met only in the proof and then added to
the instance: a negative number is cast, `EventID` is compared with the name of the
kind, an image is asked for with a modifier the import does not know.

### MetricsServer
`Accept` spawns a task per connection; `ReadRequest`, `Gather` (one family at a
time, in any order, as the registry walks a hash map) and `Reply` are that task.
Increments come at any time. `AcceptFails` is the `?` after `accept()`: the
listener is dropped with its backlog, the tasks and the agent go on. `shown` and
`floor` are history.

## 3. The runs

| Run | Shows | Instance |
|---|---|---|
| `suppressor` | `allow()` decides every call as `SlidingWindow` does, also with records that overtake each other; the limit, its converse and the inductive invariant | rules with 0, 1 and 2 alerts; timestamps 0..5, skew 1, `U64Max = 5` so that the longer window saturates; 4 grants per bucket |
| `transport` | order, accounting, capacities, refinement of `LossyFifo`, end of the consumer thread | 2 CPUs, ring of 2, channel of 1, 5 records |
| `dispatch` | sinks differ by failures only, a failed write spoils at most one more record, no alert is lost silently, exports are rate limited, detection is skipped only on a failed emission, bounds of the alerts counter | 7 rules, one of each kind; 3 sinks; 2 events with up to 2 matches |
| `sentinel` | the whole daemon: end to end order and accounting, detection, `ctrl_c`, exit | 1 CPU, ring and channel of 1, 3 records, 2 sinks |
| `enricher` | the cache under every sequence of records: the walk ends, the bound holds | 4 pids, cache of 3, lineage of 2 |
| `lineage` | what the map knows of parents and what a lineage tells, under races of probes, seeding, exits and reuse of pids | 3 pids, map of 2, 4 operations, at most 2 during the walks |
| `startup` | opens against the paths that are being written; what is in force once the agent runs; what native and imported rules match next to what their files say; `Startup` implements `FileSpec` | buffers of 3 bytes, 2 entries, all names up to 3 bytes over two letters; 32 occurrences against every single condition, pairs of conditions, single Sigma items and pairs of selections |
| `metrics` | overlapping scrapes of growing counters, silent clients, a failing listener | 2 counters up to 2, 2 clients |
| `k8s_cache` | the metadata of an event is its own container's; a refresh is as good as a snapshot; a container that stays becomes known, unless the runtime is down for good or never answers | 2 pods with a container each, 1 pid; calls may fail without end |

Why the bounds are enough: in each instance every buffer can be full and empty,
every action is taken, and every property is broken by at least one mutant. Ring
and channel of size one or two already hold the record that is in both; two CPUs
are what it takes for records to overtake each other; one grant more than the
limit plus one entry popped shows all of a bucket; two events and two matches
show an alert lost behind another (they do not outlast a window: that a limit is kept
over several is for `suppressor` to check, and for `ExportIsRateLimited`). A lineage of two names shows a name and the
one behind it; a map of two for three pids is full in some behaviours and not in
others. Two containers of two pods are what a wrong join would mix up; one pid
is enough to be used again. A buffer of three bytes cuts a path of three, and
has paths that differ only in what is cut; two entries are fewer than the three
paths of one input; two counters and two clients are what it takes for scrapes
to overlap in different orders. The rules are judged condition by condition and
pair by pair, since a group only combines what its conditions say. `RingCap`,
`ChannelCap`, `MaxNodes`, `MaxProcesses`, `MaxLineage`, `MaxPathLen` and
`MaxMonitored` are sizes of the code made small; `MaxEvents`, `MaxHits`,
`MaxGrants`, `MaxSuppressed`, `MaxOps`, `Pids`, `WalkOps` and `MaxCount` are bounds of the exploration, named in guards. Deadlock is not
checked: the bounds, and the shutdown of the daemon, stop every model.

`MCLineage` uses two reductions. The names are symmetric. And TLC starts the
enricher after the last operation of the processes: its state depends only on
the seeded cache and on the records it has taken, and nothing in the kernel
depends on it, so no state of the enricher is lost by that.

### Properties worth a word
- `RateLimited` speaks of a grant and any that comes `max_alerts` or more after it
  *in call order*. With a skew, more than `max_alerts` grants may carry timestamps of one
  window: expiry looks at the front only, and records arrive out of order. So
  both it and `ImplementsSlidingWindow` blur the window by `MaxSkew`.
- `AcceptedInOrder` after shutdown allows for one missing block: what the
  dropped receiver held.
- `ExitsUnlessRingEmpty` and `ConsumerStops` have a premise in the code: the
  thread learns that the receiver is gone only by sending. With the probes
  detached and the ring empty, it polls for ever and the process does not exit.
- `EventuallyDetected` and `SignalEndsLoop` exclude a remote call that never
  returns: neither the triage request nor the gRPC publish has a deadline, and
  the loop looks at nothing else meanwhile.
- `NoNamelessCycle` and `LineageEnds` hold until a record without a name comes.
- `LineageTellsForkers` starts with processes forked after both walks. It stops
  at a process that the full map had no room for: its exec record has parent 0,
  and overwrites the parent its fork record had put into the cache. A failed
  exec counts as a rename, since `sys_enter_execve` fires before the outcome. It takes
  a cache with room for all pids, as in the run: one that overflows is emptied.
- `OwnPodOrNone` has its exception in the code: the cgroup is read when the
  event is processed, so the event of a process that is gone takes the container
  of whoever has its pid now. An event whose container the cache does not know
  has no `container_id` either, though it was read from the cgroup
  (docs/K8S.md gives the cgroup file as the source of that field).
- `NoStrangerAsParent` allows for parent 0 (a probe that looks up before the
  seeding inserts, and stores after it) and for the init process (reparenting).
- `FailureSpoilsOneRecord` bounds what a failed file write costs: the record it
  was for and the one written on behind it. `NoAlertLostSilently` counts the
  second as taken, for the sink reported success.
- `NoWriteMissed` compares the *whole* name and the *whole* configured path,
  though the code compares two cut buffers. It leaves out paths beyond
  `MaxMonitored`, of which the loader keeps none, and names that cannot be read.
- `ReportedForCause` has two exceptions in the code: a configured path that was too
  long matches by the front that was kept, and while the agent starts an entry
  matches by the part already copied.
- `RunningIsComplete` says which rules are in force and that they compile; what they
  match is left to `NativeAsWritten` and the two properties of the import.
- `NativeAsWritten` has two exceptions in the code: of a section with both `all`
  and `any` the second is dropped, and a negative number is cast to u64.
- `ImportMissesOnlyWhereKnown` and `ImportExceedsOnlyWhereKnown` do not say that
  imports are right, but list where they are not, and the list is complete for any
  documents and events (section 5). The worst: alternatives under a log source become requirements (`1 of` with a
  category), and an item with an unsupported field is dropped, so a selection asks
  for less.
- `ScrapesNeverFallBack` is what a monitoring system needs to take rates of a
  counter. A scrape may still show counters that never had those values together.

### Where code and documentation differ
Three runs state a sentence of the documentation, and TLC refutes each:

| Run | Sentence | The code |
|---|---|---|
| `transport_loss` | README.md:91 "every kernel event is parsed, enriched, optionally emitted to sinks, and counted in Prometheus" | a record that meets a full ring is counted nowhere (`helpers.rs:139`) |
| `dispatch_skip` | README.md:93 "enriched events are evaluated against YAML/Sigma rules" | a failing sink ends the event before the rules (`main.rs:171`) |
| `dispatch_bypass` | README.md:93 "matches pass through suppression and optional Claude triage before alert export" | alerts of triage-only rules do not meet the suppressor (`main.rs:181`) |

Two more are not runs. `metrics.rs:25` describes the alerts counter as "Alerts
emitted to sinks", while it is incremented before an emission that may fail
(`main.rs:197`): `AlertsTotalBounds` says by how much the two may differ. And
README.md:414 has unsupported Sigma fields "skipped with a warning", while
`map_sigma_field` drops them without a word and warns only of whole documents.

## 4. Fairness

- `Transport`: weak fairness of the consumer thread, which the operating system
  runs whenever it can take a step, and of `recv`. None for the probes:
  processes need not do anything.
- `Sentinel`: weak fairness of the consumer thread, of `Receive`, of the returns
  on the way out, and of `process_event` except at a remote call. Strong fairness of
  `ShutDown`: when both branches are ready `select!` picks at random, so a
  branch that is ready again and again is picked at some time. With finitely many records
  TLC could not tell weak from strong fairness here; the code needs the strong.
- `Enricher`: weak fairness of the loop of `lineage()`, which has no `.await`.
- `K8sCache`: weak fairness of `Wake` and `Swap`. None for the calls to the
  runtime, which have no deadline and may fail as often as they like (`Fail` has no
  bound). So `EventuallyKnown` has two exceptions: a call that never returns, and
  `RuntimeDown`, failures without end and no completed refresh from some time on, as
  with a CRI socket that is not there. TLC finds it violated without either.
- `MetricsServer`: weak fairness of the service of each connection, which the
  runtime schedules: accepting it, and the task it is given. The clients are free, to hang
  up, to keep silent or never to come, and the listener may fail at any time.

`Suppressor`, `Dispatch`, `FileIntegrity`, `ProcessTree` and `Startup` state safety
only.

## 5. The proofs

| Theorem | Module | Says |
|---|---|---|
| `SuppressorInvariant`, `SuppressorTypeOK`, `RateLimitHolds`, `NoGroundlessDenial`, `BucketsBounded` | `SuppressorProofs` | the limit and its converse, for every configuration, skew and integer width |
| `SuppressorIsSlidingWindow` | `SuppressorProofs` | every call is decided as a call of `SlidingWindow` is |
| `TransportInvariant`, `TransportCapacities`, `ReceivedInOrder`, `RecordsAccounted`, `UnreadableNeverDelivered` | `TransportProofs` | order, accounting and bounds for any number of CPUs and any capacities |
| `TransportIsLossyFifo` | `TransportProofs` | every step of `Transport` is a step or a stutter of `LossyFifo` |
| `DispatchInvariant`, `SinksNested`, `OneRecordSpoilt`, `NoAlertLost`, `AlertsTotalBounded`, `ExportIsRateLimited`, `DetectionSkippedOnlyOnFailureEver` | `DispatchProofs` | what reaches which sink, whatever fails, for any rules, sinks and limits |
| `SentinelInvariant`, `CountersAccount`, `SinksFollowRing` | `SentinelProofs` | end to end accounting and order of the whole daemon |
| `AgentRunsTransport`, `AgentIsLossyFifo` | `SentinelProofs` | every step of the daemon is a step or a stutter of `Transport`, and so of `LossyFifo` |
| `NoNamelessCycleEver`, `EnricherTypeOK`, `UpdatesBoundCache` | `LineageProofs` | no circle of nameless processes, and the bound of the cache, for any number of pids |
| `TreeInvariant`, `LateForksKnownEver`, `NoStrangerAsParentEver` | `LineageProofs` | what `PROCESS_TREE` knows of parents, under any races of probes and seeding |
| `LineageInvariant`, `LineageTypesHold`, `SeededEnricherSteps` | `LineageProofs` | the probes give the enricher what `Enricher` allows for, and from then on the composition is `Enricher` |
| `LineageToldIfRoom`, `LineageToldEver` | `LineageProofs` | a lineage begins with the names of the forkers, however far the enricher lags behind: if the cache has room for all pids, or else while no record empties it |
| `LookupInvariant`, `OwnPodOrNoneEver`, `K8sCacheTypeOK` | `K8sCacheProofs` | an event never has another container's metadata, unless its pid was used again |
| `RefreshIsAsSnapshot` | `K8sCacheProofs` | a refresh stores all that stayed throughout and nothing that was never there |
| `FileInvariant`, `NoWriteMissedEver`, `ReportedForCauseEver` | `StartupProofs` | both directions of the path matching, for any paths, names and sizes |
| `StartInvariant`, `StartIsComplete` | `StartupProofs` | the start is all or nothing, for any files and paths |
| `StartRunsFileIntegrity` | `StartupProofs` | every step of the start is a step or a stutter of `FileIntegrity` |
| `NativeRulesAsWritten` | `StartupProofs` | a native rule matches what its file says, for any rules and events |
| `ImportMissesWhereKnown`, `ImportExceedsWhereKnown` | `StartupProofs` | an imported rule differs from its document in the listed cases only, for any documents and events |
| `MetricsInvariant`, `ScrapesNeverFallBackEver` | `MetricsProofs` | no counter seems to fall, for any counters and clients |

*Suppressor.* `RateLimited` relates the history of grants to itself, the code
looks at the bucket only. The invariant `IInv` joins them: the bucket is the tail
of the history (`BucketIsTail`), no grant lies before an earlier one by more than
the skew (`GrantsSkewed`), and what has been forgotten is out of the window of
the newest timestamp, up to the skew (`ForgottenExpired`). A grant then sees
fewer than `max_alerts` entries, so all it must be far from is forgotten.
For the refinement, a call is granted when fewer than `max_alerts` entries are left;
the grants that are forgotten lie outside the narrower window and the entries that
are left inside the wider one, up to the front that keeps later ones in. So the
window counted from all grants comes out on the same side as the bucket does.
Assumed: limits are naturals, timestamps fit in u64.

*Transport.* `AcceptedInOrder` is inductive only with the fact that the head of
the ring is the record in hand while the consumer sends or releases
(`Capacities`), that nothing unreadable is in hand (`ReadableInHand`) and that
the channel is empty once closed (`ClosedIsEmpty`). The accounting needs that no
two CPUs hold the same record (`ScratchDistinct`) and that no record is newer
than `now`. Assumed: the capacities are positive.

*Refinement.* The abstract queue is `channel \o Pending`. `Output` is `Accept` or
`Lose` (a full ring means at least `RingCap - 1` pending records, as the
head may be in the channel already), `Recv` is `Deliver`, `Reject` and
`SendFails` are `Discard`, `CloseRx` is `Close`; the others stutter. The liveness
of `LossyFifo` is left to TLC.

*Dispatch.* The properties compare sinks with each other, with the counter and
with what failed, while a record is half way through the sinks. So `DispatchInv`
says how far it is: a record yet to be given out (`Outstanding`) has not failed
and is nowhere but in the sinks already served (`GivenOnce`). With that each
property has a form that holds between any two steps: a sink lacks, of what an
earlier one took, only failures and the record in hand (`SublogInv`); the counter
exceeds the alerts of a sink by its failures and by what is owed to it
(`CountInv`); each torn or spoilt line has a failure of its own (`TearInv`); an
alert asked for has an outcome or is still to come (`LossInv`). The rate limit of
what is exported is that of the suppressor carried over: `GrantInv` embeds the
alerts in a sink into the grants of their key, in order, so alerts far apart in
the sink are grants at least as far apart. `DetectionSkippedOnlyOnFailure` has
`EvaluatedInv`, which ties the place in `process_event` to what has become of the
event. Assumed: the rules, sinks and limits have their types, and timestamps fit
in u64 (`DispatchAssumption`, `LimitAssumption`).

*Sentinel.* Nothing is new in the parts, so the two invariants are used as
they are; `HandedOver` joins them (the events begun are those delivered, the one
in hand the last of these) and `TakenInOrder` states the order of the sinks
against what was received, which `AcceptedInOrder` turns into the order of the
ring. `AgentRunsTransport` needs no invariant; with `TransportIsLossyFifo` it makes
the daemon a bounded lossy queue between its probes and its rules.

*Enricher.* `NoNamelessCycle` says that any set of nameless entries has one whose
parent is outside the set. A fork makes one nameless entry and names its parent
in the same step, so a set with the new entry has it as the way out; every other
record adds a named entry. That is inductive as it stands. It bounds the walk
only if no record without a name comes: `LineageInvariant` proves that of the
records that the probes make (`RecordsOK`, `~ blank`).

*Process tree.* `LateForksKnown` needs that nobody but a process forked after the
walk writes its own entry, and what its probe has looked up is what is still there
(`LateInv`); an entry it found no room for stays out, because nothing is ever
removed. For `NoStrangerAsParent` every value on its way to the map, in a probe or
in the seeding walk, must be a parent the process has had (`KinInv`), and probes
run only in processes (`ProbesInProcesses`). Assumed: pids are `1..n`, the init
process is one of them (`ProcessAssumption`, `ProcessTreeAssumption`).

*The lineage of an event.* `LineageTellsForkers` compares a walk through the cache
with a claim that was made when the record was taken, many records before. So
`TellInv` speaks of the caches to come: `Handled(W, records, k)` says that `W` holds
the cache of now and the one after each of the first `k` records in the ring.
The cache after the last of them calls a running process what its records tell, or does
not know it, and then the process still has that name (`Settled`); a process forked
after the walks leads there to its forker (`Links`). This is `CacheCatchesUp`; a new
record adds one more cache to it. A claim is made when a
record enters the ring, so it is told by that last cache (`ToldTells`), and
`RecordsTell` keeps that for each record until its turn comes. Then `WalkTells`
follows the loop: what the claim says beyond the names already pushed lies ahead.
Before the walks are over the cache is seeded from a `/proc` that is ahead of the
records, so `NamesCome` has two ways for a name to come right: a record in the ring
brings it (`Retold`), or it has not changed and all that could be read of it is this
name (`Fresh`). The claim itself is a recursive function over the number of forkers;
`ChainExists` and `AncestryForm` go along it with the least counterexample, for the
induction theorems of the library cannot be used.

The assumption is about the clearing in `update_tree`: a record that makes the cache
larger than `max_processes` empties it, and names told before are lost. With the
default `pid_max` of 32768 there are 32767 pids, with the key 0 exactly the 32768
entries of `MAX_PROCESSES`, and it never happens (`LineageToldIfRoom`). Where
`pid_max` has been raised it may, and only `LineageToldEver` is left.

*Kubernetes cache.* `LookupInv`: what the cache and the answers in hand say of a
container is its own pod or none (`OwnMeta`), and until the cgroup is read a pid
that was not used again is where it was, or gone. `SnapshotInv`, for the refresh:
what the answers in hand list brackets what stayed and what came. Assumed: container ids are not
used again, and every container has one sandbox.

*File integrity.* `FileInv` says that an entry holds a front of its path, all of
the key once it is set (`EntriesAreFronts`), that a scan has not passed over a set
entry that matches (`NotPassedOver`), and what a report was made for (`HitBy`).
The rest is about cutting: a name starts with a path only if the cut name
starts with the cut path, and the converse holds where the path was not cut.
Assumed: buffers of at least two bytes, an array of at least one entry.

*Start-up.* What a stage has made is still there in the stages behind it
(`StartInv`): the probes and paths (`StageInv`), the documents read so far that
could be translated, in order (`KeptInv`), the rules (`RulesInv`). With `FileInv`,
which `StartRunsFileIntegrity` brings over, the running agent is complete. That
a native rule matches what its file says then follows rule by rule: untagged groups,
the comparison of numbers as numbers and as text, casts that change nothing
unless negative. Assumed: the default paths and what is configured are paths, files
hold lists, numbers that are not negative fit in u64, different numbers have different
numerals (`InputAssumption`, `RuleFileAssumption`, `NumeralAssumption`).

*Sigma import.* No recursion is needed: an item and its condition are compared text by
text. `StandsAt` says where one text stands in another, and from it follow `Within`,
prefix and suffix, that folding the case keeps them, and that the name behind the last
slash keeps a suffix that has no slash. With these a condition that matches means its
item unless the item is `Laxer` (`ItemMatchedIsMeant`), and the other way round unless
it is `Stricter` (`ItemMeantIsMatched`). `TranslatedRule` says which conditions a
translated document has and whether all or any are required; `MeantIsAlerted` and
`AlertedIsMeant` then go through the three forms of a condition section, with and
without a kind. `StartInv` puts the rule where `Alerts` looks for it. Assumed: numerals
and kinds are no capitals and no slashes (`SymbolAssumption`), values are texts, lists
or numbers that fit in u64 where they are not negative (`SigmaFileAssumption`), and a
process executes its own image (`OccurrenceAssumption`).

*Metrics.* A scrape cannot fall below an earlier reply because nothing shown
exceeds its counter, counters only grow, and a scrape reads each counter after
`floor` was taken: `MetricsInv`.

Type correctness is proved on its own or as part of the invariant of each module
with variables.

Inductive invariants that no run checks stand in the proof modules, next to the
proofs that use them: `TreeInv`, `LineageInv`, `TellInv` (`LineageProofs`), `FileInv`,
`StartInv` (`StartupProofs`), `MetricsInv`, `LookupInv`.

Only model-checked: all liveness properties (`ConsumerStops`, `EventuallyDetected`,
`SignalEndsLoop`, `ExitsUnlessRingEmpty`, `LineageEnds`, `EventuallyKnown`,
`AskersAnswered`) and the liveness of `LossyFifo`, since liveness and `ENABLED` are out
of the prover's reach. Every safety property that a passing run checks is proved.

## 6. Not modelled, and why

- Parsing: YAML, file globbing and the reading of the configuration are what they
  return, an error included (`Fail`). Of the configuration only the limits of the
  suppression and the default of `monitored_paths` act on state.
- Regular expressions are those that match a literal text; the engine is a library.
- In rules: values that are booleans, names as long as `TASK_COMM_LEN` (the kernel
  cuts them), relative paths. In configured paths: embedded NUL bytes. A Sigma
  condition of `and`, `or` and `not` is the form `expression`, which the import
  refuses as a whole; patterns of selection names (`1 of sel*`, `them`), wildcards and
  backslashes in Sigma values are left out.
- The BTF check, the memlock limit and the log of the kernel.
- Formatting and I/O without state: JSON and protobuf encoding, the triage
  prompt, the text of the metrics, the reference ingest server.
- Fields of an event that are only copied (addresses, flags, user ids).
- Threads: a process of `ProcessTree` has one. The fork tracepoint also fires for
  a new thread and gives thread ids, which the probe takes for pids.
- A process that is moved to another cgroup: in `K8sCache` it stays in the one it
  starts in.
- The suppressor's map of buckets grows with every (rule, pid) and is never
  pruned: the code has no bound to state.
- `seed_from_proc` reads name and parent one after the other. Two pids that
  are both used again between these reads can start as a circle of nameless
  entries, which the loop of `lineage()` does not leave. TLC finds that in
  `Lineage` when it allows four operations during the walks (the run allows two).
  `Enricher` takes it not to happen: its `Seeds` have no such circle.

## 7. Left to do

Sigma values with wildcards and patterns of selection names, and what the import
makes of them. The lineage of processes that were there before the agent: what the
race of seeding and probes leaves of it is only bounded from one side, by
`NoStrangerAsParent`.
