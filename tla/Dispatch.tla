------------------------------ MODULE Dispatch ------------------------------
(***************************************************************************)
(* process_event (sentinel/src/main.rs): what the main loop does with one  *)
(* event.  Count it, emit it to every sink, evaluate the rules, and for    *)
(* every alert: suppress, triage, count, emit to every sink.  The sinks    *)
(* are served in order and the first error ends the whole event            *)
(* (MultiSink and the ? operator).  The state between two steps is the     *)
(* state at an await: the kernel, the consumer thread and the signal       *)
(* handler run on meanwhile, another event is not looked at.               *)
(*                                                                         *)
(* An event is its timestamp; the events of an instance have one pid (the  *)
(* pids do not meet in this code: Suppressor has the keys).  Which rules   *)
(* an event matches is left open.                                          *)
(***************************************************************************)
EXTENDS Integers, Sequences, FiniteSets, SequencesExt

CONSTANTS
  RuleSeq,     \* the engine's rules in load order: [id, enabled, actions]
  Sinks,       \* the configured sinks in order: "stdout", "ndjson" or "grpc"
  PerRule, Default, NanosPerSec, U64Max, MaxSkew,   \* as in Suppressor
  MaxEvents,   \* bound: events processed, and the newest timestamp
  MaxHits      \* bound: rules one event matches

RuleIds == {RuleSeq[i].id : i \in DOMAIN RuleSeq}
Events == 1..MaxEvents

ASSUME DispatchAssumption ==
  /\ RuleSeq \in Seq([id : RuleIds, enabled : BOOLEAN,
                      actions : SUBSET {"alert", "triage", "other"}])
  /\ Sinks \in Seq({"stdout", "ndjson", "grpc"}) /\ Sinks # <<>>
  /\ MaxEvents \in Nat /\ MaxHits \in Nat

\* As Suppressor assumes of the limits and of time.
ASSUME LimitAssumption ==
  /\ Default \in [max_alerts : Nat, window_secs : Nat]
  /\ DOMAIN PerRule \subseteq RuleIds
  /\ \A id \in DOMAIN PerRule : PerRule[id] \in [max_alerts : Nat, window_secs : Nat]
  /\ NanosPerSec \in Nat \ {0} /\ U64Max \in Nat /\ MaxSkew \in Nat
  /\ MaxEvents <= U64Max

VARIABLES
  emitEvents,      \* not --no-emit-events
  triageEnabled,   \* triage configured and not --no-triage
  phase,           \* where process_event is: "event", "rules", "alerts", "triage" or
                   \* "alert"; "idle" outside it, "panicked" when it unwinds
  event,           \* the event in hand
  sink,            \* the number of the sink being written to
  alerts,          \* the alerts that are left, as positions in RuleSeq: rule order
  triaged,         \* alert.triage.is_some() of the first of them
  output,          \* sink number -> what has reached it, in order; of a file: its lines
  eventsTotal, alertsTotal, suppressedTotal,  \* the Prometheus counters
  buckets, suppressed, clock, granted, lastCall,  \* of the suppressor
  begun,           \* history: the events taken up
  evaluated,       \* history: the events the rules were evaluated on
  matched,         \* history: the (event, rule) pairs that matched
  refused,         \* history: those the suppressor turned down
  failures         \* history: what was in hand when a sink failed

options == <<emitEvents, triageEnabled>>
counters == <<eventsTotal, alertsTotal, suppressedTotal>>
suppressor == <<buckets, suppressed, clock, granted, lastCall>>
history == <<begun, evaluated, matched, refused, failures>>
vars == <<options, phase, event, sink, alerts, triaged, output, counters,
          suppressor, history>>

Pid == 1
Suppressor == INSTANCE Suppressor WITH
                Rules <- RuleIds, Pids <- {Pid}, Timestamps <- Events,
                MaxGrants     <- MaxEvents * Len(RuleSeq),
                MaxSuppressed <- MaxEvents * Len(RuleSeq)

\* should_alert and should_triage look the id up again: the first rule that
\* has it decides, and no action at all means "alert".
FirstWith(i) ==
  CHOOSE j \in DOMAIN RuleSeq :
    /\ RuleSeq[j].id = RuleSeq[i].id
    /\ \A k \in 1..(j - 1) : RuleSeq[k].id # RuleSeq[i].id
ShouldAlert(i) == LET acts == RuleSeq[FirstWith(i)].actions IN acts = {} \/ "alert" \in acts
ShouldTriage(i) == "triage" \in RuleSeq[FirstWith(i)].actions

EventRecord(e) == [type |-> "event", event |-> e]
AlertRecord(e, i, t) == [type |-> "alert", event |-> e, rule |-> i, triage |-> t]

\* The lines of a file that are no record: the front part a failed write left
\* behind, without its newline, and a record that was written on behind one.
TornLine == [type |-> "torn"]
SpoiltLine(r) == [type |-> "spoilt", record |-> r]

Init ==
  /\ emitEvents \in BOOLEAN /\ triageEnabled \in BOOLEAN
  /\ phase = "idle" /\ event = 0 /\ sink = 1 /\ alerts = {} /\ triaged = FALSE
  /\ output = [s \in DOMAIN Sinks |-> <<>>]
  /\ eventsTotal = 0 /\ alertsTotal = 0 /\ suppressedTotal = 0
  /\ Suppressor!Init
  /\ begun = {} /\ evaluated = {} /\ matched = {} /\ refused = {} /\ failures = {}

-----------------------------------------------------------------------------
(* The event: enrich, count, emit.                                         *)

\* Mutant of Begin: with --no-emit-events the event is only counted.
BeginAndReturn(e) ==
  /\ phase = "idle"
  /\ event' = e /\ begun' = begun \union {e}
  /\ eventsTotal' = eventsTotal + 1
  /\ sink' = 1
  /\ phase' = (IF emitEvents THEN "event" ELSE "idle")
  /\ UNCHANGED <<options, alerts, triaged, output, alertsTotal, suppressedTotal,
                 suppressor, evaluated, matched, refused, failures>>

Begin(e) ==
  /\ phase = "idle"
  /\ event' = e /\ begun' = begun \union {e}
  /\ eventsTotal' = eventsTotal + 1
  /\ sink' = 1
  /\ phase' = (IF emitEvents THEN "event" ELSE "rules")
  /\ UNCHANGED <<options, alerts, triaged, output, alertsTotal, suppressedTotal,
                 suppressor, evaluated, matched, refused, failures>>

\* The alert in hand and those behind it.
First == Min(alerts)
Others == alerts \ {First}

\* What the current sink is being given.
InHand == IF phase = "event" THEN EventRecord(event)
                             ELSE AlertRecord(event, First, triaged)

EndsTorn(s) == output[s] # <<>> /\ Last(output[s]) = TornLine

\* Mutant of Written: the line of a spoilt record stays open.
WrittenUnended(s, r) ==
  IF EndsTorn(s) THEN Front(output[s]) \o <<SpoiltLine(r), TornLine>>
                 ELSE Append(output[s], r)

\* The record and, in a file, a newline behind whatever the last line holds.
Written(s, r) ==
  IF EndsTorn(s) THEN Append(Front(output[s]), SpoiltLine(r)) ELSE Append(output[s], r)

SinkFrame == UNCHANGED <<options, event, triaged, counters, suppressor,
                         begun, evaluated, matched, refused>>

\* Mutant of SinkTakes: process_event returns after the first alert.
SinkTakesOneAlert ==
  /\ phase \in {"event", "alert"}
  /\ output' = [output EXCEPT ![sink] = Written(sink, InHand)]
  /\ IF sink < Len(Sinks)
       THEN sink' = sink + 1 /\ UNCHANGED <<phase, alerts>>
       ELSE /\ sink' = 1
            /\ phase' = (IF phase = "event" THEN "rules" ELSE "idle")
            /\ alerts' = {}
  /\ UNCHANGED failures
  /\ SinkFrame

\* The sink takes the record, and the next one is served; after the last the
\* rules are evaluated, or the next alert is looked at.
SinkTakes ==
  /\ phase \in {"event", "alert"}
  /\ output' = [output EXCEPT ![sink] = Written(sink, InHand)]
  /\ IF sink < Len(Sinks)
       THEN sink' = sink + 1 /\ UNCHANGED <<phase, alerts>>
       ELSE /\ sink' = 1
            /\ phase' = (IF phase = "event" THEN "rules" ELSE "alerts")
            /\ alerts' = (IF phase = "event" THEN alerts ELSE Others)
  /\ UNCHANGED failures
  /\ SinkFrame

\* Mutant of SinkFails: the error does not keep the record from the next sink.
SinkFailsNextServed ==
  /\ phase \in {"event", "alert"} /\ Sinks[sink] \in {"ndjson", "grpc"}
  /\ sink < Len(Sinks)
  /\ failures' = failures \union {InHand}
  /\ sink' = sink + 1
  /\ UNCHANGED <<phase, alerts, output>>
  /\ SinkFrame

\* A file or a gRPC sink returns an error, and ? ends process_event: the sinks
\* behind it get nothing, the rules are not evaluated or the other alerts are
\* dropped.  A publish whose answer was lost has reached the server; a failed
\* write may leave a part of the line, or all of it but the newline.
SinkFails ==
  /\ phase \in {"event", "alert"} /\ Sinks[sink] \in {"ndjson", "grpc"}
  /\ \/ UNCHANGED output
     \/ /\ Sinks[sink] = "grpc"
        /\ output' = [output EXCEPT ![sink] = Append(output[sink], InHand)]
     \/ /\ Sinks[sink] = "ndjson" /\ ~ EndsTorn(sink)
        /\ output' = [output EXCEPT ![sink] = Append(output[sink], TornLine)]
  /\ failures' = failures \union {InHand}
  /\ phase' = "idle" /\ alerts' = {} /\ sink' = 1
  /\ SinkFrame

\* println! and eprintln! panic when the descriptor cannot be written to.
StdoutPanics ==
  /\ phase \in {"event", "alert"} /\ Sinks[sink] = "stdout"
  /\ failures' = failures \union {InHand}
  /\ phase' = "panicked" /\ alerts' = {}
  /\ UNCHANGED <<sink, output>>
  /\ SinkFrame

-----------------------------------------------------------------------------
(* The rules and their alerts.                                             *)

\* rules.evaluate: one alert per enabled rule that matches, in rule order.
Evaluate ==
  /\ phase = "rules"
  /\ \E hits \in SUBSET {i \in DOMAIN RuleSeq : RuleSeq[i].enabled} :
       /\ Cardinality(hits) <= MaxHits
       /\ alerts' = hits
       /\ matched' = matched \union ({event} \X hits)
  /\ evaluated' = evaluated \union {event}
  /\ phase' = "alerts"
  /\ UNCHANGED <<options, event, sink, triaged, output, counters, suppressor,
                 begun, refused, failures>>

AlertFrame == UNCHANGED <<options, event, output, eventsTotal, begun, evaluated,
                          matched, failures>>

\* The rule asks for neither an alert nor triage.
Skip ==
  /\ phase = "alerts" /\ alerts # {}
  /\ ~ ShouldAlert(First) /\ ~ ShouldTriage(First)
  /\ alerts' = Others
  /\ UNCHANGED <<phase, sink, triaged, alertsTotal, suppressedTotal, suppressor, refused>>
  /\ AlertFrame

Key(i) == <<RuleSeq[i].id, Pid>>

Suppress ==
  /\ phase = "alerts" /\ alerts # {}
  /\ ShouldAlert(First)
  /\ Suppressor!Off(Key(First), event) \/ Suppressor!Deny(Key(First), event)
  /\ suppressedTotal' = suppressedTotal + 1
  /\ refused' = refused \union {<<event, First>>}
  /\ alerts' = Others
  /\ UNCHANGED <<phase, sink, triaged, alertsTotal>>
  /\ AlertFrame

\* Mutant of Export: an alert with a triage verdict is not counted.
ExportTriagedUncounted(hasTriage) ==
  /\ triaged' = hasTriage
  /\ IF ShouldAlert(First) \/ hasTriage
       THEN /\ alertsTotal' = alertsTotal + (IF hasTriage THEN 0 ELSE 1)
            /\ phase' = "alert" /\ sink' = 1 /\ UNCHANGED alerts
       ELSE /\ phase' = "alerts" /\ alerts' = Others
            /\ UNCHANGED <<alertsTotal, sink>>

\* What follows triage, or the lack of it: an alert to be exported is counted,
\* then given to the sinks.
Export(hasTriage) ==
  /\ triaged' = hasTriage
  /\ IF ShouldAlert(First) \/ hasTriage
       THEN /\ alertsTotal' = alertsTotal + 1
            /\ phase' = "alert" /\ sink' = 1 /\ UNCHANGED alerts
       ELSE /\ phase' = "alerts" /\ alerts' = Others
            /\ UNCHANGED <<alertsTotal, sink>>

\* Mutant of Pass: an alert that is triaged is not put to the suppressor.
PassTriagedUnlimited ==
  /\ phase = "alerts" /\ alerts # {}
  /\ ShouldAlert(First) \/ ShouldTriage(First)
  /\ IF ShouldAlert(First) /\ ~ ShouldTriage(First)
       THEN Suppressor!Grant(Key(First), event)
       ELSE UNCHANGED suppressor
  /\ IF triageEnabled /\ ShouldTriage(First)
       THEN phase' = "triage" /\ UNCHANGED <<triaged, alertsTotal, sink, alerts>>
       ELSE Export(FALSE)
  /\ UNCHANGED <<suppressedTotal, refused>>
  /\ AlertFrame

\* The alert is not suppressed; a rule that only asks for triage is not even
\* put to the suppressor.
Pass ==
  /\ phase = "alerts" /\ alerts # {}
  /\ ShouldAlert(First) \/ ShouldTriage(First)
  /\ IF ShouldAlert(First)
       THEN Suppressor!Grant(Key(First), event)
       ELSE UNCHANGED suppressor
  /\ IF triageEnabled /\ ShouldTriage(First)
       THEN phase' = "triage" /\ UNCHANGED <<triaged, alertsTotal, sink, alerts>>
       ELSE Export(FALSE)
  /\ UNCHANGED <<suppressedTotal, refused>>
  /\ AlertFrame

\* The call to the model answers, or fails, which is only logged.
Triage ==
  /\ phase = "triage"
  /\ \E ok \in BOOLEAN : Export(ok)
  /\ UNCHANGED <<suppressedTotal, suppressor, refused>>
  /\ AlertFrame

Done ==
  /\ phase = "alerts" /\ alerts = {}
  /\ phase' = "idle"
  /\ UNCHANGED <<sink, alerts, triaged, alertsTotal, suppressedTotal, suppressor, refused>>
  /\ AlertFrame

Process == \/ SinkTakes \/ SinkFails \/ StdoutPanics
           \/ Evaluate \/ Skip \/ Suppress \/ Pass \/ Triage \/ Done

\* The next event of the channel, at most MaxSkew behind one that overtook it.
NextEvent == \E e \in Events \ begun :
               (\A d \in begun : e + MaxSkew >= d) /\ Begin(e)

Next == NextEvent \/ Process

Spec == Init /\ [][Next]_vars

-----------------------------------------------------------------------------
\* What a sink took, the records a file has spoilt included.  A torn line is only
\* ever the last.
Taken(s) ==
  LET lines == IF EndsTorn(s) THEN Front(output[s]) ELSE output[s]
  IN  [n \in DOMAIN lines |->
         IF lines[n].type = "spoilt" THEN lines[n].record ELSE lines[n]]
SpoiltIn(s) == {r \in ToSet(output[s]) : r.type = "spoilt"}
AlertsIn(s) == {r \in ToSet(Taken(s)) : r.type = "alert"}
BetweenRecords == phase \in {"idle", "rules", "alerts", "triage", "panicked"}
FailuresOf(e) == {r \in failures : r.event = e}

\* No sink gets a record twice, and a sink was given nothing the sinks before it
\* were not, in no other order; it lacks of theirs only records some sink failed
\* on: emission stops at the first error.
LaterSinkIsSublog ==
  /\ \A s \in DOMAIN Sinks : IsInjective(Taken(s))
  /\ \A s, t \in DOMAIN Sinks : s < t =>
       LET first == Taken(s)  later == Taken(t) IN
       /\ \A m \in DOMAIN later : \E j \in DOMAIN first : first[j] = later[m]
       /\ \A m, n \in DOMAIN later : \A j, k \in DOMAIN first :
            m < n /\ first[j] = later[m] /\ first[k] = later[n] => j < k
       /\ BetweenRecords => ToSet(first) \ ToSet(later) \subseteq failures

\* A failed write costs a file the record it was for and at most the next one,
\* which is written on behind its torn line though the sink reports success.
FailureSpoilsOneRecord ==
  \A s \in DOMAIN Sinks :
    LET tears == Cardinality(SpoiltIn(s)) + (IF EndsTorn(s) THEN 1 ELSE 0)
    IN  /\ tears <= Cardinality(failures)
        /\ tears > 0 => Sinks[s] = "ndjson"

\* An alert a rule asked for is refused by the suppressor, or every sink takes it
\* (a file may spoil it, see above), or some sink failed while its event was
\* processed.
NoAlertLostSilently ==
  \A e \in Events, i \in DOMAIN RuleSeq :
    /\ <<e, i>> \in matched /\ ShouldAlert(i)
    /\ phase \notin {"idle", "panicked"} => e # event
    => \/ <<e, i>> \in refused
       \/ \A s \in DOMAIN Sinks : \E t \in BOOLEAN : AlertRecord(e, i, t) \in AlertsIn(s)
       \/ FailuresOf(e) # {}

\* The positions of the alerts under a rule id.
AlertsUnder(s, id) ==
  LET taken == Taken(s) IN
  {n \in DOMAIN taken : taken[n].type = "alert" /\ RuleSeq[taken[n].rule].id = id}

\* What a sink receives is rate limited like what the suppressor grants, for
\* every rule that asks for alerts: of an alert and one that is max_alerts or
\* more alerts behind it, the events are more than a window apart, short of the
\* skew.  No alert of such a rule goes round the suppressor.
ExportRateLimited ==
  \A s \in DOMAIN Sinks, i \in DOMAIN RuleSeq :
    LET id    == RuleSeq[i].id
        taken == Taken(s)
        own   == AlertsUnder(s, id)
    IN  ShouldAlert(i) =>
          \A m, n \in own :
            /\ m <= n
            /\ Cardinality({k \in own : m <= k /\ k < n}) >= Suppressor!Config(id).max_alerts
            => taken[m].event + Suppressor!Window(id) < taken[n].event + MaxSkew

\* The rules are evaluated on every event, but for one: an event some sink
\* failed on.  With --no-emit-events there is no exception.
DetectionSkippedOnlyOnFailure ==
  \A e \in begun \ evaluated :
    \/ e = event /\ phase \in {"event", "rules"}
    \/ emitEvents /\ EventRecord(e) \in failures

\* The alerts counter is never behind a sink, and ahead of it by the failures.
AlertsTotalBounds ==
  \A s \in DOMAIN Sinks :
    LET inHand == IF phase = "alert" THEN 1 ELSE 0
        failed == {r \in failures : r.type = "alert"}
    IN  /\ Cardinality(AlertsIn(s)) <= alertsTotal
        /\ alertsTotal <= Cardinality(AlertsIn(s)) + Cardinality(failed) + inHand

-----------------------------------------------------------------------------
(***************************************************************************)
(* Why they hold: the inductive invariant.                                 *)
(***************************************************************************)
Records == [type : {"event"}, event : Events] \union
           [type : {"alert"}, event : Events, rule : DOMAIN RuleSeq, triage : BOOLEAN]
Lines == Records \union {TornLine} \union {SpoiltLine(r) : r \in Records}

Writing == phase \in {"event", "alert"}

TypeOK ==
  /\ emitEvents \in BOOLEAN /\ triageEnabled \in BOOLEAN
  /\ phase \in {"idle", "event", "rules", "alerts", "triage", "alert", "panicked"}
  /\ event \in 0..MaxEvents /\ sink \in DOMAIN Sinks
  /\ alerts \subseteq DOMAIN RuleSeq /\ triaged \in BOOLEAN
  /\ output \in [DOMAIN Sinks -> Seq(Lines)]
  /\ eventsTotal \in Nat /\ alertsTotal \in Nat /\ suppressedTotal \in Nat
  /\ begun \subseteq Events /\ evaluated \subseteq begun
  /\ matched \subseteq evaluated \X DOMAIN RuleSeq
  /\ failures \subseteq Records /\ IsFiniteSet(failures)
  /\ phase # "idle" => event \in begun
  /\ phase \in {"triage", "alert"} => alerts # {}

\* Only a file has lines that are no record, a torn one at its end only.
LinesOK ==
  \A s \in DOMAIN Sinks : \A n \in DOMAIN output[s] :
    /\ output[s][n] \notin Records => Sinks[s] = "ndjson"
    /\ output[s][n] = TornLine => n = Len(output[s])

\* What no sink has been given yet.
Outstanding(r) ==
  \/ r.event \notin begun
  \/ /\ r.event = event
     /\ \/ phase = "event"
        \/ phase = "rules" /\ r.type = "alert"
        \/ phase \in {"alerts", "triage", "alert"} /\ r.type = "alert" /\ r.rule \in alerts

\* But for the record in hand, which the sinks before the current one have, as
\* their last.
GivenOnce ==
  /\ \A r \in failures : ~ Outstanding(r)
  /\ \A s \in DOMAIN Sinks :
       /\ IsFiniteSet(ToSet(Taken(s)))
       /\ \A r \in ToSet(Taken(s)) : Outstanding(r) => Writing /\ s < sink /\ r = InHand
       /\ Writing /\ s < sink => Taken(s) # <<>> /\ Last(Taken(s)) = InHand

\* LaterSinkIsSublog in the middle of a record.
SublogInv ==
  /\ \A s \in DOMAIN Sinks : IsInjective(Taken(s))
  /\ \A s, t \in DOMAIN Sinks : s < t =>
       /\ \A m \in DOMAIN Taken(t) : \E j \in DOMAIN Taken(s) : Taken(s)[j] = Taken(t)[m]
       /\ \A m, n \in DOMAIN Taken(t) : \A j, k \in DOMAIN Taken(s) :
            m < n /\ Taken(s)[j] = Taken(t)[m] /\ Taken(s)[k] = Taken(t)[n] => j < k
       /\ ToSet(Taken(s)) \ ToSet(Taken(t)) \subseteq
            failures \union (IF Writing /\ s < sink /\ sink <= t THEN {InHand} ELSE {})

\* The alert in hand is counted before the sinks have it.
Owed(s) == IF phase = "alert" /\ sink <= s THEN 1 ELSE 0

CountInv ==
  \A s \in DOMAIN Sinks :
    /\ Cardinality(AlertsIn(s)) + Owed(s) <= alertsTotal
    /\ alertsTotal <= Cardinality(AlertsIn(s)) + Cardinality({r \in failures : r.type = "alert"})
                        + Owed(s)

TearInv ==
  \A s \in DOMAIN Sinks :
    /\ IsFiniteSet(SpoiltIn(s))
    /\ Cardinality(SpoiltIn(s)) + (IF EndsTorn(s) THEN 1 ELSE 0) <= Cardinality(failures)

\* An alert a rule asked for is still to come, in hand, or has met its end.
LossInv ==
  \A e \in Events, i \in DOMAIN RuleSeq :
    <<e, i>> \in matched /\ ShouldAlert(i) =>
      \/ <<e, i>> \in refused
      \/ \A s \in DOMAIN Sinks : \E t \in BOOLEAN : AlertRecord(e, i, t) \in ToSet(Taken(s))
      \/ FailuresOf(e) # {}
      \/ e = event /\ phase \in {"alerts", "triage", "alert"} /\ i \in alerts

\* The alerts under an id that asks for alerts are some of its grants, in order;
\* the grant of the alert in hand is the last, and none of them.
GrantAhead(s, id) ==
  /\ phase = "triage" \/ (phase = "alert" /\ sink <= s)
  /\ ShouldAlert(First) /\ RuleSeq[First].id = id

Embeds(f, s, id) ==
  LET grants == granted[<<id, Pid>>] IN
  /\ \A n \in AlertsUnder(s, id) : grants[f[n]] = Taken(s)[n].event
  /\ \A m, n \in AlertsUnder(s, id) : m < n => f[m] < f[n]
  /\ GrantAhead(s, id) => /\ grants # <<>> /\ Last(grants) = event
                          /\ \A n \in AlertsUnder(s, id) : f[n] < Len(grants)

GrantInv ==
  \A s \in DOMAIN Sinks, i \in DOMAIN RuleSeq : ShouldAlert(i) =>
    LET id == RuleSeq[i].id IN
    \E f \in [AlertsUnder(s, id) -> DOMAIN granted[<<id, Pid>>]] : Embeds(f, s, id)

DispatchInv ==
  /\ TypeOK /\ LinesOK /\ GivenOnce /\ SublogInv /\ CountInv /\ TearInv /\ LossInv
  /\ Suppressor!IInv /\ GrantInv

-----------------------------------------------------------------------------
\* README.md: "enriched events are evaluated against YAML/Sigma rules".
EveryEventEvaluated == phase = "idle" => begun = evaluated

\* README.md: "matches pass through suppression and optional Claude triage
\* before alert export".
EveryExportPassedSuppression ==
  \A s \in DOMAIN Sinks : \A r \in AlertsIn(s) :
    r.event \in ToSet(granted[Key(r.rule)])
=============================================================================
