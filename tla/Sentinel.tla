------------------------------ MODULE Sentinel ------------------------------
(***************************************************************************)
(* The agent: the transport of the records (Transport), process_event      *)
(* (Dispatch) and the main loop that joins them (sentinel/src/main.rs).    *)
(* The main loop awaits the next event or ctrl_c, and looks at neither     *)
(* while it processes an event.  On shutdown it flushes the sinks, drops   *)
(* its end of the channel and the probes; the runtime then waits for the   *)
(* consumer thread before the process can exit.                            *)
(***************************************************************************)
EXTENDS Integers, Sequences, FiniteSets, SequencesExt

CONSTANTS Cpus, RingCap, ChannelCap, MaxEvents, MaxHits,
          RuleSeq, Sinks, PerRule, Default, NanosPerSec, U64Max, MaxSkew

VARIABLES
  now, scratch, ring, consumer, channel, rxOpen, attached, sameLayout,
  parseErrors, written, dropped, delivered,
  emitEvents, triageEnabled, phase, event, sink, alerts, triaged, output,
  eventsTotal, alertsTotal, suppressedTotal,
  buckets, suppressed, clock, granted, lastCall,
  begun, evaluated, matched, refused, failures,
  main,      \* where main() is: "loop", "flushing", "closing", "detaching",
             \* "joining" or "exited"
  signalled  \* ctrl_c has fired

Transport == INSTANCE Transport
Dispatch == INSTANCE Dispatch

\* What the parts assume of the constants.
ASSUME SentinelAssumption ==
  /\ Transport!CapacityAssumption
  /\ Dispatch!DispatchAssumption /\ Dispatch!LimitAssumption

transportVars == <<now, scratch, ring, consumer, channel, rxOpen, attached,
                   sameLayout, parseErrors, written, dropped, delivered>>
dispatchVars == <<emitEvents, triageEnabled, phase, event, sink, alerts, triaged,
                  output, eventsTotal, alertsTotal, suppressedTotal,
                  buckets, suppressed, clock, granted, lastCall,
                  begun, evaluated, matched, refused, failures>>
mainVars == <<main, signalled>>
vars == <<transportVars, dispatchVars, mainVars>>

Init == /\ Transport!Init /\ Dispatch!Init
        /\ main = "loop" /\ signalled = FALSE

Probe == /\ \E cpu \in Cpus : Transport!Stamp(cpu) \/ Transport!Output(cpu)
         /\ UNCHANGED <<dispatchVars, mainVars>>

\* The consumer thread outlives main's loop, but not the process.
Consumer == /\ main # "exited"
            /\ Transport!Consume
            /\ UNCHANGED <<dispatchVars, mainVars>>

\* SIGINT, once the handler is registered by the first poll of ctrl_c.
Signal == /\ main = "loop" /\ consumer # "starting"
          /\ ~ signalled /\ signalled' = TRUE
          /\ UNCHANGED <<transportVars, dispatchVars, main>>

\* Mutant of Receive: after the signal the channel is drained without processing.
ReceiveAndDrain == /\ main = "loop" /\ phase = "idle"
                   /\ Transport!Recv
                   /\ IF signalled THEN UNCHANGED dispatchVars
                                   ELSE Dispatch!Begin(Head(channel))
                   /\ UNCHANGED mainVars

\* select!: the next event ...
Receive == /\ main = "loop" /\ phase = "idle"
           /\ Transport!Recv
           /\ Dispatch!Begin(Head(channel))
           /\ UNCHANGED mainVars

\* ... or ctrl_c.  When both are ready select! picks one at random.
ShutDown == /\ main = "loop" /\ phase = "idle"
            /\ signalled
            /\ main' = "flushing"
            /\ UNCHANGED <<transportVars, dispatchVars, signalled>>

\* An error of process_event is logged, and the loop goes on.
Process == /\ main = "loop"
           /\ Dispatch!Process
           /\ UNCHANGED <<transportVars, mainVars>>

\* Mutant of Unwind: the panic goes unnoticed.
UnwindUnnoticed == /\ main = "loop" /\ phase = "panicked"
                   /\ UNCHANGED vars

\* A panic unwinds main, past the flush.
Unwind == /\ main = "loop" /\ phase = "panicked"
          /\ main' = "closing"
          /\ UNCHANGED <<transportVars, dispatchVars, signalled>>

\* sinks.flush(): an error makes main return it instead of Ok.
Flush == /\ main = "flushing"
         /\ main' = "closing"
         /\ UNCHANGED <<transportVars, dispatchVars, signalled>>

DropReceiver == /\ main = "closing" /\ main' = "detaching"
                /\ Transport!CloseRx
                /\ UNCHANGED <<dispatchVars, signalled>>

DropLoader == /\ main = "detaching" /\ main' = "joining"
              /\ Transport!Detach
              /\ UNCHANGED <<dispatchVars, signalled>>

\* The runtime waits for its blocking threads.
Exit == /\ main = "joining" /\ consumer = "returned"
        /\ main' = "exited"
        /\ UNCHANGED <<transportVars, dispatchVars, signalled>>

Return == Unwind \/ Flush \/ DropReceiver \/ DropLoader \/ Exit

Next == Probe \/ Consumer \/ Signal \/ Receive \/ ShutDown \/ Process \/ Return

Spec == Init /\ [][Next]_vars

\* Triage and the gRPC sink wait for another host, and neither has a timeout.
AtRemoteCall == /\ main = "loop"
                /\ \/ phase = "triage"
                   \/ phase \in {"event", "alert"} /\ Sinks[sink] = "grpc"

\* Threads that can run do run, and select! does not pass over a branch that
\* is ready again and again; a remote call need not ever return.
FairSpec == /\ Spec
            /\ WF_vars(Consumer) /\ WF_vars(Receive) /\ WF_vars(Return)
            /\ WF_vars(~ AtRemoteCall /\ Process)
            /\ SF_vars(ShutDown)

-----------------------------------------------------------------------------
Waiting == channel \o Transport!Pending

\* The counters of the metrics account for every record the ring took: it is
\* counted as an event, counted as unreadable, or still on its way; what main
\* leaves behind when it shuts down is counted nowhere.
CountersAccountForRing ==
  LET counted == eventsTotal + parseErrors + Len(Waiting) IN
  IF rxOpen THEN counted = Len(written) ELSE counted <= Len(written)

\* From the ring through two queues, two threads and a row of sinks that fail
\* at will, what a sink takes is in ring order: of no event twice the record, and
\* the record ahead of the alerts.
SinksInRingOrder ==
  \A s \in DOMAIN Sinks :
    LET taken == Dispatch!Taken(s) IN
    /\ \A n \in DOMAIN taken : taken[n].event \in ToSet(written)
    /\ \A m, n \in DOMAIN taken : \A j, k \in DOMAIN written :
         m < n /\ written[j] = taken[m].event /\ written[k] = taken[n].event =>
           j < k \/ (j = k /\ taken[n].type = "alert")

\* No record that entered the ring is forgotten while the main loop runs: the
\* rules see it, or a sink fails on it, unless a remote call never returns.
EventuallyDetected ==
  \A e \in 1..MaxEvents :
    (e \in ToSet(written) /\ sameLayout) ~>
      \/ e \in evaluated \/ Dispatch!EventRecord(e) \in failures
      \/ main # "loop" \/ []AtRemoteCall

\* ctrl_c ends the main loop, however many events keep coming, unless a remote
\* call never returns: the loop does not look at the signal during an event.
SignalEndsLoop == signalled ~> (main # "loop" \/ []AtRemoteCall)

\* The process exits, unless the consumer thread finds the ring empty for ever:
\* the probes are gone, and only a further record would show it the closed
\* channel.  That is the way a shutdown can hang.
ExitsUnlessRingEmpty ==
  (main = "joining" /\ sameLayout) ~> (main = "exited" \/ [](Transport!Pending = <<>>))

-----------------------------------------------------------------------------
(* Why the invariants hold: the inductive invariant.                       *)

\* What the transport hands over and what process_event takes up is the same.
HandedOver ==
  /\ eventsTotal = Len(delivered) /\ begun = ToSet(delivered)
  /\ phase # "idle" => delivered # <<>> /\ event = Last(delivered)
  /\ sameLayout => parseErrors = 0

\* SinksInRingOrder, of the events received.
TakenInOrder ==
  \A s \in DOMAIN Sinks :
    LET taken == Dispatch!Taken(s) IN
    /\ \A n \in DOMAIN taken : taken[n].event \in ToSet(delivered)
    /\ \A m, n \in DOMAIN taken : \A j, k \in DOMAIN delivered :
         m < n /\ delivered[j] = taken[m].event /\ delivered[k] = taken[n].event =>
           j < k \/ (j = k /\ taken[n].type = "alert")

SentinelInv ==
  /\ Transport!IInv /\ Dispatch!DispatchInv
  /\ HandedOver /\ TakenInOrder
=============================================================================
