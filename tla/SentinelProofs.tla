--------------------------- MODULE SentinelProofs ---------------------------
(***************************************************************************)
(* The agent, for any number of CPUs, any queues, rules and sinks: no      *)
(* record is counted twice or not at all between the ring and the counters,*)
(* and every sink takes what it takes in the order of the ring.            *)
(*                                                                         *)
(* The parts have been proved about on their own.  TP and DP are their     *)
(* proof modules over the agent's state; the first section says that these *)
(* speak of the operators the agent is built from.                         *)
(***************************************************************************)
EXTENDS Sentinel, SequenceTheorems, TLAPS

TP == INSTANCE TransportProofs
DP == INSTANCE DispatchProofs

-----------------------------------------------------------------------------
(* The parts of the agent and of the proofs are the same.                  *)

LEMMA PartAssumptions ==
  TP!CapacityAssumption /\ DP!DispatchAssumption /\ DP!LimitAssumption
<1>1. TP!CapacityAssumption
  BY SentinelAssumption DEF Transport!CapacityAssumption, TP!CapacityAssumption
<1>2. DP!DispatchAssumption
  BY SentinelAssumption
     DEF Dispatch!DispatchAssumption, DP!DispatchAssumption, Dispatch!RuleIds, DP!RuleIds
<1>3. DP!LimitAssumption
  BY SentinelAssumption
     DEF Dispatch!LimitAssumption, DP!LimitAssumption, Dispatch!RuleIds, DP!RuleIds
<1> QED
  BY <1>1, <1>2, <1>3

LEMMA SameSequences ==
  ASSUME NEW f
  PROVE  /\ Transport!ToSet(f) = ToSet(f) /\ TP!ToSet(f) = ToSet(f)
         /\ Dispatch!ToSet(f) = ToSet(f) /\ DP!ToSet(f) = ToSet(f)
         /\ Transport!IsInjective(f) = IsInjective(f) /\ TP!IsInjective(f) = IsInjective(f)
         /\ Dispatch!IsInjective(f) = IsInjective(f) /\ DP!IsInjective(f) = IsInjective(f)
         /\ Dispatch!Last(f) = Last(f) /\ DP!Last(f) = Last(f)
  BY DEF ToSet, Transport!ToSet, TP!ToSet, Dispatch!ToSet, DP!ToSet,
     IsInjective, Transport!IsInjective, TP!IsInjective, Dispatch!IsInjective,
     DP!IsInjective, Last, Dispatch!Last, DP!Last

LEMMA SameSets ==
  /\ \A S : Dispatch!Cardinality(S) = DP!Cardinality(S)
  /\ \A S : Dispatch!IsFiniteSet(S) <=> DP!IsFiniteSet(S)
  BY DEF Dispatch!Cardinality, DP!Cardinality, Dispatch!IsFiniteSet, DP!IsFiniteSet

LEMMA SameTransportSteps ==
  /\ Transport!Init <=> TP!Init
  /\ \A cpu \in Cpus : Transport!Stamp(cpu) \/ Transport!Output(cpu)
                        <=> TP!Stamp(cpu) \/ TP!Output(cpu)
  /\ Transport!Consume <=> TP!Consume
  /\ Transport!Recv <=> TP!Recv
  /\ Transport!CloseRx <=> TP!CloseRx
  /\ Transport!Detach <=> TP!Detach
  BY DEF Transport!Init, TP!Init, Transport!NoRecord, TP!NoRecord,
     Transport!Stamp, TP!Stamp, Transport!Output, TP!Output,
     Transport!Consume, TP!Consume, Transport!ConsumerFrame, TP!ConsumerFrame,
     Transport!Start, TP!Start, Transport!Parse, TP!Parse, Transport!Reject, TP!Reject,
     Transport!Send, TP!Send, Transport!SendFails, TP!SendFails,
     Transport!Release, TP!Release, Transport!Sleep, TP!Sleep, Transport!Wake, TP!Wake,
     Transport!Recv, TP!Recv, Transport!CloseRx, TP!CloseRx, Transport!Detach, TP!Detach

LEMMA SamePending == Transport!Pending = TP!Pending
  BY DEF Transport!Pending, TP!Pending

LEMMA SameTransportInv == Transport!IInv <=> TP!IInv
<1>1. Transport!TypeOK <=> TP!TypeOK
  BY DEF Transport!TypeOK, TP!TypeOK, Transport!Records, TP!Records,
     Transport!NoRecord, TP!NoRecord, Transport!ConsumerStates, TP!ConsumerStates
<1>2. Transport!AcceptedInOrder <=> TP!AcceptedInOrder
  BY SamePending DEF Transport!AcceptedInOrder, TP!AcceptedInOrder,
     Transport!SubSeqs, TP!SubSeqs
<1>3. Transport!EveryRecordAccounted <=> TP!EveryRecordAccounted
  BY SameSequences DEF Transport!EveryRecordAccounted, TP!EveryRecordAccounted,
     Transport!InFlight, TP!InFlight, Transport!NoRecord, TP!NoRecord
<1>4. /\ Transport!Capacities <=> TP!Capacities
      /\ Transport!ScratchDistinct <=> TP!ScratchDistinct
      /\ Transport!UnreadableCounted <=> TP!UnreadableCounted
      /\ Transport!ReadableInHand <=> TP!ReadableInHand
      /\ Transport!ClosedIsEmpty <=> TP!ClosedIsEmpty
  BY DEF Transport!Capacities, TP!Capacities, Transport!ScratchDistinct, TP!ScratchDistinct,
     Transport!UnreadableCounted, TP!UnreadableCounted, Transport!ReadableInHand,
     TP!ReadableInHand, Transport!ClosedIsEmpty, TP!ClosedIsEmpty,
     Transport!NoRecord, TP!NoRecord
<1> QED
  BY <1>1, <1>2, <1>3, <1>4 DEF Transport!IInv, TP!IInv

LEMMA SameCalls ==
  ASSUME NEW key, NEW ts
  PROVE
  /\ Dispatch!Suppressor!Grant(key, ts) <=> DP!Suppressor!Grant(key, ts)
  /\ Dispatch!Suppressor!Deny(key, ts) <=> DP!Suppressor!Deny(key, ts)
  /\ Dispatch!Suppressor!Off(key, ts) <=> DP!Suppressor!Off(key, ts)
BY DEF Dispatch!Suppressor!Grant, DP!Suppressor!Grant,
  Dispatch!Suppressor!Deny, DP!Suppressor!Deny,
  Dispatch!Suppressor!Off, DP!Suppressor!Off,
  Dispatch!Suppressor!Limit, DP!Suppressor!Limit,
  Dispatch!Suppressor!Config, DP!Suppressor!Config,
  Dispatch!Suppressor!SatMul, DP!Suppressor!SatMul,
  Dispatch!Suppressor!SatSub, DP!Suppressor!SatSub,
  Dispatch!Suppressor!Called, DP!Suppressor!Called,
  Dispatch!Suppressor!Expires, DP!Suppressor!Expires,
  Dispatch!Suppressor!Kept, DP!Suppressor!Kept

LEMMA SameHelpers ==
  /\ Dispatch!First = DP!First
  /\ Dispatch!Others = DP!Others
  /\ Dispatch!InHand = DP!InHand
  /\ \A s : Dispatch!EndsTorn(s) <=> DP!EndsTorn(s)
  /\ \A s : Dispatch!Taken(s) = DP!Taken(s)
  /\ \A s, r : Dispatch!Written(s, r) = DP!Written(s, r)
  /\ \A i : Dispatch!ShouldAlert(i) <=> DP!ShouldAlert(i)
  /\ \A i : Dispatch!ShouldTriage(i) <=> DP!ShouldTriage(i)
  /\ \A i : Dispatch!Key(i) = DP!Key(i)
  BY DEF Dispatch!First, DP!First, Dispatch!Others, DP!Others, Dispatch!InHand, DP!InHand,
    Dispatch!EndsTorn, DP!EndsTorn, Dispatch!Taken, DP!Taken, Dispatch!Written, DP!Written,
    Dispatch!ShouldAlert, DP!ShouldAlert, Dispatch!ShouldTriage, DP!ShouldTriage, Dispatch!Key, DP!Key,
    Dispatch!Pid, DP!Pid, Dispatch!FirstWith, DP!FirstWith, Dispatch!Min, DP!Min, Dispatch!Last, DP!Last,
    Dispatch!Front, DP!Front, Dispatch!TornLine, DP!TornLine, Dispatch!SpoiltLine, DP!SpoiltLine,
    Dispatch!EventRecord, DP!EventRecord, Dispatch!AlertRecord, DP!AlertRecord

LEMMA SameInit == Dispatch!Init <=> DP!Init
  BY DEF Dispatch!Init, DP!Init, Dispatch!Suppressor!Init, DP!Suppressor!Init, 
     Dispatch!Suppressor!Keys, DP!Suppressor!Keys, Dispatch!RuleIds, DP!RuleIds,
     Dispatch!Pid, DP!Pid

LEMMA SameBegin == \A e : Dispatch!Begin(e) <=> DP!Begin(e)
  BY DEF Dispatch!Begin, DP!Begin, Dispatch!options, DP!options, Dispatch!suppressor, DP!suppressor

LEMMA SameExport == \A t : Dispatch!Export(t) <=> DP!Export(t)
  BY SameHelpers DEF Dispatch!Export, DP!Export

LEMMA SameProcess == Dispatch!Process <=> DP!Process
<1> USE DEF 
     Dispatch!SinkFrame, DP!SinkFrame, Dispatch!AlertFrame, DP!AlertFrame, 
     Dispatch!options, DP!options, Dispatch!suppressor, DP!suppressor, Dispatch!counters, DP!counters,
     Dispatch!TornLine, DP!TornLine 
<1>1. Dispatch!SinkTakes <=> DP!SinkTakes
  BY SameHelpers DEF Dispatch!SinkTakes, DP!SinkTakes
<1>2. Dispatch!SinkFails <=> DP!SinkFails
  BY SameHelpers DEF Dispatch!SinkFails, DP!SinkFails
<1>3. Dispatch!StdoutPanics <=> DP!StdoutPanics
  BY SameHelpers DEF Dispatch!StdoutPanics, DP!StdoutPanics
<1>4. Dispatch!Evaluate <=> DP!Evaluate
  BY SameSets DEF Dispatch!Evaluate, DP!Evaluate
<1>5. Dispatch!Skip <=> DP!Skip
  BY SameHelpers DEF Dispatch!Skip, DP!Skip
<1>6. Dispatch!Suppress <=> DP!Suppress
  BY SameHelpers, SameCalls DEF Dispatch!Suppress, DP!Suppress
<1>7. Dispatch!Pass <=> DP!Pass
  BY SameHelpers, SameCalls, SameExport DEF Dispatch!Pass, DP!Pass
<1>8. Dispatch!Triage <=> DP!Triage
  BY SameHelpers, SameExport DEF Dispatch!Triage, DP!Triage
<1>9. Dispatch!Done <=> DP!Done
  BY SameHelpers DEF Dispatch!Done, DP!Done
<1> QED
  BY <1>1, <1>2, <1>3, <1>4, <1>5, <1>6, <1>7, <1>8, <1>9 DEF Dispatch!Process, DP!Process

LEMMA SameSuppressorInv == Dispatch!Suppressor!IInv <=> DP!Suppressor!IInv
  BY DEF Dispatch!Suppressor!IInv, Dispatch!Suppressor!TypeOK, Dispatch!Suppressor!BucketIsTail,
     Dispatch!Suppressor!BucketBounded, Dispatch!Suppressor!GrantsSkewed, Dispatch!Suppressor!ForgottenExpired,
     Dispatch!Suppressor!RateLimited, Dispatch!Suppressor!DeniedOnlyWhenBusy, Dispatch!Suppressor!Forgotten,
     Dispatch!Suppressor!Keys, Dispatch!Suppressor!Outcomes, Dispatch!Suppressor!Window, Dispatch!Suppressor!Config,
     Dispatch!RuleIds, DP!RuleIds, Dispatch!Pid, DP!Pid, Dispatch!Events, DP!Events,
     DP!Suppressor!IInv, DP!Suppressor!TypeOK, DP!Suppressor!BucketIsTail,
     DP!Suppressor!BucketBounded, DP!Suppressor!GrantsSkewed, DP!Suppressor!ForgottenExpired,
     DP!Suppressor!RateLimited, DP!Suppressor!DeniedOnlyWhenBusy, DP!Suppressor!Forgotten,
     DP!Suppressor!Keys, DP!Suppressor!Outcomes, DP!Suppressor!Window, DP!Suppressor!Config

LEMMA SameDispatchInv == Dispatch!DispatchInv <=> DP!DispatchInv
<1>1. /\ Dispatch!Records = DP!Records /\ Dispatch!Lines = DP!Lines
  BY DEF Dispatch!Records, DP!Records, Dispatch!Lines, DP!Lines, Dispatch!Events, DP!Events,
     Dispatch!TornLine, DP!TornLine, Dispatch!SpoiltLine, DP!SpoiltLine
<1>2. /\ \A S : Dispatch!IsFiniteSet(S) <=> DP!IsFiniteSet(S)
      /\ \A f : Dispatch!ToSet(f) = DP!ToSet(f)
      /\ \A f : Dispatch!IsInjective(f) = DP!IsInjective(f)
      /\ \A f : Dispatch!Last(f) = DP!Last(f)
  BY DEF Dispatch!IsFiniteSet, DP!IsFiniteSet, Dispatch!ToSet, DP!ToSet,
    Dispatch!IsInjective, DP!IsInjective, Dispatch!Last, DP!Last
<1>3. Dispatch!TypeOK <=> DP!TypeOK
  BY <1>1, <1>2 DEF Dispatch!TypeOK, DP!TypeOK, Dispatch!Events, DP!Events
<1>4. Dispatch!LinesOK <=> DP!LinesOK
  BY <1>1 DEF Dispatch!LinesOK, DP!LinesOK, Dispatch!TornLine, DP!TornLine
<1>5. /\ \A r : Dispatch!Outstanding(r) <=> DP!Outstanding(r)
      /\ Dispatch!Writing <=> DP!Writing
  BY DEF Dispatch!Outstanding, DP!Outstanding, Dispatch!Writing, DP!Writing
<1>6. Dispatch!GivenOnce <=> DP!GivenOnce
  BY <1>2, <1>5, SameHelpers DEF Dispatch!GivenOnce, DP!GivenOnce
<1>7. Dispatch!SublogInv <=> DP!SublogInv
  BY <1>2, <1>5, SameHelpers DEF Dispatch!SublogInv, DP!SublogInv
<1>8. Dispatch!CountInv <=> DP!CountInv
  BY <1>2, SameHelpers, SameSets DEF Dispatch!CountInv, DP!CountInv, Dispatch!Owed, DP!Owed, 
     Dispatch!AlertsIn, DP!AlertsIn
<1>9. Dispatch!TearInv <=> DP!TearInv
  BY <1>2, SameHelpers, SameSets DEF Dispatch!TearInv, DP!TearInv, 
     Dispatch!SpoiltIn, DP!SpoiltIn
<1>10. Dispatch!LossInv <=> DP!LossInv
  BY <1>2, SameHelpers DEF Dispatch!LossInv, DP!LossInv, Dispatch!Events, DP!Events,
    Dispatch!AlertRecord, DP!AlertRecord, Dispatch!FailuresOf, DP!FailuresOf
<1>11. Dispatch!GrantInv <=> DP!GrantInv
  BY DEF Dispatch!GrantInv, DP!GrantInv, Dispatch!Embeds, DP!Embeds,
     Dispatch!GrantAhead, DP!GrantAhead, Dispatch!AlertsUnder, DP!AlertsUnder,
     Dispatch!Pid, DP!Pid, Dispatch!First, DP!First, Dispatch!Min, DP!Min,
     Dispatch!ShouldAlert, DP!ShouldAlert, Dispatch!FirstWith, DP!FirstWith,
     Dispatch!Taken, DP!Taken, Dispatch!EndsTorn, DP!EndsTorn, Dispatch!TornLine,
     DP!TornLine, Dispatch!Last, DP!Last, Dispatch!Front, DP!Front
<1> QED
  BY <1>3, <1>4, <1>6, <1>7, <1>8, <1>9, <1>10, <1>11, SameSuppressorInv DEF Dispatch!DispatchInv, DP!DispatchInv

-----------------------------------------------------------------------------
(* What the transport says of the records received.                        *)

\* What has been received is the front of what was written.
LEMMA ReceivedIsFront ==
  ASSUME Transport!IInv
  PROVE  /\ delivered \in Seq(Nat) /\ written \in Seq(Nat) /\ channel \in Seq(Nat)
         /\ Len(delivered) <= Len(written)
         /\ \A j \in 1..Len(delivered) : delivered[j] = written[j]
         /\ channel # <<>> /\ rxOpen => /\ Len(delivered) < Len(written)
                                        /\ Head(channel) = written[Len(delivered) + 1]
<1> DEFINE R == TP!Records
           pending == TP!Pending
<1>1. /\ delivered \in Seq(R) /\ written \in Seq(R) /\ channel \in Seq(R)
      /\ pending \in Seq(R)
  BY SameTransportInv, PartAssumptions, TP!PendingType DEF TP!IInv, TP!TypeOK
<1>2. delivered \in Seq(Nat) /\ written \in Seq(Nat) /\ channel \in Seq(Nat)
  <2>1. R \subseteq Nat
    BY DEF TP!Records, TP!NoRecord
  <2> HIDE DEF R
  <2>2. ASSUME NEW f \in Seq(R) PROVE f \in Seq(Nat)
    <3>1. Len(f) \in Nat /\ f \in [1..Len(f) -> R]
      OBVIOUS
    <3>2. f \in [1..Len(f) -> Nat]
      BY <2>1, <3>1
    <3> QED
      BY <3>1, <3>2, SeqDef
  <2> QED
    BY <1>1, <2>2
<1>3. ASSUME NEW t \in Seq(R), written = delivered \o t \o pending
      PROVE  /\ Len(delivered) <= Len(written)
             /\ \A j \in 1..Len(delivered) : delivered[j] = written[j]
             /\ t # <<>> => /\ Len(delivered) < Len(written)
                            /\ Head(t) = written[Len(delivered) + 1]
  <2> HIDE DEF R, pending
  <2>1. /\ Len(delivered) \in Nat /\ Len(t) \in Nat /\ Len(pending) \in Nat
        /\ t # <<>> => Len(t) > 0 /\ Head(t) = t[1]
    BY <1>1
  <2>2. /\ delivered \o t \in Seq(R) /\ Len(delivered \o t) = Len(delivered) + Len(t)
        /\ \A j \in 1..Len(delivered) : (delivered \o t)[j] = delivered[j]
        /\ t # <<>> => (delivered \o t)[Len(delivered) + 1] = t[1]
    BY <1>1, <2>1
  <2> DEFINE u == delivered \o t
  <2>3. u \in Seq(R) /\ written = u \o pending
    BY <1>3, <2>2
  <2> HIDE DEF u
  <2>4. /\ Len(written) = Len(u) + Len(pending)
        /\ \A j \in 1..Len(u) : written[j] = u[j]
    BY <1>1, <2>3
  <2> QED
    BY <2>1, <2>2, <2>4 DEF u
<1> HIDE DEF R
<1>4. CASE sameLayout /\ rxOpen
  <2>1. written = delivered \o channel \o pending
    BY <1>4, SameTransportInv DEF TP!IInv, TP!AcceptedInOrder
  <2> QED
    BY <1>1, <1>2, <1>3, <2>1
<1>5. CASE sameLayout /\ ~ rxOpen
  <2>1. PICK gone \in TP!SubSeqs(written) : written = delivered \o gone \o pending
    BY <1>5, SameTransportInv DEF TP!IInv, TP!AcceptedInOrder
  <2>2. gone \in Seq(R)
    BY <1>1, PartAssumptions, TP!SubSeqsType
  <2> QED
    BY <1>1, <1>2, <1>3, <1>5, <2>1, <2>2
<1>6. CASE ~ sameLayout
  <2>1. delivered = <<>> /\ channel = <<>>
    BY <1>6, SameTransportInv DEF TP!IInv, TP!UnreadableCounted
  <2> QED
    BY <1>1, <1>2, <2>1
<1> QED
  BY <1>4, <1>5, <1>6 DEF Transport!IInv, Transport!TypeOK

LEMMA WrittenOnce ==
  ASSUME Transport!IInv
  PROVE  /\ IsInjective(written) /\ ToSet(written) \subseteq 1..MaxEvents
         /\ \A j \in DOMAIN delivered : \A k \in DOMAIN written :
              delivered[j] = written[k] => k = j
         /\ ToSet(delivered) \subseteq ToSet(written) /\ IsInjective(delivered)
<1>1. TP!EveryRecordAccounted /\ now \in Nat /\ now <= MaxEvents /\ MaxEvents \in Nat
  BY SameTransportInv, PartAssumptions DEF TP!IInv, TP!TypeOK, TP!CapacityAssumption
<1>2. IsInjective(written) /\ ToSet(written) \subseteq 1..MaxEvents
  <2>1. IsInjective(written) /\ ToSet(written) \subseteq 1..now
    BY <1>1, SameSequences DEF TP!EveryRecordAccounted
  <2> QED
    BY <1>1, <2>1
<1>3. /\ DOMAIN delivered = 1..Len(delivered) /\ DOMAIN written = 1..Len(written)
      /\ Len(delivered) \in Nat /\ Len(written) \in Nat
  BY ReceivedIsFront
<1>4. \A j \in DOMAIN delivered : j \in DOMAIN written /\ delivered[j] = written[j]
  BY <1>3, ReceivedIsFront
<1>5. \A j \in DOMAIN delivered : \A k \in DOMAIN written :
        delivered[j] = written[k] => k = j
  BY <1>2, <1>4 DEF IsInjective
<1>6. ToSet(delivered) \subseteq ToSet(written)
  BY <1>4 DEF ToSet
<1>7. IsInjective(delivered)
  BY <1>4, <1>5 DEF IsInjective
<1> QED
  BY <1>2, <1>5, <1>6, <1>7

\* The next record of the channel is one process_event has not seen.
LEMMA NextIsNew ==
  ASSUME Transport!IInv, rxOpen, channel # <<>>
  PROVE  Head(channel) \in (1..MaxEvents) \ ToSet(delivered)
<1>1. /\ Len(delivered) \in Nat /\ Len(written) \in Nat
      /\ DOMAIN delivered = 1..Len(delivered) /\ DOMAIN written = 1..Len(written)
      /\ Len(delivered) < Len(written)
      /\ Head(channel) = written[Len(delivered) + 1]
  BY ReceivedIsFront
<1>2. Len(delivered) + 1 \in DOMAIN written
  BY <1>1
<1>3. Head(channel) \in ToSet(written)
  BY <1>1, <1>2 DEF ToSet
<1>4. ASSUME NEW j \in DOMAIN delivered PROVE delivered[j] # Head(channel)
  <2>1. Len(delivered) + 1 # j
    BY <1>1
  <2> QED
    BY <1>1, <1>2, <2>1, WrittenOnce
<1> QED
  BY <1>3, <1>4, WrittenOnce DEF ToSet

-----------------------------------------------------------------------------
(* The steps of the agent, as its parts see them.                          *)

\* A step of the transport that the main loop does not see.
Moved == /\ TP!Next /\ UNCHANGED <<delivered, dispatchVars>>
         /\ sameLayout' = sameLayout /\ (sameLayout => parseErrors' = parseErrors)

\* The main loop takes up a record.
Received == /\ rxOpen /\ channel # <<>>
            /\ delivered' = Append(delivered, Head(channel))
            /\ UNCHANGED <<sameLayout, parseErrors>>
            /\ TP!Recv /\ DP!Begin(Head(channel))

Processed == DP!Process /\ UNCHANGED transportVars

LEMMA Steps ==
  ASSUME [Next]_vars
  PROVE  Moved \/ Received \/ Processed \/ UNCHANGED <<transportVars, dispatchVars>>
<1>1. CASE Probe
  BY <1>1, SameTransportSteps
     DEF Probe, Moved, TP!Next, TP!Stamp, TP!Output
<1>2. CASE Consumer
  BY <1>2, SameTransportSteps
     DEF Consumer, Moved, TP!Next, TP!Consume, TP!ConsumerFrame, TP!Start, TP!Parse,
     TP!Reject, TP!Send, TP!SendFails, TP!Release, TP!Sleep, TP!Wake
<1>3. CASE Receive
  BY <1>3, SameTransportSteps, SameBegin DEF Receive, Received, TP!Recv
<1>4. CASE Process
  BY <1>4, SameProcess DEF Process, Processed
<1>5. CASE DropReceiver
  BY <1>5, SameTransportSteps DEF DropReceiver, Moved, TP!Next, TP!CloseRx
<1>6. CASE DropLoader
  BY <1>6, SameTransportSteps DEF DropLoader, Moved, TP!Next, TP!Detach
<1>7. CASE Signal \/ ShutDown \/ Unwind \/ Flush \/ Exit \/ UNCHANGED vars
  BY <1>7 DEF Signal, ShutDown, Unwind, Flush, Exit, vars
<1> QED
  BY <1>1, <1>2, <1>3, <1>4, <1>5, <1>6, <1>7 DEF Next, Return

LEMMA TransportSteps ==
  ASSUME Transport!IInv, [Next]_vars
  PROVE  Transport!IInv'
<1>1. [TP!Next]_(TP!vars)
  BY Steps DEF Moved, Received, Processed, TP!Next, TP!vars, transportVars
<1>2. TP!IInv /\ [TP!Next]_(TP!vars) => TP!IInv'
  BY PartAssumptions, TP!StepInv
<1>3. TP!IInv' => Transport!IInv'
  BY SameTransportInv, PTL
<1> QED
  BY <1>1, <1>2, <1>3, SameTransportInv

LEMMA DispatchSteps ==
  ASSUME SentinelInv, [Next]_vars
  PROVE  Dispatch!DispatchInv'
<1>1. (\E e \in DP!Events \ begun : DP!Begin(e)) \/ DP!Process \/ UNCHANGED DP!vars
  <2>1. Received => Head(channel) \in DP!Events \ begun
    BY NextIsNew DEF Received, SentinelInv, HandedOver, DP!Events
  <2>2. UNCHANGED dispatchVars => UNCHANGED DP!vars
    BY DEF dispatchVars, DP!vars, DP!options, DP!counters, DP!suppressor, DP!history
  <2> QED
    BY <2>1, <2>2, Steps DEF Moved, Received, Processed
<1>2. /\ DP!DispatchInv
      /\ (\E e \in DP!Events \ begun : DP!Begin(e)) \/ DP!Process \/ UNCHANGED DP!vars
      => DP!DispatchInv'
  BY PartAssumptions, DP!DispatchStep
<1>3. DP!DispatchInv' => Dispatch!DispatchInv'
  BY SameDispatchInv, PTL
<1> QED
  BY <1>1, <1>2, <1>3, SameDispatchInv DEF SentinelInv

LEMMA HandedOverStep ==
  ASSUME SentinelInv, [Next]_vars
  PROVE  HandedOver'
<1> USE DEF HandedOver
<1>1. delivered \in Seq(Nat) /\ Len(delivered) \in Nat
  BY ReceivedIsFront DEF SentinelInv
<1>2. CASE Moved \/ UNCHANGED <<transportVars, dispatchVars>>
  BY <1>2 DEF Moved, transportVars, dispatchVars, SentinelInv
<1>3. CASE Received
  <2> DEFINE x == Head(channel)
  <2>1. x \in Nat
    BY <1>3, NextIsNew DEF Received, SentinelInv
  <2>2. /\ delivered' = Append(delivered, x) /\ UNCHANGED <<sameLayout, parseErrors>>
        /\ eventsTotal' = eventsTotal + 1 /\ begun' = begun \union {x} /\ event' = x
    BY <1>3 DEF Received, DP!Begin
  <2> HIDE DEF x
  <2>3. /\ Len(delivered') = Len(delivered) + 1 /\ delivered' # <<>>
        /\ delivered'[Len(delivered) + 1] = x /\ Last(delivered') = x
    BY <1>1, <2>1, <2>2 DEF Last
  <2>4. ToSet(delivered') = ToSet(delivered) \union {x}
    BY <1>1, <2>1, <2>2, PartAssumptions, TP!AppendNew, SameSequences
  <2> QED
    BY <2>2, <2>3, <2>4 DEF SentinelInv
<1>4. CASE Processed
  <2>1. UNCHANGED <<event, begun, eventsTotal>> /\ phase # "idle"
    BY <1>4, PartAssumptions, SameDispatchInv, DP!ProcessTaken DEF Processed, SentinelInv
  <2> QED
    BY <1>4, <2>1 DEF Processed, transportVars, SentinelInv
<1> QED
  BY <1>2, <1>3, <1>4, Steps

-----------------------------------------------------------------------------
(* The order of what the sinks take.                                       *)

InOrderOf(taken, received) ==
  /\ \A n \in DOMAIN taken : taken[n].event \in ToSet(received)
  /\ \A m, n \in DOMAIN taken : \A j, k \in DOMAIN received :
       m < n /\ received[j] = taken[m].event /\ received[k] = taken[n].event =>
         j < k \/ (j = k /\ taken[n].type = "alert")

\* A record that no sink has been given is received.
LEMMA OrderReceive ==
  ASSUME NEW taken, NEW d \in Seq(Nat), NEW x \in Nat, x \notin ToSet(d), InOrderOf(taken, d)
  PROVE  InOrderOf(taken, Append(d, x))
<1> DEFINE e == Append(d, x)
<1>1. /\ Len(d) \in Nat /\ DOMAIN d = 1..Len(d) /\ DOMAIN e = 1..(Len(d) + 1)
      /\ \A j \in 1..Len(d) : e[j] = d[j]
      /\ e[Len(d) + 1] = x
  OBVIOUS
<1> HIDE DEF e
<1>2. ToSet(d) \subseteq ToSet(e)
  BY <1>1 DEF ToSet
<1>3. \A n \in DOMAIN taken : taken[n].event # x
  BY DEF InOrderOf
<1>4. \A n \in DOMAIN taken : \A j \in DOMAIN e : e[j] = taken[n].event => j \in DOMAIN d
  BY <1>1, <1>3
<1>5. InOrderOf(taken, e)
  BY <1>1, <1>2, <1>4 DEF InOrderOf
<1> QED
  BY <1>5 DEF e

\* A sink takes a record of the event received last.
LEMMA OrderTake ==
  ASSUME NEW S, NEW taken \in Seq(S), NEW r \in S, NEW d \in Seq(Nat),
         InOrderOf(taken, d), IsInjective(d), d # <<>>, r.event = Last(d),
         r.type \in {"event", "alert"},
         r.type = "event" => \A q \in ToSet(taken) : q.event # r.event
  PROVE  InOrderOf(Append(taken, r), d)
<1> DEFINE more == Append(taken, r)
<1>1. /\ Len(taken) \in Nat /\ DOMAIN taken = 1..Len(taken)
      /\ DOMAIN more = 1..(Len(taken) + 1)
      /\ \A n \in 1..Len(taken) : more[n] = taken[n]
      /\ more[Len(taken) + 1] = r
  OBVIOUS
<1> HIDE DEF more
<1>2. /\ Len(d) \in Nat /\ DOMAIN d = 1..Len(d) /\ Len(d) \in DOMAIN d
      /\ d[Len(d)] = r.event
  BY DEF Last
<1>3. ASSUME NEW n \in DOMAIN more PROVE more[n].event \in ToSet(d)
  <2>1. CASE n \in DOMAIN taken
    <3>1. more[n] = taken[n]
      BY <1>1, <2>1
    <3> QED
      BY <2>1, <3>1 DEF InOrderOf
  <2>2. CASE n \notin DOMAIN taken
    <3>1. more[n] = r
      BY <1>1, <2>2
    <3>2. d[Len(d)] \in ToSet(d)
      BY <1>2 DEF ToSet
    <3> QED
      BY <1>2, <3>1, <3>2
  <2> QED
    BY <2>1, <2>2
<1>4. ASSUME NEW m \in DOMAIN more, NEW n \in DOMAIN more, NEW j \in DOMAIN d, NEW k \in DOMAIN d,
             m < n, d[j] = more[m].event, d[k] = more[n].event
      PROVE  j < k \/ (j = k /\ more[n].type = "alert")
  <2>1. m \in DOMAIN taken /\ more[m] = taken[m]
    BY <1>1, <1>4
  <2>2. CASE n \in DOMAIN taken
    BY <1>1, <1>4, <2>1, <2>2 DEF InOrderOf
  <2>3. CASE n \notin DOMAIN taken
    <3>1. more[n] = r /\ k = Len(d)
      BY <1>1, <1>2, <1>4, <2>3 DEF IsInjective
    <3>2. j = k => r.type = "alert"
      <4>1. j = k => taken[m].event = r.event
        BY <1>4, <2>1, <3>1
      <4>2. taken[m] \in ToSet(taken)
        BY <2>1 DEF ToSet
      <4> QED
        BY <4>1, <4>2
    <3> QED
      BY <1>2, <3>1, <3>2
  <2> QED
    BY <2>2, <2>3
<1>5. InOrderOf(more, d)
  BY <1>3, <1>4 DEF InOrderOf
<1> QED
  BY <1>5 DEF more

LEMMA OrderForm ==
  /\ TakenInOrder <=> \A s \in DOMAIN Sinks : InOrderOf(DP!Taken(s), delivered)
  /\ TakenInOrder' <=> \A s \in DOMAIN Sinks : InOrderOf(DP!Taken(s)', delivered')
<1>1. \A s : Dispatch!Taken(s) = DP!Taken(s)
  BY SameHelpers
<1>2. \A s : Dispatch!Taken(s)' = DP!Taken(s)'
  BY DEF Dispatch!Taken, DP!Taken, Dispatch!EndsTorn, DP!EndsTorn, Dispatch!TornLine,
     DP!TornLine, Dispatch!Last, DP!Last, Dispatch!Front, DP!Front
<1> QED
  BY <1>1, <1>2 DEF TakenInOrder, InOrderOf

LEMMA OrderStep ==
  ASSUME SentinelInv, [Next]_vars
  PROVE  TakenInOrder'
<1> SUFFICES ASSUME NEW s \in DOMAIN Sinks
             PROVE  InOrderOf(DP!Taken(s)', delivered')
  BY OrderForm
<1>1. /\ InOrderOf(DP!Taken(s), delivered) /\ Transport!IInv /\ HandedOver
      /\ DP!DispatchInv
  BY OrderForm, SameDispatchInv DEF SentinelInv
<1>2. delivered \in Seq(Nat)
  BY <1>1, ReceivedIsFront
<1>3. UNCHANGED output => DP!Taken(s)' = DP!Taken(s)
  BY DEF DP!Taken, DP!EndsTorn
<1>4. CASE Moved \/ UNCHANGED <<transportVars, dispatchVars>>
  BY <1>1, <1>3, <1>4 DEF Moved, transportVars, dispatchVars
<1>5. CASE Received
  <2>1. delivered' = Append(delivered, Head(channel)) /\ UNCHANGED output
    BY <1>5 DEF Received, DP!Begin
  <2>2. Head(channel) \in Nat \ ToSet(delivered)
    BY <1>1, <1>5, NextIsNew DEF Received
  <2> QED
    BY <1>1, <1>2, <1>3, <2>1, <2>2, OrderReceive
<1>6. CASE Processed
  <2>1. /\ phase # "idle"
        /\ \/ DP!Taken(s)' = DP!Taken(s)
           \/ /\ DP!Taken(s)' = Append(DP!Taken(s), DP!InHand)
              /\ DP!Taken(s) \in Seq(DP!Records)
              /\ DP!InHand \in DP!Records /\ DP!InHand.event = event
              /\ DP!InHand.type = "event" => \A r \in DP!ToSet(DP!Taken(s)) : r.event # event
    BY <1>1, <1>6, PartAssumptions, DP!ProcessTaken DEF Processed
  <2>2. UNCHANGED delivered /\ delivered # <<>> /\ event = Last(delivered)
    BY <1>1, <1>6, <2>1 DEF Processed, transportVars, HandedOver
  <2>3. CASE DP!Taken(s)' = DP!Taken(s)
    BY <1>1, <2>2, <2>3
  <2>4. CASE DP!Taken(s)' # DP!Taken(s)
    <3>1. DP!InHand \in DP!Records => DP!InHand.type \in {"event", "alert"}
      BY DEF DP!Records
    <3>2. IsInjective(delivered)
      BY <1>1, WrittenOnce
    <3> DEFINE t == DP!Taken(s)  r == DP!InHand
    <3>3. /\ t \in Seq(DP!Records) /\ r \in DP!Records
          /\ r.event = Last(delivered) /\ r.type \in {"event", "alert"}
          /\ r.type = "event" => \A q \in ToSet(t) : q.event # r.event
          /\ InOrderOf(t, delivered)
      BY <1>1, <2>1, <2>2, <2>4, <3>1, SameSequences
    <3> HIDE DEF t, r
    <3>4. InOrderOf(Append(t, r), delivered)
      BY <1>2, <2>2, <3>2, <3>3, OrderTake
    <3> QED
      BY <2>1, <2>2, <2>4, <3>4 DEF t, r
  <2> QED
    BY <2>3, <2>4
<1> QED
  BY <1>4, <1>5, <1>6, Steps

-----------------------------------------------------------------------------
(* The agent's invariant, and what follows.                                *)

LEMMA SentinelInit == Init => SentinelInv
<1> SUFFICES ASSUME Init PROVE SentinelInv
  OBVIOUS
<1>1. TP!Init /\ DP!Init
  BY SameTransportSteps, SameInit DEF Init
<1>2. TP!IInv
  BY <1>1, PartAssumptions, TP!InitInv
<1>3. DP!DispatchInv
  BY <1>1, PartAssumptions, DP!DispatchInit
<1>4. HandedOver
  <2>1. ToSet(<<>>) = {}
    BY DEF ToSet
  <2> QED
    BY <1>1, <2>1 DEF HandedOver, TP!Init, DP!Init
<1>5. TakenInOrder
  <2>1. \A s \in DOMAIN Sinks : DP!Taken(s) = <<>>
    BY <1>1 DEF DP!Init, DP!Taken, DP!EndsTorn
  <2> QED
    BY <2>1, OrderForm DEF InOrderOf
<1> QED
  BY <1>2, <1>3, <1>4, <1>5, SameTransportInv, SameDispatchInv DEF SentinelInv

LEMMA SentinelStep ==
  ASSUME SentinelInv, [Next]_vars
  PROVE  SentinelInv'
<1>1. Transport!IInv'
  BY TransportSteps DEF SentinelInv
<1> QED
  BY <1>1, DispatchSteps, HandedOverStep, OrderStep DEF SentinelInv

\* The invariants of the transport and of process_event go on to hold when the main
\* loop joins the two, and what the one hands over the other has taken up.
THEOREM SentinelInvariant == Spec => []SentinelInv
  BY SentinelInit, SentinelStep, PTL DEF Spec

\* The main loop, its shutdown included, takes no liberty with the transport: each
\* step of the agent is one of the transport's or leaves it alone, so that all that is
\* proved of the transport holds in the agent.
THEOREM AgentRunsTransport == Spec => Transport!Spec
<1>1. ASSUME [Next]_vars PROVE [Transport!Next]_(Transport!vars)
  <2>1. CASE Probe \/ Consumer \/ Receive \/ DropReceiver \/ DropLoader
    BY <2>1 DEF Probe, Consumer, Receive, DropReceiver, DropLoader, Transport!Next
  <2>2. CASE Process \/ Signal \/ ShutDown \/ Unwind \/ Flush \/ Exit \/ UNCHANGED vars
    BY <2>2 DEF Process, Signal, ShutDown, Unwind, Flush, Exit, vars, transportVars,
       Transport!vars
  <2> QED
    BY <1>1, <2>1, <2>2 DEF Next, Return
<1> QED
  BY <1>1, PTL DEF Spec, Init, Transport!Spec

\* So the daemon between its probes and its rules is the bounded lossy queue.
THEOREM AgentIsLossyFifo == Spec => TP!Fifo!Init /\ [][TP!Fifo!Next]_(TP!Fifo!vars)
<1>1. Transport!Init <=> TP!Init
  BY SameTransportSteps
<1>2. [Transport!Next]_(Transport!vars) <=> [TP!Next]_(TP!vars)
  <2>1. Transport!Next <=> TP!Next
    BY SameTransportSteps DEF Transport!Next, TP!Next
  <2>2. UNCHANGED Transport!vars <=> UNCHANGED TP!vars
    BY DEF Transport!vars, TP!vars
  <2> QED
    BY <2>1, <2>2
<1>3. Spec => TP!Spec
  BY <1>1, <1>2, AgentRunsTransport, PTL DEF Transport!Spec, TP!Spec
<1> QED
  BY <1>3, PartAssumptions, TP!TransportIsLossyFifo

\* Every record the ring took is counted once, as an event or as unreadable, or is
\* still on its way, with any number of probes and queues of any size.
THEOREM CountersAccount == Spec => []CountersAccountForRing
<1>1. ASSUME SentinelInv PROVE CountersAccountForRing
  <2>1. /\ TP!IInv /\ Transport!IInv /\ HandedOver
        /\ Waiting = channel \o TP!Pending
    BY <1>1, SameTransportInv, SamePending DEF SentinelInv, Waiting
  <2>2. /\ delivered \in Seq(TP!Records) /\ channel \in Seq(TP!Records)
        /\ TP!Pending \in Seq(TP!Records) /\ written \in Seq(TP!Records)
        /\ ring \in Seq(TP!Records) /\ parseErrors \in Nat
        /\ sameLayout \in BOOLEAN
    BY <2>1, PartAssumptions, TP!PendingType DEF TP!IInv, TP!TypeOK
  <2> DEFINE pending == TP!Pending
             R == TP!Records
  <2>3. CASE sameLayout /\ rxOpen
    <3>1. written = delivered \o channel \o pending /\ parseErrors = 0
      BY <2>1, <2>3 DEF TP!IInv, TP!AcceptedInOrder, HandedOver
    <3> HIDE DEF pending, R
    <3>2. Len(written) = Len(delivered) + Len(channel) + Len(pending)
      BY <2>2, <3>1 DEF pending, R
    <3>3. Len(Waiting) = Len(channel) + Len(pending)
      BY <2>1, <2>2 DEF pending, R
    <3> QED
      BY <2>1, <2>2, <2>3, <3>1, <3>2, <3>3 DEF CountersAccountForRing, HandedOver, pending, R
  <2>4. CASE sameLayout /\ ~ rxOpen
    <3>1. PICK gone \in TP!SubSeqs(written) : written = delivered \o gone \o pending
      BY <2>1, <2>4 DEF TP!IInv, TP!AcceptedInOrder
    <3>2. gone \in Seq(R) /\ channel = <<>> /\ parseErrors = 0
      BY <2>1, <2>2, <2>4, PartAssumptions, TP!SubSeqsType
         DEF TP!IInv, TP!ClosedIsEmpty, HandedOver
    <3> HIDE DEF pending, R
    <3>3. Len(written) = Len(delivered) + Len(gone) + Len(pending) /\ Len(gone) \in Nat
      BY <2>2, <3>1, <3>2 DEF pending, R
    <3>4. Len(Waiting) = Len(pending) /\ Len(pending) \in Nat /\ Len(delivered) \in Nat
      BY <2>1, <2>2, <3>2 DEF pending, R
    <3> QED
      BY <2>1, <2>4, <3>2, <3>3, <3>4 DEF CountersAccountForRing, HandedOver
  <2>5. CASE ~ sameLayout
    <3>1. /\ delivered = <<>> /\ channel = <<>> /\ pending = ring
          /\ Len(written) = parseErrors + Len(ring)
      BY <2>1, <2>5 DEF TP!IInv, TP!UnreadableCounted, TP!ReadableInHand, TP!Pending
    <3> HIDE DEF pending, R
    <3>2. Len(Waiting) = Len(ring) /\ Len(ring) \in Nat /\ eventsTotal = 0
      BY <2>1, <2>2, <3>1 DEF HandedOver, pending, R
    <3> QED
      BY <2>2, <3>1, <3>2 DEF CountersAccountForRing
  <2> QED
    BY <2>2, <2>3, <2>4, <2>5
<1> QED
  BY <1>1, SentinelInvariant, PTL

\* However sinks fail and however far the main loop lags behind the probes, each
\* sink takes what it takes in the order the ring took it, no event twice.
THEOREM SinksFollowRing == Spec => []SinksInRingOrder
<1>1. ASSUME SentinelInv PROVE SinksInRingOrder
  <2> SUFFICES ASSUME NEW s \in DOMAIN Sinks
               PROVE  InOrderOf(Dispatch!Taken(s), written)
    BY DEF SinksInRingOrder, InOrderOf
  <2> DEFINE taken == Dispatch!Taken(s)
  <2>1. InOrderOf(taken, delivered)
    BY <1>1 DEF SentinelInv, TakenInOrder, InOrderOf
  <2> HIDE DEF taken
  <2>2. /\ \A j \in DOMAIN delivered : \A k \in DOMAIN written :
             delivered[j] = written[k] => k = j
        /\ ToSet(delivered) \subseteq ToSet(written)
    BY <1>1, WrittenOnce DEF SentinelInv
  <2>3. \A n \in DOMAIN taken : \A k \in DOMAIN written :
          written[k] = taken[n].event => k \in DOMAIN delivered /\ delivered[k] = taken[n].event
    BY <2>1, <2>2 DEF InOrderOf, ToSet
  <2>4. InOrderOf(taken, written)
    BY <2>1, <2>2, <2>3 DEF InOrderOf
  <2> QED
    BY <2>4 DEF taken
<1> QED
  BY <1>1, SentinelInvariant, PTL
=============================================================================
