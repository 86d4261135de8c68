--------------------------- MODULE DispatchProofs ---------------------------
(***************************************************************************)
(* For any rules, sinks and limits, whatever fails: the rules see every    *)
(* event but one whose own emission failed; the sinks get nested logs; no  *)
(* alert is lost without a trace; and what is exported is rate limited.    *)
(***************************************************************************)
EXTENDS Dispatch, FiniteSetTheorems, SequenceTheorems, TLAPS

\* The invariant: where process_event is says what has become of the event.
EvaluatedInv ==
  /\ phase = "event" => emitEvents
  /\ phase \in {"alerts", "triage", "alert"} => event \in evaluated
  /\ DetectionSkippedOnlyOnFailure

LEMMA InitInv == Init => EvaluatedInv
  BY DEF Init, EvaluatedInv, DetectionSkippedOnlyOnFailure

\* Nothing is forgotten, and the event in hand stays where it was.
LEMMA Unmoved ==
  ASSUME EvaluatedInv, UNCHANGED <<emitEvents, event, phase, begun, evaluated>>,
         failures \subseteq failures'
  PROVE  EvaluatedInv'
  BY DEF EvaluatedInv, DetectionSkippedOnlyOnFailure

\* From one alert to the next.
LEMMA AmongAlerts ==
  ASSUME EvaluatedInv, UNCHANGED <<emitEvents, event, begun, evaluated, failures>>,
         phase \in {"alerts", "triage", "alert"},
         phase' \in {"alerts", "triage", "alert", "idle"}
  PROVE  EvaluatedInv'
  BY DEF EvaluatedInv, DetectionSkippedOnlyOnFailure

LEMMA BeginInv ==
  ASSUME EvaluatedInv, NEW e \in Events, Begin(e)
  PROVE  EvaluatedInv'
  BY DEF Begin, options, EvaluatedInv, DetectionSkippedOnlyOnFailure

\* A sink that takes the record passes it on, one that fails is a failure of it.
LEMMA SinksInv ==
  ASSUME EvaluatedInv, SinkTakes \/ SinkFails \/ StdoutPanics
  PROVE  EvaluatedInv'
<1> USE DEF SinkFrame, options, EvaluatedInv, DetectionSkippedOnlyOnFailure
<1>1. CASE SinkTakes
  BY <1>1 DEF SinkTakes
<1>2. CASE SinkFails
  BY <1>2 DEF SinkFails, InHand
<1>3. CASE StdoutPanics
  BY <1>3 DEF StdoutPanics, InHand
<1> QED
  BY <1>1, <1>2, <1>3

LEMMA EvaluateInv ==
  ASSUME EvaluatedInv, Evaluate
  PROVE  EvaluatedInv'
  BY DEF Evaluate, options, EvaluatedInv, DetectionSkippedOnlyOnFailure

\* The ways on from an alert, all of which leave the event and the rules alone.
LEMMA AlertsInv ==
  ASSUME EvaluatedInv, Skip \/ Suppress \/ Pass \/ Triage \/ Done
  PROVE  EvaluatedInv'
<1>1. UNCHANGED <<emitEvents, event, begun, evaluated, failures>>
  BY DEF Skip, Suppress, Pass, Triage, Done, AlertFrame, options
<1>2. phase \in {"alerts", "triage"}
  BY DEF Skip, Suppress, Pass, Triage, Done
<1>3. phase' \in {"alerts", "triage", "alert", "idle"}
  <2>1. CASE Skip \/ Suppress
    BY <1>2, <2>1 DEF Skip, Suppress
  <2>2. CASE Pass
    BY <2>2 DEF Pass, Export
  <2>3. CASE Triage
    BY <2>3 DEF Triage, Export
  <2>4. CASE Done
    BY <2>4 DEF Done
  <2> QED
    BY <2>1, <2>2, <2>3, <2>4
<1> QED
  BY <1>1, <1>2, <1>3, AmongAlerts

LEMMA StepInv ==
  ASSUME EvaluatedInv, [Next]_vars
  PROVE  EvaluatedInv'
<1>1. CASE NextEvent
  BY <1>1, BeginInv DEF NextEvent
<1>2. CASE Process
  BY <1>2, SinksInv, EvaluateInv, AlertsInv DEF Process
<1>3. CASE UNCHANGED vars
  BY <1>3, Unmoved DEF vars, options, history
<1> QED
  BY <1>1, <1>2, <1>3 DEF Next

\* No event passes the rules by, whatever sinks, triage and the suppressor do,
\* but for one a sink failed on; without emission of events there is none.
THEOREM DetectionSkippedOnlyOnFailureEver == Spec => []DetectionSkippedOnlyOnFailure
<1>1. EvaluatedInv => DetectionSkippedOnlyOnFailure
  BY DEF EvaluatedInv
<1> QED
  BY <1>1, InitInv, StepInv, PTL DEF Spec

-----------------------------------------------------------------------------
(* Lines and records.                                                      *)

LEMMA SinkNumbers ==
  /\ Len(Sinks) \in Nat \ {0} /\ DOMAIN Sinks = 1..Len(Sinks)
  /\ DOMAIN RuleSeq = 1..Len(RuleSeq) /\ Len(RuleSeq) \in Nat
  /\ \A i \in DOMAIN RuleSeq : RuleSeq[i].id \in RuleIds
  BY DispatchAssumption DEF RuleIds

\* The alert in hand is one of those that are left.
LEMMA FirstIsAnAlert ==
  ASSUME TypeOK, alerts # {}
  PROVE  First \in alerts /\ First \in DOMAIN RuleSeq
<1>1. alerts \subseteq Nat /\ alerts \subseteq DOMAIN RuleSeq
  BY SinkNumbers DEF TypeOK
<1> DEFINE Less == {ss \in Nat \X Nat : ss[1] < ss[2]}
<1>2. IsWellFoundedOn(Less, Nat)
  BY NatLessThanWellFounded DEF OpToRel
<1> HIDE DEF Less
<1>3. PICK x \in alerts : \A y \in alerts : ~ (<<y, x>> \in Less)
  BY <1>1, <1>2, WFMin
<1>4. \A y \in alerts : x <= y
  <2> SUFFICES ASSUME NEW y \in alerts PROVE x <= y
    OBVIOUS
  <2>1. x \in Nat /\ y \in Nat /\ <<y, x>> \in Nat \X Nat
    BY <1>1
  <2>2. ~ (y < x)
    BY <1>3, <2>1 DEF Less
  <2> QED
    BY <2>1, <2>2
<1> QED
  BY <1>1, <1>4 DEF First, Min

LEMMA RecordInHand ==
  ASSUME TypeOK, Writing
  PROVE  /\ InHand \in Records
         /\ InHand.event = event
         /\ phase = "event" => InHand.type = "event"
         /\ phase = "alert" => /\ InHand.type = "alert" /\ InHand.rule = First
                               /\ InHand = AlertRecord(event, First, triaged)
<1>1. event \in Events
  BY DEF TypeOK, Writing
<1>2. CASE phase = "event"
  BY <1>1, <1>2 DEF InHand, EventRecord, Records
<1>3. CASE phase = "alert"
  BY <1>1, <1>3, FirstIsAnAlert DEF InHand, AlertRecord, Records, TypeOK
<1> QED
  BY <1>2, <1>3 DEF Writing

\* A torn line, a spoilt one and a record are three things.
LEMMA LineKinds ==
  /\ TornLine \in Lines /\ TornLine \notin Records
  /\ \A r \in Records : /\ r.type \in {"event", "alert"} /\ r \in Lines
                        /\ SpoiltLine(r) \in Lines /\ SpoiltLine(r) \notin Records
                        /\ SpoiltLine(r) # TornLine
                        /\ SpoiltLine(r).type = "spoilt" /\ SpoiltLine(r).record = r
  /\ TornLine.type = "torn"
<1>1. \A r \in Records : r.type \in {"event", "alert"}
  BY DEF Records
<1> QED
  BY <1>1 DEF TornLine, SpoiltLine, Lines

\* The record a line holds, and the records of a file.
RecordOf(line) == IF line.type = "spoilt" THEN line.record ELSE line
RecordsOf(lines) == [n \in DOMAIN lines |-> RecordOf(lines[n])]

LEMMA RecordOfLine ==
  ASSUME NEW line \in Lines, line # TornLine
  PROVE  RecordOf(line) \in Records
  BY LineKinds DEF RecordOf, Lines

LEMMA RecordsOfAppend ==
  ASSUME NEW lines \in Seq(Lines), NEW line \in Lines
  PROVE  RecordsOf(Append(lines, line)) = Append(RecordsOf(lines), RecordOf(line))
<1>1. /\ DOMAIN RecordsOf(Append(lines, line)) = 1..(Len(lines) + 1)
      /\ \A n \in 1..(Len(lines) + 1) :
           RecordsOf(Append(lines, line))[n]
             = IF n = Len(lines) + 1 THEN RecordOf(line) ELSE RecordOf(lines[n])
  BY DEF RecordsOf
<1>2. RecordsOf(lines) \in Seq({RecordOf(l) : l \in Lines}) /\ Len(RecordsOf(lines)) = Len(lines)
  BY DEF RecordsOf
<1>3. \A n \in 1..Len(lines) : RecordsOf(lines)[n] = RecordOf(lines[n])
  BY DEF RecordsOf
<1> QED
  BY <1>1, <1>2, <1>3 DEF RecordsOf
LEMMA FrontOfAppend ==
  ASSUME NEW S, NEW seq \in Seq(S), NEW x \in S
  PROVE  Front(Append(seq, x)) = seq
  BY DEF Front

\* A file without the torn line it may end with.
Intact(s) == IF EndsTorn(s) THEN Front(output[s]) ELSE output[s]

LEMMA IntactType ==
  ASSUME TypeOK, LinesOK, NEW s \in DOMAIN Sinks
  PROVE  /\ output[s] \in Seq(Lines) /\ Intact(s) \in Seq(Lines)
         /\ Taken(s) = RecordsOf(Intact(s))
         /\ \A n \in DOMAIN Intact(s) : Intact(s)[n] # TornLine
<1>1. output[s] \in Seq(Lines)
  BY DEF TypeOK
<1>2. CASE EndsTorn(s)
  <2>1. output[s] # <<>> /\ Intact(s) = Front(output[s])
    BY <1>2 DEF EndsTorn, Intact
  <2>2. /\ Intact(s) \in Seq(Lines) /\ Len(Intact(s)) = Len(output[s]) - 1
        /\ \A n \in 1..(Len(output[s]) - 1) : Intact(s)[n] = output[s][n]
    BY <1>1, <2>1 DEF Front
  <2>3. \A n \in DOMAIN Intact(s) : Intact(s)[n] # TornLine
    BY <1>1, <2>2 DEF LinesOK
  <2> QED
    BY <1>1, <1>2, <2>2, <2>3 DEF Taken, RecordsOf, RecordOf, Intact
<1>3. CASE ~ EndsTorn(s)
  <2>1. Intact(s) = output[s]
    BY <1>3 DEF Intact
  <2>2. \A n \in DOMAIN Intact(s) : Intact(s)[n] # TornLine
    BY <1>1, <1>3, <2>1 DEF LinesOK, EndsTorn, Last
  <2> QED
    BY <1>1, <1>3, <2>1, <2>2 DEF Taken, RecordsOf, RecordOf
<1> QED
  BY <1>2, <1>3

LEMMA TakenType ==
  ASSUME TypeOK, LinesOK, NEW s \in DOMAIN Sinks
  PROVE  Taken(s) \in Seq(Records)
<1>1. \A n \in DOMAIN Intact(s) : RecordOf(Intact(s)[n]) \in Records
  BY IntactType, RecordOfLine
<1> QED
  BY <1>1, IntactType DEF RecordsOf

\* A sink whose file is not written to has taken what it had.
LEMMA TakenSame ==
  ASSUME NEW s, output'[s] = output[s]
  PROVE  /\ Taken(s)' = Taken(s) /\ EndsTorn(s)' = EndsTorn(s)
         /\ SpoiltIn(s)' = SpoiltIn(s)
  BY DEF Taken, EndsTorn, SpoiltIn

\* The sinks but the current one, where output changes at most there.
LEMMA OthersSame ==
  ASSUME TypeOK, NEW x, output' = [output EXCEPT ![sink] = x]
  PROVE  /\ output'[sink] = x
         /\ \A s \in DOMAIN Sinks \ {sink} : output'[s] = output[s]
         /\ x \in Seq(Lines) => output' \in [DOMAIN Sinks -> Seq(Lines)]
  BY DEF TypeOK

\* A line behind the intact ones.
LEMMA LineBehind ==
  ASSUME TypeOK, LinesOK, NEW s \in DOMAIN Sinks,
         NEW line \in Lines, output'[s] = Append(Intact(s), line)
  PROVE  /\ output'[s] \in Seq(Lines)
         /\ \A n \in DOMAIN output'[s] :
              /\ output'[s][n] \notin Records /\ output'[s][n] # line => Sinks[s] = "ndjson"
              /\ output'[s][n] = TornLine => n = Len(output'[s])
         /\ IF line = TornLine
              THEN EndsTorn(s)' /\ Taken(s)' = Taken(s)
              ELSE ~ EndsTorn(s)' /\ Taken(s)' = Append(Taken(s), RecordOf(line))
         /\ SpoiltIn(s)' = SpoiltIn(s) \union (IF line.type = "spoilt" THEN {line} ELSE {})
<1> DEFINE n0 == Len(Intact(s))
<1>1. /\ Intact(s) \in Seq(Lines) /\ n0 \in Nat
      /\ output'[s] \in Seq(Lines) /\ Len(output'[s]) = n0 + 1
      /\ DOMAIN output'[s] = 1..(n0 + 1)
      /\ \A n \in 1..n0 : output'[s][n] = Intact(s)[n]
      /\ output'[s][n0 + 1] = line
  BY IntactType
<1>2. /\ output[s] \in Seq(Lines)
      /\ \A n \in 1..n0 : n \in DOMAIN output[s] /\ output[s][n] = Intact(s)[n]
      /\ \A n \in 1..n0 : Intact(s)[n] # TornLine
      /\ \A n \in DOMAIN output[s] : n \in 1..n0 \/ output[s][n] = TornLine
  <2>1. output[s] \in Seq(Lines) /\ \A n \in 1..n0 : Intact(s)[n] # TornLine
    BY <1>1, IntactType
  <2>2. CASE EndsTorn(s)
    <3>1. Intact(s) = Front(output[s]) /\ output[s] # <<>>
          /\ output[s][Len(output[s])] = TornLine
      BY <2>2 DEF Intact, EndsTorn, Last
    <3>2. n0 = Len(output[s]) - 1 /\ \A n \in 1..n0 : Intact(s)[n] = output[s][n]
      BY <2>1, <3>1 DEF Front
    <3> HIDE DEF n0
    <3> QED
      BY <1>1, <2>1, <3>1, <3>2
  <2>3. CASE ~ EndsTorn(s)
    BY <2>1, <2>3 DEF Intact
  <2> QED
    BY <2>1, <2>2, <2>3
<1> HIDE DEF n0
<1>3. ASSUME NEW n \in DOMAIN output'[s]
      PROVE  /\ output'[s][n] \notin Records /\ output'[s][n] # line => Sinks[s] = "ndjson"
             /\ output'[s][n] = TornLine => n = Len(output'[s])
  BY <1>1, <1>2 DEF LinesOK
<1>4. EndsTorn(s)' <=> line = TornLine
  BY <1>1 DEF EndsTorn, Last
<1>5. Taken(s) = RecordsOf(Intact(s)) /\ Taken(s)' = RecordsOf(Intact(s))'
  BY DEF Taken, RecordsOf, RecordOf, Intact
<1>6. IF line = TornLine THEN Taken(s)' = Taken(s)
                         ELSE Taken(s)' = Append(Taken(s), RecordOf(line))
  <2>1. CASE line = TornLine
    <3>1. Intact(s)' = Front(output'[s])
      BY <1>4, <2>1 DEF Intact
    <3>2. Front(output'[s]) = Intact(s)
      BY <1>1, FrontOfAppend
    <3> QED
      BY <1>5, <2>1, <3>1, <3>2 DEF RecordsOf
  <2>2. CASE line # TornLine
    <3>1. Intact(s)' = Append(Intact(s), line)
      BY <1>4, <2>2 DEF Intact
    <3>2. RecordsOf(Intact(s))' = RecordsOf(Append(Intact(s), line))
      BY <3>1 DEF RecordsOf
    <3> QED
      BY <1>1, <1>5, <2>2, <3>2, RecordsOfAppend
  <2> QED
    BY <2>1, <2>2
<1>7. SpoiltIn(s)' = SpoiltIn(s) \union (IF line.type = "spoilt" THEN {line} ELSE {})
  BY <1>1, <1>2, LineKinds DEF SpoiltIn, ToSet
<1> QED
  BY <1>1, <1>3, <1>4, <1>6, <1>7

LEMMA OnlyFilesAreTorn ==
  ASSUME LinesOK, NEW s \in DOMAIN Sinks, TypeOK, EndsTorn(s)
  PROVE  Sinks[s] = "ndjson"
<1>1. output[s] \in Seq(Lines) /\ output[s] # <<>> /\ output[s][Len(output[s])] = TornLine
  BY DEF EndsTorn, Last, TypeOK
<1> QED
  BY <1>1, LineKinds DEF LinesOK

\* The sink that is being written to takes r, spoilt if its file ends torn.
Takes(s, r) ==
  /\ Taken(s)' = Append(Taken(s), r)
  /\ ~ EndsTorn(s)'
  /\ SpoiltIn(s)' = SpoiltIn(s) \union (IF EndsTorn(s) THEN {SpoiltLine(r)} ELSE {})

\* What holds of a file in every state.
LineOK(s) ==
  /\ output[s] \in Seq(Lines)
  /\ \A n \in DOMAIN output[s] :
       /\ output[s][n] \notin Records => Sinks[s] = "ndjson"
       /\ output[s][n] = TornLine => n = Len(output[s])

LEMMA WrittenIsTaken ==
  ASSUME TypeOK, LinesOK, NEW s \in DOMAIN Sinks, NEW r \in Records,
         output'[s] = Written(s, r)
  PROVE  Takes(s, r) /\ LineOK(s)'
<1> DEFINE line == IF EndsTorn(s) THEN SpoiltLine(r) ELSE r
<1>1. output'[s] = Append(Intact(s), line)
  BY DEF Written, Intact
<1>2. /\ line \in Lines /\ line # TornLine /\ RecordOf(line) = r
      /\ line.type = "spoilt" <=> EndsTorn(s)
      /\ line \notin Records => Sinks[s] = "ndjson"
  BY LineKinds, OnlyFilesAreTorn DEF RecordOf
<1>3. SpoiltIn(s)' = SpoiltIn(s) \union (IF EndsTorn(s) THEN {SpoiltLine(r)} ELSE {})
  BY <1>1, <1>2, LineBehind
<1> HIDE DEF line
<1>4. /\ output'[s] \in Seq(Lines)
      /\ \A n \in DOMAIN output'[s] :
           /\ output'[s][n] \notin Records /\ output'[s][n] # line => Sinks[s] = "ndjson"
           /\ output'[s][n] = TornLine => n = Len(output'[s])
      /\ ~ EndsTorn(s)' /\ Taken(s)' = Append(Taken(s), r)
  BY <1>1, <1>2, LineBehind
<1> QED
  BY <1>2, <1>3, <1>4 DEF Takes, LineOK

LEMMA TornIsNotTaken ==
  ASSUME TypeOK, LinesOK, NEW s \in DOMAIN Sinks, Sinks[s] = "ndjson", ~ EndsTorn(s),
         output'[s] = Append(output[s], TornLine)
  PROVE  /\ Taken(s)' = Taken(s) /\ EndsTorn(s)' /\ SpoiltIn(s)' = SpoiltIn(s)
         /\ LineOK(s)'
<1>1. PICK line \in Lines : line = TornLine
  BY LineKinds
<1>2. output'[s] = Append(Intact(s), line)
  BY <1>1 DEF Intact
<1>3. /\ output'[s] \in Seq(Lines)
      /\ \A n \in DOMAIN output'[s] : output'[s][n] = TornLine => n = Len(output'[s])
      /\ EndsTorn(s)' /\ Taken(s)' = Taken(s)
      /\ SpoiltIn(s)' = SpoiltIn(s) \union (IF line.type = "spoilt" THEN {line} ELSE {})
  BY <1>1, <1>2, LineBehind
<1>4. SpoiltIn(s)' = SpoiltIn(s)
  BY <1>1, <1>3, LineKinds
<1> QED
  BY <1>3, <1>4 DEF LineOK

-----------------------------------------------------------------------------
(* A step, as the records see it.                                          *)

\* No sink takes anything.
NothingTaken ==
  \A s \in DOMAIN Sinks : Taken(s)' = Taken(s) /\ SpoiltIn(s)' = SpoiltIn(s)

\* No file changes but that of the sink c.
OnlyFile(c) ==
  \A s \in DOMAIN Sinks \ {c} :
    Taken(s)' = Taken(s) /\ EndsTorn(s)' = EndsTorn(s) /\ SpoiltIn(s)' = SpoiltIn(s)

\* The current sink takes the record in hand, the others nothing.
InHandTaken == \E c \in DOMAIN Sinks : c = sink /\ Takes(c, InHand) /\ OnlyFile(c)

\* Nothing changes, or only that the current sink's file ends torn.
Untouched == NothingTaken /\ \A s \in DOMAIN Sinks : EndsTorn(s)' = EndsTorn(s)
Torn == \E c \in DOMAIN Sinks : c = sink /\ NothingTaken /\ EndsTorn(c)' /\ OnlyFile(c)

OutputOK == output \in [DOMAIN Sinks -> Seq(Lines)] /\ LinesOK

LEMMA OutputSame ==
  ASSUME TypeOK, LinesOK, UNCHANGED output
  PROVE  Untouched /\ OutputOK'
<1>1. \A s \in DOMAIN Sinks : output'[s] = output[s]
  OBVIOUS
<1>2. Untouched
  BY <1>1, TakenSame DEF Untouched, NothingTaken
<1> QED
  BY <1>2 DEF OutputOK, TypeOK, LinesOK

LEMMA OneFileChanges ==
  ASSUME TypeOK, LinesOK, NEW c \in DOMAIN Sinks, NEW x,
         output' = [output EXCEPT ![c] = x], LineOK(c)'
  PROVE  OutputOK' /\ OnlyFile(c)
<1>1. output'[c] = x /\ \A s \in DOMAIN Sinks \ {c} : output'[s] = output[s]
  BY DEF TypeOK
<1>2. /\ output' \in [DOMAIN Sinks -> Seq(Lines)]
  BY <1>1 DEF TypeOK, LineOK
<1>3. \A s \in DOMAIN Sinks : \A n \in DOMAIN output'[s] :
        /\ output'[s][n] \notin Records => Sinks[s] = "ndjson"
        /\ output'[s][n] = TornLine => n = Len(output'[s])
  <2> SUFFICES ASSUME NEW s \in DOMAIN Sinks, NEW n \in DOMAIN output'[s]
               PROVE  /\ output'[s][n] \notin Records => Sinks[s] = "ndjson"
                      /\ output'[s][n] = TornLine => n = Len(output'[s])
    OBVIOUS
  <2>1. CASE s = c
    BY <2>1 DEF LineOK
  <2>2. CASE s # c
    BY <1>1, <2>2 DEF LinesOK
  <2> QED
    BY <2>1, <2>2
<1> QED
  BY <1>1, <1>2, <1>3, TakenSame DEF OutputOK, LinesOK, OnlyFile

LEMMA SinkTakesOutput ==
  ASSUME TypeOK, LinesOK, SinkTakes
  PROVE  InHandTaken /\ OutputOK'
<1> DEFINE r == InHand
<1>1. PICK c \in DOMAIN Sinks : c = sink
  BY DEF TypeOK
<1>2. r \in Records /\ output' = [output EXCEPT ![c] = Written(c, r)]
  BY <1>1, RecordInHand DEF SinkTakes, Writing
<1>3. output'[c] = Written(c, r)
  BY <1>2 DEF TypeOK
<1> HIDE DEF r
<1>4. Takes(c, r) /\ LineOK(c)'
  BY <1>2, <1>3, WrittenIsTaken
<1>5. OutputOK' /\ OnlyFile(c)
  BY <1>2, <1>4, OneFileChanges
<1> QED
  BY <1>1, <1>4, <1>5 DEF InHandTaken, r

LEMMA SinkFailsOutput ==
  ASSUME TypeOK, LinesOK, SinkFails
  PROVE  /\ Untouched \/ (InHandTaken /\ ~ EndsTorn(sink)) \/ (Torn /\ ~ EndsTorn(sink))
         /\ OutputOK'
<1> DEFINE r == InHand
<1>1. PICK c \in DOMAIN Sinks : c = sink
  BY DEF TypeOK
<1>2. r \in Records
  BY RecordInHand DEF SinkFails, Writing
<1> HIDE DEF r
<1>3. CASE UNCHANGED output
  BY <1>3, OutputSame
<1>4. CASE Sinks[c] = "grpc" /\ output' = [output EXCEPT ![c] = Append(output[c], r)]
  <2>1. ~ EndsTorn(c)
    BY <1>4, OnlyFilesAreTorn
  <2>2. output'[c] = Written(c, r)
    BY <1>4, <2>1 DEF Written, TypeOK
  <2>3. Takes(c, r) /\ LineOK(c)'
    BY <1>2, <2>2, WrittenIsTaken
  <2>4. OutputOK' /\ OnlyFile(c)
    BY <1>4, <2>3, OneFileChanges
  <2> QED
    BY <1>1, <2>1, <2>3, <2>4 DEF InHandTaken, r
<1>5. CASE /\ Sinks[c] = "ndjson" /\ ~ EndsTorn(c)
           /\ output' = [output EXCEPT ![c] = Append(output[c], TornLine)]
  <2>1. output'[c] = Append(output[c], TornLine)
    BY <1>5 DEF TypeOK
  <2>2. /\ Taken(c)' = Taken(c) /\ EndsTorn(c)' /\ SpoiltIn(c)' = SpoiltIn(c)
        /\ LineOK(c)'
    BY <1>5, <2>1, TornIsNotTaken
  <2>3. OutputOK' /\ OnlyFile(c)
    BY <1>5, <2>2, OneFileChanges
  <2>4. NothingTaken
    BY <2>2, <2>3 DEF NothingTaken, OnlyFile
  <2> QED
    BY <1>1, <1>5, <2>2, <2>3, <2>4 DEF Torn
<1> QED
  BY <1>1, <1>3, <1>4, <1>5 DEF SinkFails, r

-----------------------------------------------------------------------------
(* Types and lines.                                                        *)

LEMMA BeginTypes ==
  ASSUME TypeOK, LinesOK, NEW e \in Events \ begun, Begin(e)
  PROVE  TypeOK' /\ LinesOK' /\ Untouched
<1>1. OutputOK' /\ Untouched
  BY OutputSame DEF Begin
<1>2. e \in 0..MaxEvents /\ e \in Events /\ 1 \in DOMAIN Sinks /\ eventsTotal + 1 \in Nat
  BY DispatchAssumption, SinkNumbers DEF Events, TypeOK
<1> QED
  BY <1>1, <1>2 DEF OutputOK, TypeOK, Begin, options

LEMMA FailureTypes ==
  ASSUME TypeOK, Writing, failures' = failures \union {InHand}
  PROVE  failures' \subseteq Records /\ IsFiniteSet(failures')
  BY RecordInHand, FS_AddElement DEF TypeOK

LEMMA SinkTypes ==
  ASSUME TypeOK, LinesOK, SinkTakes \/ SinkFails \/ StdoutPanics
  PROVE  TypeOK' /\ LinesOK'
<1>1. OutputOK'
  BY SinkTakesOutput, SinkFailsOutput, OutputSame DEF StdoutPanics
<1>2. 1 \in DOMAIN Sinks /\ (sink < Len(Sinks) => sink + 1 \in DOMAIN Sinks)
  BY SinkNumbers DEF TypeOK
<1>3. Others \subseteq alerts
  BY DEF Others
<1> USE DEF OutputOK, SinkFrame, options, counters, Writing
<1>4. CASE SinkTakes
  BY <1>1, <1>2, <1>3, <1>4 DEF SinkTakes, TypeOK
<1>5. CASE SinkFails
  BY <1>1, <1>2, <1>5, FailureTypes DEF SinkFails, TypeOK
<1>6. CASE StdoutPanics
  BY <1>1, <1>6, FailureTypes DEF StdoutPanics, TypeOK
<1> QED
  BY <1>4, <1>5, <1>6

LEMMA EvaluateTypes ==
  ASSUME TypeOK, LinesOK, Evaluate
  PROVE  TypeOK' /\ LinesOK' /\ Untouched
<1>1. OutputOK' /\ Untouched
  BY OutputSame DEF Evaluate
<1>2. PICK hits \in SUBSET {i \in DOMAIN RuleSeq : RuleSeq[i].enabled} :
        alerts' = hits /\ matched' = matched \union ({event} \X hits)
  BY DEF Evaluate
<1>3. event \in begun
  BY DEF Evaluate, TypeOK
<1>4. matched' \subseteq evaluated' \X DOMAIN RuleSeq
  BY <1>2, <1>3 DEF Evaluate, TypeOK
<1> QED
  BY <1>1, <1>2, <1>3, <1>4 DEF OutputOK, TypeOK, Evaluate, options, counters

\* What the steps from one alert to the next leave alone.
LEMMA AlertSteps ==
  ASSUME TypeOK, LinesOK, Skip \/ Suppress \/ Pass \/ Triage \/ Done
  PROVE  /\ UNCHANGED <<emitEvents, triageEnabled, event, output, eventsTotal, begun,
                        evaluated, matched, failures>>
         /\ phase \in {"alerts", "triage"}
         /\ phase' \in {"alerts", "triage", "alert", "idle"}
         /\ alerts' \in {alerts, Others}
         /\ phase' \in {"triage", "alert"} => alerts # {} /\ UNCHANGED alerts
         /\ phase' = "alert" => sink' = 1
         /\ sink' \in {1, sink} /\ triaged' \in BOOLEAN
         /\ suppressedTotal' \in Nat
         /\ alertsTotal' = (IF phase' = "alert" THEN alertsTotal + 1 ELSE alertsTotal)
<1> USE DEF AlertFrame, options, Export, TypeOK
<1>1. CASE Skip
  BY <1>1 DEF Skip
<1>2. CASE Suppress
  BY <1>2 DEF Suppress
<1>3. CASE Pass
  <2>1. /\ phase = "alerts" /\ alerts # {} /\ UNCHANGED suppressedTotal
        /\ \/ phase' = "triage" /\ UNCHANGED <<triaged, alertsTotal, sink, alerts>>
           \/ Export(FALSE)
    BY <1>3 DEF Pass
  <2>2. UNCHANGED <<emitEvents, triageEnabled, event, output, eventsTotal, begun,
                    evaluated, matched, failures>>
    BY <1>3 DEF Pass
  <2>3. CASE phase' = "triage" /\ UNCHANGED <<triaged, alertsTotal, sink, alerts>>
    BY <2>1, <2>2, <2>3
  <2>4. CASE Export(FALSE)
    <3>1. CASE ShouldAlert(First)
      BY <2>1, <2>2, <2>4, <3>1
    <3>2. CASE ~ ShouldAlert(First)
      BY <2>1, <2>2, <2>4, <3>2
    <3> QED
      BY <3>1, <3>2
  <2> QED
    BY <2>1, <2>3, <2>4
<1>4. CASE Triage
  BY <1>4 DEF Triage
<1>5. CASE Done
  BY <1>5 DEF Done
<1> QED
  BY <1>1, <1>2, <1>3, <1>4, <1>5

LEMMA AlertTypes ==
  ASSUME TypeOK, LinesOK, Skip \/ Suppress \/ Pass \/ Triage \/ Done
  PROVE  TypeOK' /\ LinesOK' /\ Untouched
<1>1. OutputOK' /\ Untouched
  BY AlertSteps, OutputSame
<1>2. 1 \in DOMAIN Sinks /\ Others \subseteq alerts
  BY SinkNumbers DEF Others
<1> QED
  BY <1>1, <1>2, AlertSteps DEF OutputOK, TypeOK

LEMMA StutterTypes ==
  ASSUME TypeOK, LinesOK, UNCHANGED vars
  PROVE  TypeOK' /\ LinesOK' /\ Untouched
  BY OutputSame DEF vars, options, counters, suppressor, history, TypeOK, OutputOK

-----------------------------------------------------------------------------
(* What no sink has been given yet.                                        *)

\* What is still outstanding after a step was before it, and the record in hand
\* no longer is when its last sink has been served.
LEMMA BeginOutstanding ==
  ASSUME TypeOK, NEW e \in Events \ begun, Begin(e), NEW r, Outstanding(r)'
  PROVE  Outstanding(r)
  BY DEF Begin, Outstanding

LEMMA EvaluateOutstanding ==
  ASSUME TypeOK, Evaluate, NEW r, Outstanding(r)'
  PROVE  Outstanding(r)
  BY DEF Evaluate, Outstanding

LEMMA AlertsOutstanding ==
  ASSUME TypeOK, LinesOK, Skip \/ Suppress \/ Pass \/ Triage \/ Done,
         NEW r, Outstanding(r)'
  PROVE  Outstanding(r)
<1>1. alerts' \subseteq alerts
  BY AlertSteps DEF Others
<1> QED
  BY <1>1, AlertSteps DEF Outstanding

\* The sink that is served last, or fails, ends the record in hand.
EndsRecord == (SinkTakes /\ sink = Len(Sinks)) \/ SinkFails \/ StdoutPanics

LEMMA EndsOutstanding ==
  ASSUME TypeOK, EndsRecord, NEW r, Outstanding(r)'
  PROVE  Outstanding(r) /\ r # InHand
<1>1. Writing /\ event \in begun /\ sink \in DOMAIN Sinks
  BY DEF EndsRecord, SinkTakes, SinkFails, StdoutPanics, TypeOK, Writing
<1>2. CASE SinkTakes /\ sink = Len(Sinks)
  <2>1. ~ (sink < Len(Sinks))
    BY <1>2, SinkNumbers
  <2>2. CASE phase = "event"
    BY <1>1, <1>2, <2>1, <2>2, RecordInHand DEF SinkTakes, SinkFrame, Outstanding
  <2>3. CASE phase = "alert"
    <3>1. phase' = "alerts" /\ alerts' = alerts \ {First}
          /\ UNCHANGED <<event, begun>>
      BY <1>2, <2>1, <2>3 DEF SinkTakes, SinkFrame, Others
    <3>2. InHand.event = event /\ InHand.rule = First
      BY <1>1, <2>3, RecordInHand
    <3> QED
      BY <1>1, <2>3, <3>1, <3>2 DEF Outstanding
  <2> QED
    BY <1>1, <2>2, <2>3 DEF Writing
<1>3. CASE SinkFails \/ StdoutPanics
  <2>1. phase' \in {"idle", "panicked"} /\ UNCHANGED begun
    BY <1>3 DEF SinkFails, StdoutPanics, SinkFrame
  <2>2. InHand.event = event
    BY <1>1, RecordInHand
  <2>3. r.event \notin begun
    BY <1>3, <2>1 DEF Outstanding, SinkFails, StdoutPanics
  <2> QED
    BY <1>1, <2>2, <2>3 DEF Outstanding
<1> QED
  BY <1>2, <1>3 DEF EndsRecord

LEMMA InHandOutstanding ==
  ASSUME TypeOK, Writing
  PROVE  Outstanding(InHand)
  BY RecordInHand, FirstIsAnAlert DEF Outstanding, Writing, TypeOK

\* A step that gives nothing to a sink.
LEMMA QuietGivenOnce ==
  ASSUME GivenOnce, Untouched, ~ Writing, UNCHANGED failures,
         \A r : Outstanding(r)' => Outstanding(r),
         Writing' => sink' = 1
  PROVE  GivenOnce'
<1>1. \A s \in DOMAIN Sinks : ~ (s < 1)
  BY SinkNumbers
<1>2. \A r \in failures' : ~ Outstanding(r)'
  BY DEF GivenOnce
<1>3. \A s \in DOMAIN Sinks :
        IsFiniteSet(ToSet(Taken(s)')) /\ \A r \in ToSet(Taken(s)') : ~ Outstanding(r)'
  BY DEF GivenOnce, Untouched, NothingTaken
<1>4. \A s \in DOMAIN Sinks : ~ (Writing' /\ s < sink')
  BY <1>1
<1> QED
  BY <1>2, <1>3, <1>4 DEF GivenOnce

LEMMA ToSetOfAppend ==
  ASSUME NEW S, NEW seq \in Seq(S), NEW x
  PROVE  /\ ToSet(Append(seq, x)) = ToSet(seq) \union {x}
         /\ Append(seq, x) # <<>> /\ Last(Append(seq, x)) = x
<1>1. /\ DOMAIN Append(seq, x) = 1..(Len(seq) + 1) /\ Append(seq, x)[Len(seq) + 1] = x
      /\ Len(Append(seq, x)) = Len(seq) + 1
      /\ \A n \in 1..Len(seq) : Append(seq, x)[n] = seq[n]
      /\ DOMAIN seq = 1..Len(seq) /\ Len(seq) \in Nat
  OBVIOUS
<1>2. ToSet(Append(seq, x)) = ToSet(seq) \union {x}
  BY <1>1 DEF ToSet
<1> QED
  BY <1>1, <1>2 DEF Last

\* What the sinks have after a step that serves one.
LEMMA SetsTaken ==
  ASSUME TypeOK, LinesOK, InHandTaken \/ NothingTaken
  PROVE  \A s \in DOMAIN Sinks :
           /\ \/ ToSet(Taken(s)') = ToSet(Taken(s)) /\ Taken(s)' = Taken(s)
              \/ /\ InHandTaken /\ s = sink
                 /\ ToSet(Taken(s)') = ToSet(Taken(s)) \union {InHand}
                 /\ Taken(s)' # <<>> /\ Last(Taken(s)') = InHand
           /\ InHandTaken /\ s = sink => /\ InHand \in ToSet(Taken(s)')
                                         /\ Taken(s)' # <<>> /\ Last(Taken(s)') = InHand
<1>1. CASE InHandTaken
  <2>1. PICK c \in DOMAIN Sinks : c = sink /\ Takes(c, InHand) /\ OnlyFile(c)
    BY <1>1 DEF InHandTaken
  <2>2. Taken(c)' = Append(Taken(c), InHand) /\ Taken(c) \in Seq(Records)
    BY <2>1, TakenType DEF Takes
  <2>3. /\ ToSet(Taken(c)') = ToSet(Taken(c)) \union {InHand}
        /\ Taken(c)' # <<>> /\ Last(Taken(c)') = InHand
    BY <2>2, ToSetOfAppend
  <2>4. \A s \in DOMAIN Sinks \ {c} : Taken(s)' = Taken(s)
    BY <2>1 DEF OnlyFile
  <2> QED
    BY <1>1, <2>1, <2>3, <2>4
<1>2. CASE ~ InHandTaken
  BY <1>2 DEF NothingTaken
<1> QED
  BY <1>1, <1>2

LEMMA Served ==
  ASSUME TypeOK, LinesOK, SinkTakes \/ SinkFails \/ StdoutPanics
  PROVE  /\ Writing /\ sink \in DOMAIN Sinks
         /\ InHandTaken \/ NothingTaken
         /\ SinkTakes => InHandTaken
         /\ failures' = (IF SinkTakes THEN failures ELSE failures \union {InHand})
  BY SinkTakesOutput, SinkFailsOutput, OutputSame
     DEF Untouched, Torn, SinkTakes, SinkFails, StdoutPanics, Writing, TypeOK

\* The record goes on to the next sink.
LEMMA PassedOn ==
  ASSUME TypeOK, SinkTakes, sink < Len(Sinks)
  PROVE  /\ sink' = sink + 1 /\ UNCHANGED failures
         /\ Writing' /\ InHand' = InHand
         /\ UNCHANGED <<phase, event, alerts, triaged, begun>>
         /\ \A r : Outstanding(r)' <=> Outstanding(r)
<1>1. /\ sink' = sink + 1 /\ UNCHANGED <<phase, event, alerts, triaged, begun, failures>>
      /\ Writing
  BY DEF SinkTakes, SinkFrame, Writing
<1> QED
  BY <1>1 DEF Writing, InHand, First, Outstanding

LEMMA RecordEnds ==
  ASSUME TypeOK, EndsRecord
  PROVE  ~ Writing' /\ (SinkTakes => phase' \in {"rules", "alerts"})
<1>1. sink = Len(Sinks) => ~ (sink < Len(Sinks))
  BY SinkNumbers
<1> QED
  BY <1>1 DEF EndsRecord, SinkTakes, SinkFails, StdoutPanics, Writing

LEMMA PassOnOrEnd ==
  ASSUME TypeOK, SinkTakes \/ SinkFails \/ StdoutPanics
  PROVE  (SinkTakes /\ sink < Len(Sinks)) \/ EndsRecord
  BY SinkNumbers DEF EndsRecord, TypeOK

LEMMA SinksGivenOnce ==
  ASSUME TypeOK, LinesOK, GivenOnce, SinkTakes \/ SinkFails \/ StdoutPanics
  PROVE  GivenOnce'
<1>1. ASSUME NEW s \in DOMAIN Sinks
      PROVE  IsFiniteSet(ToSet(Taken(s)'))
  BY Served, SetsTaken, FS_AddElement DEF GivenOnce
<1>2. CASE SinkTakes /\ sink < Len(Sinks)
  <2>1. \A r \in failures' : ~ Outstanding(r)'
    BY <1>2, PassedOn DEF GivenOnce
  <2>2. ASSUME NEW s \in DOMAIN Sinks
        PROVE  /\ \A r \in ToSet(Taken(s)') : Outstanding(r)' => s < sink' /\ r = InHand'
               /\ s < sink' => Taken(s)' # <<>> /\ Last(Taken(s)') = InHand'
    <3>1. CASE s = sink
      <4>1. s < sink' /\ ~ (s < sink)
        BY <1>2, <3>1, PassedOn, SinkNumbers
      <4> QED
        BY <1>2, <3>1, <4>1, Served, SetsTaken, PassedOn DEF GivenOnce
    <3>2. CASE s # sink
      <4>1. s < sink' <=> s < sink
        BY <1>2, <3>2, PassedOn, SinkNumbers DEF TypeOK
      <4> QED
        BY <1>2, <3>2, <4>1, Served, SetsTaken, PassedOn DEF GivenOnce
    <3> QED
      BY <3>1, <3>2
  <2> QED
    BY <1>1, <1>2, <2>1, <2>2, PassedOn DEF GivenOnce
<1>3. CASE EndsRecord
  <2>1. \A r : Outstanding(r)' => Outstanding(r) /\ r # InHand
    BY <1>3, EndsOutstanding
  <2>2. \A r \in failures' : ~ Outstanding(r)'
    BY <2>1, Served DEF GivenOnce
  <2>3. ASSUME NEW s \in DOMAIN Sinks, NEW r \in ToSet(Taken(s)')
        PROVE  ~ Outstanding(r)'
    BY <2>1, Served, SetsTaken DEF GivenOnce
  <2> QED
    BY <1>1, <1>3, <2>2, <2>3, RecordEnds DEF GivenOnce
<1> QED
  BY <1>2, <1>3, PassOnOrEnd

LEMMA GivenOnceStep ==
  ASSUME TypeOK, LinesOK, GivenOnce,
         (\E e \in Events \ begun : Begin(e)) \/ Process \/ UNCHANGED vars
  PROVE  GivenOnce'
<1>1. ASSUME NEW e \in Events \ begun, Begin(e)
      PROVE  GivenOnce'
  <2>1. ~ Writing /\ UNCHANGED failures /\ sink' = 1
    BY <1>1 DEF Begin, Writing
  <2> QED
    BY <1>1, <2>1, BeginTypes, BeginOutstanding, QuietGivenOnce
<1>2. CASE Evaluate
  <2>1. ~ Writing /\ UNCHANGED failures /\ ~ Writing'
    BY <1>2 DEF Evaluate, Writing
  <2> QED
    BY <1>2, <2>1, EvaluateTypes, EvaluateOutstanding, QuietGivenOnce
<1>3. CASE Skip \/ Suppress \/ Pass \/ Triage \/ Done
  <2>1. ~ Writing /\ UNCHANGED failures /\ (Writing' => sink' = 1)
    BY <1>3, AlertSteps DEF Writing
  <2> QED
    BY <1>3, <2>1, AlertTypes, AlertsOutstanding, QuietGivenOnce
<1>4. CASE UNCHANGED vars
  BY <1>4, OutputSame DEF vars, options, history, GivenOnce, Writing, InHand, First,
     Outstanding, Untouched, NothingTaken
<1> QED
  BY <1>1, <1>2, <1>3, <1>4, SinksGivenOnce DEF Process

-----------------------------------------------------------------------------
(* Sublogs.                                                                *)

Sublog(later, first) ==
  /\ \A m \in DOMAIN later : \E j \in DOMAIN first : first[j] = later[m]
  /\ \A m, n \in DOMAIN later : \A j, k \in DOMAIN first :
       m < n /\ first[j] = later[m] /\ first[k] = later[n] => j < k

LEMMA InjectiveAppend ==
  ASSUME NEW S, NEW seq \in Seq(S), NEW x \in S, IsInjective(seq), x \notin ToSet(seq)
  PROVE  IsInjective(Append(seq, x))
  BY DEF IsInjective, ToSet

LEMMA LaterAppend ==
  ASSUME NEW S, NEW first \in Seq(S), NEW later \in Seq(S), NEW x \in S,
         Sublog(later, first), IsInjective(first),
         first # <<>>, Last(first) = x, x \notin ToSet(later)
  PROVE  Sublog(Append(later, x), first)
<1> DEFINE log == Append(later, x)
<1>1. /\ Len(later) \in Nat /\ DOMAIN later = 1..Len(later)
      /\ DOMAIN log = 1..(Len(later) + 1) /\ log[Len(later) + 1] = x
      /\ \A n \in 1..Len(later) : log[n] = later[n] /\ log[n] # x
      /\ Len(first) \in DOMAIN first /\ first[Len(first)] = x
      /\ DOMAIN first = 1..Len(first)
  BY DEF ToSet, Last
<1> HIDE DEF log
<1>2. ASSUME NEW m \in DOMAIN log
      PROVE  \E j \in DOMAIN first : first[j] = log[m]
  BY <1>1 DEF Sublog
<1>3. ASSUME NEW m \in DOMAIN log, NEW n \in DOMAIN log,
             NEW j \in DOMAIN first, NEW k \in DOMAIN first,
             m < n, first[j] = log[m], first[k] = log[n]
      PROVE  j < k
  <2>1. m \in 1..Len(later)
    BY <1>1, <1>3
  <2>2. CASE n \in 1..Len(later)
    BY <1>1, <1>3, <2>1, <2>2 DEF Sublog
  <2>3. CASE n = Len(later) + 1
    <3>1. k = Len(first) /\ j # Len(first)
      BY <1>1, <1>3, <2>1, <2>3 DEF IsInjective
    <3> QED
      BY <1>1, <3>1
  <2> QED
    BY <1>1, <2>2, <2>3
<1> QED
  BY <1>2, <1>3 DEF Sublog, log

LEMMA FirstAppend ==
  ASSUME NEW S, NEW first \in Seq(S), NEW later \in Seq(S), NEW x \in S,
         Sublog(later, first), x \notin ToSet(later)
  PROVE  Sublog(later, Append(first, x))
<1> DEFINE log == Append(first, x)
<1>1. /\ Len(first) \in Nat /\ DOMAIN first = 1..Len(first)
      /\ DOMAIN log = 1..(Len(first) + 1) /\ log[Len(first) + 1] = x
      /\ \A n \in 1..Len(first) : log[n] = first[n]
      /\ \A n \in DOMAIN later : later[n] # x
  BY DEF ToSet
<1> HIDE DEF log
<1> QED
  BY <1>1 DEF Sublog, log

\* SublogInv in terms of Sublog.
Lacking(s, t) == IF Writing /\ s < sink /\ sink <= t THEN {InHand} ELSE {}

LEMMA SublogInvDef ==
  SublogInv <=>
    /\ \A s \in DOMAIN Sinks : IsInjective(Taken(s))
    /\ \A s, t \in DOMAIN Sinks : s < t =>
         /\ Sublog(Taken(t), Taken(s))
         /\ ToSet(Taken(s)) \ ToSet(Taken(t)) \subseteq failures \union Lacking(s, t)
  BY DEF SublogInv, Sublog, Lacking

\* What the sinks have of the record in hand.
LEMMA HaveInHand ==
  ASSUME TypeOK, GivenOnce, Writing
  PROVE  \A s \in DOMAIN Sinks :
           /\ ~ (s < sink) => InHand \notin ToSet(Taken(s))
           /\ s < sink => Taken(s) # <<>> /\ Last(Taken(s)) = InHand
  BY InHandOutstanding DEF GivenOnce

LEMMA SublogTaken ==
  ASSUME TypeOK, LinesOK, GivenOnce, SublogInv, Writing, InHandTaken \/ NothingTaken
  PROVE  /\ \A s \in DOMAIN Sinks : IsInjective(Taken(s)')
         /\ \A s, t \in DOMAIN Sinks : s < t => Sublog(Taken(t)', Taken(s)')
<1>1. CASE NothingTaken
  BY <1>1, SublogInvDef DEF NothingTaken
<1>2. CASE InHandTaken
  <2>1. PICK c \in DOMAIN Sinks :
          /\ c = sink /\ Taken(c)' = Append(Taken(c), InHand)
          /\ \A s \in DOMAIN Sinks \ {c} : Taken(s)' = Taken(s)
    BY <1>2 DEF InHandTaken, Takes, OnlyFile
  <2>2. \A s \in DOMAIN Sinks : Taken(s) \in Seq(Records) /\ IsInjective(Taken(s))
    BY TakenType, SublogInvDef
  <2>3. InHand \in Records /\ ~ (c < sink) /\ InHand \notin ToSet(Taken(c))
    BY <2>1, SinkNumbers, RecordInHand, HaveInHand
  <2>4. ASSUME NEW s \in DOMAIN Sinks
        PROVE  IsInjective(Taken(s)')
    BY <2>1, <2>2, <2>3, InjectiveAppend
  <2>5. ASSUME NEW s \in DOMAIN Sinks, NEW t \in DOMAIN Sinks, s < t
        PROVE  Sublog(Taken(t)', Taken(s)')
    <3>1. Sublog(Taken(t), Taken(s)) /\ s # t
      BY <2>5, SublogInvDef, SinkNumbers
    <3>2. CASE t = c
      <4>1. Taken(s) # <<>> /\ Last(Taken(s)) = InHand
        BY <2>1, <2>5, <3>2, HaveInHand
      <4> QED
        BY <2>1, <2>2, <2>3, <3>1, <3>2, <4>1, LaterAppend
    <3>3. CASE s = c
      <4>1. InHand \notin ToSet(Taken(t))
        BY <2>1, <2>5, <3>3, SinkNumbers, HaveInHand
      <4> QED
        BY <2>1, <2>2, <2>3, <3>1, <3>3, <4>1, FirstAppend
    <3>4. CASE s # c /\ t # c
      BY <2>1, <3>1, <3>4
    <3> QED
      BY <3>2, <3>3, <3>4
  <2> QED
    BY <2>4, <2>5
<1> QED
  BY <1>1, <1>2

LEMMA SinksSublog ==
  ASSUME TypeOK, LinesOK, GivenOnce, SublogInv, SinkTakes \/ SinkFails \/ StdoutPanics
  PROVE  SublogInv'
<1>1. /\ \A s \in DOMAIN Sinks : IsInjective(Taken(s)')
      /\ \A s, t \in DOMAIN Sinks : s < t => Sublog(Taken(t)', Taken(s)')
  BY Served, SublogTaken
<1>2. ASSUME NEW s \in DOMAIN Sinks, NEW t \in DOMAIN Sinks, s < t
      PROVE  ToSet(Taken(s)') \ ToSet(Taken(t)') \subseteq
               failures' \union (IF Writing' /\ s < sink' /\ sink' <= t THEN {InHand'} ELSE {})
  <2>1. ToSet(Taken(s)) \ ToSet(Taken(t)) \subseteq failures \union Lacking(s, t)
    BY <1>2, SublogInvDef
  <2>2. Lacking(s, t) \subseteq {InHand} /\ failures \subseteq failures'
    BY Served DEF Lacking
  <2>3. ToSet(Taken(s)') \ ToSet(Taken(t)') \subseteq failures \union {InHand}
    BY <2>1, <2>2, Served, SetsTaken
  <2>4. CASE ~ SinkTakes
    BY <2>3, <2>4, Served
  <2>5. CASE SinkTakes
    <3>1. s \in Nat /\ t \in Nat /\ sink \in Nat /\ t <= Len(Sinks) /\ Len(Sinks) \in Nat
      BY Served, SinkNumbers
    <3>2. CASE t = sink
      BY <2>3, <2>5, <3>2, Served, SetsTaken
    <3>3. CASE t < sink
      <4>1. s # sink /\ t # sink /\ Lacking(s, t) = {}
        BY <1>2, <3>1, <3>3 DEF Lacking
      <4> QED
        BY <2>1, <2>2, <4>1, Served, SetsTaken
    <3>4. CASE sink < t /\ s <= sink
      <4>1. sink < Len(Sinks)
        BY <3>1, <3>4
      <4>2. sink' = sink + 1 /\ Writing' /\ InHand' = InHand
        BY <2>5, <4>1, PassedOn
      <4>3. s < sink' /\ sink' <= t
        BY <3>1, <3>4, <4>2
      <4> QED
        BY <2>2, <2>3, <4>2, <4>3
    <3>5. CASE sink < s
      <4>1. s # sink /\ t # sink /\ Lacking(s, t) = {}
        BY <1>2, <3>1, <3>5 DEF Lacking
      <4> QED
        BY <2>1, <2>2, <4>1, Served, SetsTaken
    <3> QED
      BY <3>1, <3>2, <3>3, <3>4, <3>5
  <2> QED
    BY <2>4, <2>5
<1> QED
  BY <1>1, <1>2 DEF SublogInv, Sublog

LEMMA QuietSublog ==
  ASSUME SublogInv, Untouched, UNCHANGED failures, ~ Writing, Writing' => sink' = 1
  PROVE  SublogInv'
<1>1. \A s, t \in DOMAIN Sinks : Lacking(s, t) = {}
  BY DEF Lacking
<1>2. \A s \in DOMAIN Sinks : Taken(s)' = Taken(s)
  BY DEF Untouched, NothingTaken
<1>3. \A s, t \in DOMAIN Sinks : s < t =>
        /\ Sublog(Taken(t)', Taken(s)')
        /\ ToSet(Taken(s)') \ ToSet(Taken(t)') \subseteq failures'
  BY <1>1, <1>2, SublogInvDef
<1>4. \A s \in DOMAIN Sinks : IsInjective(Taken(s)')
  BY <1>2, SublogInvDef
<1> QED
  BY <1>3, <1>4 DEF SublogInv, Sublog

-----------------------------------------------------------------------------
(* Spoilt records and the alerts counter.                                  *)

\* A failure is a failure of a record that had none.
LEMMA NewFailure ==
  ASSUME TypeOK, GivenOnce, Writing
  PROVE  /\ InHand \notin failures
         /\ IsFiniteSet(failures \union {InHand}) /\ Cardinality(failures) \in Nat
         /\ Cardinality(failures \union {InHand}) = Cardinality(failures) + 1
<1>1. InHand \notin failures
  BY InHandOutstanding DEF GivenOnce
<1> QED
  BY <1>1, FS_AddElement, FS_CardinalityType DEF TypeOK

LEMMA SinksTear ==
  ASSUME TypeOK, LinesOK, GivenOnce, TearInv, SinkTakes \/ SinkFails \/ StdoutPanics
  PROVE  TearInv'
<1> SUFFICES ASSUME NEW s \in DOMAIN Sinks
             PROVE  /\ IsFiniteSet(SpoiltIn(s)')
                    /\ Cardinality(SpoiltIn(s)') + (IF EndsTorn(s)' THEN 1 ELSE 0)
                         <= Cardinality(failures')
  BY DEF TearInv
<1>1. /\ IsFiniteSet(SpoiltIn(s)) /\ Cardinality(SpoiltIn(s)) \in Nat
      /\ Cardinality(SpoiltIn(s)) + (IF EndsTorn(s) THEN 1 ELSE 0) <= Cardinality(failures)
  BY FS_CardinalityType DEF TearInv
<1>2. /\ Cardinality(failures) \in Nat /\ Cardinality(failures') \in Nat
      /\ Cardinality(failures') = Cardinality(failures) + (IF SinkTakes THEN 0 ELSE 1)
  <2>1. CASE SinkTakes
    BY <2>1, NewFailure, Served
  <2>2. CASE ~ SinkTakes
    BY <2>2, NewFailure, Served
  <2> QED
    BY <2>1, <2>2
<1>3. CASE /\ SpoiltIn(s)' = SpoiltIn(s) /\ EndsTorn(s)' = EndsTorn(s)
  <2> DEFINE torn == IF EndsTorn(s) THEN 1 ELSE 0
  <2>1. (IF EndsTorn(s)' THEN 1 ELSE 0) = torn /\ torn \in Nat
    BY <1>3
  <2> QED
    BY <1>1, <1>2, <1>3, <2>1
<1>4. CASE InHandTaken /\ s = sink
  <2>1. PICK c \in DOMAIN Sinks : c = sink /\ Takes(c, InHand)
    BY <1>4 DEF InHandTaken
  <2>2. /\ ~ EndsTorn(s)'
        /\ SpoiltIn(s)' = SpoiltIn(s) \union (IF EndsTorn(s) THEN {SpoiltLine(InHand)} ELSE {})
    BY <1>4, <2>1 DEF Takes
  <2>3. CASE EndsTorn(s)
    <3>1. SpoiltIn(s)' = SpoiltIn(s) \union {SpoiltLine(InHand)}
      BY <2>2, <2>3
    <3>2. /\ IsFiniteSet(SpoiltIn(s)')
          /\ \/ Cardinality(SpoiltIn(s)') = Cardinality(SpoiltIn(s)) + 1
             \/ Cardinality(SpoiltIn(s)') = Cardinality(SpoiltIn(s))
      BY <1>1, <3>1, FS_AddElement
    <3> QED
      BY <1>1, <1>2, <2>2, <2>3, <3>2
  <2>4. CASE ~ EndsTorn(s)
    BY <1>1, <1>2, <2>2, <2>4
  <2> QED
    BY <2>3, <2>4
<1>5. CASE Torn /\ ~ EndsTorn(s) /\ ~ SinkTakes
  <2>1. SpoiltIn(s)' = SpoiltIn(s)
    BY <1>5 DEF Torn, NothingTaken
  <2> QED
    BY <1>1, <1>2, <1>5, <2>1
<1>6. Untouched => SpoiltIn(s)' = SpoiltIn(s) /\ EndsTorn(s)' = EndsTorn(s)
  BY DEF Untouched, NothingTaken
<1>7. (InHandTaken \/ Torn) /\ s # sink => SpoiltIn(s)' = SpoiltIn(s) /\ EndsTorn(s)' = EndsTorn(s)
  BY DEF InHandTaken, Torn, OnlyFile
<1>8. \/ InHandTaken \/ Untouched \/ (Torn /\ ~ EndsTorn(sink) /\ ~ SinkTakes)
  <2>1. CASE SinkTakes
    BY <2>1, Served
  <2>2. CASE SinkFails /\ ~ SinkTakes
    BY <2>2, SinkFailsOutput
  <2>3. CASE StdoutPanics
    BY <2>3, OutputSame DEF StdoutPanics
  <2> QED
    BY <2>1, <2>2, <2>3
<1> QED
  BY <1>3, <1>4, <1>5, <1>6, <1>7, <1>8

LEMMA QuietTear ==
  ASSUME TearInv, Untouched, UNCHANGED failures
  PROVE  TearInv'
<1>1. \A s \in DOMAIN Sinks : SpoiltIn(s)' = SpoiltIn(s) /\ EndsTorn(s)' = EndsTorn(s)
  BY DEF Untouched, NothingTaken
<1>2. \A s \in DOMAIN Sinks : (IF EndsTorn(s)' THEN 1 ELSE 0) = (IF EndsTorn(s) THEN 1 ELSE 0)
  BY <1>1
<1> QED
  BY <1>1, <1>2 DEF TearInv

AlertFailures == {r \in failures : r.type = "alert"}

LEMMA AlertSets ==
  ASSUME TypeOK, GivenOnce, NEW s \in DOMAIN Sinks
  PROVE  /\ IsFiniteSet(AlertsIn(s)) /\ Cardinality(AlertsIn(s)) \in Nat
         /\ IsFiniteSet(AlertFailures) /\ Cardinality(AlertFailures) \in Nat
<1>1. AlertsIn(s) \in SUBSET ToSet(Taken(s)) /\ AlertFailures \in SUBSET failures
  BY DEF AlertsIn, AlertFailures
<1>2. IsFiniteSet(AlertsIn(s)) /\ IsFiniteSet(AlertFailures)
  BY <1>1, FS_Subset DEF GivenOnce, TypeOK
<1> QED
  BY <1>2, FS_CardinalityType

\* What serving a sink, or failing, does to the two sides of CountInv.
LEMMA AlertsServed ==
  ASSUME TypeOK, LinesOK, GivenOnce, SinkTakes \/ SinkFails \/ StdoutPanics,
         NEW s \in DOMAIN Sinks
  PROVE  /\ Cardinality(AlertsIn(s)')
              = IF InHandTaken /\ s = sink /\ phase = "alert"
                  THEN Cardinality(AlertsIn(s)) + 1 ELSE Cardinality(AlertsIn(s))
         /\ Cardinality(AlertFailures')
              = IF ~ SinkTakes /\ phase = "alert"
                  THEN Cardinality(AlertFailures) + 1 ELSE Cardinality(AlertFailures)
<1>1. Writing /\ (InHandTaken => ~ (sink < sink))
  BY Served, SinkNumbers
<1>2. AlertsIn(s)' = IF InHandTaken /\ s = sink /\ phase = "alert"
                       THEN AlertsIn(s) \union {InHand} ELSE AlertsIn(s)
  <2>1. AlertsIn(s) = {r \in ToSet(Taken(s)) : r.type = "alert"}
        /\ AlertsIn(s)' = {r \in ToSet(Taken(s)') : r.type = "alert"}
    BY DEF AlertsIn
  <2>2. CASE InHandTaken /\ s = sink
    <3>1. PICK c \in DOMAIN Sinks : c = s /\ Takes(c, InHand)
      BY <2>2 DEF InHandTaken
    <3>2. ToSet(Taken(s)') = ToSet(Taken(s)) \union {InHand}
      BY <3>1, TakenType, ToSetOfAppend DEF Takes
    <3>3. phase # "alert" => InHand.type # "alert"
      BY <1>1, RecordInHand DEF Writing
    <3>4. phase = "alert" => InHand.type = "alert"
      BY <1>1, RecordInHand
    <3> QED
      BY <2>1, <2>2, <3>2, <3>3, <3>4
  <2>3. CASE ~ (InHandTaken /\ s = sink)
    BY <2>1, <2>3, Served, SetsTaken
  <2> QED
    BY <2>2, <2>3
<1>3. InHandTaken /\ s = sink => InHand \notin AlertsIn(s)
  BY <1>1, HaveInHand DEF AlertsIn
<1>4. AlertFailures' = IF ~ SinkTakes /\ phase = "alert"
                         THEN AlertFailures \union {InHand} ELSE AlertFailures
  BY <1>1, Served, RecordInHand DEF AlertFailures, Writing
<1>5. InHand \notin AlertFailures
  BY <1>1, NewFailure DEF AlertFailures
<1> QED
  BY <1>2, <1>3, <1>4, <1>5, AlertSets, FS_AddElement

LEMMA SinksCount ==
  ASSUME TypeOK, LinesOK, GivenOnce, CountInv, SinkTakes \/ SinkFails \/ StdoutPanics
  PROVE  CountInv'
<1> SUFFICES ASSUME NEW s \in DOMAIN Sinks
             PROVE  /\ Cardinality(AlertsIn(s)') + Owed(s)' <= alertsTotal'
                    /\ alertsTotal' <= Cardinality(AlertsIn(s)') + Cardinality(AlertFailures')
                                         + Owed(s)'
  BY DEF CountInv, AlertFailures
<1>1. /\ Cardinality(AlertsIn(s)) + Owed(s) <= alertsTotal
      /\ alertsTotal <= Cardinality(AlertsIn(s)) + Cardinality(AlertFailures) + Owed(s)
      /\ alertsTotal' = alertsTotal /\ alertsTotal \in Nat
      /\ Cardinality(AlertsIn(s)) \in Nat /\ Cardinality(AlertFailures) \in Nat
  BY AlertSets DEF CountInv, AlertFailures, TypeOK, SinkTakes, SinkFails, StdoutPanics,
     SinkFrame, counters
<1>2. Owed(s) = (IF phase = "alert" /\ sink <= s THEN 1 ELSE 0)
      /\ Owed(s)' = (IF phase' = "alert" /\ sink' <= s THEN 1 ELSE 0)
  BY DEF Owed
<1>3. sink \in Nat /\ s \in Nat /\ s <= Len(Sinks) /\ Len(Sinks) \in Nat /\ sink \in DOMAIN Sinks
  BY Served, SinkNumbers
<1>4. /\ Cardinality(AlertsIn(s)')
           = IF InHandTaken /\ s = sink /\ phase = "alert"
               THEN Cardinality(AlertsIn(s)) + 1 ELSE Cardinality(AlertsIn(s))
      /\ Cardinality(AlertFailures')
           = IF ~ SinkTakes /\ phase = "alert"
               THEN Cardinality(AlertFailures) + 1 ELSE Cardinality(AlertFailures)
  BY AlertsServed
<1>5. CASE SinkTakes /\ sink < Len(Sinks)
  <2>1. InHandTaken /\ sink' = sink + 1 /\ phase' = phase
    BY <1>5, Served, PassedOn
  <2> QED
    BY <1>1, <1>2, <1>3, <1>4, <1>5, <2>1
<1>6. CASE EndsRecord
  <2>1. Owed(s)' = 0
    BY <1>2, <1>6, RecordEnds DEF Writing
  <2>2. SinkTakes /\ sink = Len(Sinks) => InHandTaken
    BY Served
  <2>3. CASE SinkTakes /\ sink = Len(Sinks)
    BY <1>1, <1>2, <1>3, <1>4, <2>1, <2>2, <2>3
  <2>4. CASE ~ SinkTakes
    BY <1>1, <1>2, <1>3, <1>4, <2>1, <2>4
  <2> QED
    BY <1>6, <2>3, <2>4, PassOnOrEnd DEF EndsRecord, SinkTakes, SinkFails, StdoutPanics
<1> QED
  BY <1>5, <1>6, PassOnOrEnd

\* Elsewhere the counter is raised just as an alert comes to the sinks.
LEMMA QuietCount ==
  ASSUME CountInv, Untouched, UNCHANGED failures, phase # "alert", TypeOK,
         GivenOnce, phase' = "alert" => sink' = 1,
         alertsTotal' = (IF phase' = "alert" THEN alertsTotal + 1 ELSE alertsTotal)
  PROVE  CountInv'
<1> SUFFICES ASSUME NEW s \in DOMAIN Sinks
             PROVE  /\ Cardinality(AlertsIn(s)') + Owed(s)' <= alertsTotal'
                    /\ alertsTotal' <= Cardinality(AlertsIn(s)') + Cardinality(AlertFailures')
                                         + Owed(s)'
  BY DEF CountInv, AlertFailures
<1>1. AlertsIn(s)' = AlertsIn(s) /\ AlertFailures' = AlertFailures
  BY DEF Untouched, NothingTaken, AlertsIn, AlertFailures
<1>2. Owed(s) = 0 /\ Owed(s)' = (IF phase' = "alert" THEN 1 ELSE 0)
  BY SinkNumbers DEF Owed
<1>3. /\ Cardinality(AlertsIn(s)) + Owed(s) <= alertsTotal
      /\ alertsTotal <= Cardinality(AlertsIn(s)) + Cardinality(AlertFailures) + Owed(s)
      /\ alertsTotal \in Nat
      /\ Cardinality(AlertsIn(s)) \in Nat /\ Cardinality(AlertFailures) \in Nat
  BY AlertSets DEF CountInv, AlertFailures, TypeOK
<1> QED
  BY <1>1, <1>2, <1>3

-----------------------------------------------------------------------------
(* No alert lost silently.                                                 *)

Everywhere(e, i) ==
  \A s \in DOMAIN Sinks : \E t \in BOOLEAN : AlertRecord(e, i, t) \in ToSet(Taken(s))
ToCome(e, i) == e = event /\ phase \in {"alerts", "triage", "alert"} /\ i \in alerts

LEMMA LossInvDef ==
  LossInv <=> \A e \in Events, i \in DOMAIN RuleSeq :
                <<e, i>> \in matched /\ ShouldAlert(i) =>
                  \/ <<e, i>> \in refused \/ Everywhere(e, i)
                  \/ FailuresOf(e) # {} \/ ToCome(e, i)
  BY DEF LossInv, Everywhere, ToCome

\* Records and failures are never taken back.
LEMMA EndsAreFinal ==
  ASSUME TypeOK, LinesOK, NEW e, NEW i, InHandTaken \/ NothingTaken,
         failures \subseteq failures'
  PROVE  /\ Everywhere(e, i) => Everywhere(e, i)'
         /\ FailuresOf(e) # {} => FailuresOf(e)' # {}
<1>1. \A s \in DOMAIN Sinks : ToSet(Taken(s)) \subseteq ToSet(Taken(s)')
  BY SetsTaken
<1> QED
  BY <1>1 DEF Everywhere, FailuresOf

LEMMA SinksLoss ==
  ASSUME TypeOK, LinesOK, GivenOnce, LossInv, SinkTakes \/ SinkFails \/ StdoutPanics
  PROVE  LossInv'
<1> SUFFICES ASSUME NEW e \in Events, NEW i \in DOMAIN RuleSeq,
                    <<e, i>> \in matched, ShouldAlert(i)
             PROVE  \/ <<e, i>> \in refused' \/ Everywhere(e, i)'
                    \/ FailuresOf(e)' # {} \/ ToCome(e, i)'
  <2>1. UNCHANGED matched
    BY DEF SinkTakes, SinkFails, StdoutPanics, SinkFrame
  <2> QED
    BY <2>1 DEF LossInv, Everywhere, ToCome
<1>1. UNCHANGED <<refused, event>> /\ failures \subseteq failures' /\ (InHandTaken \/ NothingTaken)
  BY Served DEF SinkTakes, SinkFails, StdoutPanics, SinkFrame
<1>2. <<e, i>> \in refused \/ Everywhere(e, i) \/ FailuresOf(e) # {} \/ ToCome(e, i)
  BY LossInvDef
<1>3. CASE ToCome(e, i)
  <2>1. phase = "alert" /\ e = event /\ i \in alerts /\ Writing
    BY <1>3, Served DEF ToCome, Writing
  <2>2. CASE SinkTakes /\ sink < Len(Sinks)
    BY <2>1, <2>2, PassedOn DEF ToCome
  <2>3. CASE SinkTakes /\ ~ (sink < Len(Sinks)) /\ i # First
    BY <2>1, <2>3 DEF ToCome, SinkTakes, SinkFrame, Others
  <2>4. CASE SinkTakes /\ ~ (sink < Len(Sinks)) /\ i = First
    <3>1. InHand = AlertRecord(e, i, triaged) /\ triaged \in BOOLEAN
      BY <2>1, <2>4, RecordInHand DEF TypeOK
    <3>2. ASSUME NEW s \in DOMAIN Sinks
          PROVE  InHand \in ToSet(Taken(s)')
      <4>1. s < sink \/ s = sink
        BY <2>4, SinkNumbers DEF TypeOK
      <4>2. CASE s = sink
        BY <2>4, <4>2, Served, SetsTaken
      <4>3. CASE s < sink
        <5>1. Taken(s) # <<>> /\ Last(Taken(s)) = InHand /\ Taken(s) \in Seq(Records)
          BY <2>1, <4>3, HaveInHand, TakenType
        <5>2. InHand \in ToSet(Taken(s))
          BY <5>1 DEF Last, ToSet
        <5> QED
          BY <1>1, <5>2, SetsTaken
      <4> QED
        BY <4>1, <4>2, <4>3
    <3> QED
      BY <3>1, <3>2 DEF Everywhere
  <2>5. CASE ~ SinkTakes
    <3>1. InHand \in failures' /\ InHand.event = e
      BY <2>1, <2>5, Served, RecordInHand
    <3> QED
      BY <3>1 DEF FailuresOf
  <2> QED
    BY <2>2, <2>3, <2>4, <2>5
<1> QED
  BY <1>1, <1>2, <1>3, EndsAreFinal

LEMMA EvaluateLoss ==
  ASSUME TypeOK, LinesOK, LossInv, Evaluate
  PROVE  LossInv'
<1> SUFFICES ASSUME NEW e \in Events, NEW i \in DOMAIN RuleSeq,
                    <<e, i>> \in matched', ShouldAlert(i)
             PROVE  \/ <<e, i>> \in refused' \/ Everywhere(e, i)'
                    \/ FailuresOf(e)' # {} \/ ToCome(e, i)'
  BY DEF LossInv, Everywhere, ToCome
<1>1. UNCHANGED <<refused, event, failures>> /\ NothingTaken /\ phase' = "alerts"
  BY EvaluateTypes DEF Evaluate, Untouched
<1>2. <<e, i>> \in matched \/ (e = event /\ i \in alerts')
  BY DEF Evaluate
<1>3. CASE <<e, i>> \in matched
  <2>1. ~ ToCome(e, i)
    BY DEF ToCome, Evaluate
  <2> QED
    BY <1>1, <1>3, <2>1, LossInvDef, EndsAreFinal
<1>4. CASE e = event /\ i \in alerts'
  BY <1>1, <1>4 DEF ToCome
<1> QED
  BY <1>2, <1>3, <1>4

\* Where an alert is passed over, it was turned down or not asked for.
LEMMA PassedOver ==
  ASSUME TypeOK, LinesOK, Skip \/ Suppress \/ Pass \/ Triage \/ Done
  PROVE  \/ /\ alerts' = alerts
            /\ phase' \in {"alerts", "triage", "alert"} \/ alerts = {}
         \/ /\ alerts' = Others /\ phase' = "alerts"
            /\ ShouldAlert(First) => <<event, First>> \in refused'
<1> USE DEF TypeOK, Export
<1>1. CASE Skip
  BY <1>1 DEF Skip
<1>2. CASE Suppress
  BY <1>2 DEF Suppress
<1>3. CASE Pass
  BY <1>3 DEF Pass
<1>4. CASE Triage
  BY <1>4 DEF Triage
<1>5. CASE Done
  BY <1>5 DEF Done
<1> QED
  BY <1>1, <1>2, <1>3, <1>4, <1>5

LEMMA AlertsLoss ==
  ASSUME TypeOK, LinesOK, LossInv, Skip \/ Suppress \/ Pass \/ Triage \/ Done
  PROVE  LossInv'
<1> SUFFICES ASSUME NEW e \in Events, NEW i \in DOMAIN RuleSeq,
                    <<e, i>> \in matched, ShouldAlert(i)
             PROVE  \/ <<e, i>> \in refused' \/ Everywhere(e, i)'
                    \/ FailuresOf(e)' # {} \/ ToCome(e, i)'
  BY AlertSteps DEF LossInv, Everywhere, ToCome
<1>1. UNCHANGED <<event, failures>> /\ NothingTaken /\ refused \subseteq refused'
  BY AlertSteps, AlertTypes DEF Untouched, Skip, Suppress, Pass, Triage, Done
<1>2. <<e, i>> \in refused \/ Everywhere(e, i) \/ FailuresOf(e) # {} \/ ToCome(e, i)
  BY LossInvDef
<1>3. ToCome(e, i) => <<e, i>> \in refused' \/ ToCome(e, i)'
  BY <1>1, PassedOver DEF ToCome, Others
<1> QED
  BY <1>1, <1>2, <1>3, EndsAreFinal

LEMMA LossStep ==
  ASSUME TypeOK, LinesOK, GivenOnce, LossInv,
         (\E e \in Events \ begun : Begin(e)) \/ Process \/ UNCHANGED vars
  PROVE  LossInv'
<1>1. ASSUME NEW e \in Events \ begun, Begin(e)
      PROVE  LossInv'
  <2>1. /\ UNCHANGED <<matched, refused, failures>> /\ NothingTaken
        /\ \A d, i : ~ ToCome(d, i)
    BY <1>1, BeginTypes DEF Begin, ToCome, Untouched
  <2> QED
    BY <2>1, LossInvDef, EndsAreFinal DEF LossInv, Everywhere
<1>2. CASE UNCHANGED vars
  <2>1. UNCHANGED <<event, phase, alerts, matched, refused, failures>> /\ NothingTaken
    BY <1>2, OutputSame DEF vars, history, Untouched
  <2>2. \A e, i : ToCome(e, i)' <=> ToCome(e, i)
    BY <2>1 DEF ToCome
  <2> QED
    BY <2>1, <2>2, LossInvDef, EndsAreFinal DEF LossInv, Everywhere, ToCome
<1> QED
  BY <1>1, <1>2, SinksLoss, EvaluateLoss, AlertsLoss DEF Process

-----------------------------------------------------------------------------
(* The suppressor.                                                         *)

SP == INSTANCE SuppressorProofs WITH
        Rules <- RuleIds, Pids <- {Pid}, Timestamps <- Events,
        MaxGrants     <- MaxEvents * Len(RuleSeq),
        MaxSuppressed <- MaxEvents * Len(RuleSeq)

LEMMA SuppressorAssumptions ==
  SP!ConfigAssumption /\ SP!NumberAssumption /\ SP!BoundAssumption
<1>1. SP!ConfigAssumption
  BY LimitAssumption DEF SP!ConfigAssumption, SP!RateLimitConfig
<1>2. SP!NumberAssumption
  BY LimitAssumption, DispatchAssumption DEF SP!NumberAssumption, Events
<1>3. SP!BoundAssumption
  <2> DEFINE m == MaxEvents  n == Len(RuleSeq)
  <2>1. m \in Nat /\ n \in Nat
    BY DispatchAssumption, SinkNumbers
  <2> HIDE DEF m, n
  <2>2. m * n \in Nat
    BY <2>1
  <2> QED
    BY <2>2 DEF SP!BoundAssumption, m, n
<1> QED
  BY <1>1, <1>2, <1>3

\* The instance the model is built with and the one the proofs are about are one.
LEMMA SameInvariant == Suppressor!IInv <=> SP!IInv
  BY DEF Suppressor!IInv, Suppressor!TypeOK, Suppressor!BucketIsTail,
     Suppressor!BucketBounded, Suppressor!GrantsSkewed, Suppressor!ForgottenExpired,
     Suppressor!RateLimited, Suppressor!DeniedOnlyWhenBusy, Suppressor!Forgotten,
     Suppressor!Keys, Suppressor!Outcomes, Suppressor!Window, Suppressor!Config,
     SP!IInv, SP!TypeOK, SP!BucketIsTail, SP!BucketBounded, SP!GrantsSkewed,
     SP!ForgottenExpired, SP!RateLimited, SP!DeniedOnlyWhenBusy, SP!Forgotten,
     SP!Keys, SP!Outcomes, SP!Window, SP!Config

LEMMA SuppressorInit == Suppressor!Init => Suppressor!IInv
<1>1. Suppressor!Init <=> SP!Init
  BY DEF Suppressor!Init, SP!Init, Suppressor!Keys, SP!Keys
<1> QED
  BY <1>1, SameInvariant, SuppressorAssumptions, SP!InitInv

\* The steps of process_event that reach the suppressor are calls of allow().
LEMMA SuppressorStep ==
  ASSUME Suppressor!IInv, TypeOK, LinesOK, GivenOnce,
         (\E e \in Events \ begun : Begin(e)) \/ Process \/ UNCHANGED vars
  PROVE  /\ Suppressor!IInv'
         /\ \/ UNCHANGED granted
            \/ /\ Pass /\ ShouldAlert(First)
               /\ granted' = [granted EXCEPT ![Key(First)] = Append(granted[Key(First)], event)]
<1>1. ASSUME NEW key \in SP!Keys, NEW ts \in Events,
             Suppressor!Off(key, ts) \/ Suppressor!Deny(key, ts) \/ Suppressor!Grant(key, ts)
      PROVE  SP!Next
  <2>1. SP!Off(key, ts) \/ SP!Deny(key, ts) \/ SP!Grant(key, ts)
    BY <1>1 DEF Suppressor!Off, Suppressor!Deny, Suppressor!Grant, Suppressor!Limit,
       Suppressor!Config, Suppressor!SatMul, Suppressor!SatSub, Suppressor!Called,
       Suppressor!Expires, Suppressor!Kept, SP!Off, SP!Deny, SP!Grant, SP!Limit,
       SP!Config, SP!SatMul, SP!SatSub, SP!Called, SP!Expires, SP!Kept
  <2> QED
    BY <2>1 DEF SP!Next
<1>2. SP!Next \/ UNCHANGED suppressor => Suppressor!IInv'
  <2>1. SP!Next \/ UNCHANGED suppressor => [SP!Next]_(SP!vars)
    BY DEF suppressor, SP!vars
  <2>2. SP!IInv /\ [SP!Next]_(SP!vars) => SP!IInv'
    BY SuppressorAssumptions, SP!StepInv
  <2>3. SP!IInv
    BY SameInvariant
  <2>4. SP!IInv' => Suppressor!IInv'
    BY SameInvariant, PTL
  <2> QED
    BY <2>1, <2>2, <2>3, <2>4
<1>3. CASE Suppress \/ (Pass /\ ShouldAlert(First))
  <2>1. Key(First) \in SP!Keys /\ event \in Events
    BY <1>3, FirstIsAnAlert, SinkNumbers DEF Suppress, Pass, Key, SP!Keys, TypeOK
  <2>2. \/ Suppressor!Off(Key(First), event) \/ Suppressor!Deny(Key(First), event)
        \/ Suppressor!Grant(Key(First), event)
    BY <1>3 DEF Suppress, Pass
  <2>3. Suppress => UNCHANGED granted
    BY DEF Suppress, Suppressor!Off, Suppressor!Deny
  <2>4. Pass /\ ShouldAlert(First) =>
          granted' = [granted EXCEPT ![Key(First)] = Append(granted[Key(First)], event)]
    BY DEF Pass, Suppressor!Grant
  <2> QED
    BY <1>1, <1>2, <1>3, <2>1, <2>2, <2>3, <2>4
<1>4. CASE ~ Suppress /\ ~ (Pass /\ ShouldAlert(First))
  <2>1. UNCHANGED suppressor
    BY <1>4 DEF Process, Begin, SinkTakes, SinkFails, StdoutPanics, SinkFrame, Evaluate,
       Skip, Pass, Triage, Done, vars
  <2> QED
    BY <1>2, <2>1 DEF suppressor
<1> QED
  BY <1>3, <1>4

-----------------------------------------------------------------------------
(* The alerts a sink took and the grants they were given.                  *)

\* All rules of an id ask for alerts, or none does.
LEMMA IdDecides ==
  ASSUME NEW i \in DOMAIN RuleSeq, NEW j \in DOMAIN RuleSeq,
         RuleSeq[i].id = RuleSeq[j].id
  PROVE  ShouldAlert(i) <=> ShouldAlert(j)
<1> DEFINE FirstOf(id) == CHOOSE n \in DOMAIN RuleSeq :
             RuleSeq[n].id = id /\ \A k \in 1..(n - 1) : RuleSeq[k].id # id
<1>1. FirstWith(i) = FirstOf(RuleSeq[i].id) /\ FirstWith(j) = FirstOf(RuleSeq[j].id)
  BY DEF FirstWith
<1> QED
  BY <1>1 DEF ShouldAlert

Grants(id) == granted[<<id, Pid>>]

LEMMA GrantsType ==
  ASSUME Suppressor!IInv, NEW i \in DOMAIN RuleSeq
  PROVE  Grants(RuleSeq[i].id) \in Seq(Events)
  BY SinkNumbers DEF Suppressor!IInv, Suppressor!TypeOK, Suppressor!Keys, Grants

\* An embedding in terms of Grants: f finds the grant of every alert.
Finds(f, s, id) == f \in [AlertsUnder(s, id) -> DOMAIN Grants(id)] /\ Embeds(f, s, id)

LEMMA FindsDef ==
  ASSUME NEW f, NEW s, NEW id
  PROVE  Finds(f, s, id) <=>
           /\ f \in [AlertsUnder(s, id) -> DOMAIN Grants(id)]
           /\ \A n \in AlertsUnder(s, id) : Grants(id)[f[n]] = Taken(s)[n].event
           /\ \A m, n \in AlertsUnder(s, id) : m < n => f[m] < f[n]
           /\ GrantAhead(s, id) => /\ Grants(id) # <<>> /\ Last(Grants(id)) = event
                                   /\ \A n \in AlertsUnder(s, id) : f[n] < Len(Grants(id))
  BY DEF Finds, Embeds, Grants

LEMMA GrantInvDef ==
  GrantInv <=> \A s \in DOMAIN Sinks, i \in DOMAIN RuleSeq :
                 ShouldAlert(i) => \E f : Finds(f, s, RuleSeq[i].id)
  BY DEF GrantInv, Finds, Grants

\* A sink that takes nothing new under an id, nor a grant that is ahead.
LEMMA StillFound ==
  ASSUME NEW f, NEW s, NEW id, Finds(f, s, id),
         AlertsUnder(s, id)' = AlertsUnder(s, id),
         \A n \in AlertsUnder(s, id) : Taken(s)'[n] = Taken(s)[n],
         Grants(id)' = Grants(id),
         GrantAhead(s, id)' => GrantAhead(s, id) /\ event' = event
  PROVE  Finds(f, s, id)'
  BY DEF Finds, Embeds, Grants

\* A grant more.
LEMMA FoundWithGrant ==
  ASSUME NEW f, NEW s, NEW id, Finds(f, s, id), Grants(id) \in Seq(Events),
         AlertsUnder(s, id)' = AlertsUnder(s, id), Taken(s)' = Taken(s),
         event \in Events, event' = event, Grants(id)' = Append(Grants(id), event)
  PROVE  Finds(f, s, id)'
<1> DEFINE g == Grants(id)  h == Append(g, event)
<1>1. /\ Len(g) \in Nat /\ DOMAIN g = 1..Len(g) /\ DOMAIN h = 1..(Len(g) + 1)
      /\ \A n \in 1..Len(g) : h[n] = g[n]
      /\ h # <<>> /\ Len(h) = Len(g) + 1 /\ h[Len(h)] = event
  OBVIOUS
<1>2. /\ f \in [AlertsUnder(s, id) -> DOMAIN g]
      /\ \A n \in AlertsUnder(s, id) : g[f[n]] = Taken(s)[n].event
      /\ \A m, n \in AlertsUnder(s, id) : m < n => f[m] < f[n]
  BY FindsDef
<1> HIDE DEF g, h
<1>3. /\ f \in [AlertsUnder(s, id) -> DOMAIN h]
      /\ \A n \in AlertsUnder(s, id) : h[f[n]] = Taken(s)[n].event
      /\ \A n \in AlertsUnder(s, id) : f[n] < Len(h)
  BY <1>1, <1>2
<1>4. Grants(id)' = h /\ Last(h) = event
  BY <1>1 DEF g, h, Last
<1> QED
  BY <1>1, <1>2, <1>3, <1>4 DEF Finds, Embeds, Grants

\* The alert whose grant was ahead is taken.
LEMMA FoundAhead ==
  ASSUME NEW f, NEW s, NEW id, Finds(f, s, id), GrantAhead(s, id),
         Grants(id) \in Seq(Events), Taken(s) \in Seq(Records),
         NEW r \in Records, r.event = event,
         Taken(s)' = Append(Taken(s), r),
         AlertsUnder(s, id)' = AlertsUnder(s, id) \union {Len(Taken(s)) + 1},
         Grants(id)' = Grants(id), ~ GrantAhead(s, id)'
  PROVE  \E h : Finds(h, s, id)'
<1> DEFINE g == Grants(id)  own == AlertsUnder(s, id)  new == Len(Taken(s)) + 1
           h == [n \in own \union {new} |-> IF n = new THEN Len(g) ELSE f[n]]
<1>1. /\ Len(Taken(s)) \in Nat /\ own \subseteq 1..Len(Taken(s))
      /\ Len(g) \in Nat /\ DOMAIN g = 1..Len(g)
  BY DEF AlertsUnder
<1>2. /\ f \in [own -> DOMAIN g]
      /\ \A n \in own : g[f[n]] = Taken(s)[n].event
      /\ \A m, n \in own : m < n => f[m] < f[n]
      /\ g # <<>> /\ Last(g) = event
      /\ \A n \in own : f[n] < Len(g)
  BY FindsDef
<1>3. /\ Taken(s)'[new] = r
      /\ \A n \in own : Taken(s)'[n] = Taken(s)[n]
  BY <1>1
<1>4. Len(g) \in DOMAIN g /\ g[Len(g)] = event
  BY <1>1, <1>2 DEF Last
<1>5. new \notin own /\ new \in Nat /\ \A n \in own : n \in Nat /\ n < new
  BY <1>1
<1> HIDE DEF g, own, new
<1>6. /\ h \in [own \union {new} -> DOMAIN g]
      /\ h[new] = Len(g) /\ \A n \in own : h[n] = f[n]
  BY <1>2, <1>4, <1>5
<1> HIDE DEF h
<1>7. \A n \in own \union {new} : g[h[n]] = Taken(s)'[n].event
  BY <1>2, <1>3, <1>4, <1>6
<1>8. ASSUME NEW m \in own \union {new}, NEW n \in own \union {new}, m < n
      PROVE  h[m] < h[n]
  <2>1. m \in own
    BY <1>5, <1>8
  <2>2. CASE n \in own
    BY <1>2, <1>6, <1>8, <2>1, <2>2
  <2>3. CASE n = new
    BY <1>2, <1>6, <2>1, <2>3
  <2> QED
    BY <2>2, <2>3
<1>9. AlertsUnder(s, id)' = own \union {new} /\ Grants(id)' = g
  BY DEF own, new, g
<1> QED
  BY <1>6, <1>7, <1>8, <1>9 DEF Finds, Embeds, Grants

\* The record that is taken adds its position to the alerts of its id.
LEMMA AlertsUnderTaken ==
  ASSUME TypeOK, LinesOK, InHandTaken, Writing, NEW s \in DOMAIN Sinks, s = sink, NEW id
  PROVE  /\ Taken(s)' = Append(Taken(s), InHand) /\ Taken(s) \in Seq(Records)
         /\ \A n \in AlertsUnder(s, id) : Taken(s)'[n] = Taken(s)[n]
         /\ AlertsUnder(s, id)' = AlertsUnder(s, id) \union
              (IF phase = "alert" /\ RuleSeq[First].id = id THEN {Len(Taken(s)) + 1} ELSE {})
<1>1. PICK c \in DOMAIN Sinks : c = s /\ Takes(c, InHand)
  BY DEF InHandTaken
<1>2. Taken(s)' = Append(Taken(s), InHand) /\ Taken(s) \in Seq(Records)
  BY <1>1, TakenType DEF Takes
<1>3. InHand.type = "alert" /\ RuleSeq[InHand.rule].id = id
        <=> phase = "alert" /\ RuleSeq[First].id = id
  BY RecordInHand DEF Writing
<1>4. /\ Len(Taken(s)) \in Nat /\ DOMAIN Taken(s) = 1..Len(Taken(s))
      /\ DOMAIN Taken(s)' = 1..(Len(Taken(s)) + 1)
      /\ \A n \in 1..Len(Taken(s)) : Taken(s)'[n] = Taken(s)[n]
      /\ Taken(s)'[Len(Taken(s)) + 1] = InHand
  BY <1>2
<1>5. /\ AlertsUnder(s, id) = {n \in DOMAIN Taken(s) :
                                 Taken(s)[n].type = "alert" /\ RuleSeq[Taken(s)[n].rule].id = id}
      /\ AlertsUnder(s, id)' = {n \in DOMAIN Taken(s)' :
                                  Taken(s)'[n].type = "alert" /\ RuleSeq[Taken(s)'[n].rule].id = id}
  BY DEF AlertsUnder
<1>6. \A n \in AlertsUnder(s, id) : Taken(s)'[n] = Taken(s)[n]
  BY <1>4, <1>5
<1>7. AlertsUnder(s, id)' = AlertsUnder(s, id) \union
        (IF phase = "alert" /\ RuleSeq[First].id = id THEN {Len(Taken(s)) + 1} ELSE {})
  BY <1>3, <1>4, <1>5
<1> QED
  BY <1>2, <1>6, <1>7

LEMMA SinksGrant ==
  ASSUME TypeOK, LinesOK, Suppressor!IInv, GrantInv, SinkTakes \/ SinkFails \/ StdoutPanics
  PROVE  GrantInv'
<1> SUFFICES ASSUME NEW s \in DOMAIN Sinks, NEW i \in DOMAIN RuleSeq, ShouldAlert(i)
             PROVE  \E f : Finds(f, s, RuleSeq[i].id)'
  BY DEF GrantInv, Finds, Grants
<1> DEFINE id == RuleSeq[i].id
<1>1. PICK f : Finds(f, s, id)
  BY GrantInvDef
<1>2. Grants(id)' = Grants(id) /\ event' = event
  BY DEF SinkTakes, SinkFails, StdoutPanics, SinkFrame, suppressor, Grants
<1>3. ~ GrantAhead(s, id)' \/ (GrantAhead(s, id) /\ s # sink)
  <2>1. CASE SinkTakes /\ sink < Len(Sinks)
    <3>1. sink' = sink + 1 /\ UNCHANGED <<phase, alerts>> /\ phase \in {"event", "alert"}
      BY <2>1, PassedOn DEF SinkTakes
    <3>2. sink + 1 <= s => sink <= s /\ s # sink
      BY SinkNumbers DEF TypeOK
    <3> QED
      BY <3>1, <3>2 DEF GrantAhead, First
  <2>2. CASE EndsRecord
    <3>1. phase' \notin {"triage", "alert"}
      BY <2>2, SinkNumbers DEF EndsRecord, SinkTakes, SinkFails, StdoutPanics
    <3> QED
      BY <3>1 DEF GrantAhead
  <2> QED
    BY <2>1, <2>2, PassOnOrEnd
<1>4. CASE InHandTaken /\ s = sink /\ phase = "alert" /\ RuleSeq[First].id = id
  <2>1. First \in DOMAIN RuleSeq /\ InHand \in Records /\ InHand.event = event
    BY <1>4, FirstIsAnAlert, RecordInHand DEF Writing, TypeOK
  <2>2. GrantAhead(s, id)
    BY <1>4, <2>1, IdDecides, SinkNumbers DEF GrantAhead
  <2>3. /\ Taken(s)' = Append(Taken(s), InHand) /\ Taken(s) \in Seq(Records)
        /\ AlertsUnder(s, id)' = AlertsUnder(s, id) \union {Len(Taken(s)) + 1}
    BY <1>4, AlertsUnderTaken DEF Writing
  <2>4. ~ GrantAhead(s, id)'
    BY <1>3, <1>4
  <2> QED
    BY <1>1, <1>2, <2>1, <2>2, <2>3, <2>4, GrantsType, FoundAhead
<1>5. CASE ~ (InHandTaken /\ s = sink /\ phase = "alert" /\ RuleSeq[First].id = id)
  <2>1. /\ AlertsUnder(s, id)' = AlertsUnder(s, id)
        /\ \A n \in AlertsUnder(s, id) : Taken(s)'[n] = Taken(s)[n]
    <3>1. CASE InHandTaken /\ s = sink
      <4>1. /\ \A n \in AlertsUnder(s, id) : Taken(s)'[n] = Taken(s)[n]
            /\ AlertsUnder(s, id)' = AlertsUnder(s, id) \union
                 (IF phase = "alert" /\ RuleSeq[First].id = id THEN {Len(Taken(s)) + 1} ELSE {})
        BY <3>1, Served, AlertsUnderTaken
      <4> QED
        BY <1>5, <3>1, <4>1
    <3>2. CASE ~ (InHandTaken /\ s = sink)
      <4>1. Taken(s)' = Taken(s)
        BY <3>2, Served DEF InHandTaken, NothingTaken, OnlyFile
      <4> QED
        BY <4>1 DEF AlertsUnder
    <3> QED
      BY <3>1, <3>2
  <2>2. Finds(f, s, id)'
    BY <1>1, <1>2, <1>3, <2>1, StillFound
  <2> QED
    BY <2>2
<1> QED
  BY <1>4, <1>5

\* No grant is made, and none is ahead that was not.
LEMMA QuietGrant ==
  ASSUME GrantInv, NothingTaken, UNCHANGED granted,
         \A s, id : GrantAhead(s, id)' => GrantAhead(s, id) /\ event' = event
  PROVE  GrantInv'
<1> SUFFICES ASSUME NEW s \in DOMAIN Sinks, NEW i \in DOMAIN RuleSeq, ShouldAlert(i)
             PROVE  \E f : Finds(f, s, RuleSeq[i].id)'
  BY DEF GrantInv, Finds, Grants
<1> DEFINE id == RuleSeq[i].id
<1>1. PICK f : Finds(f, s, id)
  BY GrantInvDef
<1>2. /\ Taken(s)' = Taken(s) /\ AlertsUnder(s, id)' = AlertsUnder(s, id)
      /\ Grants(id)' = Grants(id)
  BY DEF NothingTaken, AlertsUnder, Grants
<1> QED
  BY <1>1, <1>2, StillFound

\* The suppressor grants the alert in hand.
LEMMA PassGrant ==
  ASSUME TypeOK, LinesOK, Suppressor!IInv, GrantInv, Pass, ShouldAlert(First),
         granted' = [granted EXCEPT ![Key(First)] = Append(granted[Key(First)], event)]
  PROVE  GrantInv'
<1> SUFFICES ASSUME NEW s \in DOMAIN Sinks, NEW i \in DOMAIN RuleSeq, ShouldAlert(i)
             PROVE  \E f : Finds(f, s, RuleSeq[i].id)'
  BY DEF GrantInv, Finds, Grants
<1> DEFINE id == RuleSeq[i].id
<1>1. PICK f : Finds(f, s, id)
  BY GrantInvDef
<1>2. NothingTaken /\ event' = event /\ event \in Events /\ First \in DOMAIN RuleSeq
      /\ (phase' \in {"triage", "alert"} => UNCHANGED alerts)
  BY AlertTypes, AlertSteps, FirstIsAnAlert DEF Untouched, Pass, TypeOK
<1>3. Taken(s)' = Taken(s) /\ AlertsUnder(s, id)' = AlertsUnder(s, id)
  BY <1>2 DEF NothingTaken, AlertsUnder
<1>4. granted \in [Suppressor!Keys -> Seq(Events)]
      /\ <<id, Pid>> \in Suppressor!Keys /\ Key(First) \in Suppressor!Keys
  BY <1>2, SinkNumbers DEF Suppressor!IInv, Suppressor!TypeOK, Suppressor!Keys, Key
<1>5. CASE RuleSeq[First].id = id
  <2>1. Grants(id)' = Append(Grants(id), event)
    BY <1>4, <1>5 DEF Grants, Key
  <2> QED
    BY <1>1, <1>2, <1>3, <2>1, GrantsType, FoundWithGrant
<1>6. CASE RuleSeq[First].id # id
  <2>1. Grants(id)' = Grants(id)
    BY <1>4, <1>6 DEF Grants, Key
  <2>2. ~ GrantAhead(s, id)'
    BY <1>2, <1>6 DEF GrantAhead, First
  <2> QED
    BY <1>1, <1>2, <1>3, <2>1, <2>2, StillFound
<1> QED
  BY <1>5, <1>6

LEMMA GrantStep ==
  ASSUME TypeOK, LinesOK, GivenOnce, Suppressor!IInv, GrantInv,
         (\E e \in Events \ begun : Begin(e)) \/ Process \/ UNCHANGED vars
  PROVE  GrantInv'
<1>1. ASSUME NEW e \in Events \ begun, Begin(e)
      PROVE  GrantInv'
  <2>1. phase' \in {"event", "rules"} /\ UNCHANGED granted /\ NothingTaken
    BY <1>1, BeginTypes DEF Begin, suppressor, Untouched
  <2> QED
    BY <2>1, QuietGrant DEF GrantAhead
<1>2. CASE Evaluate
  <2>1. phase' = "alerts" /\ UNCHANGED granted /\ NothingTaken
    BY <1>2, EvaluateTypes DEF Evaluate, suppressor, Untouched
  <2> QED
    BY <2>1, QuietGrant DEF GrantAhead
<1>3. CASE UNCHANGED vars
  <2>1. UNCHANGED <<phase, sink, alerts, event, granted>> /\ NothingTaken
    BY <1>3, OutputSame DEF vars, suppressor, Untouched
  <2> QED
    BY <2>1, QuietGrant DEF GrantAhead, First
<1>4. CASE Skip \/ Suppress \/ Pass \/ Triage \/ Done
  <2>1. NothingTaken /\ event' = event
    BY <1>4, AlertTypes, AlertSteps DEF Untouched
  <2>2. CASE Pass /\ ShouldAlert(First)
    <3>1. Suppressor!Grant(Key(First), event)
      BY <2>2 DEF Pass
    <3>2. granted' = [granted EXCEPT ![Key(First)] = Append(granted[Key(First)], event)]
      BY <3>1 DEF Suppressor!Grant
    <3> QED
      BY <2>2, <3>2, PassGrant
  <2>3. CASE ~ (Pass /\ ShouldAlert(First))
    <3>1. UNCHANGED granted
      BY <1>4, <2>3 DEF Skip, Suppress, Pass, Triage, Done, suppressor,
         Suppressor!Off, Suppressor!Deny
    <3>2. phase' \in {"triage", "alert"} => UNCHANGED alerts /\ (phase = "triage" \/ Pass)
      BY <1>4, AlertSteps DEF Skip, Suppress, Triage, Done
    <3>3. \A s, id : GrantAhead(s, id)' => GrantAhead(s, id)
      BY <2>3, <3>2 DEF GrantAhead, First
    <3> QED
      BY <2>1, <3>1, <3>3, QuietGrant
  <2> QED
    BY <2>2, <2>3
<1> QED
  BY <1>1, <1>2, <1>3, <1>4, SinksGrant DEF Process

-----------------------------------------------------------------------------
(* The invariant of process_event.                                         *)

LEMMA DispatchInit == Init => DispatchInv
<1> SUFFICES ASSUME Init PROVE DispatchInv
  OBVIOUS
<1>1. /\ \A s \in DOMAIN Sinks : output[s] = <<>>
      /\ phase = "idle" /\ alerts = {} /\ begun = {} /\ failures = {} /\ matched = {}
  BY DEF Init
<1>2. TypeOK
  <2>1. output \in [DOMAIN Sinks -> Seq(Lines)] /\ IsFiniteSet(failures) /\ 1 \in DOMAIN Sinks
    BY <1>1, SinkNumbers, FS_EmptySet DEF Init
  <2>2. 0 \in 0..MaxEvents
    BY DispatchAssumption
  <2>3. /\ emitEvents \in BOOLEAN /\ triageEnabled \in BOOLEAN /\ triaged \in BOOLEAN
        /\ phase = "idle" /\ event = 0 /\ sink = 1 /\ alerts = {}
        /\ eventsTotal = 0 /\ alertsTotal = 0 /\ suppressedTotal = 0
        /\ begun = {} /\ evaluated = {} /\ matched = {} /\ failures = {}
    BY DEF Init
  <2> QED
    BY <2>1, <2>2, <2>3 DEF TypeOK
<1>3. \A s \in DOMAIN Sinks : Taken(s) = <<>> /\ ~ EndsTorn(s) /\ SpoiltIn(s) = {}
  BY <1>1 DEF Taken, EndsTorn, SpoiltIn, ToSet
<1>4. LinesOK
  BY <1>1 DEF LinesOK
<1>5. \A s \in DOMAIN Sinks :
        /\ ToSet(Taken(s)) = {} /\ DOMAIN Taken(s) = {} /\ AlertsIn(s) = {}
        /\ \A id : AlertsUnder(s, id) = {}
  BY <1>3 DEF ToSet, AlertsIn, AlertsUnder
<1>6. GivenOnce
  BY <1>1, <1>5, FS_EmptySet DEF GivenOnce, Writing
<1>7. SublogInv
  BY <1>5 DEF SublogInv, IsInjective
<1>8. CountInv
  <2>1. \A s \in DOMAIN Sinks : Owed(s) = 0
    BY <1>1 DEF Owed
  <2>2. AlertFailures = {} /\ alertsTotal = 0
    BY <1>1 DEF Init, AlertFailures
  <2>3. Cardinality(AlertFailures) = 0 /\ \A s \in DOMAIN Sinks : Cardinality(AlertsIn(s)) = 0
    BY <1>5, <2>2, FS_EmptySet
  <2> QED
    BY <2>1, <2>2, <2>3 DEF CountInv, AlertFailures
<1>9. TearInv
  BY <1>1, <1>3, FS_EmptySet DEF TearInv
<1>10. LossInv
  BY <1>1 DEF LossInv
<1>11. Suppressor!IInv
  BY SuppressorInit DEF Init
<1>12. GrantInv
  <2> SUFFICES ASSUME NEW s \in DOMAIN Sinks, NEW i \in DOMAIN RuleSeq
               PROVE  \E f : Finds(f, s, RuleSeq[i].id)
    BY GrantInvDef
  <2> DEFINE f == [n \in {} |-> n]
  <2>1. f \in [{} -> DOMAIN Grants(RuleSeq[i].id)] /\ ~ GrantAhead(s, RuleSeq[i].id)
    BY <1>1 DEF GrantAhead
  <2>2. Finds(f, s, RuleSeq[i].id)
    BY <1>5, <2>1, FindsDef
  <2> QED
    BY <2>2
<1> QED
  BY <1>2, <1>4, <1>6, <1>7, <1>8, <1>9, <1>10, <1>11, <1>12 DEF DispatchInv

\* Any event that is new will do: what order events come in is Suppressor's concern,
\* and its calls say so.
LEMMA DispatchStep ==
  ASSUME DispatchInv, (\E e \in Events \ begun : Begin(e)) \/ Process \/ UNCHANGED vars
  PROVE  DispatchInv'
<1> USE DEF DispatchInv
<1>1. GivenOnce' /\ LossInv' /\ Suppressor!IInv' /\ GrantInv'
  BY GivenOnceStep, LossStep, SuppressorStep, GrantStep
<1>2. ASSUME NEW e \in Events \ begun, Begin(e)
      PROVE  TypeOK' /\ LinesOK' /\ SublogInv' /\ CountInv' /\ TearInv'
  <2>1. TypeOK' /\ LinesOK' /\ Untouched
    BY <1>2, BeginTypes
  <2>2. UNCHANGED <<failures, alertsTotal>> /\ phase = "idle" /\ phase' # "alert" /\ sink' = 1
    BY <1>2 DEF Begin
  <2> QED
    BY <2>1, <2>2, QuietSublog, QuietCount, QuietTear DEF Writing
<1>3. CASE SinkTakes \/ SinkFails \/ StdoutPanics
  BY <1>1, <1>3, SinkTypes, SinksSublog, SinksCount, SinksTear
<1>4. CASE Evaluate
  <2>1. TypeOK' /\ LinesOK' /\ Untouched
    BY <1>4, EvaluateTypes
  <2>2. UNCHANGED <<failures, alertsTotal>> /\ phase = "rules" /\ phase' = "alerts"
    BY <1>4 DEF Evaluate, counters
  <2> QED
    BY <1>1, <2>1, <2>2, QuietSublog, QuietCount, QuietTear DEF Writing
<1>5. CASE Skip \/ Suppress \/ Pass \/ Triage \/ Done
  <2>1. TypeOK' /\ LinesOK' /\ Untouched
    BY <1>5, AlertTypes
  <2>2. /\ UNCHANGED failures /\ phase \in {"alerts", "triage"} /\ phase' # "event"
        /\ phase' = "alert" => sink' = 1
        /\ alertsTotal' = (IF phase' = "alert" THEN alertsTotal + 1 ELSE alertsTotal)
    BY <1>5, AlertSteps
  <2> QED
    BY <1>1, <2>1, <2>2, QuietSublog, QuietCount, QuietTear DEF Writing
<1>6. CASE UNCHANGED vars
  <2>1. TypeOK' /\ LinesOK' /\ Untouched
    BY <1>6, StutterTypes
  <2>2. /\ UNCHANGED <<failures, phase, sink, alertsTotal>> /\ UNCHANGED InHand
    BY <1>6 DEF vars, counters, history, InHand, First
  <2>3. TearInv'
    BY <2>1, <2>2, QuietTear
  <2>4. SublogInv'
    BY <2>1, <2>2 DEF SublogInv, Writing, Untouched, NothingTaken
  <2>5. CountInv'
    BY <2>1, <2>2 DEF CountInv, Owed, AlertsIn, Untouched, NothingTaken
  <2> QED
    BY <1>1, <2>1, <2>3, <2>4, <2>5
<1> QED
  BY <1>1, <1>2, <1>3, <1>4, <1>5, <1>6 DEF Process

\* What a step of process_event may do to what a sink has taken: nothing, or add the
\* record in hand, and an event's own record ahead of all its alerts.
LEMMA ProcessTaken ==
  ASSUME DispatchInv, Process
  PROVE  /\ UNCHANGED <<event, begun, eventsTotal>> /\ phase # "idle"
         /\ \A s \in DOMAIN Sinks :
              \/ Taken(s)' = Taken(s)
              \/ /\ Taken(s)' = Append(Taken(s), InHand) /\ Taken(s) \in Seq(Records)
                 /\ InHand \in Records /\ InHand.event = event
                 /\ InHand.type = "event" => \A r \in ToSet(Taken(s)) : r.event # event
<1> USE DEF DispatchInv
<1>1. CASE SinkTakes \/ SinkFails \/ StdoutPanics
  <2>1. UNCHANGED <<event, begun, eventsTotal>> /\ phase # "idle"
    BY <1>1 DEF SinkTakes, SinkFails, StdoutPanics, SinkFrame, counters
  <2>2. CASE NothingTaken
    BY <2>1, <2>2 DEF NothingTaken
  <2>3. CASE InHandTaken
    <3>1. PICK c \in DOMAIN Sinks : c = sink /\ Takes(c, InHand) /\ OnlyFile(c)
      BY <2>3 DEF InHandTaken
    <3>2. Taken(c)' = Append(Taken(c), InHand) /\ Taken(c) \in Seq(Records)
      BY <3>1, TakenType DEF Takes
    <3>3. \A s \in DOMAIN Sinks \ {c} : Taken(s)' = Taken(s)
      BY <3>1 DEF OnlyFile
    <3>4. Writing
      BY <1>1, Served
    <3>5. /\ InHand \in Records /\ InHand.event = event
          /\ InHand.type = "event" => phase = "event"
      BY <3>4, RecordInHand DEF Writing
    <3>6. ASSUME phase = "event", NEW r \in ToSet(Taken(c)) PROVE r.event # event
      <4>1. ~ (c < sink) /\ (Outstanding(r) => c < sink)
        BY <3>1, <3>6, SinkNumbers DEF GivenOnce
      <4> QED
        BY <3>6, <4>1 DEF Outstanding
    <3> QED
      BY <2>1, <3>2, <3>3, <3>5, <3>6
  <2> QED
    BY <1>1, <2>2, <2>3, Served
<1>2. CASE Evaluate
  <2>1. /\ UNCHANGED <<event, begun, eventsTotal>> /\ phase # "idle" /\ UNCHANGED output
    BY <1>2 DEF Evaluate, counters
  <2> QED
    BY <2>1, OutputSame DEF Untouched, NothingTaken
<1>3. CASE Skip \/ Suppress \/ Pass \/ Triage \/ Done
  BY <1>3, AlertSteps, OutputSame DEF Untouched, NothingTaken
<1> QED
  BY <1>1, <1>2, <1>3 DEF Process

\* The invariant holds for any rules, sinks and limits, and whatever fails.
THEOREM DispatchInvariant == Spec => []DispatchInv
<1>1. DispatchInv /\ [Next]_vars => DispatchInv'
  BY DispatchStep DEF Next, NextEvent
<1> QED
  BY <1>1, DispatchInit, PTL DEF Spec

\* However sinks fail, each got a part of what the sinks before it got, in the
\* same order and nothing twice, and what it lacks of theirs some sink failed on.
THEOREM SinksNested == Spec => []LaterSinkIsSublog
<1>1. DispatchInv => LaterSinkIsSublog
  <2> SUFFICES ASSUME DispatchInv PROVE LaterSinkIsSublog
    OBVIOUS
  <2>1. BetweenRecords => \A s, t \in DOMAIN Sinks : Lacking(s, t) = {}
    BY DEF BetweenRecords, Lacking, Writing
  <2>2. SublogInv
    BY DEF DispatchInv
  <2> QED
    BY <2>1, <2>2, SublogInvDef DEF LaterSinkIsSublog, Sublog
<1> QED
  BY <1>1, DispatchInvariant, PTL

\* A failed write spoils one record at most, and only of a file.
THEOREM OneRecordSpoilt == Spec => []FailureSpoilsOneRecord
<1>1. DispatchInv => FailureSpoilsOneRecord
  <2> SUFFICES ASSUME DispatchInv, NEW s \in DOMAIN Sinks
               PROVE  LET tears == Cardinality(SpoiltIn(s)) + (IF EndsTorn(s) THEN 1 ELSE 0)
                      IN  /\ tears <= Cardinality(failures)
                          /\ tears > 0 => Sinks[s] = "ndjson"
    BY DEF FailureSpoilsOneRecord
  <2>1. TypeOK /\ LinesOK /\ TearInv
    BY DEF DispatchInv
  <2>2. SpoiltIn(s) # {} => Sinks[s] = "ndjson"
    BY <2>1, LineKinds DEF SpoiltIn, ToSet, LinesOK
  <2>3. EndsTorn(s) => Sinks[s] = "ndjson"
    BY <2>1, OnlyFilesAreTorn
  <2>4. SpoiltIn(s) = {} => Cardinality(SpoiltIn(s)) = 0
    BY FS_EmptySet
  <2> QED
    BY <2>1, <2>2, <2>3, <2>4 DEF TearInv
<1> QED
  BY <1>1, DispatchInvariant, PTL

\* An alert a rule asked for is refused by the suppressor, taken by every sink, or
\* some sink failed while its event was processed.
THEOREM NoAlertLost == Spec => []NoAlertLostSilently
<1>1. DispatchInv => NoAlertLostSilently
  <2> SUFFICES ASSUME DispatchInv, NEW e \in Events, NEW i \in DOMAIN RuleSeq,
                      <<e, i>> \in matched, ShouldAlert(i),
                      phase \notin {"idle", "panicked"} => e # event
               PROVE  \/ <<e, i>> \in refused
                      \/ \A s \in DOMAIN Sinks : \E t \in BOOLEAN : AlertRecord(e, i, t) \in AlertsIn(s)
                      \/ FailuresOf(e) # {}
    BY DEF NoAlertLostSilently
  <2>1. <<e, i>> \in refused \/ Everywhere(e, i) \/ FailuresOf(e) # {}
    BY LossInvDef DEF DispatchInv, ToCome
  <2>2. \A t \in BOOLEAN : AlertRecord(e, i, t).type = "alert"
    BY DEF AlertRecord
  <2> QED
    BY <2>1, <2>2 DEF Everywhere, AlertsIn
<1> QED
  BY <1>1, DispatchInvariant, PTL

\* The alerts counter is never behind a sink, and ahead by the failures at most.
THEOREM AlertsTotalBounded == Spec => []AlertsTotalBounds
<1>1. DispatchInv => AlertsTotalBounds
  <2> SUFFICES ASSUME DispatchInv, NEW s \in DOMAIN Sinks
               PROVE  /\ Cardinality(AlertsIn(s)) <= alertsTotal
                      /\ alertsTotal <= Cardinality(AlertsIn(s)) + Cardinality(AlertFailures)
                                          + (IF phase = "alert" THEN 1 ELSE 0)
    BY DEF AlertsTotalBounds, AlertFailures
  <2>1. /\ Cardinality(AlertsIn(s)) + Owed(s) <= alertsTotal
        /\ alertsTotal <= Cardinality(AlertsIn(s)) + Cardinality(AlertFailures) + Owed(s)
        /\ alertsTotal \in Nat
        /\ Cardinality(AlertsIn(s)) \in Nat /\ Cardinality(AlertFailures) \in Nat
    BY AlertSets DEF DispatchInv, CountInv, AlertFailures, TypeOK
  <2>2. Owed(s) \in {0, IF phase = "alert" THEN 1 ELSE 0}
    BY DEF Owed
  <2> QED
    BY <2>1, <2>2
<1> QED
  BY <1>1, DispatchInvariant, PTL

\* What a sink receives is rate limited like what the suppressor grants.
THEOREM ExportIsRateLimited == Spec => []ExportRateLimited
<1>1. DispatchInv => ExportRateLimited
  <2> SUFFICES ASSUME DispatchInv, NEW s \in DOMAIN Sinks, NEW i \in DOMAIN RuleSeq, ShouldAlert(i),
                      NEW m \in AlertsUnder(s, RuleSeq[i].id),
                      NEW n \in AlertsUnder(s, RuleSeq[i].id), m <= n,
                      Cardinality({k \in AlertsUnder(s, RuleSeq[i].id) : m <= k /\ k < n})
                        >= Suppressor!Config(RuleSeq[i].id).max_alerts
               PROVE  Taken(s)[m].event + Suppressor!Window(RuleSeq[i].id)
                        < Taken(s)[n].event + MaxSkew
    BY DEF ExportRateLimited
  <2> DEFINE id == RuleSeq[i].id  own == AlertsUnder(s, id)
             between == {k \in own : m <= k /\ k < n}
             max == Suppressor!Config(id).max_alerts
  <2>1. PICK f : Finds(f, s, id)
    BY GrantInvDef DEF DispatchInv
  <2>2. /\ f \in [own -> 1..Len(Grants(id))] /\ Len(Grants(id)) \in Nat
        /\ Grants(id)[f[m]] = Taken(s)[m].event /\ Grants(id)[f[n]] = Taken(s)[n].event
        /\ \A j, k \in own : j < k => f[j] < f[k]
        /\ own \subseteq Nat
    <3>1. Grants(id) \in Seq(Events) /\ Taken(s) \in Seq(Records)
      BY GrantsType, TakenType DEF DispatchInv
    <3>2. own \subseteq DOMAIN Taken(s)
      BY DEF AlertsUnder
    <3> QED
      BY <2>1, <3>1, <3>2, FindsDef
  <2>0. Cardinality(between) >= max
    OBVIOUS
  <2> HIDE DEF own
  <2>3. f[m] \in 1..Len(Grants(id)) /\ f[n] \in 1..Len(Grants(id)) /\ f[m] <= f[n]
    <3>1. m \in own /\ n \in own /\ m \in Nat /\ n \in Nat
      BY <2>2 DEF own
    <3> QED
      BY <2>2, <3>1
  <2>4. Cardinality(between) <= f[n] - f[m] /\ Cardinality(between) \in Nat
    <3> DEFINE span == f[m]..(f[n] - 1)  h == [k \in between |-> f[k]]
    <3>1. m \in own /\ n \in own
      BY DEF own
    <3>2. h \in Injection(between, span)
      <4>1. ASSUME NEW k \in between
            PROVE  f[k] \in span
        BY <2>2, <2>3, <3>1
      <4>2. ASSUME NEW j \in between, NEW k \in between, f[j] = f[k]
            PROVE  j = k
        <5>1. j \in own /\ k \in own /\ j \in Nat /\ k \in Nat /\ f[j] \in Nat /\ f[k] \in Nat
          BY <2>2
        <5>2. ~ (j < k) /\ ~ (k < j)
          BY <2>2, <4>2, <5>1
        <5> QED
          BY <5>1, <5>2
      <4> QED
        BY <4>1, <4>2 DEF Injection, IsInjective
    <3>3. IsFiniteSet(span) /\ Cardinality(span) = f[n] - f[m]
      <4>1. f[m] \in Int /\ f[n] - 1 \in Int
        BY <2>2, <2>3
      <4>2. IsFiniteSet(span) /\ Cardinality(span) = IF f[m] > f[n] - 1 THEN 0 ELSE (f[n] - 1) - f[m] + 1
        BY <4>1, FS_Interval
      <4> QED
        BY <2>2, <2>3, <4>2
    <3>4. IsFiniteSet(between) /\ Cardinality(between) <= Cardinality(span)
      BY <3>2, <3>3, FS_Injection
    <3> QED
      BY <3>3, <3>4, FS_CardinalityType
  <2>5. max \in Nat
    BY SinkNumbers, SuppressorAssumptions, SP!ConfigType DEF Suppressor!Config, SP!Config
  <2>6. f[m] + max <= f[n]
    <3> HIDE DEF between, max
    <3> QED
      BY <2>0, <2>2, <2>3, <2>4, <2>5
  <2>7. <<id, Pid>> \in Suppressor!Keys
    BY SinkNumbers DEF Suppressor!Keys
  <2>8. Grants(id)[f[m]] + Suppressor!Window(id) < Grants(id)[f[n]] + MaxSkew
    BY <2>2, <2>3, <2>6, <2>7 DEF DispatchInv, Suppressor!IInv, Suppressor!RateLimited, Grants
  <2> QED
    BY <2>2, <2>8
<1> QED
  BY <1>1, DispatchInvariant, PTL
=============================================================================
