---------------------------- MODULE MetricsProofs ---------------------------
(***************************************************************************)
(* For any counters and any clients whose scrapes overlap, no counter      *)
(* seems to fall from one reply to a scrape that began after it.           *)
(***************************************************************************)
EXTENDS MetricsServer, TLAPS

\* Why counters do not seem to fall: nothing shown exceeds its counter.
MetricsInv ==
  /\ TypeOK
  /\ \A f \in Families : shown[f] <= count[f]
  /\ \A c \in Clients, f \in Families : floor[c][f] <= shown[f]
  /\ \A c \in Clients : conn[c].at # "gathering" => DOMAIN read[c] = {}
  /\ ScrapesNeverFallBack

\* What a scrape can have read.
Readings == UNION {[some -> 0..MaxCount] : some \in SUBSET Families}

LEMMA ReadingsForm ==
  /\ NothingRead \in Readings /\ DOMAIN NothingRead = {}
  /\ \A map \in Readings : DOMAIN map \subseteq Families /\ \A f \in DOMAIN map : map[f] \in 0..MaxCount
<1>1. NothingRead \in [{} -> 0..MaxCount] /\ DOMAIN NothingRead = {}
  BY DEF NothingRead
<1>2. NothingRead \in Readings
  BY <1>1 DEF Readings
<1>3. ASSUME NEW map \in Readings
      PROVE  DOMAIN map \subseteq Families /\ \A f \in DOMAIN map : map[f] \in 0..MaxCount
  <2>1. PICK some \in SUBSET Families : map \in [some -> 0..MaxCount]
    BY DEF Readings
  <2> QED
    BY <2>1
<1> QED
  BY <1>1, <1>2, <1>3

\* One more counter read.
LEMMA ReadOn ==
  ASSUME NEW map \in Readings, NEW f \in Families, NEW n \in 0..MaxCount
  PROVE  [g \in DOMAIN map \union {f} |-> IF g = f THEN n ELSE map[g]] \in Readings
<1> DEFINE on == [g \in DOMAIN map \union {f} |-> IF g = f THEN n ELSE map[g]]
<1>1. DOMAIN map \union {f} \in SUBSET Families
  BY ReadingsForm
<1>2. on \in [DOMAIN map \union {f} -> 0..MaxCount]
  BY ReadingsForm
<1> QED
  BY <1>1, <1>2 DEF Readings

LEMMA InitInv == Init => MetricsInv
<1> SUFFICES ASSUME Init PROVE MetricsInv
  OBVIOUS
<1>1. read \in [Clients -> Readings] /\ \A c \in Clients : DOMAIN read[c] = {}
  BY ReadingsForm DEF Init
<1>2. TypeOK
  BY <1>1, CountAssumption DEF Init, TypeOK, Zero, Closed, Readings
<1> QED
  BY <1>1, <1>2 DEF Init, MetricsInv, ScrapesNeverFallBack, Zero, Closed

LEMMA StepInv ==
  ASSUME MetricsInv, [Next]_vars
  PROVE  MetricsInv'
<1> USE CountAssumption
<1>0. read \in [Clients -> Readings]
  BY DEF MetricsInv, TypeOK, Readings
<1>1. ASSUME NEW f \in Families, Increment(f) PROVE MetricsInv'
  <2>1. TypeOK'
    BY <1>1 DEF Increment, MetricsInv, TypeOK
  <2>2. \A g \in Families : count[g] <= count'[g]
    BY <1>1 DEF Increment, MetricsInv, TypeOK
  <2>3. \A c \in Clients : \A g \in DOMAIN read[c] : g \in Families /\ read[c][g] \in Nat
    BY <1>0, ReadingsForm
  <2> QED
    BY <1>1, <2>1, <2>2, <2>3 DEF Increment, MetricsInv, TypeOK, ScrapesNeverFallBack
\* The connections move, and nothing is read or shown.
<1>2. ASSUME UNCHANGED <<count, read, shown, floor>>, TypeOK',
             \A c \in Clients : conn[c].at = "gathering" => conn'[c].at = "gathering"
      PROVE  MetricsInv'
  BY <1>2 DEF MetricsInv, ScrapesNeverFallBack
<1>3. CASE Bind \/ AcceptFails
  <2>1. CASE Bind
    BY <1>2, <1>3, <2>1 DEF Bind, MetricsInv, TypeOK
  <2>2. CASE AcceptFails
    <3>1. conn' = [c \in Clients |-> IF conn[c].at = "backlog" THEN Closed ELSE conn[c]]
      BY <2>2 DEF AcceptFails
    <3>2. conn' \in [Clients -> [asked : BOOLEAN, at : {"closed", "backlog", "task", "gathering"}]]
      BY <3>1 DEF MetricsInv, TypeOK, Closed
    <3>3. TypeOK'
      BY <2>2, <3>2 DEF AcceptFails, MetricsInv, TypeOK
    <3> QED
      BY <1>2, <2>2, <3>1, <3>3 DEF AcceptFails
  <2> QED
    BY <1>3, <2>1, <2>2
<1>4. ASSUME NEW c \in Clients, Connect(c) \/ Ask(c) \/ Accept(c) PROVE MetricsInv'
  <2>1. CASE Connect(c)
    <3>1. /\ conn' = [conn EXCEPT ![c].at = "backlog"] /\ conn[c].at = "closed"
          /\ UNCHANGED <<count, server, read, shown, floor>>
      BY <2>1 DEF Connect
    <3>2. TypeOK'
      BY <3>1 DEF MetricsInv, TypeOK
    <3> QED
      BY <1>2, <3>1, <3>2 DEF MetricsInv, TypeOK
  <2>2. CASE Ask(c)
    <3>1. /\ conn' = [conn EXCEPT ![c].asked = TRUE]
          /\ UNCHANGED <<count, server, read, shown, floor>>
      BY <2>2 DEF Ask
    <3>2. TypeOK'
      BY <3>1 DEF MetricsInv, TypeOK
    <3> QED
      BY <1>2, <3>1, <3>2 DEF MetricsInv, TypeOK
  <2>3. CASE Accept(c)
    <3>1. /\ conn' = [conn EXCEPT ![c].at = "task"] /\ conn[c].at = "backlog"
          /\ UNCHANGED <<count, server, read, shown, floor>>
      BY <2>3 DEF Accept
    <3>2. TypeOK'
      BY <3>1 DEF MetricsInv, TypeOK
    <3> QED
      BY <1>2, <3>1, <3>2 DEF MetricsInv, TypeOK
  <2> QED
    BY <1>4, <2>1, <2>2, <2>3
<1>5. ASSUME NEW c \in Clients, ReadRequest(c) PROVE MetricsInv'
  <2>1. TypeOK' /\ DOMAIN read[c] = {}
    BY <1>5 DEF ReadRequest, MetricsInv, TypeOK
  <2> QED
    BY <1>5, <2>1 DEF ReadRequest, MetricsInv, TypeOK, ScrapesNeverFallBack
<1>6. ASSUME NEW c \in Clients, NEW f \in Families, Gather(c, f) PROVE MetricsInv'
  <2>1. /\ read' = [read EXCEPT ![c] = [g \in DOMAIN read[c] \union {f} |->
                                         IF g = f THEN count[f] ELSE read[c][g]]]
        /\ UNCHANGED <<count, server, conn, shown, floor>>
        /\ conn[c].at = "gathering"
    BY <1>6 DEF Gather
  <2>2. read' \in [Clients -> Readings]
    <3>1. read[c] \in Readings /\ count[f] \in 0..MaxCount
      BY <1>0 DEF MetricsInv, TypeOK
    <3>2. [g \in DOMAIN read[c] \union {f} |-> IF g = f THEN count[f] ELSE read[c][g]] \in Readings
      BY <3>1, ReadOn
    <3> QED
      BY <1>0, <2>1, <3>2
  <2>3. TypeOK'
    BY <2>1, <2>2 DEF MetricsInv, TypeOK, Readings
  <2>4. floor[c][f] <= count[f]
    BY DEF MetricsInv, TypeOK
  <2>5. ScrapesNeverFallBack'
    BY <1>0, <2>1, <2>4 DEF MetricsInv, ScrapesNeverFallBack, TypeOK
  <2> QED
    BY <1>0, <2>1, <2>3, <2>5 DEF MetricsInv
<1>7. ASSUME NEW c \in Clients, Reply(c) PROVE MetricsInv'
  <2>1. /\ DOMAIN read[c] = Families
        /\ shown' = [f \in Families |-> IF read[c][f] > shown[f] THEN read[c][f] ELSE shown[f]]
        /\ read' = [read EXCEPT ![c] = NothingRead]
        /\ conn' = [conn EXCEPT ![c] = Closed]
        /\ UNCHANGED <<count, server, floor>>
    BY <1>7 DEF Reply
  <2>2. \A f \in Families : read[c][f] \in Nat /\ read[c][f] <= count[f]
    BY <1>0, <2>1, ReadingsForm DEF MetricsInv, ScrapesNeverFallBack
  <2>3. read' \in [Clients -> Readings]
    BY <1>0, <2>1, ReadingsForm
  <2>4. \A f \in Families : shown'[f] \in Nat /\ shown[f] <= shown'[f] /\ shown'[f] <= count'[f]
    BY <2>1, <2>2 DEF MetricsInv, TypeOK
  <2>5. TypeOK'
    BY <2>1, <2>3, <2>4 DEF MetricsInv, TypeOK, Closed, Readings
  <2>6. \A d \in Clients, f \in Families : floor'[d][f] <= shown'[f]
    BY <2>1, <2>4 DEF MetricsInv, TypeOK
  <2>7. \A d \in Clients : conn'[d].at # "gathering" => DOMAIN read'[d] = {}
    BY <1>0, <2>1, ReadingsForm DEF MetricsInv, TypeOK
  <2>8. ScrapesNeverFallBack'
    BY <1>0, <2>1, ReadingsForm DEF MetricsInv, ScrapesNeverFallBack, TypeOK
  <2> QED
    BY <2>4, <2>5, <2>6, <2>7, <2>8 DEF MetricsInv
<1>8. CASE UNCHANGED vars
  BY <1>8 DEF vars, MetricsInv, TypeOK, ScrapesNeverFallBack
<1> QED
  BY <1>1, <1>3, <1>4, <1>5, <1>6, <1>7, <1>8 DEF Next, Serve

\* Nothing a reply has shown exceeds its counter, nor what a scrape starts from.
THEOREM MetricsInvariant == Spec => []MetricsInv
  BY InitInv, StepInv, PTL DEF Spec

\* No counter seems to fall, whatever scrapes overlap and whatever is counted
\* while the counters are read one after the other.
THEOREM ScrapesNeverFallBackEver == Spec => []ScrapesNeverFallBack
<1>1. MetricsInv => ScrapesNeverFallBack
  BY DEF MetricsInv
<1> QED
  BY <1>1, MetricsInvariant, PTL
=============================================================================
