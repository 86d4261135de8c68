---------------------------- MODULE MetricsServer ---------------------------
(***************************************************************************)
(* The metrics endpoint (metrics.rs): serve_metrics accepts connections    *)
(* and spawns a task for each, which reads the request, gathers the        *)
(* counters and replies.  The main loop and the consumer thread increment  *)
(* the counters meanwhile: gather() reads them one after the other, in the *)
(* order of a hash map.                                                    *)
(***************************************************************************)
EXTENDS Integers, FiniteSets

CONSTANTS
  Families,    \* the counters: events, alerts, suppressed, parse errors
  Clients,     \* who scrapes, one connection at a time
  MaxCount     \* bound: increments explored per counter

ASSUME CountAssumption == MaxCount \in Nat

VARIABLES
  count,     \* the counters
  server,    \* the task of serve_metrics
  conn,      \* the connection of each client
  read,      \* what the task of a connection has gathered so far
  shown,     \* history: the highest value a reply has shown of each counter
  floor      \* history: shown at the time the gathering began

vars == <<count, server, conn, read, shown, floor>>

Zero == [f \in Families |-> 0]

TypeOK ==
  /\ count \in [Families -> 0..MaxCount]
  /\ server \in {"starting", "accepting", "failed"}
  /\ conn \in [Clients -> [asked : BOOLEAN, at : {"closed", "backlog", "task", "gathering"}]]
  /\ read \in [Clients -> UNION {[some -> 0..MaxCount] : some \in SUBSET Families}]
  /\ shown \in [Families -> Nat] /\ floor \in [Clients -> [Families -> Nat]]

NothingRead == [f \in {} |-> 0]
Closed == [at |-> "closed", asked |-> FALSE]

Init ==
  /\ count = Zero /\ shown = Zero
  /\ server = "starting"
  /\ conn = [c \in Clients |-> Closed]
  /\ read = [c \in Clients |-> NothingRead]
  /\ floor = [c \in Clients |-> Zero]

\* inc_event, inc_alert, inc_suppressed, inc_ring_parse_error
Increment(f) ==
  /\ count[f] < MaxCount
  /\ count' = [count EXCEPT ![f] = count[f] + 1]
  /\ UNCHANGED <<server, conn, read, shown, floor>>

Bind ==
  /\ server = "starting"
  /\ server' \in {"accepting", "failed"}
  /\ UNCHANGED <<count, conn, read, shown, floor>>

\* The clients: the kernel queues a connection until it is accepted, and keeps
\* what is sent over it.  A client asks, hangs up (read returns as well), or
\* keeps silent.
Connect(c) ==
  /\ server = "accepting" /\ conn[c].at = "closed"
  /\ conn' = [conn EXCEPT ![c].at = "backlog"]
  /\ UNCHANGED <<count, server, read, shown, floor>>

Ask(c) ==
  /\ conn[c].at \in {"backlog", "task"} /\ ~ conn[c].asked
  /\ conn' = [conn EXCEPT ![c].asked = TRUE]
  /\ UNCHANGED <<count, server, read, shown, floor>>

\* Mutant of Accept: the connection is served before the next one is accepted.
AcceptInline(c) ==
  /\ server = "accepting" /\ conn[c].at = "backlog"
  /\ \A d \in Clients : conn[d].at \in {"closed", "backlog"}
  /\ conn' = [conn EXCEPT ![c].at = "task"]
  /\ UNCHANGED <<count, server, read, shown, floor>>

Accept(c) ==
  /\ server = "accepting" /\ conn[c].at = "backlog"
  /\ conn' = [conn EXCEPT ![c].at = "task"]
  /\ UNCHANGED <<count, server, read, shown, floor>>

\* accept() fails: the listener is dropped, and what waits with it; the tasks go on.
AcceptFails ==
  /\ server = "accepting"
  /\ server' = "failed"
  /\ conn' = [c \in Clients |-> IF conn[c].at = "backlog" THEN Closed ELSE conn[c]]
  /\ UNCHANGED <<count, read, shown, floor>>

ReadRequest(c) ==
  /\ conn[c].at = "task" /\ conn[c].asked
  /\ conn' = [conn EXCEPT ![c].at = "gathering"]
  /\ floor' = [floor EXCEPT ![c] = shown]
  /\ UNCHANGED <<count, server, read, shown>>

\* Mutant of Gather: what has been read is taken from the counter.
GatherResets(c, f) ==
  /\ conn[c].at = "gathering" /\ f \notin DOMAIN read[c]
  /\ read' = [read EXCEPT ![c] = [g \in DOMAIN read[c] \union {f} |->
                                    IF g = f THEN count[f] ELSE read[c][g]]]
  /\ count' = [count EXCEPT ![f] = 0]
  /\ UNCHANGED <<server, conn, shown, floor>>

Gather(c, f) ==
  /\ conn[c].at = "gathering" /\ f \notin DOMAIN read[c]
  /\ read' = [read EXCEPT ![c] = [g \in DOMAIN read[c] \union {f} |->
                                    IF g = f THEN count[f] ELSE read[c][g]]]
  /\ UNCHANGED <<count, server, conn, shown, floor>>

\* The reply is written and the task ends, which closes the connection.
Reply(c) ==
  /\ conn[c].at = "gathering" /\ DOMAIN read[c] = Families
  /\ shown' = [f \in Families |-> IF read[c][f] > shown[f] THEN read[c][f] ELSE shown[f]]
  /\ read' = [read EXCEPT ![c] = NothingRead]
  /\ conn' = [conn EXCEPT ![c] = Closed]
  /\ UNCHANGED <<count, server, floor>>

Serve(c) == Accept(c) \/ ReadRequest(c) \/ (\E f \in Families : Gather(c, f)) \/ Reply(c)

Next ==
  \/ \E f \in Families : Increment(f)
  \/ Bind \/ AcceptFails
  \/ \E c \in Clients : Connect(c) \/ Ask(c) \/ Serve(c)

\* The runtime runs every task that can go on; clients and failures are free.
Spec == Init /\ [][Next]_vars /\ \A c \in Clients : WF_vars(Serve(c))

-----------------------------------------------------------------------------
\* A counter never seems to fall: what a scrape reads is not less than what any
\* reply sent before the scrape began has shown, and not more than the counter,
\* though counters grow while they are read and scrapes overlap.
ScrapesNeverFallBack ==
  \A c \in Clients : \A f \in DOMAIN read[c] :
    floor[c][f] <= read[c][f] /\ read[c][f] <= count[f]

\* A client that asks is answered, whatever silent clients hold connections
\* open, unless the listener fails before its connection is accepted.
AskersAnswered ==
  \A c \in Clients : conn[c].asked ~> conn[c].at = "closed"
=============================================================================
