----------------------------- MODULE Transport -----------------------------
(***************************************************************************)
(* The way of a record from a probe to the main loop:                      *)
(*                                                                         *)
(*   probe on a CPU --EVENTS.output--> BPF ring buffer --consumer thread-->*)
(*   tokio mpsc channel --rx.recv--> main loop                             *)
(*                                                                         *)
(* A probe stamps its record before it reserves room in the ring, and      *)
(* ignores a full ring.  The consumer thread (spawn_blocking in main) keeps*)
(* the record it reads in the ring until the send into the channel is over,*)
(* blocks while the channel is full, and ends only when a send fails.      *)
(* A record is identified by its timestamp.                                *)
(***************************************************************************)
EXTENDS Naturals, Sequences, FiniteSets, SequencesExt

CONSTANTS
  Cpus,
  RingCap,     \* records the ring holds: 256 KiB / record size in the code
  ChannelCap,  \* mpsc::channel(4096)
  MaxEvents    \* bound: records stamped

ASSUME CapacityAssumption ==
  RingCap \in Nat \ {0} /\ ChannelCap \in Nat \ {0} /\ MaxEvents \in Nat

NoRecord == 0
Records == Nat \ {NoRecord}

VARIABLES
  now,          \* bpf_ktime_get_ns(): the newest timestamp taken
  scratch,      \* cpu -> the record its probe has stamped and not yet output
  ring,         \* EVENTS: the records not yet released by the consumer
  consumer,     \* where the consumer thread is
  channel,      \* the records between tx and rx
  rxOpen,       \* main has not dropped rx
  attached,     \* the probes are attached: main has not dropped the loader
  sameLayout,   \* records have the size of the SentinelEvent main was built with
  parseErrors,  \* sentinel_ring_parse_errors_total
  written,      \* history: the records the ring took, in order
  dropped,      \* history: the records a full ring turned away
  delivered     \* history: the records rx.recv() returned, in order

kernelVars == <<now, scratch, written, dropped>>
vars == <<now, scratch, ring, consumer, channel, rxOpen, attached, sameLayout,
          parseErrors, written, dropped, delivered>>

ConsumerStates ==
  {"starting", "polling", "sending", "sent", "sleeping", "returned"}

TypeOK ==
  /\ now \in Nat
  /\ scratch \in [Cpus -> Nat]
  /\ ring \in Seq(Records) /\ channel \in Seq(Records)
  /\ written \in Seq(Records) /\ delivered \in Seq(Records)
  /\ dropped \subseteq Records
  /\ consumer \in ConsumerStates
  /\ rxOpen \in BOOLEAN /\ attached \in BOOLEAN /\ sameLayout \in BOOLEAN
  /\ parseErrors \in Nat

Init ==
  /\ now = 0
  /\ scratch = [cpu \in Cpus |-> NoRecord]
  /\ ring = <<>> /\ channel = <<>>
  /\ consumer = "starting"
  /\ rxOpen = TRUE /\ attached = TRUE
  /\ sameLayout \in BOOLEAN
  /\ parseErrors = 0
  /\ written = <<>> /\ dropped = {} /\ delivered = <<>>

-----------------------------------------------------------------------------
(* The probes.                                                             *)

Stamp(cpu) ==
  /\ attached
  /\ now < MaxEvents
  /\ scratch[cpu] = NoRecord
  /\ now' = now + 1
  /\ scratch' = [scratch EXCEPT ![cpu] = now']
  /\ UNCHANGED <<ring, consumer, channel, rxOpen, attached, sameLayout, parseErrors,
                 written, dropped, delivered>>

\* Mutants of Output: a record turned away is tried again; one place of the ring
\* is never used.
OutputAgain(cpu) ==
  /\ scratch[cpu] # NoRecord
  /\ \/ /\ Len(ring) < RingCap
        /\ ring' = Append(ring, scratch[cpu])
        /\ written' = Append(written, scratch[cpu])
        /\ scratch' = [scratch EXCEPT ![cpu] = NoRecord]
        /\ UNCHANGED dropped
     \/ /\ Len(ring) >= RingCap
        /\ dropped' = dropped \union {scratch[cpu]}
        /\ UNCHANGED <<ring, written, scratch>>
  /\ UNCHANGED <<now, consumer, channel, rxOpen, attached, sameLayout, parseErrors,
                 delivered>>

OutputLeavesRoom(cpu) ==
  /\ scratch[cpu] # NoRecord
  /\ scratch' = [scratch EXCEPT ![cpu] = NoRecord]
  /\ \/ /\ Len(ring) < RingCap - 1
        /\ ring' = Append(ring, scratch[cpu])
        /\ written' = Append(written, scratch[cpu])
        /\ UNCHANGED dropped
     \/ /\ Len(ring) >= RingCap - 1
        /\ dropped' = dropped \union {scratch[cpu]}
        /\ UNCHANGED <<ring, written>>
  /\ UNCHANGED <<now, consumer, channel, rxOpen, attached, sameLayout, parseErrors,
                 delivered>>

\* let _ = EVENTS.output(event, 0): a record the ring has no room for is gone,
\* and nothing counts it.
Output(cpu) ==
  /\ scratch[cpu] # NoRecord
  /\ scratch' = [scratch EXCEPT ![cpu] = NoRecord]
  /\ \/ /\ Len(ring) < RingCap
        /\ ring' = Append(ring, scratch[cpu])
        /\ written' = Append(written, scratch[cpu])
        /\ UNCHANGED dropped
     \/ /\ Len(ring) >= RingCap
        /\ dropped' = dropped \union {scratch[cpu]}
        /\ UNCHANGED <<ring, written>>
  /\ UNCHANGED <<now, consumer, channel, rxOpen, attached, sameLayout, parseErrors,
                 delivered>>

-----------------------------------------------------------------------------
(* The consumer thread.                                                    *)

ConsumerFrame == UNCHANGED <<now, scratch, rxOpen, attached, sameLayout,
                             written, dropped, delivered>>

\* main spawns the thread after the probes are attached and the rules loaded.
Start ==
  /\ consumer = "starting"
  /\ consumer' = "polling"
  /\ ConsumerFrame /\ UNCHANGED <<ring, channel, parseErrors>>

\* ring_buf.next() returns a record; it stays in the ring while in use.
Parse ==
  /\ consumer = "polling" /\ ring # <<>>
  /\ sameLayout
  /\ consumer' = "sending"
  /\ ConsumerFrame /\ UNCHANGED <<ring, channel, parseErrors>>

\* Mutant of Reject: the record is released without being counted.
RejectUncounted ==
  /\ consumer = "polling" /\ ring # <<>>
  /\ ~ sameLayout
  /\ ring' = Tail(ring)
  /\ ConsumerFrame /\ UNCHANGED <<consumer, channel, parseErrors>>

\* A record of another size is counted and released.
Reject ==
  /\ consumer = "polling" /\ ring # <<>>
  /\ ~ sameLayout
  /\ parseErrors' = parseErrors + 1
  /\ ring' = Tail(ring)
  /\ ConsumerFrame /\ UNCHANGED <<consumer, channel>>

\* Mutant of Send: the record is never released from the ring.
SendAndKeep ==
  /\ consumer = "sending"
  /\ rxOpen /\ Len(channel) < ChannelCap
  /\ channel' = Append(channel, Head(ring))
  /\ consumer' = "polling"
  /\ ConsumerFrame /\ UNCHANGED <<ring, parseErrors>>

\* tx.blocking_send(event) waits for room in the channel.
Send ==
  /\ consumer = "sending"
  /\ rxOpen /\ Len(channel) < ChannelCap
  /\ channel' = Append(channel, Head(ring))
  /\ consumer' = "sent"
  /\ ConsumerFrame /\ UNCHANGED <<ring, parseErrors>>

\* Mutants of SendFails: the thread tries the record again; it goes on to the
\* next record.
SendFailsAndRetries ==
  /\ consumer = "sending"
  /\ ~ rxOpen
  /\ consumer' = "polling"
  /\ ConsumerFrame /\ UNCHANGED <<ring, channel, parseErrors>>

SendFailsAndGoesOn ==
  /\ consumer = "sending"
  /\ ~ rxOpen
  /\ consumer' = "polling"
  /\ ring' = Tail(ring)
  /\ ConsumerFrame /\ UNCHANGED <<channel, parseErrors>>

\* blocking_send fails: the thread returns, and the record with it.
SendFails ==
  /\ consumer = "sending"
  /\ ~ rxOpen
  /\ consumer' = "returned"
  /\ ring' = Tail(ring)
  /\ ConsumerFrame /\ UNCHANGED <<channel, parseErrors>>

\* The end of the loop body drops the item, which frees its place in the ring.
Release ==
  /\ consumer = "sent"
  /\ ring' = Tail(ring)
  /\ consumer' = "polling"
  /\ ConsumerFrame /\ UNCHANGED <<channel, parseErrors>>

\* The ring is empty: sleep for 10 ms, then look again.
Sleep ==
  /\ consumer = "polling" /\ ring = <<>>
  /\ consumer' = "sleeping"
  /\ ConsumerFrame /\ UNCHANGED <<ring, channel, parseErrors>>

\* Mutant of Wake: the thread looks at the ring no more.
OversleepingWake ==
  /\ consumer = "sleeping"
  /\ consumer' = "sleeping"
  /\ ConsumerFrame /\ UNCHANGED <<ring, channel, parseErrors>>

Wake ==
  /\ consumer = "sleeping"
  /\ consumer' = "polling"
  /\ ConsumerFrame /\ UNCHANGED <<ring, channel, parseErrors>>

Consume == Start \/ Parse \/ Reject \/ Send \/ SendFails \/ Release \/ Sleep \/ Wake

-----------------------------------------------------------------------------
(* The main loop, as far as the transport sees it.                         *)

Recv ==
  /\ rxOpen /\ consumer # "starting"
  /\ channel # <<>>
  /\ delivered' = Append(delivered, Head(channel))
  /\ channel' = Tail(channel)
  /\ UNCHANGED <<now, scratch, ring, consumer, rxOpen, attached, sameLayout,
                 parseErrors, written, dropped>>

\* Mutant of CloseRx: what waits in the channel stays there.
CloseRxUndrained ==
  /\ rxOpen /\ consumer # "starting"
  /\ rxOpen' = FALSE
  /\ UNCHANGED <<now, scratch, ring, consumer, channel, attached, sameLayout,
                 parseErrors, written, dropped, delivered>>

\* main returns: rx is dropped with what it holds, the loader later.
CloseRx ==
  /\ rxOpen /\ consumer # "starting"
  /\ rxOpen' = FALSE
  /\ channel' = <<>>
  /\ UNCHANGED <<now, scratch, ring, consumer, attached, sameLayout, parseErrors,
                 written, dropped, delivered>>

Detach ==
  /\ attached /\ ~ rxOpen
  /\ attached' = FALSE
  /\ UNCHANGED <<now, scratch, ring, consumer, channel, rxOpen, sameLayout,
                 parseErrors, written, dropped, delivered>>

Next ==
  \/ \E cpu \in Cpus : Stamp(cpu) \/ Output(cpu)
  \/ Consume
  \/ Recv \/ CloseRx \/ Detach

Spec == Init /\ [][Next]_vars

\* The scheduler runs the consumer thread whenever it can take a step, and the
\* main loop polls rx again after every event.  Probes need not fire.
FairSpec == Spec /\ WF_vars(Consume) /\ WF_vars(Recv)

-----------------------------------------------------------------------------
\* The part of the ring whose records are not in the channel yet: while the
\* consumer is at "sent" the first record is in both.
Pending == IF consumer = "sent" THEN Tail(ring) ELSE ring

InFlight(cpu) == IF scratch[cpu] = NoRecord THEN {} ELSE {scratch[cpu]}

\* Nothing the ring took is lost, repeated or reordered before it reaches the
\* main loop, in spite of the record that is in the ring and in the channel at
\* once; when main is gone, one block is missing between what it received and
\* what is left in the ring.
AcceptedInOrder ==
  sameLayout =>
    IF rxOpen THEN written = delivered \o channel \o Pending
              ELSE \E gone \in SubSeqs(written) : written = delivered \o gone \o Pending

\* Every timestamp taken belongs to one record, which is in flight, was turned
\* away by a full ring, or was written exactly once.
EveryRecordAccounted ==
  /\ 1..now = ToSet(written) \union dropped \union UNION {InFlight(cpu) : cpu \in Cpus}
  /\ IsInjective(written)
  /\ ToSet(written) \intersect dropped = {}
  /\ \A cpu \in Cpus : InFlight(cpu) \intersect (ToSet(written) \union dropped) = {}

\* Records main cannot read reach it never, and each one it met is counted.
UnreadableCounted ==
  ~ sameLayout => /\ delivered = <<>> /\ channel = <<>>
                  /\ Len(written) = parseErrors + Len(ring)

\* Ring and channel stay within their sizes under back pressure, and whenever the
\* consumer thread sends or releases a record, that record is still in the ring.
Capacities ==
  /\ Len(ring) <= RingCap
  /\ Len(channel) <= ChannelCap
  /\ consumer \in {"sending", "sent"} => ring # <<>>

\* Two CPUs never have the same record in hand.
ScratchDistinct ==
  \A c, d \in Cpus : c # d /\ scratch[c] # NoRecord => scratch[c] # scratch[d]

\* The consumer never has an unreadable record in hand.
ReadableInHand == ~ sameLayout => consumer \notin {"sending", "sent"}

\* Nothing is in the channel once main has dropped its end.
ClosedIsEmpty == ~ rxOpen => channel = <<>>

\* The inductive invariant of the transport.
IInv == /\ TypeOK
        /\ Capacities
        /\ AcceptedInOrder
        /\ EveryRecordAccounted
        /\ ScratchDistinct
        /\ UnreadableCounted
        /\ ReadableInHand
        /\ ClosedIsEmpty
        /\ now <= MaxEvents

\* The transport is the bounded queue of LossyFifo.
Fifo == INSTANCE LossyFifo WITH
          Records  <- 1..MaxEvents,
          Capacity <- RingCap + ChannelCap,
          Backlog  <- RingCap - 1,
          queue    <- channel \o Pending,
          open     <- rxOpen,
          readable <- sameLayout,
          out      <- delivered,
          lost     <- Cardinality(dropped)
ImplementsLossyFifo == Fifo!Spec

\* Once main has dropped rx, one more record is enough to end the consumer
\* thread, which the runtime waits for before the process can exit.
ConsumerStops ==
  (~ rxOpen /\ sameLayout /\ Pending # <<>>) ~> consumer = "returned"

\* README.md: "every kernel event is parsed, enriched, optionally emitted to
\* sinks, and counted in Prometheus": as long as the main loop runs, a record is
\* received (and counted as an event), counted as unreadable, or on its way.
EveryRecordCounted ==
  rxOpen => now = Len(delivered) + parseErrors + Len(channel \o Pending)
                    + Cardinality({cpu \in Cpus : scratch[cpu] # NoRecord})
=============================================================================
