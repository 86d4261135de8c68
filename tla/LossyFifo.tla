----------------------------- MODULE LossyFifo -----------------------------
(***************************************************************************)
(* What the transport from the probes to the main loop promises: a bounded *)
(* first-in-first-out queue that delivers what it accepted exactly once,   *)
(* and turns a record away only when at least Backlog accepted records     *)
(* wait in it.  It makes no promise for the records in it once the reader  *)
(* is gone, or when the reader cannot read them.                           *)
(***************************************************************************)
EXTENDS Naturals, Sequences

CONSTANTS Records, Capacity, Backlog

VARIABLES queue, open, readable, out, lost

vars == <<queue, open, readable, out, lost>>

Init ==
  /\ queue = <<>> /\ out = <<>>
  /\ open = TRUE /\ readable \in BOOLEAN
  /\ lost = 0

Accept(e) ==
  /\ Len(queue) < Capacity
  /\ queue' = Append(queue, e)
  /\ UNCHANGED <<open, readable, out, lost>>

Lose ==
  /\ Len(queue) >= Backlog
  /\ lost' = lost + 1
  /\ UNCHANGED <<queue, open, readable, out>>

Deliver ==
  /\ open /\ readable /\ queue # <<>>
  /\ out' = Append(out, Head(queue))
  /\ queue' = Tail(queue)
  /\ UNCHANGED <<open, readable, lost>>

Discard ==
  /\ ~ (open /\ readable) /\ queue # <<>>
  /\ queue' = Tail(queue)
  /\ UNCHANGED <<open, readable, out, lost>>

\* The reader goes, and a part of the queue with it.
Close ==
  /\ open
  /\ open' = FALSE
  /\ \E n \in 0..Len(queue) : queue' = SubSeq(queue, n + 1, Len(queue))
  /\ UNCHANGED <<readable, out, lost>>

Next == (\E e \in Records : Accept(e)) \/ Lose \/ Deliver \/ Discard \/ Close

Spec == Init /\ [][Next]_vars /\ WF_vars(Deliver)
=============================================================================
