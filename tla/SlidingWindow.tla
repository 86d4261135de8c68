--------------------------- MODULE SlidingWindow ---------------------------
(***************************************************************************)
(* What the suppressor promises, without buckets, expiry or saturation: it *)
(* remembers every grant for ever.  A call is granted only if fewer than   *)
(* max_alerts grants of its key lie in the window that ends at the call's  *)
(* timestamp, and refused only if that many do.  Where calls may come out  *)
(* of timestamp order by Slack, the edge of the window is that blurred;    *)
(* with Slack = 0 every call has one possible answer.                      *)
(***************************************************************************)
EXTENDS Integers, Sequences, FiniteSets

CONSTANTS
  Keys,        \* what is limited separately
  Timestamps,
  MaxAlerts,   \* key -> how many grants a window may hold
  Span,        \* key -> the length of the window, in the unit of Timestamps
  Slack        \* how far calls may be out of order

VARIABLES grants, refused

vars == <<grants, refused>>

\* The grants in the window of length span that ends at ts.
Within(key, ts, span) == {i \in DOMAIN grants[key] : grants[key][i] + span >= ts}

Init == grants = [key \in Keys |-> <<>>] /\ refused = {}

\* refused remembers the last call that was turned down, if it was the last.
Allow(key, ts) ==
  /\ Cardinality(Within(key, ts, Span[key] - Slack)) < MaxAlerts[key]
  /\ grants' = [grants EXCEPT ![key] = Append(grants[key], ts)]
  /\ refused' = {}

Refuse(key, ts) ==
  /\ Cardinality(Within(key, ts, Span[key] + Slack)) >= MaxAlerts[key]
  /\ refused' = {<<key, ts>>}
  /\ UNCHANGED grants

Next == \E key \in Keys, ts \in Timestamps : Allow(key, ts) \/ Refuse(key, ts)

Spec == Init /\ [][Next]_vars
=============================================================================
