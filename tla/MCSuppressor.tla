---------------------------- MODULE MCSuppressor ----------------------------
(***************************************************************************)
(* Small instances of Suppressor.  A second is two time units; where u64   *)
(* ends at 5, the window of the "rare" rule (3 s) saturates.               *)
(***************************************************************************)
EXTENDS Suppressor, TLC

CONSTANTS often, rare, muted

MCPerRule == rare  :> [max_alerts |-> 1, window_secs |-> 3]
          @@ muted :> [max_alerts |-> 0, window_secs |-> 1]

MCDefault == [max_alerts |-> 2, window_secs |-> 1]
MCTimestamps == 0..U64Max
=============================================================================
