----------------------------- MODULE MCSentinel -----------------------------
(***************************************************************************)
(* A small instance of the whole agent: one rule that asks for alert and   *)
(* triage, limited to one alert per time unit, a local and a remote sink.  *)
(***************************************************************************)
EXTENDS Sentinel

MCRules == << [id |-> "shell", enabled |-> TRUE, actions |-> {"alert", "triage"}] >>
MCPerRule == [id \in {} |-> {}]
MCDefault == [max_alerts |-> 1, window_secs |-> 1]
MCSinks == <<"stdout", "grpc">>
=============================================================================
