----------------------------- MODULE MCDispatch -----------------------------
(***************************************************************************)
(* Small instances of Dispatch.  The rule set has one rule of each kind    *)
(* that process_event tells apart, and two Sigma imports: they are always  *)
(* enabled, always ask for an alert, come last, and are the only rules     *)
(* that may share the id of another one (load_dir refuses duplicates,      *)
(* load_from_config does not look for them).                               *)
(***************************************************************************)
EXTENDS Dispatch

Rule(id, actions) == [id |-> id, enabled |-> TRUE, actions |-> actions]
SigmaImport(id) == Rule(id, {"alert"})

MCRules == << Rule("shell", {"alert", "triage"}),
              Rule("probe", {"triage"}),
              Rule("quiet", {"other"}),
              Rule("muted", {}),
              [Rule("off", {}) EXCEPT !.enabled = FALSE],
              SigmaImport("shell"),
              SigmaImport("probe") >>

MCPerRule == [id \in {"muted"} |-> [max_alerts |-> 0, window_secs |-> 1]]
MCDefault == [max_alerts |-> 1, window_secs |-> 1]
MCSinks == <<"stdout", "ndjson", "grpc">>
MCRemoteSinks == <<"ndjson", "grpc">>
=============================================================================
