----------------------------- MODULE MCK8sCache -----------------------------
(* Two pods with a container each. *)
EXTENDS K8sCache, TLC

CONSTANTS app, db, web, store

MCSandboxOf == app :> web @@ db :> store
=============================================================================
