------------------------------ MODULE Processes ------------------------------
(***************************************************************************)
(* What the probes, PROCESS_TREE and the process cache of the enricher know*)
(* processes by: the pid and the command name.                             *)
(***************************************************************************)
EXTENDS Naturals, FiniteSets

CONSTANTS
  Pids,    \* process ids, 0 excluded
  Names,   \* non-empty command names
  NoName   \* the empty name

NoPid == 0
Keys == Pids \union {NoPid}

ASSUME ProcessAssumption ==
  /\ Pids \subseteq Nat \ {NoPid} /\ IsFiniteSet(Pids)   \* a pid is a u32
  /\ NoName \notin Names
==============================================================================
