------------------------------ MODULE MCLineage ------------------------------
(***************************************************************************)
(* Lineage for TLC.  The names are interchangeable.  The enricher's state  *)
(* depends only on the seeded cache and on the records, which it takes in  *)
(* order: what it can be in at all, it can be in after the last operation, *)
(* so TLC lets it start there.                                             *)
(***************************************************************************)
EXTENDS Lineage, TLC

CONSTANT WalkOps \* bound: the operations that come before the walks are over

NameSymmetry == Permutations(Names)

Bounded ==
  /\ ops' # ops /\ walk.of # "done" => ops < WalkOps
  /\ event' # event => ops = MaxOps /\ \A p \in Pids : probe[p] = User
==============================================================================
