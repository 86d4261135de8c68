\* Three pids, two names; four operations of the processes, two at most during the walks.
SPECIFICATION LineageSpec
CONSTANTS
  Pids = {1, 2, 3}
  Names = {sh, nc}
  NoName = NoName
  MaxNodes = 2
  MaxOps = 4
  WalkOps = 2
  MaxProcesses = 4
  MaxLineage = 2
SYMMETRY NameSymmetry
ACTION_CONSTRAINT Bounded
INVARIANTS
  LineageTypeOK
  LateForksKnown
  NoStrangerAsParent
  LineageTellsForkers
CHECK_DEADLOCK FALSE
