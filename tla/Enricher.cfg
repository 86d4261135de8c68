\* The process cache under every sequence of records, pids used again at will.
SPECIFICATION FairSpec
CONSTANTS
  Pids = {1, 2, 3, 4}
  Names = {sh}
  NoName = NoName
  MaxProcesses = 3
  MaxLineage = 2
INVARIANTS
  NoNamelessCycle
PROPERTIES
  UpdatesKeepCacheBounded
  LineageEnds
CHECK_DEADLOCK FALSE
