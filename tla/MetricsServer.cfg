\* The families stand for any two counters.
SPECIFICATION Spec
CONSTANTS
  Families = {events, alerts}
  Clients = {c1, c2}
  MaxCount = 2
INVARIANTS
  ScrapesNeverFallBack
PROPERTIES
  AskersAnswered
CHECK_DEADLOCK FALSE
