\* Two pods with a container each; one pid, used again at will.
SPECIFICATION FairSpec
CONSTANTS
  app = app
  db = db
  web = web
  store = store
  None = None
  Containers = {app, db}
  Sandboxes = {web, store}
  SandboxOf <- MCSandboxOf
  Pids = {1}
INVARIANTS
  OwnPodOrNone
PROPERTIES
  RefreshIsSnapshot
  EventuallyKnown
CHECK_DEADLOCK FALSE
