\* A client that goes while nobody listens.
SPECIFICATION FairSpec
CONSTANTS
  Cancellers = {}
  Listeners = {l1}
  Watcher = w
  CanDisconnect = TRUE
PROPERTIES
  DisconnectCloses
CHECK_DEADLOCK FALSE
