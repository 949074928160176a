\* Two clients come and go while the process is told to stop; the default mode,
\* no deadline on connections.
SPECIFICATION FairSpec
CONSTANTS
  Clients = {c1, c2}
  Modes = {"normal"}
  Kinds = {"good", "panicking"}
  ConnTimeout = FALSE
  MaxRequests = 1
\* The process ends.
CHECK_DEADLOCK FALSE
INVARIANTS
  TypeOK
  NothingOutlivesRun
PROPERTIES
  ShutdownCompletes
  GoneIsReleased
