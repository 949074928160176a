\* One client, every mode of operation and every kind of request, with a
\* deadline on the connection.
SPECIFICATION FairSpec
CONSTANTS
  Clients = {c1}
  Modes = {"normal", "proxy", "diff-normal", "diff-proxy"}
  Kinds = {"good", "internal", "panicking", "malformed", "oneway"}
  ConnTimeout = TRUE
  MaxRequests = 3
\* The process ends.
CHECK_DEADLOCK FALSE
INVARIANTS
  RepliesInOrder
  OneUnanswered
PROPERTIES
  InternalErrorIsLast
  ShutdownCompletes
