SPECIFICATION ServerFairSpec
CONSTANTS
  Creds <- TwoUsers
  EnforceHTTPS = TRUE
  Conn = {c1, c2}
  Request <- Requests
  Buffer = 1
  MaxHops = 3
INVARIANTS
  ServerTypeOK
  GracefulExit
  OnlyTrustedCreate
  RedirectsSettle
PROPERTIES
  RequestsAnswered
  ShutdownCompletes
CHECK_DEADLOCK FALSE
