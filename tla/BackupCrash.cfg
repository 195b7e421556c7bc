CONSTANTS
  serve = serve
  cli = cli
  None = None
  Server = serve
  Keep <- KeepOne
  Horizon <- Horizons
  Proc <- ServeOnly
  MaxSec = 0
  MaxSame = 1
  MaxCommits = 0
  MaxOps = 2
  MaxFaults = 1
SPECIFICATION BackupSpec
INVARIANT CrashKeepsLive
CHECK_DEADLOCK FALSE
