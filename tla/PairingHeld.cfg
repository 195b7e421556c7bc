CONSTANTS
  mac = mac
  phone = phone
  signal = signal
  imessage = imessage
  page = page
  watcher = watcher
  cli = cli
  None = None
  Peer <- TwoPeers
  Source <- OneSource
  Handler <- Pages
  Watcher = watcher
  Cli = cli
  MaxOps = 3
  MaxFaults = 0
SPECIFICATION Spec
INVARIANT HeldMeansReplica
CHECK_DEADLOCK FALSE
