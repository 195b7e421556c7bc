SPECIFICATION ServerSpec
CONSTANTS
  Part = {"pairing", "setup", "migrations", "settings"}
  None = None
  signal = signal
  imessage = imessage
  mac = mac
  phone = phone
  page = page
  watcher = watcher
  cli = cli
  Source <- TwoSources
  Peer <- TwoPeers
  Handler <- Pages
  Watcher = watcher
  Cli = cli
  MaxOps = 3
  MaxFaults = 1
  Provider = {"signal", "imessage"}
  Machine <- MCMachine
  Rooted = {}
  TokenCap = 2
  TokenTTL = 1
  MaxMints = 4
  MaxTime = 2
  MaxEvents = 1
  Opener = {a, b}
  Build <- MCBuild
  Shipped <- MCShipped
  Inherited <- MCInherited
  MaxOpens = 3
  MaxDeaths = 1
  near = near
  far = far
  m1 = m1
  m2 = m2
  odd = odd
  typed = typed
  env = env
  here = here
  there = there
  Req = {r1, r2}
  Url = {near, far}
  Listing <- MCListing
  Form <- MCForm
  Plan <- MCPlan
  Default <- MCDefault
  Stored <- MCStored
  EnvKeys = {env, None}
  Shell = "serve"
  MaxAsks = 2
  MaxRestarts = 1
INVARIANTS
  OneImporter
  TrustIsExplicit
  DaemonFollowsRegistry
  SetupPageHolds
  SchemaHolds
  
  EnvKeyStaysOut
  ModelsAreOffered
  OneBackupAtATime
CHECK_DEADLOCK FALSE
