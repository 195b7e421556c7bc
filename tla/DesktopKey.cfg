SPECIFICATION SettingsSpec
CONSTANTS
  None = None
  near = near
  far = far
  m1 = m1
  m2 = m2
  odd = odd
  typed = typed
  env = env
  here = here
  there = there
  Req = {r1, r2}
  Url = {near, far}
  Listing <- MCListing
  Form <- MCForm
  Plan <- MCPlan
  Default <- MCDefault
  Stored <- MCStored
  EnvKeys = {env, None}
  Shell = "desktop"
  MaxAsks = 1
  MaxRestarts = 0
INVARIANT EnvKeyStaysOut
CHECK_DEADLOCK FALSE
