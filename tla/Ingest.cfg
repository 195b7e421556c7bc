CONSTANTS
  ann = ann
  bob = bob
  hello = hello
  garbled = garbled
  cli = cli
  None = None
  Line <- Lines
  BadLine <- Garbled
  Importer <- OneImporter
  Conv <- TwoConvs
  Broken <- BobBroken
  Reuse = FALSE
  MaxVersions = 4
  MaxFaults = 2
SPECIFICATION MCSpec
INVARIANTS
  SkipIsSafe
  CaughtUp
PROPERTIES
  EventuallyImported
