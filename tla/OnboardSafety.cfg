CONSTANTS
  signal = signal
  imessage = imessage
  j1 = j1
  j2 = j2
  j3 = j3
  NoJob = NoJob
  Idle = Idle
  Absent = Absent
  Prior = Prior
  Source <- TwoSources
  Job <- TwoJobs
  MaxFaults = 2
SYMMETRY JobSymmetry
SPECIFICATION Spec
INVARIANTS
  TypeOK
  WorkerOwnsSlot
  ManagedWhole
  SingleFaultKeepsArchive
  QuietAfterShutdown
