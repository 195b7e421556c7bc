CONSTANTS
  signal = signal
  imessage = imessage
  j1 = j1
  j2 = j2
  j3 = j3
  NoJob = NoJob
  Idle = Idle
  Absent = Absent
  Prior = Prior
  Source <- OneSource
  Job <- TwoJobs
  MaxFaults = 1
SPECIFICATION FairSpec
PROPERTIES
  CancelledExportNeverPromoted
  
  JobsEnd
