SPECIFICATION DevicesSpec
CONSTANTS
  Part = {"watcher", "shell"}
  s1 = s1
  Source = {s1}
  Capacity = 1
  MaxVersion = 2
  MaxExits = 1
  MaxMishaps = 1
  App = {"serve", "desktop"}
  Visitor = {v}
  MaxJobs = 1
INVARIANTS
  NoDeltaForgotten
  NoOrphan
  
PROPERTIES
  DevicesLive
  Exits
CHECK_DEADLOCK FALSE
