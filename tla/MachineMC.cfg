SPECIFICATION MachineSpec
CHECK_DEADLOCK FALSE
CONSTANTS
  MinPort = 1
  MaxPort = 3
  FirstAppPort = 3
  TopPort = 5
  Projects = {p1, p2, p3}
  Slugs = {s1}
  Tasks = {t1, t2}
  Vms = {v1, v2}
  Backends = {"vm", "linux", "wsl"}
  Hosts = {1}
  Threads = {1, 2}
  Requests = 2
  MaxPolls = 1
  Mishaps = {"podman", "race", "late", "agent", "both", "left"}
  MaxMishaps = 1
  None = None
INVARIANTS AllocationIsRight  RunsAreReal
PROPERTIES ScanEnds StartsEnd RunsEnd
