SPECIFICATION AppsSpec
SYMMETRY Symmetric
CONSTANTS
  Slugs = {a, b}
  OldVersion = v1
  Versions = {v1, v2}
  Ports <- MCPorts
  Tasks = {t1}
  Handles = {h1, h2}
  AppCommands = {"install", "run", "stop", "reset"}
  AppMishaps = {"vm", "podman", "restart", "cutoff", "abort"}
  Commands = {"link", "stop", "open"}
  Mishaps = {"vm"}
  MaxMishaps = 1
  None = None
  
PROPERTY PortsAreKept
