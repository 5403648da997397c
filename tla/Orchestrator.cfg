SPECIFICATION FairSpec
CONSTANTS
  Ports = {p1}
  Callers = {c1}
  Loops = {l1, l2}
  Workers = {w1, w2}
  Commands = {"install", "start", "stop", "restart", "remove", "stop_all"}
  Mishaps = {"exit", "rpc", "late", "relaunch"}
  MaxMishaps = 1
  None = None
INVARIANTS ShownIsSo ListenersAreOwned
PROPERTIES StopEnds ExitIsNoticed
