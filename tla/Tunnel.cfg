SPECIFICATION FairSpec
CONSTANTS
  Tunnels = {t1, t2}
  Users = {u1, u2}
  Mishaps = {"overlap", "logout", "api", "spawn", "mute", "dies", "down", "abort", "crash"}
  MaxMishaps = 2
  None = None
 
PROPERTY ShareEnds
CHECK_DEADLOCK FALSE
