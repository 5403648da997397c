SPECIFICATION ServicesSpec
CHECK_DEADLOCK FALSE
CONSTANTS
  Versions = 2
  Chunks = 3
  Mishaps = {"net", "whole", "cancel", "crash", "late"}
  MaxMishaps = 3
  Spelling = "snake_case"
  MuxBytes = 2
  MuxRoom = 1
  MuxFaults = {"refused", "reset", "vm"}
  Systems = {"windows", "linux", "macos"}
  LaunchMishaps = {"fails", "reload", "removed", "corrupt"}
  None = None
INVARIANTS ImageIsWhole GateIsTrue
PROPERTIES ImageArrives ReplacedAtOnce ConnectionIsServed GateSettles
