CONSTANTS
  Sections = {projects, settings}
  Inodes = {i1, i2, i3, i4}
  MaxVersion = 2
  Mishaps = {"crash"}
  MaxMishaps = 2
  Empty = Empty
  Garbage = Garbage
  None = None
SPECIFICATION Spec
PROPERTY RestartLoadsCommitted
