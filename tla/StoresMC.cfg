SPECIFICATION StoresSpec
SYMMETRY Symmetric
CHECK_DEADLOCK FALSE
CONSTANTS
  s1 = s1
  v1 = v1
  v2 = v2
  b1 = b1
  b2 = b2
  Slugs = {s1}
  Versions = {v1, v2}
  Builds = {b1, b2}
  Readers = {r1}
  SlugOf <- MCSlugOf
  VersionOf <- MCVersionOf
  MaxAttempts <- MCAttempts
  Sections = {projects, settings}
  Inodes = {i1, i2, i3, i4}
  MaxVersion = 2
  MaxMishaps = 2
  FileMishaps = {"write", "crash", "power", "overlap"}
  KeyNames = {"github", "github:refresh"}
  Secrets = {"first", "second"}
  Callers = {"a", "b"}
  KeyMishaps = {"overlap", "refuse", "crash"}
  Empty = Empty
  Garbage = Garbage
  None = None
INVARIANTS RegistryIsWhole DownloadIsRight DocumentSurvives
PROPERTIES  KeyIsARegister
