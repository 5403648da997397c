SPECIFICATION WorkSpec
SYMMETRY Symmetric
CHECK_DEADLOCK FALSE
CONSTANTS
  t1 = t1
  t2 = t2
  i1 = i1
  i2 = i2
  p1 = p1
  main = main
  topic = topic
  TokenCalls <- MCTasks
  MaxTokens = 4
  Faults = TRUE
  Publishers <- MCTasks
  PublishCalls = 2
  SourceEdits = 1
  Roots <- MCRoots
  Forks = {k1}
  Snaps <- MCItems
  Callers <- MCTasks
  Calls = 4
  Cap = 1
  Mishaps = {"stem", "swap", "milli", "disk", "crash"}
  MaxMishaps = 1
  None = None
  GitFiles <- MCItems
  GitBranches <- MCBranches
  GitTasks <- MCTasks
  GitCalls = 3
  GitEdits = 2
  GitMishaps = {"pull", "refused", "others", "late", "detached"}
  PublishMishaps = {"api", "poll", "late", "deadline", "quit", "both", "sync"}
INVARIANTS TreesStayWhole PushedIsThere  SiteIsRecorded 
 
