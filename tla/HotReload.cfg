SPECIFICATION WatchSpec
CHECK_DEADLOCK FALSE
CONSTANTS
  Parts = {"watch"}
  Callers = {c1, c2}
  MaxCalls = 2
  Cap = 1
  Backlog = 1
  Budgets = {0, 2}
  MaxBudget = 1
  Rpc = 1
  Amounts = {0, 1, 2}
  Chunk = 2
  Mishaps = {"ui", "rpc"}
  None = None
  Edits = 2
  Capacity = 1
  Renames = {"both", "split", "any"}
  WatcherMishaps = {"overlap", "quick", "slow", "rpc", "unread", "unknown"}
  MaxWatcherMishaps = 2
  Repos = {p1, p2, p3}
  Old = p1
  Ports = {1, 2}
  EditorCalls = 2
  EditorSaves = 1
  MaxEditorMishaps = 1
  EditorMishaps = {"race", "behind", "twice", "crash", "torn", "gone", "fail", "bad"}
INVARIANT TreeIsTheUsers
PROPERTIES SaveIsSeen Settles
