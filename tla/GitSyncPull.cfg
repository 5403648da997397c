CONSTANTS
  Files = {a, b}
  Branches = {main, topic}
  Main = main
  Tasks = {t1, t2}
  Calls = 2
  Edits = 2
  Mishaps = {"pull"}
SPECIFICATION Spec
CHECK_DEADLOCK FALSE
INVARIANT CommitsAreEdits
