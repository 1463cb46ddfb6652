SPECIFICATION Spec
CONSTANTS
  None = None
  Pid = {p1, p2, p3}
  Starter = {s1, s2}
  File = {run, temp}
  Home = run
INVARIANTS
  AtMostOneDaemon
  FileNamesDaemon
SYMMETRY PidsAndStarters
CHECK_DEADLOCK FALSE
