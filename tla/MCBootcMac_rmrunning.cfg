SPECIFICATION Spec
CONSTANTS
  Procs = {p1}
  Images = {i1}
  None = None
  Monitors = {m1, m2}
  Pids = {q1, q2, q3, q4}
  Overlap = TRUE
  Faults = {}
PROPERTY RmSparesRunningVM
