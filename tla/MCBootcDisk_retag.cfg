SPECIFICATION Spec
CONSTANTS
  Procs = {p1, p2}
  Images = {i1}
  None = None
  Refs = {r1}
  Temps = {t1, t2}
  Found = {}
  Others = {o1}
  Faults = {}
SYMMETRY Symmetry
INVARIANT DiskMatchesDigest
