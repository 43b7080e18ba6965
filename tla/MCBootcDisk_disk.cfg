SPECIFICATION Spec
CONSTANTS
  Procs = {p1, p2}
  Images = {i1}
  None = None
  Refs = {r1}
  Temps = {t1, t2}
  Found = {i1, "none", "garbled"}
  Others = {o1}
  Faults <- AllFaults
SYMMETRY Symmetry
INVARIANT TypeOK
INVARIANT MarkedDiskComplete
INVARIANT InstallSucceeds
PROPERTY ReturnLeavesNoBigTemp
PROPERTY ReadyDiskKept
PROPERTY DiskImplementsLifecycle
