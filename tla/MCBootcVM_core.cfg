SPECIFICATION Spec
CONSTANTS
  Procs = {p1, p2}
  Images = {i1}
  None = None
  Uuids = {u1, u2, u3, u4}
  Keys = {k1, k2, k3, k4, k5}
  Ports = {n1, n2}
  GuestEvents = {"poweroff"}
  Commands <- AllOfThem
  Faults <- AllFaults
SYMMETRY Symmetry
INVARIANT TypeOK
INVARIANT LockDiscipline
INVARIANT UsedCacheExists
 
INVARIANT UndefineHasHandle
INVARIANT StopSucceeds
INVARIANT RmSucceeds
PROPERTY ExclusiveCommandsSpareUsers
PROPERTY RmSparesRunningVM
