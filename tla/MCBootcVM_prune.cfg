SPECIFICATION SpecCached
CONSTANTS
  Procs = {p1, p2}
  Images = {i1, i2}
  None = None
  Uuids = {u1, u2}
  Keys = {k1, k2}
  Ports = {n1, n2}
  GuestEvents = {"poweroff"}
  Commands = {"rmForce", "list", "ssh"}
  Faults <- AllFaults
SYMMETRY Symmetry
INVARIANT RmSucceeds
PROPERTY ImplementsLifecycle
PROPERTY ExclusiveCommandsSpareUsers
