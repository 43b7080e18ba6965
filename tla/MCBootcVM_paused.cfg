SPECIFICATION Spec
CONSTANTS
  Procs = {p1}
  Images = {i1}
  None = None
  Uuids = {u1, u2, u3, u4}
  Keys = {k1, k2, k3, k4, k5}
  Ports = {n1, n2}
  GuestEvents = {"pause"}
  Commands <- AllOfThem
  Faults = {}
SYMMETRY Symmetry
INVARIANT StopSucceeds
