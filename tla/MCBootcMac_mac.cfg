SPECIFICATION FairSpec
CONSTANTS
  Procs = {p1}
  Images = {i1}
  None = None
  Monitors = {m1, m2}
  Pids = {q1, q2, q3, q4}
  Overlap = FALSE
  Faults = {"install", "lock", "spawn", "stat", "read", "rmCache", "exit",
            "cleanup", "gvproxy", "socket", "krunkit", "truncate", "write", "death"}
INVARIANT TypeOK
INVARIANT MonitorLeavesNothing
INVARIANT DeleteReachesVM
PROPERTY SignalsOwnVM
PROPERTY KrunkitUsesOwnGvproxy
PROPERTY EndingVMsEnd
