SPECIFICATION Spec
CONSTANTS
  MaxInt = 63
  Minimum = 10
  Alignment = 4
  NoSize = NoSize
  Bad = Bad
  Machines = {default, n1, n2}
  DefaultName = default
  None = None
  Ids = {i1, i2}
  Tagged = {"a:1", "b:1"}
  Untagged = {"<none>:<none>"}
  Invalid = {"not a reference"}
  Times = {1, 2}
  MaxTags = 2
CHECK_DEADLOCK FALSE
INVARIANT DiskFits
INVARIANT OnlyHugeRefused
INVARIANT MachineTypeOK
INVARIANT ConnectsToRightMachine
INVARIANT RefusedForReason
INVARIANT TableComplete
INVARIANT FirstUntaggedThere
