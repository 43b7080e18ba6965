------------------------------ MODULE CacheLock ------------------------------
(***************************************************************************)
(* The cache lock of pkg/utils/locks.go: one advisory flock(2) per image,  *)
(* on the file <RunDir>/<image id>.lock.  It is non-blocking (a command    *)
(* that does not get it gives up), taken in shared or exclusive mode, and  *)
(* the kernel drops it when the process that holds it dies.                *)
(***************************************************************************)
EXTENDS Names

VARIABLE lock       \* lock[i][p] is the mode in which p holds the lock of i

\* AccessMode.
Modes == {"exclusive", "shared"}

LockTypeOK == lock \in [Images -> [Procs -> Modes \cup {"none"}]]

LockInit == lock = [i \in Images |-> [p \in Procs |-> "none"]]

\* Mutant: an exclusive holder does not keep shared access out.
CanLockShared(p, i, mode) ==
  \A q \in Procs \ {p} : mode = "exclusive" => lock[i][q] = "none"

\* What flock(2) answers to p: it grants shared access when nobody else is
\* exclusive, exclusive access when nobody else holds the lock at all.
CanLock(p, i, mode) ==
  \A q \in Procs \ {p} : /\ lock[i][q] # "exclusive"
                         /\ mode = "exclusive" => lock[i][q] = "none"

\* CacheLock.TryLock when it answers true; it answers false, with no effect,
\* when ~CanLock(p, i, mode).
TryLock(p, i, mode) ==
  /\ CanLock(p, i, mode)
  /\ lock' = [lock EXCEPT ![i][p] = mode]

\* CacheLock.Unlock, and the kernel's release at the death of p.
Unlock(p, i) == lock' = [lock EXCEPT ![i][p] = "none"]

-----------------------------------------------------------------------------
\* While a process holds the lock of an image exclusively, nobody else holds
\* it in any mode: what lets stop and rm act on a VM no other command uses.
ExclusiveIsAlone ==
  \A i \in Images, p, q \in Procs :
    lock[i][p] = "exclusive" /\ q # p => lock[i][q] = "none"
=============================================================================
