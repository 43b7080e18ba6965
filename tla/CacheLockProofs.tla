--------------------------- MODULE CacheLockProofs ---------------------------
(***************************************************************************)
(* What the proofs about the components that lock images need of the lock. *)
(***************************************************************************)
EXTENDS CacheLock, TLAPS

\* The steps of the lock keep its type.
LEMMA LockTypes ==
  ASSUME LockTypeOK, NEW p \in Procs, NEW i \in Images
  PROVE  /\ UNCHANGED lock => LockTypeOK'
         /\ Unlock(p, i) => LockTypeOK'
         /\ \A mode \in Modes : TryLock(p, i, mode) => LockTypeOK'
BY DEF LockTypeOK, Unlock, TryLock, Modes

\* They keep an exclusive holder alone, whoever else uses the lock.
LEMMA LockExclusion ==
  ASSUME LockTypeOK, ExclusiveIsAlone, NEW p \in Procs, NEW i \in Images
  PROVE  /\ UNCHANGED lock => ExclusiveIsAlone'
         /\ Unlock(p, i) => ExclusiveIsAlone'
         /\ \A mode \in Modes : TryLock(p, i, mode) => ExclusiveIsAlone'
<1>1. UNCHANGED lock => ExclusiveIsAlone'
  BY DEF ExclusiveIsAlone
<1>2. Unlock(p, i) => ExclusiveIsAlone'
  BY DEF LockTypeOK, Unlock, ExclusiveIsAlone
<1>3. \A mode \in Modes : TryLock(p, i, mode) => ExclusiveIsAlone'
  BY DEF LockTypeOK, TryLock, CanLock, Modes, ExclusiveIsAlone
<1> QED BY <1>1, <1>2, <1>3
=============================================================================
