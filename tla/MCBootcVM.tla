------------------------------ MODULE MCBootcVM ------------------------------
(***************************************************************************)
(* BootcVM for TLC.  Processes, images and ports are interchangeable.       *)
(* Uuids are so too, although Define draws one with a CHOOSE: the one drawn *)
(* occurs nowhere in the state, so two states that differ by a renaming of  *)
(* uuids have successors that differ by one.  SymmetryWithUuids says so     *)
(* where it pays.                                                           *)
(***************************************************************************)
EXTENDS BootcVM, TLC

Symmetry == Permutations(Procs) \cup Permutations(Images) \cup Permutations(Ports)
SymmetryWithUuids == Symmetry \cup Permutations(Uuids)

AllOfThem == AllCommands
AllFaults == Pcs \ Infallible

(***************************************************************************)
(* A cache in which run -B has booted a VM of every image.                 *)
(***************************************************************************)
Distinct(S) == CHOOSE f \in [Images -> S] : \A i, j \in Images : i # j => f[i] # f[j]

InitCached ==
  LET keyOf  == Distinct(Keys)
      uuidOf == Distinct(Uuids)
      portOf == Distinct(Ports)
  IN
    /\ LockInit
    /\ dom = [i \in Images |-> [uuid |-> uuidOf[i], state |-> "running", persistent |-> TRUE,
                                port |-> portOf[i], key |-> keyOf[i]]]
    /\ pc = [p \in Procs |-> "idle"]
    /\ job = [p \in Procs |-> NoJob]
    /\ dir = [i \in Images |-> TRUE]
    /\ disk = [i \in Images |-> TRUE]
    /\ priv = keyOf
    /\ pub = keyOf
    /\ cfg = portOf

SpecCached == InitCached /\ [][Next]_vars
=============================================================================
