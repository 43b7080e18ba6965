----------------------------- MODULE MCBootcDisk -----------------------------
(***************************************************************************)
(* BootcDisk for TLC.  Processes, images, names and temporary files are    *)
(* interchangeable.                                                        *)
(***************************************************************************)
EXTENDS BootcDisk, TLC

Symmetry == Permutations(Procs) \cup Permutations(Images) \cup Permutations(Refs)
              \cup Permutations(Temps)

AllFaults == (Pcs \ {"idle", "unlock"}) \cup {"getxattr"}
=============================================================================
