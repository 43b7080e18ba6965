------------------------------ MODULE MCQueries ------------------------------
(***************************************************************************)
(* DiskSize, PodmanMachine and ImageTable for TLC, which share no state:   *)
(* in a behaviour one of the three works, and the others stay as they may  *)
(* start.                                                                  *)
(*                                                                         *)
(* Words of 7 bits with every size in them, and a minimum that is not a    *)
(* whole number of blocks; podman-machine-default and two other machines;  *)
(* two images, each with any names, created at the same time or not.       *)
(***************************************************************************)
EXTENDS DiskSize, PodmanMachine, ImageTable

VARIABLE part  \* "size", "machine" or "table"

vars == <<sizeVars, machineVars, tableVars, part>>

SizeRests == SizeInit /\ image = 0 /\ asked = NoSize

MachineRests == MachineInit /\ default = None /\ machine = [n \in Machines |-> None]

TableRests ==
  /\ TableInit
  /\ names = [i \in Ids |-> <<>>]
  /\ \E t \in Times : created = [i \in Ids |-> t] /\ \A u \in Times : t <= u

Init ==
  \/ part = "size"    /\ SizeInit  /\ MachineRests /\ TableRests
  \/ part = "machine" /\ SizeRests /\ MachineInit  /\ TableRests
  \/ part = "table"   /\ SizeRests /\ MachineRests /\ TableInit

Next ==
  /\ \/ part = "size"    /\ SizeNext    /\ UNCHANGED <<machineVars, tableVars>>
     \/ part = "machine" /\ MachineNext /\ UNCHANGED <<sizeVars, tableVars>>
     \/ part = "table"   /\ TableNext   /\ UNCHANGED <<sizeVars, machineVars>>
  /\ UNCHANGED part

Spec == Init /\ [][Next]_vars
==============================================================================
