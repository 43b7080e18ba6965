---------------------------- MODULE PodmanMachine ----------------------------
(***************************************************************************)
(* How a command finds the podman machine it works with (GetMachineContext *)
(* in pkg/utils/podman.go): the machine named podman-machine-default, read *)
(* from its podman v5 configuration, or else, by `podman machine list` and *)
(* `inspect`, the only or the default one.  It must be rootful and its     *)
(* socket must be there.  Machines are started, stopped and chosen as the  *)
(* default meanwhile.                                                      *)
(***************************************************************************)
EXTENDS FiniteSets

CONSTANTS Machines,     \* names of machines
          DefaultName,  \* podman-machine-default
          None

ASSUME MachinesAssumption == IsFiniteSet(Machines) /\ DefaultName \in Machines

VARIABLES machine,      \* machine[n]: the machine n (external), or None
          default,      \* the machine podman uses by default, or None (external)
          machineStep,  \* the next step of the command
          chosen,       \* the machine it settled for
          rootful,      \* what it knows of that machine
          disturbed     \* a machine changed or a call failed since it began

machineVars == <<machine, default, machineStep, chosen, rootful, disturbed>>

\* v5: its configuration is one that podman v5 reads.  Its socket is there
\* while it runs.
Machine == [v5 : BOOLEAN, running : BOOLEAN, rootful : BOOLEAN]

ASSUME NoneAssumption == None \notin Machines \cup Machine

Exists(n) == machine[n] # None

Existing == {n \in Machines : Exists(n)}

Goto(now, next) ==
  /\ machineStep = now
  /\ machineStep' = next
  /\ UNCHANGED <<machine, default>>

Refuse(now) == Goto(now, "refused") /\ UNCHANGED <<chosen, rootful, disturbed>>

\* A call that is not ours failed.
CallFails(now) ==
  Goto(now, "refused") /\ disturbed' = TRUE /\ UNCHANGED <<chosen, rootful>>

Choose(now, next, n) ==
  Goto(now, next) /\ chosen' = n /\ UNCHANGED <<rootful, disturbed>>

\* What podman says of n.
Learn(now, n) ==
  /\ Goto(now, "rootful")
  /\ chosen' = n
  /\ rootful' = machine[n].rootful
  /\ UNCHANGED disturbed

\* Mutant: only a missing machine leads to the fallback.
LoadV5NoFallback ==
  \/ Exists(DefaultName) /\ machine[DefaultName].v5 /\ Learn("load", DefaultName)
  \/ Exists(DefaultName) /\ ~machine[DefaultName].v5 /\ Refuse("load")
  \/ ~Exists(DefaultName) /\ Choose("load", "list", None)

\* getPv5MachineInfo; getMachineInfo falls back only when there is no machine
\* of that name or its configuration is not v5.
LoadV5 ==
  \/ Exists(DefaultName) /\ machine[DefaultName].v5 /\ Learn("load", DefaultName)
  \/ Exists(DefaultName) /\ ~machine[DefaultName].v5 /\ Choose("load", "list", None)
  \/ ~Exists(DefaultName) /\ Choose("load", "list", None)
  \/ CallFails("load")

\* Mutant: without foundDefaultMachine.
ListV4Unfound ==
  LET candidates == IF Cardinality(Existing) = 1 THEN Existing ELSE Existing \cap {default}
  IN  \/ \E n \in candidates : machine[n].running /\ Choose("list", "inspect", n)
      \/ candidates = {} /\ Choose("list", "inspect", None)

\* The first half of getPv4MachineInfo: a single machine is taken for the
\* default one; it has to run.
ListV4 ==
  LET candidates == IF Cardinality(Existing) = 1 THEN Existing ELSE Existing \cap {default}
  IN  \/ \E n \in candidates : machine[n].running /\ Choose("list", "inspect", n)
      \/ (\A n \in candidates : ~machine[n].running) /\ Refuse("list")
      \/ CallFails("list")

\* The second half.
InspectV4 ==
  \/ Learn("inspect", chosen)
  \/ CallFails("inspect")

\* Mutant: rootless machines are accepted.
CheckRootfulNot == Choose("rootful", "stat", chosen)

\* GetMachineContext.
CheckRootful ==
  \/ rootful /\ Choose("rootful", "stat", chosen)
  \/ ~rootful /\ Refuse("rootful")

Serves(n) == n # None /\ machine[n].running

\* os.Stat of the socket.
StatSocket ==
  \/ Serves(chosen) /\ Choose("stat", "connect", chosen)
  \/ ~Serves(chosen) /\ Refuse("stat")

\* bindings.NewConnectionWithIdentity asks the service for its version.
Connect ==
  \/ Serves(chosen) /\ Choose("connect", "connected", chosen)
  \/ ~Serves(chosen) /\ Refuse("connect")
  \/ CallFails("connect")

-----------------------------------------------------------------------------
(* podman machine start and stop, and the default connection.  Machines are *)
(* not made, removed or reconfigured while a command looks.                *)

Change ==
  /\ \/ \E n \in Existing, r \in BOOLEAN :
          machine' = [machine EXCEPT ![n].running = r] /\ UNCHANGED default
     \/ default' \in Machines /\ UNCHANGED machine
  /\ disturbed' = TRUE
  /\ UNCHANGED <<machineStep, chosen, rootful>>

MachineInit ==
  /\ machine \in [Machines -> Machine \cup {None}]
  /\ default \in Machines \cup {None}
  /\ machineStep = "load"
  /\ chosen = None
  /\ rootful = FALSE
  /\ disturbed = FALSE

MachineNext == LoadV5 \/ ListV4 \/ InspectV4 \/ CheckRootful \/ StatSocket \/ Connect \/ Change

MachineSpec == MachineInit /\ [][MachineNext]_machineVars

-----------------------------------------------------------------------------
(* Properties. *)

MachineSteps == {"load", "list", "inspect", "rootful", "stat", "connect", "connected", "refused"}

\* Every variable keeps its type; a command that goes on has settled for a
\* machine that exists.
MachineTypeOK ==
  /\ machine \in [Machines -> Machine \cup {None}]
  /\ default \in Machines \cup {None}
  /\ machineStep \in MachineSteps
  /\ chosen \in Machines \cup {None}
  /\ rootful \in BOOLEAN /\ disturbed \in BOOLEAN
  /\ machineStep \in {"inspect", "rootful", "stat", "connect", "connected"} => chosen \in Existing

\* The machine a command of podman works with when podman-machine-default is
\* not one of v5.
Defaults == IF Cardinality(Existing) = 1 THEN Existing ELSE Existing \cap {default}

HasV5 == Exists(DefaultName) /\ machine[DefaultName].v5

\* A command that is connected is so to a rootful machine: to
\* podman-machine-default if that is one of v5, else to the machine podman
\* itself would work with (unless a machine or the default changed meanwhile),
\* through whichever of the two ways its configuration was found.
ConnectsToRightMachine ==
  machineStep = "connected" =>
    /\ machine[chosen].rootful
    /\ HasV5 => chosen = DefaultName
    /\ ~HasV5 /\ ~disturbed => chosen \in Defaults

\* The fallback hides no machine: when nothing changes and no call fails, a
\* command is refused only if the machine it should work with does not run,
\* is rootless, or does not exist.
RefusedForReason ==
  machineStep = "refused" /\ ~disturbed =>
    \A n \in (IF HasV5 THEN {DefaultName} ELSE Defaults) :
      ~machine[n].running \/ ~machine[n].rootful
=============================================================================
