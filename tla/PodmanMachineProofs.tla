------------------------ MODULE PodmanMachineProofs ------------------------
(***************************************************************************)
(* Proofs about PodmanMachine, for every set of machines.                  *)
(***************************************************************************)
EXTENDS PodmanMachine, FiniteSetTheorems, TLAPS

\* The steps at which a command has settled for a machine.
SettledSteps == {"inspect", "rootful", "stat", "connect", "connected"}

\* The machine it has to work with while nothing changes: the default name, if
\* it was found as one of v5, else one of those podman itself would take.
Right(n) == IF HasV5 THEN n = DefaultName ELSE disturbed \/ n \in Defaults

\* What a command knows at each step.  That a machine is one of v5 and that it
\* is rootful does not change; that it runs may.
Known ==
  /\ machineStep = "list" => ~HasV5
  /\ machineStep \in SettledSteps => Right(chosen)
  /\ machineStep \in {"rootful", "stat", "connect", "connected"} =>
       rootful = machine[chosen].rootful
  /\ machineStep \in {"stat", "connect", "connected"} => rootful

MachineInv == MachineTypeOK /\ Known /\ RefusedForReason

-----------------------------------------------------------------------------
\* There is at most one machine podman itself would take.
LEMMA OneDefault ==
  ASSUME NEW m \in Defaults, NEW n \in Defaults
  PROVE  m = n
<1>1. CASE Cardinality(Existing) = 1
  <2>1. IsFiniteSet(Existing)
    BY MachinesAssumption, FS_Subset DEF Existing
  <2>2. PICK x : Existing = {x}
    BY <1>1, <2>1, FS_Singleton
  <2> QED BY <1>1, <2>2 DEF Defaults
<1>2. CASE Cardinality(Existing) # 1
  BY <1>2 DEF Defaults
<1> QED BY <1>1, <1>2

\* What is known of the machines does not change with the steps of a command.
LEMMA Unmoved ==
  ASSUME UNCHANGED <<machine, default>>
  PROVE  /\ Existing' = Existing /\ Defaults' = Defaults /\ HasV5' = HasV5
         /\ UNCHANGED disturbed => \A n \in Machines : Right(n)' <=> Right(n)
BY DEF Existing, Exists, Defaults, HasV5, Right

\* A step of the command to which the machine it settled for is known.
LEMMA SettledStep ==
  ASSUME MachineInv,
         InspectV4 \/ CheckRootful \/ StatSocket \/ Connect
  PROVE  MachineInv'
<1>1. UNCHANGED <<machine, default>> /\ machineStep \in SettledSteps
  BY DEF InspectV4, CheckRootful, StatSocket, Connect, Learn, CallFails, Choose, Refuse, Goto, SettledSteps
<1>2. chosen \in Machines /\ machine[chosen] \in Machine /\ Right(chosen)
  BY <1>1 DEF MachineInv, MachineTypeOK, Known, Existing, Exists, SettledSteps
<1>3. CASE machineStep' \in SettledSteps
  <2>1. chosen' = chosen /\ disturbed' = disturbed
    BY <1>3 DEF InspectV4, CheckRootful, StatSocket, Connect, Learn, CallFails, Choose, Refuse, Goto, SettledSteps
  <2>2. machineStep' \in SettledSteps \ {"inspect"} /\ rootful' = machine[chosen].rootful
    BY <1>1, <1>3 DEF MachineInv, Known, InspectV4, CheckRootful, StatSocket, Connect, Learn, CallFails, Choose,
                      Refuse, Goto, SettledSteps
  <2>3. machineStep' \in {"stat", "connect", "connected"} => rootful'
    BY <1>1 DEF MachineInv, Known, InspectV4, CheckRootful, StatSocket, Connect, Learn, CallFails, Choose, Refuse,
           Goto, SettledSteps
  <2>4. MachineTypeOK'
    BY <1>1, <1>2, <2>1, <2>2, Unmoved DEF MachineInv, MachineTypeOK, Machine, MachineSteps, SettledSteps
  <2>5. Known'
    BY <1>1, <1>2, <2>1, <2>2, <2>3, Unmoved DEF Known, SettledSteps
  <2>6. RefusedForReason'
    BY <1>3 DEF RefusedForReason, SettledSteps
  <2> QED BY <2>4, <2>5, <2>6 DEF MachineInv
<1>4. CASE machineStep' \notin SettledSteps
  <2>1. /\ machineStep' = "refused" /\ chosen' = chosen /\ rootful' = rootful
        /\ \/ disturbed' = TRUE
           \/ disturbed' = disturbed /\ (~machine[chosen].running \/ ~machine[chosen].rootful)
    BY <1>2, <1>4, NoneAssumption DEF MachineInv, Known, InspectV4, CheckRootful, StatSocket, Connect, Learn,
       CallFails, Choose, Refuse, Goto, SettledSteps, Serves
  <2>2. MachineTypeOK'
    BY <1>1, <2>1 DEF MachineInv, MachineTypeOK, MachineSteps
  <2>3. Known'
    BY <2>1 DEF Known, SettledSteps
  <2>4. RefusedForReason'
    <3> SUFFICES ASSUME ~disturbed', NEW n \in (IF HasV5 THEN {DefaultName} ELSE Defaults)
                 PROVE  n = chosen
      BY <1>1, <2>1, Unmoved DEF RefusedForReason
    <3> QED BY <1>2, <2>1, OneDefault DEF Right
  <2> QED BY <2>2, <2>3, <2>4 DEF MachineInv
<1> QED BY <1>3, <1>4

\* The search.
LEMMA SearchStep ==
  ASSUME MachineInv, LoadV5 \/ ListV4
  PROVE  MachineInv'
<1>1. UNCHANGED <<machine, default>> /\ machineStep \in {"load", "list"}
  BY DEF LoadV5, ListV4, Learn, CallFails, Choose, Refuse, Goto
<1>2. CASE machineStep' = "refused" /\ disturbed' = TRUE /\ UNCHANGED <<chosen, rootful>>
  BY <1>1, <1>2 DEF MachineInv, MachineTypeOK, MachineSteps, Known, RefusedForReason, SettledSteps
<1>3. CASE LoadV5 /\ ~CallFails("load")
  <2>1. CASE HasV5
    <3>1. /\ machineStep' = "rootful" /\ chosen' = DefaultName /\ disturbed' = disturbed
          /\ rootful' = machine[DefaultName].rootful
      BY <1>3, <2>1 DEF LoadV5, HasV5, Learn, Choose, Goto
    <3>2. DefaultName \in Existing /\ machine[DefaultName] \in Machine
      BY <2>1, MachinesAssumption DEF HasV5, Existing, Exists, MachineInv, MachineTypeOK
    <3>3. MachineTypeOK'
      BY <1>1, <3>1, <3>2, Unmoved DEF MachineInv, MachineTypeOK, Existing, Machine, MachineSteps
    <3>4. Known' /\ RefusedForReason'
      BY <1>1, <2>1, <3>1, Unmoved DEF Known, Right, RefusedForReason, SettledSteps
    <3> QED BY <3>3, <3>4 DEF MachineInv
  <2>2. CASE ~HasV5
    <3>1. machineStep' = "list" /\ chosen' = None /\ UNCHANGED <<rootful, disturbed>>
      BY <1>3, <2>2 DEF LoadV5, HasV5, Choose, Goto
    <3> QED BY <1>1, <2>2, <3>1, Unmoved DEF MachineInv, MachineTypeOK, MachineSteps, Known, RefusedForReason, SettledSteps
  <2> QED BY <2>1, <2>2
<1>4. CASE ListV4 /\ ~CallFails("list")
  <2>1. ~HasV5 /\ ~HasV5'
    BY <1>1, <1>4, Unmoved DEF ListV4, Choose, Refuse, Goto, MachineInv, Known
  <2>2. CASE \E n \in Defaults : Choose("list", "inspect", n)
    <3>1. PICK n \in Defaults : Choose("list", "inspect", n)
      BY <2>2
    <3>2. n \in Existing /\ n \in Machines
      BY DEF Defaults, Existing
    <3>3. machineStep' = "inspect" /\ chosen' = n /\ UNCHANGED <<rootful, disturbed>>
      BY <3>1 DEF Choose, Goto
    <3>4. MachineTypeOK'
      BY <1>1, <3>2, <3>3, Unmoved DEF MachineInv, MachineTypeOK, MachineSteps
    <3>5. Known' /\ RefusedForReason'
      BY <1>1, <2>1, <3>3, Unmoved DEF Known, Right, RefusedForReason, SettledSteps
    <3> QED BY <3>4, <3>5 DEF MachineInv
  <2>3. CASE (\A n \in Defaults : ~machine[n].running) /\ Refuse("list")
    <3>1. machineStep' = "refused" /\ UNCHANGED <<chosen, rootful, disturbed>>
      BY <2>3 DEF Refuse, Goto
    <3> QED BY <1>1, <2>1, <2>3, <3>1, Unmoved DEF MachineInv, MachineTypeOK, MachineSteps, Known, RefusedForReason,
               SettledSteps
  <2> QED BY <1>4, <2>2, <2>3 DEF ListV4, Defaults
<1>5. CallFails("load") \/ CallFails("list") =>
        machineStep' = "refused" /\ disturbed' = TRUE /\ UNCHANGED <<chosen, rootful>>
  BY DEF CallFails, Goto
<1> QED BY <1>2, <1>3, <1>4, <1>5

\* Others start and stop machines and choose the default one: neither what
\* machines there are nor what they are made as.
LEMMA ChangeStep ==
  ASSUME MachineInv, Change
  PROVE  MachineInv'
<1>1. disturbed' = TRUE /\ UNCHANGED <<machineStep, chosen, rootful>>
  BY DEF Change
<1>2. /\ machine' \in [Machines -> Machine \cup {None}] /\ default' \in Machines \cup {None}
      /\ \A n \in Machines : /\ Exists(n)' <=> Exists(n)
                             /\ Exists(n) => /\ machine'[n].v5 = machine[n].v5
                                             /\ machine'[n].rootful = machine[n].rootful
  <2>1. CASE UNCHANGED machine /\ default' \in Machines
    BY <2>1 DEF MachineInv, MachineTypeOK, Exists
  <2>2. CASE \E n \in Existing, r \in BOOLEAN :
               machine' = [machine EXCEPT ![n].running = r] /\ UNCHANGED default
    <3>1. PICK n \in Existing, r \in BOOLEAN :
            machine' = [machine EXCEPT ![n].running = r] /\ UNCHANGED default
      BY <2>2
    <3>2. machine[n] \in Machine /\ n \in Machines
      BY DEF Existing, Exists, MachineInv, MachineTypeOK
    <3>3. /\ [machine[n] EXCEPT !.running = r] \in Machine
          /\ [machine[n] EXCEPT !.running = r].v5 = machine[n].v5
          /\ [machine[n] EXCEPT !.running = r].rootful = machine[n].rootful
      BY <3>2 DEF Machine
    <3> QED BY <3>1, <3>2, <3>3, NoneAssumption DEF Exists, MachineInv, MachineTypeOK
  <2> QED BY <2>1, <2>2 DEF Change
<1>3. Existing' = Existing /\ (HasV5' <=> HasV5)
  BY <1>2, MachinesAssumption DEF Existing, HasV5
<1>4. MachineTypeOK'
  BY <1>1, <1>2, <1>3 DEF MachineInv, MachineTypeOK
<1>5. \A n \in Machines : Right(n) => Right(n)'
  BY <1>1, <1>3 DEF Right
<1>6. machineStep \in SettledSteps => chosen \in Machines /\ Exists(chosen)
  BY DEF MachineInv, MachineTypeOK, Existing, SettledSteps
<1>7. Known'
  BY <1>1, <1>2, <1>3, <1>5, <1>6 DEF MachineInv, Known, Right, SettledSteps
<1>8. RefusedForReason'
  BY <1>1 DEF RefusedForReason
<1> QED BY <1>4, <1>7, <1>8 DEF MachineInv

-----------------------------------------------------------------------------
LEMMA MachineInvariant == MachineSpec => []MachineInv
<1>1. MachineInit => MachineInv
  BY DEF MachineInit, MachineInv, MachineTypeOK, MachineSteps, Known, RefusedForReason, SettledSteps
<1>2. MachineInv /\ [MachineNext]_machineVars => MachineInv'
  <2>1. MachineInv /\ MachineNext => MachineInv'
    BY SearchStep, SettledStep, ChangeStep DEF MachineNext
  <2>2. MachineInv /\ UNCHANGED machineVars => MachineInv'
    BY DEF machineVars, MachineInv, MachineTypeOK, Known, RefusedForReason, Right, HasV5, Defaults, Existing, Exists
  <2> QED BY <2>1, <2>2
<1> QED BY <1>1, <1>2, PTL DEF MachineSpec

\* Every variable keeps its type; a command that goes on has a machine.
THEOREM MachineTypeCorrect == MachineSpec => []MachineTypeOK
<1>1. MachineInv => MachineTypeOK
  BY DEF MachineInv
<1> QED BY <1>1, MachineInvariant, PTL

\* A command that is connected is so to the machine it should work with.
THEOREM ConnectionCorrect == MachineSpec => []ConnectsToRightMachine
<1>1. MachineInv => ConnectsToRightMachine
  BY DEF MachineInv, Known, ConnectsToRightMachine, Right, SettledSteps
<1> QED BY <1>1, MachineInvariant, PTL

\* A command is refused only for a reason, while nothing changes.
THEOREM RefusalCorrect == MachineSpec => []RefusedForReason
<1>1. MachineInv => RefusedForReason
  BY DEF MachineInv
<1> QED BY <1>1, MachineInvariant, PTL
=============================================================================
