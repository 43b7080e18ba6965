---------------------------- MODULE BootcVMProofs ----------------------------
(***************************************************************************)
(* Proofs about BootcVM, for every number of processes and images, every   *)
(* set of commands, faults and guest events.                               *)
(***************************************************************************)
EXTENDS BootcVM, CacheLockProofs, TLAPS

-----------------------------------------------------------------------------
(* What the local state of a process is at each of its steps. *)

RunPcs == {"installLock", "install", "port", "rmKey", "rmPub", "keygen", "run", "template",
           "define", "create", "waitVM", "truncCfg", "writeCfg", "readKey", "waitSSH"}
NewVMPcs  == {"lookup", "lock", "check", "load"}
DeletePcs == {"shutdown", "destroy", "exists", "undefine"}

\* The port of run's VM is chosen before NewVM and needed until WriteConfig.
NeedsPort(step, j) ==
  \/ step \in {"rmKey", "rmPub", "keygen", "run", "template", "define", "create", "waitVM",
               "truncCfg", "writeCfg"}
  \/ step \in NewVMPcs /\ j.cmd \in RunCommands
  \/ step \in DeletePcs /\ j.ret = "template"

\* A process at this step may have this local state.
Local(step, j) ==
  /\ step # "idle" => j.cmd \in AllCommands /\ j.img \in Images
  /\ j.cmd \in RunCommands => j.todo = {}
  /\ step \in RunPcs => j.cmd \in RunCommands
  /\ step \in {"kill", "rmCache"} => j.cmd \in RmCommands
  /\ step = "kill" => j.ret = "rmCache"
  /\ step \in {"rmKey", "rmPub", "keygen", "run"} => j.ret = "template"
  /\ step \in DeletePcs =>
       \/ j.ret = "template" /\ j.cmd \in RunCommands
       \/ j.ret = "rmCache" /\ j.cmd \in RmCommands
       \/ j.ret = "unlock" /\ j.cmd \in RunCommands \cup {"stop"}
  /\ NeedsPort(step, j) => j.port \in Ports
  /\ step = "define" => j.key \in Keys

Control == /\ pc \in [Procs -> Pcs]
           /\ job \in [Procs -> Job]
           /\ \A p \in Procs : Local(pc[p], job[p])

\* TypeOK, made inductive.
TypeInv == LockTypeOK /\ LibvirtTypeOK /\ FilesTypeOK /\ Control

USE DEF AllCommands, RunCommands, RmCommands, FreePcs, LockedPcs, Pcs

\* The helpers that build and move local states.
LEMMA TargetType ==
  ASSUME NEW c \in AllCommands, NEW i \in Images, NEW rest \in SUBSET Images
  PROVE  /\ Target(c, i, rest) \in Job
         /\ c \notin RunCommands => Local("lookup", Target(c, i, rest))
BY NoneAssumption DEF Target, Job, Local, RunPcs, NewVMPcs, DeletePcs, NeedsPort

LEMMA NoJobType == NoJob \in Job /\ Local("idle", NoJob)
BY NoneAssumption DEF NoJob, Target, Job, Local, RunPcs, NewVMPcs, DeletePcs, NeedsPort

\* A step of p that leaves it at a step and in a local state that fit.
LEMMA ControlStep ==
  ASSUME Control, NEW p \in Procs, NEW step \in Pcs, NEW j \in Job, Local(step, j),
         pc' = [pc EXCEPT ![p] = step], job' = [job EXCEPT ![p] = j]
  PROVE  Control'
BY DEF Control

LEMMA NextTargetType ==
  ASSUME Control, NEW p \in Procs, pc[p] # "idle", NextTarget(p)
  PROVE  Control'
<1>1. job[p] \in Job /\ Local(pc[p], job[p])
  BY DEF Control
<1>2. CASE job[p].todo = {}
  <2>1. pc' = [pc EXCEPT ![p] = "idle"] /\ job' = [job EXCEPT ![p] = NoJob]
    BY <1>2 DEF NextTarget
  <2> QED BY <2>1, NoJobType, ControlStep
<1>3. CASE job[p].todo # {}
  <2>1. PICK i \in job[p].todo :
          /\ pc' = [pc EXCEPT ![p] = "lookup"]
          /\ job' = [job EXCEPT ![p] = Target(job[p].cmd, i, job[p].todo \ {i})]
    BY <1>3 DEF NextTarget
  <2>2. i \in Images /\ job[p].todo \ {i} \in SUBSET Images
    BY <1>1 DEF Job
  <2>3. job[p].cmd \in AllCommands /\ job[p].cmd \notin RunCommands
    BY <1>1, <1>3 DEF Local
  <2>4. /\ Target(job[p].cmd, i, job[p].todo \ {i}) \in Job
        /\ Local("lookup", Target(job[p].cmd, i, job[p].todo \ {i}))
    BY <2>2, <2>3, TargetType
  <2> QED BY <2>1, <2>4, ControlStep
<1> QED BY <1>2, <1>3

\* Goto a step the local state fits.
LEMMA GotoType ==
  ASSUME Control, NEW p \in Procs, NEW step \in Pcs, Local(step, job[p]), Goto(p, step)
  PROVE  Control'
<1>1. job[p] \in Job /\ job' = [job EXCEPT ![p] = job[p]]
  BY DEF Control, Goto
<1> QED BY <1>1, ControlStep DEF Goto

LEMMA GotoWithType ==
  ASSUME Control, NEW p \in Procs, NEW step \in Pcs, NEW j \in Job, Local(step, j),
         GotoWith(p, step, j)
  PROVE  Control'
BY ControlStep DEF GotoWith

LEMMA FailType ==
  ASSUME Control, NEW p \in Procs, pc[p] # "idle", Fail(p)
  PROVE  Control'
<1>1. job[p] \in Job /\ Local(pc[p], job[p])
  BY DEF Control
<1>2. CASE pc[p] \in LockedPcs
  <2> DEFINE j == [Target(job[p].cmd, Img(p), job[p].todo) EXCEPT !.failed = TRUE]
  <2>1. job[p].cmd \in AllCommands /\ job[p].img \in Images /\ job[p].todo \in SUBSET Images
    BY <1>1 DEF Local, Job
  <2>2. j \in Job
    BY <2>1 DEF Target, Job, Img
  <2>3. Local("unlock", j)
    BY <1>1, <2>1 DEF Local, Target, Img, RunPcs, NewVMPcs, DeletePcs, NeedsPort
  <2>4. GotoWith(p, "unlock", j)
    BY <1>2 DEF Fail
  <2> HIDE DEF j
  <2> QED BY <2>2, <2>3, <2>4, GotoWithType
<1>3. CASE pc[p] \notin LockedPcs
  BY <1>3, NextTargetType DEF Fail
<1> QED BY <1>2, <1>3

LEMMA FailLockType ==
  ASSUME LockTypeOK, Control, NEW p \in Procs, pc[p] # "idle", Fail(p)
  PROVE  LockTypeOK'
<1>1. Img(p) \in Images
  BY DEF Control, Local, Img
<1> QED BY <1>1, LockTypes DEF Fail, GotoWith

\* The steps of the hypervisor.
LEMMA LibvirtTypes ==
  ASSUME LibvirtTypeOK, NEW i \in Images, NEW u
  PROVE  /\ UNCHANGED dom => LibvirtTypeOK'
         /\ CreateDomain(i, u) => LibvirtTypeOK'
         /\ DestroyDomain(i, u) => LibvirtTypeOK'
         /\ UndefineDomain(i, u) => LibvirtTypeOK'
         /\ Guest(i) => LibvirtTypeOK'
<1>1. Exists(i) => dom[i] \in Domain
  BY DEF LibvirtTypeOK, Exists
<1>2. \A d \in Domain \cup {None} : dom' = [dom EXCEPT ![i] = d] => LibvirtTypeOK'
  BY DEF LibvirtTypeOK
<1>3. \A d \in Domain, s \in {"shutoff", "running", "paused"}, b \in BOOLEAN :
        [d EXCEPT !.state = s] \in Domain /\ [d EXCEPT !.persistent = b] \in Domain
  BY DEF Domain
<1>4. Exists(i) => Stopped(dom[i]) \in Domain \cup {None}
  BY <1>1, <1>3 DEF Stopped
<1>5. CreateDomain(i, u) => LibvirtTypeOK'
  BY <1>1, <1>2, <1>3 DEF CreateDomain, CanCreate, Valid
<1>6. DestroyDomain(i, u) => LibvirtTypeOK'
  BY <1>2, <1>4 DEF DestroyDomain, CanDestroy, Valid
<1>7. UndefineDomain(i, u) => LibvirtTypeOK'
  BY <1>1, <1>2, <1>3 DEF UndefineDomain, CanUndefine, Valid
<1>8. Guest(i) => LibvirtTypeOK'
  BY <1>1, <1>2, <1>3, <1>4 DEF Guest, PowerOff, Pause, Resume, Active, Running
<1>9. UNCHANGED dom => LibvirtTypeOK'
  BY DEF LibvirtTypeOK
<1> QED BY <1>5, <1>6, <1>7, <1>8, <1>9

LEMMA DefineType ==
  ASSUME LibvirtTypeOK, NEW i \in Images, NEW u \in Uuids, NEW n \in Ports, NEW k \in Keys,
         DefineDomain(i, u, n, k)
  PROVE  LibvirtTypeOK'
BY DEF LibvirtTypeOK, DefineDomain, Domain

\* A command starts.
LEMMA StartType ==
  ASSUME TypeInv, NEW p \in Procs, Start(p)
  PROVE  TypeInv'
<1>1. PICK step \in {"installLock", "lookup"}, c \in AllCommands, i \in Images, rest \in SUBSET Images :
        /\ Begin(p, step, Target(c, i, rest))
        /\ step = "lookup" => c \notin RunCommands
        /\ step = "installLock" => c \in RunCommands /\ rest = {}
  <2>1. CASE StartRun(p)
    BY <2>1 DEF StartRun
  <2>2. CASE StartOne(p)
    BY <2>2, CommandsAssumption DEF StartOne
  <2>3. CASE StartAll(p)
    BY <2>3, CommandsAssumption DEF StartAll
  <2> QED BY <2>1, <2>2, <2>3 DEF Start
<1>2. Local(step, Target(c, i, rest))
  BY <1>1, TargetType DEF Target, Local, RunPcs, NewVMPcs, DeletePcs, NeedsPort
<1>3. Control'
  BY <1>1, <1>2, TargetType, GotoWithType DEF Begin, TypeInv
<1>4. (LockTypeOK /\ LibvirtTypeOK /\ FilesTypeOK)'
  BY <1>1 DEF Begin, GotoWith, TypeInv, LockTypeOK, LibvirtTypeOK, FilesTypeOK, files
<1> QED BY <1>3, <1>4 DEF TypeInv

\* A step that only moves p on or fails it.
LEMMA MoveType ==
  ASSUME TypeInv, NEW p \in Procs, pc[p] # "idle", UNCHANGED <<dom, files>>,
         \/ Fail(p)
         \/ \E step \in Pcs : Local(step, job[p]) /\ Goto(p, step)
         \/ \E step \in Pcs, j \in Job : Local(step, j) /\ GotoWith(p, step, j)
  PROVE  TypeInv'
<1>1. Control'
  BY FailType, GotoType, GotoWithType DEF TypeInv
<1>2. LockTypeOK'
  BY FailLockType, LockTypes DEF TypeInv, Goto, GotoWith, LockTypeOK
<1>3. (LibvirtTypeOK /\ FilesTypeOK)'
  BY DEF TypeInv, LibvirtTypeOK, FilesTypeOK, files
<1> QED BY <1>1, <1>2, <1>3 DEF TypeInv

\* The steps of run before NewVM.
LEMMA InstallType ==
  ASSUME TypeInv, NEW p \in Procs, InstallLock(p) \/ Install(p) \/ FreePort(p)
  PROVE  TypeInv'
<1>1. job[p] \in Job /\ Local(pc[p], job[p])
  BY DEF TypeInv, Control
<1>2. CASE InstallLock(p)
  <2>1. CASE TryLock(p, Img(p), "exclusive")
    <3>1. pc' = [pc EXCEPT ![p] = "install"] /\ job' = [job EXCEPT ![p] = job[p]]
      BY <1>2, <2>1 DEF InstallLock, TryLock, TypeInv, Control
    <3>2. Local("install", job[p])
      BY <1>1, <1>2 DEF InstallLock, Local, Job, RunPcs, NewVMPcs, DeletePcs, NeedsPort
    <3>3. Control'
      BY <1>1, <3>1, <3>2, ControlStep DEF TypeInv
    <3>4. LockTypeOK'
      BY <1>1, <1>2, <2>1, LockTypes DEF InstallLock, TypeInv, Local, Img, Modes
    <3>5. (LibvirtTypeOK /\ FilesTypeOK)'
      BY <1>2, <2>1 DEF InstallLock, TypeInv, LibvirtTypeOK, FilesTypeOK
    <3> QED BY <3>3, <3>4, <3>5 DEF TypeInv
  <2>2. CASE ~CanLock(p, Img(p), "exclusive") /\ Fail(p) /\ UNCHANGED dir
    BY <1>2, <2>2, MoveType DEF InstallLock, files
  <2> QED BY <1>2, <2>1, <2>2 DEF InstallLock
<1>3. CASE Install(p)
  <2>1. pc' = [pc EXCEPT ![p] = "port"] /\ job' = [job EXCEPT ![p] = job[p]]
    BY <1>3 DEF Install, TypeInv, Control
  <2>2. Local("port", job[p])
    BY <1>1, <1>3 DEF Install, Local, Job, RunPcs, NewVMPcs, DeletePcs, NeedsPort
  <2>3. Control'
    BY <1>1, <2>1, <2>2, ControlStep DEF TypeInv
  <2>4. LockTypeOK'
    BY <1>1, <1>3, LockTypes DEF Install, TypeInv, Local, Img
  <2>5. (LibvirtTypeOK /\ FilesTypeOK)'
    BY <1>3 DEF Install, TypeInv, LibvirtTypeOK, FilesTypeOK
  <2> QED BY <2>3, <2>4, <2>5 DEF TypeInv
<1>4. CASE FreePort(p)
  <2>1. PICK n \in Ports : GotoWith(p, "lookup", [job[p] EXCEPT !.port = n])
    BY <1>4 DEF FreePort
  <2>2. [job[p] EXCEPT !.port = n] \in Job
    BY <1>1 DEF Job
  <2>3. Local("lookup", [job[p] EXCEPT !.port = n])
    BY <1>1, <1>4 DEF FreePort, Local, Job, RunPcs, NewVMPcs, DeletePcs, NeedsPort
  <2> QED BY <1>4, <2>1, <2>2, <2>3, MoveType DEF FreePort
<1> QED BY <1>2, <1>3, <1>4

\* NewVM.
LEMMA NewVMType ==
  ASSUME TypeInv, NEW p \in Procs,
         Lookup(p) \/ LockVM(p) \/ CheckCacheDir(p) \/ LoadExistingDomain(p)
  PROVE  TypeInv'
<1>1. job[p] \in Job /\ Local(pc[p], job[p])
  BY DEF TypeInv, Control
<1>2. CASE Lookup(p)
  <2>1. Local("lock", job[p])
    BY <1>1, <1>2 DEF Lookup, Local, Job, RunPcs, NewVMPcs, DeletePcs, NeedsPort
  <2> QED BY <1>2, <2>1, MoveType DEF Lookup
<1>3. CASE LockVM(p)
  <2>1. CASE TryLock(p, Img(p), CommandMode(job[p].cmd)) /\ pc' = [pc EXCEPT ![p] = "check"] /\ UNCHANGED job
    <3>1. pc' = [pc EXCEPT ![p] = "check"] /\ job' = [job EXCEPT ![p] = job[p]]
      BY <2>1 DEF TypeInv, Control
    <3>2. Local("check", job[p])
      BY <1>1, <1>3 DEF LockVM, Local, Job, RunPcs, NewVMPcs, DeletePcs, NeedsPort
    <3>3. Control'
      BY <1>1, <3>1, <3>2, ControlStep DEF TypeInv
    <3>4. CommandMode(job[p].cmd) \in Modes /\ Img(p) \in Images
      BY <1>1, <1>3 DEF LockVM, CommandMode, Modes, Local, Img
    <3>5. LockTypeOK'
      BY <2>1, <3>4, LockTypes DEF TypeInv
    <3>6. (LibvirtTypeOK /\ FilesTypeOK)'
      BY <1>3 DEF LockVM, TypeInv, LibvirtTypeOK, FilesTypeOK, files
    <3> QED BY <3>3, <3>5, <3>6 DEF TypeInv
  <2>2. CASE Fail(p)
    BY <1>3, <2>2, MoveType DEF LockVM
  <2> QED BY <1>3, <2>1, <2>2 DEF LockVM
<1>4. CASE CheckCacheDir(p)
  <2>1. Local("load", job[p])
    BY <1>1, <1>4 DEF CheckCacheDir, Local, Job, RunPcs, NewVMPcs, DeletePcs, NeedsPort
  <2> QED BY <1>4, <2>1, MoveType DEF CheckCacheDir
<1>5. CASE LoadExistingDomain(p)
  <2> DEFINE body == Body(job[p].cmd)
             u == IF Exists(Img(p)) THEN dom[Img(p)].uuid ELSE None
             j == [job[p] EXCEPT !.vm = u, !.ret = body.ret]
  <2>1. job[p].cmd \in AllCommands /\ Img(p) \in Images
    BY <1>1, <1>5 DEF LoadExistingDomain, Local, Img
  <2>2. u \in Uuids \cup {None}
    BY <2>1 DEF TypeInv, LibvirtTypeOK, Domain, Exists
  <2>3. /\ body.step \in Pcs
        /\ body.ret \in {"template", "unlock", "rmCache", None}
    BY <2>1 DEF Body
  <2>4. j \in Job
    <3> HIDE DEF u, body
    <3> QED BY <1>1, <2>2, <2>3 DEF Job
  <2>5. job[p].cmd \in RunCommands => job[p].port \in Ports
    BY <1>1, <1>5 DEF LoadExistingDomain, Local, Job, RunPcs, NewVMPcs, DeletePcs, NeedsPort
  <2>6. Local(body.step, j)
    BY <1>1, <1>5, <2>1, <2>5, NoneAssumption DEF LoadExistingDomain, Body, Local, Job, RunPcs, NewVMPcs, DeletePcs, NeedsPort
  <2>7. GotoWith(p, body.step, j) /\ UNCHANGED <<dom, files>> /\ pc[p] # "idle"
    BY <1>5 DEF LoadExistingDomain
  <2> HIDE DEF body, j
  <2> QED BY <2>3, <2>4, <2>6, <2>7, MoveType
<1> QED BY <1>2, <1>3, <1>4, <1>5

\* Delete, and rm.
LEMMA DeleteType ==
  ASSUME TypeInv, NEW p \in Procs,
         Shutdown(p) \/ Destroy(p) \/ DomainExists(p) \/ Undefine(p) \/ KillVM(p)
  PROVE  TypeInv'
<1>1. job[p] \in Job /\ Local(pc[p], job[p])
  BY DEF TypeInv, Control
<1>2. CASE Shutdown(p)
  <2>1. Local("destroy", job[p]) /\ Local("exists", job[p])
    BY <1>1, <1>2 DEF Shutdown, Local, Job, RunPcs, NewVMPcs, DeletePcs, NeedsPort
  <2> QED BY <1>2, <2>1, MoveType DEF Shutdown
<1>3. CASE Destroy(p)
  <2>1. Local("exists", job[p]) /\ Img(p) \in Images
    BY <1>1, <1>3 DEF Destroy, Img, Local, Job, RunPcs, NewVMPcs, DeletePcs, NeedsPort
  <2>2. CASE Fail(p) /\ UNCHANGED dom
    BY <1>3, <2>2, MoveType DEF Destroy
  <2>3. CASE DestroyDomain(Img(p), job[p].vm) /\ Goto(p, "exists")
    <3>1. Control' /\ LockTypeOK'
      BY <2>1, <2>3, GotoType DEF TypeInv, Goto, LockTypeOK
    <3>2. LibvirtTypeOK'
      BY <2>1, <2>3, LibvirtTypes DEF TypeInv
    <3> QED BY <1>3, <3>1, <3>2 DEF Destroy, TypeInv, FilesTypeOK, files
  <2> QED BY <1>3, <2>2, <2>3 DEF Destroy
<1>4. CASE DomainExists(p)
  <2>1. Local("undefine", job[p]) /\ Local(job[p].ret, job[p]) /\ job[p].ret \in Pcs
    BY <1>1, <1>4 DEF DomainExists, Local, Job, RunPcs, NewVMPcs, DeletePcs, NeedsPort
  <2> QED BY <1>4, <2>1, MoveType DEF DomainExists
<1>5. CASE Undefine(p)
  <2>1. Local(job[p].ret, job[p]) /\ job[p].ret \in Pcs /\ Img(p) \in Images
    BY <1>1, <1>5 DEF Undefine, Img, Local, Job, RunPcs, NewVMPcs, DeletePcs, NeedsPort
  <2>2. CASE Fail(p) /\ UNCHANGED dom
    BY <1>5, <2>2, MoveType DEF Undefine
  <2>3. CASE UndefineDomain(Img(p), job[p].vm) /\ Goto(p, job[p].ret)
    <3>1. Control' /\ LockTypeOK'
      BY <2>1, <2>3, GotoType DEF TypeInv, Goto, LockTypeOK
    <3>2. LibvirtTypeOK'
      BY <2>1, <2>3, LibvirtTypes DEF TypeInv
    <3> QED BY <1>5, <3>1, <3>2 DEF Undefine, TypeInv, FilesTypeOK, files
  <2> QED BY <1>5, <2>2, <2>3 DEF Undefine
<1>6. CASE KillVM(p)
  <2>1. Local("shutdown", job[p])
    BY <1>1, <1>6 DEF KillVM, Local, Job, RunPcs, NewVMPcs, DeletePcs, NeedsPort
  <2> QED BY <1>6, <2>1, MoveType DEF KillVM
<1> QED BY <1>2, <1>3, <1>4, <1>5, <1>6

\* The files of the cache change, and p moves on.
LEMMA FileStepType ==
  ASSUME TypeInv, NEW p \in Procs, NEW step \in Pcs, Local(step, job[p]), Goto(p, step),
         FilesTypeOK', UNCHANGED dom
  PROVE  TypeInv'
BY GotoType DEF TypeInv, Goto, LockTypeOK, LibvirtTypeOK

LEMMA RemoveType ==
  ASSUME TypeInv, NEW p \in Procs, RemoveFile(p) \/ RemoveDir(p)
  PROVE  TypeInv'
<1>1. job[p] \in Job /\ Local(pc[p], job[p])
  BY DEF TypeInv, Control
<1>2. CASE RemoveFile(p)
  BY <1>2 DEF RemoveFile, TypeInv, LockTypeOK, LibvirtTypeOK, Control, FilesTypeOK
<1>3. CASE RemoveDir(p)
  <2>1. Local("unlock", job[p])
    BY <1>1, <1>3 DEF RemoveDir, Local, Job, RunPcs, NewVMPcs, DeletePcs, NeedsPort
  <2>2. FilesTypeOK'
    BY <1>3 DEF RemoveDir, TypeInv, FilesTypeOK
  <2> QED BY <1>3, <2>1, <2>2, FileStepType DEF RemoveDir
<1> QED BY <1>2, <1>3

LEMMA KeysType ==
  ASSUME TypeInv, NEW p \in Procs, RemoveKey(p) \/ RemovePub(p) \/ KeyGen(p)
  PROVE  TypeInv'
<1>1. job[p] \in Job /\ Local(pc[p], job[p])
  BY DEF TypeInv, Control
<1>2. CASE RemoveKey(p)
  <2>1. Local("rmPub", job[p])
    BY <1>1, <1>2 DEF RemoveKey, Local, Job, RunPcs, NewVMPcs, DeletePcs, NeedsPort
  <2>2. FilesTypeOK'
    BY <1>2 DEF RemoveKey, TypeInv, FilesTypeOK
  <2> QED BY <1>2, <2>1, <2>2, FileStepType DEF RemoveKey
<1>3. CASE RemovePub(p)
  <2>1. Local("keygen", job[p])
    BY <1>1, <1>3 DEF RemovePub, Local, Job, RunPcs, NewVMPcs, DeletePcs, NeedsPort
  <2>2. FilesTypeOK'
    BY <1>3 DEF RemovePub, TypeInv, FilesTypeOK
  <2> QED BY <1>3, <2>1, <2>2, FileStepType DEF RemovePub
<1>4. CASE KeyGen(p)
  <2>1. Local("run", job[p])
    BY <1>1, <1>4 DEF KeyGen, Local, Job, RunPcs, NewVMPcs, DeletePcs, NeedsPort
  <2>2. CASE Fail(p) /\ UNCHANGED <<priv, pub>>
    BY <1>4, <2>2, MoveType DEF KeyGen, files
  <2>3. CASE UnusedKeys # {} /\ Goto(p, "run")
             /\ LET k == CHOOSE k \in UnusedKeys : TRUE
                IN priv' = [priv EXCEPT ![Img(p)] = k] /\ pub' = [pub EXCEPT ![Img(p)] = k]
    <3>1. PICK k \in Keys : priv' = [priv EXCEPT ![Img(p)] = k] /\ pub' = [pub EXCEPT ![Img(p)] = k]
      BY <2>3 DEF UnusedKeys
    <3>2. FilesTypeOK'
      BY <1>4, <3>1 DEF KeyGen, TypeInv, FilesTypeOK
    <3> QED BY <1>4, <2>1, <2>3, <3>2, FileStepType DEF KeyGen
  <2> QED BY <1>4, <2>2, <2>3 DEF KeyGen
<1> QED BY <1>2, <1>3, <1>4

\* BootcVMLinux.Run and WriteConfig.
LEMMA RunType ==
  ASSUME TypeInv, NEW p \in Procs,
         \/ Run(p) \/ ParseDomainTemplate(p) \/ Define(p) \/ Create(p)
         \/ WaitForVMToBeRunning(p) \/ TruncateConfig(p) \/ WriteConfig(p)
  PROVE  TypeInv'
<1>1. job[p] \in Job /\ Local(pc[p], job[p])
  BY DEF TypeInv, Control
<1>2. CASE Run(p)
  <2>1. Local("shutdown", job[p]) /\ Local("template", job[p])
    BY <1>1, <1>2 DEF Run, Local, Job, RunPcs, NewVMPcs, DeletePcs, NeedsPort
  <2> QED BY <1>2, <2>1, MoveType DEF Run
<1>3. CASE ParseDomainTemplate(p)
  <2>1. CASE Fail(p)
    BY <1>3, <2>1, MoveType DEF ParseDomainTemplate
  <2>2. CASE pub[Img(p)] # None /\ GotoWith(p, "define", [job[p] EXCEPT !.key = pub[Img(p)]])
    <3>1. Img(p) \in Images
      BY <1>1, <1>3 DEF ParseDomainTemplate, Local, Img
    <3>2. PICK k \in Keys : k = pub[Img(p)]
      BY <2>2, <3>1 DEF TypeInv, FilesTypeOK
    <3>3. [job[p] EXCEPT !.key = k] \in Job
      BY <1>1 DEF Job
    <3>4. Local("define", [job[p] EXCEPT !.key = k])
      BY <1>1, <1>3 DEF ParseDomainTemplate, Local, Job, RunPcs, NewVMPcs, DeletePcs, NeedsPort
    <3> QED BY <1>3, <2>2, <3>2, <3>3, <3>4, MoveType DEF ParseDomainTemplate
  <2> QED BY <1>3, <2>1, <2>2 DEF ParseDomainTemplate
<1>4. CASE Define(p)
  <2>1. CASE Fail(p) /\ UNCHANGED dom
    BY <1>4, <2>1, MoveType DEF Define
  <2>2. CASE UnusedUuids # {}
             /\ LET u == CHOOSE u \in UnusedUuids : TRUE
                IN  /\ DefineDomain(Img(p), u, job[p].port, job[p].key)
                    /\ GotoWith(p, "create", [job[p] EXCEPT !.vm = u, !.key = None])
    <3>1. PICK u \in Uuids : /\ DefineDomain(Img(p), u, job[p].port, job[p].key)
                             /\ GotoWith(p, "create", [job[p] EXCEPT !.vm = u, !.key = None])
      BY <2>2 DEF UnusedUuids
    <3>2. Img(p) \in Images /\ job[p].port \in Ports /\ job[p].key \in Keys
      BY <1>1, <1>4 DEF Define, Local, NeedsPort, Img
    <3>3. [job[p] EXCEPT !.vm = u, !.key = None] \in Job
      BY <1>1 DEF Job
    <3>4. Local("create", [job[p] EXCEPT !.vm = u, !.key = None])
      BY <1>1, <1>4 DEF Define, Local, Job, RunPcs, NewVMPcs, DeletePcs, NeedsPort
    <3>5. Control'
      BY <3>1, <3>3, <3>4, GotoWithType DEF TypeInv
    <3>6. LibvirtTypeOK'
      BY <3>1, <3>2, DefineType DEF TypeInv
    <3> QED BY <1>4, <3>1, <3>5, <3>6 DEF Define, TypeInv, GotoWith, LockTypeOK, FilesTypeOK, files
  <2> QED BY <1>4, <2>1, <2>2 DEF Define
<1>5. CASE Create(p)
  <2>1. CASE Fail(p) /\ UNCHANGED dom
    BY <1>5, <2>1, MoveType DEF Create
  <2>2. CASE CreateDomain(Img(p), job[p].vm) /\ Goto(p, "waitVM")
    <3>1. Local("waitVM", job[p]) /\ Img(p) \in Images
      BY <1>1, <1>5 DEF Create, Img, Local, Job, RunPcs, NewVMPcs, DeletePcs, NeedsPort
    <3>2. Control' /\ LockTypeOK'
      BY <2>2, <3>1, GotoType DEF TypeInv, Goto, LockTypeOK
    <3>3. LibvirtTypeOK'
      BY <2>2, <3>1, LibvirtTypes DEF TypeInv
    <3> QED BY <1>5, <3>2, <3>3 DEF Create, TypeInv, FilesTypeOK, files
  <2> QED BY <1>5, <2>1, <2>2 DEF Create
<1>6. CASE WaitForVMToBeRunning(p)
  <2>1. Local("truncCfg", job[p])
    BY <1>1, <1>6 DEF WaitForVMToBeRunning, Local, Job, RunPcs, NewVMPcs, DeletePcs, NeedsPort
  <2> QED BY <1>6, <2>1, MoveType DEF WaitForVMToBeRunning
<1>7. CASE TruncateConfig(p)
  <2>1. CASE Fail(p) /\ UNCHANGED cfg
    BY <1>7, <2>1, MoveType DEF TruncateConfig, files
  <2>2. CASE cfg' = [cfg EXCEPT ![Img(p)] = "torn"] /\ Goto(p, "writeCfg")
    <3>1. Local("writeCfg", job[p])
      BY <1>1, <1>7 DEF TruncateConfig, Local, Job, RunPcs, NewVMPcs, DeletePcs, NeedsPort
    <3>2. FilesTypeOK'
      BY <1>7, <2>2 DEF TruncateConfig, TypeInv, FilesTypeOK
    <3> QED BY <1>7, <2>2, <3>1, <3>2, FileStepType DEF TruncateConfig
  <2> QED BY <1>7, <2>1, <2>2 DEF TruncateConfig
<1>8. CASE WriteConfig(p)
  <2>1. Local("unlock", job[p]) /\ Local("readKey", job[p]) /\ job[p].port \in Ports
    BY <1>1, <1>8 DEF WriteConfig, Local, Job, RunPcs, NewVMPcs, DeletePcs, NeedsPort
  <2>2. FilesTypeOK'
    BY <1>8, <2>1 DEF WriteConfig, TypeInv, FilesTypeOK
  <2> QED BY <1>8, <2>1, <2>2, FileStepType DEF WriteConfig
<1> QED BY <1>2, <1>3, <1>4, <1>5, <1>6, <1>7, <1>8

\* What follows RunSSH.
LEMMA AfterSSHType ==
  ASSUME TypeInv, NEW p \in Procs, pc[p] \in {"connect", "session"}, AfterSSH(p),
         UNCHANGED <<dom, files>>
  PROVE  TypeInv'
<1>1. job[p] \in Job /\ Local(pc[p], job[p])
  BY DEF TypeInv, Control
<1>2. CASE job[p].cmd = "runRm"
  <2> DEFINE j == [job[p] EXCEPT !.peer = None, !.port = None, !.ret = "unlock"]
  <2>1. j \in Job
    BY <1>1 DEF Job
  <2>2. Local("shutdown", j)
    BY <1>1, <1>2, NoneAssumption DEF Local, Job, RunPcs, NewVMPcs, DeletePcs, NeedsPort
  <2>3. GotoWith(p, "shutdown", j)
    BY <1>2 DEF AfterSSH
  <2> HIDE DEF j
  <2> QED BY <2>1, <2>2, <2>3, MoveType
<1>3. CASE job[p].cmd # "runRm"
  <2> DEFINE j == [job[p] EXCEPT !.peer = None, !.port = None]
  <2>1. j \in Job
    BY <1>1 DEF Job
  <2>2. Local("unlock", j)
    BY <1>1, NoneAssumption DEF Local, Job, RunPcs, NewVMPcs, DeletePcs, NeedsPort
  <2>3. GotoWith(p, "unlock", j)
    BY <1>3 DEF AfterSSH
  <2> HIDE DEF j
  <2> QED BY <2>1, <2>2, <2>3, MoveType
<1> QED BY <1>2, <1>3

LEMMA SSHType ==
  ASSUME TypeInv, NEW p \in Procs,
         \/ ReadKey(p) \/ WaitForSSH(p) \/ LoadConfig(p) \/ Connect(p) \/ EndSession(p)
         \/ GetConfig(p)
  PROVE  TypeInv'
<1>1. job[p] \in Job /\ Local(pc[p], job[p])
  BY DEF TypeInv, Control
<1>2. CASE ReadKey(p)
  <2>1. CASE Fail(p)
    BY <1>2, <2>1, MoveType DEF ReadKey
  <2>2. CASE priv[Img(p)] # None /\ GotoWith(p, "waitSSH", [job[p] EXCEPT !.key = priv[Img(p)]])
    <3>1. Img(p) \in Images
      BY <1>1, <1>2 DEF ReadKey, Local, Img
    <3>2. PICK k \in Keys : k = priv[Img(p)]
      BY <2>2, <3>1 DEF TypeInv, FilesTypeOK
    <3>3. [job[p] EXCEPT !.key = k] \in Job
      BY <1>1 DEF Job
    <3>4. Local("waitSSH", [job[p] EXCEPT !.key = k])
      BY <1>1, <1>2 DEF ReadKey, Local, Job, RunPcs, NewVMPcs, DeletePcs, NeedsPort
    <3> QED BY <1>2, <2>2, <3>2, <3>3, <3>4, MoveType DEF ReadKey
  <2> QED BY <1>2, <2>1, <2>2 DEF ReadKey
<1>3. CASE WaitForSSH(p)
  <2>1. [job[p] EXCEPT !.key = None] \in Job
    BY <1>1 DEF Job
  <2>2. Local("loadCfg", [job[p] EXCEPT !.key = None])
    BY <1>1, <1>3 DEF WaitForSSH, Local, Job, RunPcs, NewVMPcs, DeletePcs, NeedsPort
  <2> QED BY <1>3, <2>1, <2>2, MoveType DEF WaitForSSH
<1>4. CASE LoadConfig(p)
  <2>1. CASE Fail(p)
    BY <1>4, <2>1, MoveType DEF LoadConfig
  <2>2. CASE ConfigLoads(Img(p)) /\ GotoWith(p, "connect", [job[p] EXCEPT !.port = cfg[Img(p)]])
    <3>1. PICK n \in Ports : n = cfg[Img(p)]
      BY <2>2 DEF ConfigLoads
    <3>2. [job[p] EXCEPT !.port = n] \in Job
      BY <1>1 DEF Job
    <3>3. Local("connect", [job[p] EXCEPT !.port = n])
      BY <1>1, <1>4 DEF LoadConfig, Local, Job, RunPcs, NewVMPcs, DeletePcs, NeedsPort
    <3> QED BY <1>4, <2>2, <3>1, <3>2, <3>3, MoveType DEF LoadConfig
  <2> QED BY <1>4, <2>1, <2>2 DEF LoadConfig
<1>5. CASE Connect(p)
  <2>1. CASE AfterSSH(p)
    BY <1>5, <2>1, AfterSSHType DEF Connect
  <2>2. CASE \E i \in Images : GotoWith(p, "session", [job[p] EXCEPT !.peer = i, !.port = None])
    <3>1. PICK i \in Images : GotoWith(p, "session", [job[p] EXCEPT !.peer = i, !.port = None])
      BY <2>2
    <3>2. [job[p] EXCEPT !.peer = i, !.port = None] \in Job
      BY <1>1 DEF Job
    <3>3. Local("session", [job[p] EXCEPT !.peer = i, !.port = None])
      BY <1>1, <1>5 DEF Connect, Local, Job, RunPcs, NewVMPcs, DeletePcs, NeedsPort
    <3> QED BY <1>5, <3>1, <3>2, <3>3, MoveType DEF Connect
  <2> QED BY <1>5, <2>1, <2>2 DEF Connect
<1>6. CASE EndSession(p)
  BY <1>6, AfterSSHType DEF EndSession
<1>7. CASE GetConfig(p)
  <2>1. Local("unlock", job[p])
    BY <1>1, <1>7 DEF GetConfig, Local, Job, RunPcs, NewVMPcs, DeletePcs, NeedsPort
  <2> QED BY <1>7, <2>1, MoveType DEF GetConfig
<1> QED BY <1>2, <1>3, <1>4, <1>5, <1>6, <1>7

\* The end of a command, its failures, and the guests.
LEMMA EndType ==
  ASSUME TypeInv, NEW p \in Procs, UnlockVM(p) \/ Fault(p) \/ Die(p)
  PROVE  TypeInv'
<1>1. pc[p] # "idle"
  BY FaultsAssumption DEF UnlockVM, Fault, Die, Infallible
<1>2. Img(p) \in Images
  BY <1>1 DEF TypeInv, Control, Local, Img
<1>3. CASE Fault(p)
  BY <1>1, <1>3, MoveType DEF Fault
<1>4. CASE UnlockVM(p) \/ Die(p)
  <2>1. Control'
    BY <1>1, <1>4, NextTargetType, NoJobType, ControlStep DEF UnlockVM, Die, TypeInv
  <2>2. LockTypeOK'
    BY <1>2, <1>4, LockTypes DEF UnlockVM, Die, TypeInv
  <2> QED BY <1>4, <2>1, <2>2 DEF UnlockVM, Die, TypeInv, LibvirtTypeOK, FilesTypeOK, files
<1> QED BY <1>3, <1>4

LEMMA GuestType ==
  ASSUME TypeInv, NEW i \in Images, GuestStep(i)
  PROVE  TypeInv'
BY LibvirtTypes DEF GuestStep, TypeInv, LockTypeOK, Control, FilesTypeOK, files

LEMMA TypeStep == TypeInv /\ [Next]_vars => TypeInv'
<1> SUFFICES ASSUME TypeInv, [Next]_vars PROVE TypeInv'
  OBVIOUS
<1>1. CASE UNCHANGED vars
  BY <1>1 DEF vars, TypeInv, LockTypeOK, LibvirtTypeOK, Control, FilesTypeOK
<1>2. ASSUME NEW p \in Procs, Start(p) \/ Step(p) \/ EndSession(p) \/ Fault(p) \/ Die(p)
      PROVE  TypeInv'
  BY <1>2, StartType, InstallType, NewVMType, DeleteType, RemoveType, KeysType, RunType,
     SSHType, EndType DEF Step
<1>3. ASSUME NEW i \in Images, GuestStep(i)
      PROVE  TypeInv'
  BY <1>3, GuestType
<1> QED BY <1>1, <1>2, <1>3 DEF Next

LEMMA TypeInit == Init => TypeInv
BY NoJobType DEF Init, LockInit, LibvirtInit, TypeInv, LockTypeOK, LibvirtTypeOK, Control, FilesTypeOK

LEMMA TypeInvImplies == TypeInv => TypeOK
BY NoneAssumption DEF TypeInv, TypeOK, Control, ControlTypeOK, Local

LEMMA TypeInvariant == Spec => []TypeInv
BY TypeInit, TypeStep, PTL DEF Spec

\* Every variable keeps its type, whatever the commands, their failures and
\* their deaths do: no command ever works with a half-written config's port.
THEOREM TypeCorrect == Spec => []TypeOK
BY TypeInvariant, TypeInvImplies, PTL

-----------------------------------------------------------------------------
(* The lock: every step of a process keeps what it holds, takes the lock of *)
(* its image, gives it up, or holds nothing before and after.              *)

Others(p) == \A q \in Procs \ {p} : pc'[q] = pc[q] /\ job'[q] = job[q]

Keeps(p)  == UNCHANGED lock /\ Img(p)' = Img(p) /\ HeldMode(p)' = HeldMode(p)
Drops(p)  == Unlock(p, Img(p)) /\ HeldMode(p)' = "none"
Takes(p)  == /\ \E mode \in Modes : TryLock(p, Img(p), mode) /\ HeldMode(p)' = mode
             /\ Img(p)' = Img(p)
Begins(p) == UNCHANGED lock /\ HeldMode(p) = "none" /\ HeldMode(p)' = "none"

LockStep(p) == Others(p) /\ (Keeps(p) \/ Drops(p) \/ Takes(p) \/ Begins(p))

LEMMA GotoKeeps ==
  ASSUME TypeInv, NEW p \in Procs, NEW step, Goto(p, step),
         {pc[p], step} \subseteq LockedPcs \/ {pc[p], step} \subseteq FreePcs
  PROVE  LockStep(p)
<1>1. Others(p) /\ pc'[p] = step /\ job'[p] = job[p] /\ UNCHANGED lock
  BY DEF Goto, TypeInv, Control, Others
<1>2. Img(p)' = Img(p)
  BY <1>1 DEF Img
<1>3. HeldMode(p)' = HeldMode(p)
  BY <1>1 DEF HeldMode
<1> QED BY <1>1, <1>2, <1>3 DEF LockStep, Keeps

LEMMA GotoWithKeeps ==
  ASSUME TypeInv, NEW p \in Procs, NEW step, NEW j, GotoWith(p, step, j),
         j.cmd = job[p].cmd, j.img = job[p].img,
         {pc[p], step} \subseteq LockedPcs \/ {pc[p], step} \subseteq FreePcs
  PROVE  LockStep(p)
<1>1. Others(p) /\ pc'[p] = step /\ job'[p] = j /\ UNCHANGED lock
  BY DEF GotoWith, TypeInv, Control, Others
<1>2. Img(p)' = Img(p)
  BY <1>1 DEF Img
<1>3. HeldMode(p)' = HeldMode(p)
  BY <1>1 DEF HeldMode
<1> QED BY <1>1, <1>2, <1>3 DEF LockStep, Keeps

LEMMA NextTargetFree ==
  ASSUME TypeInv, NEW p \in Procs, NextTarget(p)
  PROVE  Others(p) /\ HeldMode(p)' = "none" /\ pc'[p] \in {"idle", "lookup"}
<1>1. Others(p) /\ pc'[p] \in {"idle", "lookup"}
  BY DEF NextTarget, TypeInv, Control, Others
<1> QED BY <1>1 DEF HeldMode

LEMMA FailLocks ==
  ASSUME TypeInv, NEW p \in Procs, Fail(p)
  PROVE  LockStep(p)
<1>1. CASE pc[p] \in LockedPcs
  <2> DEFINE j == [Target(job[p].cmd, Img(p), job[p].todo) EXCEPT !.failed = TRUE]
  <2>1. j.cmd = job[p].cmd /\ j.img = job[p].img
    BY DEF Target, Img
  <2>2. GotoWith(p, "unlock", j)
    BY <1>1 DEF Fail
  <2> HIDE DEF j
  <2> QED BY <1>1, <2>1, <2>2, GotoWithKeeps
<1>2. CASE pc[p] \notin LockedPcs
  BY <1>2, NextTargetFree DEF Fail, LockStep, Drops
<1> QED BY <1>1, <1>2

LEMMA AfterSSHKeeps ==
  ASSUME TypeInv, NEW p \in Procs, pc[p] \in {"connect", "session"}, AfterSSH(p)
  PROVE  LockStep(p)
<1>1. job[p] \in Job
  BY DEF TypeInv, Control
<1>2. CASE job[p].cmd = "runRm"
  <2> DEFINE j == [job[p] EXCEPT !.peer = None, !.port = None, !.ret = "unlock"]
  <2>1. j.cmd = job[p].cmd /\ j.img = job[p].img
    BY <1>1 DEF Job
  <2>2. GotoWith(p, "shutdown", j)
    BY <1>2 DEF AfterSSH
  <2> HIDE DEF j
  <2> QED BY <2>1, <2>2, GotoWithKeeps
<1>3. CASE job[p].cmd # "runRm"
  <2> DEFINE j == [job[p] EXCEPT !.peer = None, !.port = None]
  <2>1. j.cmd = job[p].cmd /\ j.img = job[p].img
    BY <1>1 DEF Job
  <2>2. GotoWith(p, "unlock", j)
    BY <1>3 DEF AfterSSH
  <2> HIDE DEF j
  <2> QED BY <2>1, <2>2, GotoWithKeeps
<1> QED BY <1>2, <1>3

\* Each command's steps before it has the lock of its VM.
LEMMA EarlyLockStep ==
  ASSUME TypeInv, NEW p \in Procs,
         \/ Start(p) \/ InstallLock(p) \/ Install(p) \/ FreePort(p)
         \/ Lookup(p) \/ LockVM(p)
  PROVE  LockStep(p)
<1>1. job[p] \in Job /\ Local(pc[p], job[p]) /\ pc[p] \in Pcs
  BY DEF TypeInv, Control
<1>2. CASE Start(p)
  <2>1. PICK step \in {"installLock", "lookup"} : \E j : Begin(p, step, j)
    BY <1>2 DEF Start, StartRun, StartOne, StartAll
  <2>2. Others(p) /\ pc[p] = "idle" /\ pc'[p] = step /\ UNCHANGED lock
    BY <2>1 DEF Begin, GotoWith, TypeInv, Control, Others
  <2> QED BY <2>2 DEF HeldMode, LockStep, Begins
<1>3. CASE InstallLock(p)
  <2>1. CASE TryLock(p, Img(p), "exclusive") /\ pc' = [pc EXCEPT ![p] = "install"] /\ UNCHANGED job
    <3>1. Others(p) /\ pc'[p] = "install" /\ job'[p] = job[p]
      BY <2>1 DEF TypeInv, Control, Others
    <3>2. HeldMode(p)' = "exclusive" /\ Img(p)' = Img(p)
      BY <3>1 DEF HeldMode, Img
    <3> QED BY <2>1, <3>1, <3>2 DEF LockStep, Takes, Modes
  <2> QED BY <1>3, <2>1, FailLocks DEF InstallLock
<1>4. CASE Install(p)
  <2>1. Others(p) /\ pc'[p] = "port"
    BY <1>4 DEF Install, TypeInv, Control, Others
  <2>2. HeldMode(p)' = "none"
    BY <2>1 DEF HeldMode
  <2> QED BY <1>4, <2>1, <2>2 DEF Install, LockStep, Drops
<1>5. CASE FreePort(p)
  <2>1. PICK n \in Ports : GotoWith(p, "lookup", [job[p] EXCEPT !.port = n])
    BY <1>5 DEF FreePort
  <2>2. /\ [job[p] EXCEPT !.port = n].cmd = job[p].cmd
        /\ [job[p] EXCEPT !.port = n].img = job[p].img
    BY <1>1 DEF Job
  <2> QED BY <1>5, <2>1, <2>2, GotoWithKeeps DEF FreePort
<1>6. CASE Lookup(p)
  BY <1>6, GotoKeeps, FailLocks DEF Lookup
<1>7. CASE LockVM(p)
  <2>1. CASE TryLock(p, Img(p), CommandMode(job[p].cmd)) /\ pc' = [pc EXCEPT ![p] = "check"] /\ UNCHANGED job
    <3>1. Others(p) /\ pc'[p] = "check" /\ job'[p] = job[p]
      BY <2>1 DEF TypeInv, Control, Others
    <3>2. HeldMode(p)' = CommandMode(job[p].cmd) /\ Img(p)' = Img(p)
      BY <3>1 DEF HeldMode, Img
    <3>3. CommandMode(job[p].cmd) \in Modes
      BY DEF CommandMode, Modes
    <3> QED BY <2>1, <3>1, <3>2, <3>3 DEF LockStep, Takes
  <2> QED BY <1>7, <2>1, FailLocks DEF LockVM
<1> QED BY <1>2, <1>3, <1>4, <1>5, <1>6, <1>7

\* The steps it takes while it has it.
LEMMA WorkLockStep ==
  ASSUME TypeInv, NEW p \in Procs,
         \/ CheckCacheDir(p) \/ LoadExistingDomain(p)
         \/ Shutdown(p) \/ Destroy(p) \/ DomainExists(p) \/ Undefine(p) \/ KillVM(p)
         \/ RemoveFile(p) \/ RemoveDir(p) \/ RemoveKey(p) \/ RemovePub(p) \/ KeyGen(p)
         \/ Run(p) \/ ParseDomainTemplate(p) \/ Define(p) \/ Create(p)
         \/ WaitForVMToBeRunning(p) \/ TruncateConfig(p) \/ WriteConfig(p)
         \/ ReadKey(p) \/ WaitForSSH(p) \/ LoadConfig(p) \/ Connect(p) \/ EndSession(p)
         \/ GetConfig(p)
  PROVE  LockStep(p)
<1>1. job[p] \in Job /\ Local(pc[p], job[p])
  BY DEF TypeInv, Control
<1>2. CASE \/ CheckCacheDir(p) \/ Shutdown(p) \/ Destroy(p) \/ KillVM(p) \/ RemoveDir(p)
           \/ RemoveKey(p) \/ RemovePub(p) \/ KeyGen(p) \/ Run(p) \/ Create(p)
           \/ WaitForVMToBeRunning(p) \/ TruncateConfig(p) \/ WriteConfig(p) \/ GetConfig(p)
  <2>1. pc[p] \in LockedPcs /\ (Fail(p) \/ \E step \in LockedPcs : Goto(p, step))
    BY <1>2 DEF CheckCacheDir, Shutdown, Destroy, KillVM, RemoveDir, RemoveKey, RemovePub, KeyGen,
         Run, Create, WaitForVMToBeRunning, TruncateConfig, WriteConfig, GetConfig
  <2> QED BY <2>1, FailLocks, GotoKeeps
<1>3. CASE DomainExists(p) \/ Undefine(p)
  <2>1. pc[p] \in LockedPcs /\ job[p].ret \in LockedPcs
    BY <1>1, <1>3 DEF DomainExists, Undefine, Local, DeletePcs
  <2> QED BY <1>3, <2>1, FailLocks, GotoKeeps DEF DomainExists, Undefine
<1>4. CASE RemoveFile(p)
  <2>1. UNCHANGED <<lock, pc, job>>
    BY <1>4 DEF RemoveFile
  <2>2. Others(p) /\ Img(p)' = Img(p) /\ HeldMode(p)' = HeldMode(p)
    BY <2>1 DEF Others, Img, HeldMode
  <2> QED BY <2>1, <2>2 DEF LockStep, Keeps
<1>5. CASE LoadExistingDomain(p)
  <2> DEFINE body == Body(job[p].cmd)
             u == IF Exists(Img(p)) THEN dom[Img(p)].uuid ELSE None
             j == [job[p] EXCEPT !.vm = u, !.ret = body.ret]
  <2>1. GotoWith(p, body.step, j) /\ pc[p] \in LockedPcs
    BY <1>5 DEF LoadExistingDomain
  <2>2. body.step \in LockedPcs
    BY <1>1, <1>5 DEF LoadExistingDomain, Body, Local
  <2>3. j.cmd = job[p].cmd /\ j.img = job[p].img
    BY <1>1 DEF Job
  <2> HIDE DEF j, body
  <2> QED BY <2>1, <2>2, <2>3, GotoWithKeeps
<1>6. CASE \/ ParseDomainTemplate(p) \/ Define(p) \/ ReadKey(p) \/ WaitForSSH(p) \/ LoadConfig(p)
  <2>1. ASSUME NEW v
        PROVE  /\ [job[p] EXCEPT !.key = v].cmd = job[p].cmd
               /\ [job[p] EXCEPT !.key = v].img = job[p].img
               /\ [job[p] EXCEPT !.port = v].cmd = job[p].cmd
               /\ [job[p] EXCEPT !.port = v].img = job[p].img
    BY <1>1 DEF Job
  <2>2. ASSUME NEW u
        PROVE  /\ [job[p] EXCEPT !.vm = u, !.key = None].cmd = job[p].cmd
               /\ [job[p] EXCEPT !.vm = u, !.key = None].img = job[p].img
    BY <1>1 DEF Job
  <2>3. CASE ParseDomainTemplate(p)
    BY <2>1, <2>3, FailLocks, GotoWithKeeps DEF ParseDomainTemplate
  <2>4. CASE Define(p)
    BY <2>2, <2>4, FailLocks, GotoWithKeeps DEF Define
  <2>5. CASE ReadKey(p)
    BY <2>1, <2>5, FailLocks, GotoWithKeeps DEF ReadKey
  <2>6. CASE WaitForSSH(p)
    BY <2>1, <2>6, FailLocks, GotoWithKeeps DEF WaitForSSH
  <2>7. CASE LoadConfig(p)
    BY <2>1, <2>7, FailLocks, GotoWithKeeps DEF LoadConfig
  <2> QED BY <1>6, <2>3, <2>4, <2>5, <2>6, <2>7
<1>7. CASE Connect(p) \/ EndSession(p)
  <2>1. pc[p] \in {"connect", "session"} /\ pc[p] \in LockedPcs
    BY <1>7 DEF Connect, EndSession
  <2>2. CASE AfterSSH(p)
    BY <2>1, <2>2, AfterSSHKeeps
  <2>3. ASSUME NEW i \in Images, GotoWith(p, "session", [job[p] EXCEPT !.peer = i, !.port = None])
        PROVE  LockStep(p)
    <3> DEFINE j == [job[p] EXCEPT !.peer = i, !.port = None]
    <3>1. j.cmd = job[p].cmd /\ j.img = job[p].img
      BY <1>1 DEF Job
    <3>2. GotoWith(p, "session", j)
      BY <2>3
    <3> HIDE DEF j
    <3> QED BY <2>1, <3>1, <3>2, GotoWithKeeps
  <2> QED BY <1>7, <2>2, <2>3 DEF Connect, EndSession
<1> QED BY <1>2, <1>3, <1>4, <1>5, <1>6, <1>7

LEMMA EndLockStep ==
  ASSUME TypeInv, NEW p \in Procs, UnlockVM(p) \/ Fault(p) \/ Die(p)
  PROVE  LockStep(p)
<1>1. CASE UnlockVM(p)
  BY <1>1, NextTargetFree DEF UnlockVM, LockStep, Drops
<1>2. CASE Fault(p)
  BY <1>2, FailLocks DEF Fault
<1>3. CASE Die(p)
  <2>1. Others(p) /\ pc'[p] = "idle"
    BY <1>3 DEF Die, TypeInv, Control, Others
  <2>2. HeldMode(p)' = "none"
    BY <2>1 DEF HeldMode
  <2> QED BY <1>3, <2>1, <2>2 DEF Die, LockStep, Drops
<1> QED BY <1>1, <1>2, <1>3

LEMMA LockSteps ==
  ASSUME TypeInv, NEW p \in Procs, Start(p) \/ Step(p) \/ EndSession(p) \/ Fault(p) \/ Die(p)
  PROVE  LockStep(p)
BY EarlyLockStep, WorkLockStep, EndLockStep DEF Step

LEMMA LockDisciplineStep ==
  ASSUME TypeInv, LockDiscipline, ExclusiveIsAlone, NEW p \in Procs, LockStep(p)
  PROVE  LockDiscipline' /\ ExclusiveIsAlone'
<1>1. \A q \in Procs \ {p} : HeldMode(q)' = HeldMode(q) /\ Img(q)' = Img(q)
  BY DEF LockStep, Others, HeldMode, Img
<1>2. CASE Keeps(p)
  BY <1>1, <1>2 DEF Keeps, LockDiscipline, ExclusiveIsAlone
<1>3. CASE Begins(p)
  BY <1>1, <1>3 DEF Begins, LockDiscipline, ExclusiveIsAlone
<1>4. CASE Drops(p)
  BY <1>1, <1>4 DEF Drops, Unlock, LockDiscipline, ExclusiveIsAlone, TypeInv, LockTypeOK
<1>5. CASE Takes(p)
  BY <1>1, <1>5 DEF Takes, TryLock, CanLock, LockDiscipline, ExclusiveIsAlone, TypeInv, LockTypeOK, Modes
<1> QED BY <1>2, <1>3, <1>4, <1>5 DEF LockStep

LEMMA LockInvariant == Spec => [](TypeInv /\ LockDiscipline /\ ExclusiveIsAlone)
<1>1. Init => LockDiscipline /\ ExclusiveIsAlone
  BY DEF Init, LockInit, LockDiscipline, ExclusiveIsAlone, HeldMode
<1>2. TypeInv /\ LockDiscipline /\ ExclusiveIsAlone /\ [Next]_vars => (LockDiscipline /\ ExclusiveIsAlone)'
  <2> SUFFICES ASSUME TypeInv, LockDiscipline, ExclusiveIsAlone, [Next]_vars
               PROVE  (LockDiscipline /\ ExclusiveIsAlone)'
    OBVIOUS
  <2>1. CASE UNCHANGED vars \/ \E i \in Images : GuestStep(i)
    <3>1. UNCHANGED <<lock, pc, job>>
      BY <2>1 DEF vars, GuestStep
    <3> QED BY <3>1 DEF LockDiscipline, ExclusiveIsAlone, HeldMode, Img
  <2>2. ASSUME NEW p \in Procs, Start(p) \/ Step(p) \/ EndSession(p) \/ Fault(p) \/ Die(p)
        PROVE  (LockDiscipline /\ ExclusiveIsAlone)'
    BY <2>2, LockSteps, LockDisciplineStep
  <2> QED BY <2>1, <2>2 DEF Next
<1> QED BY <1>1, <1>2, TypeInvariant, PTL DEF Spec

\* A process holds the lock of its image exactly while it works on it, and no
\* other; no error path and no death leaves a lock behind.
THEOREM LockingCorrect == Spec => []LockDiscipline
BY LockInvariant, PTL

\* An exclusive holder (Install, stop, rm) has the image to itself.
THEOREM ExclusionCorrect == Spec => []ExclusiveIsAlone
BY LockInvariant, PTL

-----------------------------------------------------------------------------
(* The cache directory in use. *)

LockInv == TypeInv /\ LockDiscipline /\ ExclusiveIsAlone

Exclusive == RmCommands \cup {"stop"}

\* While a process that stops or removes a VM has the lock of its image, no
\* other process holds it.
LEMMA Alone ==
  ASSUME LockInv, NEW p \in Procs, NEW q \in Procs \ {p},
         pc[p] \in LockedPcs, job[p].cmd \in Exclusive,
         pc[q] \in LockedPcs
  PROVE  Img(q) # Img(p)
<1>1. Img(p) \in Images
  BY DEF LockInv, TypeInv, Control, Local, Img
<1>2. lock[Img(p)][p] = "exclusive"
  BY <1>1 DEF LockInv, LockDiscipline, HeldMode, CommandMode, Exclusive
<1>3. HeldMode(q) # "none"
  BY DEF HeldMode, CommandMode
<1> QED BY <1>1, <1>2, <1>3 DEF LockInv, LockDiscipline, ExclusiveIsAlone

\* A process in the locked part of a command after a step works on the image
\* it worked on before.
LEMMA LockedKeepsImage ==
  ASSUME NEW p \in Procs, LockStep(p), pc'[p] \in LockedPcs
  PROVE  Img(p)' = Img(p)
<1>1. HeldMode(p)' # "none"
  BY DEF HeldMode, CommandMode
<1> QED BY <1>1 DEF LockStep, Keeps, Takes, Drops, Begins

\* Where a helper leaves the process that calls it.
LEMMA GotoEnds ==
  ASSUME TypeInv, NEW p \in Procs, NEW step
  PROVE  /\ Goto(p, step) => pc'[p] = step /\ job'[p] = job[p]
         /\ \A j : GotoWith(p, step, j) => pc'[p] = step /\ job'[p] = j
BY DEF Goto, GotoWith, TypeInv, Control

LEMMA FailEnds ==
  ASSUME TypeInv, NEW p \in Procs, Fail(p)
  PROVE  \/ pc'[p] \in {"idle", "lookup"}
         \/ pc'[p] = "unlock" /\ job'[p].failed
<1>1. CASE pc[p] \in LockedPcs
  <2> DEFINE j == [Target(job[p].cmd, Img(p), job[p].todo) EXCEPT !.failed = TRUE]
  <2>1. j.failed
    BY DEF Target
  <2>2. GotoWith(p, "unlock", j)
    BY <1>1 DEF Fail
  <2> HIDE DEF j
  <2> QED BY <2>1, <2>2, GotoEnds
<1>2. CASE pc[p] \notin LockedPcs
  BY <1>2, NextTargetFree DEF Fail
<1> QED BY <1>1, <1>2

\* A process begins to use the directory only when it has just seen it.
LEMMA BeginsToUse ==
  ASSUME TypeInv, NEW p \in Procs, Start(p) \/ Step(p) \/ EndSession(p) \/ Fault(p) \/ Die(p),
         pc[p] \notin UsingPcs, pc'[p] \in UsingPcs
  PROVE  dir[Img(p)] /\ UNCHANGED dir
<1>1. ~Fail(p) /\ pc'[p] \notin {"idle", "lookup", "unlock"}
  BY FailEnds DEF UsingPcs
<1>2. ~Start(p)
  <2>1. ASSUME NEW step \in {"installLock", "lookup"}, NEW j, Begin(p, step, j)
        PROVE  FALSE
    BY <2>1, GotoEnds DEF Begin, UsingPcs
  <2> QED BY <2>1 DEF Start, StartRun, StartOne, StartAll
<1>3. ~(InstallLock(p) \/ Install(p) \/ FreePort(p) \/ Lookup(p) \/ LockVM(p))
  <2>1. FreePort(p) => pc'[p] = "lookup"
    BY GotoEnds DEF FreePort
  <2>2. ~(InstallLock(p) \/ Install(p) \/ LockVM(p))
    BY <1>1 DEF InstallLock, Install, LockVM, TypeInv, Control, UsingPcs
  <2>3. ~Lookup(p)
    BY <1>1, GotoEnds DEF Lookup, UsingPcs
  <2> QED BY <1>1, <2>1, <2>2, <2>3
<1>4. ~(RemoveFile(p) \/ RemoveDir(p) \/ UnlockVM(p) \/ Fault(p) \/ Die(p))
  BY <1>1, GotoEnds, NextTargetFree DEF RemoveFile, RemoveDir, UnlockVM, Fault, Die, TypeInv, Control, UsingPcs
<1>5. CheckCacheDir(p)
  BY <1>2, <1>3, <1>4 DEF Step, UsingPcs, LoadExistingDomain, Shutdown, Destroy, DomainExists, Undefine,
     KillVM, RemoveKey, RemovePub, KeyGen, Run, ParseDomainTemplate, Define, Create,
     WaitForVMToBeRunning, TruncateConfig, WriteConfig, ReadKey, WaitForSSH, LoadConfig, Connect,
     EndSession, GetConfig
<1> QED BY <1>1, <1>5 DEF CheckCacheDir, files

\* Only InstallLock and RemoveDir touch a directory.
LEMMA DirSteps ==
  ASSUME NEW p \in Procs, Start(p) \/ Step(p) \/ EndSession(p) \/ Fault(p) \/ Die(p)
  PROVE  UNCHANGED dir \/ InstallLock(p) \/ RemoveDir(p)
BY DEF Start, StartRun, StartOne, StartAll, Begin, Step, Install, FreePort, Lookup, LockVM,
   CheckCacheDir, LoadExistingDomain, Shutdown, Destroy, DomainExists, Undefine, KillVM, RemoveFile,
   RemoveKey, RemovePub, KeyGen, Run, ParseDomainTemplate, Define, Create, WaitForVMToBeRunning,
   TruncateConfig, WriteConfig, ReadKey, WaitForSSH, LoadConfig, Connect, EndSession, GetConfig,
   UnlockVM, Fault, Die, files

LEMMA UsedCacheStep ==
  ASSUME LockInv, UsedCacheExists, NEW p \in Procs,
         Start(p) \/ Step(p) \/ EndSession(p) \/ Fault(p) \/ Die(p)
  PROVE  UsedCacheExists'
<1>1. LockStep(p) /\ TypeInv
  BY LockSteps DEF LockInv
<1>2. TypeInv'
  BY <1>1, TypeStep DEF Next
<1> SUFFICES ASSUME NEW q \in Procs, pc'[q] \in UsingPcs
             PROVE  dir'[Img(q)']
  BY DEF UsedCacheExists
<1>3. Img(q)' = Img(q) /\ pc'[q] \in LockedPcs
  BY <1>1, LockedKeepsImage DEF UsingPcs, LockStep, Others, Img
<1>4. Img(q) \in Images
  BY <1>2, <1>3 DEF TypeInv, Control, Local, Img
<1>5. dir[Img(q)]
  <2>1. CASE pc[q] \in UsingPcs
    BY <2>1 DEF UsedCacheExists
  <2>2. CASE pc[q] \notin UsingPcs
    BY <1>1, <2>2, BeginsToUse DEF LockStep, Others
  <2> QED BY <2>1, <2>2
<1>6. CASE UNCHANGED dir
  BY <1>3, <1>5, <1>6
<1>7. CASE InstallLock(p)
  BY <1>1, <1>3, <1>4, <1>5, <1>7 DEF InstallLock, TypeInv, FilesTypeOK
<1>8. CASE RemoveDir(p)
  <2>1. pc[p] = "rmCache" /\ pc'[p] = "unlock"
    BY <1>1, <1>8, GotoEnds DEF RemoveDir
  <2>2. q # p /\ pc[q] \in LockedPcs
    BY <1>1, <1>3, <2>1 DEF UsingPcs, LockStep, Others
  <2>3. job[p].cmd \in Exclusive
    BY <1>1, <2>1 DEF TypeInv, Control, Local, Exclusive
  <2>4. Img(q) # Img(p)
    BY <2>1, <2>2, <2>3, Alone
  <2> QED BY <1>1, <1>3, <1>4, <1>5, <1>8, <2>4 DEF RemoveDir, TypeInv, FilesTypeOK
<1> QED BY <1>6, <1>7, <1>8, DirSteps

\* No rm removes a cache directory under a command that has passed lockVM,
\* although the directory is looked up before it is locked.
THEOREM UsedCacheCorrect == Spec => []UsedCacheExists
<1>1. Init => UsedCacheExists
  BY DEF Init, UsedCacheExists, UsingPcs
<1>2. LockInv /\ UsedCacheExists /\ [Next]_vars => UsedCacheExists'
  <2> SUFFICES ASSUME LockInv, UsedCacheExists, [Next]_vars PROVE UsedCacheExists'
    OBVIOUS
  <2>1. CASE UNCHANGED vars \/ \E i \in Images : GuestStep(i)
    BY <2>1 DEF vars, GuestStep, files, UsedCacheExists, Img
  <2> QED BY <2>1, UsedCacheStep DEF Next
<1>3. Spec => []LockInv
  BY LockInvariant DEF LockInv
<1> QED BY <1>1, <1>2, <1>3, PTL DEF Spec

-----------------------------------------------------------------------------
(* The handle, and the domain under an exclusive lock. *)

\* A run that deletes, or has defined its domain, has a handle; the handle of
\* stop and rm is that of the domain, if there is one.
HandleOK(p) ==
  /\ \/ pc[p] \in DeletePcs \cup {"loadCfg", "connect", "session"} /\ job[p].cmd \in RunCommands
     \/ pc[p] \in {"create", "waitVM", "truncCfg", "writeCfg", "readKey", "waitSSH", "undefine"}
     => job[p].vm # None
  /\ /\ pc[p] \in DeletePcs \cup {"kill"}
     /\ job[p].cmd \in Exclusive
     /\ Exists(Img(p))
     => job[p].vm = dom[Img(p)].uuid

Handles == \A p \in Procs : HandleOK(p)

\* A step of q changes the domain of its own image at most, and holds the
\* lock when it does.
LEMMA DomSteps ==
  ASSUME LockInv, NEW q \in Procs, Start(q) \/ Step(q) \/ EndSession(q) \/ Fault(q) \/ Die(q)
  PROVE  \/ UNCHANGED dom
         \/ /\ Destroy(q) \/ Undefine(q) \/ Define(q) \/ Create(q)
            /\ pc[q] \in LockedPcs
            /\ \A i \in Images \ {Img(q)} : dom'[i] = dom[i]
<1>1. CASE Destroy(q) \/ Undefine(q) \/ Define(q) \/ Create(q)
  <2>1. pc[q] \in LockedPcs
    BY <1>1 DEF Destroy, Undefine, Define, Create
  <2>2. UNCHANGED dom \/ \E d : dom' = [dom EXCEPT ![Img(q)] = d]
    BY <1>1 DEF Destroy, Undefine, Define, Create, DestroyDomain, UndefineDomain, DefineDomain, CreateDomain
  <2> QED BY <1>1, <2>1, <2>2 DEF LockInv, TypeInv, LibvirtTypeOK
<1>2. CASE ~(Destroy(q) \/ Undefine(q) \/ Define(q) \/ Create(q))
  BY <1>2 DEF Start, StartRun, StartOne, StartAll, Begin, Step, InstallLock, Install, FreePort, Lookup,
   LockVM, CheckCacheDir, LoadExistingDomain, Shutdown, DomainExists, KillVM, RemoveFile, RemoveDir,
   RemoveKey, RemovePub, KeyGen, Run, ParseDomainTemplate, WaitForVMToBeRunning,
   TruncateConfig, WriteConfig, ReadKey, WaitForSSH, LoadConfig, Connect, EndSession, GetConfig,
   UnlockVM, Fault, Die
<1> QED BY <1>1, <1>2

LEMMA DomFrame ==
  ASSUME LockInv, NEW p \in Procs, NEW q \in Procs \ {p},
         Start(q) \/ Step(q) \/ EndSession(q) \/ Fault(q) \/ Die(q),
         pc[p] \in LockedPcs, job[p].cmd \in Exclusive
  PROVE  dom'[Img(p)] = dom[Img(p)]
<1>1. Img(p) \in Images
  BY DEF LockInv, TypeInv, Control, Local, Img
<1> QED BY <1>1, Alone, DomSteps

HandlePcs == DeletePcs \cup {"kill", "loadCfg", "connect", "session", "create", "waitVM", "truncCfg",
                             "writeCfg", "readKey", "waitSSH"}

LEMMA FailQuiet ==
  ASSUME TypeInv, NEW p \in Procs, Fail(p)
  PROVE  pc'[p] \notin HandlePcs
BY FailEnds DEF HandlePcs, DeletePcs

\* Steps that lead to none of HandlePcs.
LEMMA QuietSteps ==
  ASSUME TypeInv, NEW p \in Procs,
         \/ Start(p) \/ InstallLock(p) \/ Install(p) \/ FreePort(p) \/ Lookup(p) \/ LockVM(p)
         \/ CheckCacheDir(p) \/ RemoveFile(p) \/ RemoveDir(p) \/ RemoveKey(p) \/ RemovePub(p)
         \/ KeyGen(p) \/ ParseDomainTemplate(p) \/ GetConfig(p) \/ UnlockVM(p) \/ Fault(p) \/ Die(p)
  PROVE  pc'[p] \notin HandlePcs
<1>1. CASE Start(p)
  <2>1. ASSUME NEW step \in {"installLock", "lookup"}, NEW j, Begin(p, step, j)
        PROVE  pc'[p] \notin HandlePcs
    BY <2>1, GotoEnds DEF Begin, HandlePcs, DeletePcs
  <2> QED BY <1>1, <2>1 DEF Start, StartRun, StartOne, StartAll
<1>2. CASE InstallLock(p) \/ Install(p) \/ LockVM(p) \/ RemoveFile(p) \/ Die(p)
  BY <1>2, FailQuiet DEF InstallLock, Install, LockVM, RemoveFile, Die, TypeInv, Control, HandlePcs, DeletePcs
<1>3. CASE FreePort(p)
  <2>1. pc'[p] = "lookup"
    BY <1>3, GotoEnds DEF FreePort
  <2> QED BY <2>1 DEF HandlePcs, DeletePcs
<1>4. CASE \/ Lookup(p) \/ CheckCacheDir(p) \/ RemoveDir(p) \/ RemoveKey(p) \/ RemovePub(p)
           \/ KeyGen(p) \/ GetConfig(p) \/ Fault(p)
  <2>1. \/ Fail(p)
        \/ \E step \in {"lock", "load", "unlock", "rmPub", "keygen", "run"} : Goto(p, step)
    BY <1>4 DEF Lookup, CheckCacheDir, RemoveDir, RemoveKey, RemovePub, KeyGen, GetConfig, Fault
  <2> QED BY <2>1, FailQuiet, GotoEnds DEF HandlePcs, DeletePcs
<1>5. CASE ParseDomainTemplate(p)
  <2>1. Fail(p) \/ pc'[p] = "define"
    BY <1>5, GotoEnds DEF ParseDomainTemplate
  <2> QED BY <2>1, FailQuiet DEF HandlePcs, DeletePcs
<1>6. CASE UnlockVM(p)
  <2>1. pc'[p] \in {"idle", "lookup"}
    BY <1>6, NextTargetFree DEF UnlockVM
  <2> QED BY <2>1 DEF HandlePcs, DeletePcs
<1> QED BY <1>1, <1>2, <1>3, <1>4, <1>5, <1>6

LEMMA HandleSelf ==
  ASSUME LockInv, TypeInv', NEW p \in Procs, HandleOK(p),
         Start(p) \/ Step(p) \/ EndSession(p) \/ Fault(p) \/ Die(p)
  PROVE  HandleOK(p)'
<1> USE DEF LockInv
<1>1. job[p] \in Job /\ Local(pc[p], job[p]) /\ job'[p] \in Job /\ Local(pc'[p], job'[p])
  BY DEF TypeInv, Control
<1>2. CASE pc'[p] \notin HandlePcs
  BY <1>2 DEF HandleOK, HandlePcs, DeletePcs
<1>3. CASE LoadExistingDomain(p) /\ ~Fail(p)
  <2> DEFINE body == Body(job[p].cmd)
             u == IF Exists(Img(p)) THEN dom[Img(p)].uuid ELSE None
             j == [job[p] EXCEPT !.vm = u, !.ret = body.ret]
  <2>1. pc'[p] = body.step /\ job'[p] = j /\ UNCHANGED dom
    BY <1>3, GotoEnds DEF LoadExistingDomain
  <2>2. j.cmd = job[p].cmd /\ j.img = job[p].img /\ j.vm = u
    BY <1>1 DEF Job
  <2>3. job[p].cmd \in AllCommands
    BY <1>1, <1>3 DEF LoadExistingDomain, Local
  <2>4. Img(p)' = Img(p)
    BY <2>1, <2>2 DEF Img
  <2>5. \/ body.step \in {"kill", "shutdown"} /\ job[p].cmd \in Exclusive
        \/ body.step = "loadCfg" /\ job[p].cmd = "ssh"
        \/ body.step \notin HandlePcs
    BY <2>3 DEF Body, Exclusive, HandlePcs, DeletePcs
  <2> HIDE DEF j, body
  <2> QED BY <2>1, <2>2, <2>4, <2>5 DEF HandleOK, HandlePcs, DeletePcs, Exists, Exclusive
<1>4. CASE (Shutdown(p) \/ KillVM(p) \/ Run(p)) /\ ~Fail(p)
  <2>1. pc'[p] \in {"destroy", "exists", "shutdown", "template"} /\ job'[p] = job[p] /\ UNCHANGED dom
    BY <1>4, GotoEnds DEF Shutdown, KillVM, Run
  <2>2. Img(p)' = Img(p)
    BY <2>1 DEF Img
  <2>3. CASE Shutdown(p) \/ KillVM(p)
    <3>1. pc[p] \in {"shutdown", "kill"} /\ pc'[p] \in {"destroy", "exists", "shutdown"}
      BY <1>4, <2>3, GotoEnds DEF Shutdown, KillVM
    <3>2. pc[p] = "kill" => job[p].cmd \in RmCommands
      BY <1>1 DEF Local
    <3> QED BY <2>1, <2>2, <3>1, <3>2 DEF HandleOK, DeletePcs, Exists, Exclusive
  <2>4. CASE Run(p)
    <3>1. pc'[p] \in {"shutdown", "template"} /\ (pc'[p] = "shutdown" => job[p].vm # None)
      BY <1>4, <2>4, GotoEnds DEF Run
    <3>2. job[p].cmd \in RunCommands
      BY <1>1, <2>4 DEF Run, Local, RunPcs
    <3> QED BY <2>1, <2>2, <3>1, <3>2 DEF HandleOK, DeletePcs, Exclusive
  <2> QED BY <1>4, <2>3, <2>4
<1>5. CASE DomainExists(p) /\ Exists(Img(p))
  <2>1. pc'[p] = "undefine" /\ job'[p] = job[p] /\ UNCHANGED dom
    BY <1>5, GotoEnds DEF DomainExists
  <2>2. Img(p)' = Img(p) /\ Img(p) \in Images
    BY <1>1, <1>5, <2>1 DEF Img, DomainExists, Local
  <2>3. job[p].vm # None
    <3>1. CASE job[p].cmd \in RunCommands
      BY <1>5, <3>1 DEF HandleOK, DomainExists, DeletePcs
    <3>2. CASE job[p].cmd \in Exclusive
      <4>1. job[p].vm = dom[Img(p)].uuid
        BY <1>5, <3>2 DEF HandleOK, DomainExists, DeletePcs
      <4>2. dom[Img(p)] \in Domain
        BY <1>5, <2>2 DEF TypeInv, LibvirtTypeOK, Exists
      <4> QED BY <4>1, <4>2, NoneAssumption DEF Domain
    <3> QED BY <1>1, <1>5, <3>1, <3>2 DEF DomainExists, Local, DeletePcs, Exclusive
  <2> QED BY <1>5, <2>1, <2>2, <2>3 DEF HandleOK, DomainExists, DeletePcs, Exists
<1>6. CASE (DomainExists(p) /\ ~Exists(Img(p))) \/ Undefine(p)
  <2>1. Fail(p) \/ pc'[p] = job[p].ret
    BY <1>6, GotoEnds DEF DomainExists, Undefine
  <2>2. job[p].ret \in {"template", "unlock", "rmCache"}
    BY <1>1, <1>6 DEF DomainExists, Undefine, Local, DeletePcs
  <2> QED BY <1>2, <2>1, <2>2, FailQuiet DEF HandlePcs, DeletePcs
<1>7. CASE Destroy(p) /\ ~Fail(p)
  <2>1. /\ pc'[p] = "exists" /\ job'[p] = job[p]
        /\ dom' = [dom EXCEPT ![Img(p)] = Stopped(dom[Img(p)])] /\ Exists(Img(p))
    BY <1>7, GotoEnds DEF Destroy, DestroyDomain, CanDestroy, Valid
  <2>2. Img(p)' = Img(p) /\ Img(p) \in Images
    BY <1>1, <1>7, <2>1 DEF Img, Destroy, Local
  <2>3. dom[Img(p)] \in Domain /\ dom'[Img(p)] = Stopped(dom[Img(p)])
    BY <2>1, <2>2 DEF TypeInv, LibvirtTypeOK, Exists
  <2>4. dom'[Img(p)] # None => dom'[Img(p)].uuid = dom[Img(p)].uuid
    BY <2>3 DEF Stopped, Domain
  <2> QED BY <1>7, <2>1, <2>2, <2>4 DEF HandleOK, Destroy, DeletePcs, Exists
<1>8. CASE Define(p) /\ ~Fail(p)
  <2>1. PICK u \in Uuids : pc'[p] = "create" /\ job'[p] = [job[p] EXCEPT !.vm = u, !.key = None]
    BY <1>8, GotoEnds DEF Define, UnusedUuids
  <2>2. job'[p].vm = u
    BY <1>1, <2>1 DEF Job
  <2> QED BY <2>1, <2>2, NoneAssumption DEF HandleOK, DeletePcs
<1>9. CASE (Create(p) \/ WaitForVMToBeRunning(p) \/ TruncateConfig(p) \/ WriteConfig(p)) /\ ~Fail(p)
  <2>1. /\ pc'[p] \in {"waitVM", "truncCfg", "writeCfg", "readKey", "unlock"}
        /\ job'[p] = job[p]
    BY <1>9, GotoEnds DEF Create, WaitForVMToBeRunning, TruncateConfig, WriteConfig
  <2> QED BY <1>9, <2>1 DEF HandleOK, DeletePcs, Create, WaitForVMToBeRunning, TruncateConfig, WriteConfig
<1>10. CASE (ReadKey(p) \/ WaitForSSH(p) \/ LoadConfig(p)) /\ ~Fail(p)
  <2>1. PICK v : \/ job'[p] = [job[p] EXCEPT !.key = v]
                 \/ job'[p] = [job[p] EXCEPT !.port = v]
    BY <1>10, GotoEnds DEF ReadKey, WaitForSSH, LoadConfig
  <2>2. job'[p].vm = job[p].vm /\ job'[p].cmd = job[p].cmd
    BY <1>1, <2>1 DEF Job
  <2>3. pc'[p] \in {"waitSSH", "loadCfg", "connect"}
    BY <1>10, GotoEnds DEF ReadKey, WaitForSSH, LoadConfig
  <2> QED BY <1>1, <1>10, <2>2, <2>3 DEF HandleOK, DeletePcs, ReadKey, WaitForSSH, LoadConfig, Local, RunPcs
<1>11. CASE Connect(p) \/ EndSession(p)
  <2>1. CASE AfterSSH(p)
    <3>1. CASE job[p].cmd = "runRm"
      <4>1. pc'[p] = "shutdown" /\ job'[p] = [job[p] EXCEPT !.peer = None, !.port = None, !.ret = "unlock"]
        BY <2>1, <3>1, GotoEnds DEF AfterSSH
      <4>2. job'[p].vm = job[p].vm /\ job'[p].cmd = job[p].cmd
        BY <1>1, <4>1 DEF Job
      <4>3. job[p].vm # None
        BY <1>11, <3>1 DEF HandleOK, Connect, EndSession
      <4> QED BY <3>1, <4>1, <4>2, <4>3 DEF HandleOK, Exclusive
    <3>2. CASE job[p].cmd # "runRm"
      BY <1>2, <2>1, <3>2, GotoEnds DEF AfterSSH, HandlePcs, DeletePcs
    <3> QED BY <3>1, <3>2
  <2>2. CASE ~AfterSSH(p)
    <3>1. PICK i : pc'[p] = "session" /\ job'[p] = [job[p] EXCEPT !.peer = i, !.port = None]
      BY <1>11, <2>2, GotoEnds DEF Connect, EndSession
    <3>2. job'[p].vm = job[p].vm /\ job'[p].cmd = job[p].cmd
      BY <1>1, <3>1 DEF Job
    <3> QED BY <1>11, <2>2, <3>1, <3>2 DEF HandleOK, DeletePcs, Connect, EndSession
  <2> QED BY <2>1, <2>2
<1> QED BY <1>2, <1>3, <1>4, <1>5, <1>6, <1>7, <1>8, <1>9, <1>10, <1>11, QuietSteps, FailQuiet DEF Step

\* A step of another process leaves the handle of p and its domain alone.
LEMMA HandleOther ==
  ASSUME LockInv, NEW p \in Procs, NEW q \in Procs \ {p}, HandleOK(p),
         Start(q) \/ Step(q) \/ EndSession(q) \/ Fault(q) \/ Die(q)
  PROVE  HandleOK(p)'
<1>1. pc'[p] = pc[p] /\ job'[p] = job[p]
  BY LockSteps DEF LockInv, LockStep, Others
<1>2. Img(p)' = Img(p)
  BY <1>1 DEF Img
<1>3. CASE pc[p] \in DeletePcs \cup {"kill"} /\ job[p].cmd \in Exclusive
  <2>1. dom'[Img(p)] = dom[Img(p)]
    BY <1>3, DomFrame DEF DeletePcs
  <2> QED BY <1>1, <1>2, <2>1 DEF HandleOK, Exists
<1>4. CASE ~(pc[p] \in DeletePcs \cup {"kill"} /\ job[p].cmd \in Exclusive)
  BY <1>1, <1>4 DEF HandleOK
<1> QED BY <1>3, <1>4

\* A guest does nothing to the identity of its domain.
LEMMA GuestDom ==
  ASSUME TypeInv, NEW i \in Images, Guest(i), NEW j \in Images
  PROVE  \/ dom'[j] = dom[j]
         \/ Active(j) /\ (dom'[j] = None \/ dom'[j].uuid = dom[j].uuid)
<1>1. CASE j # i
  BY <1>1 DEF Guest, PowerOff, Pause, Resume, TypeInv, LibvirtTypeOK
<1>2. CASE j = i
  <2>1. Active(i) /\ dom[i] \in Domain
    BY DEF Guest, PowerOff, Pause, Resume, Running, Active, Exists, TypeInv, LibvirtTypeOK
  <2>2. \/ dom'[i] = Stopped(dom[i])
        \/ dom'[i] = [dom[i] EXCEPT !.state = "paused"]
        \/ dom'[i] = [dom[i] EXCEPT !.state = "running"]
    BY DEF Guest, PowerOff, Pause, Resume, TypeInv, LibvirtTypeOK
  <2>3. \A v : [dom[i] EXCEPT !.state = v].uuid = dom[i].uuid
    BY <2>1 DEF Domain
  <2>4. dom'[i] = None \/ dom'[i].uuid = dom[i].uuid
    BY <2>2, <2>3 DEF Stopped
  <2> QED BY <1>2, <2>1, <2>4
<1> QED BY <1>1, <1>2

LEMMA HandlesGuest ==
  ASSUME LockInv, Handles, NEW i \in Images, GuestStep(i)
  PROVE  Handles'
<1> SUFFICES ASSUME NEW p \in Procs PROVE HandleOK(p)'
  BY DEF Handles
<1>1. pc' = pc /\ job' = job /\ Img(p)' = Img(p)
  BY DEF GuestStep, Img
<1>2. HandleOK(p)
  BY DEF Handles
<1>3. pc[p] \in DeletePcs \cup {"kill"} => Img(p) \in Images
  BY DEF LockInv, TypeInv, Control, Local, Img, DeletePcs
<1>4. CASE pc[p] \in DeletePcs \cup {"kill"}
  BY <1>1, <1>2, <1>3, <1>4, GuestDom DEF LockInv, GuestStep, HandleOK, Active, Exists
<1>5. CASE pc[p] \notin DeletePcs \cup {"kill"}
  BY <1>1, <1>2, <1>5 DEF HandleOK
<1> QED BY <1>4, <1>5

LEMMA HandlesInvariant == Spec => []Handles
<1>1. Init => Handles
  BY DEF Init, Handles, HandleOK, DeletePcs
<1>2. LockInv /\ TypeInv' /\ Handles /\ [Next]_vars => Handles'
  <2> SUFFICES ASSUME LockInv, TypeInv', Handles, [Next]_vars PROVE Handles'
    OBVIOUS
  <2>1. CASE UNCHANGED vars
    BY <2>1 DEF vars, Handles, HandleOK, Exists, Img
  <2>2. ASSUME NEW i \in Images, GuestStep(i) PROVE Handles'
    BY <2>2, HandlesGuest
  <2>3. ASSUME NEW q \in Procs, Start(q) \/ Step(q) \/ EndSession(q) \/ Fault(q) \/ Die(q)
        PROVE  Handles'
    <3> SUFFICES ASSUME NEW p \in Procs PROVE HandleOK(p)'
      BY DEF Handles
    <3>1. HandleOK(p)
      BY DEF Handles
    <3> QED BY <2>3, <3>1, HandleSelf, HandleOther
  <2> QED BY <2>1, <2>2, <2>3 DEF Next
<1>3. Spec => []LockInv
  BY LockInvariant DEF LockInv
<1>4. LockInv => TypeInv
  BY DEF LockInv
<1> QED BY <1>1, <1>2, <1>3, <1>4, PTL DEF Spec

\* Wherever Delete undefines a domain it holds a handle to it, although it
\* asked for the domain by name: Undefine never dereferences a nil one.
THEOREM UndefineHandleCorrect == Spec => []UndefineHasHandle
<1>1. Handles => UndefineHasHandle
  BY DEF Handles, HandleOK, UndefineHasHandle
<1> QED BY <1>1, HandlesInvariant, PTL

-----------------------------------------------------------------------------
(* What Delete leaves of the VM, when guests are never paused. *)

\* Past Shutdown the domain of stop and rm is not active, past Undefine there
\* is none; no such command comes to the steps of ssh and list.
DownOK(p) ==
  /\ pc[p] \in {"exists", "undefine"} /\ job[p].cmd \in Exclusive => ~Active(Img(p))
  /\ \/ pc[p] = "rmCache"
     \/ pc[p] = "unlock" /\ ~job[p].failed /\ job[p].cmd \in Exclusive
     => ~Exists(Img(p))
  /\ pc[p] \in {"loadCfg", "connect", "session", "getCfg"} => job[p].cmd \notin Exclusive

NoPause == \A i \in Images : Exists(i) => dom[i].state # "paused"

\* The inductive invariant: without NoPause, IsRunning may answer false of an
\* active domain, and Delete leaves it running.
Down == NoPause /\ (\A p \in Procs : DownOK(p)) /\ ActiveHasDisk

NoPauseAssumption == "pause" \notin GuestEvents

DownInv == LockInv /\ Handles /\ Down

\* Steps that DownOK speaks of.
DownPcs == {"exists", "undefine", "rmCache", "unlock", "loadCfg", "connect", "session", "getCfg"}

\* Shutdown ends with the domain inactive.
LEMMA ShutdownDown ==
  ASSUME DownInv, NEW p \in Procs, Shutdown(p) \/ Destroy(p), ~Fail(p)
  PROVE  DownOK(p)'
<1> USE DEF DownInv, LockInv
<1>1. Img(p) \in Images /\ HandleOK(p)
  BY DEF TypeInv, Control, Local, Img, Shutdown, Destroy, Handles
<1>2. Exists(Img(p)) => dom[Img(p)] \in Domain
  BY <1>1 DEF TypeInv, LibvirtTypeOK, Exists
<1>3. pc'[p] \in {"exists", "destroy"} /\ job'[p] = job[p] /\ Img(p)' = Img(p)
  BY GotoEnds DEF Shutdown, Destroy, Img
<1>4. CASE Shutdown(p)
  <2>1. pc'[p] = "exists" => ~IsRunning(p)
    BY <1>4, GotoEnds DEF Shutdown
  <2>2. CASE pc'[p] = "exists" /\ job[p].cmd \in Exclusive /\ Exists(Img(p))
    <3>1. job[p].vm = dom[Img(p)].uuid /\ job[p].vm # None
      BY <1>1, <1>2, <1>4, <2>2, NoneAssumption DEF HandleOK, Shutdown, DeletePcs, Domain
    <3>2. dom[Img(p)].state = "shutoff"
      BY <1>1, <1>2, <2>1, <2>2, <3>1 DEF IsRunning, Valid, Running, Down, NoPause, Domain
    <3> QED BY <1>3, <1>4, <2>2, <3>2 DEF DownOK, Shutdown, Active, Exists
  <2>3. CASE ~(pc'[p] = "exists" /\ job[p].cmd \in Exclusive /\ Exists(Img(p)))
    BY <1>3, <1>4, <2>3 DEF DownOK, Shutdown, Active, Exists
  <2> QED BY <2>2, <2>3
<1>5. CASE Destroy(p)
  <2>1. dom' = [dom EXCEPT ![Img(p)] = Stopped(dom[Img(p)])] /\ Exists(Img(p))
    BY <1>5 DEF Destroy, DestroyDomain, CanDestroy, Valid
  <2>2. dom'[Img(p)] = Stopped(dom[Img(p)])
    BY <1>1, <2>1 DEF TypeInv, LibvirtTypeOK
  <2>3. Stopped(dom[Img(p)]) = None \/ Stopped(dom[Img(p)]).state = "shutoff"
    BY <1>2, <2>1 DEF Stopped, Domain
  <2>4. pc'[p] = "exists"
    BY <1>5, GotoEnds DEF Destroy
  <2> QED BY <1>3, <2>2, <2>3, <2>4 DEF DownOK, Active, Exists
<1> QED BY <1>4, <1>5

\* Undefine ends without a domain.
LEMMA UndefineDown ==
  ASSUME DownInv, NEW p \in Procs, DomainExists(p) \/ Undefine(p), ~Fail(p)
  PROVE  DownOK(p)'
<1> USE DEF DownInv, LockInv
<1>1. Img(p) \in Images /\ DownOK(p) /\ job[p].cmd \in AllCommands
  BY DEF TypeInv, Control, Local, Img, DomainExists, Undefine, Down
<1>2. job'[p] = job[p] /\ Img(p)' = Img(p)
  BY GotoEnds DEF DomainExists, Undefine, Img
<1>3. /\ job[p].ret \in {"template", "unlock", "rmCache"}
      /\ job[p].ret = "rmCache" => job[p].cmd \in Exclusive
  BY DEF TypeInv, Control, Local, DomainExists, Undefine, DeletePcs, Exclusive
<1>4. CASE DomainExists(p)
  <2>1. UNCHANGED dom /\ pc'[p] = IF Exists(Img(p)) THEN "undefine" ELSE job[p].ret
    BY <1>4, GotoEnds DEF DomainExists
  <2> QED BY <1>1, <1>2, <1>3, <1>4, <2>1 DEF DownOK, DomainExists, Active, Exists
<1>5. CASE Undefine(p)
  <2>1. UndefineDomain(Img(p), job[p].vm) /\ pc'[p] = job[p].ret
    BY <1>5, GotoEnds DEF Undefine
  <2>2. CASE job[p].cmd \in Exclusive
    <3>1. ~Active(Img(p))
      BY <1>1, <1>5, <2>2 DEF DownOK, Undefine
    <3>2. dom'[Img(p)] = None
      BY <1>1, <2>1, <3>1 DEF UndefineDomain, TypeInv, LibvirtTypeOK
    <3> QED BY <1>2, <1>3, <2>1, <2>2, <3>2 DEF DownOK, Exists
  <2>3. CASE job[p].cmd \notin Exclusive
    BY <1>2, <1>3, <2>1, <2>3 DEF DownOK
  <2> QED BY <2>2, <2>3
<1> QED BY <1>4, <1>5

\* The end of an ssh session.
LEMMA AfterSSHEnds ==
  ASSUME TypeInv, NEW p \in Procs, AfterSSH(p)
  PROVE  pc'[p] \in {"unlock", "shutdown"} /\ job'[p].cmd = job[p].cmd
<1>1. job[p] \in Job
  BY DEF TypeInv, Control
<1>2. CASE job[p].cmd = "runRm"
  <2>1. pc'[p] = "shutdown" /\ job'[p] = [job[p] EXCEPT !.peer = None, !.port = None, !.ret = "unlock"]
    BY <1>2, GotoEnds DEF AfterSSH
  <2> QED BY <1>1, <2>1 DEF Job
<1>3. CASE job[p].cmd # "runRm"
  <2>1. pc'[p] = "unlock" /\ job'[p] = [job[p] EXCEPT !.peer = None, !.port = None]
    BY <1>3, GotoEnds DEF AfterSSH
  <2> QED BY <1>1, <2>1 DEF Job
<1> QED BY <1>2, <1>3

\* The steps that set one field of the local state keep the command.
LEMMA CmdKept ==
  ASSUME TypeInv, NEW p \in Procs, ~Fail(p),
         ReadKey(p) \/ WaitForSSH(p) \/ LoadConfig(p) \/ LoadExistingDomain(p)
  PROVE  job'[p].cmd = job[p].cmd
<1>1. job[p] \in Job
  BY DEF TypeInv, Control
<1>2. CASE ReadKey(p)
  <2>1. job'[p] = [job[p] EXCEPT !.key = priv[Img(p)]]
    BY <1>2, GotoEnds DEF ReadKey
  <2> QED BY <1>1, <2>1 DEF Job
<1>3. CASE WaitForSSH(p)
  <2>1. job'[p] = [job[p] EXCEPT !.key = None]
    BY <1>3, GotoEnds DEF WaitForSSH
  <2> QED BY <1>1, <2>1 DEF Job
<1>4. CASE LoadConfig(p)
  <2>1. job'[p] = [job[p] EXCEPT !.port = cfg[Img(p)]]
    BY <1>4, GotoEnds DEF LoadConfig
  <2> QED BY <1>1, <2>1 DEF Job
<1>5. CASE LoadExistingDomain(p)
  <2> DEFINE u == IF Exists(Img(p)) THEN dom[Img(p)].uuid ELSE None
  <2>1. job'[p] = [job[p] EXCEPT !.vm = u, !.ret = Body(job[p].cmd).ret]
    BY <1>5, GotoEnds DEF LoadExistingDomain
  <2> HIDE DEF u
  <2> QED BY <1>1, <2>1 DEF Job
<1> QED BY <1>2, <1>3, <1>4, <1>5

\* Every other step leaves p at a step of which DownOK says nothing, or is a
\* step of a command that does not remove.
LEMMA RestDown ==
  ASSUME DownInv, NEW p \in Procs, ~Fail(p),
         \/ CheckCacheDir(p) \/ LoadExistingDomain(p) \/ KillVM(p) \/ RemoveKey(p) \/ RemovePub(p)
         \/ KeyGen(p) \/ Run(p) \/ ParseDomainTemplate(p) \/ Define(p) \/ Create(p)
         \/ WaitForVMToBeRunning(p) \/ TruncateConfig(p) \/ WriteConfig(p) \/ ReadKey(p)
         \/ WaitForSSH(p) \/ LoadConfig(p) \/ Connect(p) \/ EndSession(p) \/ GetConfig(p)
  PROVE  \/ pc'[p] \notin DownPcs
         \/ pc'[p] \notin {"exists", "undefine", "rmCache"} /\ job'[p].cmd \notin Exclusive
<1> USE DEF DownInv, LockInv
<1>1. Local(pc[p], job[p]) /\ DownOK(p) /\ TypeInv
  BY DEF TypeInv, Control, Down
<1>2. CASE CheckCacheDir(p) \/ KillVM(p) \/ RemoveKey(p) \/ RemovePub(p) \/ KeyGen(p) \/ Run(p)
  <2>1. \E step \in {"load", "shutdown", "rmPub", "keygen", "run", "template"} : Goto(p, step)
    BY <1>2 DEF CheckCacheDir, KillVM, RemoveKey, RemovePub, KeyGen, Run
  <2> QED BY <2>1, GotoEnds DEF DownPcs
<1>3. CASE ParseDomainTemplate(p) \/ Define(p)
  <2>1. pc'[p] \in {"define", "create"}
    BY <1>3, GotoEnds DEF ParseDomainTemplate, Define
  <2> QED BY <2>1 DEF DownPcs
<1>4. CASE Create(p) \/ WaitForVMToBeRunning(p) \/ TruncateConfig(p)
  <2>1. \E step \in {"waitVM", "truncCfg", "writeCfg"} : Goto(p, step)
    BY <1>4 DEF Create, WaitForVMToBeRunning, TruncateConfig
  <2> QED BY <2>1, GotoEnds DEF DownPcs
<1>5. CASE WriteConfig(p)
  <2>1. pc'[p] \in {"unlock", "readKey"} /\ job'[p] = job[p]
    BY <1>5, GotoEnds DEF WriteConfig
  <2>2. job[p].cmd \in RunCommands
    BY <1>1, <1>5 DEF WriteConfig, Local, RunPcs
  <2> QED BY <2>1, <2>2 DEF Exclusive
<1>6. CASE LoadExistingDomain(p)
  <2>1. pc'[p] = Body(job[p].cmd).step
    BY <1>6, GotoEnds DEF LoadExistingDomain
  <2>2. job[p].cmd \in AllCommands
    BY <1>1, <1>6 DEF LoadExistingDomain, Local
  <2>3. \/ Body(job[p].cmd).step \in {"rmKey", "shutdown", "kill"}
        \/ Body(job[p].cmd).step \in {"loadCfg", "getCfg"} /\ job[p].cmd \in {"ssh", "list"}
    BY <2>2 DEF Body
  <2>4. job'[p].cmd = job[p].cmd
    BY <1>1, <1>6, CmdKept
  <2> QED BY <2>1, <2>3, <2>4 DEF DownPcs, Exclusive
<1>7. CASE ReadKey(p) \/ WaitForSSH(p) \/ LoadConfig(p)
  <2>1. pc'[p] \in {"waitSSH", "loadCfg", "connect"}
    BY <1>7, GotoEnds DEF ReadKey, WaitForSSH, LoadConfig
  <2>2. job[p].cmd \notin Exclusive
    BY <1>1, <1>7 DEF ReadKey, WaitForSSH, LoadConfig, Local, RunPcs, DownOK, Exclusive
  <2> QED BY <1>1, <1>7, <2>1, <2>2, CmdKept
<1>8. CASE Connect(p) \/ EndSession(p)
  <2>1. job[p].cmd \notin Exclusive
    BY <1>1, <1>8 DEF Connect, EndSession, DownOK
  <2>2. CASE AfterSSH(p)
    BY <1>1, <2>1, <2>2, AfterSSHEnds
  <2>3. CASE ~AfterSSH(p)
    <3>1. PICK i \in Images : GotoWith(p, "session", [job[p] EXCEPT !.peer = i, !.port = None])
      BY <1>8, <2>3 DEF Connect, EndSession
    <3>2. pc'[p] = "session" /\ job'[p] = [job[p] EXCEPT !.peer = i, !.port = None]
      BY <1>1, <3>1, GotoEnds
    <3>3. job'[p].cmd = job[p].cmd
      BY <3>2 DEF TypeInv, Control, Job
    <3> QED BY <2>1, <3>2, <3>3
  <2> QED BY <2>2, <2>3
<1>9. CASE GetConfig(p)
  <2>1. pc'[p] = "unlock" /\ job'[p] = job[p]
    BY <1>9, GotoEnds DEF GetConfig
  <2> QED BY <1>1, <1>9, <2>1 DEF GetConfig, DownOK
<1> QED BY <1>2, <1>3, <1>4, <1>5, <1>6, <1>7, <1>8, <1>9

\* The steps before NewVM has the lock, and the last one.
LEMMA EarlyEnds ==
  ASSUME TypeInv, NEW p \in Procs, ~Fail(p),
         \/ Start(p) \/ InstallLock(p) \/ Install(p) \/ FreePort(p) \/ Lookup(p) \/ LockVM(p)
         \/ UnlockVM(p) \/ Die(p)
  PROVE  pc'[p] \in {"installLock", "install", "port", "lookup", "lock", "check", "idle"}
<1>1. CASE Start(p) \/ FreePort(p) \/ Lookup(p)
  <2>1. ASSUME NEW step \in {"installLock", "lookup"}, NEW j, Begin(p, step, j)
        PROVE  pc'[p] \in {"installLock", "lookup"}
    BY <2>1, GotoEnds DEF Begin
  <2>2. Start(p) => pc'[p] \in {"installLock", "lookup"}
    BY <2>1 DEF Start, StartRun, StartOne, StartAll
  <2> QED BY <1>1, <2>2, GotoEnds DEF FreePort, Lookup
<1>2. CASE UnlockVM(p)
  BY <1>2, NextTargetFree DEF UnlockVM
<1>3. CASE InstallLock(p) \/ Install(p) \/ LockVM(p) \/ Die(p)
  BY <1>3 DEF InstallLock, Install, LockVM, Die, TypeInv, Control
<1> QED BY <1>1, <1>2, <1>3

LEMMA DownSelf ==
  ASSUME DownInv, NEW p \in Procs, Start(p) \/ Step(p) \/ EndSession(p) \/ Fault(p) \/ Die(p)
  PROVE  DownOK(p)'
<1> USE DEF DownInv, LockInv
<1>1. TypeInv /\ DownOK(p)
  BY DEF Down
<1>2. CASE Fail(p)
  BY <1>1, <1>2, FailEnds DEF DownOK
<1>3. CASE \/ Start(p) \/ InstallLock(p) \/ Install(p) \/ FreePort(p) \/ Lookup(p) \/ LockVM(p)
           \/ UnlockVM(p) \/ Die(p)
  BY <1>2, <1>3, EarlyEnds DEF DownOK
<1>4. CASE (Shutdown(p) \/ Destroy(p)) /\ ~Fail(p)
  BY <1>4, ShutdownDown
<1>5. CASE (DomainExists(p) \/ Undefine(p)) /\ ~Fail(p)
  BY <1>5, UndefineDown
<1>6. CASE RemoveFile(p) \/ RemoveDir(p)
  <2>1. pc[p] = "rmCache" /\ pc'[p] \in {"rmCache", "unlock"} /\ job'[p] = job[p] /\ UNCHANGED dom
    BY <1>1, <1>6, GotoEnds DEF RemoveFile, RemoveDir
  <2> QED BY <1>1, <2>1 DEF DownOK, Exists, Img
<1>7. CASE /\ ~Fail(p)
           /\ \/ CheckCacheDir(p) \/ LoadExistingDomain(p) \/ KillVM(p) \/ RemoveKey(p) \/ RemovePub(p)
              \/ KeyGen(p) \/ Run(p) \/ ParseDomainTemplate(p) \/ Define(p) \/ Create(p)
              \/ WaitForVMToBeRunning(p) \/ TruncateConfig(p) \/ WriteConfig(p) \/ ReadKey(p)
              \/ WaitForSSH(p) \/ LoadConfig(p) \/ Connect(p) \/ EndSession(p) \/ GetConfig(p)
  BY <1>7, RestDown DEF DownOK, DownPcs
<1>8. Fault(p) => Fail(p)
  BY DEF Fault
<1> QED BY <1>2, <1>3, <1>4, <1>5, <1>6, <1>7, <1>8 DEF Step

LEMMA DownOther ==
  ASSUME DownInv, NEW p \in Procs, NEW q \in Procs \ {p},
         Start(q) \/ Step(q) \/ EndSession(q) \/ Fault(q) \/ Die(q)
  PROVE  DownOK(p)'
<1> USE DEF DownInv, LockInv
<1>1. pc'[p] = pc[p] /\ job'[p] = job[p] /\ Img(p)' = Img(p)
  BY LockSteps DEF LockStep, Others, Img
<1>2. DownOK(p) /\ (pc[p] = "rmCache" => job[p].cmd \in Exclusive)
  BY DEF Down, TypeInv, Control, Local, Exclusive
<1>3. CASE pc[p] \in {"exists", "undefine", "rmCache", "unlock"} /\ job[p].cmd \in Exclusive
  <2>1. dom'[Img(p)] = dom[Img(p)]
    BY <1>3, DomFrame
  <2> QED BY <1>1, <1>2, <2>1 DEF DownOK, Active, Exists
<1>4. CASE ~(pc[p] \in {"exists", "undefine", "rmCache", "unlock"} /\ job[p].cmd \in Exclusive)
  BY <1>1, <1>2, <1>4 DEF DownOK
<1> QED BY <1>3, <1>4

\* Without pauses, all a guest does is to stop.
LEMMA GuestStops ==
  ASSUME NoPauseAssumption, TypeInv, NoPause, NEW i \in Images, GuestStep(i)
  PROVE  PowerOff(i) /\ dom[i] \in Domain /\ dom' = [dom EXCEPT ![i] = Stopped(dom[i])]
<1>1. PowerOff(i)
  BY DEF GuestStep, Guest, Pause, Resume, NoPauseAssumption, NoPause
<1> QED BY <1>1 DEF PowerOff, TypeInv, LibvirtTypeOK, Active, Exists

LEMMA DownGuest ==
  ASSUME NoPauseAssumption, DownInv, NEW i \in Images, GuestStep(i)
  PROVE  Down'
<1> USE DEF DownInv, LockInv, Down
<1>1. \A j \in Images : \/ dom'[j] = dom[j]
                        \/ dom'[j] = None
                        \/ dom'[j].state = "shutoff" /\ Exists(j)
  <2>1. dom' = [dom EXCEPT ![i] = Stopped(dom[i])] /\ dom[i] \in Domain /\ Exists(i)
    BY GuestStops DEF PowerOff, Active
  <2>2. Stopped(dom[i]) = None \/ Stopped(dom[i]).state = "shutoff"
    BY <2>1 DEF Stopped, Domain
  <2>3. dom'[i] = Stopped(dom[i]) /\ \A j \in Images \ {i} : dom'[j] = dom[j]
    BY <2>1 DEF TypeInv, LibvirtTypeOK
  <2> HIDE DEF Down
  <2> QED BY <2>1, <2>2, <2>3
<1>2. NoPause'
  BY <1>1 DEF NoPause, Exists
<1>3. ActiveHasDisk'
  BY <1>1 DEF ActiveHasDisk, Active, Exists, GuestStep, files
<1>4. ASSUME NEW p \in Procs PROVE DownOK(p)'
  <2>1. pc' = pc /\ job' = job /\ Img(p)' = Img(p)
    BY DEF GuestStep, Img
  <2>2. pc[p] # "idle" => Img(p) \in Images
    BY DEF TypeInv, Control, Local, Img
  <2>3. DownOK(p)
    OBVIOUS
  <2> QED BY <1>1, <2>1, <2>2, <2>3 DEF DownOK, Active, Exists
<1> QED BY <1>2, <1>3, <1>4

\* The domain after a step: no step pauses it, and it becomes active only on
\* a disk.
LEMMA DomStates ==
  ASSUME DownInv, NEW q \in Procs, NEW i \in Images,
         Start(q) \/ Step(q) \/ EndSession(q) \/ Fault(q) \/ Die(q)
  PROVE  /\ Exists(i)' => dom'[i].state # "paused"
         /\ Active(i)' => Active(i) \/ (disk[i] /\ UNCHANGED disk)
<1> USE DEF DownInv, LockInv
<1>1. NoPause /\ (Exists(i) => dom[i] \in Domain)
  BY DEF Down, TypeInv, LibvirtTypeOK, Exists
<1>2. CASE dom'[i] = dom[i]
  BY <1>1, <1>2 DEF NoPause, Exists, Active
<1>3. CASE dom'[i] # dom[i]
  <2>1. (Destroy(q) \/ Undefine(q) \/ Define(q) \/ Create(q)) /\ i = Img(q)
    BY <1>3, DomSteps
  <2>2. dom \in [Images -> Domain \cup {None}]
    BY DEF TypeInv, LibvirtTypeOK
  <2>3. CASE Destroy(q)
    <3>1. dom'[i] = Stopped(dom[i]) /\ Exists(i)
      BY <1>3, <2>1, <2>2, <2>3 DEF Destroy, DestroyDomain, CanDestroy, Valid
    <3> QED BY <1>1, <3>1 DEF Stopped, Domain, Active, Exists
  <2>4. CASE Undefine(q)
    <3>1. /\ Exists(i)
          /\ dom'[i] = IF Active(i) THEN [dom[i] EXCEPT !.persistent = FALSE] ELSE None
      BY <1>3, <2>1, <2>2, <2>4 DEF Undefine, UndefineDomain, CanUndefine, Valid
    <3>2. [dom[i] EXCEPT !.persistent = FALSE].state = dom[i].state
      BY <1>1, <3>1 DEF Domain
    <3> QED BY <1>1, <3>1, <3>2 DEF NoPause, Active, Exists
  <2>5. CASE Define(q)
    <3>1. PICK u : DefineDomain(i, u, job[q].port, job[q].key)
      BY <1>3, <2>1, <2>5 DEF Define
    <3>2. dom'[i] = [uuid |-> u, state |-> "shutoff", persistent |-> TRUE,
                     port |-> job[q].port, key |-> job[q].key]
      BY <2>2, <3>1 DEF DefineDomain
    <3> QED BY <3>2 DEF Active, Exists
  <2>6. CASE Create(q)
    <3>1. CreateDomain(i, job[q].vm) /\ disk[i] /\ UNCHANGED disk
      BY <1>3, <2>1, <2>6 DEF Create, files
    <3>2. dom'[i] = [dom[i] EXCEPT !.state = "running"] /\ Exists(i)
      BY <2>2, <3>1 DEF CreateDomain, CanCreate, Valid
    <3> QED BY <1>1, <3>1, <3>2 DEF Domain, Active, Exists
  <2> QED BY <2>1, <2>3, <2>4, <2>5, <2>6
<1> QED BY <1>2, <1>3

\* Only Install and RemoveFile touch a disk.
LEMMA DiskSteps ==
  ASSUME NEW q \in Procs, Start(q) \/ Step(q) \/ EndSession(q) \/ Fault(q) \/ Die(q)
  PROVE  \/ UNCHANGED disk
         \/ Install(q) /\ disk' = [disk EXCEPT ![Img(q)] = TRUE]
         \/ RemoveFile(q) /\ UNCHANGED dom /\ disk' = [disk EXCEPT ![Img(q)] = FALSE]
BY DEF Start, StartRun, StartOne, StartAll, Begin, Step, InstallLock, Install, FreePort, Lookup,
   LockVM, CheckCacheDir, LoadExistingDomain, Shutdown, Destroy, DomainExists, Undefine, KillVM,
   RemoveFile, RemoveDir, RemoveKey, RemovePub, KeyGen, Run, ParseDomainTemplate, Define, Create,
   WaitForVMToBeRunning, TruncateConfig, WriteConfig, ReadKey, WaitForSSH, LoadConfig, Connect,
   EndSession, GetConfig, UnlockVM, Fault, Die, files

LEMMA DownStep ==
  ASSUME DownInv, NEW q \in Procs, Start(q) \/ Step(q) \/ EndSession(q) \/ Fault(q) \/ Die(q)
  PROVE  Down'
<1>1. NoPause'
  BY DomStates DEF NoPause
<1>2. ASSUME NEW p \in Procs PROVE DownOK(p)'
  BY DownSelf, DownOther
<1>3. ASSUME NEW i \in Images, Active(i)' PROVE disk'[i]
  <2>1. disk \in [Images -> BOOLEAN]
    BY DEF DownInv, LockInv, TypeInv, FilesTypeOK
  <2>2. CASE ~Active(i)
    BY <1>3, <2>2, DomStates, DomSteps DEF DownInv, Active, Exists
  <2>3. CASE Active(i)
    <3>1. disk[i]
      BY <2>3 DEF DownInv, Down, ActiveHasDisk
    <3>2. RemoveFile(q) => Img(q) # i
      BY <2>3 DEF RemoveFile, DownInv, Down, DownOK, Active
    <3> QED BY <2>1, <3>1, <3>2, DiskSteps
  <2> QED BY <2>2, <2>3
<1> QED BY <1>1, <1>2, <1>3 DEF Down, ActiveHasDisk

LEMMA DownInvariant ==
  ASSUME NoPauseAssumption
  PROVE  Spec => []DownInv
<1>1. Init => Down
  BY DEF Init, LibvirtInit, Down, NoPause, DownOK, ActiveHasDisk, Active, Exists
<1>2. DownInv /\ [Next]_vars => Down'
  <2> SUFFICES ASSUME DownInv, [Next]_vars PROVE Down'
    OBVIOUS
  <2>1. CASE UNCHANGED vars
    BY <2>1 DEF vars, files, DownInv, Down, NoPause, DownOK, ActiveHasDisk, Active, Exists, Img
  <2>2. ASSUME NEW i \in Images, GuestStep(i) PROVE Down'
    BY <2>2, DownGuest
  <2>3. ASSUME NEW q \in Procs, Start(q) \/ Step(q) \/ EndSession(q) \/ Fault(q) \/ Die(q)
        PROVE  Down'
    BY <2>3, DownStep
  <2> QED BY <2>1, <2>2, <2>3 DEF Next
<1>3. LockInv /\ Handles /\ Down => DownInv
  BY DEF DownInv
<1>4. Spec => []LockInv
  BY LockInvariant DEF LockInv
<1> QED BY <1>1, <1>2, <1>3, <1>4, HandlesInvariant, PTL DEF Spec

\* Where guests are never paused, a running VM keeps its disk: rm removes it
\* only when the VM is down, and no run boots the VM in between.
THEOREM ActiveDiskCorrect ==
  ASSUME NoPauseAssumption
  PROVE  Spec => []ActiveHasDisk
<1>1. DownInv => ActiveHasDisk
  BY DEF DownInv, Down
<1> QED BY <1>1, DownInvariant, PTL

\* Where guests are never paused, a stop that reports success leaves no VM.
THEOREM StopCorrect ==
  ASSUME NoPauseAssumption
  PROVE  Spec => []StopSucceeds
<1>1. DownInv => StopSucceeds
  BY DEF DownInv, Down, DownOK, StopSucceeds, Succeeded, Exclusive
<1> QED BY <1>1, DownInvariant, PTL

-----------------------------------------------------------------------------
(* What rm leaves of the cache. *)

SameFiles(i) ==
  dir'[i] = dir[i] /\ disk'[i] = disk[i] /\ priv'[i] = priv[i] /\ pub'[i] = pub[i] /\ cfg'[i] = cfg[i]

\* A process writes in the directory of its own image, and holds its lock.
LEMMA FileSteps ==
  ASSUME LockInv, NEW q \in Procs, Start(q) \/ Step(q) \/ EndSession(q) \/ Fault(q) \/ Die(q)
  PROVE  \/ UNCHANGED files
         \/ /\ pc[q] \in LockedPcs \cup {"install"} \/ TryLock(q, Img(q), "exclusive")
            /\ \A i \in Images \ {Img(q)} : SameFiles(i)
<1> DEFINE W == \/ InstallLock(q) \/ Install(q) \/ RemoveFile(q) \/ RemoveDir(q) \/ RemoveKey(q)
                \/ RemovePub(q) \/ KeyGen(q) \/ TruncateConfig(q) \/ WriteConfig(q)
<1>1. CASE W
  <2>1. \/ UNCHANGED files
        \/ pc[q] \in LockedPcs \cup {"install"}
        \/ TryLock(q, Img(q), "exclusive")
    BY <1>1 DEF InstallLock, Install, RemoveFile, RemoveDir, RemoveKey, RemovePub, KeyGen,
       TruncateConfig, WriteConfig, files
  <2>2. /\ UNCHANGED dir \/ \E v : dir' = [dir EXCEPT ![Img(q)] = v]
        /\ UNCHANGED disk \/ \E v : disk' = [disk EXCEPT ![Img(q)] = v]
    BY <1>1 DEF InstallLock, Install, RemoveFile, RemoveDir, RemoveKey, RemovePub, KeyGen,
       TruncateConfig, WriteConfig
  <2>3. /\ UNCHANGED priv \/ \E v : priv' = [priv EXCEPT ![Img(q)] = v]
        /\ UNCHANGED pub \/ \E v : pub' = [pub EXCEPT ![Img(q)] = v]
        /\ UNCHANGED cfg \/ \E v : cfg' = [cfg EXCEPT ![Img(q)] = v]
    BY <1>1 DEF InstallLock, Install, RemoveFile, RemoveDir, RemoveKey, RemovePub, KeyGen,
       TruncateConfig, WriteConfig
  <2>4. ASSUME NEW i \in Images \ {Img(q)} PROVE SameFiles(i)
    BY <2>2, <2>3 DEF SameFiles, LockInv, TypeInv, FilesTypeOK
  <2> QED BY <2>1, <2>4
<1>2. CASE ~W
  BY <1>2 DEF Start, StartRun, StartOne, StartAll, Begin, Step, FreePort, Lookup, LockVM,
     CheckCacheDir, LoadExistingDomain, Shutdown, Destroy, DomainExists, Undefine, KillVM, Run,
     ParseDomainTemplate, Define, Create, WaitForVMToBeRunning, ReadKey, WaitForSSH, LoadConfig,
     Connect, EndSession, GetConfig, UnlockVM, Fault, Die
<1> QED BY <1>1, <1>2

\* What is in the directory of a VM that is stopped or removed stays as it is
\* while other processes move.
LEMMA FilesFrame ==
  ASSUME LockInv, NEW p \in Procs, NEW q \in Procs \ {p},
         Start(q) \/ Step(q) \/ EndSession(q) \/ Fault(q) \/ Die(q),
         pc[p] \in LockedPcs, job[p].cmd \in Exclusive
  PROVE  SameFiles(Img(p))
<1>1. Img(p) \in Images
  BY DEF LockInv, TypeInv, Control, Local, Img
<1>2. lock[Img(p)][p] = "exclusive"
  BY <1>1 DEF LockInv, LockDiscipline, HeldMode, CommandMode, Exclusive
<1>3. TryLock(q, Img(q), "exclusive") => Img(q) # Img(p)
  BY <1>1, <1>2 DEF TryLock, CanLock
<1>4. pc[q] = "install" => Img(q) # Img(p)
  BY <1>1, <1>2 DEF LockInv, LockDiscipline, HeldMode, ExclusiveIsAlone
<1>5. pc[q] \in LockedPcs => Img(q) # Img(p)
  BY Alone
<1> QED BY <1>1, <1>3, <1>4, <1>5, FileSteps DEF SameFiles, files

GoneOK(p) ==
  pc[p] = "unlock" /\ ~job[p].failed /\ job[p].cmd \in RmCommands =>
    ~dir[Img(p)] /\ ~disk[Img(p)] /\ priv[Img(p)] = None /\ pub[Img(p)] = None /\ cfg[Img(p)] = None

Gone == \A p \in Procs : GoneOK(p)

LEMMA GoneSelf ==
  ASSUME DownInv, NEW p \in Procs, GoneOK(p), Start(p) \/ Step(p) \/ EndSession(p) \/ Fault(p) \/ Die(p)
  PROVE  GoneOK(p)'
<1> USE DEF DownInv, LockInv
<1>1. TypeInv
  OBVIOUS
<1>2. CASE Fail(p)
  BY <1>1, <1>2, FailEnds DEF GoneOK
<1>3. CASE \/ Start(p) \/ InstallLock(p) \/ Install(p) \/ FreePort(p) \/ Lookup(p) \/ LockVM(p)
           \/ UnlockVM(p) \/ Die(p)
  BY <1>2, <1>3, EarlyEnds DEF GoneOK
<1>4. CASE (Shutdown(p) \/ Destroy(p)) /\ ~Fail(p)
  <2>1. pc'[p] \in {"destroy", "exists"}
    BY <1>1, <1>4, GotoEnds DEF Shutdown, Destroy
  <2> QED BY <2>1 DEF GoneOK
<1>5. CASE (DomainExists(p) \/ Undefine(p)) /\ ~Fail(p)
  <2>1. pc'[p] \in {"undefine", job[p].ret} /\ job'[p] = job[p]
    BY <1>1, <1>5, GotoEnds DEF DomainExists, Undefine
  <2>2. job[p].ret = "unlock" => job[p].cmd \notin RmCommands
    BY <1>1, <1>5 DEF DomainExists, Undefine, TypeInv, Control, Local, DeletePcs
  <2> QED BY <2>1, <2>2 DEF GoneOK
<1>6. CASE RemoveFile(p)
  BY <1>6 DEF RemoveFile, GoneOK
<1>7. CASE RemoveDir(p)
  <2>1. job'[p] = job[p] /\ Img(p) \in Images /\ Img(p)' = Img(p)
    BY <1>1, <1>7, GotoEnds DEF RemoveDir, Img, TypeInv, Control, Local
  <2> QED BY <1>1, <1>7, <2>1 DEF RemoveDir, GoneOK, TypeInv, FilesTypeOK
<1>8. CASE /\ ~Fail(p)
           /\ \/ CheckCacheDir(p) \/ LoadExistingDomain(p) \/ KillVM(p) \/ RemoveKey(p) \/ RemovePub(p)
              \/ KeyGen(p) \/ Run(p) \/ ParseDomainTemplate(p) \/ Define(p) \/ Create(p)
              \/ WaitForVMToBeRunning(p) \/ TruncateConfig(p) \/ WriteConfig(p) \/ ReadKey(p)
              \/ WaitForSSH(p) \/ LoadConfig(p) \/ Connect(p) \/ EndSession(p) \/ GetConfig(p)
  BY <1>8, RestDown DEF GoneOK, DownPcs, Exclusive
<1>9. Fault(p) => Fail(p)
  BY DEF Fault
<1> QED BY <1>2, <1>3, <1>4, <1>5, <1>6, <1>7, <1>8, <1>9 DEF Step

LEMMA GoneOther ==
  ASSUME LockInv, NEW p \in Procs, NEW q \in Procs \ {p}, GoneOK(p),
         Start(q) \/ Step(q) \/ EndSession(q) \/ Fault(q) \/ Die(q)
  PROVE  GoneOK(p)'
<1>1. pc'[p] = pc[p] /\ job'[p] = job[p] /\ Img(p)' = Img(p)
  BY LockSteps DEF LockInv, LockStep, Others, Img
<1>2. CASE pc[p] = "unlock" /\ job[p].cmd \in RmCommands
  <2>1. SameFiles(Img(p))
    BY <1>2, FilesFrame DEF Exclusive
  <2> QED BY <1>1, <2>1 DEF GoneOK, SameFiles
<1>3. CASE ~(pc[p] = "unlock" /\ job[p].cmd \in RmCommands)
  BY <1>1, <1>3 DEF GoneOK
<1> QED BY <1>2, <1>3

\* Where guests are never paused, an rm that reports success leaves neither a
\* VM nor a directory nor a file.
THEOREM RmCorrect ==
  ASSUME NoPauseAssumption
  PROVE  Spec => []RmSucceeds
<1>1. Init => Gone
  BY DEF Init, Gone, GoneOK
<1>2. DownInv /\ Gone /\ [Next]_vars => Gone'
  <2> SUFFICES ASSUME DownInv, Gone, [Next]_vars, NEW p \in Procs PROVE GoneOK(p)'
    BY DEF Gone
  <2>1. GoneOK(p)
    BY DEF Gone
  <2>2. CASE UNCHANGED vars \/ \E i \in Images : GuestStep(i)
    BY <2>1, <2>2 DEF vars, files, GuestStep, GoneOK, Img
  <2>3. ASSUME NEW q \in Procs, Start(q) \/ Step(q) \/ EndSession(q) \/ Fault(q) \/ Die(q)
        PROVE  GoneOK(p)'
    BY <2>1, <2>3, GoneSelf, GoneOther DEF DownInv
  <2> QED BY <2>2, <2>3 DEF Next
<1>3. DownInv /\ Gone => RmSucceeds
  BY DEF DownInv, Down, DownOK, Gone, GoneOK, RmSucceeds, Succeeded, Exclusive
<1> QED BY <1>1, <1>2, <1>3, DownInvariant, PTL DEF Spec

-----------------------------------------------------------------------------
(* stop and rm -f recover from what earlier commands left. *)

Recovering == {"stop", "rmForce"}

RecoverSteps == {"lookup", "lock", "check", "load", "rmCache", "unlock"} \cup DeletePcs

\* A domain that was undefined while it ran still runs.
Persist == \A i \in Images : Exists(i) /\ ~dom[i].persistent => Active(i)

\* No call of a stop or rm -f that has its lock fails: its handle is good for
\* as long as it uses it, Destroy finds the VM running, Undefine finds it down.
RecoverOK(p) ==
  job[p].cmd \in Recovering =>
    /\ pc[p] \in RecoverSteps
    /\ pc[p] # "unlock" => ~job[p].failed
    /\ pc[p] = "shutdown" /\ job[p].vm # None => Exists(Img(p))
    /\ pc[p] = "destroy" => IsRunning(p)
    /\ pc[p] = "undefine" => Exists(Img(p))
    /\ pc[p] = "unlock" /\ job[p].failed => ~dir[Img(p)]

\* The calls do not fail by themselves, nor do guests stop under them.
QuietAssumption == Faults = {} /\ GuestEvents \cap {"poweroff", "pause"} = {}

LEMMA FailKeeps ==
  ASSUME TypeInv, NEW p \in Procs, Fail(p), pc[p] \in LockedPcs
  PROVE  pc'[p] = "unlock" /\ job'[p].cmd = job[p].cmd /\ Img(p)' = Img(p)
<1> DEFINE j == [Target(job[p].cmd, Img(p), job[p].todo) EXCEPT !.failed = TRUE]
<1>1. j.cmd = job[p].cmd /\ j.img = Img(p)
  BY DEF Target
<1>2. GotoWith(p, "unlock", j)
  BY DEF Fail
<1> HIDE DEF j
<1> QED BY <1>1, <1>2, GotoEnds DEF Img

\* A command ends, or goes on to its next image, without a failure on it.
LEMMA NextTargetFresh ==
  ASSUME TypeInv, NEW p \in Procs, NextTarget(p)
  PROVE  \/ job'[p].cmd = None
         \/ pc'[p] = "lookup" /\ job'[p].cmd = job[p].cmd /\ ~job'[p].failed
<1>1. \/ job'[p] = NoJob
      \/ pc'[p] = "lookup" /\ \E i : job'[p] = Target(job[p].cmd, i, job[p].todo \ {i})
  BY DEF NextTarget, TypeInv, Control
<1>2. CASE job'[p] = NoJob
  BY <1>2 DEF NoJob, Target
<1>3. CASE pc'[p] = "lookup" /\ \E i : job'[p] = Target(job[p].cmd, i, job[p].todo \ {i})
  BY <1>3 DEF Target
<1> QED BY <1>1, <1>2, <1>3

\* A process keeps its command until it ends.
LEMMA CmdStays ==
  ASSUME TypeInv, NEW p \in Procs, Step(p) \/ EndSession(p) \/ Fault(p) \/ Die(p)
  PROVE  job'[p].cmd \in {None, job[p].cmd}
<1>1. job[p] \in Job
  BY DEF TypeInv, Control
<1>2. CASE Fail(p) \/ UnlockVM(p) \/ Fault(p)
  BY <1>2, FailKeeps, NextTargetFresh DEF Fail, UnlockVM, Fault
<1>3. CASE Die(p)
  <2>1. job'[p] = NoJob
    BY <1>3 DEF Die, TypeInv, Control
  <2> QED BY <2>1 DEF NoJob, Target
<1>4. CASE /\ ~Fail(p)
           /\ \/ InstallLock(p) \/ Install(p) \/ Lookup(p) \/ LockVM(p) \/ CheckCacheDir(p)
              \/ Shutdown(p) \/ Destroy(p) \/ DomainExists(p) \/ Undefine(p) \/ KillVM(p)
              \/ RemoveFile(p) \/ RemoveDir(p) \/ RemoveKey(p) \/ RemovePub(p) \/ KeyGen(p)
              \/ Run(p) \/ Create(p) \/ WaitForVMToBeRunning(p) \/ TruncateConfig(p)
              \/ WriteConfig(p) \/ GetConfig(p)
  <2>1. UNCHANGED job
    BY <1>4 DEF InstallLock, Install, Lookup, LockVM, CheckCacheDir, Shutdown, Destroy, DomainExists,
       Undefine, KillVM, RemoveFile, RemoveDir, RemoveKey, RemovePub, KeyGen, Run, Create,
       WaitForVMToBeRunning, TruncateConfig, WriteConfig, GetConfig, Goto
  <2> QED BY <2>1
<1>5. CASE FreePort(p)
  <2>1. PICK n : job'[p] = [job[p] EXCEPT !.port = n]
    BY <1>5, GotoEnds DEF FreePort
  <2> QED BY <1>1, <2>1 DEF Job
<1>6. CASE (ReadKey(p) \/ WaitForSSH(p) \/ LoadConfig(p) \/ LoadExistingDomain(p)) /\ ~Fail(p)
  BY <1>6, CmdKept
<1>7. CASE (ParseDomainTemplate(p) \/ Define(p)) /\ ~Fail(p)
  <2>1. \/ \E k : job'[p] = [job[p] EXCEPT !.key = k]
        \/ \E u : job'[p] = [job[p] EXCEPT !.vm = u, !.key = None]
    BY <1>7, GotoEnds DEF ParseDomainTemplate, Define
  <2> QED BY <1>1, <2>1 DEF Job
<1>8. CASE Connect(p) \/ EndSession(p)
  <2>1. AfterSSH(p) \/ \E i : job'[p] = [job[p] EXCEPT !.peer = i, !.port = None]
    BY <1>8, GotoEnds DEF Connect, EndSession
  <2> QED BY <1>1, <2>1, AfterSSHEnds DEF Job
<1> QED BY <1>2, <1>3, <1>4, <1>5, <1>6, <1>7, <1>8 DEF Step

LEMMA PersistStep ==
  ASSUME LockInv, Persist, NEW q \in Procs, Start(q) \/ Step(q) \/ EndSession(q) \/ Fault(q) \/ Die(q)
  PROVE  Persist'
<1> SUFFICES ASSUME NEW i \in Images, Exists(i)', ~dom'[i].persistent PROVE Active(i)'
  BY DEF Persist
<1>1. dom \in [Images -> Domain \cup {None}]
  BY DEF LockInv, TypeInv, LibvirtTypeOK
<1>2. CASE dom'[i] = dom[i]
  BY <1>2 DEF Persist, Exists, Active
<1>3. CASE dom'[i] # dom[i]
  <2>1. (Destroy(q) \/ Undefine(q) \/ Define(q) \/ Create(q)) /\ i = Img(q)
    BY <1>3, DomSteps
  <2>2. \/ Exists(i) /\ dom' = [dom EXCEPT ![i] = Stopped(dom[i])]
        \/ Exists(i) /\ dom' = [dom EXCEPT ![i] = IF Active(i) THEN [dom[i] EXCEPT !.persistent = FALSE]
                                                             ELSE None]
        \/ \E u : DefineDomain(i, u, job[q].port, job[q].key)
        \/ Exists(i) /\ dom' = [dom EXCEPT ![i].state = "running"]
    BY <1>3, <2>1 DEF Destroy, DestroyDomain, CanDestroy, Undefine, UndefineDomain, CanUndefine,
       Define, Create, CreateDomain, CanCreate, Valid
  <2>3. Exists(i) => dom[i] \in Domain
    BY <1>1 DEF Exists
  <2>4. CASE Exists(i) /\ dom' = [dom EXCEPT ![i] = Stopped(dom[i])]
    <3>1. dom'[i] = Stopped(dom[i])
      BY <1>1, <2>4
    <3>2. dom[i].persistent /\ dom'[i] = [dom[i] EXCEPT !.state = "shutoff"]
      BY <3>1 DEF Stopped, Exists
    <3> QED BY <2>3, <2>4, <3>2 DEF Domain
  <2>5. CASE /\ Exists(i)
             /\ dom' = [dom EXCEPT ![i] = IF Active(i) THEN [dom[i] EXCEPT !.persistent = FALSE]
                                                       ELSE None]
    <3>1. Active(i) /\ dom'[i] = [dom[i] EXCEPT !.persistent = FALSE]
      BY <1>1, <2>5 DEF Exists
    <3>2. dom'[i].state = dom[i].state
      BY <2>3, <2>5, <3>1 DEF Domain
    <3> QED BY <3>1, <3>2 DEF Active
  <2>6. CASE \E u : DefineDomain(i, u, job[q].port, job[q].key)
    BY <1>1, <2>6 DEF DefineDomain
  <2>7. CASE Exists(i) /\ dom' = [dom EXCEPT ![i].state = "running"]
    <3>1. dom'[i] = [dom[i] EXCEPT !.state = "running"]
      BY <1>1, <2>7
    <3>2. dom'[i].state = "running"
      BY <2>3, <2>7, <3>1 DEF Domain
    <3> QED BY <3>2 DEF Active
  <2> QED BY <2>2, <2>4, <2>5, <2>6, <2>7
<1> QED BY <1>2, <1>3

LEMMA RecoverSelf ==
  ASSUME Faults = {}, DownInv, Persist, NEW p \in Procs, RecoverOK(p),
         Start(p) \/ Step(p) \/ EndSession(p) \/ Fault(p) \/ Die(p)
  PROVE  RecoverOK(p)'
<1> SUFFICES ASSUME job'[p].cmd \in Recovering PROVE RecoverOK(p)'
  BY DEF RecoverOK
<1>1. /\ job[p] \in Job /\ Local(pc[p], job[p]) /\ TypeInv /\ HandleOK(p) /\ DownOK(p)
      /\ dom \in [Images -> Domain \cup {None}]
  BY DEF DownInv, LockInv, TypeInv, Control, Handles, Down, LibvirtTypeOK
<1>2. CASE Start(p)
  <2>1. PICK step \in {"installLock", "lookup"} : \E c, i, rest :
          /\ GotoWith(p, step, Target(c, i, rest))
          /\ step = "installLock" => c \in RunCommands
    BY <1>2 DEF Start, StartRun, StartOne, StartAll, Begin
  <2>2. \E c : /\ \E i, rest : job'[p] = Target(c, i, rest)
               /\ pc'[p] = step /\ (step = "installLock" => c \in RunCommands)
    BY <1>1, <2>1, GotoEnds
  <2>3. /\ ~job'[p].failed /\ pc'[p] = step
        /\ step = "installLock" => job'[p].cmd \in RunCommands
    BY <2>2 DEF Target
  <2>4. pc'[p] = "lookup"
    BY <2>1, <2>3 DEF Recovering
  <2> QED BY <2>3, <2>4 DEF RecoverOK, RecoverSteps
<1>3. CASE ~Start(p)
  <2>1. job[p].cmd = job'[p].cmd /\ pc[p] \in RecoverSteps /\ (pc[p] # "unlock" => ~job[p].failed)
    <3>1. None \notin Recovering
      BY NoneAssumption DEF Recovering
    <3>2. job[p].cmd = job'[p].cmd
      BY <1>1, <1>3, <3>1, CmdStays
    <3> QED BY <3>2 DEF RecoverOK
  <2>2. job[p].cmd \in Exclusive /\ job[p].cmd \notin RunCommands
    BY <2>1 DEF Recovering, Exclusive
  <2>3. pc[p] # "idle" /\ Img(p) \in Images
    BY <1>1, <2>1 DEF RecoverSteps, DeletePcs, Local, Img
  <2>4. ASSUME NextTarget(p) PROVE RecoverOK(p)'
    <3>1. None \notin Recovering
      BY NoneAssumption DEF Recovering
    <3>2. pc'[p] = "lookup" /\ ~job'[p].failed
      BY <1>1, <2>4, <3>1, NextTargetFresh
    <3> QED BY <3>2 DEF RecoverOK, RecoverSteps
  <2>5. CASE Lookup(p) \/ LockVM(p)
    <3>1. Fail(p) => NextTarget(p)
      BY <2>5 DEF Lookup, LockVM, Fail
    <3>2. ~Fail(p) => pc'[p] \in {"lock", "check"} /\ job'[p] = job[p]
      BY <1>1, <2>5, GotoEnds DEF Lookup, LockVM, TypeInv, Control
    <3>3. pc[p] # "unlock"
      BY <2>5 DEF Lookup, LockVM
    <3> QED BY <2>1, <2>4, <3>1, <3>2, <3>3 DEF RecoverOK, RecoverSteps
  <2>6. CASE CheckCacheDir(p)
    <3>1. CASE dir[Img(p)]
      <4>1. pc'[p] = "load" /\ job'[p] = job[p]
        BY <1>1, <2>6, <3>1, GotoEnds DEF CheckCacheDir
      <4> QED BY <2>1, <2>6, <4>1 DEF RecoverOK, RecoverSteps, CheckCacheDir
    <3>2. CASE ~dir[Img(p)]
      <4>1. pc'[p] = "unlock" /\ Img(p)' = Img(p) /\ dir' = dir
        BY <1>1, <2>6, <3>2, FailKeeps DEF CheckCacheDir, files
      <4> QED BY <3>2, <4>1 DEF RecoverOK, RecoverSteps
    <3> QED BY <3>1, <3>2
  <2>7. CASE LoadExistingDomain(p)
    <3> DEFINE u == IF Exists(Img(p)) THEN dom[Img(p)].uuid ELSE None
    <3>1. /\ pc'[p] = Body(job[p].cmd).step
          /\ job'[p] = [job[p] EXCEPT !.vm = u, !.ret = Body(job[p].cmd).ret]
          /\ dom' = dom /\ pc[p] = "load"
      BY <1>1, <2>7, GotoEnds DEF LoadExistingDomain
    <3>2. pc'[p] = "shutdown"
      BY <2>1, <3>1 DEF Body, Recovering
    <3>3. job'[p].vm = u /\ job'[p].failed = job[p].failed /\ Img(p)' = Img(p)
      <4> HIDE DEF u
      <4> QED BY <1>1, <3>1 DEF Job, Img
    <3>4. u # None => Exists(Img(p))
      OBVIOUS
    <3> HIDE DEF u
    <3> QED BY <2>1, <3>1, <3>2, <3>3, <3>4 DEF RecoverOK, RecoverSteps, DeletePcs, Exists
  <2>8. CASE Shutdown(p)
    <3>1. ~HandleLost(p)
      BY <1>1, <2>1, <2>2, <2>8 DEF HandleLost, Valid, Shutdown, RecoverOK, HandleOK, DeletePcs
    <3>2. /\ pc'[p] = IF IsRunning(p) THEN "destroy" ELSE "exists"
          /\ job'[p] = job[p] /\ dom' = dom /\ pc[p] = "shutdown"
      BY <1>1, <2>8, <3>1, GotoEnds DEF Shutdown
    <3>3. IsRunning(p)' = IsRunning(p)
      BY <3>2 DEF IsRunning, Valid, Running, Exists, Img
    <3> QED BY <2>1, <3>2, <3>3 DEF RecoverOK, RecoverSteps, DeletePcs
  <2>9. CASE Destroy(p)
    <3>1. CanDestroy(Img(p), job[p].vm)
      BY <2>1, <2>9 DEF Destroy, RecoverOK, IsRunning, CanDestroy, Active, Running
    <3>2. pc'[p] = "exists" /\ job'[p] = job[p] /\ pc[p] = "destroy"
      BY <1>1, <2>9, <3>1, GotoEnds DEF Destroy
    <3> QED BY <2>1, <3>2 DEF RecoverOK, RecoverSteps, DeletePcs
  <2>10. CASE DomainExists(p)
    <3>1. /\ pc'[p] = IF Exists(Img(p)) THEN "undefine" ELSE job[p].ret
          /\ job'[p] = job[p] /\ dom' = dom /\ pc[p] = "exists" /\ Img(p)' = Img(p)
      BY <1>1, <2>10, GotoEnds DEF DomainExists, Img
    <3>2. job[p].ret \in {"unlock", "rmCache"}
      BY <1>1, <2>2, <3>1 DEF Local, DeletePcs
    <3> QED BY <2>1, <3>1, <3>2 DEF RecoverOK, RecoverSteps, DeletePcs, Exists
  <2>11. CASE Undefine(p)
    <3>1. pc[p] = "undefine" /\ Exists(Img(p)) /\ ~Active(Img(p)) /\ job[p].vm = dom[Img(p)].uuid
      BY <1>1, <2>1, <2>2, <2>11 DEF Undefine, RecoverOK, DownOK, HandleOK, DeletePcs
    <3>2. CanUndefine(Img(p), job[p].vm)
      BY <2>3, <3>1 DEF Persist, CanUndefine, Valid
    <3>3. pc'[p] = job[p].ret /\ job'[p] = job[p]
      BY <1>1, <2>11, <3>2, GotoEnds DEF Undefine
    <3>4. job[p].ret \in {"unlock", "rmCache"}
      BY <1>1, <2>2, <3>1 DEF Local, DeletePcs
    <3> QED BY <2>1, <3>1, <3>3, <3>4 DEF RecoverOK, RecoverSteps, DeletePcs
  <2>12. CASE RemoveFile(p) \/ RemoveDir(p)
    <3>1. pc[p] = "rmCache" /\ pc'[p] \in {"rmCache", "unlock"} /\ job'[p] = job[p]
      BY <1>1, <2>12, GotoEnds DEF RemoveFile, RemoveDir
    <3> QED BY <2>1, <3>1 DEF RecoverOK, RecoverSteps
  <2>13. CASE UnlockVM(p)
    BY <2>4, <2>13 DEF UnlockVM
  <2>14. CASE Die(p)
    <3>1. job'[p] = NoJob
      BY <1>1, <2>14 DEF Die, TypeInv, Control
    <3>2. job'[p].cmd = None
      BY <3>1 DEF NoJob, Target
    <3> QED BY <3>2, NoneAssumption DEF Recovering
  <2>15. ~Fault(p)
    BY DEF Fault
  <2>16. ~(\/ InstallLock(p) \/ Install(p) \/ FreePort(p) \/ KillVM(p) \/ RemoveKey(p) \/ RemovePub(p)
           \/ KeyGen(p) \/ Run(p) \/ ParseDomainTemplate(p) \/ Define(p) \/ Create(p)
           \/ WaitForVMToBeRunning(p) \/ TruncateConfig(p) \/ WriteConfig(p) \/ ReadKey(p)
           \/ WaitForSSH(p) \/ LoadConfig(p) \/ Connect(p) \/ EndSession(p) \/ GetConfig(p))
    BY <2>1 DEF RecoverSteps, DeletePcs, InstallLock, Install, FreePort, KillVM, RemoveKey, RemovePub,
       KeyGen, Run, ParseDomainTemplate, Define, Create, WaitForVMToBeRunning, TruncateConfig,
       WriteConfig, ReadKey, WaitForSSH, LoadConfig, Connect, EndSession, GetConfig
  <2> QED BY <1>3, <2>5, <2>6, <2>7, <2>8, <2>9, <2>10, <2>11, <2>12, <2>13, <2>14, <2>15, <2>16 DEF Step
<1> QED BY <1>2, <1>3

LEMMA RecoverOther ==
  ASSUME LockInv, NEW p \in Procs, NEW q \in Procs \ {p}, RecoverOK(p),
         Start(q) \/ Step(q) \/ EndSession(q) \/ Fault(q) \/ Die(q)
  PROVE  RecoverOK(p)'
<1>1. pc'[p] = pc[p] /\ job'[p] = job[p] /\ Img(p)' = Img(p)
  BY LockSteps DEF LockInv, LockStep, Others, Img
<1>2. CASE pc[p] \in LockedPcs /\ job[p].cmd \in Recovering
  <2>1. dom'[Img(p)] = dom[Img(p)] /\ dir'[Img(p)] = dir[Img(p)]
    BY <1>2, DomFrame, FilesFrame DEF Exclusive, Recovering, SameFiles
  <2>2. IsRunning(p)' = IsRunning(p)
    BY <1>1, <2>1 DEF IsRunning, Valid, Running, Exists
  <2> QED BY <1>1, <2>1, <2>2 DEF RecoverOK, Exists
<1>3. CASE ~(pc[p] \in LockedPcs /\ job[p].cmd \in Recovering)
  BY <1>1, <1>3 DEF RecoverOK
<1> QED BY <1>2, <1>3

\* Whatever state earlier commands, killed at any point, left the domain, the
\* keys and the cache in: a stop or rm -f that gets the lock of an image that
\* is there succeeds, if no call fails by itself and no guest stops or is
\* paused under it.
THEOREM RecoverCorrect ==
  ASSUME QuietAssumption
  PROVE  Spec => []StopAndRmForceRecover
<1> DEFINE Recover == Persist /\ \A p \in Procs : RecoverOK(p)
<1>1. Init => Recover
  BY NoneAssumption DEF Init, LibvirtInit, Persist, RecoverOK, Exists, NoJob, Target, Recovering
<1>2. DownInv /\ Recover /\ [Next]_vars => Recover'
  <2> SUFFICES ASSUME DownInv, Recover, [Next]_vars PROVE Recover'
    OBVIOUS
  <2>1. CASE UNCHANGED vars
    BY <2>1 DEF vars, files, Persist, RecoverOK, IsRunning, Valid, Running, Active, Exists, Img
  <2>2. \A i \in Images : ~GuestStep(i)
    BY GuestStops DEF QuietAssumption, NoPauseAssumption, PowerOff, DownInv, LockInv, Down
  <2>3. ASSUME NEW q \in Procs, Start(q) \/ Step(q) \/ EndSession(q) \/ Fault(q) \/ Die(q)
        PROVE  Recover'
    <3>1. Persist'
      BY <2>3, PersistStep DEF DownInv
    <3>2. \A p \in Procs : RecoverOK(p)'
      BY <2>3, RecoverSelf, RecoverOther DEF QuietAssumption, DownInv
    <3> QED BY <3>1, <3>2
  <2> QED BY <2>1, <2>2, <2>3 DEF Next
<1>3. Recover => StopAndRmForceRecover
  BY DEF RecoverOK, StopAndRmForceRecover, Recovering
<1>4. Spec => []DownInv
  BY DownInvariant DEF QuietAssumption, NoPauseAssumption
<1> HIDE DEF Recover
<1> QED BY <1>1, <1>2, <1>3, <1>4, PTL DEF Spec

-----------------------------------------------------------------------------
(* What stop and rm do to the other users of an image. *)

\* While a process has the lock of stop or rm, no other process holds the
\* image's lock, for Install or for a command.
LEMMA OthersFree ==
  ASSUME LockInv, NEW p \in Procs, NEW q \in Procs \ {p},
         pc[p] \in LockedPcs, job[p].cmd \in Exclusive, Img(q) = Img(p)
  PROVE  pc[q] \in FreePcs
<1>1. pc[q] \notin LockedPcs
  BY Alone
<1>2. Img(p) \in Images
  BY DEF LockInv, TypeInv, Control, Local, Img
<1>3. lock[Img(p)][p] = "exclusive"
  BY <1>2 DEF LockInv, LockDiscipline, HeldMode, CommandMode, Exclusive
<1>4. pc[q] = "install" => lock[Img(p)][q] = "exclusive"
  BY <1>2 DEF LockInv, LockDiscipline, HeldMode
<1>5. pc[q] # "install"
  BY <1>2, <1>3, <1>4 DEF LockInv, ExclusiveIsAlone
<1> QED BY <1>1, <1>5 DEF LockInv, TypeInv, Control

\* stop and rm, forced or not, never take a VM down under another process's
\* ssh session or while another process is still bringing it up.
THEOREM ExclusiveCommandsCorrect == Spec => ExclusiveCommandsSpareUsers
<1>1. LockInv => [\A p, q \in Procs :
                    /\ Destroys(p) /\ pc'[p] # "destroy"
                    /\ job[p].cmd \in RmCommands \cup {"stop"}
                    /\ q # p /\ Img(q) = Img(p)
                    => pc[q] \in FreePcs]_vars
  BY OthersFree DEF Destroys, Exclusive
<1>2. Spec => []LockInv
  BY LockInvariant DEF LockInv
<1> QED BY <1>1, <1>2, PTL DEF ExclusiveCommandsSpareUsers

-----------------------------------------------------------------------------
(* rm without -f. *)

\* An rm that killVM has let through finds the VM still down at Shutdown.
SpareOK(p) ==
  job[p].cmd = "rm" => pc[p] # "destroy" /\ (pc[p] = "shutdown" => ~IsRunning(p))

Spare == \A p \in Procs : SpareOK(p)

\* The only way of an rm to Shutdown is killVM.
LEMMA RmComesFromKill ==
  ASSUME LockInv, NEW p \in Procs, Start(p) \/ Step(p) \/ EndSession(p) \/ Fault(p) \/ Die(p),
         pc'[p] \in {"shutdown", "destroy"}, job'[p].cmd = "rm"
  PROVE  /\ ~Fail(p)
         /\ KillVM(p) \/ Shutdown(p)
<1> USE DEF LockInv
<1>1. job[p] \in Job /\ Local(pc[p], job[p]) /\ TypeInv
  BY DEF TypeInv, Control
<1>2. ~Fail(p)
  BY <1>1, FailEnds
<1>3. ~(\/ Start(p) \/ InstallLock(p) \/ Install(p) \/ FreePort(p) \/ Lookup(p) \/ LockVM(p)
        \/ CheckCacheDir(p) \/ RemoveFile(p) \/ RemoveDir(p) \/ RemoveKey(p) \/ RemovePub(p)
        \/ KeyGen(p) \/ ParseDomainTemplate(p) \/ GetConfig(p) \/ UnlockVM(p) \/ Fault(p) \/ Die(p))
  BY <1>1, QuietSteps DEF HandlePcs, DeletePcs
<1>4. ~(\/ Destroy(p) \/ Create(p) \/ WaitForVMToBeRunning(p) \/ TruncateConfig(p) \/ WriteConfig(p))
  <2>1. Destroy(p) \/ Create(p) \/ WaitForVMToBeRunning(p) \/ TruncateConfig(p) \/ WriteConfig(p)
        => \E step \in {"exists", "waitVM", "truncCfg", "writeCfg", "readKey", "unlock"} : Goto(p, step)
    BY <1>2 DEF Destroy, Create, WaitForVMToBeRunning, TruncateConfig, WriteConfig
  <2> QED BY <1>1, <2>1, GotoEnds
<1>5. ~(DomainExists(p) \/ Undefine(p))
  <2>1. DomainExists(p) \/ Undefine(p) => pc'[p] \in {"undefine", "template", "unlock", "rmCache"}
    BY <1>1, <1>2, GotoEnds DEF DomainExists, Undefine, Local, DeletePcs
  <2> QED BY <2>1
<1>6. ~(ReadKey(p) \/ WaitForSSH(p) \/ LoadConfig(p) \/ Define(p))
  <2>1. ReadKey(p) \/ WaitForSSH(p) \/ LoadConfig(p) => pc'[p] \in {"waitSSH", "loadCfg", "connect"}
    BY <1>1, <1>2, GotoEnds DEF ReadKey, WaitForSSH, LoadConfig
  <2>2. Define(p) => pc'[p] = "create"
    BY <1>1, <1>2, GotoEnds DEF Define
  <2> QED BY <2>1, <2>2
<1>7. ~LoadExistingDomain(p)
  <2>1. LoadExistingDomain(p) => pc'[p] = Body(job[p].cmd).step /\ job'[p].cmd = job[p].cmd
    BY <1>1, <1>2, GotoEnds, CmdKept DEF LoadExistingDomain
  <2> QED BY <2>1 DEF Body
<1>8. ~Run(p)
  <2>1. Run(p) => job'[p] = job[p] /\ job[p].cmd \in RunCommands
    BY <1>1, <1>2, GotoEnds DEF Run, Local, RunPcs
  <2> QED BY <2>1
<1>9. ~(Connect(p) \/ EndSession(p))
  <2>1. AfterSSH(p) => job[p].cmd = "runRm" /\ job'[p].cmd = "runRm"
    <3>1. AfterSSH(p) /\ job[p].cmd # "runRm" => pc'[p] = "unlock"
      BY <1>1, GotoEnds DEF AfterSSH
    <3> QED BY <1>1, <3>1, AfterSSHEnds
  <2>2. Connect(p) \/ EndSession(p) => AfterSSH(p) \/ pc'[p] = "session"
    BY <1>1, GotoEnds DEF Connect, EndSession
  <2> QED BY <2>1, <2>2
<1> QED BY <1>2, <1>3, <1>4, <1>5, <1>6, <1>7, <1>8, <1>9 DEF Step

LEMMA SpareSelf ==
  ASSUME LockInv, NEW p \in Procs, SpareOK(p),
         Start(p) \/ Step(p) \/ EndSession(p) \/ Fault(p) \/ Die(p)
  PROVE  SpareOK(p)'
<1> SUFFICES ASSUME pc'[p] \in {"shutdown", "destroy"}, job'[p].cmd = "rm"
             PROVE  SpareOK(p)'
  BY DEF SpareOK
<1>1. ~Fail(p) /\ (KillVM(p) \/ Shutdown(p))
  BY RmComesFromKill
<1>2. /\ KillVM(p) => ~IsRunning(p) /\ Goto(p, "shutdown") /\ UNCHANGED dom
      /\ Shutdown(p) => /\ pc[p] = "shutdown" /\ UNCHANGED dom
                        /\ Goto(p, IF IsRunning(p) THEN "destroy" ELSE "exists")
  BY <1>1 DEF KillVM, Shutdown
<1>3. job'[p] = job[p] /\ (KillVM(p) => pc'[p] = "shutdown") /\ (Shutdown(p) => IsRunning(p))
  BY <1>1, <1>2, GotoEnds DEF LockInv
<1>4. KillVM(p)
  BY <1>1, <1>2, <1>3 DEF SpareOK
<1>5. IsRunning(p)' = IsRunning(p)
  BY <1>2, <1>3, <1>4 DEF IsRunning, Valid, Running, Exists, Img
<1> QED BY <1>2, <1>3, <1>4, <1>5 DEF SpareOK

LEMMA SpareOther ==
  ASSUME LockInv, NEW p \in Procs, NEW q \in Procs \ {p}, SpareOK(p),
         Start(q) \/ Step(q) \/ EndSession(q) \/ Fault(q) \/ Die(q)
  PROVE  SpareOK(p)'
<1>1. pc'[p] = pc[p] /\ job'[p] = job[p] /\ Img(p)' = Img(p)
  BY LockSteps DEF LockInv, LockStep, Others, Img
<1>2. CASE pc[p] = "shutdown" /\ job[p].cmd = "rm"
  <2>1. dom'[Img(p)] = dom[Img(p)]
    BY <1>2, DomFrame DEF Exclusive
  <2> QED BY <1>1, <1>2, <2>1 DEF SpareOK, IsRunning, Valid, Running, Exists
<1>3. CASE ~(pc[p] = "shutdown" /\ job[p].cmd = "rm")
  BY <1>1, <1>3 DEF SpareOK
<1> QED BY <1>2, <1>3

\* A guest that does not resume does not come to run.
LEMMA GuestRests ==
  ASSUME TypeInv, NEW i \in Images, Guest(i), ~Resume(i), NEW j \in Images, Running(j)'
  PROVE  dom'[j] = dom[j]
<1>1. CASE j # i
  BY <1>1 DEF Guest, PowerOff, Pause, TypeInv, LibvirtTypeOK
<1>2. CASE j = i
  <2>1. Active(i) /\ dom[i] \in Domain
    BY DEF Guest, PowerOff, Pause, Running, Active, Exists, TypeInv, LibvirtTypeOK
  <2>2. dom'[i] = Stopped(dom[i]) \/ dom'[i] = [dom[i] EXCEPT !.state = "paused"]
    BY DEF Guest, PowerOff, Pause, TypeInv, LibvirtTypeOK
  <2>3. dom'[i] = None \/ dom'[i].state # "running"
    BY <2>1, <2>2 DEF Stopped, Domain
  <2> QED BY <1>2, <2>3 DEF Running, Exists
<1> QED BY <1>1, <1>2

LEMMA SpareGuest ==
  ASSUME LockInv, Spare, NEW i \in Images, GuestStep(i), ~Resume(i)
  PROVE  Spare'
<1> SUFFICES ASSUME NEW p \in Procs, pc[p] = "shutdown" PROVE IsRunning(p)' => IsRunning(p)
  BY DEF Spare, SpareOK, GuestStep
<1>1. job' = job /\ Img(p)' = Img(p) /\ Img(p) \in Images
  BY DEF GuestStep, Img, LockInv, TypeInv, Control, Local
<1>2. Running(Img(p))' => dom'[Img(p)] = dom[Img(p)]
  BY <1>1, GuestRests DEF GuestStep, LockInv
<1> QED BY <1>1, <1>2 DEF IsRunning, Valid, Running, Exists

LEMMA SpareStep ==
  ASSUME LockInv, Spare, [Next]_vars, \A i \in Images : ~Resume(i)
  PROVE  Spare'
<1>1. CASE UNCHANGED vars
  BY <1>1 DEF vars, Spare, SpareOK, IsRunning, Valid, Running, Exists, Img
<1>2. ASSUME NEW i \in Images, GuestStep(i) PROVE Spare'
  BY <1>2, SpareGuest
<1>3. ASSUME NEW q \in Procs, Start(q) \/ Step(q) \/ EndSession(q) \/ Fault(q) \/ Die(q)
      PROVE  Spare'
  BY <1>3, SpareSelf, SpareOther DEF Spare
<1> QED BY <1>1, <1>2, <1>3 DEF Next

\* rm without -f never takes a running VM down, unless a paused guest may be
\* resumed between killVM's question and Shutdown's.
THEOREM RmSparesCorrect ==
  ASSUME ~({"pause", "resume"} \subseteq GuestEvents)
  PROVE  Spec => RmSparesRunningVM
<1>1. Init => Spare
  BY DEF Init, Spare, SpareOK
<1>2. Spare => [\A p \in Procs : job[p].cmd = "rm" => ~Destroys(p)]_vars
  BY DEF Spare, SpareOK, Destroys
<1>3. Spec => []LockInv
  BY LockInvariant DEF LockInv
<1>4. CASE "resume" \notin GuestEvents
  <2>1. LockInv /\ Spare /\ [Next]_vars => Spare'
    BY <1>4, SpareStep DEF Resume
  <2> QED BY <1>1, <1>2, <1>3, <2>1, PTL DEF Spec, RmSparesRunningVM
<1>5. CASE NoPauseAssumption
  <2>1. DownInv /\ Spare /\ [Next]_vars => Spare'
    BY SpareStep DEF DownInv, Down, NoPause, Resume
  <2>2. Spec => []DownInv
    BY <1>5, DownInvariant
  <2> QED BY <1>1, <1>2, <2>1, <2>2, PTL DEF Spec, RmSparesRunningVM
<1> QED BY <1>4, <1>5 DEF NoPauseAssumption

-----------------------------------------------------------------------------
(* The commands implement ImageLifecycle. *)

\* Whoever holds the lock of an image exclusively is its sole user.
LEMMA SoleUser ==
  ASSUME LockInv, NEW p \in Procs, NEW i \in Images, lock[i][p] = "exclusive"
  PROVE  LifecycleUsers[i] = {p}
<1>1. \A q \in Procs \ {p} : lock[i][q] = "none"
  BY DEF LockInv, ExclusiveIsAlone
<1> QED BY <1>1 DEF LifecycleUsers

\* A step that leaves the image's state alone is a command that comes to the
\* image or leaves it, or does not show.
LEMMA LockRefines ==
  ASSUME LockInv, NEW p \in Procs, LockStep(p), UNCHANGED LifecycleState
  PROVE  Lifecycle!Next \/ UNCHANGED <<LifecycleState, LifecycleUsers>>
<1>1. lock \in [Images -> [Procs -> Modes \cup {"none"}]]
  BY DEF LockInv, TypeInv, LockTypeOK
<1>2. CASE UNCHANGED lock
  BY <1>2 DEF LifecycleUsers
<1>3. ASSUME NEW mode \in Modes, lock' = [lock EXCEPT ![Img(p)][p] = mode], lock' # lock
      PROVE  Lifecycle!Next \/ UNCHANGED <<LifecycleState, LifecycleUsers>>
  <2>1. PICK i \in Images : i = Img(p) /\ lock' = [lock EXCEPT ![i][p] = mode]
    BY <1>1, <1>3
  <2>2. LifecycleUsers' = [LifecycleUsers EXCEPT ![i] = @ \cup {p}]
    BY <1>1, <2>1 DEF LifecycleUsers, Modes
  <2>3. CASE p \notin LifecycleUsers[i]
    <3>1. Lifecycle!Enter(p, i)
      BY <2>2, <2>3 DEF Lifecycle!Enter
    <3> QED BY <3>1 DEF Lifecycle!Next
  <2>4. CASE p \in LifecycleUsers[i]
    BY <2>2, <2>4 DEF LifecycleUsers
  <2> QED BY <2>3, <2>4
<1>4. ASSUME Unlock(p, Img(p)), lock' # lock
      PROVE  Lifecycle!Next
  <2>1. PICK i \in Images : i = Img(p) /\ lock' = [lock EXCEPT ![i][p] = "none"]
    BY <1>1, <1>4 DEF Unlock
  <2>2. lock[i][p] # "none"
    BY <1>1, <1>4, <2>1
  <2>3. p \in LifecycleUsers[i] /\ LifecycleUsers' = [LifecycleUsers EXCEPT ![i] = @ \ {p}]
    BY <1>1, <2>1, <2>2 DEF LifecycleUsers
  <2>4. Lifecycle!Leave(p, i)
    BY <2>3 DEF Lifecycle!Leave
  <2> QED BY <2>4 DEF Lifecycle!Next
<1> QED BY <1>2, <1>3, <1>4 DEF LockStep, Keeps, Drops, Takes, Begins, TryLock

\* The state of an image is that of its VM and of its disk.
LEMMA StateFrame ==
  ASSUME DownInv, NEW i \in Images,
         \A j \in Images \ {i} : dom'[j] = dom[j] /\ disk'[j] = disk[j]
  PROVE  \A s : LifecycleState'[i] = s => LifecycleState' = [LifecycleState EXCEPT ![i] = s]
<1>1. \A j \in Images \ {i} : LifecycleState'[j] = LifecycleState[j]
  BY DEF LifecycleState, Active, Exists
<1> QED BY <1>1 DEF LifecycleState

\* Destroy, and a guest that stops.
LEMMA HaltRefines ==
  ASSUME DownInv, NEW i \in Images, Active(i),
         dom' = [dom EXCEPT ![i] = Stopped(dom[i])], UNCHANGED <<lock, disk>>
  PROVE  Lifecycle!Next
<1>1. dom \in [Images -> Domain \cup {None}] /\ dom[i] \in Domain
  BY DEF DownInv, LockInv, TypeInv, LibvirtTypeOK, Active, Exists
<1>2. dom'[i] = None \/ dom'[i].state = "shutoff"
  BY <1>1 DEF Stopped, Domain
<1>3. disk[i]
  BY DEF DownInv, Down, ActiveHasDisk
<1>4. LifecycleState[i] = "running" /\ LifecycleState'[i] = "installed"
  BY <1>2, <1>3 DEF LifecycleState, Active, Exists
<1>5. LifecycleState' = [LifecycleState EXCEPT ![i] = "installed"]
  BY <1>1, <1>4, StateFrame
<1>6. Lifecycle!Halt(i)
  BY <1>4, <1>5 DEF Lifecycle!Halt, Lifecycle!Move, LifecycleUsers
<1> QED BY <1>6 DEF Lifecycle!Next

LEMMA CreateRefines ==
  ASSUME DownInv, NEW p \in Procs, Create(p), dom' # dom
  PROVE  Lifecycle!Next
<1>1. PICK i \in Images : i = Img(p)
  BY DEF DownInv, LockInv, TypeInv, Control, Local, Img, Create
<1>2. disk[i] /\ CreateDomain(i, job[p].vm) /\ UNCHANGED <<disk, lock>>
  BY <1>1 DEF Create, Goto, files
<1>3. dom \in [Images -> Domain \cup {None}] /\ dom[i] \in Domain
  BY <1>2 DEF DownInv, LockInv, TypeInv, LibvirtTypeOK, CreateDomain, CanCreate, Valid, Exists
<1>4. /\ dom' = [dom EXCEPT ![i].state = "running"] /\ ~Active(i)
      /\ dom'[i] = [dom[i] EXCEPT !.state = "running"] /\ dom'[i] \in Domain
  BY <1>2, <1>3 DEF CreateDomain, CanCreate, Domain
<1>5. LifecycleState[i] = "installed" /\ LifecycleState'[i] = "running"
  BY <1>2, <1>3, <1>4, NoneAssumption DEF LifecycleState, Active, Exists, Domain
<1>6. LifecycleState' = [LifecycleState EXCEPT ![i] = "running"]
  BY <1>2, <1>4, <1>3, <1>5, StateFrame
<1>7. p \in LifecycleUsers[i]
  BY <1>1 DEF LifecycleUsers, DownInv, LockInv, LockDiscipline, HeldMode, CommandMode, Create
<1>8. Lifecycle!Boot(p, i)
  BY <1>2, <1>5, <1>6, <1>7 DEF Lifecycle!Boot, Lifecycle!Move, LifecycleUsers
<1> QED BY <1>8 DEF Lifecycle!Next

LEMMA InstallRefines ==
  ASSUME DownInv, NEW p \in Procs, Install(p)
  PROVE  Lifecycle!Next \/ UNCHANGED LifecycleState
<1>1. PICK i \in Images : i = Img(p)
  BY DEF DownInv, LockInv, TypeInv, Control, Local, Img, Install
<1>2. /\ disk' = [disk EXCEPT ![i] = TRUE] /\ lock' = [lock EXCEPT ![i][p] = "none"]
      /\ UNCHANGED dom
  BY <1>1 DEF Install, Unlock
<1>3. /\ disk \in [Images -> BOOLEAN]
      /\ lock \in [Images -> [Procs -> Modes \cup {"none"}]]
  BY DEF DownInv, LockInv, TypeInv, FilesTypeOK, LockTypeOK
<1>4. CASE disk[i]
  <2>1. disk' = disk
    BY <1>2, <1>3, <1>4
  <2> QED BY <1>2, <2>1 DEF LifecycleState, Active, Exists
<1>5. CASE ~disk[i]
  <2>1. ~Active(i)
    BY <1>5 DEF DownInv, Down, ActiveHasDisk
  <2>2. LifecycleState[i] = "absent" /\ LifecycleState'[i] = "installed"
    BY <1>2, <1>3, <1>5, <2>1 DEF LifecycleState, Active, Exists
  <2>3. LifecycleState' = [LifecycleState EXCEPT ![i] = "installed"]
    BY <1>2, <1>3, <2>2, StateFrame
  <2>4. lock[i][p] = "exclusive"
    BY <1>1 DEF Install, DownInv, LockInv, LockDiscipline, HeldMode
  <2>5. LifecycleUsers[i] = {p}
    BY <2>4, SoleUser DEF DownInv
  <2>6. LifecycleUsers' = [LifecycleUsers EXCEPT ![i] = @ \ {p}]
    BY <1>2, <1>3 DEF LifecycleUsers
  <2>7. LifecycleUsers' = [LifecycleUsers EXCEPT ![i] = {}]
    BY <2>5, <2>6
  <2>8. Lifecycle!Install(p, i)
    BY <2>2, <2>3, <2>5, <2>7 DEF Lifecycle!Install, Lifecycle!Move
  <2> QED BY <2>8 DEF Lifecycle!Next
<1> QED BY <1>4, <1>5

\* RemoveFile when it unlinks the disk.
LEMMA RemoveRefines ==
  ASSUME DownInv, NEW p \in Procs, RemoveFile(p)
  PROVE  Lifecycle!Next \/ UNCHANGED LifecycleState
<1>1. PICK i \in Images : i = Img(p)
  BY DEF DownInv, LockInv, TypeInv, Control, Local, Img, RemoveFile
<1>2. UNCHANGED <<lock, dom>>
  BY DEF RemoveFile
<1>3. CASE UNCHANGED disk
  BY <1>2, <1>3 DEF LifecycleState, Active, Exists
<1>4. CASE disk[i] /\ disk' = [disk EXCEPT ![i] = FALSE]
  <2>1. disk \in [Images -> BOOLEAN]
    BY DEF DownInv, LockInv, TypeInv, FilesTypeOK
  <2>2. ~Active(i)
    BY <1>1 DEF RemoveFile, DownInv, Down, DownOK, Active
  <2>3. LifecycleState[i] = "installed" /\ LifecycleState'[i] = "absent"
    BY <1>2, <1>4, <2>1, <2>2 DEF LifecycleState, Active, Exists
  <2>4. LifecycleState' = [LifecycleState EXCEPT ![i] = "absent"]
    BY <1>2, <1>4, <2>1, <2>3, StateFrame
  <2>5. job[p].cmd \in RmCommands
    BY DEF RemoveFile, DownInv, LockInv, TypeInv, Control, Local
  <2>6. lock[i][p] = "exclusive"
    BY <1>1, <2>5 DEF RemoveFile, DownInv, LockInv, LockDiscipline, HeldMode, CommandMode
  <2>7. LifecycleUsers[i] = {p} /\ UNCHANGED LifecycleUsers
    BY <1>2, <2>6, SoleUser DEF DownInv, LifecycleUsers
  <2>8. Lifecycle!Remove(p, i)
    BY <2>3, <2>4, <2>7 DEF Lifecycle!Remove, Lifecycle!Move
  <2> QED BY <2>8 DEF Lifecycle!Next
<1> QED BY <1>1, <1>3, <1>4 DEF RemoveFile

\* Defining a domain starts nothing and undefining it stops nothing.
LEMMA DefineRefines ==
  ASSUME DownInv, NEW p \in Procs, Define(p) \/ Undefine(p)
  PROVE  UNCHANGED LifecycleState
<1>1. dom \in [Images -> Domain \cup {None}] /\ UNCHANGED disk
  BY DEF DownInv, LockInv, TypeInv, LibvirtTypeOK, Define, Undefine, files
<1>2. CASE UNCHANGED dom
  BY <1>1, <1>2 DEF LifecycleState, Active, Exists
<1>3. CASE dom' # dom
  <2>1. PICK i \in Images : i = Img(p)
    BY DEF DownInv, LockInv, TypeInv, Control, Local, Img, Define, Undefine
  <2>2. \/ \E u : DefineDomain(i, u, job[p].port, job[p].key)
        \/ UndefineDomain(i, job[p].vm)
    BY <1>3, <2>1 DEF Define, Undefine
  <2>3. \A j \in Images \ {i} : dom'[j] = dom[j]
    BY <1>1, <2>1, <2>2 DEF DefineDomain, UndefineDomain
  <2>4. CASE \E u : DefineDomain(i, u, job[p].port, job[p].key)
    <3>1. ~Exists(i) /\ dom'[i].state = "shutoff"
      BY <1>1, <2>4 DEF DefineDomain
    <3>2. \A j \in Images : Active(j)' = Active(j)
      BY <2>3, <3>1 DEF Active, Exists
    <3> QED BY <1>1, <3>2 DEF LifecycleState
  <2>5. CASE UndefineDomain(i, job[p].vm)
    <3>1. dom[i] \in Domain
      BY <1>1, <2>5 DEF UndefineDomain, CanUndefine, Valid, Exists
    <3>2. /\ dom'[i] = IF Active(i) THEN [dom[i] EXCEPT !.persistent = FALSE] ELSE None
          /\ [dom[i] EXCEPT !.persistent = FALSE] \in Domain
          /\ [dom[i] EXCEPT !.persistent = FALSE].state = dom[i].state
      BY <1>1, <2>5, <3>1 DEF UndefineDomain, Domain
    <3>3. Active(i)' = Active(i)
      BY <3>1, <3>2, NoneAssumption DEF Active, Exists
    <3>4. \A j \in Images : Active(j)' = Active(j)
      BY <2>3, <3>3 DEF Active, Exists
    <3> QED BY <1>1, <3>4 DEF LifecycleState
  <2> QED BY <2>2, <2>4, <2>5
<1> QED BY <1>2, <1>3

LEMMA ProcessRefines ==
  ASSUME DownInv, NEW p \in Procs, Start(p) \/ Step(p) \/ EndSession(p) \/ Fault(p) \/ Die(p)
  PROVE  Lifecycle!Next \/ UNCHANGED <<LifecycleState, LifecycleUsers>>
<1>1. LockInv /\ LockStep(p)
  BY LockSteps DEF DownInv, LockInv
<1>2. CASE UNCHANGED LifecycleState
  BY <1>1, <1>2, LockRefines
<1>3. CASE LifecycleState' # LifecycleState
  <2>1. UNCHANGED <<dom, disk>> => UNCHANGED LifecycleState
    BY DEF LifecycleState, Active, Exists
  <2>2. Install(p) \/ RemoveFile(p) \/ Destroy(p) \/ Create(p)
    BY <1>1, <1>3, <2>1, DomSteps, DiskSteps, DefineRefines
  <2>3. CASE Install(p) \/ RemoveFile(p)
    BY <1>3, <2>3, InstallRefines, RemoveRefines
  <2>4. CASE Destroy(p)
    <3>1. UNCHANGED disk /\ UNCHANGED lock /\ dom' # dom
      BY <1>3, <2>1, <2>4 DEF Destroy, Goto, Fail, GotoWith, files
    <3>2. Img(p) \in Images
      BY <1>1, <2>4 DEF LockInv, TypeInv, Control, Local, Img, Destroy
    <3> QED BY <2>4, <3>1, <3>2, HaltRefines DEF Destroy, DestroyDomain, CanDestroy
  <2>5. CASE Create(p)
    <3>1. UNCHANGED disk
      BY <2>5 DEF Create, files
    <3> QED BY <1>3, <2>1, <2>5, <3>1, CreateRefines
  <2> QED BY <2>2, <2>3, <2>4, <2>5
<1> QED BY <1>2, <1>3

\* Where guests are never paused, the commands, however they interleave, fail
\* or die, do to an image what ImageLifecycle says: Install and rm have it to
\* themselves, only a user boots its VM, no disk is taken from a running one.
THEOREM LifecycleRefinement ==
  ASSUME NoPauseAssumption
  PROVE  Spec => ImplementsLifecycle
<1>1. Init => Lifecycle!Init
  BY DEF Init, LockInit, LibvirtInit, Lifecycle!Init, LifecycleState, LifecycleUsers, Active, Exists
<1>2. DownInv /\ [Next]_vars => [Lifecycle!Next]_<<LifecycleState, LifecycleUsers>>
  <2> SUFFICES ASSUME DownInv, [Next]_vars
               PROVE  Lifecycle!Next \/ UNCHANGED <<LifecycleState, LifecycleUsers>>
    OBVIOUS
  <2>1. CASE UNCHANGED vars
    BY <2>1 DEF vars, files, LifecycleState, LifecycleUsers, Active, Exists
  <2>2. ASSUME NEW i \in Images, GuestStep(i) PROVE Lifecycle!Next
    <3>1. PowerOff(i) /\ dom' = [dom EXCEPT ![i] = Stopped(dom[i])]
      BY <2>2, GuestStops DEF DownInv, LockInv, Down
    <3> QED BY <2>2, <3>1, HaltRefines DEF PowerOff, GuestStep, files
  <2>3. ASSUME NEW p \in Procs, Start(p) \/ Step(p) \/ EndSession(p) \/ Fault(p) \/ Die(p)
        PROVE  Lifecycle!Next \/ UNCHANGED <<LifecycleState, LifecycleUsers>>
    BY <2>3, ProcessRefines
  <2> QED BY <2>1, <2>2, <2>3 DEF Next
<1> QED BY <1>1, <1>2, DownInvariant, PTL DEF Spec, ImplementsLifecycle, Lifecycle!Spec
=============================================================================
