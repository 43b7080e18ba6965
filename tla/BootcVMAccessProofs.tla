------------------------- MODULE BootcVMAccessProofs -------------------------
(***************************************************************************)
(* Proofs about the way into a VM in BootcVM: whose keys are where, which  *)
(* VM an ssh session is on, and what a run leaves behind for ssh.          *)
(***************************************************************************)
EXTENDS BootcVMProofs

USE DEF AllCommands, RunCommands, RmCommands, FreePcs, LockedPcs, Pcs

-----------------------------------------------------------------------------
(* Every key belongs to one image. *)

\* Key k is in a file of image i, in its domain, or in the hand of a process
\* that works on it.
KeyUsed(i, k) ==
  \/ k \in {priv[i], pub[i]}
  \/ Exists(i) /\ dom[i].key = k
  \/ \E q \in Procs : Img(q) = i /\ job[q].key = k

OwnKeys == \A k \in Keys, i, j \in Images : KeyUsed(i, k) /\ KeyUsed(j, k) => i = j

\* A command that fails or ends has no key in hand.
LEMMA KeyDropped ==
  ASSUME TypeInv, NEW p \in Procs, Fail(p) \/ NextTarget(p) \/ Die(p) \/ Start(p)
  PROVE  job'[p].key = None
<1>1. \A c, i, rest : Target(c, i, rest).key = None
  BY DEF Target
<1>2. CASE NextTarget(p)
  <2>1. \/ job'[p] = NoJob
        \/ \E i : job'[p] = Target(job[p].cmd, i, job[p].todo \ {i})
    BY <1>2 DEF NextTarget, TypeInv, Control
  <2>2. CASE job'[p] = NoJob
    BY <2>2 DEF NoJob, Target
  <2>3. CASE \E i : job'[p] = Target(job[p].cmd, i, job[p].todo \ {i})
    BY <2>3 DEF Target
  <2> QED BY <2>1, <2>2, <2>3
<1>3. CASE Fail(p)
  <2>1. CASE pc[p] \in LockedPcs
    <3> DEFINE j == [Target(job[p].cmd, Img(p), job[p].todo) EXCEPT !.failed = TRUE]
    <3>1. j.key = None
      BY DEF Target
    <3>2. GotoWith(p, "unlock", j)
      BY <1>3, <2>1 DEF Fail
    <3> HIDE DEF j
    <3> QED BY <3>1, <3>2, GotoEnds
  <2> QED BY <1>2, <1>3, <2>1 DEF Fail
<1>4. CASE Die(p)
  <2>1. job'[p] = NoJob
    BY <1>4 DEF Die, TypeInv, Control
  <2> QED BY <1>1, <2>1 DEF NoJob
<1>5. CASE Start(p)
  <2>1. \E step, c, i, rest : GotoWith(p, step, Target(c, i, rest))
    BY <1>5 DEF Start, StartRun, StartOne, StartAll, Begin
  <2> QED BY <1>1, <2>1, GotoEnds
<1> QED BY <1>2, <1>3, <1>4, <1>5

\* The key in the hand of p after a step.
LEMMA KeyInHand ==
  ASSUME TypeInv, NEW p \in Procs, Start(p) \/ Step(p) \/ EndSession(p) \/ Fault(p) \/ Die(p)
  PROVE  \/ job'[p].key = None
         \/ Img(p)' = Img(p) /\ job'[p].key \in {job[p].key, pub[Img(p)], priv[Img(p)]}
<1>1. job[p] \in Job
  BY DEF TypeInv, Control
<1>2. CASE Start(p) \/ Fail(p) \/ UnlockVM(p) \/ Fault(p) \/ Die(p)
  BY <1>2, KeyDropped DEF UnlockVM, Fault
<1>3. CASE job'[p] = job[p]
  BY <1>3 DEF Img
<1>4. CASE /\ ~Fail(p)
           /\ \/ InstallLock(p) \/ Install(p) \/ Lookup(p) \/ LockVM(p) \/ CheckCacheDir(p)
              \/ Shutdown(p) \/ Destroy(p) \/ DomainExists(p) \/ Undefine(p) \/ KillVM(p)
              \/ RemoveFile(p) \/ RemoveDir(p) \/ RemoveKey(p) \/ RemovePub(p) \/ KeyGen(p)
              \/ Run(p) \/ Create(p) \/ WaitForVMToBeRunning(p) \/ TruncateConfig(p)
              \/ WriteConfig(p) \/ GetConfig(p)
  <2>1. UNCHANGED job
    BY <1>4 DEF InstallLock, Install, Lookup, LockVM, CheckCacheDir, Shutdown, Destroy, DomainExists,
       Undefine, KillVM, RemoveFile, RemoveDir, RemoveKey, RemovePub, KeyGen, Run, Create,
       WaitForVMToBeRunning, TruncateConfig, WriteConfig, GetConfig, Goto
  <2> QED BY <1>3, <2>1
<1>5. ASSUME job'[p].img = job[p].img, job'[p].key = job[p].key
      PROVE  Img(p)' = Img(p) /\ job'[p].key = job[p].key
  BY <1>5 DEF Img
<1>6. CASE FreePort(p) \/ (LoadConfig(p) /\ ~Fail(p))
  <2>1. PICK v : job'[p] = [job[p] EXCEPT !.port = v]
    BY <1>6, GotoEnds DEF FreePort, LoadConfig
  <2>2. job'[p].img = job[p].img /\ job'[p].key = job[p].key
    BY <1>1, <2>1 DEF Job
  <2> QED BY <1>5, <2>2
<1>7. CASE LoadExistingDomain(p)
  <2> DEFINE u == IF Exists(Img(p)) THEN dom[Img(p)].uuid ELSE None
  <2>1. job'[p] = [job[p] EXCEPT !.vm = u, !.ret = Body(job[p].cmd).ret]
    BY <1>7, GotoEnds DEF LoadExistingDomain
  <2> HIDE DEF u
  <2>2. job'[p].img = job[p].img /\ job'[p].key = job[p].key
    BY <1>1, <2>1 DEF Job
  <2> QED BY <1>5, <2>2
<1>8. CASE (ParseDomainTemplate(p) \/ ReadKey(p)) /\ ~Fail(p)
  <2>1. \/ job'[p] = [job[p] EXCEPT !.key = pub[Img(p)]]
        \/ job'[p] = [job[p] EXCEPT !.key = priv[Img(p)]]
    BY <1>8, GotoEnds DEF ParseDomainTemplate, ReadKey
  <2> QED BY <1>1, <2>1 DEF Job, Img
<1>9. CASE (Define(p) \/ WaitForSSH(p)) /\ ~Fail(p)
  <2>1. \/ \E u : job'[p] = [job[p] EXCEPT !.vm = u, !.key = None]
        \/ job'[p] = [job[p] EXCEPT !.key = None]
    BY <1>9, GotoEnds DEF Define, WaitForSSH
  <2> QED BY <1>1, <2>1 DEF Job
<1>10. CASE Connect(p) \/ EndSession(p)
  <2>1. AfterSSH(p) => \/ job'[p] = [job[p] EXCEPT !.peer = None, !.port = None, !.ret = "unlock"]
                       \/ job'[p] = [job[p] EXCEPT !.peer = None, !.port = None]
    BY GotoEnds DEF AfterSSH
  <2>2. AfterSSH(p) \/ \E i : job'[p] = [job[p] EXCEPT !.peer = i, !.port = None]
    BY <1>10, GotoEnds DEF Connect, EndSession
  <2>3. job'[p].img = job[p].img /\ job'[p].key = job[p].key
    BY <1>1, <2>1, <2>2 DEF Job
  <2> QED BY <1>5, <2>3
<1> QED BY <1>2, <1>4, <1>6, <1>7, <1>8, <1>9, <1>10 DEF Step

\* A key that comes to a file of an image is new to all images.
LEMMA KeyFiles ==
  ASSUME TypeInv, NEW p \in Procs, Start(p) \/ Step(p) \/ EndSession(p) \/ Fault(p) \/ Die(p),
         NEW k \in Keys, NEW i \in Images, k \in {priv'[i], pub'[i]}
  PROVE  \/ k \in {priv[i], pub[i]}
         \/ i = Img(p) /\ UNCHANGED <<dom, job>> /\ \A j \in Images : ~KeyUsed(j, k)
<1>1. priv \in [Images -> Keys \cup {None}] /\ pub \in [Images -> Keys \cup {None}]
  BY DEF TypeInv, FilesTypeOK
<1>2. CASE UNCHANGED <<priv, pub>>
  BY <1>2
<1>3. CASE RemoveFile(p) \/ RemoveKey(p) \/ RemovePub(p)
  <2>1. /\ UNCHANGED priv \/ priv' = [priv EXCEPT ![Img(p)] = None]
        /\ UNCHANGED pub \/ pub' = [pub EXCEPT ![Img(p)] = None]
    BY <1>3 DEF RemoveFile, RemoveKey, RemovePub
  <2> QED BY <1>1, <2>1, NoneAssumption
<1>4. CASE KeyGen(p) /\ ~UNCHANGED <<priv, pub>>
  <2>1. PICK u \in UnusedKeys : /\ priv' = [priv EXCEPT ![Img(p)] = u]
                                /\ pub' = [pub EXCEPT ![Img(p)] = u]
                                /\ UNCHANGED <<dom, job>>
    BY <1>4 DEF KeyGen, Goto
  <2>2. \A j \in Images : ~KeyUsed(j, u)
    BY DEF UnusedKeys, KeyUsed
  <2> QED BY <1>1, <2>1, <2>2
<1>5. CASE ~(RemoveFile(p) \/ RemoveKey(p) \/ RemovePub(p) \/ KeyGen(p))
  BY <1>2, <1>5 DEF Start, StartRun, StartOne, StartAll, Begin, Step, InstallLock, Install, FreePort,
     Lookup, LockVM, CheckCacheDir, LoadExistingDomain, Shutdown, Destroy, DomainExists, Undefine,
     KillVM, RemoveDir, Run, ParseDomainTemplate, Define, Create, WaitForVMToBeRunning,
     TruncateConfig, WriteConfig, ReadKey, WaitForSSH, LoadConfig, Connect, EndSession, GetConfig,
     UnlockVM, Fault, Die, files
<1> QED BY <1>2, <1>3, <1>4, <1>5

\* What a step does to the key and the port of a domain.
LEMMA DomKeys ==
  ASSUME LockInv, NEW p \in Procs, Start(p) \/ Step(p) \/ EndSession(p) \/ Fault(p) \/ Die(p),
         NEW i \in Images, dom'[i] # dom[i], dom'[i] # None
  PROVE  /\ i = Img(p)
         /\ \/ Exists(i) /\ dom'[i].key = dom[i].key /\ dom'[i].port = dom[i].port
            \/ Define(p) /\ ~Fail(p) /\ dom'[i].key = job[p].key /\ dom'[i].port = job[p].port
<1>1. i = Img(p) /\ (Destroy(p) \/ Undefine(p) \/ Define(p) \/ Create(p))
  BY DomSteps
<1>2. dom \in [Images -> Domain \cup {None}]
  BY DEF LockInv, TypeInv, LibvirtTypeOK
<1>3. CASE Define(p)
  <2>1. PICK u : DefineDomain(i, u, job[p].port, job[p].key) /\ pc'[p] = "create"
    BY <1>1, <1>3, GotoEnds DEF Define, LockInv
  <2>2. dom'[i] = [uuid |-> u, state |-> "shutoff", persistent |-> TRUE,
                   port |-> job[p].port, key |-> job[p].key]
    BY <1>2, <2>1 DEF DefineDomain
  <2>3. ~Fail(p)
    BY <2>1, FailEnds DEF LockInv
  <2> QED BY <1>1, <1>3, <2>2, <2>3
<1>4. CASE Destroy(p) \/ Undefine(p) \/ Create(p)
  <2>1. /\ Exists(i)
        /\ \/ dom' = [dom EXCEPT ![i] = Stopped(dom[i])]
           \/ dom' = [dom EXCEPT ![i] = [dom[i] EXCEPT !.persistent = FALSE]]
           \/ dom' = [dom EXCEPT ![i].state = "running"]
    BY <1>1, <1>2, <1>4 DEF Destroy, DestroyDomain, CanDestroy, Undefine, UndefineDomain, CanUndefine,
       Create, CreateDomain, CanCreate, Valid
  <2>2. dom[i] \in Domain
    BY <1>2, <2>1 DEF Exists
  <2>3. \/ dom'[i] = [dom[i] EXCEPT !.state = "shutoff"]
        \/ dom'[i] = [dom[i] EXCEPT !.persistent = FALSE]
        \/ dom'[i] = [dom[i] EXCEPT !.state = "running"]
    BY <1>2, <2>1 DEF Stopped
  <2>4. dom'[i].key = dom[i].key /\ dom'[i].port = dom[i].port
    BY <2>2, <2>3 DEF Domain
  <2> QED BY <1>1, <2>1, <2>4
<1> QED BY <1>1, <1>3, <1>4

\* A guest changes neither.
LEMMA GuestKeeps ==
  ASSUME TypeInv, NEW i \in Images, Guest(i), NEW j \in Images, dom'[j] # None
  PROVE  Exists(j) /\ dom'[j].key = dom[j].key /\ dom'[j].port = dom[j].port
<1>1. CASE j # i
  BY <1>1 DEF Guest, PowerOff, Pause, Resume, TypeInv, LibvirtTypeOK, Exists
<1>2. CASE j = i
  <2>1. Exists(i) /\ dom[i] \in Domain
    BY DEF Guest, PowerOff, Pause, Resume, Running, Active, Exists, TypeInv, LibvirtTypeOK
  <2>2. \E v : dom'[i] = [dom[i] EXCEPT !.state = v]
    BY <1>2 DEF Guest, PowerOff, Pause, Resume, Stopped, TypeInv, LibvirtTypeOK
  <2>3. \A v : /\ [dom[i] EXCEPT !.state = v].key = dom[i].key
               /\ [dom[i] EXCEPT !.state = v].port = dom[i].port
    BY <2>1 DEF Domain
  <2> QED BY <1>2, <2>1, <2>2, <2>3
<1> QED BY <1>1, <1>2

\* A key in use after a step was in use for the same image, or is new.
LEMMA KeyMoves ==
  ASSUME LockInv, NEW p \in Procs, Start(p) \/ Step(p) \/ EndSession(p) \/ Fault(p) \/ Die(p),
         NEW k \in Keys, NEW i \in Images, KeyUsed(i, k)'
  PROVE  \/ KeyUsed(i, k)
         \/ i = Img(p) /\ \A j \in Images : ~KeyUsed(j, k)
<1>1. TypeInv /\ Others(p)
  BY LockSteps DEF LockInv, LockStep
<1>2. CASE k \in {priv'[i], pub'[i]}
  BY <1>1, <1>2, KeyFiles DEF KeyUsed
<1>3. CASE dom'[i] # None /\ dom'[i].key = k
  <2>1. CASE dom'[i] = dom[i]
    BY <1>3, <2>1 DEF KeyUsed, Exists
  <2>2. CASE dom'[i] # dom[i]
    BY <1>3, <2>2, DomKeys DEF KeyUsed
  <2> QED BY <2>1, <2>2
<1>4. ASSUME NEW q \in Procs, job'[q].img = i, job'[q].key = k
      PROVE  KeyUsed(i, k)
  <2>1. CASE q # p
    BY <1>1, <1>4, <2>1 DEF Others, KeyUsed, Img
  <2>2. CASE q = p
    BY <1>1, <1>4, <2>2, KeyInHand, NoneAssumption DEF KeyUsed, Img
  <2> QED BY <2>1, <2>2
<1> QED BY <1>2, <1>3, <1>4 DEF KeyUsed, Exists, Img

LEMMA OwnKeysInvariant == Spec => []OwnKeys
<1>1. Init => OwnKeys
  BY NoneAssumption DEF Init, LibvirtInit, OwnKeys, KeyUsed, Exists, NoJob, Target
<1>2. LockInv /\ OwnKeys /\ [Next]_vars => OwnKeys'
  <2> SUFFICES ASSUME LockInv, OwnKeys, [Next]_vars, NEW k \in Keys, NEW i \in Images, NEW j \in Images,
                      KeyUsed(i, k)', KeyUsed(j, k)'
               PROVE  i = j
    BY DEF OwnKeys
  <2>1. CASE UNCHANGED vars
    BY <2>1 DEF vars, OwnKeys, KeyUsed, Exists, Img
  <2>2. ASSUME NEW g \in Images, GuestStep(g) PROVE i = j
    <3>1. \A x \in Images : KeyUsed(x, k)' => KeyUsed(x, k)
      BY <2>2, GuestKeeps DEF GuestStep, files, KeyUsed, Exists, Img, LockInv
    <3> QED BY <3>1 DEF OwnKeys
  <2>3. ASSUME NEW p \in Procs, Start(p) \/ Step(p) \/ EndSession(p) \/ Fault(p) \/ Die(p)
        PROVE  i = j
    BY <2>3, KeyMoves DEF OwnKeys
  <2> QED BY <2>1, <2>2, <2>3 DEF Next
<1>3. Spec => []LockInv
  BY LockInvariant DEF LockInv
<1> QED BY <1>1, <1>2, <1>3, PTL DEF Spec

-----------------------------------------------------------------------------
(* The ssh session. *)

\* A session begins with Connect.
LEMMA SessionFrom ==
  ASSUME TypeInv, NEW p \in Procs, Start(p) \/ Step(p) \/ EndSession(p) \/ Fault(p) \/ Die(p),
         pc'[p] = "session"
  PROVE  Connect(p) /\ ~AfterSSH(p)
<1>1. ~Fail(p) /\ ~AfterSSH(p)
  BY FailEnds, AfterSSHEnds
<1>2. ~(\/ Start(p) \/ InstallLock(p) \/ Install(p) \/ FreePort(p) \/ Lookup(p) \/ LockVM(p)
        \/ CheckCacheDir(p) \/ RemoveFile(p) \/ RemoveDir(p) \/ RemoveKey(p) \/ RemovePub(p)
        \/ KeyGen(p) \/ ParseDomainTemplate(p) \/ GetConfig(p) \/ UnlockVM(p) \/ Fault(p) \/ Die(p))
  BY QuietSteps DEF HandlePcs
<1>3. ~(\/ Shutdown(p) \/ Destroy(p) \/ KillVM(p) \/ Run(p) \/ Create(p) \/ WaitForVMToBeRunning(p)
        \/ TruncateConfig(p) \/ WriteConfig(p))
  <2>1. \/ Shutdown(p) \/ Destroy(p) \/ KillVM(p) \/ Run(p) \/ Create(p) \/ WaitForVMToBeRunning(p)
        \/ TruncateConfig(p) \/ WriteConfig(p)
        => \E step \in {"destroy", "exists", "shutdown", "template", "waitVM", "truncCfg", "writeCfg",
                        "readKey", "unlock"} : Goto(p, step)
    BY <1>1 DEF Shutdown, Destroy, KillVM, Run, Create, WaitForVMToBeRunning, TruncateConfig, WriteConfig
  <2> QED BY <2>1, GotoEnds
<1>4. ~(DomainExists(p) \/ Undefine(p))
  <2>1. DomainExists(p) \/ Undefine(p) => pc'[p] \in {"undefine", "template", "unlock", "rmCache"}
    BY <1>1, GotoEnds DEF DomainExists, Undefine, TypeInv, Control, Local, DeletePcs
  <2> QED BY <2>1
<1>5. ~(ReadKey(p) \/ WaitForSSH(p) \/ LoadConfig(p))
  <2>1. ReadKey(p) \/ WaitForSSH(p) \/ LoadConfig(p) => pc'[p] \in {"waitSSH", "loadCfg", "connect"}
    BY <1>1, GotoEnds DEF ReadKey, WaitForSSH, LoadConfig
  <2> QED BY <2>1
<1>6. ~Define(p)
  <2>1. Define(p) => pc'[p] = "create"
    BY <1>1, GotoEnds DEF Define
  <2> QED BY <2>1
<1>7. ~LoadExistingDomain(p)
  <2>1. LoadExistingDomain(p) => pc'[p] = Body(job[p].cmd).step /\ job[p].cmd \in AllCommands
    BY GotoEnds DEF LoadExistingDomain, TypeInv, Control, Local
  <2> QED BY <2>1 DEF Body
<1> QED BY <1>1, <1>2, <1>3, <1>4, <1>5, <1>6, <1>7 DEF Step, EndSession

\* An ssh session is on the VM of the image it was asked for: the port may
\* have passed to another image's VM, but that one does not take the key.
THEOREM SessionCorrect == Spec => []SessionOnOwnVM
<1>1. Init => SessionOnOwnVM
  BY DEF Init, SessionOnOwnVM
<1>2. LockInv /\ OwnKeys /\ SessionOnOwnVM /\ [Next]_vars => SessionOnOwnVM'
  <2> SUFFICES ASSUME LockInv, OwnKeys, SessionOnOwnVM, [Next]_vars,
                      NEW q \in Procs, pc'[q] = "session"
               PROVE  job'[q].peer = job'[q].img
    BY DEF SessionOnOwnVM, Img
  <2>1. CASE pc[q] = "session" /\ job'[q] = job[q]
    BY <2>1 DEF SessionOnOwnVM, Img
  <2>2. CASE UNCHANGED vars \/ \E i \in Images : GuestStep(i)
    BY <2>1, <2>2 DEF vars, GuestStep
  <2>3. ASSUME NEW p \in Procs, Start(p) \/ Step(p) \/ EndSession(p) \/ Fault(p) \/ Die(p)
        PROVE  job'[q].peer = job'[q].img
    <3>1. CASE q # p
      BY <2>1, <2>3, <3>1, LockSteps DEF LockInv, LockStep, Others
    <3>2. CASE q = p
      <4>1. Connect(p) /\ ~AfterSSH(p)
        BY <2>3, <3>2, SessionFrom DEF LockInv
      <4>2. PICK i \in Images : /\ Accepts(i, job[p].port, priv[Img(p)])
                                /\ job'[p] = [job[p] EXCEPT !.peer = i, !.port = None]
        BY <4>1, GotoEnds DEF Connect, LockInv
      <4>3. job[p] \in Job /\ Img(p) \in Images
        BY <4>1 DEF LockInv, TypeInv, Control, Local, Img, Connect
      <4>4. dom[i].key \in Keys /\ dom[i].key = priv[Img(p)] /\ Exists(i)
        BY <4>2 DEF Accepts, Running, Exists, LockInv, TypeInv, LibvirtTypeOK, Domain
      <4>5. i = Img(p)
        BY <4>3, <4>4 DEF OwnKeys, KeyUsed
      <4> QED BY <3>2, <4>2, <4>3, <4>5 DEF Job, Img
    <3> QED BY <3>1, <3>2
  <2> QED BY <2>2, <2>3 DEF Next
<1>3. Spec => []LockInv
  BY LockInvariant DEF LockInv
<1> QED BY <1>1, <1>2, <1>3, OwnKeysInvariant, PTL DEF Spec

-----------------------------------------------------------------------------
(* What run leaves behind. *)

\* No other run works on the image of a run.  (A second one, under the same
\* shared lock, replaces the keys of the first.)
NoRival ==
  \A p, q \in Procs : job[p].cmd \in RunCommands /\ job[q].cmd \in RunCommands /\ q # p => Img(q) # Img(p)

\* From Generatekeys to WriteConfig: the key pair is whole, the domain gets its
\* public half and the port of the run, and the config file that port.  Only
\* run --background ends there, and it does nothing after it.
WayOK(p) ==
  job[p].cmd \in RunCommands =>
    /\ \/ pc[p] \in {"run", "template"}
       \/ pc[p] \in DeletePcs /\ job[p].ret = "template"
       => priv[Img(p)] = pub[Img(p)]
    /\ pc[p] = "define" => job[p].key = priv[Img(p)]
    /\ pc[p] \in {"create", "waitVM", "truncCfg", "writeCfg"} /\ Exists(Img(p))
       => dom[Img(p)].port = job[p].port /\ dom[Img(p)].key = priv[Img(p)]
    /\ job[p].cmd = "runBg" =>
         /\ pc[p] \notin {"readKey", "waitSSH", "loadCfg", "connect", "session", "getCfg"}
         /\ pc[p] \in DeletePcs => job[p].ret = "template"
         /\ pc[p] = "unlock" /\ ~job[p].failed /\ Exists(Img(p))
            => cfg[Img(p)] = dom[Img(p)].port /\ priv[Img(p)] = dom[Img(p)].key

\* The steps WayOK speaks of.
WayPcs == {"run", "template", "define", "create", "waitVM", "truncCfg", "writeCfg", "readKey", "waitSSH",
           "loadCfg", "connect", "session", "getCfg", "unlock"} \cup DeletePcs

\* A step of another process leaves the keys, the config file and the domain
\* of a run alone.
LEMMA RivalFrame ==
  ASSUME LockInv, NoRival, NEW p \in Procs, NEW q \in Procs \ {p},
         Start(q) \/ Step(q) \/ EndSession(q) \/ Fault(q) \/ Die(q),
         pc[p] \in LockedPcs, job[p].cmd \in RunCommands
  PROVE  /\ priv'[Img(p)] = priv[Img(p)] /\ pub'[Img(p)] = pub[Img(p)] /\ cfg'[Img(p)] = cfg[Img(p)]
         /\ dom'[Img(p)] = dom[Img(p)]
<1>1. /\ Img(p) \in Images /\ Local(pc[q], job[q])
      /\ dom \in [Images -> Domain \cup {None}]
      /\ priv \in [Images -> Keys \cup {None}]
      /\ pub \in [Images -> Keys \cup {None}]
      /\ cfg \in [Images -> Ports \cup {None, "torn"}]
  BY DEF LockInv, TypeInv, Control, Local, Img, LibvirtTypeOK, FilesTypeOK
<1>2. CASE Img(q) # Img(p)
  <2>1. dom'[Img(p)] = dom[Img(p)]
    BY <1>1, <1>2, DomSteps
  <2>2. UNCHANGED files \/ \A i \in Images \ {Img(q)} : SameFiles(i)
    BY FileSteps
  <2> QED BY <1>1, <1>2, <2>1, <2>2 DEF files, SameFiles
<1>3. CASE Img(q) = Img(p)
  <2>1. job[q].cmd \notin RunCommands
    BY <1>3 DEF NoRival
  <2>2. ~(pc[q] \in LockedPcs /\ job[q].cmd \in Exclusive)
    <3>1. q \in Procs /\ p \in Procs \ {q}
      OBVIOUS
    <3> QED BY <1>3, <3>1, Alone
  <2>3. ~(Destroy(q) \/ Undefine(q) \/ Define(q) \/ Create(q))
    BY <1>1, <2>1, <2>2 DEF Destroy, Undefine, Define, Create, Local, RunPcs, DeletePcs, Exclusive
  <2>4. UNCHANGED dom
    BY <2>3, DomSteps
  <2>5. ~(\/ RemoveFile(q) \/ RemoveKey(q) \/ RemovePub(q) \/ KeyGen(q) \/ TruncateConfig(q)
          \/ WriteConfig(q))
    BY <1>1, <2>1, <2>2 DEF RemoveFile, RemoveKey, RemovePub, KeyGen, TruncateConfig, WriteConfig,
       Local, RunPcs, Exclusive
  <2>6. UNCHANGED <<priv, pub, cfg>>
    BY <2>5 DEF Start, StartRun, StartOne, StartAll, Begin, Step, InstallLock, Install, FreePort,
       Lookup, LockVM, CheckCacheDir, LoadExistingDomain, Shutdown, Destroy, DomainExists, Undefine,
       KillVM, RemoveDir, Run, ParseDomainTemplate, Define, Create, WaitForVMToBeRunning,
       ReadKey, WaitForSSH, LoadConfig, Connect, EndSession, GetConfig, UnlockVM, Fault, Die, files
  <2> QED BY <2>4, <2>6
<1> QED BY <1>2, <1>3

LEMMA WayOther ==
  ASSUME LockInv, NoRival, NEW p \in Procs, NEW q \in Procs \ {p}, WayOK(p),
         Start(q) \/ Step(q) \/ EndSession(q) \/ Fault(q) \/ Die(q)
  PROVE  WayOK(p)'
<1>1. pc'[p] = pc[p] /\ job'[p] = job[p] /\ Img(p)' = Img(p)
  BY LockSteps DEF LockInv, LockStep, Others, Img
<1>2. CASE pc[p] \in LockedPcs /\ job[p].cmd \in RunCommands
  BY <1>1, <1>2, RivalFrame DEF WayOK, Exists
<1>3. CASE job[p].cmd \notin RunCommands
  BY <1>1, <1>3 DEF WayOK
<1>4. CASE pc[p] \notin LockedPcs
  BY <1>1, <1>4 DEF WayOK, DeletePcs
<1> QED BY <1>2, <1>3, <1>4

LEMMA WayGuest ==
  ASSUME LockInv, NEW p \in Procs, WayOK(p), NEW i \in Images, GuestStep(i)
  PROVE  WayOK(p)'
<1>1. /\ pc' = pc /\ job' = job /\ Img(p)' = Img(p)
      /\ priv' = priv /\ pub' = pub /\ cfg' = cfg
  BY DEF GuestStep, files, Img
<1>2. CASE pc[p] = "idle"
  BY <1>1, <1>2 DEF WayOK, DeletePcs
<1>3. CASE pc[p] # "idle"
  <2>1. Img(p) \in Images
    BY <1>3 DEF LockInv, TypeInv, Control, Local, Img
  <2>2. Exists(Img(p))' => /\ Exists(Img(p)) /\ dom'[Img(p)].key = dom[Img(p)].key
                           /\ dom'[Img(p)].port = dom[Img(p)].port
    BY <1>1, <2>1, GuestKeeps DEF GuestStep, Exists, LockInv
  <2> QED BY <1>1, <2>2 DEF WayOK, Exists
<1> QED BY <1>2, <1>3

\* Delete, for run, keeps the new keys.
LEMMA WayDelete ==
  ASSUME LockInv, NEW p \in Procs, WayOK(p), ~Fail(p),
         Shutdown(p) \/ Destroy(p) \/ DomainExists(p) \/ Undefine(p) \/ Run(p)
  PROVE  WayOK(p)'
<1>1. Local(pc[p], job[p])
  BY DEF LockInv, TypeInv, Control
<1>2. /\ job'[p] = job[p] /\ priv' = priv /\ pub' = pub /\ Img(p)' = Img(p)
      /\ \/ pc'[p] \in DeletePcs \cup {"template"} /\ (Run(p) \/ pc[p] \in DeletePcs)
         \/ pc'[p] = job[p].ret /\ pc[p] \in DeletePcs
  BY GotoEnds DEF Shutdown, Destroy, DomainExists, Undefine, Run, LockInv, files, Img, DeletePcs
<1>3. CASE Run(p)
  <2>1. job[p].ret = "template" /\ pc[p] = "run" /\ pc'[p] \in {"shutdown", "template"}
    BY <1>1, <1>3, GotoEnds DEF Run, Local, LockInv
  <2> QED BY <1>2, <2>1 DEF WayOK, DeletePcs
<1>4. CASE pc[p] \in DeletePcs /\ pc'[p] \in DeletePcs
  BY <1>2, <1>4 DEF WayOK, DeletePcs
<1>5. CASE pc[p] \in DeletePcs /\ pc'[p] = job[p].ret
  <2>1. /\ job[p].ret \in {"template", "unlock", "rmCache"}
        /\ job[p].ret = "rmCache" => job[p].cmd \notin RunCommands
    BY <1>1, <1>5 DEF Local, DeletePcs
  <2> QED BY <1>2, <1>5, <2>1 DEF WayOK, DeletePcs
<1>6. CASE ~Run(p) /\ pc'[p] = "template"
  <2>1. pc[p] \in DeletePcs /\ pc'[p] = job[p].ret
    BY <1>6, <1>2, GotoEnds DEF Shutdown, Destroy, DomainExists, Undefine, LockInv, DeletePcs
  <2> QED BY <1>5, <2>1
<1> QED BY <1>2, <1>3, <1>4, <1>5, <1>6

\* The steps that write the keys, the domain and the config file of a run.
LEMMA WayBuild ==
  ASSUME LockInv, NEW p \in Procs, WayOK(p), ~Fail(p),
         \/ KeyGen(p) \/ ParseDomainTemplate(p) \/ Define(p) \/ Create(p)
         \/ WaitForVMToBeRunning(p) \/ TruncateConfig(p) \/ WriteConfig(p)
  PROVE  WayOK(p)'
<1>1. /\ Local(pc[p], job[p]) /\ job[p] \in Job
      /\ dom \in [Images -> Domain \cup {None}]
      /\ priv \in [Images -> Keys \cup {None}]
      /\ pub \in [Images -> Keys \cup {None}]
      /\ cfg \in [Images -> Ports \cup {None, "torn"}]
  BY DEF LockInv, TypeInv, Control, LibvirtTypeOK, FilesTypeOK
<1>2. job[p].cmd \in RunCommands /\ Img(p) \in Images
  BY <1>1 DEF Local, RunPcs, Img, KeyGen, ParseDomainTemplate, Define, Create, WaitForVMToBeRunning,
     TruncateConfig, WriteConfig
<1>3. CASE KeyGen(p)
  <2>1. pc'[p] = "run" /\ job'[p] = job[p] /\ Img(p)' = Img(p)
    BY <1>3, GotoEnds DEF KeyGen, LockInv, Img
  <2>2. PICK k : priv' = [priv EXCEPT ![Img(p)] = k] /\ pub' = [pub EXCEPT ![Img(p)] = k]
    BY <1>3 DEF KeyGen
  <2>3. priv'[Img(p)] = pub'[Img(p)]
    BY <1>1, <1>2, <2>2
  <2> QED BY <2>1, <2>3 DEF WayOK, DeletePcs
<1>4. CASE ParseDomainTemplate(p)
  <2>1. /\ pc'[p] = "define" /\ job'[p] = [job[p] EXCEPT !.key = pub[Img(p)]]
        /\ priv' = priv /\ pc[p] = "template"
    BY <1>4, GotoEnds DEF ParseDomainTemplate, LockInv, files
  <2>2. job'[p].key = pub[Img(p)] /\ Img(p)' = Img(p)
    BY <1>1, <2>1 DEF Job, Img
  <2>3. priv[Img(p)] = pub[Img(p)]
    BY <1>2, <2>1 DEF WayOK
  <2> QED BY <2>1, <2>2, <2>3 DEF WayOK, DeletePcs
<1>5. CASE Define(p)
  <2>1. PICK u : /\ pc'[p] = "create" /\ job'[p] = [job[p] EXCEPT !.vm = u, !.key = None]
                 /\ DefineDomain(Img(p), u, job[p].port, job[p].key)
                 /\ priv' = priv /\ pc[p] = "define"
    BY <1>5, GotoEnds DEF Define, LockInv, files
  <2>2. job'[p].port = job[p].port /\ Img(p)' = Img(p)
    BY <1>1, <2>1 DEF Job, Img
  <2>3. dom'[Img(p)].port = job[p].port /\ dom'[Img(p)].key = job[p].key
    BY <1>1, <1>2, <2>1 DEF DefineDomain
  <2>4. job[p].key = priv[Img(p)]
    BY <1>2, <2>1 DEF WayOK
  <2> QED BY <2>1, <2>2, <2>3, <2>4 DEF WayOK, DeletePcs
<1>6. CASE Create(p) \/ WaitForVMToBeRunning(p) \/ TruncateConfig(p)
  <2>1. /\ pc[p] \in {"create", "waitVM", "truncCfg"} /\ pc'[p] \in {"waitVM", "truncCfg", "writeCfg"}
        /\ job'[p] = job[p] /\ Img(p)' = Img(p) /\ priv' = priv
    BY <1>6, GotoEnds DEF Create, WaitForVMToBeRunning, TruncateConfig, LockInv, files, Img
  <2>2. dom'[Img(p)] = dom[Img(p)] \/ dom'[Img(p)] = [dom[Img(p)] EXCEPT !.state = "running"]
    BY <1>1, <1>2, <1>6 DEF Create, CreateDomain, WaitForVMToBeRunning, TruncateConfig
  <2>3. Exists(Img(p)) \/ dom'[Img(p)] = dom[Img(p)]
    BY <1>6 DEF Create, CreateDomain, CanCreate, Valid, WaitForVMToBeRunning, TruncateConfig
  <2>4. dom'[Img(p)] # None => /\ Exists(Img(p)) /\ dom'[Img(p)].port = dom[Img(p)].port
                               /\ dom'[Img(p)].key = dom[Img(p)].key
    BY <1>1, <1>2, <2>2, <2>3 DEF Exists, Domain
  <2> QED BY <1>2, <2>1, <2>4 DEF WayOK, DeletePcs, Exists
<1>7. CASE WriteConfig(p)
  <2>1. /\ pc[p] = "writeCfg" /\ pc'[p] = IF job[p].cmd = "runBg" THEN "unlock" ELSE "readKey"
        /\ job'[p] = job[p] /\ Img(p)' = Img(p) /\ priv' = priv /\ dom' = dom
        /\ cfg' = [cfg EXCEPT ![Img(p)] = job[p].port]
    BY <1>7, GotoEnds DEF WriteConfig, LockInv, Img
  <2>2. cfg'[Img(p)] = job[p].port
    BY <1>1, <1>2, <2>1
  <2> QED BY <1>2, <2>1, <2>2 DEF WayOK, DeletePcs, Exists
<1> QED BY <1>3, <1>4, <1>5, <1>6, <1>7

LEMMA WaySelf ==
  ASSUME LockInv, NEW p \in Procs, WayOK(p), Start(p) \/ Step(p) \/ EndSession(p) \/ Fault(p) \/ Die(p)
  PROVE  WayOK(p)'
<1>1. Local(pc[p], job[p]) /\ TypeInv
  BY DEF LockInv, TypeInv, Control
<1>2. CASE Fail(p)
  BY <1>1, <1>2, FailEnds DEF WayOK, DeletePcs
<1>3. CASE pc'[p] \notin WayPcs
  BY <1>3 DEF WayOK, WayPcs
<1>4. CASE job'[p].cmd \notin RunCommands
  BY <1>4 DEF WayOK
<1>5. CASE \/ Start(p) \/ InstallLock(p) \/ Install(p) \/ FreePort(p) \/ Lookup(p) \/ LockVM(p)
           \/ UnlockVM(p) \/ Die(p)
  BY <1>1, <1>2, <1>3, <1>5, EarlyEnds DEF WayPcs, DeletePcs
<1>6. CASE (CheckCacheDir(p) \/ RemoveKey(p) \/ RemovePub(p)) /\ ~Fail(p)
  <2>1. pc'[p] \in {"load", "rmPub", "keygen"}
    BY <1>1, <1>6, GotoEnds DEF CheckCacheDir, RemoveKey, RemovePub
  <2> QED BY <1>3, <2>1 DEF WayPcs, DeletePcs
<1>7. CASE LoadExistingDomain(p) /\ ~Fail(p)
  <2>1. pc'[p] = Body(job[p].cmd).step /\ job'[p].cmd = job[p].cmd /\ job[p].cmd \in AllCommands
    BY <1>1, <1>7, GotoEnds, CmdKept DEF LoadExistingDomain, Local
  <2>2. job[p].cmd \in RunCommands => pc'[p] = "rmKey"
    BY <2>1 DEF Body
  <2> QED BY <1>3, <1>4, <2>1, <2>2 DEF WayPcs, DeletePcs
<1>8. CASE (KillVM(p) \/ RemoveFile(p) \/ RemoveDir(p)) /\ ~Fail(p)
  <2>1. job'[p] = job[p] /\ job[p].cmd \in RmCommands
    BY <1>1, <1>8, GotoEnds DEF KillVM, RemoveFile, RemoveDir, Local
  <2> QED BY <1>4, <2>1
<1>9. CASE (ReadKey(p) \/ WaitForSSH(p) \/ LoadConfig(p)) /\ ~Fail(p)
  <2>1. pc'[p] \in {"waitSSH", "loadCfg", "connect"} /\ job'[p].cmd = job[p].cmd
    BY <1>1, <1>9, GotoEnds, CmdKept DEF ReadKey, WaitForSSH, LoadConfig
  <2>2. job[p].cmd # "runBg" \/ job[p].cmd \notin RunCommands
    BY <1>9 DEF WayOK, ReadKey, WaitForSSH, LoadConfig
  <2> QED BY <2>1, <2>2 DEF WayOK, DeletePcs
<1>10. CASE Connect(p) \/ EndSession(p)
  <2>1. job[p].cmd # "runBg"
    BY <1>10 DEF WayOK, Connect, EndSession
  <2>2. CASE AfterSSH(p)
    <3>1. CASE job[p].cmd = "runRm"
      <4>1. pc'[p] = "shutdown" /\ job'[p] = [job[p] EXCEPT !.peer = None, !.port = None, !.ret = "unlock"]
        BY <1>1, <2>2, <3>1, GotoEnds DEF AfterSSH
      <4>2. job'[p].ret = "unlock" /\ job'[p].cmd = "runRm"
        BY <1>1, <3>1, <4>1 DEF TypeInv, Control, Job
      <4> QED BY <4>1, <4>2 DEF WayOK, DeletePcs
    <3>2. CASE job[p].cmd # "runRm"
      <4>1. pc'[p] = "unlock" /\ job'[p].cmd = job[p].cmd
        BY <1>1, <2>2, <3>2, GotoEnds, AfterSSHEnds DEF AfterSSH
      <4> QED BY <2>1, <4>1 DEF WayOK, DeletePcs
    <3> QED BY <3>1, <3>2
  <2>3. CASE ~AfterSSH(p)
    <3>1. PICK i : pc'[p] = "session" /\ job'[p] = [job[p] EXCEPT !.peer = i, !.port = None]
      BY <1>1, <1>10, <2>3, GotoEnds DEF Connect, EndSession
    <3>2. job'[p].cmd = job[p].cmd
      BY <1>1, <3>1 DEF TypeInv, Control, Job
    <3> QED BY <2>1, <3>1, <3>2 DEF WayOK, DeletePcs
  <2> QED BY <2>2, <2>3
<1>11. CASE GetConfig(p) /\ ~Fail(p)
  <2>1. pc'[p] = "unlock" /\ job'[p] = job[p]
    BY <1>1, <1>11, GotoEnds DEF GetConfig
  <2>2. job[p].cmd # "runBg"
    BY <1>11 DEF WayOK, GetConfig
  <2> QED BY <2>1, <2>2 DEF WayOK, DeletePcs
<1>12. Fault(p) => Fail(p)
  BY DEF Fault
<1> QED BY <1>2, <1>5, <1>6, <1>7, <1>8, <1>9, <1>10, <1>11, <1>12, WayDelete, WayBuild DEF Step

\* When run --background reports success and no other run of the image was
\* under way, the config file has its VM's port and the private key is the one
\* its VM accepts, whatever the other commands and the guests did meanwhile.
THEOREM WayInCorrect == Spec /\ []NoRival => []RunLeavesAWayIn
<1> DEFINE Way == \A p \in Procs : WayOK(p)
<1>1. Init => Way
  BY DEF Init, WayOK, DeletePcs
<1>2. LockInv /\ NoRival /\ Way /\ [Next]_vars => Way'
  <2> SUFFICES ASSUME LockInv, NoRival, Way, [Next]_vars, NEW p \in Procs PROVE WayOK(p)'
    OBVIOUS
  <2>1. WayOK(p)
    OBVIOUS
  <2>2. CASE UNCHANGED vars
    BY <2>1, <2>2 DEF vars, files, WayOK, Exists, Img
  <2>3. ASSUME NEW i \in Images, GuestStep(i) PROVE WayOK(p)'
    BY <2>1, <2>3, WayGuest
  <2>4. ASSUME NEW q \in Procs, Start(q) \/ Step(q) \/ EndSession(q) \/ Fault(q) \/ Die(q)
        PROVE  WayOK(p)'
    BY <2>1, <2>4, WaySelf, WayOther
  <2> QED BY <2>2, <2>3, <2>4 DEF Next
<1>3. Way => RunLeavesAWayIn
  BY DEF WayOK, RunLeavesAWayIn, Succeeded
<1>4. Spec => []LockInv
  BY LockInvariant DEF LockInv
<1> HIDE DEF Way
<1> QED BY <1>1, <1>2, <1>3, <1>4, PTL DEF Spec
=============================================================================
