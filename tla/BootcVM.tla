------------------------------- MODULE BootcVM -------------------------------
(***************************************************************************)
(* The life of the VMs of podman-bootc on Linux: the commands run, stop,   *)
(* rm, ssh and list, each a process of its own, acting on the image's      *)
(* cache directory, on the image's cache lock and on the libvirt daemon.   *)
(*                                                                         *)
(* A process takes one step for each system call or libvirt call whose     *)
(* order matters.  Any call listed in Faults may fail, any process may die *)
(* at any step (a crash, or the signal handler of podman-bootc.go, which   *)
(* exits without running the deferred calls), and guests may stop.         *)
(***************************************************************************)
EXTENDS CacheLock, Libvirt

CONSTANTS Commands,   \* the commands a user may start
          Faults      \* the steps whose call may fail for reasons of its own

RunCommands == {"run",      \* run, interactive, the VM outlives the session
                "runBg",    \* run --background
                "runRm"}    \* run --rm, or run with a command to execute
RmCommands  == {"rm", "rmForce"}
AllCommands == RunCommands \cup RmCommands \cup {"stop", "ssh", "list"}

\* Steps at which a process holds no lock.
FreePcs == {"idle", "installLock", "port", "lookup", "lock"}

\* Steps at which NewVM has locked the cache directory.
LockedPcs == {"check", "load", "rmKey", "rmPub", "keygen", "run", "kill", "shutdown",
              "destroy", "exists", "undefine", "template", "define", "create", "waitVM",
              "truncCfg", "writeCfg", "readKey", "waitSSH", "loadCfg", "connect", "session",
              "getCfg", "rmCache", "unlock"}

Pcs == FreePcs \cup LockedPcs \cup {"install"}

\* Calls without an error path (the errors of os.Remove are dropped), and the session.
Infallible == {"idle", "rmKey", "rmPub", "unlock", "session"}

ASSUME CommandsAssumption == Commands \subseteq AllCommands
ASSUME FaultsAssumption == Faults \subseteq Pcs \ Infallible
ASSUME NoneAssumption ==
  /\ None \notin Procs \cup Images \cup Uuids \cup Keys \cup Ports
  /\ None \notin Pcs \cup AllCommands \cup {"torn"}
  /\ None \notin Domain
ASSUME TornAssumption == "torn" \notin Ports

VARIABLES pc,     \* the next step of each process
          job,    \* its local state
          dir,    \* dir[i]: the cache directory of image i exists
          disk,   \* disk[i]: it holds a complete disk.raw
          priv,   \* priv[i]: the private key in its file sshkey, or None
          pub,    \* pub[i]: the public key in its file sshkey.pub, or None
          cfg     \* cfg[i]: the ssh port in its bc.cfg, "torn" if the file does
                  \* not parse, None if there is no such file

files == <<dir, disk, priv, pub, cfg>>
vars  == <<lock, dom, pc, job, dir, disk, priv, pub, cfg>>

\* The local state of a command that works on image img and has the images
\* of rest to visit after it (rm --all, list).
Target(cmd, img, rest) ==
  [cmd |-> cmd, img |-> img, todo |-> rest,
   ret |-> None,       \* where Delete returns to
   failed |-> FALSE,   \* the command returns an error for img
   vm |-> None,        \* handle of the domain
   port |-> None,      \* ssh port
   key |-> None,       \* key in hand: for the domain's template, then for Dial
   peer |-> None]      \* image whose VM the ssh session is on

NoJob == Target(None, None, {})

Img(p) == job[p].img

\* The image after Img(p), or the end of the command.
NextTarget(p) ==
  IF job[p].todo = {}
  THEN /\ pc' = [pc EXCEPT ![p] = "idle"]
       /\ job' = [job EXCEPT ![p] = NoJob]
  ELSE \E i \in job[p].todo :
         /\ pc' = [pc EXCEPT ![p] = "lookup"]
         /\ job' = [job EXCEPT ![p] = Target(job[p].cmd, i, job[p].todo \ {i})]

Goto(p, step) == pc' = [pc EXCEPT ![p] = step] /\ UNCHANGED <<job, lock>>

\* Go on to a step with another local state.
GotoWith(p, step, local) ==
  pc' = [pc EXCEPT ![p] = step] /\ job' = [job EXCEPT ![p] = local] /\ UNCHANGED lock

\* Mutant: an error return inside the lock that forgets to unlock.
FailLeaksLock(p) ==
  IF pc[p] = "check" THEN NextTarget(p) /\ UNCHANGED lock
  ELSE IF pc[p] \in LockedPcs
       THEN GotoWith(p, "unlock", [Target(job[p].cmd, Img(p), job[p].todo) EXCEPT !.failed = TRUE])
       ELSE Unlock(p, Img(p)) /\ NextTarget(p)

\* The error return: through the deferred Unlock when NewVM has taken the
\* lock, through Install's own when Install holds it, directly otherwise.
\* The local state is dead from here on.
Fail(p) ==
  IF pc[p] \in LockedPcs
  THEN GotoWith(p, "unlock", [Target(job[p].cmd, Img(p), job[p].todo) EXCEPT !.failed = TRUE])
  ELSE Unlock(p, Img(p)) /\ NextTarget(p)

-----------------------------------------------------------------------------
(* Starting a command, and the disk image of run. *)

Begin(p, step, local) ==
  /\ pc[p] = "idle"
  /\ GotoWith(p, step, local)
  /\ UNCHANGED <<dom, files>>

\* run names any image; stop, ssh and rm take an id.
StartRun(p) == \E c \in Commands \cap RunCommands, i \in Images :
                 Begin(p, "installLock", Target(c, i, {}))

StartOne(p) == \E c \in Commands \ (RunCommands \cup {"list"}), i \in Images :
                 Begin(p, "lookup", Target(c, i, {}))

\* rm --all and list visit the directories found when they start.
StartAll(p) ==
  LET found == {i \in Images : dir[i]}
  IN  \E c \in Commands \cap (RmCommands \cup {"list"}), i \in found :
        Begin(p, "lookup", Target(c, i, found \ {i}))

\* BootcDisk.Install up to the lock and the directory.
InstallLock(p) ==
  /\ pc[p] = "installLock"
  /\ \/ /\ TryLock(p, Img(p), "exclusive")
        /\ dir' = [dir EXCEPT ![Img(p)] = TRUE]
        /\ pc' = [pc EXCEPT ![p] = "install"]
        /\ UNCHANGED job
     \/ /\ ~CanLock(p, Img(p), "exclusive")
        /\ Fail(p)
        /\ UNCHANGED dir
  /\ UNCHANGED <<dom, disk, priv, pub, cfg>>

\* getOrInstallImageToDisk and the deferred Unlock: from here to NewVM, run
\* holds no lock.
Install(p) ==
  /\ pc[p] = "install"
  /\ disk' = [disk EXCEPT ![Img(p)] = TRUE]
  /\ Unlock(p, Img(p))
  /\ pc' = [pc EXCEPT ![p] = "port"]
  /\ UNCHANGED <<dom, job, dir, priv, pub, cfg>>

\* GetFreeLocalTcpPort: the listener is closed before the port is used.
FreePort(p) ==
  /\ pc[p] = "port"
  /\ \E n \in Ports : ~PortTaken(n) /\ GotoWith(p, "lookup", [job[p] EXCEPT !.port = n])
  /\ UNCHANGED <<dom, files>>

-----------------------------------------------------------------------------
(* NewVM: the directory, the lock, the handle. *)

\* Mutant: stop takes the lock like ssh.
CommandModeStopShared(c) == IF c \in RmCommands THEN "exclusive" ELSE "shared"

CommandMode(c) == IF c \in RmCommands \cup {"stop"} THEN "exclusive" ELSE "shared"

\* GetVMCachePath, which reads the cache without a lock.
Lookup(p) ==
  /\ pc[p] = "lookup"
  /\ IF dir[Img(p)] THEN Goto(p, "lock") ELSE Fail(p)
  /\ UNCHANGED <<dom, files>>

\* Mutant: a lock that blocks.
LockVMBlocks(p) ==
  /\ pc[p] = "lock"
  /\ TryLock(p, Img(p), CommandMode(job[p].cmd))
  /\ pc' = [pc EXCEPT ![p] = "check"]
  /\ UNCHANGED <<job, dom, files>>

LockVM(p) ==
  /\ pc[p] = "lock"
  /\ \/ /\ TryLock(p, Img(p), CommandMode(job[p].cmd))
        /\ pc' = [pc EXCEPT ![p] = "check"]
        /\ UNCHANGED job
     \/ ~CanLock(p, Img(p), CommandMode(job[p].cmd)) /\ Fail(p)
  /\ UNCHANGED <<dom, files>>

\* Mutant: without lockVM's second look at the directory.
CheckCacheDirSkipped(p) ==
  pc[p] = "check" /\ Goto(p, "load") /\ UNCHANGED <<dom, files>>

\* The directory may have gone between Lookup and LockVM.
CheckCacheDir(p) ==
  /\ pc[p] = "check"
  /\ IF dir[Img(p)] THEN Goto(p, "load") ELSE Fail(p)
  /\ UNCHANGED <<dom, files>>

\* Mutants: rm without killVM's question; rm -f that forgets the cache.
BodyRmUnchecked(c) == CASE c \in RunCommands -> [step |-> "rmKey",    ret |-> "template"]
                        [] c = "stop"        -> [step |-> "shutdown", ret |-> "unlock"]
                        [] c \in RmCommands  -> [step |-> "shutdown", ret |-> "rmCache"]
                        [] c = "ssh"         -> [step |-> "loadCfg",  ret |-> None]
                        [] c = "list"        -> [step |-> "getCfg",   ret |-> None]

BodyKeepsCache(c) ==
  IF c = "rmForce" THEN [step |-> "shutdown", ret |-> "unlock"] ELSE BodyRmUnchecked(c)

\* What each command does once it has its VM; Delete returns to ret.
Body(c) == CASE c \in RunCommands -> [step |-> "rmKey",    ret |-> "template"]
             [] c = "stop"        -> [step |-> "shutdown", ret |-> "unlock"]
             [] c = "rm"          -> [step |-> "kill",     ret |-> "rmCache"]
             [] c = "rmForce"     -> [step |-> "shutdown", ret |-> "rmCache"]
             [] c = "ssh"         -> [step |-> "loadCfg",  ret |-> None]
             [] c = "list"        -> [step |-> "getCfg",   ret |-> None]

LoadExistingDomain(p) ==
  /\ pc[p] = "load"
  /\ LET body == Body(job[p].cmd)
         u    == IF Exists(Img(p)) THEN dom[Img(p)].uuid ELSE None
     IN  GotoWith(p, body.step, [job[p] EXCEPT !.vm = u, !.ret = body.ret])
  /\ UNCHANGED <<dom, files>>

-----------------------------------------------------------------------------
(* Delete: Shutdown, Exists, Undefine.  The paths of stop, rm, and run. *)

\* IsRunning on the handle of p: an error if the domain of that uuid is
\* gone, false without a handle.
HandleLost(p) == job[p].vm # None /\ ~Valid(Img(p), job[p].vm)
IsRunning(p)  == job[p].vm # None /\ Valid(Img(p), job[p].vm) /\ Running(Img(p))

\* Mutants: a shutdown that does not stop the VM; one that insists on a
\* running VM.
ShutdownNoDestroy(p) ==
  /\ pc[p] = "shutdown"
  /\ IF HandleLost(p) THEN Fail(p) ELSE Goto(p, "exists")
  /\ UNCHANGED <<dom, files>>

ShutdownNeedsRunning(p) ==
  /\ pc[p] = "shutdown"
  /\ IF IsRunning(p) THEN Goto(p, "destroy") ELSE Fail(p)
  /\ UNCHANGED <<dom, files>>

Shutdown(p) ==
  /\ pc[p] = "shutdown"
  /\ IF HandleLost(p) THEN Fail(p)
                      ELSE Goto(p, IF IsRunning(p) THEN "destroy" ELSE "exists")
  /\ UNCHANGED <<dom, files>>

Destroy(p) ==
  /\ pc[p] = "destroy"
  /\ \/ DestroyDomain(Img(p), job[p].vm) /\ Goto(p, "exists")
     \/ ~CanDestroy(Img(p), job[p].vm) /\ Fail(p) /\ UNCHANGED dom
  /\ UNCHANGED files

\* BootcVMLinux.Exists looks the domain up by name, not by handle.
DomainExists(p) ==
  /\ pc[p] = "exists"
  /\ Goto(p, IF Exists(Img(p)) THEN "undefine" ELSE job[p].ret)
  /\ UNCHANGED <<dom, files>>

Undefine(p) ==
  /\ pc[p] = "undefine"
  /\ \/ UndefineDomain(Img(p), job[p].vm) /\ Goto(p, job[p].ret)
     \/ ~CanUndefine(Img(p), job[p].vm) /\ Fail(p) /\ UNCHANGED dom
  /\ UNCHANGED files

\* killVM of rm without -f: refuse a running VM, else Delete.
KillVM(p) ==
  /\ pc[p] = "kill"
  /\ IF HandleLost(p) \/ IsRunning(p) THEN Fail(p) ELSE Goto(p, "shutdown")
  /\ UNCHANGED <<dom, files>>

\* DeleteFromCache: os.RemoveAll unlinks one file at a time, then the
\* directory.
RemoveFile(p) ==
  /\ pc[p] = "rmCache"
  /\ LET i == Img(p)
     IN  \/ disk[i] /\ disk' = [disk EXCEPT ![i] = FALSE] /\ UNCHANGED <<priv, pub, cfg>>
         \/ priv[i] # None /\ priv' = [priv EXCEPT ![i] = None] /\ UNCHANGED <<disk, pub, cfg>>
         \/ pub[i] # None /\ pub' = [pub EXCEPT ![i] = None] /\ UNCHANGED <<disk, priv, cfg>>
         \/ cfg[i] # None /\ cfg' = [cfg EXCEPT ![i] = None] /\ UNCHANGED <<disk, priv, pub>>
  /\ UNCHANGED <<lock, dom, pc, job, dir>>

RemoveDir(p) ==
  /\ pc[p] = "rmCache"
  /\ ~disk[Img(p)] /\ priv[Img(p)] = None /\ pub[Img(p)] = None /\ cfg[Img(p)] = None
  /\ dir' = [dir EXCEPT ![Img(p)] = FALSE]
  /\ Goto(p, "unlock")
  /\ UNCHANGED <<dom, disk, priv, pub, cfg>>

-----------------------------------------------------------------------------
(* run: new keys, then BootcVMLinux.Run, then the config file. *)

\* Generatekeys removes the old pair, then ssh-keygen, which does not
\* overwrite a private key, writes a new one.
RemoveKey(p) ==
  /\ pc[p] = "rmKey"
  /\ priv' = [priv EXCEPT ![Img(p)] = None]
  /\ Goto(p, "rmPub")
  /\ UNCHANGED <<dom, dir, disk, pub, cfg>>

RemovePub(p) ==
  /\ pc[p] = "rmPub"
  /\ pub' = [pub EXCEPT ![Img(p)] = None]
  /\ Goto(p, "keygen")
  /\ UNCHANGED <<dom, dir, disk, priv, cfg>>

\* Mutant: one key pair for every VM.
UnusedKeysShared == Keys

\* Key pairs never repeat; which unused one is drawn is immaterial.
UnusedKeys ==
  {k \in Keys : /\ \A i \in Images : k \notin {priv[i], pub[i]} /\ (Exists(i) => dom[i].key # k)
                /\ \A q \in Procs : job[q].key # k}

KeyGen(p) ==
  /\ pc[p] = "keygen"
  /\ \/ /\ priv[Img(p)] = None
        /\ UnusedKeys # {}
        /\ LET k == CHOOSE k \in UnusedKeys : TRUE
           IN  /\ priv' = [priv EXCEPT ![Img(p)] = k]
               /\ pub'  = [pub EXCEPT ![Img(p)] = k]
        /\ Goto(p, "run")
     \/ priv[Img(p)] # None /\ Fail(p) /\ UNCHANGED <<priv, pub>>
  /\ UNCHANGED <<dom, dir, disk, cfg>>

\* Mutant: a stopped VM is started again instead of deleted and redefined.
RunRestarts(p) ==
  /\ pc[p] = "run"
  /\ IF HandleLost(p) \/ IsRunning(p) THEN Fail(p)
     ELSE Goto(p, IF job[p].vm = None THEN "template" ELSE "create")
  /\ UNCHANGED <<dom, files>>

\* Run: a VM that runs is an error, one that does not is deleted first.
Run(p) ==
  /\ pc[p] = "run"
  /\ IF HandleLost(p) \/ IsRunning(p) THEN Fail(p)
     ELSE Goto(p, IF job[p].vm = None THEN "template" ELSE "shutdown")
  /\ UNCHANGED <<dom, files>>

\* parseDomainTemplate reads the public key into the SMBIOS string.
ParseDomainTemplate(p) ==
  /\ pc[p] = "template"
  /\ IF pub[Img(p)] = None THEN Fail(p)
     ELSE GotoWith(p, "define", [job[p] EXCEPT !.key = pub[Img(p)]])
  /\ UNCHANGED <<dom, files>>

\* Uuids are fresh as well.
UnusedUuids ==
  {u \in Uuids : /\ \A i \in Images : ~Valid(i, u)
                 /\ \A q \in Procs : job[q].vm # u}

Define(p) ==
  /\ pc[p] = "define"
  /\ \/ /\ UnusedUuids # {}
        /\ LET u == CHOOSE u \in UnusedUuids : TRUE
           IN  /\ DefineDomain(Img(p), u, job[p].port, job[p].key)
               /\ GotoWith(p, "create", [job[p] EXCEPT !.vm = u, !.key = None])
     \/ Exists(Img(p)) /\ Fail(p) /\ UNCHANGED dom
  /\ UNCHANGED files

\* qemu opens disk.raw when it starts.
Create(p) ==
  /\ pc[p] = "create"
  /\ \/ disk[Img(p)] /\ CreateDomain(Img(p), job[p].vm) /\ Goto(p, "waitVM")
     \/ ~(disk[Img(p)] /\ CanCreate(Img(p), job[p].vm)) /\ Fail(p) /\ UNCHANGED dom
  /\ UNCHANGED files

\* waitForVMToBeRunning polls for 60 s; it fails at once if the domain is
\* gone, at the end if it is not running.
WaitForVMToBeRunning(p) ==
  /\ pc[p] = "waitVM"
  /\ IF IsRunning(p) THEN Goto(p, "truncCfg") ELSE Fail(p)
  /\ UNCHANGED <<dom, files>>

\* WriteConfig: GetSize needs the disk; os.WriteFile truncates, then writes.
TruncateConfig(p) ==
  /\ pc[p] = "truncCfg"
  /\ \/ disk[Img(p)] /\ cfg' = [cfg EXCEPT ![Img(p)] = "torn"] /\ Goto(p, "writeCfg")
     \/ ~disk[Img(p)] /\ Fail(p) /\ UNCHANGED cfg
  /\ UNCHANGED <<dom, dir, disk, priv, pub>>

WriteConfig(p) ==
  /\ pc[p] = "writeCfg"
  /\ cfg' = [cfg EXCEPT ![Img(p)] = job[p].port]
  /\ Goto(p, IF job[p].cmd = "runBg" THEN "unlock" ELSE "readKey")
  /\ UNCHANGED <<dom, dir, disk, priv, pub>>

-----------------------------------------------------------------------------
(* ssh: the wait of run, then RunSSH of run and ssh. *)

ReadKey(p) ==
  /\ pc[p] = "readKey"
  /\ IF priv[Img(p)] = None THEN Fail(p)
     ELSE GotoWith(p, "waitSSH", [job[p] EXCEPT !.key = priv[Img(p)]])
  /\ UNCHANGED <<dom, files>>

\* The guest behind port n lets key k in.
Accepts(i, n, k) == Running(i) /\ dom[i].port = n /\ dom[i].key = k

\* WaitForSSHToBeReady: Dial until it succeeds, for one minute.
WaitForSSH(p) ==
  /\ pc[p] = "waitSSH"
  /\ \/ /\ \E i \in Images : Accepts(i, job[p].port, job[p].key)
        /\ GotoWith(p, "loadCfg", [job[p] EXCEPT !.key = None])
     \/ Fail(p)
  /\ UNCHANGED <<dom, files>>

\* Mutant: without the error of json.Unmarshal.
ConfigOpens(i) == cfg[i] # None

\* LoadConfigFile: the file is there and parses.
ConfigLoads(i) == cfg[i] \in Ports

\* RunSSH takes the port from the config file.
LoadConfig(p) ==
  /\ pc[p] = "loadCfg"
  /\ IF ConfigLoads(Img(p))
     THEN GotoWith(p, "connect", [job[p] EXCEPT !.port = cfg[Img(p)]])
     ELSE Fail(p)
  /\ UNCHANGED <<dom, files>>

\* run --rm deletes the VM after RunSSH, whatever ssh's exit code.
AfterSSH(p) ==
  IF job[p].cmd = "runRm"
  THEN GotoWith(p, "shutdown", [job[p] EXCEPT !.peer = None, !.port = None, !.ret = "unlock"])
  ELSE GotoWith(p, "unlock", [job[p] EXCEPT !.peer = None, !.port = None])

\* The ssh client reads the private key from the cache; WithExitCode makes
\* its failure an exit code of the command, not an error.
Connect(p) ==
  /\ pc[p] = "connect"
  /\ \/ \E i \in Images : /\ Accepts(i, job[p].port, priv[Img(p)])
                          /\ GotoWith(p, "session", [job[p] EXCEPT !.peer = i, !.port = None])
     \/ AfterSSH(p)
  /\ UNCHANGED <<dom, files>>

\* The user leaves, the remote command is done, or the VM went away.
EndSession(p) ==
  /\ pc[p] = "session"
  /\ AfterSSH(p)
  /\ UNCHANGED <<dom, files>>

\* GetConfig of list.
GetConfig(p) ==
  /\ pc[p] = "getCfg"
  /\ IF ConfigLoads(Img(p)) /\ ~HandleLost(p) THEN Goto(p, "unlock") ELSE Fail(p)
  /\ UNCHANGED <<dom, files>>

-----------------------------------------------------------------------------
(* The end of a command, failures, and the environment. *)

\* The deferred CloseConnection and Unlock of every command.
UnlockVM(p) ==
  /\ pc[p] = "unlock"
  /\ Unlock(p, Img(p))
  /\ NextTarget(p)
  /\ UNCHANGED <<dom, files>>

\* A call fails without an effect (a full file system, a daemon that does
\* not answer, a missing program, an image that does not install).
Fault(p) ==
  /\ pc[p] \in Faults
  /\ Fail(p)
  /\ UNCHANGED <<dom, files>>

\* The process dies; the kernel releases its lock.
Die(p) ==
  /\ pc[p] # "idle"
  /\ Unlock(p, Img(p))
  /\ pc' = [pc EXCEPT ![p] = "idle"]
  /\ job' = [job EXCEPT ![p] = NoJob]
  /\ UNCHANGED <<dom, files>>

GuestStep(i) == Guest(i) /\ UNCHANGED <<lock, pc, job, files>>

\* What a running command does by itself, without its user.
Step(p) ==
  \/ InstallLock(p) \/ Install(p) \/ FreePort(p)
  \/ Lookup(p) \/ LockVM(p) \/ CheckCacheDir(p) \/ LoadExistingDomain(p)
  \/ Shutdown(p) \/ Destroy(p) \/ DomainExists(p) \/ Undefine(p)
  \/ KillVM(p) \/ RemoveFile(p) \/ RemoveDir(p)
  \/ RemoveKey(p) \/ RemovePub(p) \/ KeyGen(p)
  \/ Run(p) \/ ParseDomainTemplate(p) \/ Define(p) \/ Create(p)
  \/ WaitForVMToBeRunning(p) \/ TruncateConfig(p) \/ WriteConfig(p)
  \/ ReadKey(p) \/ WaitForSSH(p) \/ LoadConfig(p) \/ Connect(p)
  \/ GetConfig(p) \/ UnlockVM(p)

Start(p) == StartRun(p) \/ StartOne(p) \/ StartAll(p)

Init ==
  /\ LockInit
  /\ LibvirtInit
  /\ pc = [p \in Procs |-> "idle"]
  /\ job = [p \in Procs |-> NoJob]
  /\ dir = [i \in Images |-> FALSE]
  /\ disk = [i \in Images |-> FALSE]
  /\ priv = [i \in Images |-> None]
  /\ pub = [i \in Images |-> None]
  /\ cfg = [i \in Images |-> None]

Next ==
  \/ \E p \in Procs : Start(p) \/ Step(p) \/ EndSession(p) \/ Fault(p) \/ Die(p)
  \/ \E i \in Images : GuestStep(i)

Spec == Init /\ [][Next]_vars

\* A command that was started keeps going: its own calls return, its polls
\* end.  Nothing obliges a user to start one or to leave a session.
FairSpec == Spec /\ \A p \in Procs : WF_vars(Step(p))

-----------------------------------------------------------------------------
(* Types. *)

Job == [cmd : AllCommands \cup {None}, img : Images \cup {None}, todo : SUBSET Images,
        ret : {"template", "unlock", "rmCache", None}, failed : BOOLEAN,
        vm : Uuids \cup {None}, port : Ports \cup {None}, key : Keys \cup {None},
        peer : Images \cup {None}]

ControlTypeOK ==
  /\ pc \in [Procs -> Pcs]
  /\ job \in [Procs -> Job]
  /\ \A p \in Procs : pc[p] # "idle" => job[p].cmd # None /\ job[p].img # None

FilesTypeOK ==
  /\ dir \in [Images -> BOOLEAN]
  /\ disk \in [Images -> BOOLEAN]
  /\ priv \in [Images -> Keys \cup {None}]
  /\ pub \in [Images -> Keys \cup {None}]
  /\ cfg \in [Images -> Ports \cup {None, "torn"}]

\* Every variable keeps its type; in particular no command goes to work with
\* a port read from a half-written config file, or without an image.
TypeOK == LockTypeOK /\ LibvirtTypeOK /\ ControlTypeOK /\ FilesTypeOK

-----------------------------------------------------------------------------
(* Safety. *)

\* The mode in which p holds its image's lock.
HeldMode(p) == CASE pc[p] = "install"     -> "exclusive"
                 [] pc[p] \in LockedPcs   -> CommandMode(job[p].cmd)
                 [] OTHER                 -> "none"

\* A process holds the lock of the image it works on while it works on it,
\* in its command's mode, and no other lock: no error path of Install, NewVM
\* or the commands leaves one behind or gives one up early.
LockDiscipline ==
  \A p \in Procs, i \in Images :
    lock[i][p] = IF i = Img(p) THEN HeldMode(p) ELSE "none"

\* Steps between the check of lockVM and the end of the command's work.
UsingPcs == LockedPcs \ {"check", "rmCache", "unlock"}

\* The cache directory a command works in exists from lockVM's second check
\* until the command is done: no rm removes it meanwhile, although run drops
\* its lock between Install and NewVM and every command looks the directory
\* up before it locks it (GetVMCachePath, lockVM).
UsedCacheExists == \A p \in Procs : pc[p] \in UsingPcs => dir[Img(p)]

\* A VM that runs has its disk: rm deletes disk.raw only after Delete has
\* taken the VM down, and no run boots it in between (killVM, forceKillVM).
ActiveHasDisk == \A i \in Images : Active(i) => disk[i]

\* Delete finds the domain by name but undefines it by handle: wherever it
\* does, it has a handle (a nil one would panic), although the name may have
\* been defined by another process after this one looked it up.
UndefineHasHandle == \A p \in Procs : pc[p] = "undefine" => job[p].vm # None

\* An ssh session is on the VM of the image it was asked for, even when the
\* port in the config file now belongs to another image's VM (RunSSH).
SessionOnOwnVM == \A p \in Procs : pc[p] = "session" => job[p].peer = Img(p)

\* p ends a command of kind c on Img(p) without an error.
Succeeded(p, c) == pc[p] = "unlock" /\ job[p].cmd = c /\ ~job[p].failed

\* When stop reports success the VM is gone from the hypervisor.
StopSucceeds == \A p \in Procs : Succeeded(p, "stop") => ~Exists(Img(p))

\* When rm reports success the VM, its cache directory and every file in it
\* are gone.
RmSucceeds ==
  \A p \in Procs, c \in RmCommands : Succeeded(p, c) =>
    /\ ~Exists(Img(p))
    /\ ~dir[Img(p)] /\ ~disk[Img(p)]
    /\ priv[Img(p)] = None /\ pub[Img(p)] = None /\ cfg[Img(p)] = None

\* Whatever earlier commands left behind when they failed or were killed
\* (a domain defined and not started, half of the keys, a torn config file,
\* part of a removed directory), stop and rm -f that get the lock succeed.
StopAndRmForceRecover ==
  \A p \in Procs : pc[p] = "unlock" /\ job[p].failed /\ job[p].cmd \in {"stop", "rmForce"}
    => ~dir[Img(p)]

\* When run --background reports success, what it leaves on disk leads to
\* its VM: the config file has the VM's port and the private key is the one
\* the VM accepts.
RunLeavesAWayIn ==
  \A p \in Procs : Succeeded(p, "runBg") /\ Exists(Img(p)) =>
    cfg[Img(p)] = dom[Img(p)].port /\ priv[Img(p)] = dom[Img(p)].key

-----------------------------------------------------------------------------
(* What the documentation says and the code does not do; see README.md. *)

\* docs/podman-bootc-ssh.1.md: ssh opens a connection to a running machine.
\* The key in the cache is the one the running VM of the image accepts.
SshKeyFitsVM ==
  \A p \in Procs : pc[p] = "connect" /\ Running(Img(p)) /\ dom[Img(p)].port = job[p].port
    => priv[Img(p)] = dom[Img(p)].key

-----------------------------------------------------------------------------
(* What a step may never do. *)

Destroys(p) == pc[p] = "destroy" /\ \E i \in Images : Active(i) /\ ~(Exists(i)' /\ Active(i)')

\* stop and rm, forced or not, never take a VM down under another process's
\* ssh session or while another process is still bringing it up.
ExclusiveCommandsSpareUsers ==
  [][\A p, q \in Procs :
       /\ Destroys(p) /\ pc'[p] # "destroy"
       /\ job[p].cmd \in RmCommands \cup {"stop"}
       /\ q # p /\ Img(q) = Img(p)
       => pc[q] \in FreePcs]_vars

\* rm without -f never destroys a running VM: killVM's answer stays good
\* until Shutdown asks again.
RmSparesRunningVM ==
  [][\A p \in Procs : job[p].cmd = "rm" => ~Destroys(p)]_vars

\* vm_linux.go: run deletes "stopped" VMs and refuses running ones, so what
\* it does before it defines its own VM never takes a running one down.
RunDeletesOnlyStoppedVMs ==
  [][\A p \in Procs : job[p].cmd \in RunCommands /\ job[p].ret = "template" => ~Destroys(p)]_vars

-----------------------------------------------------------------------------
(* Progress. *)

\* A command that was started returns, or is in an ssh session that its user
\* has not left: locks do not block, polls end, Delete and RemoveAll end.
CommandsReturn ==
  \A p \in Procs : pc[p] # "idle" ~> pc[p] \in {"idle", "session"}

-----------------------------------------------------------------------------
(* The abstract specification this one implements. *)

LifecycleState ==
  [i \in Images |-> IF Active(i) THEN "running" ELSE IF disk[i] THEN "installed" ELSE "absent"]

LifecycleUsers == [i \in Images |-> {p \in Procs : lock[i][p] # "none"}]

Lifecycle == INSTANCE ImageLifecycle WITH state <- LifecycleState, users <- LifecycleUsers

\* Every behaviour of the commands is one of ImageLifecycle.
ImplementsLifecycle == Lifecycle!Spec
=============================================================================
