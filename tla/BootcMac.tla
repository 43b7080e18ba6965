------------------------------ MODULE BootcMac ------------------------------
(***************************************************************************)
(* VMs on the Mac (pkg/vm/vm_darwin.go, monitor.go, krunkit.go,            *)
(* gvproxy.go).  A run starts a monitor (the hidden command vmmon) and     *)
(* goes on; the monitor starts gvproxy, waits for its socket, starts       *)
(* krunkit, which is the VM, writes krunkit's pid to run.pid, waits for it *)
(* to end and kills gvproxy.  stop and rm know of the VM only by run.pid.  *)
(*                                                                         *)
(* The commands hold the cache lock, the monitors hold nothing.            *)
(* Processes may end at any time, their pids may go to other processes.    *)
(***************************************************************************)
EXTENDS CacheLock

CONSTANTS Monitors,  \* vmmon processes: bounds how often a VM is started
          Pids,      \* process ids krunkit and gvproxy get
          Overlap,   \* bound: whether an image is run while it has a VM or a
                     \* monitor; nothing in the code keeps a user from it
          Faults     \* the calls that may fail, and the deaths

\* The calls of a command: Install and NewVM as a whole, starting vmmon, the
\* stat of FileExists, ReadPidFile, RemoveAll.  "exit": the command dies.
CommandFaults == {"install", "lock", "spawn", "stat", "read", "rmCache", "exit"}

\* The calls of a monitor: those of gvproxy.go's cleanup, which drops their
\* errors, starting gvproxy, waiting for its socket, starting krunkit, opening
\* run.pid and writing to it.  "death": the monitor dies.
MonitorFaults == {"cleanup", "gvproxy", "socket", "krunkit", "truncate", "write", "death"}

ASSUME OverlapAssumption == Overlap \in BOOLEAN
ASSUME FaultsAssumption == Faults \subseteq CommandFaults \cup MonitorFaults
VARIABLES pc, job,   \* the next step of each command, and its local state
          cache,     \* cache[i]: the cache directory of i exists, with its disk
          pidFile,   \* pidFile[i]: run.pid: None, "torn" (no number yet) or a pid
          mon,       \* the monitors
          proc,      \* proc[q]: the process with pid q; None before the first
          gvPid,     \* gvPid[i]: the pid in gvproxy.pid of i's run directory, or None
          sock       \* sock[i]: the monitor whose gvproxy made net.sock there, or None

cmdVars == <<lock, pc, job>>
hostVars == <<cache, pidFile, mon, proc, gvPid, sock>>
vars == <<lock, pc, job, cache, pidFile, mon, proc, gvPid, sock>>

NoJob == [cmd |-> None, img |-> None, seen |-> None, failed |-> FALSE]

\* For the properties only: late, that the monitor gave up on its gvproxy's
\* socket; foreign, that the socket it finds may be another's, because the old
\* one could not be removed or because another gvproxy has made one since.
NoMonitor == [img |-> None, step |-> "idle", late |-> FALSE, foreign |-> FALSE, pid |-> None]

Img(p) == job[p].img
MonImg(m) == mon[m].img

\* A process: what it was started as, by which monitor, and how far it is.
\* gvproxy is "named" when it has written its pid file and "up" when it has
\* made its socket, krunkit is "up" at once.  When it is "gone", the kernel may
\* give its pid to a "stranger", another program of the user.
Process == [role : {"krunkit", "gvproxy"}, by : Monitors,
            state : {"new", "named", "up", "gone", "stranger"}, interrupted : BOOLEAN]

ASSUME NoneAssumption ==
  /\ None \notin Procs \cup Images \cup Monitors \cup Pids \cup Process
  /\ None \notin {"run", "stop", "rm", "rmForce", "torn"}
ASSUME TornAssumption == "torn" \notin Pids

\* utils.IsProcessAlive.
Alive(q) == proc[q] # None /\ proc[q].state # "gone"

\* q is the krunkit, or gvproxy, of monitor m, and has not ended.
Of(q, m, role) == /\ Alive(q) /\ proc[q].state # "stranger"
                  /\ proc[q].by = m /\ proc[q].role = role

Runs(m, role) == \E q \in Pids : Of(q, m, role)

VMs(i) == {q \in Pids : \E m \in Monitors : MonImg(m) = i /\ Of(q, m, "krunkit")}

\* exec.Cmd.Start by monitor m, which gets a pid not used before.
StartProcess(m, role, q) ==
  /\ proc[q] = None /\ q = CHOOSE r \in Pids : proc[r] = None
  /\ proc' = [proc EXCEPT ![q] = [role |-> role, by |-> m, interrupted |-> FALSE,
                                  state |-> IF role = "gvproxy" THEN "new" ELSE "up"]]

Ended(process) == [process EXCEPT !.state = "gone", !.interrupted = FALSE]

\* exec.Cmd.Cancel: SIGKILL.
Kill(m, role) ==
  proc' = [q \in Pids |-> IF Of(q, m, role) THEN Ended(proc[q]) ELSE proc[q]]

\* utils.SendInterrupt and process.Signal(os.Interrupt): whoever has the pid.
Interrupt(q) ==
  proc' = IF Alive(q) THEN [proc EXCEPT ![q].interrupted = TRUE] ELSE proc

-----------------------------------------------------------------------------
(* Commands. *)

Goto(p, step) == pc' = [pc EXCEPT ![p] = step] /\ UNCHANGED <<lock, job>>

Fail(p) == /\ pc' = [pc EXCEPT ![p] = "unlock"]
           /\ job' = [job EXCEPT ![p].failed = TRUE]
           /\ UNCHANGED lock

Active(m) == mon[m].step \notin {"idle", "done", "dead"}

Occupied(i) == VMs(i) # {} \/ \E m \in Monitors : MonImg(m) = i /\ Active(m)

\* What the user calls: run, stop, rm, rm --force.
Command(p, cmd, i) ==
  /\ pc[p] = "idle"
  /\ cmd = "run" => Overlap \/ ~Occupied(i)
  /\ cmd # "run" => cache[i]
  /\ pc' = [pc EXCEPT ![p] = IF cmd = "run" THEN "install" ELSE "lock"]
  /\ job' = [job EXCEPT ![p] = [NoJob EXCEPT !.cmd = cmd, !.img = i]]
  /\ UNCHANGED <<lock, hostVars>>

GiveUp(p) == /\ pc' = [pc EXCEPT ![p] = "idle"]
             /\ job' = [job EXCEPT ![p] = NoJob]
             /\ UNCHANGED lock

\* BootcDisk.Install, which BootcDisk takes step by step: under the exclusive
\* lock the disk is there afterwards.  It may make the directory and fail then.
Install(p) ==
  /\ pc[p] = "install"
  /\ \/ /\ CanLock(p, Img(p), "exclusive")
        /\ cache' = [cache EXCEPT ![Img(p)] = TRUE]
        /\ Goto(p, "lock") \/ ("install" \in Faults /\ GiveUp(p))
     \/ /\ ~CanLock(p, Img(p), "exclusive") \/ "install" \in Faults
        /\ GiveUp(p) /\ UNCHANGED cache
  /\ UNCHANGED <<pidFile, mon, proc, gvPid, sock>>

FirstStep(p) ==
  CASE job[p].cmd = "run" -> "spawn"
    [] job[p].cmd = "rm"  -> "look"
    [] OTHER              -> "check"

Mode(p) == IF job[p].cmd = "run" THEN "shared" ELSE "exclusive"

\* NewVM: the lock, then the directory is looked for again.
NewVM(p) ==
  /\ pc[p] = "lock"
  /\ \/ /\ cache[Img(p)]
        /\ TryLock(p, Img(p), Mode(p))
        /\ pc' = [pc EXCEPT ![p] = FirstStep(p)]
        /\ UNCHANGED job
     \/ /\ ~CanLock(p, Img(p), Mode(p)) \/ ~cache[Img(p)] \/ "lock" \in Faults
        /\ GiveUp(p)
  /\ UNCHANGED hostVars

\* BootcVMMac.Run: it starts vmmon and returns.  Whether a VM runs already is
\* not asked.  Past the bound on Monitors no process can be started.
Run(p) ==
  /\ pc[p] = "spawn"
  /\ \/ /\ \E m \in Monitors :
             /\ mon[m].step = "idle" /\ m = CHOOSE n \in Monitors : mon[n].step = "idle"
             /\ mon' = [mon EXCEPT ![m] = [mon[m] EXCEPT !.img = Img(p), !.step = "interrupt"]]
        /\ Goto(p, "session")
     \/ /\ "spawn" \in Faults \/ \A m \in Monitors : mon[m].step # "idle"
        /\ Fail(p) /\ UNCHANGED mon
  /\ UNCHANGED <<cache, pidFile, proc, gvPid, sock>>

\* The ssh session of run, if any, is over (or did not begin); run --rm and
\* run with a command delete the VM, under the shared lock.
EndSession(p) ==
  /\ pc[p] = "session"
  /\ \E step \in {"unlock", "check"} : Goto(p, step)
  /\ UNCHANGED hostVars

\* utils.ReadPidFile cannot make a number of it.
Torn(i) == pidFile[i] = "torn"

\* IsRunning: without run.pid the VM is taken not to run; a run.pid that does
\* not parse is an error; else the pid decides.
Running(i) == pidFile[i] \in Pids /\ Alive(pidFile[i])

AfterDelete(p) == IF job[p].cmd \in {"rm", "rmForce"} THEN "rmCache" ELSE "unlock"

\* ReadPidFile fails.
Unreadable(i) == Torn(i) \/ ("read" \in Faults /\ pidFile[i] # None)

\* killVM of rm: it refuses a VM that runs.  IsRunning drops the error of
\* FileExists, and takes the VM not to run.
KillVM(p) ==
  /\ pc[p] = "look"
  /\ \/ ~Torn(Img(p)) /\ ~Running(Img(p)) /\ Goto(p, "check")
     \/ "stat" \in Faults /\ Goto(p, "check")
     \/ (Unreadable(Img(p)) \/ Running(Img(p))) /\ Fail(p)
  /\ UNCHANGED hostVars

\* Delete asks IsRunning for itself; seen is what it read, None if it did not.
Looked(p) ==
  /\ pc' = [pc EXCEPT ![p] = IF Running(Img(p)) THEN "signal" ELSE AfterDelete(p)]
  /\ job' = [job EXCEPT ![p].seen = pidFile[Img(p)]]
  /\ UNCHANGED lock

\* Mutant: a run.pid that does not parse names no VM.
DeleteTornIsNo(p) ==
  /\ pc[p] = "check"
  /\ Looked(p) \/ ("stat" \in Faults /\ Goto(p, AfterDelete(p)))
  /\ UNCHANGED hostVars

Delete(p) ==
  /\ pc[p] = "check"
  /\ \/ ~Torn(Img(p)) /\ Looked(p)
     \/ "stat" \in Faults /\ Goto(p, AfterDelete(p))
     \/ Unreadable(Img(p)) /\ Fail(p)
  /\ UNCHANGED hostVars

\* The rest of Delete: run.pid is read again, its process interrupted and not
\* waited for; a pid file that is gone or torn by now, or a process that
\* ended, is an error.
Signal(p) ==
  /\ pc[p] = "signal"
  /\ \/ /\ Running(Img(p))
        /\ Interrupt(pidFile[Img(p)])
        /\ pc' = [pc EXCEPT ![p] = AfterDelete(p)]
        /\ job' = [job EXCEPT ![p].seen = pidFile[Img(p)]]
        /\ UNCHANGED lock
     \/ (~Running(Img(p)) \/ Unreadable(Img(p))) /\ Fail(p) /\ UNCHANGED proc
  /\ UNCHANGED <<cache, pidFile, mon, gvPid, sock>>

\* DeleteFromCache, in one step (BootcDisk has it file by file).
DeleteFromCache(p) ==
  /\ pc[p] = "rmCache"
  /\ \/ /\ cache' = [cache EXCEPT ![Img(p)] = FALSE]
        /\ pidFile' = [pidFile EXCEPT ![Img(p)] = None]
        /\ Goto(p, "unlock")
     \/ /\ "rmCache" \in Faults
        /\ pidFile' \in {pidFile, [pidFile EXCEPT ![Img(p)] = None]}
        /\ Fail(p) /\ UNCHANGED cache
  /\ UNCHANGED <<mon, proc, gvPid, sock>>

Unlocked(p) == /\ Unlock(p, Img(p))
               /\ pc' = [pc EXCEPT ![p] = "idle"]
               /\ job' = [job EXCEPT ![p] = NoJob]
               /\ UNCHANGED hostVars

UnlockVM(p) == pc[p] = "unlock" /\ Unlocked(p)

\* The command dies; the kernel drops its lock.
Exit(p) == "exit" \in Faults /\ pc[p] # "idle" /\ Unlocked(p)

-----------------------------------------------------------------------------
(* Monitors: StartMonitor. *)

\* Steps between the removal of the old socket and the start of krunkit.
SocketSteps == {"gvproxy", "socket", "krunkit"}

\* Monitor m is at step now, and goes on to step next.
At(m, now, next) == mon[m].step = now /\ mon' = [mon EXCEPT ![m].step = next]

\* gvproxyDaemon.start: the gvproxy of gvproxy.pid is interrupted, its files
\* removed, and all errors dropped.
InterruptOld(m) ==
  /\ At(m, "interrupt", "rmPid")
  /\ \/ gvPid[MonImg(m)] # None /\ Interrupt(gvPid[MonImg(m)])
     \/ (gvPid[MonImg(m)] = None \/ "cleanup" \in Faults) /\ UNCHANGED proc
  /\ UNCHANGED <<cmdVars, cache, pidFile, gvPid, sock>>

RemoveGvPid(m) ==
  /\ At(m, "rmPid", "rmSock")
  /\ \/ gvPid' = [gvPid EXCEPT ![MonImg(m)] = None]
     \/ "cleanup" \in Faults /\ UNCHANGED gvPid
  /\ UNCHANGED <<cmdVars, cache, pidFile, proc, sock>>

\* Mutant: a socket file of before is left there.
RemoveSocketNot(m) ==
  /\ At(m, "rmSock", "gvproxy")
  /\ UNCHANGED <<cmdVars, cache, pidFile, proc, gvPid, sock>>

RemoveSocket(m) ==
  /\ \/ At(m, "rmSock", "gvproxy") /\ sock' = [sock EXCEPT ![MonImg(m)] = None]
     \/ /\ "cleanup" \in Faults /\ mon[m].step = "rmSock"
        /\ mon' = [mon EXCEPT ![m].step = "gvproxy", ![m].foreign = TRUE]
        /\ UNCHANGED sock
  /\ UNCHANGED <<cmdVars, cache, pidFile, proc, gvPid>>

StartGvproxy(m) ==
  /\ \/ At(m, "gvproxy", "socket") /\ \E q \in Pids : StartProcess(m, "gvproxy", q)
     \/ "gvproxy" \in Faults /\ At(m, "gvproxy", "done") /\ UNCHANGED proc
  /\ UNCHANGED <<cmdVars, cache, pidFile, gvPid, sock>>

\* WaitForFileWithBackoffs.  It runs out of tries when gvproxy ended before it
\* made a socket, or, as a fault, when gvproxy is slow or the socket cannot be
\* seen: then gvproxy is left running.
WaitForSocket(m) ==
  /\ \/ At(m, "socket", "krunkit") /\ sock[MonImg(m)] # None
     \/ /\ mon[m].step = "socket"
        /\ \/ sock[MonImg(m)] = None /\ ~Runs(m, "gvproxy")
           \/ "socket" \in Faults
        /\ mon' = [mon EXCEPT ![m].step = "done", ![m].late = TRUE]
  /\ UNCHANGED <<cmdVars, cache, pidFile, proc, gvPid, sock>>

\* Mutants: the pid is that of gvproxy; the monitor does not know the pid.
StartKrunkitGvproxyPid(m) ==
  /\ \/ /\ mon[m].step = "krunkit"
        /\ \E q, r \in Pids :
             /\ StartProcess(m, "krunkit", q)
             /\ Of(r, m, "gvproxy")
             /\ mon' = [mon EXCEPT ![m].step = "truncate", ![m].pid = r]
     \/ "krunkit" \in Faults /\ At(m, "krunkit", "stopGv") /\ UNCHANGED proc
  /\ UNCHANGED <<cmdVars, cache, pidFile, gvPid, sock>>

StartKrunkitNoPid(m) ==
  /\ \/ At(m, "krunkit", "truncate") /\ \E q \in Pids : StartProcess(m, "krunkit", q)
     \/ "krunkit" \in Faults /\ At(m, "krunkit", "stopGv") /\ UNCHANGED proc
  /\ UNCHANGED <<cmdVars, cache, pidFile, gvPid, sock>>

\* krunkit.start.  An error returns through the deferred stopGvpd.
StartKrunkit(m) ==
  /\ \/ /\ mon[m].step = "krunkit"
        /\ \E q \in Pids :
             /\ StartProcess(m, "krunkit", q)
             /\ mon' = [mon EXCEPT ![m].step = "truncate", ![m].pid = q, ![m].foreign = FALSE]
     \/ "krunkit" \in Faults /\ At(m, "krunkit", "stopGv") /\ UNCHANGED proc
  /\ UNCHANGED <<cmdVars, cache, pidFile, gvPid, sock>>

\* Mutant: without the Cancel.
TruncatePidFileNoCancel(m) ==
  /\ \/ /\ At(m, "truncate", "write")
        /\ cache[MonImg(m)]
        /\ pidFile' = [pidFile EXCEPT ![MonImg(m)] = "torn"]
     \/ /\ At(m, "truncate", "stopGv")
        /\ ~cache[MonImg(m)] \/ "truncate" \in Faults
        /\ UNCHANGED pidFile
  /\ UNCHANGED <<cmdVars, cache, proc, gvPid, sock>>

\* os.WriteFile of run.pid makes it empty first.  Without the directory, or
\* on an error, krunkit is killed.
TruncatePidFile(m) ==
  /\ \/ /\ At(m, "truncate", "write")
        /\ cache[MonImg(m)]
        /\ pidFile' = [pidFile EXCEPT ![MonImg(m)] = "torn"]
        /\ UNCHANGED proc
     \/ /\ At(m, "truncate", "stopGv")
        /\ ~cache[MonImg(m)] \/ "truncate" \in Faults
        /\ Kill(m, "krunkit")
        /\ UNCHANGED pidFile
  /\ UNCHANGED <<cmdVars, cache, gvPid, sock>>

\* The number is written to the file that was opened, if it is still there.  On
\* an error the file stays as it is, and krunkit is killed.
WritePidFile(m) ==
  /\ \/ /\ At(m, "write", "wait")
        /\ pidFile' = [pidFile EXCEPT ![MonImg(m)] = IF @ = None THEN None ELSE mon[m].pid]
        /\ UNCHANGED proc
     \/ /\ "write" \in Faults /\ At(m, "write", "stopGv")
        /\ Kill(m, "krunkit")
        /\ UNCHANGED pidFile
  /\ UNCHANGED <<cmdVars, cache, gvPid, sock>>

\* krkWait returns when krunkit ended.
WaitKrunkit(m) ==
  /\ At(m, "wait", "stopGv")
  /\ ~Runs(m, "krunkit")
  /\ UNCHANGED <<cmdVars, cache, pidFile, proc, gvPid, sock>>

\* Mutant: without the deferred stopGvpd.
StopGvproxyNot(m) ==
  /\ At(m, "stopGv", "done")
  /\ UNCHANGED <<cmdVars, cache, pidFile, proc, gvPid, sock>>

\* The deferred stopGvpd.
StopGvproxy(m) ==
  /\ At(m, "stopGv", "done")
  /\ Kill(m, "gvproxy")
  /\ UNCHANGED <<cmdVars, cache, pidFile, gvPid, sock>>

\* The monitor dies (Ctrl-C in the terminal it was started from reaches it
\* as well): the deferred call does not happen.
Die(m) ==
  /\ "death" \in Faults
  /\ Active(m)
  /\ mon' = [mon EXCEPT ![m].step = "dead"]
  /\ UNCHANGED <<cmdVars, cache, pidFile, proc, gvPid, sock>>

-----------------------------------------------------------------------------
(* Processes: gvproxy and krunkit (external), and strangers. *)

\* gvproxy writes its pid file, then makes its socket; it cannot where there
\* is one.
NamePid(q) ==
  /\ Alive(q) /\ proc[q].state = "new"
  /\ proc' = [proc EXCEPT ![q].state = "named"]
  /\ gvPid' = [gvPid EXCEPT ![MonImg(proc[q].by)] = q]
  /\ UNCHANGED <<cmdVars, cache, pidFile, mon, sock>>

Listen(q) ==
  /\ Alive(q) /\ proc[q].state = "named"
  /\ sock[MonImg(proc[q].by)] = None
  /\ proc' = [proc EXCEPT ![q].state = "up"]
  /\ sock' = [sock EXCEPT ![MonImg(proc[q].by)] = proc[q].by]
  /\ mon' = [m \in Monitors |->
               IF m # proc[q].by /\ MonImg(m) = MonImg(proc[q].by) /\ mon[m].step \in SocketSteps
               THEN [mon[m] EXCEPT !.foreign = TRUE] ELSE mon[m]]
  /\ UNCHANGED <<cmdVars, cache, pidFile, gvPid>>

\* A process ends, interrupted or not.
End(q) ==
  /\ Alive(q) /\ proc[q].state # "stranger"
  /\ proc' = [proc EXCEPT ![q] = Ended(@)]
  /\ UNCHANGED <<cmdVars, cache, pidFile, mon, gvPid, sock>>

\* gvproxy may take its files along: by their paths.
EndTidily(q) ==
  /\ Alive(q) /\ proc[q].role = "gvproxy" /\ proc[q].state = "up"
  /\ proc' = [proc EXCEPT ![q] = Ended(@)]
  /\ gvPid' = [gvPid EXCEPT ![MonImg(proc[q].by)] = None]
  /\ sock' = [sock EXCEPT ![MonImg(proc[q].by)] = None]
  /\ UNCHANGED <<cmdVars, cache, pidFile, mon>>

\* Another program gets the pid.  That counts where run.pid names it, and stop
\* would signal it (of gvproxy.pid, no property asks who is signalled).
Reassign(q) ==
  /\ proc[q] # None /\ proc[q].state = "gone"
  /\ \E i \in Images : pidFile[i] = q
  /\ proc' = [proc EXCEPT ![q].state = "stranger"]
  /\ UNCHANGED <<cmdVars, cache, pidFile, mon, gvPid, sock>>

-----------------------------------------------------------------------------
CommandStep(p) ==
  \/ Install(p) \/ NewVM(p) \/ Run(p) \/ EndSession(p) \/ KillVM(p) \/ Delete(p)
  \/ Signal(p) \/ DeleteFromCache(p) \/ UnlockVM(p)

MonitorStep(m) ==
  \/ InterruptOld(m) \/ RemoveGvPid(m) \/ RemoveSocket(m) \/ StartGvproxy(m)
  \/ WaitForSocket(m) \/ StartKrunkit(m) \/ TruncatePidFile(m) \/ WritePidFile(m)
  \/ WaitKrunkit(m) \/ StopGvproxy(m)

Init ==
  /\ LockInit
  /\ pc = [p \in Procs |-> "idle"]
  /\ job = [p \in Procs |-> NoJob]
  /\ cache \in [Images -> BOOLEAN]
  /\ pidFile = [i \in Images |-> None]
  /\ mon = [m \in Monitors |-> NoMonitor]
  /\ proc = [q \in Pids |-> None]
  /\ gvPid = [i \in Images |-> None]
  /\ sock = [i \in Images |-> None]

Next ==
  \/ \E p \in Procs : \/ \E i \in Images, cmd \in {"run", "stop", "rm", "rmForce"} : Command(p, cmd, i)
                      \/ CommandStep(p) \/ Exit(p)
  \/ \E m \in Monitors : MonitorStep(m) \/ Die(m)
  \/ \E q \in Pids : NamePid(q) \/ Listen(q) \/ End(q) \/ EndTidily(q) \/ Reassign(q)

Spec == Init /\ [][Next]_vars

EndInterrupted(m) == \E q \in Pids : Of(q, m, "krunkit") /\ proc[q].interrupted /\ End(q)

\* Monitors go on, and krunkit ends when interrupted.  Commands, gvproxy and
\* what happens by itself are owed nothing.
FairSpec ==
  /\ Spec
  /\ \A m \in Monitors : WF_vars(MonitorStep(m)) /\ WF_vars(EndInterrupted(m))

-----------------------------------------------------------------------------
(* Properties. *)

Job == [cmd : {"run", "stop", "rm", "rmForce", None}, img : Images \cup {None},
        seen : Pids \cup {None, "torn"}, failed : BOOLEAN]

CommandSteps == {"idle", "install", "lock", "spawn", "session", "look", "check",
                 "signal", "rmCache", "unlock"}

MonitorSteps == {"idle", "interrupt", "rmPid", "rmSock", "gvproxy", "socket", "krunkit",
                 "truncate", "write", "wait", "stopGv", "done", "dead"}

\* Every variable keeps its type; what a monitor writes to run.pid is a pid.
TypeOK ==
  /\ LockTypeOK
  /\ pc \in [Procs -> CommandSteps]
  /\ job \in [Procs -> Job]
  /\ cache \in [Images -> BOOLEAN]
  /\ pidFile \in [Images -> Pids \cup {None, "torn"}]
  /\ mon \in [Monitors -> [img : Images \cup {None}, step : MonitorSteps, late : BOOLEAN,
                           foreign : BOOLEAN, pid : Pids \cup {None}]]
  /\ proc \in [Pids -> Process \cup {None}]
  /\ gvPid \in [Images -> Pids \cup {None}]
  /\ sock \in [Images -> Monitors \cup {None}]
  /\ \A m \in Monitors : mon[m].step \in {"write", "wait"} => mon[m].pid \in Pids

\* A monitor that is through, in whatever way StartMonitor returned, leaves
\* no krunkit of its own, and no gvproxy unless it gave up on its socket.
MonitorLeavesNothing ==
  \A m \in Monitors : mon[m].step = "done" =>
    ~Runs(m, "krunkit") /\ (Runs(m, "gvproxy") => mon[m].late)

\* When stop, rm --force or run --rm succeeds, the VM that run.pid named when
\* Delete read it last has ended or was interrupted, and a run.pid that was
\* being written then was not taken for that of no VM.  A Delete whose stat of
\* run.pid failed has read nothing, and promises nothing.
DeleteReachesVM ==
  \A p \in Procs : pc[p] = "unlock" /\ ~job[p].failed /\ job[p].seen # None =>
    /\ job[p].seen \in Pids
    /\ \A m \in Monitors : Of(job[p].seen, m, "krunkit") => proc[job[p].seen].interrupted

\* Delete interrupts only krunkits of its image, and programs that got the pid
\* of one.
SignalsOwnVM ==
  [][\A p \in Procs, q \in Pids : Signal(p) /\ proc'[q] # proc[q] =>
       proc[q].role = "krunkit" /\ MonImg(proc[q].by) = Img(p)]_vars

\* A VM is started on the network of its own monitor, whose gvproxy forwards
\* the port that run chose, and not on a socket left by an earlier one, unless
\* that could not be removed.  Another gvproxy of the image, of a run at the
\* same time, may still come in between: cleanup in gvproxy.go cannot exclude it.
KrunkitUsesOwnGvproxy ==
  [][\A m \in Monitors : StartKrunkit(m) /\ mon'[m].step = "truncate" =>
       sock[MonImg(m)] \in {m, None} \/ mon[m].foreign]_vars

\* The VM of m was started, and has ended or was interrupted.
Ending(m) == /\ mon[m].step \in {"truncate", "write", "wait"}
             /\ \A q \in Pids : Of(q, m, "krunkit") => proc[q].interrupted

\* A VM that is stopped, or stops by itself, goes, and its monitor, unless
\* that dies before, takes gvproxy with it.
EndingVMsEnd ==
  \A m \in Monitors :
    Ending(m) ~> \/ mon[m].step = "dead"
                 \/ mon[m].step = "done" /\ ~Runs(m, "krunkit") /\ ~Runs(m, "gvproxy")

-----------------------------------------------------------------------------
(* What the repository says and the code does not do; see README.md. *)

\* docs/podman-bootc-rm.1.md, rm.go: rm without --force spares running VMs.
RmSparesRunningVM ==
  [][\A p \in Procs : DeleteFromCache(p) /\ job[p].cmd = "rm" => VMs(Img(p)) = {}]_vars
=============================================================================
