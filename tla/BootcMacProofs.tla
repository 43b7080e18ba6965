--------------------------- MODULE BootcMacProofs ---------------------------
(***************************************************************************)
(* Proofs about BootcMac, for every number of commands, images, monitors   *)
(* and processes, and every set of faults.                                 *)
(***************************************************************************)
EXTENDS BootcMac, CacheLockProofs, TLAPS

-----------------------------------------------------------------------------
(* The inductive invariant. *)

\* The local state of a command, of a monitor and of a process.
Control ==
  /\ \A p \in Procs :
       /\ pc[p] = "idle" => job[p] = NoJob
       /\ pc[p] # "idle" => job[p].cmd # None /\ Img(p) \in Images
       /\ pc[p] \in {"install", "spawn"} => job[p].cmd = "run"
       /\ job[p].seen # "torn"
       /\ pc[p] \in {"install", "lock", "spawn", "session", "look", "check"} => job[p].seen = None
  /\ \A m \in Monitors : IF mon[m].step = "idle" THEN MonImg(m) = None ELSE MonImg(m) \in Images

TypeInv == TypeOK /\ Control

\* Steps at which a monitor has started nothing yet, or no krunkit.
BeforeGvproxy == {"idle", "interrupt", "rmPid", "rmSock", "gvproxy"}
BeforeKrunkit == BeforeGvproxy \cup {"socket", "krunkit"}

\* A process was started by its monitor, krunkit after gvproxy.
Born ==
  \A q \in Pids : proc[q] # None =>
    mon[proc[q].by].step \notin IF proc[q].role = "krunkit" THEN BeforeKrunkit ELSE BeforeGvproxy

\* A monitor that is about to return has no krunkit.
Stopping ==
  \A m \in Monitors :
    /\ mon[m].step \in {"stopGv", "done"} => ~Runs(m, "krunkit")
    /\ mon[m].step = "done" /\ Runs(m, "gvproxy") => mon[m].late

\* q is the krunkit of an image, whose pid its monitor has written.
Named(q, i) ==
  /\ proc[q] # None /\ proc[q].role = "krunkit"
  /\ MonImg(proc[q].by) = i
  /\ mon[proc[q].by].step \notin BeforeKrunkit \cup {"truncate", "write"}

\* run.pid, and what Delete read there, is the pid of a krunkit of the image.
PidInv ==
  /\ \A m \in Monitors : mon[m].step \in {"truncate", "write", "wait"} =>
       /\ mon[m].pid \in Pids /\ proc[mon[m].pid] # None
       /\ proc[mon[m].pid].role = "krunkit" /\ proc[mon[m].pid].by = m
  /\ \A i \in Images : pidFile[i] \in Pids => Named(pidFile[i], i)
  /\ \A p \in Procs : job[p].seen \in Pids => Named(job[p].seen, Img(p))

\* A monitor finds the socket of its own gvproxy, or its foreign says so.
OwnSocket ==
  \A m \in Monitors : mon[m].step \in SocketSteps => sock[MonImg(m)] \in {m, None} \/ mon[m].foreign

\* The VM that Delete read of last is still to be interrupted, was, or is gone,
\* unless Delete failed.
Reached(p) ==
  job[p].seen \in Pids /\ Of(job[p].seen, proc[job[p].seen].by, "krunkit") =>
    pc[p] = "signal" \/ job[p].failed \/ proc[job[p].seen].interrupted

IInv == TypeInv /\ Born /\ Stopping /\ PidInv /\ OwnSocket /\ \A p \in Procs : Reached(p)


-----------------------------------------------------------------------------
(* How commands, monitors and processes go on. *)

USE DEF CommandSteps, MonitorSteps, SocketSteps, BeforeGvproxy, BeforeKrunkit

\* What a command does.
Acts(p) == \/ \E i \in Images, cmd \in {"run", "stop", "rm", "rmForce"} : Command(p, cmd, i)
           \/ CommandStep(p) \/ Exit(p)

\* What a monitor does.
Works(m) == MonitorStep(m) \/ Die(m)

\* What a process that a monitor started does.
Lives(q) == NamePid(q) \/ Listen(q) \/ End(q) \/ EndTidily(q) \/ Reassign(q)

LEMMA NextActs ==
  ASSUME Next
  PROVE  \/ \E p \in Procs : Acts(p)
         \/ \E m \in Monitors : Works(m)
         \/ \E q \in Pids : Lives(q)
BY DEF Next, Acts, Works, Lives

LEMMA NoJobType == NoJob \in Job /\ NoJob.seen = None /\ NoJob.cmd = None
BY NoneAssumption DEF NoJob, Job

\* The control and the types of the commands.
CommandsOK == /\ LockTypeOK
              /\ pc \in [Procs -> CommandSteps]
              /\ job \in [Procs -> Job]
              /\ \A p \in Procs :
                   /\ pc[p] = "idle" => job[p] = NoJob
                   /\ pc[p] # "idle" => job[p].cmd # None /\ Img(p) \in Images
                   /\ pc[p] \in {"install", "spawn"} => job[p].cmd = "run"
                   /\ job[p].seen # "torn"
                   /\ pc[p] \in {"install", "lock", "spawn", "session", "look", "check"} => job[p].seen = None

\* A step of p that leaves it at a step and in a local state that fit.
Fits(step, j) ==
  /\ step \in CommandSteps /\ j \in Job
  /\ step = "idle" => j = NoJob
  /\ step # "idle" => j.cmd # None /\ j.img \in Images
  /\ step \in {"install", "spawn"} => j.cmd = "run"
  /\ j.seen # "torn"
  /\ step \in {"install", "lock", "spawn", "session", "look", "check"} => j.seen = None

LEMMA CommandsStep ==
  ASSUME CommandsOK, NEW p \in Procs, LockTypeOK', NEW step, NEW j, Fits(step, j),
         pc' = [pc EXCEPT ![p] = step], job' = [job EXCEPT ![p] = j]
  PROVE  CommandsOK'
<1>1. pc' \in [Procs -> CommandSteps] /\ job' \in [Procs -> Job]
  BY DEF CommandsOK, Fits
<1>2. \A q \in Procs \ {p} : pc'[q] = pc[q] /\ job'[q] = job[q]
  BY DEF CommandsOK
<1>3. pc'[p] = step /\ job'[p] = j
  BY DEF CommandsOK
<1> QED BY <1>1, <1>2, <1>3 DEF CommandsOK, Fits, Img

LEMMA GotoStep ==
  ASSUME CommandsOK, NEW p \in Procs, NEW step, Fits(step, job[p]), Goto(p, step)
  PROVE  CommandsOK'
<1>1. job' = [job EXCEPT ![p] = job[p]] /\ pc' = [pc EXCEPT ![p] = step]
  BY DEF Goto, CommandsOK
<1>2. LockTypeOK'
  BY DEF Goto, CommandsOK, LockTypeOK
<1> QED BY <1>1, <1>2, CommandsStep

LEMMA FailStep ==
  ASSUME CommandsOK, NEW p \in Procs, pc[p] # "idle", Fail(p)
  PROVE  CommandsOK'
<1> DEFINE j == [job[p] EXCEPT !.failed = TRUE]
<1>1. Fits("unlock", j)
  BY DEF CommandsOK, Fits, Job, Img
<1>2. job' = [job EXCEPT ![p] = j] /\ pc' = [pc EXCEPT ![p] = "unlock"]
  BY DEF Fail, CommandsOK
<1>3. LockTypeOK'
  BY DEF Fail, CommandsOK, LockTypeOK
<1> HIDE DEF j
<1> QED BY <1>1, <1>2, <1>3, CommandsStep

LEMMA IdleStep ==
  ASSUME CommandsOK, NEW p \in Procs, LockTypeOK',
         pc' = [pc EXCEPT ![p] = "idle"], job' = [job EXCEPT ![p] = NoJob]
  PROVE  CommandsOK'
<1>1. Fits("idle", NoJob)
  BY NoJobType, NoneAssumption DEF Fits
<1> QED BY <1>1, CommandsStep

LEMMA CommandsType ==
  ASSUME CommandsOK, pidFile \in [Images -> Pids \cup {None, "torn"}], NEW p \in Procs, Acts(p)
  PROVE  CommandsOK'
<1>1. /\ pc \in [Procs -> CommandSteps] /\ job \in [Procs -> Job] /\ LockTypeOK
      /\ pc[p] # "idle" => job[p].cmd # None /\ Img(p) \in Images
      /\ Fits(pc[p], job[p]) /\ job[p] \in Job
  BY DEF CommandsOK, Fits, Img
<1>2. ASSUME NEW i \in Images, NEW cmd \in {"run", "stop", "rm", "rmForce"}, Command(p, cmd, i)
      PROVE  CommandsOK'
  <2> DEFINE j == [NoJob EXCEPT !.cmd = cmd, !.img = i]
             step == IF cmd = "run" THEN "install" ELSE "lock"
  <2>1. Fits(step, j)
    BY NoneAssumption DEF Fits, NoJob, Job
  <2>2. LockTypeOK' /\ pc' = [pc EXCEPT ![p] = step] /\ job' = [job EXCEPT ![p] = j]
    BY <1>1, <1>2 DEF Command, LockTypeOK
  <2> HIDE DEF j, step
  <2> QED BY <2>1, <2>2, CommandsStep
<1>3. CASE Install(p)
  <2>1. CASE Goto(p, "lock")
    BY <1>1, <1>3, <2>1, GotoStep DEF Install, Fits
  <2>2. CASE GiveUp(p)
    BY <1>1, <2>2, IdleStep DEF GiveUp, LockTypeOK
  <2> QED BY <1>3, <2>1, <2>2 DEF Install
<1>4. CASE NewVM(p)
  <2>1. CASE TryLock(p, Img(p), Mode(p)) /\ pc' = [pc EXCEPT ![p] = FirstStep(p)] /\ UNCHANGED job
    <3>1. Fits(FirstStep(p), job[p])
      BY <1>1, <1>4 DEF NewVM, FirstStep, Fits
    <3>2. LockTypeOK'
      BY <1>1, <1>4, <2>1, LockTypes DEF NewVM, Mode, Modes
    <3>3. job' = [job EXCEPT ![p] = job[p]]
      BY <1>1, <2>1
    <3> QED BY <2>1, <3>1, <3>2, <3>3, CommandsStep
  <2>2. CASE GiveUp(p)
    BY <1>1, <2>2, IdleStep DEF GiveUp, LockTypeOK
  <2> QED BY <1>4, <2>1, <2>2 DEF NewVM
<1>5. CASE Run(p)
  <2>1. CASE Goto(p, "session")
    BY <1>1, <1>5, <2>1, GotoStep DEF Run, Fits
  <2>2. CASE Fail(p)
    BY <1>5, <2>2, FailStep DEF Run
  <2> QED BY <1>5, <2>1, <2>2 DEF Run
<1>6. CASE EndSession(p)
  <2>1. job[p].seen = None
    BY <1>1, <1>6 DEF EndSession, Fits
  <2>2. \A step \in {"unlock", "check"} : Fits(step, job[p])
    BY <1>1, <1>6, <2>1 DEF EndSession, Fits
  <2> QED BY <1>6, <2>2, GotoStep DEF EndSession
<1>7. CASE KillVM(p)
  <2>1. Fits("check", job[p])
    BY <1>1, <1>7 DEF KillVM, Fits
  <2> QED BY <1>7, <2>1, FailStep, GotoStep DEF KillVM
<1>8. CASE Delete(p)
  <2>1. CASE Fail(p)
    BY <1>8, <2>1, FailStep DEF Delete
  <2>2. CASE Goto(p, AfterDelete(p))
    <3>1. Fits(AfterDelete(p), job[p])
      BY <1>1, <1>8 DEF Delete, AfterDelete, Fits
    <3> QED BY <2>2, <3>1, GotoStep
  <2>3. CASE ~Torn(Img(p)) /\ Looked(p)
    <3> DEFINE j == [job[p] EXCEPT !.seen = pidFile[Img(p)]]
               step == IF Running(Img(p)) THEN "signal" ELSE AfterDelete(p)
    <3>1. Fits(step, j)
      BY <1>1, <1>8, <2>3 DEF Delete, Torn, AfterDelete, Fits, Job, Img
    <3>2. pc' = [pc EXCEPT ![p] = step] /\ job' = [job EXCEPT ![p] = j] /\ LockTypeOK'
      BY <1>1, <2>3 DEF Looked, LockTypeOK
    <3> HIDE DEF j, step
    <3> QED BY <3>1, <3>2, CommandsStep
  <2> QED BY <1>8, <2>1, <2>2, <2>3 DEF Delete
<1>9. CASE Signal(p)
  <2>1. CASE Fail(p)
    BY <1>9, <2>1, FailStep DEF Signal
  <2>2. CASE ~Fail(p)
    <3> DEFINE j == [job[p] EXCEPT !.seen = pidFile[Img(p)]]
    <3>1. /\ Running(Img(p)) /\ pc' = [pc EXCEPT ![p] = AfterDelete(p)]
          /\ job' = [job EXCEPT ![p] = j] /\ LockTypeOK'
      BY <1>1, <1>9, <2>2 DEF Signal, LockTypeOK
    <3>2. pidFile[Img(p)] \in Pids
      BY <3>1 DEF Running
    <3>3. Fits(AfterDelete(p), j)
      BY <1>1, <1>9, <3>2, TornAssumption DEF Signal, AfterDelete, Fits, Job, Img
    <3> HIDE DEF j
    <3> QED BY <3>1, <3>3, CommandsStep
  <2> QED BY <2>1, <2>2
<1>10. CASE DeleteFromCache(p)
  <2>1. Fits("unlock", job[p])
    BY <1>1, <1>10 DEF DeleteFromCache, Fits
  <2> QED BY <1>10, <2>1, FailStep, GotoStep DEF DeleteFromCache
<1>11. CASE UnlockVM(p) \/ Exit(p)
  <2>1. Unlocked(p) /\ Img(p) \in Images
    BY <1>1, <1>11 DEF UnlockVM, Exit
  <2> QED BY <1>1, <2>1, LockTypes, IdleStep DEF Unlocked
<1> QED BY <1>2, <1>3, <1>4, <1>5, <1>6, <1>7, <1>8, <1>9, <1>10, <1>11 DEF Acts, CommandStep

\* Process q goes on, ends, or its pid goes to a stranger.
Goes(q) ==
  /\ proc'[q] # None /\ proc'[q].role = proc[q].role /\ proc'[q].by = proc[q].by
  /\ \/ proc'[q].state = proc[q].state
     \/ proc[q].state \in {"new", "named"} /\ proc'[q].state \in {"named", "up"}
     \/ proc'[q].state = "gone" /\ proc[q].state # "stranger"
     \/ proc[q].state = "gone" /\ proc'[q].state = "stranger"
  /\ proc[q].interrupted => proc'[q].interrupted \/ proc'[q].state \in {"gone", "stranger"}

\* Monitor m starts process q.
Starts(m, q) ==
  /\ proc'[q] # None /\ proc'[q].by = m /\ ~proc'[q].interrupted
  /\ \/ /\ mon[m].step = "gvproxy" /\ mon'[m].step = "socket"
        /\ proc'[q].role = "gvproxy" /\ proc'[q].state = "new"
     \/ /\ mon[m].step = "krunkit" /\ mon'[m].step = "truncate" /\ mon'[m].pid = q
        /\ proc'[q].role = "krunkit" /\ proc'[q].state = "up"

\* The run p starts monitor m.
Begins(m, p) ==
  /\ Run(p) /\ mon[m].step = "idle"
  /\ mon'[m].step = "interrupt" /\ mon'[m].img = Img(p) /\ mon'[m].late = mon[m].late
  /\ \A n \in Monitors \ {m} : mon'[n] = mon[n]

Monitor == [img : Images \cup {None}, step : MonitorSteps, late : BOOLEAN,
            foreign : BOOLEAN, pid : Pids \cup {None}]

Types == /\ cache \in [Images -> BOOLEAN]
         /\ pidFile \in [Images -> Pids \cup {None, "torn"}]
         /\ mon \in [Monitors -> Monitor]
         /\ proc \in [Pids -> Process \cup {None}]
         /\ gvPid \in [Images -> Pids \cup {None}]
         /\ sock \in [Images -> Monitors \cup {None}]

MonitorsOK ==
  \A m \in Monitors : IF mon[m].step = "idle" THEN MonImg(m) = None ELSE MonImg(m) \in Images

LEMMA TypeParts ==
  TypeInv <=> /\ CommandsOK /\ Types /\ MonitorsOK
              /\ \A m \in Monitors : mon[m].step \in {"write", "wait"} => mon[m].pid \in Pids
BY DEF TypeInv, TypeOK, Control, CommandsOK, Types, Monitor, MonitorsOK

LEMMA InterruptGoes ==
  ASSUME Types, NEW q \in Pids, Interrupt(q)
  PROVE  /\ proc' \in [Pids -> Process \cup {None}]
         /\ \A r \in Pids : IF proc[r] = None THEN proc'[r] = None ELSE Goes(r)
         /\ Alive(q) => proc'[q].interrupted
         /\ \A r \in Pids \ {q} : proc'[r] = proc[r]
<1>1. CASE ~Alive(q)
  BY <1>1 DEF Interrupt, Types, Goes, Process
<1>2. CASE Alive(q)
  <2>1. proc[q] \in Process
    BY <1>2 DEF Types, Alive
  <2>2. /\ proc' = [proc EXCEPT ![q] = [proc[q] EXCEPT !.interrupted = TRUE]]
        /\ [proc[q] EXCEPT !.interrupted = TRUE] \in Process
    BY <1>2, <2>1 DEF Interrupt, Types, Process
  <2>3. proc'[q] # None
    BY <2>2, NoneAssumption DEF Types
  <2>4. Goes(q) /\ proc'[q].interrupted
    BY <2>1, <2>2, <2>3 DEF Goes, Process, Types
  <2>5. \A r \in Pids \ {q} : proc'[r] = proc[r]
    BY <2>2 DEF Types
  <2> QED BY <2>1, <2>2, <2>4, <2>5, NoneAssumption DEF Types, Goes, Alive
<1> QED BY <1>1, <1>2

LEMMA KillGoes ==
  ASSUME Types, NEW m, NEW role, Kill(m, role)
  PROVE  /\ proc' \in [Pids -> Process \cup {None}]
         /\ \A r \in Pids : IF proc[r] = None THEN proc'[r] = None ELSE Goes(r)
         /\ ~Runs(m, role)'
<1>1. \A r \in Pids : proc[r] # None => /\ proc[r] \in Process
                                        /\ Ended(proc[r]) \in Process
  BY DEF Types, Process, Ended
<1>2. proc' \in [Pids -> Process \cup {None}]
  BY <1>1 DEF Kill, Types, Of, Alive
<1>3. ASSUME NEW r \in Pids
      PROVE  /\ IF proc[r] = None THEN proc'[r] = None ELSE Goes(r)
             /\ ~Of(r, m, role)'
  <2>1. proc'[r] = IF Of(r, m, role) THEN Ended(proc[r]) ELSE proc[r]
    BY DEF Kill
  <2>2. CASE Of(r, m, role)
    BY <1>1, <2>1, <2>2, NoneAssumption DEF Of, Alive, Goes, Process, Ended
  <2>3. CASE ~Of(r, m, role)
    BY <1>1, <2>1, <2>3 DEF Of, Alive, Goes, Process
  <2> QED BY <2>2, <2>3
<1> QED BY <1>2, <1>3 DEF Runs

LEMMA StartProcessType ==
  ASSUME Types, NEW m \in Monitors, NEW role \in {"gvproxy", "krunkit"}, NEW q \in Pids,
         StartProcess(m, role, q)
  PROVE  /\ proc' \in [Pids -> Process \cup {None}]
         /\ proc[q] = None
         /\ proc'[q] # None /\ proc'[q].by = m /\ ~proc'[q].interrupted /\ proc'[q].role = role
         /\ proc'[q].state = IF role = "gvproxy" THEN "new" ELSE "up"
         /\ \A r \in Pids \ {q} : proc'[r] = proc[r]
<1> DEFINE new == [role |-> role, by |-> m, interrupted |-> FALSE,
                   state |-> IF role = "gvproxy" THEN "new" ELSE "up"]
<1>1. new \in Process
  BY DEF Process
<1>2. new # None
  BY <1>1, NoneAssumption
<1>3. proc[q] = None /\ proc' = [proc EXCEPT ![q] = new]
  BY DEF StartProcess
<1> QED BY <1>1, <1>2, <1>3 DEF Types

LEMMA Unmoved ==
  ASSUME Types, UNCHANGED proc, NEW q \in Pids
  PROVE  IF proc[q] = None THEN proc'[q] = None ELSE Goes(q)
BY DEF Types, Goes, Process

\* Commands interrupt processes and start monitors.
LEMMA CommandMoves ==
  ASSUME TypeInv, NEW p \in Procs, Acts(p)
  PROVE  /\ Types' /\ MonitorsOK'
         /\ \A q \in Pids : IF proc[q] = None THEN proc'[q] = None ELSE Goes(q)
         /\ UNCHANGED mon \/ \E m \in Monitors : Begins(m, p)
         /\ UNCHANGED <<gvPid, sock>>
<1>1. Types /\ MonitorsOK /\ CommandsOK
  BY TypeParts
<1>2. pc[p] # "idle" => Img(p) \in Images
  BY <1>1 DEF CommandsOK
<1>3. CASE Signal(p)
  <2>1. CASE UNCHANGED proc
    BY <1>1, <1>3, <2>1, Unmoved DEF Signal, Types, MonitorsOK, MonImg
  <2>2. CASE Running(Img(p)) /\ Interrupt(pidFile[Img(p)])
    <3>1. pidFile[Img(p)] \in Pids
      BY <2>2 DEF Running
    <3> QED BY <1>1, <1>3, <2>2, <3>1, InterruptGoes DEF Signal, Types, MonitorsOK, MonImg
  <2> QED BY <1>3, <2>1, <2>2 DEF Signal
<1>4. CASE Run(p)
  <2>1. UNCHANGED <<cache, pidFile, proc, gvPid, sock>>
    BY <1>4 DEF Run
  <2>2. CASE UNCHANGED mon
    BY <1>1, <2>1, <2>2, Unmoved DEF Types, MonitorsOK, MonImg
  <2>3. CASE mon' # mon
    <3>1. PICK m \in Monitors :
            /\ mon[m].step = "idle"
            /\ mon' = [mon EXCEPT ![m] = [mon[m] EXCEPT !.img = Img(p), !.step = "interrupt"]]
      BY <1>4, <2>3 DEF Run
    <3>2. Img(p) \in Images
      BY <1>2, <1>4 DEF Run
    <3>3. Types' /\ MonitorsOK'
      BY <1>1, <2>1, <3>1, <3>2 DEF Types, Monitor, MonitorsOK, MonImg
    <3>4. /\ mon'[m].step = "interrupt" /\ mon'[m].img = Img(p) /\ mon'[m].late = mon[m].late
          /\ \A n \in Monitors \ {m} : mon'[n] = mon[n]
      BY <1>1, <3>1 DEF Types, Monitor
    <3>5. Begins(m, p)
      BY <1>4, <3>1, <3>4 DEF Begins
    <3> QED BY <1>1, <2>1, <3>3, <3>5, Unmoved
  <2> QED BY <2>2, <2>3
<1>5. CASE ~Signal(p) /\ ~Run(p)
  <2>1. UNCHANGED <<mon, proc, gvPid, sock>>
    BY <1>5 DEF Acts, CommandStep, Command, Install, NewVM, EndSession, KillVM, Delete, DeleteFromCache,
                UnlockVM, Exit, Unlocked, hostVars
  <2>2. cache' \in [Images -> BOOLEAN] /\ pidFile' \in [Images -> Pids \cup {None, "torn"}]
    BY <1>1, <1>2, <1>5 DEF Types, Acts, CommandStep, Command, Install, NewVM, EndSession, KillVM, Delete,
       DeleteFromCache, UnlockVM, Exit, Unlocked, hostVars
  <2> QED BY <1>1, <2>1, <2>2, Unmoved DEF Types, MonitorsOK, MonImg
<1> QED BY <1>3, <1>4, <1>5

\* Monitor m becomes new.
LEMMA Becomes ==
  ASSUME Types, NEW m \in Monitors, NEW new \in Monitor, mon' = [mon EXCEPT ![m] = new]
  PROVE  /\ mon' \in [Monitors -> Monitor] /\ mon'[m] = new
         /\ \A n \in Monitors \ {m} : mon'[n] = mon[n]
BY DEF Types

LEMMA AtStep ==
  ASSUME Types, NEW m \in Monitors, NEW now, NEW next \in MonitorSteps, At(m, now, next)
  PROVE  /\ mon' \in [Monitors -> Monitor]
         /\ mon[m].step = now /\ mon'[m].step = next
         /\ mon'[m].late = mon[m].late /\ mon'[m].pid = mon[m].pid
         /\ mon'[m].img = mon[m].img /\ mon'[m].foreign = mon[m].foreign
         /\ \A n \in Monitors \ {m} : mon'[n] = mon[n]
<1> DEFINE new == [mon[m] EXCEPT !.step = next]
<1>1. mon[m] \in Monitor /\ mon' = [mon EXCEPT ![m] = new] /\ mon[m].step = now
  BY DEF At, Types
<1>2. /\ new \in Monitor /\ new.step = next /\ new.late = mon[m].late /\ new.pid = mon[m].pid
      /\ new.img = mon[m].img /\ new.foreign = mon[m].foreign
  BY <1>1 DEF Monitor
<1> HIDE DEF new
<1> QED BY <1>1, <1>2, Becomes

\* RemoveSocket fails.
LEMMA SocketStays ==
  ASSUME Types, NEW m \in Monitors, mon' = [mon EXCEPT ![m].step = "gvproxy", ![m].foreign = TRUE]
  PROVE  /\ mon' \in [Monitors -> Monitor]
         /\ mon'[m].step = "gvproxy" /\ mon'[m].foreign /\ mon'[m].img = mon[m].img
         /\ \A n \in Monitors \ {m} : mon'[n] = mon[n]
<1> DEFINE new == [mon[m] EXCEPT !.step = "gvproxy", !.foreign = TRUE]
<1>1. mon[m] \in Monitor /\ mon' = [mon EXCEPT ![m] = new]
  BY DEF Types
<1>2. new \in Monitor /\ new.step = "gvproxy" /\ new.foreign /\ new.img = mon[m].img
  BY <1>1 DEF Monitor
<1> HIDE DEF new
<1> QED BY <1>1, <1>2, Becomes

\* WaitForSocket runs out of tries.
LEMMA SocketLate ==
  ASSUME Types, NEW m \in Monitors, mon' = [mon EXCEPT ![m].step = "done", ![m].late = TRUE]
  PROVE  /\ mon' \in [Monitors -> Monitor]
         /\ mon'[m].step = "done" /\ mon'[m].late /\ mon'[m].img = mon[m].img
         /\ \A n \in Monitors \ {m} : mon'[n] = mon[n]
<1> DEFINE new == [mon[m] EXCEPT !.step = "done", !.late = TRUE]
<1>1. mon[m] \in Monitor /\ mon' = [mon EXCEPT ![m] = new]
  BY DEF Types
<1>2. new \in Monitor /\ new.step = "done" /\ new.late /\ new.img = mon[m].img
  BY <1>1 DEF Monitor
<1> HIDE DEF new
<1> QED BY <1>1, <1>2, Becomes

\* StartKrunkit has started krunkit.
LEMMA KrunkitStarted ==
  ASSUME Types, NEW m \in Monitors, NEW q \in Pids,
         mon' = [mon EXCEPT ![m].step = "truncate", ![m].pid = q, ![m].foreign = FALSE]
  PROVE  /\ mon' \in [Monitors -> Monitor]
         /\ mon'[m].step = "truncate" /\ mon'[m].pid = q /\ mon'[m].img = mon[m].img
         /\ \A n \in Monitors \ {m} : mon'[n] = mon[n]
<1> DEFINE new == [mon[m] EXCEPT !.step = "truncate", !.pid = q, !.foreign = FALSE]
<1>1. mon[m] \in Monitor /\ mon' = [mon EXCEPT ![m] = new]
  BY DEF Types
<1>2. new \in Monitor /\ new.step = "truncate" /\ new.pid = q /\ new.img = mon[m].img
  BY <1>1 DEF Monitor
<1> HIDE DEF new
<1> QED BY <1>1, <1>2, Becomes

\* A step from one point of StartMonitor to another that starts and kills
\* nothing.
LEMMA AtMoves ==
  ASSUME Types, MonitorsOK, NEW m \in Monitors, NEW now \in MonitorSteps \ {"idle"},
         NEW next \in MonitorSteps \ {"idle"}, At(m, now, next), Works(m)
  PROVE  /\ mon' \in [Monitors -> Monitor]
         /\ MonitorsOK'
         /\ mon'[m].step = next /\ mon'[m].late = mon[m].late /\ mon'[m].pid = mon[m].pid
         /\ mon'[m].img = mon[m].img
         /\ \A n \in Monitors \ {m} : mon'[n] = mon[n]
BY AtStep DEF MonitorsOK, MonImg

\* What a step of the monitors does to the processes.
ProcessesMove(m) ==
  \A q \in Pids : IF proc[q] = None THEN proc'[q] = None \/ Starts(m, q) ELSE Goes(q)

LEMMA MonitorMoves ==
  ASSUME TypeInv, PidInv, NEW m \in Monitors, Works(m)
  PROVE  /\ Types' /\ MonitorsOK'
         /\ ProcessesMove(m)
         /\ \A n \in Monitors \ {m} : mon'[n] = mon[n]
         /\ mon'[m].step \in {"write", "wait"} => mon'[m].pid \in Pids
         /\ mon'[m].img = mon[m].img /\ mon[m].step # "idle" /\ mon'[m].step # "idle"
         /\ UNCHANGED cmdVars
<1>1. Types /\ MonitorsOK
  BY TypeParts
<1>2. \A n \in Monitors : mon[n].step # "idle" => MonImg(n) \in Images
  BY <1>1 DEF MonitorsOK
<1>3. UNCHANGED proc => ProcessesMove(m)
  BY <1>1, Unmoved DEF ProcessesMove
<1>4. UNCHANGED cmdVars /\ mon[m].step # "idle"
  BY DEF Works, MonitorStep, Die, Active, InterruptOld, RemoveGvPid, RemoveSocket, StartGvproxy, WaitForSocket,
         StartKrunkit, TruncatePidFile, WritePidFile, WaitKrunkit, StopGvproxy, At
<1>5. CASE InterruptOld(m)
  <2>1. At(m, "interrupt", "rmPid")
    BY <1>5 DEF InterruptOld
  <2>2. proc' \in [Pids -> Process \cup {None}] /\ ProcessesMove(m)
    <3>1. CASE UNCHANGED proc
      BY <1>1, <1>3, <3>1 DEF Types
    <3>2. CASE gvPid[MonImg(m)] # None /\ Interrupt(gvPid[MonImg(m)])
      <4>1. gvPid[MonImg(m)] \in Pids
        BY <1>1, <1>2, <1>4, <3>2 DEF Types
      <4> QED BY <1>1, <3>2, <4>1, InterruptGoes DEF ProcessesMove
    <3> QED BY <1>5, <3>1, <3>2 DEF InterruptOld
  <2> QED BY <1>1, <1>4, <1>5, <2>1, <2>2, AtMoves DEF InterruptOld, Types
<1>6. CASE RemoveGvPid(m)
  <2>1. At(m, "rmPid", "rmSock")
    BY <1>6 DEF RemoveGvPid
  <2>2. gvPid' \in [Images -> Pids \cup {None}]
    BY <1>1, <1>6 DEF RemoveGvPid, Types
  <2> QED BY <1>1, <1>3, <1>4, <1>6, <2>1, <2>2, AtMoves DEF RemoveGvPid, Types
<1>7. CASE RemoveSocket(m)
  <2>1. sock' \in [Images -> Monitors \cup {None}] /\ UNCHANGED <<cache, pidFile, proc, gvPid>>
    BY <1>1, <1>7 DEF RemoveSocket, Types
  <2>2. CASE At(m, "rmSock", "gvproxy")
    BY <1>1, <1>3, <1>4, <2>1, <2>2, AtMoves DEF Types
  <2>3. CASE mon[m].step = "rmSock" /\ mon' = [mon EXCEPT ![m].step = "gvproxy", ![m].foreign = TRUE]
    <3>1. /\ mon' \in [Monitors -> Monitor]
          /\ \A n \in Monitors \ {m} : mon'[n] = mon[n]
          /\ mon'[m].img = mon[m].img /\ mon'[m].step = "gvproxy"
      BY <1>1, <2>3, SocketStays
    <3>3. MonitorsOK'
      BY <1>1, <2>3, <3>1 DEF MonitorsOK, MonImg
    <3> QED BY <1>1, <1>3, <1>4, <2>1, <3>1, <3>3 DEF Types
  <2> QED BY <1>7, <2>2, <2>3 DEF RemoveSocket
<1>8. CASE StartGvproxy(m)
  <2>1. CASE At(m, "gvproxy", "done") /\ UNCHANGED proc
    <3>1. UNCHANGED <<cache, pidFile, gvPid, sock>>
      BY <1>8 DEF StartGvproxy
    <3> QED BY <1>1, <1>3, <1>4, <2>1, <3>1, AtMoves DEF Types
  <2>2. CASE At(m, "gvproxy", "socket") /\ \E q \in Pids : StartProcess(m, "gvproxy", q)
    <3>1. PICK q \in Pids : StartProcess(m, "gvproxy", q)
      BY <2>2
    <3>2. mon[m].step = "gvproxy" /\ mon'[m].step = "socket"
      BY <1>1, <2>2, AtMoves DEF At
    <3>3. ProcessesMove(m)
      BY <1>1, <3>1, <3>2, StartProcessType DEF ProcessesMove, Starts, Goes, Types, Process
    <3> QED BY <1>1, <1>4, <1>8, <2>2, <3>1, <3>3, AtMoves, StartProcessType DEF StartGvproxy, Types
  <2> QED BY <1>8, <2>1, <2>2 DEF StartGvproxy
<1>9. CASE WaitForSocket(m)
  <2>1. CASE At(m, "socket", "krunkit")
    <3>1. UNCHANGED <<cache, pidFile, proc, gvPid, sock>>
      BY <1>9 DEF WaitForSocket
    <3>2. /\ mon' \in [Monitors -> Monitor]
          /\ MonitorsOK' /\ mon'[m].step = "krunkit" /\ mon'[m].img = mon[m].img
          /\ \A n \in Monitors \ {m} : mon'[n] = mon[n]
      BY <1>1, <2>1, AtMoves
    <3> QED BY <1>1, <1>3, <1>4, <3>1, <3>2 DEF Types
  <2>2. CASE mon[m].step = "socket" /\ mon' = [mon EXCEPT ![m].step = "done", ![m].late = TRUE]
    <3>1. /\ mon' \in [Monitors -> Monitor]
          /\ \A n \in Monitors \ {m} : mon'[n] = mon[n]
          /\ mon'[m].img = mon[m].img /\ mon'[m].step = "done"
      BY <1>1, <2>2, SocketLate
    <3>3. MonitorsOK'
      BY <1>1, <2>2, <3>1 DEF MonitorsOK, MonImg
    <3>4. UNCHANGED <<cache, pidFile, proc, gvPid, sock>>
      BY <1>9 DEF WaitForSocket
    <3> QED BY <1>1, <1>3, <1>4, <3>1, <3>3, <3>4 DEF Types
  <2> QED BY <1>9, <2>1, <2>2 DEF WaitForSocket
<1>10. CASE StartKrunkit(m)
  <2>1. CASE At(m, "krunkit", "stopGv") /\ UNCHANGED proc
    <3>1. UNCHANGED <<cache, pidFile, gvPid, sock>>
      BY <1>10 DEF StartKrunkit
    <3> QED BY <1>1, <1>3, <1>4, <2>1, <3>1, AtMoves DEF Types
  <2>2. CASE \E q \in Pids : /\ mon[m].step = "krunkit"
                             /\ StartProcess(m, "krunkit", q)
                             /\ mon' = [mon EXCEPT ![m].step = "truncate", ![m].pid = q, ![m].foreign = FALSE]
    <3>1. PICK q \in Pids : /\ mon[m].step = "krunkit"
                            /\ StartProcess(m, "krunkit", q)
                            /\ mon' = [mon EXCEPT ![m].step = "truncate", ![m].pid = q, ![m].foreign = FALSE]
      BY <2>2
    <3>2. /\ mon' \in [Monitors -> Monitor]
          /\ \A n \in Monitors \ {m} : mon'[n] = mon[n]
          /\ mon'[m].img = mon[m].img /\ mon'[m].step = "truncate" /\ mon'[m].pid = q
      BY <1>1, <3>1, KrunkitStarted
    <3>4. MonitorsOK'
      BY <1>1, <3>1, <3>2 DEF MonitorsOK, MonImg
    <3>5. ProcessesMove(m)
      BY <1>1, <3>1, <3>2, StartProcessType DEF ProcessesMove, Starts, Goes, Types, Process
    <3>6. Types'
      BY <1>1, <1>10, <3>1, <3>2, StartProcessType DEF StartKrunkit, Types
    <3> QED BY <1>4, <3>2, <3>4, <3>5, <3>6
  <2> QED BY <1>10, <2>1, <2>2 DEF StartKrunkit
<1>11. CASE TruncatePidFile(m)
  <2>1. CASE At(m, "truncate", "write") /\ pidFile' = [pidFile EXCEPT ![MonImg(m)] = "torn"] /\ UNCHANGED proc
    <3>1. mon[m].pid \in Pids
      BY <2>1 DEF At, PidInv
    <3>2. UNCHANGED <<cache, gvPid, sock>> /\ pidFile' \in [Images -> Pids \cup {None, "torn"}]
      BY <1>1, <1>11, <2>1 DEF TruncatePidFile, Types
    <3> QED BY <1>1, <1>3, <1>4, <2>1, <3>1, <3>2, AtMoves DEF Types
  <2>2. CASE At(m, "truncate", "stopGv") /\ Kill(m, "krunkit") /\ UNCHANGED pidFile
    BY <1>1, <1>4, <1>11, <2>2, AtMoves, KillGoes DEF TruncatePidFile, Types, ProcessesMove
  <2> QED BY <1>11, <2>1, <2>2 DEF TruncatePidFile
<1>12. CASE WritePidFile(m)
  <2>1. CASE /\ At(m, "write", "wait") /\ UNCHANGED proc
             /\ pidFile' = [pidFile EXCEPT ![MonImg(m)] = IF @ = None THEN None ELSE mon[m].pid]
    <3>1. mon[m].pid \in Pids
      BY <2>1 DEF At, TypeInv, TypeOK
    <3>2. UNCHANGED <<cache, gvPid, sock>> /\ pidFile' \in [Images -> Pids \cup {None, "torn"}]
      BY <1>1, <1>12, <2>1, <3>1 DEF WritePidFile, Types
    <3> QED BY <1>1, <1>3, <1>4, <2>1, <3>1, <3>2, AtMoves DEF Types
  <2>2. CASE At(m, "write", "stopGv") /\ Kill(m, "krunkit") /\ UNCHANGED pidFile
    BY <1>1, <1>4, <1>12, <2>2, AtMoves, KillGoes DEF WritePidFile, Types, ProcessesMove
  <2> QED BY <1>12, <2>1, <2>2 DEF WritePidFile
<1>13. CASE WaitKrunkit(m)
  BY <1>1, <1>3, <1>4, <1>13, AtMoves DEF WaitKrunkit, Types
<1>14. CASE StopGvproxy(m)
  BY <1>1, <1>4, <1>14, AtMoves, KillGoes DEF StopGvproxy, Types, ProcessesMove
<1>15. CASE Die(m)
  <2>1. At(m, mon[m].step, "dead") /\ mon[m].step \in MonitorSteps \ {"idle"}
    BY <1>1, <1>4, <1>15 DEF Die, At, Types, Monitor
  <2> QED BY <1>1, <1>3, <1>4, <1>15, <2>1, AtMoves DEF Die, Types
<1> QED BY <1>5, <1>6, <1>7, <1>8, <1>9, <1>10, <1>11, <1>12, <1>13, <1>14, <1>15 DEF Works, MonitorStep

\* A step of a process may tell a monitor of a foreign socket, no more.
Kept(m) == /\ mon'[m].img = mon[m].img /\ mon'[m].step = mon[m].step
           /\ mon'[m].late = mon[m].late /\ mon'[m].pid = mon[m].pid
           /\ mon[m].foreign => mon'[m].foreign

LEMMA ProcessMoves ==
  ASSUME TypeInv, Born, NEW q \in Pids, Lives(q)
  PROVE  /\ Types'
         /\ proc[q] # None /\ Goes(q) /\ \A r \in Pids \ {q} : proc'[r] = proc[r]
         /\ \A m \in Monitors : Kept(m)
         /\ UNCHANGED <<cmdVars, cache, pidFile>>
<1>1. Types /\ MonitorsOK
  BY TypeParts
<1>2. proc[q] # None
  BY DEF Lives, NamePid, Listen, End, EndTidily, Reassign, Alive
<1>3. proc[q] \in Process
  BY <1>1, <1>2 DEF Types
<1>4. proc[q].by \in Monitors /\ MonImg(proc[q].by) \in Images
  <2>1. proc[q].by \in Monitors /\ mon[proc[q].by].step # "idle"
    BY <1>2, <1>3 DEF Process, Born
  <2> QED BY <1>1, <2>1 DEF MonitorsOK
<1>5. PICK n \in Process : /\ proc' = [proc EXCEPT ![q] = n]
                           /\ n.role = proc[q].role /\ n.by = proc[q].by
                           /\ \/ proc[q].state \in {"new", "named"} /\ n.state \in {"named", "up"}
                              \/ n.state = "gone" /\ proc[q].state # "stranger"
                              \/ proc[q].state = "gone" /\ n.state = "stranger"
                           /\ proc[q].interrupted => n.interrupted \/ n.state \in {"gone", "stranger"}
  <2>1. CASE NamePid(q)
    <3>1. proc' = [proc EXCEPT ![q] = [proc[q] EXCEPT !.state = "named"]] /\ proc[q].state = "new"
      BY <1>1, <2>1 DEF NamePid, Types
    <3>2. [proc[q] EXCEPT !.state = "named"] \in Process
      BY <1>3 DEF Process
    <3> QED BY <1>3, <3>1, <3>2 DEF Process
  <2>2. CASE Listen(q)
    <3>1. proc' = [proc EXCEPT ![q] = [proc[q] EXCEPT !.state = "up"]] /\ proc[q].state = "named"
      BY <1>1, <2>2 DEF Listen, Types
    <3>2. [proc[q] EXCEPT !.state = "up"] \in Process
      BY <1>3 DEF Process
    <3> QED BY <1>3, <3>1, <3>2 DEF Process
  <2>3. CASE End(q) \/ EndTidily(q)
    <3>1. proc' = [proc EXCEPT ![q] = Ended(proc[q])] /\ proc[q].state # "stranger"
      BY <1>1, <2>3 DEF End, EndTidily, Types
    <3>2. Ended(proc[q]) \in Process
      BY <1>3 DEF Process, Ended
    <3> QED BY <1>3, <3>1, <3>2 DEF Process, Ended
  <2>4. CASE Reassign(q)
    <3>1. /\ proc' = [proc EXCEPT ![q] = [proc[q] EXCEPT !.state = "stranger"]]
          /\ proc[q].state = "gone"
      BY <1>1, <2>4 DEF Reassign, Types
    <3>2. [proc[q] EXCEPT !.state = "stranger"] \in Process
      BY <1>3 DEF Process
    <3> QED BY <1>3, <3>1, <3>2 DEF Process
  <2> QED BY <2>1, <2>2, <2>3, <2>4 DEF Lives
<1>6. /\ proc' \in [Pids -> Process \cup {None}] /\ proc'[q] = n
      /\ \A r \in Pids \ {q} : proc'[r] = proc[r]
  BY <1>1, <1>5 DEF Types
<1>7. Goes(q)
  BY <1>5, <1>6, NoneAssumption DEF Goes
<1>8. gvPid' \in [Images -> Pids \cup {None}] /\ sock' \in [Images -> Monitors \cup {None}]
  BY <1>1, <1>4 DEF Lives, NamePid, Listen, End, EndTidily, Reassign, Types
<1>9. UNCHANGED <<cmdVars, cache, pidFile>>
  BY DEF Lives, NamePid, Listen, End, EndTidily, Reassign
<1>10. mon' \in [Monitors -> Monitor] /\ \A m \in Monitors : Kept(m)
  <2>1. CASE UNCHANGED mon
    BY <1>1, <2>1 DEF Types, Kept
  <2>2. CASE Listen(q)
    <3>1. \A m \in Monitors :
            mon[m] \in Monitor /\ (mon'[m] = mon[m] \/ mon'[m] = [mon[m] EXCEPT !.foreign = TRUE])
      BY <1>1, <2>2 DEF Listen, Types
    <3>2. ASSUME NEW m \in Monitors PROVE mon'[m] \in Monitor /\ Kept(m)
      <4>1. CASE mon'[m] = mon[m]
        BY <3>1, <4>1 DEF Kept
      <4>2. CASE mon'[m] = [mon[m] EXCEPT !.foreign = TRUE]
        <5> DEFINE new == [mon[m] EXCEPT !.foreign = TRUE]
        <5>1. /\ new \in Monitor /\ new.img = mon[m].img /\ new.step = mon[m].step
              /\ new.late = mon[m].late /\ new.pid = mon[m].pid /\ new.foreign = TRUE
          BY <3>1 DEF Monitor
        <5> HIDE DEF new
        <5> QED BY <4>2, <5>1 DEF Kept, new
      <4> QED BY <3>1, <4>1, <4>2
    <3> QED BY <2>2, <3>2 DEF Listen
  <2> QED BY <2>1, <2>2 DEF Lives, NamePid, End, EndTidily, Reassign
<1> QED BY <1>1, <1>2, <1>6, <1>7, <1>8, <1>9, <1>10 DEF Types

-----------------------------------------------------------------------------
(* The inductive invariant is one. *)

LEMMA TypeStep ==
  ASSUME TypeInv, Born, PidInv, [Next]_vars
  PROVE  TypeInv'
<1>1. /\ CommandsOK /\ Types /\ MonitorsOK
      /\ \A m \in Monitors : mon[m].step \in {"write", "wait"} => mon[m].pid \in Pids
  BY TypeParts
<1>2. UNCHANGED cmdVars => CommandsOK'
  BY <1>1 DEF CommandsOK, cmdVars, LockTypeOK, Img
<1>3. ASSUME NEW p \in Procs, Acts(p) PROVE TypeInv'
  <2>1. CommandsOK' /\ Types' /\ MonitorsOK' /\ (UNCHANGED mon \/ \E m \in Monitors : Begins(m, p))
    BY <1>1, <1>3, CommandsType, CommandMoves DEF Types
  <2>2. \A m \in Monitors : mon'[m].step \in {"write", "wait"} => mon'[m] = mon[m]
    BY <2>1 DEF Begins
  <2> QED BY <1>1, <2>1, <2>2 DEF TypeInv, TypeOK, Control, CommandsOK, Types, Monitor, MonitorsOK
<1>4. ASSUME NEW m \in Monitors, Works(m) PROVE TypeInv'
  <2>1. Types' /\ MonitorsOK' /\ CommandsOK'
    BY <1>2, <1>4, MonitorMoves
  <2>2. \A n \in Monitors : mon'[n].step \in {"write", "wait"} => mon'[n].pid \in Pids
    BY <1>1, <1>4, MonitorMoves
  <2> QED BY <2>1, <2>2 DEF TypeInv, TypeOK, Control, CommandsOK, Types, Monitor, MonitorsOK
<1>5. ASSUME NEW q \in Pids, Lives(q) PROVE TypeInv'
  <2>1. Types' /\ CommandsOK' /\ \A m \in Monitors : Kept(m)
    BY <1>2, <1>5, ProcessMoves
  <2>2. MonitorsOK'
    BY <1>1, <2>1 DEF MonitorsOK, MonImg, Kept
  <2>3. \A m \in Monitors : mon'[m].step \in {"write", "wait"} => mon'[m].pid \in Pids
    BY <1>1, <2>1 DEF Kept
  <2> QED BY <2>1, <2>2, <2>3 DEF TypeInv, TypeOK, Control, CommandsOK, Types, Monitor, MonitorsOK
<1>6. CASE UNCHANGED vars
  BY <1>6 DEF vars, TypeInv, TypeOK, Control, LockTypeOK, Img, MonImg
<1> QED BY <1>3, <1>4, <1>5, <1>6, NextActs

\* How far a monitor is does not go back.
Onward(m) ==
  \A steps \in {BeforeGvproxy, BeforeKrunkit, BeforeKrunkit \cup {"truncate", "write"}} :
    mon'[m].step \in steps => mon[m].step \in steps

LEMMA WorksOnward ==
  ASSUME Types, NEW m \in Monitors, Works(m)
  PROVE  /\ Onward(m)
         /\ mon'[m].step \in {"truncate", "write", "wait"} =>
              \/ mon[m].step \in {"truncate", "write", "wait"} /\ mon'[m].pid = mon[m].pid
              \/ mon[m].step = "krunkit"
<1>1. \/ mon[m].step = "interrupt" /\ mon'[m].step = "rmPid"
      \/ mon[m].step = "rmPid" /\ mon'[m].step = "rmSock"
      \/ mon[m].step = "rmSock" /\ mon'[m].step = "gvproxy"
      \/ mon[m].step = "gvproxy" /\ mon'[m].step \in {"socket", "done"}
      \/ mon[m].step = "socket" /\ mon'[m].step \in {"krunkit", "done"}
      \/ mon[m].step = "krunkit" /\ mon'[m].step \in {"truncate", "stopGv"}
      \/ mon[m].step = "truncate" /\ mon'[m].step \in {"write", "stopGv"} /\ mon'[m].pid = mon[m].pid
      \/ mon[m].step = "write" /\ mon'[m].step \in {"wait", "stopGv"} /\ mon'[m].pid = mon[m].pid
      \/ mon[m].step = "wait" /\ mon'[m].step = "stopGv"
      \/ mon[m].step = "stopGv" /\ mon'[m].step = "done"
      \/ mon[m].step # "idle" /\ mon'[m].step = "dead"
  <2>1. CASE InterruptOld(m) \/ RemoveGvPid(m) \/ WaitKrunkit(m) \/ StopGvproxy(m)
    BY <2>1, AtStep DEF InterruptOld, RemoveGvPid, WaitKrunkit, StopGvproxy
  <2>2. CASE RemoveSocket(m)
    BY <2>2, AtStep, SocketStays DEF RemoveSocket
  <2>3. CASE StartGvproxy(m)
    BY <2>3, AtStep DEF StartGvproxy
  <2>4. CASE WaitForSocket(m)
    BY <2>4, AtStep, SocketLate DEF WaitForSocket
  <2>5. CASE StartKrunkit(m)
    BY <2>5, AtStep, KrunkitStarted DEF StartKrunkit
  <2>6. CASE TruncatePidFile(m) \/ WritePidFile(m)
    BY <2>6, AtStep DEF TruncatePidFile, WritePidFile
  <2>7. CASE Die(m)
    <3>1. At(m, mon[m].step, "dead") /\ mon[m].step # "idle"
      BY <2>7 DEF Die, Active, At
    <3> QED BY <3>1, AtStep
  <2> QED BY <2>1, <2>2, <2>3, <2>4, <2>5, <2>6, <2>7 DEF Works, MonitorStep
<1> QED BY <1>1 DEF Onward

\* What every step does to processes and monitors.
Progress ==
  /\ \A q \in Pids :
       IF proc[q] = None
       THEN proc'[q] = None \/ \E m \in Monitors : Works(m) /\ Starts(m, q)
       ELSE Goes(q)
  /\ \A m \in Monitors :
       /\ Kept(m) \/ Works(m) \/ \E p \in Procs : Begins(m, p)
       /\ mon[m].step # "idle" => mon'[m].step # "idle" /\ mon'[m].img = mon[m].img
       /\ Onward(m)

LEMMA Progresses ==
  ASSUME TypeInv, Born, PidInv, Next
  PROVE  Progress
<1>1. Types
  BY TypeParts
<1>2. ASSUME NEW p \in Procs, Acts(p) PROVE Progress
  <2>1. \A m \in Monitors : mon'[m] = mon[m] \/ Begins(m, p)
    BY <1>2, CommandMoves DEF Begins
  <2>2. \A m \in Monitors : Onward(m) /\ (mon[m].step # "idle" => mon'[m] = mon[m])
    BY <2>1 DEF Onward, Begins
  <2> QED BY <1>2, <2>1, <2>2, CommandMoves DEF Progress, Kept
<1>3. ASSUME NEW m \in Monitors, Works(m) PROVE Progress
  <2>1. /\ ProcessesMove(m)
        /\ mon'[m].step # "idle" /\ mon'[m].img = mon[m].img
        /\ \A n \in Monitors \ {m} : mon'[n] = mon[n]
    BY <1>3, MonitorMoves
  <2>2. \A n \in Monitors : Onward(n)
    BY <1>1, <1>3, <2>1, WorksOnward DEF Onward
  <2> QED BY <1>3, <2>1, <2>2 DEF Progress, ProcessesMove, Kept
<1>4. ASSUME NEW q \in Pids, Lives(q) PROVE Progress
  <2>1. /\ proc[q] # None /\ Goes(q) /\ \A r \in Pids \ {q} : proc'[r] = proc[r]
        /\ \A m \in Monitors : Kept(m)
    BY <1>4, ProcessMoves
  <2>2. \A r \in Pids \ {q} : proc[r] # None => Goes(r)
    BY <1>1, <2>1 DEF Goes, Types, Process
  <2> QED BY <2>1, <2>2 DEF Progress, Onward, Kept
<1> QED BY <1>2, <1>3, <1>4, NextActs

LEMMA BornStep ==
  ASSUME TypeInv, Born, PidInv, Next
  PROVE  Born'
<1> SUFFICES ASSUME NEW q \in Pids, proc'[q] # None
             PROVE  mon'[proc'[q].by].step \notin
                      IF proc'[q].role = "krunkit" THEN BeforeKrunkit ELSE BeforeGvproxy
  BY DEF Born
<1>1. Progress /\ Types
  BY Progresses, TypeParts
<1>2. CASE proc[q] = None
  <2>1. PICK m \in Monitors : Starts(m, q)
    BY <1>1, <1>2 DEF Progress
  <2> QED BY <2>1 DEF Starts
<1>3. CASE proc[q] # None
  <2>1. proc[q].by \in Monitors /\ proc'[q].by = proc[q].by /\ proc'[q].role = proc[q].role
    BY <1>1, <1>3 DEF Progress, Goes, Types, Process
  <2>2. mon[proc[q].by].step \notin IF proc[q].role = "krunkit" THEN BeforeKrunkit ELSE BeforeGvproxy
    BY <1>3 DEF Born
  <2>3. Onward(proc[q].by)
    BY <1>1, <2>1 DEF Progress
  <2> QED BY <2>1, <2>2, <2>3 DEF Onward
<1> QED BY <1>2, <1>3

\* A process that is the monitor's after a step was so before, or is new.
LEMMA OfBefore ==
  ASSUME Progress, NEW q \in Pids, NEW m, NEW role, Of(q, m, role)'
  PROVE  \/ Of(q, m, role)
         \/ proc[q] = None /\ m \in Monitors /\ Works(m) /\ Starts(m, q) /\ proc'[q].role = role
<1>1. CASE proc[q] = None
  BY <1>1 DEF Progress, Of, Alive, Starts
<1>2. CASE proc[q] # None
  BY <1>2 DEF Progress, Goes, Of, Alive
<1> QED BY <1>1, <1>2

\* A monitor whose process is still to be started runs none in that role.
LEMMA NoneYet ==
  ASSUME Born, NEW m
  PROVE  /\ mon[m].step \in BeforeKrunkit => ~Runs(m, "krunkit")
         /\ mon[m].step \in BeforeGvproxy => ~Runs(m, "gvproxy")
BY DEF Born, Runs, Of, Alive

LEMMA StoppingStep ==
  ASSUME TypeInv, Born, PidInv, Stopping, Next
  PROVE  Stopping'
<1>1. Progress /\ Types
  BY Progresses, TypeParts
<1> SUFFICES ASSUME NEW m \in Monitors, mon'[m].step \in {"stopGv", "done"}
             PROVE  /\ ~Runs(m, "krunkit")'
                    /\ mon'[m].step = "done" /\ Runs(m, "gvproxy")' => mon'[m].late
  BY DEF Stopping
<1>2. \A role : Runs(m, role)' => Runs(m, role)
  BY <1>1, OfBefore DEF Starts, Runs
<1>3. CASE Kept(m)
  BY <1>2, <1>3 DEF Stopping, Kept
<1>4. CASE \E p \in Procs : Begins(m, p)
  BY <1>4 DEF Begins
<1>5. CASE Works(m)
  <2>1. CASE StartGvproxy(m)
    <3>1. mon[m].step = "gvproxy"
      BY <2>1 DEF StartGvproxy, At
    <3> QED BY <1>2, <3>1, NoneYet
  <2>2. CASE WaitForSocket(m)
    <3>1. mon[m].step = "socket"
      BY <2>2 DEF WaitForSocket, At
    <3>2. mon'[m].late
      BY <1>1, <2>2, SocketLate, AtStep DEF WaitForSocket
    <3> QED BY <1>2, <3>1, <3>2, NoneYet
  <2>3. CASE StartKrunkit(m)
    <3>1. mon[m].step = "krunkit" /\ mon'[m].step # "done"
      BY <1>1, <2>3, AtStep, KrunkitStarted DEF StartKrunkit, At
    <3> QED BY <1>2, <3>1, NoneYet
  <2>4. CASE TruncatePidFile(m)
    <3>1. Kill(m, "krunkit") /\ mon'[m].step # "done"
      BY <1>1, <2>4, AtStep DEF TruncatePidFile
    <3> QED BY <1>1, <3>1, KillGoes
  <2>5. CASE WaitKrunkit(m)
    <3>1. mon'[m].step # "done" /\ ~Runs(m, "krunkit")
      BY <1>1, <2>5, AtStep DEF WaitKrunkit
    <3> QED BY <1>2, <3>1
  <2>6. CASE StopGvproxy(m)
    <3>1. mon[m].step = "stopGv" /\ Kill(m, "gvproxy")
      BY <2>6 DEF StopGvproxy, At
    <3> QED BY <1>1, <1>2, <3>1, KillGoes DEF Stopping
  <2>7. CASE WritePidFile(m)
    <3>1. Kill(m, "krunkit") /\ mon'[m].step # "done"
      BY <1>1, <2>7, AtStep DEF WritePidFile
    <3> QED BY <1>1, <3>1, KillGoes
  <2>8. CASE InterruptOld(m) \/ RemoveGvPid(m) \/ RemoveSocket(m) \/ Die(m)
    BY <1>1, <2>8 DEF InterruptOld, RemoveGvPid, RemoveSocket, Die, At, Types, Monitor
  <2> QED BY <1>5, <2>1, <2>2, <2>3, <2>4, <2>5, <2>6, <2>7, <2>8 DEF Works, MonitorStep
<1> QED BY <1>1, <1>3, <1>4, <1>5 DEF Progress

LEMMA NamedStays ==
  ASSUME Progress, TypeInv, NEW q \in Pids, NEW i, Named(q, i)
  PROVE  Named(q, i)'
<1>1. proc[q].by \in Monitors
  BY TypeParts DEF Types, Process, Named
<1>2. proc'[q] # None /\ proc'[q].role = "krunkit" /\ proc'[q].by = proc[q].by
  BY DEF Progress, Goes, Named
<1>3. mon'[proc[q].by].img = i
  BY <1>1 DEF Progress, Named, MonImg
<1>4. mon'[proc[q].by].step \notin BeforeKrunkit \cup {"truncate", "write"}
  BY <1>1 DEF Progress, Named, Onward
<1> QED BY <1>2, <1>3, <1>4 DEF Named, MonImg

\* The krunkit that monitor m has started; it keeps its role and its monitor.
Started(m) ==
  /\ mon[m].pid \in Pids /\ proc[mon[m].pid] # None
  /\ proc[mon[m].pid].role = "krunkit" /\ proc[mon[m].pid].by = m

LEMMA StartedStep ==
  ASSUME TypeInv, Born, PidInv, Next, NEW m \in Monitors, mon'[m].step \in {"truncate", "write", "wait"}
  PROVE  Started(m)'
<1>1. Progress /\ Types
  BY Progresses, TypeParts
<1>2. CASE mon[m].step \in {"truncate", "write", "wait"} /\ mon'[m].pid = mon[m].pid
  BY <1>1, <1>2 DEF PidInv, Progress, Goes, Started
<1>3. CASE Works(m) /\ mon[m].step = "krunkit"
  <2>1. PICK q \in Pids : /\ StartProcess(m, "krunkit", q)
                          /\ mon' = [mon EXCEPT ![m].step = "truncate", ![m].pid = q, ![m].foreign = FALSE]
    BY <1>1, <1>3 DEF Works, MonitorStep, Die, InterruptOld, RemoveGvPid, RemoveSocket, StartGvproxy,
       WaitForSocket, StartKrunkit, TruncatePidFile, WritePidFile, WaitKrunkit, StopGvproxy, At, Types, Monitor
  <2>2. mon'[m].pid = q
    BY <1>1, <2>1 DEF Types, Monitor
  <2> QED BY <1>1, <2>1, <2>2, StartProcessType DEF Started
<1>4. CASE Kept(m)
  BY <1>2, <1>4 DEF Kept
<1>5. Kept(m) \/ Works(m)
  BY <1>1 DEF Progress, Begins
<1> QED BY <1>1, <1>2, <1>3, <1>4, <1>5, WorksOnward

\* What a step makes of the local state of p.
JobKept(p) == job'[p] = job[p] /\ (pc'[p] = "signal" <=> pc[p] = "signal")
JobFails(p) == job'[p] = [job[p] EXCEPT !.failed = TRUE] /\ pc'[p] = "unlock"
JobSeen(p) ==
  /\ Delete(p)
  /\ job'[p] = [job[p] EXCEPT !.seen = pidFile[Img(p)]]
  /\ Running(Img(p)) => pc'[p] = "signal"
JobSignals(p) ==
  /\ Signal(p) /\ Running(Img(p)) /\ Interrupt(pidFile[Img(p)])
  /\ job'[p] = [job[p] EXCEPT !.seen = pidFile[Img(p)]]
JobBegins(p) ==
  \E i \in Images, cmd \in {"run", "stop", "rm", "rmForce"} :
    Command(p, cmd, i) /\ job'[p] = [NoJob EXCEPT !.cmd = cmd, !.img = i]
JobEnds(p) == job'[p] = NoJob /\ pc'[p] = "idle"

LEMMA JobSteps ==
  ASSUME TypeInv, Next, NEW p \in Procs
  PROVE  JobKept(p) \/ JobFails(p) \/ JobSeen(p) \/ JobSignals(p) \/ JobBegins(p) \/ JobEnds(p)
<1>1. CommandsOK /\ job \in [Procs -> Job] /\ pc \in [Procs -> CommandSteps]
  BY TypeParts DEF CommandsOK
<1>2. UNCHANGED <<job, pc>> => JobKept(p)
  BY DEF JobKept
<1>3. CASE Acts(p)
  <2>1. ASSUME NEW i \in Images, NEW cmd \in {"run", "stop", "rm", "rmForce"}, Command(p, cmd, i)
        PROVE  JobBegins(p)
    <3>1. job'[p] = [NoJob EXCEPT !.cmd = cmd, !.img = i]
      BY <1>1, <2>1 DEF Command
    <3> QED BY <2>1, <3>1 DEF JobBegins
  <2>2. CASE Fail(p)
    BY <1>1, <2>2 DEF Fail, JobFails
  <2>3. CASE GiveUp(p) \/ UnlockVM(p) \/ Exit(p)
    BY <1>1, <2>3 DEF GiveUp, UnlockVM, Exit, Unlocked, JobEnds
  <2>4. CASE Install(p) /\ ~GiveUp(p)
    <3>1. Goto(p, "lock") /\ pc[p] = "install"
      BY <2>4 DEF Install
    <3> QED BY <1>1, <3>1 DEF Goto, JobKept
  <2>5. CASE NewVM(p) /\ ~GiveUp(p)
    <3>1. pc' = [pc EXCEPT ![p] = FirstStep(p)] /\ UNCHANGED job /\ pc[p] = "lock"
      BY <2>5 DEF NewVM
    <3> QED BY <1>1, <3>1 DEF FirstStep, JobKept
  <2>6. CASE Run(p) /\ ~Fail(p)
    <3>1. Goto(p, "session") /\ pc[p] = "spawn"
      BY <2>6 DEF Run
    <3> QED BY <1>1, <3>1 DEF Goto, JobKept
  <2>7. CASE EndSession(p)
    <3>1. PICK step \in {"unlock", "check"} : Goto(p, step) /\ pc[p] = "session"
      BY <2>7 DEF EndSession
    <3> QED BY <1>1, <3>1 DEF Goto, JobKept
  <2>8. CASE KillVM(p) /\ ~Fail(p)
    <3>1. Goto(p, "check") /\ pc[p] = "look"
      BY <2>8 DEF KillVM
    <3> QED BY <1>1, <3>1 DEF Goto, JobKept
  <2>9. CASE Delete(p) /\ ~Fail(p)
    <3>1. CASE Goto(p, AfterDelete(p))
      BY <1>1, <2>9, <3>1 DEF Delete, Goto, AfterDelete, JobKept
    <3>2. CASE Looked(p)
      BY <1>1, <2>9, <3>2 DEF Looked, JobSeen
    <3> QED BY <2>9, <3>1, <3>2 DEF Delete
  <2>10. CASE Signal(p) /\ ~Fail(p)
    BY <1>1, <2>10 DEF Signal, JobSignals
  <2>11. CASE DeleteFromCache(p) /\ ~Fail(p)
    <3>1. Goto(p, "unlock") /\ pc[p] = "rmCache"
      BY <2>11 DEF DeleteFromCache
    <3> QED BY <1>1, <3>1 DEF Goto, JobKept
  <2> QED BY <1>3, <2>1, <2>2, <2>3, <2>4, <2>5, <2>6, <2>7, <2>8, <2>9, <2>10, <2>11 DEF Acts, CommandStep
<1>4. ASSUME NEW q \in Procs \ {p}, Acts(q) PROVE JobKept(p)
  <2>1. job'[p] = job[p] /\ pc'[p] = pc[p]
    BY <1>1, <1>4 DEF Acts, CommandStep, Command, Install, NewVM, Run, EndSession, KillVM, Delete,
       Looked, Signal, DeleteFromCache, UnlockVM, Exit, Unlocked, Goto, Fail, GiveUp
  <2> QED BY <2>1 DEF JobKept
<1>5. ASSUME NEW q \in Pids, Lives(q) PROVE UNCHANGED <<job, pc>>
  BY <1>5 DEF Lives, NamePid, Listen, End, EndTidily, Reassign, cmdVars
<1>6. ASSUME NEW m \in Monitors, Works(m) PROVE UNCHANGED <<job, pc>>
  BY <1>6 DEF Works, MonitorStep, Die, InterruptOld, RemoveGvPid, RemoveSocket, StartGvproxy, WaitForSocket,
     StartKrunkit, TruncatePidFile, WritePidFile, WaitKrunkit, StopGvproxy, cmdVars
<1> QED BY <1>2, <1>3, <1>4, <1>5, <1>6, NextActs

\* What Delete has seen it keeps, or has read from run.pid now.
LEMMA SeenSteps ==
  ASSUME TypeInv, Next, NEW p \in Procs
  PROVE  \/ job'[p].seen = None
         \/ job'[p].seen = job[p].seen /\ job'[p].img = Img(p)
         \/ job'[p].seen = pidFile[Img(p)] /\ job'[p].img = Img(p) /\ Img(p) \in Images
<1>1. job[p] \in Job /\ (pc[p] # "idle" => Img(p) \in Images)
  BY TypeParts DEF CommandsOK
<1>2. CASE JobKept(p)
  BY <1>2 DEF JobKept, Img
<1>3. CASE JobFails(p)
  BY <1>1, <1>3 DEF JobFails, Job, Img
<1>4. CASE JobSeen(p)
  BY <1>1, <1>4 DEF JobSeen, Job, Img, Delete
<1>5. CASE JobSignals(p)
  BY <1>1, <1>5 DEF JobSignals, Job, Img, Signal
<1>6. CASE JobBegins(p)
  BY <1>6 DEF JobBegins, NoJob
<1>7. CASE JobEnds(p)
  BY <1>7, NoJobType DEF JobEnds
<1> QED BY <1>2, <1>3, <1>4, <1>5, <1>6, <1>7, JobSteps

\* What writes run.pid.
LEMMA PidFileSteps ==
  ASSUME TypeInv, Next, NEW i \in Images
  PROVE  \/ pidFile'[i] \in {pidFile[i], None}
         \/ \E m \in Monitors : TruncatePidFile(m) /\ MonImg(m) = i /\ pidFile'[i] = "torn"
         \/ \E m \in Monitors : /\ WritePidFile(m) /\ mon'[m].step = "wait"
                                 /\ MonImg(m) = i /\ pidFile'[i] = mon[m].pid
<1>1. Types /\ CommandsOK
  BY TypeParts
<1>2. ASSUME NEW p \in Procs, Acts(p) PROVE pidFile'[i] \in {pidFile[i], None}
  BY <1>1, <1>2 DEF Types, Acts, CommandStep, Command, Install, NewVM, Run, EndSession, KillVM, Delete,
     Signal, DeleteFromCache, UnlockVM, Exit, Unlocked, hostVars
<1>3. ASSUME NEW m \in Monitors, Works(m)
      PROVE  \/ pidFile'[i] \in {pidFile[i], None}
             \/ TruncatePidFile(m) /\ MonImg(m) = i /\ pidFile'[i] = "torn"
             \/ /\ WritePidFile(m) /\ mon'[m].step = "wait"
                /\ MonImg(m) = i /\ pidFile'[i] = mon[m].pid
  <2>1. CASE WritePidFile(m)
    BY <1>1, <2>1, AtStep DEF WritePidFile, Types
  <2>2. CASE TruncatePidFile(m)
    BY <1>1, <2>2 DEF TruncatePidFile, Types
  <2>3. CASE ~WritePidFile(m) /\ ~TruncatePidFile(m)
    <3>1. UNCHANGED pidFile
      BY <1>3, <2>3 DEF Works, MonitorStep, Die, InterruptOld, RemoveGvPid, RemoveSocket, StartGvproxy,
         WaitForSocket, StartKrunkit, WaitKrunkit, StopGvproxy
    <3> QED BY <3>1
  <2> QED BY <2>1, <2>2, <2>3
<1>4. ASSUME NEW q \in Pids, Lives(q) PROVE UNCHANGED pidFile
  BY <1>4 DEF Lives, NamePid, Listen, End, EndTidily, Reassign
<1> QED BY <1>2, <1>3, <1>4, NextActs

LEMMA PidStep ==
  ASSUME TypeInv, Born, PidInv, Next
  PROVE  PidInv'
<1>1. Progress /\ Types
  BY Progresses, TypeParts
<1>2. \A m \in Monitors : mon'[m].step \in {"truncate", "write", "wait"} => Started(m)'
  BY StartedStep
<1>3. ASSUME NEW i \in Images, NEW q \in Pids, pidFile'[i] = q PROVE Named(q, i)'
  <2>1. CASE pidFile[i] = q
    <3>1. Named(q, i)
      BY <2>1 DEF PidInv
    <3> QED BY <1>1, <3>1, NamedStays
  <2>2. ASSUME NEW m \in Monitors, WritePidFile(m), mon'[m].step = "wait", MonImg(m) = i, mon[m].pid = q
        PROVE  Named(q, i)'
    <3>1. mon[m].step = "write" /\ mon'[m].step = "wait" /\ mon'[m].pid = mon[m].pid /\ mon'[m].img = mon[m].img
      BY <1>1, <2>2 DEF WritePidFile, At, Types, Monitor
    <3>2. Started(m)'
      BY <1>2, <3>1
    <3> QED BY <2>2, <3>1, <3>2 DEF Started, Named, MonImg
  <2> QED BY <1>3, <2>1, <2>2, PidFileSteps, NoneAssumption, TornAssumption
<1>4. ASSUME NEW p \in Procs, NEW q \in Pids, job'[p].seen = q, NEW i, job'[p].img = i PROVE Named(q, i)'
  <2>1. Named(q, i)
    BY <1>4, SeenSteps, NoneAssumption DEF PidInv, Img
  <2> QED BY <1>1, <2>1, NamedStays
<1>5. \A i \in Images : pidFile'[i] \in Pids => Named(pidFile[i], i)'
  BY <1>3 DEF Named
<1>6. \A p \in Procs : job'[p].seen \in Pids => Named(job[p].seen, Img(p))'
  BY <1>4 DEF Named, Img
<1> QED BY <1>2, <1>5, <1>6 DEF PidInv, Started

\* What makes and removes a socket.
LEMMA SockSteps ==
  ASSUME TypeInv, Born, Next, NEW i \in Images
  PROVE  \/ sock'[i] \in {sock[i], None}
         \/ \E q \in Pids : Listen(q) /\ MonImg(proc[q].by) = i /\ sock'[i] = proc[q].by
<1>1. Types /\ MonitorsOK
  BY TypeParts
<1>2. ASSUME NEW p \in Procs, Acts(p) PROVE UNCHANGED sock
  BY <1>2, CommandMoves
<1>3. ASSUME NEW m \in Monitors, Works(m) PROVE sock'[i] \in {sock[i], None}
  BY <1>1, <1>3 DEF Types, Works, MonitorStep, Die, InterruptOld, RemoveGvPid, RemoveSocket, StartGvproxy,
     WaitForSocket, StartKrunkit, TruncatePidFile, WritePidFile, WaitKrunkit, StopGvproxy
<1>4. ASSUME NEW q \in Pids, Lives(q)
      PROVE  \/ sock'[i] \in {sock[i], None}
             \/ Listen(q) /\ MonImg(proc[q].by) = i /\ sock'[i] = proc[q].by
  <2>1. CASE Listen(q)
    BY <1>1, <2>1 DEF Listen, Types
  <2>2. CASE EndTidily(q)
    BY <1>1, <2>2 DEF EndTidily, Types
  <2>3. CASE NamePid(q) \/ End(q) \/ Reassign(q)
    BY <2>3 DEF NamePid, End, Reassign
  <2> QED BY <1>4, <2>1, <2>2, <2>3 DEF Lives
<1> QED BY <1>2, <1>3, <1>4, NextActs

LEMMA OwnSocketStep ==
  ASSUME TypeInv, Born, PidInv, OwnSocket, Next
  PROVE  OwnSocket'
<1> SUFFICES ASSUME NEW m \in Monitors, mon'[m].step \in SocketSteps, NEW i, mon'[m].img = i,
                    sock'[i] \notin {m, None}
             PROVE  mon'[m].foreign
  BY DEF OwnSocket, MonImg
<1>1. Progress /\ Types /\ MonitorsOK
  BY Progresses, TypeParts
<1>2. CASE RemoveSocket(m)
  <2>1. mon[m].step = "rmSock" /\ mon'[m].img = mon[m].img
    BY <1>1, <1>2, AtStep, SocketStays DEF RemoveSocket, At
  <2>2. i \in Images
    BY <1>1, <2>1 DEF MonitorsOK, MonImg
  <2>3. CASE sock' = [sock EXCEPT ![MonImg(m)] = None]
    BY <1>1, <2>1, <2>2, <2>3 DEF Types, MonImg
  <2> QED BY <1>1, <1>2, <2>3, SocketStays DEF RemoveSocket
<1>3. CASE mon[m].step \in SocketSteps /\ (mon[m].foreign => mon'[m].foreign)
  <2>1. MonImg(m) = i /\ i \in Images
    BY <1>1, <1>3 DEF Progress, MonitorsOK, MonImg
  <2>2. CASE sock'[i] = sock[i]
    BY <1>3, <2>1, <2>2 DEF OwnSocket
  <2>3. ASSUME NEW q \in Pids, Listen(q), MonImg(proc[q].by) = i, sock'[i] = proc[q].by
        PROVE  mon'[m].foreign
    BY <1>1, <1>3, <2>1, <2>3 DEF Listen, Types, Monitor
  <2> QED BY <2>1, <2>2, <2>3, SockSteps
<1>4. CASE Works(m) /\ ~RemoveSocket(m)
  <2>1. CASE InterruptOld(m) \/ RemoveGvPid(m) \/ WaitKrunkit(m) \/ StopGvproxy(m)
    BY <1>1, <2>1, AtStep DEF InterruptOld, RemoveGvPid, WaitKrunkit, StopGvproxy
  <2>2. CASE StartGvproxy(m)
    BY <1>1, <1>3, <2>2, AtStep DEF StartGvproxy
  <2>3. CASE WaitForSocket(m)
    BY <1>1, <1>3, <2>3, AtStep, SocketLate DEF WaitForSocket
  <2>4. CASE StartKrunkit(m)
    <3>1. mon'[m].step \in {"truncate", "stopGv"}
      BY <1>1, <2>4, AtStep, KrunkitStarted DEF StartKrunkit
    <3> QED BY <3>1
  <2>5. CASE TruncatePidFile(m) \/ WritePidFile(m)
    BY <1>1, <2>5, AtStep DEF TruncatePidFile, WritePidFile
  <2>6. CASE Die(m)
    <3>1. At(m, mon[m].step, "dead")
      BY <2>6 DEF Die, At
    <3> QED BY <1>1, <3>1, AtStep
  <2> QED BY <1>4, <2>1, <2>2, <2>3, <2>4, <2>5, <2>6 DEF Works, MonitorStep
<1>5. Kept(m) \/ Works(m)
  BY <1>1 DEF Progress, Begins
<1> QED BY <1>2, <1>3, <1>4, <1>5 DEF Kept

LEMMA ReachedStep ==
  ASSUME TypeInv, Born, PidInv, Next, NEW p \in Procs, Reached(p)
  PROVE  Reached(p)'
<1>1. Progress /\ Types /\ CommandsOK /\ job[p] \in Job
  BY Progresses, TypeParts DEF CommandsOK
<1> SUFFICES ASSUME NEW s \in Pids, job'[p].seen = s, Alive(s)', proc'[s].state # "stranger",
                    proc'[s].role = "krunkit"
             PROVE  pc'[p] = "signal" \/ job'[p].failed \/ proc'[s].interrupted
  BY DEF Reached, Of
<1>2. Named(s, Img(p))
  BY SeenSteps, NoneAssumption DEF PidInv
<1>3. Of(s, proc[s].by, "krunkit") /\ Goes(s)
  BY <1>1, <1>2 DEF Progress, Goes, Named, Of, Alive
<1>4. CASE JobSeen(p)
  <2>1. pidFile[Img(p)] = s
    BY <1>1, <1>4 DEF JobSeen, Job
  <2>2. Running(Img(p))
    BY <1>3, <2>1 DEF Running, Of
  <2> QED BY <1>4, <2>2 DEF JobSeen
<1>5. CASE JobSignals(p)
  <2>1. pidFile[Img(p)] = s /\ Interrupt(s) /\ Alive(s)
    BY <1>1, <1>5 DEF JobSignals, Running, Job
  <2> QED BY <1>1, <2>1, InterruptGoes
<1>6. CASE JobFails(p)
  BY <1>1, <1>6 DEF JobFails, Job
<1>7. CASE JobKept(p)
  <2>1. pc[p] = "signal" \/ job[p].failed \/ proc[s].interrupted
    BY <1>3, <1>7 DEF JobKept, Reached
  <2> QED BY <1>3, <1>7, <2>1 DEF JobKept, Goes, Alive
<1>8. CASE JobBegins(p) \/ JobEnds(p)
  BY <1>8, NoJobType, NoneAssumption DEF JobBegins, JobEnds, NoJob
<1> QED BY <1>4, <1>5, <1>6, <1>7, <1>8, JobSteps

THEOREM Invariant == Spec => []IInv
<1>1. Init => IInv
  <2> SUFFICES ASSUME Init PROVE IInv
    OBVIOUS
  <2>1. TypeInv
    BY NoJobType, NoneAssumption DEF Init, LockInit, LockTypeOK, Modes, TypeInv, TypeOK, Control, NoJob, NoMonitor, MonImg
  <2>2. Born /\ Stopping
    BY DEF Init, Born, Stopping, NoMonitor
  <2>3. PidInv
    BY NoneAssumption DEF Init, PidInv, NoJob, NoMonitor
  <2>4. OwnSocket /\ \A p \in Procs : Reached(p)
    BY NoneAssumption DEF Init, OwnSocket, Reached, NoJob, NoMonitor
  <2> QED BY <2>1, <2>2, <2>3, <2>4 DEF IInv
<1>2. IInv /\ [Next]_vars => IInv'
  <2> SUFFICES ASSUME IInv, [Next]_vars PROVE IInv'
    OBVIOUS
  <2>1. TypeInv'
    BY TypeStep DEF IInv
  <2>2. CASE Next
    BY <2>1, <2>2, BornStep, StoppingStep, PidStep, OwnSocketStep, ReachedStep DEF IInv
  <2>3. CASE UNCHANGED vars
    BY <2>1, <2>3 DEF IInv, vars, Born, Stopping, PidInv, OwnSocket, Reached, Named, Runs, Of, Alive, Img, MonImg
  <2> QED BY <2>2, <2>3
<1> QED BY <1>1, <1>2, PTL DEF Spec

\* Every variable keeps its type, and what a monitor writes to run.pid
\* (utils.WritePidFile) is a number.
THEOREM MacTypeCorrect == Spec => []TypeOK
<1>1. IInv => TypeOK
  BY DEF IInv, TypeInv
<1> QED BY <1>1, Invariant, PTL

\* However StartMonitor returns, its krunkit has ended, and its gvproxy too
\* unless it gave up waiting for the socket.
THEOREM MonitorLeavesNothingCorrect == Spec => []MonitorLeavesNothing
<1>1. IInv => MonitorLeavesNothing
  BY DEF IInv, Stopping, MonitorLeavesNothing
<1> QED BY <1>1, Invariant, PTL

\* Delete interrupts only krunkits of its image, or what got the pid of one,
\* however stale run.pid is.
THEOREM SignalCorrect == Spec => SignalsOwnVM
<1>1. IInv /\ [Next]_vars =>
        [\A p \in Procs, q \in Pids : Signal(p) /\ proc'[q] # proc[q] =>
           proc[q].role = "krunkit" /\ MonImg(proc[q].by) = Img(p)]_vars
  <2> SUFFICES ASSUME IInv, NEW p \in Procs, NEW q \in Pids, Signal(p), proc'[q] # proc[q]
               PROVE  proc[q].role = "krunkit" /\ MonImg(proc[q].by) = Img(p)
    OBVIOUS
  <2>1. Types /\ CommandsOK
    BY TypeParts DEF IInv
  <2>2. Img(p) \in Images
    BY <2>1 DEF Signal, CommandsOK
  <2>3. pidFile[Img(p)] \in Pids /\ Interrupt(pidFile[Img(p)])
    BY DEF Signal, Running
  <2>4. q = pidFile[Img(p)]
    BY <2>1, <2>3, InterruptGoes
  <2> QED BY <2>2, <2>4 DEF IInv, PidInv, Named
<1> QED BY <1>1, Invariant, PTL DEF Spec, SignalsOwnVM

\* Delete reaches the VM it read of: a delete that succeeds has taken no torn
\* run.pid for that of no VM, and the krunkit that run.pid named when Delete
\* read it last has ended or was interrupted, whatever is started meanwhile.
\* IsRunning's error of FileExists, which it drops, is the only way past it.
THEOREM DeleteCorrect == Spec => []DeleteReachesVM
<1>1. IInv => DeleteReachesVM
  <2> SUFFICES ASSUME IInv, NEW p \in Procs, pc[p] = "unlock", ~job[p].failed, job[p].seen # None
               PROVE  /\ job[p].seen \in Pids
                      /\ \A m \in Monitors : Of(job[p].seen, m, "krunkit") => proc[job[p].seen].interrupted
    BY DEF DeleteReachesVM
  <2>1. job[p].seen \in Pids
    BY TypeParts DEF IInv, CommandsOK, Job
  <2>2. Reached(p)
    BY DEF IInv
  <2> QED BY <2>1, <2>2 DEF Reached, Of
<1> QED BY <1>1, Invariant, PTL

\* krunkit is started on the socket of the gvproxy that its own monitor
\* started, never on one left there, unless cleanup could not remove that one
\* or the gvproxy of another run of the image made one since.
THEOREM OwnNetworkCorrect == Spec => KrunkitUsesOwnGvproxy
<1>1. IInv /\ [Next]_vars =>
        [\A m \in Monitors : StartKrunkit(m) /\ mon'[m].step = "truncate" =>
           sock[MonImg(m)] \in {m, None} \/ mon[m].foreign]_vars
  <2> SUFFICES ASSUME IInv, NEW m \in Monitors, StartKrunkit(m)
               PROVE  sock[MonImg(m)] \in {m, None} \/ mon[m].foreign
    OBVIOUS
  <2>1. mon[m].step = "krunkit"
    BY DEF StartKrunkit, At
  <2> QED BY <2>1 DEF IInv, OwnSocket
<1> QED BY <1>1, Invariant, PTL DEF Spec, KrunkitUsesOwnGvproxy
=============================================================================
