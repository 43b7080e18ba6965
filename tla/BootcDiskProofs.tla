--------------------------- MODULE BootcDiskProofs ---------------------------
(***************************************************************************)
(* Proofs about BootcDisk, for every number of processes, images, names    *)
(* and temporary files, and for every set of faults and found digests.     *)
(***************************************************************************)
EXTENDS BootcDisk, CacheLockProofs, TLAPS

-----------------------------------------------------------------------------
(* The inductive invariant. *)

\* Steps at which the installation in progress has a temporary file.
BuildPcs == TempPcs \cup {"size"}

InstallPcs == {"pull", "mkdir", "open", "stale", "create"} \cup BuildPcs

\* A process at this step may have this local state.
Local(step, j) ==
  /\ step # "idle" => j.cmd \in {"run", "rm"}
  /\ step \in InstallPcs => j.cmd = "run"
  /\ step \in {"check", "rmCache"} => j.cmd = "rm"
  /\ step # "idle" /\ j.cmd = "run" => j.ref \in Refs
  /\ step \in LockedPcs \cup {"lock"} <=> j.img # None
  /\ step \in BuildPcs => j.temp \in Temps
  /\ step = "rmTemp" => j.failed
  /\ step \notin BuildPcs \cup {"unlock"} => j.temp = None

Control == \A p \in Procs : Local(pc[p], job[p])

Types == /\ LockTypeOK
         /\ tag \in [Refs -> AnyImage]
         /\ pc \in [Procs -> Pcs]
         /\ job \in [Procs -> Job]
         /\ dir \in [Images -> BOOLEAN]
         /\ disk \in [Images -> File \cup {None}]
         /\ temp \in [Temps -> TempFile \cup {None}]
         /\ cont \in [Temps -> Container \cup {None}]

TypeInv == Types /\ Control

\* A process holds the lock of its image from LockImage to UnlockImage,
\* exclusively, and no other lock.
Holds ==
  \A p \in Procs, i \in Images :
    lock[i][p] = IF pc[p] \in LockedPcs /\ Img(p) = i THEN "exclusive" ELSE "none"

LockInv == Holds /\ ExclusiveIsAlone

Owns(p, t) == temp[t] # None /\ temp[t].owner = p

Runs(t) == cont[t] # None /\ cont[t].status = "running"

\* The temporary file of a process is the one it builds, in the directory of
\* its image; it is empty before SetSize.
Owned(p) ==
  \A t \in Temps :
    Owns(p, t) => /\ pc[p] \in BuildPcs \cup {"unlock"}
                  /\ t = job[p].temp
                  /\ temp[t].in = Img(p)
                  /\ pc[p] = "size" => temp[t].file.content = "empty"

\* It is there as long as the process builds.
Kept(p) == pc[p] \in BuildPcs => Owns(p, job[p].temp)

\* No container writes to it but the one the process waits for, or has given
\* up on.
Quiet(p) == \A t \in Temps : Owns(p, t) /\ pc[p] \notin {"wait", "rmTemp", "unlock"} => ~Runs(t)

\* From the success of the installer on it holds an image, and it gets its
\* digest last.
Built(p) ==
  /\ pc[p] = "wait" => cont[job[p].temp] # None
  /\ \/ pc[p] = "wait" /\ cont[job[p].temp].status = "done"
     \/ pc[p] \in {"xattr", "rename"}
     => temp[job[p].temp].file.content \in AnyImage
  /\ pc[p] = "rename" => temp[job[p].temp].file.meta = Img(p)

TempOf(p) == Owned(p) /\ Kept(p) /\ Quiet(p) /\ Built(p)

TempInv == \A p \in Procs : TempOf(p)

\* What a process knows of its image's disk.
Seen(p) ==
  /\ pc[p] = "stale" => NoMeta(Img(p)) \/ job[p].unread
  /\ pc[p] \in {"create"} \cup BuildPcs => ~Ready(Img(p)) \/ job[p].unread
  /\ pc[p] = "unlock" /\ job[p].cmd = "run" /\ ~job[p].failed =>
       Ready(Img(p)) /\ job[p].temp = None

DiskInv == (\A p \in Procs : Seen(p)) /\ MarkedDiskComplete

IInv == TypeInv /\ LockInv /\ TempInv /\ DiskInv

-----------------------------------------------------------------------------
(* Types and local states. *)

USE DEF FreePcs, TempPcs, LockedPcs, Pcs, BuildPcs, InstallPcs

LEMMA NoJobType == NoJob \in Job /\ Local("idle", NoJob)
BY NoneAssumption DEF NoJob, Job, Local

\* A step of p that leaves it at a step and in a local state that fit.
LEMMA ControlStep ==
  ASSUME pc \in [Procs -> Pcs], job \in [Procs -> Job], Control,
         NEW p \in Procs, NEW step \in Pcs, NEW j \in Job, Local(step, j),
         pc' = [pc EXCEPT ![p] = step], job' = [job EXCEPT ![p] = j]
  PROVE  pc' \in [Procs -> Pcs] /\ job' \in [Procs -> Job] /\ Control'
BY DEF Control

LEMMA GotoType ==
  ASSUME TypeInv, NEW p \in Procs, NEW step \in Pcs, Local(step, job[p]), Goto(p, step)
  PROVE  pc' \in [Procs -> Pcs] /\ job' \in [Procs -> Job] /\ Control' /\ LockTypeOK'
<1>1. job[p] \in Job /\ job' = [job EXCEPT ![p] = job[p]]
  BY DEF TypeInv, Types, Goto
<1>2. LockTypeOK'
  BY DEF TypeInv, Types, Goto, LockTypeOK
<1> QED BY <1>1, <1>2, ControlStep DEF Goto, TypeInv, Types

LEMMA GotoWithType ==
  ASSUME TypeInv, NEW p \in Procs, NEW step \in Pcs, NEW j \in Job, Local(step, j),
         GotoWith(p, step, j)
  PROVE  pc' \in [Procs -> Pcs] /\ job' \in [Procs -> Job] /\ Control' /\ LockTypeOK'
<1>1. LockTypeOK'
  BY DEF TypeInv, Types, GotoWith, LockTypeOK
<1> QED BY <1>1, ControlStep DEF GotoWith, TypeInv, Types

\* Where an error return leads.
LEMMA FailGoes ==
  ASSUME TypeInv, NEW p \in Procs, pc[p] # "idle", Fail(p)
  PROVE  \/ pc[p] \in FreePcs /\ GotoWith(p, "idle", NoJob)
         \/ /\ pc[p] \in TempPcs
            /\ Local("rmTemp", [job[p] EXCEPT !.failed = TRUE])
            /\ GotoWith(p, "rmTemp", [job[p] EXCEPT !.failed = TRUE])
         \/ /\ pc[p] \in LockedPcs \ TempPcs
            /\ Local("unlock", [job[p] EXCEPT !.failed = TRUE])
            /\ GotoWith(p, "unlock", [job[p] EXCEPT !.failed = TRUE])
<1>1. pc[p] \in Pcs /\ job[p] \in Job /\ Local(pc[p], job[p])
  BY DEF TypeInv, Types, Control
<1>2. CASE pc[p] \in FreePcs
  BY <1>2 DEF Fail
<1>3. CASE pc[p] \in TempPcs
  <2>1. Local("rmTemp", [job[p] EXCEPT !.failed = TRUE])
    BY <1>1, <1>3 DEF Local, Job
  <2> QED BY <1>3, <2>1 DEF Fail
<1>4. CASE pc[p] \in LockedPcs \ TempPcs
  <2>1. Local("unlock", [job[p] EXCEPT !.failed = TRUE])
    BY <1>1, <1>4 DEF Local, Job
  <2> QED BY <1>4, <2>1 DEF Fail
<1> QED BY <1>1, <1>2, <1>3, <1>4

LEMMA FailType ==
  ASSUME TypeInv, NEW p \in Procs, pc[p] # "idle", Fail(p)
  PROVE  pc' \in [Procs -> Pcs] /\ job' \in [Procs -> Job] /\ Control' /\ LockTypeOK'
<1>1. [job[p] EXCEPT !.failed = TRUE] \in Job
  BY DEF TypeInv, Types, Job
<1> QED BY <1>1, FailGoes, NoJobType, GotoWithType

LEMMA DisownType ==
  ASSUME temp \in [Temps -> TempFile \cup {None}], NEW p \in Procs, Disown(p)
  PROVE  temp' \in [Temps -> TempFile \cup {None}]
BY DEF Disown, TempFile


\* A command starts.
LEMMA StartType ==
  ASSUME TypeInv, NEW p \in Procs,
         \/ \E r \in Refs : Install(p, r)
         \/ \E i \in Images : Rm(p, i)
  PROVE  TypeInv'
<1>1. CASE \E r \in Refs : Install(p, r)
  <2>1. PICK r \in Refs : Begin(p, "pull", [NoJob EXCEPT !.cmd = "run", !.ref = r])
    BY <1>1 DEF Install
  <2>2. /\ [NoJob EXCEPT !.cmd = "run", !.ref = r] \in Job
        /\ Local("pull", [NoJob EXCEPT !.cmd = "run", !.ref = r])
    BY NoneAssumption DEF NoJob, Job, Local
  <2> QED BY <2>1, <2>2, GotoWithType DEF Begin, TypeInv, Types
<1>2. CASE \E i \in Images : Rm(p, i)
  <2>1. PICK i \in Images : Begin(p, "lock", [NoJob EXCEPT !.cmd = "rm", !.img = i])
    BY <1>2 DEF Rm
  <2>2. /\ [NoJob EXCEPT !.cmd = "rm", !.img = i] \in Job
        /\ Local("lock", [NoJob EXCEPT !.cmd = "rm", !.img = i])
    BY NoneAssumption DEF NoJob, Job, Local
  <2> QED BY <2>1, <2>2, GotoWithType DEF Begin, TypeInv, Types
<1> QED BY <1>1, <1>2

\* The image, the lock, the disk that may be there already.
LEMMA FindType ==
  ASSUME TypeInv, NEW p \in Procs,
         PullImage(p) \/ LockImage(p) \/ MkdirAll(p) \/ OpenDisk(p) \/ RemoveStale(p)
  PROVE  TypeInv'
<1>1. pc[p] \in Pcs /\ job[p] \in Job /\ Local(pc[p], job[p])
  BY DEF TypeInv, Types, Control
<1>2. CASE PullImage(p)
  <2>1. CASE tag[job[p].ref] \in Images
    <3> DEFINE j == [job[p] EXCEPT !.img = tag[job[p].ref]]
    <3>1. j \in Job
      BY <1>1, <2>1 DEF Job
    <3>2. Local("lock", j)
      BY <1>1, <1>2, <2>1, NoneAssumption DEF PullImage, Local, Job
    <3>3. GotoWith(p, "lock", j)
      BY <1>2, <2>1 DEF PullImage
    <3> HIDE DEF j
    <3> QED BY <1>2, <3>1, <3>2, <3>3, GotoWithType DEF PullImage, TypeInv, Types
  <2>2. CASE tag[job[p].ref] \notin Images
    BY <1>2, <2>2, NoJobType, GotoWithType DEF PullImage, TypeInv, Types
  <2> QED BY <2>1, <2>2
<1>3. CASE LockImage(p)
  <2>1. CASE Fail(p)
    BY <1>3, <2>1, FailType DEF LockImage, TypeInv, Types
  <2>2. CASE ~Fail(p)
    <3> DEFINE step == IF job[p].cmd = "rm" THEN "check" ELSE "mkdir"
    <3>1. pc' = [pc EXCEPT ![p] = step] /\ job' = [job EXCEPT ![p] = job[p]]
      BY <1>3, <2>2 DEF LockImage, TypeInv, Types
    <3>2. Local(step, job[p])
      BY <1>1, <1>3 DEF LockImage, Local
    <3>3. Img(p) \in Images
      BY <1>1, <1>3 DEF LockImage, Local, Img, Job
    <3>4. LockTypeOK'
      BY <1>3, <2>2, <3>3, LockTypes DEF LockImage, Modes, TypeInv, Types
    <3>5. step \in Pcs
      OBVIOUS
    <3> HIDE DEF step
    <3> QED BY <1>1, <1>3, <3>1, <3>2, <3>4, <3>5, ControlStep DEF LockImage, TypeInv, Types
  <2> QED BY <2>1, <2>2
<1>4. CASE MkdirAll(p)
  <2>1. Local("open", job[p])
    BY <1>1, <1>4 DEF MkdirAll, Local
  <2> QED BY <1>4, <2>1, GotoType DEF MkdirAll, TypeInv, Types
<1>5. CASE OpenDisk(p)
  <2> DEFINE j == [job[p] EXCEPT !.unread = TRUE]
  <2>1. Local("unlock", job[p]) /\ Local("stale", job[p]) /\ Local("create", job[p])
    BY <1>1, <1>5 DEF OpenDisk, Local
  <2>2. Local("stale", j) /\ j \in Job
    BY <1>1, <1>5 DEF OpenDisk, Local, Job
  <2>3. Goto(p, "unlock") \/ Goto(p, "stale") \/ Goto(p, "create") \/ GotoWith(p, "stale", j)
    BY <1>5 DEF OpenDisk
  <2> HIDE DEF j
  <2> QED BY <1>5, <2>1, <2>2, <2>3, GotoType, GotoWithType DEF OpenDisk, TypeInv, Types
<1>6. CASE RemoveStale(p)
  <2>1. Local("create", job[p])
    BY <1>1, <1>6 DEF RemoveStale, Local
  <2> QED BY <1>6, <2>1, GotoType DEF RemoveStale, TypeInv, Types
<1> QED BY <1>2, <1>3, <1>4, <1>5, <1>6

\* bootcInstallImageToDisk up to the end of the container.
LEMMA BuildType ==
  ASSUME TypeInv, TempInv, NEW p \in Procs,
         CreateTemp(p) \/ SetSize(p) \/ StartContainer(p) \/ WaitContainer(p)
  PROVE  TypeInv'
<1>1. pc[p] \in Pcs /\ job[p] \in Job /\ Local(pc[p], job[p])
  BY DEF TypeInv, Types, Control
<1>2. CASE CreateTemp(p)
  <2>1. PICK t \in Temps :
          /\ temp' = [temp EXCEPT ![t] = [file |-> [content |-> "empty", meta |-> "none"],
                                          in |-> Img(p), owner |-> p]]
          /\ GotoWith(p, "size", [job[p] EXCEPT !.temp = t])
    BY <1>2 DEF CreateTemp, Unused
  <2>2. Local("size", [job[p] EXCEPT !.temp = t]) /\ [job[p] EXCEPT !.temp = t] \in Job
    BY <1>1, <1>2 DEF CreateTemp, Local, Job
  <2>3. Img(p) \in Images
    BY <1>1, <1>2 DEF CreateTemp, Local, Img, Job
  <2>4. temp' \in [Temps -> TempFile \cup {None}]
    BY <2>1, <2>3 DEF TypeInv, Types, TempFile, File
  <2> QED BY <1>2, <2>1, <2>2, <2>4, GotoWithType DEF CreateTemp, TypeInv, Types
<1>3. CASE SetSize(p)
  <2>1. Local("start", job[p])
    BY <1>1, <1>3 DEF SetSize, Local
  <2>2. job[p].temp \in Temps /\ temp[job[p].temp] \in TempFile
    BY <1>1, <1>3 DEF SetSize, Local, TempInv, TempOf, Kept, Owns, TypeInv, Types
  <2>3. temp' \in [Temps -> TempFile \cup {None}]
    BY <1>1, <1>3, <2>2 DEF SetSize, TypeInv, Types, TempFile, File
  <2> QED BY <1>3, <2>1, <2>3, GotoType DEF SetSize, TypeInv, Types
<1>4. CASE StartContainer(p)
  <2>1. Local("wait", job[p])
    BY <1>1, <1>4 DEF StartContainer, Local
  <2>2. tag[job[p].ref] \in AnyImage
    BY <1>1, <1>4 DEF StartContainer, Local, TypeInv, Types
  <2>3. cont' \in [Temps -> Container \cup {None}]
    BY <1>1, <1>4, <2>2 DEF StartContainer, TypeInv, Types, Container
  <2> QED BY <1>4, <2>1, <2>3, GotoType DEF StartContainer, TypeInv, Types
<1>5. CASE WaitContainer(p)
  <2>1. Local("xattr", job[p])
    BY <1>1, <1>5 DEF WaitContainer, Local
  <2>2. Goto(p, "xattr") \/ Fail(p)
    BY <1>5 DEF WaitContainer
  <2>3. cont' \in [Temps -> Container \cup {None}]
    BY <1>5 DEF WaitContainer, TypeInv, Types
  <2> QED BY <1>5, <2>1, <2>2, <2>3, GotoType, FailType DEF WaitContainer, TypeInv, Types
<1> QED BY <1>2, <1>3, <1>4, <1>5

\* The end of an installation.
LEMMA FinishType ==
  ASSUME TypeInv, TempInv, NEW p \in Procs,
         SetXattr(p) \/ Rename(p) \/ RemoveTemp(p) \/ UnlockImage(p)
  PROVE  TypeInv'
<1>1. pc[p] \in Pcs /\ job[p] \in Job /\ Local(pc[p], job[p])
  BY DEF TypeInv, Types, Control
<1>2. Img(p) \in Images \cup {None} /\ (pc[p] \in LockedPcs => Img(p) \in Images)
  BY <1>1 DEF Img, Job, Local
<1>3. [job[p] EXCEPT !.temp = None] \in Job
  BY <1>1 DEF Job
<1>4. pc[p] \in BuildPcs => Local("unlock", [job[p] EXCEPT !.temp = None])
  BY <1>1 DEF Local, Job
<1>5. pc[p] \in BuildPcs => job[p].temp \in Temps /\ temp[job[p].temp] \in TempFile
  BY <1>1 DEF Local, TempInv, TempOf, Kept, Owns, TypeInv, Types
<1>6. CASE SetXattr(p)
  <2>1. Local("rename", job[p])
    BY <1>1, <1>6 DEF SetXattr, Local
  <2>2. temp' \in [Temps -> TempFile \cup {None}]
    BY <1>2, <1>5, <1>6 DEF SetXattr, TypeInv, Types, TempFile, File
  <2> QED BY <1>6, <2>1, <2>2, GotoType DEF SetXattr, TypeInv, Types
<1>7. CASE Rename(p)
  <2>1. temp' \in [Temps -> TempFile \cup {None}]
    BY <1>7 DEF Rename, TypeInv, Types
  <2>2. temp[job[p].temp].file \in File
    BY <1>5, <1>7 DEF Rename, TempFile
  <2>3. disk' \in [Images -> File \cup {None}]
    BY <1>7, <2>2 DEF Rename, TypeInv, Types
  <2> QED BY <1>3, <1>4, <1>7, <2>1, <2>3, GotoWithType DEF Rename, TypeInv, Types
<1>8. CASE RemoveTemp(p)
  <2>1. temp' \in [Temps -> TempFile \cup {None}]
    BY <1>8 DEF RemoveTemp, TypeInv, Types
  <2>2. Local("unlock", job[p])
    BY <1>1, <1>8 DEF RemoveTemp, Local
  <2>3. GotoWith(p, "unlock", [job[p] EXCEPT !.temp = None]) \/ Goto(p, "unlock")
    BY <1>8 DEF RemoveTemp
  <2> QED BY <1>3, <1>4, <1>8, <2>1, <2>2, <2>3, GotoType, GotoWithType DEF RemoveTemp, TypeInv, Types
<1>9. CASE UnlockImage(p)
  <2>1. pc' \in [Procs -> Pcs] /\ job' \in [Procs -> Job] /\ Control'
    BY <1>9, NoJobType, ControlStep DEF UnlockImage, TypeInv, Types
  <2>2. LockTypeOK' /\ temp' \in [Temps -> TempFile \cup {None}]
    BY <1>2, <1>9, LockTypes, DisownType DEF UnlockImage, TypeInv, Types
  <2> QED BY <1>9, <2>1, <2>2 DEF UnlockImage, TypeInv, Types
<1> QED BY <1>6, <1>7, <1>8, <1>9

\* rm.
LEMMA RmType ==
  ASSUME TypeInv, NEW p \in Procs, CheckCacheDir(p) \/ RemoveFile(p) \/ RemoveDir(p)
  PROVE  TypeInv'
<1>1. pc[p] \in Pcs /\ job[p] \in Job /\ Local(pc[p], job[p])
  BY DEF TypeInv, Types, Control
<1>2. CASE CheckCacheDir(p)
  <2>1. Local("rmCache", job[p])
    BY <1>1, <1>2 DEF CheckCacheDir, Local
  <2>2. Goto(p, "rmCache") \/ Fail(p)
    BY <1>2 DEF CheckCacheDir
  <2> QED BY <1>2, <2>1, <2>2, GotoType, FailType DEF CheckCacheDir, TypeInv, Types
<1>3. CASE RemoveFile(p)
  <2>1. temp' \in [Temps -> TempFile \cup {None}] /\ disk' \in [Images -> File \cup {None}]
    BY <1>3 DEF RemoveFile, TypeInv, Types
  <2> QED BY <1>3, <2>1 DEF RemoveFile, TypeInv, Types, LockTypeOK, Control
<1>4. CASE RemoveDir(p)
  <2>1. Local("unlock", job[p])
    BY <1>1, <1>4 DEF RemoveDir, Local
  <2> QED BY <1>4, <2>1, GotoType DEF RemoveDir, TypeInv, Types
<1> QED BY <1>2, <1>3, <1>4

\* Containers, names and failures.
LEMMA OtherType ==
  ASSUME TypeInv,
         \/ \E t \in Temps : EndContainer(t)
         \/ \E r \in Refs, i \in AnyImage : Retag(r, i)
         \/ \E p \in Procs : Fault(p) \/ Exit(p)
  PROVE  TypeInv'
<1>1. CASE \E t \in Temps : EndContainer(t)
  <2>1. PICK t \in Temps : EndContainer(t)
    BY <1>1
  <2>2. cont[t] \in Container /\ cont[t].img \in AnyImage
    BY <2>1 DEF EndContainer, TypeInv, Types, Container
  <2>3. \A s \in {"done", "failed"} : [cont[t] EXCEPT !.status = s] \in Container
    BY <2>2 DEF Container
  <2>4. cont' \in [Temps -> Container \cup {None}]
    BY <2>1, <2>3 DEF EndContainer, TypeInv, Types
  <2>5. temp[t] # None => [temp[t] EXCEPT !.file.content = cont[t].img] \in TempFile
    BY <2>2 DEF TypeInv, Types, TempFile, File
  <2>6. temp' \in [Temps -> TempFile \cup {None}]
    BY <2>1, <2>5 DEF EndContainer, TypeInv, Types
  <2> QED BY <2>1, <2>4, <2>6 DEF EndContainer, TypeInv, Types, LockTypeOK, Control
<1>2. CASE \E r \in Refs, i \in AnyImage : Retag(r, i)
  BY <1>2 DEF Retag, TypeInv, Types, LockTypeOK, Control
<1>3. ASSUME NEW p \in Procs, Fault(p) PROVE TypeInv'
  <2>1. pc[p] # "idle"
    BY <1>3, FaultsAssumption DEF Fault
  <2> QED BY <1>3, <2>1, FailType DEF Fault, TypeInv, Types
<1>4. ASSUME NEW p \in Procs, Exit(p) PROVE TypeInv'
  <2>1. pc' \in [Procs -> Pcs] /\ job' \in [Procs -> Job] /\ Control'
    BY <1>4, NoJobType, ControlStep DEF Exit, TypeInv, Types
  <2>2. Img(p) \in Images \cup {None}
    BY DEF TypeInv, Types, Img, Job
  <2>3. LockTypeOK'
    BY <1>4, <2>2, LockTypes DEF Exit, TypeInv, Types, LockTypeOK
  <2>4. temp' \in [Temps -> TempFile \cup {None}]
    BY <1>4, DisownType DEF Exit, TypeInv, Types
  <2>5. cont' \in [Temps -> Container \cup {None}]
    BY <1>4 DEF Exit, TypeInv, Types
  <2> QED BY <1>4, <2>1, <2>3, <2>4, <2>5 DEF Exit, TypeInv, Types
<1> QED BY <1>1, <1>2, <1>3, <1>4

LEMMA TypeStep == TypeInv /\ TempInv /\ [Next]_vars => TypeInv'
<1> SUFFICES ASSUME TypeInv, TempInv, [Next]_vars PROVE TypeInv'
  OBVIOUS
<1>1. CASE \E p \in Procs : (\E r \in Refs : Install(p, r)) \/ (\E i \in Images : Rm(p, i))
  BY <1>1, StartType
<1>2. CASE \E p \in Procs : Step(p)
  BY <1>2, FindType, BuildType, FinishType, RmType DEF Step
<1>3. CASE UNCHANGED vars
  BY <1>3 DEF vars, TypeInv, Types, LockTypeOK, Control
<1> QED BY <1>1, <1>2, <1>3, OtherType DEF Next

-----------------------------------------------------------------------------
(* Locks. *)

\* The ways a process goes on, as far as locks are concerned: it stays where
\* it is, it locks its image, or it ends and holds nothing any more.
Stays(p) == /\ UNCHANGED lock
            /\ pc[p] \in LockedPcs <=> pc'[p] \in LockedPcs
            /\ pc[p] \in LockedPcs => Img(p)' = Img(p)

Locks(p) == /\ pc[p] = "lock" /\ pc'[p] \in {"check", "mkdir"}
            /\ Img(p) \in Images /\ job'[p] = job[p]
            /\ TryLock(p, Img(p), "exclusive")

Ends(p) == /\ pc'[p] = "idle"
           /\ IF Img(p) = None THEN UNCHANGED lock ELSE Unlock(p, Img(p))

Acts(p) == \/ \E r \in Refs : Install(p, r)
           \/ \E i \in Images : Rm(p, i)
           \/ Step(p) \/ Fault(p) \/ Exit(p)

LEMMA NextActs ==
  ASSUME Next
  PROVE  \/ \E p \in Procs : Acts(p)
         \/ \E t \in Temps : EndContainer(t)
         \/ \E r \in Refs, i \in AnyImage : Retag(r, i)
BY DEF Next, Acts

\* A process changes nobody else's step or local state.
LEMMA Frame ==
  ASSUME TypeInv, NEW p \in Procs, Acts(p), NEW q \in Procs, q # p
  PROVE  pc'[q] = pc[q] /\ job'[q] = job[q]
<1>1. /\ pc \in [Procs -> Pcs] /\ job \in [Procs -> Job]
  BY DEF TypeInv, Types
<1>2. \A step, j : GotoWith(p, step, j) => pc'[q] = pc[q] /\ job'[q] = job[q]
  BY <1>1 DEF GotoWith
<1>3. \A step : Goto(p, step) => pc'[q] = pc[q] /\ job'[q] = job[q]
  BY <1>1 DEF Goto
<1>4. Fail(p) => pc'[q] = pc[q] /\ job'[q] = job[q]
  BY <1>2 DEF Fail
<1>5. CASE \/ \E r \in Refs : Install(p, r)
           \/ \E i \in Images : Rm(p, i)
  BY <1>2, <1>5 DEF Install, Rm, Begin
<1>6. CASE PullImage(p) \/ LockImage(p) \/ MkdirAll(p) \/ OpenDisk(p) \/ RemoveStale(p)
  BY <1>1, <1>2, <1>3, <1>4, <1>6 DEF PullImage, LockImage, MkdirAll, OpenDisk, RemoveStale
<1>7. CASE CreateTemp(p) \/ SetSize(p) \/ StartContainer(p) \/ WaitContainer(p)
  BY <1>2, <1>3, <1>4, <1>7 DEF CreateTemp, SetSize, StartContainer, WaitContainer
<1>8. CASE SetXattr(p) \/ Rename(p) \/ RemoveTemp(p) \/ UnlockImage(p)
  BY <1>1, <1>2, <1>3, <1>8 DEF SetXattr, Rename, RemoveTemp, UnlockImage
<1>9. CASE CheckCacheDir(p) \/ RemoveFile(p) \/ RemoveDir(p)
  BY <1>3, <1>4, <1>9 DEF CheckCacheDir, RemoveFile, RemoveDir
<1>10. CASE Fault(p) \/ Exit(p)
  BY <1>1, <1>4, <1>10 DEF Fault, Exit
<1> QED BY <1>5, <1>6, <1>7, <1>8, <1>9, <1>10 DEF Acts, Step

LEMMA LockMoves ==
  ASSUME TypeInv, NEW p \in Procs, Acts(p)
  PROVE  Stays(p) \/ Locks(p) \/ Ends(p)
<1>1. /\ pc \in [Procs -> Pcs] /\ job \in [Procs -> Job]
      /\ Local(pc[p], job[p])
  BY DEF TypeInv, Types, Control
<1>2. \A step : /\ Goto(p, step)
                /\ pc[p] \in LockedPcs <=> step \in LockedPcs
                => Stays(p)
  BY <1>1 DEF Goto, Stays, Img
<1>3. \A step, j : /\ GotoWith(p, step, j)
                   /\ pc[p] \in LockedPcs <=> step \in LockedPcs
                   /\ pc[p] \in LockedPcs => j.img = job[p].img
                   => Stays(p)
  BY <1>1 DEF GotoWith, Stays, Img
<1>4. Fail(p) /\ pc[p] # "idle" => Stays(p)
  <2> SUFFICES ASSUME Fail(p), pc[p] # "idle" PROVE Stays(p)
    OBVIOUS
  <2>1. [job[p] EXCEPT !.failed = TRUE].img = job[p].img
    BY <1>1 DEF Job
  <2> QED BY <1>3, <2>1, FailGoes
<1>5. CASE \/ \E r \in Refs : Install(p, r)
           \/ \E i \in Images : Rm(p, i)
  BY <1>3, <1>5 DEF Install, Rm, Begin
<1>6. CASE PullImage(p)
  BY <1>3, <1>6 DEF PullImage
<1>7. CASE LockImage(p)
  <2>1. Img(p) \in Images
    BY <1>1, <1>7 DEF LockImage, Local, Img, Job
  <2> QED BY <1>1, <1>4, <1>7, <2>1 DEF LockImage, Locks
<1>8. CASE MkdirAll(p) \/ OpenDisk(p) \/ RemoveStale(p)
  <2>1. [job[p] EXCEPT !.unread = TRUE].img = job[p].img
    BY <1>1 DEF Job
  <2> QED BY <1>2, <1>3, <1>8, <2>1 DEF MkdirAll, OpenDisk, RemoveStale
<1>9. CASE CreateTemp(p)
  <2>1. \A t : [job[p] EXCEPT !.temp = t].img = job[p].img
    BY <1>1 DEF Job
  <2> QED BY <1>3, <1>9, <2>1 DEF CreateTemp
<1>10. CASE SetSize(p) \/ StartContainer(p) \/ WaitContainer(p) \/ SetXattr(p)
  BY <1>2, <1>4, <1>10 DEF SetSize, StartContainer, WaitContainer, SetXattr
<1>11. CASE Rename(p) \/ RemoveTemp(p)
  <2>1. [job[p] EXCEPT !.temp = None].img = job[p].img
    BY <1>1 DEF Job
  <2> QED BY <1>2, <1>3, <1>11, <2>1 DEF Rename, RemoveTemp
<1>12. CASE UnlockImage(p)
  <2>1. Img(p) # None
    BY <1>1, <1>12 DEF UnlockImage, Local, Img
  <2> QED BY <1>1, <1>12, <2>1 DEF UnlockImage, Ends
<1>13. CASE CheckCacheDir(p) \/ RemoveFile(p) \/ RemoveDir(p)
  <2>1. CASE RemoveFile(p)
    BY <2>1 DEF RemoveFile, Stays, Img
  <2>2. CASE CheckCacheDir(p) \/ RemoveDir(p)
    BY <1>2, <1>4, <2>2 DEF CheckCacheDir, RemoveDir
  <2> QED BY <1>13, <2>1, <2>2
<1>14. CASE Fault(p)
  BY <1>4, <1>14, FaultsAssumption DEF Fault
<1>15. CASE Exit(p)
  BY <1>1, <1>15 DEF Exit, Ends
<1> QED BY <1>5, <1>6, <1>7, <1>8, <1>9, <1>10, <1>11, <1>12, <1>13, <1>14, <1>15 DEF Acts, Step

LEMMA LockStep == TypeInv /\ LockInv /\ [Next]_vars => LockInv'
<1> SUFFICES ASSUME TypeInv, LockInv, [Next]_vars PROVE LockInv'
  OBVIOUS
<1>1. ASSUME NEW p \in Procs, Acts(p) PROVE LockInv'
  <2>1. /\ lock \in [Images -> [Procs -> Modes \cup {"none"}]]
        /\ Img(p) \in Images \cup {None} /\ (pc[p] \in LockedPcs => Img(p) \in Images)
    BY DEF TypeInv, Types, LockTypeOK, Control, Local, Img, Job
  <2>2. \A q \in Procs \ {p} : pc'[q] = pc[q] /\ job'[q] = job[q]
    BY <1>1, Frame
  <2>3. CASE Stays(p)
    BY <2>2, <2>3 DEF Stays, LockInv, Holds, ExclusiveIsAlone, Img
  <2>4. CASE Locks(p)
    <3>1. lock' = [lock EXCEPT ![Img(p)][p] = "exclusive"]
          /\ \A q \in Procs \ {p} : lock[Img(p)][q] = "none"
      BY <2>4 DEF Locks, TryLock, CanLock
    <3>2. Holds'
      BY <2>1, <2>2, <2>4, <3>1 DEF Locks, LockInv, Holds, Img
    <3>3. ExclusiveIsAlone'
      BY <2>4, LockExclusion DEF Locks, Modes, LockInv, TypeInv, Types
    <3> QED BY <3>2, <3>3 DEF LockInv
  <2>5. CASE Ends(p)
    <3>1. Holds'
      BY <2>1, <2>2, <2>5, NoneAssumption DEF Ends, Unlock, LockInv, Holds, Img
    <3>2. ExclusiveIsAlone'
      BY <2>1, <2>5, LockExclusion DEF Ends, LockInv, ExclusiveIsAlone, TypeInv, Types
    <3> QED BY <3>1, <3>2 DEF LockInv
  <2> QED BY <1>1, <2>3, <2>4, <2>5, LockMoves
<1>2. CASE UNCHANGED <<lock, pc, job>>
  BY <1>2 DEF LockInv, Holds, ExclusiveIsAlone, Img
<1> QED BY <1>1, <1>2, NextActs DEF vars, EndContainer, Retag

-----------------------------------------------------------------------------
(* Temporary files and containers. *)

\* Two processes that are past LockImage have different images.
LEMMA SoleHolder ==
  ASSUME TypeInv, LockInv, NEW p \in Procs, NEW q \in Procs,
         pc[p] \in LockedPcs, pc[q] \in LockedPcs, Img(p) = Img(q)
  PROVE  p = q
<1>1. Img(p) \in Images
  BY DEF TypeInv, Types, Control, Local, Img, Job
<1>2. lock[Img(p)][p] = "exclusive" /\ lock[Img(p)][q] = "exclusive"
  BY <1>1 DEF LockInv, Holds
<1> QED BY <1>1, <1>2 DEF LockInv, ExclusiveIsAlone

\* What a process knows lasts as long as nobody touches its file.
LEMMA TempFrame ==
  ASSUME TypeInv, TempInv, NEW q \in Procs, pc'[q] = pc[q], job'[q] = job[q],
         \A t \in Temps : Owns(q, t) \/ Owns(q, t)' => temp'[t] = temp[t] /\ cont'[t] = cont[t]
  PROVE  TempOf(q)'
<1>1. TempOf(q)
  BY DEF TempInv
<1>2. pc[q] \in BuildPcs => job[q].temp \in Temps /\ Owns(q, job[q].temp)
  BY <1>1 DEF TypeInv, Control, Local, TempOf, Kept
<1>3. Owned(q)'
  BY <1>1 DEF TempOf, Owned, Owns, Img
<1>4. Kept(q)'
  BY <1>1, <1>2 DEF TempOf, Kept, Owns
<1>5. Quiet(q)'
  BY <1>1 DEF TempOf, Quiet, Owns, Runs
<1>6. Built(q)'
  BY <1>1, <1>2 DEF TempOf, Built, Img
<1> QED BY <1>3, <1>4, <1>5, <1>6 DEF TempOf

\* A step of p that touches only files it owns, creates or removes.
LEMMA TempMove ==
  ASSUME TypeInv, TempInv, NEW p \in Procs, Acts(p), TempOf(p)',
         \A q \in Procs \ {p}, t \in Temps :
           Owns(q, t) \/ Owns(q, t)' => temp'[t] = temp[t] /\ cont'[t] = cont[t]
  PROVE  TempInv'
<1>1. \A q \in Procs \ {p} : TempOf(q)'
  BY Frame, TempFrame
<1> QED BY <1>1 DEF TempInv

\* Process p owns nothing, and need not.
LEMMA OwnsNothing ==
  ASSUME NEW p \in Procs, pc'[p] \notin BuildPcs, \A t \in Temps : ~Owns(p, t)'
  PROVE  TempOf(p)'
BY DEF TempOf, Owned, Kept, Quiet, Built

LEMMA IdleTemp ==
  ASSUME TypeInv, TempInv, NEW p \in Procs, Acts(p), UNCHANGED <<temp, cont>>,
         pc[p] \notin BuildPcs \cup {"unlock"}, pc'[p] \notin BuildPcs
  PROVE  TempInv'
<1>1. \A t \in Temps : ~Owns(p, t)'
  BY DEF TempInv, TempOf, Owned, Owns
<1> QED BY <1>1, OwnsNothing, TempMove

\* An error return.
LEMMA FailTemp ==
  ASSUME TypeInv, TempInv, NEW p \in Procs, Acts(p), UNCHANGED temp,
         \A t \in Temps : t # job[p].temp => cont'[t] = cont[t],
         pc[p] = "wait" \/ UNCHANGED cont,
         pc[p] \notin {"idle", "unlock"}, Fail(p)
  PROVE  TempInv'
<1>1. /\ pc \in [Procs -> Pcs] /\ job \in [Procs -> Job] /\ Local(pc[p], job[p])
  BY DEF TypeInv, Types, Control
<1>2. TempOf(p)
  BY DEF TempInv
<1>3. /\ [job[p] EXCEPT !.failed = TRUE].temp = job[p].temp
      /\ [job[p] EXCEPT !.failed = TRUE].img = job[p].img
  BY <1>1 DEF Job
<1>4. CASE pc[p] \notin BuildPcs
  <2>1. pc'[p] \in {"idle", "unlock"}
    BY <1>1, <1>4, FailGoes DEF GotoWith
  <2> QED BY <1>4, <2>1, IdleTemp
<1>5. CASE pc[p] \in BuildPcs
  <2>1. \/ pc[p] = "size" /\ pc'[p] = "unlock"
        \/ pc[p] \in TempPcs /\ pc'[p] = "rmTemp"
    BY <1>1, <1>5, FailGoes DEF GotoWith
  <2>2. job'[p] = [job[p] EXCEPT !.failed = TRUE]
    BY <1>1, <1>5, FailGoes DEF GotoWith
  <2>3. TempOf(p)'
    BY <1>2, <1>3, <2>1, <2>2 DEF TempOf, Owned, Kept, Quiet, Built, Owns, Runs, Img
  <2>4. \A q \in Procs \ {p} : ~Owns(q, job[p].temp)
    BY <1>2, <1>5 DEF TempOf, Kept, Owns
  <2>5. \A q \in Procs \ {p}, t \in Temps :
           Owns(q, t) \/ Owns(q, t)' => temp'[t] = temp[t] /\ cont'[t] = cont[t]
    BY <2>4 DEF Owns
  <2> QED BY <2>3, <2>5, TempMove
<1> QED BY <1>4, <1>5

LEMMA BuildTemp ==
  ASSUME TypeInv, LockInv, TempInv, NEW p \in Procs, Acts(p),
         CreateTemp(p) \/ SetSize(p) \/ StartContainer(p)
  PROVE  TempInv'
<1>1. /\ pc \in [Procs -> Pcs] /\ job \in [Procs -> Job] /\ Local(pc[p], job[p])
      /\ temp \in [Temps -> TempFile \cup {None}] /\ cont \in [Temps -> Container \cup {None}]
  BY DEF TypeInv, Types, Control
<1>2. TempOf(p)
  BY DEF TempInv
<1>3. pc[p] \in BuildPcs => job[p].temp \in Temps /\ Owns(p, job[p].temp) /\ temp[job[p].temp] \in TempFile
  BY <1>1, <1>2 DEF Local, TempOf, Kept, Owns
<1>4. CASE CreateTemp(p)
  <2> DEFINE new == [file |-> [content |-> "empty", meta |-> "none"], in |-> Img(p), owner |-> p]
  <2>1. PICK t \in Unused : /\ temp' = [temp EXCEPT ![t] = new]
                            /\ GotoWith(p, "size", [job[p] EXCEPT !.temp = t])
    BY <1>4 DEF CreateTemp
  <2>2. t \in Temps /\ temp[t] = None /\ ~Runs(t)
    BY DEF Unused, Runs
  <2>3. pc[p] = "create" /\ pc'[p] = "size" /\ job'[p] = [job[p] EXCEPT !.temp = t]
    BY <1>1, <1>4, <2>1 DEF CreateTemp, GotoWith
  <2>4. job'[p].temp = t /\ job'[p].img = job[p].img
    BY <1>1, <2>3 DEF Job
  <2>5. new \in TempFile /\ new # None
    <3>1. Img(p) \in Images
      BY <1>1, <2>3 DEF Img, Local, Job
    <3> QED BY <3>1, NoneAssumption DEF TempFile, File
  <2>6. /\ \A q \in Procs : Owns(q, t)' <=> q = p
        /\ \A x \in Temps \ {t} : temp'[x] = temp[x]
        /\ temp'[t] = new /\ ~Owns(p, t)
    BY <1>1, <2>1, <2>2, <2>5 DEF Owns
  <2>7. \A x \in Temps \ {t} : ~Owns(p, x)'
    BY <1>2, <2>3, <2>6 DEF TempOf, Owned, Owns
  <2>8. TempOf(p)'
    <3> HIDE DEF new
    <3>1. new.in = Img(p) /\ new.file.content = "empty"
      BY DEF new
    <3>2. Owned(p)'
      BY <2>3, <2>4, <2>6, <2>7, <3>1 DEF Owned, Img
    <3>3. Kept(p)'
      BY <2>3, <2>4, <2>6 DEF Kept
    <3>4. Quiet(p)'
      BY <1>4, <2>2, <2>3, <2>6, <2>7 DEF CreateTemp, Quiet, Runs
    <3>5. Built(p)'
      BY <2>3 DEF Built
    <3> QED BY <3>2, <3>3, <3>4, <3>5 DEF TempOf
  <2>9. \A q \in Procs \ {p}, x \in Temps :
          Owns(q, x) \/ Owns(q, x)' => temp'[x] = temp[x] /\ cont'[x] = cont[x]
    BY <1>4, <2>2, <2>6 DEF CreateTemp, Owns
  <2> QED BY <2>8, <2>9, TempMove
<1>5. CASE SetSize(p)
  <2>1. pc[p] = "size" /\ pc'[p] = "start" /\ job' = job /\ cont' = cont
    BY <1>1, <1>5 DEF SetSize, Goto
  <2> DEFINE t == job[p].temp
  <2>2. /\ \A x \in Temps \ {t} : temp'[x] = temp[x]
        /\ temp'[t] \in TempFile
        /\ temp'[t].owner = temp[t].owner /\ temp'[t].in = temp[t].in
    BY <1>1, <1>3, <1>5, <2>1 DEF SetSize, TempFile, File
  <2>3. \A x \in Temps, q \in Procs : Owns(q, x)' <=> Owns(q, x)
    BY <1>3, <2>1, <2>2, NoneAssumption DEF Owns
  <2>4. TempOf(p)'
    BY <1>2, <1>3, <2>1, <2>2, <2>3 DEF TempOf, Owned, Kept, Quiet, Built, Runs, Img
  <2>5. \A q \in Procs \ {p}, x \in Temps :
          Owns(q, x) \/ Owns(q, x)' => temp'[x] = temp[x] /\ cont'[x] = cont[x]
    BY <1>3, <2>1, <2>2, <2>3 DEF Owns
  <2> QED BY <2>4, <2>5, TempMove
<1>6. CASE StartContainer(p)
  <2>1. pc[p] = "start" /\ pc'[p] = "wait" /\ job' = job /\ temp' = temp
    BY <1>1, <1>6 DEF StartContainer, Goto
  <2> DEFINE t == job[p].temp
  <2>2. /\ \A x \in Temps \ {t} : cont'[x] = cont[x]
        /\ cont'[t] = [img |-> tag[job[p].ref], status |-> "running"]
    BY <1>1, <1>3, <1>6, <2>1 DEF StartContainer
  <2>3. cont'[t] \in Container /\ cont'[t] # None
    BY <1>1, <2>1, <2>2, NoneAssumption DEF Container, Local, TypeInv, Types
  <2>4. TempOf(p)'
    BY <1>2, <1>3, <2>1, <2>2, <2>3 DEF TempOf, Owned, Kept, Quiet, Built, Owns, Img
  <2>5. \A q \in Procs \ {p}, x \in Temps :
          Owns(q, x) \/ Owns(q, x)' => temp'[x] = temp[x] /\ cont'[x] = cont[x]
    BY <1>3, <2>1, <2>2 DEF Owns
  <2> QED BY <2>4, <2>5, TempMove
<1> QED BY <1>4, <1>5, <1>6

LEMMA FinishTemp ==
  ASSUME TypeInv, LockInv, TempInv, NEW p \in Procs, Acts(p),
         \/ WaitContainer(p) \/ SetXattr(p) \/ Rename(p) \/ RemoveTemp(p)
         \/ UnlockImage(p) \/ Exit(p)
  PROVE  TempInv'
<1>1. /\ pc \in [Procs -> Pcs] /\ job \in [Procs -> Job] /\ Local(pc[p], job[p])
      /\ temp \in [Temps -> TempFile \cup {None}] /\ cont \in [Temps -> Container \cup {None}]
  BY DEF TypeInv, Types, Control
<1>2. TempOf(p)
  BY DEF TempInv
<1>3. pc[p] \in BuildPcs => job[p].temp \in Temps /\ Owns(p, job[p].temp) /\ temp[job[p].temp] \in TempFile
  BY <1>1, <1>2 DEF Local, TempOf, Kept, Owns
<1> DEFINE t == job[p].temp
<1>4. CASE WaitContainer(p)
  <2>1. pc[p] = "wait" /\ temp' = temp /\ cont' = [cont EXCEPT ![t] = None]
    BY <1>4 DEF WaitContainer
  <2>2. CASE cont[t].status = "done"
    <3>1. pc'[p] = "xattr" /\ job' = job
      BY <1>1, <1>4, <2>2 DEF WaitContainer, Goto
    <3>2. TempOf(p)'
      BY <1>1, <1>2, <1>3, <2>1, <2>2, <3>1 DEF TempOf, Owned, Kept, Quiet, Built, Owns, Runs, Img
    <3>3. \A q \in Procs \ {p}, x \in Temps :
            Owns(q, x) \/ Owns(q, x)' => temp'[x] = temp[x] /\ cont'[x] = cont[x]
      BY <1>1, <1>3, <2>1 DEF Owns
    <3> QED BY <3>2, <3>3, TempMove
  <2>3. CASE cont[t].status # "done"
    BY <1>1, <1>4, <2>1, <2>3, FailTemp DEF WaitContainer
  <2> QED BY <2>2, <2>3
<1>5. CASE SetXattr(p)
  <2>1. pc[p] = "xattr" /\ pc'[p] = "rename" /\ job' = job /\ cont' = cont
    BY <1>1, <1>5 DEF SetXattr, Goto
  <2>2. Img(p) \in Images
    BY <1>1, <2>1 DEF Img, Local, Job
  <2>3. /\ \A x \in Temps \ {t} : temp'[x] = temp[x]
        /\ temp'[t] \in TempFile
        /\ temp'[t].owner = temp[t].owner /\ temp'[t].in = temp[t].in
        /\ temp'[t].file.content = temp[t].file.content
        /\ temp'[t].file.meta = Img(p)
    BY <1>1, <1>3, <1>5, <2>1, <2>2 DEF SetXattr, TempFile, File
  <2>4. \A x \in Temps, q \in Procs : Owns(q, x)' <=> Owns(q, x)
    BY <1>3, <2>1, <2>3, NoneAssumption DEF Owns
  <2>5. TempOf(p)'
    BY <1>2, <1>3, <2>1, <2>3, <2>4 DEF TempOf, Owned, Kept, Quiet, Built, Runs, Img
  <2>6. \A q \in Procs \ {p}, x \in Temps :
          Owns(q, x) \/ Owns(q, x)' => temp'[x] = temp[x] /\ cont'[x] = cont[x]
    BY <1>3, <2>1, <2>3, <2>4 DEF Owns
  <2> QED BY <2>5, <2>6, TempMove
<1>6. CASE (Rename(p) \/ RemoveTemp(p)) /\ temp' # temp
  <2>1. /\ pc[p] \in BuildPcs /\ pc'[p] = "unlock" /\ cont' = cont
        /\ temp' = [temp EXCEPT ![t] = None]
    BY <1>1, <1>6 DEF Rename, RemoveTemp, GotoWith
  <2>2. \A x \in Temps : ~Owns(p, x)'
    BY <1>1, <1>2, <1>3, <2>1 DEF TempOf, Owned, Owns
  <2>3. \A q \in Procs \ {p}, x \in Temps :
          Owns(q, x) \/ Owns(q, x)' => temp'[x] = temp[x] /\ cont'[x] = cont[x]
    BY <1>1, <1>3, <2>1 DEF Owns
  <2> QED BY <2>1, <2>2, <2>3, OwnsNothing, TempMove
<1>7. CASE UnlockImage(p) \/ Exit(p)
  <2>1. pc'[p] = "idle" /\ Disown(p)
    BY <1>1, <1>7 DEF UnlockImage, Exit
  <2>2. \A x \in Temps : ~Owns(p, x)'
    BY <1>1, <2>1, NoneAssumption DEF Disown, Owns, TempFile
  <2>3. \A q \in Procs \ {p}, x \in Temps :
          Owns(q, x) \/ Owns(q, x)' => temp'[x] = temp[x]
    BY <1>1, <2>1, NoneAssumption DEF Disown, Owns, TempFile
  <2>4. \A x \in Temps : cont'[x] # cont[x] => pc[p] = "wait" /\ x = t
    BY <1>1, <1>7 DEF UnlockImage, Exit
  <2>5. \A q \in Procs \ {p}, x \in Temps : Owns(q, x) \/ Owns(q, x)' => cont'[x] = cont[x]
    BY <1>3, <2>3, <2>4 DEF Owns
  <2> QED BY <2>1, <2>2, <2>3, <2>5, OwnsNothing, TempMove
<1>8. CASE RemoveTemp(p) /\ temp' = temp
  <2>1. /\ pc[p] = "rmTemp" /\ pc'[p] = "unlock" /\ cont' = cont
        /\ job' = job \/ job'[p] = [job[p] EXCEPT !.temp = None]
        /\ temp[t] # None
    BY <1>1, <1>2, <1>8 DEF RemoveTemp, Goto, GotoWith, TempOf, Kept, Owns
  <2>2. job' = job
    BY <1>1, <1>8, <2>1 DEF RemoveTemp, Goto, Local
  <2>3. TempOf(p)'
    BY <1>2, <1>8, <2>1, <2>2 DEF TempOf, Owned, Kept, Quiet, Built, Owns, Img
  <2> QED BY <1>8, <2>1, <2>3, TempMove
<1>9. CASE Rename(p) /\ temp' = temp
  <2>1. temp'[t] = None /\ Owns(p, t)
    BY <1>1, <1>2, <1>9 DEF Rename, TempOf, Kept, Local
  <2> QED BY <1>9, <2>1 DEF Owns
<1> QED BY <1>4, <1>5, <1>6, <1>7, <1>8, <1>9

\* RemoveAll takes away only files that nobody builds: rm holds the lock.
LEMMA RmTemp ==
  ASSUME TypeInv, LockInv, TempInv, NEW p \in Procs, Acts(p), RemoveFile(p)
  PROVE  TempInv'
<1>1. /\ pc[p] = "rmCache" /\ pc' = pc /\ job' = job /\ cont' = cont
      /\ temp \in [Temps -> TempFile \cup {None}]
  BY DEF RemoveFile, TypeInv, Types
<1>2. \A x \in Temps : ~Owns(p, x)
  BY <1>1 DEF TempInv, TempOf, Owned
<1>3. \A x \in Temps : temp'[x] = temp[x] \/ (temp[x].in = Img(p) /\ temp'[x] = None)
  <2>1. CASE temp' = temp
    BY <2>1
  <2>2. CASE \E t \in Temps : temp[t].in = Img(p) /\ temp' = [temp EXCEPT ![t] = None]
    BY <1>1, <2>2
  <2> QED BY <2>1, <2>2 DEF RemoveFile
<1>4. \A q \in Procs \ {p}, x \in Temps : Owns(q, x) => temp'[x] = temp[x]
  <2> SUFFICES ASSUME NEW q \in Procs \ {p}, NEW x \in Temps, Owns(q, x), temp[x].in = Img(p)
               PROVE  FALSE
    BY <1>3
  <2>1. pc[q] \in LockedPcs /\ Img(q) = Img(p)
    BY DEF TempInv, TempOf, Owned
  <2> QED BY <1>1, <2>1, SoleHolder
<1>5. \A q \in Procs, x \in Temps : Owns(q, x)' => temp'[x] = temp[x]
  BY <1>3 DEF Owns
<1>6. TempOf(p)'
  <2>1. \A x \in Temps : ~Owns(p, x)'
    BY <1>1, <1>2, <1>5 DEF Owns
  <2>2. pc'[p] \notin BuildPcs
    BY <1>1
  <2> QED BY <2>1, <2>2, OwnsNothing
<1> QED BY <1>1, <1>4, <1>5, <1>6, TempMove

\* The container of a file writes to it while its process waits, or after
\* that has given up on it.
LEMMA EndTemp ==
  ASSUME TypeInv, TempInv, NEW t \in Temps, EndContainer(t)
  PROVE  TempInv'
<1>1. /\ pc \in [Procs -> Pcs] /\ job \in [Procs -> Job] /\ Control
      /\ temp \in [Temps -> TempFile \cup {None}] /\ cont \in [Temps -> Container \cup {None}]
      /\ pc' = pc /\ job' = job /\ Runs(t)
  BY DEF TypeInv, Types, EndContainer, Runs
<1>2. PICK s \in {"done", "failed"} :
        /\ s = "done" => temp[t] # None
        /\ cont' = [cont EXCEPT ![t] = IF Awaited(t) THEN [cont[t] EXCEPT !.status = s] ELSE None]
        /\ temp' = IF s = "done" THEN [temp EXCEPT ![t].file.content = cont[t].img] ELSE temp
  BY DEF EndContainer
<1>3. cont[t] \in Container /\ cont[t].img \in AnyImage
  BY <1>1 DEF Runs, Container
<1>4. /\ \A x \in Temps \ {t} : temp'[x] = temp[x] /\ cont'[x] = cont[x]
      /\ temp[t] = None <=> temp'[t] = None
      /\ temp[t] # None => temp'[t].owner = temp[t].owner /\ temp'[t].in = temp[t].in
      /\ s = "done" => temp'[t].file.content \in AnyImage
      /\ s # "done" => temp'[t] = temp[t]
  <2>1. temp[t] # None => temp[t] \in TempFile /\ [temp[t] EXCEPT !.file.content = cont[t].img] \in TempFile
    BY <1>1, <1>3 DEF TempFile, File
  <2>2. temp[t] # None => /\ [temp[t] EXCEPT !.file.content = cont[t].img].owner = temp[t].owner
                          /\ [temp[t] EXCEPT !.file.content = cont[t].img].in = temp[t].in
                          /\ [temp[t] EXCEPT !.file.content = cont[t].img].file.content = cont[t].img
    BY <2>1 DEF TempFile, File
  <2> QED BY <1>1, <1>2, <1>3, <2>1, <2>2, NoneAssumption
<1>5. ~Runs(t)' /\ (Awaited(t) => cont'[t] \in Container /\ cont'[t] # None /\ cont'[t].status = s)
  BY <1>1, <1>2, <1>3, NoneAssumption DEF Runs, Container
<1>6. SUFFICES ASSUME NEW q \in Procs PROVE TempOf(q)'
  BY DEF TempInv
<1>7. TempOf(q) /\ (pc[q] \in BuildPcs => job[q].temp \in Temps)
  BY <1>1 DEF TempInv, Control, Local
<1>8. CASE Owns(q, t)
  <2>1. pc[q] \in {"wait", "rmTemp", "unlock"} /\ t = job[q].temp
    BY <1>1, <1>7, <1>8 DEF TempOf, Quiet, Owned
  <2>2. pc[q] = "wait" => Awaited(t)
    BY <2>1 DEF Awaited
  <2>3. \A x \in Temps : Owns(q, x)' <=> Owns(q, x)
    BY <1>4 DEF Owns
  <2> QED BY <1>1, <1>4, <1>5, <1>7, <1>8, <2>1, <2>2, <2>3 DEF TempOf, Owned, Kept, Quiet, Built, Img
<1>9. CASE ~Owns(q, t)
  <2>1. \A x \in Temps : Owns(q, x) \/ Owns(q, x)' => x # t
    BY <1>4, <1>9 DEF Owns
  <2> QED BY <1>1, <1>4, <2>1, TempFrame
<1> QED BY <1>8, <1>9

LEMMA TempStep == TypeInv /\ LockInv /\ TempInv /\ [Next]_vars => TempInv'
<1> SUFFICES ASSUME TypeInv, LockInv, TempInv, [Next]_vars PROVE TempInv'
  OBVIOUS
<1>1. ASSUME NEW p \in Procs, Acts(p) PROVE TempInv'
  <2>1. pc \in [Procs -> Pcs]
    BY DEF TypeInv, Types
  <2>2. CASE \/ \E r \in Refs : Install(p, r)
             \/ \E i \in Images : Rm(p, i)
             \/ PullImage(p) \/ MkdirAll(p) \/ OpenDisk(p) \/ RemoveStale(p) \/ RemoveDir(p)
    <3>1. /\ UNCHANGED <<temp, cont>>
          /\ pc[p] \notin BuildPcs \cup {"unlock"} /\ pc'[p] \notin BuildPcs
      BY <2>1, <2>2 DEF Install, Rm, Begin, PullImage, MkdirAll, OpenDisk, RemoveStale, RemoveDir,
                        Goto, GotoWith
    <3> QED BY <1>1, <3>1, IdleTemp
  <2>3. CASE LockImage(p)
    <3>1. CASE Fail(p)
      BY <1>1, <2>3, <3>1, FailTemp DEF LockImage
    <3>2. CASE ~Fail(p)
      BY <1>1, <2>1, <2>3, <3>2, IdleTemp DEF LockImage
    <3> QED BY <3>1, <3>2
  <2>4. CASE CheckCacheDir(p)
    <3>1. CASE Fail(p)
      BY <1>1, <2>4, <3>1, FailTemp DEF CheckCacheDir
    <3>2. CASE Goto(p, "rmCache")
      BY <1>1, <2>1, <2>4, <3>2, IdleTemp DEF CheckCacheDir, Goto
    <3> QED BY <2>4, <3>1, <3>2 DEF CheckCacheDir
  <2>5. CASE Fault(p)
    BY <1>1, <2>5, FailTemp, FaultsAssumption DEF Fault
  <2> QED BY <1>1, <2>2, <2>3, <2>4, <2>5, BuildTemp, FinishTemp, RmTemp DEF Acts, Step
<1>2. CASE UNCHANGED <<pc, job, temp, cont>>
  BY <1>2 DEF TempInv, TempOf, Owned, Kept, Quiet, Built, Owns, Runs, Img
<1> QED BY <1>1, <1>2, NextActs, EndTemp DEF vars, Retag

-----------------------------------------------------------------------------
(* The disks. *)

\* The three steps that change a disk, and only that of the image locked.
LEMMA DiskMoves ==
  ASSUME TypeInv, NEW p \in Procs, Acts(p)
  PROVE  /\ disk' # disk => RemoveStale(p) \/ Rename(p) \/ RemoveFile(p)
         /\ \A i \in Images : disk'[i] # disk[i] => pc[p] \in LockedPcs /\ Img(p) = i
<1>1. disk' # disk => RemoveStale(p) \/ Rename(p) \/ RemoveFile(p)
  BY DEF Acts, Step, Install, Rm, Begin, PullImage, LockImage, MkdirAll, OpenDisk, CreateTemp, SetSize,
         StartContainer, WaitContainer, SetXattr, RemoveTemp, CheckCacheDir, RemoveDir, UnlockImage,
         Fault, Exit
<1>2. RemoveStale(p) \/ Rename(p) \/ RemoveFile(p) =>
        \A i \in Images : disk'[i] # disk[i] => pc[p] \in LockedPcs /\ Img(p) = i
  BY DEF RemoveStale, Rename, RemoveFile, TypeInv, Types
<1> QED BY <1>1, <1>2

\* What a process knows of its disk lasts as long as it is the only one there.
LEMMA SeenFrame ==
  ASSUME TypeInv, LockInv, DiskInv, NEW p \in Procs, Acts(p), NEW q \in Procs, q # p
  PROVE  Seen(q)'
<1>1. pc'[q] = pc[q] /\ job'[q] = job[q]
  BY Frame
<1>2. pc[q] \in LockedPcs => disk'[Img(q)] = disk[Img(q)]
  <2> SUFFICES ASSUME pc[q] \in LockedPcs, disk'[Img(q)] # disk[Img(q)] PROVE FALSE
    OBVIOUS
  <2>1. Img(q) \in Images
    BY DEF TypeInv, Types, Control, Local, Img, Job
  <2> QED BY <2>1, DiskMoves, SoleHolder
<1> QED BY <1>1, <1>2 DEF DiskInv, Seen, Ready, NoMeta, Img

\* An error return.
LEMMA FailSeen ==
  ASSUME TypeInv, NEW p \in Procs, pc[p] # "idle", Fail(p)
  PROVE  pc'[p] # "rmTemp" => Seen(p)'
<1>1. /\ pc \in [Procs -> Pcs] /\ job \in [Procs -> Job]
  BY DEF TypeInv, Types
<1>2. [job[p] EXCEPT !.failed = TRUE].failed
  BY <1>1 DEF Job
<1>3. \/ pc'[p] \in {"idle", "rmTemp"}
      \/ pc'[p] = "unlock" /\ job'[p] = [job[p] EXCEPT !.failed = TRUE]
  BY <1>1, FailGoes DEF GotoWith
<1> QED BY <1>2, <1>3 DEF Seen

LEMMA SeenStep ==
  ASSUME TypeInv, TempInv, DiskInv, NEW p \in Procs, Acts(p)
  PROVE  Seen(p)'
<1>1. /\ pc \in [Procs -> Pcs] /\ job \in [Procs -> Job] /\ Local(pc[p], job[p])
      /\ disk \in [Images -> File \cup {None}]
  BY DEF TypeInv, Types, Control
<1>2. Seen(p) /\ (pc[p] \in LockedPcs => Img(p) \in Images)
  BY <1>1 DEF DiskInv, Local, Img, Job
<1>3. CASE \/ \E r \in Refs : Install(p, r)
           \/ \E i \in Images : Rm(p, i)
           \/ PullImage(p) \/ MkdirAll(p)
  BY <1>1, <1>3 DEF Install, Rm, Begin, PullImage, MkdirAll, Goto, GotoWith, Seen
<1>4. CASE Fail(p) /\ UNCHANGED disk /\ pc[p] # "idle"
  <2>1. CASE pc'[p] = "rmTemp"
    <3>1. pc[p] \in TempPcs /\ job' = [job EXCEPT ![p] = [job[p] EXCEPT !.failed = TRUE]]
      BY <1>1, <1>4, <2>1, FailGoes DEF GotoWith
    <3>2. job'[p].img = job[p].img /\ job'[p].unread = job[p].unread
      BY <1>1, <3>1 DEF Job
    <3> QED BY <1>2, <1>4, <2>1, <3>1, <3>2 DEF Seen, Ready, Img
  <2>2. CASE pc'[p] # "rmTemp"
    BY <1>4, <2>2, FailSeen
  <2> QED BY <2>1, <2>2
<1>5. CASE LockImage(p) /\ ~Fail(p)
  BY <1>1, <1>5 DEF LockImage, Seen
<1>6. CASE OpenDisk(p)
  <2>1. disk' = disk /\ job[p].temp = None
    BY <1>1, <1>6 DEF OpenDisk, Local
  <2>2. CASE job' = job
    <3>1. \/ pc'[p] = "unlock" /\ Ready(Img(p))
          \/ pc'[p] = "stale" /\ (NoMeta(Img(p)) \/ job'[p].unread)
          \/ pc'[p] = "create" /\ ~Ready(Img(p))
      BY <1>1, <1>6 DEF OpenDisk, Goto, GotoWith, Job
    <3> QED BY <2>1, <2>2, <3>1 DEF Seen, Ready, NoMeta, Img
  <2>3. CASE job' # job
    <3>1. pc'[p] = "stale" /\ job'[p].unread
      BY <1>1, <1>6, <2>3 DEF OpenDisk, Goto, GotoWith, Job
    <3> QED BY <3>1 DEF Seen
  <2> QED BY <2>2, <2>3
<1>7. CASE RemoveStale(p)
  <2>1. pc[p] = "stale" /\ pc'[p] = "create" /\ job' = job
    BY <1>1, <1>7 DEF RemoveStale, Goto
  <2>2. Img(p) # "none"
    BY <1>2, <2>1, NamesAssumption
  <2>3. disk'[Img(p)] = None \/ disk'[Img(p)] = disk[Img(p)]
    BY <1>1, <1>2, <1>7, <2>1 DEF RemoveStale
  <2> QED BY <1>2, <2>1, <2>2, <2>3 DEF Seen, Ready, NoMeta, Img
<1>8. CASE CreateTemp(p)
  <2>1. \A t : /\ [job[p] EXCEPT !.temp = t].img = job[p].img
               /\ [job[p] EXCEPT !.temp = t].unread = job[p].unread
    BY <1>1 DEF Job
  <2> QED BY <1>1, <1>2, <1>8, <2>1 DEF CreateTemp, GotoWith, Seen, Ready, Img
<1>9. CASE SetSize(p) \/ StartContainer(p) \/ SetXattr(p) \/ (WaitContainer(p) /\ ~Fail(p))
  <2>1. /\ pc[p] \in BuildPcs /\ pc'[p] \in BuildPcs /\ job' = job /\ disk' = disk
    BY <1>1, <1>9 DEF SetSize, StartContainer, SetXattr, WaitContainer, Goto
  <2> QED BY <1>2, <2>1 DEF Seen, Ready, Img
<1>10. CASE Rename(p)
  <2>1. /\ pc[p] = "rename" /\ pc'[p] = "unlock" /\ job'[p] = [job[p] EXCEPT !.temp = None]
        /\ disk' = [disk EXCEPT ![Img(p)] = temp[job[p].temp].file]
    BY <1>1, <1>10 DEF Rename, GotoWith
  <2>2. job'[p].img = job[p].img /\ job'[p].temp = None
    BY <1>1, <2>1 DEF Job
  <2>3. /\ temp[job[p].temp].file \in File
        /\ temp[job[p].temp].file.meta = Img(p)
    BY <1>1, <2>1 DEF Local, TempInv, TempOf, Kept, Built, Owns, TypeInv, Types, TempFile
  <2>4. disk'[Img(p)] = temp[job[p].temp].file
    BY <1>1, <1>2, <2>1
  <2> QED BY <2>1, <2>2, <2>3, <2>4, NoneAssumption DEF Seen, Ready, Img
<1>11. CASE RemoveTemp(p)
  <2>1. /\ pc[p] = "rmTemp" /\ pc'[p] = "unlock"
        /\ job'[p] = [job[p] EXCEPT !.temp = None] \/ job'[p] = job[p]
    BY <1>1, <1>11 DEF RemoveTemp, Goto, GotoWith
  <2>2. job'[p].failed
    BY <1>1, <2>1 DEF Job, Local
  <2> QED BY <2>1, <2>2 DEF Seen
<1>12. CASE UnlockImage(p) \/ Exit(p)
  BY <1>1, <1>12 DEF UnlockImage, Exit, Seen
<1>13. CASE RemoveDir(p) \/ RemoveFile(p) \/ (CheckCacheDir(p) /\ ~Fail(p))
  <2>1. job' = job /\ pc'[p] \in {"unlock", "rmCache"} /\ job[p].cmd = "rm"
    BY <1>1, <1>13 DEF RemoveDir, RemoveFile, CheckCacheDir, Goto, Local
  <2> QED BY <2>1 DEF Seen
<1>14. CASE Fault(p)
  BY <1>4, <1>14, FaultsAssumption DEF Fault
<1> QED BY <1>3, <1>4, <1>5, <1>6, <1>7, <1>8, <1>9, <1>10, <1>11, <1>12, <1>13, <1>14
        DEF Acts, Step, LockImage, WaitContainer, CheckCacheDir

LEMMA DiskStep == TypeInv /\ LockInv /\ TempInv /\ DiskInv /\ [Next]_vars => DiskInv'
<1> SUFFICES ASSUME TypeInv, LockInv, TempInv, DiskInv, [Next]_vars PROVE DiskInv'
  OBVIOUS
<1>1. ASSUME NEW p \in Procs, Acts(p) PROVE DiskInv'
  <2>1. \A q \in Procs : Seen(q)'
    BY <1>1, SeenFrame, SeenStep
  <2>2. MarkedDiskComplete'
    <3> SUFFICES ASSUME NEW i \in Images, disk'[i] # None, disk'[i].meta = i, disk'[i] # disk[i]
                 PROVE  disk'[i].content \in AnyImage
      BY DEF DiskInv, MarkedDiskComplete, Ready
    <3>1. Img(p) = i /\ disk \in [Images -> File \cup {None}]
      BY <1>1, DiskMoves DEF TypeInv, Types
    <3>2. Rename(p)
      BY <1>1, <3>1, DiskMoves DEF RemoveStale, RemoveFile
    <3>3. disk'[i] = temp[job[p].temp].file /\ pc[p] = "rename"
      BY <3>1, <3>2 DEF Rename
    <3> QED BY <3>3 DEF TempInv, TempOf, Built
  <2> QED BY <2>1, <2>2 DEF DiskInv
<1>2. CASE UNCHANGED <<pc, job, disk>>
  BY <1>2 DEF DiskInv, Seen, MarkedDiskComplete, Ready, NoMeta, Img
<1> QED BY <1>1, <1>2, NextActs DEF vars, EndContainer, Retag

-----------------------------------------------------------------------------
(* The theorems. *)

LEMMA Initially == Init => IInv
<1> SUFFICES ASSUME Init PROVE IInv
  OBVIOUS
<1>1. disk \in [Images -> File \cup {None}]
  <2>1. \A i \in Images : FoundDisks(i) \subseteq File \cup {None}
    BY FoundAssumption DEF FoundDisks, File, AnyImage
  <2> QED BY <2>1 DEF Init
<1>2. TypeInv
  BY <1>1, NoJobType DEF Init, LockInit, TypeInv, Types, LockTypeOK, Control
<1>3. LockInv
  BY DEF Init, LockInit, LockInv, Holds, ExclusiveIsAlone
<1>4. TempInv
  BY DEF Init, TempInv, TempOf, Owned, Kept, Quiet, Built, Owns
<1>5. MarkedDiskComplete
  <2> SUFFICES ASSUME NEW i \in Images, Ready(i) PROVE disk[i].content \in AnyImage
    BY DEF MarkedDiskComplete
  <2>1. disk[i] \in FoundDisks(i)
    BY DEF Init
  <2>2. i \notin {"none", "garbled"}
    BY NamesAssumption
  <2> QED BY <2>1, <2>2, FoundAssumption DEF FoundDisks, Ready, AnyImage
<1>6. DiskInv
  BY <1>5 DEF Init, DiskInv, Seen
<1> QED BY <1>2, <1>3, <1>4, <1>6 DEF IInv

LEMMA Invariance == Spec => []IInv
<1>1. IInv /\ [Next]_vars => IInv'
  BY TypeStep, LockStep, TempStep, DiskStep DEF IInv
<1> QED BY <1>1, Initially, PTL DEF Spec

\* Every variable keeps its type, and the temporary file a process builds in
\* is there until it is through with it.
THEOREM DiskTypeCorrect == Spec => []TypeOK
<1>1. IInv => TypeOK
  BY DEF IInv, TypeInv, Types, TypeOK, TempInv, TempOf, Kept, Owns
<1> QED BY <1>1, Invariance, PTL

\* At most one process installs or removes the disk of an image.
THEOREM InstallExclusive == Spec => []ExclusiveIsAlone
<1>1. IInv => ExclusiveIsAlone
  BY DEF IInv, LockInv
<1> QED BY <1>1, Invariance, PTL

\* A disk.raw marked with its image's digest is a complete installation.
THEOREM MarkedDiskCorrect == Spec => []MarkedDiskComplete
<1>1. IInv => MarkedDiskComplete
  BY DEF IInv, DiskInv
<1> QED BY <1>1, Invariance, PTL

\* An Install that succeeds leaves the disk of the image it pulled, and no
\* temporary file.
THEOREM InstallCorrect == Spec => []InstallSucceeds
<1>1. IInv => InstallSucceeds
  <2> SUFFICES ASSUME IInv, NEW p \in Procs, pc[p] = "unlock", job[p].cmd = "run", ~job[p].failed
               PROVE  /\ Ready(Img(p))
                      /\ \A t \in Temps : temp[t] # None => temp[t].owner # p
    BY DEF InstallSucceeds
  <2>1. Ready(Img(p)) /\ job[p].temp = None
    BY DEF IInv, DiskInv, Seen
  <2>2. \A t \in Temps : ~Owns(p, t)
    BY <2>1, NoneAssumption DEF IInv, TempInv, TempOf, Owned
  <2> QED BY <2>1, <2>2 DEF Owns
<1> QED BY <1>1, Invariance, PTL

\* A step that leads to the Unlock past a temporary file of the process finds
\* it empty, or could not remove it.
LEMMA UnlockFinds ==
  ASSUME IInv, NEW p \in Procs, Acts(p), pc'[p] = "unlock", pc[p] # "unlock",
         NEW t \in Temps, temp'[t] # None, temp'[t].owner = p
  PROVE  \/ temp'[t].file.content = "empty"
         \/ RemoveTemp(p) /\ "rmTemp" \in Faults
<1>1. /\ TypeInv /\ pc \in [Procs -> Pcs] /\ job \in [Procs -> Job]
      /\ temp \in [Temps -> TempFile \cup {None}]
      /\ Local(pc[p], job[p]) /\ TempOf(p)
  BY DEF IInv, TypeInv, Types, Control, TempInv
<1>2. CASE RemoveTemp(p)
  <2>1. CASE temp' = temp
    <3>1. \/ "rmTemp" \in Faults
          \/ temp[job[p].temp] = None
      BY <1>1, <1>2, <2>1 DEF RemoveTemp, Local
    <3> QED BY <1>1, <1>2, <3>1 DEF RemoveTemp, TempOf, Kept, Owns
  <2>2. CASE temp' # temp
    <3>1. temp' = [temp EXCEPT ![job[p].temp] = None] /\ pc[p] = "rmTemp"
      BY <1>2, <2>2 DEF RemoveTemp
    <3>2. t # job[p].temp /\ temp'[t] = temp[t]
      BY <1>1, <3>1
    <3> QED BY <1>1, <3>2 DEF TempOf, Owned, Owns
  <2> QED BY <2>1, <2>2
<1>3. CASE Rename(p)
  <2>1. t # job[p].temp /\ temp'[t] = temp[t]
    BY <1>1, <1>3 DEF Rename
  <2> QED BY <1>1, <2>1 DEF TempOf, Owned, Owns
<1>4. CASE OpenDisk(p) \/ RemoveDir(p)
  BY <1>1, <1>4 DEF OpenDisk, RemoveDir, TempOf, Owned, Owns
<1>5. CASE Fail(p) /\ pc[p] # "idle" /\ UNCHANGED temp
  <2>1. pc[p] \in LockedPcs \ TempPcs
    BY <1>1, <1>5, FailGoes DEF GotoWith
  <2> QED BY <1>1, <1>5, <2>1 DEF TempOf, Owned, Owns
<1>6. CASE LockImage(p) /\ ~Fail(p)
  BY <1>1, <1>6 DEF LockImage
<1>7. CASE \/ PullImage(p) \/ MkdirAll(p) \/ RemoveStale(p) \/ CreateTemp(p) \/ SetSize(p)
           \/ StartContainer(p) \/ SetXattr(p)
  BY <1>1, <1>7 DEF PullImage, MkdirAll, RemoveStale, CreateTemp, SetSize, StartContainer, SetXattr,
     Goto, GotoWith
<1>8. CASE (WaitContainer(p) \/ CheckCacheDir(p)) /\ ~Fail(p)
  BY <1>1, <1>8 DEF WaitContainer, CheckCacheDir, Goto
<1>9. CASE \/ \E r \in Refs : Install(p, r)
           \/ \E i \in Images : Rm(p, i)
           \/ RemoveFile(p) \/ UnlockImage(p) \/ Exit(p)
  BY <1>1, <1>9 DEF Install, Rm, Begin, GotoWith, RemoveFile, UnlockImage, Exit
<1>10. CASE Fault(p)
  BY <1>5, <1>10, FaultsAssumption DEF Fault
<1> QED BY <1>2, <1>3, <1>4, <1>5, <1>6, <1>7, <1>8, <1>9, <1>10
        DEF Acts, Step, LockImage, WaitContainer, CheckCacheDir

\* An Install that ends with an error leaves no temporary file but an empty
\* one, or one it could not remove.
THEOREM ReturnCorrect == Spec => ReturnLeavesNoBigTemp
<1>1. IInv /\ [Next]_vars =>
        [\A p \in Procs, t \in Temps :
           pc'[p] = "unlock" /\ pc[p] # "unlock" /\ temp'[t] # None /\ temp'[t].owner = p
             => \/ temp'[t].file.content = "empty"
                \/ RemoveTemp(p) /\ "rmTemp" \in Faults]_vars
  <2> SUFFICES ASSUME IInv, Next, NEW p \in Procs, NEW t \in Temps,
                      pc'[p] = "unlock", pc[p] # "unlock", temp'[t] # None, temp'[t].owner = p
               PROVE  \/ temp'[t].file.content = "empty"
                      \/ RemoveTemp(p) /\ "rmTemp" \in Faults
    OBVIOUS
  <2>1. Acts(p)
    <3>1. \A q \in Procs : Acts(q) => q = p
      BY Frame DEF IInv
    <3>2. \E q \in Procs : Acts(q)
      BY NextActs DEF EndContainer, Retag
    <3> QED BY <3>1, <3>2
  <2> QED BY <2>1, UnlockFinds
<1> QED BY <1>1, Invariance, PTL DEF Spec, ReturnLeavesNoBigTemp

\* The disk a VM may be running on is taken away only by rm, or by an Install
\* that could not read its attribute, and never written to.
THEOREM ReadyDiskCorrect == Spec => ReadyDiskKept
<1>1. IInv /\ [Next]_vars =>
        [\A i \in Images : Ready(i) /\ disk'[i] # disk[i] =>
           \E p \in Procs : /\ Img(p) = i
                             /\ \/ job[p].cmd = "rm" /\ disk'[i] = None
                                \/ job[p].unread /\ (disk'[i] = None \/ Ready(i)')]_vars
  <2> SUFFICES ASSUME IInv, Next, NEW i \in Images, Ready(i), disk'[i] # disk[i]
               PROVE  \E p \in Procs : /\ Img(p) = i
                                        /\ \/ job[p].cmd = "rm" /\ disk'[i] = None
                                           \/ job[p].unread /\ (disk'[i] = None \/ Ready(i)')
    OBVIOUS
  <2>1. PICK p \in Procs : Acts(p)
    BY NextActs DEF EndContainer, Retag
  <2>2. /\ Img(p) = i /\ disk \in [Images -> File \cup {None}]
        /\ Seen(p) /\ TempOf(p) /\ Local(pc[p], job[p])
    BY <2>1, DiskMoves DEF IInv, DiskInv, TempInv, TypeInv, Types, Control
  <2>3. CASE RemoveStale(p)
    <3>1. job[p].unread
      BY <2>2, <2>3, NamesAssumption DEF RemoveStale, Seen, Ready, NoMeta
    <3> QED BY <2>2, <2>3, <3>1 DEF RemoveStale
  <2>4. CASE Rename(p)
    <3>1. job[p].unread
      BY <2>2, <2>4 DEF Rename, Seen
    <3>2. disk'[i] = temp[job[p].temp].file /\ temp[job[p].temp].file.meta = i
      BY <2>2, <2>4 DEF Rename, TempOf, Built
    <3>3. temp[job[p].temp] \in TempFile
      BY <2>2, <2>4 DEF Rename, TempOf, Kept, Owns, Local, IInv, TypeInv, Types
    <3>4. disk'[i] # None
      BY <3>2, <3>3, NoneAssumption DEF TempFile
    <3> QED BY <2>2, <3>1, <3>2, <3>4 DEF Ready
  <2>5. CASE RemoveFile(p)
    BY <2>2, <2>5 DEF RemoveFile, Local
  <2> QED BY <2>1, <2>3, <2>4, <2>5, DiskMoves DEF IInv
<1> QED BY <1>1, Invariance, PTL DEF Spec, ReadyDiskKept

-----------------------------------------------------------------------------
(* Install and rm implement ImageLifecycle. *)

\* The variables of ImageLifecycle, as Lifecycle maps them.
StateOf == [i \in Images |-> IF Ready(i) THEN "installed" ELSE "absent"]
UsersOf == [i \in Images |-> {p \in Procs : lock[i][p] # "none"}]

\* Whoever is past LockImage is the sole user of the image.
LEMMA SoleUser ==
  ASSUME IInv, NEW p \in Procs, pc[p] \in LockedPcs
  PROVE  UsersOf[Img(p)] = {p}
<1>1. Img(p) \in Images
  BY DEF IInv, TypeInv, Types, Control, Local, Img, Job
<1>2. lock[Img(p)][p] = "exclusive"
  BY <1>1 DEF IInv, LockInv, Holds
<1>3. \A q \in Procs \ {p} : lock[Img(p)][q] = "none"
  BY <1>1, <1>2 DEF IInv, LockInv, ExclusiveIsAlone
<1> QED BY <1>1, <1>2, <1>3 DEF UsersOf

\* A step that changes the disk installs or removes, or does not show.
LEMMA DiskRefines ==
  ASSUME IInv, NEW p \in Procs, Acts(p), disk' # disk
  PROVE  Lifecycle!Next \/ UNCHANGED <<StateOf, UsersOf>>
<1>1. /\ disk \in [Images -> File \cup {None}]
      /\ Seen(p) /\ Local(pc[p], job[p]) /\ TempOf(p)
  BY DEF IInv, TypeInv, Types, Control, DiskInv, TempInv
<1>2. RemoveStale(p) \/ Rename(p) \/ RemoveFile(p)
  BY DiskMoves DEF IInv
<1>3. PICK i \in Images : i = Img(p) /\ pc[p] \in LockedPcs
  BY <1>2 DEF IInv, TypeInv, Types, Control, Local, Img, Job, RemoveStale, Rename, RemoveFile
<1>4. UsersOf' = UsersOf /\ UsersOf[i] = {p}
  <2>1. lock' = lock
    BY <1>2 DEF RemoveStale, Rename, RemoveFile, Goto, GotoWith
  <2>2. UsersOf' = UsersOf
    BY <2>1 DEF UsersOf
  <2> QED BY <1>3, <2>2, SoleUser
<1>5. \A x \in Images \ {i} : Ready(x)' <=> Ready(x)
  BY <1>3, DiskMoves DEF IInv, Ready
<1>6. CASE Ready(i)' <=> Ready(i)
  <2>1. \A x \in Images : Ready(x)' <=> Ready(x)
    BY <1>5, <1>6
  <2> QED BY <1>4, <2>1 DEF StateOf
<1>7. CASE ~Ready(i) /\ Ready(i)'
  <2>1. StateOf[i] = "absent" /\ StateOf' = [StateOf EXCEPT ![i] = "installed"]
    BY <1>3, <1>5, <1>7 DEF StateOf
  <2>2. Lifecycle!Install(p, i)
    BY <1>4, <2>1 DEF Lifecycle!Install, Lifecycle!Move, StateOf, UsersOf
  <2> QED BY <1>3, <2>2 DEF Lifecycle!Next
<1>8. CASE Ready(i) /\ ~Ready(i)'
  <2>1. StateOf[i] = "installed" /\ StateOf' = [StateOf EXCEPT ![i] = "absent"]
    BY <1>3, <1>5, <1>8 DEF StateOf
  <2>2. Lifecycle!Remove(p, i)
    BY <1>4, <2>1 DEF Lifecycle!Remove, Lifecycle!Move, StateOf, UsersOf
  <2> QED BY <1>3, <2>2 DEF Lifecycle!Next
<1> QED BY <1>6, <1>7, <1>8

\* A step that leaves the disks alone is a command that comes to the image or
\* leaves it, or does not show.
LEMMA LockRefines ==
  ASSUME IInv, NEW p \in Procs, Acts(p), disk' = disk
  PROVE  Lifecycle!Next \/ UNCHANGED <<StateOf, UsersOf>>
<1>1. /\ lock \in [Images -> [Procs -> Modes \cup {"none"}]]
      /\ Img(p) \in Images \cup {None}
  BY DEF IInv, TypeInv, Types, LockTypeOK, Img, Job
<1>2. StateOf' = StateOf
  BY DEF StateOf, Ready
<1>3. CASE Stays(p)
  BY <1>2, <1>3 DEF Stays, UsersOf
<1>4. CASE Locks(p)
  <2>1. PICK i \in Images : i = Img(p) /\ lock' = [lock EXCEPT ![i][p] = "exclusive"]
    BY <1>4 DEF Locks, TryLock
  <2>2. lock[i][p] = "none"
    BY <1>4, <2>1 DEF Locks, IInv, LockInv, Holds
  <2>3. p \notin UsersOf[i] /\ UsersOf' = [UsersOf EXCEPT ![i] = @ \cup {p}]
    BY <1>1, <2>1, <2>2 DEF UsersOf
  <2>4. Lifecycle!Enter(p, i)
    BY <1>2, <2>3 DEF Lifecycle!Enter, StateOf, UsersOf
  <2> QED BY <2>1, <2>4 DEF Lifecycle!Next
<1>5. CASE Ends(p)
  <2>1. CASE Img(p) = None \/ lock[Img(p)][p] = "none"
    <3>1. lock' = lock
      BY <1>1, <1>5, <2>1 DEF Ends, Unlock
    <3> QED BY <1>2, <3>1 DEF UsersOf
  <2>2. CASE Img(p) # None /\ lock[Img(p)][p] # "none"
    <3>1. PICK i \in Images : i = Img(p) /\ lock' = [lock EXCEPT ![i][p] = "none"]
      BY <1>1, <1>5, <2>2 DEF Ends, Unlock
    <3>2. p \in UsersOf[i] /\ UsersOf' = [UsersOf EXCEPT ![i] = @ \ {p}]
      BY <1>1, <2>2, <3>1 DEF UsersOf
    <3>3. Lifecycle!Leave(p, i)
      BY <1>2, <3>2 DEF Lifecycle!Leave, StateOf, UsersOf
    <3> QED BY <3>1, <3>3 DEF Lifecycle!Next
  <2> QED BY <2>1, <2>2
<1> QED BY <1>3, <1>4, <1>5, LockMoves DEF IInv

\* Install, step by step, is an installation that happens at once, at the
\* rename, and rm a removal.
THEOREM DiskRefinement == Spec => DiskImplementsLifecycle
<1>1. Init => Lifecycle!Init
  BY DEF Init, LockInit, Lifecycle!Init
<1>2. IInv /\ [Next]_vars => [Lifecycle!Next]_<<StateOf, UsersOf>>
  <2> SUFFICES ASSUME IInv, [Next]_vars PROVE Lifecycle!Next \/ UNCHANGED <<StateOf, UsersOf>>
    OBVIOUS
  <2>1. CASE \E p \in Procs : Acts(p)
    BY <2>1, DiskRefines, LockRefines
  <2>2. CASE UNCHANGED <<lock, disk>>
    BY <2>2 DEF StateOf, UsersOf, Ready
  <2> QED BY <2>1, <2>2, NextActs DEF vars, EndContainer, Retag
<1>3. QED
  BY <1>1, <1>2, Invariance, PTL DEF Spec, DiskImplementsLifecycle, Lifecycle!Spec, StateOf, UsersOf
=============================================================================
