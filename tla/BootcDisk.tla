------------------------------ MODULE BootcDisk ------------------------------
(***************************************************************************)
(* BootcDisk.Install in detail (pkg/bootc/bootc_disk.go): several commands *)
(* install or remove the disks of several images in the shared cache.  The *)
(* disk is built by a podman container in a temporary file of the image's  *)
(* cache directory, marked with the image's digest in an extended          *)
(* attribute, and renamed to disk.raw.                                     *)
(*                                                                         *)
(* The container runs in podman's machine: it goes on when the process     *)
(* that started it dies.  Any call in Faults may fail, a process may end   *)
(* at any step, and others may tag images and install containers may fail  *)
(* as they like.                                                           *)
(***************************************************************************)
EXTENDS CacheLock

CONSTANTS Refs,      \* names a user gives to images
          Others,    \* images the names may stand for whose disks are left out
          Temps,     \* names of temporary files; bounds how many pile up
          Found,     \* digests disk.raw may be marked with at the start
          Faults     \* the steps whose call may fail for reasons of its own,
                     \* and "getxattr", the second call of step "open"

\* Steps at which Install has not locked the image yet.
FreePcs == {"idle", "pull", "lock"}

\* Steps at which the temporary file exists and its removal is deferred.
TempPcs == {"start", "wait", "xattr", "rename", "rmTemp"}

LockedPcs == {"mkdir", "open", "stale", "create", "size", "check", "rmCache",
              "unlock"} \cup TempPcs

Pcs == FreePcs \cup LockedPcs

ASSUME FaultsAssumption == Faults \subseteq (Pcs \ {"idle", "unlock"}) \cup {"getxattr"}
ASSUME OthersAssumption == Images \cap Others = {}
ASSUME FoundAssumption == Found \subseteq Images \cup {"none", "garbled"}
ASSUME NamesAssumption == (Images \cup Others) \cap {"none", "garbled", "empty", "partial"} = {}

\* Everything a name may stand for.
AnyImage == Images \cup Others

VARIABLES tag,    \* tag[r]: the image podman knows by the name r
          pc,     \* the next step of each process
          job,    \* its local state
          dir,    \* dir[i]: the cache directory of image i exists
          disk,   \* disk[i]: its disk.raw, or None
          temp,   \* temp[t]: the temporary file t, or None
          cont    \* cont[t]: the install container that writes to t, or None

vars == <<lock, tag, pc, job, dir, disk, temp, cont>>

\* What is in a disk file: nothing ("empty"), the work of an installer that
\* is not through ("partial"), or an image.  meta is the digest in the
\* attribute user.bootc.meta, "none" without it, "garbled" if it does not
\* parse.
File == [content : AnyImage \cup {"empty", "partial"}, meta : Images \cup {"none", "garbled"}]

\* in: the image in whose directory it is.  owner: the process whose Install
\* made it and is not over (not in the file system: for the properties).
TempFile == [file : File, in : Images, owner : Procs \cup {None}]

Container == [img : AnyImage, status : {"running", "done", "failed"}]

ASSUME NoneAssumption ==
  /\ None \notin Procs \cup Images \cup Others \cup Refs \cup Temps
  /\ None \notin {"none", "garbled", "empty", "partial"}
  /\ None \notin File \cup TempFile \cup Container

\* unread: Fgetxattr failed on the disk (not looked at again: for the
\* properties).
NoJob == [cmd |-> None, ref |-> None, img |-> None, temp |-> None,
          unread |-> FALSE, failed |-> FALSE]

Img(p) == job[p].img

Goto(p, step) == pc' = [pc EXCEPT ![p] = step] /\ UNCHANGED <<job, lock>>

GotoWith(p, step, local) ==
  pc' = [pc EXCEPT ![p] = step] /\ job' = [job EXCEPT ![p] = local] /\ UNCHANGED lock

\* Mutant: without the deferred removal.
FailKeepsTemp(p) ==
  IF pc[p] \in FreePcs THEN GotoWith(p, "idle", NoJob)
                       ELSE GotoWith(p, "unlock", [job[p] EXCEPT !.failed = TRUE])

\* The error return.  Before the lock, nothing is deferred; after it, the
\* Unlock; once the temporary file has its size, its removal as well.
Fail(p) ==
  CASE pc[p] \in FreePcs -> GotoWith(p, "idle", NoJob)
    [] pc[p] \in TempPcs -> GotoWith(p, "rmTemp", [job[p] EXCEPT !.failed = TRUE])
    [] OTHER             -> GotoWith(p, "unlock", [job[p] EXCEPT !.failed = TRUE])

-----------------------------------------------------------------------------
(* Install: the image, the lock, the disk that may be there already. *)

Begin(p, step, local) ==
  /\ pc[p] = "idle"
  /\ GotoWith(p, step, local)
  /\ UNCHANGED <<tag, dir, disk, temp, cont>>

Install(p, r) == Begin(p, "pull", [NoJob EXCEPT !.cmd = "run", !.ref = r])

Rm(p, i) == Begin(p, "lock", [NoJob EXCEPT !.cmd = "rm", !.img = i])

\* pullImage fixes the id; the name is used again by StartContainer.  With the
\* id of another image, Install goes on in a directory that is left out here.
PullImage(p) ==
  /\ pc[p] = "pull"
  /\ IF tag[job[p].ref] \in Images
     THEN GotoWith(p, "lock", [job[p] EXCEPT !.img = tag[job[p].ref]])
     ELSE GotoWith(p, "idle", NoJob)
  /\ UNCHANGED <<tag, dir, disk, temp, cont>>

\* Mutant: in shared mode.
LockImageShared(p) ==
  /\ pc[p] = "lock"
  /\ \/ /\ TryLock(p, Img(p), "shared")
        /\ pc' = [pc EXCEPT ![p] = IF job[p].cmd = "rm" THEN "check" ELSE "mkdir"]
        /\ UNCHANGED job
     \/ ~CanLock(p, Img(p), "shared") /\ Fail(p)
  /\ UNCHANGED <<tag, dir, disk, temp, cont>>

\* Install and rm both lock exclusively.
LockImage(p) ==
  /\ pc[p] = "lock"
  /\ \/ /\ TryLock(p, Img(p), "exclusive")
        /\ pc' = [pc EXCEPT ![p] = IF job[p].cmd = "rm" THEN "check" ELSE "mkdir"]
        /\ UNCHANGED job
     \/ ~CanLock(p, Img(p), "exclusive") /\ Fail(p)
  /\ UNCHANGED <<tag, dir, disk, temp, cont>>

MkdirAll(p) ==
  /\ pc[p] = "mkdir"
  /\ dir' = [dir EXCEPT ![Img(p)] = TRUE]
  /\ Goto(p, "open")
  /\ UNCHANGED <<tag, disk, temp, cont>>

\* Mutants: any disk.raw will do; a disk without the attribute will do.
OpenDiskUnread(p) ==
  /\ pc[p] = "open"
  /\ Goto(p, IF disk[Img(p)] = None THEN "create" ELSE "unlock")
  /\ UNCHANGED <<tag, dir, disk, temp, cont>>

OpenDiskAlwaysStale(p) ==
  /\ pc[p] = "open"
  /\ Goto(p, IF disk[Img(p)] = None THEN "create" ELSE "stale")
  /\ UNCHANGED <<tag, dir, disk, temp, cont>>

\* The disk of i is there and marked with the digest of i.
Ready(i) == disk[i] # None /\ disk[i].meta = i

NoMeta(i) == disk[i] # None /\ disk[i].meta = "none"

\* getOrInstallImageToDisk: a disk with the image's digest is kept, one
\* without a digest removed, any other replaced at the end.  Whatever error
\* Fgetxattr returns is taken for a missing attribute.
OpenDisk(p) ==
  /\ pc[p] = "open"
  /\ \/ Goto(p, CASE Ready(Img(p))  -> "unlock"
                  [] NoMeta(Img(p)) -> "stale"
                  [] OTHER          -> "create")
     \/ /\ "getxattr" \in Faults /\ disk[Img(p)] # None
        /\ GotoWith(p, "stale", [job[p] EXCEPT !.unread = TRUE])
  /\ UNCHANGED <<tag, dir, disk, temp, cont>>

\* The error of os.Remove is dropped.
RemoveStale(p) ==
  /\ pc[p] = "stale"
  /\ \/ disk' = [disk EXCEPT ![Img(p)] = None]
     \/ "stale" \in Faults /\ UNCHANGED disk
  /\ Goto(p, "create")
  /\ UNCHANGED <<tag, dir, temp, cont>>

-----------------------------------------------------------------------------
(* bootcInstallImageToDisk. *)

Unused == {t \in Temps : temp[t] = None /\ (cont[t] # None => cont[t].status # "running")}

\* os.CreateTemp picks a name of its own.
CreateTemp(p) ==
  /\ pc[p] = "create"
  /\ \E t \in Unused :
       /\ temp' = [temp EXCEPT ![t] = [file |-> [content |-> "empty", meta |-> "none"],
                                      in |-> Img(p), owner |-> p]]
       /\ GotoWith(p, "size", [job[p] EXCEPT !.temp = t])
  /\ UNCHANGED <<tag, dir, disk, cont>>

\* FromHumanSize and Ftruncate.  Their errors return before the removal is
\* deferred.
SetSize(p) ==
  /\ pc[p] = "size"
  /\ temp' = [temp EXCEPT ![job[p].temp].file.content = "partial"]
  /\ Goto(p, "start")
  /\ UNCHANGED <<tag, dir, disk, cont>>

\* podman run by the name the user gave, not by the id of pullImage.
StartContainer(p) ==
  /\ pc[p] = "start"
  /\ cont' = [cont EXCEPT ![job[p].temp] = [img |-> tag[job[p].ref], status |-> "running"]]
  /\ Goto(p, "wait")
  /\ UNCHANGED <<tag, dir, disk, temp>>

\* Mutant: without the error of c.Run.
WaitContainerUnchecked(p) ==
  /\ pc[p] = "wait"
  /\ cont[job[p].temp].status # "running"
  /\ cont' = [cont EXCEPT ![job[p].temp] = None]
  /\ Goto(p, "xattr")
  /\ UNCHANGED <<tag, dir, disk, temp>>

\* c.Run returns with the container's exit code (--rm removes it then), or,
\* as a fault, when podman loses sight of a container that still runs.
WaitContainer(p) ==
  /\ pc[p] = "wait"
  /\ cont[job[p].temp].status # "running"
  /\ cont' = [cont EXCEPT ![job[p].temp] = None]
  /\ IF cont[job[p].temp].status = "done" THEN Goto(p, "xattr") ELSE Fail(p)
  /\ UNCHANGED <<tag, dir, disk, temp>>

SetXattr(p) ==
  /\ pc[p] = "xattr"
  /\ temp' = [temp EXCEPT ![job[p].temp].file.meta = Img(p)]
  /\ Goto(p, "rename")
  /\ UNCHANGED <<tag, dir, disk, cont>>

\* os.Rename replaces disk.raw in one step, and the deferred removal is off.
Rename(p) ==
  /\ pc[p] = "rename"
  /\ disk' = [disk EXCEPT ![Img(p)] = temp[job[p].temp].file]
  /\ temp' = [temp EXCEPT ![job[p].temp] = None]
  /\ GotoWith(p, "unlock", [job[p] EXCEPT !.temp = None])
  /\ UNCHANGED <<tag, dir, cont>>

\* The deferred os.Remove of a failed installation, whose error is dropped.
RemoveTemp(p) ==
  /\ pc[p] = "rmTemp"
  /\ \/ /\ temp' = [temp EXCEPT ![job[p].temp] = None]
        /\ GotoWith(p, "unlock", [job[p] EXCEPT !.temp = None])
     \/ "rmTemp" \in Faults /\ Goto(p, "unlock") /\ UNCHANGED temp
  /\ UNCHANGED <<tag, dir, disk, cont>>

\* The process is through with its temporary file, if it still exists.
Disown(p) ==
  temp' = [t \in Temps |-> IF temp[t] # None /\ temp[t].owner = p
                           THEN [temp[t] EXCEPT !.owner = None] ELSE temp[t]]

\* The deferred Unlock of Install and rm.
UnlockImage(p) ==
  /\ pc[p] = "unlock"
  /\ Unlock(p, Img(p))
  /\ pc' = [pc EXCEPT ![p] = "idle"]
  /\ job' = [job EXCEPT ![p] = NoJob]
  /\ Disown(p)
  /\ UNCHANGED <<tag, dir, disk, cont>>

-----------------------------------------------------------------------------
(* rm: RemoveAll takes away one file after the other, then the directory. *)

\* lockVM looks again for the directory that rm found.
CheckCacheDir(p) ==
  /\ pc[p] = "check"
  /\ IF dir[Img(p)] THEN Goto(p, "rmCache") ELSE Fail(p)
  /\ UNCHANGED <<tag, dir, disk, temp, cont>>

RemoveFile(p) ==
  /\ pc[p] = "rmCache"
  /\ \/ /\ disk[Img(p)] # None
        /\ disk' = [disk EXCEPT ![Img(p)] = None]
        /\ UNCHANGED temp
     \/ \E t \in Temps : /\ temp[t] # None /\ temp[t].in = Img(p)
                         /\ temp' = [temp EXCEPT ![t] = None]
                         /\ UNCHANGED disk
  /\ UNCHANGED <<lock, tag, pc, job, dir, cont>>

RemoveDir(p) ==
  /\ pc[p] = "rmCache"
  /\ disk[Img(p)] = None
  /\ \A t \in Temps : temp[t] # None => temp[t].in # Img(p)
  /\ dir' = [dir EXCEPT ![Img(p)] = FALSE]
  /\ Goto(p, "unlock")
  /\ UNCHANGED <<tag, disk, temp, cont>>

-----------------------------------------------------------------------------
(* Containers, names, failures. *)

\* Somebody still waits for the container of t.
Awaited(t) == \E p \in Procs : pc[p] = "wait" /\ job[p].temp = t

\* The container of t ends; an image in the file means it installed it.
\* bootc writes to the file it found at its start, if there still is one.
EndContainer(t) ==
  /\ cont[t] # None /\ cont[t].status = "running"
  /\ \E s \in {"done", "failed"} :
       /\ s = "done" => temp[t] # None
       /\ cont' = [cont EXCEPT ![t] = IF Awaited(t) THEN [cont[t] EXCEPT !.status = s] ELSE None]
       /\ temp' = IF s = "done" THEN [temp EXCEPT ![t].file.content = cont[t].img] ELSE temp
  /\ UNCHANGED <<lock, tag, pc, job, dir, disk>>

\* podman pull, build or tag in another terminal.
Retag(r, i) ==
  /\ tag[r] # i
  /\ tag' = [tag EXCEPT ![r] = i]
  /\ UNCHANGED <<lock, pc, job, dir, disk, temp, cont>>

Fault(p) ==
  /\ pc[p] \in Faults \ {"stale", "rmTemp"}
  /\ Fail(p)
  /\ UNCHANGED <<tag, dir, disk, temp, cont>>

\* The process ends: killed, or by os.Exit in the signal handler of
\* podman-bootc.go, whose Cleanup does nothing, since no code sets
\* bootcInstallContainerId.  A container that nobody waits for any more is
\* left running, or was killed with its podman client.
Exit(p) ==
  /\ pc[p] # "idle"
  /\ IF Img(p) = None THEN UNCHANGED lock ELSE Unlock(p, Img(p))
  /\ pc' = [pc EXCEPT ![p] = "idle"]
  /\ job' = [job EXCEPT ![p] = NoJob]
  /\ Disown(p)
  /\ IF pc[p] = "wait"
     THEN cont' \in {[cont EXCEPT ![job[p].temp] = None],
                     [cont EXCEPT ![job[p].temp] =
                        IF @.status = "running" THEN @ ELSE None]}
     ELSE UNCHANGED cont
  /\ UNCHANGED <<tag, dir, disk>>

Step(p) ==
  \/ PullImage(p) \/ LockImage(p) \/ MkdirAll(p) \/ OpenDisk(p) \/ RemoveStale(p)
  \/ CreateTemp(p) \/ SetSize(p) \/ StartContainer(p) \/ WaitContainer(p)
  \/ SetXattr(p) \/ Rename(p) \/ RemoveTemp(p)
  \/ CheckCacheDir(p) \/ RemoveFile(p) \/ RemoveDir(p) \/ UnlockImage(p)

\* disk.raw at the start: made by Install, or restored or copied by hand with
\* no attribute, a damaged one, or that of another image.
FoundDisks(i) ==
  {None} \cup {[content |-> m, meta |-> m] : m \in Found \cap Images}
         \cup {[content |-> c, meta |-> m] : c \in {i, "partial"}, m \in Found \ Images}

Init ==
  /\ LockInit
  /\ tag \in [Refs -> AnyImage]
  /\ pc = [p \in Procs |-> "idle"]
  /\ job = [p \in Procs |-> NoJob]
  /\ disk \in [Images -> UNION {FoundDisks(i) : i \in Images}]
  /\ \A i \in Images : disk[i] \in FoundDisks(i)
  /\ dir = [i \in Images |-> disk[i] # None]
  /\ temp = [t \in Temps |-> None]
  /\ cont = [t \in Temps |-> None]

Next ==
  \/ \E p \in Procs : \/ \E r \in Refs : Install(p, r)
                      \/ \E i \in Images : dir[i] /\ Rm(p, i)
                      \/ Step(p) \/ Fault(p) \/ Exit(p)
  \/ \E t \in Temps : EndContainer(t)
  \/ \E r \in Refs, i \in AnyImage : Retag(r, i)

Spec == Init /\ [][Next]_vars

-----------------------------------------------------------------------------
(* Types and safety. *)

Job == [cmd : {"run", "rm", None}, ref : Refs \cup {None}, img : Images \cup {None},
        temp : Temps \cup {None}, unread : BOOLEAN, failed : BOOLEAN]

\* Every variable keeps its type; a process that builds a disk has its
\* temporary file, which nobody else removes meanwhile.
TypeOK ==
  /\ LockTypeOK
  /\ tag \in [Refs -> AnyImage]
  /\ pc \in [Procs -> Pcs]
  /\ job \in [Procs -> Job]
  /\ dir \in [Images -> BOOLEAN]
  /\ disk \in [Images -> File \cup {None}]
  /\ temp \in [Temps -> TempFile \cup {None}]
  /\ cont \in [Temps -> Container \cup {None}]
  /\ \A p \in Procs : pc[p] \in TempPcs \cup {"size"} => temp[job[p].temp] # None

\* A disk.raw that carries its image's digest holds a complete installation,
\* whatever died, failed or was found there before: the attribute is set
\* after the installer is through and before the rename.
MarkedDiskComplete == \A i \in Images : Ready(i) => disk[i].content \in AnyImage

\* When Install reports success, disk.raw is there under the digest of the
\* image it pulled, and no temporary file of its own is left.
InstallSucceeds ==
  \A p \in Procs : pc[p] = "unlock" /\ job[p].cmd = "run" /\ ~job[p].failed =>
    /\ Ready(Img(p))
    /\ \A t \in Temps : temp[t] # None => temp[t].owner # p

\* An Install that ends with an error leaves behind at most an empty temporary
\* file (FromHumanSize and Ftruncate fail before the removal is deferred); it
\* comes to its Unlock with one of the disk's size only if the deferred
\* os.Remove failed.
ReturnLeavesNoBigTemp ==
  [][\A p \in Procs, t \in Temps :
       pc'[p] = "unlock" /\ pc[p] # "unlock" /\ temp'[t] # None /\ temp'[t].owner = p
         => \/ temp'[t].file.content = "empty"
            \/ RemoveTemp(p) /\ "rmTemp" \in Faults]_vars

\* A disk with its image's digest, on which a VM may be running without any
\* lock (run --background), is taken away only by rm, or by an Install whose
\* Fgetxattr failed.  Even such an Install does not write to it: it removes
\* it, or puts another disk of the image in its place.
ReadyDiskKept ==
  [][\A i \in Images : Ready(i) /\ disk'[i] # disk[i] =>
       \E p \in Procs : /\ Img(p) = i
                         /\ \/ job[p].cmd = "rm" /\ disk'[i] = None
                            \/ job[p].unread /\ (disk'[i] = None \/ Ready(i)')]_vars

-----------------------------------------------------------------------------
(* What the repository says and the code does not do; see README.md. *)

\* bootc_disk.go: imageDigest is the digest of the container that was used to
\* build this disk.
DiskMatchesDigest == \A i \in Images : Ready(i) => disk[i].content = i

-----------------------------------------------------------------------------
(* The abstract specification this one implements. *)

Lifecycle == INSTANCE ImageLifecycle WITH
               state <- [i \in Images |-> IF Ready(i) THEN "installed" ELSE "absent"],
               users <- [i \in Images |-> {p \in Procs : lock[i][p] # "none"}]

\* Install, step by step, is an installation of ImageLifecycle: it happens at
\* once, at the rename, by the sole user of the image.
DiskImplementsLifecycle == Lifecycle!Spec
=============================================================================
