# A verification of podman-bootc

podman-bootc runs bootable container images as virtual machines.  Each command
(`run`, `stop`, `rm`, `ssh`, `list`) is a process of its own; there is no
daemon.  What the processes share is the cache directory
`~/.cache/podman-bootc/<image id>`, one lock file per image, and the daemon or
processes that run the VMs: libvirt on Linux, a detached monitor with two
children on the Mac.  All that can go wrong between two commands, or in one that
is killed half-way, goes wrong there.  That is what this project models: the life
of a VM under concurrent, failing and dying commands (`BootcVM` on Linux,
`BootcMac` on the Mac), the installation of its disk (`BootcDisk`), and beside
them the three computations of the program that are easy to get wrong (the size
of the disk, the choice of podman's machine, the table of images).

References such as `vm.go:269` are to `src/pkg/vm/vm.go`; `run.go`, `rm.go`,
`stop.go`, `ssh.go` and `list.go` are in `src/cmd/`.

## The system

| part | state | operations | talks to |
|---|---|---|---|
| commands (`src/cmd/`) | none of their own but the local variables of one process | `run [-B] [--rm]`, `stop`, `rm [-f] [--all]`, `ssh`, `list` | VM, bootc disk |
| cache lock (`pkg/utils/locks.go`) | one `flock` per image, shared or exclusive | `TryLock`, `Unlock`; the kernel unlocks when a process dies | all commands |
| bootc disk (`pkg/bootc/bootc_disk.go`) | `disk.raw` and its xattr, a temporary file, the podman image | `Install`, `Cleanup` | podman, cache lock |
| VM, common part (`pkg/vm/vm.go`) | `bc.cfg`, `sshkey`, `sshkey.pub` in the cache directory | `GetVMCachePath`, `lockVM`, `WriteConfig`, `LoadConfigFile`, `WaitForSSHToBeReady`, `RunSSH`, `DeleteFromCache` | files, ssh |
| VM on Linux (`pkg/vm/vm_linux.go`) | a connection and a domain handle | `NewVM`, `Run`, `Delete`, `Shutdown`, `Exists`, `IsRunning`, `GetConfig` | libvirt |
| VM on the Mac (`vm_darwin.go`, `monitor.go`, `krunkit.go`, `gvproxy.go`, `cmd/vmmon.go`) | pid files, a detached monitor, two children, a socket | `Run`, `Delete`, `IsRunning`, `StartMonitor`, `start`, `stop`, `cleanup` | the operating system |
| credentials (`pkg/credentials/ssh.go`) | the key pair in the cache directory | `Generatekeys` | ssh-keygen |
| signals (`podman-bootc.go`) | none | on SIGINT or SIGTERM: clean up, exit, no deferred call runs | |
| podman machine, images, user, config | none that the program keeps | queries | podman |

What is hard about it:

* `run` locks the image exclusively to install it, unlocks, and locks it again
  in shared mode to boot it (`bootc_disk.go:117`, `run.go:91`).  `rm` fits in
  between.
* `GetVMCachePath` looks before `lockVM` locks; `lockVM` looks again
  (`vm.go:280`).
* `Delete` works by handle, except that it asks for existence by name
  (`vm_linux.go:292`).  A handle outlives its domain.
* `run` and `ssh` hold the lock in shared mode only, so several `run`s of one
  image interleave freely; `stop` and `rm` hold it exclusively.
* A signal kills a process at any point.  Nothing is written atomically:
  `bc.cfg` is truncated and then written, `RemoveAll` removes one file at a
  time, the key pair is removed one file at a time.
* `Install` builds the disk in a temporary file, in a container that outlives
  the process; `disk.raw` is recognised by an extended attribute
  (`bootc_disk.go:158`, `243`).
* On the Mac the monitor holds no lock, `stop` knows of the VM only by
  `run.pid`, which is written after the VM was started and never removed, and
  gvproxy's socket is recognised by its path (`krunkit.go:46`, `gvproxy.go:60`).
* Ports are chosen before they are bound, and `bc.cfg` remembers a port that
  may belong to another VM later.

What makes each part correct:

* cache lock: an exclusive holder is alone; every return gives the lock up;
* commands: what is in use stays (`UsedCacheExists`), `stop` and `rm` act
  alone (`ExclusiveCommandsSpareUsers`), a success means what it says
  (`StopSucceeds`, `RmSucceeds`, `RunLeavesAWayIn`), leftovers never get in
  the way (`StopAndRmForceRecover`), every command returns (`CommandsReturn`);
* VM: no VM loses its disk (`ActiveHasDisk`), no nil handle is used
  (`UndefineHasHandle`), ssh reaches the VM it was asked for
  (`SessionOnOwnVM`);
* bootc disk: a `disk.raw` that carries its image's digest is complete
  (`MarkedDiskComplete`), is not replaced by an `Install` that could read its
  attribute (`ReadyDiskKept`), is there after a success (`InstallSucceeds`), and
  no disk-sized leftover stays after an error but where its removal fails
  (`ReturnLeavesNoBigTemp`); its size is what was asked for (`DiskFits`) and no
  overflow refuses it (`OnlyHugeRefused`);
* Mac VM: what `stop` signals is, or was, a krunkit of the image
  (`SignalsOwnVM`; its pid may be another program's by now), and a `stop` that read
  `run.pid` and succeeds has signalled the VM named there (`DeleteReachesVM`); a VM
  has the network of its own monitor unless an old socket could not be removed or
  another run's gvproxy came in between (`KrunkitUsesOwnGvproxy`); what is stopped goes with all that was started for
  it (`MonitorLeavesNothing`, `EndingVMsEnd`);
* podman machine: the right one (`ConnectsToRightMachine`), and none refused
  without a reason (`RefusedForReason`);
* images: each name once (`TableComplete`) and `untagged[0]` there when it is read (`FirstUntaggedThere`).

`PROJECT.json` lists the components, and under `hazards` the places where these
can go wrong.

## Modules

| module | models |
|---|---|
| `Names` | the constants every module refers to: processes, images, the absent value |
| `CacheLock` | `locks.go`: `lock[i][p]`, `CanLock`, `TryLock`, `Unlock` |
| `Libvirt` | the daemon as `vm_linux.go` uses it (external): `dom[i]`, `DefineDomain`, `CreateDomain`, `DestroyDomain`, `UndefineDomain`, what guests do |
| `BootcVM` | the commands, from start to deferred `Unlock`; extends the two above |
| `BootcDisk` | `BootcDisk.Install` call by call, with the container and `rm`; extends `CacheLock` |
| `BootcMac` | `run`, `stop`, `rm` on the Mac, `vmmon`, krunkit and gvproxy; extends `CacheLock` |
| `ImageLifecycle` | abstract: what an image goes through, and who may do what to it; implemented by `BootcVM` and `BootcDisk` |
| `DiskSize` | the size of a new disk, in words of any width |
| `PodmanMachine` | `GetMachineContext`: which podman machine a command works with |
| `ImageTable` | `sortImages`: the rows of `podman-bootc images` |
| `MCBootcVM` | `BootcVM` for TLC: symmetry, constants, an initial state with a full cache |
| `MCBootcDisk`, `MCBootcMac` | `BootcDisk` and `BootcMac` for TLC |
| `MCQueries` | `DiskSize`, `PodmanMachine` and `ImageTable` for TLC, side by side |
| `BootcVMProofs` | theorems about `BootcVM`, checked by TLAPS: locking, deletion, the refinement of `ImageLifecycle` |
| `BootcVMAccessProofs` | the same: keys, ports and config files, the way into a VM |
| `BootcDiskProofs` | theorems about `BootcDisk` |
| `BootcMacProofs` | theorems about `BootcMac` |
| `PodmanMachineProofs`, `DiskSizeProofs`, `ImageTableProofs` | theorems about `PodmanMachine`, `DiskSize` and `ImageTable` |
| `CacheLockProofs` | lemmas about the lock that the proofs of `BootcVM` and `BootcDisk` share |

### BootcVM: state

`pc[p]` is the next step of process `p`, `job[p]` its local variables: the
command, the image, what is left of `rm --all` or `list` (`todo`), where
`Delete` returns to (`ret`), whether it fails, the domain handle (`vm`), the
port, a key in hand and the VM the ssh session is on.  The files are `dir[i]`,
`disk[i]` (a complete `disk.raw`), `priv[i]`, `pub[i]` and `cfg[i]`, which is the
port in `bc.cfg`, `"torn"` between truncation and write, or `None`.  `lock` and
`dom` come from `CacheLock` and `Libvirt`.  A local variable that is dead is
reset, to keep the state space small.

### BootcVM: actions

One action per call whose order matters, in the code's order:

* `run`: `InstallLock`, `Install`, `FreePort`, `Lookup`, `LockVM`,
  `CheckCacheDir`, `LoadExistingDomain`, `RemoveKey`, `RemovePub`, `KeyGen`,
  `Run`, (`Shutdown`, `Destroy`, `DomainExists`, `Undefine`,)
  `ParseDomainTemplate`, `Define`, `Create`, `WaitForVMToBeRunning`,
  `TruncateConfig`, `WriteConfig`, and unless `-B`: `ReadKey`, `WaitForSSH`,
  `LoadConfig`, `Connect`, `EndSession`, and with `--rm`: `Delete` again;
  `UnlockVM`.
* `stop`: `Lookup` to `LoadExistingDomain`, `Delete`, `UnlockVM`; `rm` the same
  with `RemoveFile`, `RemoveDir` after `Delete`, and without `-f` `KillVM`
  before it.
* `ssh`: `LoadConfig`, `Connect`, `EndSession`; `list`: `GetConfig`.

`Delete` is the sequence `Shutdown`, `Destroy` if the VM runs, `DomainExists`,
`Undefine` if the name exists, then on to `ret`.  `Fail` is every error return:
through the deferred `Unlock` once `NewVM` has taken the lock, through
`Install`'s own before, without a lock otherwise; it goes on with the next image
of `rm --all` and `list`, which log the error.

`Fault` lets any call fail for reasons of its own (the set `Faults`), `Die` ends
the process at any step: a crash, or SIGINT, whose handler calls `os.Exit`
while the other goroutine is anywhere.  `GuestStep` lets a guest power off,
crash, pause or resume.

### BootcVM: abstractions

* An image is a name; `GetVMCachePath`'s prefix match finds that image.
* `bc.cfg` is the port it records.  Its other fields are for display, or always
  the path of the one private key of the directory.
* `Install` is one step that puts a complete disk in place, or fails.  `BootcDisk`
  shows that this is so.  Inside it the image is locked exclusively.
* Polls (`waitForVMToBeRunning`, `WaitForSSHToBeReady`) are one step that
  answers yes when the condition holds, and no at any time for the second (a
  timeout), or when it does not hold for the first.
* Keys and uuids are fresh: a value is drawn with `CHOOSE` from those no file,
  domain or process refers to.  They are in the symmetry set only where noted below.
* `Undefine` after a failed `UndefineFlags` (`vm_linux.go:299`) is one attempt.
* `PrintConsole` and the sleeps change nothing and are left out.

### BootcDisk

State: `tag[r]` is the image podman knows by a name, `dir[i]` and `disk[i]` the
cache (a disk has a content, `"empty"`, `"partial"` or an image, and the digest in
its attribute, which may be missing or garbled), `temp[t]` the temporary files,
`cont[t]` the install container that writes to one.  `pc[p]` and `job[p]` are as in
`BootcVM`.

Actions: `Install`: `PullImage`, `LockImage`, `MkdirAll`, `OpenDisk` (is there a
disk, and is it marked with this image's digest?), `RemoveStale`, `CreateTemp`,
`SetSize`, `StartContainer`, `WaitContainer`, `SetXattr`, `Rename`, `RemoveTemp`,
`UnlockImage`; `rm`: `LockImage`, `CheckCacheDir`, `RemoveFile`, `RemoveDir`.
`EndContainer` ends a container well or badly, also after its process died;
`Retag` is somebody's `podman pull` or `tag`; `Exit` is death at any step.
`Fail` runs the deferred calls that are installed by then.  Every call may fail.
Where the code drops the error it goes on: after `os.Remove` of the old disk
(`RemoveStale`), after that of the temporary file (`RemoveTemp`, and the file
stays), and after any error of `Fgetxattr`, which is taken for a missing attribute
and has the disk removed, marked or not (`OpenDisk` with the fault `"getxattr"`).

Abstractions: a container writes all or part of an image at once; names may
stand for images (`Others`) whose directories are left out; the owner of a
temporary file is a ghost for `ReturnLeavesNoBigTemp`, and `unread` in `job[p]`,
that `Fgetxattr` failed, one for `ReadyDiskKept`.  These two properties name the
dropped errors as the only exceptions: a marked disk changes by `rm`, or by an
`Install` that could not read the mark, and then only to no disk or to another
complete one; a file that is not empty stays after a return only if its removal
failed.

### BootcMac

State: `cache[i]` (a cache directory with its disk), `pidFile[i]` (`run.pid`:
absent, `"torn"` between truncation and write, or a pid), `mon[m]` (a `vmmon`: its
image, its step, the pid of its krunkit, and for the properties whether it gave up on
the socket, `late`, and whether the socket it finds may be another's, `foreign`),
`proc[q]` (the process with pid `q`: krunkit or gvproxy of a monitor, how far it
is, whether it was interrupted; a `"stranger"` once the kernel gave the pid of one
that ended to another program), `gvPid[i]` and `sock[i]` (gvproxy's files).

Actions: commands take `Install` (one step), `NewVM`, then `run`: `Run` (start a
monitor and go on), `EndSession`; `stop`: `Delete`, `Signal`; `rm`: `KillVM` and
`DeleteFromCache` as well.  A monitor takes `InterruptOld`, `RemoveGvPid`,
`RemoveSocket`, `StartGvproxy`, `WaitForSocket`, `StartKrunkit`, `TruncatePidFile`,
`WritePidFile`, `WaitKrunkit`, `StopGvproxy`, in the order of `StartMonitor` with
its error paths, or dies (`Die`).  gvproxy writes its pid file and makes its socket
(`NamePid`, `Listen`); any process ends at any time (`End`, `EndTidily`) and its pid
goes to a stranger (`Reassign`).

What may fail is in `CommandFaults` and `MonitorFaults`.  Errors that the code drops
have the outcome the code gives them: if `FileExists` cannot stat `run.pid`, the VM
is taken not to run (`vm_darwin.go:137`), so that `KillVM` lets `rm` go on and
`Delete` returns without a signal (fault `"stat"`); `cleanup` goes on whatever fails
(`"cleanup"`), and a socket that stays makes the monitor's `foreign` true.  A write of
`run.pid` that fails after the truncation leaves it torn and ends krunkit (`"write"`).
`seen` in `job[p]` is what `Delete` read in `run.pid` last, before its signal or at
it, and stays `None` if the stat failed: `DeleteReachesVM` is about what was read.

Abstractions: `DeleteFromCache` is one step, which may fail before or after it
removed `run.pid`; the number is written to `run.pid` at once or not at all; a pid is
used once by podman-bootc and after that perhaps by a stranger, which is modelled
where `run.pid` names that pid; the next pid and the next monitor are drawn with
`CHOOSE`.  `Overlap` is a bound for TLC: with `FALSE` a `run` begins only when the
image has no VM and no active monitor (`Occupied`).  Nothing in the code keeps users
from it; the run `rmrunning` has `TRUE`, and the theorems hold for both.

### DiskSize, PodmanMachine, ImageTable

`DiskSize` takes one step per assignment to the variable `size`: doubled, raised
to the minimum, raised to `--disk-size`, aligned, given to `ftruncate`; every
value wraps as an `int64` does.  `PodmanMachine` takes one step per call that
reads podman's state, which may change between any two (`Change`); `disturbed`
remembers, for the properties, that it did or that a call failed.  Machines are
started, stopped and made the default, not created, removed or reconfigured.
`ImageTable` takes one step per round of `sortImages`'s two loops and one for the sort,
which is not stable; a name is tagged, untagged (`<none>:<none>`, a digest, an id) or invalid.

### The abstract specification

`ImageLifecycle` says of each image whether it is absent, installed or running,
and who uses it.  A user enters and leaves; only a sole user installs or removes;
a user boots; a VM may stop at any time; nothing is removed from under a running
VM.  `BootcVM` implements it with `state` read off `dom` and `disk`, and `users`
off `lock` (`LifecycleState`, `LifecycleUsers`).  `BootcDisk` implements it with
`state` read off the mark of `disk.raw`: all of `Install`'s calls are stutters but
the rename.  That an image may be there at the start, and that a user may be
through with it at the moment it is installed, is what `BootcDisk` needs of it.

## Runs

| run | instance | distinct states | shows |
|---|---|---|---|
| `core` | `BootcVM`, 2 processes, 1 image, all commands, all faults, power-off | 1.58 M | the type invariant and the main safety properties |
| `images` | `BootcVM`, 1 process, 2 images, `run -B`, `ssh`, `stop`, guests pause and resume | 4.93 M | stale config files of two images, port reuse |
| `prune` | `BootcVM`, 2 processes, 2 images, all booted at the start, `rm -f`, `list`, `ssh`, all faults, power-off | 0.81 M | `rm --all` against users of the images; the refinement of `ImageLifecycle` where guests power off and calls fail |
| `recover` | `BootcVM`, 2 processes, 1 image, `run`, `rm -f`, `stop`, deaths but no faults, fairness | 0.46 M | `stop` and `rm -f` clean up after commands that died; every command returns; the refinement of `ImageLifecycle` from an empty cache |
| `disk` | `BootcDisk`, 2 processes, 1 image and one left out, 2 temporary files, `disk.raw` absent, marked, unmarked or garbled at the start, all faults | 0.35 M | the properties of `Install` and the refinement of `ImageLifecycle` |
| `mac` | `BootcMac`, 1 process, 1 image, 2 monitors, 4 pids, all faults, commands and monitors die, `Overlap = FALSE`, fairness | 0.53 M | the properties of commands and monitors |
| `queries` | `DiskSize` with 7-bit words, `PodmanMachine` with 3 machines, `ImageTable` with 2 images of up to 2 names | 0.09 M | the properties of the three computations |

The runs `key`, `race`, `paused`, `retag` and `rmrunning` each look for the violation
of one statement of the documentation and find it; see below.  Only `queries`
switches deadlock checking off: a computation ends.

### Bounds

Two processes on one image show every race of this code: each conflict is
between one command and another on the same image.  Two images are needed where
one process moves from image to image (`prune`) and where a port passes from
one VM to another (`images`).  There are two ports, so that a port is reused and
`run` finds one free.  `Uuids` and `Keys` have one more member than the domain,
files and processes can refer to at the time one is drawn, so drawing never
blocks: 4 and 5 for two processes on one image (one domain and one or two
handles; a domain's key, and one in the hand of each process), 3 and 5 for one
process on two.  `images` takes uuids to be interchangeable: the one drawn occurs
nowhere in the state, so which it is makes no difference.  There are no
counters.  `recover` leaves out `list`, `ssh` and `rm` without `-f`, which leave
nothing behind that the others do not.  `prune` starts from a cache in which
`run -B` has booted every image, a state that `Init` reaches, to keep `run` out
of the instance.

`disk` has a temporary file for each process, so that leftovers and a container
that goes on meet a second `Install`; once both are
in use, `CreateTemp` can only fail or its process die.
`mac` has one command at a time, since what races on the Mac is a command with the
monitors; that `run`s on one image, which share its lock, race as well is beyond
TLC there (with `Overlap = TRUE` the instance has more than 6.5 M states) and left to
the proofs, which know no such bound.
Two monitors are a VM and the one after it, and four pids are enough for both;
that a `run` finds no monitor left is the fault `"spawn"`.  `queries` has every image
size and every `--disk-size` of its words, with a minimum that is not a whole
number of blocks; one machine named `podman-machine-default` and two others, so that there are
none, one or several candidates; two images whose names are equal, tagged,
untagged, invalid or none.

### Fairness

`FairSpec` asks for weak fairness of `Step(p)` only: a started process is
scheduled, its system calls return, polls end at their deadlines.  It asks
nothing of users: no fairness on starting a command or leaving an ssh session
(hence "or is in a session" in `CommandsReturn`), none on faults, deaths or
guests.  `FairSpec` of `BootcMac` asks for weak fairness of every monitor's steps
and of the end of the krunkit of each that was interrupted (it handles SIGINT by
ending); nothing of commands, of gvproxy (so `WaitForSocket` may give up only when
gvproxy has ended, or as a fault), or of ends by themselves.
The runs `recover` and `mac` use no symmetry, since they check temporal
properties.

## Where code and documentation differ

Five runs look for a violation of what the repository says, and find it.

* `key`: a `run` of an image whose VM is running generates new keys before it
  finds out and fails (`run.go:106`, `vm_linux.go:139`).  From then on
  `podman-bootc ssh` cannot log in to the running VM.
* `race`: two `run`s of one image.  One has defined its domain and not started
  it yet; the other finds that domain, stopped, and is about to delete it
  (`vm_linux.go:133`); the first starts it; `Shutdown` of the other asks again
  and destroys a running VM.  The Shared lock admits both.
* `paused`: `IsRunning` is true only of `DOMAIN_RUNNING` (`vm_linux.go:359`).
  A paused guest (qemu pauses a guest whose write fails on a full disk) is not
  destroyed by `stop`; undefining the active domain makes it transient and
  `stop` reports success.
* `retag`: `Install` pulls by name and keeps the id, then runs the install
  container by name again (`bootc_disk.go:319`).  If the name moved in between,
  the disk of one image is marked with the digest of the other.
* `rmrunning`: on the Mac `Run` returns before `run.pid` is written
  (`vm_darwin.go:108`), so `rm` without `--force` finds no VM and removes the
  disk of one that is starting.

Differences the code shows at sight, or that the models were built around, and
that no run is spent on:

* `run --rm` keeps the disk image, by intention of the code (`run.go:169`),
  against its help text and man page (`docs/podman-bootc-run.1.md:39`).
* On SIGINT the handler says it deletes the disk image (`podman-bootc.go:30`),
  but `Cleanup` tests a field that nothing sets (`bootc_disk.go:148`): the
  temporary disk stays, and so does the container.
* On the Mac a second `run` starts a second VM on the same disk: nobody asks
  whether one runs (`vm_darwin.go:108`; `docs/podman-bootc-run.1.md:10` says an
  existing one is started).  Of the properties only `KrunkitUsesOwnGvproxy` has an
  exception for it.
* `stop` leaves `run.pid`, so that `Exists` stays true (`vm_darwin.go:156`;
  `e2e_test.go:100` expects the VM to be gone), and once the pid has gone to
  another program, `stop` interrupts that program (`vm_darwin.go:148`).
  `SignalsOwnVM` is therefore only about whose pid it was.
* `IsRunning` answers that no VM runs if it cannot stat `run.pid`
  (`vm_darwin.go:137`): `stop` then reports success and the VM runs on, `rm` removes
  its disk.
* Any error of `Fgetxattr` is taken for a missing attribute (`bootc_disk.go:172`;
  the comment there says "If there's no xattr, just remove it"): a disk a VM runs on
  may be removed and installed again.
* `gvproxyDaemon.start` is said to kill any daemon on the same socket
  (`gvproxy.go:56`), but knows one only by its pid file: a gvproxy that has not
  written it yet stays.
* `--disk-size` below the minimum or twice the image is ignored
  (`bootc_disk.go:210`; `docs/podman-bootc-run.1.md:24`).
* With several machines, a rootful one that runs but is not the default is
  refused (`podman.go:174`; `docs/podman-bootc.1.md:13`).

The hazards without a property in `PROJECT.json` are of two kinds: behaviour
nobody promises otherwise (`run --rm` ends other processes' sessions; a timeout
skips `--rm`; temporary disks of killed `Install`s pile up; a failing stat or a
stranger's pid misleads `stop`), and what all models assume: one environment for all
commands, and ids that name one image.

## Proofs

All safety properties that the passing runs check are proved for every value of
the constants.  The assumptions on constants are those
named in the modules (`None`, `"torn"`, `"garbled"` and the like are values of their
own; `Commands`, `Faults` and `GuestEvents` are subsets of what the model knows;
`Machines` is finite), and those the table names where a property is false
without them.  Images, processes, disks, monitors, pids and ports may be of any
number.  Each proof is by an inductive invariant, a conjunction of named parts
that build on each other.

### BootcVM

| theorem | states | assumes | rests on |
|---|---|---|---|
| `TypeCorrect` | `[]TypeOK` | | `TypeInv` |
| `LockingCorrect`, `ExclusionCorrect` | `[]LockDiscipline`, `[]ExclusiveIsAlone` | | `LockInv` |
| `UsedCacheCorrect` | `[]UsedCacheExists` | | `LockInv` |
| `UndefineHandleCorrect` | `[]UndefineHasHandle` | | `Handles` |
| `ActiveDiskCorrect` | `[]ActiveHasDisk` | no pause | `DownInv` |
| `StopCorrect`, `RmCorrect` | `[]StopSucceeds`, `[]RmSucceeds` | no pause | `DownInv`, `Gone` |
| `RecoverCorrect` | `[]StopAndRmForceRecover` | `QuietAssumption` | `DownInv`, `Persist`, `RecoverOK` |
| `ExclusiveCommandsCorrect` | `ExclusiveCommandsSpareUsers` | | `LockInv` |
| `RmSparesCorrect` | `RmSparesRunningVM` | not both pause and resume | `Spare` |
| `LifecycleRefinement` | `ImplementsLifecycle` | no pause | `DownInv` |
| `SessionCorrect` | `[]SessionOnOwnVM` | | `OwnKeys` |
| `WayInCorrect` | `[]RunLeavesAWayIn` | `[]NoRival` | `WayOK` |

The last two rows are in `BootcVMAccessProofs`, the others in `BootcVMProofs`.

Each assumption is needed:

* "No pause" (`NoPauseAssumption`): `"pause"` is not among the guest events.
  `IsRunning` is false of a paused VM; the run `paused` shows what `stop` does then.
* `RmSparesCorrect`: with both events, a guest that `killVM` found paused is resumed
  before `Shutdown` asks again, and destroyed.
* `QuietAssumption`: no call fails by itself, no guest powers off or is paused.  A
  guest that powers off between `IsRunning` and `Destroy` makes `Destroy` fail.
  Processes may still die at any step.  It is the setting of the run `recover`.
* `NoRival`: no two processes run one image at a time.  Under the Shared lock, a
  second `run` replaces the keys of the first (`run.go:106`), which then reports
  success for a VM that accepts another key.  Other commands, other images, deaths,
  faults and guests are free.  In the run `images` it holds, since there is one
  process.

The parts of the invariants:

1. `TypeInv` adds to the types what the local state is at each step (`Local`):
   a process that will define a domain has a port, one inside `Delete` has a
   place to return to that fits its command, and so on.
2. `LockInv`: every step of a process keeps its lock, takes the lock of its
   image, gives it up, or holds none before and after (`LockStep`); from that
   follow `LockDiscipline` and `ExclusiveIsAlone`, and with them `Alone`: while
   `stop` or `rm` holds an image, no other process is in the locked part of a
   command on it.
3. `UsedCacheExists`: only `RemoveDir` takes a directory away, its process is
   alone, and a process comes to use a directory only through `CheckCacheDir`.
4. `Handles`: the handle of `stop` and `rm` is that of the image's domain if
   there is one, because no one else can change the domain (`DomFrame`); a
   `run` that deletes has a handle, because it has asked before.
5. `Down`: after `Shutdown` the domain of `stop` and `rm` is inactive, after
   `Undefine` there is none, and an active domain has its disk.  Here it is
   needed that no guest is paused: `IsRunning` then tells active from inactive.
6. `Gone`: after `RemoveDir` nothing is left, and nothing comes back while the
   lock is held (`FilesFrame`).
7. `Persist`: a domain that was undefined while it ran still runs, so that
   `Shutdown` finds it; `RecoverOK`: a `stop` or `rm -f` past its lock has a handle
   that is good, and each call of `Delete` finds what the one before it left.
8. `Spare`: an `rm` that `killVM` let through finds the VM down still, because the
   image is its own and a VM that is down does not come up by itself.
9. `OwnKeys`: a key is in the files, the domain and the hands of processes of one
   image only, because `KeyGen` draws one that is nowhere.  Then a stale port may
   lead `ssh` to another image's VM, but that VM does not take the key.
10. `WayOK`: from `Generatekeys` to `WriteConfig` the key pair is whole, the domain
   has its public half and the port of the run, and the config file gets that port.
11. The refinement needs no more than `DownInv`: the changes of `lock` are `Enter` and
   `Leave` (`LockRefines`), `Install` and `RemoveFile` have the image to themselves
   (`SoleUser`, `RemoveRefines`), `Create` finds a disk (`CreateRefines`), what guests
   and `Destroy` do is `Halt` (`HaltRefines`), and all other steps are stutters.

### BootcDisk

| theorem | states | rests on |
|---|---|---|
| `DiskTypeCorrect` | `[]TypeOK` | `TypeInv`, `TempInv` |
| `InstallExclusive` | `[]ExclusiveIsAlone` | `LockInv` |
| `MarkedDiskCorrect` | `[]MarkedDiskComplete` | `DiskInv` |
| `InstallCorrect` | `[]InstallSucceeds` | `TempInv`, `DiskInv` |
| `ReturnCorrect` | `ReturnLeavesNoBigTemp` | `TempInv` |
| `ReadyDiskCorrect` | `ReadyDiskKept` | `IInv` |
| `DiskRefinement` | `DiskImplementsLifecycle` | `IInv` |

The invariant is `IInv`, the conjunction of `TypeInv`, `LockInv`, `TempInv` and
`DiskInv`.  That a marked disk is complete is not inductive: the mark is set on a
temporary file, by a process that has waited for a container, while containers of
dead processes go on writing.  `TempInv` says what keeps them apart: a process has
one temporary file at most, the one it builds (`Owned`); until `Rename` that file
stays where it is (`Kept`); no container but its own writes to it, and none before
it starts one or after it has waited (`Quiet`); at `SetXattr` it holds the image
whose digest it gets (`Built`).  `DiskInv` adds what `OpenDisk` found out and nobody
else can change: that the disk is not marked while a new one is built, unless its mark
could not be read (`unread`).

### BootcMac

| theorem | states | rests on |
|---|---|---|
| `MacTypeCorrect` | `[]TypeOK` | `TypeInv` |
| `MonitorLeavesNothingCorrect` | `[]MonitorLeavesNothing` | `Stopping` |
| `SignalCorrect` | `SignalsOwnVM` | `PidInv` |
| `DeleteCorrect` | `[]DeleteReachesVM` | `PidInv`, `Reached` |
| `OwnNetworkCorrect` | `KrunkitUsesOwnGvproxy` | `OwnSocket` |

All hold with overlapping runs, which the code does not prevent, for any number of
commands and monitors and any set of faults.  `IInv`: a process was started by a
monitor that is past starting it (`Born`), a monitor about to return has ended its
children (`Stopping`), and `run.pid`, however stale, as well as what `Delete` read
there, is the pid of a krunkit of that image (`PidInv`).  A VM that `Delete` read of is
about to be signalled, was, or is gone (`Reached`): a second monitor may write
`run.pid` between `Delete`'s look and its signal, and the VM read of last is then the
second one.  Only another gvproxy of the image, or a failing removal, lets a monitor
find a socket that is not its own gvproxy's (`OwnSocket`).

### PodmanMachine, DiskSize and ImageTable

| theorem | states | rests on |
|---|---|---|
| `MachineTypeCorrect` | `[]MachineTypeOK` | `MachineInv` |
| `ConnectionCorrect` | `[]ConnectsToRightMachine` | `MachineInv` |
| `RefusalCorrect` | `[]RefusedForReason` | `MachineInv` |
| `DiskFitsAlways` | `[]DiskFits` | `SizeInv` |
| `RefusesOnlyHuge` | `[]OnlyHugeRefused` | `SizeInv` |
| `TableCorrect` | `[]TableComplete` | `TableInv` |
| `FirstUntaggedCorrect` | `[]FirstUntaggedThere` | `TableInv` |

`MachineInv` says what a command knows at each step (`Known`): that the machine it
has chosen is the right one, or that something changed since.  That podman itself
would choose one machine at most (`OneDefault`) is a fact about the cardinality of a
finite set.  `SizeSpec`, `MachineSpec`
and `TableSpec` are the specifications of these modules alone, which the run `queries`
checks side by side.

`SizeInv` says what `size` is at each step (`Doubled`, `Floor`, `Chosen`), and that
after the rounding it is `Chosen` in whole blocks, or negative because `Chosen` was
at the end of the words.  The lemmas below it are about `Wrap` (a word is itself,
`WrapWord`; what leaves the words on one side comes in on the other, `WrapDown`) and
`Align` (`NextMultiple`, `AlignRoundsUp`).  Words, minima and blocks may be of any
size (`WordAssumption`, `SizesAssumption`).

`TableInv`: outside the inner loop an image is in the table completely or not at all
(`Listed`); inside, each name read so far is in one of the two lists (`Reading`), so
that one of them has an element when all were read.  The lemmas are about how often a
row is in a sequence that grows by one (`CountAppend`), by another sequence
(`CountConcat`) or is sorted (`CountSorted`), each by a bijection between the places.

### Only model-checked

* `CommandsReturn` and `EndingVMsEnd`, which are liveness under fairness: out of
  this prover's reach.
* The findings: a run that finds a violation is its own witness.

## Not modelled

The match of an id's prefix with a directory name (`vm.go:35`), where the lock
files are (`user.go:61`: below `TMPDIR`, so that two commands with different ones do
not exclude each other), log levels and paths: nothing in them has an order.
`PrintConsole` and the queries that only print.  Encodings (SMBIOS string,
cloud-init iso, the text of a table, command lines of containers and of krunkit)
are data no property is about.  The Mac's `GetConfig` and ssh session are those of
Linux in other clothes: the session is one step in `BootcMac`.  See `components` in
`PROJECT.json` for each.

## Plan

1. Done: `CacheLock`, `Libvirt`, `BootcVM`, `BootcDisk`, `BootcMac`, `DiskSize`,
   `PodmanMachine`, `ImageTable`, `ImageLifecycle` and their runs.
2. Done: the theorems about `BootcVM`, `BootcDisk`, `BootcMac`, `PodmanMachine`,
   `DiskSize` and `ImageTable`: every safety property that a passing run checks, and
   both refinements of `ImageLifecycle`.
3. `VMLookup`, the match of prefixes over directory names, if a text says what an
   ambiguous prefix stands for.
