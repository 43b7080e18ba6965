--------------------------- MODULE ImageLifecycle ---------------------------
(***************************************************************************)
(* What podman-bootc promises of an image, whatever the interleaving of    *)
(* its commands: it is installed or removed only by a command that has it  *)
(* to itself, its VM is booted only by a command that uses the image, and  *)
(* the disk is never taken from a VM that runs on it.                      *)
(***************************************************************************)
EXTENDS Names

VARIABLES state,   \* state[i]: "absent", "installed" (a disk) or "running" (a VM)
          users    \* users[i]: the processes that have image i in use

TypeOK == /\ state \in [Images -> {"absent", "installed", "running"}]
          /\ users \in [Images -> SUBSET Procs]

Init == /\ state \in [Images -> {"absent", "installed", "running"}]
        /\ users = [i \in Images |-> {}]

Move(i, from, to) == state[i] = from /\ state' = [state EXCEPT ![i] = to]

\* A command starts to use the image, or is through with it.
Enter(p, i) == /\ p \notin users[i]
               /\ users' = [users EXCEPT ![i] = @ \cup {p}]
               /\ UNCHANGED state

Leave(p, i) == /\ p \in users[i]
               /\ users' = [users EXCEPT ![i] = @ \ {p}]
               /\ UNCHANGED state

\* The sole user installs the disk, and may be through with the image then.
Install(p, i) == /\ users[i] = {p}
                 /\ Move(i, "absent", "installed")
                 /\ users' \in {users, [users EXCEPT ![i] = {}]}

Boot(p, i) == p \in users[i] /\ Move(i, "installed", "running") /\ UNCHANGED users

\* A VM stops by command or by itself.
Halt(i) == Move(i, "running", "installed") /\ UNCHANGED users

Remove(p, i) == users[i] = {p} /\ Move(i, "installed", "absent") /\ UNCHANGED users

Next == \E i \in Images :
          \/ Halt(i)
          \/ \E p \in Procs : Enter(p, i) \/ Leave(p, i) \/ Install(p, i) \/ Boot(p, i) \/ Remove(p, i)

Spec == Init /\ [][Next]_<<state, users>>
=============================================================================
