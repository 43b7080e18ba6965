------------------------------- MODULE Libvirt -------------------------------
(***************************************************************************)
(* The libvirt daemon as pkg/vm/vm_linux.go uses it.  vmName derives the   *)
(* domain's name from the image id, so the daemon has at most one domain   *)
(* per image.  A domain is persistent once it is defined; undefining an    *)
(* active domain makes it transient, and a transient domain vanishes when  *)
(* it stops.  A handle is a name and a uuid: it outlives the domain, and   *)
(* every call on it fails once that uuid is gone.                          *)
(***************************************************************************)
EXTENDS Names

CONSTANTS Uuids,        \* identities the daemon gives to the domains it defines
          Keys,         \* ssh key pairs
          Ports,        \* local TCP ports
          GuestEvents   \* what may happen to a running guest on its own

ASSUME GuestEventsAssumption == GuestEvents \subseteq {"poweroff", "pause", "resume"}

VARIABLE dom            \* dom[i] is the domain of image i, or None

\* port: the host's end of the forwarding to the guest's sshd (hostfwd).
\* key: the key the guest authorizes, handed over in the SMBIOS table.
Domain == [uuid : Uuids, state : {"shutoff", "running", "paused"},
           persistent : BOOLEAN, port : Ports, key : Keys]

LibvirtTypeOK == dom \in [Images -> Domain \cup {None}]

LibvirtInit == dom = [i \in Images |-> None]

Exists(i) == dom[i] # None
Active(i) == Exists(i) /\ dom[i].state # "shutoff"

\* Handle u, of the domain of image i, still denotes a domain.
Valid(i, u) == Exists(i) /\ dom[i].uuid = u

\* GetState answers DOMAIN_RUNNING: IsRunning is true of that state only.
Running(i) == Exists(i) /\ dom[i].state = "running"

\* qemu binds the forwarded port for as long as the domain is active.
PortTaken(n) == \E i \in Images : Active(i) /\ dom[i].port = n

\* DomainDefineXMLFlags: the daemon picks a new uuid, and refuses a second
\* domain of the same name.
DefineDomain(i, u, n, k) ==
  /\ ~Exists(i)
  /\ dom' = [dom EXCEPT ![i] = [uuid |-> u, state |-> "shutoff",
                                persistent |-> TRUE, port |-> n, key |-> k]]

\* Create starts a domain that is not active, if qemu can bind its port.
CanCreate(i, u) == Valid(i, u) /\ ~Active(i) /\ ~PortTaken(dom[i].port)

CreateDomain(i, u) ==
  /\ CanCreate(i, u)
  /\ dom' = [dom EXCEPT ![i].state = "running"]

Stopped(d) == IF d.persistent THEN [d EXCEPT !.state = "shutoff"] ELSE None

\* Destroy, the hard stop.
CanDestroy(i, u) == Valid(i, u) /\ Active(i)

DestroyDomain(i, u) ==
  /\ CanDestroy(i, u)
  /\ dom' = [dom EXCEPT ![i] = Stopped(dom[i])]

\* Undefine: the daemon refuses it to a transient domain.
CanUndefine(i, u) == Valid(i, u) /\ dom[i].persistent

UndefineDomain(i, u) ==
  /\ CanUndefine(i, u)
  /\ dom' = [dom EXCEPT ![i] = IF Active(i) THEN [dom[i] EXCEPT !.persistent = FALSE]
                                            ELSE None]

\* The guest shuts down or crashes (on_poweroff and on_crash are "destroy").
PowerOff(i) ==
  /\ "poweroff" \in GuestEvents
  /\ Active(i)
  /\ dom' = [dom EXCEPT ![i] = Stopped(dom[i])]

\* qemu pauses a guest whose write fails, for instance when the host's disk
\* is full; an administrator may suspend and resume it as well.
Pause(i) ==
  /\ "pause" \in GuestEvents
  /\ Running(i)
  /\ dom' = [dom EXCEPT ![i].state = "paused"]

Resume(i) ==
  /\ "resume" \in GuestEvents
  /\ Exists(i) /\ dom[i].state = "paused"
  /\ dom' = [dom EXCEPT ![i].state = "running"]

Guest(i) == PowerOff(i) \/ Pause(i) \/ Resume(i)
=============================================================================
