--------------------------- MODULE SshConfiguration ---------------------------
(***************************************************************************)
(* Opening and closing SSH through systemd (SSHConfiguration.cpp).  A      *)
(* handler is a series of calls to systemd; each may be refused, a job is  *)
(* only accepted when its call returns, and the process may end between    *)
(* any two.  With ssh_control_method "ssh-autostart" it is one call of a   *)
(* helper instead, and there is nothing to get in the wrong order.         *)
(*                                                                         *)
(* unit[u] is "off", "starting" (a start job is queued or under way),      *)
(* "on", or "stopping" (so is a stop job; while it only waits the unit is   *)
(* still read as active, and the handler's wait may time out).             *)
(***************************************************************************)
EXTENDS Sequences

VARIABLES
  sshUnits,  \* the units that are installed
  unit,      \* what each is doing
  enabled,   \* the units that are started at the next boot
  ssh        \* the request: operation, next call, the units it is still to be made for,
             \* and whether all went well

sshVars == <<sshUnits, unit, enabled, ssh>>

Socket == "sshd.socket"
Service == "sshd.service"

SshTypeOK ==
  /\ sshUnits \subseteq {Socket, Service}
  /\ unit \in [sshUnits -> {"off", "starting", "on", "stopping"}]
  /\ enabled \subseteq sshUnits
  /\ ssh \in [operation : {"enable", "disable"},
              at : {"idle", "enable", "reload", "start", "await", "stop", "rollback", "disable"},
              left : Seq(sshUnits), ok : BOOLEAN]

(* A device that has booted with SSH open or closed, or has no unit of it  *)
(* (then every request is refused, and no step)                            *)
SshInit ==
  /\ sshUnits \in SUBSET {Socket, Service}
  /\ enabled \in {{}, sshUnits}
  /\ unit = [u \in sshUnits |-> IF u \in enabled THEN "on" ELSE "off"]
  /\ ssh = [operation |-> "enable", at |-> "idle", left |-> << >>, ok |-> FALSE]

IfInstalled(u) == IF u \in sshUnits THEN <<u>> ELSE << >>

AvailableSshUnits_ServiceFirst == IfInstalled(Service) \o IfInstalled(Socket)

(* availableSshUnits                                                       *)
AvailableSshUnits == IfInstalled(Socket) \o IfInstalled(Service)

(* Enabling prefers the socket and is about that unit alone.               *)
Preferred == IF Socket \in sshUnits THEN Socket ELSE Service

HandleSsh(operation) ==
  /\ sshUnits # {}
  /\ ssh' = IF operation = "enable"
              THEN [operation |-> operation, at |-> "enable", left |-> <<Preferred>>, ok |-> TRUE]
              ELSE [operation |-> operation, at |-> "stop", left |-> AvailableSshUnits, ok |-> TRUE]
  /\ UNCHANGED <<sshUnits, unit, enabled>>

(* The next call about the same unit, or the end of the request             *)
Continue(at) == ssh' = [ssh EXCEPT !.at = at]
Answer(ok) == ssh' = [ssh EXCEPT !.at = "idle", !.left = << >>, !.ok = ok]

-----------------------------------------------------------------------------
(* enable: one unit; what fails after it is undone without being looked at *)

EnableUnit ==
  /\ ssh.at = "enable"
  /\ \/ enabled' = enabled \union {Head(ssh.left)} /\ Continue("reload")
     \/ Answer(FALSE) /\ UNCHANGED enabled
  /\ UNCHANGED <<sshUnits, unit>>

ReloadEnabled ==
  /\ ssh.at = "reload" /\ ssh.operation = "enable"
  /\ Continue("start") \/ Continue("rollback")
  /\ UNCHANGED <<sshUnits, unit, enabled>>

StartUnit ==
  /\ ssh.at = "start"
  /\ \/ /\ unit' = [unit EXCEPT ![Head(ssh.left)] = IF @ = "on" THEN @ ELSE "starting"]
        /\ Continue("await")
     \/ Continue("rollback") /\ UNCHANGED unit
  /\ UNCHANGED <<sshUnits, enabled>>

WaitForActive ==
  /\ ssh.at = "await" /\ ssh.operation = "enable"
  /\ \/ unit[Head(ssh.left)] = "on" /\ Answer(TRUE)
     \/ Continue("stop")
  /\ UNCHANGED <<sshUnits, unit, enabled>>

StopAgain ==
  /\ ssh.at = "stop" /\ ssh.operation = "enable"
  /\ unit' \in {unit, [unit EXCEPT ![Head(ssh.left)] = IF @ = "off" THEN @ ELSE "stopping"]}
  /\ Continue("rollback")
  /\ UNCHANGED <<sshUnits, enabled>>

RollbackEnablement ==
  /\ ssh.at = "rollback"
  /\ enabled' \in {enabled, enabled \ {Head(ssh.left)}}
  /\ Answer(FALSE)
  /\ UNCHANGED <<sshUnits, unit>>

-----------------------------------------------------------------------------
(* disable: all units are stopped, one after the other, then all disabled; *)
(* a failure is remembered and the rest is done all the same               *)

NextSshUnit(at, ok) ==
  ssh' = IF Tail(ssh.left) # << >> THEN [ssh EXCEPT !.at = at, !.left = Tail(@), !.ok = ok]
         ELSE [ssh EXCEPT !.at = IF at = "stop" THEN "disable" ELSE "reload",
                          !.left = AvailableSshUnits, !.ok = ok]

StopUnit ==
  /\ ssh.at = "stop" /\ ssh.operation = "disable"
  /\ \/ /\ unit' = [unit EXCEPT ![Head(ssh.left)] = IF @ = "off" THEN @ ELSE "stopping"]
        /\ Continue("await")
     \/ NextSshUnit("stop", FALSE) /\ UNCHANGED unit
  /\ UNCHANGED <<sshUnits, enabled>>

(* Whatever is not "active" counts: off, but also coming up or going down. *)
WaitForInactive ==
  /\ ssh.at = "await" /\ ssh.operation = "disable"
  /\ \/ unit[Head(ssh.left)] # "on" /\ NextSshUnit("stop", ssh.ok)
     \/ NextSshUnit("stop", FALSE)
  /\ UNCHANGED <<sshUnits, unit, enabled>>

DisableUnit ==
  /\ ssh.at = "disable"
  /\ \/ enabled' = enabled \ {Head(ssh.left)} /\ NextSshUnit("disable", ssh.ok)
     \/ NextSshUnit("disable", FALSE) /\ UNCHANGED enabled
  /\ UNCHANGED <<sshUnits, unit>>

ReloadDisabled ==
  /\ ssh.at = "reload" /\ ssh.operation = "disable"
  /\ \E reloaded \in BOOLEAN : Answer(ssh.ok /\ reloaded)
  /\ UNCHANGED <<sshUnits, unit, enabled>>

SshStep ==
  \/ EnableUnit \/ ReloadEnabled \/ StartUnit \/ WaitForActive \/ StopAgain \/ RollbackEnablement
  \/ StopUnit \/ WaitForInactive \/ DisableUnit \/ ReloadDisabled

SshEnds == Answer(FALSE) /\ UNCHANGED <<sshUnits, unit, enabled>>

-----------------------------------------------------------------------------
(* systemd *)

(* A job ends, a unit ends by itself, or somebody connects to the socket,   *)
(* which starts the service even while a stop of it is under way.           *)
SystemdStep ==
  /\ \E u \in sshUnits, after \in {"off", "starting", "on"} :
       /\ \/ unit[u] = "starting" /\ after \in {"on", "off"}
          \/ unit[u] \in {"stopping", "on"} /\ after = "off"
          \/ u = Service /\ unit[u] \in {"off", "stopping"} /\ after = "starting"
             /\ Socket \in sshUnits /\ unit[Socket] = "on"
       /\ unit' = [unit EXCEPT ![u] = after]
  /\ UNCHANGED <<sshUnits, enabled, ssh>>

(* The device boots; the request is over.                                   *)
Boot ==
  /\ unit' = [u \in sshUnits |-> IF u \in enabled THEN "starting" ELSE "off"]
  /\ ssh' = IF ssh.at = "idle" THEN ssh ELSE [ssh EXCEPT !.at = "idle", !.left = << >>, !.ok = FALSE]
  /\ UNCHANGED <<sshUnits, enabled>>
=============================================================================
