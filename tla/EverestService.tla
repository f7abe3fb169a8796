---------------------------- MODULE EverestService ----------------------------
(***************************************************************************)
(* everest.service as systemd runs it: what the calls of SystemdService    *)
(* (backend/api/libs/SystemdService.cpp) ask for and what they can read.   *)
(* A call returns when its job is accepted; the job is carried out later   *)
(* and replaces one that is still waiting (mode "replace").  EVerest       *)
(* itself is external: each start is a new instance, whose RpcApi module   *)
(* opens its port some time after the start and closes it for good some    *)
(* time before the unit counts as stopped.                                 *)
(***************************************************************************)
EXTENDS Naturals

CONSTANTS
  MaxInstances,      \* bound on the starts of EVerest
  ExitingInstances   \* the instances that may end by themselves

VARIABLES
  unit,       \* ActiveState
  job,        \* the job accepted and not yet carried out
  instance,   \* the last instance started
  api         \* its RpcApi accepts connections and answers

serviceVars == <<unit, job, instance, api>>

Stopped == unit \in {"inactive", "failed"}

ServiceTypeOK ==
  /\ unit \in {"active", "deactivating", "inactive", "failed"}
  /\ job \in {"none", "stop", "restart"}
  /\ instance \in 1..MaxInstances
  /\ api \in BOOLEAN

ServiceInit == unit = "active" /\ job = "none" /\ instance = 1 /\ api = TRUE

(* RestartUnit and StopUnit return once systemd has taken the job.          *)
AcceptJob(kind) == job' = kind /\ UNCHANGED <<unit, instance, api>>

ConfirmedStopped_Transitional == unit # "active"

(* waitForUnitStopped asks for "inactive", not for the absence of "active". *)
ConfirmedStopped == unit = "inactive"

(***************************************************************************)
(* What systemd and EVerest do.                                            *)
(***************************************************************************)
BeginStop ==
  /\ job # "none" /\ unit = "active"
  /\ unit' = "deactivating"
  /\ UNCHANGED <<job, instance, api>>

ApiGoesDown ==
  /\ api /\ unit # "active"
  /\ api' = FALSE
  /\ UNCHANGED <<unit, job, instance>>

FinishStop ==
  /\ unit = "deactivating" /\ ~api
  /\ unit' \in {"inactive", "failed"}
  /\ job' = IF job = "stop" THEN "none" ELSE job
  /\ UNCHANGED <<instance, api>>

NothingToStop ==
  /\ job = "stop" /\ Stopped
  /\ job' = "none"
  /\ UNCHANGED <<unit, instance, api>>

StartInstance ==
  /\ job = "restart" /\ Stopped
  /\ job' = "none"
  /\ \/ /\ instance < MaxInstances
        /\ unit' = "active" /\ instance' = instance + 1
     \/ unit' = "failed" /\ UNCHANGED instance
  /\ UNCHANGED api

ApiComesUp ==
  /\ unit = "active" /\ ~api
  /\ api' = TRUE
  /\ UNCHANGED <<unit, job, instance>>

InstanceExits ==
  /\ unit = "active" /\ instance \in ExitingInstances
  /\ unit' \in {"inactive", "failed"}
  /\ api' = FALSE
  /\ UNCHANGED <<job, instance>>

Systemd ==
  BeginStop \/ ApiGoesDown \/ FinishStop \/ NothingToStop \/ StartInstance \/ ApiComesUp
  \/ InstanceExits
=============================================================================
