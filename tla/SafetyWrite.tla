------------------------------ MODULE SafetyWrite ------------------------------
(***************************************************************************)
(* The stages of a safety controller write (the class                      *)
(* SafetyControllerWriteOperation of backend/api/modules/                  *)
(* SafetyController.cpp) as the rest of the API sees them: what the        *)
(* operation waits for and what it has done to EVerest.  Its helper        *)
(* processes, their timeouts and the settings cache are abstracted to the  *)
(* outcome of each stage.                                                  *)
(***************************************************************************)
EXTENDS Requests

VARIABLES
  safetyOp,   \* the stage: see SafetyStages
  safetyId,   \* the request the operation was created with
  everest     \* everest.service, as far as this process moves it

safetyVars == <<safetyOp, safetyId>>

(* "create" and "flash" wait for a process, "recover" for the two of a      *)
(* readback, "check", "stop" and "restart" spin a nested event loop.        *)
SafetyStages == {"none", "create", "check", "stop", "flash", "recover", "restart"}

SafetyTypeOK ==
  /\ safetyOp \in SafetyStages
  /\ safetyId \in Ids \union {NoId}
  /\ everest \in {"active", "inactive"}

SafetyInit ==
  /\ safetyOp = "none"
  /\ safetyId = NoId
  /\ everest = "active"

StartSafetyWrite(id) ==
  /\ safetyOp' = "create"
  /\ safetyId' = id
  /\ UNCHANGED everest

EverestAfterStop_Unawaited(confirmed) == everest' \in {"active", "inactive"}

(* executeEverestStop reports success only once systemd says the unit is    *)
(* stopped; after a failure or a timeout the service may run or not.        *)
EverestAfterStop(confirmed) ==
  everest' \in IF confirmed THEN {"inactive"} ELSE {"active", "inactive"}

(* A stage that goes on to another one.                                     *)
AdvanceSafetyWrite ==
  /\ UNCHANGED safetyId
  /\ \/ safetyOp = "create"  /\ safetyOp' = "check" /\ UNCHANGED everest
     \/ safetyOp = "check"   /\ safetyOp' = "stop" /\ UNCHANGED everest
     \/ safetyOp = "stop"    /\ safetyOp' \in {"flash", "restart"} /\ EverestAfterStop(TRUE)
     \/ safetyOp = "flash"   /\ safetyOp' \in {"recover", "restart"} /\ UNCHANGED everest
     \/ safetyOp = "recover" /\ safetyOp' = "restart" /\ UNCHANGED everest

(* complete(), without the response: a stage that failed before the flash,  *)
(* or the end of the restart, which may not have brought the service up.    *)
CompleteSafetyWrite ==
  /\ safetyOp' = "none"
  /\ safetyId' = NoId
  /\ \/ safetyOp \in {"create", "check"} /\ UNCHANGED everest
     \/ safetyOp = "stop" /\ EverestAfterStop(FALSE)
     \/ safetyOp = "restart" /\ everest' \in {"active", "inactive"}

(* The process ends: nothing is left of the operation.                      *)
AbandonSafetyWrite ==
  /\ safetyOp' = "none" /\ safetyId' = NoId
  /\ everest' \in {"active", "inactive"}

SafetyNext ==
  \/ \E id \in Ids : safetyOp = "none" /\ StartSafetyWrite(id)
  \/ AdvanceSafetyWrite \/ CompleteSafetyWrite \/ AbandonSafetyWrite

SafetySpec == SafetyInit /\ [][SafetyNext]_<<safetyVars, everest>>
=============================================================================
