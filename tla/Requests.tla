------------------------------- MODULE Requests -------------------------------
(***************************************************************************)
(* The requests of the control path: their identifiers and their kinds.    *)
(* A kind stands for the module group and the action of a ModuleRequest    *)
(* (src/backend/api/RequestResponseTypes.hpp).  "read" is every handler    *)
(* that answers without spinning the event loop; "write" is every one that *)
(* may spin it while it waits for EVerest or for systemd (EVerest and OCPP *)
(* configuration writes, SSH control).                                     *)
(***************************************************************************)

CONSTANTS
  Ids,    \* identifiers RequestHandler gives to requests
  NoId    \* "no request"

ASSUME IdAssumption == NoId \notin Ids

FirmwareKinds == {"upload_start", "upload_chunk", "upload_finish", "update_image", "reboot"}
ResetKinds == {"read_status", "reset"}
SafetyKinds == {"safety_read", "safety_write"}
AllKinds == {"read", "write"} \union SafetyKinds \union FirmwareKinds \union ResetKinds
=============================================================================
