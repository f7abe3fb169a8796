------------------------------ MODULE LoginState ------------------------------
(***************************************************************************)
(* The login-state file shared by the launcher, the API and the web server *)
(* (backend/config/LoginState.cpp).  It is written with QSaveFile, so a    *)
(* reader sees the old or the new document and never a mixture.  Everything*)
(* that is not one of the three documents writeState produces (a missing   *)
(* file, a symlink, another JSON value) reads as "invalid", which, like    *)
(* "reboot" and "factory_reset", does not allow a login.                   *)
(***************************************************************************)

VARIABLE login

LoginStates == {"allowed", "reboot", "factory_reset", "invalid"}

LoginAllowed_IgnoresReboot == login # "factory_reset"

(* readLoginState().allowed *)
LoginAllowed == login = "allowed"

(* initializeLoginState: the launcher publishes "allowed" on every start.  *)
InitializeLoginState == login' = "allowed"

(* How blockLoginForReboot can end.  "published": the restriction is in the *)
(* file, the call returns true.  "removed": writing failed and the file was *)
(* removed.  "exit": not even removing it worked, so the process was told   *)
(* to leave with QCoreApplication::exit(1).                                 *)
BlockOutcomes == {"published", "removed", "exit"}

BlockLoginForReboot_KeepsStaleFile(operation, outcome) ==
  login' = IF outcome = "published" THEN operation ELSE login

BlockLoginForReboot(operation, outcome) ==
  \/ outcome = "published" /\ login' = operation
  \/ outcome = "removed"   /\ login' = "invalid"
  \/ outcome = "exit"      /\ login' = login
=============================================================================
