------------------------------- MODULE Launcher -------------------------------
(***************************************************************************)
(* The launcher (backend/launcher/src/main.cpp): it starts the API, waits  *)
(* until its port answers, starts the web server, and lets neither run     *)
(* without the other.  A child is "ended" from the moment it is gone until *)
(* QProcess has reported it.                                               *)
(*                                                                         *)
(* terminateSibling blocks the launcher until the child is gone; the       *)
(* finished signals that arrive meanwhile find the other child not running *)
(* and change nothing but the exit code.                                   *)
(***************************************************************************)

VARIABLES
  phase,   \* "off", "polling", "serving", "terminating", "killing", "leaving"
  api,     \* the API process: "off", "up", "ended"
  web,     \* the web server process
  victim   \* the child terminateSibling waits for: "api", "web", "none"

launcherVars == <<phase, api, web, victim>>

LauncherTypeOK ==
  /\ phase \in {"off", "polling", "serving", "terminating", "killing", "leaving"}
  /\ {api, web} \subseteq {"off", "up", "ended"}
  /\ victim \in {"api", "web", "none"}

LauncherInit == phase = "off" /\ api = "off" /\ web = "off" /\ victim = "none"

(* start(), with the service manager's decision to run it                  *)
Start ==
  /\ phase = "off"
  /\ phase' = "polling" /\ api' = "up"
  /\ UNCHANGED <<web, victim>>

(* pollBackend has reached the API and starts the web server.              *)
PollBackend ==
  /\ phase = "polling" /\ api = "up"
  /\ phase' = "serving" /\ web' = "up"
  /\ UNCHANGED <<api, victim>>

TerminateSibling(child) ==
  /\ phase' = "terminating" /\ victim' = child

(* The web server does not start, or the API does not answer in time.      *)
StartupFails ==
  /\ phase = "polling" /\ api = "up"
  /\ TerminateSibling("api")
  /\ UNCHANGED <<api, web>>

(* onBackendFinished and onFrontendFinished                                *)
OnBackendFinished ==
  /\ phase \in {"polling", "serving"} /\ api = "ended"
  /\ api' = "off"
  /\ IF web = "up" THEN TerminateSibling("web") ELSE phase' = "leaving" /\ victim' = victim
  /\ UNCHANGED web

OnFrontendFinished ==
  /\ phase = "serving" /\ web = "ended"
  /\ web' = "off"
  /\ IF api = "up" THEN TerminateSibling("api") ELSE phase' = "leaving" /\ victim' = victim
  /\ UNCHANGED api

VictimIsUp == (victim = "api" /\ api = "up") \/ (victim = "web" /\ web = "up")

TerminateTimeout_WaitsOnly == phase = "terminating" /\ FALSE /\ UNCHANGED launcherVars

(* The three seconds after terminate() are over.                           *)
TerminateTimeout ==
  /\ phase = "terminating" /\ VictimIsUp
  /\ phase' = "killing"
  /\ UNCHANGED <<api, web, victim>>

(* waitForFinished returns; QCoreApplication::exit follows.  After kill()   *)
(* it waits 3 seconds at most (main.cpp:339): that a child outlasts a       *)
(* SIGKILL for so long is left out.                                         *)
SiblingGone ==
  /\ phase \in {"terminating", "killing"} /\ ~VictimIsUp
  /\ phase' = "leaving" /\ victim' = "none"
  /\ UNCHANGED <<api, web>>

(* SIGTERM or SIGINT                                                       *)
Quit ==
  /\ phase \in {"polling", "serving"}
  /\ phase' = "leaving"
  /\ UNCHANGED <<api, web, victim>>

(* shutdownChildren, first the web server and then the API; and main ends. *)
ShutdownChildren ==
  /\ phase = "leaving"
  /\ IF web = "up" THEN TerminateSibling("web")
     ELSE IF api = "up" THEN TerminateSibling("api")
     ELSE phase' = "off" /\ victim' = victim
  /\ api' = IF api = "up" THEN "up" ELSE "off"
  /\ web' = IF web = "up" THEN "up" ELSE "off"

(* A child ends: of itself, by SIGTERM, or because it has been killed.     *)
ApiEnds ==
  /\ api = "up"
  /\ api' = "ended"
  /\ UNCHANGED <<phase, web, victim>>

WebEnds ==
  /\ web = "up"
  /\ web' = "ended"
  /\ UNCHANGED <<phase, api, victim>>

(* The launcher is killed; the service manager then ends the whole unit.   *)
UnitKilled ==
  /\ phase # "off"
  /\ phase' = "off" /\ api' = "off" /\ web' = "off" /\ victim' = "none"
=============================================================================
