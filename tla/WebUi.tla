--------------------------------- MODULE WebUi ---------------------------------
(***************************************************************************)
(* A browser tab, the two processes the launcher runs, and a reboot or     *)
(* factory reset that the tab asks for: does the page get through it?      *)
(* The tab is the page memory of RebootRecovery; the processes are those   *)
(* of Launcher; a request and its answer cross the tab's WebSocket; the    *)
(* restriction of the login goes through the login-state file.             *)
(*                                                                         *)
(* One tab and one request at a time.  The session ends with the web       *)
(* server or with the login it was given for (StaticServer, modelled in    *)
(* WebServer); session storage is available.  Bounds: MaxDisturbances      *)
(* process ends, connection losses and reloads that nothing has asked for. *)
(***************************************************************************)
EXTENDS RebootRecovery, Launcher, LoginState, Naturals

CONSTANT MaxDisturbances

ASSUME DisturbancesAssumption == MaxDisturbances \in Nat

VARIABLES
  b,           \* the page's memory
  session,     \* the web server holds the tab's session
  op,          \* the request the API holds: "none", "reboot", "factory_reset"
  link,        \* the server's end of the page's open WebSocket exists
  heard,       \* so does that of the connection the request came in on
  reply,       \* its answer, under way to the tab
  due,         \* the device is about to reboot
  restarted,   \* the web server was started after the last accepted operation
  disturbances

serverVars == <<op, link, heard, reply, due, restarted, login>>
vars == <<b, session, serverVars, launcherVars, disturbances>>

HasSession == session /\ LoginAllowed
Reachable == api = "up" /\ web = "up"
MayConnect == Reachable /\ HasSession

Init ==
  /\ LauncherInit /\ login = "invalid"
  /\ b = Loaded(NoRecovery, FALSE)
  /\ session = FALSE /\ op = "none" /\ link = FALSE /\ heard = FALSE /\ reply = "none"
  /\ due = FALSE /\ restarted = FALSE /\ disturbances = 0

Disturb == disturbances < MaxDisturbances /\ disturbances' = disturbances + 1

Page(new) == b' = new
OnlyPage(new) == Page(new) /\ UNCHANGED <<session, serverVars, launcherVars, disturbances>>

(* An answer to /auth/status.  A web server that reads a restriction        *)
(* invalidates its sessions first.                                          *)
Status == [allowed |-> LoginAllowed, authenticated |-> HasSession, late |-> Late(b)]
ReadStatus == session' = HasSession

-----------------------------------------------------------------------------
(* app.js *)

(* init(), when no operation has been resumed; nobody catches what fails    *)
(* behind it.                                                               *)
InitialStatus ==
  /\ b.page = "loading" /\ ~Pending(b) /\ web = "up"
  /\ Page(CASE LoginAllowed /\ session -> [b EXCEPT !.page = "entering"]
            [] LoginAllowed /\ ~session -> DisplayAuthStatus(b, Status)
            [] ~LoginAllowed -> ObserveStatus(b, Status, FALSE))
  /\ ReadStatus
  /\ UNCHANGED <<serverVars, launcherVars, disturbances>>

InitialStatusFails ==
  /\ b.page = "loading" /\ ~Pending(b) /\ web # "up"
  /\ OnlyPage(OnStatusUnavailable(b))

(* The submit handler of the login form; the status it reads afterwards is  *)
(* read together with the login.                                            *)
Login ==
  /\ b.page = "gate" /\ ~Pending(b) /\ web = "up"
  /\ IF LoginAllowed THEN Page([b EXCEPT !.page = "entering"]) /\ session' = TRUE
                     ELSE Page(ObserveRestriction(b)) /\ session' = FALSE
  /\ UNCHANGED <<serverVars, launcherVars, disturbances>>

(* startAuthenticatedApp: the parameter catalog is fetched before the       *)
(* transport is created.  When that fails, only a page that comes back from *)
(* a recovery ("starting") waits for the device; any other ("entering") is  *)
(* left with an empty layout (app.js:49-54, 74, 243).                       *)
StartApp ==
  /\ b.page \in {"entering", "starting"} /\ ~Pending(b)
  /\ OnlyPage(CASE web = "up" -> [b EXCEPT !.page = "app", !.sock = "opening"]
                [] web # "up" /\ b.page = "starting" -> OnStatusUnavailable(b)
                [] web # "up" /\ b.page = "entering" -> [b EXCEPT !.page = "empty"])

(* The user reloads the page; the operation is kept in the session storage. *)
Reload ==
  /\ Disturb
  /\ Page(IF Pending(b) THEN Resume(Loaded(b.pending, FALSE)) ELSE Loaded(NoRecovery, FALSE))
  /\ link' = FALSE /\ heard' = FALSE /\ reply' = "none"
  /\ UNCHANGED <<session, op, due, restarted, login, launcherVars>>

-----------------------------------------------------------------------------
(* The transport *)

SocketOpens ==
  /\ b.sock = "opening" /\ MayConnect
  /\ Page(OnConnected([b EXCEPT !.sock = "open"]))
  /\ link' = TRUE
  /\ UNCHANGED <<session, op, heard, reply, due, restarted, login, launcherVars, disturbances>>

Reconnect ==
  /\ b.sock = "retry"
  /\ OnlyPage([b EXCEPT !.sock = "opening"])

Hangup == link' = FALSE /\ heard' = FALSE /\ reply' = "none"

(* onclose and createAppTransport's onClose.  A restriction is the reason   *)
(* the web server gives when it closes the connection.                      *)
OnClose(remembered, restricted) ==
  LET off == OnDisconnected([b EXCEPT !.sock = "closed"], remembered)
  IN Page(ScheduleReconnect(IF ~Pending(off) /\ restricted THEN ObserveRestriction(off) ELSE off))

SocketFails ==
  /\ b.sock = "opening" /\ ~MayConnect
  /\ OnClose(FALSE, FALSE)
  /\ UNCHANGED <<session, serverVars, launcherVars, disturbances>>

SocketCloses ==
  /\ b.sock = "open" /\ ~(link /\ MayConnect)
  /\ \E remembered \in BOOLEAN : OnClose(remembered, web = "up" /\ ~LoginAllowed)
  /\ Hangup /\ ReadStatus
  /\ UNCHANGED <<op, due, restarted, login, launcherVars, disturbances>>

(* The connection is lost although nothing has ended it.                    *)
SocketLost ==
  /\ b.sock = "open" /\ Disturb
  /\ \E remembered \in BOOLEAN : OnClose(remembered, FALSE)
  /\ Hangup
  /\ UNCHANGED <<session, op, due, restarted, login, launcherVars>>

(* The onclose of a socket that close() gave up, at any later time          *)
OldSocketEnds ==
  /\ b.old
  /\ \E remembered \in BOOLEAN : Page(OnDisconnected([b EXCEPT !.old = FALSE], remembered))
  /\ IF b.sock = "open" THEN UNCHANGED <<link, heard, reply>> ELSE Hangup
  /\ UNCHANGED <<session, op, due, restarted, login, launcherVars, disturbances>>

-----------------------------------------------------------------------------
(* rebootRecovery.js: requests, answers, timers *)

(* A message sent on a connection whose other end is gone is lost.         *)
Send(request) ==
  /\ op' = IF link THEN request ELSE op
  /\ heard' = link /\ reply' = "none"

AskForReboot ==
  /\ CanStart(b) /\ op = "none"
  /\ Page(RequestReboot(b))
  /\ Send("reboot")
  /\ UNCHANGED <<session, link, due, restarted, login, launcherVars, disturbances>>

AskForFactoryReset ==
  /\ CanStart(b) /\ op = "none"
  /\ Page(RequestFactoryReset(b))
  /\ Send("factory_reset")
  /\ UNCHANGED <<session, link, due, restarted, login, launcherVars, disturbances>>

(* send() of a socket that is closing: the request is given up at once.     *)
SendFails ==
  /\ CanStart(b) /\ ~link
  /\ OnlyPage(Clear(b))

(* The page finds in read_status that a factory reset it has not asked for  *)
(* ends in a reboot (ui/factoryReset.js).                                   *)
FindFactoryReset ==
  /\ CanStart(b) /\ link /\ due
  /\ OnlyPage(ExpectFactoryReboot(b))

SettingsArrive ==
  /\ b.ask = "sent" /\ link
  /\ \E valid \in BOOLEAN : OnlyPage(SettingsMessage(b, valid))

SettingsTimer ==
  /\ b.ask = "timer"
  /\ OnlyPage(LoadSettings(b))

(* On a socket that close() has given up, transport.js passes only errors.  *)
ReplyArrives ==
  /\ reply # "none"
  /\ b.sock = "open" \/ (b.old /\ reply # "expected")
  /\ Page(OnMessage(b, reply))
  /\ reply' = "none"
  /\ UNCHANGED <<session, op, link, heard, due, restarted, login, launcherVars, disturbances>>

(* No answer to the factory reset within the transport's request timeout    *)
RequestTimeout ==
  /\ b.pending.phase = "resetting" /\ b.pending.asked
  /\ OnlyPage(WaitForReturn(b))

(* wait_timeout_seconds after waitStarted                                   *)
WaitElapses ==
  /\ b.pending.wait = "running"
  /\ OnlyPage([b EXCEPT !.pending.wait = "over"])

DeadlineTimer ==
  /\ b.pending.phase = "waiting" /\ b.pending.wait = "over"
  /\ OnlyPage(OutcomeScreen(b))

(* The button of the overlay, there while the page waits                    *)
ManualReload ==
  /\ b.pending.phase = "waiting"
  /\ OnlyPage(OutcomeScreen(b))

ProbeTimer ==
  /\ b.timer /\ b.probe.at = "none"
  /\ OnlyPage(Probe(b))

StatusAnswered ==
  /\ b.probe.at = "asked" /\ web = "up"
  /\ Page([b EXCEPT !.probe.at = "answered", !.probe.answer = Status])
  /\ ReadStatus
  /\ UNCHANGED <<serverVars, launcherVars, disturbances>>

(* No answer in time, or one that is no status; with a web server that runs *)
(* it is a disturbance.                                                     *)
StatusUnanswered ==
  /\ b.probe.at = "asked"
  /\ Page([b EXCEPT !.probe.at = "failed"])
  /\ IF web = "up" THEN Disturb ELSE UNCHANGED disturbances
  /\ UNCHANGED <<session, serverVars, launcherVars>>

ProbeDone ==
  /\ b.probe.at \in {"answered", "failed"}
  /\ OnlyPage(ProbeReturns(b))

-----------------------------------------------------------------------------
(* The API, as SystemControl models it in full                              *)

Answer(text) == reply' = IF heard THEN text ELSE "none"

ApiRefuses ==
  /\ api = "up" /\ op # "none"
  /\ \E text \in (IF op = "reboot" THEN {"refused"} ELSE {"refused", "failed"}) : Answer(text)
  /\ op' = "none" /\ heard' = FALSE
  /\ UNCHANGED <<b, session, link, due, restarted, login, launcherVars, disturbances>>

(* The restriction is published before the reboot is announced.  A reboot   *)
(* is given up when that fails; a factory reset has been done by then.      *)
ApiAccepts ==
  /\ api = "up" /\ op # "none"
  /\ \E outcome \in BlockOutcomes :
       /\ BlockLoginForReboot(op, outcome)
       /\ due' = (due \/ op = "factory_reset" \/ outcome = "published")
       /\ Answer(CASE outcome = "published" -> "expected"
                   [] outcome # "published" /\ op = "reboot" -> "refused"
                   [] OTHER -> "expected_error")
       /\ api' = IF outcome = "exit" THEN "ended" ELSE api
       /\ link' = (link /\ outcome # "exit")
  /\ op' = "none" /\ heard' = FALSE /\ restarted' = FALSE
  /\ UNCHANGED <<b, session, phase, web, victim, disturbances>>

-----------------------------------------------------------------------------
(* Processes and the device *)

Gone == Hangup /\ op' = "none"

LauncherStarts ==
  /\ Start /\ InitializeLoginState
  /\ UNCHANGED <<b, session, op, link, heard, reply, due, restarted, disturbances>>

WebServerStarts ==
  /\ PollBackend
  /\ restarted' = TRUE
  /\ UNCHANGED <<b, session, op, link, heard, reply, due, login, disturbances>>

LauncherStep ==
  /\ \/ OnBackendFinished \/ OnFrontendFinished \/ TerminateTimeout \/ SiblingGone
     \/ ShutdownChildren
  /\ UNCHANGED <<b, session, serverVars, disturbances>>

LauncherDisturbed ==
  /\ StartupFails \/ Quit
  /\ Disturb
  /\ UNCHANGED <<b, session, serverVars>>

(* A child ends because it has been told to, or of itself.                  *)
MayEnd(child) ==
  IF victim = child THEN UNCHANGED disturbances ELSE Disturb

ApiProcessEnds ==
  /\ ApiEnds /\ MayEnd("api")
  /\ Gone
  /\ UNCHANGED <<b, session, due, restarted, login>>

WebProcessEnds ==
  /\ WebEnds /\ MayEnd("web")
  /\ session' = FALSE
  /\ Hangup
  /\ UNCHANGED <<b, op, due, restarted, login>>

(* The reboot that was announced; or a power cycle, which a device that     *)
(* allows no login is given in the end.                                     *)
Reboots ==
  /\ phase # "off"
  /\ IF due \/ ~LoginAllowed THEN UNCHANGED disturbances ELSE Disturb
  /\ UnitKilled
  /\ session' = FALSE /\ due' = FALSE
  /\ Gone
  /\ UNCHANGED <<b, restarted, login>>

Next ==
  \/ InitialStatus \/ InitialStatusFails \/ Login \/ StartApp \/ Reload
  \/ SocketOpens \/ Reconnect \/ SocketFails \/ SocketCloses \/ SocketLost \/ OldSocketEnds
  \/ AskForReboot \/ AskForFactoryReset \/ SendFails \/ FindFactoryReset
  \/ SettingsArrive \/ SettingsTimer \/ ReplyArrives \/ RequestTimeout
  \/ WaitElapses \/ DeadlineTimer \/ ManualReload \/ ProbeTimer \/ StatusAnswered \/ StatusUnanswered \/ ProbeDone
  \/ ApiRefuses \/ ApiAccepts
  \/ LauncherStarts \/ WebServerStarts \/ LauncherStep \/ LauncherDisturbed
  \/ ApiProcessEnds \/ WebProcessEnds \/ Reboots

Launching == LauncherStarts \/ WebServerStarts \/ LauncherStep
Probing == ProbeTimer \/ StatusAnswered \/ StatusUnanswered \/ ProbeDone

(* The launcher and its children go on by themselves and a child told to    *)
(* end ends, by SIGKILL if need be; the service manager starts the launcher *)
(* again; a restricted device reboots; the page's timers fire, and a        *)
(* request is answered, refused or times out.  Users need do nothing.       *)
Fairness ==
  /\ WF_vars(Launching)
  /\ WF_vars(phase = "killing" /\ (ApiProcessEnds \/ WebProcessEnds))
  /\ WF_vars((due \/ ~LoginAllowed) /\ Reboots)
  /\ WF_vars(RequestTimeout) /\ WF_vars(WaitElapses) /\ WF_vars(Probing)

Spec == Init /\ [][Next]_vars /\ Fairness

-----------------------------------------------------------------------------
(* The page never gives up waiting too early: a recovery that something has *)
(* confirmed ends only when the web server has been started since the       *)
(* operation was accepted; one that nothing confirms lets a session go on   *)
(* only on an answer given after the wait was over or the request refused   *)
(* (the documents say more: on a probe begun after it), or when the page    *)
(* had asked for nothing and only looked for the status (statusCheckOnly).  *)
EndsOnEvidence ==
  [][ (Pending(b) /\ ~Pending(b)' /\ b.pending.phase # "resetting") =>
        /\ b.pending.confirmed => restarted
        /\ (~b.pending.confirmed /\ b'.page = "starting") => b.probe.answer.late ]_vars

(* The page always comes back: whatever is lost, refused, late or killed,   *)
(* a recovery ends.                                                         *)
RecoveryEnds == Pending(b) ~> ~Pending(b)

(* Neither child runs on without the other.                                 *)
LoneChildEnds ==
  /\ (web = "up" /\ api # "up") ~> (web # "up")
  /\ (phase = "serving" /\ api = "up" /\ web # "up") ~> (api # "up")
=============================================================================
