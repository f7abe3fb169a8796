------------------------ MODULE SafetyControllerWrite ------------------------
(***************************************************************************)
(* A write of safety controller settings from its start to its response    *)
(* (SafetyControllerWriteOperation in backend/api/modules/                 *)
(* SafetyController.cpp): the helper processes with their timers, the      *)
(* settings cache, and the stop and restart of EVerest around the flash.   *)
(* Between writes, configuration writes (EverestConfig.cpp, OCPPConfig.cpp)*)
(* restart EVerest with the same procedures.                               *)
(*                                                                         *)
(* A settings document is a number, the write that made it; `Damaged' is   *)
(* what a flash that did not end well may leave in the controller.         *)
(* `writes' and `base' have no counterpart in the code: they remember what *)
(* the write is to make of the controller and what it found there.         *)
(***************************************************************************)
EXTENDS EverestServiceControl

CONSTANTS
  LateNotices,     \* the end of a connection may go unnoticed until EVerest is started again
  MaxWrites,       \* bound on the safety writes
  MaxOperations    \* bound on the writes of both kinds

ASSUME BoundsAssumption ==
  /\ LateNotices \in BOOLEAN
  /\ EvseCount \in Nat \ {0} /\ MaxWrites \in Nat \ {0} /\ MaxOperations \in Nat
  /\ MaxInstances \in Nat \ {0} /\ MaxConnections \in Nat \ {0}

VARIABLES
  operation,             \* the request being served
  stage,                 \* what it waits for
  tool,                  \* its helper process, as the system runs it
  started, timedOut,     \* m_started, m_timedOut
  timer,                 \* m_startTimer or m_runTimer
  killed, exitedWell,
  controller,            \* the settings in the controller
  cache, backup,         \* its YAML file and the one set aside as .invalid
  response,              \* m_response
  operations, writes, base

toolVars == <<tool, started, timedOut, timer, killed, exitedWell>>
cacheVars == <<controller, cache, backup>>
writeVars == <<operation, stage, response, operations, writes, base>>
everestVars == <<serviceVars, clientVars, controlVars>>
vars == <<everestVars, writeVars, toolVars, cacheVars>>

Damaged == MaxWrites + 1
NoDocument == MaxWrites + 2
Documents == 0..NoDocument
ToolStages == {"create", "flash", "dump", "yaml"}
NoReply == [of |-> "none", success |-> FALSE, error |-> "none", cacheState |-> "none"]

TypeOK ==
  /\ ServiceTypeOK /\ ClientTypeOK /\ ControlTypeOK
  /\ operation \in {"none", "safety", "config"}
  /\ stage \in ToolStages \union {"none", "check", "stop", "restart", "monitor"}
  /\ tool \in {"none", "forked", "running", "exited"}
  /\ started \in BOOLEAN /\ timedOut \in BOOLEAN
  /\ killed \in BOOLEAN /\ exitedWell \in BOOLEAN
  /\ timer \in {"none", "start", "run"}
  /\ controller \in Documents \ {NoDocument}
  /\ cache \in Documents /\ backup \in Documents
  /\ response.cacheState \in {"none", "unchanged", "refreshed", "unavailable"}
  /\ operations \in 0..MaxOperations /\ writes \in 0..MaxWrites /\ base \in Documents

NoTool ==
  /\ tool = "none" /\ started = FALSE /\ timedOut = FALSE
  /\ timer = "none" /\ killed = FALSE /\ exitedWell = FALSE

Init ==
  /\ ServiceInit /\ ClientInit /\ ControlInit /\ NoTool
  /\ operation = "none" /\ stage = "none" /\ response = NoReply
  /\ controller = 0 /\ cache = 0 /\ backup = NoDocument
  /\ operations = 0 /\ writes = 0 /\ base = 0

CheckLast == IF operation = "safety" THEN EvseCount ELSE 1
ReadyLast == IF operation = "safety" THEN EvseCount ELSE 0

(***************************************************************************)
(* The end of an operation.                                                *)
(***************************************************************************)
Reply(success, error, cacheState) ==
  [of |-> operation, success |-> success, error |-> error, cacheState |-> cacheState]

Complete(reply) ==
  /\ stage' = "none" /\ operation' = "none"
  /\ response' = reply
  /\ UNCHANGED <<operations, writes, base>>

Fail(error) == Complete(Reply(FALSE, error, response.cacheState))

Enter(next) ==
  /\ stage' = next
  /\ UNCHANGED <<operation, response, operations, writes, base>>

(***************************************************************************)
(* Helper processes: startProcess, and the handlers of QProcess and of the *)
(* two timers.                                                             *)
(***************************************************************************)
StartProcess ==
  /\ tool' = "forked" /\ started' = FALSE /\ timedOut' = FALSE
  /\ timer' = "start" /\ killed' = FALSE /\ exitedWell' = FALSE

ToolExecutes ==
  /\ tool = "forked"
  /\ tool' = "running"
  /\ UNCHANGED <<everestVars, writeVars, cacheVars, started, timedOut, timer, killed, exitedWell>>

(* The flash replaces the settings; until it is through they are damaged.   *)
FlashWrites ==
  /\ tool = "running" /\ stage = "flash" /\ controller # writes
  /\ controller' \in {Damaged, writes}
  /\ UNCHANGED <<everestVars, writeVars, toolVars, cache, backup>>

(* A tool says it succeeded only when it has; one that was told to die may  *)
(* still do so.                                                             *)
ToolExits ==
  /\ tool = "running" \/ (tool = "forked" /\ killed)
  /\ tool' = "exited"
  /\ \/ exitedWell' = FALSE
     \/ tool = "running" /\ (stage = "flash" => controller = writes) /\ exitedWell' = TRUE
  /\ UNCHANGED <<everestVars, writeVars, cacheVars, started, timedOut, timer, killed>>

ProcessStarted ==
  /\ tool \in {"running", "exited"} /\ ~started
  /\ started' = TRUE
  /\ IF timedOut THEN killed' = TRUE /\ timer' = "none" ELSE timer' = "run" /\ UNCHANGED killed
  /\ UNCHANGED <<everestVars, writeVars, cacheVars, tool, timedOut, exitedWell>>

ProcessTimeout_WithoutKill ==
  /\ timer # "none"
  /\ timer' = "none" /\ timedOut' = TRUE
  /\ UNCHANGED <<everestVars, writeVars, cacheVars, tool, started, killed, exitedWell>>

(* A process that is told to die says so later, by its end.                 *)
ProcessTimeout ==
  /\ timer # "none"
  /\ timer' = "none" /\ timedOut' = TRUE /\ killed' = TRUE
  /\ UNCHANGED <<everestVars, writeVars, cacheVars, tool, started, exitedWell>>

ProcessEnds ==
  /\ tool' = "none" /\ started' = FALSE /\ timedOut' = FALSE
  /\ timer' = "none" /\ killed' = FALSE /\ exitedWell' = FALSE

(* The two signals finishProcess is called for.                             *)
FailedToStart == tool = "forked"
Finished == tool = "exited" /\ started
ToolDone == FailedToStart \/ Finished
Succeeded == Finished /\ ~timedOut /\ exitedWell

(***************************************************************************)
(* The restart of EVerest, with which a write ends whose flash was begun.  *)
(***************************************************************************)
(* A response with an error in it is final whatever becomes of the restart. *)
AfterRestart(error) ==
  IF response.error # "none" THEN Complete(response) ELSE Fail(error)

(* `outcome' is what the write will have to say of the flash.               *)
RestartWith(outcome) ==
  \/ /\ RestartAccepted
     /\ stage' = "restart" /\ response' = outcome
     /\ UNCHANGED <<operation, operations, writes, base>>
  \/ /\ Complete(IF outcome.error # "none" THEN outcome
                 ELSE Reply(FALSE, "everest_restart_failed", "none"))
     /\ UNCHANGED <<serviceVars, controlVars>>

(***************************************************************************)
(* startWriteRequest, and the requests that only restart EVerest.          *)
(***************************************************************************)
BeginSafetyWrite ==
  /\ stage = "none" /\ operations < MaxOperations /\ writes < MaxWrites
  /\ cache # NoDocument /\ IsReady
  /\ operation' = "safety" /\ stage' = "create" /\ response' = NoReply
  /\ operations' = operations + 1 /\ writes' = writes + 1 /\ base' = controller
  /\ StartProcess
  /\ UNCHANGED <<everestVars, cacheVars>>

BeginConfigWrite ==
  /\ stage = "none" /\ operations < MaxOperations
  /\ IsReady
  /\ operation' = "config" /\ stage' = "check" /\ response' = NoReply
  /\ operations' = operations + 1
  /\ Ask(1)
  /\ UNCHANGED <<serviceVars, controlVars, toolVars, cacheVars, writes, base>>

(***************************************************************************)
(* finishProcess for the conversion, and the check that follows it.        *)
(***************************************************************************)
FinishCreate ==
  /\ stage = "create" /\ ToolDone
  /\ ProcessEnds
  /\ \/ ~Succeeded /\ Fail("pb_create_failed") /\ UNCHANGED clientVars
     \/ Succeeded /\ ~IsReady /\ Fail("rpc_api_not_connected") /\ UNCHANGED clientVars
     \/ Succeeded /\ IsReady /\ Enter("check") /\ Ask(1)
  /\ UNCHANGED <<serviceVars, controlVars, cacheVars>>

FinishCheck ==
  /\ stage = "check"
  /\ \/ /\ CheckContinues(CheckLast)
        /\ Ask(reading.evse + 1)
        /\ UNCHANGED <<serviceVars, controlVars, writeVars>>
     \/ /\ CheckFails
        /\ AskNothing
        /\ Fail("everest_state_not_allowed")
        /\ UNCHANGED <<serviceVars, controlVars>>
     \/ /\ CheckPasses(CheckLast) /\ operation = "config"
        /\ AskNothing
        /\ RestartWith(NoReply)
     \/ /\ CheckPasses(CheckLast) /\ operation = "safety"
        /\ AskNothing
        /\ \/ /\ AcceptJob("stop") /\ Enter("stop")
              /\ deadline' = FALSE
              /\ UNCHANGED <<before, round, errorPresent, unresolved, answers>>
           \/ Fail("everest_stop_failed") /\ UNCHANGED <<serviceVars, controlVars>>
  /\ UNCHANGED <<toolVars, cacheVars>>

(***************************************************************************)
(* The wait for the stop, and the start of the flash.                      *)
(***************************************************************************)
(* invalidateSafetyControllerCache removes an older backup first, and may   *)
(* fail with or without having done so.                                     *)
CacheInvalidated == cache' = NoDocument /\ backup' = cache
CacheNotInvalidated == backup' \in {backup, NoDocument} /\ UNCHANGED cache

EverestStopped ==
  /\ stage = "stop" /\ ConfirmedStopped
  /\ \/ /\ CacheInvalidated
        /\ StartProcess /\ Enter("flash")
        /\ UNCHANGED <<serviceVars, controlVars>>
     \/ /\ CacheNotInvalidated
        /\ RestartWith(Reply(FALSE, "cache_invalidation_failed", "unchanged"))
        /\ UNCHANGED toolVars
  /\ UNCHANGED <<clientVars, controller>>

EverestStopTimeout_GoesOn ==
  /\ stage = "stop" /\ deadline
  /\ CacheInvalidated /\ StartProcess /\ Enter("flash")
  /\ UNCHANGED <<everestVars, controller>>

EverestStopTimeout ==
  /\ stage = "stop" /\ deadline
  /\ Fail("everest_stop_timeout")
  /\ UNCHANGED <<everestVars, toolVars, cacheVars>>

(***************************************************************************)
(* finishProcess for the flash and for the two tools of the readback.      *)
(***************************************************************************)
(* QSaveFile publishes the whole document or nothing; the backup that is    *)
(* then of no use may remain.                                               *)
Publish(document) == cache' = document /\ backup' \in {backup, NoDocument}

FlashFailed(cacheState) == Reply(FALSE, "flash_failed", cacheState)

FlashSucceeds ==
  /\ Succeeded
  /\ ProcessEnds
  /\ \/ Publish(writes) /\ RestartWith(NoReply)
     \/ /\ UNCHANGED <<cache, backup>>
        /\ RestartWith(Reply(FALSE, "yaml_publish_failed_after_flash", "unavailable"))

NeverStarted_AnyExit == ~timedOut

(* Only a tool that was never executed has left the controller as it was.   *)
NeverStarted == ~started /\ ~timedOut

FlashNeverStarts ==
  /\ ~Succeeded /\ NeverStarted
  /\ ProcessEnds
  /\ \/ cache' = backup /\ backup' = NoDocument /\ RestartWith(FlashFailed("unchanged"))
     \/ UNCHANGED <<cache, backup>> /\ RestartWith(FlashFailed("unavailable"))

FlashFails ==
  /\ ~Succeeded /\ ~NeverStarted
  /\ UNCHANGED <<cache, backup>>
  /\ \/ /\ StartProcess
        /\ stage' = "dump" /\ response' = FlashFailed("unavailable")
        /\ UNCHANGED <<operation, operations, writes, base, serviceVars, controlVars>>
     \/ ProcessEnds /\ RestartWith(FlashFailed("unavailable"))

FinishFlash ==
  /\ stage = "flash" /\ ToolDone
  /\ FlashSucceeds \/ FlashNeverStarts \/ FlashFails
  /\ UNCHANGED <<clientVars, controller>>

FinishRecovery ==
  /\ stage \in {"dump", "yaml"} /\ ToolDone
  /\ \/ /\ ~Succeeded
        /\ ProcessEnds /\ RestartWith(response) /\ UNCHANGED <<cache, backup>>
     \/ /\ stage = "dump" /\ Succeeded
        /\ StartProcess /\ Enter("yaml")
        /\ UNCHANGED <<serviceVars, controlVars, cache, backup>>
     \/ /\ stage = "yaml" /\ Succeeded
        /\ ProcessEnds
        /\ \/ Publish(controller) /\ RestartWith(FlashFailed("refreshed"))
           \/ RestartWith(response) /\ UNCHANGED <<cache, backup>>
  /\ UNCHANGED <<clientVars, controller>>

(***************************************************************************)
(* restartAfterFlash: the wait for the new EVerest, then the watch.        *)
(***************************************************************************)
BeginReadiness ==
  /\ stage = "restart"
  /\ BeginRound
  /\ IF ReadyLast = 0
     THEN Complete(Reply(TRUE, "none", "none")) /\ UNCHANGED clientVars
     ELSE Ask(1) /\ UNCHANGED writeVars
  /\ UNCHANGED <<serviceVars, toolVars, cacheVars>>

ContinueReadiness ==
  /\ stage = "restart"
  /\ NoteReadiness
  /\ \/ RoundContinues(ReadyLast) /\ Ask(reading.evse + 1)
     \/ RoundFails(ReadyLast) /\ AskNothing
  /\ UNCHANGED <<serviceVars, writeVars, toolVars, cacheVars>>

ReadinessFails ==
  /\ stage = "restart"
  /\ \/ ReadinessRefused /\ AskNothing
     \/ ~Reading /\ deadline /\ UNCHANGED clientVars
  /\ AfterRestart("rpc_api_not_ready")
  /\ UNCHANGED <<serviceVars, controlVars, toolVars, cacheVars>>

(* An error seen while it became ready needs no watch.                      *)
SawError == errorPresent \/ ReadResult = "faulty"

EverestReady ==
  /\ stage = "restart" /\ RoundSucceeds(ReadyLast)
  /\ \/ /\ response.error # "none"
        /\ AskNothing /\ Complete(response) /\ UNCHANGED controlVars
     \/ /\ response.error = "none" /\ SawError
        /\ AskNothing /\ Fail("everest_error_after_restart") /\ UNCHANGED controlVars
     \/ /\ response.error = "none" /\ ~SawError
        /\ BeginWatch /\ Ask(1) /\ Enter("monitor")
  /\ UNCHANGED <<serviceVars, toolVars, cacheVars>>

WatchStep ==
  /\ stage = "monitor"
  /\ \/ /\ WatchSeesError
        /\ AskNothing /\ Fail("everest_error_after_restart") /\ UNCHANGED controlVars
     \/ /\ WatchRefused
        /\ AskNothing /\ Fail("rpc_api_refused") /\ UNCHANGED controlVars
     \/ /\ WatchGoesOn /\ ~deadline /\ IsReady /\ reading.evse < EvseCount
        /\ NoteWatch({}) /\ Ask(reading.evse + 1) /\ UNCHANGED writeVars
     \/ /\ WatchGoesOn /\ (deadline \/ reading.evse = EvseCount)
        /\ NoteWatch({}) /\ AskNothing /\ UNCHANGED writeVars
     \/ /\ WatchGoesOn /\ ~deadline /\ ~IsReady /\ reading.evse < EvseCount
        /\ NoteWatch({e \in Evses : e > reading.evse}) /\ AskNothing /\ UNCHANGED writeVars
  /\ UNCHANGED <<serviceVars, toolVars, cacheVars>>

(* The next poll.                                                           *)
WatchPoll ==
  /\ stage = "monitor"
  /\ \/ /\ ~Reading /\ ~deadline /\ IsReady
        /\ Ask(1) /\ UNCHANGED controlVars
     \/ WatchUnconnected /\ UNCHANGED clientVars
  /\ UNCHANGED <<serviceVars, writeVars, toolVars, cacheVars>>

WatchEnds ==
  /\ stage = "monitor" /\ ~Reading /\ deadline
  /\ IF unresolved = {} THEN Complete(Reply(TRUE, "none", "none")) ELSE Fail("rpc_api_no_response")
  /\ UNCHANGED <<everestVars, toolVars, cacheVars>>

(***************************************************************************)
(* The backend process is restarted.  Its helper dies with it; files, the  *)
(* controller and EVerest stay as they are.                                *)
(***************************************************************************)
BackendRestarts ==
  /\ stage # "none" /\ connections < MaxConnections
  /\ operation' = "none" /\ stage' = "none" /\ response' = NoReply
  /\ ProcessEnds
  /\ link' = "connecting" /\ peer' = 0 /\ asked' = <<>> /\ arriving' = <<>>
  /\ reconnectTimer' = FALSE /\ connections' = connections + 1
  /\ handshakeComplete' = FALSE /\ handshakeGeneration' = 0 /\ disconnectionGeneration' = 0
  /\ pending' = NoRequest /\ lastResponse' = NoResponse /\ reading' = NoReading
  /\ UNCHANGED <<serviceVars, controlVars, cacheVars, operations, writes, base>>

(***************************************************************************)
(* The specification.                                                      *)
(***************************************************************************)
(* The other end of a local connection is seen to be gone before systemd    *)
(* has reaped the old EVerest and starts a new one.                         *)
NoticedInTime == LateNotices \/ link # "open"

Environment ==
  \/ Systemd /\ (instance' # instance => NoticedInTime) /\ UNCHANGED clientVars
  \/ (Client \/ PeerAnswers) /\ UNCHANGED serviceVars
EnvironmentStep == Environment /\ UNCHANGED <<controlVars, writeVars, toolVars, cacheVars>>

DeadlinePasses ==
  /\ stage \in {"stop", "restart", "monitor"} /\ DeadlineExpires
  /\ UNCHANGED <<serviceVars, writeVars, toolVars, cacheVars>>

ToolSteps == ToolExecutes \/ FlashWrites \/ ToolExits \/ ProcessStarted \/ ProcessTimeout

WriteSteps ==
  \/ FinishCreate \/ FinishCheck \/ EverestStopped \/ EverestStopTimeout
  \/ FinishFlash \/ FinishRecovery
  \/ BeginReadiness \/ ContinueReadiness \/ ReadinessFails \/ EverestReady
  \/ WatchStep \/ WatchEnds

Next ==
  \/ EnvironmentStep \/ DeadlinePasses \/ ToolSteps
  \/ BeginSafetyWrite \/ BeginConfigWrite \/ WriteSteps \/ WatchPoll
  \/ BackendRestarts

(* Timers fire and what is ready is handled; a killed process ends.         *)
Fairness ==
  /\ WF_vars(DeadlinePasses)
  /\ WF_vars(PendingRequestTimeout /\ UNCHANGED <<serviceVars, controlVars, writeVars, toolVars, cacheVars>>)
  /\ WF_vars(ProcessTimeout)
  /\ WF_vars(ProcessStarted)
  /\ WF_vars(killed /\ ToolExits)
  /\ WF_vars(Finished /\ WriteSteps)
  /\ WF_vars(FinishCheck)
  /\ WF_vars(~Reading /\ WriteSteps)
  /\ WF_vars(ReadIsOver /\ WriteSteps)

Spec == Init /\ [][Next]_vars
FairSpec == Spec /\ Fairness

(***************************************************************************)
(* Properties.                                                             *)
(***************************************************************************)
(* The controller is reached, to be flashed or to be read back, only while  *)
(* EVerest is down and nothing is going to start it.                        *)
ToolOnlyWhileStopped ==
  stage \in {"flash", "dump", "yaml"} /\ tool = "running" => unit = "inactive" /\ job # "restart"

(* A cached settings file is what the controller holds, through every       *)
(* failure and every restart of the backend: it never survives a flash that *)
(* may have changed the controller.                                         *)
CacheTellsTruth == cache # NoDocument => cache = controller

(* The final response says what became of the controller and of its cache;  *)
(* success also means that every EVSE of the EVerest started for this write *)
(* answered the watch and none reported an error.                           *)
ReportTellsTruth ==
  stage = "none" /\ response.of = "safety" =>
    /\ response.success =>
         /\ controller = writes /\ cache = writes
         /\ ~errorPresent
         /\ \A e \in Evses : answers[e] > before.instance
    /\ response.cacheState = "unchanged" => controller = base /\ cache = base
    /\ response.cacheState = "refreshed" => cache = controller
    /\ response.cacheState = "unavailable" => cache = NoDocument
    /\ response.error = "yaml_publish_failed_after_flash" => controller = writes

(* EVerest counts as ready only when the instance at the other end was      *)
(* started after the restart was asked for, and every EVSE that is to       *)
(* answer has been answered for by that instance.                           *)
ReadinessIsFresh ==
  [][stage = "restart" /\ (stage' = "monitor" \/ (operation = "config" /\ response'.success)) =>
       /\ peer > before.instance
       /\ \A e \in 1..(ReadyLast - 1) : answers[e] = peer]_vars

(* The detailed write implements the stages the control path is checked     *)
(* with: each is entered from the one before, and from the confirmed stop   *)
(* to the end of the tools EVerest stays down (its state between these is   *)
(* not SafetyWrite's).                                                      *)
AbstractStage ==
  IF operation # "safety" THEN "none"
  ELSE IF stage \in {"dump", "yaml"} THEN "recover"
  ELSE IF stage = "monitor" THEN "restart" ELSE stage
AbstractId == IF operation = "safety" THEN 1 ELSE 0
AbstractEverest ==
  IF \/ AbstractStage = "restart"
     \/ AbstractStage \in {"flash", "recover"} /\ unit = "inactive" /\ job # "restart"
  THEN "inactive" ELSE "active"
Stages == INSTANCE SafetyWrite WITH
  Ids <- {1}, NoId <- 0,
  safetyOp <- AbstractStage, safetyId <- AbstractId, everest <- AbstractEverest
ImplementsStages == Stages!SafetySpec

(* The inductive invariant behind CacheTellsTruth: while a flash is under   *)
(* way there is no cache, what was set aside is right as long as the flash  *)
(* was not executed, and a flash that ended well has written.               *)
CacheInvariant ==
  /\ CacheTellsTruth
  /\ stage = "flash" =>
       /\ cache = NoDocument
       /\ tool = "forked" => backup \in {controller, NoDocument}
       /\ tool = "exited" /\ exitedWell => controller = writes

(* The inductive invariant behind ToolOnlyWhileStopped: from the request to *)
(* stop on nothing asks for a start.                                        *)
StopInvariant ==
  /\ stage \in {"stop", "flash", "dump", "yaml"} => job \in {"none", "stop"}
  /\ stage \in {"flash", "dump", "yaml"} => unit = "inactive"

(* The stages only a safety write has, and those it shares; the restart of  *)
(* a configuration write asks no EVSE.                                      *)
StageInvariant ==
  /\ operation \in {"none", "safety", "config"}
  /\ stage \in ToolStages \union {"none", "check", "stop", "restart", "monitor"}
  /\ operation = "none" <=> stage = "none"
  /\ stage \in {"create", "stop", "flash", "dump", "yaml", "monitor"} => operation = "safety"
  /\ operation = "config" /\ stage = "restart" => ~Reading

(***************************************************************************)
(* The inductive invariants behind ReportTellsTruth and ReadinessIsFresh.  *)
(***************************************************************************)
(* What a response says of the controller and the cache.                    *)
FilesReported ==
  /\ response.cacheState = "unchanged" => controller = base /\ cache = base
  /\ response.cacheState = "refreshed" => cache = controller
  /\ response.cacheState = "unavailable" => cache = NoDocument
  /\ response.error = "yaml_publish_failed_after_flash" => controller = writes

(* It is true from when it is composed to the next request, because what    *)
(* was found is still there when a write is broken off, and set aside.      *)
FilesInvariant ==
  /\ FilesReported
  /\ stage # "none" \/ response.error # "none" => ~response.success
  /\ stage \in {"create", "check", "stop", "flash"} \/ operation = "config" => response = NoReply
  /\ operation = "safety" /\ stage \in {"create", "check", "stop"} => controller = base /\ cache = base
  /\ stage = "flash" => backup = base /\ (tool = "forked" => controller = base)
  /\ stage \in {"dump", "yaml"} => response = FlashFailed("unavailable")
  /\ stage = "monitor" => response.error = "none"
  /\ operation = "safety" /\ stage \in {"restart", "monitor"} /\ response.error = "none" =>
       controller = writes /\ cache = writes
  /\ stage = "none" /\ response.of = "safety" /\ response.success =>
       controller = writes /\ cache = writes

(* A connection leads to the EVerest that was started last and lives as     *)
(* long as it does.                                                         *)
ConnectedToLast ==
  /\ Stopped => ~api
  /\ link = "open" => peer = instance /\ (unit = "active" => api)

(* Nothing is awaited that nobody reads.                                    *)
NothingUnread ==
  /\ ~Reading => pending = NoRequest
  /\ Reading => stage \in {"check", "restart", "monitor"}

(* The first message on a connection is the only hello.                     *)
HelloFirst ==
  /\ link = "open" /\ handshakeComplete =>
       /\ \A i \in DOMAIN asked : asked[i] # "hello"
       /\ \A i \in DOMAIN arriving : arriving[i].id # "hello"
  /\ link = "open" /\ ~handshakeComplete =>
       \/ asked = <<"hello">> /\ arriving = <<>>
       \/ asked = <<>> /\ Len(arriving) = 1 /\ arriving[1].id = "hello"

(* The timer is started by a disconnect only.                               *)
ReconnectsWhenClosed == reconnectTimer => link = "closed"

LinkInvariant == ConnectedToLast /\ NothingUnread /\ HelloFirst /\ ReconnectsWhenClosed

(* The EVerest that was running when a restart was asked for is not         *)
(* reached again: its connection, which a configuration write has just      *)
(* used, ends only with it; a safety write has it stopped before.           *)
RestartInvariant ==
  /\ stage \in {"restart", "monitor"} => before.instance <= instance
  /\ operation = "config" /\ stage = "restart" =>
       /\ before.require /\ before.disconnection <= disconnectionGeneration
       /\ disconnectionGeneration = before.disconnection => IsReady
       /\ disconnectionGeneration > before.disconnection /\ instance = before.instance =>
            ~api /\ unit # "active" /\ link # "open"
  /\ operation = "safety" /\ stage = "restart" /\ instance = before.instance =>
       /\ ~api /\ unit # "active"
       /\ Reading => /\ lastResponse = NoResponse
                     /\ \A i \in DOMAIN arriving : arriving[i].id # "current"

(* Who has answered: in a round on one connection, those asked before; in   *)
(* the watch, those who are not unresolved.                                 *)
AnswersInvariant ==
  /\ operation = "safety" /\ stage = "restart" /\ Reading =>
       /\ round.generation <= handshakeGeneration
       /\ round.responsive /\ IsReady /\ round.generation = handshakeGeneration =>
            \A e \in Evses : e < reading.evse => answers[e] = peer
  /\ stage = "monitor" =>
       /\ before.instance < instance
       /\ ~errorPresent
       /\ \A e \in Evses \ unresolved : answers[e] > before.instance
  /\ stage = "none" /\ response.of = "safety" /\ response.success =>
       ~errorPresent /\ \A e \in Evses : answers[e] > before.instance

(* Whatever EVerest, systemd and the tools do or fail to do, a write ends.  *)
WriteEnds == stage # "none" ~> stage = "none"
=============================================================================
