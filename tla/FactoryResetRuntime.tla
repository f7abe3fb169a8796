------------------------- MODULE FactoryResetRuntime -------------------------
(***************************************************************************)
(* The factory reset of the API                                            *)
(* (backend/api/modules/FactoryResetRuntime.cpp): one accepted request, a  *)
(* safety check and a stop of EVerest that spin nested event loops, then a *)
(* helper process under a start-up and an execution timeout.  Actions are  *)
(* over this module's variables only; SystemControl adds EVerest, the      *)
(* login state and the dispatch of the response.                           *)
(***************************************************************************)
EXTENDS Requests

VARIABLES
  resetRunning,    \* m_running
  resetState,      \* m_state
  rebootExpected,  \* m_rebootExpected
  resetId,         \* m_request
  keepalive,       \* m_keepalive is active
  resetFrame,      \* where start() is: not yet run, in a nested loop, done
  checking,        \* m_checking
  resetTimer,      \* m_timeout: "off", "startup" or "execution"
  killTimer,       \* m_killTimer is active
  timedOut,        \* m_timedOut
  helper,          \* the QProcess: "none", "starting" or "running"
  helperKilled     \* a SIGKILL was sent to the helper

resetVars == <<resetRunning, resetState, rebootExpected, resetId, keepalive,
               resetFrame, checking, resetTimer, killTimer, timedOut,
               helper, helperKilled>>

ResetFrames == {"none", "deferred", "eligible", "stopping"}

ResetTypeOK ==
  /\ resetRunning \in BOOLEAN
  /\ resetState \in {"idle", "running", "rebooting", "failed"}
  /\ rebootExpected \in BOOLEAN
  /\ resetId \in Ids \union {NoId}
  /\ keepalive \in BOOLEAN
  /\ resetFrame \in ResetFrames
  /\ checking \in BOOLEAN
  /\ resetTimer \in {"off", "startup", "execution"}
  /\ killTimer \in BOOLEAN
  /\ timedOut \in BOOLEAN
  /\ helper \in {"none", "starting", "running"}
  /\ helperKilled \in BOOLEAN

ResetInit ==
  /\ resetRunning = FALSE
  /\ resetState = "idle"
  /\ rebootExpected = FALSE
  /\ resetId = NoId
  /\ keepalive = FALSE
  /\ resetFrame = "none"
  /\ checking = FALSE
  /\ resetTimer = "off"
  /\ killTimer = FALSE
  /\ timedOut = FALSE
  /\ helper = "none"
  /\ helperKilled = FALSE

-----------------------------------------------------------------------------
(* Requests *)

(* read_status of an idle runtime asks eligible(), which may answer at once *)
(* (configuration) or read the EVSE states in a nested event loop.          *)
AsksEligible == ~resetRunning /\ ~checking /\ ~rebootExpected

BeginStatusCheck ==
  /\ checking' = TRUE
  /\ UNCHANGED <<resetRunning, resetState, rebootExpected, resetId, keepalive,
                 resetFrame, resetTimer, killTimer, timedOut, helper, helperKilled>>

EndStatusCheck ==
  /\ checking' = FALSE
  /\ UNCHANGED <<resetRunning, resetState, rebootExpected, resetId, keepalive,
                 resetFrame, resetTimer, killTimer, timedOut, helper, helperKilled>>

ResetRefused(maintenanceBusy) == resetRunning \/ maintenanceBusy \/ rebootExpected

AcceptReset(id) ==
  /\ resetId' = id
  /\ resetRunning' = TRUE
  /\ resetState' = "running"
  /\ keepalive' = TRUE
  /\ resetFrame' = "deferred"
  /\ UNCHANGED <<rebootExpected, checking, resetTimer, killTimer, timedOut,
                 helper, helperKilled>>

-----------------------------------------------------------------------------
StopResetTimers_LeavesKeepalive == resetTimer' = "off" /\ killTimer' = FALSE /\ UNCHANGED keepalive
StopResetTimers_LeavesKill == resetTimer' = "off" /\ keepalive' = FALSE /\ UNCHANGED killTimer

StopResetTimers == resetTimer' = "off" /\ killTimer' = FALSE /\ keepalive' = FALSE

(* finish(success, attempted), without the response it emits.  The guard    *)
(* ~resetRunning of the code makes a second call a no-op.                   *)
Finish(success, attempted) ==
  /\ StopResetTimers
  /\ resetRunning' = FALSE
  /\ resetState' = IF ~attempted THEN "idle" ELSE IF success THEN "rebooting" ELSE "failed"
  /\ rebootExpected' = IF attempted THEN success ELSE rebootExpected
  /\ UNCHANGED resetId

(* start(): reading the command and the timeout, then eligible().  A        *)
(* command that parses to nothing ends the reset before anything was done.  *)
StartPrepare ==
  /\ timedOut' = FALSE
  /\ rebootExpected' = FALSE
  /\ UNCHANGED <<resetRunning, resetState, resetId, keepalive, resetTimer,
                 killTimer, helper, helperKilled>>

StartWithoutCommand ==
  /\ timedOut' = FALSE
  /\ resetFrame' = "none"
  /\ Finish(FALSE, TRUE)
  /\ UNCHANGED <<checking, helper, helperKilled>>

StartChecking == StartPrepare /\ checking' = TRUE /\ resetFrame' = "eligible"

(* The guard is switched off in the configuration: eligible() is true       *)
(* without asking, and the stop of EVerest begins.                          *)
StartUnchecked == StartPrepare /\ UNCHANGED checking /\ resetFrame' = "stopping"

CheckRefused ==
  /\ resetFrame' = "none"
  /\ checking' = FALSE
  /\ Finish(FALSE, FALSE)
  /\ UNCHANGED <<timedOut, helper, helperKilled>>

CheckPassed ==
  /\ resetFrame' = "stopping"
  /\ checking' = FALSE
  /\ UNCHANGED <<resetRunning, resetState, rebootExpected, resetId, keepalive,
                 resetTimer, killTimer, timedOut, helper, helperKilled>>

StopFailed ==
  /\ resetFrame' = "none"
  /\ Finish(FALSE, TRUE)
  /\ UNCHANGED <<checking, timedOut, helper, helperKilled>>

StopConfirmed ==
  /\ resetFrame' = "none"
  /\ resetTimer' = "startup"
  /\ helper' = "starting"
  /\ helperKilled' = FALSE
  /\ UNCHANGED <<resetRunning, resetState, rebootExpected, resetId, keepalive,
                 checking, killTimer, timedOut>>

-----------------------------------------------------------------------------
(* The helper process and its timers *)

HelperStarted ==
  /\ helper' = "running"
  /\ IF timedOut
       THEN killTimer' = TRUE /\ UNCHANGED resetTimer
       ELSE resetTimer' = "execution" /\ UNCHANGED killTimer
  /\ UNCHANGED <<resetRunning, resetState, rebootExpected, resetId, keepalive,
                 resetFrame, checking, timedOut, helperKilled>>

HelperFailedToStart ==
  /\ helper' = "none"
  /\ Finish(FALSE, TRUE)
  /\ UNCHANGED <<resetFrame, checking, timedOut, helperKilled>>

TerminateHelper_WithoutKillTimer ==
  /\ timedOut' = TRUE
  /\ resetTimer' = "off"
  /\ UNCHANGED <<resetRunning, resetState, rebootExpected, resetId, keepalive,
                 resetFrame, checking, killTimer, helper, helperKilled>>

(* stop() with a live process: ask it to terminate, kill it a second later. *)
TerminateHelper ==
  /\ timedOut' = TRUE
  /\ resetTimer' = "off"
  /\ killTimer' = TRUE
  /\ UNCHANGED <<resetRunning, resetState, rebootExpected, resetId, keepalive,
                 resetFrame, checking, helper, helperKilled>>

KillHelper ==
  /\ killTimer' = FALSE
  /\ helperKilled' = TRUE
  /\ UNCHANGED <<resetRunning, resetState, rebootExpected, resetId, keepalive,
                 resetFrame, checking, resetTimer, timedOut, helper>>

HelperSucceeded_IgnoresTimeout(normalExit) == normalExit

HelperSucceeded(normalExit) == ~timedOut /\ normalExit

HelperFinished(normalExit) ==
  /\ helper' = "none"
  /\ Finish(HelperSucceeded(normalExit), TRUE)
  /\ UNCHANGED <<resetFrame, checking, timedOut, helperKilled>>
=============================================================================
