---------------------------- MODULE SystemControl ----------------------------
(***************************************************************************)
(* The control path of the API (backend/api/SystemControlHandler.cpp)      *)
(* composed with the firmware, factory-reset and safety-write runtimes,    *)
(* the login state and the browser connection.  Everything here runs on    *)
(* one thread, so the interleavings are those of its event loop: handlers  *)
(* that wait for an RPC answer or for systemd spin a nested loop, and      *)
(* whatever that loop delivers runs in the middle of them.                 *)
(*                                                                         *)
(* `stack' says what the thread does next: "loop" (an event loop, nested   *)
(* or not, picks an event), "dispatch" (processQueue), "handle"            *)
(* (startRequest with the pending request), "return" (the firmware runtime,*)
(* whose final response called processQueue, goes on).                     *)
(***************************************************************************)
EXTENDS FirmwareUpdateRuntime, FactoryResetRuntime, SafetyWrite, LoginState, Sequences

CONSTANTS
  Kinds,     \* the request kinds the client sends
  MaxQueue,  \* bound: requests waiting at the same time
  MayDie     \* the process may be killed, or the device lose power, at any time

ASSUME KindAssumption == Kinds \subseteq AllKinds
ASSUME QueueAssumption == MaxQueue \in Nat /\ MayDie \in BOOLEAN

VARIABLES
  queue,         \* m_queue
  pending,       \* m_pendingRequest
  stack,         \* see above
  nested,        \* startRequest waits in a nested event loop
  cleanupDue,    \* handleStreamingFinished has yet to clean up
  safetyWrite,   \* m_safetyWriteInProgress
  command,       \* the deferred reboot command: "none", "scheduled" or "ran"
  connected,     \* a client is connected
  life           \* the process: "running", "exiting" or "crashed"

controlVars == <<queue, pending, stack, nested, safetyWrite>>
vars == <<firmwareVars, resetVars, safetyVars, everest, login, controlVars, cleanupDue,
          command, connected, life>>

Request == [id : Ids, kind : AllKinds]
NoRequest == [id |-> NoId, kind |-> "none"]

ControlTypeOK ==
  /\ queue \in Seq(Request)
  /\ pending \in Request \union {NoRequest}
  /\ stack \in {"loop", "dispatch", "handle", "return"}
  /\ nested \in BOOLEAN /\ cleanupDue \in BOOLEAN /\ safetyWrite \in BOOLEAN
  /\ command \in {"none", "scheduled", "ran"}
  /\ connected \in BOOLEAN
  /\ life \in {"running", "exiting", "crashed"}

(* Every variable of the composition has its type.                          *)
TypeOK ==
  /\ FirmwareTypeOK /\ ResetTypeOK /\ SafetyTypeOK
  /\ login \in LoginStates
  /\ ControlTypeOK

(* Identifiers nothing in the process refers to: the code counts them up    *)
(* and never reuses one; here one is reused when nothing remembers it, so   *)
(* that a bounded number of identifiers gives unbounded histories.          *)
FreeIds == Ids \ ({queue[i].id : i \in DOMAIN queue}
                  \union {pending.id, currentId, safetyId}
                  \union (IF resetRunning \/ keepalive THEN {resetId} ELSE {}))

ControlInit ==
  /\ queue = << >> /\ pending = NoRequest
  /\ stack = "loop" /\ nested = FALSE /\ cleanupDue = FALSE /\ safetyWrite = FALSE
  /\ command = "none" /\ connected = FALSE
  /\ life = "running"

Init == FirmwareInit /\ ResetInit /\ SafetyInit /\ login = "allowed" /\ ControlInit

Alive == life \in {"running", "exiting"}

(* The event loop picks events.  After exit() the loops return at once, so  *)
(* an exiting process only unwinds.                                         *)
InLoop == life = "running" /\ stack = "loop"

-----------------------------------------------------------------------------
(* enqueueRequest.  A request refused on the spot gets its answer without   *)
(* any change of state, as do read_reboot_settings (always) and read_status *)
(* (while anything is busy); they are not steps here.  While the login is   *)
(* restricted a request is dropped without an answer.                       *)
Busy == pending # NoRequest \/ queue # << >> \/ FirmwareBusy
FactoryBusy == resetRunning \/ rebootExpected

AnsweredAtOnce(kind) ==
  \/ FactoryBusy
  \/ kind \in ResetKinds /\ Busy
  \/ kind = "safety_read" /\ safetyWrite
  \/ kind = "safety_write" /\ (safetyWrite \/ pending # NoRequest \/ queue # << >>)

EnqueueRequest(id, kind) ==
  /\ InLoop /\ connected /\ LoginAllowed
  /\ ~AnsweredAtOnce(kind)
  /\ Len(queue) < MaxQueue
  /\ queue' = Append(queue, [id |-> id, kind |-> kind])
  /\ stack' = "dispatch"
  /\ UNCHANGED <<firmwareVars, resetVars, safetyVars, everest, login, pending, nested,
                 safetyWrite, cleanupDue, command, connected, life>>

(* Where control goes when processQueue and what it called return.          *)
Unwound == IF cleanupDue THEN "return" ELSE "loop"

PendingHasValue_OutsideNestedLoops == pending # NoRequest /\ ~nested

PendingHasValue == pending # NoRequest

ProcessQueue ==
  /\ Alive /\ stack = "dispatch"
  /\ \/ /\ PendingHasValue
        /\ stack' = "loop"
        /\ UNCHANGED <<queue, pending>>
     \/ /\ ~PendingHasValue /\ ~LoginAllowed
        /\ queue' = << >>
        /\ stack' = Unwound
        /\ UNCHANGED pending
     \/ /\ ~PendingHasValue /\ LoginAllowed /\ queue = << >>
        /\ stack' = Unwound
        /\ UNCHANGED <<queue, pending>>
     \/ /\ ~PendingHasValue /\ LoginAllowed /\ queue # << >>
        /\ pending' = Head(queue)
        /\ queue' = Tail(queue)
        /\ stack' = "handle"
  /\ UNCHANGED <<firmwareVars, resetVars, safetyVars, everest, login, nested, safetyWrite,
                 cleanupDue, command, connected, life>>

(* handleModuleResponse and handleAsyncFirmwareResponse compare a response  *)
(* with the pending request and throw when they differ.                     *)
Matches(id, kind) == pending.id = id /\ pending.kind = kind

FinalResponse(id, kind, lifeAfter) ==
  IF Matches(id, kind)
    THEN /\ pending' = NoRequest
         /\ stack' = "dispatch"
         /\ safetyWrite' = (safetyWrite /\ kind # "safety_write")
         /\ life' = lifeAfter
    ELSE /\ life' = "crashed"
         /\ UNCHANGED <<pending, stack, safetyWrite>>

NonFinalResponse(id, kind) == life' = IF Matches(id, kind) THEN life ELSE "crashed"

-----------------------------------------------------------------------------
(* startRequest *)

Handling(kind) == Alive /\ stack = "handle" /\ pending.kind = kind
Answer(lifeAfter) == FinalResponse(pending.id, pending.kind, lifeAfter)

(* A request of an unknown group is dropped, with the same effect.          *)
HandleRead ==
  /\ Handling("read") \/ Handling("safety_read")
  /\ Answer(life)
  /\ UNCHANGED <<firmwareVars, resetVars, safetyVars, everest, login, queue, nested,
                 cleanupDue, command, connected>>

(* Answers at once, or spins a nested loop and answers in FinishWrite.      *)
HandleWrite ==
  /\ Handling("write")
  /\ \/ Answer(life) /\ UNCHANGED nested
     \/ nested' = TRUE /\ stack' = "loop" /\ UNCHANGED <<pending, safetyWrite, life>>
  /\ UNCHANGED <<firmwareVars, resetVars, safetyVars, everest, login, queue, cleanupDue,
                 command, connected>>

(* On the way EVerest may have been restarted, or have failed to come up.   *)
FinishWrite ==
  /\ Alive /\ stack = "loop" /\ nested /\ pending.kind = "write"
  /\ nested' = FALSE
  /\ everest' \in {"active", "inactive"}
  /\ Answer(life)
  /\ UNCHANGED <<firmwareVars, resetVars, safetyVars, login, queue, cleanupDue, command,
                 connected>>

-----------------------------------------------------------------------------
(* Firmware requests *)

UploadStartOutcomes ==
  {"ok", "upload_in_progress", "invalid_params", "firmware_image_dir_error",
   "firmware_image_cleanup_failed", "insufficient_space", "firmware_upload_start_failed"}
UploadChunkOutcomes ==
  {"ok", "upload_not_started", "chunk_out_of_order", "invalid_chunk", "upload_size_exceeded",
   "firmware_upload_chunk_write_failed"}
UploadFinishOutcomes ==
  {"ok", "upload_not_started", "invalid_params", "upload_incomplete",
   "firmware_upload_finish_failed", "checksum_mismatch"}

HandleFirmwareUpload ==
  /\ \/ /\ Handling("upload_start")
        /\ \E outcome \in UploadStartOutcomes : HandleUploadStart(outcome)
     \/ /\ Handling("upload_chunk")
        /\ \E index \in 0..expected.count, bytes \in DataSizes, outcome \in UploadChunkOutcomes :
             HandleUploadChunk(index, bytes, outcome)
     \/ /\ Handling("upload_finish")
        /\ \E outcome \in UploadFinishOutcomes : HandleUploadFinish(outcome)
  /\ Answer(life)
  /\ UNCHANGED <<resetVars, safetyVars, everest, login, queue, nested, cleanupDue, command,
                 connected>>

(* An accepted installation keeps its request pending: its first response   *)
(* is not passed on.                                                        *)
HandleUpdateImage ==
  /\ Handling("update_image")
  /\ \E outcome \in {"accepted", "update_in_progress", "upload_not_ready",
                     "firmware_update_start_failed"} :
       /\ HandleUpdate(pending.id, outcome)
       /\ IF StartAccepted(outcome)
            THEN stack' = Unwound /\ UNCHANGED <<pending, safetyWrite, life>>
            ELSE Answer(life)
  /\ UNCHANGED <<resetVars, safetyVars, everest, login, queue, nested, cleanupDue, command,
                 connected>>

(* handleRebootRequest: the login restriction is published before the       *)
(* reboot is scheduled.                                                     *)
HandleReboot ==
  /\ Handling("reboot")
  /\ IF RebootRefused
       THEN Answer(life) /\ UNCHANGED <<firmwareVars, login, command>>
       ELSE \E outcome \in BlockOutcomes :
              /\ BlockLoginForReboot("reboot", outcome)
              /\ IF outcome = "published"
                   THEN AcceptReboot /\ command' = "scheduled"
                   ELSE UNCHANGED <<firmwareVars, command>>
              /\ Answer(IF outcome = "exit" THEN "exiting" ELSE life)
  /\ UNCHANGED <<resetVars, safetyVars, everest, queue, nested, cleanupDue, connected>>

RunRebootCommand ==
  /\ InLoop /\ command = "scheduled"
  /\ command' = "ran"
  /\ UNCHANGED <<firmwareVars, resetVars, safetyVars, everest, login, controlVars,
                 cleanupDue, connected, life>>

RaucOutput ==
  /\ InLoop /\ rauc = "running"
  /\ \E line \in {"progress", "succeeded"} :
       /\ HandleStdoutLine(line)
       /\ IF line = "progress" THEN NonFinalResponse(currentId, "update_image")
                               ELSE UNCHANGED life
  /\ UNCHANGED <<resetVars, safetyVars, everest, login, controlVars, cleanupDue, command,
                 connected>>

(* handleStreamingFinished answers in the middle, so that the next request  *)
(* is started before its own clean-up has run.                              *)
RaucFinished ==
  /\ InLoop /\ rauc = "running"
  /\ \E exitCode \in {0, 1}, flushed \in {"succeeded", "other"} :
       StreamingFinished(exitCode, flushed)
  /\ FinalResponse(currentId, "update_image", life)
  /\ cleanupDue' = TRUE
  /\ UNCHANGED <<resetVars, safetyVars, everest, login, queue, nested, command, connected>>

FinishStreaming ==
  /\ Alive /\ stack = "return"
  /\ StreamingCleanup
  /\ cleanupDue' = FALSE
  /\ stack' = "loop"
  /\ UNCHANGED <<resetVars, safetyVars, everest, login, queue, pending, nested, safetyWrite,
                 command, connected, life>>

-----------------------------------------------------------------------------
(* Safety controller writes *)

HandleSafetyWrite ==
  /\ Handling("safety_write")
  /\ \/ /\ Answer(life)
        /\ UNCHANGED <<safetyVars, everest>>
     \/ /\ StartSafetyWrite(pending.id)
        /\ safetyWrite' = TRUE
        /\ stack' = Unwound
        /\ UNCHANGED <<pending, life>>
  /\ UNCHANGED <<firmwareVars, resetVars, login, queue, nested, cleanupDue, command, connected>>

ContinueSafetyWrite ==
  /\ InLoop
  /\ AdvanceSafetyWrite
  /\ UNCHANGED <<firmwareVars, resetVars, login, controlVars, cleanupDue, command, connected, life>>

FinishSafetyWrite ==
  /\ InLoop
  /\ CompleteSafetyWrite
  /\ FinalResponse(safetyId, "safety_write", life)
  /\ UNCHANGED <<firmwareVars, resetVars, login, queue, nested, cleanupDue, command, connected>>

-----------------------------------------------------------------------------
(* Factory reset *)

(* read_status answers at once when the runtime is busy or the guard is     *)
(* switched off, and otherwise reads the EVSE states in a nested loop.      *)
HandleReadStatus ==
  /\ Handling("read_status")
  /\ \/ Answer(life) /\ UNCHANGED <<resetVars, nested>>
     \/ /\ AsksEligible /\ ~FirmwareBusy
        /\ BeginStatusCheck
        /\ nested' = TRUE
        /\ stack' = "loop"
        /\ UNCHANGED <<pending, safetyWrite, life>>
  /\ UNCHANGED <<firmwareVars, safetyVars, everest, login, queue, cleanupDue, command, connected>>

FinishReadStatus ==
  /\ Alive /\ stack = "loop" /\ nested /\ pending.kind = "read_status"
  /\ EndStatusCheck
  /\ nested' = FALSE
  /\ Answer(life)
  /\ UNCHANGED <<firmwareVars, safetyVars, everest, login, queue, cleanupDue, command, connected>>

(* A reset without its confirmation is refused as well.                     *)
HandleReset ==
  /\ Handling("reset")
  /\ \/ Answer(life) /\ UNCHANGED resetVars
     \/ /\ ~ResetRefused(FirmwareBusy)
        /\ AcceptReset(pending.id)
        /\ stack' = Unwound
        /\ UNCHANGED <<pending, safetyWrite, life>>
  /\ UNCHANGED <<firmwareVars, safetyVars, everest, login, queue, nested, cleanupDue,
                 command, connected>>

ResetKeepAlive ==
  /\ InLoop /\ keepalive
  /\ NonFinalResponse(resetId, "reset")
  /\ UNCHANGED <<firmwareVars, resetVars, safetyVars, everest, login, controlVars, cleanupDue,
                 command, connected>>

(* The deferred start() and the ends of its two nested loops.  When the     *)
(* stop of EVerest fails or is not confirmed the service may run or not.    *)
StartReset ==
  /\ InLoop /\ resetFrame = "deferred"
  /\ \/ StartChecking /\ UNCHANGED <<pending, stack, safetyWrite, life>>
     \/ StartUnchecked /\ UNCHANGED <<pending, stack, safetyWrite, life>>
     \/ StartWithoutCommand /\ FinalResponse(resetId, "reset", life)
  /\ UNCHANGED <<firmwareVars, safetyVars, everest, login, queue, nested, cleanupDue,
                 command, connected>>

FinishResetCheck ==
  /\ InLoop /\ resetFrame = "eligible"
  /\ \/ CheckRefused /\ FinalResponse(resetId, "reset", life)
     \/ CheckPassed /\ UNCHANGED <<pending, stack, safetyWrite, life>>
  /\ UNCHANGED <<firmwareVars, safetyVars, everest, login, queue, nested, cleanupDue,
                 command, connected>>

FinishResetStop ==
  /\ InLoop /\ resetFrame = "stopping"
  /\ \/ /\ StopFailed
        /\ EverestAfterStop(FALSE)
        /\ FinalResponse(resetId, "reset", life)
     \/ /\ StopConfirmed
        /\ EverestAfterStop(TRUE)
        /\ UNCHANGED <<pending, stack, safetyWrite, life>>
  /\ UNCHANGED <<firmwareVars, safetyVars, login, queue, nested, cleanupDue, command, connected>>

ResetHelperStarts ==
  /\ InLoop /\ helper = "starting"
  /\ \/ HelperStarted /\ UNCHANGED <<pending, stack, safetyWrite, life>>
     \/ HelperFailedToStart /\ FinalResponse(resetId, "reset", life)
  /\ UNCHANGED <<firmwareVars, safetyVars, everest, login, queue, nested, cleanupDue,
                 command, connected>>

(* stop(): without a process there is nothing to wait for.                  *)
ResetTimeout ==
  /\ InLoop /\ resetTimer # "off"
  /\ IF helper = "none"
       THEN HelperFailedToStart /\ FinalResponse(resetId, "reset", life)
       ELSE TerminateHelper /\ UNCHANGED <<pending, stack, safetyWrite, life>>
  /\ UNCHANGED <<firmwareVars, safetyVars, everest, login, queue, nested, cleanupDue,
                 command, connected>>

ResetKill ==
  /\ InLoop /\ killTimer
  /\ KillHelper
  /\ UNCHANGED <<firmwareVars, safetyVars, everest, login, controlVars, cleanupDue, command,
                 connected, life>>

(* A reset that succeeded blocks the login before its response is emitted;  *)
(* when that fails the runtime keeps expecting the reboot.                  *)
ResetHelperFinishes ==
  /\ InLoop /\ helper = "running"
  /\ \E normalExit \in BOOLEAN :
       /\ HelperFinished(normalExit)
       /\ IF HelperSucceeded(normalExit)
            THEN \E outcome \in BlockOutcomes :
                   /\ BlockLoginForReboot("factory_reset", outcome)
                   /\ FinalResponse(resetId, "reset", IF outcome = "exit" THEN "exiting" ELSE life)
            ELSE /\ UNCHANGED login
                 /\ FinalResponse(resetId, "reset", life)
  /\ UNCHANGED <<firmwareVars, safetyVars, everest, queue, nested, cleanupDue, command, connected>>

-----------------------------------------------------------------------------
(* The client and the process *)

Connect ==
  /\ InLoop /\ ~connected
  /\ connected' = TRUE
  /\ UNCHANGED <<firmwareVars, resetVars, safetyVars, everest, login, controlVars, cleanupDue,
                 command, life>>

(* handleDisconnected aborts a running upload; what the client had queued   *)
(* stays in the queue.                                                      *)
Disconnect ==
  /\ InLoop /\ connected
  /\ HandleClientDisconnected
  /\ connected' = FALSE
  /\ UNCHANGED <<resetVars, safetyVars, everest, login, controlVars, cleanupDue, command, life>>

(* The process ends (exit() took effect, an exception, a kill, a reboot of  *)
(* the device) and its service manager starts the launcher and the API      *)
(* again.  Children die with it; the image file and, unless the device      *)
(* rebooted, EVerest stay as they were.                                     *)
Leaves == life = "exiting" /\ stack = "loop" /\ ~nested
Reboots == command = "ran" \/ rebootExpected

Restart ==
  /\ MayDie \/ Leaves \/ life = "crashed" \/ Reboots
  /\ InitializeLoginState
  /\ updateRunning' = FALSE /\ currentId' = NoId /\ successSeen' = FALSE /\ rauc' = "none"
  /\ ResetUploadState
  /\ rebootRequired' = FALSE /\ rebootPending' = FALSE
  /\ resetRunning' = FALSE /\ resetState' = "idle" /\ rebootExpected' = FALSE
  /\ resetId' = NoId /\ keepalive' = FALSE /\ resetFrame' = "none" /\ checking' = FALSE
  /\ resetTimer' = "off" /\ killTimer' = FALSE /\ timedOut' = FALSE
  /\ helper' = "none" /\ helperKilled' = FALSE
  /\ safetyOp' = "none" /\ safetyId' = NoId
  /\ everest' \in {everest, "active"}
  /\ queue' = << >> /\ pending' = NoRequest /\ stack' = "loop" /\ nested' = FALSE
  /\ cleanupDue' = FALSE /\ safetyWrite' = FALSE
  /\ command' = "none" /\ connected' = FALSE
  /\ life' = "running"
  /\ UNCHANGED image

-----------------------------------------------------------------------------
MainThread ==
  \/ ProcessQueue \/ HandleRead \/ HandleWrite \/ HandleFirmwareUpload \/ HandleUpdateImage
  \/ HandleReboot \/ HandleSafetyWrite \/ HandleReadStatus \/ HandleReset \/ FinishStreaming

NestedLoopEnds == FinishWrite \/ FinishReadStatus \/ FinishResetCheck \/ FinishResetStop

SafetyProcess == ContinueSafetyWrite \/ FinishSafetyWrite

Firmware == RaucOutput \/ RaucFinished \/ RunRebootCommand

ResetHelper ==
  StartReset \/ ResetKeepAlive \/ ResetHelperStarts \/ ResetTimeout \/ ResetKill
  \/ ResetHelperFinishes

Client ==
  Connect \/ Disconnect \/ \E id \in FreeIds, kind \in Kinds : EnqueueRequest(id, kind)

Next ==
  MainThread \/ NestedLoopEnds \/ SafetyProcess \/ Firmware \/ ResetHelper \/ Client \/ Restart

(* What the code and its surroundings guarantee: the thread runs on; nested *)
(* loops and the processes of a safety write end by their timeouts; the     *)
(* installer ends by itself (there is no timeout for it); timers fire; a    *)
(* helper that was killed ends; a process that leaves is started again.     *)
Fairness ==
  /\ WF_vars(MainThread)
  /\ WF_vars(NestedLoopEnds)
  /\ WF_vars(SafetyProcess)
  /\ WF_vars(RaucFinished)
  /\ WF_vars(StartReset) /\ WF_vars(ResetHelperStarts) /\ WF_vars(ResetTimeout) /\ WF_vars(ResetKill)
  /\ WF_vars(helperKilled /\ ResetHelperFinishes)
  /\ WF_vars(Restart /\ Leaves)

Spec == Init /\ [][Next]_vars /\ Fairness

-----------------------------------------------------------------------------
(* Safety *)

(* No response reaches handleModuleResponse or handleAsyncFirmwareResponse   *)
(* without the pending request it belongs to, so neither of them throws:    *)
(* keep-alive timers, late process ends and nested handlers never answer a  *)
(* request that is over or another one.                                     *)
NeverThrows == life # "crashed"

(* Whatever is going on in the background is the pending request's: an      *)
(* installation, a reset, a safety write and a handler in a nested loop     *)
(* exclude each other although the loop keeps accepting requests.           *)
OneOperationAtATime ==
  /\ rauc = "running"   => Matches(currentId, "update_image")
  /\ resetRunning       => Matches(resetId, "reset")
  /\ safetyOp # "none"  => Matches(safetyId, "safety_write")
  /\ nested             => pending.kind \in {"write", "read_status"}

(* The reset helper and the flash tool run only while EVerest is stopped.   *)
ToolsOnlyWhileStopped ==
  helper # "none" \/ safetyOp \in {"flash", "recover"} => everest = "inactive"

(* The timers of a reset end with it: a timeout or kill timer is active     *)
(* only while the helper it is meant for lives, and never both at once, so  *)
(* that no later reset is cut short by a timer of an earlier one.           *)
ResetTimersOwned ==
  /\ resetTimer # "off" \/ killTimer => resetRunning /\ helper # "none"
  /\ resetTimer = "off" \/ ~killTimer
  /\ keepalive => resetRunning

(* A helper that was told to stop is a failure even if it exits with 0 in   *)
(* the meantime: the reboot is expected only of a reset that ran to its end *)
(* in time (API.md:366 "only when the reset command exits successfully").   *)
LateExitNeverSucceeds == rebootExpected => ~timedOut /\ ~helperKilled

(* A running process that has committed to a reboot has locked the login    *)
(* out.                                                                     *)
CommittedMeansLocked == life = "running" /\ (rebootPending \/ rebootExpected) => ~LoginAllowed

(* Once committed to a reboot the process starts no request any more.       *)
StartsNothing == pending' \in {pending, NoRequest}
NothingStartsAfterCommit == [][rebootPending \/ rebootExpected => StartsNothing]_vars

(* Only an image whose upload was completed and whose checksum matched is   *)
(* ever handed to the installer (API.md:549).                               *)
InstallsVerifiedImage == rauc = "running" => image = "verified"

(* What was written never exceeds what was announced, in bytes or in        *)
(* chunks, and a finished upload is complete.                               *)
UploadAccounting ==
  /\ written <= expected.size
  /\ nextChunk <= expected.count
  /\ written <= nextChunk * expected.chunk
  /\ uploadFinished => written = expected.size /\ nextChunk = expected.count /\ ~uploadRunning

(* A reboot is on offer only for the last image installed: an upload begun  *)
(* since then withdraws it.                                                 *)
RebootFollowsInstall == rebootRequired \/ rebootPending => image # "partial"

(* What is done with the image file is right for what is in it, after any   *)
(* sequence of uploads, aborts, installations and disconnects.              *)
ImageAsClaimed == InstallsVerifiedImage /\ RebootFollowsInstall

(* A finished upload is lost only to a new upload, to the clean-up after an *)
(* installation or with the process; in particular it survives its client.  *)
(* A clean-up falls due only when the installer ends, and then the upload   *)
(* that was installed is still there: what the clean-up takes is that one,  *)
(* or one completed after the final response by requests which that         *)
(* response had started (UploadNeverDuringUpdate).                          *)
FinishedUploadSurvives ==
  [][/\ HasFinishedUpload =>
          HasFinishedUpload' \/ Handling("upload_start") \/ stack = "return" \/ Restart
     /\ ~cleanupDue /\ cleanupDue' => rauc = "running" /\ HasFinishedUpload]_vars

(* The inductive invariant behind NeverThrows, OneOperationAtATime and      *)
(* ToolsOnlyWhileStopped: besides them it says that a request is handed to  *)
(* its handler only when nothing is going on, that the firmware runtime     *)
(* counts as updating from the start of the installer to the end of its     *)
(* clean-up, that nothing of a reset outlives it, and that its helper and   *)
(* the helper's timers exist only after start() has returned.               *)
HandlesAlone ==
  stack = "handle" => rauc = "none" /\ ~resetRunning /\ safetyOp = "none" /\ ~nested

UpdatingUntilCleanUp ==
  /\ rauc = "running"  => updateRunning
  /\ cleanupDue        => updateRunning /\ rauc = "none"
  /\ stack = "return"  => cleanupDue

NothingOutlivesReset ==
  ~resetRunning => /\ ~keepalive /\ resetFrame = "none" /\ helper = "none"
                   /\ resetTimer = "off" /\ ~killTimer

HelperAfterStart ==
  /\ helper # "none" => resetFrame = "none"
  /\ resetTimer # "off" \/ killTimer => helper # "none"

ControlInvariant ==
  /\ NeverThrows /\ OneOperationAtATime /\ ToolsOnlyWhileStopped
  /\ HandlesAlone /\ UpdatingUntilCleanUp /\ NothingOutlivesReset /\ HelperAfterStart

(* What makes ResetTimersOwned and LateExitNeverSucceeds inductive, given   *)
(* ControlInvariant: the flags of a timeout are set in order and are fresh  *)
(* when a helper is started.                                                *)
TimeoutInOrder ==
  /\ killTimer => timedOut
  /\ helper # "none" /\ timedOut => resetTimer = "off"
  /\ helper # "none" /\ helperKilled => timedOut
  /\ resetFrame \in {"eligible", "stopping"} => ~timedOut
  /\ resetRunning => ~rebootExpected

ResetInvariant == ResetTimersOwned /\ LateExitNeverSucceeds /\ TimeoutInOrder

(* What makes the firmware invariants inductive, given ControlInvariant: a  *)
(* finished upload is the verified file until the next upload begins, and   *)
(* the installer runs on a finished upload, so that a client that goes away *)
(* takes nothing from under it.                                             *)
FinishedMeansVerified == uploadFinished => image = "verified"

UploadKeptWhileInstalling == rauc = "running" => HasFinishedUpload

FirmwareInvariant ==
  /\ UploadAccounting /\ InstallsVerifiedImage /\ RebootFollowsInstall
  /\ FinishedMeansVerified /\ UploadKeptWhileInstalling

(* What makes CommittedMeansLocked inductive and NothingStartsAfterCommit a *)
(* consequence.  A process whose login file could neither be written nor    *)
(* removed leaves, but its loops still unwind with the login allowed: that  *)
(* it starts nothing then is because a reset request enters the queue only  *)
(* when nothing else is there, and nothing enters while the reset runs.     *)
ResetComesAlone ==
  /\ \A i \in DOMAIN queue : queue[i].kind \in ResetKinds =>
       stack = "dispatch" /\ pending = NoRequest /\ Len(queue) = 1
  /\ stack = "handle" /\ pending.kind \in ResetKinds => queue = << >>
  /\ resetRunning \/ rebootExpected => queue = << >>

CommittedStopsAll ==
  /\ rebootPending => ~LoginAllowed /\ ~resetRunning
  /\ stack = "handle" => ~rebootPending /\ ~rebootExpected

CommitInvariant == CommittedMeansLocked /\ ResetComesAlone /\ CommittedStopsAll

-----------------------------------------------------------------------------
(* Liveness and refinement *)

(* An accepted reset comes to an end, whatever its helper does.             *)
ResetEnds == resetRunning ~> ~resetRunning

Serial == INSTANCE SerialQueue WITH
  waiting <- [i \in DOMAIN queue |-> queue[i].id], serving <- pending.id

(* The control path serves requests one at a time and in order, and every   *)
(* one it accepted is answered in the end, or discarded with the queue.     *)
ServesInOrder == Serial!Spec

-----------------------------------------------------------------------------
(* What the code does not keep to *)

(* "Requests are serialized by the backend control path" (API.md:591): an   *)
(* upload is not open while an installation has yet to be cleaned up.  The  *)
(* final response of the installation starts the next request before the    *)
(* clean-up, which then wipes the upload that was just announced as started.*)
UploadNeverDuringUpdate == ~(uploadRunning /\ updateRunning)
=============================================================================
