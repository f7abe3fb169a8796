-------------------------- MODULE SystemControl_proofs --------------------------
(***************************************************************************)
(* Theorems about the control path, for every value of the constants.      *)
(* First type correctness, one runtime at a time; then the inductive       *)
(* invariant behind NeverThrows.                                           *)
(***************************************************************************)
EXTENDS SystemControl, TLAPS

-----------------------------------------------------------------------------
(* Type correctness *)

(* The runtimes keep their types when they do not move.                     *)
LEMMA FirmwareTypeStutter ==
  ASSUME FirmwareTypeOK, UNCHANGED firmwareVars
  PROVE  FirmwareTypeOK'
  BY DEF FirmwareTypeOK, firmwareVars, uploadVars, updateVars, rebootVars

LEMMA ResetTypeStutter ==
  ASSUME ResetTypeOK, UNCHANGED resetVars
  PROVE  ResetTypeOK'
  BY DEF ResetTypeOK, resetVars

LEMMA SafetyTypeStutter ==
  ASSUME SafetyTypeOK, UNCHANGED <<safetyVars, everest>>
  PROVE  SafetyTypeOK'
  BY DEF SafetyTypeOK, safetyVars

(* The numbers of an upload: what is announced is a number, and so is what  *)
(* a chunk brings.                                                          *)
LEMMA AnnouncedNumbers ==
  ASSUME FirmwareTypeOK
  PROVE  /\ expected.size \in Nat /\ expected.count \in Nat /\ expected.chunk \in Nat
         /\ DataSizes \subseteq Nat
         /\ NoUpload \in Announcements
<1>1. CASE expected = NoUpload
  BY <1>1, SizeAssumption DEF Announcements, NoUpload
<1>2. CASE expected \in [size : ImageSizes, count : ChunkCounts, chunk : ChunkSizes]
  <2>1. expected.size \in ImageSizes /\ expected.count \in ChunkCounts /\ expected.chunk \in ChunkSizes
    BY <1>2
  <2> QED  BY <2>1, SizeAssumption DEF Announcements
<1> QED
  BY <1>1, <1>2 DEF FirmwareTypeOK, Announcements

LEMMA ResetUploadType ==
  ASSUME FirmwareTypeOK, ResetUploadState
  PROVE  /\ uploadRunning' \in BOOLEAN /\ uploadFinished' \in BOOLEAN /\ pathSet' \in BOOLEAN
         /\ expected' \in Announcements /\ written' \in Nat /\ nextChunk' \in Nat
  BY AnnouncedNumbers DEF ResetUploadState

LEMMA AbortUploadType ==
  ASSUME FirmwareTypeOK, AbortUploadAndRemovePartialFile, UNCHANGED <<updateVars, rebootVars>>
  PROVE  FirmwareTypeOK'
  BY ResetUploadType DEF AbortUploadAndRemovePartialFile, FirmwareTypeOK, updateVars, rebootVars, Images

LEMMA UploadStartType ==
  ASSUME FirmwareTypeOK, NEW outcome, HandleUploadStart(outcome)
  PROVE  FirmwareTypeOK'
<1>1. UNCHANGED <<updateVars, rebootPending>>
  BY DEF HandleUploadStart
<1>2. CASE UNCHANGED <<uploadVars, rebootRequired, image>>
  BY <1>1, <1>2 DEF FirmwareTypeOK, updateVars, uploadVars
<1>3. CASE /\ ResetUploadState
           /\ image' \in {image, "absent"}
           /\ UNCHANGED rebootRequired
  BY <1>1, <1>3, ResetUploadType DEF FirmwareTypeOK, updateVars, Images
<1>4. CASE OpenUploadFile
  BY <1>1, <1>4 DEF OpenUploadFile, FirmwareTypeOK, updateVars, Images, Announcements
<1> QED
  BY <1>2, <1>3, <1>4 DEF HandleUploadStart

LEMMA UploadChunkType ==
  ASSUME FirmwareTypeOK, NEW index, NEW bytes \in DataSizes, NEW outcome,
         HandleUploadChunk(index, bytes, outcome)
  PROVE  FirmwareTypeOK'
<1>1. UNCHANGED <<updateVars, rebootVars>>
  BY DEF HandleUploadChunk
<1>2. CASE UNCHANGED <<uploadVars, image>>
  BY <1>1, <1>2 DEF FirmwareTypeOK, updateVars, uploadVars, rebootVars
<1>3. CASE AbortUploadAndRemovePartialFile
  BY <1>1, <1>3, AbortUploadType
<1>4. CASE /\ written' = written + bytes
           /\ nextChunk' = nextChunk + 1
           /\ UNCHANGED <<uploadRunning, uploadFinished, pathSet, expected, image>>
  BY <1>1, <1>4, AnnouncedNumbers DEF FirmwareTypeOK, updateVars, rebootVars
<1> QED
  BY <1>2, <1>3, <1>4 DEF HandleUploadChunk

LEMMA UploadFinishType ==
  ASSUME FirmwareTypeOK, NEW outcome, HandleUploadFinish(outcome)
  PROVE  FirmwareTypeOK'
<1>1. UNCHANGED <<updateVars, rebootVars>>
  BY DEF HandleUploadFinish
<1>2. CASE UNCHANGED <<uploadVars, image>>
  BY <1>1, <1>2 DEF FirmwareTypeOK, updateVars, uploadVars, rebootVars
<1>3. CASE AbortUploadAndRemovePartialFile
  BY <1>1, <1>3, AbortUploadType
<1>4. CASE /\ uploadRunning' = FALSE /\ uploadFinished' = TRUE /\ image' = "verified"
           /\ UNCHANGED <<pathSet, expected, written, nextChunk>>
  BY <1>1, <1>4 DEF FirmwareTypeOK, updateVars, rebootVars, Images
<1> QED
  BY <1>2, <1>3, <1>4 DEF HandleUploadFinish

LEMMA UpdateType ==
  ASSUME FirmwareTypeOK, NEW id \in Ids, NEW outcome, HandleUpdate(id, outcome)
  PROVE  FirmwareTypeOK'
  BY DEF HandleUpdate, FirmwareTypeOK, uploadVars, updateVars

LEMMA StdoutLineType ==
  ASSUME FirmwareTypeOK, NEW line, HandleStdoutLine(line)
  PROVE  FirmwareTypeOK'
  BY DEF HandleStdoutLine, FirmwareTypeOK, uploadVars, rebootVars

LEMMA StreamingFinishedType ==
  ASSUME FirmwareTypeOK, NEW exitCode, NEW flushed, StreamingFinished(exitCode, flushed)
  PROVE  FirmwareTypeOK'
  BY DEF StreamingFinished, FirmwareTypeOK, uploadVars

LEMMA StreamingCleanupType ==
  ASSUME FirmwareTypeOK, StreamingCleanup
  PROVE  FirmwareTypeOK'
  BY ResetUploadType DEF StreamingCleanup, FirmwareTypeOK, rebootVars

LEMMA ClientDisconnectedType ==
  ASSUME FirmwareTypeOK, HandleClientDisconnected
  PROVE  FirmwareTypeOK'
  BY AbortUploadType, FirmwareTypeStutter
  DEF HandleClientDisconnected, firmwareVars

(* finish(): with a Boolean `success' it leaves the reset runtime typed.    *)
LEMMA FinishType ==
  ASSUME ResetTypeOK, NEW success \in BOOLEAN, NEW attempted \in BOOLEAN,
         Finish(success, attempted)
  PROVE  /\ resetTimer' \in {"off", "startup", "execution"}
         /\ killTimer' \in BOOLEAN /\ keepalive' \in BOOLEAN /\ resetRunning' \in BOOLEAN
         /\ resetState' \in {"idle", "running", "rebooting", "failed"}
         /\ rebootExpected' \in BOOLEAN
         /\ resetId' \in Ids \union {NoId}
  BY DEF Finish, StopResetTimers, ResetTypeOK

LEMMA ResetRequestType ==
  ASSUME ResetTypeOK,
         BeginStatusCheck \/ EndStatusCheck \/ (\E id \in Ids : AcceptReset(id))
  PROVE  ResetTypeOK'
<1>1. CASE BeginStatusCheck
  BY <1>1 DEF BeginStatusCheck, ResetTypeOK
<1>2. CASE EndStatusCheck
  BY <1>2, ZenonT(20) DEF EndStatusCheck, ResetTypeOK
<1>3. ASSUME NEW id \in Ids, AcceptReset(id)
      PROVE  ResetTypeOK'
  BY <1>3 DEF AcceptReset, ResetTypeOK, ResetFrames
<1> QED
  BY <1>1, <1>2, <1>3

LEMMA ResetStartType ==
  ASSUME ResetTypeOK, StartChecking \/ StartUnchecked \/ StartWithoutCommand
  PROVE  ResetTypeOK'
<1>1. CASE StartChecking \/ StartUnchecked
  BY <1>1 DEF StartChecking, StartUnchecked, StartPrepare, ResetTypeOK, ResetFrames
<1>2. CASE StartWithoutCommand
  BY <1>2, FinishType DEF StartWithoutCommand, ResetTypeOK, ResetFrames
<1> QED
  BY <1>1, <1>2

LEMMA ResetCheckType ==
  ASSUME ResetTypeOK, CheckRefused \/ CheckPassed \/ StopFailed \/ StopConfirmed
  PROVE  ResetTypeOK'
<1>1. CASE CheckRefused \/ StopFailed
  BY <1>1, FinishType DEF CheckRefused, StopFailed, ResetTypeOK, ResetFrames
<1>2. CASE CheckPassed \/ StopConfirmed
  BY <1>2 DEF CheckPassed, StopConfirmed, ResetTypeOK, ResetFrames
<1> QED
  BY <1>1, <1>2

LEMMA ResetHelperType ==
  ASSUME ResetTypeOK,
         HelperStarted \/ HelperFailedToStart \/ TerminateHelper \/ KillHelper
           \/ (\E normalExit \in BOOLEAN : HelperFinished(normalExit))
  PROVE  ResetTypeOK'
<1>1. CASE HelperStarted \/ TerminateHelper \/ KillHelper
  <2>1. CASE HelperStarted
    BY <2>1 DEF HelperStarted, ResetTypeOK
  <2>2. CASE TerminateHelper
    BY <2>2 DEF TerminateHelper, ResetTypeOK
  <2>3. CASE KillHelper
    BY <2>3 DEF KillHelper, ResetTypeOK
  <2> QED
    BY <1>1, <2>1, <2>2, <2>3
<1>2. CASE HelperFailedToStart
  BY <1>2, FinishType DEF HelperFailedToStart, ResetTypeOK
<1>3. ASSUME NEW normalExit \in BOOLEAN, HelperFinished(normalExit)
      PROVE  ResetTypeOK'
  <2>1. HelperSucceeded(normalExit) \in BOOLEAN
    BY DEF HelperSucceeded, ResetTypeOK
  <2>2. Finish(HelperSucceeded(normalExit), TRUE)
    BY <1>3 DEF HelperFinished
  <2> QED
    BY <1>3, <2>1, <2>2, FinishType DEF HelperFinished, ResetTypeOK
<1> QED
  BY <1>1, <1>2, <1>3

LEMMA SafetyStepType ==
  ASSUME SafetyTypeOK,
         (\E id \in Ids : StartSafetyWrite(id)) \/ AdvanceSafetyWrite \/ CompleteSafetyWrite
  PROVE  SafetyTypeOK'
  BY DEF StartSafetyWrite, AdvanceSafetyWrite, CompleteSafetyWrite, EverestAfterStop,
         SafetyTypeOK, SafetyStages

LEMMA BlockLoginType ==
  ASSUME login \in LoginStates, NEW operation \in {"reboot", "factory_reset"}, NEW outcome,
         BlockLoginForReboot(operation, outcome)
  PROVE  login' \in LoginStates
  BY DEF BlockLoginForReboot, LoginStates

(* A response, final or not, keeps the types of what it may change.         *)
Lives == {"running", "exiting", "crashed"}
Stacks == {"loop", "dispatch", "handle", "return"}

LEMMA FinalResponseType ==
  ASSUME ControlTypeOK, NEW id, NEW kind, NEW lifeAfter \in Lives,
         FinalResponse(id, kind, lifeAfter)
  PROVE  /\ pending' \in Request \union {NoRequest}
         /\ stack' \in Stacks
         /\ safetyWrite' \in BOOLEAN
         /\ life' \in Lives
  BY DEF FinalResponse, ControlTypeOK, Lives, Stacks

LEMMA PendingIsRequest ==
  ASSUME ControlTypeOK, pending.kind # "none"
  PROVE  pending \in Request /\ pending.id \in Ids
  BY DEF ControlTypeOK, Request, NoRequest

LEMMA UnwoundType == Unwound \in Stacks
  BY DEF Unwound, Stacks

(* The part of the state that is SystemControl's own.                       *)
LEMMA ControlTypeStutter ==
  ASSUME ControlTypeOK,
         UNCHANGED <<controlVars, cleanupDue, command, connected, life>>
  PROVE  ControlTypeOK'
  BY DEF ControlTypeOK, controlVars

(* The tail of most handlers: a response (or none), and at most the queue,  *)
(* the nesting and the other flags moved to values of their type.           *)
LEMMA ControlTypeStep ==
  ASSUME ControlTypeOK,
         queue' \in Seq(Request),
         pending' \in Request \union {NoRequest},
         stack' \in Stacks,
         nested' \in BOOLEAN, cleanupDue' \in BOOLEAN, safetyWrite' \in BOOLEAN,
         command' \in {"none", "scheduled", "ran"},
         connected' \in BOOLEAN,
         life' \in Lives
  PROVE  ControlTypeOK'
  BY DEF ControlTypeOK, Stacks, Lives

LEMMA AnswerType ==
  ASSUME ControlTypeOK, Answer(life)
  PROVE  /\ pending' \in Request \union {NoRequest}
         /\ stack' \in Stacks
         /\ safetyWrite' \in BOOLEAN
         /\ life' \in Lives
<1>1. life \in Lives
  BY DEF ControlTypeOK, Lives
<1> QED
  BY <1>1, FinalResponseType DEF Answer

LEMMA FreeIdsType == FreeIds \subseteq Ids
  BY DEF FreeIds

(* No step of the control path takes a variable out of its type.            *)
THEOREM TypeStep == TypeOK /\ [Next]_vars => TypeOK'
<1> SUFFICES ASSUME TypeOK, [Next]_vars
             PROVE  TypeOK'
  OBVIOUS
<1> USE DEF TypeOK
<1>1. CASE ProcessQueue
  <2>1. FirmwareTypeOK'
    BY <1>1, FirmwareTypeStutter DEF ProcessQueue
  <2>2. ResetTypeOK'
    BY <1>1, ResetTypeStutter DEF ProcessQueue
  <2>3. SafetyTypeOK'
    BY <1>1, SafetyTypeStutter DEF ProcessQueue
  <2>4. login' \in LoginStates
    BY <1>1 DEF ProcessQueue
  <2>5. ControlTypeOK'
    <3>1. queue \in Seq(Request) /\ pending \in Request \union {NoRequest}
      BY DEF ControlTypeOK
    <3>2. << >> \in Seq(Request)
      OBVIOUS
    <3>3. queue # << >> => Head(queue) \in Request /\ Tail(queue) \in Seq(Request)
      BY <3>1
    <3>4. queue' \in Seq(Request) /\ pending' \in Request \union {NoRequest}
      BY <1>1, <3>1, <3>2, <3>3 DEF ProcessQueue
    <3>5. stack' \in Stacks
      BY <1>1, UnwoundType DEF ProcessQueue, ControlTypeOK, Stacks
    <3> QED
      BY <1>1, <3>4, <3>5, ControlTypeStep DEF ProcessQueue, ControlTypeOK, Lives
  <2> QED
    BY <2>1, <2>2, <2>3, <2>4, <2>5 DEF TypeOK
<1>2. CASE HandleRead
  <2>1. FirmwareTypeOK'
    BY <1>2, FirmwareTypeStutter DEF HandleRead
  <2>2. ResetTypeOK'
    BY <1>2, ResetTypeStutter DEF HandleRead
  <2>3. SafetyTypeOK'
    BY <1>2, SafetyTypeStutter DEF HandleRead
  <2>4. login' \in LoginStates
    BY <1>2 DEF HandleRead
  <2>5. ControlTypeOK'
    BY <1>2, ControlTypeStep, AnswerType DEF HandleRead, ControlTypeOK, controlVars, Stacks, Lives
  <2> QED
    BY <2>1, <2>2, <2>3, <2>4, <2>5 DEF TypeOK
<1>3. CASE HandleWrite
  <2>1. FirmwareTypeOK'
    BY <1>3, FirmwareTypeStutter DEF HandleWrite
  <2>2. ResetTypeOK'
    BY <1>3, ResetTypeStutter DEF HandleWrite
  <2>3. SafetyTypeOK'
    BY <1>3, SafetyTypeStutter DEF HandleWrite
  <2>4. login' \in LoginStates
    BY <1>3 DEF HandleWrite
  <2>5. ControlTypeOK'
    BY <1>3, ControlTypeStep, AnswerType DEF HandleWrite, ControlTypeOK, controlVars, Stacks, Lives
  <2> QED
    BY <2>1, <2>2, <2>3, <2>4, <2>5 DEF TypeOK
<1>4. CASE HandleFirmwareUpload
  <2>1. FirmwareTypeOK'
    BY <1>4, UploadStartType, UploadChunkType, UploadFinishType DEF HandleFirmwareUpload
  <2>2. ResetTypeOK'
    BY <1>4, ResetTypeStutter DEF HandleFirmwareUpload
  <2>3. SafetyTypeOK'
    BY <1>4, SafetyTypeStutter DEF HandleFirmwareUpload
  <2>4. login' \in LoginStates
    BY <1>4 DEF HandleFirmwareUpload
  <2>5. ControlTypeOK'
    <3>1. Answer(life) /\ UNCHANGED <<queue, nested, cleanupDue, command, connected>>
      BY <1>4 DEF HandleFirmwareUpload
    <3> QED
      BY <3>1, ControlTypeStep, AnswerType DEF ControlTypeOK
  <2> QED
    BY <2>1, <2>2, <2>3, <2>4, <2>5 DEF TypeOK
<1>5. CASE HandleUpdateImage
  <2>1. FirmwareTypeOK'
    BY <1>5, UpdateType, PendingIsRequest DEF HandleUpdateImage, Handling
  <2>2. ResetTypeOK'
    BY <1>5, ResetTypeStutter DEF HandleUpdateImage
  <2>3. SafetyTypeOK'
    BY <1>5, SafetyTypeStutter DEF HandleUpdateImage
  <2>4. login' \in LoginStates
    BY <1>5 DEF HandleUpdateImage
  <2>5. ControlTypeOK'
    BY <1>5, ControlTypeStep, AnswerType, UnwoundType DEF HandleUpdateImage, ControlTypeOK, controlVars, Stacks, Lives
  <2> QED
    BY <2>1, <2>2, <2>3, <2>4, <2>5 DEF TypeOK
<1>6. CASE HandleReboot
  <2>1. FirmwareTypeOK'
    BY <1>6, FirmwareTypeStutter DEF HandleReboot, AcceptReboot, FirmwareTypeOK, updateVars, uploadVars
  <2>2. ResetTypeOK'
    BY <1>6, ResetTypeStutter DEF HandleReboot
  <2>3. SafetyTypeOK'
    BY <1>6, SafetyTypeStutter DEF HandleReboot
  <2>4. login' \in LoginStates
    BY <1>6, BlockLoginType DEF HandleReboot
  <2>5. ControlTypeOK'
    BY <1>6, ControlTypeStep, FinalResponseType DEF HandleReboot, ControlTypeOK, controlVars, Stacks, Lives, Answer
  <2> QED
    BY <2>1, <2>2, <2>3, <2>4, <2>5 DEF TypeOK
<1>7. CASE HandleSafetyWrite
  <2>1. FirmwareTypeOK'
    BY <1>7, FirmwareTypeStutter DEF HandleSafetyWrite
  <2>2. ResetTypeOK'
    BY <1>7, ResetTypeStutter DEF HandleSafetyWrite
  <2>3. SafetyTypeOK'
    BY <1>7, SafetyTypeStutter, SafetyStepType, PendingIsRequest DEF HandleSafetyWrite, Handling
  <2>4. login' \in LoginStates
    BY <1>7 DEF HandleSafetyWrite
  <2>5. ControlTypeOK'
    BY <1>7, ControlTypeStep, AnswerType, UnwoundType DEF HandleSafetyWrite, ControlTypeOK, controlVars, Stacks, Lives
  <2> QED
    BY <2>1, <2>2, <2>3, <2>4, <2>5 DEF TypeOK
<1>8. CASE HandleReadStatus
  <2>1. FirmwareTypeOK'
    BY <1>8, FirmwareTypeStutter DEF HandleReadStatus
  <2>2. ResetTypeOK'
    BY <1>8, ResetTypeStutter, ResetRequestType DEF HandleReadStatus
  <2>3. SafetyTypeOK'
    BY <1>8, SafetyTypeStutter DEF HandleReadStatus
  <2>4. login' \in LoginStates
    BY <1>8 DEF HandleReadStatus
  <2>5. ControlTypeOK'
    BY <1>8, ControlTypeStep, AnswerType DEF HandleReadStatus, ControlTypeOK, controlVars, Stacks, Lives
  <2> QED
    BY <2>1, <2>2, <2>3, <2>4, <2>5 DEF TypeOK
<1>9. CASE HandleReset
  <2>1. FirmwareTypeOK'
    BY <1>9, FirmwareTypeStutter DEF HandleReset
  <2>2. ResetTypeOK'
    BY <1>9, ResetTypeStutter, ResetRequestType, PendingIsRequest DEF HandleReset, Handling
  <2>3. SafetyTypeOK'
    BY <1>9, SafetyTypeStutter DEF HandleReset
  <2>4. login' \in LoginStates
    BY <1>9 DEF HandleReset
  <2>5. ControlTypeOK'
    BY <1>9, ControlTypeStep, AnswerType, UnwoundType DEF HandleReset, ControlTypeOK, controlVars, Stacks, Lives
  <2> QED
    BY <2>1, <2>2, <2>3, <2>4, <2>5 DEF TypeOK
<1>10. CASE FinishStreaming
  <2>1. FirmwareTypeOK'
    BY <1>10, StreamingCleanupType DEF FinishStreaming
  <2>2. ResetTypeOK'
    BY <1>10, ResetTypeStutter DEF FinishStreaming
  <2>3. SafetyTypeOK'
    BY <1>10, SafetyTypeStutter DEF FinishStreaming
  <2>4. login' \in LoginStates
    BY <1>10 DEF FinishStreaming
  <2>5. ControlTypeOK'
    BY <1>10, ControlTypeStep DEF FinishStreaming, ControlTypeOK, controlVars, Stacks, Lives
  <2> QED
    BY <2>1, <2>2, <2>3, <2>4, <2>5 DEF TypeOK
<1>11. CASE FinishWrite
  <2>1. FirmwareTypeOK'
    BY <1>11, FirmwareTypeStutter DEF FinishWrite
  <2>2. ResetTypeOK'
    BY <1>11, ResetTypeStutter DEF FinishWrite
  <2>3. SafetyTypeOK'
    BY <1>11 DEF FinishWrite, SafetyTypeOK, safetyVars
  <2>4. login' \in LoginStates
    BY <1>11 DEF FinishWrite
  <2>5. ControlTypeOK'
    BY <1>11, ControlTypeStep, AnswerType DEF FinishWrite, ControlTypeOK, controlVars, Stacks, Lives
  <2> QED
    BY <2>1, <2>2, <2>3, <2>4, <2>5 DEF TypeOK
<1>12. CASE FinishReadStatus
  <2>1. FirmwareTypeOK'
    BY <1>12, FirmwareTypeStutter DEF FinishReadStatus
  <2>2. ResetTypeOK'
    BY <1>12, ResetRequestType DEF FinishReadStatus
  <2>3. SafetyTypeOK'
    BY <1>12, SafetyTypeStutter DEF FinishReadStatus
  <2>4. login' \in LoginStates
    BY <1>12 DEF FinishReadStatus
  <2>5. ControlTypeOK'
    BY <1>12, ControlTypeStep, AnswerType DEF FinishReadStatus, ControlTypeOK, controlVars, Stacks, Lives
  <2> QED
    BY <2>1, <2>2, <2>3, <2>4, <2>5 DEF TypeOK
<1>13. CASE FinishResetCheck
  <2>1. FirmwareTypeOK'
    BY <1>13, FirmwareTypeStutter DEF FinishResetCheck
  <2>2. ResetTypeOK'
    BY <1>13, ResetCheckType DEF FinishResetCheck
  <2>3. SafetyTypeOK'
    BY <1>13, SafetyTypeStutter DEF FinishResetCheck
  <2>4. login' \in LoginStates
    BY <1>13 DEF FinishResetCheck
  <2>5. ControlTypeOK'
    BY <1>13, ControlTypeStep, FinalResponseType DEF FinishResetCheck, ControlTypeOK, controlVars, Stacks, Lives
  <2> QED
    BY <2>1, <2>2, <2>3, <2>4, <2>5 DEF TypeOK
<1>14. CASE FinishResetStop
  <2>1. FirmwareTypeOK'
    BY <1>14, FirmwareTypeStutter DEF FinishResetStop
  <2>2. ResetTypeOK'
    BY <1>14, ResetCheckType DEF FinishResetStop
  <2>3. SafetyTypeOK'
    BY <1>14 DEF FinishResetStop, EverestAfterStop, SafetyTypeOK, safetyVars
  <2>4. login' \in LoginStates
    BY <1>14 DEF FinishResetStop
  <2>5. ControlTypeOK'
    BY <1>14, ControlTypeStep, FinalResponseType DEF FinishResetStop, ControlTypeOK, controlVars, Stacks, Lives
  <2> QED
    BY <2>1, <2>2, <2>3, <2>4, <2>5 DEF TypeOK
<1>15. CASE ContinueSafetyWrite
  <2>1. FirmwareTypeOK'
    BY <1>15, FirmwareTypeStutter DEF ContinueSafetyWrite
  <2>2. ResetTypeOK'
    BY <1>15, ResetTypeStutter DEF ContinueSafetyWrite
  <2>3. SafetyTypeOK'
    BY <1>15, SafetyStepType DEF ContinueSafetyWrite
  <2>4. login' \in LoginStates
    BY <1>15 DEF ContinueSafetyWrite
  <2>5. ControlTypeOK'
    BY <1>15, ControlTypeStutter DEF ContinueSafetyWrite
  <2> QED
    BY <2>1, <2>2, <2>3, <2>4, <2>5 DEF TypeOK
<1>16. CASE FinishSafetyWrite
  <2>1. FirmwareTypeOK'
    BY <1>16, FirmwareTypeStutter DEF FinishSafetyWrite
  <2>2. ResetTypeOK'
    BY <1>16, ResetTypeStutter DEF FinishSafetyWrite
  <2>3. SafetyTypeOK'
    BY <1>16, SafetyStepType DEF FinishSafetyWrite
  <2>4. login' \in LoginStates
    BY <1>16 DEF FinishSafetyWrite
  <2>5. ControlTypeOK'
    BY <1>16, ControlTypeStep, FinalResponseType DEF FinishSafetyWrite, ControlTypeOK, controlVars, Stacks, Lives
  <2> QED
    BY <2>1, <2>2, <2>3, <2>4, <2>5 DEF TypeOK
<1>17. CASE RaucOutput
  <2>1. FirmwareTypeOK'
    BY <1>17, StdoutLineType DEF RaucOutput
  <2>2. ResetTypeOK'
    BY <1>17, ResetTypeStutter DEF RaucOutput
  <2>3. SafetyTypeOK'
    BY <1>17, SafetyTypeStutter DEF RaucOutput
  <2>4. login' \in LoginStates
    BY <1>17 DEF RaucOutput
  <2>5. ControlTypeOK'
    BY <1>17, ControlTypeStep DEF RaucOutput, ControlTypeOK, controlVars, Stacks, Lives, NonFinalResponse
  <2> QED
    BY <2>1, <2>2, <2>3, <2>4, <2>5 DEF TypeOK
<1>18. CASE RaucFinished
  <2>1. FirmwareTypeOK'
    BY <1>18, StreamingFinishedType DEF RaucFinished
  <2>2. ResetTypeOK'
    BY <1>18, ResetTypeStutter DEF RaucFinished
  <2>3. SafetyTypeOK'
    BY <1>18, SafetyTypeStutter DEF RaucFinished
  <2>4. login' \in LoginStates
    BY <1>18 DEF RaucFinished
  <2>5. ControlTypeOK'
    BY <1>18, ControlTypeStep, FinalResponseType DEF RaucFinished, ControlTypeOK, controlVars, Stacks, Lives
  <2> QED
    BY <2>1, <2>2, <2>3, <2>4, <2>5 DEF TypeOK
<1>19. CASE RunRebootCommand
  <2>1. FirmwareTypeOK'
    BY <1>19, FirmwareTypeStutter DEF RunRebootCommand
  <2>2. ResetTypeOK'
    BY <1>19, ResetTypeStutter DEF RunRebootCommand
  <2>3. SafetyTypeOK'
    BY <1>19, SafetyTypeStutter DEF RunRebootCommand
  <2>4. login' \in LoginStates
    BY <1>19 DEF RunRebootCommand
  <2>5. ControlTypeOK'
    BY <1>19, ControlTypeStep DEF RunRebootCommand, ControlTypeOK, controlVars, Stacks, Lives
  <2> QED
    BY <2>1, <2>2, <2>3, <2>4, <2>5 DEF TypeOK
<1>20. CASE StartReset
  <2>1. FirmwareTypeOK'
    BY <1>20, FirmwareTypeStutter DEF StartReset
  <2>2. ResetTypeOK'
    BY <1>20, ResetStartType DEF StartReset
  <2>3. SafetyTypeOK'
    BY <1>20, SafetyTypeStutter DEF StartReset
  <2>4. login' \in LoginStates
    BY <1>20 DEF StartReset
  <2>5. ControlTypeOK'
    BY <1>20, ControlTypeStep, FinalResponseType DEF StartReset, ControlTypeOK, controlVars, Stacks, Lives
  <2> QED
    BY <2>1, <2>2, <2>3, <2>4, <2>5 DEF TypeOK
<1>21. CASE ResetKeepAlive
  <2>1. FirmwareTypeOK'
    BY <1>21, FirmwareTypeStutter DEF ResetKeepAlive
  <2>2. ResetTypeOK'
    BY <1>21, ResetTypeStutter DEF ResetKeepAlive
  <2>3. SafetyTypeOK'
    BY <1>21, SafetyTypeStutter DEF ResetKeepAlive
  <2>4. login' \in LoginStates
    BY <1>21 DEF ResetKeepAlive
  <2>5. ControlTypeOK'
    BY <1>21, ControlTypeStep DEF ResetKeepAlive, ControlTypeOK, controlVars, Stacks, Lives, NonFinalResponse
  <2> QED
    BY <2>1, <2>2, <2>3, <2>4, <2>5 DEF TypeOK
<1>22. CASE ResetHelperStarts
  <2>1. FirmwareTypeOK'
    BY <1>22, FirmwareTypeStutter DEF ResetHelperStarts
  <2>2. ResetTypeOK'
    BY <1>22, ResetHelperType DEF ResetHelperStarts
  <2>3. SafetyTypeOK'
    BY <1>22, SafetyTypeStutter DEF ResetHelperStarts
  <2>4. login' \in LoginStates
    BY <1>22 DEF ResetHelperStarts
  <2>5. ControlTypeOK'
    BY <1>22, ControlTypeStep, FinalResponseType DEF ResetHelperStarts, ControlTypeOK, controlVars, Stacks, Lives
  <2> QED
    BY <2>1, <2>2, <2>3, <2>4, <2>5 DEF TypeOK
<1>23. CASE ResetTimeout
  <2>1. FirmwareTypeOK'
    BY <1>23, FirmwareTypeStutter DEF ResetTimeout
  <2>2. ResetTypeOK'
    BY <1>23, ResetHelperType DEF ResetTimeout
  <2>3. SafetyTypeOK'
    BY <1>23, SafetyTypeStutter DEF ResetTimeout
  <2>4. login' \in LoginStates
    BY <1>23 DEF ResetTimeout
  <2>5. ControlTypeOK'
    BY <1>23, ControlTypeStep, FinalResponseType DEF ResetTimeout, ControlTypeOK, controlVars, Stacks, Lives
  <2> QED
    BY <2>1, <2>2, <2>3, <2>4, <2>5 DEF TypeOK
<1>24. CASE ResetKill
  <2>1. FirmwareTypeOK'
    BY <1>24, FirmwareTypeStutter DEF ResetKill
  <2>2. ResetTypeOK'
    BY <1>24, ResetHelperType DEF ResetKill
  <2>3. SafetyTypeOK'
    BY <1>24, SafetyTypeStutter DEF ResetKill
  <2>4. login' \in LoginStates
    BY <1>24 DEF ResetKill
  <2>5. ControlTypeOK'
    BY <1>24, ControlTypeStutter DEF ResetKill
  <2> QED
    BY <2>1, <2>2, <2>3, <2>4, <2>5 DEF TypeOK
<1>25. CASE ResetHelperFinishes
  <2>1. FirmwareTypeOK'
    BY <1>25, FirmwareTypeStutter DEF ResetHelperFinishes
  <2>2. ResetTypeOK'
    BY <1>25, ResetHelperType DEF ResetHelperFinishes
  <2>3. SafetyTypeOK'
    BY <1>25, SafetyTypeStutter DEF ResetHelperFinishes
  <2>4. login' \in LoginStates
    BY <1>25, BlockLoginType DEF ResetHelperFinishes
  <2>5. ControlTypeOK'
    BY <1>25, ControlTypeStep, FinalResponseType DEF ResetHelperFinishes, ControlTypeOK, controlVars, Stacks, Lives
  <2> QED
    BY <2>1, <2>2, <2>3, <2>4, <2>5 DEF TypeOK
<1>26. CASE Connect
  <2>1. FirmwareTypeOK'
    BY <1>26, FirmwareTypeStutter DEF Connect
  <2>2. ResetTypeOK'
    BY <1>26, ResetTypeStutter DEF Connect
  <2>3. SafetyTypeOK'
    BY <1>26, SafetyTypeStutter DEF Connect
  <2>4. login' \in LoginStates
    BY <1>26 DEF Connect
  <2>5. ControlTypeOK'
    BY <1>26, ControlTypeStep DEF Connect, ControlTypeOK, controlVars, Stacks, Lives
  <2> QED
    BY <2>1, <2>2, <2>3, <2>4, <2>5 DEF TypeOK
<1>27. CASE Disconnect
  <2>1. FirmwareTypeOK'
    BY <1>27, ClientDisconnectedType DEF Disconnect
  <2>2. ResetTypeOK'
    BY <1>27, ResetTypeStutter DEF Disconnect
  <2>3. SafetyTypeOK'
    BY <1>27, SafetyTypeStutter DEF Disconnect
  <2>4. login' \in LoginStates
    BY <1>27 DEF Disconnect
  <2>5. ControlTypeOK'
    BY <1>27, ControlTypeStep DEF Disconnect, ControlTypeOK, controlVars, Stacks, Lives
  <2> QED
    BY <2>1, <2>2, <2>3, <2>4, <2>5 DEF TypeOK
<1>28. ASSUME NEW id \in FreeIds, NEW kind \in Kinds, EnqueueRequest(id, kind)
      PROVE  TypeOK'
  <2>1. FirmwareTypeOK' /\ ResetTypeOK' /\ SafetyTypeOK' /\ login' \in LoginStates
    BY <1>28, FirmwareTypeStutter, ResetTypeStutter, SafetyTypeStutter DEF EnqueueRequest
  <2>2. [id |-> id, kind |-> kind] \in Request
    BY FreeIdsType, KindAssumption DEF Request
  <2>3. ControlTypeOK'
    BY <1>28, <2>2, ControlTypeStep DEF EnqueueRequest, ControlTypeOK, Stacks, Lives
  <2> QED
    BY <2>1, <2>3
<1>29. CASE Restart
  <2>1. FirmwareTypeOK'
    BY <1>29, ResetUploadType DEF Restart, FirmwareTypeOK
  <2>2. ResetTypeOK'
    BY <1>29 DEF Restart, ResetTypeOK, ResetFrames
  <2>3. SafetyTypeOK'
    BY <1>29 DEF Restart, SafetyTypeOK, SafetyStages
  <2>4. login' \in LoginStates
    BY <1>29 DEF Restart, InitializeLoginState, LoginStates
  <2>5. ControlTypeOK'
    <3>1. << >> \in Seq(Request)
      OBVIOUS
    <3> QED
      BY <1>29, <3>1, ControlTypeStep DEF Restart, Stacks, Lives
  <2> QED
    BY <2>1, <2>2, <2>3, <2>4, <2>5
<1>30. CASE UNCHANGED vars
  BY <1>30, FirmwareTypeStutter, ResetTypeStutter, SafetyTypeStutter, ControlTypeStutter DEF vars
<1> QED
  BY <1>1, <1>2, <1>3, <1>4, <1>5, <1>6, <1>7, <1>8, <1>9, <1>10, <1>11, <1>12, <1>13, <1>14, <1>15, <1>16, <1>17, <1>18, <1>19, <1>20, <1>21, <1>22, <1>23, <1>24, <1>25, <1>26, <1>27, <1>28, <1>29, <1>30
  DEF Next, MainThread, NestedLoopEnds, SafetyProcess, Firmware, ResetHelper, Client

LEMMA TypeInit == Init => TypeOK
<1>1. << >> \in Seq(Request)
  OBVIOUS
<1>2. 0 \in Nat
  OBVIOUS
<1> SUFFICES ASSUME Init
             PROVE  TypeOK
  OBVIOUS
<1>3. FirmwareTypeOK
  BY <1>2 DEF Init, FirmwareInit, FirmwareTypeOK, Announcements, Images
<1>4. ResetTypeOK
  BY DEF Init, ResetInit, ResetTypeOK, ResetFrames
<1>5. SafetyTypeOK
  BY DEF Init, SafetyInit, SafetyTypeOK, SafetyStages
<1>6. ControlTypeOK
  BY <1>1 DEF Init, ControlInit, ControlTypeOK
<1> QED
  BY <1>3, <1>4, <1>5, <1>6 DEF Init, TypeOK, LoginStates

(* Every variable keeps its type, whatever the constants.                   *)
THEOREM TypeCorrect == Spec => []TypeOK
<1> QED
  BY TypeInit, TypeStep, PTL DEF Spec

-----------------------------------------------------------------------------
(* The control path never throws *)

(* What matters of the runtimes when they do not move, and of the upload    *)
(* handlers, which leave the installation alone.                            *)
LEMMA FirmwareQuiet ==
  ASSUME \/ UNCHANGED firmwareVars
         \/ \E outcome : HandleUploadStart(outcome)
         \/ \E index, bytes, outcome : HandleUploadChunk(index, bytes, outcome)
         \/ \E outcome : HandleUploadFinish(outcome)
         \/ HandleClientDisconnected
         \/ AcceptReboot
  PROVE  UNCHANGED <<rauc, updateRunning, currentId>>
<1>1. CASE UNCHANGED firmwareVars
  BY <1>1 DEF firmwareVars, updateVars
<1>2. CASE \E outcome : HandleUploadStart(outcome)
  BY <1>2 DEF HandleUploadStart, updateVars
<1>3. CASE \E index, bytes, outcome : HandleUploadChunk(index, bytes, outcome)
  BY <1>3 DEF HandleUploadChunk, updateVars
<1>4. CASE \E outcome : HandleUploadFinish(outcome)
  BY <1>4 DEF HandleUploadFinish, updateVars
<1>5. CASE HandleClientDisconnected \/ AcceptReboot
  BY <1>5 DEF HandleClientDisconnected, AcceptReboot, updateVars
<1> QED
  BY <1>1, <1>2, <1>3, <1>4, <1>5

LEMMA ResetQuiet ==
  ASSUME UNCHANGED resetVars \/ BeginStatusCheck \/ EndStatusCheck
  PROVE  UNCHANGED <<resetRunning, resetId, keepalive, resetFrame, resetTimer, killTimer, helper>>
  BY DEF resetVars, BeginStatusCheck, EndStatusCheck

(* finish() leaves nothing of the reset behind.                             *)
LEMMA FinishLeavesNothing ==
  ASSUME NEW success, NEW attempted, Finish(success, attempted)
  PROVE  ~resetRunning' /\ ~keepalive' /\ resetTimer' = "off" /\ ~killTimer'
  BY DEF Finish, StopResetTimers

(* A final response to the pending request ends it and starts the dispatch. *)
LEMMA MatchingFinal ==
  ASSUME NEW id, NEW kind, NEW lifeAfter, FinalResponse(id, kind, lifeAfter), Matches(id, kind)
  PROVE  pending' = NoRequest /\ stack' = "dispatch" /\ life' = lifeAfter
  BY DEF FinalResponse

LEMMA AnswerMatches == Matches(pending.id, pending.kind)
  BY DEF Matches

(* The invariant says that at most one of the four kinds of operation is    *)
(* going on, and none when nothing is pending.                              *)
LEMMA Exclusive ==
  ASSUME TypeOK, ControlInvariant
  PROVE  /\ pending.kind # "update_image" => rauc = "none"
         /\ pending.kind # "reset" =>
              /\ ~resetRunning /\ ~keepalive /\ resetFrame = "none" /\ helper = "none"
              /\ resetTimer = "off" /\ ~killTimer
         /\ pending.kind # "safety_write" => safetyOp = "none"
         /\ pending.kind \notin {"write", "read_status"} => ~nested
  BY DEF ControlInvariant, OneOperationAtATime, NothingOutlivesReset, Matches, TypeOK, FirmwareTypeOK

(* finish() together with the response it emits: wherever it is called, the *)
(* reset is the only operation, and afterwards there is none.               *)
LEMMA ResetCompletes ==
  ASSUME TypeOK, ControlInvariant, resetRunning, life = "running", stack = "loop",
         NEW success, NEW attempted, Finish(success, attempted),
         resetFrame' = "none", helper' = "none",
         NEW lifeAfter \in {"running", "exiting"},
         FinalResponse(resetId, "reset", lifeAfter),
         UNCHANGED <<firmwareVars, safetyVars, nested, cleanupDue>>
  PROVE  ControlInvariant'
<1>1. Matches(resetId, "reset")
  BY DEF ControlInvariant, OneOperationAtATime
<1>2. rauc = "none" /\ safetyOp = "none" /\ ~nested
  BY <1>1, Exclusive DEF Matches
<1>3. pending' = NoRequest /\ stack' = "dispatch" /\ life' = lifeAfter
  BY <1>1, MatchingFinal
<1>4. ~resetRunning' /\ ~keepalive' /\ resetTimer' = "off" /\ ~killTimer'
  BY FinishLeavesNothing
<1>5. UNCHANGED <<rauc, updateRunning, currentId>>
  BY FirmwareQuiet
<1> QED
  BY <1>2, <1>3, <1>4, <1>5
  DEF ControlInvariant, NeverThrows, OneOperationAtATime, ToolsOnlyWhileStopped, HandlesAlone,
      UpdatingUntilCleanUp, NothingOutlivesReset, HelperAfterStart, safetyVars

(* No step breaks ControlInvariant: what makes the two exceptions           *)
(* unreachable and the background operations exclusive is inductive.        *)
THEOREM ControlStep == TypeOK /\ ControlInvariant /\ [Next]_vars => ControlInvariant'
<1> SUFFICES ASSUME TypeOK, ControlInvariant, [Next]_vars
             PROVE  ControlInvariant'
  OBVIOUS
<1> USE DEF ControlInvariant
<1>1. CASE ProcessQueue
  BY <1>1, Exclusive, FirmwareQuiet, ResetQuiet
  DEF ProcessQueue, PendingHasValue, Unwound, NeverThrows, OneOperationAtATime, ToolsOnlyWhileStopped, HandlesAlone, UpdatingUntilCleanUp,
      NothingOutlivesReset, HelperAfterStart, Matches, NoRequest, safetyVars
<1>2. CASE HandleRead
  BY <1>2, Exclusive, FirmwareQuiet, ResetQuiet, MatchingFinal, AnswerMatches
  DEF HandleRead, Handling, Answer, NeverThrows, OneOperationAtATime, ToolsOnlyWhileStopped, HandlesAlone, UpdatingUntilCleanUp,
      NothingOutlivesReset, HelperAfterStart, Matches, NoRequest, safetyVars
<1>3. CASE HandleWrite
  BY <1>3, Exclusive, FirmwareQuiet, ResetQuiet, MatchingFinal, AnswerMatches
  DEF HandleWrite, Handling, Answer, NeverThrows, OneOperationAtATime, ToolsOnlyWhileStopped, HandlesAlone, UpdatingUntilCleanUp,
      NothingOutlivesReset, HelperAfterStart, Matches, NoRequest, safetyVars
<1>4. CASE HandleFirmwareUpload
  BY <1>4, Exclusive, FirmwareQuiet, ResetQuiet, MatchingFinal, AnswerMatches
  DEF HandleFirmwareUpload, Handling, Answer, NeverThrows, OneOperationAtATime, ToolsOnlyWhileStopped, HandlesAlone, UpdatingUntilCleanUp,
      NothingOutlivesReset, HelperAfterStart, Matches, NoRequest, safetyVars
<1>5. CASE HandleUpdateImage
  BY <1>5, Exclusive, ResetQuiet, MatchingFinal, AnswerMatches
  DEF HandleUpdateImage, Handling, Answer, HandleUpdate, StartAccepted, updateVars, Unwound, NeverThrows, OneOperationAtATime, ToolsOnlyWhileStopped, HandlesAlone, UpdatingUntilCleanUp,
      NothingOutlivesReset, HelperAfterStart, Matches, NoRequest, safetyVars
<1>6. CASE HandleReboot
  BY <1>6, Exclusive, FirmwareQuiet, ResetQuiet, MatchingFinal, AnswerMatches
  DEF HandleReboot, Handling, Answer, NeverThrows, OneOperationAtATime, ToolsOnlyWhileStopped, HandlesAlone, UpdatingUntilCleanUp,
      NothingOutlivesReset, HelperAfterStart, Matches, NoRequest, safetyVars
<1>7. CASE HandleSafetyWrite
  BY <1>7, Exclusive, FirmwareQuiet, ResetQuiet, MatchingFinal, AnswerMatches
  DEF HandleSafetyWrite, Handling, Answer, StartSafetyWrite, Unwound, NeverThrows, OneOperationAtATime, ToolsOnlyWhileStopped, HandlesAlone, UpdatingUntilCleanUp,
      NothingOutlivesReset, HelperAfterStart, Matches, NoRequest, safetyVars
<1>8. CASE HandleReadStatus
  BY <1>8, Exclusive, FirmwareQuiet, ResetQuiet, MatchingFinal, AnswerMatches
  DEF HandleReadStatus, Handling, Answer, NeverThrows, OneOperationAtATime, ToolsOnlyWhileStopped, HandlesAlone, UpdatingUntilCleanUp,
      NothingOutlivesReset, HelperAfterStart, Matches, NoRequest, safetyVars
<1>9. CASE HandleReset
  BY <1>9, Exclusive, FirmwareQuiet, ResetQuiet, MatchingFinal, AnswerMatches
  DEF HandleReset, Handling, Answer, AcceptReset, Unwound, NeverThrows, OneOperationAtATime, ToolsOnlyWhileStopped, HandlesAlone, UpdatingUntilCleanUp,
      NothingOutlivesReset, HelperAfterStart, Matches, NoRequest, safetyVars
<1>10. CASE FinishStreaming
  BY <1>10, Exclusive, ResetQuiet
  DEF FinishStreaming, StreamingCleanup, NeverThrows, OneOperationAtATime, ToolsOnlyWhileStopped, HandlesAlone, UpdatingUntilCleanUp,
      NothingOutlivesReset, HelperAfterStart, Matches, NoRequest, safetyVars
<1>11. CASE FinishWrite
  BY <1>11, Exclusive, FirmwareQuiet, ResetQuiet, MatchingFinal, AnswerMatches
  DEF FinishWrite, Answer, NeverThrows, OneOperationAtATime, ToolsOnlyWhileStopped, HandlesAlone, UpdatingUntilCleanUp,
      NothingOutlivesReset, HelperAfterStart, Matches, NoRequest, safetyVars
<1>12. CASE FinishReadStatus
  BY <1>12, Exclusive, FirmwareQuiet, ResetQuiet, MatchingFinal, AnswerMatches
  DEF FinishReadStatus, Answer, NeverThrows, OneOperationAtATime, ToolsOnlyWhileStopped, HandlesAlone, UpdatingUntilCleanUp,
      NothingOutlivesReset, HelperAfterStart, Matches, NoRequest, safetyVars
<1>13. CASE FinishResetCheck
  <2>1. resetRunning /\ life = "running" /\ stack = "loop" /\ helper = "none"
    BY <1>13, Exclusive DEF FinishResetCheck, InLoop, NothingOutlivesReset, HelperAfterStart
  <2>2. CASE CheckRefused /\ FinalResponse(resetId, "reset", life)
    BY <1>13, <2>1, <2>2, ResetCompletes, Exclusive DEF FinishResetCheck, CheckRefused, NothingOutlivesReset, OneOperationAtATime
  <2>3. CASE CheckPassed /\ UNCHANGED <<pending, stack, safetyWrite, life>>
    BY <1>13, <2>1, <2>3, Exclusive, FirmwareQuiet
    DEF FinishResetCheck, CheckPassed, NeverThrows, OneOperationAtATime, ToolsOnlyWhileStopped, HandlesAlone, UpdatingUntilCleanUp,
      NothingOutlivesReset, HelperAfterStart, Matches, NoRequest, safetyVars
  <2> QED
    BY <1>13, <2>2, <2>3 DEF FinishResetCheck
<1>14. CASE FinishResetStop
  <2>1. resetRunning /\ life = "running" /\ stack = "loop" /\ helper = "none"
    BY <1>14, Exclusive DEF FinishResetStop, InLoop, NothingOutlivesReset, HelperAfterStart
  <2>2. CASE StopFailed /\ FinalResponse(resetId, "reset", life)
    BY <1>14, <2>1, <2>2, ResetCompletes, Exclusive DEF FinishResetStop, StopFailed, NothingOutlivesReset, OneOperationAtATime
  <2>3. CASE StopConfirmed /\ EverestAfterStop(TRUE) /\ UNCHANGED <<pending, stack, safetyWrite, life>>
    BY <1>14, <2>1, <2>3, Exclusive, FirmwareQuiet
    DEF FinishResetStop, StopConfirmed, EverestAfterStop, NeverThrows, OneOperationAtATime, ToolsOnlyWhileStopped, HandlesAlone, UpdatingUntilCleanUp,
      NothingOutlivesReset, HelperAfterStart, Matches, NoRequest, safetyVars
  <2> QED
    BY <1>14, <2>2, <2>3 DEF FinishResetStop
<1>15. CASE ContinueSafetyWrite
  BY <1>15, Exclusive, FirmwareQuiet, ResetQuiet
  DEF ContinueSafetyWrite, InLoop, AdvanceSafetyWrite, EverestAfterStop, controlVars, NeverThrows, OneOperationAtATime, ToolsOnlyWhileStopped, HandlesAlone, UpdatingUntilCleanUp,
      NothingOutlivesReset, HelperAfterStart, Matches, NoRequest, safetyVars
<1>16. CASE FinishSafetyWrite
  BY <1>16, Exclusive, FirmwareQuiet, ResetQuiet, MatchingFinal
  DEF FinishSafetyWrite, InLoop, CompleteSafetyWrite, EverestAfterStop, NeverThrows, OneOperationAtATime, ToolsOnlyWhileStopped, HandlesAlone, UpdatingUntilCleanUp,
      NothingOutlivesReset, HelperAfterStart, Matches, NoRequest, safetyVars
<1>17. CASE RaucOutput
  BY <1>17, Exclusive, ResetQuiet
  DEF RaucOutput, InLoop, HandleStdoutLine, NonFinalResponse, controlVars, NeverThrows, OneOperationAtATime, ToolsOnlyWhileStopped, HandlesAlone, UpdatingUntilCleanUp,
      NothingOutlivesReset, HelperAfterStart, Matches, NoRequest, safetyVars
<1>18. CASE RaucFinished
  BY <1>18, Exclusive, ResetQuiet, MatchingFinal
  DEF RaucFinished, InLoop, StreamingFinished, NeverThrows, OneOperationAtATime, ToolsOnlyWhileStopped, HandlesAlone, UpdatingUntilCleanUp,
      NothingOutlivesReset, HelperAfterStart, Matches, NoRequest, safetyVars
<1>19. CASE RunRebootCommand
  BY <1>19, Exclusive, FirmwareQuiet, ResetQuiet
  DEF RunRebootCommand, InLoop, controlVars, NeverThrows, OneOperationAtATime, ToolsOnlyWhileStopped, HandlesAlone, UpdatingUntilCleanUp,
      NothingOutlivesReset, HelperAfterStart, Matches, NoRequest, safetyVars
<1>20. CASE StartReset
  <2>1. resetRunning /\ life = "running" /\ stack = "loop" /\ helper = "none"
    BY <1>20, Exclusive DEF StartReset, InLoop, NothingOutlivesReset, HelperAfterStart
  <2>2. CASE StartWithoutCommand /\ FinalResponse(resetId, "reset", life)
    BY <1>20, <2>1, <2>2, ResetCompletes, Exclusive DEF StartReset, StartWithoutCommand, NothingOutlivesReset, OneOperationAtATime
  <2>3. CASE (StartChecking \/ StartUnchecked) /\ UNCHANGED <<pending, stack, safetyWrite, life>>
    <3>1. UNCHANGED <<resetRunning, resetId, keepalive, resetTimer, killTimer, helper>>
      BY <2>3 DEF StartChecking, StartUnchecked, StartPrepare
    <3>2. UNCHANGED <<rauc, updateRunning, currentId>>
      BY <1>20, FirmwareQuiet DEF StartReset
    <3>3. UNCHANGED <<safetyVars, everest, nested, cleanupDue, pending, stack, life>>
      BY <1>20, <2>3 DEF StartReset
    <3> QED
      BY <2>1, <3>1, <3>2, <3>3, Exclusive
      DEF NeverThrows, OneOperationAtATime, ToolsOnlyWhileStopped, HandlesAlone,
          UpdatingUntilCleanUp, NothingOutlivesReset, HelperAfterStart, Matches, safetyVars
  <2> QED
    BY <1>20, <2>2, <2>3 DEF StartReset
<1>21. CASE ResetKeepAlive
  BY <1>21, Exclusive, FirmwareQuiet, ResetQuiet
  DEF ResetKeepAlive, InLoop, NonFinalResponse, controlVars, NeverThrows, OneOperationAtATime, ToolsOnlyWhileStopped, HandlesAlone, UpdatingUntilCleanUp,
      NothingOutlivesReset, HelperAfterStart, Matches, NoRequest, safetyVars
<1>22. CASE ResetHelperStarts
  <2>1. resetRunning /\ life = "running" /\ stack = "loop"
    BY <1>22, Exclusive DEF ResetHelperStarts, InLoop, NothingOutlivesReset
  <2>2. CASE HelperFailedToStart /\ FinalResponse(resetId, "reset", life)
    BY <1>22, <2>1, <2>2, ResetCompletes, Exclusive DEF ResetHelperStarts, HelperFailedToStart, HelperAfterStart, NothingOutlivesReset, OneOperationAtATime
  <2>3. CASE HelperStarted /\ UNCHANGED <<pending, stack, safetyWrite, life>>
    BY <1>22, <2>1, <2>3, Exclusive, FirmwareQuiet
    DEF ResetHelperStarts, HelperStarted, NeverThrows, OneOperationAtATime, ToolsOnlyWhileStopped, HandlesAlone, UpdatingUntilCleanUp,
      NothingOutlivesReset, HelperAfterStart, Matches, NoRequest, safetyVars
  <2> QED
    BY <1>22, <2>2, <2>3 DEF ResetHelperStarts
<1>23. CASE ResetTimeout
  <2>1. resetRunning /\ life = "running" /\ stack = "loop"
    BY <1>23, Exclusive DEF ResetTimeout, InLoop, NothingOutlivesReset
  <2>2. CASE HelperFailedToStart /\ FinalResponse(resetId, "reset", life)
    BY <1>23, <2>1, <2>2, ResetCompletes, Exclusive DEF ResetTimeout, HelperFailedToStart, HelperAfterStart, NothingOutlivesReset, OneOperationAtATime
  <2>3. CASE TerminateHelper /\ helper # "none" /\ UNCHANGED <<pending, stack, safetyWrite, life>>
    BY <1>23, <2>1, <2>3, Exclusive, FirmwareQuiet
    DEF ResetTimeout, TerminateHelper, NeverThrows, OneOperationAtATime, ToolsOnlyWhileStopped, HandlesAlone, UpdatingUntilCleanUp,
      NothingOutlivesReset, HelperAfterStart, Matches, NoRequest, safetyVars
  <2> QED
    BY <1>23, <2>2, <2>3 DEF ResetTimeout
<1>24. CASE ResetKill
  BY <1>24, Exclusive, FirmwareQuiet
  DEF ResetKill, InLoop, KillHelper, controlVars, NeverThrows, OneOperationAtATime, ToolsOnlyWhileStopped, HandlesAlone, UpdatingUntilCleanUp,
      NothingOutlivesReset, HelperAfterStart, Matches, NoRequest, safetyVars
<1>25. CASE ResetHelperFinishes
  <2>1. resetRunning /\ life = "running" /\ stack = "loop"
    BY <1>25, Exclusive DEF ResetHelperFinishes, InLoop, NothingOutlivesReset
  <2>2. PICK normalExit \in BOOLEAN :
          /\ HelperFinished(normalExit)
          /\ \E lifeAfter \in {"running", "exiting"} : FinalResponse(resetId, "reset", lifeAfter)
    BY <1>25, <2>1 DEF ResetHelperFinishes
  <2>3. resetFrame = "none"
    BY <1>25 DEF ResetHelperFinishes, HelperAfterStart
  <2> QED
    BY <1>25, <2>1, <2>2, <2>3, ResetCompletes DEF ResetHelperFinishes, HelperFinished
<1>26. CASE Connect
  BY <1>26, FirmwareQuiet, ResetQuiet
  DEF Connect, controlVars, NeverThrows, OneOperationAtATime, ToolsOnlyWhileStopped, HandlesAlone, UpdatingUntilCleanUp,
      NothingOutlivesReset, HelperAfterStart, Matches, NoRequest, safetyVars
<1>27. CASE Disconnect
  BY <1>27, FirmwareQuiet, ResetQuiet
  DEF Disconnect, controlVars, NeverThrows, OneOperationAtATime, ToolsOnlyWhileStopped, HandlesAlone, UpdatingUntilCleanUp,
      NothingOutlivesReset, HelperAfterStart, Matches, NoRequest, safetyVars
<1>28. ASSUME NEW id \in FreeIds, NEW kind \in Kinds, EnqueueRequest(id, kind)
      PROVE  ControlInvariant'
  BY <1>28, FirmwareQuiet, ResetQuiet
  DEF EnqueueRequest, NeverThrows, OneOperationAtATime, ToolsOnlyWhileStopped, HandlesAlone, UpdatingUntilCleanUp,
      NothingOutlivesReset, HelperAfterStart, Matches, NoRequest, safetyVars
<1>29. CASE Restart
  BY <1>29 DEF Restart, NeverThrows, OneOperationAtATime, ToolsOnlyWhileStopped, HandlesAlone, UpdatingUntilCleanUp,
      NothingOutlivesReset, HelperAfterStart, Matches, NoRequest, safetyVars
<1>30. CASE UNCHANGED vars
  BY <1>30, FirmwareQuiet, ResetQuiet DEF vars, controlVars, NeverThrows, OneOperationAtATime, ToolsOnlyWhileStopped, HandlesAlone, UpdatingUntilCleanUp,
      NothingOutlivesReset, HelperAfterStart, Matches, NoRequest, safetyVars
<1> QED
  BY <1>1, <1>2, <1>3, <1>4, <1>5, <1>6, <1>7, <1>8, <1>9, <1>10, <1>11, <1>12, <1>13, <1>14, <1>15, <1>16, <1>17, <1>18, <1>19, <1>20, <1>21, <1>22, <1>23, <1>24, <1>25, <1>26, <1>27, <1>28, <1>29, <1>30
  DEF Next, MainThread, NestedLoopEnds, SafetyProcess, Firmware, ResetHelper, Client

LEMMA ControlInit_ == Init => ControlInvariant
  BY DEF Init, FirmwareInit, ResetInit, SafetyInit, ControlInit, ControlInvariant, NeverThrows,
         OneOperationAtATime, ToolsOnlyWhileStopped, HandlesAlone, UpdatingUntilCleanUp,
         NothingOutlivesReset, HelperAfterStart

(* In every state a request reaches its handler only when nothing is going  *)
(* on, and nothing that is going on outlives its request.                   *)
THEOREM ControlInvariantHolds == Spec => []ControlInvariant
<1> QED
  BY TypeCorrect, ControlInit_, ControlStep, PTL DEF Spec

(* No response ever meets a missing or another pending request: the two     *)
(* exceptions of the control path are unreachable.                          *)
THEOREM NoThrow == Spec => []NeverThrows
<1>1. ControlInvariant => NeverThrows
  BY DEF ControlInvariant
<1> QED
  BY <1>1, ControlInvariantHolds, PTL

(* Installation, reset, safety write and nested handlers exclude each other.*)
THEOREM Exclusion == Spec => []OneOperationAtATime
<1>1. ControlInvariant => OneOperationAtATime
  BY DEF ControlInvariant
<1> QED
  BY <1>1, ControlInvariantHolds, PTL

(* The reset helper and the flash tool never run against a live EVerest.    *)
THEOREM StoppedForTools == Spec => []ToolsOnlyWhileStopped
<1>1. ControlInvariant => ToolsOnlyWhileStopped
  BY DEF ControlInvariant
<1> QED
  BY <1>1, ControlInvariantHolds, PTL

-----------------------------------------------------------------------------
(* The timers of a reset *)

resetTimeVars == <<resetRunning, rebootExpected, keepalive, resetFrame, resetTimer, killTimer,
                   timedOut, helper, helperKilled>>

LEMMA ResetTimeQuiet ==
  ASSUME UNCHANGED resetVars \/ BeginStatusCheck \/ EndStatusCheck
  PROVE  UNCHANGED resetTimeVars
  BY DEF resetVars, BeginStatusCheck, EndStatusCheck, resetTimeVars

LEMMA ResetTimeStutter ==
  ASSUME ResetInvariant, UNCHANGED resetTimeVars
  PROVE  ResetInvariant'
  BY DEF ResetInvariant, ResetTimersOwned, LateExitNeverSucceeds, TimeoutInOrder, resetTimeVars

(* What is left when a reset ends: it may count as done only if it was not  *)
(* told to stop.                                                            *)
LEMMA ResetEndsClean ==
  ASSUME ResetInvariant, resetRunning, NEW success \in BOOLEAN, NEW attempted \in BOOLEAN,
         Finish(success, attempted),
         helper' = "none", resetFrame' = "none",
         success => ~timedOut' /\ ~helperKilled'
  PROVE  ResetInvariant'
<1>1. /\ resetTimer' = "off" /\ ~killTimer' /\ ~keepalive' /\ ~resetRunning'
      /\ rebootExpected' => success
  BY DEF Finish, StopResetTimers, ResetInvariant, TimeoutInOrder
<1> QED
  BY <1>1 DEF ResetInvariant, ResetTimersOwned, LateExitNeverSucceeds, TimeoutInOrder

(* No step breaks ResetInvariant: the flags of a reset's timeout are set in *)
(* order, and fresh when the next helper is started.                        *)
THEOREM ResetStep ==
  TypeOK /\ ControlInvariant /\ ResetInvariant /\ [Next]_vars => ResetInvariant'
<1> SUFFICES ASSUME TypeOK, ControlInvariant, ResetInvariant, [Next]_vars
             PROVE  ResetInvariant'
  OBVIOUS
<1>1. CASE UNCHANGED resetVars \/ BeginStatusCheck \/ EndStatusCheck
  BY <1>1, ResetTimeQuiet, ResetTimeStutter
<1>2. CASE HandleReset
  BY <1>2, ResetTimeQuiet, ResetTimeStutter
  DEF HandleReset, AcceptReset, ResetRefused, ControlInvariant, NothingOutlivesReset, ResetInvariant,
      ResetTimersOwned, LateExitNeverSucceeds, TimeoutInOrder
<1>3. CASE StartReset
  <2>1. resetFrame = "deferred" /\ resetRunning /\ helper = "none"
    BY <1>3 DEF StartReset, ControlInvariant, NothingOutlivesReset, HelperAfterStart
  <2>2. CASE StartWithoutCommand
    <3>1. Finish(FALSE, TRUE) /\ helper' = "none" /\ resetFrame' = "none"
      BY <2>1, <2>2 DEF StartWithoutCommand
    <3> QED
      BY <2>1, <3>1, ResetEndsClean
  <2>3. CASE StartChecking \/ StartUnchecked
    <3>1. /\ ~timedOut' /\ ~rebootExpected' /\ helper' = "none"
          /\ UNCHANGED <<resetRunning, keepalive, resetTimer, killTimer>>
      BY <2>1, <2>3 DEF StartChecking, StartUnchecked, StartPrepare
    <3> QED
      BY <2>1, <3>1 DEF ResetInvariant, ResetTimersOwned, LateExitNeverSucceeds, TimeoutInOrder
  <2> QED
    BY <1>3, <2>2, <2>3 DEF StartReset
<1>4. CASE FinishResetCheck
  <2>1. resetFrame = "eligible" /\ resetRunning /\ helper = "none" /\ ~timedOut
    BY <1>4 DEF FinishResetCheck, ControlInvariant, NothingOutlivesReset, HelperAfterStart,
                ResetInvariant, TimeoutInOrder
  <2>2. CASE CheckRefused
    <3>1. Finish(FALSE, FALSE) /\ helper' = "none" /\ resetFrame' = "none"
      BY <2>1, <2>2 DEF CheckRefused
    <3> QED
      BY <2>1, <3>1, ResetEndsClean
  <2>3. CASE CheckPassed
    BY <2>1, <2>3 DEF CheckPassed, ResetInvariant, ResetTimersOwned, LateExitNeverSucceeds, TimeoutInOrder
  <2> QED
    BY <1>4, <2>2, <2>3 DEF FinishResetCheck
<1>5. CASE FinishResetStop
  <2>1. resetFrame = "stopping" /\ resetRunning /\ helper = "none" /\ ~timedOut
    BY <1>5 DEF FinishResetStop, ControlInvariant, NothingOutlivesReset, HelperAfterStart,
                ResetInvariant, TimeoutInOrder
  <2>2. CASE StopFailed
    <3>1. Finish(FALSE, TRUE) /\ helper' = "none" /\ resetFrame' = "none"
      BY <2>1, <2>2 DEF StopFailed
    <3> QED
      BY <2>1, <3>1, ResetEndsClean
  <2>3. CASE StopConfirmed
    <3>1. ~killTimer /\ ~rebootExpected
      BY <2>1 DEF ControlInvariant, HelperAfterStart, ResetInvariant, TimeoutInOrder
    <3>2. /\ resetFrame' = "none" /\ helper' = "starting" /\ helperKilled' = FALSE
          /\ ~killTimer' /\ ~timedOut' /\ ~rebootExpected' /\ resetRunning'
      BY <2>1, <2>3, <3>1 DEF StopConfirmed
    <3> QED
      BY <3>2 DEF ResetInvariant, ResetTimersOwned, LateExitNeverSucceeds, TimeoutInOrder
  <2> QED
    BY <1>5, <2>2, <2>3 DEF FinishResetStop
<1>6. CASE ResetHelperStarts
  <2>1. helper = "starting" /\ resetRunning /\ resetFrame = "none" /\ ~rebootExpected
    BY <1>6 DEF ResetHelperStarts, ControlInvariant, NothingOutlivesReset, HelperAfterStart,
                ResetInvariant, TimeoutInOrder
  <2>2. CASE HelperFailedToStart
    <3>1. Finish(FALSE, TRUE) /\ helper' = "none" /\ resetFrame' = "none"
      BY <2>1, <2>2 DEF HelperFailedToStart
    <3> QED
      BY <2>1, <3>1, ResetEndsClean
  <2>3. CASE HelperStarted
    <3>1. /\ helper' = "running" /\ resetFrame' = "none" /\ resetRunning' /\ ~rebootExpected'
          /\ UNCHANGED <<timedOut, helperKilled, keepalive>>
      BY <2>1, <2>3 DEF HelperStarted
    <3>2. timedOut => killTimer' = TRUE /\ resetTimer' = "off"
      BY <2>1, <2>3 DEF HelperStarted, ResetInvariant, TimeoutInOrder
    <3>3. ~timedOut => ~killTimer' /\ resetTimer' = "execution"
      BY <2>1, <2>3 DEF HelperStarted, ResetInvariant, TimeoutInOrder
    <3>4. helperKilled => timedOut
      BY <2>1 DEF ResetInvariant, TimeoutInOrder
    <3> QED
      BY <3>1, <3>2, <3>3, <3>4 DEF ResetInvariant, ResetTimersOwned, LateExitNeverSucceeds, TimeoutInOrder
  <2> QED
    BY <1>6, <2>2, <2>3 DEF ResetHelperStarts
<1>7. CASE ResetTimeout
  BY <1>7
  DEF ResetTimeout, TerminateHelper, HelperFailedToStart, Finish, StopResetTimers, ControlInvariant,
      NothingOutlivesReset, HelperAfterStart, ResetInvariant, ResetTimersOwned, LateExitNeverSucceeds,
      TimeoutInOrder
<1>8. CASE ResetKill
  BY <1>8
  DEF ResetKill, KillHelper, ControlInvariant, NothingOutlivesReset, HelperAfterStart, ResetInvariant,
      ResetTimersOwned, LateExitNeverSucceeds, TimeoutInOrder
<1>9. CASE ResetHelperFinishes
  <2>1. helper = "running" /\ resetRunning /\ resetFrame = "none"
    BY <1>9 DEF ResetHelperFinishes, ControlInvariant, NothingOutlivesReset, HelperAfterStart
  <2>2. PICK normalExit \in BOOLEAN : HelperFinished(normalExit)
    BY <1>9 DEF ResetHelperFinishes
  <2>3. /\ Finish(HelperSucceeded(normalExit), TRUE) /\ helper' = "none" /\ resetFrame' = "none"
        /\ UNCHANGED <<timedOut, helperKilled>>
    BY <2>1, <2>2 DEF HelperFinished
  <2>4. helperKilled => timedOut
    BY <2>1 DEF ResetInvariant, TimeoutInOrder
  <2>5. HelperSucceeded(normalExit) \in BOOLEAN /\ (HelperSucceeded(normalExit) => ~timedOut)
    BY DEF HelperSucceeded
  <2> QED
    BY <2>1, <2>3, <2>4, <2>5, ResetEndsClean
<1>10. CASE Restart
  BY <1>10 DEF Restart, ResetInvariant, ResetTimersOwned, LateExitNeverSucceeds, TimeoutInOrder
<1> QED
  BY <1>1, <1>2, <1>3, <1>4, <1>5, <1>6, <1>7, <1>8, <1>9, <1>10
  DEF Next, MainThread, NestedLoopEnds, SafetyProcess, Firmware, ResetHelper, Client, vars,
      ProcessQueue, HandleRead, HandleWrite, HandleFirmwareUpload, HandleUpdateImage, HandleReboot,
      HandleSafetyWrite, HandleReadStatus, FinishStreaming, FinishWrite, FinishReadStatus,
      ContinueSafetyWrite, FinishSafetyWrite, RaucOutput, RaucFinished, RunRebootCommand,
      ResetKeepAlive, Connect, Disconnect, EnqueueRequest

LEMMA ResetInit_ == Init => ResetInvariant
  BY DEF Init, ResetInit, ResetInvariant, ResetTimersOwned, LateExitNeverSucceeds, TimeoutInOrder

(* In every state the timers of a reset belong to its living helper.        *)
THEOREM ResetInvariantHolds == Spec => []ResetInvariant
<1> QED
  BY TypeCorrect, ControlInvariantHolds, ResetInit_, ResetStep, PTL DEF Spec

(* No timer of a reset outlives its helper or runs beside another.          *)
THEOREM TimersOwned == Spec => []ResetTimersOwned
<1>1. ResetInvariant => ResetTimersOwned
  BY DEF ResetInvariant
<1> QED
  BY <1>1, ResetInvariantHolds, PTL

(* A reset whose helper had been told to stop never counts as done.         *)
THEOREM LateExit == Spec => []LateExitNeverSucceeds
<1>1. ResetInvariant => LateExitNeverSucceeds
  BY DEF ResetInvariant
<1> QED
  BY <1>1, ResetInvariantHolds, PTL
=============================================================================
