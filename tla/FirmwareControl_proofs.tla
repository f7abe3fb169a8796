------------------------- MODULE FirmwareControl_proofs -------------------------
(***************************************************************************)
(* Theorems about uploads, installations and the commitment to a reboot,   *)
(* for every value of the constants.  They rest on ControlInvariant (a     *)
(* request is handled only when nothing goes on) of SystemControl_proofs.  *)
(* First CommitInvariant, then FirmwareInvariant, then the two action      *)
(* properties, last the refinement of SerialQueue.                         *)
(***************************************************************************)
EXTENDS SystemControl_proofs, SequenceTheorems

-----------------------------------------------------------------------------
(* The commitment to a reboot *)

commitVars == <<queue, pending, stack, resetRunning, rebootExpected, rebootPending, login>>

LEMMA CommitStutter ==
  ASSUME CommitInvariant, UNCHANGED commitVars, life' = "running" => life = "running"
  PROVE  CommitInvariant'
  BY DEF CommitInvariant, CommittedMeansLocked, ResetComesAlone, CommittedStopsAll, LoginAllowed,
         commitVars

(* What the steps that leave the firmware, the reset and the login alone    *)
(* leave alone of the commitment.                                           *)
LEMMA CommitQuiet ==
  /\ UNCHANGED firmwareVars => UNCHANGED rebootPending
  /\ UNCHANGED resetVars \/ BeginStatusCheck \/ EndStatusCheck =>
       UNCHANGED <<resetRunning, rebootExpected>>
  BY DEF firmwareVars, rebootVars, resetVars, BeginStatusCheck, EndStatusCheck

(* A response is given outside of the dispatch, so that no reset request is *)
(* in the queue when the dispatch begins.                                   *)
LEMMA NoResetWaits ==
  ASSUME CommitInvariant, stack # "dispatch"
  PROVE  \A i \in DOMAIN queue : queue[i].kind \notin ResetKinds
  BY DEF CommitInvariant, ResetComesAlone

(* A final response, whether it matches or not, keeps the commitment as     *)
(* long as what was committed to is.                                        *)
LEMMA FinalKeepsCommit ==
  ASSUME CommitInvariant, stack \in {"loop", "handle"},
         NEW id, NEW kind, NEW lifeAfter, FinalResponse(id, kind, lifeAfter),
         Matches(id, kind),
         UNCHANGED queue,
         resetRunning' \/ rebootExpected' => queue = << >>,
         rebootPending' => ~LoginAllowed' /\ ~resetRunning',
         lifeAfter = "running" /\ rebootExpected' => ~LoginAllowed'
  PROVE  CommitInvariant'
<1>1. pending' = NoRequest /\ stack' = "dispatch" /\ life' = lifeAfter
  BY MatchingFinal
<1>2. \A i \in DOMAIN queue' : queue'[i].kind \notin ResetKinds
  BY NoResetWaits
<1>3. CommittedMeansLocked' /\ CommittedStopsAll'
  BY <1>1 DEF CommittedMeansLocked, CommittedStopsAll
<1>4. ResetComesAlone'
  BY <1>1, <1>2 DEF ResetComesAlone
<1> QED
  BY <1>3, <1>4 DEF CommitInvariant

(* A response that changes nothing of the commitment itself.                *)
LEMMA AnswerKeepsCommit ==
  ASSUME CommitInvariant, stack \in {"loop", "handle"},
         NEW id, NEW kind, FinalResponse(id, kind, life), Matches(id, kind),
         UNCHANGED <<queue, resetRunning, rebootExpected, rebootPending, login>>
  PROVE  CommitInvariant'
<1>1. /\ resetRunning' \/ rebootExpected' => queue = << >>
      /\ rebootPending' => ~LoginAllowed' /\ ~resetRunning'
      /\ life = "running" /\ rebootExpected' => ~LoginAllowed'
  BY DEF CommitInvariant, CommittedMeansLocked, ResetComesAlone, CommittedStopsAll, LoginAllowed
<1> QED
  BY <1>1, FinalKeepsCommit

(* A step that only moves control back to the loop or to the clean-up.      *)
LEMMA LeavingKeepsCommit ==
  ASSUME CommitInvariant, stack # "dispatch", stack' \in {"loop", "return"},
         UNCHANGED <<queue, pending, resetRunning, rebootExpected, rebootPending, login, life>>
  PROVE  CommitInvariant'
<1>1. \A i \in DOMAIN queue' : queue'[i].kind \notin ResetKinds
  BY NoResetWaits
<1>2. CommittedMeansLocked' /\ CommittedStopsAll'
  BY DEF CommitInvariant, CommittedMeansLocked, CommittedStopsAll, LoginAllowed
<1>3. ResetComesAlone'
  BY <1>1 DEF CommitInvariant, ResetComesAlone
<1> QED
  BY <1>2, <1>3 DEF CommitInvariant

(* Entering a nested loop is such a step, and so is accepting a request     *)
(* that is answered later.                                                  *)
LEMMA UnwoundLeaves == Unwound \in {"loop", "return"}
  BY DEF Unwound

(* What is left of a queue is what was in it.                               *)
LEMMA TailOfQueue ==
  ASSUME NEW q \in Seq(Request), q # << >>
  PROVE  /\ Tail(q) \in Seq(Request) /\ Len(Tail(q)) = Len(q) - 1
         /\ Head(q) = q[1] /\ 1 \in DOMAIN q
         /\ \A i \in DOMAIN Tail(q) : i + 1 \in DOMAIN q /\ Tail(q)[i] = q[i + 1]
         /\ Len(q) = 1 => Tail(q) = << >>
  OBVIOUS

LEMMA ProcessQueueCommit ==
  ASSUME TypeOK, CommitInvariant, ProcessQueue
  PROVE  CommitInvariant'
<1>1. /\ stack = "dispatch" /\ life' = life
      /\ UNCHANGED <<resetRunning, rebootExpected, rebootPending, login>>
  BY CommitQuiet DEF ProcessQueue
<1>2. CommittedMeansLocked'
  BY <1>1 DEF CommitInvariant, CommittedMeansLocked, LoginAllowed
<1>3. CASE pending # NoRequest /\ stack' = "loop" /\ UNCHANGED <<queue, pending>>
  <2>1. ResetComesAlone'
    BY <1>1, <1>3 DEF CommitInvariant, ResetComesAlone
  <2>2. CommittedStopsAll'
    BY <1>1, <1>3 DEF CommitInvariant, CommittedStopsAll, LoginAllowed
  <2> QED  BY <1>2, <2>1, <2>2 DEF CommitInvariant
<1>4. CASE queue' = << >> /\ stack' = Unwound /\ UNCHANGED pending
  <2>1. ResetComesAlone'
    BY <1>1, <1>4, UnwoundLeaves DEF CommitInvariant, ResetComesAlone
  <2>2. CommittedStopsAll'
    BY <1>1, <1>4, UnwoundLeaves DEF CommitInvariant, CommittedStopsAll, LoginAllowed
  <2> QED  BY <1>2, <2>1, <2>2 DEF CommitInvariant
<1>5. CASE /\ LoginAllowed /\ queue # << >>
           /\ pending' = Head(queue) /\ queue' = Tail(queue) /\ stack' = "handle"
  <2>1. queue \in Seq(Request)
    BY DEF TypeOK, ControlTypeOK
  <2>2. ~resetRunning /\ ~rebootExpected /\ ~rebootPending
    BY <1>5 DEF CommitInvariant, ResetComesAlone, CommittedStopsAll
  <2>3. CommittedStopsAll'
    BY <1>1, <2>2 DEF CommittedStopsAll
  <2>4. CASE \E i \in DOMAIN queue : queue[i].kind \in ResetKinds
    <3>1. queue' = << >>
      BY <1>5, <2>1, <2>4, TailOfQueue DEF CommitInvariant, ResetComesAlone
    <3>2. ResetComesAlone'
      BY <3>1 DEF ResetComesAlone
    <3> QED  BY <1>2, <2>3, <3>2 DEF CommitInvariant
  <2>5. CASE \A i \in DOMAIN queue : queue[i].kind \notin ResetKinds
    <3>1. \A i \in DOMAIN queue' : queue'[i].kind \notin ResetKinds
      BY <1>5, <2>1, <2>5, TailOfQueue
    <3>2. pending'.kind \notin ResetKinds
      BY <1>5, <2>1, <2>5, TailOfQueue
    <3>3. ResetComesAlone'
      BY <1>1, <2>2, <3>1, <3>2 DEF ResetComesAlone
    <3> QED  BY <1>2, <2>3, <3>3 DEF CommitInvariant
  <2> QED  BY <2>4, <2>5
<1>6. CASE queue = << >> /\ stack' = Unwound /\ UNCHANGED <<queue, pending>>
  BY <1>4, <1>6
<1> QED
  BY <1>3, <1>4, <1>5, <1>6 DEF ProcessQueue, PendingHasValue

LEMMA EnqueueCommit ==
  ASSUME TypeOK, CommitInvariant, NEW id \in FreeIds, NEW kind \in Kinds, EnqueueRequest(id, kind)
  PROVE  CommitInvariant'
<1>1. /\ stack = "loop" /\ stack' = "dispatch" /\ life' = life /\ pending' = pending
      /\ queue' = Append(queue, [id |-> id, kind |-> kind])
      /\ UNCHANGED <<resetRunning, rebootExpected, rebootPending, login>>
      /\ ~AnsweredAtOnce(kind)
  BY CommitQuiet DEF EnqueueRequest, InLoop
<1>2. queue \in Seq(Request) /\ [id |-> id, kind |-> kind] \in Request
  BY KindAssumption, FreeIdsType DEF TypeOK, ControlTypeOK, Request
<1>3. \A i \in DOMAIN queue : queue[i].kind \notin ResetKinds
  BY <1>1, NoResetWaits
<1>4. CommittedMeansLocked' /\ CommittedStopsAll'
  BY <1>1 DEF CommitInvariant, CommittedMeansLocked, CommittedStopsAll, LoginAllowed
<1>5. ~resetRunning' /\ ~rebootExpected'
  BY <1>1 DEF AnsweredAtOnce, FactoryBusy
<1>6. CASE kind \in ResetKinds
  <2>1. pending' = NoRequest /\ queue = << >>
    BY <1>1, <1>6 DEF AnsweredAtOnce, Busy
  <2>2. Len(queue') = 1
    BY <1>1, <1>2, <2>1
  <2> QED
    BY <1>1, <1>4, <1>5, <2>1, <2>2 DEF CommitInvariant, ResetComesAlone
<1>7. CASE kind \notin ResetKinds
  <2>1. \A i \in DOMAIN queue' : queue'[i].kind \notin ResetKinds
    BY <1>1, <1>2, <1>3, <1>7
  <2> QED
    BY <1>1, <1>4, <1>5, <2>1 DEF CommitInvariant, ResetComesAlone
<1> QED
  BY <1>6, <1>7

(* The reset ends: what it expects then is a reboot only if it succeeded,   *)
(* and in that case the login has been blocked or the process leaves.       *)
LEMMA ResetEndsCommitted ==
  ASSUME TypeOK, ControlInvariant, CommitInvariant, stack = "loop",
         resetRunning,
         NEW success \in BOOLEAN, NEW attempted \in BOOLEAN, Finish(success, attempted),
         NEW lifeAfter \in {life, "exiting"},
         FinalResponse(resetId, "reset", lifeAfter),
         UNCHANGED <<queue, rebootPending>>,
         attempted => (success /\ lifeAfter = "running" => ~LoginAllowed'),
         attempted \/ UNCHANGED login
  PROVE  CommitInvariant'
<1>1. Matches(resetId, "reset")
  BY DEF ControlInvariant, OneOperationAtATime
<1>2. queue = << >> /\ ~rebootPending
  BY DEF CommitInvariant, ResetComesAlone, CommittedStopsAll
<1>3. CASE attempted
  <2>1. rebootExpected' => success
    BY <1>3 DEF Finish
  <2> QED
    BY <1>1, <1>2, <1>3, <2>1, FinalKeepsCommit
<1>4. CASE ~attempted
  <2>1. rebootExpected' = rebootExpected
    BY <1>4 DEF Finish
  <2>2. lifeAfter = "running" /\ rebootExpected' => ~LoginAllowed'
    BY <1>4, <2>1 DEF CommitInvariant, CommittedMeansLocked, LoginAllowed
  <2> QED
    BY <1>1, <1>2, <2>2, FinalKeepsCommit
<1> QED
  BY <1>3, <1>4

(* No step breaks CommitInvariant: once the process is committed to a       *)
(* reboot its login is locked, and no request waits or reaches a handler.   *)
THEOREM CommitStep ==
  TypeOK /\ ControlInvariant /\ CommitInvariant /\ [Next]_vars => CommitInvariant'
<1> SUFFICES ASSUME TypeOK, ControlInvariant, CommitInvariant, [Next]_vars
             PROVE  CommitInvariant'
  OBVIOUS
<1>1. CASE ProcessQueue
  BY <1>1, ProcessQueueCommit
<1>2. CASE HandleRead \/ FinishWrite \/ FinishReadStatus
  <2>1. Answer(life) /\ stack \in {"loop", "handle"}
    BY <1>2 DEF HandleRead, FinishWrite, FinishReadStatus, Handling
  <2>2. UNCHANGED <<queue, resetRunning, rebootExpected, rebootPending, login>>
    BY <1>2, CommitQuiet DEF HandleRead, FinishWrite, FinishReadStatus
  <2> QED
    BY <2>1, <2>2, AnswerMatches, AnswerKeepsCommit DEF Answer
<1>3. CASE HandleWrite
  <2>1. stack = "handle" /\ UNCHANGED <<queue, resetRunning, rebootExpected, rebootPending, login>>
    BY <1>3, CommitQuiet DEF HandleWrite, Handling
  <2>2. CASE Answer(life)
    BY <2>1, <2>2, AnswerMatches, AnswerKeepsCommit DEF Answer
  <2>3. CASE stack' = "loop" /\ UNCHANGED <<pending, life>>
    BY <2>1, <2>3, LeavingKeepsCommit
  <2> QED
    BY <1>3, <2>2, <2>3 DEF HandleWrite
<1>4. CASE HandleFirmwareUpload
  <2>1. stack = "handle" /\ UNCHANGED <<queue, resetRunning, rebootExpected, rebootPending, login>>
    BY <1>4, CommitQuiet
    DEF HandleFirmwareUpload, Handling, HandleUploadStart, HandleUploadChunk, HandleUploadFinish, rebootVars
  <2>2. Answer(life)
    BY <1>4 DEF HandleFirmwareUpload
  <2> QED
    BY <2>1, <2>2, AnswerMatches, AnswerKeepsCommit DEF Answer
<1>5. CASE HandleUpdateImage
  <2>1. stack = "handle" /\ UNCHANGED <<queue, resetRunning, rebootExpected, rebootPending, login>>
    BY <1>5, CommitQuiet DEF HandleUpdateImage, Handling, HandleUpdate
  <2>2. CASE Answer(life)
    BY <2>1, <2>2, AnswerMatches, AnswerKeepsCommit DEF Answer
  <2>3. CASE stack' = Unwound /\ UNCHANGED <<pending, life>>
    BY <2>1, <2>3, UnwoundLeaves, LeavingKeepsCommit
  <2> QED
    BY <1>5, <2>2, <2>3 DEF HandleUpdateImage
<1>6. CASE HandleReboot
  <2>1. /\ stack = "handle" /\ queue' = queue /\ UNCHANGED <<resetRunning, rebootExpected>>
        /\ ~resetRunning /\ ~rebootExpected
    BY <1>6, CommitQuiet DEF HandleReboot, Handling, ControlInvariant, HandlesAlone,
                             CommitInvariant, CommittedStopsAll
  <2>2. CASE Answer(life) /\ UNCHANGED <<firmwareVars, login>>
    BY <2>1, <2>2, CommitQuiet, AnswerMatches, AnswerKeepsCommit DEF Answer
  <2>3. CASE \E outcome \in BlockOutcomes :
               /\ BlockLoginForReboot("reboot", outcome)
               /\ IF outcome = "published"
                    THEN AcceptReboot /\ command' = "scheduled"
                    ELSE UNCHANGED <<firmwareVars, command>>
               /\ Answer(IF outcome = "exit" THEN "exiting" ELSE life)
    <3>1. PICK outcome \in BlockOutcomes :
               /\ BlockLoginForReboot("reboot", outcome)
               /\ IF outcome = "published"
                    THEN AcceptReboot /\ command' = "scheduled"
                    ELSE UNCHANGED <<firmwareVars, command>>
               /\ Answer(IF outcome = "exit" THEN "exiting" ELSE life)
      BY <2>3
    <3>2. ~rebootPending
      BY <2>1 DEF CommitInvariant, CommittedStopsAll
    <3>3. rebootPending' => ~LoginAllowed'
      BY <3>1, <3>2, CommitQuiet DEF BlockLoginForReboot, LoginAllowed
    <3> QED
      BY <2>1, <3>1, <3>3, AnswerMatches, FinalKeepsCommit DEF Answer
  <2> QED
    BY <1>6, <2>2, <2>3 DEF HandleReboot
<1>7. CASE HandleSafetyWrite
  <2>1. stack = "handle" /\ UNCHANGED <<queue, resetRunning, rebootExpected, rebootPending, login>>
    BY <1>7, CommitQuiet DEF HandleSafetyWrite, Handling
  <2>2. CASE Answer(life)
    BY <2>1, <2>2, AnswerMatches, AnswerKeepsCommit DEF Answer
  <2>3. CASE stack' = Unwound /\ UNCHANGED <<pending, life>>
    BY <2>1, <2>3, UnwoundLeaves, LeavingKeepsCommit
  <2> QED
    BY <1>7, <2>2, <2>3 DEF HandleSafetyWrite
<1>8. CASE HandleReadStatus
  <2>1. stack = "handle" /\ UNCHANGED <<queue, resetRunning, rebootExpected, rebootPending, login>>
    BY <1>8, CommitQuiet DEF HandleReadStatus, Handling
  <2>2. CASE Answer(life)
    BY <2>1, <2>2, AnswerMatches, AnswerKeepsCommit DEF Answer
  <2>3. CASE stack' = "loop" /\ UNCHANGED <<pending, life>>
    BY <2>1, <2>3, LeavingKeepsCommit
  <2> QED
    BY <1>8, <2>2, <2>3 DEF HandleReadStatus
<1>9. CASE HandleReset
  <2>1. /\ stack = "handle" /\ pending.kind = "reset"
        /\ UNCHANGED <<queue, rebootPending, login>>
    BY <1>9, CommitQuiet DEF HandleReset, Handling
  <2>2. CASE Answer(life) /\ UNCHANGED resetVars
    BY <2>1, <2>2, CommitQuiet, AnswerMatches, AnswerKeepsCommit DEF Answer
  <2>3. CASE /\ ~ResetRefused(FirmwareBusy) /\ AcceptReset(pending.id)
             /\ stack' = Unwound /\ UNCHANGED <<pending, life>>
    <3>1. queue' = << >>
      BY <2>1 DEF CommitInvariant, ResetComesAlone, ResetKinds
    <3>2. ~rebootPending' /\ ~rebootExpected' /\ ~rebootExpected
      BY <2>1, <2>3 DEF ResetRefused, FirmwareBusy, AcceptReset
    <3> QED
      BY <2>3, <3>1, <3>2, UnwoundLeaves
      DEF CommitInvariant, CommittedMeansLocked, ResetComesAlone, CommittedStopsAll
  <2> QED
    BY <1>9, <2>2, <2>3 DEF HandleReset
<1>10. CASE FinishStreaming
  <2>1. stack = "return" /\ UNCHANGED <<queue, pending, resetRunning, rebootExpected, rebootPending, login, life>>
    BY <1>10, CommitQuiet DEF FinishStreaming, StreamingCleanup, rebootVars
  <2> QED
    BY <1>10, <2>1, LeavingKeepsCommit DEF FinishStreaming
<1>11. CASE FinishSafetyWrite
  <2>1. /\ stack = "loop" /\ Matches(safetyId, "safety_write")
        /\ UNCHANGED <<queue, resetRunning, rebootExpected, rebootPending, login>>
    BY <1>11, CommitQuiet
    DEF FinishSafetyWrite, InLoop, CompleteSafetyWrite, ControlInvariant, OneOperationAtATime
  <2> QED
    BY <1>11, <2>1, AnswerKeepsCommit DEF FinishSafetyWrite
<1>12. CASE RaucFinished
  <2>1. /\ stack = "loop" /\ Matches(currentId, "update_image")
        /\ UNCHANGED <<queue, resetRunning, rebootExpected, rebootPending, login>>
    BY <1>12, CommitQuiet
    DEF RaucFinished, InLoop, StreamingFinished, ControlInvariant, OneOperationAtATime
  <2> QED
    BY <1>12, <2>1, AnswerKeepsCommit DEF RaucFinished
<1>13. CASE StartReset \/ FinishResetCheck \/ FinishResetStop \/ ResetHelperStarts \/ ResetTimeout
  <2>1. stack = "loop" /\ resetRunning /\ UNCHANGED <<queue, rebootPending, login>>
    BY <1>13, CommitQuiet
    DEF StartReset, FinishResetCheck, FinishResetStop, ResetHelperStarts, ResetTimeout, InLoop,
        ControlInvariant, NothingOutlivesReset
  <2>2. CASE /\ \E attempted \in BOOLEAN : Finish(FALSE, attempted)
             /\ FinalResponse(resetId, "reset", life)
    BY <2>1, <2>2, ResetEndsCommitted
  <2>3. CASE /\ UNCHANGED resetRunning /\ (rebootExpected' => rebootExpected)
             /\ UNCHANGED <<pending, stack, life>>
    <3>1. queue = << >> /\ ~rebootPending
      BY <2>1 DEF CommitInvariant, ResetComesAlone, CommittedStopsAll
    <3>2. queue' = << >> /\ ~rebootPending' /\ stack' = "loop" /\ (rebootExpected' => rebootExpected)
      BY <2>1, <2>3, <3>1
    <3>3. CommittedMeansLocked'
      BY <2>1, <2>3, <3>2 DEF CommitInvariant, CommittedMeansLocked, LoginAllowed
    <3>4. ResetComesAlone' /\ CommittedStopsAll'
      BY <3>2 DEF ResetComesAlone, CommittedStopsAll
    <3> QED
      BY <3>3, <3>4 DEF CommitInvariant
  <2>4. \/ /\ Finish(FALSE, TRUE) \/ Finish(FALSE, FALSE)
           /\ FinalResponse(resetId, "reset", life)
        \/ /\ UNCHANGED resetRunning /\ (rebootExpected' => rebootExpected)
           /\ UNCHANGED <<pending, stack, life>>
    <3>1. CASE StartReset
      BY <3>1 DEF StartReset, StartWithoutCommand, StartChecking, StartUnchecked, StartPrepare
    <3>2. CASE FinishResetCheck
      BY <3>2 DEF FinishResetCheck, CheckRefused, CheckPassed
    <3>3. CASE FinishResetStop
      BY <3>3 DEF FinishResetStop, StopFailed, StopConfirmed
    <3>4. CASE ResetHelperStarts \/ ResetTimeout
      BY <3>4 DEF ResetHelperStarts, ResetTimeout, HelperStarted, HelperFailedToStart, TerminateHelper
    <3> QED
      BY <1>13, <3>1, <3>2, <3>3, <3>4
  <2> QED
    BY <2>2, <2>3, <2>4
<1>14. CASE ResetHelperFinishes
  <2>1. stack = "loop" /\ life = "running" /\ resetRunning /\ UNCHANGED <<queue, rebootPending>>
    BY <1>14, CommitQuiet
    DEF ResetHelperFinishes, InLoop, ControlInvariant, NothingOutlivesReset
  <2>2. PICK normalExit \in BOOLEAN :
       /\ HelperFinished(normalExit)
       /\ IF HelperSucceeded(normalExit)
            THEN \E outcome \in BlockOutcomes :
                   /\ BlockLoginForReboot("factory_reset", outcome)
                   /\ FinalResponse(resetId, "reset", IF outcome = "exit" THEN "exiting" ELSE life)
            ELSE /\ UNCHANGED login
                 /\ FinalResponse(resetId, "reset", life)
    BY <1>14 DEF ResetHelperFinishes
  <2>3. HelperSucceeded(normalExit) \in BOOLEAN /\ Finish(HelperSucceeded(normalExit), TRUE)
    BY <2>2 DEF HelperSucceeded, HelperFinished
  <2>4. CASE HelperSucceeded(normalExit)
    <3>1. PICK outcome \in BlockOutcomes :
                   /\ BlockLoginForReboot("factory_reset", outcome)
                   /\ FinalResponse(resetId, "reset", IF outcome = "exit" THEN "exiting" ELSE life)
      BY <2>2, <2>4
    <3>2. outcome # "exit" => ~LoginAllowed'
      BY <3>1 DEF BlockLoginForReboot, LoginAllowed
    <3> DEFINE after == IF outcome = "exit" THEN "exiting" ELSE life
    <3>3. after \in {life, "exiting"} /\ (after = "running" => ~LoginAllowed')
      BY <3>2
    <3> QED
      BY <2>1, <2>3, <3>1, <3>3, ResetEndsCommitted
  <2>5. CASE ~HelperSucceeded(normalExit)
    BY <2>1, <2>2, <2>3, <2>5, ResetEndsCommitted
  <2> QED
    BY <2>4, <2>5
<1>15. ASSUME NEW id \in FreeIds, NEW kind \in Kinds, EnqueueRequest(id, kind)
       PROVE  CommitInvariant'
  BY <1>15, EnqueueCommit
<1>16. CASE Restart
  BY <1>16 DEF Restart, CommitInvariant, CommittedMeansLocked, ResetComesAlone, CommittedStopsAll
<1>17. CASE \/ ContinueSafetyWrite \/ RaucOutput \/ RunRebootCommand \/ ResetKeepAlive \/ ResetKill
            \/ Connect \/ Disconnect \/ UNCHANGED vars
  <2>1. UNCHANGED commitVars
    BY <1>17, CommitQuiet
    DEF ContinueSafetyWrite, RaucOutput, HandleStdoutLine, RunRebootCommand, ResetKeepAlive,
        ResetKill, KillHelper, Connect, Disconnect, HandleClientDisconnected, controlVars,
        rebootVars, vars, commitVars
  <2>2. life' = "running" => life = "running"
    BY <1>17 DEF ContinueSafetyWrite, RaucOutput, RunRebootCommand, ResetKeepAlive, ResetKill,
                 Connect, Disconnect, NonFinalResponse, InLoop, vars
  <2> QED
    BY <2>1, <2>2, CommitStutter
<1> QED
  BY <1>1, <1>2, <1>3, <1>4, <1>5, <1>6, <1>7, <1>8, <1>9, <1>10, <1>11, <1>12, <1>13, <1>14,
     <1>15, <1>16, <1>17
  DEF Next, MainThread, NestedLoopEnds, SafetyProcess, Firmware, ResetHelper, Client

LEMMA CommitInit == Init => CommitInvariant
  BY DEF Init, FirmwareInit, ResetInit, ControlInit, CommitInvariant, CommittedMeansLocked,
         ResetComesAlone, CommittedStopsAll

(* In every state a process committed to a reboot has its login locked,     *)
(* unless it is on its way out, and has no request waiting for a handler.   *)
THEOREM CommitInvariantHolds == Spec => []CommitInvariant
<1> QED
  BY TypeCorrect, ControlInvariantHolds, CommitInit, CommitStep, PTL DEF Spec

(* A running process that is committed to a reboot is locked.               *)
THEOREM CommittedMeansLockedHolds == Spec => []CommittedMeansLocked
<1>1. CommitInvariant => CommittedMeansLocked
  BY DEF CommitInvariant
<1> QED
  BY <1>1, CommitInvariantHolds, PTL

-----------------------------------------------------------------------------
(* Uploads and installations *)

(* One more chunk of at most the announced size keeps the bytes within the  *)
(* chunks received.                                                         *)
LEMMA RoomForChunk ==
  ASSUME NEW w \in Nat, NEW n \in Nat, NEW c \in Nat, NEW b \in Nat, w <= n * c, b <= c
  PROVE  w + b <= (n + 1) * c
<1>1. n * c \in Nat
  OBVIOUS
<1>2. (n + 1) * c = n * c + c
  OBVIOUS
<1> QED
  BY <1>1, <1>2

(* An upload that was forgotten accounts for nothing and is not finished.   *)
LEMMA NothingUploaded ==
  ASSUME ResetUploadState
  PROVE  UploadAccounting' /\ FinishedMeansVerified' /\ ~uploadRunning'
  BY DEF ResetUploadState, UploadAccounting, FinishedMeansVerified, NoUpload

LEMMA FirmwareInParts ==
  /\ FirmwareInvariant <=>
       /\ UploadAccounting /\ InstallsVerifiedImage /\ RebootFollowsInstall
       /\ FinishedMeansVerified /\ UploadKeptWhileInstalling
  /\ FirmwareInvariant' <=>
       /\ UploadAccounting' /\ InstallsVerifiedImage' /\ RebootFollowsInstall'
       /\ FinishedMeansVerified' /\ UploadKeptWhileInstalling'
  BY DEF FirmwareInvariant

LEMMA FirmwareStutter ==
  ASSUME FirmwareInvariant,
         UNCHANGED <<uploadVars, image, rauc, rebootPending>>, rebootRequired' => rebootRequired
  PROVE  FirmwareInvariant'
  BY DEF FirmwareInvariant, UploadAccounting, InstallsVerifiedImage, RebootFollowsInstall,
         FinishedMeansVerified, UploadKeptWhileInstalling, HasFinishedUpload, uploadVars

(* A step that forgets the upload and at most removes the file.             *)
LEMMA ForgettingKeepsFirmware ==
  ASSUME FirmwareInvariant, rauc = "none", ResetUploadState, image' \in {image, "absent"},
         UNCHANGED <<rauc, rebootVars>>
  PROVE  FirmwareInvariant'
<1>1. UploadAccounting' /\ FinishedMeansVerified' /\ ~uploadRunning'
  BY NothingUploaded
<1>2. InstallsVerifiedImage' /\ UploadKeptWhileInstalling'
  BY DEF InstallsVerifiedImage, UploadKeptWhileInstalling, HasFinishedUpload
<1>3. RebootFollowsInstall'
  BY DEF FirmwareInvariant, RebootFollowsInstall, rebootVars
<1> QED
  BY <1>1, <1>2, <1>3, FirmwareInParts

LEMMA UploadStartFirmware ==
  ASSUME FirmwareTypeOK, FirmwareInvariant, rauc = "none", ~rebootPending,
         NEW outcome, HandleUploadStart(outcome)
  PROVE  FirmwareInvariant'
<1>1. UNCHANGED <<rauc, rebootPending>>
  BY DEF HandleUploadStart, updateVars
<1>2. CASE UNCHANGED <<uploadVars, rebootRequired, image>>
  BY <1>1, <1>2, FirmwareStutter
<1>3. CASE ResetUploadState /\ image' \in {image, "absent"} /\ UNCHANGED rebootRequired
  BY <1>1, <1>3, ForgettingKeepsFirmware DEF rebootVars
<1>4. CASE OpenUploadFile
  <2>1. expected'.size \in Nat /\ expected'.count \in Nat /\ expected'.chunk \in Nat
    BY <1>4, SizeAssumption DEF OpenUploadFile
  <2>2. UploadAccounting'
    BY <1>4, <2>1 DEF OpenUploadFile, UploadAccounting
  <2>3. RebootFollowsInstall' /\ FinishedMeansVerified'
    BY <1>1, <1>4 DEF OpenUploadFile, RebootFollowsInstall, FinishedMeansVerified
  <2>4. InstallsVerifiedImage' /\ UploadKeptWhileInstalling'
    BY <1>1 DEF InstallsVerifiedImage, UploadKeptWhileInstalling, HasFinishedUpload
  <2> QED
    BY <2>2, <2>3, <2>4, FirmwareInParts
<1> QED
  BY <1>2, <1>3, <1>4 DEF HandleUploadStart

LEMMA UploadChunkFirmware ==
  ASSUME FirmwareTypeOK, FirmwareInvariant, rauc = "none",
         NEW index \in Nat, NEW bytes \in DataSizes, NEW outcome,
         HandleUploadChunk(index, bytes, outcome)
  PROVE  FirmwareInvariant'
<1>1. UNCHANGED <<rauc, rebootVars>>
  BY DEF HandleUploadChunk, updateVars
<1>2. CASE UNCHANGED <<uploadVars, image>>
  BY <1>1, <1>2, FirmwareStutter DEF rebootVars
<1>3. CASE AbortUploadAndRemovePartialFile
  BY <1>1, <1>3, ForgettingKeepsFirmware DEF AbortUploadAndRemovePartialFile
<1>4. CASE /\ ~uploadFinished /\ index = nextChunk /\ index < expected.count
           /\ bytes <= expected.chunk /\ Fits(bytes)
           /\ written' = written + bytes /\ nextChunk' = nextChunk + 1
           /\ UNCHANGED <<uploadRunning, uploadFinished, pathSet, expected, image>>
  <2>1. /\ expected.size \in Nat /\ expected.count \in Nat /\ expected.chunk \in Nat
        /\ bytes \in Nat /\ written \in Nat /\ nextChunk \in Nat
    BY AnnouncedNumbers DEF FirmwareTypeOK
  <2>2. written + bytes <= (nextChunk + 1) * expected.chunk
    BY <1>4, <2>1, RoomForChunk DEF FirmwareInvariant, UploadAccounting
  <2>3. written + bytes <= expected.size /\ nextChunk + 1 <= expected.count
    BY <1>4, <2>1 DEF Fits
  <2>4. UploadAccounting'
    BY <1>4, <2>2, <2>3 DEF UploadAccounting
  <2>5. /\ InstallsVerifiedImage' /\ RebootFollowsInstall' /\ FinishedMeansVerified'
        /\ UploadKeptWhileInstalling'
    BY <1>1, <1>4 DEF FirmwareInvariant, InstallsVerifiedImage, RebootFollowsInstall,
                      FinishedMeansVerified, UploadKeptWhileInstalling, HasFinishedUpload, rebootVars
  <2> QED
    BY <2>4, <2>5, FirmwareInParts
<1> QED
  BY <1>2, <1>3, <1>4 DEF HandleUploadChunk

LEMMA UploadFinishFirmware ==
  ASSUME FirmwareTypeOK, FirmwareInvariant, rauc = "none", NEW outcome, HandleUploadFinish(outcome)
  PROVE  FirmwareInvariant'
<1>1. UNCHANGED <<rauc, rebootVars>>
  BY DEF HandleUploadFinish, updateVars
<1>2. CASE UNCHANGED <<uploadVars, image>>
  BY <1>1, <1>2, FirmwareStutter DEF rebootVars
<1>3. CASE AbortUploadAndRemovePartialFile
  BY <1>1, <1>3, ForgettingKeepsFirmware DEF AbortUploadAndRemovePartialFile
<1>4. CASE /\ nextChunk = expected.count /\ written = expected.size
           /\ uploadRunning' = FALSE /\ uploadFinished' = TRUE /\ image' = "verified"
           /\ UNCHANGED <<pathSet, expected, written, nextChunk>>
  BY <1>1, <1>4
  DEF FirmwareInvariant, UploadAccounting, InstallsVerifiedImage, RebootFollowsInstall,
      FinishedMeansVerified, UploadKeptWhileInstalling, HasFinishedUpload, rebootVars
<1> QED
  BY <1>2, <1>3, <1>4 DEF HandleUploadFinish

(* No step breaks FirmwareInvariant: what was written stays within what was *)
(* announced, and what is installed is the file that was verified.          *)
THEOREM FirmwareStep ==
  TypeOK /\ ControlInvariant /\ CommitInvariant /\ FirmwareInvariant /\ [Next]_vars
    => FirmwareInvariant'
<1> SUFFICES ASSUME TypeOK, ControlInvariant, CommitInvariant, FirmwareInvariant, [Next]_vars
             PROVE  FirmwareInvariant'
  OBVIOUS
<1>0. FirmwareTypeOK
  BY DEF TypeOK
<1>1. CASE UNCHANGED firmwareVars
  BY <1>1, FirmwareStutter DEF firmwareVars, updateVars, rebootVars
<1>2. CASE HandleFirmwareUpload
  <2>1. rauc = "none" /\ ~rebootPending
    BY <1>2 DEF HandleFirmwareUpload, Handling, ControlInvariant, HandlesAlone, CommitInvariant,
                CommittedStopsAll
  <2>2. CASE \E outcome \in UploadStartOutcomes : HandleUploadStart(outcome)
    BY <1>0, <2>1, <2>2, UploadStartFirmware
  <2>3. CASE \E index \in 0..expected.count, bytes \in DataSizes, outcome \in UploadChunkOutcomes :
               HandleUploadChunk(index, bytes, outcome)
    <3>1. PICK index \in 0..expected.count, bytes \in DataSizes, outcome \in UploadChunkOutcomes :
               HandleUploadChunk(index, bytes, outcome)
      BY <2>3
    <3>2. index \in Nat
      OBVIOUS
    <3> QED
      BY <1>0, <2>1, <3>1, <3>2, UploadChunkFirmware
  <2>4. CASE \E outcome \in UploadFinishOutcomes : HandleUploadFinish(outcome)
    BY <1>0, <2>1, <2>4, UploadFinishFirmware
  <2> QED
    BY <1>2, <2>2, <2>3, <2>4 DEF HandleFirmwareUpload
<1>3. CASE HandleUpdateImage
  <2>1. PICK outcome : HandleUpdate(pending.id, outcome)
    BY <1>3 DEF HandleUpdateImage
  <2>2. UNCHANGED <<uploadVars, image, rebootPending>> /\ (rebootRequired' => rebootRequired)
    BY <2>1 DEF HandleUpdate
  <2>3. CASE UNCHANGED updateVars
    BY <2>2, <2>3, FirmwareStutter DEF updateVars
  <2>4. CASE HasFinishedUpload
    <3>1. image = "verified" /\ ~uploadRunning
      BY <2>4 DEF HasFinishedUpload, FirmwareInvariant, FinishedMeansVerified
    <3> QED
      BY <2>2, <2>4, <3>1
      DEF FirmwareInvariant, UploadAccounting, InstallsVerifiedImage, RebootFollowsInstall,
          FinishedMeansVerified, UploadKeptWhileInstalling, HasFinishedUpload, uploadVars
  <2> QED
    BY <2>1, <2>3, <2>4 DEF HandleUpdate
<1>4. CASE HandleReboot
  <2>1. CASE UNCHANGED firmwareVars
    BY <1>1, <2>1
  <2>2. CASE AcceptReboot /\ rebootRequired
    BY <2>2
    DEF AcceptReboot, FirmwareInvariant, UploadAccounting, InstallsVerifiedImage,
        RebootFollowsInstall, FinishedMeansVerified, UploadKeptWhileInstalling, HasFinishedUpload, uploadVars, updateVars
  <2> QED
    BY <1>4, <2>1, <2>2 DEF HandleReboot, RebootRefused
<1>5. CASE RaucOutput
  <2>1. UNCHANGED <<uploadVars, image, rauc, rebootVars>>
    BY <1>5 DEF RaucOutput, HandleStdoutLine
  <2> QED
    BY <2>1, FirmwareStutter DEF rebootVars
<1>6. CASE RaucFinished
  <2>1. rauc = "running" /\ rauc' = "none" /\ UNCHANGED <<uploadVars, image, rebootPending>>
    BY <1>6 DEF RaucFinished, StreamingFinished
  <2>2. image = "verified"
    BY <2>1 DEF FirmwareInvariant, InstallsVerifiedImage
  <2> QED
    BY <2>1, <2>2
    DEF FirmwareInvariant, UploadAccounting, InstallsVerifiedImage, RebootFollowsInstall,
        FinishedMeansVerified, UploadKeptWhileInstalling, HasFinishedUpload, uploadVars
<1>7. CASE FinishStreaming
  <2>1. rauc = "none"
    BY <1>7 DEF FinishStreaming, ControlInvariant, UpdatingUntilCleanUp
  <2> QED
    BY <1>7, <2>1, ForgettingKeepsFirmware DEF FinishStreaming, StreamingCleanup
<1>8. CASE Disconnect
  <2>1. HandleClientDisconnected /\ UNCHANGED <<updateVars, rebootVars>>
    BY <1>8 DEF Disconnect, HandleClientDisconnected
  <2>2. CASE uploadRunning
    <3>1. rauc = "none"
      BY <1>0, <2>2 DEF FirmwareInvariant, UploadKeptWhileInstalling, HasFinishedUpload, FirmwareTypeOK
    <3> QED
      BY <2>1, <2>2, <3>1, ForgettingKeepsFirmware
      DEF HandleClientDisconnected, AbortUploadAndRemovePartialFile, updateVars
  <2>3. CASE ~uploadRunning
    BY <1>1, <2>1, <2>3 DEF HandleClientDisconnected, firmwareVars
  <2> QED
    BY <2>2, <2>3
<1>9. CASE Restart
  <2>1. ResetUploadState /\ rauc' = "none" /\ ~rebootRequired' /\ ~rebootPending'
    BY <1>9 DEF Restart
  <2> QED
    BY <2>1, NothingUploaded, FirmwareInParts
    DEF InstallsVerifiedImage, RebootFollowsInstall, UploadKeptWhileInstalling, HasFinishedUpload
<1> QED
  BY <1>1, <1>2, <1>3, <1>4, <1>5, <1>6, <1>7, <1>8, <1>9
  DEF Next, MainThread, NestedLoopEnds, SafetyProcess, Firmware, ResetHelper, Client, vars,
      ProcessQueue, HandleRead, HandleWrite, HandleSafetyWrite, HandleReadStatus, HandleReset,
      FinishWrite, FinishReadStatus, FinishResetCheck, FinishResetStop, ContinueSafetyWrite,
      FinishSafetyWrite, RunRebootCommand, StartReset, ResetKeepAlive, ResetHelperStarts,
      ResetTimeout, ResetKill, ResetHelperFinishes, Connect, EnqueueRequest

LEMMA FirmwareInit_ == Init => FirmwareInvariant
  BY DEF Init, FirmwareInit, NoUpload, FirmwareInvariant, UploadAccounting, InstallsVerifiedImage,
         RebootFollowsInstall, FinishedMeansVerified, UploadKeptWhileInstalling, HasFinishedUpload

(* In every state the upload and the image file are in step.                *)
THEOREM FirmwareInvariantHolds == Spec => []FirmwareInvariant
<1> QED
  BY TypeCorrect, ControlInvariantHolds, CommitInvariantHolds, FirmwareInit_, FirmwareStep, PTL
  DEF Spec

(* What was written never exceeds what was announced, in bytes or chunks.   *)
THEOREM UploadAccountingHolds == Spec => []UploadAccounting
<1>1. FirmwareInvariant => UploadAccounting
  BY DEF FirmwareInvariant
<1> QED
  BY <1>1, FirmwareInvariantHolds, PTL

(* The installer only ever runs on a complete image whose checksum matched, *)
(* and a reboot is never on offer, or due, for an image being uploaded.     *)
THEOREM ImageAsClaimedHolds == Spec => []ImageAsClaimed
<1>1. FirmwareInvariant => ImageAsClaimed
  BY DEF FirmwareInvariant, ImageAsClaimed
<1> QED
  BY <1>1, FirmwareInvariantHolds, PTL

-----------------------------------------------------------------------------
(* What a step may never do *)

(* A final response leaves the pending request as it is or ends it.         *)
LEMMA FinalStartsNothing ==
  ASSUME NEW id, NEW kind, NEW lifeAfter, FinalResponse(id, kind, lifeAfter)
  PROVE  StartsNothing
  BY DEF FinalResponse, StartsNothing

LEMMA CommittedStartsNothing ==
  ASSUME CommitInvariant, [Next]_vars, rebootPending \/ rebootExpected
  PROVE  StartsNothing
<1>1. CASE ProcessQueue
  BY <1>1 DEF ProcessQueue, StartsNothing, CommitInvariant, ResetComesAlone, CommittedStopsAll
<1>2. CASE HandleRead \/ HandleFirmwareUpload \/ HandleReboot \/ FinishWrite \/ FinishReadStatus
  BY <1>2, FinalStartsNothing
  DEF HandleRead, HandleFirmwareUpload, HandleReboot, FinishWrite, FinishReadStatus, Answer, StartsNothing
<1>3. CASE HandleWrite \/ HandleUpdateImage \/ HandleSafetyWrite \/ HandleReadStatus \/ HandleReset
  BY <1>3, FinalStartsNothing
  DEF HandleWrite, HandleUpdateImage, HandleSafetyWrite, HandleReadStatus, HandleReset, Answer, StartsNothing
<1>4. CASE FinishSafetyWrite \/ RaucFinished \/ ResetHelperFinishes
  BY <1>4, FinalStartsNothing DEF FinishSafetyWrite, RaucFinished, ResetHelperFinishes
<1>5. CASE StartReset \/ FinishResetCheck \/ FinishResetStop \/ ResetHelperStarts \/ ResetTimeout
  BY <1>5, FinalStartsNothing
  DEF StartReset, FinishResetCheck, FinishResetStop, ResetHelperStarts, ResetTimeout, StartsNothing
<1>6. CASE Restart
  BY <1>6 DEF Restart, StartsNothing
<1> QED
  BY <1>1, <1>2, <1>3, <1>4, <1>5, <1>6
  DEF Next, MainThread, NestedLoopEnds, SafetyProcess, Firmware, ResetHelper, Client, vars,
      controlVars, FinishStreaming, ContinueSafetyWrite, RaucOutput, RunRebootCommand,
      ResetKeepAlive, ResetKill, Connect, Disconnect, EnqueueRequest, StartsNothing

(* Once committed to a reboot the process starts no request any more, not   *)
(* even while it unwinds on its way out.                                    *)
THEOREM NothingStartsAfterCommitHolds == Spec => NothingStartsAfterCommit
<1>1. CommitInvariant /\ [Next]_vars => [rebootPending \/ rebootExpected => StartsNothing]_vars
  BY CommittedStartsNothing
<1> QED
  BY <1>1, CommitInvariantHolds, PTL DEF Spec, NothingStartsAfterCommit

(* The steps that may take a finished upload away: a new upload, the clean- *)
(* up after an installation and the end of the process.                     *)
LEMMA UploadSurvives ==
  ASSUME [Next]_vars, HasFinishedUpload
  PROVE  HasFinishedUpload' \/ Handling("upload_start") \/ stack = "return" \/ Restart
<1>1. CASE UNCHANGED <<uploadVars, image>>
  BY <1>1 DEF uploadVars, HasFinishedUpload
<1>2. CASE HandleFirmwareUpload
  <2>1. CASE Handling("upload_start")
    BY <2>1
  <2>2. CASE \/ \E index, bytes, outcome : HandleUploadChunk(index, bytes, outcome)
             \/ \E outcome : HandleUploadFinish(outcome)
    BY <1>1, <2>2 DEF HandleUploadChunk, HandleUploadFinish, HasFinishedUpload
  <2> QED
    BY <1>2, <2>1, <2>2 DEF HandleFirmwareUpload
<1>3. CASE Disconnect
  BY <1>1, <1>3 DEF Disconnect, HandleClientDisconnected, HasFinishedUpload
<1>4. CASE FinishStreaming
  BY <1>4 DEF FinishStreaming
<1>5. CASE HandleUpdateImage \/ HandleReboot \/ RaucOutput \/ RaucFinished
  <2>1. UNCHANGED <<uploadVars, image>>
    BY <1>5 DEF HandleUpdateImage, HandleUpdate, HandleReboot, AcceptReboot, RaucOutput,
                HandleStdoutLine, RaucFinished, StreamingFinished, firmwareVars
  <2> QED
    BY <1>1, <2>1
<1>6. CASE UNCHANGED firmwareVars
  BY <1>1, <1>6 DEF firmwareVars
<1> QED
  BY <1>2, <1>3, <1>4, <1>5, <1>6
  DEF Next, MainThread, NestedLoopEnds, SafetyProcess, Firmware, ResetHelper, Client, vars,
      ProcessQueue, HandleRead, HandleWrite, HandleSafetyWrite, HandleReadStatus, HandleReset,
      FinishWrite, FinishReadStatus, FinishResetCheck, FinishResetStop, ContinueSafetyWrite,
      FinishSafetyWrite, RunRebootCommand, StartReset, ResetKeepAlive, ResetHelperStarts,
      ResetTimeout, ResetKill, ResetHelperFinishes, Connect, EnqueueRequest

(* A clean-up falls due only with the end of an installer, whose upload is  *)
(* still there.                                                             *)
LEMMA CleanupFindsUpload ==
  ASSUME FirmwareInvariant, [Next]_vars, ~cleanupDue, cleanupDue'
  PROVE  rauc = "running" /\ HasFinishedUpload
<1>1. CASE RaucFinished
  BY <1>1 DEF RaucFinished, FirmwareInvariant, UploadKeptWhileInstalling
<1>2. CASE FinishStreaming \/ Restart
  BY <1>2 DEF FinishStreaming, Restart
<1>3. CASE UNCHANGED cleanupDue
  BY <1>3
<1> QED
  BY <1>1, <1>2, <1>3
  DEF Next, MainThread, NestedLoopEnds, SafetyProcess, Firmware, ResetHelper, Client, vars,
      ProcessQueue, HandleRead, HandleWrite, HandleFirmwareUpload, HandleUpdateImage,
      HandleReboot, HandleSafetyWrite, HandleReadStatus, HandleReset, FinishWrite,
      FinishReadStatus, FinishResetCheck, FinishResetStop, ContinueSafetyWrite,
      FinishSafetyWrite, RaucOutput, RunRebootCommand, StartReset, ResetKeepAlive,
      ResetHelperStarts, ResetTimeout, ResetKill, ResetHelperFinishes, Connect, Disconnect,
      EnqueueRequest

(* A finished upload survives its client, and the installer's upload the    *)
(* installation: what is finished is lost only to a new upload, to the      *)
(* clean-up after an installation (of whichever upload the clean-up finds)  *)
(* or with the process, and the clean-up falls due only when an installer   *)
(* ends whose own upload is still there.                                    *)
THEOREM FinishedUploadSurvivesHolds == Spec => FinishedUploadSurvives
<1>1. FirmwareInvariant /\ [Next]_vars =>
        [/\ HasFinishedUpload =>
              HasFinishedUpload' \/ Handling("upload_start") \/ stack = "return" \/ Restart
         /\ ~cleanupDue /\ cleanupDue' => rauc = "running" /\ HasFinishedUpload]_vars
  BY UploadSurvives, CleanupFindsUpload
<1> QED
  BY <1>1, FirmwareInvariantHolds, PTL DEF Spec, FinishedUploadSurvives

-----------------------------------------------------------------------------
(* The control path serves in order *)

(* The queue as SerialQueue sees it: the identifiers alone.                 *)
WaitingIds(q) == [i \in DOMAIN q |-> q[i].id]

LEMMA IdsOfQueue ==
  ASSUME NEW q \in Seq(Request)
  PROVE  WaitingIds(q) \in Seq(Ids) /\ Len(WaitingIds(q)) = Len(q)
<1>1. \A i \in 1..Len(q) : q[i].id \in Ids
  <2> SUFFICES ASSUME NEW i \in 1..Len(q) PROVE q[i].id \in Ids
    OBVIOUS
  <2>1. q[i] \in Request
    BY ElementOfSeq
  <2> QED
    BY <2>1 DEF Request
<1>2. DOMAIN q = 1..Len(q) /\ Len(q) \in Nat
  OBVIOUS
<1>3. WaitingIds(q) \in [1..Len(q) -> Ids]
  BY <1>1, <1>2 DEF WaitingIds
<1>4. WaitingIds(q) \in Seq(Ids)
  BY <1>2, <1>3, SeqDef
<1> QED
  BY <1>2, <1>3, <1>4, LenProperties

LEMMA IdsOfAppend ==
  ASSUME NEW q \in Seq(Request), NEW r \in Request
  PROVE  WaitingIds(Append(q, r)) = Append(WaitingIds(q), r.id)
<1>1. Append(q, r) \in Seq(Request) /\ r.id \in Ids
  BY DEF Request
<1>2. Len(Append(q, r)) = Len(q) + 1
  OBVIOUS
<1>3. \A i \in 1..Len(q) + 1 :
        WaitingIds(Append(q, r))[i] = IF i <= Len(q) THEN q[i].id ELSE r.id
  BY <1>1, <1>2 DEF WaitingIds
<1>4. \A i \in 1..Len(q) : WaitingIds(q)[i] = q[i].id
  BY DEF WaitingIds
<1> DEFINE a == WaitingIds(Append(q, r))
           w == WaitingIds(q)
<1>5. /\ a \in Seq(Ids) /\ w \in Seq(Ids) /\ Len(a) = Len(q) + 1 /\ Len(w) = Len(q)
  BY <1>1, <1>2, IdsOfQueue
<1> HIDE DEF a, w
<1>6. Append(w, r.id) \in Seq(Ids) /\ Len(Append(w, r.id)) = Len(q) + 1
  BY <1>1, <1>5
<1>7. \A i \in 1..Len(a) : a[i] = Append(w, r.id)[i]
  BY <1>1, <1>3, <1>4, <1>5, <1>6 DEF a, w
<1> QED
  BY <1>5, <1>6, <1>7, SeqEqual DEF a, w

LEMMA IdsOfTail ==
  ASSUME NEW q \in Seq(Request), q # << >>
  PROVE  /\ WaitingIds(q) # << >>
         /\ Head(WaitingIds(q)) = Head(q).id
         /\ WaitingIds(Tail(q)) = Tail(WaitingIds(q))
<1> DEFINE w == WaitingIds(q)
           t == WaitingIds(Tail(q))
<1>1. /\ Tail(q) \in Seq(Request) /\ Len(Tail(q)) = Len(q) - 1 /\ Len(q) \in Nat \ {0}
      /\ \A i \in 1..Len(q) - 1 : Tail(q)[i] = q[i + 1]
  BY HeadTailProperties, EmptySeq
<1>2. /\ w \in Seq(Ids) /\ Len(w) = Len(q) /\ t \in Seq(Ids) /\ Len(t) = Len(q) - 1
  BY <1>1, IdsOfQueue
<1>3. \A i \in 1..Len(q) : w[i] = q[i].id
  BY DEF WaitingIds
<1>4. \A i \in 1..Len(q) - 1 : t[i] = Tail(q)[i].id
  BY <1>1 DEF WaitingIds
<1> HIDE DEF w, t
<1>5. w # << >>
  BY <1>1, <1>2
<1>6. Head(w) = Head(q).id
  BY <1>1, <1>2, <1>3
<1>7. /\ Tail(w) \in Seq(Ids) /\ Len(Tail(w)) = Len(q) - 1
      /\ \A i \in 1..Len(q) - 1 : Tail(w)[i] = w[i + 1]
  BY <1>2, <1>5, HeadTailProperties
<1>8. \A i \in 1..Len(t) : t[i] = Tail(w)[i]
  BY <1>1, <1>2, <1>3, <1>4, <1>7
<1>9. t = Tail(w)
  BY <1>2, <1>7, <1>8, SeqEqual
<1> QED
  BY <1>5, <1>6, <1>9 DEF w, t

LEMMA IdsOfNothing == WaitingIds(<< >>) = << >>
<1>1. << >> \in Seq(Request) /\ Len(<< >>) = 0
  BY EmptySeq
<1>2. WaitingIds(<< >>) \in Seq(Ids) /\ Len(WaitingIds(<< >>)) = 0
  BY <1>1, IdsOfQueue
<1> QED
  BY <1>2, EmptySeq

(* A pending request has an identifier, and "no request" has none.          *)
LEMMA ServingMeansPending ==
  ASSUME pending \in Request \union {NoRequest}
  PROVE  pending.id = NoId <=> pending = NoRequest
<1>1. CASE pending = NoRequest
  BY <1>1 DEF NoRequest
<1>2. CASE pending \in Request
  BY <1>2, IdAssumption DEF Request, NoRequest
<1> QED
  BY <1>1, <1>2

(* What a step may do to the queue and to the pending request.              *)
LEMMA QueueMoves ==
  ASSUME TypeOK, [Next]_vars
  PROVE  \/ queue' = queue /\ pending' \in {pending, NoRequest}
         \/ queue' = << >> /\ pending' \in {pending, NoRequest}
         \/ pending = NoRequest /\ queue # << >> /\ pending' = Head(queue) /\ queue' = Tail(queue)
         \/ /\ pending' = pending
            /\ \E id \in FreeIds, kind \in Kinds : queue' = Append(queue, [id |-> id, kind |-> kind])
<1>1. CASE ProcessQueue
  BY <1>1 DEF ProcessQueue, PendingHasValue
<1>2. CASE HandleRead \/ HandleFirmwareUpload \/ HandleReboot \/ FinishWrite \/ FinishReadStatus
  BY <1>2, FinalStartsNothing
  DEF HandleRead, HandleFirmwareUpload, HandleReboot, FinishWrite, FinishReadStatus, Answer, StartsNothing
<1>3. CASE HandleWrite \/ HandleUpdateImage \/ HandleSafetyWrite \/ HandleReadStatus \/ HandleReset
  BY <1>3, FinalStartsNothing
  DEF HandleWrite, HandleUpdateImage, HandleSafetyWrite, HandleReadStatus, HandleReset, Answer, StartsNothing
<1>4. CASE FinishSafetyWrite \/ RaucFinished \/ ResetHelperFinishes
  BY <1>4, FinalStartsNothing DEF FinishSafetyWrite, RaucFinished, ResetHelperFinishes, StartsNothing
<1>5. CASE StartReset \/ FinishResetCheck \/ FinishResetStop \/ ResetHelperStarts \/ ResetTimeout
  BY <1>5, FinalStartsNothing
  DEF StartReset, FinishResetCheck, FinishResetStop, ResetHelperStarts, ResetTimeout, StartsNothing
<1>6. CASE Restart
  BY <1>6 DEF Restart
<1>7. CASE \E id \in FreeIds, kind \in Kinds : EnqueueRequest(id, kind)
  BY <1>7 DEF EnqueueRequest
<1> QED
  BY <1>1, <1>2, <1>3, <1>4, <1>5, <1>6, <1>7
  DEF Next, MainThread, NestedLoopEnds, SafetyProcess, Firmware, ResetHelper, Client, vars,
      controlVars, FinishStreaming, ContinueSafetyWrite, RaucOutput, RunRebootCommand,
      ResetKeepAlive, ResetKill, Connect, Disconnect

(* Every step of the control path is a step of SerialQueue or changes       *)
(* nothing of it: requests are served one at a time, in the order in which  *)
(* they were accepted, and the ones waiting are only ever discarded         *)
(* together.                                                                *)
THEOREM SerialStep == TypeOK /\ TypeOK' /\ [Next]_vars => [Serial!Next]_(Serial!queueVars)
<1> SUFFICES ASSUME TypeOK, TypeOK', [Next]_vars
             PROVE  [Serial!Next]_(Serial!queueVars)
  OBVIOUS
<1> DEFINE waiting == [i \in DOMAIN queue |-> queue[i].id]
<1>0. /\ waiting = WaitingIds(queue) /\ waiting' = WaitingIds(queue')
      /\ queue \in Seq(Request)
      /\ pending \in Request \union {NoRequest} /\ pending' \in Request \union {NoRequest}
  BY DEF WaitingIds, TypeOK, ControlTypeOK
<1>1. pending.id = NoId <=> pending = NoRequest
  BY <1>0, ServingMeansPending
<1>2. NoRequest.id = NoId
  BY DEF NoRequest
<1> HIDE DEF waiting
<1>3. CASE queue' = queue /\ pending' \in {pending, NoRequest}
  <2>1. waiting' = waiting
    BY <1>0, <1>3
  <2>2. CASE pending' = pending
    BY <2>1, <2>2 DEF Serial!queueVars, waiting
  <2>3. CASE pending # NoRequest /\ pending' = NoRequest
    <3>1. Serial!End
      BY <1>1, <1>2, <2>1, <2>3 DEF Serial!End, waiting
    <3> QED
      BY <3>1 DEF Serial!Next
  <2> QED
    BY <1>3, <2>2, <2>3
<1>4. CASE queue' = << >> /\ pending' \in {pending, NoRequest}
  <2>1. waiting' = << >>
    BY <1>0, <1>4, IdsOfNothing
  <2>2. Serial!Discard
    BY <1>2, <1>4, <2>1 DEF Serial!Discard, waiting
  <2> QED
    BY <2>2 DEF Serial!Next
<1>5. CASE pending = NoRequest /\ queue # << >> /\ pending' = Head(queue) /\ queue' = Tail(queue)
  <2>1. waiting # << >> /\ pending'.id = Head(waiting) /\ waiting' = Tail(waiting)
    BY <1>0, <1>5, IdsOfTail
  <2>2. Serial!Begin
    BY <1>1, <1>5, <2>1 DEF Serial!Begin, waiting
  <2> QED
    BY <2>2 DEF Serial!Next
<1>6. CASE /\ pending' = pending
           /\ \E id \in FreeIds, kind \in Kinds : queue' = Append(queue, [id |-> id, kind |-> kind])
  <2>1. PICK id \in FreeIds, kind \in Kinds : queue' = Append(queue, [id |-> id, kind |-> kind])
    BY <1>6
  <2>2. id \in Ids /\ [id |-> id, kind |-> kind] \in Request
    BY KindAssumption, FreeIdsType DEF Request
  <2>3. waiting' = Append(waiting, id)
    BY <1>0, <2>1, <2>2, IdsOfAppend
  <2>4. id # pending.id /\ \A i \in DOMAIN queue : id # queue[i].id
    BY DEF FreeIds
  <2>5. id \notin Serial!Waiting \union {pending.id}
    BY <2>4 DEF Serial!Waiting
  <2>6. Serial!Accept(id)
    BY <1>6, <2>3, <2>5 DEF Serial!Accept, waiting
  <2> QED
    BY <2>2, <2>6 DEF Serial!Next
<1> QED
  BY <1>3, <1>4, <1>5, <1>6, QueueMoves

(* The control path implements SerialQueue, its liveness apart.             *)
THEOREM ServesInOrderSafely == Spec => Serial!Init /\ [][Serial!Next]_(Serial!queueVars)
<1>1. Init => Serial!Init
  <2> SUFFICES ASSUME Init PROVE Serial!Init
    OBVIOUS
  <2>1. queue = << >> /\ pending.id = NoId
    BY DEF Init, ControlInit, NoRequest
  <2>2. WaitingIds(queue) = << >>
    BY <2>1, IdsOfNothing
  <2> QED
    BY <2>1, <2>2 DEF Serial!Init, WaitingIds
<1> QED
  BY <1>1, TypeCorrect, SerialStep, PTL DEF Spec
=============================================================================
