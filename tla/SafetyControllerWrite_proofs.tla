---------------------- MODULE SafetyControllerWrite_proofs ----------------------
(***************************************************************************)
(* Theorems about a safety controller write, for any number of EVSEs,      *)
(* instances of EVerest, connections and writes: the settings cache, the   *)
(* stop of EVerest around the tools, that the write implements the stages  *)
(* the control path is checked with, what its response says of the         *)
(* controller and the cache, and which EVerest counts as ready.  The last  *)
(* two also say something of EVerest's answers; they assume that the loss  *)
(* of a connection is noticed before the next EVerest is started.          *)
(***************************************************************************)
EXTENDS SafetyControllerWrite, TLAPS

-----------------------------------------------------------------------------
(* The settings cache *)

LEMMA CacheInit == Init => CacheInvariant
  BY DEF Init, CacheInvariant, CacheTellsTruth

(* A step that leaves the write, its tool and the files alone.              *)
LEMMA CacheStutter ==
  ASSUME CacheInvariant, UNCHANGED <<stage, writes, tool, exitedWell, controller, cache, backup>>
  PROVE  CacheInvariant'
  BY DEF CacheInvariant, CacheTellsTruth

(* A step that does not enter or stay in the flash need only keep the cache *)
(* true.                                                                    *)
LEMMA CacheOutsideFlash ==
  ASSUME CacheInvariant, stage' # "flash",
         \/ UNCHANGED <<controller, cache>>
         \/ cache' = NoDocument
         \/ cache' = controller'
  PROVE  CacheInvariant'
  BY DEF CacheInvariant, CacheTellsTruth, NoDocument

LEMMA ToolStepsKeepCache ==
  ASSUME CacheInvariant, ToolSteps
  PROVE  CacheInvariant'
<1>1. CASE ToolExecutes
  BY <1>1 DEF ToolExecutes, CacheInvariant, CacheTellsTruth, everestVars, writeVars, cacheVars, NoDocument
<1>2. CASE FlashWrites
  BY <1>2 DEF FlashWrites, CacheInvariant, CacheTellsTruth, writeVars, toolVars, NoDocument
<1>3. CASE ToolExits
  BY <1>3 DEF ToolExits, CacheInvariant, CacheTellsTruth, writeVars, cacheVars, NoDocument
<1>4. CASE ProcessStarted \/ ProcessTimeout
  BY <1>4, CacheStutter DEF ProcessStarted, ProcessTimeout, writeVars, cacheVars
<1> QED
  BY <1>1, <1>2, <1>3, <1>4 DEF ToolSteps

(* The end of the flash: what it did to the controller decides the cache.   *)
LEMMA FinishFlashKeepsCache ==
  ASSUME CacheInvariant, FinishFlash
  PROVE  CacheInvariant'
<1>1. stage = "flash" /\ cache = NoDocument /\ ToolDone /\ UNCHANGED controller
  BY DEF FinishFlash, CacheInvariant
<1>2. stage' # "flash"
  BY DEF FinishFlash, FlashSucceeds, FlashNeverStarts, FlashFails, RestartWith, Complete, Reply
<1>3. CASE FlashSucceeds
  <2>1. controller = writes
    BY <1>1, <1>3 DEF FlashSucceeds, Succeeded, Finished, CacheInvariant
  <2>2. cache' \in {writes, cache}
    BY <1>3 DEF FlashSucceeds, Publish
  <2> QED
    BY <1>1, <1>2, <2>1, <2>2, CacheOutsideFlash
<1>4. CASE FlashNeverStarts
  <2>1. backup \in {controller, NoDocument}
    BY <1>1, <1>4 DEF FlashNeverStarts, NeverStarted, ToolDone, FailedToStart, Finished, CacheInvariant
  <2>2. cache' \in {backup, cache}
    BY <1>4 DEF FlashNeverStarts
  <2> QED
    BY <1>1, <1>2, <2>1, <2>2, CacheOutsideFlash
<1>5. CASE FlashFails
  BY <1>1, <1>2, <1>5, CacheOutsideFlash DEF FlashFails
<1> QED
  BY <1>3, <1>4, <1>5 DEF FinishFlash

LEMMA CacheStep == CacheInvariant /\ [Next]_vars => CacheInvariant'
<1> SUFFICES ASSUME CacheInvariant, [Next]_vars
             PROVE  CacheInvariant'
  OBVIOUS
<1>1. CASE UNCHANGED vars
  BY <1>1, CacheStutter DEF vars, writeVars, toolVars, cacheVars
<1>2. CASE EnvironmentStep \/ DeadlinePasses \/ WatchPoll
  BY <1>2, CacheStutter DEF EnvironmentStep, DeadlinePasses, WatchPoll, writeVars, toolVars, cacheVars
<1>3. CASE ToolSteps
  BY <1>3, ToolStepsKeepCache
<1>4. CASE BeginSafetyWrite \/ BeginConfigWrite
  BY <1>4, CacheOutsideFlash DEF BeginSafetyWrite, BeginConfigWrite, cacheVars
<1>5. CASE FinishCreate \/ FinishCheck
  <2>1. UNCHANGED cacheVars /\ stage' # "flash"
    <3>1. CASE FinishCreate
      BY <3>1 DEF FinishCreate, Fail, Complete, Enter
    <3>2. CASE FinishCheck
      BY <3>2 DEF FinishCheck, Fail, Complete, Enter, RestartWith, writeVars
    <3> QED  BY <1>5, <3>1, <3>2
  <2> QED  BY <2>1, CacheOutsideFlash DEF cacheVars
<1>6. CASE EverestStopped
  <2>1. CASE CacheInvalidated /\ StartProcess /\ Enter("flash")
    BY <1>6, <2>1 DEF EverestStopped, CacheInvalidated, StartProcess, Enter, CacheInvariant, CacheTellsTruth
  <2>2. CASE CacheNotInvalidated /\ stage' # "flash"
    BY <1>6, <2>2, CacheOutsideFlash DEF EverestStopped, CacheNotInvalidated
  <2> QED
    BY <1>6, <2>1, <2>2 DEF EverestStopped, RestartWith, Complete, Reply
<1>7. CASE EverestStopTimeout
  BY <1>7, CacheOutsideFlash DEF EverestStopTimeout, Fail, Complete, cacheVars
<1>8. CASE FinishFlash
  BY <1>8, FinishFlashKeepsCache
<1>9. CASE FinishRecovery
  <2>1. stage' # "flash" /\ UNCHANGED controller
    BY <1>9 DEF FinishRecovery, RestartWith, Complete, Reply, Enter
  <2>2. cache' \in {cache, controller}
    BY <1>9 DEF FinishRecovery, Publish
  <2> QED
    BY <2>1, <2>2, CacheOutsideFlash
<1>10. CASE BeginReadiness \/ ContinueReadiness \/ ReadinessFails \/ EverestReady
  <2>1. UNCHANGED cacheVars /\ stage' # "flash"
    BY <1>10 DEF BeginReadiness, ContinueReadiness, ReadinessFails, EverestReady, AfterRestart,
                 Fail, Complete, Enter, writeVars
  <2> QED  BY <2>1, CacheOutsideFlash DEF cacheVars
<1>11. CASE WatchStep \/ WatchEnds
  <2>1. UNCHANGED cacheVars /\ stage' # "flash"
    BY <1>11 DEF WatchStep, WatchEnds, Fail, Complete, writeVars
  <2> QED  BY <2>1, CacheOutsideFlash DEF cacheVars
<1>12. CASE BackendRestarts
  BY <1>12, CacheOutsideFlash DEF BackendRestarts, cacheVars
<1> QED
  BY <1>1, <1>2, <1>3, <1>4, <1>5, <1>6, <1>7, <1>8, <1>9, <1>10, <1>11, <1>12 DEF Next, WriteSteps

(* A cached settings file is what the controller holds, in every state of   *)
(* every history of failures and restarts.                                  *)
THEOREM CacheCorrect == Spec => []CacheTellsTruth
<1>1. CacheInvariant => CacheTellsTruth
  BY DEF CacheInvariant
<1> QED
  BY <1>1, CacheInit, CacheStep, PTL DEF Spec

-----------------------------------------------------------------------------
(* EVerest around the tools *)

LEMMA StopInit == Init => StopInvariant
  BY DEF Init, ServiceInit, StopInvariant

LEMMA StopStutter ==
  ASSUME StopInvariant, UNCHANGED <<stage, unit, job>>
  PROVE  StopInvariant'
  BY DEF StopInvariant

LEMMA StopOutside ==
  ASSUME stage' \notin {"stop", "flash", "dump", "yaml"}
  PROVE  StopInvariant'
  BY DEF StopInvariant

(* systemd starts nothing that is not asked for.                            *)
LEMMA SystemdKeepsStopped ==
  ASSUME StopInvariant, Systemd, UNCHANGED stage
  PROVE  StopInvariant'
  BY DEF StopInvariant, Systemd, BeginStop, ApiGoesDown, FinishStop, NothingToStop, StartInstance,
         ApiComesUp, InstanceExits, Stopped

LEMMA StopStep == StopInvariant /\ [Next]_vars => StopInvariant'
<1> SUFFICES ASSUME StopInvariant, [Next]_vars
             PROVE  StopInvariant'
  OBVIOUS
<1>1. CASE UNCHANGED vars
  BY <1>1, StopStutter DEF vars, everestVars, serviceVars, writeVars
<1>2. CASE EnvironmentStep
  BY <1>2, SystemdKeepsStopped, StopStutter DEF EnvironmentStep, Environment, writeVars, serviceVars
<1>3. CASE DeadlinePasses \/ WatchPoll
  BY <1>3, StopStutter DEF DeadlinePasses, WatchPoll, writeVars, serviceVars
<1>4. CASE ToolSteps
  BY <1>4, StopStutter
  DEF ToolSteps, ToolExecutes, FlashWrites, ToolExits, ProcessStarted, ProcessTimeout,
      everestVars, serviceVars, writeVars
<1>5. CASE BeginSafetyWrite \/ BeginConfigWrite \/ BackendRestarts
  BY <1>5, StopOutside DEF BeginSafetyWrite, BeginConfigWrite, BackendRestarts
<1>6. CASE FinishCreate
  BY <1>6, StopOutside DEF FinishCreate, Fail, Complete, Enter
<1>7. CASE FinishCheck
  <2>1. CASE stage' = "stop"
    <3>1. job' = "stop"
      BY <1>7, <2>1 DEF FinishCheck, Fail, Complete, Enter, RestartWith, AcceptJob, writeVars
    <3> QED
      BY <2>1, <3>1 DEF StopInvariant
  <2>2. CASE stage' # "stop"
    <3>1. stage' \in {"check", "none", "restart"}
      BY <1>7, <2>2 DEF FinishCheck, Fail, Complete, Enter, RestartWith, writeVars
    <3> QED
      BY <3>1, StopOutside
  <2> QED  BY <2>1, <2>2
<1>8. CASE EverestStopped
  <2>1. CASE Enter("flash") /\ UNCHANGED serviceVars
    BY <1>8, <2>1 DEF EverestStopped, ConfirmedStopped, Enter, serviceVars, StopInvariant
  <2>2. CASE stage' \in {"none", "restart"}
    BY <2>2, StopOutside
  <2> QED
    BY <1>8, <2>1, <2>2 DEF EverestStopped, RestartWith, Complete
<1>9. CASE EverestStopTimeout
  BY <1>9, StopOutside DEF EverestStopTimeout, Fail, Complete
<1>10. CASE FinishFlash
  <2>1. CASE stage = "flash" /\ stage' = "dump" /\ UNCHANGED serviceVars
    BY <2>1 DEF serviceVars, StopInvariant
  <2>2. CASE stage' \in {"none", "restart"}
    BY <2>2, StopOutside
  <2> QED
    BY <1>10, <2>1, <2>2 DEF FinishFlash, FlashSucceeds, FlashNeverStarts, FlashFails, RestartWith, Complete
<1>11. CASE FinishRecovery
  <2>1. CASE stage = "dump" /\ stage' = "yaml" /\ UNCHANGED serviceVars
    BY <2>1 DEF serviceVars, StopInvariant
  <2>2. CASE stage' \in {"none", "restart"}
    BY <2>2, StopOutside
  <2> QED
    BY <1>11, <2>1, <2>2 DEF FinishRecovery, RestartWith, Complete, Enter
<1>12. CASE BeginReadiness \/ ContinueReadiness \/ ReadinessFails \/ EverestReady
  <2>1. stage' \in {"none", "restart", "monitor"}
    BY <1>12 DEF BeginReadiness, ContinueReadiness, ReadinessFails, EverestReady, AfterRestart,
                 Fail, Complete, Enter, writeVars
  <2> QED  BY <2>1, StopOutside
<1>13. CASE WatchStep \/ WatchEnds
  <2>1. stage' \in {"none", "monitor"}
    BY <1>13 DEF WatchStep, WatchEnds, Fail, Complete, writeVars
  <2> QED  BY <2>1, StopOutside
<1> QED
  BY <1>1, <1>2, <1>3, <1>4, <1>5, <1>6, <1>7, <1>8, <1>9, <1>10, <1>11, <1>12, <1>13 DEF Next, WriteSteps

(* From the request to stop on, no job of systemd asks for a start.          *)
THEOREM StopInvariantHolds == Spec => []StopInvariant
  BY StopInit, StopStep, PTL DEF Spec

(* The controller is reached only while EVerest is down and nothing is      *)
(* going to start it.                                                       *)
THEOREM StoppedForWrite == Spec => []ToolOnlyWhileStopped
<1>1. StopInvariant => ToolOnlyWhileStopped
  BY DEF StopInvariant, ToolOnlyWhileStopped
<1> QED
  BY <1>1, StopInvariantHolds, PTL

-----------------------------------------------------------------------------
(* The stages *)

LEMMA StageInit == Init => StageInvariant
  BY DEF Init, ClientInit, Reading, StageInvariant, ToolStages

(* What a step can do to the operation and its stage.                       *)
StageMoves == {<<"create", "check">>, <<"check", "stop">>, <<"stop", "flash">>, <<"stop", "restart">>,
               <<"flash", "dump">>, <<"flash", "restart">>, <<"dump", "yaml">>, <<"dump", "restart">>,
               <<"yaml", "restart">>, <<"restart", "monitor">>}

StageStep ==
  \/ UNCHANGED <<operation, stage>>
  \/ operation' = "none" /\ stage' = "none"
  \/ operation = "none" /\ operation' = "safety" /\ stage' = "create"
  \/ operation = "none" /\ operation' = "config" /\ stage' = "check"
  \/ operation = "config" /\ operation' = "config" /\ stage = "check" /\ stage' = "restart"
  \/ operation = "safety" /\ operation' = "safety" /\ <<stage, stage'>> \in StageMoves

LEMMA NextIsStageStep == StageInvariant /\ [Next]_vars => StageStep
<1> SUFFICES ASSUME StageInvariant, [Next]_vars
             PROVE  StageStep
  OBVIOUS
<1>1. CASE UNCHANGED vars \/ EnvironmentStep \/ DeadlinePasses \/ WatchPoll
  BY <1>1 DEF vars, EnvironmentStep, DeadlinePasses, WatchPoll, writeVars, StageStep
<1>2. CASE ToolSteps
  BY <1>2 DEF ToolSteps, ToolExecutes, FlashWrites, ToolExits, ProcessStarted, ProcessTimeout,
              writeVars, StageStep
<1>3. CASE BeginSafetyWrite \/ BeginConfigWrite \/ BackendRestarts
  BY <1>3 DEF BeginSafetyWrite, BeginConfigWrite, BackendRestarts, StageInvariant, StageStep
<1>4. CASE FinishCreate
  BY <1>4 DEF FinishCreate, Fail, Complete, Enter, StageInvariant, StageStep, StageMoves
<1>5. CASE FinishCheck
  BY <1>5 DEF FinishCheck, Fail, Complete, Enter, RestartWith, writeVars, StageStep, StageMoves
<1>6. CASE EverestStopped \/ EverestStopTimeout
  BY <1>6 DEF EverestStopped, EverestStopTimeout, Fail, Complete, Enter, RestartWith, StageInvariant,
              StageStep, StageMoves
<1>7. CASE FinishFlash
  BY <1>7 DEF FinishFlash, FlashSucceeds, FlashNeverStarts, FlashFails, RestartWith, Complete,
              StageInvariant, StageStep, StageMoves
<1>8. CASE FinishRecovery
  BY <1>8 DEF FinishRecovery, RestartWith, Complete, Enter, StageInvariant, StageStep, StageMoves
<1>9. CASE BeginReadiness \/ ContinueReadiness \/ ReadinessFails
  BY <1>9 DEF BeginReadiness, ContinueReadiness, ReadinessFails, AfterRestart, Fail, Complete,
              writeVars, StageStep
<1>10. CASE EverestReady
  <2>1. operation = "safety"
    BY <1>10 DEF EverestReady, RoundSucceeds, ReadIsOver, StageInvariant
  <2> QED
    BY <1>10, <2>1 DEF EverestReady, Fail, Complete, Enter, StageStep, StageMoves
<1>11. CASE WatchStep \/ WatchEnds
  BY <1>11 DEF WatchStep, WatchEnds, Fail, Complete, writeVars, StageStep
<1> QED
  BY <1>1, <1>2, <1>3, <1>4, <1>5, <1>6, <1>7, <1>8, <1>9, <1>10, <1>11 DEF Next, WriteSteps

(* The restart of a configuration write reads nothing.                      *)
LEMMA ReadingKept ==
  ASSUME StageInvariant, [Next]_vars, operation = "config", operation' = "config", stage' = "restart"
  PROVE  ~Reading'
<1>0. stage = "restart" => ~Reading
  BY DEF StageInvariant
<1>1. CASE stage = "restart"
  <2>1. CASE UNCHANGED vars
    BY <1>0, <1>1, <2>1 DEF vars, everestVars, clientVars, requestVars, Reading
  <2>2. CASE EnvironmentStep
    <3>0. ~Reading
      BY <1>0, <1>1
    <3>1. (Systemd /\ UNCHANGED clientVars) \/ Client \/ PeerAnswers
      BY <2>2 DEF EnvironmentStep, Environment
    <3>2. CASE UNCHANGED reading
      BY <3>0, <3>2 DEF Reading
    <3>3. CASE OnConnected \/ EnsureConnected \/ PeerAnswers
      BY <3>2, <3>3 DEF OnConnected, EnsureConnected, PeerAnswers, requestVars
    <3>4. OnDisconnected => UNCHANGED reading
      BY DEF OnDisconnected
    <3>5. RetryOrAbort => UNCHANGED reading
      BY <3>4 DEF RetryOrAbort
    <3>6. BinaryMessageReceived => UNCHANGED reading
      <4>1. HelloResponse \/ IgnoredResponse => UNCHANGED reading
        BY DEF HelloResponse, IgnoredResponse, requestVars
      <4>2. StatusResponse => UNCHANGED reading
        BY DEF StatusResponse
      <4>3. MalformedResponse => UNCHANGED reading
        BY <3>4 DEF MalformedResponse
      <4> QED
        BY <4>1, <4>2, <4>3 DEF BinaryMessageReceived
    <3>7. ~ReadExpires
      BY <3>0 DEF ReadExpires
    <3>8. Systemd /\ UNCHANGED clientVars => UNCHANGED reading
      BY DEF clientVars, requestVars
    <3> QED
      BY <3>1, <3>2, <3>3, <3>4, <3>5, <3>6, <3>7, <3>8 DEF Client, Disconnected, PendingRequestTimeout
  <2>3. CASE DeadlinePasses
    BY <1>0, <1>1, <2>3 DEF DeadlinePasses, DeadlineExpires, Reading
  <2>4. CASE ToolSteps
    BY <1>0, <1>1, <2>4 DEF ToolSteps, ToolExecutes, FlashWrites, ToolExits, ProcessStarted, ProcessTimeout,
                      everestVars, clientVars, requestVars, Reading
  <2>5. ~(WriteSteps \/ WatchPoll \/ BeginSafetyWrite \/ BeginConfigWrite \/ BackendRestarts)
    <3>1. ~(FinishCreate \/ FinishCheck \/ EverestStopped \/ EverestStopTimeout \/ FinishFlash
            \/ FinishRecovery \/ WatchStep \/ WatchEnds \/ WatchPoll \/ BeginSafetyWrite \/ BeginConfigWrite)
      BY <1>1 DEF FinishCreate, FinishCheck, EverestStopped, EverestStopTimeout, FinishFlash,
         FinishRecovery, WatchStep, WatchEnds, WatchPoll, BeginSafetyWrite, BeginConfigWrite
    <3>2. ~BackendRestarts
      BY DEF BackendRestarts
    <3>3. ~BeginReadiness
      BY DEF BeginReadiness, ReadyLast, Complete
    <3>4. ~(ContinueReadiness \/ EverestReady)
      BY <1>0, <1>1 DEF ContinueReadiness, EverestReady, RoundContinues, RoundFails, RoundSucceeds, ReadIsOver
    <3>5. ~ReadinessFails
      BY <1>1 DEF ReadinessFails, AfterRestart, Fail, Complete
    <3> QED
      BY <3>1, <3>2, <3>3, <3>4, <3>5 DEF WriteSteps
  <2> QED
    BY <2>1, <2>2, <2>3, <2>4, <2>5 DEF Next
<1>2. CASE stage # "restart"
  <2>1. CASE FinishCheck
    <3>1. AskNothing
      BY <1>2, <2>1 DEF FinishCheck, Fail, Complete, Enter, writeVars
    <3> QED  BY <3>1 DEF AskNothing, Reading
  <2>2. ~(UNCHANGED vars \/ EnvironmentStep \/ DeadlinePasses \/ ToolSteps \/ WatchPoll)
    BY <1>2 DEF vars, EnvironmentStep, DeadlinePasses, ToolSteps, ToolExecutes, FlashWrites, ToolExits,
       ProcessStarted, ProcessTimeout, WatchPoll, writeVars
  <2>3. ~(BeginSafetyWrite \/ BeginConfigWrite \/ BackendRestarts)
    BY DEF BeginSafetyWrite, BeginConfigWrite, BackendRestarts
  <2>4. ~(FinishCreate \/ EverestStopTimeout)
    BY DEF FinishCreate, EverestStopTimeout, Fail, Complete, Enter
  <2>5. ~(BeginReadiness \/ ContinueReadiness \/ ReadinessFails \/ EverestReady)
    BY <1>2 DEF BeginReadiness, ContinueReadiness, ReadinessFails, EverestReady
  <2>6. ~(WatchStep \/ WatchEnds)
    BY DEF WatchStep, WatchEnds, Fail, Complete, writeVars
  <2>7. ~(EverestStopped \/ FinishFlash \/ FinishRecovery)
    BY DEF EverestStopped, FinishFlash, FinishRecovery, StageInvariant
  <2> QED
    BY <2>1, <2>2, <2>3, <2>4, <2>5, <2>6, <2>7 DEF Next, WriteSteps
<1> QED
  BY <1>1, <1>2

LEMMA StageStepKeepsStages == StageInvariant /\ [Next]_vars => StageInvariant'
<1> SUFFICES ASSUME StageInvariant, [Next]_vars
             PROVE  StageInvariant'
  OBVIOUS
<1>1. StageStep
  BY NextIsStageStep
<1>2. /\ operation' \in {"none", "safety", "config"}
      /\ stage' \in ToolStages \union {"none", "check", "stop", "restart", "monitor"}
      /\ operation' = "none" <=> stage' = "none"
      /\ stage' \in {"create", "stop", "flash", "dump", "yaml", "monitor"} => operation' = "safety"
  BY <1>1 DEF StageStep, StageMoves, StageInvariant, ToolStages
<1>3. operation' = "config" /\ stage' = "restart" => operation = "config"
  BY <1>1 DEF StageStep, StageMoves
<1> QED
  BY <1>2, <1>3, ReadingKept DEF StageInvariant

(* Which of the two kinds of write has which stages.                        *)
THEOREM StageInvariantHolds == Spec => []StageInvariant
  BY StageInit, StageStepKeepsStages, PTL DEF Spec

LEMMA StagesInit == Init => Stages!SafetyInit
  BY DEF Init, Stages!SafetyInit, AbstractStage, AbstractId, AbstractEverest

(* What SafetyWrite is told of EVerest follows from the stage: the unit is  *)
(* stopped as long as there are tools.                                      *)
LEMMA StagesStep ==
  ASSUME StageInvariant, StageInvariant', StopInvariant, StopInvariant', [Next]_vars
  PROVE  [Stages!SafetyNext]_<<Stages!safetyVars, AbstractEverest>>
<1> DEFINE told(stg) == IF stg \in {"flash", "recover", "restart"} THEN "inactive" ELSE "active"
<1>1. AbstractEverest = told(AbstractStage) /\ AbstractEverest' = told(AbstractStage')
  <2>1. AbstractStage \in {"flash", "recover"} => stage \in {"flash", "dump", "yaml"}
    BY DEF AbstractStage, StageInvariant, ToolStages
  <2>2. AbstractStage' \in {"flash", "recover"} => stage' \in {"flash", "dump", "yaml"}
    BY DEF AbstractStage, StageInvariant, ToolStages
  <2>3. AbstractEverest = told(AbstractStage)
    BY <2>1 DEF StopInvariant, AbstractEverest
  <2>4. AbstractEverest' = told(AbstractStage')
    BY <2>2 DEF StopInvariant, AbstractEverest
  <2> QED
    BY <2>3, <2>4
<1>2. StageStep
  BY NextIsStageStep
<1>3. CASE UNCHANGED <<operation, stage>>
  BY <1>1, <1>3 DEF AbstractStage, AbstractId, Stages!safetyVars
<1>4. CASE operation' = "none" /\ stage' = "none"
  <2>1. AbstractStage' = "none" /\ AbstractId' = 0 /\ AbstractEverest' = "active"
    BY <1>1, <1>4 DEF AbstractStage, AbstractId
  <2>2. Stages!AbandonSafetyWrite
    BY <2>1 DEF Stages!AbandonSafetyWrite
  <2> QED
    BY <2>2 DEF Stages!SafetyNext
<1>5. CASE operation = "none" /\ operation' = "safety" /\ stage' = "create"
  <2>1. AbstractStage = "none" /\ AbstractStage' = "create" /\ AbstractId' = 1
    BY <1>5 DEF AbstractStage, AbstractId
  <2>2. AbstractEverest' = AbstractEverest
    BY <1>1, <2>1
  <2>3. Stages!StartSafetyWrite(1)
    BY <2>1, <2>2 DEF Stages!StartSafetyWrite
  <2> QED
    BY <2>1, <2>3 DEF Stages!SafetyNext
<1>6. CASE operation \in {"none", "config"} /\ operation' = "config"
  <2>1. AbstractStage = "none" /\ AbstractStage' = "none" /\ AbstractId = 0 /\ AbstractId' = 0
    BY <1>6 DEF AbstractStage, AbstractId
  <2> QED
    BY <1>1, <2>1 DEF Stages!safetyVars
<1>7. CASE operation = "safety" /\ operation' = "safety" /\ <<stage, stage'>> \in StageMoves
  <2>1. AbstractId' = AbstractId
    BY <1>7 DEF AbstractId
  <2>2. CASE <<AbstractStage, AbstractStage'>> \in
               {<<"recover", "recover">>, <<"restart", "restart">>}
    BY <1>1, <2>1, <2>2 DEF Stages!safetyVars
  <2>3. CASE <<AbstractStage, AbstractStage'>> \in
               {<<"create", "check">>, <<"check", "stop">>, <<"stop", "flash">>, <<"stop", "restart">>,
                <<"flash", "recover">>, <<"flash", "restart">>, <<"recover", "restart">>}
    <3>1. AbstractEverest' \in {"inactive", AbstractEverest}
      BY <1>1, <2>3
    <3>2. Stages!AdvanceSafetyWrite
      BY <1>1, <2>1, <2>3 DEF Stages!AdvanceSafetyWrite, Stages!EverestAfterStop
    <3> QED
      BY <3>2 DEF Stages!SafetyNext
  <2> QED
    BY <1>7, <2>2, <2>3 DEF StageMoves, AbstractStage
<1> QED
  BY <1>2, <1>3, <1>4, <1>5, <1>6, <1>7 DEF StageStep

(* A write implements the stages the control path is modelled with.         *)
THEOREM WriteImplementsStages == Spec => ImplementsStages
<1> QED
  BY StageInvariantHolds, StopInvariantHolds, StagesInit, StagesStep, PTL
  DEF Spec, ImplementsStages, Stages!SafetySpec

-----------------------------------------------------------------------------
(* What a response says of the controller and of its cache *)

LEMMA FilesInit == Init => FilesInvariant
  BY DEF Init, FilesInvariant, FilesReported, NoReply

LEMMA FilesStutter ==
  ASSUME FilesInvariant, UNCHANGED <<writeVars, tool, controller, cache, backup>>
  PROVE  FilesInvariant'
  BY DEF FilesInvariant, FilesReported, FlashFailed, Reply, writeVars

(* The last step of a write, and one that only reports an error.            *)
LEMMA FilesAtTheEnd ==
  ASSUME NEW reply, Complete(reply),
         reply.cacheState = "unchanged" => controller' = base /\ cache' = base,
         reply.cacheState = "refreshed" => cache' = controller',
         reply.cacheState = "unavailable" => cache' = NoDocument,
         reply.error = "yaml_publish_failed_after_flash" => controller' = writes,
         reply.error # "none" => ~reply.success,
         reply.of = "safety" /\ reply.success => controller' = writes /\ cache' = writes
  PROVE  FilesInvariant'
  BY DEF Complete, FilesInvariant, FilesReported

LEMMA FilesAtFailure ==
  ASSUME FilesInvariant, NEW error, Fail(error), error # "yaml_publish_failed_after_flash", error # "none",
         UNCHANGED <<controller, cache>>
  PROVE  FilesInvariant'
<1> DEFINE reply == Reply(FALSE, error, response.cacheState)
<1>1. reply.cacheState = response.cacheState /\ reply.error = error /\ reply.success = FALSE
  BY DEF Reply
<1>2. Complete(reply)
  BY DEF Fail
<1> HIDE DEF reply
<1> QED
  BY <1>1, <1>2, FilesAtTheEnd DEF FilesInvariant, FilesReported

(* The restart is asked for with what the write will have to say.           *)
LEMMA FilesAtRestart ==
  ASSUME StageInvariant, NEW outcome, RestartWith(outcome), operation = "safety", ~outcome.success,
         outcome.cacheState = "unchanged" => controller' = base /\ cache' = base,
         outcome.cacheState = "refreshed" => cache' = controller',
         outcome.cacheState = "unavailable" => cache' = NoDocument,
         outcome.error = "yaml_publish_failed_after_flash" => controller' = writes,
         outcome.error = "none" => controller' = writes /\ cache' = writes
  PROVE  FilesInvariant'
<1>1. CASE stage' = "restart" /\ response' = outcome /\ UNCHANGED <<operation, writes, base>>
  BY <1>1 DEF FilesInvariant, FilesReported
<1>2. CASE Complete(IF outcome.error # "none" THEN outcome
                    ELSE Reply(FALSE, "everest_restart_failed", "none"))
  <2>1. CASE outcome.error # "none"
    BY <1>2, <2>1, FilesAtTheEnd
  <2>2. CASE outcome.error = "none"
    <3> DEFINE reply == Reply(FALSE, "everest_restart_failed", "none")
    <3>1. reply.cacheState = "none" /\ reply.error = "everest_restart_failed" /\ reply.success = FALSE
      BY DEF Reply
    <3>2. Complete(reply)
      BY <1>2, <2>2
    <3> HIDE DEF reply
    <3> QED
      BY <3>1, <3>2, FilesAtTheEnd
  <2> QED
    BY <2>1, <2>2
<1> QED
  BY <1>1, <1>2 DEF RestartWith

(* The conversion and the check leave everything where it was.              *)
LEMMA FilesBeforeStop ==
  ASSUME FilesInvariant, StageInvariant, FinishCreate \/ FinishCheck
  PROVE  FilesInvariant'
<1>1. stage \in {"create", "check"} /\ UNCHANGED <<controller, cache, backup>> /\ response = NoReply
  BY DEF FinishCreate, FinishCheck, cacheVars, FilesInvariant
<1>2. CASE UNCHANGED writeVars
  BY <1>1, <1>2 DEF FilesInvariant, FilesReported, writeVars
<1>3. CASE Enter("check") /\ stage = "create"
  BY <1>1, <1>3 DEF FilesInvariant, FilesReported, Enter
<1>4. CASE Enter("stop")
  BY <1>1, <1>4 DEF FilesInvariant, FilesReported, Enter
<1>5. CASE Fail("pb_create_failed") \/ Fail("rpc_api_not_connected") \/ Fail("everest_state_not_allowed")
           \/ Fail("everest_stop_failed")
  BY <1>1, <1>5, FilesAtFailure
<1>6. CASE RestartWith(NoReply) /\ operation = "config"
  <2>1. CASE stage' = "restart" /\ response' = NoReply /\ operation' = "config" /\ UNCHANGED <<writes, base>>
    BY <2>1 DEF FilesInvariant, FilesReported, NoReply
  <2>2. CASE Complete(Reply(FALSE, "everest_restart_failed", "none"))
    <3> DEFINE reply == Reply(FALSE, "everest_restart_failed", "none")
    <3>1. reply.cacheState = "none" /\ reply.error = "everest_restart_failed" /\ reply.success = FALSE
      BY DEF Reply
    <3>2. Complete(reply)
      BY <2>2
    <3> HIDE DEF reply
    <3> QED
      BY <3>1, <3>2, FilesAtTheEnd
  <2> QED
    BY <1>6, <2>1, <2>2 DEF RestartWith, NoReply
<1>7. CASE FinishCreate
  BY <1>3, <1>5, <1>7 DEF FinishCreate
<1>8. CASE FinishCheck
  BY <1>2, <1>4, <1>5, <1>6, <1>8 DEF FinishCheck
<1> QED
  BY <1>7, <1>8

(* The backup set aside for the flash is what the controller held.          *)
LEMMA FilesAroundStop ==
  ASSUME FilesInvariant, StageInvariant, EverestStopped \/ EverestStopTimeout
  PROVE  FilesInvariant'
<1>1. /\ stage = "stop" /\ operation = "safety" /\ response = NoReply
      /\ controller = base /\ cache = base /\ UNCHANGED controller
  BY DEF EverestStopped, EverestStopTimeout, cacheVars, FilesInvariant, StageInvariant
<1>2. CASE CacheInvalidated /\ StartProcess /\ Enter("flash")
  BY <1>1, <1>2 DEF CacheInvalidated, StartProcess, Enter, FilesInvariant, FilesReported, NoReply
<1>3. CASE CacheNotInvalidated /\ RestartWith(Reply(FALSE, "cache_invalidation_failed", "unchanged"))
  <2> DEFINE reply == Reply(FALSE, "cache_invalidation_failed", "unchanged")
  <2>1. reply.cacheState = "unchanged" /\ reply.error = "cache_invalidation_failed" /\ reply.success = FALSE
    BY DEF Reply
  <2>2. RestartWith(reply) /\ cache' = cache
    BY <1>3 DEF CacheNotInvalidated
  <2> HIDE DEF reply
  <2> QED
    BY <1>1, <2>1, <2>2, FilesAtRestart
<1>4. CASE EverestStopTimeout
  BY <1>4, FilesAtFailure DEF EverestStopTimeout, cacheVars
<1> QED
  BY <1>2, <1>3, <1>4 DEF EverestStopped

LEMMA FlashReply ==
  ASSUME NEW state
  PROVE  /\ FlashFailed(state).cacheState = state /\ FlashFailed(state).error = "flash_failed"
         /\ ~FlashFailed(state).success
  BY DEF FlashFailed, Reply

LEMMA FilesAfterFlash ==
  ASSUME FilesInvariant, CacheInvariant, StageInvariant, FinishFlash
  PROVE  FilesInvariant'
<1>1. /\ stage = "flash" /\ operation = "safety" /\ ToolDone /\ UNCHANGED controller
      /\ cache = NoDocument /\ backup = base /\ (tool = "forked" => controller = base)
  BY DEF FinishFlash, CacheInvariant, FilesInvariant, StageInvariant
<1>2. CASE FlashSucceeds
  <2>1. controller' = writes
    BY <1>1, <1>2 DEF FlashSucceeds, Succeeded, Finished, CacheInvariant
  <2>2. CASE Publish(writes) /\ RestartWith(NoReply)
    <3>1. NoReply.cacheState = "none" /\ NoReply.error = "none" /\ ~NoReply.success /\ cache' = writes
      BY <2>2 DEF NoReply, Publish
    <3> QED
      BY <1>1, <2>1, <2>2, <3>1, FilesAtRestart
  <2>3. CASE UNCHANGED cache /\ RestartWith(Reply(FALSE, "yaml_publish_failed_after_flash", "unavailable"))
    <3> DEFINE reply == Reply(FALSE, "yaml_publish_failed_after_flash", "unavailable")
    <3>1. /\ reply.cacheState = "unavailable" /\ reply.error = "yaml_publish_failed_after_flash"
          /\ reply.success = FALSE
      BY DEF Reply
    <3>2. RestartWith(reply)
      BY <2>3
    <3> HIDE DEF reply
    <3> QED
      BY <1>1, <2>1, <2>3, <3>1, <3>2, FilesAtRestart
  <2> QED
    BY <1>2, <2>2, <2>3 DEF FlashSucceeds
<1>3. CASE FlashNeverStarts
  <2>1. controller = base
    BY <1>1, <1>3 DEF FlashNeverStarts, NeverStarted, ToolDone, FailedToStart, Finished
  <2>2. CASE cache' = backup /\ RestartWith(FlashFailed("unchanged"))
    BY <1>1, <2>1, <2>2, FlashReply, FilesAtRestart
  <2>3. CASE UNCHANGED cache /\ RestartWith(FlashFailed("unavailable"))
    BY <1>1, <2>3, FlashReply, FilesAtRestart
  <2> QED
    BY <1>3, <2>2, <2>3 DEF FlashNeverStarts
<1>4. CASE FlashFails
  <2>1. CASE /\ stage' = "dump" /\ response' = FlashFailed("unavailable")
             /\ UNCHANGED <<operation, writes, base, cache, backup>>
    <3>1. operation' = "safety" /\ FlashFailed("unavailable")' = FlashFailed("unavailable")
      BY <1>1, <2>1 DEF FlashFailed, Reply
    <3> QED
      BY <1>1, <2>1, <3>1, FlashReply DEF FilesInvariant, FilesReported
  <2>2. CASE UNCHANGED cache /\ RestartWith(FlashFailed("unavailable"))
    BY <1>1, <2>2, FlashReply, FilesAtRestart
  <2> QED
    BY <1>4, <2>1, <2>2 DEF FlashFails
<1> QED
  BY <1>2, <1>3, <1>4 DEF FinishFlash

LEMMA FilesAfterRecovery ==
  ASSUME FilesInvariant, StageInvariant, FinishRecovery
  PROVE  FilesInvariant'
<1>1. /\ stage \in {"dump", "yaml"} /\ operation = "safety" /\ UNCHANGED controller
      /\ response = FlashFailed("unavailable") /\ cache = NoDocument
  BY FlashReply DEF FinishRecovery, FilesInvariant, FilesReported, StageInvariant
<1>2. CASE RestartWith(response) /\ UNCHANGED cache
  BY <1>1, <1>2, FlashReply, FilesAtRestart
<1>3. CASE Enter("yaml") /\ UNCHANGED <<cache, backup>>
  <2>1. FlashFailed("unavailable")' = FlashFailed("unavailable")
    BY <1>3 DEF FlashFailed, Reply, Enter
  <2> QED
    BY <1>1, <1>3, <2>1, FlashReply DEF FilesInvariant, FilesReported, Enter
<1>4. CASE Publish(controller) /\ RestartWith(FlashFailed("refreshed"))
  BY <1>1, <1>4, FlashReply, FilesAtRestart DEF Publish
<1> QED
  BY <1>2, <1>3, <1>4 DEF FinishRecovery

LEMMA FilesAfterReadiness ==
  ASSUME FilesInvariant, StageInvariant,
         BeginReadiness \/ ContinueReadiness \/ ReadinessFails \/ EverestReady \/ WatchStep \/ WatchEnds
  PROVE  FilesInvariant'
<1>1. UNCHANGED <<tool, controller, cache, backup>> /\ stage \in {"restart", "monitor"}
  BY DEF BeginReadiness, ContinueReadiness, ReadinessFails, EverestReady, WatchStep, WatchEnds, toolVars, cacheVars
<1>2. CASE UNCHANGED writeVars
  BY <1>1, <1>2, FilesStutter
<1>3. CASE Complete(Reply(TRUE, "none", "none")) /\ (operation = "safety" => stage = "monitor")
  <2> DEFINE reply == Reply(TRUE, "none", "none")
  <2>1. reply.cacheState = "none" /\ reply.error = "none" /\ reply.of = operation
    BY DEF Reply
  <2>2. Complete(reply)
    BY <1>3
  <2>3. operation = "safety" => controller = writes /\ cache = writes
    BY <1>3 DEF FilesInvariant
  <2> HIDE DEF reply
  <2> QED
    BY <1>1, <2>1, <2>2, <2>3, FilesAtTheEnd
<1>4. CASE Complete(response) /\ response.error # "none"
  BY <1>1, <1>4, FilesAtTheEnd DEF FilesInvariant, FilesReported
<1>5. CASE Fail("rpc_api_not_ready") \/ Fail("everest_error_after_restart") \/ Fail("rpc_api_refused")
           \/ Fail("rpc_api_no_response")
  BY <1>1, <1>5, FilesAtFailure
<1>6. CASE Enter("monitor") /\ stage = "restart" /\ operation = "safety" /\ response.error = "none"
  BY <1>1, <1>6 DEF Enter, FilesInvariant, FilesReported
<1>7. CASE BeginReadiness
  <2>1. ReadyLast = 0 => operation # "safety"
    BY BoundsAssumption DEF ReadyLast
  <2> QED
    BY <1>2, <1>3, <1>7, <2>1 DEF BeginReadiness
<1>8. CASE ContinueReadiness
  BY <1>2, <1>8 DEF ContinueReadiness
<1>9. CASE ReadinessFails
  BY <1>4, <1>5, <1>9 DEF ReadinessFails, AfterRestart
<1>10. CASE EverestReady
  <2>1. stage = "restart" /\ operation = "safety"
    BY <1>10 DEF EverestReady, RoundSucceeds, ReadIsOver, StageInvariant
  <2> QED
    BY <1>4, <1>5, <1>6, <1>10, <2>1 DEF EverestReady
<1>11. CASE WatchStep
  BY <1>2, <1>5, <1>11 DEF WatchStep
<1>12. CASE WatchEnds
  <2>1. stage = "monitor"
    BY <1>12 DEF WatchEnds
  <2> QED
    BY <1>3, <1>5, <1>12, <2>1 DEF WatchEnds
<1> QED
  BY <1>7, <1>8, <1>9, <1>10, <1>11, <1>12

LEMMA FilesStep ==
  FilesInvariant /\ CacheInvariant /\ StageInvariant /\ [Next]_vars => FilesInvariant'
<1> SUFFICES ASSUME FilesInvariant, CacheInvariant, StageInvariant, [Next]_vars
             PROVE  FilesInvariant'
  OBVIOUS
<1>1. CASE UNCHANGED vars \/ EnvironmentStep \/ DeadlinePasses \/ WatchPoll
  BY <1>1, FilesStutter
  DEF vars, EnvironmentStep, DeadlinePasses, WatchPoll, writeVars, toolVars, cacheVars
<1>2. CASE ToolSteps
  <2>1. UNCHANGED writeVars /\ UNCHANGED <<cache, backup>> /\ tool' \in {tool, "running", "exited"}
        /\ (controller' # controller => tool = "running" /\ stage = "flash" /\ tool' = tool)
    BY <1>2 DEF ToolSteps, ToolExecutes, FlashWrites, ToolExits, ProcessStarted, ProcessTimeout,
                toolVars, cacheVars
  <2>2. CASE controller' = controller
    BY <2>1, <2>2 DEF FilesInvariant, FilesReported, FlashFailed, Reply, writeVars
  <2>3. CASE tool = "running" /\ stage = "flash" /\ tool' = tool
    <3>1. response = NoReply /\ response' = NoReply /\ NoReply.cacheState = "none" /\ NoReply.error = "none"
          /\ ~NoReply.success
      BY <2>1, <2>3 DEF FilesInvariant, writeVars, NoReply
    <3> QED
      BY <2>1, <2>3, <3>1 DEF FilesInvariant, FilesReported, writeVars
  <2> QED
    BY <2>1, <2>2, <2>3
<1>3. CASE BeginSafetyWrite
  <2>1. cache = controller
    BY <1>3 DEF BeginSafetyWrite, CacheInvariant, CacheTellsTruth
  <2> QED
    BY <1>3, <2>1 DEF BeginSafetyWrite, cacheVars, FilesInvariant, FilesReported, NoReply
<1>4. CASE BeginConfigWrite \/ BackendRestarts
  BY <1>4 DEF BeginConfigWrite, BackendRestarts, cacheVars, FilesInvariant, FilesReported, NoReply
<1>5. CASE WriteSteps
  BY <1>5, FilesBeforeStop, FilesAroundStop, FilesAfterFlash, FilesAfterRecovery, FilesAfterReadiness
  DEF WriteSteps
<1> QED
  BY <1>1, <1>2, <1>3, <1>4, <1>5 DEF Next

(* The cache and what is said of the files fit at every moment of a write.  *)
THEOREM FilesInvariantHolds == Spec => [](CacheInvariant /\ FilesInvariant)
  BY CacheInit, CacheStep, FilesInit, FilesStep, StageInvariantHolds, PTL DEF Spec

-----------------------------------------------------------------------------
(* Types *)

Messages == [id : {"hello", "current", "stale"}, answer : Answers]

LEMMA NullTypes ==
  /\ NoReading \in [evse : Nat, generation : Nat, expired : BOOLEAN]
  /\ NoRequest \in [attempts : 0..2, generation : Nat]
  /\ NoResponse \in Statuses \union {NoResponse}
  /\ NoRound \in [generation : Nat, responsive : BOOLEAN]
  /\ NoAnswers \in [Evses -> 0..MaxInstances]
  BY BoundsAssumption DEF NoReading, NoRequest, NoRound, NoAnswers

(* The client's state in four parts.                                        *)
LinkTypes ==
  /\ link \in {"closed", "connecting", "open", "closing"}
  /\ peer \in 0..MaxInstances
  /\ handshakeGeneration \in Nat /\ disconnectionGeneration \in Nat
  /\ connections \in 1..MaxConnections

FlagTypes == handshakeComplete \in BOOLEAN /\ reconnectTimer \in BOOLEAN

ChannelTypes ==
  /\ asked \in Seq({"hello", "current", "stale"})
  /\ arriving \in Seq(Messages)

RequestTypes ==
  /\ pending \in [attempts : 0..2, generation : Nat]
  /\ lastResponse \in Statuses \union {NoResponse}
  /\ reading \in [evse : Nat, generation : Nat, expired : BOOLEAN]

ClientTypes == LinkTypes /\ FlagTypes /\ ChannelTypes /\ RequestTypes

LEMMA ClientTypesMeanTypeOK == ClientTypes => ClientTypeOK
  BY DEF ClientTypes, LinkTypes, FlagTypes, ChannelTypes, RequestTypes, ClientTypeOK, Messages

LEMMA TypesInit == Init => ServiceTypeOK /\ ClientTypes /\ ControlTypeOK
<1> SUFFICES ASSUME Init
             PROVE  ServiceTypeOK /\ ClientTypes /\ ControlTypeOK
  OBVIOUS
<1>1. ServiceTypeOK
  BY BoundsAssumption DEF Init, ServiceInit, ServiceTypeOK
<1>2. LinkTypes
  BY BoundsAssumption DEF Init, ClientInit, LinkTypes
<1>3. ChannelTypes
  BY DEF Init, ClientInit, ChannelTypes
<1>4. RequestTypes
  BY NullTypes DEF Init, ClientInit, RequestTypes
<1>5. ControlTypeOK
  <2>1. before \in [handshake : Nat, disconnection : Nat, require : BOOLEAN, instance : Nat]
    BY DEF Init, ControlInit
  <2>2. round \in [generation : Nat, responsive : BOOLEAN] /\ answers \in [Evses -> 0..MaxInstances]
    BY NullTypes DEF Init, ControlInit
  <2>3. deadline \in BOOLEAN /\ errorPresent \in BOOLEAN /\ unresolved \subseteq Evses
    BY DEF Init, ControlInit
  <2> QED
    BY <2>1, <2>2, <2>3 DEF ControlTypeOK
<1>6. FlagTypes
  BY DEF Init, ClientInit, FlagTypes
<1> QED
  BY <1>1, <1>2, <1>3, <1>4, <1>5, <1>6 DEF ClientTypes

LEMMA SystemdTypes ==
  ASSUME ServiceTypeOK, Systemd
  PROVE  ServiceTypeOK'
<1>1. CASE StartInstance
  BY <1>1, BoundsAssumption DEF ServiceTypeOK, StartInstance
<1>2. CASE BeginStop \/ ApiGoesDown \/ FinishStop \/ NothingToStop \/ ApiComesUp \/ InstanceExits
  BY <1>2 DEF ServiceTypeOK, BeginStop, ApiGoesDown, FinishStop, NothingToStop, ApiComesUp, InstanceExits
<1> QED
  BY <1>1, <1>2 DEF Systemd

LEMMA OutdatedType ==
  ASSUME NEW m \in Messages
  PROVE  [m EXCEPT !.id = Outdated(@)] \in Messages
<1>1. Outdated(m.id) \in {"hello", "current", "stale"} /\ m.answer \in Answers
  BY DEF Outdated, Messages
<1>2. [m EXCEPT !.id = Outdated(@)] = [id |-> Outdated(m.id), answer |-> m.answer]
  BY DEF Messages
<1> QED
  BY <1>1, <1>2 DEF Messages

LEMMA AskTypes ==
  ASSUME ClientTypes, NEW evse \in Nat, Ask(evse)
  PROVE  ClientTypes'
<1>1. asked' \in Seq({"hello", "current", "stale"})
  <2> DEFINE outdated == [i \in DOMAIN asked |-> Outdated(asked[i])]
  <2>1. outdated \in Seq({"hello", "current", "stale"})
    BY DEF ClientTypes, ChannelTypes, Outdated
  <2>2. asked' = Append(outdated, "current")
    BY DEF Ask
  <2> HIDE DEF outdated
  <2> QED
    BY <2>1, <2>2
<1>2. arriving' \in Seq(Messages)
  <2>1. /\ arriving \in Seq(Messages)
        /\ arriving' = [i \in DOMAIN arriving |-> [arriving[i] EXCEPT !.id = Outdated(@)]]
    BY DEF ClientTypes, ChannelTypes, Ask
  <2>2. DOMAIN arriving = 1..Len(arriving) /\ Len(arriving) \in Nat /\ \A i \in DOMAIN arriving : arriving[i] \in Messages
    BY <2>1
  <2>3. \A i \in DOMAIN arriving : [arriving[i] EXCEPT !.id = Outdated(@)] \in Messages
    BY <2>2, OutdatedType
  <2> QED
    BY <2>1, <2>2, <2>3
<1>3. RequestTypes'
  BY NullTypes DEF Ask, ClientTypes, LinkTypes, RequestTypes
<1>4. LinkTypes' /\ FlagTypes'
  BY DEF Ask, ClientTypes, LinkTypes, FlagTypes, handshakeVars
<1> QED
  BY <1>1, <1>2, <1>3, <1>4 DEF ClientTypes, ChannelTypes

LEMMA AskNothingTypes ==
  ASSUME ClientTypes, AskNothing
  PROVE  ClientTypes'
<1>1. LinkTypes' /\ FlagTypes' /\ ChannelTypes'
  BY DEF AskNothing, ClientTypes, LinkTypes, FlagTypes, ChannelTypes, linkVars, handshakeVars
<1>2. RequestTypes'
  BY NullTypes DEF AskNothing, ClientTypes, RequestTypes
<1> QED
  BY <1>1, <1>2 DEF ClientTypes

LEMMA DisconnectedTypes ==
  ASSUME ClientTypes, OnDisconnected
  PROVE  ClientTypes'
<1>1. LinkTypes'
  BY BoundsAssumption DEF OnDisconnected, ClientTypes, LinkTypes
<1>2. ChannelTypes'
  BY DEF OnDisconnected, ChannelTypes
<1>3. RequestTypes'
  BY NullTypes DEF OnDisconnected, ClientTypes, RequestTypes
<1>4. FlagTypes'
  BY DEF OnDisconnected, FlagTypes
<1> QED
  BY <1>1, <1>2, <1>3, <1>4 DEF ClientTypes

(* The request goes out again.                                              *)
LEMMA ResendTypes ==
  ASSUME ClientTypes, CanResend
  PROVE  /\ [pending EXCEPT !.attempts = @ + 1] \in [attempts : 0..2, generation : Nat]
         /\ Append(asked, "current") \in Seq({"hello", "current", "stale"})
<1>1. pending.attempts \in 0..1 /\ pending.generation \in Nat
  BY DEF ClientTypes, RequestTypes, CanResend
<1>2. [pending EXCEPT !.attempts = @ + 1] = [attempts |-> pending.attempts + 1, generation |-> pending.generation]
  BY DEF ClientTypes, RequestTypes
<1>3. Append(asked, "current") \in Seq({"hello", "current", "stale"})
  BY DEF ClientTypes, ChannelTypes
<1> QED
  BY <1>1, <1>2, <1>3

LEMMA ReceiveTypes ==
  ASSUME ClientTypes, BinaryMessageReceived
  PROVE  ClientTypes'
<1>1. arriving \in Seq(Messages) /\ arriving # <<>> /\ Tail(arriving) \in Seq(Messages)
  BY DEF BinaryMessageReceived, ClientTypes, ChannelTypes
<1>2. CASE OnDisconnected
  BY <1>2, DisconnectedTypes
<1>3. CASE ~OnDisconnected
  <2>1. Received
    BY <1>3 DEF BinaryMessageReceived, HelloResponse, StatusResponse, IgnoredResponse, MalformedResponse
  <2>2. ChannelTypes'
    <3>1. asked' \in {asked, Append(asked, "current")}
      BY <1>3 DEF BinaryMessageReceived, HelloResponse, StatusResponse, IgnoredResponse, MalformedResponse
    <3> QED
      BY <1>1, <2>1, <3>1 DEF Received, ClientTypes, ChannelTypes
  <2>3. LinkTypes' /\ FlagTypes'
    <3>1. CASE HelloResponse
      <4>1. LinkTypes'
        <5>1. /\ link' \in {link, "closing"} /\ handshakeGeneration' \in {handshakeGeneration, handshakeGeneration + 1}
              /\ UNCHANGED <<peer, connections, disconnectionGeneration>>
          BY <3>1 DEF HelloResponse
        <5> QED
          BY <5>1 DEF ClientTypes, LinkTypes
      <4>2. FlagTypes'
        BY <3>1 DEF HelloResponse, ClientTypes, FlagTypes
      <4> QED
        BY <4>1, <4>2
    <3>2. CASE StatusResponse \/ IgnoredResponse \/ MalformedResponse
      BY <1>3, <3>2 DEF StatusResponse, IgnoredResponse, MalformedResponse, handshakeVars, ClientTypes, LinkTypes, FlagTypes
    <3> QED
      BY <3>1, <3>2 DEF BinaryMessageReceived
  <2>4. RequestTypes'
    <3>1. CASE HelloResponse \/ IgnoredResponse
      BY <3>1 DEF HelloResponse, IgnoredResponse, requestVars, ClientTypes, RequestTypes
    <3>2. CASE StatusResponse
      BY <3>2, NullTypes DEF StatusResponse, ClientTypes, RequestTypes
    <3>3. CASE MalformedResponse
      <4>1. CanResend /\ UNCHANGED <<lastResponse, reading>> /\ pending' = [pending EXCEPT !.attempts = @ + 1]
        BY <1>3, <3>3 DEF MalformedResponse
      <4> QED
        BY <4>1, ResendTypes DEF ClientTypes, RequestTypes
    <3> QED
      BY <3>1, <3>2, <3>3 DEF BinaryMessageReceived
  <2> QED
    BY <2>2, <2>3, <2>4 DEF ClientTypes
<1> QED
  BY <1>2, <1>3

LEMMA AppendMessage ==
  ASSUME NEW messages \in Seq(Messages), NEW message \in Messages
  PROVE  Append(messages, message) \in Seq(Messages)
  OBVIOUS

LEMMA ClientStepTypes ==
  ASSUME ClientTypes, ServiceTypeOK, Client \/ PeerAnswers
  PROVE  ClientTypes'
<1>1. CASE OnConnected
  <2>1. LinkTypes'
    BY <1>1, BoundsAssumption DEF OnConnected, ServiceTypeOK, ClientTypes, LinkTypes
  <2>4. FlagTypes'
    BY <1>1 DEF OnConnected, ClientTypes, FlagTypes
  <2>2. ChannelTypes'
    BY <1>1 DEF OnConnected, ChannelTypes
  <2>3. RequestTypes'
    BY <1>1 DEF OnConnected, requestVars, ClientTypes, RequestTypes
  <2> QED
    BY <2>1, <2>2, <2>3, <2>4 DEF ClientTypes
<1>2. CASE OnDisconnected
  BY <1>2, DisconnectedTypes
<1>3. CASE EnsureConnected
  <2>1. LinkTypes'
    BY <1>3, BoundsAssumption DEF EnsureConnected, handshakeVars, ClientTypes, LinkTypes
  <2>2. ChannelTypes' /\ RequestTypes'
    BY <1>3 DEF EnsureConnected, requestVars, ClientTypes, ChannelTypes, RequestTypes
  <2>3. FlagTypes'
    BY <1>3 DEF EnsureConnected, handshakeVars, ClientTypes, FlagTypes
  <2> QED
    BY <2>1, <2>2, <2>3 DEF ClientTypes
<1>4. CASE BinaryMessageReceived
  BY <1>4, ReceiveTypes
<1>5. CASE ReadExpires
  <2>1. LinkTypes' /\ FlagTypes' /\ ChannelTypes'
    BY <1>5 DEF ReadExpires, linkVars, handshakeVars, ClientTypes, LinkTypes, FlagTypes, ChannelTypes
  <2>2. RequestTypes'
    BY <1>5 DEF ReadExpires, ClientTypes, RequestTypes
  <2> QED
    BY <2>1, <2>2 DEF ClientTypes
<1>6. CASE PendingRequestTimeout /\ ~OnDisconnected
  <2>1. /\ CanResend /\ pending' = [pending EXCEPT !.attempts = @ + 1] /\ asked' = Append(asked, "current")
        /\ UNCHANGED <<link, peer, arriving, reconnectTimer, connections, handshakeVars, lastResponse, reading>>
    BY <1>6 DEF PendingRequestTimeout, RetryOrAbort
  <2>2. LinkTypes' /\ FlagTypes'
    BY <2>1 DEF handshakeVars, ClientTypes, LinkTypes, FlagTypes
  <2>3. ChannelTypes'
    BY <2>1, ResendTypes DEF ClientTypes, ChannelTypes
  <2>4. RequestTypes'
    BY <2>1, ResendTypes DEF ClientTypes, RequestTypes
  <2> QED
    BY <2>2, <2>3, <2>4 DEF ClientTypes
<1>7. CASE PeerAnswers
  <2>0. asked \in Seq({"hello", "current", "stale"}) /\ asked # <<>>
    BY <1>7 DEF PeerAnswers, ClientTypes, ChannelTypes
  <2>3. /\ Head(asked) \in {"hello", "current", "stale"}
        /\ Tail(asked) \in Seq({"hello", "current", "stale"})
    BY <2>0
  <2>1. PICK answer \in IF Head(asked) = "hello" THEN {"hello", "no hello"} ELSE Statuses \union {"malformed"} :
          arriving' = Append(arriving, [id |-> Head(asked), answer |-> answer])
    BY <1>7 DEF PeerAnswers
  <2> DEFINE message == [id |-> Head(asked), answer |-> answer]
  <2>2. answer \in Answers
    BY <2>1 DEF Answers
  <2>4. message \in Messages /\ arriving' = Append(arriving, message)
    BY <2>1, <2>2, <2>3 DEF Messages
  <2> HIDE DEF message
  <2>5. ChannelTypes'
    <3>1. arriving \in Seq(Messages) /\ asked' = Tail(asked)
      BY <1>7 DEF PeerAnswers, ClientTypes, ChannelTypes
    <3>2. Append(arriving, message) \in Seq(Messages)
      BY <2>4, <3>1, AppendMessage
    <3> QED
      BY <2>3, <2>4, <3>1, <3>2 DEF ChannelTypes
  <2>6. LinkTypes' /\ FlagTypes' /\ RequestTypes'
    BY <1>7 DEF PeerAnswers, handshakeVars, requestVars, ClientTypes, LinkTypes, FlagTypes, RequestTypes
  <2> QED
    BY <2>5, <2>6 DEF ClientTypes
<1> QED
  BY <1>1, <1>2, <1>3, <1>4, <1>5, <1>6, <1>7 DEF Client, Disconnected, PendingRequestTimeout, RetryOrAbort

AnEvseIsRead == Reading => reading.evse \in Evses

Types == ServiceTypeOK /\ ClientTypes /\ ControlTypeOK /\ AnEvseIsRead

(* What the steps of a write do to the client: they ask when it is ready,   *)
(* and stop asking when they have an answer or there will be none.          *)
ClientAtWork ==
  \/ UNCHANGED clientVars
  \/ AskNothing /\ ReadIsOver
  \/ Ask(1) /\ IsReady
  \/ Ask(reading.evse + 1) /\ IsReady /\ Reading /\ reading.evse < EvseCount

LEMMA AnsweredWhenReady == ReadResult # "no response" => IsReady /\ lastResponse # NoResponse /\ ReadResult = lastResponse
  BY DEF ReadResult

LEMMA WriteStepsAtWork ==
  ASSUME Types, WriteSteps \/ WatchPoll \/ BeginConfigWrite \/ BeginSafetyWrite
  PROVE  ClientAtWork
<1>0. ReadyLast <= EvseCount /\ CheckLast <= EvseCount
  BY BoundsAssumption DEF ReadyLast, CheckLast
<1>1. CASE BeginConfigWrite \/ BeginSafetyWrite \/ WatchPoll
  BY <1>1 DEF BeginConfigWrite, BeginSafetyWrite, WatchPoll, ClientAtWork, everestVars
<1>2. CASE FinishCreate
  BY <1>2 DEF FinishCreate, ClientAtWork
<1>3. CASE FinishCheck
  <2>1. ASSUME Types, CheckContinues(CheckLast)
        PROVE  IsReady /\ Reading /\ reading.evse < EvseCount
    <3>1. reading.evse \in Nat /\ EvseCount \in Nat /\ CheckLast \in Nat
      BY BoundsAssumption DEF CheckLast, Types, ClientTypes, RequestTypes
    <3>2. Reading /\ reading.evse < CheckLast /\ StateAllowed(ReadResult)
      BY <2>1 DEF CheckContinues, ReadIsOver
    <3>3. IsReady
      BY <3>2, AnsweredWhenReady DEF StateAllowed
    <3> QED
      BY <1>0, <3>1, <3>2, <3>3
  <2> QED
    BY <1>3, <2>1 DEF FinishCheck, CheckFails, CheckPasses, ClientAtWork
<1>4. CASE EverestStopped \/ EverestStopTimeout \/ FinishFlash \/ FinishRecovery \/ WatchEnds
  BY <1>4 DEF EverestStopped, EverestStopTimeout, FinishFlash, FinishRecovery, WatchEnds, ClientAtWork, everestVars
<1>5. CASE BeginReadiness
  BY <1>5 DEF BeginReadiness, BeginRound, Fresh, ClientAtWork
<1>6. CASE ContinueReadiness
  <2>1. reading.evse \in Nat /\ EvseCount \in Nat /\ ReadyLast \in Nat
    BY BoundsAssumption DEF ReadyLast, Types, ClientTypes, RequestTypes
  <2> QED
    BY <1>0, <1>6, <2>1 DEF ContinueReadiness, RoundContinues, RoundFails, RoundBroken, ReadIsOver, ClientAtWork
<1>7. CASE ReadinessFails
  BY <1>7 DEF ReadinessFails, ReadinessRefused, ClientAtWork
<1>8. CASE EverestReady
  BY <1>8 DEF EverestReady, RoundSucceeds, RoundBroken, ClientAtWork
<1>9. CASE WatchStep
  BY <1>9 DEF WatchStep, WatchSeesError, WatchRefused, WatchGoesOn, ReadIsOver, ClientAtWork
<1> QED
  BY <1>1, <1>2, <1>3, <1>4, <1>5, <1>6, <1>7, <1>8, <1>9 DEF WriteSteps

(* ... and what they do to systemd and to the procedures.                   *)
ServiceAtWork == UNCHANGED serviceVars \/ (\E kind \in {"stop", "restart"} : AcceptJob(kind))

ControlAtWork ==
  \/ UNCHANGED controlVars
  \/ RestartAccepted
  \/ deadline' = FALSE /\ UNCHANGED <<before, round, errorPresent, unresolved, answers>>
  \/ BeginRound \/ NoteReadiness \/ BeginWatch \/ WatchUnconnected
  \/ \E rest \in SUBSET Evses : NoteWatch(rest) /\ Reading

LEMMA WriteStepsControl ==
  ASSUME WriteSteps \/ WatchPoll \/ BeginConfigWrite \/ BeginSafetyWrite
  PROVE  ServiceAtWork /\ ControlAtWork
<1>0. ASSUME NEW outcome, RestartWith(outcome)
      PROVE  ServiceAtWork /\ ControlAtWork
  BY <1>0 DEF RestartWith, RestartAccepted, ServiceAtWork, ControlAtWork
<1>1. CASE BeginConfigWrite \/ BeginSafetyWrite \/ WatchPoll
  BY <1>1 DEF BeginConfigWrite, BeginSafetyWrite, WatchPoll, ServiceAtWork, ControlAtWork, everestVars
<1>2. CASE FinishCreate \/ EverestStopTimeout \/ WatchEnds
  BY <1>2 DEF FinishCreate, EverestStopTimeout, WatchEnds, ServiceAtWork, ControlAtWork, everestVars
<1>3. CASE FinishCheck
  BY <1>0, <1>3 DEF FinishCheck, ServiceAtWork, ControlAtWork
<1>4. CASE EverestStopped
  BY <1>0, <1>4 DEF EverestStopped, ServiceAtWork, ControlAtWork
<1>5. CASE FinishFlash
  BY <1>0, <1>5 DEF FinishFlash, FlashSucceeds, FlashNeverStarts, FlashFails, ServiceAtWork, ControlAtWork
<1>6. CASE FinishRecovery
  BY <1>0, <1>6 DEF FinishRecovery, ServiceAtWork, ControlAtWork
<1>7. CASE BeginReadiness \/ ContinueReadiness \/ ReadinessFails \/ EverestReady
  BY <1>7 DEF BeginReadiness, ContinueReadiness, ReadinessFails, EverestReady, ServiceAtWork, ControlAtWork
<1>8. CASE WatchStep
  <2>1. {} \in SUBSET Evses /\ {e \in Evses : e > reading.evse} \in SUBSET Evses
    OBVIOUS
  <2> QED
    BY <1>8, <2>1 DEF WatchStep, WatchGoesOn, ReadIsOver, ServiceAtWork, ControlAtWork
<1> QED
  BY <1>1, <1>2, <1>3, <1>4, <1>5, <1>6, <1>7, <1>8 DEF WriteSteps

LEMMA ControlTypes ==
  ASSUME Types, ControlAtWork
  PROVE  ControlTypeOK'
<1>0. ServiceTypeOK /\ ClientTypes /\ ControlTypeOK /\ AnEvseIsRead
  BY DEF Types
<1>1. /\ before \in [handshake : Nat, disconnection : Nat, require : BOOLEAN, instance : Nat]
      /\ round \in [generation : Nat, responsive : BOOLEAN] /\ answers \in [Evses -> 0..MaxInstances]
      /\ deadline \in BOOLEAN /\ errorPresent \in BOOLEAN /\ unresolved \subseteq Evses
  BY <1>0 DEF ControlTypeOK
<1>2. \A e : [answers EXCEPT ![e] = peer] \in [Evses -> 0..MaxInstances]
  BY <1>0, <1>1 DEF ClientTypes, LinkTypes
<1>3. CASE RestartAccepted
  <2>1. Snapshot \in [handshake : Nat, disconnection : Nat, require : BOOLEAN, instance : Nat]
    <3>1. handshakeGeneration \in Nat /\ disconnectionGeneration \in Nat /\ instance \in Nat
      BY <1>0 DEF ClientTypes, LinkTypes, ServiceTypeOK
    <3>2. IsReady \in BOOLEAN
      BY DEF IsReady
    <3> QED
      BY <3>1, <3>2 DEF Snapshot
  <2>2. deadline' = FALSE /\ round' = NoRound /\ errorPresent' = FALSE /\ answers' = NoAnswers
        /\ before' = Snapshot /\ unresolved' = unresolved
    BY <1>3 DEF RestartAccepted
  <2> QED
    BY <1>1, <2>1, <2>2, NullTypes DEF ControlTypeOK
<1>4. CASE UNCHANGED <<before, round, errorPresent, unresolved, answers>> /\ deadline' \in BOOLEAN
  BY <1>1, <1>4 DEF ControlTypeOK
<1>5. CASE BeginRound
  <2>1. round' \in [generation : Nat, responsive : BOOLEAN]
    BY <1>0, <1>5 DEF BeginRound, ClientTypes, LinkTypes
  <2>2. answers' = NoAnswers /\ UNCHANGED <<before, deadline, errorPresent, unresolved>>
    BY <1>5 DEF BeginRound
  <2> QED
    BY <1>1, <2>1, <2>2, NullTypes DEF ControlTypeOK
<1>6. CASE NoteReadiness
  <2>1. RoundResponsive \in BOOLEAN /\ (errorPresent \/ ReadResult = "faulty") \in BOOLEAN
    BY <1>1 DEF RoundResponsive
  <2>2. [round EXCEPT !.responsive = RoundResponsive] \in [generation : Nat, responsive : BOOLEAN]
    BY <1>1, <2>1
  <2>3. answers' \in [Evses -> 0..MaxInstances]
    BY <1>1, <1>2, <1>6 DEF NoteReadiness, NoteAnswer
  <2> QED
    BY <1>1, <1>6, <2>1, <2>2, <2>3 DEF NoteReadiness, ControlTypeOK
<1>7. CASE BeginWatch
  BY <1>1, <1>7, NullTypes DEF BeginWatch, ControlTypeOK
<1>8. CASE WatchUnconnected
  BY <1>1, <1>8 DEF WatchUnconnected, ControlTypeOK
<1>9. CASE \E rest \in SUBSET Evses : NoteWatch(rest) /\ Reading
  <2>1. PICK rest \in SUBSET Evses : NoteWatch(rest) /\ Reading
    BY <1>9
  <2>2. answers' \in [Evses -> 0..MaxInstances]
    BY <1>1, <1>2, <2>1 DEF NoteWatch, NoteAnswer
  <2>3. unresolved' \subseteq Evses
    <3>1. reading.evse \in Evses
      BY <1>0, <2>1 DEF AnEvseIsRead
    <3>2. Unresolved \subseteq Evses
      BY <1>1, <3>1 DEF Unresolved
    <3> QED
      BY <2>1, <3>2 DEF NoteWatch
  <2>4. UNCHANGED <<before, deadline, round, errorPresent>>
    BY <2>1 DEF NoteWatch
  <2> QED
    BY <1>1, <2>2, <2>3, <2>4 DEF ControlTypeOK
<1>10. CASE UNCHANGED controlVars
  BY <1>1, <1>10 DEF controlVars, ControlTypeOK
<1> QED
  BY <1>3, <1>4, <1>5, <1>6, <1>7, <1>8, <1>9, <1>10 DEF ControlAtWork

(* The client alone changes nothing about what is read but that it is late. *)
LEMMA ClientReads ==
  ASSUME Client \/ PeerAnswers
  PROVE  reading' = reading \/ (Reading /\ reading' = [reading EXCEPT !.expired = TRUE])
<1>1. CASE OnConnected \/ EnsureConnected \/ PeerAnswers
  BY <1>1 DEF OnConnected, EnsureConnected, PeerAnswers, requestVars
<1>2. OnDisconnected => UNCHANGED reading
  BY DEF OnDisconnected
<1>3. CASE BinaryMessageReceived
  BY <1>2, <1>3 DEF BinaryMessageReceived, HelloResponse, StatusResponse, IgnoredResponse, MalformedResponse, requestVars
<1> QED
  BY <1>1, <1>2, <1>3 DEF Client, Disconnected, ReadExpires, PendingRequestTimeout, RetryOrAbort

(* An EVSE is read that the controller has.                                 *)
LEMMA ReadsAnEvse == Types /\ [Next]_vars => AnEvseIsRead'
<1> SUFFICES ASSUME Types, [Next]_vars
             PROVE  AnEvseIsRead'
  OBVIOUS
<1>0. /\ reading \in [evse : Nat, generation : Nat, expired : BOOLEAN] /\ EvseCount \in Nat \ {0}
      /\ (Reading => reading.evse \in Evses)
  BY BoundsAssumption DEF Types, ClientTypes, RequestTypes, AnEvseIsRead
<1>1. CASE reading' = reading
  BY <1>0, <1>1 DEF AnEvseIsRead, Reading
<1>2. CASE Reading /\ reading' = [reading EXCEPT !.expired = TRUE]
  BY <1>0, <1>2 DEF AnEvseIsRead
<1>3. CASE reading' = NoReading
  BY <1>3 DEF AnEvseIsRead, Reading
<1>4. CASE Ask(1)
  BY <1>0, <1>4 DEF Ask, AnEvseIsRead, Evses
<1>5. CASE Ask(reading.evse + 1) /\ Reading /\ reading.evse < EvseCount
  BY <1>0, <1>5 DEF Ask, AnEvseIsRead, Evses
<1>6. CASE WriteSteps \/ WatchPoll \/ BeginConfigWrite \/ BeginSafetyWrite
  BY <1>1, <1>3, <1>4, <1>5, <1>6, WriteStepsAtWork DEF ClientAtWork, AskNothing, clientVars, requestVars
<1>7. CASE UNCHANGED vars \/ ToolSteps
  BY <1>1, <1>7 DEF vars, ToolSteps, ToolExecutes, FlashWrites, ToolExits, ProcessStarted, ProcessTimeout,
                    everestVars, clientVars, requestVars
<1>8. CASE DeadlinePasses \/ BackendRestarts
  BY <1>1, <1>2, <1>3, <1>8 DEF DeadlinePasses, DeadlineExpires, BackendRestarts
<1>9. CASE EnvironmentStep
  BY <1>1, <1>2, <1>9, ClientReads DEF EnvironmentStep, Environment, clientVars, requestVars
<1> QED
  BY <1>6, <1>7, <1>8, <1>9 DEF Next

LEMMA TypesStep == Types /\ [Next]_vars => Types'
<1> SUFFICES ASSUME Types, [Next]_vars
             PROVE  Types'
  OBVIOUS
<1>0. ServiceTypeOK /\ ClientTypes /\ ControlTypeOK /\ AnEvseIsRead
  BY DEF Types
<1>9. AnEvseIsRead'
  BY <1>0, ReadsAnEvse DEF Types
<1>1. UNCHANGED serviceVars => ServiceTypeOK'
  BY <1>0 DEF serviceVars, ServiceTypeOK
<1>2. UNCHANGED clientVars => ClientTypes'
  BY <1>0 DEF clientVars, linkVars, handshakeVars, requestVars, ClientTypes, LinkTypes, FlagTypes, ChannelTypes,
              RequestTypes
<1>3. UNCHANGED controlVars => ControlTypeOK'
  BY <1>0 DEF controlVars, ControlTypeOK
<1>4. CASE UNCHANGED vars \/ ToolSteps
  <2>1. UNCHANGED everestVars
    BY <1>4 DEF vars, ToolSteps, ToolExecutes, FlashWrites, ToolExits, ProcessStarted, ProcessTimeout
  <2> QED
    BY <1>1, <1>2, <1>3, <1>9, <2>1 DEF everestVars, Types
<1>5. CASE EnvironmentStep
  <2>1. UNCHANGED controlVars
    BY <1>5 DEF EnvironmentStep
  <2>2. CASE Systemd /\ UNCHANGED clientVars
    BY <1>0, <1>2, <1>3, <1>9, <2>1, <2>2, SystemdTypes DEF Types
  <2>3. CASE (Client \/ PeerAnswers) /\ UNCHANGED serviceVars
    BY <1>0, <1>1, <1>3, <1>9, <2>1, <2>3, ClientStepTypes DEF Types
  <2> QED
    BY <1>5, <2>2, <2>3 DEF EnvironmentStep, Environment
<1>6. CASE DeadlinePasses
  <2>1. /\ UNCHANGED <<before, round, errorPresent, unresolved, answers, serviceVars>> /\ deadline' = TRUE
        /\ reading' \in {reading, [reading EXCEPT !.expired = TRUE]}
        /\ UNCHANGED <<pending, lastResponse, linkVars, handshakeVars>>
    BY <1>6 DEF DeadlinePasses, DeadlineExpires
  <2>2. LinkTypes' /\ FlagTypes' /\ ChannelTypes'
    BY <1>0, <2>1 DEF linkVars, handshakeVars, ClientTypes, LinkTypes, FlagTypes, ChannelTypes
  <2>3. RequestTypes'
    BY <1>0, <2>1 DEF ClientTypes, RequestTypes
  <2>4. ControlTypeOK'
    BY <1>0, <2>1 DEF ControlTypeOK
  <2> QED
    BY <1>1, <1>9, <2>1, <2>2, <2>3, <2>4 DEF ClientTypes, Types
<1>7. CASE WriteSteps \/ WatchPoll \/ BeginConfigWrite \/ BeginSafetyWrite
  <2>1. ClientTypes'
    <3>1. 1 \in Nat /\ reading.evse + 1 \in Nat
      BY <1>0 DEF ClientTypes, RequestTypes
    <3> QED
      BY <1>0, <1>2, <1>7, <3>1, WriteStepsAtWork, AskTypes, AskNothingTypes DEF Types, ClientAtWork
  <2>2. ServiceTypeOK'
    BY <1>0, <1>1, <1>7, WriteStepsControl DEF ServiceAtWork, AcceptJob, ServiceTypeOK
  <2>3. ControlTypeOK'
    BY <1>7, WriteStepsControl, ControlTypes
  <2> QED
    BY <1>9, <2>1, <2>2, <2>3 DEF Types
<1>8. CASE BackendRestarts
  <2>1. UNCHANGED <<serviceVars, controlVars>>
    BY <1>8 DEF BackendRestarts
  <2>2. LinkTypes'
    BY <1>0, <1>8, BoundsAssumption DEF BackendRestarts, ClientTypes, LinkTypes
  <2>3. FlagTypes' /\ ChannelTypes'
    <3>1. FlagTypes'
      BY <1>8 DEF BackendRestarts, FlagTypes
    <3>2. ChannelTypes'
      BY <1>8 DEF BackendRestarts, ChannelTypes
    <3> QED
      BY <3>1, <3>2
  <2>4. RequestTypes'
    BY <1>8, NullTypes DEF BackendRestarts, RequestTypes
  <2> QED
    BY <1>1, <1>3, <1>9, <2>1, <2>2, <2>3, <2>4 DEF ClientTypes, Types
<1> QED
  BY <1>4, <1>5, <1>6, <1>7, <1>8 DEF Next

(* systemd, the client and the procedures keep to their types; an EVSE is   *)
(* only ever asked for that the controller has.                             *)
THEOREM TypesHold == Spec => [](ServiceTypeOK /\ ClientTypeOK /\ ControlTypeOK)
<1>1. Init => Types
  BY TypesInit DEF Init, ClientInit, Reading, AnEvseIsRead, Types
<1>2. Types => ServiceTypeOK /\ ClientTypeOK /\ ControlTypeOK
  BY ClientTypesMeanTypeOK DEF Types
<1> QED
  BY <1>1, <1>2, TypesStep, PTL DEF Spec

-----------------------------------------------------------------------------
(* The connection *)

(* Who answers is the EVerest that was started last, if the end of the one  *)
(* before is noticed in time.                                               *)
LEMMA ConnectionStep ==
  ~LateNotices /\ Types /\ ConnectedToLast /\ [Next]_vars => ConnectedToLast'
<1> SUFFICES ASSUME ~LateNotices, Types, ConnectedToLast, [Next]_vars
             PROVE  ConnectedToLast'
  OBVIOUS
<1>0. instance \in Nat
  BY BoundsAssumption DEF Types, ServiceTypeOK
<1>1. CASE UNCHANGED <<unit, instance, api>> /\ (link' # "open" \/ UNCHANGED <<link, peer>>)
  BY <1>1 DEF ConnectedToLast, Stopped
<1>2. CASE UNCHANGED vars \/ ToolSteps \/ DeadlinePasses
  BY <1>1, <1>2 DEF vars, ToolSteps, ToolExecutes, FlashWrites, ToolExits, ProcessStarted, ProcessTimeout,
     DeadlinePasses, DeadlineExpires, everestVars, clientVars, linkVars, serviceVars
<1>3. CASE EnvironmentStep
  <2>1. CASE Systemd /\ (instance' # instance => NoticedInTime) /\ UNCHANGED clientVars
    <3>1. UNCHANGED <<link, peer>>
      BY <2>1 DEF clientVars, linkVars
    <3>2. CASE StartInstance
      <4>1. instance' # instance => link # "open"
        BY <2>1 DEF NoticedInTime
      <4> QED
        BY <1>0, <3>1, <3>2, <4>1 DEF StartInstance, ConnectedToLast, Stopped
    <3>3. CASE BeginStop \/ ApiGoesDown \/ FinishStop \/ NothingToStop \/ ApiComesUp \/ InstanceExits
      BY <3>1, <3>3 DEF BeginStop, ApiGoesDown, FinishStop, NothingToStop, ApiComesUp, InstanceExits,
                        ConnectedToLast, Stopped
    <3> QED
      BY <2>1, <3>2, <3>3 DEF Systemd
  <2>2. CASE (Client \/ PeerAnswers) /\ UNCHANGED serviceVars
    <3>1. UNCHANGED <<unit, instance, api>>
      BY <2>2 DEF serviceVars
    <3>2. CASE OnConnected
      BY <3>1, <3>2 DEF OnConnected, ConnectedToLast, Stopped
    <3>3. OnDisconnected => link' # "open"
      BY DEF OnDisconnected
    <3>4. CASE EnsureConnected \/ ReadExpires \/ PeerAnswers
      BY <1>1, <3>1, <3>4 DEF EnsureConnected, ReadExpires, PeerAnswers, linkVars
    <3>5. CASE Disconnected \/ PendingRequestTimeout
      BY <1>1, <3>1, <3>3, <3>5 DEF Disconnected, PendingRequestTimeout, RetryOrAbort
    <3>6. CASE BinaryMessageReceived
      BY <1>1, <3>1, <3>3, <3>6
      DEF BinaryMessageReceived, HelloResponse, StatusResponse, IgnoredResponse, MalformedResponse
    <3> QED
      BY <2>2, <3>2, <3>4, <3>5, <3>6 DEF Client
  <2> QED
    BY <1>3, <2>1, <2>2 DEF EnvironmentStep, Environment
<1>4. CASE WriteSteps \/ WatchPoll \/ BeginConfigWrite \/ BeginSafetyWrite
  <2>1. UNCHANGED <<unit, instance, api>>
    BY <1>4, WriteStepsControl DEF ServiceAtWork, AcceptJob, serviceVars
  <2>2. UNCHANGED <<link, peer>>
    BY <1>4, WriteStepsAtWork DEF ClientAtWork, Ask, AskNothing, clientVars, linkVars
  <2> QED
    BY <1>1, <2>1, <2>2
<1>5. CASE BackendRestarts
  BY <1>1, <1>5 DEF BackendRestarts, serviceVars
<1> QED
  BY <1>2, <1>3, <1>4, <1>5 DEF Next

(* A step of a write leaves nothing behind that it has asked for.           *)
LEMMA ReadsWhileItWaits ==
  ASSUME NothingUnread, WriteSteps \/ WatchPoll \/ BeginConfigWrite \/ BeginSafetyWrite
  PROVE  Reading' => stage' \in {"check", "restart", "monitor"}
<1>0. UNCHANGED clientVars => (Reading' <=> Reading)
  BY DEF clientVars, requestVars, Reading
<1>1. AskNothing => ~Reading'
  BY DEF AskNothing, Reading
<1>2. CASE BeginConfigWrite \/ BeginSafetyWrite \/ WatchPoll
  BY <1>0, <1>2 DEF BeginConfigWrite, BeginSafetyWrite, WatchPoll, everestVars, writeVars, NothingUnread
<1>3. CASE FinishCreate \/ EverestStopped \/ EverestStopTimeout \/ FinishFlash \/ FinishRecovery
  <2>1. ~Reading
    BY <1>3 DEF FinishCreate, EverestStopped, EverestStopTimeout, FinishFlash, FinishRecovery, NothingUnread
  <2>2. FinishCreate => UNCHANGED clientVars \/ stage' = "check"
    BY DEF FinishCreate, Enter
  <2> QED
    BY <1>0, <1>3, <2>1, <2>2 DEF EverestStopped, EverestStopTimeout, FinishFlash, FinishRecovery, everestVars
<1>4. CASE FinishCheck
  BY <1>1, <1>4 DEF FinishCheck, writeVars
<1>5. CASE BeginReadiness \/ ContinueReadiness \/ ReadinessFails \/ EverestReady
  BY <1>0, <1>1, <1>5 DEF BeginReadiness, BeginRound, ContinueReadiness, ReadinessFails, EverestReady, Enter, writeVars
<1>6. CASE WatchStep \/ WatchEnds
  BY <1>0, <1>1, <1>6 DEF WatchStep, WatchEnds, everestVars, writeVars
<1> QED
  BY <1>2, <1>3, <1>4, <1>5, <1>6 DEF WriteSteps

LEMMA UnreadStep == Types /\ NothingUnread /\ [Next]_vars => NothingUnread'
<1> SUFFICES ASSUME Types, NothingUnread, [Next]_vars
             PROVE  NothingUnread'
  OBVIOUS
<1>0. reading \in [evse : Nat, generation : Nat, expired : BOOLEAN]
  BY DEF Types, ClientTypes, RequestTypes
<1>1. Reading /\ reading' = [reading EXCEPT !.expired = TRUE] => Reading'
  <2>1. [reading EXCEPT !.expired = TRUE].expired = TRUE
    BY <1>0
  <2> QED
    BY <2>1 DEF Reading, NoReading
<1>2. reading' = reading => (Reading' <=> Reading)
  BY DEF Reading
<1>3. CASE UNCHANGED <<reading, pending, stage>>
  BY <1>2, <1>3 DEF NothingUnread
<1>4. CASE UNCHANGED vars \/ ToolSteps
  BY <1>3, <1>4 DEF vars, ToolSteps, ToolExecutes, FlashWrites, ToolExits, ProcessStarted, ProcessTimeout,
                    everestVars, clientVars, requestVars, writeVars
<1>5. CASE EnvironmentStep
  <2>1. UNCHANGED stage
    BY <1>5 DEF EnvironmentStep, writeVars
  <2>2. CASE Systemd /\ UNCHANGED clientVars
    BY <1>3, <2>1, <2>2 DEF clientVars, requestVars
  <2>3. CASE Client \/ PeerAnswers
    <3>1. Reading' <=> Reading
      BY <1>1, <1>2, <2>3, ClientReads
    <3>2. pending' = NoRequest \/ pending' = pending \/ pending # NoRequest
      <4>1. OnDisconnected => pending' = NoRequest
        BY DEF OnDisconnected
      <4>2. CASE OnConnected \/ EnsureConnected \/ PeerAnswers \/ ReadExpires
        BY <4>2 DEF OnConnected, EnsureConnected, PeerAnswers, ReadExpires, requestVars
      <4>3. CASE Disconnected \/ PendingRequestTimeout
        BY <4>1, <4>3 DEF Disconnected, PendingRequestTimeout
      <4>4. CASE BinaryMessageReceived
        BY <4>1, <4>4 DEF BinaryMessageReceived, HelloResponse, StatusResponse, IgnoredResponse, MalformedResponse,
                          Awaited, requestVars
      <4> QED
        BY <2>3, <4>2, <4>3, <4>4 DEF Client
    <3> QED
      BY <2>1, <3>1, <3>2 DEF NothingUnread
  <2> QED
    BY <1>5, <2>2, <2>3 DEF EnvironmentStep, Environment
<1>6. CASE DeadlinePasses
  <2>1. UNCHANGED <<pending, stage>> /\ (Reading' <=> Reading)
    BY <1>1, <1>2, <1>6 DEF DeadlinePasses, DeadlineExpires, writeVars
  <2> QED
    BY <2>1 DEF NothingUnread
<1>7. CASE WriteSteps \/ WatchPoll \/ BeginConfigWrite \/ BeginSafetyWrite
  <2>1. ~Reading' => pending' = NoRequest
    <3>1. CASE UNCHANGED clientVars
      BY <3>1 DEF clientVars, requestVars, Reading, NothingUnread
    <3>2. CASE AskNothing /\ ReadIsOver
      BY <3>2 DEF AskNothing, ReadIsOver
    <3>3. CASE Ask(1) \/ Ask(reading.evse + 1)
      <4>1. reading'.evse # 0
        BY <1>0, <3>3 DEF Ask
      <4> QED
        BY <4>1 DEF Reading, NoReading
    <3> QED
      BY <1>7, <3>1, <3>2, <3>3, WriteStepsAtWork DEF ClientAtWork
  <2> QED
    BY <1>7, <2>1, ReadsWhileItWaits DEF NothingUnread
<1>8. CASE BackendRestarts
  BY <1>8 DEF BackendRestarts, Reading, NothingUnread
<1> QED
  BY <1>4, <1>5, <1>6, <1>7, <1>8 DEF Next

(* The two directions of the connection as messages come and go.            *)
LEMMA Channels ==
  ASSUME ClientTypes
  PROVE  /\ asked \in Seq({"hello", "current", "stale"}) /\ arriving \in Seq(Messages)
         /\ \A i \in DOMAIN arriving : arriving[i] \in Messages
  BY DEF ClientTypes, ChannelTypes

LEMMA AskKeepsHello ==
  ASSUME ClientTypes, HelloFirst, NEW evse \in Nat, Ask(evse), IsReady
  PROVE  HelloFirst'
<1>1. /\ \A i \in DOMAIN asked : asked[i] # "hello"
      /\ \A i \in DOMAIN arriving : arriving[i].id # "hello"
  BY DEF HelloFirst, IsReady
<1>2. link' = "open" /\ handshakeComplete' = TRUE
  BY DEF Ask, IsReady, handshakeVars, ClientTypes, FlagTypes
<1>3. \A i \in DOMAIN asked' : asked'[i] # "hello"
  <2> DEFINE outdated == [i \in DOMAIN asked |-> Outdated(asked[i])]
  <2>1. outdated \in Seq({"hello", "current", "stale"}) /\ DOMAIN outdated = DOMAIN asked
    BY Channels DEF Outdated
  <2>2. \A i \in DOMAIN outdated : outdated[i] # "hello"
    BY <1>1 DEF Outdated
  <2>3. asked' = Append(outdated, "current")
    BY DEF Ask
  <2> HIDE DEF outdated
  <2> QED
    BY <2>1, <2>2, <2>3
<1>4. \A i \in DOMAIN arriving' : arriving'[i].id # "hello"
  <2>1. arriving' = [i \in DOMAIN arriving |-> [arriving[i] EXCEPT !.id = Outdated(@)]]
    BY DEF Ask
  <2>2. ASSUME NEW m \in Messages, m.id # "hello"
        PROVE  [m EXCEPT !.id = Outdated(@)].id # "hello"
    BY <2>2 DEF Messages, Outdated
  <2> QED
    BY <1>1, <2>1, <2>2, Channels
<1> QED
  BY <1>2, <1>3, <1>4 DEF HelloFirst

(* A message leaves the connection, another may be sent.                    *)
LEMMA ReceiveKeepsHello ==
  ASSUME ClientTypes, HelloFirst, IsReady, arriving # <<>>, Received, asked' \in {asked, Append(asked, "current")},
         UNCHANGED <<link, handshakeComplete>>
  PROVE  HelloFirst'
<1>1. /\ \A i \in DOMAIN asked : asked[i] # "hello"
      /\ \A i \in DOMAIN arriving : arriving[i].id # "hello"
  BY DEF HelloFirst, IsReady
<1>2. \A i \in DOMAIN Tail(arriving) : Tail(arriving)[i].id # "hello"
  <2>1. \A i \in DOMAIN Tail(arriving) : i + 1 \in DOMAIN arriving /\ Tail(arriving)[i] = arriving[i + 1]
    BY Channels
  <2> QED
    BY <1>1, <2>1
<1>3. \A i \in DOMAIN Append(asked, "current") : Append(asked, "current")[i] # "hello"
  BY <1>1, Channels
<1> QED
  BY <1>1, <1>2, <1>3 DEF HelloFirst, IsReady, Received

LEMMA ClientKeepsHello ==
  ASSUME ClientTypes, HelloFirst, Client \/ PeerAnswers
  PROVE  HelloFirst'
<1>1. CASE link' # "open" \/ UNCHANGED <<link, handshakeComplete, asked, arriving>>
  BY <1>1 DEF HelloFirst
<1>2. OnDisconnected => link' # "open"
  BY DEF OnDisconnected
<1>3. CASE OnConnected
  <2>1. handshakeComplete' = FALSE /\ asked' = <<"hello">> /\ arriving' = <<>>
    BY <1>3 DEF OnConnected
  <2> QED
    BY <2>1 DEF HelloFirst
<1>4. CASE Disconnected \/ EnsureConnected \/ ReadExpires
  BY <1>1, <1>2, <1>4 DEF Disconnected, EnsureConnected, ReadExpires, linkVars, handshakeVars
<1>5. CASE PendingRequestTimeout
  <2>1. CASE /\ IsReady /\ asked' = Append(asked, "current")
             /\ UNCHANGED <<link, arriving, handshakeComplete>>
    <3>1. /\ \A i \in DOMAIN asked : asked[i] # "hello"
          /\ \A i \in DOMAIN arriving : arriving[i].id # "hello"
      BY <2>1 DEF HelloFirst, IsReady
    <3>2. \A i \in DOMAIN Append(asked, "current") : Append(asked, "current")[i] # "hello"
      BY <3>1, Channels
    <3> QED
      BY <2>1, <3>1, <3>2 DEF HelloFirst, IsReady
  <2> QED
    BY <1>1, <1>2, <1>5, <2>1 DEF PendingRequestTimeout, RetryOrAbort, CanResend, handshakeVars
<1>6. CASE PeerAnswers
  <2>1. PICK answer : arriving' = Append(arriving, [id |-> Head(asked), answer |-> answer])
    BY <1>6 DEF PeerAnswers
  <2> DEFINE message == [id |-> Head(asked), answer |-> answer]
  <2>2. message.id = Head(asked) /\ arriving' = Append(arriving, message)
    BY <2>1
  <2> HIDE DEF message
  <2>3. asked # <<>> /\ asked' = Tail(asked) /\ UNCHANGED <<link, handshakeComplete>>
    BY <1>6 DEF PeerAnswers, handshakeVars
  <2>4. CASE link = "open" /\ handshakeComplete
    <3>1. /\ \A i \in DOMAIN asked : asked[i] # "hello"
          /\ \A i \in DOMAIN arriving : arriving[i].id # "hello"
      BY <2>4 DEF HelloFirst
    <3>2. 1 \in DOMAIN asked /\ Head(asked) = asked[1]
      BY <2>3, Channels
    <3>3. \A i \in DOMAIN arriving' : (i \in DOMAIN arriving /\ arriving'[i] = arriving[i]) \/ arriving'[i] = message
      BY <2>2, Channels
    <3>4. \A i \in DOMAIN asked' : i + 1 \in DOMAIN asked /\ asked'[i] = asked[i + 1]
      BY <2>3, Channels
    <3>5. \A i \in DOMAIN arriving' : arriving'[i].id # "hello"
      BY <2>2, <3>1, <3>2, <3>3
    <3>6. \A i \in DOMAIN asked' : asked'[i] # "hello"
      BY <3>1, <3>4
    <3> QED
      BY <2>3, <2>4, <3>5, <3>6 DEF HelloFirst
  <2>5. CASE link = "open" /\ ~handshakeComplete
    <3>1. asked = <<"hello">> /\ arriving = <<>>
      BY <2>3, <2>5 DEF HelloFirst
    <3>2. asked' = <<>> /\ arriving' = <<message>> /\ message.id = "hello"
      BY <2>2, <2>3, <3>1
    <3> QED
      BY <2>3, <2>5, <3>2 DEF HelloFirst
  <2>6. CASE link # "open"
    BY <1>1, <2>3, <2>6
  <2> QED
    BY <2>4, <2>5, <2>6
<1>7. CASE BinaryMessageReceived
  <2>1. link = "open" /\ arriving # <<>> /\ arriving \in Seq(Messages) /\ handshakeComplete \in BOOLEAN
    BY <1>7, Channels DEF BinaryMessageReceived, ClientTypes, FlagTypes
  <2>2. CASE handshakeComplete
    <3>1. Head(arriving).id # "hello"
      BY <2>1, <2>2 DEF HelloFirst
    <3>2. CASE StatusResponse \/ IgnoredResponse \/ MalformedResponse
      BY <1>1, <1>2, <2>1, <2>2, <3>2, ReceiveKeepsHello
      DEF StatusResponse, IgnoredResponse, MalformedResponse, IsReady, handshakeVars
    <3> QED
      BY <1>7, <3>1, <3>2 DEF BinaryMessageReceived, HelloResponse
  <2>3. CASE ~handshakeComplete
    <3>1. asked = <<>> /\ Len(arriving) = 1 /\ arriving[1].id = "hello"
      BY <2>1, <2>3 DEF HelloFirst
    <3>2. HelloResponse
      BY <1>7, <2>1, <3>1 DEF BinaryMessageReceived, StatusResponse, IgnoredResponse, MalformedResponse
    <3>3. CASE link' = "closing"
      BY <1>1, <3>3
    <3>4. CASE handshakeComplete' = TRUE /\ asked' = asked /\ Received
      <4>1. asked' = <<>> /\ arriving' = <<>>
        BY <2>1, <3>1, <3>4 DEF Received
      <4> QED
        BY <3>4, <4>1 DEF HelloFirst
    <3> QED
      BY <3>2, <3>3, <3>4 DEF HelloResponse
  <2> QED
    BY <2>2, <2>3
<1> QED
  BY <1>3, <1>4, <1>5, <1>6, <1>7 DEF Client

LEMMA HelloStep == Types /\ HelloFirst /\ [Next]_vars => HelloFirst'
<1> SUFFICES ASSUME Types, HelloFirst, [Next]_vars
             PROVE  HelloFirst'
  OBVIOUS
<1>1. CASE UNCHANGED <<link, handshakeComplete, asked, arriving>>
  BY <1>1 DEF HelloFirst
<1>2. CASE UNCHANGED vars \/ ToolSteps \/ DeadlinePasses
  BY <1>1, <1>2 DEF vars, ToolSteps, ToolExecutes, FlashWrites, ToolExits, ProcessStarted, ProcessTimeout,
     DeadlinePasses, DeadlineExpires, everestVars, clientVars, linkVars, handshakeVars
<1>3. CASE EnvironmentStep
  BY <1>1, <1>3, ClientKeepsHello DEF Types, EnvironmentStep, Environment, clientVars, linkVars, handshakeVars
<1>4. CASE WriteSteps \/ WatchPoll \/ BeginConfigWrite \/ BeginSafetyWrite
  <2>1. 1 \in Nat /\ reading.evse + 1 \in Nat
    BY DEF Types, ClientTypes, RequestTypes
  <2> QED
    BY <1>1, <1>4, <2>1, WriteStepsAtWork, AskKeepsHello
    DEF Types, ClientAtWork, AskNothing, clientVars, linkVars, handshakeVars
<1>5. CASE BackendRestarts
  BY <1>5 DEF BackendRestarts, HelloFirst
<1> QED
  BY <1>2, <1>3, <1>4, <1>5 DEF Next

LEMMA TimerStep == Types /\ ReconnectsWhenClosed /\ [Next]_vars => ReconnectsWhenClosed'
<1> SUFFICES ASSUME Types, ReconnectsWhenClosed, [Next]_vars
             PROVE  ReconnectsWhenClosed'
  OBVIOUS
<1>1. CASE UNCHANGED <<link, reconnectTimer>>
  BY <1>1 DEF ReconnectsWhenClosed
<1>2. OnDisconnected => link' = "closed"
  BY DEF OnDisconnected
<1>3. CASE UNCHANGED vars \/ ToolSteps \/ DeadlinePasses
  BY <1>1, <1>3 DEF vars, ToolSteps, ToolExecutes, FlashWrites, ToolExits, ProcessStarted, ProcessTimeout,
     DeadlinePasses, DeadlineExpires, everestVars, clientVars, linkVars
<1>4. CASE EnvironmentStep
  <2>1. CASE UNCHANGED clientVars
    BY <1>1, <2>1 DEF clientVars, linkVars
  <2>2. CASE OnConnected \/ EnsureConnected
    BY <2>2 DEF OnConnected, EnsureConnected, ReconnectsWhenClosed
  <2>3. CASE Disconnected \/ ReadExpires \/ PendingRequestTimeout \/ PeerAnswers
    BY <1>1, <1>2, <2>3 DEF Disconnected, ReadExpires, PendingRequestTimeout, RetryOrAbort, PeerAnswers, linkVars,
                            ReconnectsWhenClosed
  <2>4. CASE BinaryMessageReceived
    <3>1. (link = "open" /\ reconnectTimer' = reconnectTimer) \/ OnDisconnected
      BY <2>4 DEF BinaryMessageReceived, HelloResponse, StatusResponse, IgnoredResponse, MalformedResponse
    <3> QED
      BY <1>2, <3>1 DEF ReconnectsWhenClosed
  <2> QED
    BY <1>4, <2>1, <2>2, <2>3, <2>4 DEF EnvironmentStep, Environment, Client
<1>5. CASE WriteSteps \/ WatchPoll \/ BeginConfigWrite \/ BeginSafetyWrite
  BY <1>1, <1>5, WriteStepsAtWork DEF ClientAtWork, Ask, AskNothing, clientVars, linkVars
<1>6. CASE BackendRestarts
  BY <1>6 DEF BackendRestarts, ReconnectsWhenClosed
<1> QED
  BY <1>3, <1>4, <1>5, <1>6 DEF Next

LEMMA LinkInit == Init => LinkInvariant
  BY DEF Init, ServiceInit, ClientInit, LinkInvariant, ConnectedToLast, Stopped, NothingUnread, Reading, HelloFirst,
         ReconnectsWhenClosed

LEMMA LinkStep == ~LateNotices /\ Types /\ LinkInvariant /\ [Next]_vars => LinkInvariant'
  BY ConnectionStep, UnreadStep, HelloStep, TimerStep DEF LinkInvariant

-----------------------------------------------------------------------------
(* The restart, and who answers after it *)

LEMMA TypesInNat ==
  ASSUME Types
  PROVE  /\ instance \in Nat /\ before.instance \in Nat
         /\ disconnectionGeneration \in Nat /\ before.disconnection \in Nat
         /\ handshakeGeneration \in Nat /\ round.generation \in Nat
         /\ reading.evse \in Nat /\ EvseCount \in Nat \ {0}
  BY BoundsAssumption DEF Types, ServiceTypeOK, ClientTypes, LinkTypes, RequestTypes, ControlTypeOK

(* What stays as it is while a write waits for EVerest.                     *)
LEMMA SnapshotKept ==
  ASSUME Types, [Next]_vars, stage \in {"restart", "monitor"}, stage' \in {"restart", "monitor"}
  PROVE  /\ UNCHANGED before /\ UNCHANGED operation
         /\ instance' = instance \/ (instance' = instance + 1 /\ UNCHANGED clientVars)
<1>1. CASE UNCHANGED vars \/ ToolSteps \/ DeadlinePasses
  BY <1>1 DEF vars, ToolSteps, ToolExecutes, FlashWrites, ToolExits, ProcessStarted, ProcessTimeout,
     DeadlinePasses, DeadlineExpires, everestVars, controlVars, serviceVars, writeVars
<1>2. CASE EnvironmentStep
  <2>1. UNCHANGED before /\ UNCHANGED operation
    BY <1>2 DEF EnvironmentStep, controlVars, writeVars
  <2>2. Systemd => instance' = instance \/ instance' = instance + 1
    BY DEF Systemd, BeginStop, ApiGoesDown, FinishStop, NothingToStop, StartInstance, ApiComesUp, InstanceExits
  <2> QED
    BY <1>2, <2>1, <2>2 DEF EnvironmentStep, Environment, serviceVars
<1>3. ~(BeginSafetyWrite \/ BeginConfigWrite \/ BackendRestarts \/ FinishCreate \/ FinishCheck \/ EverestStopped
        \/ EverestStopTimeout \/ FinishFlash \/ FinishRecovery \/ WatchEnds)
  BY DEF BeginSafetyWrite, BeginConfigWrite, BackendRestarts, FinishCreate, FinishCheck, EverestStopped,
     EverestStopTimeout, FinishFlash, FinishRecovery, WatchEnds, Fail, Complete
<1>4. CASE WatchPoll \/ WatchStep
  <2>1. UNCHANGED operation /\ UNCHANGED serviceVars
    BY <1>4 DEF WatchPoll, WatchStep, Fail, Complete, writeVars
  <2>2. UNCHANGED before
    BY <1>4 DEF WatchPoll, WatchStep, WatchUnconnected, NoteWatch, controlVars
  <2> QED
    BY <2>1, <2>2 DEF serviceVars
<1>5. CASE BeginReadiness \/ ContinueReadiness \/ ReadinessFails
  BY <1>5 DEF BeginReadiness, BeginRound, ContinueReadiness, NoteReadiness, ReadinessFails, AfterRestart, Fail,
              Complete, serviceVars, writeVars
<1>6. CASE EverestReady
  BY <1>6 DEF EverestReady, BeginWatch, Fail, Complete, Enter, serviceVars, controlVars
<1> QED
  BY <1>1, <1>2, <1>3, <1>4, <1>5, <1>6 DEF Next, WriteSteps

(* A write comes to the restart by asking for it.                           *)
LEMMA RestartEntered ==
  ASSUME StageInvariant, [Next]_vars, stage # "restart", stage' = "restart"
  PROVE  /\ RestartAccepted /\ UNCHANGED operation
         /\ \/ operation = "config" /\ IsReady /\ AskNothing
            \/ operation = "safety" /\ stage \in {"stop", "flash", "dump", "yaml"} /\ UNCHANGED clientVars
               /\ (stage = "stop" => ConfirmedStopped)
<1>1. ~(UNCHANGED vars \/ ToolSteps \/ DeadlinePasses \/ EnvironmentStep \/ WatchPoll)
  BY DEF vars, ToolSteps, ToolExecutes, FlashWrites, ToolExits, ProcessStarted, ProcessTimeout, DeadlinePasses,
         EnvironmentStep, WatchPoll, writeVars
<1>2. ~(BeginSafetyWrite \/ BeginConfigWrite \/ BackendRestarts \/ FinishCreate \/ EverestStopTimeout \/ WatchEnds
        \/ WatchStep)
  BY DEF BeginSafetyWrite, BeginConfigWrite, BackendRestarts, FinishCreate, EverestStopTimeout, WatchEnds, WatchStep,
         Fail, Complete, Enter, writeVars
<1>3. ~(BeginReadiness \/ ContinueReadiness \/ ReadinessFails \/ EverestReady)
  BY DEF BeginReadiness, ContinueReadiness, ReadinessFails, EverestReady
<1>4. ASSUME NEW outcome, RestartWith(outcome)
      PROVE  RestartAccepted /\ UNCHANGED operation
  BY <1>4 DEF RestartWith, Complete
<1>5. CASE FinishCheck
  <2>1. CheckPasses(CheckLast) /\ operation = "config" /\ AskNothing /\ RestartWith(NoReply)
    BY <1>5 DEF FinishCheck, Fail, Complete, Enter, writeVars
  <2>2. ReadResult # "no response"
    BY <2>1 DEF CheckPasses, StateAllowed
  <2> QED
    BY <1>4, <2>1, <2>2, AnsweredWhenReady
<1>6. CASE EverestStopped
  BY <1>4, <1>6 DEF EverestStopped, Enter, StageInvariant
<1>7. CASE FinishFlash
  BY <1>4, <1>7 DEF FinishFlash, FlashSucceeds, FlashNeverStarts, FlashFails, StageInvariant
<1>8. CASE FinishRecovery
  BY <1>4, <1>8 DEF FinishRecovery, Enter, StageInvariant
<1> QED
  BY <1>1, <1>2, <1>3, <1>5, <1>6, <1>7, <1>8 DEF Next, WriteSteps

(* An EVerest that is down comes up only as another instance.               *)
LEMMA ServiceStaysDown ==
  ASSUME Types, ~api, unit # "active", Systemd, instance' = instance
  PROVE  ~api' /\ unit' # "active"
<1>1. CASE StartInstance
  BY <1>1, TypesInNat DEF StartInstance
<1>2. CASE BeginStop \/ ApiGoesDown \/ FinishStop \/ NothingToStop \/ ApiComesUp \/ InstanceExits
  BY <1>2 DEF BeginStop, ApiGoesDown, FinishStop, NothingToStop, ApiComesUp, InstanceExits
<1> QED
  BY <1>1, <1>2 DEF Systemd

(* A write that restarts EVerest for new settings does not read: what the   *)
(* client does then is up to EVerest.                                       *)
LEMMA OldConnectionEnds ==
  ASSUME Types, StageInvariant, LinkInvariant, RestartInvariant,
         operation = "config", stage = "restart", Client \/ PeerAnswers, UNCHANGED <<serviceVars, before>>
  PROVE  /\ before.disconnection <= disconnectionGeneration'
         /\ disconnectionGeneration' = before.disconnection => IsReady'
         /\ disconnectionGeneration' > before.disconnection /\ instance = before.instance =>
              ~api /\ unit # "active" /\ link' # "open"
<1>1. /\ before.require /\ before.disconnection <= disconnectionGeneration
      /\ disconnectionGeneration = before.disconnection => IsReady
      /\ disconnectionGeneration > before.disconnection /\ instance = before.instance =>
           ~api /\ unit # "active" /\ link # "open"
  BY DEF RestartInvariant
<1>2. disconnectionGeneration \in Nat /\ before.disconnection \in Nat
  BY TypesInNat
<1>3. ~Reading /\ pending = NoRequest
  BY DEF StageInvariant, LinkInvariant, NothingUnread
<1>4. CASE disconnectionGeneration = before.disconnection
  <2>1. link = "open" /\ handshakeComplete /\ peer = instance /\ (unit = "active" => api) /\ ~reconnectTimer
    BY <1>1, <1>4 DEF IsReady, LinkInvariant, ConnectedToLast, ReconnectsWhenClosed
  <2>2. CASE UNCHANGED <<link, handshakeComplete, disconnectionGeneration>>
    BY <1>1, <1>2, <1>4, <2>2 DEF IsReady
  <2>3. CASE OnDisconnected /\ ~PeerAlive
    BY <1>2, <1>4, <2>1, <2>3 DEF OnDisconnected, PeerAlive
  <2>4. ~(OnConnected \/ EnsureConnected \/ ReadExpires \/ PendingRequestTimeout)
    BY <1>3, <2>1 DEF OnConnected, EnsureConnected, ReadExpires, PendingRequestTimeout
  <2>5. Disconnected => OnDisconnected /\ ~PeerAlive
    BY <2>1 DEF Disconnected
  <2>6. BinaryMessageReceived => IgnoredResponse
    <3>1. BinaryMessageReceived => ~HelloResponse
      <4>1. arriving # <<>> => Head(arriving).id # "hello"
        BY <2>1, Channels DEF LinkInvariant, HelloFirst, Types
      <4> QED
        BY <4>1 DEF BinaryMessageReceived, HelloResponse
    <3> QED
      BY <1>3, <3>1 DEF BinaryMessageReceived, StatusResponse, MalformedResponse, Awaited
  <2> QED
    BY <2>2, <2>3, <2>4, <2>5, <2>6 DEF Client, PeerAnswers, IgnoredResponse, handshakeVars
<1>5. CASE disconnectionGeneration > before.disconnection
  <2>1. disconnectionGeneration' \in {disconnectionGeneration, disconnectionGeneration + 1}
    <3>1. OnDisconnected => disconnectionGeneration' = disconnectionGeneration + 1
      BY DEF OnDisconnected
    <3>2. CASE OnConnected \/ Disconnected \/ EnsureConnected \/ ReadExpires \/ PendingRequestTimeout \/ PeerAnswers
      BY <3>1, <3>2 DEF OnConnected, Disconnected, EnsureConnected, ReadExpires, PendingRequestTimeout, RetryOrAbort,
         PeerAnswers, handshakeVars
    <3>3. CASE BinaryMessageReceived
      BY <3>1, <3>3 DEF BinaryMessageReceived, HelloResponse, StatusResponse, IgnoredResponse, MalformedResponse,
         handshakeVars
    <3> QED
      BY <3>2, <3>3 DEF Client
  <2>2. ~api /\ link # "open" => link' # "open"
    <3>1. OnDisconnected => link' # "open"
      BY DEF OnDisconnected
    <3> QED
      BY <3>1 DEF Client, OnConnected, Disconnected, EnsureConnected, ReadExpires, PendingRequestTimeout, RetryOrAbort,
         PeerAnswers, BinaryMessageReceived, linkVars
  <2> QED
    BY <1>1, <1>2, <1>5, <2>1, <2>2
<1> QED
  BY <1>1, <1>2, <1>4, <1>5

(* As long as no other EVerest was started nothing answers a safety write.  *)
LEMMA NobodyAnswers ==
  ASSUME ClientTypes, ~api, Client \/ PeerAnswers,
         lastResponse = NoResponse, \A i \in DOMAIN arriving : arriving[i].id # "current"
  PROVE  lastResponse' = NoResponse /\ \A i \in DOMAIN arriving' : arriving'[i].id # "current"
<1>1. CASE UNCHANGED <<lastResponse, arriving>>
  BY <1>1
<1>2. OnDisconnected => lastResponse' = NoResponse /\ arriving' = <<>>
  BY DEF OnDisconnected
<1>3. ~OnConnected /\ ~PeerAnswers
  BY DEF OnConnected, PeerAnswers, PeerAlive
<1>4. CASE Disconnected \/ EnsureConnected \/ ReadExpires \/ PendingRequestTimeout
  BY <1>1, <1>2, <1>4 DEF Disconnected, EnsureConnected, ReadExpires, PendingRequestTimeout, RetryOrAbort,
     linkVars, requestVars
<1>5. CASE BinaryMessageReceived
  <2>1. arriving # <<>> /\ arriving \in Seq(Messages) /\ Head(arriving).id # "current"
    BY <1>5, Channels DEF BinaryMessageReceived
  <2>2. lastResponse' = lastResponse /\ arriving' = Tail(arriving)
    BY <1>5, <2>1 DEF BinaryMessageReceived, HelloResponse, StatusResponse, IgnoredResponse, MalformedResponse,
       Awaited, Received, requestVars
  <2>3. \A i \in DOMAIN Tail(arriving) : i + 1 \in DOMAIN arriving /\ Tail(arriving)[i] = arriving[i + 1]
    BY <2>1
  <2> QED
    BY <2>2, <2>3
<1> QED
  BY <1>3, <1>4, <1>5 DEF Client

LEMMA AskedAnew ==
  ASSUME ClientTypes, NEW evse \in Nat, Ask(evse)
  PROVE  lastResponse' = NoResponse /\ \A i \in DOMAIN arriving' : arriving'[i].id # "current"
<1>1. arriving' = [i \in DOMAIN arriving |-> [arriving[i] EXCEPT !.id = Outdated(@)]] /\ lastResponse' = NoResponse
  BY DEF Ask
<1>2. ASSUME NEW m \in Messages
      PROVE  [m EXCEPT !.id = Outdated(@)].id # "current"
  BY DEF Messages, Outdated
<1> QED
  BY <1>1, <1>2, Channels

LEMMA RestartStep ==
  ~LateNotices /\ Types /\ StageInvariant /\ StageInvariant' /\ StopInvariant /\ LinkInvariant /\ RestartInvariant
  /\ [Next]_vars => RestartInvariant'
<1> SUFFICES ASSUME ~LateNotices, Types, StageInvariant, StageInvariant', StopInvariant, LinkInvariant,
                    RestartInvariant, [Next]_vars
             PROVE  RestartInvariant'
  OBVIOUS
<1>0. /\ instance \in Nat /\ before.instance \in Nat
      /\ disconnectionGeneration \in Nat /\ before.disconnection \in Nat
  BY TypesInNat
<1>1. CASE stage' \notin {"restart", "monitor"}
  BY <1>1 DEF RestartInvariant
<1>2. CASE stage # "restart" /\ stage' = "restart"
  <2>1. /\ RestartAccepted /\ UNCHANGED operation
        /\ \/ operation = "config" /\ IsReady /\ AskNothing
           \/ operation = "safety" /\ stage \in {"stop", "flash", "dump", "yaml"} /\ UNCHANGED clientVars
              /\ (stage = "stop" => ConfirmedStopped)
    BY <1>2, RestartEntered
  <2>2. /\ before'.instance = instance /\ before'.disconnection = disconnectionGeneration
        /\ before'.require = IsReady /\ UNCHANGED <<unit, instance, api>>
    BY <2>1 DEF RestartAccepted, Snapshot, AcceptJob
  <2>3. CASE operation = "config" /\ IsReady /\ AskNothing
    <3>1. UNCHANGED <<link, handshakeComplete, disconnectionGeneration>>
      BY <2>3 DEF AskNothing, linkVars, handshakeVars
    <3>2. IsReady' /\ before'.require
      BY <2>2, <2>3, <3>1 DEF IsReady
    <3>3. disconnectionGeneration' = before'.disconnection /\ instance' = before'.instance
      BY <2>2, <3>1
    <3>4. before'.instance <= instance' /\ before'.disconnection <= disconnectionGeneration'
          /\ ~(disconnectionGeneration' > before'.disconnection)
      BY <1>0, <2>2, <3>1
    <3>5. operation' # "safety"
      BY <2>1, <2>3
    <3> QED
      BY <3>2, <3>4, <3>5 DEF RestartInvariant
  <2>4. CASE operation = "safety" /\ stage \in {"stop", "flash", "dump", "yaml"} /\ UNCHANGED clientVars
             /\ (stage = "stop" => ConfirmedStopped)
    <3>1. unit = "inactive"
      BY <2>4 DEF ConfirmedStopped, StopInvariant
    <3>2. ~api
      BY <3>1 DEF LinkInvariant, ConnectedToLast, Stopped
    <3>3. ~Reading'
      BY <2>4 DEF LinkInvariant, NothingUnread, clientVars, requestVars, Reading
    <3> QED
      BY <1>0, <1>2, <2>1, <2>2, <2>4, <3>1, <3>2, <3>3 DEF RestartInvariant
  <2> QED
    BY <2>1, <2>3, <2>4
<1>3. CASE stage' = "monitor"
  <2>0. stage \in {"restart", "monitor"}
    BY <1>3, NextIsStageStep DEF StageStep, StageMoves, StageInvariant
  <2>1. before.instance <= instance
    BY <2>0 DEF RestartInvariant
  <2> QED
    BY <1>0, <1>3, <2>0, <2>1, SnapshotKept DEF RestartInvariant
<1>4. CASE stage = "restart" /\ stage' = "restart"
  <2>1. /\ UNCHANGED before /\ UNCHANGED operation
        /\ instance' = instance \/ (instance' = instance + 1 /\ UNCHANGED clientVars)
        /\ before.instance <= instance
    BY <1>4, SnapshotKept DEF RestartInvariant
  <2>2. before'.instance <= instance'
    BY <1>0, <2>1
  <2>3. ASSUME operation = "config"
        PROVE  /\ before.require /\ before.disconnection <= disconnectionGeneration'
               /\ disconnectionGeneration' = before.disconnection => IsReady'
               /\ disconnectionGeneration' > before.disconnection /\ instance' = before.instance =>
                    ~api' /\ unit' # "active" /\ link' # "open"
    <3>1. /\ before.require /\ before.disconnection <= disconnectionGeneration
          /\ disconnectionGeneration = before.disconnection => IsReady
          /\ disconnectionGeneration > before.disconnection /\ instance = before.instance =>
               ~api /\ unit # "active" /\ link # "open"
      BY <1>4, <2>3 DEF RestartInvariant
    <3>2. CASE UNCHANGED <<link, handshakeComplete, disconnectionGeneration, unit, api, instance>>
      BY <3>1, <3>2 DEF IsReady
    <3>3. CASE UNCHANGED vars \/ ToolSteps \/ DeadlinePasses
      BY <3>2, <3>3 DEF vars, ToolSteps, ToolExecutes, FlashWrites, ToolExits, ProcessStarted, ProcessTimeout,
         DeadlinePasses, DeadlineExpires, everestVars, serviceVars, clientVars, linkVars, handshakeVars
    <3>4. CASE EnvironmentStep
      <4>1. CASE Systemd /\ UNCHANGED clientVars
        <5>1. UNCHANGED <<link, handshakeComplete, disconnectionGeneration>>
          BY <4>1 DEF clientVars, linkVars, handshakeVars
        <5>2. instance' = before.instance => instance' = instance
          BY <1>0, <2>1
        <5> QED
          BY <3>1, <4>1, <5>1, <5>2, ServiceStaysDown DEF IsReady
      <4>2. CASE (Client \/ PeerAnswers) /\ UNCHANGED serviceVars
        <5>1. UNCHANGED <<unit, instance, api>>
          BY <4>2 DEF serviceVars
        <5> QED
          BY <1>4, <2>1, <2>3, <3>1, <4>2, <5>1, OldConnectionEnds
      <4> QED
        BY <3>4, <4>1, <4>2 DEF EnvironmentStep, Environment
    <3>5. CASE WriteSteps \/ WatchPoll \/ BeginSafetyWrite \/ BeginConfigWrite
      <4>1. UNCHANGED <<unit, instance, api>>
        BY <3>5, WriteStepsControl DEF ServiceAtWork, AcceptJob, serviceVars
      <4>2. UNCHANGED <<link, handshakeComplete, disconnectionGeneration>>
        BY <3>5, WriteStepsAtWork DEF ClientAtWork, Ask, AskNothing, clientVars, linkVars, handshakeVars
      <4> QED
        BY <3>2, <4>1, <4>2
    <3>6. ~BackendRestarts
      BY <1>4 DEF BackendRestarts
    <3> QED
      BY <3>3, <3>4, <3>5, <3>6 DEF Next
  <2>4. ASSUME operation = "safety", instance' = before.instance
        PROVE  /\ ~api' /\ unit' # "active"
               /\ Reading' => /\ lastResponse' = NoResponse
                              /\ \A i \in DOMAIN arriving' : arriving'[i].id # "current"
    <3>0. instance' = instance
      BY <1>0, <2>1, <2>4
    <3>1. /\ ~api /\ unit # "active"
          /\ Reading => /\ lastResponse = NoResponse
                        /\ \A i \in DOMAIN arriving : arriving[i].id # "current"
      BY <1>4, <2>4, <3>0 DEF RestartInvariant
    <3>2. CASE UNCHANGED <<unit, api, lastResponse, arriving>> /\ (Reading' => Reading)
      BY <3>1, <3>2
    <3>3. CASE UNCHANGED vars \/ ToolSteps
      BY <3>2, <3>3 DEF vars, ToolSteps, ToolExecutes, FlashWrites, ToolExits, ProcessStarted, ProcessTimeout,
         everestVars, serviceVars, clientVars, linkVars, requestVars, Reading
    <3>4. CASE DeadlinePasses
      <4>1. Reading' => Reading
        BY <3>4 DEF DeadlinePasses, DeadlineExpires, Reading
      <4> QED
        BY <3>2, <3>4, <4>1 DEF DeadlinePasses, DeadlineExpires, serviceVars, linkVars
    <3>5. CASE EnvironmentStep
      <4>1. CASE Systemd /\ UNCHANGED clientVars
        <5>1. UNCHANGED <<lastResponse, arriving>> /\ (Reading' => Reading)
          BY <4>1 DEF clientVars, linkVars, requestVars, Reading
        <5> QED
          BY <3>0, <3>1, <4>1, <5>1, ServiceStaysDown
      <4>2. CASE (Client \/ PeerAnswers) /\ UNCHANGED serviceVars
        <5>1. Reading' => Reading
          BY <4>2, ClientReads DEF Reading
        <5>2. Reading => lastResponse' = NoResponse /\ \A i \in DOMAIN arriving' : arriving'[i].id # "current"
          BY <3>1, <4>2, NobodyAnswers DEF Types
        <5> QED
          BY <3>1, <4>2, <5>1, <5>2 DEF serviceVars
      <4> QED
        BY <3>5, <4>1, <4>2 DEF EnvironmentStep, Environment
    <3>6. CASE WriteSteps \/ WatchPoll \/ BeginSafetyWrite \/ BeginConfigWrite
      <4>1. UNCHANGED <<unit, api>>
        BY <3>6, WriteStepsControl DEF ServiceAtWork, AcceptJob, serviceVars
      <4>2. CASE UNCHANGED clientVars
        BY <3>2, <4>1, <4>2 DEF clientVars, linkVars, requestVars, Reading
      <4>3. CASE AskNothing
        BY <3>1, <4>1, <4>3 DEF AskNothing, Reading
      <4>4. CASE Ask(1) \/ Ask(reading.evse + 1)
        <5>1. 1 \in Nat /\ reading.evse + 1 \in Nat
          BY TypesInNat
        <5> QED
          BY <3>1, <4>1, <4>4, <5>1, AskedAnew DEF Types
      <4> QED
        BY <3>6, <4>2, <4>3, <4>4, WriteStepsAtWork DEF ClientAtWork
    <3>7. ~BackendRestarts
      BY <1>4 DEF BackendRestarts
    <3> QED
      BY <3>3, <3>4, <3>5, <3>6, <3>7 DEF Next
  <2> QED
    BY <1>4, <2>1, <2>2, <2>3, <2>4 DEF RestartInvariant
<1> QED
  BY <1>1, <1>2, <1>3, <1>4

(* The round on one connection goes on as long as the connection.           *)
LEMMA SameConnection ==
  ASSUME ClientTypes, Client \/ PeerAnswers
  PROVE  /\ handshakeGeneration' \in {handshakeGeneration, handshakeGeneration + 1}
         /\ IsReady' /\ handshakeGeneration' = handshakeGeneration => IsReady /\ peer' = peer
<1>0. handshakeGeneration \in Nat
  BY DEF ClientTypes, LinkTypes
<1>1. CASE UNCHANGED <<link, handshakeComplete, handshakeGeneration, peer>>
  BY <1>1 DEF IsReady
<1>2. CASE UNCHANGED handshakeGeneration /\ ~IsReady'
  BY <1>2
<1>3. OnDisconnected => UNCHANGED handshakeGeneration /\ ~IsReady'
  BY DEF OnDisconnected, IsReady
<1>4. CASE OnConnected \/ EnsureConnected
  BY <1>2, <1>4 DEF OnConnected, EnsureConnected, handshakeVars, IsReady
<1>5. CASE Disconnected \/ ReadExpires \/ PendingRequestTimeout \/ PeerAnswers
  BY <1>1, <1>2, <1>3, <1>5 DEF Disconnected, ReadExpires, PendingRequestTimeout, RetryOrAbort, PeerAnswers,
     linkVars, handshakeVars
<1>6. CASE StatusResponse \/ IgnoredResponse \/ MalformedResponse
  BY <1>1, <1>2, <1>3, <1>6 DEF StatusResponse, IgnoredResponse, MalformedResponse, handshakeVars
<1>7. CASE HelloResponse
  <2>1. CASE handshakeGeneration' = handshakeGeneration + 1
    BY <1>0, <2>1
  <2>2. CASE link' = "closing" /\ UNCHANGED handshakeGeneration
    BY <1>2, <2>2 DEF IsReady
  <2> QED
    BY <1>7, <2>1, <2>2 DEF HelloResponse
<1> QED
  BY <1>4, <1>5, <1>6, <1>7 DEF Client, BinaryMessageReceived

(* Asked one after the other: what the invariant says of a round.           *)
LEMMA RoundStep ==
  ASSUME Types, StageInvariant, AnswersInvariant, [Next]_vars,
         operation' = "safety", stage' = "restart", Reading', stage = "restart", operation = "safety"
  PROVE  /\ round'.generation <= handshakeGeneration'
         /\ round'.responsive /\ IsReady' /\ round'.generation = handshakeGeneration' =>
              \A e \in Evses : e < reading'.evse => answers'[e] = peer'
<1>0. /\ handshakeGeneration \in Nat /\ round.generation \in Nat /\ reading.evse \in Nat
      /\ answers \in [Evses -> 0..MaxInstances]
      /\ reading \in [evse : Nat, generation : Nat, expired : BOOLEAN]
      /\ round \in [generation : Nat, responsive : BOOLEAN]
      /\ ClientTypes
  BY TypesInNat DEF Types, ControlTypeOK, ClientTypes, RequestTypes
<1>1. Reading =>
        /\ round.generation <= handshakeGeneration
        /\ round.responsive /\ IsReady /\ round.generation = handshakeGeneration =>
             \A e \in Evses : e < reading.evse => answers[e] = peer
  BY DEF AnswersInvariant
<1>2. CASE Reading /\ UNCHANGED <<round, answers, link, handshakeComplete, handshakeGeneration, peer>>
           /\ reading'.evse = reading.evse
  BY <1>1, <1>2 DEF IsReady
<1>3. CASE UNCHANGED vars \/ ToolSteps
  BY <1>2, <1>3 DEF vars, ToolSteps, ToolExecutes, FlashWrites, ToolExits, ProcessStarted, ProcessTimeout,
     everestVars, clientVars, linkVars, handshakeVars, requestVars, controlVars, Reading
<1>4. CASE DeadlinePasses
  <2>1. Reading /\ reading'.evse = reading.evse
    BY <1>0, <1>4 DEF DeadlinePasses, DeadlineExpires, Reading
  <2> QED
    BY <1>2, <1>4, <2>1 DEF DeadlinePasses, DeadlineExpires, linkVars, handshakeVars
<1>5. CASE EnvironmentStep
  <2>1. UNCHANGED <<round, answers>>
    BY <1>5 DEF EnvironmentStep, controlVars
  <2>2. CASE Systemd /\ UNCHANGED clientVars
    BY <1>2, <2>1, <2>2 DEF clientVars, linkVars, handshakeVars, requestVars, Reading
  <2>3. CASE Client \/ PeerAnswers
    <3>1. Reading /\ reading'.evse = reading.evse
      BY <1>0, <2>3, ClientReads DEF Reading
    <3>2. /\ handshakeGeneration' \in {handshakeGeneration, handshakeGeneration + 1}
          /\ IsReady' /\ handshakeGeneration' = handshakeGeneration => IsReady /\ peer' = peer
      BY <1>0, <2>3, SameConnection
    <3>3. round.generation <= handshakeGeneration'
      BY <1>0, <1>1, <3>1, <3>2
    <3>4. round.generation = handshakeGeneration' => handshakeGeneration' = handshakeGeneration
      BY <1>0, <1>1, <3>1, <3>2
    <3> QED
      BY <1>1, <2>1, <3>1, <3>2, <3>3, <3>4
  <2> QED
    BY <1>5, <2>2, <2>3 DEF EnvironmentStep, Environment
<1>6. CASE BeginReadiness
  <2>1. Ask(1) /\ BeginRound
    BY <1>6 DEF BeginReadiness, Complete
  <2>2. reading'.evse = 1 /\ round'.generation = handshakeGeneration /\ handshakeGeneration' = handshakeGeneration
    BY <2>1 DEF Ask, BeginRound, handshakeVars
  <2>3. \A e \in Evses : ~(e < 1)
    BY DEF Evses
  <2> QED
    BY <1>0, <2>2, <2>3
<1>7. CASE ContinueReadiness
  <2>1. RoundContinues(ReadyLast) /\ Ask(reading.evse + 1) /\ NoteReadiness
    BY <1>7 DEF ContinueReadiness, AskNothing, Reading
  <2>2. Reading /\ IsReady /\ handshakeGeneration = round.generation
    BY <2>1 DEF RoundContinues, RoundBroken, ReadIsOver
  <2>3. round'.generation = round.generation /\ round'.responsive = RoundResponsive
    BY <1>0, <2>1 DEF NoteReadiness
  <2>4. reading'.evse = reading.evse + 1 /\ UNCHANGED <<handshakeGeneration, peer>>
    BY <2>1 DEF Ask, handshakeVars
  <2>5. ASSUME RoundResponsive, NEW e \in Evses, e < reading.evse + 1
        PROVE  answers'[e] = peer
    <3>1. answers' = [answers EXCEPT ![reading.evse] = peer]
      BY <2>1, <2>5 DEF NoteReadiness, NoteAnswer, RoundResponsive
    <3>2. CASE e = reading.evse
      BY <1>0, <3>1, <3>2
    <3>3. CASE e < reading.evse
      <4>1. answers[e] = peer
        BY <1>1, <2>2, <2>5, <3>3 DEF RoundResponsive
      <4> QED
        BY <1>0, <3>1, <3>3, <4>1
    <3>4. e \in Nat
      BY TypesInNat DEF Evses
    <3> QED
      BY <1>0, <2>5, <3>2, <3>3, <3>4
  <2> QED
    BY <1>0, <2>2, <2>3, <2>4, <2>5
<1>8. ~(BeginSafetyWrite \/ BeginConfigWrite \/ BackendRestarts \/ FinishCreate \/ FinishCheck \/ EverestStopped
        \/ EverestStopTimeout \/ FinishFlash \/ FinishRecovery \/ WatchStep \/ WatchEnds \/ WatchPoll)
  BY DEF BeginSafetyWrite, BeginConfigWrite, BackendRestarts, FinishCreate, FinishCheck, EverestStopped,
     EverestStopTimeout, FinishFlash, FinishRecovery, WatchStep, WatchEnds, WatchPoll
<1>9. ~(ReadinessFails \/ EverestReady)
  BY DEF ReadinessFails, AfterRestart, EverestReady, Fail, Complete, Enter
<1> QED
  BY <1>3, <1>4, <1>5, <1>6, <1>7, <1>8, <1>9 DEF Next, WriteSteps

(* Only the end of a round leads from the restart to the watch.             *)
LEMMA EntersWatch ==
  ASSUME [Next]_vars, stage = "restart", stage' = "monitor"
  PROVE  EverestReady
<1>1. ~(UNCHANGED vars \/ ToolSteps \/ DeadlinePasses \/ EnvironmentStep \/ WatchPoll)
  BY DEF vars, ToolSteps, ToolExecutes, FlashWrites, ToolExits, ProcessStarted, ProcessTimeout, DeadlinePasses,
         EnvironmentStep, WatchPoll, writeVars
<1>2. ~(BeginSafetyWrite \/ BeginConfigWrite \/ BackendRestarts \/ FinishCreate \/ FinishCheck \/ EverestStopped
        \/ EverestStopTimeout \/ FinishFlash \/ FinishRecovery \/ WatchStep \/ WatchEnds)
  BY DEF BeginSafetyWrite, BeginConfigWrite, BackendRestarts, FinishCreate, FinishCheck, EverestStopped,
     EverestStopTimeout, FinishFlash, FinishRecovery, WatchStep, WatchEnds
<1>3. ~(BeginReadiness \/ ContinueReadiness \/ ReadinessFails)
  BY DEF BeginReadiness, ContinueReadiness, ReadinessFails, AfterRestart, Fail, Complete, writeVars
<1> QED
  BY <1>1, <1>2, <1>3 DEF Next, WriteSteps

(* A configuration write ends well at once when EVerest is back.            *)
LEMMA EndsInSuccess ==
  ASSUME FilesInvariant, StageInvariant, [Next]_vars, stage = "restart", operation = "config", response'.success
  PROVE  BeginReadiness
<1>0. response = NoReply /\ ~response.success /\ ~Reading
  BY DEF FilesInvariant, StageInvariant, NoReply
<1>1. ~(UNCHANGED vars \/ ToolSteps \/ DeadlinePasses \/ EnvironmentStep \/ WatchPoll)
  BY <1>0 DEF vars, ToolSteps, ToolExecutes, FlashWrites, ToolExits, ProcessStarted, ProcessTimeout, DeadlinePasses,
         EnvironmentStep, WatchPoll, writeVars
<1>2. ~(BeginSafetyWrite \/ BeginConfigWrite \/ FinishCreate \/ FinishCheck \/ EverestStopped
        \/ EverestStopTimeout \/ FinishFlash \/ FinishRecovery \/ WatchStep \/ WatchEnds)
  BY DEF BeginSafetyWrite, BeginConfigWrite, FinishCreate, FinishCheck, EverestStopped,
     EverestStopTimeout, FinishFlash, FinishRecovery, WatchStep, WatchEnds
<1>3. ~BackendRestarts
  BY DEF BackendRestarts, NoReply
<1>4. ~(ContinueReadiness \/ EverestReady)
  BY <1>0 DEF ContinueReadiness, EverestReady, RoundContinues, RoundFails, RoundSucceeds, ReadIsOver
<1>5. ~ReadinessFails
  BY <1>0 DEF ReadinessFails, AfterRestart, Fail, Complete, Reply, NoReply
<1> QED
  BY <1>1, <1>2, <1>3, <1>4, <1>5 DEF Next, WriteSteps

(* The watch begins with an EVerest that was started for this write.        *)
LEMMA ReadyAnew ==
  ASSUME ~LateNotices, Types, StageInvariant, LinkInvariant, RestartInvariant, AnswersInvariant, EverestReady
  PROVE  /\ operation = "safety" /\ link = "open" /\ peer = instance /\ before.instance < instance
         /\ \A e \in Evses : e < EvseCount => answers[e] = peer
<1>1. /\ stage = "restart" /\ Reading /\ ~RoundBroken /\ RoundResponsive /\ reading.evse = ReadyLast
  BY DEF EverestReady, RoundSucceeds, ReadIsOver
<1>2. operation = "safety" /\ ReadyLast = EvseCount
  BY <1>1 DEF StageInvariant, ReadyLast
<1>3. IsReady /\ handshakeGeneration = round.generation /\ round.responsive /\ lastResponse # NoResponse
  BY <1>1, AnsweredWhenReady DEF RoundBroken, RoundResponsive
<1>4. link = "open" /\ peer = instance
  BY <1>3 DEF IsReady, LinkInvariant, ConnectedToLast
<1>5. before.instance <= instance /\ instance # before.instance
  BY <1>1, <1>2, <1>3 DEF RestartInvariant
<1>6. before.instance < instance
  BY <1>5, TypesInNat
<1>7. \A e \in Evses : e < EvseCount => answers[e] = peer
  BY <1>1, <1>2, <1>3 DEF AnswersInvariant
<1> QED
  BY <1>2, <1>4, <1>6, <1>7

LEMMA WatchKeepsAnswers ==
  ASSUME ~LateNotices, Types, StageInvariant, LinkInvariant, AnswersInvariant, stage = "monitor",
         NEW rest, NoteWatch(rest), ReadIsOver
  PROVE  \A e \in Evses \ unresolved' : answers'[e] > before.instance
<1>0. /\ answers \in [Evses -> 0..MaxInstances] /\ before.instance \in Nat /\ instance \in Nat
      /\ before.instance < instance
      /\ \A e \in Evses \ unresolved : answers[e] > before.instance
  BY TypesInNat DEF Types, ControlTypeOK, AnswersInvariant
<1> SUFFICES ASSUME NEW e \in Evses, e \notin unresolved'
             PROVE  answers'[e] > before.instance
  OBVIOUS
<1>1. e \notin Unresolved /\ answers' = IF ReadResult = "no response" THEN answers ELSE [answers EXCEPT ![reading.evse] = peer]
  BY DEF NoteWatch, NoteAnswer
<1>2. CASE e = reading.evse
  <2>1. ReadResult # "no response"
    BY <1>1, <1>2 DEF Unresolved, WatchResult
  <2>2. peer = instance
    BY <2>1, AnsweredWhenReady DEF IsReady, LinkInvariant, ConnectedToLast
  <2> QED
    BY <1>0, <1>1, <1>2, <2>1, <2>2
<1>3. CASE e # reading.evse
  <2>1. e \notin unresolved
    BY <1>1, <1>3 DEF Unresolved
  <2> QED
    BY <1>0, <1>1, <1>3, <2>1
<1> QED
  BY <1>2, <1>3

(* The watch goes on, or begins.                                            *)
LEMMA WatchInvariantStep ==
  ASSUME ~LateNotices, Types, StageInvariant, LinkInvariant, RestartInvariant, AnswersInvariant, [Next]_vars,
         stage' = "monitor"
  PROVE  /\ before'.instance < instance' /\ ~errorPresent'
         /\ \A e \in Evses \ unresolved' : answers'[e] > before'.instance
<1>0. /\ instance \in Nat /\ before.instance \in Nat
  BY TypesInNat
<1>1. stage \in {"restart", "monitor"}
  BY NextIsStageStep DEF StageStep, StageMoves, StageInvariant
<1>2. UNCHANGED before /\ (instance' = instance \/ instance' = instance + 1)
  BY <1>1, SnapshotKept
<1>3. CASE stage = "monitor"
  <2>1. /\ before.instance < instance /\ ~errorPresent
        /\ \A e \in Evses \ unresolved : answers[e] > before.instance
    BY <1>3 DEF AnswersInvariant
  <2>2. before'.instance < instance'
    BY <1>0, <1>2, <2>1
  <2>3. CASE UNCHANGED <<errorPresent, unresolved, answers>>
    BY <1>2, <2>1, <2>2, <2>3
  <2>4. CASE UNCHANGED vars \/ ToolSteps \/ EnvironmentStep \/ DeadlinePasses
    BY <2>3, <2>4 DEF vars, ToolSteps, ToolExecutes, FlashWrites, ToolExits, ProcessStarted, ProcessTimeout,
       EnvironmentStep, DeadlinePasses, DeadlineExpires, everestVars, controlVars
  <2>5. CASE WatchPoll
    <3>1. CASE WatchUnconnected
      BY <2>1, <2>2, <3>1 DEF WatchUnconnected
    <3> QED
      BY <2>3, <2>5, <3>1 DEF WatchPoll, controlVars
  <2>6. CASE WatchStep
    <3>1. WatchGoesOn /\ \E rest : NoteWatch(rest)
      BY <2>6 DEF WatchStep, Fail, Complete
    <3>2. PICK rest : NoteWatch(rest)
      BY <3>1
    <3>3. UNCHANGED errorPresent
      BY <3>2 DEF NoteWatch
    <3>4. \A e \in Evses \ unresolved' : answers'[e] > before.instance
      BY <1>3, <3>1, <3>2, WatchKeepsAnswers DEF WatchGoesOn
    <3> QED
      BY <1>2, <2>1, <2>2, <3>3, <3>4
  <2>7. ~(BeginSafetyWrite \/ BeginConfigWrite \/ BackendRestarts \/ FinishCreate \/ FinishCheck \/ EverestStopped
          \/ EverestStopTimeout \/ FinishFlash \/ FinishRecovery \/ BeginReadiness \/ ContinueReadiness
          \/ ReadinessFails \/ EverestReady \/ WatchEnds)
    BY <1>3 DEF BeginSafetyWrite, BeginConfigWrite, BackendRestarts, FinishCreate, FinishCheck, EverestStopped,
       EverestStopTimeout, FinishFlash, FinishRecovery, BeginReadiness, ContinueReadiness, ReadinessFails,
       EverestReady, WatchEnds, Fail, Complete
  <2> QED
    BY <2>4, <2>5, <2>6, <2>7 DEF Next, WriteSteps
<1>4. CASE stage = "restart"
  <2>1. EverestReady /\ Enter("monitor")
    <3>1. EverestReady
      BY <1>4, EntersWatch
    <3> QED
      BY <3>1 DEF EverestReady, Fail, Complete
  <2>2. BeginWatch /\ ~SawError
    BY <2>1, <1>4 DEF EverestReady, Fail, Complete
  <2>3. ~errorPresent' /\ unresolved' = Evses
    BY <2>2 DEF BeginWatch, SawError
  <2>4. before.instance < instance
    BY <2>1, ReadyAnew
  <2> QED
    BY <1>0, <1>2, <2>3, <2>4
<1> QED
  BY <1>1, <1>3, <1>4

LEMMA AnswersInit == Init => AnswersInvariant
  BY DEF Init, AnswersInvariant, NoReply

(* A response that tells of success was composed at the end of a watch.     *)
LEMMA SuccessStep ==
  ASSUME FilesInvariant, StageInvariant, AnswersInvariant, [Next]_vars,
         stage' = "none", response'.of = "safety", response'.success
  PROVE  ~errorPresent' /\ \A e \in Evses : answers'[e] > before'.instance
<1>1. CASE UNCHANGED <<stage, response, errorPresent, answers, before>>
  BY <1>1 DEF AnswersInvariant
<1>2. ~ (\E reply : Complete(reply) /\ ~reply.success)
  BY DEF Complete
<1>3. ~ \E error : Fail(error)
  <2>1. \A error : ~Reply(FALSE, error, response.cacheState).success
    BY DEF Reply
  <2> QED
    BY <1>2, <2>1 DEF Fail
<1>4. ~ \E outcome : RestartWith(outcome) /\ ~outcome.success
  <2>1. ~Reply(FALSE, "everest_restart_failed", "none").success
    BY DEF Reply
  <2> QED
    BY <1>2, <2>1 DEF RestartWith
<1>5. CASE UNCHANGED vars \/ ToolSteps \/ EnvironmentStep
  BY <1>1, <1>5 DEF vars, ToolSteps, ToolExecutes, FlashWrites, ToolExits, ProcessStarted, ProcessTimeout,
     EnvironmentStep, everestVars, controlVars, writeVars
<1>6. CASE WatchEnds
  <2>1. stage = "monitor" /\ unresolved = {} /\ UNCHANGED <<errorPresent, answers, before>>
    BY <1>3, <1>6 DEF WatchEnds, everestVars, controlVars
  <2>2. /\ ~errorPresent /\ \A e \in Evses \ unresolved : answers[e] > before.instance
    BY <2>1 DEF AnswersInvariant
  <2> QED
    BY <2>1, <2>2
<1>7. ~(DeadlinePasses \/ WatchPoll \/ BeginSafetyWrite \/ BeginConfigWrite)
  BY DEF DeadlinePasses, WatchPoll, BeginSafetyWrite, BeginConfigWrite, writeVars
<1>8. ~BackendRestarts
  BY DEF BackendRestarts, NoReply
<1>9. ~(FinishCreate \/ FinishCheck \/ EverestStopped \/ EverestStopTimeout)
  <2>1. ~Reply(FALSE, "cache_invalidation_failed", "unchanged").success /\ ~NoReply.success
    BY DEF Reply, NoReply
  <2> QED
    BY <1>3, <1>4, <2>1 DEF FinishCreate, FinishCheck, EverestStopped, EverestStopTimeout, Enter, writeVars
<1>10. ~(FinishFlash \/ FinishRecovery)
  <2>1. ~Reply(FALSE, "yaml_publish_failed_after_flash", "unavailable").success /\ ~NoReply.success
    BY DEF Reply, NoReply
  <2>2. FinishRecovery => ~response.success
    BY DEF FinishRecovery, FilesInvariant
  <2> QED
    BY <1>4, <2>1, <2>2, FlashReply
    DEF FinishFlash, FlashSucceeds, FlashNeverStarts, FlashFails, FinishRecovery, Enter
<1>11. ~BeginReadiness
  <2>1. ASSUME BeginReadiness, ReadyLast = 0, Complete(Reply(TRUE, "none", "none"))
        PROVE  FALSE
    <3>1. operation # "safety"
      BY <2>1, BoundsAssumption DEF ReadyLast
    <3> QED
      BY <2>1, <3>1 DEF Complete, Reply
  <2> QED
    BY <2>1 DEF BeginReadiness, writeVars
<1>12. ~(ContinueReadiness \/ WatchStep)
  BY <1>3 DEF ContinueReadiness, WatchStep, writeVars
<1>13. ~(ReadinessFails \/ EverestReady)
  <2>1. response.error # "none" => ~response.success
    BY DEF FilesInvariant
  <2> QED
    BY <1>2, <1>3, <2>1 DEF ReadinessFails, AfterRestart, EverestReady, Enter
<1> QED
  BY <1>5, <1>6, <1>7, <1>8, <1>9, <1>10, <1>11, <1>12, <1>13 DEF Next, WriteSteps

LEMMA AnswersStep ==
  ~LateNotices /\ Types /\ StageInvariant /\ FilesInvariant /\ LinkInvariant /\ LinkInvariant' /\ RestartInvariant
  /\ AnswersInvariant /\ [Next]_vars => AnswersInvariant'
<1> SUFFICES ASSUME ~LateNotices, Types, StageInvariant, FilesInvariant, LinkInvariant, LinkInvariant',
                    RestartInvariant, AnswersInvariant, [Next]_vars
             PROVE  AnswersInvariant'
  OBVIOUS
<1>1. ASSUME operation' = "safety", stage' = "restart", Reading'
      PROVE  /\ round'.generation <= handshakeGeneration'
             /\ round'.responsive /\ IsReady' /\ round'.generation = handshakeGeneration' =>
                  \A e \in Evses : e < reading'.evse => answers'[e] = peer'
  <2>1. CASE stage = "restart"
    <3>1. operation = "safety"
      BY <1>1, <2>1, SnapshotKept
    <3> QED
      BY <1>1, <2>1, <3>1, RoundStep
  <2>2. CASE stage # "restart"
    <3>1. operation = "safety" /\ UNCHANGED clientVars /\ stage \in {"stop", "flash", "dump", "yaml"}
      BY <1>1, <2>2, RestartEntered
    <3>2. ~Reading'
      BY <3>1 DEF LinkInvariant, NothingUnread, clientVars, requestVars, Reading
    <3> QED
      BY <1>1, <3>2
  <2> QED
    BY <2>1, <2>2
<1> QED
  BY <1>1, WatchInvariantStep, SuccessStep DEF AnswersInvariant

(* The inductive invariant of a write.                                      *)
WriteInvariant ==
  /\ Types /\ StageInvariant /\ StopInvariant /\ CacheInvariant /\ FilesInvariant
  /\ LinkInvariant /\ RestartInvariant /\ AnswersInvariant

LEMMA WriteInvariantInit == Init => WriteInvariant
<1>1. Init => Types
  BY TypesInit DEF Init, ClientInit, Reading, AnEvseIsRead, Types
<1>2. Init => RestartInvariant
  BY DEF Init, RestartInvariant
<1> QED
  BY <1>1, <1>2, StageInit, StopInit, CacheInit, FilesInit, LinkInit, AnswersInit DEF WriteInvariant

LEMMA WriteInvariantStep == ~LateNotices /\ WriteInvariant /\ [Next]_vars => WriteInvariant'
<1> SUFFICES ASSUME ~LateNotices, WriteInvariant, [Next]_vars
             PROVE  WriteInvariant'
  OBVIOUS
<1>1. Types' /\ StageInvariant' /\ StopInvariant' /\ CacheInvariant' /\ FilesInvariant'
  BY TypesStep, StageStepKeepsStages, StopStep, CacheStep, FilesStep DEF WriteInvariant
<1>2. LinkInvariant'
  BY LinkStep DEF WriteInvariant
<1>3. RestartInvariant'
  BY <1>1, RestartStep DEF WriteInvariant
<1>4. AnswersInvariant'
  BY <1>2, AnswersStep DEF WriteInvariant
<1> QED
  BY <1>1, <1>2, <1>3, <1>4 DEF WriteInvariant

(* All of it together, if the end of a connection is noticed before systemd *)
(* starts the next EVerest.                                                 *)
THEOREM WriteInvariantHolds ==
  ASSUME ~LateNotices
  PROVE  Spec => []WriteInvariant
<1>1. Init => WriteInvariant
  BY WriteInvariantInit
<1>2. WriteInvariant /\ [Next]_vars => WriteInvariant'
  BY WriteInvariantStep
<1> QED
  BY <1>1, <1>2, PTL DEF Spec

(* The final response says what became of the controller and of its cache,  *)
(* and success means that every EVSE of the EVerest started for this write  *)
(* answered and none reported an error, however the flash, the tools, the   *)
(* connection and EVerest behaved.                                          *)
THEOREM ReportTellsTruthHolds ==
  ASSUME ~LateNotices
  PROVE  Spec => []ReportTellsTruth
<1>1. WriteInvariant => ReportTellsTruth
  BY DEF WriteInvariant, FilesInvariant, FilesReported, AnswersInvariant, ReportTellsTruth
<1> QED
  BY <1>1, WriteInvariantHolds, PTL

(* Every step into readiness is taken with a fresh instance.                *)
LEMMA ReadinessStep ==
  ~LateNotices /\ WriteInvariant /\ [Next]_vars =>
    (stage = "restart" /\ (stage' = "monitor" \/ (operation = "config" /\ response'.success)) =>
       /\ peer > before.instance
       /\ \A e \in 1..(ReadyLast - 1) : answers[e] = peer)
<1> SUFFICES ASSUME ~LateNotices, WriteInvariant, [Next]_vars, stage = "restart",
                    stage' = "monitor" \/ (operation = "config" /\ response'.success)
             PROVE  peer > before.instance /\ \A e \in 1..(ReadyLast - 1) : answers[e] = peer
  OBVIOUS
<1>0. /\ instance \in Nat /\ before.instance \in Nat /\ EvseCount \in Nat \ {0}
      /\ disconnectionGeneration \in Nat /\ before.disconnection \in Nat
  BY TypesInNat DEF WriteInvariant
<1>1. CASE stage' = "monitor"
  <2>1. EverestReady
    BY <1>1, EntersWatch DEF WriteInvariant
  <2>2. /\ operation = "safety" /\ peer = instance /\ before.instance < instance
        /\ \A e \in Evses : e < EvseCount => answers[e] = peer
    BY <2>1, ReadyAnew DEF WriteInvariant
  <2>3. ReadyLast = EvseCount
    BY <2>2 DEF ReadyLast
  <2>4. \A e \in 1..(ReadyLast - 1) : e \in Evses /\ e < EvseCount
    BY <1>0, <2>3 DEF Evses
  <2> QED
    BY <1>0, <2>2, <2>4
<1>2. CASE operation = "config" /\ response'.success
  <2>1. BeginReadiness
    BY <1>2, EndsInSuccess DEF WriteInvariant
  <2>2. before.require /\ Fresh
    BY <1>2, <2>1 DEF BeginReadiness, BeginRound, WriteInvariant, RestartInvariant
  <2>3. disconnectionGeneration > before.disconnection /\ link = "open"
    BY <2>2 DEF Fresh, IsReady
  <2>4. instance # before.instance /\ before.instance <= instance /\ peer = instance
    BY <1>2, <2>3 DEF WriteInvariant, RestartInvariant, LinkInvariant, ConnectedToLast
  <2>5. ReadyLast = 0 /\ 1..(0 - 1) = {}
    BY <1>2 DEF ReadyLast
  <2> QED
    BY <1>0, <2>4, <2>5
<1> QED
  BY <1>1, <1>2

(* EVerest counts as ready only when an instance started after the restart  *)
(* was asked for is at the other end, and answered for every EVSE.          *)
THEOREM ReadinessIsFreshHolds ==
  ASSUME ~LateNotices
  PROVE  Spec => ReadinessIsFresh
<1>1. WriteInvariant /\ [Next]_vars =>
        [stage = "restart" /\ (stage' = "monitor" \/ (operation = "config" /\ response'.success)) =>
           /\ peer > before.instance
           /\ \A e \in 1..(ReadyLast - 1) : answers[e] = peer]_vars
  BY ReadinessStep
<1> QED
  BY <1>1, WriteInvariantHolds, PTL DEF Spec, ReadinessIsFresh
=============================================================================
