------------------------------ MODULE NetworkReset ------------------------------
(***************************************************************************)
(* The network configuration of the API (backend/api/modules/              *)
(* NetworkConfiguration.cpp): the drop-in files with the user's settings,  *)
(* the staged reset, applied as a transaction over several files, and the  *)
(* recovery that finishes or undoes what a crash interrupted.              *)
(*                                                                         *)
(* A request is handled without returning to the event loop, so nothing    *)
(* comes between its steps but a crash; each operation on a file is a      *)
(* step of its own.  The order in which the files are visited (that of     *)
(* their paths) is left open.                                              *)
(***************************************************************************)
EXTENDS Naturals, FiniteSets

CONSTANTS
  Ethernet, Can,   \* interfaces of the two kinds (bridges are like Ethernet)
  Files,           \* the paths of drop-in files, one per selected .network file
  NetworkFiles,    \* for each interface the files networkctl may report
  MaxValue,        \* bound: values of a setting
  MayFail,         \* the steps whose file operation or command may fail
  None

Interfaces == Ethernet \union Can
Failing == {"restore contents", "recovery reload", "recovery clean", "stage",
            "replace", "reload", "promote", "demote", "remove", "restore", "clean"}

ASSUME NetworkAssumption ==
  /\ NetworkFiles \in [Interfaces -> SUBSET Files]
  /\ MaxValue \in Nat \ {0}
  /\ MayFail \subseteq Failing
  /\ Ethernet \intersect Can = {}

(* A drop-in: whose it is, its CAN bit rate and its other directives, of     *)
(* which 0 is none.                                                         *)
Document == [owner : {"ui", "other"}, rate : 0..MaxValue, rest : 0..MaxValue]

ASSUME NoneAssumption == None \notin Document \union Files

VARIABLES
  overlay, backup, committed,  \* the three files there may be for each path
  loaded,                      \* what systemd-networkd has read
  recoveryDone,                \* g_resetRecoveryDone
  pendingReset,                \* g_pendingResetInterfaces, g_pendingResetOverlayPaths
  pendingCan,                  \* g_pendingCanBitRateResets, g_pendingCanBitRateResetPaths
  phase,                       \* where the handler is
  action,                      \* the request's action
  todo,                        \* the files the current loop has still to visit
  targets, entire,             \* mutationsByPath (of files there are), removeEntireOverlay
  staged, promoted,            \* staged, committedBackups
  answer                       \* the last response

disk == <<overlay, backup, committed>>
memory == <<recoveryDone, pendingReset, pendingCan>>
transaction == <<targets, entire, staged, promoted>>
vars == <<disk, loaded, memory, phase, action, todo, transaction, answer>>

Actions == {"read", "write", "reset", "cancel", "apply"}
ResetPhases == {"stage", "replace", "reload", "promote", "demote", "remove", "restore"}
Phases == {"down", "idle", "handle", "recover", "recovery clean", "recovery end", "clean"}
          \union ResetPhases

Contents == Document \union {None}

(* Every variable has its type.                                             *)
TypeOK ==
  /\ overlay \in [Files -> Contents] /\ backup \in [Files -> Contents]
  /\ committed \in [Files -> Contents] /\ loaded \in [Files -> Contents]
  /\ recoveryDone \in BOOLEAN
  /\ pendingReset \in [Ethernet -> Files \union {None}]
  /\ pendingCan \in [Can -> Files \union {None}]
  /\ phase \in Phases /\ action \in Actions \union {None}
  /\ todo \subseteq Files /\ targets \subseteq Files /\ entire \subseteq Files
  /\ staged \subseteq Files /\ promoted \subseteq Files
  /\ answer \in {"none", "success", "failure", "write failed", "apply failed"}

Exists(where, f) == where[f] # None
Existing(where) == {f \in Files : Exists(where, f)}
Put(where, f, document) == [where EXCEPT ![f] = document]
Owned(f) == Exists(overlay, f) /\ overlay[f].owner = "ui"
Fails(step) == step \in MayFail

(* A document without any directive is no document.                         *)
Ui(rate, rest) == IF rate = 0 /\ rest = 0 THEN None
                  ELSE [owner |-> "ui", rate |-> rate, rest |-> rest]

(* buildCanOverlayDocument: only the bit rate changes.                      *)
CanDocument(f, rate) == Ui(rate, IF Exists(overlay, f) THEN overlay[f].rest ELSE 0)
WithoutRate(document) == Ui(0, document.rest)
AfterReset(document) == {None, WithoutRate(document)}

Init ==
  /\ overlay \in [Files -> Contents]
  /\ \A f \in Files : Exists(overlay, f) => overlay[f].rate + overlay[f].rest > 0
  /\ loaded = overlay
  /\ backup = [f \in Files |-> None] /\ committed = [f \in Files |-> None]
  /\ recoveryDone = FALSE
  /\ pendingReset = [i \in Ethernet |-> None] /\ pendingCan = [i \in Can |-> None]
  /\ phase = "down" /\ action = None /\ todo = {}
  /\ targets = {} /\ entire = {} /\ staged = {} /\ promoted = {}
  /\ answer = "none"

-----------------------------------------------------------------------------
(* Requests *)

(* The guard of handleRequest: nothing is handled before the recovery.      *)
Receive ==
  /\ phase = "idle"
  /\ action' \in Actions
  /\ answer' = "none"
  /\ IF recoveryDone
       THEN phase' = "handle" /\ UNCHANGED todo
       ELSE phase' = "recover" /\ todo' = Existing(backup)
  /\ UNCHANGED <<disk, loaded, memory, transaction>>

Answer(outcome) == phase' = "idle" /\ answer' = outcome /\ todo' = {}

HandleRead ==
  /\ phase = "handle" /\ action = "read"
  /\ Answer("success")
  /\ UNCHANGED <<disk, loaded, memory, action, transaction>>

(* Whatever is refused or cannot be found out changes nothing.              *)
HandleRefused ==
  /\ phase = "handle" /\ action \in {"write", "reset", "apply"}
  /\ Answer("failure")
  /\ UNCHANGED <<disk, loaded, memory, action, transaction>>

(* writeOverlay replaces the file at once; an empty document removes it, if *)
(* it is the UI's own.                                                      *)
HandleWrite ==
  /\ phase = "handle" /\ action = "write"
  /\ \E i \in Interfaces, value \in 0..MaxValue : \E f \in NetworkFiles[i] :
       LET document == IF i \in Can THEN CanDocument(f, value) ELSE Ui(0, value)
       IN overlay' = IF document = None /\ ~Owned(f) THEN overlay
                     ELSE Put(overlay, f, document)
  /\ Answer("success")
  /\ UNCHANGED <<backup, committed, loaded, memory, action, transaction>>

(* reset_settings only remembers the interface and its file.                *)
HandleReset ==
  /\ phase = "handle" /\ action = "reset"
  /\ \E i \in Interfaces : \E f \in NetworkFiles[i] :
       /\ Exists(overlay, f) => Owned(f)
       /\ IF i \in Can
            THEN pendingCan' = [pendingCan EXCEPT ![i] = f] /\ UNCHANGED pendingReset
            ELSE pendingReset' = [pendingReset EXCEPT ![i] = f] /\ UNCHANGED pendingCan
  /\ Answer("success")
  /\ UNCHANGED <<disk, loaded, recoveryDone, action, transaction>>

HandleCancel ==
  /\ phase = "handle" /\ action = "cancel"
  /\ \E i \in Interfaces :
       /\ pendingReset' = [j \in Ethernet |-> IF j = i THEN None ELSE pendingReset[j]]
       /\ pendingCan' = [j \in Can |-> IF j = i THEN None ELSE pendingCan[j]]
  /\ Answer("success")
  /\ UNCHANGED <<disk, loaded, recoveryDone, action, transaction>>

-----------------------------------------------------------------------------
(* applyResetTransaction *)

ResetFiles == {pendingReset[i] : i \in Ethernet} \ {None}
CanFiles == {pendingCan[i] : i \in Can} \ {None}

HandleApply ==
  /\ phase = "handle" /\ action = "apply"
  /\ LET files == {f \in ResetFiles \union CanFiles : Exists(overlay, f)} IN
       /\ \A f \in files : Owned(f)
       /\ targets' = files /\ todo' = files
  /\ phase' = "stage"
  /\ entire' = ResetFiles /\ staged' = {} /\ promoted' = {}
  /\ UNCHANGED <<disk, loaded, memory, action, answer>>

(* Each loop visits its files one by one and then goes on.                  *)
Visit(f, here) == phase = here /\ f \in todo /\ todo' = todo \ {f} /\ UNCHANGED phase
After(here, next, files) ==
  /\ phase = here /\ todo = {}
  /\ phase' = next /\ todo' = files
  /\ UNCHANGED <<disk, loaded, memory, action, transaction, answer>>

RollBack(outcome) == phase' = "remove" /\ todo' = staged /\ answer' = outcome

Stage(f) ==
  /\ phase = "stage" /\ f \in todo
  /\ \/ /\ Exists(backup, f) \/ Fails("stage")
        /\ RollBack("write failed")
        /\ UNCHANGED <<overlay, backup, staged>>
     \/ /\ ~Exists(backup, f)
        /\ backup' = Put(backup, f, overlay[f])
        /\ overlay' = Put(overlay, f, None)
        /\ staged' = staged \union {f}
        /\ IF f \in entire THEN todo' = todo \ {f} /\ UNCHANGED phase
                           ELSE phase' = "replace" /\ UNCHANGED todo
        /\ UNCHANGED answer
  /\ UNCHANGED <<committed, loaded, memory, action, targets, entire, promoted>>

(* A CAN reset leaves the other directives.                                 *)
Replace(f) ==
  /\ phase = "replace" /\ f \in todo \intersect staged
  /\ \/ /\ Fails("replace") /\ WithoutRate(backup[f]) # None
        /\ RollBack("write failed")
        /\ UNCHANGED overlay
     \/ /\ overlay' = Put(overlay, f, WithoutRate(backup[f]))
        /\ phase' = "stage" /\ todo' = todo \ {f}
        /\ UNCHANGED answer
  /\ UNCHANGED <<backup, committed, loaded, memory, action, transaction>>

StagedAll == After("stage", "reload", {})

(* networkctl reload; one that fails or takes too long may have been done.  *)
Reload ==
  /\ phase = "reload"
  /\ \/ /\ loaded' = overlay
        /\ phase' = "promote" /\ todo' = staged
        /\ UNCHANGED answer
     \/ /\ Fails("reload") /\ loaded' \in {loaded, overlay}
        /\ RollBack("apply failed")
  /\ UNCHANGED <<disk, memory, action, transaction>>

Promote_WithoutDemoting(f) ==
  /\ phase = "promote" /\ f \in todo
  /\ \/ /\ Exists(committed, f) \/ Fails("promote")
        /\ RollBack("apply failed")
        /\ UNCHANGED <<backup, committed, promoted>>
     \/ /\ committed' = Put(committed, f, backup[f])
        /\ backup' = Put(backup, f, None)
        /\ promoted' = promoted \union {f}
        /\ todo' = todo \ {f}
        /\ UNCHANGED <<phase, answer>>
  /\ UNCHANGED <<overlay, loaded, memory, action, targets, entire, staged>>

Promote(f) ==
  /\ phase = "promote" /\ f \in todo
  /\ \/ /\ Exists(committed, f) \/ Fails("promote")
        /\ phase' = "demote" /\ todo' = promoted /\ answer' = "apply failed"
        /\ UNCHANGED <<backup, committed, promoted>>
     \/ /\ ~Exists(committed, f)
        /\ committed' = Put(committed, f, backup[f])
        /\ backup' = Put(backup, f, None)
        /\ promoted' = promoted \union {f}
        /\ todo' = todo \ {f}
        /\ UNCHANGED <<phase, answer>>
  /\ UNCHANGED <<overlay, loaded, memory, action, targets, entire, staged>>

PromotedAll == After("promote", "clean", promoted)

Clean(f) ==
  /\ Visit(f, "clean")
  /\ \/ committed' = Put(committed, f, None)
     \/ Fails("clean") /\ UNCHANGED committed
  /\ UNCHANGED <<overlay, backup, loaded, memory, action, transaction, answer>>

Finish ==
  /\ phase = "clean" /\ todo = {}
  /\ Answer("success")
  /\ pendingReset' = [i \in Ethernet |-> None] /\ pendingCan' = [i \in Can |-> None]
  /\ UNCHANGED <<disk, loaded, recoveryDone, action, transaction>>

-----------------------------------------------------------------------------
(* The way back *)

Demote(f) ==
  /\ Visit(f, "demote")
  /\ \/ /\ Exists(backup, f) \/ Fails("demote")
        /\ UNCHANGED <<backup, committed, promoted>>
     \/ /\ ~Exists(backup, f)
        /\ backup' = Put(backup, f, committed[f])
        /\ committed' = Put(committed, f, None)
        /\ promoted' = promoted \ {f}
  /\ UNCHANGED <<overlay, loaded, memory, action, targets, entire, staged, answer>>

DemotedAll == After("demote", "remove", staged)

Remove(f) ==
  /\ Visit(f, "remove")
  /\ \/ overlay' = Put(overlay, f, None)
     \/ Fails("remove") /\ UNCHANGED overlay
  /\ UNCHANGED <<backup, committed, loaded, memory, action, transaction, answer>>

RemovedAll == After("remove", "restore", staged)

(* restoreResetBackups                                                      *)
Restore(f) ==
  /\ Visit(f, "restore")
  /\ \/ /\ ~Exists(backup, f) \/ Exists(overlay, f) \/ Fails("restore")
        /\ UNCHANGED <<overlay, backup>>
     \/ /\ Exists(backup, f) /\ ~Exists(overlay, f)
        /\ overlay' = Put(overlay, f, backup[f])
        /\ backup' = Put(backup, f, None)
  /\ UNCHANGED <<committed, loaded, memory, action, transaction, answer>>

Restored == promoted = {} /\ \A f \in staged : ~Exists(backup, f)

(* networkd is told only if it had been told of the reset and all is back.  *)
ReloadBack ==
  /\ phase = "restore" /\ todo = {}
  /\ phase' = "idle"
  /\ \/ /\ answer = "apply failed" /\ Restored
        /\ loaded' = overlay
     \/ /\ answer = "apply failed" /\ Restored => Fails("reload")
        /\ UNCHANGED loaded
  /\ UNCHANGED <<disk, memory, action, todo, transaction, answer>>

-----------------------------------------------------------------------------
(* recoverResetBackups *)

RestoreContents(f) ==
  /\ phase = "recover" /\ f \in todo
  /\ \/ /\ Exists(committed, f)
        /\ Visit(f, "recover")
        /\ UNCHANGED <<overlay, answer>>
     \/ /\ ~Exists(committed, f)
        /\ (Exists(overlay, f) /\ ~Owned(f)) \/ Fails("restore contents")
        /\ Answer("failure")
        /\ UNCHANGED overlay
     \/ /\ ~Exists(committed, f)
        /\ ~(Exists(overlay, f) /\ ~Owned(f))
        /\ overlay' = Put(overlay, f, backup[f])
        /\ Visit(f, "recover")
        /\ UNCHANGED answer
  /\ UNCHANGED <<backup, committed, loaded, memory, action, transaction>>

(* The backups stay until networkd has read what was restored.              *)
RestoredFiles == Existing(backup) \ Existing(committed)
RecoveryReload_IgnoresFailure ==
  /\ phase = "recover" /\ todo = {}
  /\ loaded' = overlay \/ (Fails("recovery reload") /\ UNCHANGED loaded)
  /\ phase' = "recovery clean" /\ todo' = Existing(backup)
  /\ UNCHANGED <<disk, memory, action, transaction, answer>>

RecoveryReload ==
  /\ phase = "recover" /\ todo = {}
  /\ \/ /\ loaded' = IF RestoredFiles = {} THEN loaded ELSE overlay
        /\ phase' = "recovery clean" /\ todo' = Existing(backup)
        /\ UNCHANGED answer
     \/ /\ RestoredFiles # {} /\ Fails("recovery reload")
        /\ loaded' \in {loaded, overlay}
        /\ Answer("failure")
  /\ UNCHANGED <<disk, memory, action, transaction>>

RemoveBackup(f) ==
  /\ Visit(f, "recovery clean")
  /\ \/ backup' = Put(backup, f, None)
     \/ Fails("recovery clean") /\ UNCHANGED backup
  /\ UNCHANGED <<overlay, committed, loaded, memory, action, transaction, answer>>

RemovedBackups == After("recovery clean", "recovery end", Existing(committed))

RemoveCommitted(f) ==
  /\ Visit(f, "recovery end")
  /\ \/ committed' = Put(committed, f, None)
     \/ Fails("recovery clean") /\ UNCHANGED committed
  /\ UNCHANGED <<overlay, backup, loaded, memory, action, transaction, answer>>

Cleaned == Existing(backup) = {} /\ Existing(committed) = {}

RecoveryEnds ==
  /\ phase = "recovery end" /\ todo = {}
  /\ recoveryDone' = Cleaned
  /\ IF Cleaned THEN phase' = "handle" /\ UNCHANGED <<todo, answer>>
                ELSE Answer("failure")
  /\ UNCHANGED <<disk, loaded, pendingReset, pendingCan, action, transaction>>

-----------------------------------------------------------------------------
(* The process, the device and others *)

Crash ==
  /\ phase # "down"
  /\ phase' = "down" /\ action' = None /\ todo' = {}
  /\ recoveryDone' = FALSE
  /\ pendingReset' = [i \in Ethernet |-> None] /\ pendingCan' = [i \in Can |-> None]
  /\ targets' = {} /\ entire' = {} /\ staged' = {} /\ promoted' = {}
  /\ answer' = "none"
  /\ UNCHANGED <<disk, loaded>>

(* The process alone is started again, or the whole device.                 *)
Start ==
  /\ phase = "down" /\ phase' = "idle"
  /\ loaded' \in {loaded, overlay}
  /\ UNCHANGED <<disk, memory, action, todo, transaction, answer>>

(* Somebody else puts a drop-in where there is none.                        *)
External(f) ==
  /\ phase \in {"down", "idle"} /\ ~Exists(overlay, f)
  /\ overlay' = Put(overlay, f, [owner |-> "other", rate |-> 0, rest |-> 1])
  /\ UNCHANGED <<backup, committed, loaded, memory, phase, action, todo, transaction, answer>>

-----------------------------------------------------------------------------
Handle == HandleRead \/ HandleRefused \/ HandleWrite \/ HandleReset \/ HandleCancel
          \/ HandleApply
Apply == StagedAll \/ Reload \/ PromotedAll \/ Finish \/ DemotedAll \/ RemovedAll \/ ReloadBack
FileStep(f) ==
  \/ Stage(f) \/ Replace(f) \/ Promote(f) \/ Clean(f)
  \/ Demote(f) \/ Remove(f) \/ Restore(f)
  \/ RestoreContents(f) \/ RemoveBackup(f) \/ RemoveCommitted(f)
Recovery == RecoveryReload \/ RemovedBackups \/ RecoveryEnds

Next ==
  \/ Receive \/ Handle \/ Apply \/ Recovery \/ Crash \/ Start
  \/ \E f \in Files : FileStep(f) \/ External(f)

Spec == Init /\ [][Next]_vars

-----------------------------------------------------------------------------
(* Properties *)

Operation ==
  IF phase = "down" THEN "down"
  ELSE IF phase = "handle" /\ action = "write" THEN "saving"
  ELSE IF phase \in ResetPhases THEN "resetting"
  ELSE IF phase = "clean" THEN "done" ELSE "none"

(* An uncommitted backup is what the recovery will restore: until then it,   *)
(* not the staged replacement, is what the user has stored.                 *)
Stored ==
  [f \in Files |-> IF Exists(backup, f) /\ ~Exists(committed, f) THEN backup[f] ELSE overlay[f]]

Settings == INSTANCE NetworkSettings WITH
  Reduced   <- AfterReset,
  operation <- Operation,
  stored    <- Stored,
  previous  <- committed

(* A reset takes from all its files or none, unless it crashes in between;  *)
(* no failure and no recovery changes what is stored (API.md:262).          *)
KeepsSettings == Settings!Spec

(* When the recovery gives up the backup of a file it restored, networkd    *)
(* has read the restored file, also if earlier attempts failed halfway      *)
(* (API.md:262).                                                            *)
LoadedBeforeForgotten ==
  [][\A f \in Files :
       phase = "recovery clean" /\ Exists(backup, f) /\ ~Exists(backup', f)
         /\ ~Exists(committed, f) => overlay[f] = backup[f] /\ loaded[f] = overlay[f]]_vars

-----------------------------------------------------------------------------
(* What the code does not keep to *)

(* "At startup and before handling each network action, the backend         *)
(* recovers interrupted reset backups", and no action is handled while that *)
(* is unresolved (API.md:262).  The recovery runs once in a process: when   *)
(* taking back a failed reset fails too, the next action is handled over    *)
(* the backups it left.  It holds only under RollBackSucceeds (below).      *)
HandlesResolved == phase = "handle" => Existing(backup) = {}

-----------------------------------------------------------------------------
(* What makes the properties inductive *)

(* What the recovery has visited it has restored, and then networkd read.   *)
RecoveryInvariant ==
  /\ phase = "recover" =>
       todo \subseteq Existing(backup) /\ \A f \in RestoredFiles \ todo : overlay[f] = backup[f]
  /\ phase = "recovery clean" =>
       \A f \in RestoredFiles : overlay[f] = backup[f] /\ loaded[f] = overlay[f]

(* How far the staging has come: a file is moved aside, and replaced before *)
(* the next one is looked at.                                               *)
Staging ==
  /\ phase \in {"stage", "replace"} =>
       /\ targets = staged \union todo
       /\ \A f \in todo \ staged : Exists(overlay, f)
  /\ phase = "stage" => todo \intersect staged = {}
  /\ phase = "replace" => \A f, g \in todo \intersect staged : f = g /\ Exists(backup, f)

NetworkInvariant == TypeOK /\ RecoveryInvariant /\ Staging

(* The roll-back does its work: its operations succeed, and so does the     *)
(* removal of what a committed reset has left.                              *)
RollBackSucceeds == MayFail \intersect {"demote", "remove", "restore", "clean"} = {}

(* Outside of a recovery, and unless a reset is under way, there is nothing *)
(* to recover from.                                                         *)
RecoveredFirst ==
  /\ recoveryDone => phase \notin {"down", "recover", "recovery clean", "recovery end"}
  /\ phase \in ResetPhases \union {"handle", "clean"} => recoveryDone
  /\ recoveryDone /\ phase \in {"idle", "handle"} =>
       Existing(backup) = {} /\ Existing(committed) = {}

(* Where the settings of a file of the reset are.                           *)
Accounted ==
  /\ Existing(backup) \intersect Existing(committed) = {}
  /\ phase \in ResetPhases => Existing(committed) = promoted
  /\ phase \in ResetPhases \ {"restore"} => Existing(backup) = staged \ promoted
  /\ phase = "restore" => Existing(backup) = todo /\ \A f \in todo : ~Exists(overlay, f)
  /\ phase = "clean" => Existing(backup) = {} /\ Existing(committed) = todo

(* How far the other loops have come.                                       *)
Visited ==
  /\ staged \subseteq targets /\ promoted \subseteq staged
  /\ phase \in {"reload", "promote"} => staged = targets
  /\ phase = "promote" => todo = staged \ promoted
  /\ phase = "demote" => todo = promoted
  /\ phase \in ResetPhases \ {"promote", "demote"} => promoted = {}
  /\ phase = "remove" => todo \subseteq staged /\ \A f \in staged \ todo : ~Exists(overlay, f)

(* What stands in the place of the settings until the reset is final.       *)
Replaced ==
  phase \in {"stage", "replace", "reload", "promote"} =>
    \A f \in staged \ promoted : overlay[f] \in AfterReset(backup[f])

TransactionInvariant == RecoveredFirst /\ Accounted /\ Visited /\ Replaced
=============================================================================
