------------------------- MODULE NetworkReset_proofs -------------------------
(***************************************************************************)
(* Proofs about NetworkReset: what the recovery does with backups, for     *)
(* every set of interfaces and files and whatever fails; and, while the    *)
(* operations of the roll-back itself succeed, that the component          *)
(* implements NetworkSettings.                                             *)
(***************************************************************************)
EXTENDS NetworkReset, TLAPS

-----------------------------------------------------------------------------
(* Documents and files *)

LEMMA DocumentType ==
  /\ \A rate, rest \in 0..MaxValue : Ui(rate, rest) \in Contents
  /\ \A document \in Document : document.rate \in 0..MaxValue /\ document.rest \in 0..MaxValue
  /\ \A document \in Document : AfterReset(document) \subseteq Contents
  /\ [owner |-> "other", rate |-> 0, rest |-> 1] \in Document
  /\ None \notin Document /\ None \notin Files
<1>1. \A rate, rest \in 0..MaxValue : Ui(rate, rest) \in Contents
  BY DEF Ui, Contents, Document
<1>2. \A document \in Document : document.rate \in 0..MaxValue /\ document.rest \in 0..MaxValue
  BY DEF Document
<1>3. 0 \in 0..MaxValue /\ 1 \in 0..MaxValue
  BY NetworkAssumption
<1>4. \A document \in Document : AfterReset(document) \subseteq Contents
  BY <1>1, <1>2, <1>3 DEF AfterReset, WithoutRate, Contents
<1>5. [owner |-> "other", rate |-> 0, rest |-> 1] \in Document
  BY <1>3 DEF Document
<1> QED
  BY <1>1, <1>2, <1>4, <1>5, NoneAssumption

LEMMA PutType ==
  ASSUME NEW where \in [Files -> Contents], NEW f \in Files, NEW document \in Contents
  PROVE  /\ Put(where, f, document) \in [Files -> Contents]
         /\ \A g \in Files : Put(where, f, document)[g] = IF g = f THEN document ELSE where[g]
  BY DEF Put

LEMMA ExistingFiles == Existing(overlay) \subseteq Files /\ Existing(backup) \subseteq Files /\ Existing(committed) \subseteq Files
  BY DEF Existing

(* A save puts one document in the place of another, or changes nothing.    *)
LEMMA WrittenDocument ==
  ASSUME TypeOK, HandleWrite
  PROVE  \/ UNCHANGED overlay
         \/ \E f \in Files, document \in Contents : overlay' = Put(overlay, f, document)
<1>1. PICK i \in Interfaces, value \in 0..MaxValue, f \in Files :
        LET document == IF i \in Can THEN CanDocument(f, value) ELSE Ui(0, value)
        IN overlay' = IF document = None /\ ~Owned(f) THEN overlay ELSE Put(overlay, f, document)
  BY NetworkAssumption DEF HandleWrite
<1>2. f \in Files /\ 0 \in 0..MaxValue
  BY NetworkAssumption
<1>3. CanDocument(f, value) \in Contents /\ Ui(0, value) \in Contents
  BY <1>2, DocumentType DEF TypeOK, CanDocument, Exists, Contents
<1>4. PICK document \in Contents : overlay' = overlay \/ overlay' = Put(overlay, f, document)
  <2>1. CASE i \in Can
    BY <1>1, <1>3, <2>1
  <2>2. CASE i \notin Can
    BY <1>1, <1>3, <2>2
  <2> QED
    BY <2>1, <2>2
<1> QED
  BY <1>4

LEMMA WriteType ==
  ASSUME TypeOK, HandleWrite
  PROVE  TypeOK'
<1>1. overlay' \in [Files -> Contents]
  <2>1. CASE UNCHANGED overlay
    BY <2>1 DEF TypeOK
  <2>2. CASE \E f \in Files, document \in Contents : overlay' = Put(overlay, f, document)
    <3>1. overlay \in [Files -> Contents]
      BY DEF TypeOK
    <3> QED
      BY <2>2, <3>1, PutType
  <2> QED
    BY <2>1, <2>2, WrittenDocument
<1> QED
  BY <1>1 DEF TypeOK, HandleWrite, Answer, disk, memory, transaction, Phases

LEMMA LoopType ==
  ASSUME TypeOK, Staging, NEW f \in Files,
         \/ Stage(f) \/ Replace(f) \/ Promote(f) \/ Clean(f) \/ Demote(f) \/ Remove(f) \/ Restore(f)
  PROVE  TypeOK'
<1>1. /\ overlay \in [Files -> Contents] /\ backup \in [Files -> Contents]
      /\ committed \in [Files -> Contents] /\ overlay[f] \in Contents /\ backup[f] \in Contents
      /\ committed[f] \in Contents /\ None \in Contents
  BY DEF TypeOK, Contents
<1>2. \A document \in Contents :
        /\ Put(overlay, f, document) \in [Files -> Contents]
        /\ Put(backup, f, document) \in [Files -> Contents]
        /\ Put(committed, f, document) \in [Files -> Contents]
  BY <1>1, PutType
<1> USE DEF RollBack, Visit, Phases, ResetPhases, disk, memory, transaction
<1>3. CASE Stage(f)
  BY <1>1, <1>2, <1>3 DEF TypeOK, Stage
<1>4. CASE Replace(f)
  <2>1. backup[f] \in Document
    BY <1>1, <1>4 DEF Staging, Replace, Exists, Contents
  <2>2. WithoutRate(backup[f]) \in Contents
    BY <2>1, DocumentType DEF AfterReset
  <2> QED
    BY <1>1, <1>2, <1>4, <2>2 DEF TypeOK, Replace
<1>5. CASE Promote(f)
  BY <1>1, <1>2, <1>5 DEF TypeOK, Promote
<1>6. CASE Clean(f)
  BY <1>1, <1>2, <1>6 DEF TypeOK, Clean
<1>7. CASE Demote(f)
  BY <1>1, <1>2, <1>7 DEF TypeOK, Demote
<1>8. CASE Remove(f)
  BY <1>1, <1>2, <1>8 DEF TypeOK, Remove
<1>9. CASE Restore(f)
  BY <1>1, <1>2, <1>9 DEF TypeOK, Restore
<1> QED
  BY <1>3, <1>4, <1>5, <1>6, <1>7, <1>8, <1>9

LEMMA RecoveryFileType ==
  ASSUME TypeOK, NEW f \in Files,
         \/ RestoreContents(f) \/ RemoveBackup(f) \/ RemoveCommitted(f) \/ External(f)
  PROVE  TypeOK'
<1>1. /\ overlay \in [Files -> Contents] /\ backup \in [Files -> Contents]
      /\ committed \in [Files -> Contents] /\ backup[f] \in Contents
      /\ [owner |-> "other", rate |-> 0, rest |-> 1] \in Contents /\ None \in Contents
  BY DocumentType DEF TypeOK, Contents
<1>2. \A document \in Contents :
        /\ Put(overlay, f, document) \in [Files -> Contents]
        /\ Put(backup, f, document) \in [Files -> Contents]
        /\ Put(committed, f, document) \in [Files -> Contents]
  BY <1>1, PutType
<1> USE DEF Answer, Visit, Phases, ResetPhases, disk, memory, transaction
<1>3. CASE RestoreContents(f)
  BY <1>1, <1>2, <1>3 DEF TypeOK, RestoreContents
<1>4. CASE RemoveBackup(f)
  BY <1>1, <1>2, <1>4 DEF TypeOK, RemoveBackup
<1>5. CASE RemoveCommitted(f)
  BY <1>1, <1>2, <1>5 DEF TypeOK, RemoveCommitted
<1>6. CASE External(f)
  BY <1>1, <1>2, <1>6 DEF TypeOK, External
<1> QED
  BY <1>3, <1>4, <1>5, <1>6

LEMMA ResetFilesType ==
  ASSUME TypeOK
  PROVE  ResetFiles \subseteq Files /\ CanFiles \subseteq Files
  BY DEF TypeOK, ResetFiles, CanFiles

(* No step breaks TypeOK.                                                   *)
LEMMA TypeStep == TypeOK /\ Staging /\ [Next]_vars => TypeOK'
<1> SUFFICES ASSUME TypeOK, Staging, [Next]_vars
             PROVE  TypeOK'
  OBVIOUS
<1> USE DEF Phases, ResetPhases, Answer, After, disk, memory, transaction
<1>1. CASE UNCHANGED vars
  BY <1>1 DEF TypeOK, vars
<1>2. CASE Receive
  BY <1>2, ExistingFiles DEF TypeOK, Receive
<1>3. CASE HandleRead \/ HandleRefused
  BY <1>3 DEF TypeOK, HandleRead, HandleRefused
<1>4. CASE HandleWrite
  BY <1>4, WriteType
<1>5. CASE HandleReset
  <2>1. PICK i \in Interfaces, f \in Files :
          IF i \in Can THEN pendingCan' = [pendingCan EXCEPT ![i] = f] /\ UNCHANGED pendingReset
                       ELSE pendingReset' = [pendingReset EXCEPT ![i] = f] /\ UNCHANGED pendingCan
    BY <1>5, NetworkAssumption DEF HandleReset
  <2>2. /\ pendingReset' \in [Ethernet -> Files \union {None}]
        /\ pendingCan' \in [Can -> Files \union {None}]
    BY <2>1 DEF TypeOK, Interfaces
  <2> QED
    BY <1>5, <2>2 DEF TypeOK, HandleReset
<1>6. CASE HandleCancel
  BY <1>6 DEF TypeOK, HandleCancel
<1>7. CASE HandleApply
  BY <1>7, ResetFilesType DEF TypeOK, HandleApply
<1>8. CASE Apply
  <2>1. CASE StagedAll \/ PromotedAll \/ DemotedAll \/ RemovedAll \/ ReloadBack
    BY <1>8, <2>1 DEF TypeOK, StagedAll, PromotedAll, DemotedAll, RemovedAll, ReloadBack
  <2>2. CASE Reload
    BY <2>2 DEF TypeOK, Reload, RollBack
  <2>3. CASE Finish
    BY <2>3 DEF TypeOK, Finish
  <2> QED
    BY <1>8, <2>1, <2>2, <2>3 DEF Apply
<1>9. CASE Recovery
  <2>1. CASE RecoveryReload
    <3>1. loaded' \in {loaded, overlay} /\ todo' \in {Existing(backup), {}}
      BY <2>1 DEF RecoveryReload
    <3> QED
      BY <2>1, <3>1, ExistingFiles DEF TypeOK, RecoveryReload
  <2>2. CASE RemovedBackups
    BY <2>2, ExistingFiles DEF TypeOK, RemovedBackups
  <2>3. CASE RecoveryEnds
    <3>1. recoveryDone' \in BOOLEAN
      BY <2>3 DEF RecoveryEnds, Cleaned
    <3> QED
      BY <2>3, <3>1 DEF TypeOK, RecoveryEnds
  <2> QED
    BY <1>9, <2>1, <2>2, <2>3 DEF Recovery
<1>10. CASE Crash \/ Start
  BY <1>10 DEF TypeOK, Crash, Start
<1>11. CASE \E f \in Files : FileStep(f) \/ External(f)
  BY <1>11, LoopType, RecoveryFileType DEF FileStep
<1> QED
  BY <1>1, <1>2, <1>3, <1>4, <1>5, <1>6, <1>7, <1>8, <1>9, <1>10, <1>11 DEF Next, Handle

(* A file is moved aside and replaced before the next one is looked at.     *)
LEMMA StagingStep == TypeOK /\ Staging /\ [Next]_vars => Staging'
<1> SUFFICES ASSUME TypeOK, Staging, [Next]_vars
             PROVE  Staging'
  OBVIOUS
<1> USE DEF disk, memory, transaction
<1>1. CASE UNCHANGED vars
  BY <1>1 DEF Staging, Exists, vars
<1>2. CASE HandleApply
  BY <1>2 DEF HandleApply, Staging, Exists
<1>3. CASE \E f \in Files : Stage(f)
  <2>1. PICK f \in Files : Stage(f)
    BY <1>3
  <2>2. f \in todo \ staged /\ targets = staged \union todo /\ Exists(overlay, f)
    BY <2>1 DEF Stage, Staging
  <2>3. CASE RollBack("write failed")
    BY <2>3 DEF RollBack, Staging
  <2>4. CASE /\ backup' = Put(backup, f, overlay[f]) /\ overlay' = Put(overlay, f, None)
             /\ staged' = staged \union {f}
             /\ IF f \in entire THEN todo' = todo \ {f} /\ UNCHANGED phase
                               ELSE phase' = "replace" /\ UNCHANGED todo
    <3>1. \A g \in Files : g # f => overlay'[g] = overlay[g]
      BY <2>2, <2>4 DEF TypeOK, Put
    <3>2. backup'[f] = overlay[f] /\ f \in Files
      BY <2>2, <2>4 DEF TypeOK, Put
    <3>3. targets' = targets /\ todo \subseteq Files /\ phase = "stage" /\ todo \intersect staged = {}
      BY <2>1 DEF Stage, TypeOK, Staging
    <3> QED
      BY <2>2, <2>4, <3>1, <3>2, <3>3 DEF Staging, Exists
  <2> QED
    BY <2>1, <2>3, <2>4 DEF Stage
<1>4. CASE \E f \in Files : Replace(f)
  <2>1. PICK f \in Files : Replace(f)
    BY <1>4
  <2>2. CASE RollBack("write failed")
    BY <2>2 DEF RollBack, Staging
  <2>3. CASE overlay' = Put(overlay, f, WithoutRate(backup[f])) /\ phase' = "stage" /\ todo' = todo \ {f}
    <3>1. /\ phase = "replace" /\ f \in todo \intersect staged /\ todo \subseteq Files
          /\ UNCHANGED <<backup, targets, staged>>
      BY <2>1 DEF Replace, TypeOK
    <3>2. \A g \in Files : g # f => overlay'[g] = overlay[g]
      BY <2>3 DEF TypeOK, Put
    <3> QED
      BY <2>3, <3>1, <3>2 DEF Staging, Exists
  <2> QED
    BY <2>1, <2>2, <2>3 DEF Replace
<1>5. CASE phase' \notin {"stage", "replace"}
  BY <1>5 DEF Staging
<1>6. CASE HandleRead \/ HandleRefused \/ HandleWrite \/ HandleReset \/ HandleCancel \/ Receive
  BY <1>5, <1>6
  DEF HandleRead, HandleRefused, HandleWrite, HandleReset, HandleCancel, Receive, Answer
<1>7. CASE Apply \/ Recovery \/ Crash \/ Start
  BY <1>5, <1>7
  DEF Apply, StagedAll, Reload, PromotedAll, Finish, DemotedAll, RemovedAll, ReloadBack, After,
      RollBack, Recovery, RecoveryReload, RemovedBackups, RecoveryEnds, Answer, Crash, Start
<1>8. CASE \E f \in Files : Promote(f) \/ Clean(f) \/ Demote(f) \/ Remove(f) \/ Restore(f)
  BY <1>5, <1>8 DEF Promote, Clean, Demote, Remove, Restore, RollBack, Visit
<1>9. CASE \E f \in Files : RestoreContents(f) \/ RemoveBackup(f) \/ RemoveCommitted(f) \/ External(f)
  BY <1>5, <1>9 DEF RestoreContents, RemoveBackup, RemoveCommitted, External, Visit, Answer
<1> QED
  BY <1>1, <1>2, <1>3, <1>4, <1>6, <1>7, <1>8, <1>9 DEF Next, Handle, FileStep

(* What the recovery has visited it has restored, and then networkd read.   *)
LEMMA RecoveryStep == TypeOK /\ RecoveryInvariant /\ [Next]_vars => RecoveryInvariant'
<1> SUFFICES ASSUME TypeOK, RecoveryInvariant, [Next]_vars
             PROVE  RecoveryInvariant'
  OBVIOUS
<1> USE DEF disk, memory, transaction
<1>1. CASE phase' \notin {"recover", "recovery clean"}
  BY <1>1 DEF RecoveryInvariant
<1>2. CASE UNCHANGED vars
  BY <1>2 DEF RecoveryInvariant, RestoredFiles, Existing, Exists, vars
<1>3. CASE Receive
  BY <1>3 DEF Receive, RecoveryInvariant, RestoredFiles, Existing, Exists
<1>4. CASE \E f \in Files : RestoreContents(f)
  <2>1. PICK f \in Files : RestoreContents(f)
    BY <1>4
  <2>2. CASE Answer("failure")
    BY <1>1, <2>2 DEF Answer
  <2>3. CASE Exists(committed, f) /\ UNCHANGED overlay /\ Visit(f, "recover")
    BY <2>1, <2>3 DEF RestoreContents, Visit, RecoveryInvariant, RestoredFiles, Existing, Exists
  <2>4. CASE overlay' = Put(overlay, f, backup[f]) /\ Visit(f, "recover")
    <3>1. \A g \in Files : overlay'[g] = IF g = f THEN backup[f] ELSE overlay[g]
      BY <2>4 DEF TypeOK, Put
    <3> QED
      BY <2>1, <2>4, <3>1 DEF RestoreContents, Visit, RecoveryInvariant, RestoredFiles, Existing, Exists
  <2> QED
    BY <2>1, <2>2, <2>3, <2>4 DEF RestoreContents
<1>5. CASE RecoveryReload
  BY <1>1, <1>5 DEF RecoveryReload, Answer, RecoveryInvariant, RestoredFiles, Existing, Exists
<1>6. CASE \E f \in Files : RemoveBackup(f)
  <2>1. PICK f \in Files : RemoveBackup(f)
    BY <1>6
  <2>2. \A g \in Files : backup'[g] \in {backup[g], None}
    BY <2>1 DEF RemoveBackup, TypeOK, Put
  <2>3. phase = "recovery clean" /\ UNCHANGED <<overlay, committed, loaded, phase>>
    BY <2>1 DEF RemoveBackup, Visit
  <2> QED
    BY <2>2, <2>3 DEF RecoveryInvariant, RestoredFiles, Existing, Exists
<1>7. CASE Handle
  BY <1>1, <1>7
  DEF Handle, HandleRead, HandleRefused, HandleWrite, HandleReset, HandleCancel, HandleApply, Answer
<1>8. CASE Apply \/ RemovedBackups \/ RecoveryEnds \/ Crash \/ Start
  BY <1>1, <1>8
  DEF Apply, StagedAll, Reload, PromotedAll, Finish, DemotedAll, RemovedAll, ReloadBack, After,
      RollBack, RemovedBackups, RecoveryEnds, Answer, Crash, Start
<1>9. CASE \E f \in Files : \/ Stage(f) \/ Replace(f) \/ Promote(f) \/ Clean(f) \/ Demote(f)
                           \/ Remove(f) \/ Restore(f) \/ RemoveCommitted(f) \/ External(f)
  BY <1>1, <1>9
  DEF Stage, Replace, Promote, Clean, Demote, Remove, Restore, RemoveCommitted, External, RollBack, Visit
<1> QED
  BY <1>2, <1>3, <1>4, <1>5, <1>6, <1>7, <1>8, <1>9 DEF Next, FileStep, Recovery

LEMMA NetworkInit == Init => NetworkInvariant
  BY DEF Init, NetworkInvariant, TypeOK, RecoveryInvariant, Staging, Contents, Phases

(* In every state, whatever fails and whenever the process crashes, the     *)
(* variables have their types and the recovery has restored, and networkd   *)
(* read, what their step says.                                              *)
THEOREM NetworkInvariantHolds == Spec => []NetworkInvariant
<1>1. NetworkInvariant /\ [Next]_vars => NetworkInvariant'
  BY TypeStep, StagingStep, RecoveryStep DEF NetworkInvariant
<1> QED
  BY <1>1, NetworkInit, PTL DEF Spec

(* The recovery gives up the backup of a file only when networkd has read   *)
(* what it restored.                                                        *)
THEOREM LoadedBeforeForgottenHolds == Spec => LoadedBeforeForgotten
<1>1. NetworkInvariant => [\A f \in Files :
        phase = "recovery clean" /\ Exists(backup, f) /\ ~Exists(backup', f)
          /\ ~Exists(committed, f) => overlay[f] = backup[f] /\ loaded[f] = overlay[f]]_vars
  BY DEF NetworkInvariant, RecoveryInvariant, RestoredFiles, Existing
<1> QED
  BY <1>1, NetworkInvariantHolds, PTL DEF Spec, LoadedBeforeForgotten

-----------------------------------------------------------------------------
(* The reset as a transaction *)

(* A file that is written or removed.                                       *)
LEMMA ExistingAfterPut ==
  ASSUME NEW where \in [Files -> Contents], NEW f \in Files, NEW document \in Contents
  PROVE  Existing(Put(where, f, document)) =
           IF document = None THEN Existing(where) \ {f} ELSE Existing(where) \union {f}
  BY DEF Existing, Exists, Put

LEMMA ExistingPrimed ==
  /\ Existing(overlay)' = Existing(overlay')
  /\ Existing(backup)' = Existing(backup')
  /\ Existing(committed)' = Existing(committed')
  BY DEF Existing, Exists

LEMMA ExistsIsExisting ==
  /\ \A f \in Files : Exists(overlay, f) <=> f \in Existing(overlay)
  /\ \A f \in Files : Exists(overlay', f) <=> f \in Existing(overlay')
  /\ \A f \in Files : Exists(backup, f) <=> f \in Existing(backup)
  /\ \A f \in Files : Exists(committed, f) <=> f \in Existing(committed)
  BY DEF Existing

LEMMA Succeeds ==
  ASSUME RollBackSucceeds
  PROVE  ~Fails("demote") /\ ~Fails("remove") /\ ~Fails("restore") /\ ~Fails("clean")
  BY DEF RollBackSucceeds, Fails

(* The parts of the invariant that a phase outside of a reset keeps.        *)
LEMMA OutsideOfReset ==
  ASSUME TransactionInvariant, phase' \notin ResetPhases \union {"clean"}, RecoveredFirst',
         (Existing(backup) \intersect Existing(committed) = {})',
         UNCHANGED <<targets, staged, promoted>>
  PROVE  TransactionInvariant'
  BY DEF TransactionInvariant, Accounted, Visited, Replaced, ResetPhases

LEMMA TransactionStutter ==
  ASSUME TransactionInvariant, UNCHANGED vars
  PROVE  TransactionInvariant'
  BY DEF TransactionInvariant, RecoveredFirst, Accounted, Visited, Replaced, Existing, Exists,
         vars, disk, memory, transaction

(* Requests: the disk changes at most by a write, of an overlay.            *)
LEMMA RequestTransaction ==
  ASSUME NetworkInvariant, TransactionInvariant,
         Receive \/ HandleRead \/ HandleRefused \/ HandleWrite \/ HandleReset \/ HandleCancel
  PROVE  TransactionInvariant'
<1>1. /\ UNCHANGED <<backup, committed, targets, staged, promoted, recoveryDone>>
      /\ phase' \in {"idle", "handle", "recover"}
      /\ phase' = "recover" => ~recoveryDone
      /\ phase' = "handle" => recoveryDone
      /\ phase \in {"idle", "handle"}
  BY DEF Receive, HandleRead, HandleRefused, HandleWrite, HandleReset, HandleCancel, Answer, disk,
         memory, transaction
<1>2. Existing(backup)' = Existing(backup) /\ Existing(committed)' = Existing(committed)
  BY <1>1 DEF Existing, Exists
<1>3. RecoveredFirst'
  BY <1>1, <1>2 DEF TransactionInvariant, RecoveredFirst, ResetPhases
<1>4. (Existing(backup) \intersect Existing(committed) = {})'
  BY <1>2 DEF TransactionInvariant, Accounted
<1> QED
  BY <1>1, <1>3, <1>4, OutsideOfReset DEF ResetPhases

LEMMA HandleApplyTransaction ==
  ASSUME NetworkInvariant, TransactionInvariant, HandleApply
  PROVE  TransactionInvariant'
<1>1. /\ phase = "handle" /\ phase' = "stage" /\ staged' = {} /\ promoted' = {}
      /\ UNCHANGED <<backup, committed, recoveryDone>>
  BY DEF HandleApply, disk, memory
<1>2. Existing(backup)' = Existing(backup) /\ Existing(committed)' = Existing(committed)
  BY <1>1 DEF Existing, Exists
<1> QED
  BY <1>1, <1>2 DEF TransactionInvariant, RecoveredFirst, Accounted, Visited, Replaced, ResetPhases

(* The staging.                                                             *)
LEMMA StageTransaction ==
  ASSUME NetworkInvariant, TransactionInvariant, NEW f \in Files, Stage(f)
  PROVE  TransactionInvariant'
<1>1. /\ phase = "stage" /\ f \in todo \ staged /\ Exists(overlay, f) /\ promoted = {}
      /\ targets = staged \union todo /\ todo \subseteq Files
      /\ UNCHANGED <<committed, recoveryDone, targets, promoted>>
  BY DEF Stage, NetworkInvariant, TypeOK, Staging, TransactionInvariant, Visited, ResetPhases, memory
<1>2. Existing(committed)' = Existing(committed)
  BY <1>1 DEF Existing, Exists
<1>3. CASE RollBack("write failed") /\ UNCHANGED <<overlay, backup, staged>>
  <2>1. Existing(backup)' = Existing(backup)
    BY <1>3 DEF Existing, Exists
  <2> QED
    BY <1>1, <1>2, <1>3, <2>1
    DEF RollBack, TransactionInvariant, RecoveredFirst, Accounted, Visited, Replaced, ResetPhases
<1>4. CASE /\ backup' = Put(backup, f, overlay[f]) /\ overlay' = Put(overlay, f, None)
           /\ staged' = staged \union {f} /\ phase' \in {"stage", "replace"}
  <2>1. /\ \A g \in Files : overlay'[g] = IF g = f THEN None ELSE overlay[g]
        /\ \A g \in Files : backup'[g] = IF g = f THEN overlay[f] ELSE backup[g]
    BY <1>4 DEF NetworkInvariant, TypeOK, Put
  <2>2. Existing(backup)' = Existing(backup) \union {f}
    BY <1>1, <2>1 DEF Existing, Exists
  <2>3. Replaced'
    BY <1>1, <1>4, <2>1 DEF TransactionInvariant, Replaced, AfterReset, NetworkInvariant, TypeOK
  <2>4. RecoveredFirst'
    BY <1>1, <1>4 DEF TransactionInvariant, RecoveredFirst, ResetPhases
  <2>5. Visited'
    BY <1>1, <1>4 DEF TransactionInvariant, Visited, ResetPhases
  <2>6. Accounted'
    BY <1>1, <1>2, <1>4, <2>2 DEF TransactionInvariant, Accounted, ResetPhases
  <2> QED
    BY <2>3, <2>4, <2>5, <2>6 DEF TransactionInvariant
<1> QED
  BY <1>1, <1>3, <1>4 DEF Stage

LEMMA ReplaceTransaction ==
  ASSUME NetworkInvariant, TransactionInvariant, NEW f \in Files, Replace(f)
  PROVE  TransactionInvariant'
<1>1. /\ phase = "replace" /\ f \in staged /\ promoted = {}
      /\ UNCHANGED <<backup, committed, recoveryDone, targets, staged, promoted>>
  BY DEF Replace, TransactionInvariant, Visited, ResetPhases, memory, transaction
<1>2. Existing(committed)' = Existing(committed) /\ Existing(backup)' = Existing(backup)
  BY <1>1 DEF Existing, Exists
<1>3. CASE RollBack("write failed") /\ UNCHANGED overlay
  BY <1>1, <1>2, <1>3
  DEF RollBack, TransactionInvariant, RecoveredFirst, Accounted, Visited, Replaced, ResetPhases
<1>4. CASE overlay' = Put(overlay, f, WithoutRate(backup[f])) /\ phase' = "stage"
  <2>1. \A g \in Files : overlay'[g] = IF g = f THEN WithoutRate(backup[f]) ELSE overlay[g]
    BY <1>4 DEF NetworkInvariant, TypeOK, Put
  <2>2. Replaced'
    BY <1>1, <1>4, <2>1 DEF TransactionInvariant, Replaced, AfterReset, NetworkInvariant, TypeOK
  <2> QED
    BY <1>1, <1>2, <1>4, <2>2
    DEF TransactionInvariant, RecoveredFirst, Accounted, Visited, ResetPhases
<1> QED
  BY <1>3, <1>4 DEF Replace

(* The reset as a whole, once all files are staged.                         *)
LEMMA ApplyTransaction ==
  ASSUME NetworkInvariant, TransactionInvariant, Apply
  PROVE  TransactionInvariant'
<1>1. UNCHANGED <<backup, committed, overlay, recoveryDone, targets, staged, promoted>>
  BY DEF Apply, StagedAll, Reload, PromotedAll, Finish, DemotedAll, RemovedAll, ReloadBack, After,
         disk, memory, transaction
<1>2. Existing(committed)' = Existing(committed) /\ Existing(backup)' = Existing(backup)
  BY <1>1 DEF Existing, Exists
<1> USE DEF TransactionInvariant, RecoveredFirst, Accounted, Visited, ResetPhases
<1>3. CASE StagedAll
  BY <1>1, <1>2, <1>3 DEF StagedAll, After, Replaced, NetworkInvariant, Staging
<1>4. CASE Reload
  <2>1. phase' \in {"promote", "remove"} /\ todo' = staged /\ phase = "reload"
    BY <1>4 DEF Reload, RollBack
  <2> QED
    BY <1>1, <1>2, <2>1 DEF Replaced
<1>5. CASE PromotedAll
  BY <1>1, <1>2, <1>5 DEF PromotedAll, After, Replaced
<1>6. CASE Finish
  BY <1>1, <1>2, <1>6 DEF Finish, Answer, Replaced
<1>7. CASE DemotedAll
  BY <1>1, <1>2, <1>7 DEF DemotedAll, After, Replaced
<1>8. CASE RemovedAll
  <2>1. phase = "remove" /\ todo = {} /\ phase' = "restore" /\ todo' = staged
    BY <1>8 DEF RemovedAll, After
  <2>2. \A f \in staged : ~Exists(overlay, f)'
    BY <1>1, <2>1 DEF Exists
  <2> QED
    BY <1>1, <1>2, <2>1, <2>2 DEF Replaced
<1>9. CASE ReloadBack
  BY <1>1, <1>2, <1>9 DEF ReloadBack, Replaced
<1> QED
  BY <1>3, <1>4, <1>5, <1>6, <1>7, <1>8, <1>9 DEF Apply

(* The loops after the reload, forward and back.                            *)
LEMMA PromoteTransaction ==
  ASSUME NetworkInvariant, TransactionInvariant, NEW f \in Files, Promote(f)
  PROVE  TransactionInvariant'
<1>1. /\ phase = "promote" /\ f \in todo /\ todo = staged \ promoted /\ staged = targets
      /\ Exists(backup, f) /\ UNCHANGED <<overlay, recoveryDone, targets, staged>>
  BY DEF Promote, TransactionInvariant, Visited, Accounted, ResetPhases, Existing, memory
<1>2. CASE phase' = "demote" /\ todo' = promoted /\ UNCHANGED <<backup, committed, promoted>>
  <2>1. Existing(committed)' = Existing(committed) /\ Existing(backup)' = Existing(backup)
    BY <1>2 DEF Existing, Exists
  <2> QED
    BY <1>1, <1>2, <2>1
    DEF TransactionInvariant, RecoveredFirst, Accounted, Visited, Replaced, ResetPhases
<1>3. CASE /\ committed' = Put(committed, f, backup[f]) /\ backup' = Put(backup, f, None)
           /\ promoted' = promoted \union {f} /\ todo' = todo \ {f} /\ UNCHANGED phase
  <2>1. /\ \A g \in Files : committed'[g] = IF g = f THEN backup[f] ELSE committed[g]
        /\ \A g \in Files : backup'[g] = IF g = f THEN None ELSE backup[g]
    BY <1>3 DEF NetworkInvariant, TypeOK, Put
  <2>2. /\ Existing(backup)' = Existing(backup) \ {f}
        /\ Existing(committed)' = Existing(committed) \union {f}
    BY <1>1, <2>1 DEF Existing, Exists
  <2>3. Replaced'
    BY <1>1, <1>3, <2>1 DEF TransactionInvariant, Replaced, AfterReset, NetworkInvariant, TypeOK
  <2>4. Accounted'
    BY <1>1, <1>3, <2>2 DEF TransactionInvariant, Accounted, ResetPhases
  <2> QED
    BY <1>1, <1>3, <2>3, <2>4 DEF TransactionInvariant, RecoveredFirst, Visited, ResetPhases
<1> QED
  BY <1>2, <1>3 DEF Promote

LEMMA CleanTransaction ==
  ASSUME NetworkInvariant, TransactionInvariant, RollBackSucceeds, NEW f \in Files, Clean(f)
  PROVE  TransactionInvariant'
<1>1. /\ phase = "clean" /\ phase' = "clean" /\ f \in todo /\ todo' = todo \ {f}
      /\ committed' = Put(committed, f, None)
      /\ UNCHANGED <<overlay, backup, recoveryDone, targets, staged, promoted>>
  BY Succeeds DEF Clean, Visit, memory, transaction
<1>2. \A g \in Files : committed'[g] = IF g = f THEN None ELSE committed[g]
  BY <1>1 DEF NetworkInvariant, TypeOK, Put
<1>3. Existing(backup)' = Existing(backup) /\ Existing(committed)' = Existing(committed) \ {f}
  BY <1>1, <1>2 DEF Existing, Exists
<1> QED
  BY <1>1, <1>3 DEF TransactionInvariant, RecoveredFirst, Accounted, Visited, Replaced, ResetPhases

LEMMA DemoteTransaction ==
  ASSUME NetworkInvariant, TransactionInvariant, RollBackSucceeds, NEW f \in Files, Demote(f)
  PROVE  TransactionInvariant'
<1>1. /\ phase = "demote" /\ phase' = "demote" /\ f \in todo /\ todo' = todo \ {f} /\ todo = promoted
      /\ f \in staged /\ Exists(committed, f) /\ ~Exists(backup, f)
      /\ UNCHANGED <<overlay, recoveryDone, targets, staged>>
  BY DEF Demote, Visit, TransactionInvariant, Visited, Accounted, ResetPhases, Existing, memory
<1>2. /\ backup' = Put(backup, f, committed[f]) /\ committed' = Put(committed, f, None)
      /\ promoted' = promoted \ {f}
  BY <1>1, Succeeds DEF Demote
<1>3. /\ \A g \in Files : committed'[g] = IF g = f THEN None ELSE committed[g]
      /\ \A g \in Files : backup'[g] = IF g = f THEN committed[f] ELSE backup[g]
  BY <1>2 DEF NetworkInvariant, TypeOK, Put
<1>4. /\ Existing(backup)' = Existing(backup) \union {f}
      /\ Existing(committed)' = Existing(committed) \ {f}
  BY <1>1, <1>3 DEF Existing, Exists
<1> QED
  BY <1>1, <1>2, <1>4
  DEF TransactionInvariant, RecoveredFirst, Accounted, Visited, Replaced, ResetPhases

LEMMA RemoveTransaction ==
  ASSUME NetworkInvariant, TransactionInvariant, RollBackSucceeds, NEW f \in Files, Remove(f)
  PROVE  TransactionInvariant'
<1>1. /\ phase = "remove" /\ phase' = "remove" /\ f \in todo /\ todo' = todo \ {f}
      /\ overlay' = Put(overlay, f, None)
      /\ UNCHANGED <<backup, committed, recoveryDone, targets, staged, promoted>>
  BY Succeeds DEF Remove, Visit, memory, transaction
<1>2. \A g \in Files : overlay'[g] = IF g = f THEN None ELSE overlay[g]
  BY <1>1 DEF NetworkInvariant, TypeOK, Put
<1>3. Existing(backup)' = Existing(backup) /\ Existing(committed)' = Existing(committed)
  BY <1>1 DEF Existing, Exists
<1>4. \A g \in staged \ todo' : ~Exists(overlay, g)'
  BY <1>1, <1>2 DEF TransactionInvariant, Visited, Exists, NetworkInvariant, TypeOK
<1> QED
  BY <1>1, <1>3, <1>4
  DEF TransactionInvariant, RecoveredFirst, Accounted, Visited, Replaced, ResetPhases

LEMMA RestoreTransaction ==
  ASSUME NetworkInvariant, TransactionInvariant, RollBackSucceeds, NEW f \in Files, Restore(f)
  PROVE  TransactionInvariant'
<1>1. /\ phase = "restore" /\ phase' = "restore" /\ f \in todo /\ todo' = todo \ {f}
      /\ Exists(backup, f) /\ ~Exists(overlay, f)
      /\ UNCHANGED <<committed, recoveryDone, targets, staged, promoted>>
  BY DEF Restore, Visit, TransactionInvariant, Accounted, Existing, memory, transaction
<1>2. overlay' = Put(overlay, f, backup[f]) /\ backup' = Put(backup, f, None)
  BY <1>1, Succeeds DEF Restore
<1>3. /\ \A g \in Files : overlay'[g] = IF g = f THEN backup[f] ELSE overlay[g]
      /\ \A g \in Files : backup'[g] = IF g = f THEN None ELSE backup[g]
  BY <1>2 DEF NetworkInvariant, TypeOK, Put
<1>4. Existing(backup)' = Existing(backup) \ {f} /\ Existing(committed)' = Existing(committed)
  BY <1>1, <1>3 DEF Existing, Exists
<1>5. \A g \in todo' : ~Exists(overlay, g)'
  BY <1>1, <1>3 DEF TransactionInvariant, Accounted, Exists, NetworkInvariant, TypeOK
<1> QED
  BY <1>1, <1>4, <1>5
  DEF TransactionInvariant, RecoveredFirst, Accounted, Visited, Replaced, ResetPhases

(* The recovery, the process and others.                                    *)
LEMMA RecoveryTransaction ==
  ASSUME NetworkInvariant, TransactionInvariant,
         \/ RecoveryReload \/ RemovedBackups \/ Start
         \/ \E f \in Files : RestoreContents(f) \/ RemoveBackup(f) \/ RemoveCommitted(f) \/ External(f)
  PROVE  TransactionInvariant'
<1>1. /\ UNCHANGED <<recoveryDone, targets, staged, promoted>>
      /\ ~recoveryDone \/ (UNCHANGED <<backup, committed, phase>> /\ phase = "idle")
      /\ phase' \in {"down", "idle", "recover", "recovery clean", "recovery end"}
  BY DEF TransactionInvariant, RecoveredFirst, RecoveryReload, RemovedBackups, Start, RestoreContents,
         RemoveBackup, RemoveCommitted, External, Visit, Answer, After, disk, memory, transaction
<1>2. \A g \in Files : backup'[g] \in {backup[g], None} /\ committed'[g] \in {committed[g], None}
  BY DEF RecoveryReload, RemovedBackups, Start, RestoreContents, RemoveBackup, RemoveCommitted, External,
         After, disk, Put, NetworkInvariant, TypeOK
<1>3. /\ Existing(backup)' \subseteq Existing(backup)
      /\ Existing(committed)' \subseteq Existing(committed)
  BY <1>2 DEF Existing, Exists
<1>4. RecoveredFirst'
  BY <1>1, <1>3 DEF TransactionInvariant, RecoveredFirst, ResetPhases
<1>5. (Existing(backup) \intersect Existing(committed) = {})'
  BY <1>3 DEF TransactionInvariant, Accounted
<1> QED
  BY <1>1, <1>4, <1>5, OutsideOfReset DEF ResetPhases

LEMMA RecoveryEndsTransaction ==
  ASSUME NetworkInvariant, TransactionInvariant, RecoveryEnds
  PROVE  TransactionInvariant'
<1>1. /\ UNCHANGED <<backup, committed, targets, staged, promoted>>
      /\ recoveryDone' = Cleaned /\ phase' = IF Cleaned THEN "handle" ELSE "idle"
  BY DEF RecoveryEnds, Answer, disk, transaction
<1>2. Existing(backup)' = Existing(backup) /\ Existing(committed)' = Existing(committed)
  BY <1>1 DEF Existing, Exists
<1>3. RecoveredFirst'
  BY <1>1, <1>2 DEF RecoveredFirst, Cleaned, ResetPhases
<1>4. (Existing(backup) \intersect Existing(committed) = {})'
  BY <1>2 DEF TransactionInvariant, Accounted
<1> QED
  BY <1>1, <1>3, <1>4, OutsideOfReset DEF ResetPhases

LEMMA CrashTransaction ==
  ASSUME NetworkInvariant, TransactionInvariant, Crash
  PROVE  TransactionInvariant'
<1>1. /\ UNCHANGED <<backup, committed>> /\ targets' = {} /\ staged' = {} /\ promoted' = {}
      /\ ~recoveryDone' /\ phase' = "down"
  BY DEF Crash, disk
<1>2. Existing(backup)' = Existing(backup) /\ Existing(committed)' = Existing(committed)
  BY <1>1 DEF Existing, Exists
<1> QED
  BY <1>1, <1>2 DEF TransactionInvariant, RecoveredFirst, Accounted, Visited, Replaced, ResetPhases

(* No step breaks TransactionInvariant while the roll-back does its work.   *)
THEOREM TransactionStep ==
  NetworkInvariant /\ RollBackSucceeds /\ TransactionInvariant /\ [Next]_vars => TransactionInvariant'
<1> SUFFICES ASSUME NetworkInvariant, RollBackSucceeds, TransactionInvariant, [Next]_vars
             PROVE  TransactionInvariant'
  OBVIOUS
<1>1. CASE Receive \/ Handle
  BY <1>1, RequestTransaction, HandleApplyTransaction DEF Handle
<1>2. CASE Apply
  BY <1>2, ApplyTransaction
<1>3. CASE Recovery \/ Crash \/ Start
  BY <1>3, RecoveryTransaction, RecoveryEndsTransaction, CrashTransaction DEF Recovery
<1>4. CASE \E f \in Files : FileStep(f) \/ External(f)
  <2>1. PICK f \in Files : FileStep(f) \/ External(f)
    BY <1>4
  <2>2. CASE Stage(f) \/ Replace(f) \/ Promote(f) \/ Clean(f)
    BY <2>2, StageTransaction, ReplaceTransaction, PromoteTransaction, CleanTransaction
  <2>3. CASE Demote(f) \/ Remove(f) \/ Restore(f)
    BY <2>3, DemoteTransaction, RemoveTransaction, RestoreTransaction
  <2>4. CASE RestoreContents(f) \/ RemoveBackup(f) \/ RemoveCommitted(f) \/ External(f)
    BY <2>4, RecoveryTransaction
  <2> QED
    BY <2>1, <2>2, <2>3, <2>4 DEF FileStep
<1>5. CASE UNCHANGED vars
  BY <1>5, TransactionStutter
<1> QED
  BY <1>1, <1>2, <1>3, <1>4, <1>5 DEF Next

LEMMA TransactionInit == Init => TransactionInvariant
  BY DEF Init, TransactionInvariant, RecoveredFirst, Accounted, Visited, Replaced, Existing, Exists,
         ResetPhases

(* While the operations of the roll-back succeed, a reset that is under way *)
(* is accounted for file by file.                                           *)
THEOREM TransactionInvariantHolds ==
  ASSUME RollBackSucceeds
  PROVE  Spec => []TransactionInvariant
<1>1. NetworkInvariant /\ TransactionInvariant /\ [Next]_vars => TransactionInvariant'
  BY TransactionStep
<1> QED
  BY <1>1, NetworkInvariantHolds, TransactionInit, PTL DEF Spec

-----------------------------------------------------------------------------
(* The component implements NetworkSettings *)

LEMMA StoredAt ==
  /\ \A f \in Files :
       Stored[f] = IF Exists(backup, f) /\ ~Exists(committed, f) THEN backup[f] ELSE overlay[f]
  /\ \A f \in Files :
       Stored'[f] = IF Exists(backup', f) /\ ~Exists(committed', f) THEN backup'[f] ELSE overlay'[f]
  BY DEF Stored, Exists

LEMMA StoredUnchanged ==
  ASSUME \A f \in Files : Stored'[f] = Stored[f]
  PROVE  Stored' = Stored
  BY DEF Stored

LEMMA StoredChanged ==
  ASSUME NEW f \in Files, NEW document, \A g \in Files : Stored'[g] = IF g = f THEN document ELSE Stored[g]
  PROVE  Stored' = [Stored EXCEPT ![f] = document]
<1>1. /\ Stored' = [g \in Files |-> Stored'[g]]
      /\ [Stored EXCEPT ![f] = document] = [g \in Files |-> IF g = f THEN document ELSE Stored[g]]
  BY DEF Stored
<1> QED
  BY <1>1

(* What leaves the files and the operation as they are is a stutter.        *)
LEMMA SettingsStutter ==
  ASSUME UNCHANGED <<Operation, targets, committed>>, \A f \in Files : Stored'[f] = Stored[f]
  PROVE  UNCHANGED Settings!vars
  BY StoredUnchanged DEF Settings!vars

LEMMA SettingsInit == Init => Settings!Init
<1> SUFFICES ASSUME Init PROVE Settings!Init
  OBVIOUS
<1>1. Stored \in [Files -> Contents] /\ Operation = "down"
  BY DEF Init, Stored, Operation, Exists
<1> QED
  BY <1>1 DEF Init, Settings!Init, Contents

LEMMA SameDisk ==
  ASSUME UNCHANGED disk
  PROVE  \A f \in Files : Stored'[f] = Stored[f]
  BY StoredAt DEF disk, Exists

(* Requests.                                                                *)
LEMMA RequestSettings ==
  ASSUME Receive \/ HandleRead \/ HandleRefused \/ HandleReset \/ HandleCancel \/ HandleApply,
         TypeOK, TypeOK'
  PROVE  [Settings!Next]_(Settings!vars)
<1>1. UNCHANGED disk /\ UNCHANGED committed /\ Stored' = Stored
  BY SameDisk, StoredUnchanged
  DEF Receive, HandleRead, HandleRefused, HandleReset, HandleCancel, HandleApply, disk
<1>2. CASE Receive
  <2>1. Operation = "none" /\ Operation' \in {"none", "saving"} /\ targets' = targets
    BY <1>2 DEF Receive, Operation, ResetPhases, transaction
  <2> QED
    BY <1>1, <2>1 DEF Settings!vars, Settings!Next, Settings!Begin, Settings!Goes
<1>3. CASE HandleRead \/ HandleReset \/ HandleCancel
  <2>1. Operation = "none" /\ Operation' = "none" /\ targets' = targets
    BY <1>3 DEF HandleRead, HandleReset, HandleCancel, Answer, Operation, ResetPhases, transaction
  <2> QED
    BY <1>1, <2>1 DEF Settings!vars
<1>4. CASE HandleRefused
  <2>1. Operation \in {"none", "saving"} /\ Operation' = "none" /\ targets' = targets
    BY <1>4 DEF HandleRefused, Answer, Operation, ResetPhases, transaction
  <2> QED
    BY <1>1, <2>1 DEF Settings!vars, Settings!Next, Settings!Save, Settings!Goes
<1>5. CASE HandleApply
  <2>1. Operation = "none" /\ Operation' = "resetting" /\ targets' \subseteq Files
    BY <1>5 DEF HandleApply, Operation, ResetPhases, TypeOK
  <2> QED
    BY <1>1, <2>1 DEF Settings!Next, Settings!Begin, Settings!Goes
<1> QED
  BY <1>2, <1>3, <1>4, <1>5

LEMMA WriteSettings ==
  ASSUME NetworkInvariant, TransactionInvariant, HandleWrite
  PROVE  Settings!Save
<1>1. Operation = "saving" /\ Operation' = "none" /\ UNCHANGED <<targets, committed, backup>>
  BY DEF HandleWrite, Answer, Operation, ResetPhases, transaction
<1>2. \A f \in Files : ~Exists(backup, f) /\ ~Exists(backup', f)
  BY <1>1 DEF TransactionInvariant, RecoveredFirst, HandleWrite, Existing, Exists
<1>3. \A f \in Files : Stored[f] = overlay[f] /\ Stored'[f] = overlay'[f]
  BY <1>2, StoredAt
<1>4. CASE UNCHANGED overlay
  BY <1>1, <1>3, <1>4, StoredUnchanged DEF Settings!Save, Settings!Goes
<1>5. CASE \E f \in Files, document \in Contents : overlay' = Put(overlay, f, document)
  <2>1. PICK f \in Files, document \in Contents : overlay' = Put(overlay, f, document)
    BY <1>5
  <2>2. \A g \in Files : overlay'[g] = IF g = f THEN document ELSE overlay[g]
    BY <2>1 DEF NetworkInvariant, TypeOK, Put
  <2>3. Stored' = [Stored EXCEPT ![f] = document]
    BY <1>3, <2>2, StoredChanged
  <2> QED
    BY <1>1, <2>3 DEF Settings!Save, Settings!Goes, Contents
<1> QED
  BY <1>4, <1>5, WrittenDocument DEF NetworkInvariant

(* Staging, reloading and the removal of what is in the place of a backup   *)
(* leave the settings where they are.                                       *)
LEMMA StageSettings ==
  ASSUME NetworkInvariant, TransactionInvariant, NEW f \in Files, Stage(f)
  PROVE  UNCHANGED Settings!vars
<1>1. /\ phase = "stage" /\ phase' \in {"stage", "replace", "remove"}
      /\ UNCHANGED <<targets, committed>> /\ Exists(overlay, f) /\ ~Exists(committed, f)
      /\ ~Exists(backup, f)
  BY DEF Stage, RollBack, NetworkInvariant, Staging, TransactionInvariant, Accounted, Visited,
         ResetPhases, Existing
<1>2. UNCHANGED Operation
  BY <1>1 DEF Operation, ResetPhases
<1>3. CASE UNCHANGED <<overlay, backup>>
  BY <1>1, <1>2, <1>3, SameDisk, SettingsStutter DEF disk
<1>4. CASE backup' = Put(backup, f, overlay[f]) /\ overlay' = Put(overlay, f, None)
  <2>1. /\ \A g \in Files : overlay'[g] = IF g = f THEN None ELSE overlay[g]
        /\ \A g \in Files : backup'[g] = IF g = f THEN overlay[f] ELSE backup[g]
    BY <1>4 DEF NetworkInvariant, TypeOK, Put
  <2>2. \A g \in Files : Stored'[g] = Stored[g]
    BY <1>1, <2>1, StoredAt DEF Exists
  <2> QED
    BY <1>1, <1>2, <2>2, SettingsStutter
<1> QED
  BY <1>3, <1>4 DEF Stage

LEMMA BackedUp ==
  ASSUME NetworkInvariant, TransactionInvariant, NEW f \in Files, Replace(f) \/ Remove(f)
  PROVE  UNCHANGED Settings!vars
<1>1. /\ phase \in ResetPhases /\ phase' \in ResetPhases /\ UNCHANGED <<targets, committed, backup>>
      /\ Exists(backup, f) /\ ~Exists(committed, f)
  BY DEF Replace, Remove, Visit, RollBack, TransactionInvariant, Accounted, Visited, ResetPhases,
         Existing, transaction
<1>2. UNCHANGED Operation
  BY <1>1 DEF Operation, ResetPhases
<1>3. \A g \in Files : g # f => overlay'[g] = overlay[g]
  BY DEF Replace, Remove, NetworkInvariant, TypeOK, Put
<1>4. \A g \in Files : Stored'[g] = Stored[g]
  BY <1>1, <1>3, StoredAt DEF Exists
<1> QED
  BY <1>1, <1>2, <1>4, SettingsStutter

LEMMA RestoreSettings ==
  ASSUME NetworkInvariant, TransactionInvariant, NEW f \in Files, Restore(f)
  PROVE  UNCHANGED Settings!vars
<1>1. /\ phase = "restore" /\ phase' = "restore" /\ UNCHANGED <<targets, committed>>
      /\ Exists(backup, f) /\ ~Exists(committed, f)
  BY DEF Restore, Visit, TransactionInvariant, Accounted, Existing, transaction
<1>2. UNCHANGED Operation
  BY <1>1 DEF Operation, ResetPhases
<1>3. CASE UNCHANGED <<overlay, backup>>
  BY <1>1, <1>2, <1>3, SameDisk, SettingsStutter DEF disk
<1>4. CASE overlay' = Put(overlay, f, backup[f]) /\ backup' = Put(backup, f, None)
  <2>1. /\ \A g \in Files : overlay'[g] = IF g = f THEN backup[f] ELSE overlay[g]
        /\ \A g \in Files : backup'[g] = IF g = f THEN None ELSE backup[g]
    BY <1>4 DEF NetworkInvariant, TypeOK, Put
  <2>2. \A g \in Files : Stored'[g] = Stored[g]
    BY <1>1, <2>1, StoredAt DEF Exists
  <2> QED
    BY <1>1, <1>2, <2>2, SettingsStutter
<1> QED
  BY <1>3, <1>4 DEF Restore

(* A reset takes from one file after the other, and gives back.             *)
LEMMA PromoteSettings ==
  ASSUME NetworkInvariant, TransactionInvariant, NEW f \in Files, Promote(f)
  PROVE  [Settings!Next]_(Settings!vars)
<1>1. /\ phase = "promote" /\ phase' \in {"promote", "demote"} /\ UNCHANGED <<targets, overlay>>
      /\ f \in targets /\ Exists(backup, f) /\ ~Exists(committed, f)
      /\ overlay[f] \in AfterReset(backup[f])
  BY DEF Promote, TransactionInvariant, Accounted, Visited, Replaced, ResetPhases, Existing
<1>2. Operation = "resetting" /\ Operation' = "resetting"
  BY <1>1 DEF Operation, ResetPhases
<1>3. CASE UNCHANGED <<backup, committed>>
  BY <1>1, <1>2, <1>3, SameDisk, SettingsStutter DEF disk
<1>4. CASE committed' = Put(committed, f, backup[f]) /\ backup' = Put(backup, f, None)
  <2>1. /\ \A g \in Files : committed'[g] = IF g = f THEN backup[f] ELSE committed[g]
        /\ \A g \in Files : backup'[g] = IF g = f THEN None ELSE backup[g]
    BY <1>4 DEF NetworkInvariant, TypeOK, Put
  <2>2. Stored[f] = backup[f]
    BY <1>1, StoredAt
  <2>3. Stored' = [Stored EXCEPT ![f] = overlay[f]]
    <3>1. \A g \in Files : Stored'[g] = IF g = f THEN overlay[f] ELSE Stored[g]
      BY <1>1, <2>1, StoredAt DEF Exists
    <3> QED
      BY <3>1, StoredChanged
  <2>4. committed' = [committed EXCEPT ![f] = Stored[f]] /\ committed[f] = None
    BY <1>1, <1>4, <2>2 DEF Put, Exists
  <2>5. Settings!Reset(f)
    BY <1>1, <1>2, <2>2, <2>3, <2>4 DEF Settings!Reset, Settings!Goes
  <2> QED
    BY <2>5 DEF Settings!Next
<1> QED
  BY <1>3, <1>4 DEF Promote

LEMMA DemoteSettings ==
  ASSUME NetworkInvariant, TransactionInvariant, RollBackSucceeds, NEW f \in Files, Demote(f)
  PROVE  Settings!Undo(f)
<1>1. /\ phase = "demote" /\ phase' = "demote" /\ Exists(committed, f) /\ ~Exists(backup, f)
      /\ UNCHANGED <<overlay, targets>>
  BY DEF Demote, Visit, TransactionInvariant, Visited, Accounted, ResetPhases, Existing
<1>2. backup' = Put(backup, f, committed[f]) /\ committed' = Put(committed, f, None)
  BY <1>1, Succeeds DEF Demote
<1>3. /\ \A g \in Files : committed'[g] = IF g = f THEN None ELSE committed[g]
      /\ \A g \in Files : backup'[g] = IF g = f THEN committed[f] ELSE backup[g]
  BY <1>2 DEF NetworkInvariant, TypeOK, Put
<1>4. \A g \in Files : Stored'[g] = IF g = f THEN committed[f] ELSE Stored[g]
  BY <1>1, <1>3, StoredAt DEF Exists
<1>5. Stored' = [Stored EXCEPT ![f] = committed[f]]
  BY <1>4, StoredChanged
<1>6. Operation = "resetting" /\ Operation' = "resetting"
  BY <1>1 DEF Operation, ResetPhases
<1> QED
  BY <1>1, <1>2, <1>5, <1>6 DEF Settings!Undo, Settings!Goes, Exists, Put

LEMMA CleanSettings ==
  ASSUME NetworkInvariant, TransactionInvariant, RollBackSucceeds, NEW f \in Files, Clean(f)
  PROVE  Settings!Forget(f)
<1>1. /\ phase = "clean" /\ phase' = "clean" /\ committed' = Put(committed, f, None)
      /\ UNCHANGED <<overlay, backup, targets>>
  BY Succeeds DEF Clean, Visit, transaction
<1>2. \A g \in Files : ~Exists(backup, g) /\ ~Exists(backup', g)
  BY <1>1 DEF TransactionInvariant, Accounted, Existing
<1>3. Stored' = Stored
  BY <1>1, <1>2, StoredAt, StoredUnchanged
<1>4. Operation = "done" /\ Operation' = "done"
  BY <1>1 DEF Operation, ResetPhases
<1> QED
  BY <1>1, <1>3, <1>4 DEF Settings!Forget, Settings!Goes, Put

(* The reset as a whole.                                                    *)
LEMMA ApplySettings ==
  ASSUME NetworkInvariant, TransactionInvariant, Apply
  PROVE  [Settings!Next]_(Settings!vars)
<1>1. UNCHANGED disk /\ UNCHANGED <<committed, targets>> /\ Stored' = Stored
  BY SameDisk, StoredUnchanged
  DEF Apply, StagedAll, Reload, PromotedAll, Finish, DemotedAll, RemovedAll, ReloadBack, After,
      disk, transaction
<1>2. CASE StagedAll \/ Reload \/ DemotedAll \/ RemovedAll
  <2>1. Operation = "resetting" /\ Operation' = "resetting"
    BY <1>2 DEF StagedAll, Reload, DemotedAll, RemovedAll, After, RollBack, Operation, ResetPhases
  <2> QED
    BY <1>1, <2>1 DEF Settings!vars
<1>3. CASE PromotedAll
  <2>1. Operation = "resetting" /\ Operation' = "done"
    BY <1>3 DEF PromotedAll, After, Operation, ResetPhases
  <2>2. \A f \in targets : committed[f] # None
    BY <1>3 DEF PromotedAll, After, TransactionInvariant, Visited, Accounted, ResetPhases, Existing, Exists
  <2> QED
    BY <1>1, <2>1, <2>2 DEF Settings!Next, Settings!Commit, Settings!Goes
<1>4. CASE Finish
  <2>1. Operation = "done" /\ Operation' = "none"
    BY <1>4 DEF Finish, Answer, Operation, ResetPhases
  <2> QED
    BY <1>1, <2>1 DEF Settings!Next, Settings!Finish, Settings!Goes
<1>5. CASE ReloadBack
  <2>1. Operation = "resetting" /\ Operation' = "none"
    BY <1>5 DEF ReloadBack, Operation, ResetPhases
  <2>2. \A f \in Files : committed[f] = None
    BY <1>5 DEF ReloadBack, TransactionInvariant, Visited, Accounted, ResetPhases, Existing, Exists
  <2> QED
    BY <1>1, <2>1, <2>2 DEF Settings!Next, Settings!Abort, Settings!Goes
<1> QED
  BY <1>2, <1>3, <1>4, <1>5 DEF Apply

(* The recovery brings back what was stored, and drops the rest.            *)
LEMMA RecoverySettings ==
  ASSUME TypeOK, Recovery
  PROVE  [Settings!Next]_(Settings!vars)
<1>1. UNCHANGED disk /\ UNCHANGED <<committed, targets>> /\ Stored' = Stored
  BY SameDisk, StoredUnchanged
  DEF Recovery, RecoveryReload, RemovedBackups, RecoveryEnds, After, disk, transaction
<1>2. Operation = "none" /\ Operation' \in {"none", "saving"}
  BY DEF Recovery, RecoveryReload, RemovedBackups, RecoveryEnds, After, Answer, Operation, ResetPhases
<1> QED
  BY <1>1, <1>2 DEF Settings!vars, Settings!Next, Settings!Begin, Settings!Goes

LEMMA RestoreContentsSettings ==
  ASSUME NetworkInvariant, NEW f \in Files, RestoreContents(f)
  PROVE  UNCHANGED Settings!vars
<1>1. /\ phase = "recover" /\ phase' \in {"idle", "recover"}
      /\ UNCHANGED <<targets, committed, backup>>
      /\ UNCHANGED overlay \/ (~Exists(committed, f) /\ overlay' = Put(overlay, f, backup[f]))
      /\ Exists(backup, f)
  BY DEF RestoreContents, Visit, Answer, transaction, NetworkInvariant, RecoveryInvariant, Existing
<1>2. UNCHANGED Operation
  BY <1>1 DEF Operation, ResetPhases
<1>3. \A g \in Files : g # f \/ Exists(committed, f) => overlay'[g] = overlay[g]
  BY <1>1 DEF NetworkInvariant, TypeOK, Put
<1>4. \A g \in Files : Stored'[g] = Stored[g]
  BY <1>1, <1>3, StoredAt DEF Exists, Existing
<1> QED
  BY <1>1, <1>2, <1>4, SettingsStutter

LEMMA RemoveBackupSettings ==
  ASSUME NetworkInvariant, NEW f \in Files, RemoveBackup(f)
  PROVE  UNCHANGED Settings!vars
<1>1. /\ phase = "recovery clean" /\ phase' = "recovery clean"
      /\ UNCHANGED <<targets, committed, overlay>>
  BY DEF RemoveBackup, Visit, transaction
<1>2. UNCHANGED Operation
  BY <1>1 DEF Operation, ResetPhases
<1>3. \A g \in Files : backup'[g] \in {backup[g], None}
  BY DEF RemoveBackup, NetworkInvariant, TypeOK, Put
<1>4. \A g \in Files : Exists(backup, g) /\ ~Exists(committed, g) => overlay[g] = backup[g]
  BY <1>1 DEF NetworkInvariant, RecoveryInvariant, RestoredFiles, Existing
<1>5. \A g \in Files : Stored'[g] = Stored[g]
  BY <1>1, <1>3, <1>4, StoredAt DEF Exists
<1> QED
  BY <1>1, <1>2, <1>5, SettingsStutter

LEMMA RemoveCommittedSettings ==
  ASSUME NetworkInvariant, TransactionInvariant, NEW f \in Files, RemoveCommitted(f)
  PROVE  [Settings!Next]_(Settings!vars)
<1>1. /\ phase = "recovery end" /\ phase' = "recovery end"
      /\ UNCHANGED <<targets, backup, overlay>> /\ ~(Exists(backup, f) /\ Exists(committed, f))
  BY DEF RemoveCommitted, Visit, transaction, TransactionInvariant, Accounted, Existing
<1>2. Operation = "none" /\ Operation' = "none"
  BY <1>1 DEF Operation, ResetPhases
<1>3. CASE UNCHANGED committed
  BY <1>1, <1>2, <1>3, SameDisk, SettingsStutter DEF disk
<1>4. CASE committed' = Put(committed, f, None)
  <2>1. \A g \in Files : committed'[g] = IF g = f THEN None ELSE committed[g]
    BY <1>4 DEF NetworkInvariant, TypeOK, Put
  <2>2. \A g \in Files : Stored'[g] = Stored[g]
    BY <1>1, <2>1, StoredAt DEF Exists
  <2>3. Settings!Forget(f)
    BY <1>1, <1>2, <1>4, <2>2, StoredUnchanged DEF Settings!Forget, Settings!Goes, Put
  <2> QED
    BY <2>3 DEF Settings!Next
<1> QED
  BY <1>3, <1>4 DEF RemoveCommitted

(* Others, and the process.                                                 *)
LEMMA ExternalSettings ==
  ASSUME NetworkInvariant, NEW f \in Files, External(f)
  PROVE  [Settings!Next]_(Settings!vars)
<1> DEFINE document == [owner |-> "other", rate |-> 0, rest |-> 1]
<1>1. /\ phase \in {"down", "idle"} /\ phase' = phase /\ overlay' = Put(overlay, f, document)
      /\ UNCHANGED <<targets, committed, backup>> /\ ~Exists(overlay, f) /\ document \in Document
  BY DocumentType DEF External, transaction
<1> HIDE DEF document
<1>2. Operation \in {"down", "none"} /\ Operation' = Operation
  BY <1>1 DEF Operation, ResetPhases
<1>3. \A g \in Files : overlay'[g] = IF g = f THEN document ELSE overlay[g]
  BY <1>1 DEF NetworkInvariant, TypeOK, Put
<1>4. CASE Exists(backup, f) /\ ~Exists(committed, f)
  <2>1. \A g \in Files : Stored'[g] = Stored[g]
    BY <1>1, <1>3, <1>4, StoredAt DEF Exists
  <2> QED
    BY <1>1, <1>2, <2>1, SettingsStutter
<1>5. CASE ~(Exists(backup, f) /\ ~Exists(committed, f))
  <2>1. Stored[f] = None /\ \A g \in Files : Stored'[g] = IF g = f THEN document ELSE Stored[g]
    BY <1>1, <1>3, <1>5, StoredAt DEF Exists
  <2>2. Stored' = [Stored EXCEPT ![f] = document]
    BY <2>1, StoredChanged
  <2>3. Settings!External(f)
    BY <1>1, <1>2, <2>1, <2>2 DEF Settings!External, Settings!Goes
  <2> QED
    BY <2>3 DEF Settings!Next
<1> QED
  BY <1>4, <1>5

LEMMA ProcessSettings ==
  ASSUME TypeOK, Crash \/ Start
  PROVE  Settings!Next
<1>1. UNCHANGED disk /\ committed' = committed /\ Stored' = Stored
  BY SameDisk, StoredUnchanged DEF Crash, Start, disk
<1>2. CASE Crash
  <2>1. /\ Operation \in {"none", "saving", "resetting", "done"} /\ Operation' = "down"
        /\ targets' = {}
    BY <1>2 DEF Crash, Operation
  <2> QED
    BY <1>1, <2>1 DEF Settings!Next, Settings!Crash, Settings!Goes
<1>3. CASE Start
  <2>1. Operation = "down" /\ Operation' = "none" /\ targets' = targets
    BY <1>3 DEF Start, Operation, ResetPhases, transaction
  <2> QED
    BY <1>1, <2>1 DEF Settings!Next, Settings!Start, Settings!Goes
<1> QED
  BY <1>2, <1>3

(* Every step is a step of NetworkSettings or a stutter.                    *)
THEOREM SettingsStep ==
  ASSUME NetworkInvariant, NetworkInvariant', RollBackSucceeds, TransactionInvariant, [Next]_vars
  PROVE  [Settings!Next]_(Settings!vars)
<1>1. CASE UNCHANGED vars
  <2>1. UNCHANGED Operation
    BY <1>1 DEF Operation, vars
  <2>2. UNCHANGED disk /\ UNCHANGED <<committed, targets>>
    BY <1>1 DEF vars, disk, transaction
  <2> QED
    BY <2>1, <2>2, SameDisk, SettingsStutter
<1>2. CASE Receive \/ HandleRead \/ HandleRefused \/ HandleReset \/ HandleCancel \/ HandleApply
  BY <1>2, RequestSettings DEF NetworkInvariant
<1>3. CASE HandleWrite
  BY <1>3, WriteSettings DEF Settings!Next
<1>4. CASE Apply \/ Recovery \/ Crash \/ Start
  BY <1>4, ApplySettings, RecoverySettings, ProcessSettings DEF NetworkInvariant
<1>5. CASE \E f \in Files : FileStep(f) \/ External(f)
  <2>1. PICK f \in Files : FileStep(f) \/ External(f)
    BY <1>5
  <2>2. CASE Stage(f) \/ Replace(f) \/ Remove(f) \/ Restore(f)
    BY <2>2, StageSettings, BackedUp, RestoreSettings
  <2>3. CASE Promote(f) \/ RemoveCommitted(f) \/ External(f)
    BY <2>3, PromoteSettings, RemoveCommittedSettings, ExternalSettings
  <2>4. CASE Demote(f) \/ Clean(f)
    BY <2>4, DemoteSettings, CleanSettings DEF Settings!Next
  <2>5. CASE RestoreContents(f) \/ RemoveBackup(f)
    BY <2>5, RestoreContentsSettings, RemoveBackupSettings
  <2> QED
    BY <2>1, <2>2, <2>3, <2>4, <2>5 DEF FileStep
<1> QED
  BY <1>1, <1>2, <1>3, <1>4, <1>5 DEF Next, Handle

(* A reset takes from all its files or none, unless it crashes in between,  *)
(* and no failure and no recovery changes what is stored.                   *)
THEOREM KeepsSettingsHolds ==
  ASSUME RollBackSucceeds
  PROVE  Spec => KeepsSettings
<1>1. NetworkInvariant /\ NetworkInvariant' /\ TransactionInvariant /\ [Next]_vars
        => [Settings!Next]_(Settings!vars)
  BY SettingsStep
<1> QED
  BY <1>1, SettingsInit, NetworkInvariantHolds, TransactionInvariantHolds, PTL
  DEF Spec, KeepsSettings, Settings!Spec
=============================================================================
