------------------------------ MODULE OcppConfig ------------------------------
(***************************************************************************)
(* The OCPP configuration (OCPPConfig.cpp): a directory of base documents  *)
(* that is never written, and a custom directory with a copy of each       *)
(* controller's document that has been written.  A write changes one value *)
(* at a time: it reads the custom document, changes the value and writes   *)
(* the whole document back over itself.  The process may end between any   *)
(* two of these operations.                                                *)
(*                                                                         *)
(* A document maps its properties to values.  A server address is the      *)
(* sequence of its segments, without the slashes at its ends, which the    *)
(* code trims; the stored URL ends with the charge point's id.             *)
(***************************************************************************)
EXTENDS Integers, Sequences, SequencesExt

CONSTANTS Ids, NoFile, CutOff, NoId

VARIABLES
  base,       \* the base documents
  directory,  \* the custom directory exists
  custom,     \* the custom documents; NoFile, or CutOff by a write that did not end
  task        \* what the write handler does next

ocppVars == <<base, directory, custom, task>>

Controllers == <<"InternalCtrlr", "SecurityCtrlr">>
Idle == [at |-> "idle", n |-> 0, leaves |-> <<>>, document |-> NoFile]

-----------------------------------------------------------------------------
(* The two halves of a CSMS URL *)

SplitOcppCsmsUrl(url, id) ==
  IF id # NoId /\ url # <<>> /\ Last(url) = id THEN Front(url) ELSE url

ComposeOcppCsmsUrl(address, id) ==
  IF id = NoId \/ (address # <<>> /\ Last(address) = id) THEN address ELSE Append(address, id)

(* normalizeOcppWriteParameters, and the values of the request in the order *)
(* in which they are written (the keys of a QJsonObject are sorted)         *)
Leaves(id, address) ==
  << [controller |-> "InternalCtrlr", property |-> "ChargePointId", value |-> id],
     [controller |-> "InternalCtrlr", property |-> "NetworkConnectionProfiles",
      value |-> ComposeOcppCsmsUrl(address, id)],
     [controller |-> "SecurityCtrlr", property |-> "SecurityCtrlrIdentity", value |-> id] >>

-----------------------------------------------------------------------------
(* Reading *)

NotFound == [found |-> FALSE, value |-> NoId]
Found(value) == [found |-> TRUE, value |-> value]

StandardProperty(document, property) ==
  IF property \in DOMAIN document THEN Found(document[property]) ELSE NotFound

(* The first profile of configuration slot 1, 0 if there is none           *)
SlotOne(profiles) ==
  LET slots == {i \in DOMAIN profiles : profiles[i].slot = 1}
  IN IF slots = {} THEN 0 ELSE CHOOSE i \in slots : \A j \in slots : i <= j

(* The address of that profile, taken apart with the id beside it           *)
CsmsServerAddress(document) ==
  LET profiles == document["NetworkConnectionProfiles"]
      id == StandardProperty(document, "ChargePointId").value
  IN IF "NetworkConnectionProfiles" \in DOMAIN document /\ SlotOne(profiles) # 0
       THEN Found(SplitOcppCsmsUrl(profiles[SlotOne(profiles)].url, id))
       ELSE NotFound

ExtractValue(document, property) ==
  IF property = "NetworkConnectionProfiles" THEN CsmsServerAddress(document)
  ELSE StandardProperty(document, property)

(* readConfigValue.  Once the custom directory exists the base document is  *)
(* only read for a value that the custom document does not have.            *)
ReadConfigValue(controller, property) ==
  LET preferred == IF directory THEN custom[controller] ELSE base[controller]
      value == ExtractValue(preferred, property)
  IN IF preferred \in {NoFile, CutOff} THEN NotFound
     ELSE IF value.found \/ ~directory THEN value
     ELSE ExtractValue(base[controller], property)

-----------------------------------------------------------------------------
(* handleWriteRequest *)

Documents(profiles, ids) ==
  {[InternalCtrlr |-> [ChargePointId |-> id, NetworkConnectionProfiles |-> p],
    SecurityCtrlr |-> [SecurityCtrlrIdentity |-> id]] : id \in ids, p \in profiles}

OcppInit ==
  /\ base \in Documents({<<[slot |-> 2, url |-> <<>>], [slot |-> 1, url |-> <<>>]>>,
                         <<[slot |-> 2, url |-> <<>>]>>}, {NoId})
  /\ directory = FALSE
  /\ custom = [c \in Range(Controllers) |-> NoFile]
  /\ task = Idle

HandleOcppWrite(id, address) ==
  /\ task' = [at |-> IF directory THEN "copy" ELSE "mkdir", n |-> 1,
              leaves |-> Leaves(id, address), document |-> NoFile]
  /\ UNCHANGED <<base, directory, custom>>

Refuse == task' = Idle

(* ensureCustomConfigDirectoryExists *)
EnsureDirectory ==
  /\ task.at = "mkdir"
  /\ \/ directory' = TRUE /\ task' = [task EXCEPT !.at = "copy"]
     \/ Refuse /\ UNCHANGED directory
  /\ UNCHANGED <<base, custom>>

NextLeaf == [task EXCEPT !.at = IF task.n = Len(task.leaves) THEN "restart" ELSE "load",
                         !.n = @ + 1]

(* ensureCustomControllerFileExists, for one controller after the other     *)
EnsureControllerFile ==
  /\ task.at = "copy"
  /\ LET controller == Controllers[task.n]
     IN \/ /\ custom' = IF custom[controller] = NoFile
                          THEN [custom EXCEPT ![controller] = base[controller]] ELSE custom
           /\ task' = IF task.n = Len(Controllers) THEN [task EXCEPT !.at = "load", !.n = 1]
                      ELSE [task EXCEPT !.n = @ + 1]
        \/ custom[controller] = NoFile /\ Refuse /\ UNCHANGED custom
  /\ UNCHANGED <<base, directory>>

CanWriteValue(document, leaf) ==
  /\ leaf.property \in DOMAIN document
  /\ leaf.property = "NetworkConnectionProfiles" => SlotOne(document[leaf.property]) # 0

(* writeStandardPropertyValue and writeNetworkConnectionProfilesValue       *)
WrittenValue(document, leaf) ==
  IF leaf.property = "NetworkConnectionProfiles"
    THEN [document EXCEPT ![leaf.property][SlotOne(document[leaf.property])].url = leaf.value]
    ELSE [document EXCEPT ![leaf.property] = leaf.value]

(* writeValueIntoDocument, up to the truncation of the document             *)
LoadDocument ==
  /\ task.at = "load"
  /\ LET leaf == task.leaves[task.n]
         document == custom[leaf.controller]
     IN \/ /\ document \notin {NoFile, CutOff} /\ CanWriteValue(document, leaf)
           /\ custom' = [custom EXCEPT ![leaf.controller] = CutOff]
           /\ task' = [task EXCEPT !.at = "save", !.document = WrittenValue(document, leaf)]
        \/ Refuse /\ UNCHANGED custom
  /\ UNCHANGED <<base, directory>>

(* saveJsonObjectFile.  A write that fails is answered, and the document    *)
(* stays cut off; what does not reach the disk when the file is closed is   *)
(* not noticed.                                                             *)
SaveDocument ==
  /\ task.at = "save"
  /\ \/ /\ LET leaf == task.leaves[task.n]
           IN custom' \in {[custom EXCEPT ![leaf.controller] = task.document], custom}
        /\ task' = [NextLeaf EXCEPT !.document = NoFile]
     \/ Refuse /\ UNCHANGED custom
  /\ UNCHANGED <<base, directory>>

OcppFileStep == EnsureDirectory \/ EnsureControllerFile \/ LoadDocument \/ SaveDocument

RestartAfterOcppWrite(answer) ==
  /\ task.at = "restart" /\ Refuse
  /\ answer \in {"ok", "saved", "refused"}
  /\ UNCHANGED <<base, directory, custom>>

OcppEnds == Refuse /\ UNCHANGED <<base, directory, custom>>
=============================================================================
