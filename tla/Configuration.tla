---------------------------- MODULE Configuration ----------------------------
(***************************************************************************)
(* The configuration pages: uploads and settings of EVerest, settings of   *)
(* OCPP and the switch of SSH, one request at a time as SystemControl      *)
(* serves them, with the process ending or the device booting at any       *)
(* moment.  Bounds: MaxRequests, and WritesFiles: SSH shares nothing with  *)
(* the other two, so a behaviour has either their requests or its.         *)
(***************************************************************************)
EXTENDS EverestConfig, OcppConfig, SshConfiguration

CONSTANTS MaxRequests, Host

ASSUME RequestsAssumption == MaxRequests \in Nat

VARIABLES requests, answer

vars == <<everestVars, ocppVars, sshVars, requests, answer>>

Init ==
  /\ EverestInit /\ OcppInit /\ SshInit
  /\ requests = 0 /\ answer = "none"

(* What users enter: the server's address, alone or with an id at its end.  *)
Addresses == {<<Host>>} \cup {<<Host, id>> : id \in Ids}

InLoop == step = "idle" /\ task.at = "idle" /\ ssh.at = "idle"

WritesFiles == sshUnits = {}

Request ==
  /\ InLoop /\ requests < MaxRequests
  /\ requests' = requests + 1 /\ answer' = "none"

WriteConfigParameters ==
  /\ Request /\ WritesFiles
  /\ \E value \in Values \cup {Blank} : HandleWrite(value)
  /\ UNCHANGED <<ocppVars, sshVars>>

UploadConfig ==
  /\ Request /\ WritesFiles
  /\ \E config \in Configs : HandleUpload(config)
  /\ UNCHANGED <<ocppVars, sshVars>>

WriteSettings ==
  /\ Request /\ WritesFiles
  /\ \E id \in Ids \cup {NoId}, address \in Addresses : HandleOcppWrite(id, address)
  /\ UNCHANGED <<everestVars, sshVars>>

SwitchSsh ==
  /\ Request
  /\ \E operation \in {"enable", "disable"} : HandleSsh(operation)
  /\ UNCHANGED <<everestVars, ocppVars>>

EverestStep ==
  /\ EverestFileStep
  /\ answer' = IF step' = "idle" THEN "error" ELSE answer
  /\ UNCHANGED <<ocppVars, sshVars, requests>>

OcppStep ==
  /\ OcppFileStep
  /\ answer' = IF task'.at = "idle" THEN "error" ELSE answer
  /\ UNCHANGED <<everestVars, sshVars, requests>>

SshCall ==
  /\ SshStep
  /\ answer' = IF ssh'.at # "idle" THEN answer ELSE IF ssh'.ok THEN "ok" ELSE "error"
  /\ UNCHANGED <<everestVars, ocppVars, requests>>

(* systemd and the people who connect go on beside everything else.         *)
Systemd == SystemdStep /\ UNCHANGED <<everestVars, ocppVars, requests, answer>>

Restart ==
  /\ answer' \in {"ok", "saved", "refused"}
  /\ \/ RestartEverestStack(answer') /\ UNCHANGED ocppVars
     \/ RestartAfterOcppWrite(answer') /\ UNCHANGED everestVars
  /\ UNCHANGED <<sshVars, requests>>

ProcessEnds ==
  /\ EverestEnds /\ OcppEnds
  /\ (~InLoop /\ SshEnds) \/ Boot
  /\ UNCHANGED <<requests, answer>>

Next ==
  \/ WriteConfigParameters \/ UploadConfig \/ WriteSettings
  \/ SwitchSsh \/ EverestStep \/ OcppStep \/ SshCall \/ Restart \/ Systemd \/ ProcessEnds

Spec == Init /\ [][Next]_vars

-----------------------------------------------------------------------------
Installed ==
  /\ link = target
  /\ target = "uploaded" => Active = wanted
  /\ target = "base" => Active = begun /\ EffectiveLoads /\ EffectiveSetting = wanted

ReadsBack(id, address) ==
  \A n \in DOMAIN task.leaves :
    LET leaf == task.leaves[n]
        read == ReadConfigValue(leaf.controller, leaf.property)
        sent == IF leaf.property = "NetworkConnectionProfiles" THEN SplitOcppCsmsUrl(address, id)
                ELSE leaf.value
    IN read.found /\ custom[leaf.controller] # CutOff => read.value = sent

Requested == [id |-> task.leaves[1].value, address |-> task.leaves[2].value]

(* Whatever has failed or ended before, a request that gets as far as the   *)
(* restart has installed what it asked for: EVerest's path leads to it, and *)
(* reading the settings gives what was sent or, after an OCPP document did  *)
(* not reach the disk, nothing, but never something else.                   *)
SavedMeansInstalled ==
  /\ step = "restart" => Installed
  /\ task.at = "restart" => ReadsBack(Requested.id, Requested.address)

(* Saving settings never loses the configuration they belong to: if there   *)
(* was one, EVerest's path leads to its content at every moment, or the     *)
(* base file holds it while the path is gone.                               *)
WriteKeepsConfiguration ==
  (begun # Missing /\ target = "base") =>
    Active = begun \/ (Active = Missing /\ file["base"] = begun)

(* Once the user has been told that SSH is closed it stays closed, until    *)
(* the next request about it: nothing listens, nothing is coming up that    *)
(* somebody's connection has started in the meantime, and the next boot     *)
(* starts nothing.                                                          *)
SshStaysClosed ==
  ssh.operation = "disable" /\ ssh.at = "idle" /\ ssh.ok =>
    enabled = {} /\ \A u \in sshUnits : unit[u] \in {"off", "stopping"}

-----------------------------------------------------------------------------
(* What makes the three inductive *)

(* A write of the settings first makes the base file a copy of what the     *)
(* path leads to, unless the path leads to the base file itself; it then    *)
(* writes the overlay and only then takes the path away.  An upload takes   *)
(* it away when the uploaded file is whole.                                 *)
Copying == {"remove_base", "copy_base"}
Overlaying == {"open_overlay", "write_overlay"}
Uploading == {"open_upload", "write_upload"}
Linking == {"remove_link", "link", "restart"}

EverestInvariant ==
  /\ EverestTypeOK
  /\ WriteKeepsConfiguration
  /\ step \in Copying => Active = begun /\ (Resolved = "base" => begun = Missing)
  /\ step \in Copying \cup Overlaying => target = "base"
  /\ step \in Uploading => target = "uploaded"
  /\ step # "idle" => wanted \in IF target = "base" THEN Values \cup {Blank} ELSE Configs
  /\ target = "base" =>
       /\ step \in Overlaying \cup Linking => file["base"] = begun
       /\ step \in {"write_overlay"} \cup Linking => Loads(file["base"])
       /\ step \in Linking => overlay["base"] = wanted
  /\ target = "uploaded" /\ step \in Linking => file["uploaded"] = wanted
  /\ step = "restart" => link = target

(* A request to close SSH that has had no failure: the units it is done     *)
(* with are closed, the socket before the service that it could start.      *)
Closed(u) == unit[u] \in {"off", "stopping"}
Lefts == {<< >>, <<Socket>>, <<Service>>, <<Socket, Service>>}
StillLeft(u) == \E i \in DOMAIN ssh.left : ssh.left[i] = u

SshInvariant ==
  /\ SshTypeOK
  /\ ssh.left \in Lefts
  /\ ssh.at # "idle" => ssh.left # << >>
  /\ ssh.at \in {"enable", "start", "rollback"} => ssh.operation = "enable"
  /\ ssh.at = "disable" => ssh.operation = "disable"
  /\ ssh.operation = "disable" /\ ssh.ok =>
       /\ ssh.at \in {"stop", "await"} =>
            /\ \A u \in sshUnits : ~StillLeft(u) => Closed(u)
            /\ Socket \in sshUnits /\ StillLeft(Socket) => StillLeft(Service) \/ Service \notin sshUnits
       /\ ssh.at = "await" => Closed(Head(ssh.left))
       /\ ssh.at \in {"disable", "reload", "idle"} => \A u \in sshUnits : Closed(u)
       /\ ssh.at = "disable" => \A u \in enabled : StillLeft(u)
       /\ ssh.at \in {"reload", "idle"} => enabled = {}

(* The values of an OCPP request that have been written are in the          *)
(* documents that reached the disk.  The slots of the network profiles do   *)
(* not change, so that the address goes where it is read from.              *)
AnyId == Ids \cup {NoId}
Urls == {<< >>} \cup Addresses \cup {Append(a, id) : a \in Addresses, id \in Ids}
ProfileLists ==
  {<<[slot |-> 2, url |-> u], [slot |-> 1, url |-> v]>> : u \in Urls, v \in Urls}
  \cup {<<[slot |-> 2, url |-> u]>> : u \in Urls}
InternalDocuments == [ChargePointId : AnyId, NetworkConnectionProfiles : ProfileLists]
SecurityDocuments == [SecurityCtrlrIdentity : AnyId]
Unreadable == {NoFile, CutOff}

LeafLists == {<< >>} \cup {Leaves(id, address) : id \in AnyId, address \in Addresses}
OcppSteps == {"idle", "mkdir", "copy", "load", "save", "restart"}
WritesFrom(at) == at \in {"load", "save", "restart"}

OcppTypeOK ==
  /\ base \in [InternalCtrlr : InternalDocuments, SecurityCtrlr : SecurityDocuments]
  /\ directory \in BOOLEAN
  /\ custom \in [InternalCtrlr : InternalDocuments \cup Unreadable,
                 SecurityCtrlr : SecurityDocuments \cup Unreadable]
  /\ task \in [at : OcppSteps, n : 0..4, leaves : LeafLists,
               document : InternalDocuments \cup SecurityDocuments \cup Unreadable]

HoldsId(document) == document.ChargePointId = task.leaves[1].value
HoldsAddress(document) ==
  /\ Len(document.NetworkConnectionProfiles) = 2
  /\ document.NetworkConnectionProfiles[2].url = task.leaves[2].value
HoldsIdentity(document) == document.SecurityCtrlrIdentity = task.leaves[3].value

(* The first n leaves have been written into the documents that are whole.  *)
Written(n) ==
  /\ custom.InternalCtrlr \notin Unreadable =>
       (n >= 1 => HoldsId(custom.InternalCtrlr)) /\ (n >= 2 => HoldsAddress(custom.InternalCtrlr))
  /\ custom.SecurityCtrlr \notin Unreadable => (n >= 3 => HoldsIdentity(custom.SecurityCtrlr))

OcppInvariant ==
  /\ OcppTypeOK
  /\ task.at # "idle" => task.leaves # << >> /\ task.n >= 1
  /\ task.at \in {"copy", "load", "save", "restart"} => directory
  /\ task.at \in {"mkdir", "copy"} => task.n <= 2
  /\ task.at \in {"load", "save"} => task.n <= 3 /\ Written(task.n - 1)
  /\ task.at = "save" =>
       LET leaf == task.leaves[task.n]
       IN /\ custom[leaf.controller] = CutOff
          /\ leaf.controller = "InternalCtrlr" =>
               /\ task.document \in InternalDocuments /\ HoldsId(task.document)
               /\ task.n = 2 => HoldsAddress(task.document)
          /\ leaf.controller = "SecurityCtrlr" =>
               task.document \in SecurityDocuments /\ HoldsIdentity(task.document)
  /\ task.at = "restart" => Written(3)

ConfigurationInvariant == EverestInvariant /\ SshInvariant /\ OcppInvariant
=============================================================================
