-------------------------- MODULE Configuration_proofs --------------------------
(***************************************************************************)
(* Theorems about the configuration pages, for every value of the          *)
(* constants: what the files of EVerest, the documents of OCPP and the     *)
(* units of SSH hold after any sequence of requests, failures, ends of the *)
(* process and boots.  The three parts share no state, so each has its own *)
(* invariant, lemma per operation and step theorem.                        *)
(***************************************************************************)
EXTENDS Configuration, SequenceTheorems, TLAPS

-----------------------------------------------------------------------------
(* EVerest: the files *)

Contents == Configs \cup {Missing, Broken}
Overlays == Values \cup {Missing, Broken, Blank}

LEMMA EverestStutter ==
  ASSUME EverestInvariant, UNCHANGED everestVars
  PROVE  EverestInvariant'
  BY DEF EverestInvariant, EverestTypeOK, WriteKeepsConfiguration, Active, Resolved, Copying,
         Overlaying, Uploading, Linking, everestVars, filesVars

(* A handler that stops half way keeps what it has left behind.             *)
LEMMA EverestFails ==
  ASSUME EverestInvariant, step' = "idle", UNCHANGED <<link, file, overlay, target, wanted, begun>>
  PROVE  EverestInvariant'
  BY DEF EverestInvariant, EverestTypeOK, WriteKeepsConfiguration, Active, Resolved, Copying,
         Overlaying, Uploading, Linking

LEMMA ActiveType ==
  ASSUME EverestTypeOK
  PROVE  Active \in Contents /\ Resolved \in Files
  BY DEF EverestTypeOK, Active, Resolved, Files, Contents

LEMMA HandleWriteFiles ==
  ASSUME EverestInvariant, step = "idle", NEW value \in Values \cup {Blank}, HandleWrite(value)
  PROVE  EverestInvariant'
<1>1. /\ step' \in {"open_overlay", "remove_base"} /\ target' = "base" /\ wanted' = value
      /\ begun' = Active /\ UNCHANGED <<link, file, overlay>>
      /\ step' = "open_overlay" => Resolved = "base"
      /\ step' = "remove_base" /\ Resolved = "base" => Active = Missing
  BY DEF HandleWrite, filesVars, Active
<1>2. EverestTypeOK'
  BY <1>1, ActiveType DEF EverestInvariant, EverestTypeOK, Requests, Contents
<1>3. Active' = Active /\ Resolved' = Resolved
  BY <1>1 DEF Active, Resolved
<1> QED
  BY <1>1, <1>2, <1>3
  DEF EverestInvariant, WriteKeepsConfiguration, Active, Copying, Overlaying, Uploading, Linking

LEMMA HandleUploadFiles ==
  ASSUME EverestInvariant, step = "idle", NEW config \in Configs, HandleUpload(config)
  PROVE  EverestInvariant'
<1>1. /\ step' = "open_upload" /\ target' = "uploaded" /\ wanted' = config
      /\ begun' = Active /\ UNCHANGED <<link, file, overlay>>
  BY DEF HandleUpload, filesVars
<1>2. EverestTypeOK'
  BY <1>1, ActiveType DEF EverestInvariant, EverestTypeOK, Requests, Contents
<1> QED
  BY <1>1, <1>2
  DEF EverestInvariant, WriteKeepsConfiguration, Copying, Overlaying, Uploading, Linking

(* The base file is replaced only while the path leads elsewhere, or to     *)
(* nothing at all.                                                          *)
LEMMA RemoveBaseFiles ==
  ASSUME EverestInvariant, RemoveBase
  PROVE  EverestInvariant'
<1>1. /\ step = "remove_base" /\ target = "base" /\ Active = begun
      /\ Resolved = "base" => begun = Missing
      /\ UNCHANGED <<link, overlay, target, wanted, begun>>
  BY DEF RemoveBase, EverestInvariant, Copying
<1>2. CASE file' = [file EXCEPT !["base"] = Missing] /\ step' = "copy_base"
  <2>1. EverestTypeOK'
    BY <1>1, <1>2 DEF EverestInvariant, EverestTypeOK, Files
  <2>2. Resolved' = Resolved /\ Active' = Active
    BY <1>1, <1>2 DEF EverestInvariant, EverestTypeOK, Resolved, Active, Files
  <2> QED
    BY <1>1, <1>2, <2>1, <2>2
    DEF EverestInvariant, WriteKeepsConfiguration, Copying, Overlaying, Uploading, Linking
<1>3. CASE step' = "idle" /\ UNCHANGED file
  BY <1>1, <1>3, EverestFails
<1> QED
  BY <1>2, <1>3 DEF RemoveBase, Fail

LEMMA CopyBaseFiles ==
  ASSUME EverestInvariant, CopyBase
  PROVE  EverestInvariant'
<1>1. /\ step = "copy_base" /\ target = "base" /\ Active = begun
      /\ Resolved = "base" => begun = Missing
      /\ UNCHANGED <<link, overlay, target, wanted, begun>>
      /\ wanted \in Values \cup {Blank}
  BY DEF CopyBase, EverestInvariant, Copying
<1>2. CASE /\ Active # Missing /\ file' = [file EXCEPT !["base"] = Active]
           /\ step' = "open_overlay"
  <2>1. EverestTypeOK'
    BY <1>1, <1>2, ActiveType DEF EverestInvariant, EverestTypeOK, Files, Contents
  <2>2. Resolved' = Resolved /\ Active' = Active /\ file'["base"] = begun'
    BY <1>1, <1>2 DEF EverestInvariant, EverestTypeOK, Resolved, Active, Files
  <2> QED
    BY <1>1, <1>2, <2>1, <2>2
    DEF EverestInvariant, WriteKeepsConfiguration, Copying, Overlaying, Uploading, Linking
<1>3. CASE step' = "idle" /\ UNCHANGED file
  BY <1>1, <1>3, EverestFails
<1> QED
  BY <1>2, <1>3 DEF CopyBase, Fail

LEMMA OverlayFiles ==
  ASSUME EverestInvariant, OpenOverlay \/ WriteOverlay
  PROVE  EverestInvariant'
<1>1. /\ step \in Overlaying /\ target = "base" /\ file["base"] = begun
      /\ UNCHANGED <<link, file, target, wanted, begun>>
      /\ wanted \in Values \cup {Blank}
      /\ step = "write_overlay" => Loads(file["base"])
  BY DEF OpenOverlay, WriteOverlay, EverestInvariant, Overlaying
<1>2. Resolved' = Resolved /\ Active' = Active
  BY <1>1 DEF Resolved, Active
<1>3. CASE /\ step = "open_overlay" /\ Loads(file["base"])
           /\ overlay' = [overlay EXCEPT !["base"] = Broken] /\ step' = "write_overlay"
  <2>1. EverestTypeOK'
    BY <1>1, <1>3 DEF EverestInvariant, EverestTypeOK, Files
  <2> QED
    BY <1>1, <1>2, <1>3, <2>1
    DEF EverestInvariant, WriteKeepsConfiguration, Copying, Overlaying, Uploading, Linking, Loads
<1>4. CASE /\ step = "write_overlay"
           /\ overlay' = [overlay EXCEPT !["base"] = wanted] /\ step' = "remove_link"
  <2>1. EverestTypeOK'
    BY <1>1, <1>4 DEF EverestInvariant, EverestTypeOK, Files
  <2>2. overlay'["base"] = wanted'
    BY <1>1, <1>4 DEF EverestInvariant, EverestTypeOK, Files
  <2> QED
    BY <1>1, <1>2, <1>4, <2>1, <2>2
    DEF EverestInvariant, WriteKeepsConfiguration, Copying, Overlaying, Uploading, Linking, Loads
<1>5. CASE step' = "idle" /\ UNCHANGED overlay
  BY <1>1, <1>5, EverestFails
<1> QED
  BY <1>3, <1>4, <1>5 DEF OpenOverlay, WriteOverlay, Fail

LEMMA UploadFiles ==
  ASSUME EverestInvariant, OpenUpload \/ WriteUpload
  PROVE  EverestInvariant'
<1>1. /\ step \in Uploading /\ target = "uploaded" /\ wanted \in Configs
      /\ UNCHANGED <<link, overlay, target, wanted, begun>>
  BY DEF OpenUpload, WriteUpload, EverestInvariant, Uploading
<1>2. CASE /\ file' = [file EXCEPT !["uploaded"] = Broken] /\ step' = "write_upload"
  <2>1. EverestTypeOK'
    BY <1>1, <1>2 DEF EverestInvariant, EverestTypeOK, Files
  <2> QED
    BY <1>1, <1>2, <2>1
    DEF EverestInvariant, WriteKeepsConfiguration, Copying, Overlaying, Uploading, Linking
<1>3. CASE /\ file' = [file EXCEPT !["uploaded"] = wanted] /\ step' = "remove_link"
  <2>1. EverestTypeOK' /\ file'["uploaded"] = wanted'
    BY <1>1, <1>3 DEF EverestInvariant, EverestTypeOK, Files
  <2> QED
    BY <1>1, <1>3, <2>1
    DEF EverestInvariant, WriteKeepsConfiguration, Copying, Overlaying, Uploading, Linking
<1>4. CASE step' = "idle" /\ UNCHANGED file
  BY <1>1, <1>4, EverestFails
<1> QED
  BY <1>2, <1>3, <1>4 DEF OpenUpload, WriteUpload, Fail

(* Whatever the path was, it is gone only when the file it is to lead to    *)
(* next is whole.                                                           *)
LEMMA RemoveLinkFiles ==
  ASSUME EverestInvariant, RemoveLink
  PROVE  EverestInvariant'
<1>1. step = "remove_link" /\ UNCHANGED <<overlay, target, wanted, begun>>
  BY DEF RemoveLink
<1>2. CASE link' = "none" /\ file' = [file EXCEPT !["config"] = Missing] /\ step' = "link"
  <2>1. EverestTypeOK'
    BY <1>1, <1>2 DEF EverestInvariant, EverestTypeOK, Files
  <2>2. /\ Active' = Missing /\ file'["base"] = file["base"] /\ file'["uploaded"] = file["uploaded"]
    BY <1>2 DEF EverestInvariant, EverestTypeOK, Resolved, Active, Files
  <2> QED
    BY <1>1, <1>2, <2>1, <2>2
    DEF EverestInvariant, WriteKeepsConfiguration, Copying, Overlaying, Uploading, Linking
<1>3. CASE step' = "idle" /\ UNCHANGED <<link, file>>
  BY <1>1, <1>3, EverestFails
<1> QED
  BY <1>2, <1>3 DEF RemoveLink, Fail

LEMMA LinkFiles ==
  ASSUME EverestInvariant, Link
  PROVE  EverestInvariant'
<1>1. step = "link" /\ UNCHANGED <<file, overlay, target, wanted, begun>>
  BY DEF Link
<1>2. CASE link' = target /\ step' \in {"restart", "idle"}
  <2>1. EverestTypeOK'
    BY <1>1, <1>2 DEF EverestInvariant, EverestTypeOK
  <2>2. Active' = file[target]
    BY <1>1, <1>2 DEF EverestInvariant, EverestTypeOK, Resolved, Active
  <2> QED
    BY <1>1, <1>2, <2>1, <2>2
    DEF EverestInvariant, WriteKeepsConfiguration, Copying, Overlaying, Uploading, Linking
<1>3. CASE step' = "idle" /\ UNCHANGED link
  BY <1>1, <1>3, EverestFails
<1> QED
  BY <1>2, <1>3 DEF Link, Fail

(* No step breaks EverestInvariant.                                         *)
THEOREM EverestFilesStep == EverestInvariant /\ [Next]_vars => EverestInvariant'
<1> SUFFICES ASSUME EverestInvariant, [Next]_vars
             PROVE  EverestInvariant'
  OBVIOUS
<1>1. CASE WriteConfigParameters
  BY <1>1, HandleWriteFiles DEF WriteConfigParameters, Request, InLoop
<1>2. CASE UploadConfig
  BY <1>2, HandleUploadFiles DEF UploadConfig, Request, InLoop
<1>3. CASE EverestStep
  BY <1>3, RemoveBaseFiles, CopyBaseFiles, OverlayFiles, UploadFiles, RemoveLinkFiles, LinkFiles
  DEF EverestStep, EverestFileStep
<1>4. CASE Restart
  BY <1>4, EverestStutter, EverestFails DEF Restart, RestartEverestStack, Fail, filesVars
<1>5. CASE ProcessEnds
  BY <1>5, EverestFails DEF ProcessEnds, EverestEnds, filesVars
<1>6. CASE WriteSettings \/ SwitchSsh \/ OcppStep \/ SshCall \/ Systemd \/ UNCHANGED vars
  BY <1>6, EverestStutter DEF WriteSettings, SwitchSsh, OcppStep, SshCall, Systemd, vars
<1> QED
  BY <1>1, <1>2, <1>3, <1>4, <1>5, <1>6 DEF Next

LEMMA EverestFilesInit == Init => EverestInvariant
  BY MarkAssumption
  DEF Init, EverestInit, EverestInvariant, EverestTypeOK, WriteKeepsConfiguration, Active, Resolved,
      Copying, Overlaying, Uploading, Linking, Requests, Files

(* In every state the files of EVerest are as far as the handler has come.  *)
THEOREM EverestInvariantHolds == Spec => []EverestInvariant
<1> QED
  BY EverestFilesInit, EverestFilesStep, PTL DEF Spec

(* Saving settings never loses the configuration they belong to, whatever   *)
(* fails and wherever the process ends.                                     *)
THEOREM WriteKeepsConfigurationHolds == Spec => []WriteKeepsConfiguration
<1>1. EverestInvariant => WriteKeepsConfiguration
  BY DEF EverestInvariant
<1> QED
  BY <1>1, EverestInvariantHolds, PTL

-----------------------------------------------------------------------------
(* SSH: the units *)

Units == {Socket, Service}
UnitStates == {"off", "starting", "on", "stopping"}
Positions == {"idle", "enable", "reload", "start", "await", "stop", "rollback", "disable"}
SshRequests(units) ==
  [operation : {"enable", "disable"}, at : Positions, left : Seq(units), ok : BOOLEAN]

LEMMA UnitsDiffer == Socket # Service
  BY DEF Socket, Service

LEMMA TwoUnits == <<Socket>> \o <<Service>> = <<Socket, Service>>
<1>1. <<Socket>> \in Seq(Units) /\ <<Service>> \in Seq(Units) /\ <<Socket, Service>> \in Seq(Units)
  BY DEF Units
<1>2. Len(<<Socket>> \o <<Service>>) = 2 /\ <<Socket>> \o <<Service>> \in Seq(Units)
  BY <1>1
<1>3. (<<Socket>> \o <<Service>>)[1] = Socket /\ (<<Socket>> \o <<Service>>)[2] = Service
  BY <1>1
<1>4. \A i \in 1..2 : (<<Socket>> \o <<Service>>)[i] = <<Socket, Service>>[i]
  BY <1>3
<1> QED
  BY <1>1, <1>2, <1>4, SeqEqual

LEMMA AvailableType ==
  ASSUME sshUnits \subseteq Units
  PROVE  /\ AvailableSshUnits \in Lefts /\ AvailableSshUnits \in Seq(sshUnits)
         /\ sshUnits # {} => AvailableSshUnits # << >>
         /\ \A u \in sshUnits : \E i \in DOMAIN AvailableSshUnits : AvailableSshUnits[i] = u
<1>1. CASE Socket \in sshUnits /\ Service \in sshUnits
  <2>1. AvailableSshUnits = <<Socket, Service>>
    BY <1>1, TwoUnits DEF AvailableSshUnits, IfInstalled
  <2> QED
    BY <1>1, <2>1 DEF Lefts, Units
<1>2. CASE Socket \in sshUnits /\ Service \notin sshUnits
  <2>1. AvailableSshUnits = <<Socket>>
    BY <1>2 DEF AvailableSshUnits, IfInstalled
  <2> QED
    BY <1>2, <2>1 DEF Lefts, Units
<1>3. CASE Socket \notin sshUnits /\ Service \in sshUnits
  <2>1. AvailableSshUnits = <<Service>>
    BY <1>3 DEF AvailableSshUnits, IfInstalled
  <2> QED
    BY <1>3, <2>1 DEF Lefts, Units
<1>4. CASE Socket \notin sshUnits /\ Service \notin sshUnits
  <2>1. AvailableSshUnits = << >>
    BY <1>4 DEF AvailableSshUnits, IfInstalled
  <2> QED
    BY <1>4, <2>1 DEF Lefts, Units
<1> QED
  BY <1>1, <1>2, <1>3, <1>4

(* Which units are left, and what the next of them leaves.                  *)
LEMMA LeftUnits ==
  ASSUME ssh.left \in Lefts, ssh.left # << >>
  PROVE  /\ Head(ssh.left) \in Units /\ Tail(ssh.left) \in Lefts
         /\ \E i \in DOMAIN ssh.left : ssh.left[i] = Head(ssh.left)
         /\ Tail(ssh.left) # << >> => ssh.left = <<Socket, Service>> /\ Head(ssh.left) = Socket
                                      /\ Tail(ssh.left) = <<Service>>
         /\ Tail(ssh.left) = << >> => \A u : StillLeft(u) => u = Head(ssh.left)
<1>1. CASE ssh.left = <<Socket>>
  BY <1>1 DEF Lefts, Units, StillLeft
<1>2. CASE ssh.left = <<Service>>
  BY <1>2 DEF Lefts, Units, StillLeft
<1>3. CASE ssh.left = <<Socket, Service>>
  BY <1>3 DEF Lefts, Units, StillLeft
<1> QED
  BY <1>1, <1>2, <1>3 DEF Lefts

LEMMA SshStutter ==
  ASSUME SshInvariant, UNCHANGED sshVars
  PROVE  SshInvariant'
  BY DEF SshInvariant, SshTypeOK, Lefts, StillLeft, Closed, sshVars

(* The three ways in which a handler moves on.                              *)
LEMMA AnswerFields ==
  ASSUME SshTypeOK, NEW ok \in BOOLEAN, Answer(ok)
  PROVE  /\ ssh' \in SshRequests(sshUnits)
         /\ ssh'.at = "idle" /\ ssh'.left = << >> /\ ssh'.ok = ok /\ ssh'.operation = ssh.operation
<1>1. ssh \in SshRequests(sshUnits) /\ "idle" \in Positions /\ << >> \in Seq(sshUnits)
  BY DEF SshTypeOK, SshRequests, Positions
<1>2. ssh' = [ssh EXCEPT !.at = "idle", !.left = << >>, !.ok = ok]
  BY DEF Answer
<1> QED
  BY <1>1, <1>2 DEF SshRequests

LEMMA ContinueFields ==
  ASSUME SshTypeOK, NEW at \in Positions, Continue(at)
  PROVE  /\ ssh' \in SshRequests(sshUnits)
         /\ ssh'.at = at /\ ssh'.left = ssh.left /\ ssh'.ok = ssh.ok /\ ssh'.operation = ssh.operation
<1>1. ssh \in SshRequests(sshUnits)
  BY DEF SshTypeOK, SshRequests, Positions
<1>2. ssh' = [ssh EXCEPT !.at = at]
  BY DEF Continue
<1> QED
  BY <1>1, <1>2 DEF SshRequests

LEMMA NextUnitFields ==
  ASSUME SshTypeOK, ssh.left \in Lefts, ssh.left # << >>,
         NEW at \in {"stop", "disable"}, NEW ok \in BOOLEAN, NextSshUnit(at, ok)
  PROVE  /\ ssh' \in SshRequests(sshUnits)
         /\ ssh'.ok = ok /\ ssh'.operation = ssh.operation
         /\ Tail(ssh.left) # << >> => ssh'.at = at /\ ssh'.left = Tail(ssh.left)
         /\ Tail(ssh.left) = << >> =>
              /\ ssh'.at = IF at = "stop" THEN "disable" ELSE "reload"
              /\ ssh'.left = AvailableSshUnits
<1>1. /\ ssh \in SshRequests(sshUnits) /\ at \in Positions
      /\ "disable" \in Positions /\ "reload" \in Positions
      /\ sshUnits \subseteq Units /\ ssh.left \in Seq(sshUnits)
  BY DEF SshTypeOK, SshRequests, Positions, Units
<1>2. AvailableSshUnits \in Seq(sshUnits) /\ Tail(ssh.left) \in Seq(sshUnits)
  BY <1>1, AvailableType, HeadTailProperties
<1>3. CASE Tail(ssh.left) # << >>
  <2>1. ssh' = [ssh EXCEPT !.at = at, !.left = Tail(ssh.left), !.ok = ok]
    BY <1>3 DEF NextSshUnit
  <2> QED
    BY <1>1, <1>2, <1>3, <2>1 DEF SshRequests
<1>4. CASE Tail(ssh.left) = << >>
  <2> DEFINE next == IF at = "stop" THEN "disable" ELSE "reload"
  <2>1. ssh' = [ssh EXCEPT !.at = next, !.left = AvailableSshUnits, !.ok = ok] /\ next \in Positions
    BY <1>1, <1>4 DEF NextSshUnit
  <2> QED
    BY <1>1, <1>2, <1>4, <2>1 DEF SshRequests
<1> QED
  BY <1>3, <1>4

(* A request that opens SSH, or has failed, promises nothing about closing. *)
LEMMA NothingPromised ==
  ASSUME SshInvariant, sshUnits' = sshUnits,
         unit' \in [sshUnits -> UnitStates], enabled' \subseteq sshUnits,
         ssh' \in SshRequests(sshUnits), ssh'.left \in Lefts,
         ssh'.at # "idle" => ssh'.left # << >>,
         ssh'.at \in {"enable", "start", "rollback"} => ssh'.operation = "enable",
         ssh'.at = "disable" => ssh'.operation = "disable",
         ssh'.operation = "enable" \/ ~ssh'.ok
  PROVE  SshInvariant'
<1>1. SshTypeOK'
  BY DEF SshInvariant, SshTypeOK, SshRequests, Positions, UnitStates
<1> QED
  BY <1>1 DEF SshInvariant

LEMMA OpeningUnits ==
  ASSUME SshInvariant,
         \/ EnableUnit \/ ReloadEnabled \/ StartUnit \/ WaitForActive \/ StopAgain
         \/ RollbackEnablement
  PROVE  SshInvariant'
<1>1. /\ ssh.operation = "enable" /\ sshUnits' = sshUnits /\ ssh.left # << >>
      /\ ssh.left \in Lefts /\ SshTypeOK /\ << >> \in Lefts
  BY DEF SshInvariant, EnableUnit, ReloadEnabled, StartUnit, WaitForActive, StopAgain,
         RollbackEnablement, Lefts
<1>2. Head(ssh.left) \in sshUnits
  BY <1>1, HeadTailProperties DEF SshTypeOK
<1>3. \/ Answer(TRUE) \/ Answer(FALSE)
      \/ \E at \in {"reload", "start", "await", "stop", "rollback"} : Continue(at)
  BY DEF EnableUnit, ReloadEnabled, StartUnit, WaitForActive, StopAgain, RollbackEnablement
<1>4. enabled' \subseteq sshUnits
  BY <1>1, <1>2 DEF SshTypeOK, EnableUnit, ReloadEnabled, StartUnit, WaitForActive, StopAgain,
                    RollbackEnablement
<1>5. unit' \in [sshUnits -> UnitStates]
  BY <1>1, <1>2 DEF SshTypeOK, EnableUnit, ReloadEnabled, StartUnit, WaitForActive, StopAgain,
                    RollbackEnablement, UnitStates
<1>6. /\ ssh' \in SshRequests(sshUnits) /\ ssh'.operation = "enable"
      /\ ssh'.left \in {<< >>, ssh.left}
      /\ ssh'.at # "idle" => ssh'.left = ssh.left
      /\ ssh'.at \in {"idle", "reload", "start", "await", "stop", "rollback"}
  <2>1. CASE Answer(TRUE) \/ Answer(FALSE)
    BY <1>1, <2>1, AnswerFields
  <2>2. CASE \E at \in {"reload", "start", "await", "stop", "rollback"} : Continue(at)
    BY <1>1, <2>2, ContinueFields DEF Positions
  <2> QED
    BY <1>3, <2>1, <2>2
<1> QED
  BY <1>1, <1>4, <1>5, <1>6, NothingPromised

(* While SSH is being closed a unit that was stopped stays so: only a       *)
(* connection to the socket starts the service, and the socket is stopped   *)
(* before it.                                                               *)
LEMMA ClosingUnits ==
  ASSUME SshInvariant, StopUnit \/ WaitForInactive
  PROVE  SshInvariant'
<1>1. /\ ssh.operation = "disable" /\ sshUnits' = sshUnits /\ enabled' = enabled
      /\ ssh.left # << >> /\ ssh.left \in Lefts /\ SshTypeOK /\ ssh.ok \in BOOLEAN
      /\ ssh.at \in {"stop", "await"}
  BY DEF SshInvariant, SshTypeOK, StopUnit, WaitForInactive
<1>2. Head(ssh.left) \in sshUnits /\ sshUnits \subseteq Units /\ sshUnits # {}
  BY <1>1, HeadTailProperties DEF SshTypeOK, Units
<1>3. CASE /\ ssh.at = "stop" /\ Continue("await")
           /\ unit' = [unit EXCEPT ![Head(ssh.left)] = IF @ = "off" THEN @ ELSE "stopping"]
  <2>1. /\ ssh' \in SshRequests(sshUnits) /\ ssh'.at = "await" /\ ssh'.left = ssh.left
        /\ ssh'.ok = ssh.ok /\ ssh'.operation = "disable"
    BY <1>1, <1>3, ContinueFields DEF Positions
  <2>2. /\ unit' \in [sshUnits -> UnitStates] /\ unit'[Head(ssh.left)] \in {"off", "stopping"}
        /\ \A u \in sshUnits : Closed(u) => unit'[u] \in {"off", "stopping"}
    BY <1>2, <1>3 DEF SshInvariant, SshTypeOK, UnitStates, Closed
  <2>3. SshTypeOK'
    BY <1>1, <2>1, <2>2 DEF SshTypeOK, SshRequests, Positions, UnitStates
  <2> QED
    BY <1>1, <1>3, <2>1, <2>2, <2>3 DEF SshInvariant, Closed, StillLeft
<1>4. CASE NextSshUnit("stop", FALSE) /\ UNCHANGED unit
  <2>1. /\ ssh' \in SshRequests(sshUnits) /\ ~ssh'.ok /\ ssh'.operation = "disable"
        /\ ssh'.left # << >> /\ ssh'.left \in Lefts /\ ssh'.at \in {"stop", "disable"}
    BY <1>1, <1>2, <1>4, NextUnitFields, LeftUnits, AvailableType
  <2> QED
    BY <1>1, <1>4, <2>1, NothingPromised DEF SshTypeOK, UnitStates
<1>5. CASE ssh.at = "await" /\ NextSshUnit("stop", ssh.ok) /\ UNCHANGED unit
  <2>1. /\ ssh' \in SshRequests(sshUnits) /\ ssh'.ok = ssh.ok /\ ssh'.operation = "disable"
    BY <1>1, <1>5, NextUnitFields
  <2>2. SshTypeOK'
    BY <1>1, <1>5, <2>1 DEF SshTypeOK, SshRequests, Positions
  <2>3. CASE Tail(ssh.left) # << >>
    <3>1. /\ ssh'.at = "stop" /\ ssh'.left = <<Service>> /\ ssh.left = <<Socket, Service>>
          /\ Head(ssh.left) = Socket
      BY <1>1, <1>5, <2>3, NextUnitFields, LeftUnits
    <3>2. ssh'.left \in Lefts /\ ssh'.left # << >> /\ \E i \in DOMAIN ssh'.left : ssh'.left[i] = Service
      BY <3>1 DEF Lefts
    <3>3. ssh.ok => \A u \in sshUnits : u # Service => Closed(u)
      BY <1>1, <1>2, <1>5, <3>1 DEF SshInvariant, Units
    <3> QED
      BY <1>1, <1>5, <2>1, <2>2, <3>1, <3>2, <3>3 DEF SshInvariant, Closed, StillLeft
  <2>4. CASE Tail(ssh.left) = << >>
    <3>1. ssh'.at = "disable" /\ ssh'.left = AvailableSshUnits
      BY <1>1, <1>5, <2>4, NextUnitFields
    <3>2. ssh'.left \in Lefts /\ ssh'.left # << >>
          /\ \A u \in sshUnits : \E i \in DOMAIN ssh'.left : ssh'.left[i] = u
      BY <1>2, <3>1, AvailableType
    <3>3. ssh.ok => \A u \in sshUnits : Closed(u)
      BY <1>1, <1>2, <1>5, <2>4, LeftUnits DEF SshInvariant
    <3> QED
      BY <1>1, <1>5, <2>1, <2>2, <3>1, <3>2, <3>3 DEF SshInvariant, SshTypeOK, Closed, StillLeft
  <2> QED
    BY <2>3, <2>4
<1> QED
  BY <1>3, <1>4, <1>5 DEF StopUnit, WaitForInactive

LEMMA DisablingUnits ==
  ASSUME SshInvariant, DisableUnit
  PROVE  SshInvariant'
<1>1. /\ ssh.operation = "disable" /\ sshUnits' = sshUnits /\ unit' = unit
      /\ ssh.left # << >> /\ ssh.left \in Lefts /\ SshTypeOK /\ ssh.ok \in BOOLEAN
      /\ ssh.at = "disable"
  BY DEF SshInvariant, SshTypeOK, DisableUnit
<1>2. Head(ssh.left) \in sshUnits /\ sshUnits \subseteq Units /\ sshUnits # {}
  BY <1>1, HeadTailProperties DEF SshTypeOK, Units
<1>3. CASE NextSshUnit("disable", FALSE) /\ UNCHANGED enabled
  <2>1. /\ ssh' \in SshRequests(sshUnits) /\ ~ssh'.ok /\ ssh'.operation = "disable"
        /\ ssh'.left # << >> /\ ssh'.left \in Lefts /\ ssh'.at \in {"disable", "reload"}
    BY <1>1, <1>2, <1>3, NextUnitFields, LeftUnits, AvailableType
  <2> QED
    BY <1>1, <1>3, <2>1, NothingPromised DEF SshTypeOK, UnitStates
<1>4. CASE NextSshUnit("disable", ssh.ok) /\ enabled' = enabled \ {Head(ssh.left)}
  <2>1. /\ ssh' \in SshRequests(sshUnits) /\ ssh'.ok = ssh.ok /\ ssh'.operation = "disable"
    BY <1>1, <1>4, NextUnitFields
  <2>2. SshTypeOK'
    BY <1>1, <1>4, <2>1 DEF SshTypeOK, SshRequests, Positions
  <2>3. ssh.ok => (\A u \in sshUnits : Closed(u)) /\ (\A u \in enabled : StillLeft(u))
    BY <1>1 DEF SshInvariant
  <2>4. CASE Tail(ssh.left) # << >>
    <3>1. /\ ssh'.at = "disable" /\ ssh'.left = <<Service>> /\ ssh.left = <<Socket, Service>>
          /\ Head(ssh.left) = Socket
      BY <1>1, <1>4, <2>4, NextUnitFields, LeftUnits
    <3>2. ssh'.left \in Lefts /\ ssh'.left # << >> /\ \E i \in DOMAIN ssh'.left : ssh'.left[i] = Service
      BY <3>1 DEF Lefts
    <3>3. \A u \in enabled' : u = Service
      BY <1>1, <1>2, <1>4, <3>1 DEF SshTypeOK, Units
    <3> QED
      BY <1>1, <2>1, <2>2, <2>3, <3>1, <3>2, <3>3 DEF SshInvariant, Closed, StillLeft
  <2>5. CASE Tail(ssh.left) = << >>
    <3>1. ssh'.at = "reload" /\ ssh'.left = AvailableSshUnits
      BY <1>1, <1>4, <2>5, NextUnitFields
    <3>2. ssh'.left \in Lefts /\ ssh'.left # << >>
      BY <1>2, <3>1, AvailableType
    <3>3. ssh.ok => enabled' = {}
      BY <1>1, <1>4, <2>3, <2>5, LeftUnits
    <3> QED
      BY <1>1, <2>1, <2>2, <2>3, <3>1, <3>2, <3>3 DEF SshInvariant, Closed, StillLeft
  <2> QED
    BY <2>4, <2>5
<1> QED
  BY <1>3, <1>4 DEF DisableUnit

LEMMA ReloadingUnits ==
  ASSUME SshInvariant, ReloadDisabled
  PROVE  SshInvariant'
<1>1. PICK reloaded \in BOOLEAN : Answer(ssh.ok /\ reloaded)
  BY DEF ReloadDisabled
<1>2. /\ ssh.operation = "disable" /\ ssh.at = "reload" /\ SshTypeOK
      /\ UNCHANGED <<sshUnits, unit, enabled>>
  BY DEF ReloadDisabled, SshInvariant
<1> DEFINE ok == ssh.ok /\ reloaded
<1>3. ok \in BOOLEAN /\ (ok => ssh.ok)
  OBVIOUS
<1> HIDE DEF ok
<1>4. /\ ssh' \in SshRequests(sshUnits)
      /\ ssh'.at = "idle" /\ ssh'.left = << >> /\ ssh'.ok = ok /\ ssh'.operation = "disable"
  BY <1>1, <1>2, <1>3, AnswerFields DEF ok
<1>5. SshTypeOK'
  BY <1>2, <1>4 DEF SshTypeOK, SshRequests, Positions
<1> QED
  BY <1>2, <1>3, <1>4, <1>5 DEF SshInvariant, Closed, StillLeft, Lefts

LEMMA HandleSshUnits ==
  ASSUME SshInvariant, NEW operation \in {"enable", "disable"}, HandleSsh(operation)
  PROVE  SshInvariant'
<1>1. /\ sshUnits # {} /\ sshUnits \subseteq Units /\ SshTypeOK
      /\ UNCHANGED <<sshUnits, unit, enabled>>
  BY DEF HandleSsh, SshInvariant, SshTypeOK, Units
<1>2. CASE operation = "enable"
  <2>1. ssh' = [operation |-> "enable", at |-> "enable", left |-> <<Preferred>>, ok |-> TRUE]
    BY <1>2 DEF HandleSsh
  <2>2. Preferred \in sshUnits /\ <<Preferred>> \in Lefts
    BY <1>1 DEF Preferred, Units, Lefts
  <2>3. ssh' \in SshRequests(sshUnits) /\ <<Preferred>> # << >>
    BY <2>1, <2>2 DEF SshRequests, Positions
  <2> QED
    BY <1>1, <2>1, <2>2, <2>3, NothingPromised DEF SshTypeOK, UnitStates
<1>3. CASE operation = "disable"
  <2>1. ssh' = [operation |-> "disable", at |-> "stop", left |-> AvailableSshUnits, ok |-> TRUE]
    BY <1>3 DEF HandleSsh
  <2>2. /\ AvailableSshUnits \in Lefts /\ AvailableSshUnits \in Seq(sshUnits)
        /\ AvailableSshUnits # << >>
        /\ \A u \in sshUnits : \E i \in DOMAIN AvailableSshUnits : AvailableSshUnits[i] = u
    BY <1>1, AvailableType
  <2> HIDE DEF AvailableSshUnits
  <2>3. ssh' \in SshRequests(sshUnits)
    BY <2>1, <2>2 DEF SshRequests, Positions
  <2>4. SshTypeOK'
    BY <1>1, <2>3 DEF SshTypeOK, SshRequests, Positions
  <2>5. \A u \in sshUnits : StillLeft(u)'
    BY <1>1, <2>1, <2>2 DEF StillLeft
  <2> QED
    BY <1>1, <2>1, <2>2, <2>4, <2>5 DEF SshInvariant
<1> QED
  BY <1>2, <1>3

(* What systemd and the people who connect do does not open what is closed. *)
LEMMA SystemdUnits ==
  ASSUME SshInvariant, SystemdStep
  PROVE  SshInvariant'
<1>1. PICK u \in sshUnits, after \in {"off", "starting", "on"} :
       /\ \/ unit[u] = "starting" /\ after \in {"on", "off"}
          \/ unit[u] \in {"stopping", "on"} /\ after = "off"
          \/ u = Service /\ unit[u] \in {"off", "stopping"} /\ after = "starting"
             /\ Socket \in sshUnits /\ unit[Socket] = "on"
       /\ unit' = [unit EXCEPT ![u] = after]
  BY DEF SystemdStep
<1>2. UNCHANGED <<sshUnits, enabled, ssh>>
  BY DEF SystemdStep
<1>3. /\ \A v \in sshUnits : unit'[v] = IF v = u THEN after ELSE unit[v]
      /\ unit' \in [sshUnits -> UnitStates]
  BY <1>1 DEF SshInvariant, SshTypeOK, UnitStates
<1>4. SshTypeOK'
  BY <1>2, <1>3 DEF SshInvariant, SshTypeOK, UnitStates
<1>5. CASE Closed(u) => after = "off"
  <2>1. \A v \in sshUnits : Closed(v) => Closed(v)'
    BY <1>3, <1>5 DEF Closed
  <2>2. ssh.at = "await" => Head(ssh.left) \in sshUnits
    BY HeadTailProperties DEF SshInvariant, SshTypeOK
  <2> QED
    BY <1>2, <1>4, <2>1, <2>2 DEF SshInvariant, StillLeft
<1>6. CASE ~(Closed(u) => after = "off")
  <2>1. u = Service /\ Socket \in sshUnits /\ unit[Socket] = "on" /\ ~Closed(Socket)
    BY <1>1, <1>6 DEF Closed
  <2>2. \A v \in sshUnits : v # Service => unit'[v] = unit[v]
    BY <1>3, <2>1
  <2>3. CASE ssh.operation = "disable" /\ ssh.ok
    <3>1. ssh.at \in {"stop", "await"} /\ StillLeft(Socket)
      BY <1>2, <2>1, <2>3 DEF SshInvariant, SshTypeOK
    <3>2. StillLeft(Service)
      BY <2>1, <2>3, <3>1 DEF SshInvariant
    <3>3. ssh.left = <<Socket, Service>>
      BY <3>1, <3>2, UnitsDiffer DEF SshInvariant, StillLeft, Lefts
    <3>4. Head(ssh.left) = Socket
      BY <3>3
    <3>5. ssh.at # "await"
      BY <2>1, <2>3, <3>4 DEF SshInvariant
    <3> QED
      BY <1>2, <1>4, <2>2, <3>1, <3>2, <3>5 DEF SshInvariant, StillLeft, Closed
  <2>4. CASE ~(ssh.operation = "disable" /\ ssh.ok)
    BY <1>2, <1>4, <2>4 DEF SshInvariant
  <2> QED
    BY <2>3, <2>4
<1> QED
  BY <1>5, <1>6

LEMMA BootUnits ==
  ASSUME SshInvariant, Boot
  PROVE  SshInvariant'
<1>1. /\ sshUnits' = sshUnits /\ enabled' = enabled
      /\ unit' = [u \in sshUnits |-> IF u \in enabled THEN "starting" ELSE "off"]
      /\ ssh \in SshRequests(sshUnits)
  BY DEF Boot, SshInvariant, SshTypeOK, SshRequests, Positions
<1>2. unit' \in [sshUnits -> UnitStates] /\ \A u \in sshUnits : u \notin enabled => unit'[u] = "off"
  BY <1>1 DEF UnitStates
<1>3. CASE ssh.at = "idle"
  <2>1. ssh' = ssh
    BY <1>3 DEF Boot
  <2>2. SshTypeOK'
    BY <1>1, <1>2, <2>1 DEF SshTypeOK, SshRequests, Positions, UnitStates, SshInvariant
  <2> QED
    BY <1>1, <1>2, <1>3, <2>1, <2>2 DEF SshInvariant, Closed, StillLeft
<1>4. CASE ssh.at # "idle"
  <2>1. Answer(FALSE)
    BY <1>4 DEF Boot, Answer
  <2>2. /\ ssh' \in SshRequests(sshUnits) /\ ssh'.at = "idle" /\ ssh'.left = << >> /\ ~ssh'.ok
    BY <2>1, AnswerFields DEF SshInvariant
  <2> QED
    BY <1>1, <1>2, <2>2, NothingPromised DEF Lefts, SshInvariant, SshTypeOK
<1> QED
  BY <1>3, <1>4

LEMMA SshEndsUnits ==
  ASSUME SshInvariant, SshEnds
  PROVE  SshInvariant'
<1>1. /\ ssh' \in SshRequests(sshUnits) /\ ssh'.at = "idle" /\ ssh'.left = << >> /\ ~ssh'.ok
  BY AnswerFields DEF SshEnds, SshInvariant
<1> QED
  BY <1>1, NothingPromised DEF SshEnds, Lefts, SshInvariant, SshTypeOK, UnitStates

(* No step breaks SshInvariant.                                             *)
THEOREM SshUnitsStep == SshInvariant /\ [Next]_vars => SshInvariant'
<1> SUFFICES ASSUME SshInvariant, [Next]_vars
             PROVE  SshInvariant'
  OBVIOUS
<1>1. CASE SwitchSsh
  BY <1>1, HandleSshUnits DEF SwitchSsh
<1>2. CASE SshCall
  BY <1>2, OpeningUnits, ClosingUnits, DisablingUnits, ReloadingUnits DEF SshCall, SshStep
<1>3. CASE Systemd
  BY <1>3, SystemdUnits DEF Systemd
<1>4. CASE ProcessEnds
  BY <1>4, SshEndsUnits, BootUnits DEF ProcessEnds
<1>5. CASE \/ WriteConfigParameters \/ UploadConfig \/ WriteSettings \/ EverestStep \/ OcppStep
           \/ Restart \/ UNCHANGED vars
  BY <1>5, SshStutter
  DEF WriteConfigParameters, UploadConfig, WriteSettings, EverestStep, OcppStep, Restart, vars
<1> QED
  BY <1>1, <1>2, <1>3, <1>4, <1>5 DEF Next

LEMMA SshUnitsInit == Init => SshInvariant
<1> SUFFICES ASSUME Init PROVE SshInvariant
  OBVIOUS
<1>1. ssh = [operation |-> "enable", at |-> "idle", left |-> << >>, ok |-> FALSE]
  BY DEF Init, SshInit
<1>2. SshTypeOK
  BY <1>1 DEF Init, SshInit, SshTypeOK
<1> QED
  BY <1>1, <1>2 DEF SshInvariant, Lefts

(* In every state a request to close SSH is as far as its next call says.   *)
THEOREM SshInvariantHolds == Spec => []SshInvariant
<1> QED
  BY SshUnitsInit, SshUnitsStep, PTL DEF Spec

(* Once the user was told that SSH is closed nothing listens, nothing is    *)
(* coming up and the next boot starts nothing, until the next request.      *)
THEOREM SshStaysClosedHolds == Spec => []SshStaysClosed
<1>1. SshInvariant => SshStaysClosed
  BY DEF SshInvariant, SshStaysClosed, Closed
<1> QED
  BY <1>1, SshInvariantHolds, PTL

-----------------------------------------------------------------------------
(* OCPP: the documents *)

Tasks ==
  [at : OcppSteps, n : 0..4, leaves : LeafLists,
   document : InternalDocuments \cup SecurityDocuments \cup Unreadable]

LEMMA OcppStutter ==
  ASSUME OcppInvariant, UNCHANGED ocppVars
  PROVE  OcppInvariant'
  BY DEF OcppInvariant, OcppTypeOK, Written, HoldsId, HoldsAddress, HoldsIdentity, ocppVars

(* A handler that ends where it is leaves the documents as they are.        *)
LEMMA OcppEndsThere ==
  ASSUME OcppInvariant, Refuse, OcppTypeOK'
  PROVE  OcppInvariant'
  BY DEF OcppInvariant, Refuse, Idle

LEMMA RefuseType ==
  ASSUME OcppInvariant, Refuse, UNCHANGED <<base, directory, custom>>
  PROVE  OcppInvariant'
<1>1. task' \in Tasks
  BY DEF Refuse, Idle, Tasks, OcppSteps, LeafLists, Unreadable
<1>2. OcppTypeOK'
  BY <1>1 DEF OcppInvariant, OcppTypeOK, Tasks
<1> QED
  BY <1>2, OcppEndsThere

LEMMA LeavesOfRequest ==
  ASSUME NEW id, NEW address
  PROVE  /\ Len(Leaves(id, address)) = 3 /\ DOMAIN Leaves(id, address) = 1..3
         /\ Leaves(id, address)[1] = [controller |-> "InternalCtrlr", property |-> "ChargePointId", value |-> id]
         /\ Leaves(id, address)[2] = [controller |-> "InternalCtrlr", property |-> "NetworkConnectionProfiles",
                                      value |-> ComposeOcppCsmsUrl(address, id)]
         /\ Leaves(id, address)[3] = [controller |-> "SecurityCtrlr", property |-> "SecurityCtrlrIdentity", value |-> id]
  BY DEF Leaves

(* What is written is an identifier, an address and an identifier.          *)
LEMMA LeavesType ==
  ASSUME OcppInvariant, task.at # "idle"
  PROVE  /\ Len(task.leaves) = 3 /\ DOMAIN task.leaves = 1..3
         /\ task.leaves[1].controller = "InternalCtrlr" /\ task.leaves[1].property = "ChargePointId"
         /\ task.leaves[1].value \in AnyId
         /\ task.leaves[2].controller = "InternalCtrlr"
         /\ task.leaves[2].property = "NetworkConnectionProfiles"
         /\ task.leaves[2].value \in Urls
         /\ task.leaves[3].controller = "SecurityCtrlr"
         /\ task.leaves[3].property = "SecurityCtrlrIdentity"
         /\ task.leaves[3].value \in AnyId
<1>1. PICK id \in AnyId, address \in Addresses : task.leaves = Leaves(id, address)
  BY DEF OcppInvariant, OcppTypeOK, LeafLists
<1>2. ComposeOcppCsmsUrl(address, id) \in Urls
  BY DEF ComposeOcppCsmsUrl, Urls, AnyId
<1>3. /\ Len(task.leaves) = 3 /\ DOMAIN task.leaves = 1..3
      /\ task.leaves[1] = [controller |-> "InternalCtrlr", property |-> "ChargePointId", value |-> id]
      /\ task.leaves[2] = [controller |-> "InternalCtrlr", property |-> "NetworkConnectionProfiles",
                           value |-> ComposeOcppCsmsUrl(address, id)]
      /\ task.leaves[3] = [controller |-> "SecurityCtrlr", property |-> "SecurityCtrlrIdentity", value |-> id]
  BY <1>1, LeavesOfRequest
<1> QED
  BY <1>2, <1>3

(* The slots of a list of profiles are where they were from the beginning.  *)
LEMMA SlotOfProfiles ==
  ASSUME NEW profiles \in ProfileLists
  PROVE  /\ SlotOne(profiles) \in {0, 2}
         /\ SlotOne(profiles) = 2 <=> Len(profiles) = 2
<1>1. CASE \E u \in Urls, v \in Urls : profiles = <<[slot |-> 2, url |-> u], [slot |-> 1, url |-> v]>>
  <2>1. PICK u \in Urls, v \in Urls : profiles = <<[slot |-> 2, url |-> u], [slot |-> 1, url |-> v]>>
    BY <1>1
  <2>2. {i \in DOMAIN profiles : profiles[i].slot = 1} = {2} /\ Len(profiles) = 2
    BY <2>1
  <2> QED
    BY <2>2 DEF SlotOne
<1>2. CASE \E u \in Urls : profiles = <<[slot |-> 2, url |-> u]>>
  <2>1. PICK u \in Urls : profiles = <<[slot |-> 2, url |-> u]>>
    BY <1>2
  <2>2. {i \in DOMAIN profiles : profiles[i].slot = 1} = {} /\ Len(profiles) = 1
    BY <2>1
  <2> QED
    BY <2>2 DEF SlotOne
<1> QED
  BY <1>1, <1>2 DEF ProfileLists

(* Writing an address into the profile of slot 1.                           *)
LEMMA AddressWritten ==
  ASSUME NEW document \in InternalDocuments, NEW value \in Urls,
         SlotOne(document.NetworkConnectionProfiles) # 0
  PROVE  LET after == [document EXCEPT !["NetworkConnectionProfiles"]
                         [SlotOne(document["NetworkConnectionProfiles"])].url = value]
         IN /\ after \in InternalDocuments /\ after.ChargePointId = document.ChargePointId
            /\ Len(after.NetworkConnectionProfiles) = 2
            /\ after.NetworkConnectionProfiles[2].url = value
<1> DEFINE p == document.NetworkConnectionProfiles
           q == [p EXCEPT ![2].url = value]
           after == [document EXCEPT !["NetworkConnectionProfiles"]
                       [SlotOne(document["NetworkConnectionProfiles"])].url = value]
<1>1. p \in ProfileLists /\ SlotOne(p) = 2 /\ Len(p) = 2
  BY SlotOfProfiles DEF InternalDocuments
<1>2. PICK u \in Urls, v \in Urls : p = <<[slot |-> 2, url |-> u], [slot |-> 1, url |-> v]>>
  BY <1>1 DEF ProfileLists
<1>3. q = <<[slot |-> 2, url |-> u], [slot |-> 1, url |-> value]>>
  BY <1>2
<1>4. q \in ProfileLists /\ Len(q) = 2 /\ q[2].url = value
  BY <1>3 DEF ProfileLists
<1>5. after = [document EXCEPT !.NetworkConnectionProfiles = q]
  BY <1>1
<1> HIDE DEF q
<1>6. [document EXCEPT !.NetworkConnectionProfiles = q] \in InternalDocuments
  BY <1>4 DEF InternalDocuments
<1>7. /\ [document EXCEPT !.NetworkConnectionProfiles = q].ChargePointId = document.ChargePointId
      /\ [document EXCEPT !.NetworkConnectionProfiles = q].NetworkConnectionProfiles = q
  BY DEF InternalDocuments
<1> QED
  BY <1>4, <1>5, <1>6, <1>7

OcppDocuments ==
  [InternalCtrlr : InternalDocuments \cup Unreadable, SecurityCtrlr : SecurityDocuments \cup Unreadable]

(* One document changes, the other does not.                                *)
LEMMA OneDocumentChanges ==
  ASSUME custom \in OcppDocuments, NEW c \in {"InternalCtrlr", "SecurityCtrlr"}, NEW document,
         c = "InternalCtrlr" => document \in InternalDocuments \cup Unreadable,
         c = "SecurityCtrlr" => document \in SecurityDocuments \cup Unreadable
  PROVE  /\ [custom EXCEPT ![c] = document] \in OcppDocuments
         /\ [custom EXCEPT ![c] = document][c] = document
         /\ \A d \in {"InternalCtrlr", "SecurityCtrlr"} :
              d # c => [custom EXCEPT ![c] = document][d] = custom[d]
<1>1. CASE c = "InternalCtrlr"
  BY <1>1 DEF OcppDocuments
<1>2. CASE c = "SecurityCtrlr"
  BY <1>2 DEF OcppDocuments
<1> QED
  BY <1>1, <1>2

LEMMA HandleOcppDocuments ==
  ASSUME OcppInvariant, NEW id \in AnyId, NEW address \in Addresses, HandleOcppWrite(id, address)
  PROVE  OcppInvariant'
<1>1. /\ task' = [at |-> IF directory THEN "copy" ELSE "mkdir", n |-> 1,
                  leaves |-> Leaves(id, address), document |-> NoFile]
      /\ UNCHANGED <<base, directory, custom>>
  BY DEF HandleOcppWrite
<1>2. Leaves(id, address) # << >> /\ Leaves(id, address) \in LeafLists
  <2>1. Len(Leaves(id, address)) = 3
    BY LeavesOfRequest
  <2>2. Leaves(id, address) # << >>
    BY <2>1
  <2> QED
    BY <2>2 DEF LeafLists
<1>3. task' \in Tasks
  BY <1>1, <1>2 DEF Tasks, OcppSteps, Unreadable
<1>4. OcppTypeOK'
  BY <1>1, <1>3 DEF OcppInvariant, OcppTypeOK, Tasks
<1> QED
  BY <1>1, <1>2, <1>4 DEF OcppInvariant

LEMMA EnsureDirectoryDocuments ==
  ASSUME OcppInvariant, EnsureDirectory
  PROVE  OcppInvariant'
<1>1. CASE Refuse /\ UNCHANGED directory
  BY <1>1, RefuseType DEF EnsureDirectory
<1>2. CASE task.at = "mkdir" /\ directory' = TRUE /\ task' = [task EXCEPT !.at = "copy"]
           /\ UNCHANGED <<base, custom>>
  <2>1. task \in Tasks /\ "copy" \in OcppSteps
    BY DEF OcppInvariant, OcppTypeOK, Tasks, OcppSteps
  <2>2. /\ task' \in Tasks /\ task'.at = "copy" /\ task'.n = task.n /\ task'.leaves = task.leaves
    BY <1>2, <2>1 DEF Tasks
  <2>3. OcppTypeOK'
    BY <1>2, <2>2 DEF OcppInvariant, OcppTypeOK, Tasks
  <2> QED
    BY <1>2, <2>2, <2>3 DEF OcppInvariant
<1> QED
  BY <1>1, <1>2 DEF EnsureDirectory

LEMMA EnsureControllerFileDocuments ==
  ASSUME OcppInvariant, EnsureControllerFile
  PROVE  OcppInvariant'
<1>1. CASE Refuse /\ UNCHANGED custom
  BY <1>1, RefuseType DEF EnsureControllerFile
<1> DEFINE controller == Controllers[task.n]
<1>2. CASE /\ custom' = IF custom[controller] = NoFile
                          THEN [custom EXCEPT ![controller] = base[controller]] ELSE custom
           /\ task' = IF task.n = Len(Controllers) THEN [task EXCEPT !.at = "load", !.n = 1]
                      ELSE [task EXCEPT !.n = @ + 1]
  <2>1. /\ task.at = "copy" /\ task \in Tasks /\ task.n \in {1, 2} /\ directory
        /\ custom \in OcppDocuments /\ UNCHANGED <<base, directory>>
        /\ base.InternalCtrlr \in InternalDocuments /\ base.SecurityCtrlr \in SecurityDocuments
        /\ task.leaves # << >>
    BY DEF EnsureControllerFile, OcppInvariant, OcppTypeOK, Tasks, OcppDocuments
  <2>2. /\ controller \in {"InternalCtrlr", "SecurityCtrlr"} /\ Len(Controllers) = 2
        /\ controller = "InternalCtrlr" => base[controller] \in InternalDocuments
        /\ controller = "SecurityCtrlr" => base[controller] \in SecurityDocuments
    BY <2>1 DEF Controllers
  <2>3. custom' \in OcppDocuments
    BY <1>2, <2>1, <2>2, OneDocumentChanges
  <2>4. CASE task.n = 2
    <3>1. task' = [task EXCEPT !.at = "load", !.n = 1]
      BY <1>2, <2>2, <2>4
    <3>2. "load" \in OcppSteps /\ 1 \in 0..4
      BY DEF OcppSteps
    <3>3. task' \in Tasks /\ task'.at = "load" /\ task'.n = 1 /\ task'.leaves = task.leaves
      BY <2>1, <3>1, <3>2 DEF Tasks
    <3>4. OcppTypeOK'
      BY <2>1, <2>3, <3>3 DEF OcppInvariant, OcppTypeOK, Tasks, OcppDocuments
    <3>5. Written(0)'
      BY DEF Written
    <3> QED
      BY <2>1, <3>3, <3>4, <3>5 DEF OcppInvariant
  <2>5. CASE task.n = 1
    <3>1. task' = [task EXCEPT !.n = 2] /\ 2 \in 0..4
      BY <1>2, <2>2, <2>5
    <3>2. task' \in Tasks /\ task'.at = "copy" /\ task'.n = 2 /\ task'.leaves = task.leaves
      BY <2>1, <3>1 DEF Tasks
    <3>3. OcppTypeOK'
      BY <2>1, <2>3, <3>2 DEF OcppInvariant, OcppTypeOK, Tasks, OcppDocuments
    <3> QED
      BY <2>1, <3>2, <3>3 DEF OcppInvariant
  <2> QED
    BY <2>1, <2>4, <2>5
<1> QED
  BY <1>1, <1>2 DEF EnsureControllerFile

(* The document with one more value of the request in it.                   *)
LEMMA DocumentWritten ==
  ASSUME OcppInvariant, task.at = "load",
         NEW leaf, leaf = task.leaves[task.n],
         custom[leaf.controller] \notin Unreadable,
         CanWriteValue(custom[leaf.controller], leaf)
  PROVE  /\ leaf.controller \in {"InternalCtrlr", "SecurityCtrlr"}
         /\ leaf.controller = "InternalCtrlr" =>
              /\ WrittenValue(custom[leaf.controller], leaf) \in InternalDocuments
              /\ HoldsId(WrittenValue(custom[leaf.controller], leaf))
              /\ task.n = 2 => HoldsAddress(WrittenValue(custom[leaf.controller], leaf))
         /\ leaf.controller = "SecurityCtrlr" =>
              /\ WrittenValue(custom[leaf.controller], leaf) \in SecurityDocuments
              /\ HoldsIdentity(WrittenValue(custom[leaf.controller], leaf))
<1>1. task.n \in {1, 2, 3} /\ custom \in OcppDocuments /\ Written(task.n - 1)
  BY DEF OcppInvariant, OcppTypeOK, OcppDocuments
<1> DEFINE document == custom[leaf.controller]
           after == WrittenValue(document, leaf)
<1>2. CASE task.n = 1
  <2>1. leaf.controller = "InternalCtrlr" /\ leaf.property = "ChargePointId" /\ leaf.value \in AnyId
        /\ leaf.value = task.leaves[1].value
    BY <1>2, LeavesType
  <2>2. document \in InternalDocuments
    BY <1>1, <2>1 DEF OcppDocuments
  <2>3. after = [document EXCEPT !.ChargePointId = leaf.value]
    BY <2>1 DEF WrittenValue
  <2>4. [document EXCEPT !.ChargePointId = leaf.value] \in InternalDocuments
    BY <2>1, <2>2 DEF InternalDocuments
  <2>5. [document EXCEPT !.ChargePointId = leaf.value].ChargePointId = leaf.value
    BY <2>2 DEF InternalDocuments
  <2>6. after \in InternalDocuments /\ HoldsId(after)
    BY <2>1, <2>3, <2>4, <2>5 DEF HoldsId
  <2>7. task.n # 2 /\ "InternalCtrlr" # "SecurityCtrlr"
    BY <1>2
  <2> QED
    BY <2>1, <2>6, <2>7, Zenon
<1>3. CASE task.n = 2
  <2>1. /\ leaf.controller = "InternalCtrlr" /\ leaf.property = "NetworkConnectionProfiles"
        /\ leaf.value \in Urls /\ leaf.value = task.leaves[2].value
    BY <1>3, LeavesType
  <2>2. document \in InternalDocuments /\ HoldsId(document)
    BY <1>1, <1>3, <2>1 DEF OcppDocuments, Written
  <2>3. SlotOne(document.NetworkConnectionProfiles) # 0
    BY <2>1 DEF CanWriteValue
  <2>4. after = [document EXCEPT !["NetworkConnectionProfiles"]
                   [SlotOne(document["NetworkConnectionProfiles"])].url = leaf.value]
    BY <2>1 DEF WrittenValue
  <2>5. /\ after \in InternalDocuments /\ after.ChargePointId = document.ChargePointId
        /\ Len(after.NetworkConnectionProfiles) = 2
        /\ after.NetworkConnectionProfiles[2].url = leaf.value
    BY <2>1, <2>2, <2>3, <2>4, AddressWritten
  <2> QED
    BY <1>3, <2>1, <2>2, <2>5 DEF HoldsId, HoldsAddress
<1>4. CASE task.n = 3
  <2>1. /\ leaf.controller = "SecurityCtrlr" /\ leaf.property = "SecurityCtrlrIdentity"
        /\ leaf.value \in AnyId /\ leaf.value = task.leaves[3].value
    BY <1>4, LeavesType
  <2>2. document \in SecurityDocuments
    BY <1>1, <2>1 DEF OcppDocuments
  <2>3. after = [document EXCEPT !.SecurityCtrlrIdentity = leaf.value]
    BY <2>1 DEF WrittenValue
  <2>4. /\ [document EXCEPT !.SecurityCtrlrIdentity = leaf.value] \in SecurityDocuments
        /\ [document EXCEPT !.SecurityCtrlrIdentity = leaf.value].SecurityCtrlrIdentity = leaf.value
    BY <2>1, <2>2 DEF SecurityDocuments
  <2> QED
    BY <2>1, <2>3, <2>4 DEF HoldsIdentity
<1> QED
  BY <1>1, <1>2, <1>3, <1>4

(* The values that are in the documents stay there while a document is      *)
(* being written.                                                           *)
LEMMA LoadDocuments ==
  ASSUME OcppInvariant, LoadDocument
  PROVE  OcppInvariant'
<1> DEFINE leaf == task.leaves[task.n]
           document == custom[leaf.controller]
           after == WrittenValue(document, leaf)
<1>1. CASE Refuse /\ UNCHANGED custom
  BY <1>1, RefuseType DEF LoadDocument
<1>2. CASE /\ document \notin Unreadable /\ CanWriteValue(document, leaf)
           /\ custom' = [custom EXCEPT ![leaf.controller] = CutOff]
           /\ task' = [task EXCEPT !.at = "save", !.document = after]
  <2>1. /\ task.at = "load" /\ task \in Tasks /\ task.n \in 1..3 /\ directory
        /\ custom \in OcppDocuments /\ UNCHANGED <<base, directory>>
        /\ task.leaves # << >> /\ Written(task.n - 1)
    BY DEF LoadDocument, OcppInvariant, OcppTypeOK, Tasks, OcppDocuments
  <2>2. /\ leaf.controller \in {"InternalCtrlr", "SecurityCtrlr"}
        /\ leaf.controller = "InternalCtrlr" =>
              /\ after \in InternalDocuments /\ HoldsId(after) /\ (task.n = 2 => HoldsAddress(after))
        /\ leaf.controller = "SecurityCtrlr" => after \in SecurityDocuments /\ HoldsIdentity(after)
    BY <1>2, <2>1, DocumentWritten
  <2>3. after \in InternalDocuments \cup SecurityDocuments \cup Unreadable /\ "save" \in OcppSteps
    BY <2>2 DEF OcppSteps
  <2> HIDE DEF after
  <2>4. /\ task' \in Tasks /\ task'.at = "save" /\ task'.n = task.n /\ task'.leaves = task.leaves
        /\ task'.document = after
    BY <1>2, <2>1, <2>3 DEF Tasks
  <2>5. /\ custom' \in OcppDocuments /\ custom'[leaf.controller] = CutOff
        /\ \A d \in {"InternalCtrlr", "SecurityCtrlr"} : d # leaf.controller => custom'[d] = custom[d]
    BY <1>2, <2>1, <2>2, OneDocumentChanges DEF Unreadable
  <2>6. OcppTypeOK'
    BY <2>1, <2>4, <2>5 DEF OcppInvariant, OcppTypeOK, Tasks, OcppDocuments
  <2>7. Written(task.n - 1)'
    BY <2>1, <2>2, <2>4, <2>5 DEF Written, HoldsId, HoldsAddress, HoldsIdentity, Unreadable
  <2>8. leaf' = leaf
    BY <2>4
  <2>9. /\ leaf.controller = "InternalCtrlr" =>
              /\ task'.document \in InternalDocuments /\ HoldsId(task.document)'
              /\ task'.n = 2 => HoldsAddress(task.document)'
        /\ leaf.controller = "SecurityCtrlr" =>
              task'.document \in SecurityDocuments /\ HoldsIdentity(task.document)'
    BY <2>2, <2>4 DEF HoldsId, HoldsAddress, HoldsIdentity
  <2> HIDE DEF leaf
  <2>10. task'.leaves[task'.n] = leaf
    BY <2>4 DEF leaf
  <2> QED
    BY <2>1, <2>4, <2>5, <2>6, <2>7, <2>9, <2>10 DEF OcppInvariant
<1> QED
  BY <1>1, <1>2 DEF LoadDocument, Unreadable

(* A document that reached the disk has the values in it that were written; *)
(* one that did not is not readable.                                        *)
LEMMA SaveWrites ==
  ASSUME OcppInvariant, SaveDocument, NEW n \in 1..3, n = task.n, task'.leaves = task.leaves
  PROVE  custom' \in OcppDocuments /\ Written(n)'
<1> DEFINE leaf == task.leaves[n]
           c == leaf.controller
<1>1. /\ task.at = "save" /\ custom \in OcppDocuments /\ Written(n - 1)
      /\ custom[c] = CutOff
      /\ c = "InternalCtrlr" =>
           /\ task.document \in InternalDocuments /\ HoldsId(task.document)
           /\ n = 2 => HoldsAddress(task.document)
      /\ c = "SecurityCtrlr" =>
           task.document \in SecurityDocuments /\ HoldsIdentity(task.document)
  BY DEF SaveDocument, OcppInvariant, OcppTypeOK, OcppDocuments
<1>2. c = IF n = 3 THEN "SecurityCtrlr" ELSE "InternalCtrlr"
  BY <1>1, LeavesType
<1>3. custom' \in {[custom EXCEPT ![c] = task.document], custom}
  BY DEF SaveDocument
<1> HIDE DEF c
<1>4. CASE custom' = custom
  <2>1. CutOff \in Unreadable
    BY DEF Unreadable
  <2> QED
    BY <1>1, <1>2, <1>4, <2>1 DEF Written, HoldsId, HoldsAddress
<1>5. CASE custom' = [custom EXCEPT ![c] = task.document]
  <2>1. /\ custom' \in OcppDocuments /\ custom'[c] = task.document
        /\ \A d \in {"InternalCtrlr", "SecurityCtrlr"} : d # c => custom'[d] = custom[d]
    <3>1. c \in {"InternalCtrlr", "SecurityCtrlr"}
      BY <1>2
    <3>2. /\ c = "InternalCtrlr" => task.document \in InternalDocuments \cup Unreadable
          /\ c = "SecurityCtrlr" => task.document \in SecurityDocuments \cup Unreadable
      BY <1>1
    <3> QED
      BY <1>1, <1>5, <3>1, <3>2, OneDocumentChanges
  <2>2. CASE n = 3
    BY <1>1, <1>2, <2>1, <2>2 DEF Written, HoldsId, HoldsAddress, HoldsIdentity
  <2>3. CASE n # 3
    BY <1>1, <1>2, <2>1, <2>3 DEF Written, HoldsId, HoldsAddress
  <2> QED
    BY <2>1, <2>2, <2>3
<1> QED
  BY <1>3, <1>4, <1>5

LEMMA SavedDocuments ==
  ASSUME OcppInvariant, SaveDocument, task' = [NextLeaf EXCEPT !.document = NoFile]
  PROVE  OcppInvariant'
<1>1. /\ task \in Tasks /\ task.at = "save" /\ task.n \in 1..3 /\ directory
      /\ UNCHANGED <<base, directory>> /\ task.leaves # << >>
  BY DEF SaveDocument, OcppInvariant, OcppTypeOK, Tasks
<1> DEFINE at == IF task.n = 3 THEN "restart" ELSE "load"
<1>2. task' = [[task EXCEPT !.at = at, !.n = task.n + 1] EXCEPT !.document = NoFile]
  BY <1>1, LeavesType DEF NextLeaf
<1>3. at \in OcppSteps /\ task.n + 1 \in 0..4 /\ NoFile \in Unreadable
  BY <1>1 DEF OcppSteps, Unreadable
<1> HIDE DEF at
<1>4. /\ task' \in Tasks /\ task'.at = at /\ task'.n = task.n + 1 /\ task'.leaves = task.leaves
  BY <1>1, <1>2, <1>3 DEF Tasks
<1>5. PICK n \in 1..3 : n = task.n
  BY <1>1
<1>6. custom' \in OcppDocuments /\ Written(n)'
  BY <1>4, <1>5, SaveWrites
<1>7. OcppTypeOK'
  BY <1>1, <1>4, <1>6 DEF OcppInvariant, OcppTypeOK, Tasks, OcppDocuments
<1>8. CASE n = 3
  <2>1. at = "restart"
    BY <1>5, <1>8 DEF at
  <2> QED
    BY <1>1, <1>4, <1>5, <1>6, <1>7, <1>8, <2>1 DEF OcppInvariant
<1>9. CASE n # 3
  <2>1. at = "load" /\ n + 1 <= 3 /\ task'.n - 1 = n
    BY <1>4, <1>5, <1>9 DEF at
  <2>2. Written(task.n - 1)'
    BY <1>6, <2>1
  <2> QED
    BY <1>1, <1>4, <1>5, <1>7, <2>1, <2>2 DEF OcppInvariant
<1> QED
  BY <1>8, <1>9

(* A write that fails leaves the document cut off, and the request is over. *)
LEMMA SaveDocuments ==
  ASSUME OcppInvariant, SaveDocument
  PROVE  OcppInvariant'
<1>1. CASE task' = [NextLeaf EXCEPT !.document = NoFile]
  BY <1>1, SavedDocuments
<1>2. CASE Refuse /\ UNCHANGED custom
  BY <1>2, RefuseType DEF SaveDocument
<1> QED
  BY <1>1, <1>2 DEF SaveDocument

(* No step breaks OcppInvariant.                                            *)
THEOREM OcppDocumentsStep == OcppInvariant /\ [Next]_vars => OcppInvariant'
<1> SUFFICES ASSUME OcppInvariant, [Next]_vars
             PROVE  OcppInvariant'
  OBVIOUS
<1>1. CASE WriteSettings
  BY <1>1, HandleOcppDocuments DEF WriteSettings, AnyId
<1>2. CASE OcppStep
  BY <1>2, EnsureDirectoryDocuments, EnsureControllerFileDocuments, LoadDocuments, SaveDocuments
  DEF OcppStep, OcppFileStep
<1>3. CASE Restart
  BY <1>3, RefuseType, OcppStutter DEF Restart, RestartAfterOcppWrite
<1>4. CASE ProcessEnds
  BY <1>4, RefuseType DEF ProcessEnds, OcppEnds
<1>5. CASE \/ WriteConfigParameters \/ UploadConfig \/ SwitchSsh \/ EverestStep \/ SshCall
           \/ Systemd \/ UNCHANGED vars
  BY <1>5, OcppStutter
  DEF WriteConfigParameters, UploadConfig, SwitchSsh, EverestStep, SshCall, Systemd, vars
<1> QED
  BY <1>1, <1>2, <1>3, <1>4, <1>5 DEF Next

LEMMA OcppDocumentsInit == Init => OcppInvariant
<1> SUFFICES ASSUME Init PROVE OcppInvariant
  OBVIOUS
<1>1. /\ directory = FALSE /\ task = Idle
      /\ custom = [c \in {"InternalCtrlr", "SecurityCtrlr"} |-> NoFile]
  <2>1. Range(Controllers) = {"InternalCtrlr", "SecurityCtrlr"}
    BY DEF Range, Controllers
  <2> QED
    BY <2>1 DEF Init, OcppInit
<1>2. PICK u \in ProfileLists :
        base = [InternalCtrlr |-> [ChargePointId |-> NoId, NetworkConnectionProfiles |-> u],
                SecurityCtrlr |-> [SecurityCtrlrIdentity |-> NoId]]
  <2>1. << >> \in Urls
    BY DEF Urls
  <2>2. {<<[slot |-> 2, url |-> << >>], [slot |-> 1, url |-> << >>]>>, <<[slot |-> 2, url |-> << >>]>>}
          \subseteq ProfileLists
    BY <2>1 DEF ProfileLists
  <2> QED
    BY <2>2 DEF Init, OcppInit, Documents
<1>3. base \in [InternalCtrlr : InternalDocuments, SecurityCtrlr : SecurityDocuments]
  BY <1>2 DEF InternalDocuments, SecurityDocuments, AnyId
<1>4. custom \in OcppDocuments
  BY <1>1 DEF OcppDocuments, Unreadable
<1>5. task \in Tasks
  BY <1>1 DEF Idle, Tasks, OcppSteps, LeafLists, Unreadable
<1> QED
  BY <1>1, <1>3, <1>4, <1>5 DEF OcppInvariant, OcppTypeOK, OcppDocuments, Tasks, Idle

(* The values an OCPP request has written so far are in the documents.      *)
THEOREM OcppInvariantHolds == Spec => []OcppInvariant
<1> QED
  BY OcppDocumentsInit, OcppDocumentsStep, PTL DEF Spec

-----------------------------------------------------------------------------
(* What a request that reaches the restart has installed *)

LEMMA EverestInstalled ==
  ASSUME EverestInvariant, step = "restart"
  PROVE  Installed
  BY MarkAssumption
  DEF EverestInvariant, EverestTypeOK, Installed, Active, Resolved, Linking, EffectiveLoads,
      EffectiveSetting

LEMMA ValuesReadBack ==
  ASSUME OcppInvariant, task.at = "restart"
  PROVE  ReadsBack(Requested.id, Requested.address)
<1> SUFFICES ASSUME NEW n \in 1..3,
                    ReadConfigValue(task.leaves[n].controller, task.leaves[n].property).found,
                    custom[task.leaves[n].controller] # CutOff
             PROVE  ReadConfigValue(task.leaves[n].controller, task.leaves[n].property).value =
                      IF task.leaves[n].property = "NetworkConnectionProfiles"
                        THEN SplitOcppCsmsUrl(Requested.address, Requested.id)
                        ELSE task.leaves[n].value
  BY LeavesType DEF ReadsBack
<1> DEFINE document == custom[task.leaves[n].controller]
<1>1. directory /\ Written(3) /\ custom \in OcppDocuments
  BY DEF OcppInvariant, OcppTypeOK, OcppDocuments
<1>2. document \notin {NoFile, CutOff}
  BY <1>1 DEF ReadConfigValue, NotFound
<1>3. CASE n \in {1, 2}
  <2>1. task.leaves[n].controller = "InternalCtrlr"
    BY <1>3, LeavesType
  <2>2. document \in InternalDocuments /\ HoldsId(document) /\ HoldsAddress(document)
    BY <1>1, <1>2, <2>1 DEF OcppDocuments, Unreadable, Written
  <2>3. /\ "ChargePointId" \in DOMAIN document
        /\ "NetworkConnectionProfiles" \in DOMAIN document
        /\ SlotOne(document.NetworkConnectionProfiles) = 2
    BY <2>2, SlotOfProfiles DEF InternalDocuments, HoldsAddress
  <2>4. StandardProperty(document, "ChargePointId") = Found(task.leaves[1].value)
    BY <2>2, <2>3 DEF StandardProperty, HoldsId
  <2>5. CsmsServerAddress(document) = Found(SplitOcppCsmsUrl(Requested.address, Requested.id))
    <3>1. StandardProperty(document, "ChargePointId").value = Requested.id
      BY <2>4 DEF Found, Requested
    <3>2. document.NetworkConnectionProfiles[2].url = Requested.address
      BY <2>2 DEF HoldsAddress, Requested
    <3> HIDE DEF document
    <3> QED
      BY <2>3, <3>1, <3>2 DEF CsmsServerAddress
  <2>6. ExtractValue(document, task.leaves[n].property) =
          Found(IF n = 2 THEN SplitOcppCsmsUrl(Requested.address, Requested.id) ELSE task.leaves[n].value)
    BY <1>3, <2>4, <2>5, LeavesType DEF ExtractValue
  <2> HIDE DEF document
  <2>7. ReadConfigValue("InternalCtrlr", task.leaves[n].property) =
          ExtractValue(document, task.leaves[n].property)
    <3>1. custom["InternalCtrlr"] = document
      BY <2>1 DEF document
    <3>2. ExtractValue(document, task.leaves[n].property).found
      BY <2>6 DEF Found
    <3> QED
      BY <1>1, <1>2, <3>1, <3>2 DEF ReadConfigValue
  <2>8. task.leaves[n].property = "NetworkConnectionProfiles" <=> n = 2
    BY <1>3, LeavesType
  <2> QED
    BY <2>1, <2>6, <2>7, <2>8 DEF Found
<1>4. CASE n = 3
  <2>1. task.leaves[n].controller = "SecurityCtrlr" /\ task.leaves[n].property = "SecurityCtrlrIdentity"
    BY <1>4, LeavesType
  <2>2. document \in SecurityDocuments /\ HoldsIdentity(document)
    BY <1>1, <1>2, <2>1 DEF OcppDocuments, Unreadable, Written
  <2>3. StandardProperty(document, "SecurityCtrlrIdentity") = Found(task.leaves[3].value)
    BY <2>2 DEF StandardProperty, HoldsIdentity, SecurityDocuments
  <2> QED
    BY <1>1, <1>2, <1>4, <2>1, <2>3 DEF ReadConfigValue, ExtractValue, Found
<1> QED
  BY <1>3, <1>4

(* A request that gets as far as the restart has installed what it asked    *)
(* for, whatever has failed or ended before: of EVerest what the path leads *)
(* to, of OCPP what reading the settings gives.                             *)
THEOREM SavedMeansInstalledHolds == Spec => []SavedMeansInstalled
<1>1. EverestInvariant /\ OcppInvariant => SavedMeansInstalled
  BY EverestInstalled, ValuesReadBack DEF SavedMeansInstalled
<1> QED
  BY <1>1, EverestInvariantHolds, OcppInvariantHolds, PTL
=============================================================================
