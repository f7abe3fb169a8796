---------------------------- MODULE EverestConfig ----------------------------
(***************************************************************************)
(* The EVerest configuration as EverestConfig.cpp installs it.  EVerest    *)
(* starts from the path everest_config_path ("config"), which is a file of *)
(* its own or a symbolic link to the base configuration ("base", the file  *)
(* the settings pages use) or to the last uploaded one ("uploaded").  Next *)
(* to a file stands an overlay of the same name with changed settings.     *)
(*                                                                         *)
(* A handler is a series of file operations, each of which may fail, and   *)
(* the process may end between any two of them; step says how far it is.   *)
(* One upload name and one setting; the setting belongs to a module that   *)
(* every configuration has.                                                *)
(***************************************************************************)

CONSTANTS
  Configs,   \* the contents of configuration files
  Values,    \* the values of the setting that the pages send
  Missing, Broken, Blank

(* No file, a file that was cut off and a value left out are told apart     *)
(* from each other, and none of them is taken for a configuration or for a  *)
(* value.                                                                   *)
ASSUME MarkAssumption ==
  /\ Missing # Broken /\ Missing # Blank /\ Broken # Blank
  /\ {Missing, Broken, Blank} \cap (Configs \cup Values) = {}

Files == {"config", "base", "uploaded"}

VARIABLES
  link,       \* the file that the path "config" links to, "none" if it is no link
  file,       \* the content of each file: Missing, Broken (cut off) or a configuration
  overlay,    \* the overlay of each file: Missing, Broken, Blank (it changes nothing) or a value
  step,       \* the file operation that is next, "idle" if no handler runs
  target,     \* the file that the path "config" is to link to
  wanted,     \* the setting or the configuration of the request
  begun       \* what the path "config" led to when the request came

filesVars == <<link, file, overlay>>
everestVars == <<filesVars, step, target, wanted, begun>>

Requests == Configs \cup Values \cup {Blank}

EverestTypeOK ==
  /\ link \in {"none", "base", "uploaded"}
  /\ file \in [Files -> Configs \cup {Missing, Broken}]
  /\ overlay \in [Files -> Values \cup {Missing, Broken, Blank}]
  /\ step \in {"idle", "remove_base", "copy_base", "open_overlay", "write_overlay",
               "open_upload", "write_upload", "remove_link", "link", "restart"}
  /\ target \in {"base", "uploaded"}
  /\ wanted \in Requests
  /\ begun \in Configs \cup {Missing, Broken}

(* An installed device: a configuration of its own, perhaps with settings   *)
(* of its own beside it, and perhaps a base configuration from earlier.     *)
EverestInit ==
  /\ link = "none"
  /\ file \in [Files -> Configs \cup {Missing}]
  /\ file["config"] # Missing /\ file["uploaded"] = Missing
  /\ overlay \in [Files -> Values \cup {Missing}]
  /\ overlay["base"] = Missing /\ overlay["uploaded"] = Missing
  /\ step = "idle" /\ target = "base" /\ wanted = Blank /\ begun = Missing

(* What the path "config" leads to; canonicalFilePath of a dangling link is *)
(* empty.                                                                   *)
Resolved == IF link = "none" THEN "config" ELSE link
Active == file[Resolved]

Loads(content) == content \in Configs

(* loadEffectiveEverestConfig, and of it the setting a page asks for: Blank *)
(* stands for the value the configuration file itself gives.                *)
EffectiveLoads == Loads(Active) /\ overlay[Resolved] # Broken
EffectiveSetting == IF overlay[Resolved] = Missing THEN Blank ELSE overlay[Resolved]

Fail == step' = "idle"

-----------------------------------------------------------------------------
(* handleWriteRequest *)

(* ensureEverestBaseConfig: nothing to copy when both paths lead to one     *)
(* file.                                                                    *)
HandleWrite(value) ==
  /\ wanted' = value /\ begun' = Active /\ target' = "base"
  /\ step' = IF Resolved = "base" /\ file["base"] # Missing THEN "open_overlay" ELSE "remove_base"
  /\ UNCHANGED filesVars

(* copyContent: QFile::copy does not overwrite.                             *)
RemoveBase ==
  /\ step = "remove_base"
  /\ \/ file' = [file EXCEPT !["base"] = Missing] /\ step' = "copy_base"
     \/ file["base"] # Missing /\ Fail /\ UNCHANGED file
  /\ UNCHANGED <<link, overlay, target, wanted, begun>>

CopyBase_GoesOnUncopied ==
  /\ step = "copy_base"
  /\ \/ file' = [file EXCEPT !["base"] = Active] /\ step' = "open_overlay"
     \/ UNCHANGED file /\ step' = "remove_link"
  /\ UNCHANGED <<link, overlay, target, wanted, begun>>

(* The copy and its verification.  A copy that fails leaves no file.        *)
CopyBase ==
  /\ step = "copy_base"
  /\ \/ Active # Missing /\ file' = [file EXCEPT !["base"] = Active] /\ step' = "open_overlay"
     \/ UNCHANGED file /\ Fail
  /\ UNCHANGED <<link, overlay, target, wanted, begun>>

(* ensureEverestConfigOverlay, up to the truncation of the overlay          *)
OpenOverlay ==
  /\ step = "open_overlay"
  /\ \/ /\ Loads(file["base"])
        /\ overlay' = [overlay EXCEPT !["base"] = Broken]
        /\ step' = "write_overlay"
     \/ Fail /\ UNCHANGED overlay
  /\ UNCHANGED <<link, file, target, wanted, begun>>

(* The overlay is written anew from the request alone, blank values left    *)
(* out, and read again.                                                     *)
WriteOverlay ==
  /\ step = "write_overlay"
  /\ \/ overlay' = [overlay EXCEPT !["base"] = wanted] /\ step' = "remove_link"
     \/ Fail /\ UNCHANGED overlay
  /\ UNCHANGED <<link, file, target, wanted, begun>>

-----------------------------------------------------------------------------
(* handleUploadRequest *)

(* An upload that is empty, unnamed or no YAML mapping changes nothing.     *)
HandleUpload(config) ==
  /\ wanted' = config /\ begun' = Active /\ target' = "uploaded"
  /\ step' = "open_upload"
  /\ UNCHANGED filesVars

OpenUpload ==
  /\ step = "open_upload"
  /\ \/ file' = [file EXCEPT !["uploaded"] = Broken] /\ step' = "write_upload"
     \/ Fail /\ UNCHANGED file
  /\ UNCHANGED <<link, overlay, target, wanted, begun>>

(* writeTextFile, and the written file read again                           *)
WriteUpload ==
  /\ step = "write_upload"
  /\ \/ file' = [file EXCEPT !["uploaded"] = wanted] /\ step' = "remove_link"
     \/ Fail /\ UNCHANGED file
  /\ UNCHANGED <<link, overlay, target, wanted, begun>>

-----------------------------------------------------------------------------
(* ensureEverestConfigSymlinkToTarget and restartEverestStack *)

RemoveLink_KeepsLinks ==
  /\ step = "remove_link"
  /\ IF link = "none"
       THEN file' = [file EXCEPT !["config"] = Missing] /\ step' = "link"
       ELSE UNCHANGED file /\ step' = "restart"
  /\ UNCHANGED <<link, overlay, target, wanted, begun>>

RemoveLink ==
  /\ step = "remove_link"
  /\ \/ /\ link' = "none" /\ file' = [file EXCEPT !["config"] = Missing]
        /\ step' = "link"
     \/ /\ link # "none" \/ file["config"] # Missing
        /\ Fail /\ UNCHANGED <<link, file>>
  /\ UNCHANGED <<overlay, target, wanted, begun>>

(* Making the link or its verification may fail.                            *)
Link ==
  /\ step = "link"
  /\ \/ link' = target /\ step' = "restart"
     \/ Fail /\ link' \in {link, target}
  /\ UNCHANGED <<file, overlay, target, wanted, begun>>

(* Whether EVerest may be restarted: what its RpcApi says, or, after an     *)
(* upload only, that RpcApi cannot be reached and the unit is stopped.      *)
RestartAllowed(state, stopped) ==
  state = "allowed" \/ (state = "unreachable" /\ target = "uploaded" /\ stopped)

(* The answer; "saved" is the error that says the configuration was saved.  *)
RestartEverestStack(answer) ==
  /\ step = "restart" /\ Fail
  /\ \E state \in {"allowed", "not_allowed", "unreachable", "malformed"}, stopped \in BOOLEAN :
       IF RestartAllowed(state, stopped) THEN answer \in {"ok", "saved"} ELSE answer = "refused"
  /\ UNCHANGED <<filesVars, target, wanted, begun>>

EverestFileStep ==
  RemoveBase \/ CopyBase \/ OpenOverlay \/ WriteOverlay \/ OpenUpload \/ WriteUpload
  \/ RemoveLink \/ Link

EverestEnds == step' = "idle" /\ UNCHANGED <<filesVars, target, wanted, begun>>
=============================================================================
