------------------------ MODULE FirmwareUpdateRuntime ------------------------
(***************************************************************************)
(* The firmware upload and installation state of the API                   *)
(* (backend/api/modules/FirmwareUpdateRuntime.cpp).  Each handler is an    *)
(* action over this module's variables with the outcome as its last        *)
(* parameter; SystemControl gives the outcome to the client and owns the   *)
(* event loop.  The bytes of an image are abstracted to their number; what *)
(* the upload file holds on disk is `image'.                               *)
(***************************************************************************)
EXTENDS Naturals, Requests

CONSTANTS
  ImageSizes,   \* size_bytes an upload may announce
  ChunkCounts,  \* chunk_count an upload may announce
  ChunkSizes,   \* chunk_size_bytes an upload may announce
  DataSizes     \* number of bytes a chunk may decode to

ASSUME SizeAssumption ==
  /\ ImageSizes  \subseteq Nat \ {0}
  /\ ChunkCounts \subseteq Nat \ {0}
  /\ ChunkSizes  \subseteq Nat \ {0}
  /\ DataSizes   \subseteq Nat \ {0}

VARIABLES
  updateRunning,   \* m_updateRunning
  currentId,       \* m_currentRequestId
  successSeen,     \* m_successSeen
  rauc,            \* the installer process: "none" or "running"
  uploadRunning,   \* m_uploadRunning; m_uploadFile is open exactly then
  uploadFinished,  \* m_uploadFinished
  pathSet,         \* m_uploadFilePath is not empty
  expected,        \* announced [size, count, chunk]
  written,         \* m_writtenUploadSizeBytes
  nextChunk,       \* m_nextExpectedChunkIndex
  image,           \* the file: "absent", "partial" or "verified"
  rebootRequired,  \* m_rebootRequired
  rebootPending    \* m_rebootPending

uploadVars == <<uploadRunning, uploadFinished, pathSet, expected, written, nextChunk>>
updateVars == <<updateRunning, currentId, successSeen, rauc>>
rebootVars == <<rebootRequired, rebootPending>>
firmwareVars == <<uploadVars, updateVars, rebootVars, image>>

NoUpload == [size |-> 0, count |-> 0, chunk |-> 0]
Announcements ==
  [size : ImageSizes, count : ChunkCounts, chunk : ChunkSizes] \union {NoUpload}
Images == {"absent", "partial", "verified"}

FirmwareTypeOK ==
  /\ updateRunning \in BOOLEAN
  /\ currentId \in Ids \union {NoId}
  /\ successSeen \in BOOLEAN
  /\ rauc \in {"none", "running"}
  /\ uploadRunning \in BOOLEAN
  /\ uploadFinished \in BOOLEAN
  /\ pathSet \in BOOLEAN
  /\ expected \in Announcements
  /\ written \in Nat
  /\ nextChunk \in Nat
  /\ image \in Images
  /\ rebootRequired \in BOOLEAN
  /\ rebootPending \in BOOLEAN

FirmwareInit ==
  /\ updateRunning = FALSE
  /\ currentId = NoId
  /\ successSeen = FALSE
  /\ rauc = "none"
  /\ uploadRunning = FALSE
  /\ uploadFinished = FALSE
  /\ pathSet = FALSE
  /\ expected = NoUpload
  /\ written = 0
  /\ nextChunk = 0
  /\ image = "absent"
  /\ rebootRequired = FALSE
  /\ rebootPending = FALSE

FirmwareBusy == updateRunning \/ uploadRunning \/ rebootPending

-----------------------------------------------------------------------------
(* Upload *)

ResetUploadState ==
  /\ uploadRunning' = FALSE
  /\ uploadFinished' = FALSE
  /\ pathSet' = FALSE
  /\ expected' = NoUpload
  /\ written' = 0
  /\ nextChunk' = 0

AbortUploadAndRemovePartialFile ==
  /\ ResetUploadState
  /\ image' = IF pathSet THEN "absent" ELSE image

(* The announced size, count and chunk size are taken as they are: nothing  *)
(* relates them to each other.                                              *)
OpenUploadFile ==
  /\ uploadRunning' = TRUE /\ uploadFinished' = FALSE /\ pathSet' = TRUE
  /\ expected' \in [size : ImageSizes, count : ChunkCounts, chunk : ChunkSizes]
  /\ written' = 0 /\ nextChunk' = 0 /\ image' = "partial"
  /\ rebootRequired' = FALSE

(* The state of an earlier upload is forgotten before anything is checked;  *)
(* the images in the directory are removed once the parameters and the      *)
(* directory are known to be good, which may fail half way.                 *)
HandleUploadStart(outcome) ==
  /\ UNCHANGED <<updateVars, rebootPending>>
  /\ \/ /\ uploadRunning
        /\ outcome = "upload_in_progress"
        /\ UNCHANGED <<uploadVars, rebootRequired, image>>
     \/ /\ ~uploadRunning
        /\ outcome \in {"invalid_params", "firmware_image_dir_error"}
        /\ ResetUploadState
        /\ UNCHANGED <<rebootRequired, image>>
     \/ /\ ~uploadRunning
        /\ outcome = "firmware_image_cleanup_failed"
        /\ ResetUploadState
        /\ image' \in {image, "absent"}
        /\ UNCHANGED rebootRequired
     \/ /\ ~uploadRunning
        /\ outcome \in {"insufficient_space", "firmware_upload_start_failed"}
        /\ ResetUploadState
        /\ image' = "absent"
        /\ UNCHANGED rebootRequired
     \/ /\ ~uploadRunning
        /\ outcome = "ok"
        /\ OpenUploadFile

Fits_BeforeAdding(bytes) == written <= expected.size

(* The check against the announced size, made before anything is written.   *)
Fits(bytes) == written + bytes <= expected.size

HandleUploadChunk(index, bytes, outcome) ==
  /\ UNCHANGED <<updateVars, rebootVars>>
  /\ \/ /\ ~uploadRunning \/ uploadFinished
        /\ outcome = "upload_not_started"
        /\ UNCHANGED <<uploadVars, image>>
     \/ /\ uploadRunning /\ ~uploadFinished
        /\ index # nextChunk \/ index >= expected.count
        /\ outcome = "chunk_out_of_order"
        /\ UNCHANGED <<uploadVars, image>>
     \/ /\ uploadRunning /\ ~uploadFinished
        /\ index = nextChunk /\ index < expected.count
        /\ \/ /\ bytes > expected.chunk
              /\ outcome = "invalid_chunk"
              /\ UNCHANGED <<uploadVars, image>>
           \/ /\ bytes <= expected.chunk
              /\ ~Fits(bytes)
              /\ outcome = "upload_size_exceeded"
              /\ AbortUploadAndRemovePartialFile
           \/ /\ bytes <= expected.chunk
              /\ Fits(bytes)
              /\ outcome = "firmware_upload_chunk_write_failed"
              /\ AbortUploadAndRemovePartialFile
           \/ /\ bytes <= expected.chunk
              /\ Fits(bytes)
              /\ outcome = "ok"
              /\ written' = written + bytes
              /\ nextChunk' = nextChunk + 1
              /\ UNCHANGED <<uploadRunning, uploadFinished, pathSet, expected, image>>

(* A checksum that matches means the file is the image the client meant.    *)
HandleUploadFinish(outcome) ==
  /\ UNCHANGED <<updateVars, rebootVars>>
  /\ \/ /\ ~uploadRunning \/ uploadFinished
        /\ outcome = "upload_not_started"
        /\ UNCHANGED <<uploadVars, image>>
     \/ /\ uploadRunning /\ ~uploadFinished
        /\ outcome = "invalid_params"
        /\ UNCHANGED <<uploadVars, image>>
     \/ /\ uploadRunning /\ ~uploadFinished
        /\ nextChunk # expected.count \/ written # expected.size
        /\ outcome = "upload_incomplete"
        /\ AbortUploadAndRemovePartialFile
     \/ /\ uploadRunning /\ ~uploadFinished
        /\ nextChunk = expected.count /\ written = expected.size
        /\ outcome \in {"firmware_upload_finish_failed", "checksum_mismatch"}
        /\ AbortUploadAndRemovePartialFile
     \/ /\ uploadRunning /\ ~uploadFinished
        /\ nextChunk = expected.count /\ written = expected.size
        /\ outcome = "ok"
        /\ uploadRunning' = FALSE
        /\ uploadFinished' = TRUE
        /\ image' = "verified"
        /\ UNCHANGED <<pathSet, expected, written, nextChunk>>

HandleClientDisconnected_Always ==
  /\ AbortUploadAndRemovePartialFile
  /\ UNCHANGED <<updateVars, rebootVars>>

HandleClientDisconnected ==
  /\ IF uploadRunning
       THEN AbortUploadAndRemovePartialFile
       ELSE UNCHANGED <<uploadVars, image>>
  /\ UNCHANGED <<updateVars, rebootVars>>

-----------------------------------------------------------------------------
(* Installation and reboot *)

HasFinishedUpload_FileOnly == pathSet /\ image # "absent"

HasFinishedUpload == ~uploadRunning /\ uploadFinished /\ pathSet /\ image # "absent"

HandleUpdate(id, outcome) ==
  /\ UNCHANGED <<uploadVars, image, rebootPending>>
  /\ \/ /\ updateRunning
        /\ outcome = "update_in_progress"
        /\ UNCHANGED <<updateVars, rebootRequired>>
     \/ /\ ~updateRunning /\ ~HasFinishedUpload
        /\ outcome = "upload_not_ready"
        /\ UNCHANGED <<updateVars, rebootRequired>>
     \/ /\ ~updateRunning /\ HasFinishedUpload
        /\ outcome = "firmware_update_start_failed"
        /\ UNCHANGED <<updateVars, rebootRequired>>
     \/ /\ ~updateRunning /\ HasFinishedUpload
        /\ outcome = "accepted"
        /\ updateRunning' = TRUE
        /\ currentId' = id
        /\ successSeen' = FALSE
        /\ rauc' = "running"
        /\ rebootRequired' = FALSE

(* SystemControl::isFirmwareUpdateStartAccepted                             *)
StartAccepted(outcome) == outcome = "accepted"

(* A line of the installer's output.  Progress lines are reported with a    *)
(* non-final response, a line that ends in "succeeded" is remembered.       *)
HandleStdoutLine(line) ==
  /\ successSeen' = (successSeen \/ line = "succeeded")
  /\ UNCHANGED <<updateRunning, currentId, rauc, uploadVars, rebootVars, image>>

(* handleStreamingFinished up to and including its final response.  The     *)
(* remainder of the output is flushed first and may hold the success line.  *)
StreamingFinished(exitCode, flushed) ==
  /\ successSeen' = (successSeen \/ flushed = "succeeded")
  /\ rebootRequired' = (exitCode = 0 /\ successSeen')
  /\ rauc' = "none"
  /\ UNCHANGED <<updateRunning, currentId, uploadVars, rebootPending, image>>

(* The rest of handleStreamingFinished, after the response was emitted.     *)
StreamingCleanup ==
  /\ updateRunning' = FALSE
  /\ ResetUploadState
  /\ currentId' = NoId
  /\ successSeen' = FALSE
  /\ UNCHANGED <<rauc, rebootVars, image>>

RebootRefused == FirmwareBusy \/ ~rebootRequired

(* The accepted reboot; publishing the login restriction is SystemControl's *)
(* composition with LoginState.                                             *)
AcceptReboot ==
  /\ rebootRequired' = FALSE
  /\ rebootPending' = TRUE
  /\ UNCHANGED <<updateVars, uploadVars, image>>
=============================================================================
