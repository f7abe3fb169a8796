--------------------------------- MODULE PCAP ---------------------------------
(***************************************************************************)
(* The packet capture of the API (backend/api/modules/PCAP.cpp), which     *)
(* lives on a thread of its own: what reaches it and what it emits crosses *)
(* a queue of posted events (`toHandler' is the one to the main thread).   *)
(*                                                                         *)
(* Starting and stopping tcpdump block this thread until they are done, so *)
(* the states Starting and Stopping are never seen by an event.  The timer *)
(* that checks the limits is left running by a read; its handler does      *)
(* nothing but in state Recording, so it is not a variable.                *)
(***************************************************************************)
EXTENDS Naturals, Sequences

CONSTANT MaxChunks   \* bound: chunks of one capture file

ASSUME ChunkAssumption == MaxChunks \in Nat \ {0}

VARIABLES
  pcapState,         \* m_state
  pcapBusy,          \* m_busy
  pcapQueue,         \* m_queue
  pumping,           \* the thread is inside processQueue
  capture,           \* m_captureRequestId (and of)
  file,              \* m_lastFile is set and exists
  process,           \* tcpdump: "none", "running" or "surviving" a kill
  transferTimer,     \* m_transferTimer is active
  transfer,          \* m_transferRequestId (and of)
  transferSequence,  \* m_transferSequence
  toHandler

pcapVars == <<pcapState, pcapBusy, pcapQueue, pumping, capture, file, process,
              transferTimer, transfer, transferSequence, toHandler>>

Nobody == [id |-> 0, of |-> 0]
Owner == [id : Nat, of : Nat]

PcapTypeOK ==
  /\ pcapState \in {"Idle", "Recording", "Ready", "Transferring"}
  /\ pcapBusy \in BOOLEAN /\ pumping \in BOOLEAN /\ file \in BOOLEAN
  /\ transferTimer \in BOOLEAN
  /\ capture \in Owner /\ transfer \in Owner
  /\ process \in {"none", "running", "surviving"}
  /\ transferSequence \in Nat

PcapInit ==
  /\ pcapState = "Idle" /\ pcapBusy = FALSE /\ pcapQueue = << >> /\ pumping = FALSE
  /\ capture = Nobody /\ file = FALSE /\ process = "none"
  /\ transferTimer = FALSE /\ transfer = Nobody /\ transferSequence = 0
  /\ toHandler = << >>

-----------------------------------------------------------------------------
Respond(owner, final, outcome, related, isTransfer) ==
  toHandler' = Append(toHandler,
    [type |-> "response",
     response |-> [id |-> owner.id, final |-> final, outcome |-> outcome,
                   related |-> related, transfer |-> isTransfer, of |-> owner.of]])

Refuse(owner) == Respond(owner, TRUE, "error", 0, FALSE)

CleanupCapture ==
  /\ pcapState' = "Idle" /\ pcapBusy' = FALSE /\ capture' = Nobody /\ file' = FALSE
  /\ transferTimer' = FALSE /\ transfer' = Nobody /\ transferSequence' = 0

(* Stopping tcpdump: its exit code, and whether it outlived the kill (its   *)
(* exit code then reads 0).                                                 *)
StopProcess(stopped) ==
  \/ process' = "none"
  \/ stopped /\ process' = "surviving"

-----------------------------------------------------------------------------
(* Requests, as processQueue takes them *)

(* A tcpdump that survived its kill makes the next start fail.  Whatever    *)
(* fails leaves the capture as it was, idle.                                *)
StartCapture(owner) ==
  \/ /\ Refuse(owner)
     /\ process' \in IF pcapState = "Idle" /\ process = "none"
                       THEN {"none", "surviving"} ELSE {process}
     /\ UNCHANGED <<pcapState, pcapBusy, capture, file, transferTimer, transfer,
                    transferSequence>>
  \/ /\ pcapState = "Idle" /\ process = "none"
     /\ pcapState' = "Recording" /\ pcapBusy' = FALSE
     /\ capture' = owner /\ file' = TRUE /\ process' = "running"
     /\ Respond(owner, TRUE, "success", 0, FALSE)
     /\ UNCHANGED <<transferTimer, transfer, transferSequence>>

(* From Recording, the capture is stopped first.                            *)
ReadCapture(owner) ==
  \/ /\ pcapState \notin {"Recording", "Ready"} \/ ~file
     /\ Refuse(owner)
     /\ UNCHANGED <<pcapState, pcapBusy, capture, file, process, transferTimer, transfer,
                    transferSequence>>
  \/ /\ pcapState \in {"Recording", "Ready"} /\ file
     /\ CleanupCapture
     /\ IF pcapState = "Recording" THEN \E stopped \in BOOLEAN : StopProcess(stopped)
                                   ELSE UNCHANGED process
     /\ Respond(owner, TRUE, "error", capture.id, FALSE)
  \/ /\ pcapState \in {"Recording", "Ready"} /\ file
     /\ IF pcapState = "Recording" THEN StopProcess(TRUE) ELSE UNCHANGED process
     /\ pcapState' = "Transferring" /\ pcapBusy' = TRUE
     /\ transfer' = owner /\ transferTimer' = TRUE
     /\ Respond(owner, FALSE, "success", capture.id, TRUE)
     /\ UNCHANGED <<capture, file, transferSequence>>

ReadInterfaces(owner) ==
  /\ Respond(owner, TRUE, "success", 0, FALSE)
  /\ UNCHANGED <<pcapState, pcapBusy, capture, file, process, transferTimer, transfer,
                 transferSequence>>

ProcessQueue ==
  /\ pumping
  /\ IF pcapBusy \/ pcapQueue = << >>
       THEN /\ pumping' = FALSE
            /\ UNCHANGED <<pcapState, pcapBusy, pcapQueue, capture, file, process,
                           transferTimer, transfer, transferSequence, toHandler>>
       ELSE LET next  == Head(pcapQueue)
                owner == [id |-> next.id, of |-> next.of]
            IN /\ pcapQueue' = Tail(pcapQueue)
               /\ UNCHANGED pumping
               /\ \/ next.kind = "pcap_write" /\ StartCapture(owner)
                  \/ next.kind = "pcap_read" /\ ReadCapture(owner)
                  \/ next.kind = "pcap_interfaces" /\ ReadInterfaces(owner)

-----------------------------------------------------------------------------
(* Events of the thread's loop *)

EnqueueRequest(request) ==
  /\ pcapQueue' = Append(pcapQueue, request)
  /\ pumping' = TRUE
  /\ UNCHANGED <<pcapState, pcapBusy, capture, file, process, transferTimer, transfer,
                 transferSequence, toHandler>>

FinishTransferWithError_LeavesWaiting ==
  /\ CleanupCapture
  /\ Refuse(transfer)
  /\ UNCHANGED <<pumping, pcapQueue, process>>

FinishTransferWithError ==
  /\ CleanupCapture
  /\ Refuse(transfer)
  /\ pumping' = TRUE
  /\ UNCHANGED <<pcapQueue, process>>


Expects(id, sequence) ==
  pcapState = "Transferring" /\ id = transfer.id /\ sequence = transferSequence

SendNextChunk(id, sequence) ==
  \/ ~Expects(id, sequence) /\ UNCHANGED pcapVars
  \/ Expects(id, sequence) /\ FinishTransferWithError
  \/ /\ Expects(id, sequence)
     /\ \E final \in BOOLEAN :
          /\ sequence + 1 >= MaxChunks => final
          /\ toHandler' = Append(toHandler,
               [type |-> "chunk", id |-> transfer.id, sequence |-> sequence,
                final |-> final, of |-> transfer.of])
          /\ IF final
               THEN CleanupCapture /\ pumping' = TRUE
               ELSE /\ transferSequence' = transferSequence + 1
                    /\ transferTimer' = TRUE
                    /\ UNCHANGED <<pcapState, pcapBusy, capture, file, transfer, pumping>>
     /\ UNCHANGED <<pcapQueue, process>>

HandleTransferTimeout_FirstChunkOnly ==
  transferTimer /\ transferSequence = 0 /\ FinishTransferWithError

HandleTransferTimeout == transferTimer /\ FinishTransferWithError

(* handleCaptureFinished: the end of tcpdump counts only while it records.  *)
Reported == pcapState = "Recording"

HandleCaptureFinished ==
  /\ process # "none"
  /\ process' = "none"
  /\ IF Reported
       THEN CleanupCapture /\ Refuse(capture)
       ELSE UNCHANGED <<pcapState, pcapBusy, capture, file, transferTimer, transfer,
                        transferSequence, toHandler>>
  /\ UNCHANGED <<pcapQueue, pumping>>

(* checkCaptureLimits and stopCaptureForLimit                               *)
StopCaptureForLimit ==
  /\ pcapState = "Recording"
  /\ \/ /\ process' = "none"
        /\ CleanupCapture
        /\ Refuse(capture)
     \/ /\ StopProcess(TRUE)
        /\ pcapState' = "Ready" /\ pcapBusy' = FALSE
        /\ Respond(capture, TRUE, "limit_reached", 0, FALSE)
        /\ UNCHANGED <<capture, file, transferTimer, transfer, transferSequence>>
  /\ pumping' = TRUE
  /\ UNCHANGED pcapQueue

(* handleClientDisconnected                                                 *)
Shutdown ==
  /\ pcapQueue' = << >>
  /\ IF pcapState = "Recording" THEN \E stopped \in BOOLEAN : StopProcess(stopped)
                                ELSE UNCHANGED process
  /\ CleanupCapture
  /\ UNCHANGED <<pumping, toHandler>>
=============================================================================
