----------------------------- MODULE RpcApiClient -----------------------------
(***************************************************************************)
(* The backend's connection to EVerest (backend/api/RpcApiClient.cpp): the *)
(* Hello handshake, reconnects, and one EVSE.GetStatus at a time with one  *)
(* repetition.                                                             *)
(*                                                                         *)
(* `asked' and `arriving' are the two directions of the open connection.   *)
(* A request id is told apart only from the one that is awaited: it is     *)
(* "current", and "stale" from the moment another request is sent.  A      *)
(* status is what its reader makes of it: "fine", "faulty" (error_present) *)
(* or "occupied" (a state that forbids a restart); "refused" is an RPC     *)
(* error or a status without its fields.                                   *)
(***************************************************************************)
EXTENDS EverestService, Sequences

CONSTANT MaxConnections   \* bound on the attempts to connect

VARIABLES
  link,                     \* the WebSocket's state
  peer,                     \* the instance at its other end
  asked, arriving,
  handshakeComplete, handshakeGeneration, disconnectionGeneration,
  pending,                  \* m_pendingRequests, which holds one request at most
  lastResponse,             \* m_lastRpcResponse
  reading,                  \* the call of getEvseStatus that waits in its event loop
  reconnectTimer,
  connections               \* attempts to connect so far

linkVars == <<link, peer, asked, arriving, reconnectTimer, connections>>
handshakeVars == <<handshakeComplete, handshakeGeneration, disconnectionGeneration>>
requestVars == <<pending, lastResponse, reading>>
clientVars == <<linkVars, handshakeVars, requestVars>>

Statuses == {"fine", "faulty", "occupied", "refused"}
Answers == Statuses \union {"malformed", "hello", "no hello"}
NoRequest == [attempts |-> 0, generation |-> 0]
NoReading == [evse |-> 0, generation |-> 0, expired |-> FALSE]
NoResponse == "none"

ClientTypeOK ==
  /\ link \in {"closed", "connecting", "open", "closing"}
  /\ peer \in 0..MaxInstances
  /\ asked \in Seq({"hello", "current", "stale"})
  /\ arriving \in Seq([id : {"hello", "current", "stale"}, answer : Answers])
  /\ handshakeComplete \in BOOLEAN
  /\ handshakeGeneration \in Nat /\ disconnectionGeneration \in Nat
  /\ pending \in [attempts : 0..2, generation : Nat]
  /\ lastResponse \in Statuses \union {NoResponse}
  /\ reading \in [evse : Nat, generation : Nat, expired : BOOLEAN]
  /\ reconnectTimer \in BOOLEAN
  /\ connections \in 1..MaxConnections

ClientInit ==
  /\ link = "connecting" /\ peer = 0 /\ asked = <<>> /\ arriving = <<>>
  /\ handshakeComplete = FALSE /\ handshakeGeneration = 0 /\ disconnectionGeneration = 0
  /\ pending = NoRequest /\ lastResponse = NoResponse /\ reading = NoReading
  /\ reconnectTimer = FALSE /\ connections = 1

IsReady == link = "open" /\ handshakeComplete
Reading == reading # NoReading
(* The process at the other end still runs.                                 *)
PeerAlive == peer = instance /\ api

(***************************************************************************)
(* Connecting and the handshake.                                           *)
(***************************************************************************)
OnConnected ==
  /\ link = "connecting" /\ api
  /\ link' = "open" /\ peer' = instance
  /\ handshakeComplete' = FALSE
  /\ asked' = <<"hello">> /\ arriving' = <<>>
  /\ UNCHANGED <<reconnectTimer, connections, handshakeGeneration, disconnectionGeneration>>
  /\ UNCHANGED requestVars

(* onDisconnected, which also ends the wait of a request.                   *)
OnDisconnected ==
  /\ disconnectionGeneration' = disconnectionGeneration + 1
  /\ handshakeComplete' = FALSE
  /\ lastResponse' = NoResponse
  /\ pending' = NoRequest
  /\ reconnectTimer' = TRUE
  /\ link' = "closed" /\ peer' = 0 /\ asked' = <<>> /\ arriving' = <<>>
  /\ UNCHANGED <<handshakeGeneration, connections, reading>>

Disconnected ==
  /\ \/ link = "connecting" /\ ~api
     \/ link = "open" /\ ~PeerAlive
     \/ link = "closing"
  /\ OnDisconnected

(* The timer is started by a disconnect only: nothing is connected then.    *)
EnsureConnected ==
  /\ reconnectTimer /\ connections < MaxConnections
  /\ reconnectTimer' = FALSE
  /\ link' = "connecting" /\ connections' = connections + 1
  /\ UNCHANGED <<peer, asked, arriving>>
  /\ UNCHANGED <<handshakeVars, requestVars>>

(* EVerest answers what it was asked.                                       *)
PeerAnswers ==
  /\ link = "open" /\ PeerAlive /\ asked # <<>>
  /\ \E answer \in IF Head(asked) = "hello" THEN {"hello", "no hello"}
                   ELSE Statuses \union {"malformed"} :
       arriving' = Append(arriving, [id |-> Head(asked), answer |-> answer])
  /\ asked' = Tail(asked)
  /\ UNCHANGED <<link, peer, reconnectTimer, connections>>
  /\ UNCHANGED <<handshakeVars, requestVars>>

(***************************************************************************)
(* Requests.                                                               *)
(***************************************************************************)
Outdated(id) == IF id = "current" THEN "stale" ELSE id

(* getEvseStatus as far as its event loop.  It is called with the handshake *)
(* complete; a caller that is not connected has its answer without it.      *)
Ask(evse) ==
  /\ reading' = [evse |-> evse, generation |-> handshakeGeneration, expired |-> FALSE]
  /\ pending' = [attempts |-> 1, generation |-> handshakeGeneration]
  /\ lastResponse' = NoResponse
  /\ asked' = Append([i \in DOMAIN asked |-> Outdated(asked[i])], "current")
  /\ arriving' = [i \in DOMAIN arriving |-> [arriving[i] EXCEPT !.id = Outdated(@)]]
  /\ UNCHANGED <<link, peer, reconnectTimer, connections>>
  /\ UNCHANGED handshakeVars

AskNothing ==
  /\ reading' = NoReading
  /\ lastResponse' = NoResponse
  /\ UNCHANGED <<pending, linkVars, handshakeVars>>

ReadIsOver == Reading /\ pending = NoRequest

(* What getEvseStatus returns: the answer, if it is still worth something.  *)
ReadResult ==
  IF /\ lastResponse # NoResponse
     /\ ~reading.expired
     /\ reading.generation = handshakeGeneration
     /\ IsReady
  THEN lastResponse
  ELSE "no response"

(* Both attempts count against the deadline of the call.                    *)
ReadExpires ==
  /\ Reading /\ ~reading.expired
  /\ reading' = [reading EXCEPT !.expired = TRUE]
  /\ UNCHANGED <<pending, lastResponse, linkVars, handshakeVars>>

(* onPendingRequestTimeout: the request goes out a second time, or the      *)
(* connection is given up.                                                  *)
CanResend == pending.attempts < 2 /\ ~reading.expired /\ IsReady

RetryOrAbort ==
  \/ /\ CanResend
     /\ pending' = [pending EXCEPT !.attempts = @ + 1]
     /\ asked' = Append(asked, "current")
     /\ UNCHANGED <<link, peer, arriving, reconnectTimer, connections>>
     /\ UNCHANGED <<handshakeVars, lastResponse, reading>>
  \/ ~CanResend /\ OnDisconnected

PendingRequestTimeout == pending # NoRequest /\ RetryOrAbort

(***************************************************************************)
(* onBinaryMessageReceived.                                                *)
(***************************************************************************)
Awaited(message) ==
  /\ message.id = "current"
  /\ pending # NoRequest
  /\ pending.generation = handshakeGeneration

Received == arriving' = Tail(arriving)

HelloResponse ==
  LET message == Head(arriving) IN
  /\ message.id = "hello"
  /\ Received
  /\ \/ /\ message.answer = "hello"
        /\ handshakeComplete' = TRUE
        /\ handshakeGeneration' = handshakeGeneration + 1
        /\ UNCHANGED link
     \/ /\ message.answer = "no hello"
        /\ link' = "closing"
        /\ UNCHANGED <<handshakeComplete, handshakeGeneration>>
  /\ UNCHANGED <<peer, asked, reconnectTimer, connections, disconnectionGeneration>>
  /\ UNCHANGED requestVars

StatusResponse ==
  LET message == Head(arriving) IN
  /\ message.id # "hello" /\ Awaited(message) /\ message.answer \in Statuses
  /\ Received
  /\ lastResponse' = message.answer
  /\ pending' = NoRequest
  /\ UNCHANGED <<link, peer, asked, reconnectTimer, connections>>
  /\ UNCHANGED <<handshakeVars, reading>>

IgnoredResponse ==
  LET message == Head(arriving) IN
  /\ message.id # "hello" /\ ~Awaited(message)
  /\ Received
  /\ UNCHANGED <<link, peer, asked, reconnectTimer, connections>>
  /\ UNCHANGED <<handshakeVars, requestVars>>

(* A reply that is neither a result nor an error counts as a timeout.       *)
MalformedResponse ==
  LET message == Head(arriving) IN
  /\ message.id # "hello" /\ Awaited(message) /\ message.answer = "malformed"
  /\ \/ /\ CanResend
        /\ Received
        /\ pending' = [pending EXCEPT !.attempts = @ + 1]
        /\ asked' = Append(asked, "current")
        /\ UNCHANGED <<link, peer, reconnectTimer, connections>>
        /\ UNCHANGED <<handshakeVars, lastResponse, reading>>
     \/ ~CanResend /\ OnDisconnected

BinaryMessageReceived ==
  /\ link = "open" /\ arriving # <<>>
  /\ HelloResponse \/ StatusResponse \/ IgnoredResponse \/ MalformedResponse

Client ==
  OnConnected \/ Disconnected \/ EnsureConnected \/ BinaryMessageReceived
  \/ ReadExpires \/ PendingRequestTimeout
=============================================================================
