---------------------------- MODULE RequestHandler ----------------------------
(***************************************************************************)
(* The browser's session in the API (backend/api/RequestHandler.cpp): the  *)
(* contexts that lead a response back to the request of the client, and    *)
(* the delivery of responses, one at a time, each resent until it is       *)
(* acknowledged.  `down' is what was written to the socket, `toPcap' what  *)
(* was posted to the PCAP thread, `toControl' what was handed to the       *)
(* control path.                                                           *)
(*                                                                         *)
(* Requests and what follows from them carry `of', the connection their    *)
(* client sent them on.  The code has no such field: it is there to state  *)
(* whose answer is whose.                                                  *)
(***************************************************************************)
EXTENDS Naturals, FiniteSets, Sequences

VARIABLES
  socket,           \* m_socket is set
  generation,       \* m_connectionGeneration
  requestCounter,   \* m_serverRequestIdCounter
  contexts,         \* m_requestContexts
  responseQueue,    \* m_responseQueue
  inFlight,         \* m_inFlightResponse, m_inFlightId, m_inFlightServerRequestId
  responseCounter,  \* m_responseIdCounter
  down, toPcap, toControl

handlerVars == <<socket, generation, requestCounter, contexts, responseQueue, inFlight,
                 responseCounter, down, toPcap, toControl>>

PcapKinds == {"pcap_write", "pcap_read", "pcap_interfaces"}
RequestKinds == PcapKinds \union {"control", "unknown"}
Outcomes == {"success", "limit_reached", "error"}

(* A response of a module; `related' is captureRequestId, 0 without one.    *)
Response == [id : Nat, final : BOOLEAN, outcome : Outcomes, related : Nat,
             transfer : BOOLEAN, of : Nat]
(* The same on its way to the client.                                       *)
ClientResponse == [client : Nat, transfer : BOOLEAN, of : Nat]
RequestContext == [client : Nat, generation : Nat, kind : RequestKinds, related : Nat]
NothingInFlight == [id |-> 0]
InFlight == [id : Nat, response : ClientResponse, readId : Nat]

PcapEvents == [type : {"request"}, id : Nat, kind : PcapKinds, of : Nat]
              \union [type : {"chunk"}, id : Nat, sequence : Nat]
              \union [type : {"disconnected"}, of : Nat]
Frames == [type : {"text"}, id : Nat, response : ClientResponse]
          \union [type : {"binary"}, client : Nat, sequence : Nat, final : BOOLEAN, of : Nat]

HandlerTypeOK ==
  /\ socket \in BOOLEAN
  /\ generation \in Nat /\ requestCounter \in Nat /\ responseCounter \in Nat
  /\ DOMAIN contexts \subseteq 1..requestCounter
  /\ \A id \in DOMAIN contexts : contexts[id] \in RequestContext
  /\ responseQueue \in Seq(ClientResponse)
  /\ inFlight \in InFlight \union {NothingInFlight}
  /\ down \in Seq(Frames)
  /\ toPcap \in Seq(PcapEvents)
  /\ toControl \subseteq [id : Nat, of : Nat]

HandlerInit ==
  /\ socket = FALSE /\ generation = 0
  /\ requestCounter = 0 /\ responseCounter = 0
  /\ contexts = << >> /\ responseQueue = << >> /\ inFlight = NothingInFlight
  /\ down = << >> /\ toPcap = << >> /\ toControl = {}

-----------------------------------------------------------------------------
(* Contexts *)

Forget(known, ids) == [id \in DOMAIN known \ ids |-> known[id]]
Remember(known, id, context) ==
  [i \in DOMAIN known \union {id} |-> IF i = id THEN context ELSE known[i]]

ReadContexts(known, client) ==
  {id \in DOMAIN known : /\ known[id].generation = generation
                         /\ known[id].client = client
                         /\ known[id].kind = "pcap_read"}

(* retainContext: the context of a capture stays until its file is read.    *)
Retained(response, context) ==
  context.kind = "pcap_write" /\ response.outcome \in {"success", "limit_reached"}

WriteContext_Kept(known, id) == {}

WriteContext_AnyCapture(known, id) ==
  {i \in DOMAIN known : known[i].generation = generation /\ known[i].kind = "pcap_write"}

(* removePcapWriteContext                                                   *)
WriteContext(known, id) ==
  {i \in DOMAIN known : /\ i = id
                        /\ known[i].generation = generation
                        /\ known[i].kind = "pcap_write"}

-----------------------------------------------------------------------------
(* Delivery *)

TextFrame(id, response) == [type |-> "text", id |-> id, response |-> response]

(* trySendNextResponse with `queued' waiting and `flying' in flight.  Which  *)
(* context is found first is the hash table's affair.                       *)
TrySendNextResponse(queued, flying) ==
  IF socket /\ queued # << >> /\ flying = NothingInFlight
    THEN /\ \E readId \in IF ReadContexts(contexts', Head(queued).client) = {}
                            THEN {0} ELSE ReadContexts(contexts', Head(queued).client) :
              inFlight' = [id |-> responseCounter + 1, response |-> Head(queued),
                           readId |-> readId]
         /\ responseQueue' = Tail(queued)
         /\ responseCounter' = responseCounter + 1
         /\ down' = Append(down, TextFrame(responseCounter + 1, Head(queued)))
    ELSE /\ responseQueue' = queued
         /\ inFlight' = flying
         /\ UNCHANGED <<responseCounter, down>>

EnqueueResponseObject(response) == TrySendNextResponse(Append(responseQueue, response), inFlight)

Dropped == UNCHANGED <<contexts, responseQueue, inFlight, responseCounter, down>>

EnqueueResponse(response) ==
  /\ UNCHANGED <<socket, generation, requestCounter, toPcap>>
  /\ IF ~socket \/ response.id \notin DOMAIN contexts
       THEN Dropped
     ELSE IF contexts[response.id].generation # generation
       THEN /\ contexts' = Forget(contexts, {response.id})
            /\ UNCHANGED <<responseQueue, inFlight, responseCounter, down>>
     ELSE LET context == contexts[response.id]
              isRead  == context.kind = "pcap_read"
              related == IF isRead /\ response.related # 0 THEN response.related
                                                           ELSE context.related
              known   == Remember(contexts, response.id, [context EXCEPT !.related = related])
              over    == IF response.final /\ ~Retained(response, context)
                           THEN {response.id} ELSE {}
              writes  == IF response.final /\ isRead THEN WriteContext(known, related) ELSE {}
          IN /\ contexts' = Forget(known, over \union writes)
             /\ EnqueueResponseObject([client |-> context.client,
                                       transfer |-> response.transfer, of |-> response.of])

(* A binary frame is written at once, past the responses that wait.         *)
EnqueuePcapChunk(id, sequence, final, of) ==
  /\ UNCHANGED <<socket, generation, requestCounter, responseQueue, inFlight,
                 responseCounter, toPcap, toControl>>
  /\ IF /\ socket /\ id \in DOMAIN contexts
        /\ contexts[id].generation = generation /\ contexts[id].kind = "pcap_read"
       THEN /\ down' = Append(down, [type |-> "binary", client |-> contexts[id].client,
                                     sequence |-> sequence, final |-> final, of |-> of])
            /\ contexts' = IF final
                 THEN Forget(contexts, {id} \union WriteContext(contexts, contexts[id].related))
                 ELSE contexts
       ELSE UNCHANGED <<down, contexts>>

ResendInFlight ==
  /\ socket /\ inFlight # NothingInFlight
  /\ down' = Append(down, TextFrame(inFlight.id, inFlight.response))
  /\ UNCHANGED <<socket, generation, requestCounter, contexts, responseQueue, inFlight,
                 responseCounter, toPcap, toControl>>

-----------------------------------------------------------------------------
(* Messages of the client *)

Answering_AnyId(id) == TRUE

Answering(id) == id = inFlight.id

HandleAck(id) ==
  /\ UNCHANGED <<socket, generation, requestCounter, contexts, toControl>>
  /\ IF inFlight = NothingInFlight \/ ~Answering(id)
       THEN UNCHANGED <<responseQueue, inFlight, responseCounter, down, toPcap>>
       ELSE /\ toPcap' = IF inFlight.response.transfer /\ inFlight.readId > 0
              THEN Append(toPcap, [type |-> "chunk", id |-> inFlight.readId, sequence |-> 0])
              ELSE toPcap
            /\ TrySendNextResponse(responseQueue, NothingInFlight)

HandlePcapChunkAck(client, sequence) ==
  /\ LET found == ReadContexts(contexts, client) IN
       toPcap' = IF found = {} THEN toPcap
                 ELSE Append(toPcap, [type |-> "chunk", sequence |-> sequence + 1,
                                      id |-> CHOOSE i \in found : \A j \in found : j <= i])
  /\ UNCHANGED <<socket, generation, requestCounter, contexts, responseQueue, inFlight,
                 responseCounter, down, toControl>>

(* A request.  An unknown group is answered at once, its context comes and   *)
(* goes within the handler.                                                 *)
HandleRequest(client, kind) ==
  LET id == requestCounter + 1
      context == [client |-> client, generation |-> generation, kind |-> kind, related |-> 0]
  IN /\ requestCounter' = id
     /\ IF kind = "unknown"
          THEN /\ UNCHANGED <<contexts, toPcap, toControl>>
               /\ EnqueueResponseObject([client |-> client, transfer |-> FALSE,
                                         of |-> generation])
          ELSE /\ contexts' = Remember(contexts, id, context)
               /\ toPcap' = IF kind \in PcapKinds
                    THEN Append(toPcap, [type |-> "request", id |-> id, kind |-> kind,
                                         of |-> generation])
                    ELSE toPcap
               /\ toControl' = IF kind = "control"
                    THEN toControl \union {[id |-> id, of |-> generation]} ELSE toControl
               /\ UNCHANGED <<responseQueue, inFlight, responseCounter, down>>
     /\ UNCHANGED <<socket, generation>>

(* A message that is no JSON, or no request, is answered with request id 0. *)
HandleInvalidMessage ==
  /\ UNCHANGED contexts
  /\ EnqueueResponseObject([client |-> 0, transfer |-> FALSE, of |-> generation])
  /\ UNCHANGED <<socket, generation, requestCounter, toPcap, toControl>>

-----------------------------------------------------------------------------
(* The connection *)

SetSocket ==
  /\ socket' = TRUE
  /\ generation' = generation + 1
  /\ down' = << >>
  /\ UNCHANGED <<requestCounter, contexts, responseQueue, inFlight, responseCounter,
                 toPcap, toControl>>

ClearSession_CountsAnew ==
  /\ contexts' = << >> /\ responseQueue' = << >> /\ inFlight' = NothingInFlight
  /\ requestCounter' = 0

ClearSession ==
  /\ contexts' = << >> /\ responseQueue' = << >> /\ inFlight' = NothingInFlight
  /\ UNCHANGED requestCounter

PostDisconnected_Never == toPcap

PostDisconnected == Append(toPcap, [type |-> "disconnected", of |-> generation])

(* The socket's own slot clears the session first, then the server tells    *)
(* the PCAP thread.                                                         *)
SocketDisconnected ==
  /\ ClearSession
  /\ socket' = FALSE
  /\ down' = << >>
  /\ toPcap' = PostDisconnected
  /\ UNCHANGED <<generation, responseCounter, toControl>>
=============================================================================
