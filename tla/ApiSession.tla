------------------------------ MODULE ApiSession ------------------------------
(***************************************************************************)
(* The API's session with its client: RequestHandler on the main thread,   *)
(* PCAP on its own, the posted events between the two (backend/api/        *)
(* server.cpp), and a client that behaves as public/js/transport.js and    *)
(* public/js/pages/pcap.js do.  The control path is reduced to answering   *)
(* what it was handed, with or without progress responses before.          *)
(***************************************************************************)
EXTENDS RequestHandler, PCAP

CONSTANTS
  MaxConnections,  \* bound: connections, one after the other
  MaxRequests,     \* bound: messages on one connection, and requests on all of them
  MaxResponses,    \* bound: responses after which there is no progress response
  MaxDown,         \* bound: frames and acknowledgements under way at which nothing is resent
  MaxUp,           \* bound: acknowledgements and chunk requests at which none is repeated
  Sends,           \* the kinds of message the client sends
  Opening,         \* bound: kinds that only the first message of all has as well
  MayRestrict      \* the login may be restricted

ASSUME SessionAssumption ==
  /\ {MaxConnections, MaxRequests, MaxResponses, MaxDown, MaxUp} \subseteq Nat
  /\ Sends \union Opening \subseteq RequestKinds \union {"invalid"}
  /\ MayRestrict \in BOOLEAN

VARIABLES
  up,          \* acknowledgements on their way to the API
  sent,        \* messages the client has sent; it numbers its requests with it
  seen,        \* the last response the client received
  opened,      \* the request whose transfer the client has been told of, or 0
  received,    \* the chunks it has received of it
  restricted   \* the login is restricted (readLoginState)

clientVars == <<up, sent, seen, opened, received>>
vars == <<handlerVars, pcapVars, clientVars, restricted>>

Acks == [type : {"ack"}, id : Nat] \union [type : {"chunk_ack"}, client : Nat, sequence : Nat]

Posted ==
  [type : {"response"}, response : Response]
  \union [type : {"chunk"}, id : Nat, sequence : Nat, final : BOOLEAN, of : Nat]

(* Every variable has its type.                                             *)
TypeOK ==
  /\ HandlerTypeOK /\ PcapTypeOK
  /\ pcapQueue \in Seq([id : Nat, kind : PcapKinds, of : Nat])
  /\ toHandler \in Seq(Posted)
  /\ up \in Seq(Acks)
  /\ sent \in Nat /\ seen \in Nat /\ opened \in Nat /\ received \in Nat
  /\ restricted \in BOOLEAN

Init ==
  /\ HandlerInit /\ PcapInit
  /\ up = << >> /\ sent = 0 /\ seen = 0 /\ opened = 0 /\ received = 0
  /\ restricted = FALSE

-----------------------------------------------------------------------------
(* The connection *)

Connect ==
  /\ ~socket /\ generation < MaxConnections
  /\ SetSocket
  /\ up' = << >> /\ sent' = 0 /\ seen' = responseCounter /\ opened' = 0 /\ received' = 0
  /\ UNCHANGED <<pcapVars, restricted>>

Disconnect ==
  /\ socket
  /\ SocketDisconnected
  /\ up' = << >> /\ sent' = 0 /\ opened' = 0 /\ received' = 0
  /\ UNCHANGED <<pcapVars, seen, restricted>>

RestrictLogin ==
  /\ MayRestrict /\ ~restricted
  /\ restricted' = TRUE
  /\ UNCHANGED <<handlerVars, pcapVars, clientVars>>

-----------------------------------------------------------------------------
(* Messages of the client, as handleTextMessage takes them.  What is no     *)
(* JSON object is answered in any case; otherwise, while the login is       *)
(* restricted, anything but an acknowledgement of a response only closes    *)
(* the socket; the disconnect follows when it likes.                        *)

MaySend(kind) == kind \in Sends \/ (kind \in Opening /\ generation = 1 /\ sent = 0)

ClientRequests ==
  /\ socket /\ sent < MaxRequests
  /\ sent' = sent + 1
  /\ \/ /\ ~restricted /\ requestCounter < MaxRequests
        /\ \E kind \in RequestKinds : MaySend(kind) /\ HandleRequest(sent + 1, kind)
     \/ MaySend("invalid") /\ HandleInvalidMessage
  /\ UNCHANGED <<pcapVars, up, seen, opened, received, restricted>>

TakeAck ==
  /\ socket /\ up # << >>
  /\ up' = Tail(up)
  /\ \/ Head(up).type = "ack" /\ HandleAck(Head(up).id)
     \/ /\ Head(up).type = "chunk_ack"
        /\ IF restricted THEN UNCHANGED handlerVars
                         ELSE HandlePcapChunkAck(Head(up).client, Head(up).sequence)
  /\ UNCHANGED <<pcapVars, sent, seen, opened, received, restricted>>

AckTimeout ==
  /\ Len(down) + Len(up) < MaxDown
  /\ ResendInFlight
  /\ UNCHANGED <<pcapVars, clientVars, restricted>>

(* transport.js acknowledges every response, also one it has had before;    *)
(* pcap.js takes the chunk it expects and acknowledges all but the last.    *)
ReceiveText ==
  /\ Head(down).type = "text"
  /\ LET frame == Head(down) IN
       /\ seen' = frame.id
       /\ up' = Append(up, [type |-> "ack", id |-> frame.id])
       /\ IF frame.response.transfer /\ seen # frame.id
            THEN opened' = frame.response.client /\ received' = 0
            ELSE UNCHANGED <<opened, received>>

ReceiveBinary ==
  /\ Head(down).type = "binary"
  /\ LET frame == Head(down) IN
       IF frame.client = opened /\ frame.sequence = received
         THEN /\ received' = received + 1
              /\ up' = IF frame.final THEN up
                       ELSE Append(up, [type |-> "chunk_ack", client |-> frame.client,
                                        sequence |-> frame.sequence])
         ELSE UNCHANGED <<received, up>>
  /\ UNCHANGED <<seen, opened>>

ClientReceives ==
  /\ socket /\ down # << >>
  /\ down' = Tail(down)
  /\ ReceiveText \/ ReceiveBinary
  /\ UNCHANGED <<socket, generation, requestCounter, contexts, responseQueue, inFlight,
                 responseCounter, toPcap, toControl, pcapVars, sent, restricted>>

(* A client may acknowledge the last chunk once more.                       *)
ClientRepeatsAck ==
  /\ socket /\ received > 0 /\ Len(up) + Len(toPcap) < MaxUp
  /\ up' = Append(up, [type |-> "chunk_ack", client |-> opened, sequence |-> received - 1])
  /\ UNCHANGED <<handlerVars, pcapVars, sent, seen, opened, received, restricted>>

-----------------------------------------------------------------------------
(* The main thread takes what the modules emit *)

TakePosted ==
  /\ toHandler # << >>
  /\ toHandler' = Tail(toHandler)
  /\ LET event == Head(toHandler) IN
       \/ event.type = "response" /\ EnqueueResponse(event.response) /\ UNCHANGED toControl
       \/ /\ event.type = "chunk"
          /\ EnqueuePcapChunk(event.id, event.sequence, event.final, event.of)
  /\ UNCHANGED <<pcapState, pcapBusy, pcapQueue, pumping, capture, file, process,
                 transferTimer, transfer, transferSequence, clientVars, restricted>>

(* The control path answers a request, also one whose client is gone.       *)
ControlResponds ==
  /\ \E request \in toControl, final \in BOOLEAN :
       /\ final \/ responseCounter + Len(responseQueue) < MaxResponses
       /\ toControl' = IF final THEN toControl \ {request} ELSE toControl
       /\ EnqueueResponse([id |-> request.id, final |-> final, outcome |-> "success",
                           related |-> 0, transfer |-> FALSE, of |-> request.of])
  /\ UNCHANGED <<pcapVars, clientVars, restricted>>

-----------------------------------------------------------------------------
(* The PCAP thread *)

Elsewhere == UNCHANGED <<socket, generation, requestCounter, contexts, responseQueue,
                         inFlight, responseCounter, down, toControl, clientVars, restricted>>

PcapTakesPosted ==
  /\ ~pumping /\ toPcap # << >>
  /\ toPcap' = Tail(toPcap)
  /\ LET event == Head(toPcap) IN
       \/ event.type = "request" /\ EnqueueRequest([id |-> event.id, kind |-> event.kind, of |-> event.of])
       \/ event.type = "chunk" /\ SendNextChunk(event.id, event.sequence)
       \/ event.type = "disconnected" /\ Shutdown
  /\ Elsewhere

PcapProcessesQueue == ProcessQueue /\ Elsewhere /\ UNCHANGED toPcap
PcapTransferTimeout == ~pumping /\ HandleTransferTimeout /\ Elsewhere /\ UNCHANGED toPcap
CaptureEnds == ~pumping /\ HandleCaptureFinished /\ Elsewhere /\ UNCHANGED toPcap
CaptureLimit == ~pumping /\ StopCaptureForLimit /\ Elsewhere /\ UNCHANGED toPcap

-----------------------------------------------------------------------------
MainThread == TakeAck \/ TakePosted \/ ControlResponds \/ AckTimeout
PcapThread ==
  PcapTakesPosted \/ PcapProcessesQueue \/ PcapTransferTimeout \/ CaptureEnds \/ CaptureLimit
Client == Connect \/ Disconnect \/ ClientRequests \/ ClientReceives \/ ClientRepeatsAck

Next == MainThread \/ PcapThread \/ Client \/ RestrictLogin

(* The two threads run on, the transfer's timer fires, and a connected      *)
(* client takes what it is sent.  That a control request is answered is     *)
(* SystemControl's matter.                                                  *)
Fairness ==
  /\ WF_vars(TakeAck) /\ WF_vars(TakePosted)
  /\ WF_vars(PcapTakesPosted) /\ WF_vars(PcapProcessesQueue) /\ WF_vars(PcapTransferTimeout)
  /\ WF_vars(ClientReceives)

Spec == Init /\ [][Next]_vars /\ Fairness

-----------------------------------------------------------------------------
(* Safety *)

(* What waits for, is on its way to, or is in flight to the client answers  *)
(* a request of this connection: a response or a chunk that comes late,     *)
(* from either thread, never reaches the next client.                       *)
AnswersOwnConnection ==
  /\ \A i \in DOMAIN responseQueue : responseQueue[i].of = generation
  /\ inFlight # NothingInFlight => inFlight.response.of = generation
  /\ \A i \in DOMAIN down : down[i].type = "binary" => down[i].of = generation

(* A capture and what waits for it never outlive the connection they belong *)
(* to, but for the moment until PCAP hears of its end; in particular the    *)
(* next client cannot read the packets of the one before.                   *)
Current(of) ==
  \/ socket /\ of = generation
  \/ \E i \in DOMAIN toPcap : toPcap[i].type = "disconnected" /\ toPcap[i].of = of
CaptureOfItsClient ==
  /\ pcapState # "Idle" => Current(capture.of)
  /\ pcapState = "Transferring" => transfer.of = capture.of
  /\ \A i \in DOMAIN pcapQueue : Current(pcapQueue[i].of)

(* As long as a capture goes on, or waits to be read, the client's request   *)
(* that started it can be answered: its context is not taken away with the  *)
(* one of another capture.                                                  *)
CaptureKeepsContext ==
  pcapState \in {"Recording", "Ready"} /\ socket /\ capture.of = generation =>
    capture.id \in DOMAIN contexts

(* A context is kept only as long as something will still refer to it: an   *)
(* answer not yet given or on its way, or a capture whose file was not read.*)
Mentions(event, id) ==
  \/ event.type = "response" /\ id \in {event.response.id, event.response.related}
  \/ event.type = "chunk" /\ event.id = id
  \/ LET by == IF event.type = "response" THEN event.response.id ELSE event.id IN
       by \in DOMAIN contexts /\ contexts[by].related = id
NoContextForgotten ==
  socket => \A id \in DOMAIN contexts : contexts[id].kind \in PcapKinds =>
    \/ \E i \in DOMAIN toPcap : toPcap[i].type = "request" /\ toPcap[i].id = id
    \/ \E i \in DOMAIN pcapQueue : pcapQueue[i].id = id
    \/ \E i \in DOMAIN toHandler : Mentions(toHandler[i], id)
    \/ id \in {capture.id, transfer.id}

(* A request waits for the capture thread only while that is busy with a    *)
(* transfer, whose every end looks at what waits, or about to look itself:  *)
(* none is left in the queue until some later request comes.                *)
WaitsOnlyWhileBusy == pcapQueue # << >> => pcapBusy \/ pumping


-----------------------------------------------------------------------------
(* Liveness and refinement *)

(* A transfer ends, by its last chunk or by its timer, whatever the client   *)
(* does.                                                                    *)
TransferEnds == pcapState = "Transferring" ~> pcapState # "Transferring"

Received == inFlight # NothingInFlight /\ seen = inFlight.id

Delivery == INSTANCE ReliableDelivery WITH
  Nothing  <- 0,
  waiting  <- responseQueue,
  current  <- inFlight.id,
  received <- Received

(* Responses are delivered one at a time, in order, each until received.    *)
DeliversReliably == Delivery!Spec

-----------------------------------------------------------------------------
(* What makes them inductive *)

(* Whatever has the id of a context belongs to the connection; an id is     *)
(* given once.                                                              *)
Belongs(owner) ==
  owner.id <= requestCounter /\ (owner.id \in DOMAIN contexts => owner.of = generation)
Answered(event) == IF event.type = "response" THEN event.response ELSE event

OwnersInvariant ==
  /\ ~socket => DOMAIN contexts = {} /\ responseQueue = << >> /\ inFlight = NothingInFlight /\ down = << >>
  /\ \A id \in DOMAIN contexts : contexts[id].generation = generation
  /\ \A request \in toControl : Belongs(request)
  /\ \A i \in DOMAIN toPcap : toPcap[i].type = "request" => Belongs(toPcap[i])
  /\ \A i \in DOMAIN pcapQueue : Belongs(pcapQueue[i])
  /\ \A i \in DOMAIN toHandler : Belongs(Answered(toHandler[i]))
  /\ Belongs(capture) /\ Belongs(transfer)
  /\ AnswersOwnConnection

(* The end of a connection is told once it has ended, after all of its      *)
(* requests and before those of the next; what PCAP works on is therefore   *)
(* of one connection.                                                       *)
Ends(i) == toPcap[i].type = "disconnected"
Asks(i) == toPcap[i].type = "request"

CaptureInvariant ==
  /\ CaptureOfItsClient
  /\ \A i \in DOMAIN toPcap : Ends(i) => toPcap[i].of <= generation /\ (socket => toPcap[i].of < generation)
  /\ \A i \in DOMAIN toPcap : Asks(i) =>
       /\ toPcap[i].of <= generation
       /\ (socket /\ toPcap[i].of = generation)
          \/ \E j \in DOMAIN toPcap : i < j /\ Ends(j) /\ toPcap[j].of = toPcap[i].of
  /\ \A i, j \in DOMAIN toPcap : i < j /\ Asks(i) /\ Ends(j) => toPcap[i].of <= toPcap[j].of
  /\ \A i \in DOMAIN toPcap : Ends(i) =>
       /\ pcapState # "Idle" => capture.of <= toPcap[i].of
       /\ \A k \in DOMAIN pcapQueue : pcapQueue[k].of <= toPcap[i].of

(* PCAP is not busy while it records, so the end of tcpdump, after which    *)
(* the code does not look at the queue, finds nothing in it.                *)
WaitInvariant ==
  /\ WaitsOnlyWhileBusy
  /\ pcapState = "Recording" => ~pcapBusy

(* What makes DeliversReliably hold: the response in flight is the last one *)
(* sent, nothing waits without one, and what the client receives, and so    *)
(* what it acknowledges, never goes back.                                   *)
Text(i) == down[i].type = "text"

DeliveryInvariant ==
  /\ IF inFlight = NothingInFlight THEN responseQueue = << >>
                                   ELSE inFlight.id = responseCounter /\ responseCounter > 0
  /\ seen <= responseCounter
  /\ \A i \in DOMAIN down : Text(i) => seen <= down[i].id /\ down[i].id <= responseCounter
  /\ \A i, j \in DOMAIN down : i < j /\ Text(i) /\ Text(j) => down[i].id <= down[j].id
  /\ \A i \in DOMAIN up : up[i].type = "ack" => up[i].id <= seen

(* Requests reach PCAP in the order of their numbers: whatever it has named *)
(* so far is smaller than what waits.                                       *)
Numbers(event) ==
  IF event.type = "response" THEN {event.response.id, event.response.related} ELSE {event.id}
Behind(id) ==
  /\ id <= requestCounter
  /\ \A i \in DOMAIN toPcap : Asks(i) => id < toPcap[i].id
  /\ \A k \in DOMAIN pcapQueue : id < pcapQueue[k].id

Ordered ==
  /\ \A i, j \in DOMAIN toPcap : i < j /\ Asks(i) /\ Asks(j) => toPcap[i].id < toPcap[j].id
  /\ \A k, l \in DOMAIN pcapQueue : k < l => pcapQueue[k].id < pcapQueue[l].id
  /\ \A k \in DOMAIN pcapQueue, i \in DOMAIN toPcap : Asks(i) => pcapQueue[k].id < toPcap[i].id
  /\ Behind(0) /\ Behind(capture.id) /\ Behind(transfer.id)
  /\ \A i \in DOMAIN toHandler : \A id \in Numbers(toHandler[i]) : Behind(id)
  /\ \A id \in DOMAIN contexts : Behind(contexts[id].related)

(* A request of the present connection that waits has its context, which no *)
(* capture was put into yet.                                                *)
Has(id, kind) == id \in DOMAIN contexts /\ contexts[id].kind = kind
Waiting(request) ==
  socket /\ request.of = generation => Has(request.id, request.kind) /\ contexts[request.id].related = 0

WaitingHaveContexts ==
  /\ \A i \in DOMAIN toPcap : Asks(i) => Waiting(toPcap[i])
  /\ \A k \in DOMAIN pcapQueue : Waiting(pcapQueue[k])
  /\ \A request \in toControl : request.id \in DOMAIN contexts => Has(request.id, "control")

(* The events of a request, and those that end it.                          *)
Of(event, id) == Answered(event).id = id
Final(event) == Answered(event).final
Relating(event, id) == event.type = "response" /\ event.response.related = id
NoCapture(event) == event.type = "chunk" \/ event.response.related = 0
Failing(event) == event.type = "response" /\ event.response.final /\ event.response.outcome = "error"

(* A capture that goes on has its context, no event that takes it away is   *)
(* under way, and nobody but the transfer of its file refers to it.         *)
CaptureLinked ==
  pcapState # "Idle" =>
    /\ capture.id # 0
    /\ socket /\ capture.of = generation => Has(capture.id, "pcap_write")
    /\ \A i \in DOMAIN toHandler : Of(toHandler[i], capture.id) /\ Final(toHandler[i]) =>
         toHandler[i].type = "response" /\ ~Failing(toHandler[i])
    /\ \A i \in DOMAIN toHandler : Relating(toHandler[i], capture.id) =>
         pcapState = "Transferring" /\ Of(toHandler[i], transfer.id)
    /\ \A id \in DOMAIN contexts : contexts[id].related = capture.id =>
         pcapState = "Transferring" /\ id = transfer.id

(* A transfer that goes on has its context as well; it has not been ended,  *)
(* and its read knows the capture or is going to be told.                   *)
Relates(id, related) ==
  \/ contexts[id].related = related
  \/ \E i \in DOMAIN toHandler : Of(toHandler[i], id) /\ Relating(toHandler[i], related)

TransferLinked ==
  /\ transferTimer => pcapState = "Transferring"
  /\ pcapState = "Transferring" =>
    /\ \A i \in DOMAIN toHandler : Of(toHandler[i], transfer.id) => ~Final(toHandler[i])
    /\ socket /\ transfer.of = generation =>
         Has(transfer.id, "pcap_read") /\ Relates(transfer.id, capture.id)

(* A read ends once, with its last event, and is of one capture.            *)
ReadsEndOnce ==
  /\ \A i, j \in DOMAIN toHandler : \A id \in DOMAIN contexts :
       i < j /\ Of(toHandler[i], id) /\ Of(toHandler[j], id) /\ contexts[id].kind = "pcap_read" =>
         ~Final(toHandler[i]) /\ (NoCapture(toHandler[i]) \/ NoCapture(toHandler[j]))
  /\ \A i \in DOMAIN toHandler : \A id \in DOMAIN contexts :
       Of(toHandler[i], id) /\ contexts[id].related # 0 => NoCapture(toHandler[i])
  /\ \A i \in DOMAIN toHandler : \A id \in DOMAIN contexts :
       Of(toHandler[i], id) /\ toHandler[i].type = "chunk" => contexts[id].kind = "pcap_read"

(* What every context is kept for.                                          *)
Waits(id) ==
  \/ \E i \in DOMAIN toPcap : Asks(i) /\ toPcap[i].id = id
  \/ \E k \in DOMAIN pcapQueue : pcapQueue[k].id = id
Ending(id) == \E i \in DOMAIN toHandler : Of(toHandler[i], id) /\ Final(toHandler[i])

AccountedFor(id) ==
  /\ contexts[id].kind = "pcap_interfaces" => Waits(id) \/ Ending(id)
  /\ contexts[id].kind = "pcap_read" =>
       Waits(id) \/ Ending(id) \/ (pcapState = "Transferring" /\ transfer.id = id)
  /\ contexts[id].kind = "pcap_write" =>
       \/ Waits(id)
       \/ pcapState # "Idle" /\ capture.id = id
       \/ \E i \in DOMAIN toHandler : Of(toHandler[i], id) /\ Failing(toHandler[i])
       \/ \E by \in DOMAIN contexts :
            contexts[by].kind = "pcap_read" /\ Ending(by) /\ Relates(by, id)
Accounted == \A id \in DOMAIN contexts : AccountedFor(id)

ContextInvariant ==
  Ordered /\ WaitingHaveContexts /\ CaptureLinked /\ TransferLinked /\ ReadsEndOnce /\ Accounted
=============================================================================
