-------------------------- MODULE ApiSession_proofs --------------------------
(***************************************************************************)
(* Proofs about ApiSession, for any number of connections, messages and    *)
(* chunks: what reaches a client is its own, and what PCAP works on is of  *)
(* one connection, which has not ended, or whose end is on its way.        *)
(***************************************************************************)
EXTENDS ApiSession, WellFoundedInduction, SequenceTheorems, TLAPS

-----------------------------------------------------------------------------
(* Sequences of posted events *)

LEMMA Appended ==
  ASSUME NEW S, NEW s \in Seq(S), NEW e \in S
  PROVE  /\ Append(s, e) \in Seq(S) /\ DOMAIN Append(s, e) = 1..Len(s) + 1 /\ DOMAIN s = 1..Len(s)
         /\ \A i \in DOMAIN s : Append(s, e)[i] = s[i]
         /\ Append(s, e)[Len(s) + 1] = e
         /\ Len(s) \in Nat
  OBVIOUS

LEMMA Taken ==
  ASSUME NEW S, NEW s \in Seq(S), s # << >>
  PROVE  /\ Tail(s) \in Seq(S) /\ DOMAIN Tail(s) = 1..Len(s) - 1 /\ DOMAIN s = 1..Len(s)
         /\ \A i \in DOMAIN Tail(s) : i + 1 \in DOMAIN s /\ Tail(s)[i] = s[i + 1]
         /\ Head(s) = s[1] /\ Head(s) \in S /\ 1 \in DOMAIN s
         /\ Len(s) \in Nat /\ Len(s) >= 1
  OBVIOUS

(* Every set of numbers below a bound has a greatest, unless it is empty.   *)
LEMMA GreatestExists ==
  ASSUME NEW n \in Nat, NEW S, S \subseteq 1..n, S # {}
  PROVE  \E i \in S : \A j \in S : j <= i
<1> DEFINE bounds == {b \in Nat : \A j \in S : j <= b}
<1>1. n \in bounds
  OBVIOUS
<1>2. PICK b \in Nat : b \in bounds /\ \A c \in bounds : b <= c
  <2>1. bounds \subseteq Nat /\ bounds # {}
    BY <1>1
  <2> HIDE DEF bounds
  <2>2. PICK b \in bounds : \A c \in bounds : <<c, b>> \notin OpToRel(<, Nat)
    BY <2>1, WFMin, NatLessThanWellFounded
  <2>3. b \in Nat /\ \A c \in bounds : c \in Nat /\ ~ (c < b)
    BY <2>1, <2>2, Zenon DEF OpToRel
  <2>4. \A c \in bounds : b <= c
    <3> SUFFICES ASSUME NEW c \in bounds PROVE b <= c
      OBVIOUS
    <3>1. c \in Nat /\ b \in Nat /\ ~ (c < b)
      BY <2>3
    <3> QED
      BY <3>1
  <2> QED
    BY <2>2, <2>3, <2>4
<1>3. b # 0
  <2>1. PICK i \in S : i \in 1..n
    OBVIOUS
  <2>2. i <= b
    BY <1>2
  <2> QED
    BY <1>2, <2>1, <2>2
<1>4. b - 1 \in Nat /\ b - 1 \notin bounds
  BY <1>2, <1>3
<1>5. PICK j \in S : ~(j <= b - 1)
  BY <1>4
<1>6. j = b
  BY <1>2, <1>5
<1> QED
  BY <1>2, <1>5, <1>6

-----------------------------------------------------------------------------
(* Types *)

PcapRequest == [id : Nat, kind : PcapKinds, of : Nat]

LEMMA Acknowledgements ==
  /\ \A id \in Nat : [type |-> "ack", id |-> id] \in Acks
  /\ \A client, sequence \in Nat : [type |-> "chunk_ack", client |-> client, sequence |-> sequence] \in Acks
  /\ \A ack \in Acks : ack.type = "ack" => ack.id \in Nat
  /\ \A ack \in Acks : ack.type = "chunk_ack" => ack.client \in Nat /\ ack.sequence \in Nat
  BY DEF Acks

LEMMA PostedEvents ==
  /\ \A response \in Response : [type |-> "response", response |-> response] \in Posted
  /\ \A id, sequence, of \in Nat, final \in BOOLEAN :
       [type |-> "chunk", id |-> id, sequence |-> sequence, final |-> final, of |-> of] \in Posted
  /\ \A event \in Posted : event.type = "response" => event.response \in Response
  /\ \A event \in Posted : event.type = "chunk" =>
       event.id \in Nat /\ event.sequence \in Nat /\ event.final \in BOOLEAN /\ event.of \in Nat
  /\ \A event \in Posted : event.type \in {"response", "chunk"}
  BY DEF Posted

LEMMA EventsForPcap ==
  /\ \A id, of \in Nat, kind \in PcapKinds :
       [type |-> "request", id |-> id, kind |-> kind, of |-> of] \in PcapEvents
  /\ \A id, sequence \in Nat : [type |-> "chunk", id |-> id, sequence |-> sequence] \in PcapEvents
  /\ \A of \in Nat : [type |-> "disconnected", of |-> of] \in PcapEvents
  /\ \A event \in PcapEvents : event.type = "request" =>
       event.id \in Nat /\ event.kind \in PcapKinds /\ event.of \in Nat
  /\ \A event \in PcapEvents : event.type = "chunk" => event.id \in Nat /\ event.sequence \in Nat
  /\ \A event \in PcapEvents : event.type = "disconnected" => event.of \in Nat
  BY DEF PcapEvents

LEMMA WrittenFrames ==
  /\ \A id \in Nat, response \in ClientResponse : TextFrame(id, response) \in Frames
  /\ \A client, sequence, of \in Nat, final \in BOOLEAN :
       [type |-> "binary", client |-> client, sequence |-> sequence, final |-> final, of |-> of] \in Frames
  /\ \A frame \in Frames : frame.type = "text" => frame.id \in Nat /\ frame.response \in ClientResponse
  /\ \A frame \in Frames : frame.type = "binary" =>
       frame.client \in Nat /\ frame.sequence \in Nat /\ frame.final \in BOOLEAN /\ frame.of \in Nat
  BY DEF Frames, TextFrame

LEMMA ReadContextsType ==
  ASSUME HandlerTypeOK, NEW client
  PROVE  ReadContexts(contexts, client) \subseteq 1..requestCounter
  BY DEF HandlerTypeOK, ReadContexts

(* Sending what waits.                                                      *)
LEMMA TrySendType ==
  ASSUME NEW queued \in Seq(ClientResponse), NEW flying \in InFlight \union {NothingInFlight},
         TrySendNextResponse(queued, flying), HandlerTypeOK, DOMAIN contexts' \subseteq Nat
  PROVE  /\ responseQueue' \in Seq(ClientResponse) /\ responseCounter' \in Nat
         /\ inFlight' \in InFlight \union {NothingInFlight} /\ down' \in Seq(Frames)
<1>1. CASE ~(socket /\ queued # << >> /\ flying = NothingInFlight)
  BY <1>1 DEF TrySendNextResponse, HandlerTypeOK
<1>2. CASE socket /\ queued # << >> /\ flying = NothingInFlight
  <2>1. /\ \E readId \in IF ReadContexts(contexts', Head(queued).client) = {}
                           THEN {0} ELSE ReadContexts(contexts', Head(queued).client) :
             inFlight' = [id |-> responseCounter + 1, response |-> Head(queued), readId |-> readId]
        /\ responseQueue' = Tail(queued)
        /\ responseCounter' = responseCounter + 1
        /\ down' = Append(down, TextFrame(responseCounter + 1, Head(queued)))
    BY <1>2 DEF TrySendNextResponse
  <2>2. Head(queued) \in ClientResponse /\ responseCounter + 1 \in Nat /\ Tail(queued) \in Seq(ClientResponse)
    BY <1>2 DEF HandlerTypeOK
  <2>3. PICK readId \in Nat :
          inFlight' = [id |-> responseCounter + 1, response |-> Head(queued), readId |-> readId]
    BY <2>1 DEF ReadContexts
  <2>4. inFlight' \in InFlight
    BY <2>2, <2>3 DEF InFlight
  <2>5. down' \in Seq(Frames)
    BY <2>1, <2>2, WrittenFrames DEF HandlerTypeOK
  <2> QED
    BY <2>1, <2>2, <2>4, <2>5
<1> QED
  BY <1>1, <1>2

LEMMA EnqueueResponseType ==
  ASSUME HandlerTypeOK, NEW response \in Response, EnqueueResponse(response),
         toControl' \subseteq [id : Nat, of : Nat]
  PROVE  HandlerTypeOK'
<1>1. CASE ~socket \/ response.id \notin DOMAIN contexts
  BY <1>1 DEF EnqueueResponse, Dropped, HandlerTypeOK
<1>2. CASE /\ socket /\ response.id \in DOMAIN contexts
           /\ contexts[response.id].generation # generation
  <2>1. contexts' = Forget(contexts, {response.id})
        /\ UNCHANGED <<socket, generation, requestCounter, toPcap, responseQueue, inFlight, responseCounter, down>>
    BY <1>2 DEF EnqueueResponse
  <2>2. DOMAIN contexts' \subseteq DOMAIN contexts /\ \A id \in DOMAIN contexts' : contexts'[id] = contexts[id]
    BY <2>1 DEF Forget
  <2> QED
    BY <2>1, <2>2 DEF HandlerTypeOK
<1>3. CASE /\ socket /\ response.id \in DOMAIN contexts
           /\ contexts[response.id].generation = generation
  <2> DEFINE context == contexts[response.id]
             related == IF context.kind = "pcap_read" /\ response.related # 0
                          THEN response.related ELSE context.related
             changed == [context EXCEPT !.related = related]
             known   == Remember(contexts, response.id, changed)
             over    == IF response.final /\ ~Retained(response, context) THEN {response.id} ELSE {}
             writes  == IF response.final /\ context.kind = "pcap_read"
                          THEN WriteContext(known, related) ELSE {}
             answer  == [client |-> context.client, transfer |-> response.transfer, of |-> response.of]
  <2>1. contexts' = Forget(known, over \union writes) /\ EnqueueResponseObject(answer)
    BY <1>3 DEF EnqueueResponse
  <2>2. context \in RequestContext /\ response.id \in 1..requestCounter
    BY <1>3 DEF HandlerTypeOK
  <2>3. changed \in RequestContext /\ answer \in ClientResponse
    BY <2>2 DEF RequestContext, ClientResponse, Response
  <2> HIDE DEF context, related, changed, answer, over, writes
  <2>4. DOMAIN known = DOMAIN contexts \union {response.id}
        /\ \A i \in DOMAIN known : known[i] = IF i = response.id THEN changed ELSE contexts[i]
    BY DEF Remember
  <2> HIDE DEF known
  <2>5. DOMAIN contexts' \subseteq DOMAIN contexts /\ \A id \in DOMAIN contexts' : contexts'[id] = known[id]
    BY <1>3, <2>1, <2>4 DEF Forget
  <2>6. DOMAIN contexts' \subseteq 1..requestCounter /\ \A id \in DOMAIN contexts' : contexts'[id] \in RequestContext
    BY <2>3, <2>4, <2>5 DEF HandlerTypeOK
  <2>7. Append(responseQueue, answer) \in Seq(ClientResponse)
    BY <2>3 DEF HandlerTypeOK
  <2>8. TrySendNextResponse(Append(responseQueue, answer), inFlight)
    BY <2>1 DEF EnqueueResponseObject
  <2>9. inFlight \in InFlight \union {NothingInFlight} /\ DOMAIN contexts' \subseteq Nat
    BY <2>6 DEF HandlerTypeOK
  <2> QED
    BY <2>6, <2>7, <2>8, <2>9, TrySendType DEF HandlerTypeOK, EnqueueResponse
<1> QED
  BY <1>1, <1>2, <1>3

LEMMA EnqueueChunkType ==
  ASSUME HandlerTypeOK, NEW id \in Nat, NEW sequence \in Nat, NEW final \in BOOLEAN, NEW of \in Nat,
         EnqueuePcapChunk(id, sequence, final, of)
  PROVE  HandlerTypeOK'
<1>1. CASE UNCHANGED <<down, contexts>>
  BY <1>1 DEF HandlerTypeOK, EnqueuePcapChunk
<1>2. CASE /\ socket /\ id \in DOMAIN contexts
           /\ contexts[id].generation = generation /\ contexts[id].kind = "pcap_read"
  <2>1. contexts[id].client \in Nat
    BY <1>2 DEF HandlerTypeOK, RequestContext
  <2>2. down' \in Seq(Frames)
    <3> DEFINE frame == [type |-> "binary", client |-> contexts[id].client, sequence |-> sequence,
                         final |-> final, of |-> of]
    <3>1. frame \in Frames /\ down' = Append(down, frame)
      BY <1>2, <2>1, WrittenFrames DEF EnqueuePcapChunk
    <3> HIDE DEF frame
    <3> QED
      BY <3>1 DEF HandlerTypeOK
  <2>3. \/ contexts' = contexts
        \/ contexts' = Forget(contexts, {id} \union WriteContext(contexts, contexts[id].related))
    BY <1>2 DEF EnqueuePcapChunk
  <2>4. DOMAIN contexts' \subseteq DOMAIN contexts /\ \A i \in DOMAIN contexts' : contexts'[i] = contexts[i]
    BY <2>3 DEF Forget
  <2> QED
    BY <2>2, <2>4 DEF HandlerTypeOK, EnqueuePcapChunk
<1> QED
  BY <1>1, <1>2 DEF EnqueuePcapChunk

LEMMA AckType ==
  ASSUME HandlerTypeOK, NEW id, HandleAck(id)
  PROVE  HandlerTypeOK'
<1>1. CASE UNCHANGED <<responseQueue, inFlight, responseCounter, down, toPcap>>
  BY <1>1 DEF HandlerTypeOK, HandleAck
<1>2. CASE inFlight # NothingInFlight /\ Answering(id)
  <2>1. inFlight.readId \in Nat
    BY <1>2 DEF HandlerTypeOK, InFlight
  <2>2. toPcap' \in Seq(PcapEvents)
    <3> DEFINE event == [type |-> "chunk", id |-> inFlight.readId, sequence |-> 0]
    <3>1. event \in PcapEvents
      BY <2>1, EventsForPcap
    <3>2. toPcap' = toPcap \/ toPcap' = Append(toPcap, event)
      BY <1>2 DEF HandleAck
    <3>3. toPcap \in Seq(PcapEvents)
      BY DEF HandlerTypeOK
    <3> HIDE DEF event
    <3> QED
      BY <3>1, <3>2, <3>3
  <2>3. TrySendNextResponse(responseQueue, NothingInFlight) /\ DOMAIN contexts' \subseteq Nat
        /\ responseQueue \in Seq(ClientResponse)
    BY <1>2 DEF HandleAck, HandlerTypeOK
  <2> QED
    BY <2>2, <2>3, TrySendType DEF HandlerTypeOK, HandleAck
<1> QED
  BY <1>1, <1>2 DEF HandleAck

LEMMA ChunkAckType ==
  ASSUME HandlerTypeOK, NEW client \in Nat, NEW sequence \in Nat, HandlePcapChunkAck(client, sequence)
  PROVE  HandlerTypeOK' /\ UNCHANGED <<contexts, requestCounter>>
<1> DEFINE found == ReadContexts(contexts, client)
<1>1. CASE found = {}
  BY <1>1 DEF HandlerTypeOK, HandlePcapChunkAck
<1>2. CASE found # {}
  <2> DEFINE latest == CHOOSE i \in found : \A j \in found : j <= i
  <2>1. found \subseteq 1..requestCounter
    BY ReadContextsType
  <2>2. \E i \in found : \A j \in found : j <= i
    BY <1>2, <2>1, GreatestExists DEF HandlerTypeOK
  <2>3. latest \in Nat
    BY <2>1, <2>2
  <2> HIDE DEF latest
  <2>4. [type |-> "chunk", sequence |-> sequence + 1, id |-> latest] \in PcapEvents
    BY <2>3 DEF PcapEvents
  <2>5. toPcap' = Append(toPcap, [type |-> "chunk", sequence |-> sequence + 1, id |-> latest])
    BY <1>2 DEF HandlePcapChunkAck, latest
  <2> QED
    BY <2>4, <2>5 DEF HandlerTypeOK, HandlePcapChunkAck
<1> QED
  BY <1>1, <1>2

LEMMA RequestType ==
  ASSUME HandlerTypeOK, NEW client \in Nat, NEW kind \in RequestKinds, HandleRequest(client, kind)
  PROVE  HandlerTypeOK'
<1> DEFINE context == [client |-> client, generation |-> generation, kind |-> kind, related |-> 0]
           answer  == [client |-> client, transfer |-> FALSE, of |-> generation]
<1>1. context \in RequestContext /\ answer \in ClientResponse /\ requestCounter' = requestCounter + 1
      /\ requestCounter' \in Nat
  BY DEF HandlerTypeOK, RequestContext, ClientResponse, HandleRequest
<1> HIDE DEF context, answer
<1>2. CASE kind = "unknown"
  <2>1. Append(responseQueue, answer) \in Seq(ClientResponse)
    BY <1>1 DEF HandlerTypeOK
  <2>2. /\ TrySendNextResponse(Append(responseQueue, answer), inFlight)
        /\ UNCHANGED <<contexts, toPcap, toControl, socket, generation>>
        /\ DOMAIN contexts' \subseteq Nat
        /\ inFlight \in InFlight \union {NothingInFlight}
    BY <1>2 DEF HandleRequest, EnqueueResponseObject, answer, HandlerTypeOK
  <2>3. /\ responseQueue' \in Seq(ClientResponse) /\ responseCounter' \in Nat
        /\ inFlight' \in InFlight \union {NothingInFlight} /\ down' \in Seq(Frames)
    BY <2>1, <2>2, TrySendType
  <2> QED
    BY <1>1, <2>2, <2>3 DEF HandlerTypeOK
<1>3. CASE kind # "unknown"
  <2>1. /\ contexts' = Remember(contexts, requestCounter + 1, context)
        /\ UNCHANGED <<responseQueue, inFlight, responseCounter, down, socket, generation>>
    BY <1>3 DEF HandleRequest, context
  <2>2. DOMAIN contexts' \subseteq 1..requestCounter'
        /\ \A id \in DOMAIN contexts' : contexts'[id] \in RequestContext
    BY <1>1, <2>1 DEF HandlerTypeOK, Remember
  <2>3. toPcap' \in Seq(PcapEvents)
    <3>1. CASE kind \in PcapKinds
      <4> DEFINE event == [type |-> "request", id |-> requestCounter + 1, kind |-> kind, of |-> generation]
      <4>1. event \in PcapEvents
        BY <3>1 DEF HandlerTypeOK, PcapEvents
      <4>2. toPcap' = Append(toPcap, event)
        BY <1>3, <3>1 DEF HandleRequest
      <4> HIDE DEF event
      <4> QED
        BY <4>1, <4>2 DEF HandlerTypeOK
    <3>2. CASE kind \notin PcapKinds
      BY <1>3, <3>2 DEF HandleRequest, HandlerTypeOK
    <3> QED
      BY <3>1, <3>2
  <2>4. toControl' \subseteq [id : Nat, of : Nat]
    BY <1>3 DEF HandleRequest, HandlerTypeOK
  <2> QED
    BY <1>1, <2>1, <2>2, <2>3, <2>4 DEF HandlerTypeOK
<1> QED
  BY <1>2, <1>3

LEMMA InvalidMessageType ==
  ASSUME HandlerTypeOK, HandleInvalidMessage
  PROVE  HandlerTypeOK'
<1> DEFINE answer == [client |-> 0, transfer |-> FALSE, of |-> generation]
<1>1. Append(responseQueue, answer) \in Seq(ClientResponse)
  BY DEF HandlerTypeOK, ClientResponse
<1>2. TrySendNextResponse(Append(responseQueue, answer), inFlight) /\ DOMAIN contexts' \subseteq Nat
      /\ inFlight \in InFlight \union {NothingInFlight}
  BY DEF HandleInvalidMessage, EnqueueResponseObject, HandlerTypeOK
<1> HIDE DEF answer
<1> QED
  BY <1>1, <1>2, TrySendType DEF HandlerTypeOK, HandleInvalidMessage

-----------------------------------------------------------------------------
(* What a step of PCAP may do *)

PcapWorkTypeOK == PcapTypeOK /\ pcapQueue \in Seq(PcapRequest) /\ toHandler \in Seq(Posted)

OwnerOf(request) == [id |-> request.id, of |-> request.of]

(* PCAP answers, and works for, nobody but those it has taken a request of. *)
AnswersOwner(event, owner) == Answered(event).id = owner.id /\ Answered(event).of = owner.of
InWork(owner) == owner \in {capture, transfer} \/ (pcapQueue # << >> /\ owner = OwnerOf(Head(pcapQueue)))

WorksForOwners ==
  /\ \/ UNCHANGED toHandler
     \/ \E event \in Posted, owner \in Owner :
          toHandler' = Append(toHandler, event) /\ InWork(owner) /\ AnswersOwner(event, owner)
  /\ capture' = Nobody \/ InWork(capture')
  /\ transfer' = Nobody \/ InWork(transfer')
  /\ UNCHANGED pcapQueue \/ (pcapQueue # << >> /\ pcapQueue' = Tail(pcapQueue))

KeepsCapture ==
  /\ pcapState' # "Idle" =>
       \/ pcapState # "Idle" /\ capture' = capture
       \/ pcapQueue # << >> /\ capture' = OwnerOf(Head(pcapQueue))
  /\ pcapState' = "Transferring" =>
       /\ pcapState # "Idle" /\ capture' = capture
       /\ \/ pcapState = "Transferring" /\ transfer' = transfer
          \/ pcapQueue # << >> /\ transfer' = OwnerOf(Head(pcapQueue))

LEMMA RespondStep ==
  ASSUME toHandler \in Seq(Posted), NEW owner \in Owner, NEW final \in BOOLEAN, NEW outcome \in Outcomes,
         NEW related \in Nat, NEW isTransfer \in BOOLEAN,
         Respond(owner, final, outcome, related, isTransfer)
  PROVE  /\ toHandler' \in Seq(Posted)
         /\ \E event \in Posted : toHandler' = Append(toHandler, event) /\ AnswersOwner(event, owner)
<1> DEFINE response == [id |-> owner.id, final |-> final, outcome |-> outcome,
                        related |-> related, transfer |-> isTransfer, of |-> owner.of]
           event == [type |-> "response", response |-> response]
<1>1. response \in Response
  BY DEF Response, Owner
<1>2. response.id = owner.id /\ response.of = owner.of /\ event.type = "response" /\ event.response = response
  OBVIOUS
<1>3. toHandler' = Append(toHandler, event)
  BY DEF Respond
<1> HIDE DEF response
<1>4. event \in Posted
  BY <1>1, PostedEvents
<1>5. AnswersOwner(event, owner)
  BY <1>2 DEF AnswersOwner, Answered
<1> HIDE DEF event
<1> QED
  BY <1>3, <1>4, <1>5

LEMMA RefuseStep ==
  ASSUME toHandler \in Seq(Posted), NEW owner \in Owner, Refuse(owner)
  PROVE  /\ toHandler' \in Seq(Posted)
         /\ \E event \in Posted : toHandler' = Append(toHandler, event) /\ AnswersOwner(event, owner)
<1>1. "error" \in Outcomes /\ 0 \in Nat /\ TRUE \in BOOLEAN /\ FALSE \in BOOLEAN
      /\ Respond(owner, TRUE, "error", 0, FALSE)
  BY DEF Outcomes, Refuse
<1> QED
  BY <1>1, RespondStep

LEMMA CleanupStep ==
  ASSUME CleanupCapture
  PROVE  /\ pcapState' = "Idle" /\ pcapBusy' \in BOOLEAN /\ file' \in BOOLEAN /\ transferTimer' \in BOOLEAN
         /\ capture' = Nobody /\ capture' \in Owner /\ transfer' = Nobody /\ transfer' \in Owner
         /\ transferSequence' \in Nat
  BY Zenon DEF CleanupCapture, Nobody, Owner

LEMMA StopStep ==
  ASSUME NEW stopped, StopProcess(stopped)
  PROVE  process' \in {"none", "running", "surviving"}
  BY DEF StopProcess

LEMMA StartStep ==
  ASSUME PcapWorkTypeOK, NEW owner \in Owner, StartCapture(owner), UNCHANGED pumping
  PROVE  /\ PcapTypeOK'
         /\ toHandler' \in Seq(Posted)
         /\ \E event \in Posted : toHandler' = Append(toHandler, event) /\ AnswersOwner(event, owner)
         /\ transfer' = transfer
         /\ \/ UNCHANGED <<pcapState, capture>>
            \/ pcapState' = "Recording" /\ capture' = owner
<1>1. CASE /\ Refuse(owner)
           /\ process' \in IF pcapState = "Idle" /\ process = "none"
                             THEN {"none", "surviving"} ELSE {process}
           /\ UNCHANGED <<pcapState, pcapBusy, capture, file, transferTimer, transfer,
                          transferSequence>>
  <2>1. process' \in {"none", "running", "surviving"}
    BY <1>1 DEF PcapWorkTypeOK, PcapTypeOK
  <2>2. toHandler \in Seq(Posted) /\ Refuse(owner)
    BY <1>1 DEF PcapWorkTypeOK
  <2> QED
    BY <1>1, <2>1, <2>2, RefuseStep DEF PcapWorkTypeOK, PcapTypeOK
<1>2. CASE /\ pcapState' = "Recording" /\ pcapBusy' = FALSE
           /\ capture' = owner /\ file' = TRUE /\ process' = "running"
           /\ Respond(owner, TRUE, "success", 0, FALSE)
           /\ UNCHANGED <<transferTimer, transfer, transferSequence>>
  <2>1. "success" \in Outcomes /\ 0 \in Nat /\ TRUE \in BOOLEAN /\ FALSE \in BOOLEAN
        /\ toHandler \in Seq(Posted) /\ Respond(owner, TRUE, "success", 0, FALSE)
    BY <1>2 DEF Outcomes, PcapWorkTypeOK
  <2> QED
    BY <1>2, <2>1, RespondStep DEF PcapWorkTypeOK, PcapTypeOK
<1> QED
  BY <1>1, <1>2 DEF StartCapture

LEMMA ReadStep ==
  ASSUME PcapWorkTypeOK, NEW owner \in Owner, ReadCapture(owner), UNCHANGED pumping
  PROVE  /\ PcapTypeOK'
         /\ toHandler' \in Seq(Posted)
         /\ \E event \in Posted : toHandler' = Append(toHandler, event) /\ AnswersOwner(event, owner)
         /\ \/ UNCHANGED <<pcapState, capture, transfer>>
            \/ pcapState' = "Idle" /\ capture' = Nobody /\ transfer' = Nobody
            \/ /\ pcapState # "Idle" /\ pcapState' = "Transferring"
               /\ capture' = capture /\ transfer' = owner
<1> USE DEF PcapWorkTypeOK
<1>1. CASE /\ Refuse(owner)
           /\ UNCHANGED <<pcapState, pcapBusy, capture, file, process, transferTimer, transfer,
                          transferSequence>>
  BY <1>1, RefuseStep DEF PcapTypeOK
<1>2. CASE /\ CleanupCapture
           /\ IF pcapState = "Recording" THEN \E stopped \in BOOLEAN : StopProcess(stopped)
                                         ELSE UNCHANGED process
           /\ Respond(owner, TRUE, "error", capture.id, FALSE)
  <2>1. "error" \in Outcomes /\ capture.id \in Nat /\ TRUE \in BOOLEAN /\ FALSE \in BOOLEAN
        /\ Respond(owner, TRUE, "error", capture.id, FALSE)
    BY <1>2 DEF Outcomes, PcapTypeOK, Owner
  <2>2. process' \in {"none", "running", "surviving"}
    BY <1>2, StopStep DEF PcapTypeOK
  <2> QED
    BY <1>2, <2>1, <2>2, RespondStep, CleanupStep DEF PcapTypeOK
<1>3. CASE /\ pcapState \in {"Recording", "Ready"}
           /\ IF pcapState = "Recording" THEN StopProcess(TRUE) ELSE UNCHANGED process
           /\ pcapState' = "Transferring" /\ pcapBusy' = TRUE
           /\ transfer' = owner /\ transferTimer' = TRUE
           /\ Respond(owner, FALSE, "success", capture.id, TRUE)
           /\ UNCHANGED <<capture, file, transferSequence>>
  <2>1. "success" \in Outcomes /\ capture.id \in Nat /\ TRUE \in BOOLEAN /\ FALSE \in BOOLEAN
        /\ Respond(owner, FALSE, "success", capture.id, TRUE)
    BY <1>3 DEF Outcomes, PcapTypeOK, Owner
  <2>2. process' \in {"none", "running", "surviving"}
    BY <1>3, StopStep DEF PcapTypeOK
  <2> QED
    BY <1>3, <2>1, <2>2, RespondStep DEF PcapTypeOK
<1> QED
  BY <1>1, <1>2, <1>3 DEF ReadCapture

LEMMA ProcessQueueStep ==
  ASSUME PcapWorkTypeOK, ProcessQueue
  PROVE  PcapWorkTypeOK' /\ WorksForOwners /\ KeepsCapture
<1>1. CASE pcapBusy \/ pcapQueue = << >>
  BY <1>1 DEF PcapWorkTypeOK, PcapTypeOK, ProcessQueue, WorksForOwners, KeepsCapture, InWork
<1>2. CASE ~(pcapBusy \/ pcapQueue = << >>)
  <2> DEFINE next  == Head(pcapQueue)
             owner == [id |-> next.id, of |-> next.of]
  <2>1. /\ pcapQueue' = Tail(pcapQueue) /\ UNCHANGED pumping /\ pcapQueue # << >>
        /\ \/ StartCapture(owner)
           \/ ReadCapture(owner)
           \/ ReadInterfaces(owner)
    BY <1>2 DEF ProcessQueue
  <2>2. next \in PcapRequest /\ pcapQueue' \in Seq(PcapRequest)
    BY <2>1 DEF PcapWorkTypeOK
  <2>3. owner \in Owner /\ InWork(owner) /\ owner = OwnerOf(Head(pcapQueue))
    BY <2>1, <2>2 DEF PcapRequest, Owner, InWork, OwnerOf
  <2> HIDE DEF next, owner
  <2>4. InWork(capture) /\ InWork(transfer)
    BY DEF InWork
  <2>5. CASE StartCapture(owner)
    BY <2>1, <2>2, <2>3, <2>4, <2>5, StartStep DEF PcapWorkTypeOK, WorksForOwners, KeepsCapture
  <2>6. CASE ReadCapture(owner)
    BY <2>1, <2>2, <2>3, <2>4, <2>6, ReadStep DEF PcapWorkTypeOK, WorksForOwners, KeepsCapture
  <2>7. CASE ReadInterfaces(owner)
    <3>1. "success" \in Outcomes /\ 0 \in Nat /\ TRUE \in BOOLEAN /\ FALSE \in BOOLEAN
          /\ Respond(owner, TRUE, "success", 0, FALSE) /\ toHandler \in Seq(Posted)
      BY <2>7 DEF Outcomes, ReadInterfaces, PcapWorkTypeOK
    <3>2. /\ toHandler' \in Seq(Posted)
          /\ \E event \in Posted : toHandler' = Append(toHandler, event) /\ AnswersOwner(event, owner)
      BY <2>3, <3>1, RespondStep
    <3>3. PcapTypeOK' /\ UNCHANGED <<pcapState, capture, transfer>>
      BY <2>1, <2>7 DEF ReadInterfaces, PcapWorkTypeOK, PcapTypeOK
    <3> QED
      BY <2>1, <2>2, <2>3, <2>4, <3>2, <3>3 DEF PcapWorkTypeOK, WorksForOwners, KeepsCapture
  <2> QED
    BY <2>1, <2>5, <2>6, <2>7
<1> QED
  BY <1>1, <1>2

LEMMA FinishStep ==
  ASSUME PcapWorkTypeOK, FinishTransferWithError
  PROVE  PcapWorkTypeOK' /\ WorksForOwners /\ KeepsCapture
<1>1. transfer \in Owner /\ toHandler \in Seq(Posted) /\ Refuse(transfer) /\ CleanupCapture /\ InWork(transfer)
  BY DEF PcapWorkTypeOK, PcapTypeOK, FinishTransferWithError, InWork
<1>2. /\ toHandler' \in Seq(Posted)
      /\ \E event \in Posted : toHandler' = Append(toHandler, event) /\ AnswersOwner(event, transfer)
  BY <1>1, RefuseStep
<1>3. WorksForOwners
  BY <1>1, <1>2, CleanupStep DEF WorksForOwners, FinishTransferWithError
<1> QED
  BY <1>1, <1>2, <1>3, CleanupStep DEF PcapWorkTypeOK, PcapTypeOK, KeepsCapture, FinishTransferWithError

LEMMA SendChunkStep ==
  ASSUME PcapWorkTypeOK, NEW id \in Nat, NEW sequence \in Nat, SendNextChunk(id, sequence)
  PROVE  PcapWorkTypeOK' /\ WorksForOwners /\ KeepsCapture
<1>1. CASE UNCHANGED pcapVars
  BY <1>1 DEF PcapWorkTypeOK, PcapTypeOK, pcapVars, WorksForOwners, KeepsCapture, InWork
<1>2. CASE FinishTransferWithError
  BY <1>2, FinishStep
<1>3. CASE Expects(id, sequence) /\ ~FinishTransferWithError /\ ~UNCHANGED pcapVars
  <2>1. PICK final \in BOOLEAN :
          /\ toHandler' = Append(toHandler,
               [type |-> "chunk", id |-> transfer.id, sequence |-> sequence,
                final |-> final, of |-> transfer.of])
          /\ IF final
               THEN CleanupCapture /\ pumping' = TRUE
               ELSE /\ transferSequence' = transferSequence + 1
                    /\ transferTimer' = TRUE
                    /\ UNCHANGED <<pcapState, pcapBusy, capture, file, transfer, pumping>>
    BY <1>3 DEF SendNextChunk
  <2> DEFINE event == [type |-> "chunk", id |-> transfer.id, sequence |-> sequence,
                       final |-> final, of |-> transfer.of]
  <2>2. event \in Posted /\ transfer \in Owner /\ InWork(transfer) /\ InWork(capture)
    BY PostedEvents DEF PcapWorkTypeOK, PcapTypeOK, Owner, InWork
  <2>3. AnswersOwner(event, transfer)
    BY DEF AnswersOwner, Answered
  <2>4. toHandler' = Append(toHandler, event) /\ UNCHANGED <<pcapQueue, process>>
    BY <1>3, <2>1 DEF SendNextChunk
  <2> HIDE DEF event
  <2>5. toHandler' \in Seq(Posted)
    BY <2>2, <2>4 DEF PcapWorkTypeOK
  <2>6. CASE final
    BY <2>1, <2>2, <2>3, <2>4, <2>5, <2>6, CleanupStep
    DEF PcapWorkTypeOK, PcapTypeOK, WorksForOwners, KeepsCapture
  <2>7. CASE ~final
    BY <1>3, <2>1, <2>2, <2>3, <2>4, <2>5, <2>7
    DEF PcapWorkTypeOK, PcapTypeOK, WorksForOwners, KeepsCapture, Expects
  <2> QED
    BY <2>6, <2>7
<1> QED
  BY <1>1, <1>2, <1>3 DEF SendNextChunk

LEMMA CaptureFinishedStep ==
  ASSUME PcapWorkTypeOK, HandleCaptureFinished
  PROVE  PcapWorkTypeOK' /\ WorksForOwners /\ KeepsCapture
<1>1. CASE Reported
  <2>1. capture \in Owner /\ toHandler \in Seq(Posted) /\ Refuse(capture) /\ CleanupCapture /\ InWork(capture)
        /\ UNCHANGED <<pcapQueue, pumping>> /\ process' = "none"
    BY <1>1 DEF PcapWorkTypeOK, PcapTypeOK, HandleCaptureFinished, InWork
  <2>2. /\ toHandler' \in Seq(Posted)
        /\ \E event \in Posted : toHandler' = Append(toHandler, event) /\ AnswersOwner(event, capture)
    BY <2>1, RefuseStep
  <2> QED
    BY <2>1, <2>2, CleanupStep DEF PcapWorkTypeOK, PcapTypeOK, KeepsCapture, WorksForOwners
<1>2. CASE ~Reported
  BY <1>2 DEF HandleCaptureFinished, PcapWorkTypeOK, PcapTypeOK, KeepsCapture, WorksForOwners, InWork
<1> QED
  BY <1>1, <1>2

LEMMA LimitStep ==
  ASSUME PcapWorkTypeOK, StopCaptureForLimit
  PROVE  PcapWorkTypeOK' /\ WorksForOwners /\ KeepsCapture
<1>1. /\ capture \in Owner /\ toHandler \in Seq(Posted) /\ InWork(capture) /\ InWork(transfer)
      /\ UNCHANGED pcapQueue /\ pumping' = TRUE /\ pcapState = "Recording"
      /\ "limit_reached" \in Outcomes /\ 0 \in Nat /\ TRUE \in BOOLEAN /\ FALSE \in BOOLEAN
  BY DEF PcapWorkTypeOK, PcapTypeOK, StopCaptureForLimit, InWork, Outcomes
<1>2. CASE process' = "none" /\ CleanupCapture /\ Refuse(capture)
  <2>1. /\ toHandler' \in Seq(Posted)
        /\ \E event \in Posted : toHandler' = Append(toHandler, event) /\ AnswersOwner(event, capture)
    BY <1>1, <1>2, RefuseStep
  <2> QED
    BY <1>1, <1>2, <2>1, CleanupStep DEF PcapWorkTypeOK, PcapTypeOK, KeepsCapture, WorksForOwners
<1>3. CASE /\ StopProcess(TRUE)
           /\ pcapState' = "Ready" /\ pcapBusy' = FALSE
           /\ Respond(capture, TRUE, "limit_reached", 0, FALSE)
           /\ UNCHANGED <<capture, file, transferTimer, transfer, transferSequence>>
  <2>1. /\ toHandler' \in Seq(Posted)
        /\ \E event \in Posted : toHandler' = Append(toHandler, event) /\ AnswersOwner(event, capture)
    BY <1>1, <1>3, RespondStep
  <2>2. process' \in {"none", "running", "surviving"}
    BY <1>3, StopStep
  <2> QED
    BY <1>1, <1>3, <2>1, <2>2 DEF PcapWorkTypeOK, PcapTypeOK, KeepsCapture, WorksForOwners
<1> QED
  BY <1>2, <1>3 DEF StopCaptureForLimit

LEMMA RequestStep ==
  ASSUME PcapWorkTypeOK, NEW request \in PcapRequest, EnqueueRequest(request)
  PROVE  PcapWorkTypeOK' /\ pcapQueue' = Append(pcapQueue, request)
  BY DEF PcapWorkTypeOK, PcapTypeOK, EnqueueRequest

LEMMA ShutdownStep ==
  ASSUME PcapWorkTypeOK, Shutdown
  PROVE  PcapWorkTypeOK'
<1>1. process' \in {"none", "running", "surviving"}
  BY StopStep DEF Shutdown, PcapWorkTypeOK, PcapTypeOK
<1>2. pcapQueue' \in Seq(PcapRequest)
  BY DEF Shutdown
<1> QED
  BY <1>1, <1>2, CleanupStep DEF Shutdown, PcapWorkTypeOK, PcapTypeOK

-----------------------------------------------------------------------------
(* Type correctness *)

ClientTypeOK ==
  /\ up \in Seq(Acks) /\ sent \in Nat /\ seen \in Nat /\ opened \in Nat /\ received \in Nat
  /\ restricted \in BOOLEAN

LEMMA TypeParts == TypeOK <=> HandlerTypeOK /\ PcapWorkTypeOK /\ ClientTypeOK
  BY DEF TypeOK, PcapWorkTypeOK, ClientTypeOK, PcapRequest

LEMMA HandlerUnchanged == HandlerTypeOK /\ UNCHANGED handlerVars => HandlerTypeOK'
  BY DEF HandlerTypeOK, handlerVars

LEMMA PcapUnchanged == PcapWorkTypeOK /\ UNCHANGED pcapVars => PcapWorkTypeOK'
  BY DEF PcapWorkTypeOK, PcapTypeOK, pcapVars

LEMMA ClientUnchanged == ClientTypeOK /\ UNCHANGED <<clientVars, restricted>> => ClientTypeOK'
  BY DEF ClientTypeOK, clientVars

LEMMA TypeInit == Init => TypeOK
<1> SUFFICES ASSUME Init PROVE TypeOK
  OBVIOUS
<1>1. HandlerTypeOK
  <2>1. socket \in BOOLEAN /\ generation \in Nat /\ requestCounter \in Nat /\ responseCounter \in Nat
    BY Zenon DEF Init, HandlerInit
  <2>2. contexts = << >> /\ DOMAIN contexts = {}
    BY DEF Init, HandlerInit
  <2>3. responseQueue = << >> /\ down = << >> /\ toPcap = << >> /\ toControl = {} /\ inFlight = NothingInFlight
    BY DEF Init, HandlerInit
  <2> QED
    BY <2>1, <2>2, <2>3 DEF HandlerTypeOK
<1>2. PcapTypeOK
  <2>1. Nobody \in Owner
    BY DEF Nobody, Owner
  <2>2. /\ pcapState = "Idle" /\ process = "none" /\ capture = Nobody /\ transfer = Nobody
        /\ transferSequence \in Nat
    BY Zenon DEF Init, PcapInit
  <2>3. pcapBusy \in BOOLEAN /\ pumping \in BOOLEAN /\ file \in BOOLEAN /\ transferTimer \in BOOLEAN
    BY Zenon DEF Init, PcapInit
  <2> QED
    BY <2>1, <2>2, <2>3 DEF PcapTypeOK
<1>3. pcapQueue = << >> /\ toHandler = << >> /\ up = << >>
  BY DEF Init, PcapInit
<1>4. sent \in Nat /\ seen \in Nat /\ opened \in Nat /\ received \in Nat /\ restricted \in BOOLEAN
  BY Zenon DEF Init
<1> QED
  BY <1>1, <1>2, <1>3, <1>4 DEF TypeOK

LEMMA ConnectionType ==
  ASSUME HandlerTypeOK, PcapWorkTypeOK, ClientTypeOK, Connect \/ Disconnect
  PROVE  HandlerTypeOK' /\ PcapWorkTypeOK' /\ ClientTypeOK'
<1>1. PcapWorkTypeOK'
  BY PcapUnchanged DEF Connect, Disconnect
<1>2. CASE Connect
  BY <1>1, <1>2 DEF Connect, SetSocket, HandlerTypeOK, ClientTypeOK
<1>3. CASE Disconnect
  <2>1. [type |-> "disconnected", of |-> generation] \in PcapEvents
    BY EventsForPcap DEF HandlerTypeOK
  <2>2. toPcap' = Append(toPcap, [type |-> "disconnected", of |-> generation])
        /\ contexts' = << >> /\ responseQueue' = << >> /\ inFlight' = NothingInFlight /\ down' = << >>
        /\ socket' = FALSE /\ UNCHANGED <<requestCounter, generation, responseCounter, toControl>>
    BY <1>3 DEF Disconnect, SocketDisconnected, ClearSession, PostDisconnected
  <2>3. toPcap' \in Seq(PcapEvents)
    BY <2>1, <2>2 DEF HandlerTypeOK
  <2>4. HandlerTypeOK'
    <3>1. DOMAIN contexts' = {} /\ responseQueue' \in Seq(ClientResponse) /\ down' \in Seq(Frames)
      BY <2>2
    <3> QED
      BY <2>2, <2>3, <3>1 DEF HandlerTypeOK
  <2>5. ClientTypeOK'
    BY <1>3 DEF Disconnect, ClientTypeOK
  <2> QED
    BY <1>1, <2>4, <2>5
<1> QED
  BY <1>2, <1>3

LEMMA MessageType ==
  ASSUME HandlerTypeOK, PcapWorkTypeOK, ClientTypeOK, ClientRequests \/ TakeAck \/ AckTimeout
  PROVE  HandlerTypeOK' /\ PcapWorkTypeOK' /\ ClientTypeOK'
<1>1. PcapWorkTypeOK'
  BY PcapUnchanged DEF ClientRequests, TakeAck, AckTimeout
<1>2. CASE ClientRequests
  <2>1. sent + 1 \in Nat
    BY DEF ClientTypeOK
  <2>2. HandlerTypeOK'
    BY <1>2, <2>1, RequestType, InvalidMessageType DEF ClientRequests
  <2>3. ClientTypeOK'
    BY <1>2, <2>1 DEF ClientRequests, ClientTypeOK
  <2> QED
    BY <1>1, <2>2, <2>3
<1>3. CASE TakeAck
  <2>1. up' \in Seq(Acks) /\ Head(up) \in Acks
    BY <1>3 DEF TakeAck, ClientTypeOK
  <2>2. ClientTypeOK'
    BY <1>3, <2>1 DEF TakeAck, ClientTypeOK
  <2>3. \/ HandleAck(Head(up).id)
        \/ UNCHANGED handlerVars
        \/ Head(up).type = "chunk_ack" /\ HandlePcapChunkAck(Head(up).client, Head(up).sequence)
    BY <1>3 DEF TakeAck
  <2>4. Head(up).type = "chunk_ack" => Head(up).client \in Nat /\ Head(up).sequence \in Nat
    BY <2>1, Acknowledgements
  <2>5. HandlerTypeOK'
    BY <2>3, <2>4, AckType, ChunkAckType, HandlerUnchanged
  <2> QED
    BY <1>1, <2>2, <2>5
<1>4. CASE AckTimeout
  <2>1. inFlight.id \in Nat /\ inFlight.response \in ClientResponse
    BY <1>4 DEF AckTimeout, ResendInFlight, HandlerTypeOK, InFlight
  <2> DEFINE frame == TextFrame(inFlight.id, inFlight.response)
  <2>2. frame \in Frames /\ down' = Append(down, frame)
    BY <1>4, <2>1, WrittenFrames DEF AckTimeout, ResendInFlight
  <2> HIDE DEF frame
  <2>3. down' \in Seq(Frames)
    BY <2>2 DEF HandlerTypeOK
  <2>4. HandlerTypeOK'
    BY <1>4, <2>3 DEF AckTimeout, ResendInFlight, HandlerTypeOK
  <2> QED
    BY <1>1, <1>4, <2>4, ClientUnchanged DEF AckTimeout
<1> QED
  BY <1>2, <1>3, <1>4

LEMMA ClientType ==
  ASSUME HandlerTypeOK, PcapWorkTypeOK, ClientTypeOK, ClientReceives \/ ClientRepeatsAck \/ RestrictLogin
  PROVE  HandlerTypeOK' /\ PcapWorkTypeOK' /\ ClientTypeOK'
<1>1. PcapWorkTypeOK'
  BY PcapUnchanged DEF ClientReceives, ClientRepeatsAck, RestrictLogin
<1>2. CASE ClientReceives
  <2> DEFINE frame == Head(down)
  <2>1. frame \in Frames /\ down' \in Seq(Frames)
    BY <1>2 DEF ClientReceives, HandlerTypeOK
  <2>2. HandlerTypeOK'
    BY <1>2, <2>1 DEF ClientReceives, HandlerTypeOK
  <2>3. CASE ReceiveText
    <3>1. frame.type = "text" /\ frame.id \in Nat /\ frame.response.client \in Nat
      BY <2>1, <2>3, WrittenFrames DEF ReceiveText, ClientResponse
    <3> DEFINE ack == [type |-> "ack", id |-> frame.id]
    <3>2. ack \in Acks /\ up' = Append(up, ack) /\ seen' \in Nat
      BY <2>3, <3>1, Acknowledgements DEF ReceiveText
    <3>3. opened' \in Nat /\ received' \in Nat
      BY <2>3, <3>1 DEF ReceiveText, ClientTypeOK
    <3> HIDE DEF ack
    <3> QED
      BY <1>1, <1>2, <2>2, <3>2, <3>3 DEF ClientReceives, ClientTypeOK
  <2>4. CASE ReceiveBinary
    <3>1. frame.type = "binary" /\ frame.client \in Nat /\ frame.sequence \in Nat
      BY <2>1, <2>4, WrittenFrames DEF ReceiveBinary
    <3> DEFINE ack == [type |-> "chunk_ack", client |-> frame.client, sequence |-> frame.sequence]
    <3>2. ack \in Acks /\ (up' = up \/ up' = Append(up, ack))
      BY <2>4, <3>1, Acknowledgements DEF ReceiveBinary
    <3>3. received' \in Nat /\ UNCHANGED <<seen, opened>>
      BY <2>4 DEF ReceiveBinary, ClientTypeOK
    <3> HIDE DEF ack
    <3> QED
      BY <1>1, <1>2, <2>2, <3>2, <3>3 DEF ClientReceives, ClientTypeOK
  <2> QED
    BY <1>2, <2>3, <2>4 DEF ClientReceives
<1>3. CASE ClientRepeatsAck
  <2> DEFINE ack == [type |-> "chunk_ack", client |-> opened, sequence |-> received - 1]
  <2>1. ack \in Acks /\ up' = Append(up, ack)
    BY <1>3, Acknowledgements DEF ClientRepeatsAck, ClientTypeOK
  <2> HIDE DEF ack
  <2> QED
    BY <1>1, <1>3, <2>1, HandlerUnchanged DEF ClientRepeatsAck, ClientTypeOK
<1>4. CASE RestrictLogin
  BY <1>1, <1>4, HandlerUnchanged DEF RestrictLogin, ClientTypeOK, clientVars
<1> QED
  BY <1>2, <1>3, <1>4

LEMMA MainThreadType ==
  ASSUME HandlerTypeOK, PcapWorkTypeOK, ClientTypeOK, TakePosted \/ ControlResponds
  PROVE  HandlerTypeOK' /\ PcapWorkTypeOK' /\ ClientTypeOK'
<1>1. ClientTypeOK'
  BY ClientUnchanged DEF TakePosted, ControlResponds
<1>2. CASE TakePosted
  <2> DEFINE event == Head(toHandler)
  <2>1. event \in Posted /\ toHandler' \in Seq(Posted)
    BY <1>2 DEF TakePosted, PcapWorkTypeOK
  <2>2. PcapWorkTypeOK'
    BY <1>2, <2>1 DEF TakePosted, PcapWorkTypeOK, PcapTypeOK
  <2>3. \/ event.type = "response" /\ EnqueueResponse(event.response) /\ UNCHANGED toControl
        \/ event.type = "chunk" /\ EnqueuePcapChunk(event.id, event.sequence, event.final, event.of)
    BY <1>2 DEF TakePosted
  <2>4. CASE event.type = "response" /\ EnqueueResponse(event.response) /\ UNCHANGED toControl
    <3>1. event.response \in Response /\ toControl' \subseteq [id : Nat, of : Nat]
      BY <2>1, <2>4, PostedEvents DEF HandlerTypeOK
    <3> QED
      BY <1>1, <2>2, <2>4, <3>1, EnqueueResponseType
  <2>5. CASE event.type = "chunk" /\ EnqueuePcapChunk(event.id, event.sequence, event.final, event.of)
    <3>1. event.id \in Nat /\ event.sequence \in Nat /\ event.final \in BOOLEAN /\ event.of \in Nat
      BY <2>1, <2>5, PostedEvents
    <3> QED
      BY <1>1, <2>2, <2>5, <3>1, EnqueueChunkType
  <2> QED
    BY <2>3, <2>4, <2>5
<1>3. CASE ControlResponds
  <2>1. PICK request \in toControl, final \in BOOLEAN :
          /\ toControl' = IF final THEN toControl \ {request} ELSE toControl
          /\ EnqueueResponse([id |-> request.id, final |-> final, outcome |-> "success",
                               related |-> 0, transfer |-> FALSE, of |-> request.of])
    BY <1>3 DEF ControlResponds
  <2> DEFINE response == [id |-> request.id, final |-> final, outcome |-> "success",
                          related |-> 0, transfer |-> FALSE, of |-> request.of]
  <2>2. response \in Response /\ toControl' \subseteq [id : Nat, of : Nat] /\ EnqueueResponse(response)
    BY <2>1 DEF HandlerTypeOK, Response, Outcomes
  <2> HIDE DEF response
  <2> QED
    BY <1>1, <1>3, <2>2, EnqueueResponseType, PcapUnchanged DEF ControlResponds
<1> QED
  BY <1>2, <1>3

LEMMA PcapThreadStep ==
  ASSUME PcapWorkTypeOK, toPcap \in Seq(PcapEvents), PcapThread
  PROVE  /\ PcapWorkTypeOK' /\ Elsewhere
         /\ \/ UNCHANGED toPcap /\ WorksForOwners /\ KeepsCapture
            \/ /\ toPcap # << >> /\ toPcap' = Tail(toPcap)
               /\ \/ Head(toPcap).type = "chunk" /\ WorksForOwners /\ KeepsCapture
                  \/ /\ Head(toPcap).type = "request"
                     /\ pcapQueue' = Append(pcapQueue, [id |-> Head(toPcap).id, kind |-> Head(toPcap).kind,
                                                        of |-> Head(toPcap).of])
                     /\ UNCHANGED <<pcapState, capture, transfer, toHandler>>
                  \/ Head(toPcap).type = "disconnected" /\ Shutdown
<1>1. CASE PcapTakesPosted
  <2> DEFINE event == Head(toPcap)
  <2>1. event \in PcapEvents /\ toPcap # << >> /\ toPcap' = Tail(toPcap) /\ Elsewhere
    BY <1>1 DEF PcapTakesPosted
  <2>2. CASE event.type = "request" /\ EnqueueRequest([id |-> event.id, kind |-> event.kind, of |-> event.of])
    <3> DEFINE request == [id |-> event.id, kind |-> event.kind, of |-> event.of]
    <3>1. request \in PcapRequest
      BY <2>1, <2>2, EventsForPcap DEF PcapRequest
    <3>2. PcapWorkTypeOK' /\ pcapQueue' = Append(pcapQueue, request)
      BY <2>2, <3>1, RequestStep
    <3> QED
      BY <2>1, <2>2, <3>2 DEF EnqueueRequest
  <2>3. CASE event.type = "chunk" /\ SendNextChunk(event.id, event.sequence)
    <3>1. event.id \in Nat /\ event.sequence \in Nat
      BY <2>1, <2>3, EventsForPcap
    <3> QED
      BY <2>1, <2>3, <3>1, SendChunkStep
  <2>4. CASE event.type = "disconnected" /\ Shutdown
    BY <2>1, <2>4, ShutdownStep
  <2> QED
    BY <1>1, <2>2, <2>3, <2>4 DEF PcapTakesPosted
<1>2. CASE PcapProcessesQueue
  BY <1>2, ProcessQueueStep DEF PcapProcessesQueue
<1>3. CASE PcapTransferTimeout
  BY <1>3, FinishStep DEF PcapTransferTimeout, HandleTransferTimeout
<1>4. CASE CaptureEnds
  BY <1>4, CaptureFinishedStep DEF CaptureEnds
<1>5. CASE CaptureLimit
  BY <1>5, LimitStep DEF CaptureLimit
<1> QED
  BY <1>1, <1>2, <1>3, <1>4, <1>5 DEF PcapThread

LEMMA PcapThreadType ==
  ASSUME HandlerTypeOK, PcapWorkTypeOK, ClientTypeOK, PcapThread
  PROVE  HandlerTypeOK' /\ PcapWorkTypeOK' /\ ClientTypeOK'
<1>1. toPcap \in Seq(PcapEvents)
  BY DEF HandlerTypeOK
<1>2. PcapWorkTypeOK' /\ Elsewhere /\ (UNCHANGED toPcap \/ (toPcap # << >> /\ toPcap' = Tail(toPcap)))
  BY <1>1, PcapThreadStep
<1>3. toPcap' \in Seq(PcapEvents)
  BY <1>1, <1>2
<1> QED
  BY <1>2, <1>3, ClientUnchanged DEF Elsewhere, HandlerTypeOK

LEMMA TypeStep == TypeOK /\ [Next]_vars => TypeOK'
<1> SUFFICES ASSUME TypeOK, [Next]_vars PROVE TypeOK'
  OBVIOUS
<1>1. HandlerTypeOK /\ PcapWorkTypeOK /\ ClientTypeOK
  BY TypeParts
<1>2. HandlerTypeOK' /\ PcapWorkTypeOK' /\ ClientTypeOK'
  BY <1>1, ConnectionType, MessageType, ClientType, MainThreadType, PcapThreadType,
     HandlerUnchanged, PcapUnchanged, ClientUnchanged DEF Next, MainThread, Client, vars
<1> QED
  BY <1>2 DEF TypeOK, PcapWorkTypeOK, ClientTypeOK, PcapRequest

(* Every variable keeps its type: no counter, queue or owner of the session *)
(* becomes something else, whatever the client sends.                       *)
THEOREM TypeHolds == Spec => []TypeOK
  BY TypeInit, TypeStep, PTL DEF Spec

-----------------------------------------------------------------------------
(* Whose answer is whose *)

WaitingBelongs ==
  /\ \A request \in toControl : Belongs(request)
  /\ \A i \in DOMAIN toPcap : toPcap[i].type = "request" => Belongs(toPcap[i])
  /\ \A i \in DOMAIN pcapQueue : Belongs(pcapQueue[i])
  /\ \A i \in DOMAIN toHandler : Belongs(Answered(toHandler[i]))
  /\ Belongs(capture) /\ Belongs(transfer)

NothingWithoutSocket ==
  /\ ~socket => DOMAIN contexts = {} /\ responseQueue = << >> /\ inFlight = NothingInFlight /\ down = << >>
  /\ \A id \in DOMAIN contexts : contexts[id].generation = generation

(* What belonged still does: ids are not given twice, contexts not revived. *)
KeepsOwners ==
  \A id \in Nat : id <= requestCounter =>
    id <= requestCounter' /\ (id \in DOMAIN contexts' => id \in DOMAIN contexts /\ generation' = generation)

BelongsThen(owner) ==
  owner.id <= requestCounter' /\ (owner.id \in DOMAIN contexts' => owner.of = generation')

LEMMA AnsweredId ==
  /\ \A event \in Posted : Answered(event).id \in Nat /\ Answered(event).of \in Nat
  /\ \A event \in PcapEvents : event.type = "request" => event.id \in Nat
  /\ \A request \in PcapRequest : request.id \in Nat
  /\ \A owner \in Owner : owner.id \in Nat
<1>1. ASSUME NEW event \in Posted PROVE Answered(event).id \in Nat /\ Answered(event).of \in Nat
  <2>1. CASE event.type = "response"
    <3>1. event.response \in Response
      BY <2>1, PostedEvents
    <3> QED
      BY <2>1, <3>1 DEF Answered, Response
  <2>2. CASE event.type = "chunk"
    BY <2>2, PostedEvents DEF Answered
  <2> QED
    BY <2>1, <2>2, PostedEvents
<1> QED
  BY <1>1, EventsForPcap DEF PcapRequest, Owner

LEMMA StillBelongs ==
  ASSUME KeepsOwners, NEW owner, owner.id \in Nat, Belongs(owner)
  PROVE  BelongsThen(owner)
  BY DEF KeepsOwners, Belongs, BelongsThen

(* The main thread leaves PCAP's variables alone but for what it takes, and *)
(* adds nothing that does not belong to the connection.                     *)
LEMMA WaitingKept ==
  ASSUME TypeOK, WaitingBelongs, KeepsOwners, UNCHANGED <<pcapQueue, capture, transfer>>,
         UNCHANGED toHandler \/ (toHandler # << >> /\ toHandler' = Tail(toHandler)),
         \A request \in toControl' : request \in toControl \/ BelongsThen(request),
         \/ UNCHANGED toPcap
         \/ \E event \in PcapEvents :
              toPcap' = Append(toPcap, event) /\ (event.type = "request" => BelongsThen(event))
  PROVE  WaitingBelongs'
<1>1. \A request \in toControl' : BelongsThen(request)
  <2>1. \A request \in toControl : request.id \in Nat
    BY DEF TypeOK, HandlerTypeOK
  <2> QED
    BY <2>1, StillBelongs DEF WaitingBelongs
<1>2. \A i \in DOMAIN toPcap' : toPcap'[i].type = "request" => BelongsThen(toPcap'[i])
  <2>1. toPcap \in Seq(PcapEvents)
    BY DEF TypeOK, HandlerTypeOK
  <2>2. ASSUME NEW i \in DOMAIN toPcap, toPcap[i].type = "request" PROVE BelongsThen(toPcap[i])
    <3>1. toPcap[i] \in PcapEvents
      BY <2>1
    <3>2. toPcap[i].id \in Nat /\ Belongs(toPcap[i])
      BY <2>2, <3>1, AnsweredId DEF WaitingBelongs
    <3> QED
      BY <3>2, StillBelongs
  <2>3. CASE UNCHANGED toPcap
    BY <2>2, <2>3
  <2>4. CASE \E event \in PcapEvents :
              toPcap' = Append(toPcap, event) /\ (event.type = "request" => BelongsThen(event))
    <3>1. PICK event \in PcapEvents :
              toPcap' = Append(toPcap, event) /\ (event.type = "request" => BelongsThen(event))
      BY <2>4
    <3>2. \A i \in DOMAIN toPcap' : (i \in DOMAIN toPcap /\ toPcap'[i] = toPcap[i]) \/ toPcap'[i] = event
      BY <2>1, <3>1
    <3> QED
      BY <2>2, <3>1, <3>2
  <2> QED
    BY <2>3, <2>4
<1>3. \A i \in DOMAIN pcapQueue' : BelongsThen(pcapQueue'[i])
  <2>1. \A i \in DOMAIN pcapQueue : pcapQueue[i].id \in Nat
    <3>1. pcapQueue \in Seq(PcapRequest)
      BY DEF TypeOK, PcapRequest
    <3>2. \A i \in DOMAIN pcapQueue : pcapQueue[i] \in PcapRequest
      BY <3>1
    <3> QED
      BY <3>2, AnsweredId
  <2> QED
    BY <2>1, StillBelongs DEF WaitingBelongs
<1>4. \A i \in DOMAIN toHandler' : BelongsThen(Answered(toHandler'[i]))
  <2>1. toHandler \in Seq(Posted)
    BY DEF TypeOK
  <2>2. ASSUME NEW i \in DOMAIN toHandler PROVE BelongsThen(Answered(toHandler[i]))
    <3>1. toHandler[i] \in Posted
      BY <2>1
    <3>2. Answered(toHandler[i]).id \in Nat /\ Belongs(Answered(toHandler[i]))
      BY <3>1, AnsweredId DEF WaitingBelongs
    <3> QED
      BY <3>2, StillBelongs
  <2>3. \A i \in DOMAIN toHandler' : \E j \in DOMAIN toHandler : toHandler'[i] = toHandler[j]
    BY <2>1, Taken
  <2> QED
    BY <2>2, <2>3
<1>5. BelongsThen(capture') /\ BelongsThen(transfer')
  <2>1. capture.id \in Nat /\ transfer.id \in Nat
    BY AnsweredId DEF TypeOK, PcapTypeOK
  <2> QED
    BY <2>1, StillBelongs DEF WaitingBelongs
<1> QED
  BY <1>1, <1>2, <1>3, <1>4, <1>5 DEF WaitingBelongs, Belongs, BelongsThen, Answered

LEMMA PcapWaitingKept ==
  ASSUME TypeOK, WaitingBelongs, PcapThread
  PROVE  WaitingBelongs'
<1>1. PcapWorkTypeOK /\ toPcap \in Seq(PcapEvents) /\ pcapQueue \in Seq(PcapRequest) /\ toHandler \in Seq(Posted)
  BY TypeParts DEF HandlerTypeOK, PcapWorkTypeOK
<1>2. \A owner : Belongs(owner) => BelongsThen(owner)
  BY <1>1, PcapThreadStep DEF Elsewhere, Belongs, BelongsThen
<1>3. toControl' = toControl
  BY <1>1, PcapThreadStep DEF Elsewhere
<1>4. \A i \in DOMAIN toPcap' : toPcap'[i].type = "request" => BelongsThen(toPcap'[i])
  <2>1. UNCHANGED toPcap \/ (toPcap # << >> /\ toPcap' = Tail(toPcap))
    BY <1>1, PcapThreadStep
  <2>2. \A i \in DOMAIN toPcap' : \E j \in DOMAIN toPcap : toPcap'[i] = toPcap[j]
    <3>1. CASE UNCHANGED toPcap
      BY <3>1
    <3>2. CASE toPcap # << >> /\ toPcap' = Tail(toPcap)
      BY <1>1, <3>2, Taken
    <3> QED
      BY <2>1, <3>1, <3>2
  <2> QED
    BY <1>2, <2>2 DEF WaitingBelongs
<1>5. BelongsThen(Nobody)
  BY <1>1, <1>2, PcapThreadStep DEF Elsewhere, BelongsThen, Nobody, TypeOK, HandlerTypeOK
<1>6. \A owner : InWork(owner) => BelongsThen(owner)
  <2>1. pcapQueue # << >> => Belongs(OwnerOf(Head(pcapQueue)))
    <3>1. pcapQueue # << >> => 1 \in DOMAIN pcapQueue /\ Head(pcapQueue) = pcapQueue[1]
      BY <1>1
    <3> QED
      BY <3>1 DEF WaitingBelongs, OwnerOf, Belongs
  <2> QED
    BY <1>2, <2>1 DEF InWork, WaitingBelongs
<1>7. ASSUME WorksForOwners
      PROVE  /\ \A i \in DOMAIN pcapQueue' : BelongsThen(pcapQueue'[i])
             /\ \A i \in DOMAIN toHandler' : BelongsThen(Answered(toHandler'[i]))
             /\ BelongsThen(capture') /\ BelongsThen(transfer')
  <2>1. \A i \in DOMAIN pcapQueue' : \E j \in DOMAIN pcapQueue : pcapQueue'[i] = pcapQueue[j]
    BY <1>1, <1>7, Taken DEF WorksForOwners
  <2>2. \A i \in DOMAIN toHandler' : BelongsThen(Answered(toHandler'[i]))
    <3>1. CASE UNCHANGED toHandler
      BY <1>2, <3>1 DEF WaitingBelongs
    <3>2. CASE \E event \in Posted, owner \in Owner :
                  toHandler' = Append(toHandler, event) /\ InWork(owner) /\ AnswersOwner(event, owner)
      <4>1. PICK event \in Posted, owner \in Owner :
                  toHandler' = Append(toHandler, event) /\ InWork(owner) /\ AnswersOwner(event, owner)
        BY <3>2
      <4>2. BelongsThen(Answered(event))
        BY <1>6, <4>1 DEF BelongsThen, AnswersOwner
      <4>3. \A i \in DOMAIN toHandler' : (i \in DOMAIN toHandler /\ toHandler'[i] = toHandler[i]) \/ toHandler'[i] = event
        BY <1>1, <4>1
      <4> QED
        BY <1>2, <4>2, <4>3 DEF WaitingBelongs
    <3> QED
      BY <1>7, <3>1, <3>2 DEF WorksForOwners
  <2> QED
    BY <1>2, <1>5, <1>6, <1>7, <2>1, <2>2 DEF WaitingBelongs, WorksForOwners
<1>8. ASSUME toPcap # << >>, Head(toPcap).type = "request",
             pcapQueue' = Append(pcapQueue, [id |-> Head(toPcap).id, kind |-> Head(toPcap).kind, of |-> Head(toPcap).of]),
             UNCHANGED <<pcapState, capture, transfer, toHandler>>
      PROVE  /\ \A i \in DOMAIN pcapQueue' : BelongsThen(pcapQueue'[i])
             /\ \A i \in DOMAIN toHandler' : BelongsThen(Answered(toHandler'[i]))
             /\ BelongsThen(capture') /\ BelongsThen(transfer')
  <2> DEFINE request == [id |-> Head(toPcap).id, kind |-> Head(toPcap).kind, of |-> Head(toPcap).of]
  <2>1. 1 \in DOMAIN toPcap /\ Head(toPcap) = toPcap[1] /\ Head(toPcap) \in PcapEvents
    BY <1>1, <1>8
  <2>2. BelongsThen(request) /\ request \in PcapRequest
    BY <1>2, <1>8, <2>1, EventsForPcap DEF WaitingBelongs, Belongs, BelongsThen, PcapRequest
  <2>3. pcapQueue' = Append(pcapQueue, request)
    BY <1>8
  <2> HIDE DEF request
  <2>4. \A i \in DOMAIN pcapQueue' : (i \in DOMAIN pcapQueue /\ pcapQueue'[i] = pcapQueue[i]) \/ pcapQueue'[i] = request
    BY <1>1, <2>2, <2>3
  <2> QED
    BY <1>2, <1>8, <2>2, <2>4 DEF WaitingBelongs
<1>9. ASSUME Shutdown
      PROVE  /\ \A i \in DOMAIN pcapQueue' : BelongsThen(pcapQueue'[i])
             /\ \A i \in DOMAIN toHandler' : BelongsThen(Answered(toHandler'[i]))
             /\ BelongsThen(capture') /\ BelongsThen(transfer')
  <2>1. pcapQueue' = << >> /\ UNCHANGED toHandler /\ CleanupCapture
    BY <1>9 DEF Shutdown
  <2>2. DOMAIN pcapQueue' = {}
    BY <2>1
  <2> QED
    BY <1>2, <1>5, <2>1, <2>2, CleanupStep DEF WaitingBelongs
<1>10. /\ \A i \in DOMAIN pcapQueue' : BelongsThen(pcapQueue'[i])
       /\ \A i \in DOMAIN toHandler' : BelongsThen(Answered(toHandler'[i]))
       /\ BelongsThen(capture') /\ BelongsThen(transfer')
  BY <1>1, <1>7, <1>8, <1>9, PcapThreadStep
<1> QED
  BY <1>2, <1>3, <1>4, <1>10 DEF WaitingBelongs, Belongs, BelongsThen, Answered

(* What is sent answers the connection, if what waited did.                 *)
LEMMA TrySendOwn ==
  ASSUME NEW queued \in Seq(ClientResponse), NEW flying, TrySendNextResponse(queued, flying), TypeOK,
         AnswersOwnConnection, UNCHANGED <<socket, generation>>,
         \A i \in DOMAIN queued : queued[i].of = generation,
         flying # NothingInFlight => flying.response.of = generation,
         ~socket => queued = << >> /\ flying = NothingInFlight /\ down = << >>
  PROVE  /\ AnswersOwnConnection'
         /\ ~socket' => responseQueue' = << >> /\ inFlight' = NothingInFlight /\ down' = << >>
<1>1. CASE ~(socket /\ queued # << >> /\ flying = NothingInFlight)
  BY <1>1 DEF TrySendNextResponse, AnswersOwnConnection
<1>2. CASE socket /\ queued # << >> /\ flying = NothingInFlight
  <2> DEFINE frame == TextFrame(responseCounter + 1, Head(queued))
  <2>1. /\ inFlight'.response = Head(queued)
        /\ responseQueue' = Tail(queued)
        /\ down' = Append(down, frame)
    BY <1>2 DEF TrySendNextResponse
  <2>2. frame.type = "text" /\ frame \in Frames /\ down \in Seq(Frames)
    BY <1>2, WrittenFrames DEF TextFrame, TypeOK, HandlerTypeOK
  <2> HIDE DEF frame
  <2>3. /\ \A i \in DOMAIN Tail(queued) : i + 1 \in DOMAIN queued /\ Tail(queued)[i] = queued[i + 1]
        /\ Head(queued) = queued[1] /\ 1 \in DOMAIN queued
    BY <1>2, Taken
  <2>4. \A i \in DOMAIN down' : (i \in DOMAIN down /\ down'[i] = down[i]) \/ down'[i] = frame
    BY <2>1, <2>2
  <2> QED
    BY <1>2, <2>1, <2>2, <2>3, <2>4 DEF AnswersOwnConnection
<1> QED
  BY <1>1, <1>2

LEMMA EnqueueResponseOwn ==
  ASSUME TypeOK, NothingWithoutSocket, AnswersOwnConnection,
         NEW response \in Response, EnqueueResponse(response), Belongs(response)
  PROVE  /\ NothingWithoutSocket' /\ AnswersOwnConnection' /\ KeepsOwners
         /\ UNCHANGED <<toPcap, requestCounter>>
<1>1. UNCHANGED <<socket, generation, requestCounter, toPcap>>
  BY DEF EnqueueResponse
<1>2. ASSUME DOMAIN contexts' \subseteq DOMAIN contexts PROVE KeepsOwners
  BY <1>1, <1>2 DEF KeepsOwners, TypeOK, HandlerTypeOK
<1>3. CASE ~socket \/ response.id \notin DOMAIN contexts
  BY <1>1, <1>2, <1>3 DEF EnqueueResponse, Dropped, NothingWithoutSocket, AnswersOwnConnection
<1>4. CASE socket /\ response.id \in DOMAIN contexts
  <2> DEFINE context == contexts[response.id]
             related == IF context.kind = "pcap_read" /\ response.related # 0
                          THEN response.related ELSE context.related
             changed == [context EXCEPT !.related = related]
             known   == Remember(contexts, response.id, changed)
             over    == IF response.final /\ ~Retained(response, context) THEN {response.id} ELSE {}
             writes  == IF response.final /\ context.kind = "pcap_read"
                          THEN WriteContext(known, related) ELSE {}
             answer  == [client |-> context.client, transfer |-> response.transfer, of |-> response.of]
  <2>1. context.generation = generation /\ context \in RequestContext
    BY <1>4 DEF NothingWithoutSocket, TypeOK, HandlerTypeOK
  <2>2. contexts' = Forget(known, over \union writes) /\ EnqueueResponseObject(answer)
    BY <1>4, <2>1 DEF EnqueueResponse
  <2>3. /\ answer \in ClientResponse /\ answer.of = generation
        /\ changed.generation = generation
    BY <1>4, <2>1 DEF RequestContext, ClientResponse, Response, Belongs
  <2> HIDE DEF context, related, changed, answer, over, writes
  <2>4. DOMAIN known = DOMAIN contexts \union {response.id}
        /\ \A i \in DOMAIN known : known[i] = IF i = response.id THEN changed ELSE contexts[i]
    BY DEF Remember
  <2> HIDE DEF known
  <2>5. DOMAIN contexts' \subseteq DOMAIN contexts /\ \A id \in DOMAIN contexts' : contexts'[id] = known[id]
    BY <1>4, <2>2, <2>4 DEF Forget
  <2>6. \A id \in DOMAIN contexts' : contexts'[id].generation = generation'
    BY <1>1, <2>3, <2>4, <2>5 DEF NothingWithoutSocket
  <2>7. responseQueue \in Seq(ClientResponse)
    BY DEF TypeOK, HandlerTypeOK
  <2>8. /\ Append(responseQueue, answer) \in Seq(ClientResponse)
        /\ \A i \in DOMAIN Append(responseQueue, answer) :
             (i \in DOMAIN responseQueue /\ Append(responseQueue, answer)[i] = responseQueue[i])
             \/ Append(responseQueue, answer)[i] = answer
    BY <2>3, <2>7
  <2>9. \A i \in DOMAIN Append(responseQueue, answer) : Append(responseQueue, answer)[i].of = generation
    BY <2>3, <2>8 DEF AnswersOwnConnection
  <2>10. TrySendNextResponse(Append(responseQueue, answer), inFlight)
    BY <2>2 DEF EnqueueResponseObject
  <2>11. inFlight # NothingInFlight => inFlight.response.of = generation
    BY DEF AnswersOwnConnection
  <2>12. AnswersOwnConnection'
    BY <1>1, <1>4, <2>8, <2>9, <2>10, <2>11, TrySendOwn
  <2> QED
    BY <1>1, <1>2, <1>4, <2>5, <2>6, <2>12 DEF NothingWithoutSocket
<1> QED
  BY <1>1, <1>3, <1>4

LEMMA EnqueueChunkOwn ==
  ASSUME TypeOK, NothingWithoutSocket, AnswersOwnConnection,
         NEW id \in Nat, NEW sequence \in Nat, NEW final \in BOOLEAN, NEW of \in Nat,
         EnqueuePcapChunk(id, sequence, final, of),
         id \in DOMAIN contexts => of = generation
  PROVE  /\ NothingWithoutSocket' /\ AnswersOwnConnection' /\ KeepsOwners
         /\ UNCHANGED <<toPcap, toControl, requestCounter>>
<1>1. UNCHANGED <<socket, generation, requestCounter, responseQueue, inFlight, toPcap, toControl>>
  BY DEF EnqueuePcapChunk
<1>2. CASE UNCHANGED <<down, contexts>>
  BY <1>1, <1>2 DEF NothingWithoutSocket, AnswersOwnConnection, KeepsOwners, TypeOK, HandlerTypeOK
<1>3. CASE /\ socket /\ id \in DOMAIN contexts
           /\ contexts[id].generation = generation /\ contexts[id].kind = "pcap_read"
  <2> DEFINE frame == [type |-> "binary", client |-> contexts[id].client, sequence |-> sequence,
                       final |-> final, of |-> of]
  <2>1. down' = Append(down, frame) /\ frame.of = generation
    BY <1>3 DEF EnqueuePcapChunk
  <2>2. frame \in Frames /\ down \in Seq(Frames)
    BY <1>3, WrittenFrames DEF TypeOK, HandlerTypeOK, RequestContext
  <2> HIDE DEF frame
  <2>3. \A i \in DOMAIN down' : (i \in DOMAIN down /\ down'[i] = down[i]) \/ down'[i] = frame
    BY <2>1, <2>2
  <2>4. \/ contexts' = contexts
        \/ contexts' = Forget(contexts, {id} \union WriteContext(contexts, contexts[id].related))
    BY <1>3 DEF EnqueuePcapChunk
  <2>5. DOMAIN contexts' \subseteq DOMAIN contexts /\ \A i \in DOMAIN contexts' : contexts'[i] = contexts[i]
    BY <2>4 DEF Forget
  <2>6. AnswersOwnConnection'
    BY <1>1, <2>1, <2>3 DEF AnswersOwnConnection
  <2> QED
    BY <1>1, <1>3, <2>5, <2>6 DEF NothingWithoutSocket, KeepsOwners, TypeOK, HandlerTypeOK
<1> QED
  BY <1>1, <1>2, <1>3 DEF EnqueuePcapChunk

LEMMA TakePostedOwn ==
  ASSUME TypeOK, OwnersInvariant, TakePosted
  PROVE  OwnersInvariant'
<1> DEFINE event == Head(toHandler)
<1>1. event \in Posted /\ toHandler # << >> /\ toHandler' = Tail(toHandler) /\ UNCHANGED <<pcapQueue, capture, transfer>>
  BY DEF TakePosted, TypeOK
<1>2. WaitingBelongs /\ NothingWithoutSocket /\ AnswersOwnConnection
  BY DEF OwnersInvariant, WaitingBelongs, NothingWithoutSocket
<1>3. Belongs(Answered(event))
  <2>1. 1 \in DOMAIN toHandler /\ event = toHandler[1]
    BY <1>1 DEF TypeOK
  <2> QED
    BY <1>2, <2>1 DEF WaitingBelongs
<1>4. NothingWithoutSocket' /\ AnswersOwnConnection' /\ KeepsOwners /\ UNCHANGED <<toPcap, toControl, requestCounter>>
  <2>1. CASE event.type = "response" /\ EnqueueResponse(event.response) /\ UNCHANGED toControl
    <3>1. event.response \in Response /\ Belongs(event.response)
      BY <1>1, <1>3, <2>1, PostedEvents DEF Answered
    <3> QED
      BY <1>2, <2>1, <3>1, EnqueueResponseOwn
  <2>2. CASE event.type = "chunk" /\ EnqueuePcapChunk(event.id, event.sequence, event.final, event.of)
    <3>1. event.id \in Nat /\ event.sequence \in Nat /\ event.final \in BOOLEAN /\ event.of \in Nat
      BY <1>1, <2>2, PostedEvents
    <3>2. event.id \in DOMAIN contexts => event.of = generation
      BY <1>3, <2>2 DEF Answered, Belongs
    <3> QED
      BY <1>2, <2>2, <3>1, <3>2, EnqueueChunkOwn
  <2> QED
    BY <2>1, <2>2 DEF TakePosted
<1> HIDE DEF event
<1>5. WaitingBelongs'
  BY <1>1, <1>2, <1>4, WaitingKept
<1> QED
  BY <1>4, <1>5 DEF OwnersInvariant, WaitingBelongs, NothingWithoutSocket

LEMMA ControlRespondsOwn ==
  ASSUME TypeOK, OwnersInvariant, ControlResponds
  PROVE  OwnersInvariant'
<1>1. WaitingBelongs /\ NothingWithoutSocket /\ AnswersOwnConnection
  BY DEF OwnersInvariant, WaitingBelongs, NothingWithoutSocket
<1>2. PICK request \in toControl, final \in BOOLEAN :
        /\ toControl' = IF final THEN toControl \ {request} ELSE toControl
        /\ EnqueueResponse([id |-> request.id, final |-> final, outcome |-> "success",
                             related |-> 0, transfer |-> FALSE, of |-> request.of])
  BY DEF ControlResponds
<1> DEFINE response == [id |-> request.id, final |-> final, outcome |-> "success",
                        related |-> 0, transfer |-> FALSE, of |-> request.of]
<1>3. response \in Response /\ EnqueueResponse(response) /\ Belongs(response) /\ toControl' \subseteq toControl
  BY <1>1, <1>2 DEF TypeOK, HandlerTypeOK, Response, Outcomes, WaitingBelongs, Belongs
<1> HIDE DEF response
<1>4. NothingWithoutSocket' /\ AnswersOwnConnection' /\ KeepsOwners /\ UNCHANGED toPcap
  BY <1>1, <1>3, EnqueueResponseOwn
<1>5. UNCHANGED <<pcapQueue, capture, transfer, toHandler>>
  BY DEF ControlResponds, pcapVars
<1>6. WaitingBelongs'
  BY <1>1, <1>3, <1>4, <1>5, WaitingKept
<1> QED
  BY <1>4, <1>6 DEF OwnersInvariant, WaitingBelongs, NothingWithoutSocket

LEMMA PcapThreadOwn ==
  ASSUME TypeOK, OwnersInvariant, PcapThread
  PROVE  OwnersInvariant'
<1>1. WaitingBelongs /\ NothingWithoutSocket /\ AnswersOwnConnection
  BY DEF OwnersInvariant, WaitingBelongs, NothingWithoutSocket
<1>2. WaitingBelongs'
  BY <1>1, PcapWaitingKept
<1>3. PcapWorkTypeOK /\ toPcap \in Seq(PcapEvents)
  BY TypeParts DEF HandlerTypeOK
<1>4. Elsewhere
  BY <1>3, PcapThreadStep
<1>5. NothingWithoutSocket' /\ AnswersOwnConnection'
  BY <1>1, <1>4 DEF Elsewhere, NothingWithoutSocket, AnswersOwnConnection
<1> QED
  BY <1>2, <1>5 DEF OwnersInvariant, WaitingBelongs, NothingWithoutSocket

LEMMA RequestsOwn ==
  ASSUME TypeOK, OwnersInvariant, ClientRequests
  PROVE  OwnersInvariant'
<1>1. WaitingBelongs /\ NothingWithoutSocket /\ AnswersOwnConnection
  BY DEF OwnersInvariant, WaitingBelongs, NothingWithoutSocket
<1>2. socket /\ UNCHANGED <<socket, generation>> /\ UNCHANGED <<pcapQueue, capture, transfer, toHandler>>
  BY DEF ClientRequests, HandleRequest, HandleInvalidMessage, pcapVars
<1>3. /\ responseQueue \in Seq(ClientResponse) /\ generation \in Nat /\ requestCounter \in Nat
      /\ DOMAIN contexts \subseteq 1..requestCounter
  BY DEF TypeOK, HandlerTypeOK
<1>4. ASSUME NEW client \in Nat,
             EnqueueResponseObject([client |-> client, transfer |-> FALSE, of |-> generation])
      PROVE  AnswersOwnConnection'
  <2> DEFINE answer == [client |-> client, transfer |-> FALSE, of |-> generation]
  <2>1. answer \in ClientResponse /\ answer.of = generation
    BY <1>3 DEF ClientResponse
  <2>2. TrySendNextResponse(Append(responseQueue, answer), inFlight)
    BY <1>4 DEF EnqueueResponseObject
  <2> HIDE DEF answer
  <2>3. /\ Append(responseQueue, answer) \in Seq(ClientResponse)
        /\ \A i \in DOMAIN Append(responseQueue, answer) :
             (i \in DOMAIN responseQueue /\ Append(responseQueue, answer)[i] = responseQueue[i])
             \/ Append(responseQueue, answer)[i] = answer
    BY <1>3, <2>1
  <2>4. \A i \in DOMAIN Append(responseQueue, answer) : Append(responseQueue, answer)[i].of = generation
    BY <1>1, <2>1, <2>3 DEF AnswersOwnConnection
  <2>5. inFlight # NothingInFlight => inFlight.response.of = generation
    BY <1>1 DEF AnswersOwnConnection
  <2> QED
    BY <1>1, <1>2, <2>2, <2>3, <2>4, <2>5, TrySendOwn
<1>5. ASSUME NEW kind \in RequestKinds, HandleRequest(sent + 1, kind)
      PROVE  OwnersInvariant'
  <2>1. requestCounter' = requestCounter + 1 /\ sent + 1 \in Nat
    BY <1>5 DEF HandleRequest, TypeOK
  <2>2. CASE kind = "unknown"
    <3>1. /\ UNCHANGED <<contexts, toPcap, toControl>>
          /\ EnqueueResponseObject([client |-> sent + 1, transfer |-> FALSE, of |-> generation])
      BY <1>5, <2>2 DEF HandleRequest
    <3>2. AnswersOwnConnection' /\ NothingWithoutSocket' /\ KeepsOwners
      BY <1>1, <1>2, <1>3, <1>4, <2>1, <3>1 DEF NothingWithoutSocket, KeepsOwners
    <3>3. WaitingBelongs'
      BY <1>1, <1>2, <3>1, <3>2, WaitingKept
    <3> QED
      BY <3>2, <3>3 DEF OwnersInvariant, WaitingBelongs, NothingWithoutSocket
  <2>3. CASE kind # "unknown"
    <3> DEFINE context == [client |-> sent + 1, generation |-> generation, kind |-> kind, related |-> 0]
               id == requestCounter + 1
               event == [type |-> "request", id |-> id, kind |-> kind, of |-> generation]
    <3>1. /\ contexts' = Remember(contexts, id, context)
          /\ UNCHANGED <<responseQueue, inFlight, responseCounter, down>>
          /\ \A request \in toControl' : request \in toControl \/ request = [id |-> id, of |-> generation]
          /\ toPcap' = toPcap \/ (kind \in PcapKinds /\ toPcap' = Append(toPcap, event))
      BY <1>5, <2>3 DEF HandleRequest
    <3>2. id <= requestCounter' /\ id \in Nat /\ ~(id <= requestCounter)
      BY <1>3, <2>1
    <3>3. event.id = id /\ event.of = generation /\ context.generation = generation
          /\ (kind \in PcapKinds => event \in PcapEvents)
      BY <1>3, <3>2, EventsForPcap
    <3> HIDE DEF context, id
    <3>4. DOMAIN contexts' = DOMAIN contexts \union {id}
          /\ \A i \in DOMAIN contexts' : contexts'[i] = IF i = id THEN context ELSE contexts[i]
      BY <3>1 DEF Remember
    <3>5. KeepsOwners
      BY <1>2, <1>3, <2>1, <3>2, <3>4 DEF KeepsOwners
    <3>6. NothingWithoutSocket' /\ AnswersOwnConnection'
      BY <1>1, <1>2, <3>1, <3>3, <3>4 DEF NothingWithoutSocket, AnswersOwnConnection
    <3>7. BelongsThen(event) /\ BelongsThen([id |-> id, of |-> generation])
      BY <1>2, <3>2, <3>3 DEF BelongsThen
    <3> HIDE DEF event
    <3>8. /\ \A request \in toControl' : request \in toControl \/ BelongsThen(request)
          /\ \/ UNCHANGED toPcap
             \/ \E e \in PcapEvents : toPcap' = Append(toPcap, e) /\ (e.type = "request" => BelongsThen(e))
      BY <3>1, <3>3, <3>7
    <3>9. WaitingBelongs'
      BY <1>1, <1>2, <3>5, <3>8, WaitingKept
    <3> QED
      BY <3>6, <3>9 DEF OwnersInvariant, WaitingBelongs, NothingWithoutSocket
  <2> QED
    BY <2>2, <2>3
<1>6. CASE HandleInvalidMessage
  <2>1. UNCHANGED <<contexts, requestCounter, toPcap, toControl>>
        /\ EnqueueResponseObject([client |-> 0, transfer |-> FALSE, of |-> generation])
    BY <1>6 DEF HandleInvalidMessage
  <2>2. AnswersOwnConnection' /\ NothingWithoutSocket' /\ KeepsOwners
    BY <1>1, <1>2, <1>3, <1>4, <2>1 DEF NothingWithoutSocket, KeepsOwners
  <2>3. WaitingBelongs'
    BY <1>1, <1>2, <2>1, <2>2, WaitingKept
  <2> QED
    BY <2>2, <2>3 DEF OwnersInvariant, WaitingBelongs, NothingWithoutSocket
<1> QED
  BY <1>5, <1>6 DEF ClientRequests

(* What neither adds a context nor waits for an answer.                     *)
LEMMA OthersOwn ==
  ASSUME TypeOK, OwnersInvariant, UNCHANGED <<socket, generation, requestCounter, contexts, toControl>>,
         UNCHANGED <<pcapQueue, capture, transfer, toHandler>>, AnswersOwnConnection',
         ~socket' => responseQueue' = << >> /\ inFlight' = NothingInFlight /\ down' = << >>,
         \/ UNCHANGED toPcap
         \/ \E event \in PcapEvents : toPcap' = Append(toPcap, event) /\ event.type = "chunk"
  PROVE  OwnersInvariant'
<1>1. WaitingBelongs /\ NothingWithoutSocket
  BY DEF OwnersInvariant, WaitingBelongs, NothingWithoutSocket
<1>2. KeepsOwners /\ NothingWithoutSocket'
  BY <1>1 DEF KeepsOwners, NothingWithoutSocket
<1>3. \/ UNCHANGED toPcap
      \/ \E event \in PcapEvents : toPcap' = Append(toPcap, event) /\ (event.type = "request" => BelongsThen(event))
  <2>1. "chunk" # "request"
    OBVIOUS
  <2> QED
    BY <2>1
<1>4. WaitingBelongs'
  BY <1>1, <1>2, <1>3, WaitingKept
<1> QED
  BY <1>2, <1>4 DEF OwnersInvariant, WaitingBelongs, NothingWithoutSocket

(* An acknowledgement asks PCAP for a chunk at most.                        *)
LEMMA AckAsks ==
  ASSUME TypeOK, TakeAck
  PROVE  /\ UNCHANGED <<socket, generation, requestCounter, contexts, toControl, pcapVars>> /\ socket
         /\ \/ UNCHANGED toPcap
            \/ \E event \in PcapEvents : toPcap' = Append(toPcap, event) /\ event.type = "chunk"
         /\ \/ UNCHANGED <<responseQueue, inFlight, down>>
            \/ TrySendNextResponse(responseQueue, NothingInFlight)
<1>0. Head(up) \in Acks /\ HandlerTypeOK
  BY DEF TakeAck, TypeOK
<1>1. CASE UNCHANGED handlerVars
  BY <1>1 DEF TakeAck, handlerVars
<1>2. CASE Head(up).type = "ack" /\ HandleAck(Head(up).id)
  <2>1. CASE inFlight = NothingInFlight \/ ~Answering(Head(up).id)
    BY <1>2, <2>1 DEF TakeAck, HandleAck
  <2>2. CASE ~(inFlight = NothingInFlight \/ ~Answering(Head(up).id))
    <3> DEFINE event == [type |-> "chunk", id |-> inFlight.readId, sequence |-> 0]
    <3>1. inFlight.readId \in Nat
      BY <1>0, <2>2 DEF HandlerTypeOK, InFlight
    <3>2. event \in PcapEvents /\ event.type = "chunk"
      BY <3>1, EventsForPcap
    <3>3. (toPcap' = toPcap \/ toPcap' = Append(toPcap, event)) /\ TrySendNextResponse(responseQueue, NothingInFlight)
      BY <1>2, <2>2 DEF HandleAck
    <3> HIDE DEF event
    <3>4. UNCHANGED <<socket, generation, requestCounter, contexts, toControl, pcapVars>> /\ socket
      BY <1>2 DEF TakeAck, HandleAck
    <3> QED
      BY <3>2, <3>3, <3>4
  <2> QED
    BY <2>1, <2>2
<1>3. CASE Head(up).type = "chunk_ack" /\ HandlePcapChunkAck(Head(up).client, Head(up).sequence)
  <2> DEFINE found == ReadContexts(contexts, Head(up).client)
             latest == CHOOSE i \in found : \A j \in found : j <= i
             event == [type |-> "chunk", sequence |-> Head(up).sequence + 1, id |-> latest]
  <2>1. /\ toPcap' = IF found = {} THEN toPcap ELSE Append(toPcap, event)
        /\ UNCHANGED <<socket, generation, requestCounter, contexts, toControl, responseQueue, inFlight, down>>
    BY <1>3 DEF HandlePcapChunkAck
  <2>2. found # {} => event \in PcapEvents
    <3> SUFFICES ASSUME found # {} PROVE event \in PcapEvents
      OBVIOUS
    <3>1. found \subseteq 1..requestCounter /\ requestCounter \in Nat
      BY <1>0, ReadContextsType DEF HandlerTypeOK
    <3>2. \E i \in found : \A j \in found : j <= i
      BY <3>1, GreatestExists
    <3>3. latest \in Nat
      BY <3>1, <3>2
    <3>4. Head(up).sequence + 1 \in Nat
      BY <1>0, <1>3, Acknowledgements
    <3> HIDE DEF latest
    <3> QED
      BY <3>3, <3>4 DEF PcapEvents
  <2>3. event.type = "chunk"
    OBVIOUS
  <2> HIDE DEF event, found
  <2>4. UNCHANGED pcapVars /\ socket
    BY DEF TakeAck
  <2> QED
    BY <2>1, <2>2, <2>3, <2>4
<1> QED
  BY <1>1, <1>2, <1>3 DEF TakeAck

LEMMA TakeAckOwn ==
  ASSUME TypeOK, OwnersInvariant, TakeAck
  PROVE  OwnersInvariant'
<1>1. /\ UNCHANGED <<socket, generation, requestCounter, contexts, toControl, pcapVars>> /\ socket
      /\ \/ UNCHANGED toPcap
         \/ \E event \in PcapEvents : toPcap' = Append(toPcap, event) /\ event.type = "chunk"
  BY AckAsks
<1>2. AnswersOwnConnection
  BY DEF OwnersInvariant
<1>3. AnswersOwnConnection'
  <2>1. CASE UNCHANGED <<responseQueue, inFlight, down>>
    BY <1>1, <1>2, <2>1 DEF AnswersOwnConnection
  <2>2. CASE TrySendNextResponse(responseQueue, NothingInFlight)
    <3>1. responseQueue \in Seq(ClientResponse) /\ \A i \in DOMAIN responseQueue : responseQueue[i].of = generation
      BY <1>2 DEF TypeOK, HandlerTypeOK, AnswersOwnConnection
    <3> QED
      BY <1>1, <1>2, <2>2, <3>1, TrySendOwn
  <2> QED
    BY <2>1, <2>2, AckAsks
<1> QED
  BY <1>1, <1>3, OthersOwn DEF pcapVars

LEMMA TimeoutOwn ==
  ASSUME TypeOK, OwnersInvariant, AckTimeout
  PROVE  OwnersInvariant'
<1> DEFINE frame == TextFrame(inFlight.id, inFlight.response)
<1>1. /\ socket /\ down' = Append(down, frame) /\ frame.type = "text" /\ down \in Seq(Frames)
      /\ UNCHANGED <<socket, generation, requestCounter, contexts, responseQueue, inFlight, toPcap, toControl>>
      /\ UNCHANGED <<pcapQueue, capture, transfer, toHandler>>
  BY DEF AckTimeout, ResendInFlight, TextFrame, TypeOK, HandlerTypeOK, pcapVars
<1>2. frame \in Frames
  BY WrittenFrames DEF AckTimeout, ResendInFlight, TypeOK, HandlerTypeOK, InFlight
<1> HIDE DEF frame
<1>3. \A i \in DOMAIN down' : (i \in DOMAIN down /\ down'[i] = down[i]) \/ down'[i] = frame
  BY <1>1, <1>2
<1>4. AnswersOwnConnection'
  BY <1>1, <1>3 DEF OwnersInvariant, AnswersOwnConnection
<1> QED
  BY <1>1, <1>4, OthersOwn

LEMMA ReceivesOwn ==
  ASSUME TypeOK, OwnersInvariant, ClientReceives
  PROVE  OwnersInvariant'
<1>1. /\ socket /\ down # << >> /\ down' = Tail(down)
      /\ UNCHANGED <<socket, generation, requestCounter, contexts, responseQueue, inFlight, toPcap, toControl>>
      /\ UNCHANGED <<pcapQueue, capture, transfer, toHandler>>
  BY DEF ClientReceives, pcapVars
<1>2. \A i \in DOMAIN down' : \E j \in DOMAIN down : down'[i] = down[j]
  BY <1>1, Taken DEF TypeOK, HandlerTypeOK
<1>3. AnswersOwnConnection'
  BY <1>1, <1>2 DEF OwnersInvariant, AnswersOwnConnection
<1> QED
  BY <1>1, <1>3, OthersOwn

LEMMA ConnectionOwn ==
  ASSUME TypeOK, OwnersInvariant, Connect \/ Disconnect
  PROVE  OwnersInvariant'
<1>1. WaitingBelongs /\ NothingWithoutSocket /\ AnswersOwnConnection
  BY DEF OwnersInvariant, WaitingBelongs, NothingWithoutSocket
<1>2. UNCHANGED <<pcapQueue, capture, transfer, toHandler, requestCounter, toControl>>
  BY DEF Connect, Disconnect, SetSocket, SocketDisconnected, ClearSession, pcapVars
<1>3. CASE Connect
  <2>1. /\ ~socket /\ down' = << >> /\ UNCHANGED <<contexts, responseQueue, inFlight, toPcap>> /\ socket' = TRUE
    BY <1>3 DEF Connect, SetSocket
  <2>2. DOMAIN contexts = {} /\ responseQueue = << >> /\ inFlight = NothingInFlight
    BY <1>1, <2>1 DEF NothingWithoutSocket
  <2>3. KeepsOwners /\ NothingWithoutSocket'
    BY <1>2, <2>1, <2>2 DEF KeepsOwners, NothingWithoutSocket, TypeOK, HandlerTypeOK
  <2>4. DOMAIN responseQueue' = {} /\ DOMAIN down' = {}
    BY <2>1, <2>2
  <2>5. AnswersOwnConnection'
    BY <2>1, <2>2, <2>4 DEF AnswersOwnConnection
  <2>6. WaitingBelongs'
    BY <1>1, <1>2, <2>1, <2>3, WaitingKept
  <2> QED
    BY <2>3, <2>5, <2>6 DEF OwnersInvariant, WaitingBelongs, NothingWithoutSocket
<1>4. CASE Disconnect
  <2> DEFINE event == [type |-> "disconnected", of |-> generation]
  <2>1. /\ contexts' = << >> /\ responseQueue' = << >> /\ inFlight' = NothingInFlight /\ down' = << >>
        /\ toPcap' = Append(toPcap, event)
    BY <1>4 DEF Disconnect, SocketDisconnected, ClearSession, PostDisconnected
  <2>2. DOMAIN contexts' = {} /\ DOMAIN responseQueue' = {} /\ DOMAIN down' = {}
    BY <2>1
  <2>3. KeepsOwners /\ NothingWithoutSocket'
    BY <1>2, <2>1, <2>2 DEF KeepsOwners, NothingWithoutSocket, TypeOK, HandlerTypeOK
  <2>4. AnswersOwnConnection'
    BY <2>1, <2>2 DEF AnswersOwnConnection
  <2>5. event \in PcapEvents /\ event.type # "request"
    BY EventsForPcap DEF TypeOK, HandlerTypeOK
  <2> HIDE DEF event
  <2>6. WaitingBelongs'
    BY <1>1, <1>2, <2>1, <2>3, <2>5, WaitingKept
  <2> QED
    BY <2>3, <2>4, <2>6 DEF OwnersInvariant, WaitingBelongs, NothingWithoutSocket
<1> QED
  BY <1>3, <1>4

LEMMA OwnersInit == Init => OwnersInvariant
<1> SUFFICES ASSUME Init PROVE OwnersInvariant
  OBVIOUS
<1>1. /\ contexts = << >> /\ responseQueue = << >> /\ inFlight = NothingInFlight /\ down = << >>
      /\ toPcap = << >> /\ toControl = {} /\ pcapQueue = << >> /\ toHandler = << >>
      /\ capture = Nobody /\ transfer = Nobody /\ requestCounter = 0
  BY DEF Init, HandlerInit, PcapInit
<1>2. DOMAIN contexts = {} /\ DOMAIN responseQueue = {} /\ DOMAIN down = {} /\ DOMAIN toPcap = {}
      /\ DOMAIN pcapQueue = {} /\ DOMAIN toHandler = {}
  BY <1>1
<1>3. Belongs(Nobody)
  BY <1>1, <1>2 DEF Belongs, Nobody
<1> QED
  BY <1>1, <1>2, <1>3 DEF OwnersInvariant, AnswersOwnConnection

LEMMA OwnersStep == TypeOK /\ OwnersInvariant /\ [Next]_vars => OwnersInvariant'
<1> SUFFICES ASSUME TypeOK, OwnersInvariant, [Next]_vars PROVE OwnersInvariant'
  OBVIOUS
<1>1. CASE ClientRepeatsAck \/ RestrictLogin \/ UNCHANGED vars
  <2>1. UNCHANGED <<handlerVars, pcapVars>>
    BY <1>1 DEF ClientRepeatsAck, RestrictLogin, vars
  <2> QED
    BY <2>1 DEF handlerVars, pcapVars, OwnersInvariant, AnswersOwnConnection, Belongs, Answered
<1> QED
  BY <1>1, RequestsOwn, TakeAckOwn, TimeoutOwn, ReceivesOwn, ConnectionOwn, PcapThreadOwn, TakePostedOwn,
     ControlRespondsOwn DEF Next, MainThread, Client

(* Everything that waits for an answer, in either thread, belongs to the    *)
(* connection if its context is still known; ids are given once.            *)
THEOREM OwnersInvariantHolds == Spec => []OwnersInvariant
  BY TypeHolds, OwnersInit, OwnersStep, PTL DEF Spec

(* A response or a chunk that comes late, from either thread, never reaches *)
(* the client of another connection.                                        *)
THEOREM AnswersOwnConnectionHolds == Spec => []AnswersOwnConnection
<1>1. OwnersInvariant => AnswersOwnConnection
  BY DEF OwnersInvariant
<1> QED
  BY <1>1, OwnersInvariantHolds, PTL

-----------------------------------------------------------------------------
(* Whose capture PCAP works on *)

(* The half of the invariant about what is posted, and the half about PCAP. *)
EventsInOrder ==
  /\ \A i \in DOMAIN toPcap : Ends(i) => toPcap[i].of <= generation /\ (socket => toPcap[i].of < generation)
  /\ \A i \in DOMAIN toPcap : Asks(i) =>
       /\ toPcap[i].of <= generation
       /\ (socket /\ toPcap[i].of = generation)
          \/ \E j \in DOMAIN toPcap : i < j /\ Ends(j) /\ toPcap[j].of = toPcap[i].of
  /\ \A i, j \in DOMAIN toPcap : i < j /\ Asks(i) /\ Ends(j) => toPcap[i].of <= toPcap[j].of

WorksInOrder ==
  /\ CaptureOfItsClient
  /\ \A i \in DOMAIN toPcap : Ends(i) =>
       /\ pcapState # "Idle" => capture.of <= toPcap[i].of
       /\ \A k \in DOMAIN pcapQueue : pcapQueue[k].of <= toPcap[i].of

LEMMA CaptureParts == CaptureInvariant <=> EventsInOrder /\ WorksInOrder
  BY DEF CaptureInvariant, EventsInOrder, WorksInOrder

LEMMA EventTypes ==
  ASSUME TypeOK
  PROVE  /\ toPcap \in Seq(PcapEvents) /\ generation \in Nat /\ socket \in BOOLEAN
         /\ \A i \in DOMAIN toPcap : toPcap[i] \in PcapEvents
         /\ \A i \in DOMAIN toPcap : Ends(i) => toPcap[i].of \in Nat
         /\ \A i \in DOMAIN toPcap : Asks(i) => toPcap[i].of \in Nat
         /\ pcapQueue \in Seq(PcapRequest) /\ capture.of \in Nat /\ transfer.of \in Nat
         /\ \A k \in DOMAIN pcapQueue : pcapQueue[k].of \in Nat /\ pcapQueue[k] \in PcapRequest
<1>1. toPcap \in Seq(PcapEvents) /\ generation \in Nat /\ socket \in BOOLEAN
      /\ pcapQueue \in Seq(PcapRequest) /\ capture.of \in Nat /\ transfer.of \in Nat
  BY DEF TypeOK, HandlerTypeOK, PcapTypeOK, PcapRequest, Owner
<1>2. \A i \in DOMAIN toPcap : toPcap[i] \in PcapEvents
  BY <1>1
<1>3. \A k \in DOMAIN pcapQueue : pcapQueue[k] \in PcapRequest
  BY <1>1
<1> QED
  BY <1>1, <1>2, <1>3, EventsForPcap DEF Ends, Asks, PcapRequest

(* A new event of the connection behind what is posted.                     *)
LEMMA EventAdded ==
  ASSUME TypeOK, EventsInOrder, WorksInOrder, NEW event \in PcapEvents, toPcap' = Append(toPcap, event), socket,
         UNCHANGED <<generation, pcapVars>>,
         \/ event.type = "chunk" /\ UNCHANGED socket
         \/ event.type = "request" /\ event.of = generation /\ UNCHANGED socket
         \/ event.type = "disconnected" /\ event.of = generation /\ socket' = FALSE
  PROVE  EventsInOrder' /\ WorksInOrder'
<1>1. PICK n \in Nat :
        /\ DOMAIN toPcap' = 1..n + 1 /\ DOMAIN toPcap = 1..n
        /\ \A i \in DOMAIN toPcap : toPcap'[i] = toPcap[i]
        /\ toPcap'[n + 1] = event
  BY EventTypes, Appended
<1>2. /\ \A i \in DOMAIN toPcap' : i \in DOMAIN toPcap \/ i = n + 1
      /\ \A i \in DOMAIN toPcap : i \in DOMAIN toPcap' /\ i \in Nat /\ i < n + 1 /\ ~(n + 1 < i)
      /\ n + 1 \in DOMAIN toPcap' /\ ~(n + 1 < n + 1)
  BY <1>1
<1>3. /\ \A i \in DOMAIN toPcap : Ends(i) => toPcap[i].of \in Nat
      /\ \A i \in DOMAIN toPcap : Asks(i) => toPcap[i].of \in Nat
      /\ generation \in Nat /\ socket' => socket
      /\ generation' = generation /\ generation <= generation
  BY EventTypes
<1>4. /\ \A i \in DOMAIN toPcap : (Ends(i))' = Ends(i) /\ (Asks(i))' = Asks(i)
      /\ \A i \in DOMAIN toPcap' : i = n + 1 => (Ends(i))' = (event.type = "disconnected")
      /\ \A i \in DOMAIN toPcap' : i = n + 1 => (Asks(i))' = (event.type = "request")
  BY <1>1 DEF Ends, Asks
<1>5. EventsInOrder'
  <2>1. ASSUME NEW i \in DOMAIN toPcap', (Ends(i))'
        PROVE  toPcap'[i].of <= generation' /\ (socket' => toPcap'[i].of < generation')
    <3>1. CASE i = n + 1
      <4>1. toPcap'[i] = event
        BY <1>1, <3>1
      <4>2. event.type = "disconnected"
        BY <2>1, <4>1 DEF Ends
      <4>3. event.of = generation /\ socket' = FALSE
        BY <4>2
      <4> QED
        <5>1. toPcap'[i].of = generation
          BY <4>1, <4>3
        <5> QED
          BY <1>3, <4>3, <5>1
    <3>2. CASE i \in DOMAIN toPcap
      <4>1. Ends(i) /\ toPcap'[i] = toPcap[i]
        BY <1>1, <1>4, <2>1, <3>2
      <4> QED
        BY <1>3, <3>2, <4>1 DEF EventsInOrder
    <3> QED
      BY <1>2, <3>1, <3>2
  <2>2. ASSUME NEW i \in DOMAIN toPcap', (Asks(i))'
        PROVE  /\ toPcap'[i].of <= generation'
               /\ (socket' /\ toPcap'[i].of = generation')
                  \/ \E j \in DOMAIN toPcap' : i < j /\ (Ends(j))' /\ toPcap'[j].of = toPcap'[i].of
    <3>1. CASE i = n + 1
      <4>1. toPcap'[i] = event
        BY <1>1, <3>1
      <4>2. event.type = "request"
        BY <2>2, <4>1 DEF Asks
      <4>3. event.of = generation /\ UNCHANGED <<socket, generation>>
        BY <4>2
      <4> QED
        <5>1. toPcap'[i].of = generation
          BY <4>1, <4>3
        <5> QED
          BY <1>3, <4>3, <5>1
    <3>2. CASE i \in DOMAIN toPcap
      <4>1. Asks(i) /\ toPcap'[i] = toPcap[i] /\ toPcap[i].of <= generation /\ i < n + 1
        BY <1>1, <1>2, <1>4, <2>2, <3>2 DEF EventsInOrder
      <4>2. CASE \E j \in DOMAIN toPcap : i < j /\ Ends(j) /\ toPcap[j].of = toPcap[i].of
        BY <1>1, <1>2, <1>4, <4>1, <4>2
      <4>3. CASE toPcap[i].of = generation
        <5>1. CASE socket'
          BY <1>3, <4>1, <4>3, <5>1
        <5>2. CASE ~socket'
          <6>1. event.type = "disconnected" /\ event.of = generation
            BY <5>2
          <6>2. (Ends(n + 1))' /\ toPcap'[n + 1].of = generation
            BY <1>1, <1>2, <1>4, <6>1
          <6> QED
            BY <1>2, <1>3, <4>1, <4>3, <6>2
        <5> QED
          BY <5>1, <5>2
      <4> QED
        BY <3>2, <4>1, <4>2, <4>3 DEF EventsInOrder
    <3> QED
      BY <1>2, <3>1, <3>2
  <2>3. ASSUME NEW i \in DOMAIN toPcap', NEW j \in DOMAIN toPcap', i < j, (Asks(i))', (Ends(j))'
        PROVE  toPcap'[i].of <= toPcap'[j].of
    <3>1. i \in DOMAIN toPcap /\ Asks(i) /\ toPcap'[i] = toPcap[i]
      BY <1>1, <1>2, <1>4, <2>3
    <3>2. CASE j = n + 1
      <4>1. toPcap'[j] = event
        BY <1>1, <3>2
      <4>2. event.type = "disconnected"
        BY <2>3, <4>1 DEF Ends
      <4>3. event.of = generation
        BY <4>2
      <4> QED
        BY <1>3, <3>1, <4>1, <4>3 DEF EventsInOrder
    <3>3. CASE j \in DOMAIN toPcap
      <4>1. Ends(j) /\ toPcap'[j] = toPcap[j]
        BY <1>1, <1>4, <2>3, <3>3
      <4> QED
        BY <2>3, <3>1, <3>3, <4>1 DEF EventsInOrder
    <3> QED
      BY <1>2, <3>2, <3>3
  <2> QED
    BY <2>1, <2>2, <2>3 DEF EventsInOrder
<1>6. ASSUME NEW of \in Nat, Current(of)
      PROVE  (Current(of))' /\ of <= generation
  <2>1. CASE socket /\ of = generation
    <3>1. CASE UNCHANGED socket
      BY <2>1, <3>1 DEF Current
    <3>2. CASE event.type = "disconnected" /\ event.of = generation
      BY <1>1, <1>2, <2>1, <3>2 DEF Current
    <3> QED
      BY <1>3, <2>1, <3>1, <3>2
  <2>2. CASE \E i \in DOMAIN toPcap : toPcap[i].type = "disconnected" /\ toPcap[i].of = of
    <3>1. PICK i \in DOMAIN toPcap : toPcap[i].type = "disconnected" /\ toPcap[i].of = of
      BY <2>2
    <3>2. Ends(i)
      BY <3>1 DEF Ends
    <3>3. of <= generation
      BY <3>1, <3>2 DEF EventsInOrder
    <3> QED
      BY <1>1, <1>2, <3>1, <3>3 DEF Current
  <2> QED
    BY <1>6, <2>1, <2>2 DEF Current
<1>7. WorksInOrder'
  <2>1. capture' = capture /\ transfer' = transfer /\ pcapQueue' = pcapQueue /\ pcapState' = pcapState
    BY DEF pcapVars
  <2>2. capture.of \in Nat /\ \A k \in DOMAIN pcapQueue : pcapQueue[k].of \in Nat
    BY EventTypes
  <2>3. CaptureOfItsClient'
    BY <1>6, <2>1, <2>2 DEF WorksInOrder, CaptureOfItsClient
  <2>4. ASSUME NEW i \in DOMAIN toPcap', (Ends(i))'
        PROVE  /\ pcapState' # "Idle" => capture'.of <= toPcap'[i].of
               /\ \A k \in DOMAIN pcapQueue' : pcapQueue'[k].of <= toPcap'[i].of
    <3>1. CASE i = n + 1
      <4>1. toPcap'[i].of = generation
        BY <1>1, <1>4, <2>4, <3>1
      <4> QED
        BY <1>6, <2>1, <2>2, <4>1 DEF WorksInOrder, CaptureOfItsClient
    <3>2. CASE i \in DOMAIN toPcap
      BY <1>1, <1>4, <2>1, <2>4, <3>2 DEF WorksInOrder
    <3> QED
      BY <1>2, <3>1, <3>2
  <2> QED
    BY <2>3, <2>4 DEF WorksInOrder
<1> QED
  BY <1>5, <1>7

LEMMA TailInOrder ==
  ASSUME TypeOK, EventsInOrder, toPcap # << >>, toPcap' = Tail(toPcap), UNCHANGED <<socket, generation>>
  PROVE  EventsInOrder'
<1>1. PICK n \in Nat :
        /\ DOMAIN toPcap' = 1..n - 1 /\ DOMAIN toPcap = 1..n
        /\ \A i \in DOMAIN toPcap' : i + 1 \in DOMAIN toPcap /\ toPcap'[i] = toPcap[i + 1]
  BY EventTypes, Taken
<1>2. /\ \A i \in DOMAIN toPcap' : i \in Nat /\ i + 1 \in DOMAIN toPcap
      /\ \A i \in DOMAIN toPcap', j \in DOMAIN toPcap :
           i + 1 < j => j - 1 \in DOMAIN toPcap' /\ i < j - 1 /\ (j - 1) + 1 = j
      /\ \A i, j \in DOMAIN toPcap' : i < j => i + 1 < j + 1
  BY <1>1
<1>3. \A i \in DOMAIN toPcap' :
        ((Ends(i))' <=> toPcap[i + 1].type = "disconnected") /\ ((Asks(i))' <=> toPcap[i + 1].type = "request")
  BY <1>1 DEF Ends, Asks
<1>4. generation' = generation /\ socket' = socket
  OBVIOUS
<1>5. ASSUME NEW i \in DOMAIN toPcap', (Ends(i))'
      PROVE  toPcap'[i].of <= generation' /\ (socket' => toPcap'[i].of < generation')
  <2>1. i + 1 \in DOMAIN toPcap /\ Ends(i + 1) /\ toPcap'[i] = toPcap[i + 1]
    BY <1>1, <1>3, <1>5 DEF Ends
  <2> QED
    BY <1>4, <2>1 DEF EventsInOrder
<1>6. ASSUME NEW i \in DOMAIN toPcap', (Asks(i))'
      PROVE  /\ toPcap'[i].of <= generation'
             /\ (socket' /\ toPcap'[i].of = generation')
                \/ \E j \in DOMAIN toPcap' : i < j /\ (Ends(j))' /\ toPcap'[j].of = toPcap'[i].of
  <2>1. i + 1 \in DOMAIN toPcap /\ Asks(i + 1) /\ toPcap'[i] = toPcap[i + 1]
    BY <1>1, <1>3, <1>6 DEF Asks
  <2>2. CASE \E j \in DOMAIN toPcap : i + 1 < j /\ Ends(j) /\ toPcap[j].of = toPcap[i + 1].of
    <3>1. PICK j \in DOMAIN toPcap : i + 1 < j /\ Ends(j) /\ toPcap[j].of = toPcap[i + 1].of
      BY <2>2
    <3>2. PICK k \in DOMAIN toPcap' : i < k /\ k + 1 = j
      BY <1>2, <3>1
    <3>3. (Ends(k))' /\ toPcap'[k] = toPcap[j]
      BY <1>1, <1>3, <3>1, <3>2 DEF Ends
    <3> QED
      BY <1>4, <2>1, <3>1, <3>2, <3>3 DEF EventsInOrder
  <2>3. CASE socket /\ toPcap[i + 1].of = generation
    BY <1>4, <2>1, <2>3 DEF EventsInOrder
  <2> QED
    BY <2>1, <2>2, <2>3 DEF EventsInOrder
<1>7. ASSUME NEW i \in DOMAIN toPcap', NEW j \in DOMAIN toPcap', i < j, (Asks(i))', (Ends(j))'
      PROVE  toPcap'[i].of <= toPcap'[j].of
  <2>1. i + 1 \in DOMAIN toPcap /\ Asks(i + 1) /\ toPcap'[i] = toPcap[i + 1]
    BY <1>1, <1>3, <1>7 DEF Asks
  <2>2. j + 1 \in DOMAIN toPcap /\ Ends(j + 1) /\ toPcap'[j] = toPcap[j + 1] /\ i + 1 < j + 1
    BY <1>1, <1>2, <1>3, <1>7 DEF Ends
  <2> QED
    BY <2>1, <2>2 DEF EventsInOrder
<1> QED
  BY <1>5, <1>6, <1>7 DEF EventsInOrder

(* What PCAP may work on: of a connection whose end is still to come, and   *)
(* is the next to come.  It is one connection at a time.                    *)
Fits(of) == Current(of) /\ \A i \in DOMAIN toPcap : Ends(i) => of <= toPcap[i].of

LEMMA FitsOne ==
  ASSUME TypeOK, EventsInOrder, NEW a \in Nat, NEW b \in Nat, Fits(a), Fits(b)
  PROVE  a = b
<1>1. /\ \A i \in DOMAIN toPcap : Ends(i) => toPcap[i].of \in Nat /\ toPcap[i].of <= generation
      /\ \A i \in DOMAIN toPcap : Ends(i) /\ socket => toPcap[i].of < generation
      /\ generation \in Nat
  BY EventTypes DEF EventsInOrder
<1>2. ASSUME NEW x \in Nat, NEW y \in Nat, Fits(x), Fits(y), ~(socket /\ x = generation)
      PROVE  y <= x /\ (y = x \/ ~(socket /\ y = generation))
  <2>1. PICK i \in DOMAIN toPcap : Ends(i) /\ toPcap[i].of = x
    BY <1>2 DEF Fits, Current, Ends
  <2>2. y <= x /\ (socket => x < generation)
    BY <1>1, <1>2, <2>1 DEF Fits
  <2> QED
    BY <1>1, <2>2
<1>3. CASE socket /\ a = generation /\ b = generation
  BY <1>3
<1>4. CASE ~(socket /\ a = generation)
  <2>1. b <= a /\ (b = a \/ ~(socket /\ b = generation))
    BY <1>2, <1>4
  <2>2. b = a \/ a <= b
    BY <1>2, <2>1
  <2> QED
    BY <2>1, <2>2
<1>5. CASE ~(socket /\ b = generation)
  <2>1. a <= b /\ (a = b \/ ~(socket /\ a = generation))
    BY <1>2, <1>5
  <2>2. a = b \/ b <= a
    BY <1>2, <2>1
  <2> QED
    BY <2>1, <2>2
<1> QED
  BY <1>3, <1>4, <1>5

LEMMA WorkFits ==
  WorksInOrder <=>
    /\ pcapState # "Idle" => Fits(capture.of)
    /\ pcapState = "Transferring" => transfer.of = capture.of
    /\ \A k \in DOMAIN pcapQueue : Fits(pcapQueue[k].of)
  BY DEF WorksInOrder, CaptureOfItsClient, Fits

LEMMA PcapThreadCapture ==
  ASSUME TypeOK, EventsInOrder, WorksInOrder, PcapThread
  PROVE  EventsInOrder' /\ WorksInOrder'
<1>1. PcapWorkTypeOK /\ toPcap \in Seq(PcapEvents) /\ pcapQueue \in Seq(PcapRequest)
  BY TypeParts, EventTypes
<1>2. UNCHANGED <<socket, generation>> /\ (UNCHANGED toPcap \/ (toPcap # << >> /\ toPcap' = Tail(toPcap)))
  BY <1>1, PcapThreadStep DEF Elsewhere
<1>3. EventsInOrder'
  <2>1. CASE UNCHANGED toPcap
    BY <1>2, <2>1 DEF EventsInOrder, Ends, Asks
  <2>2. CASE toPcap # << >> /\ toPcap' = Tail(toPcap)
    BY <1>2, <2>2, TailInOrder
  <2> QED
    BY <1>2, <2>1, <2>2
<1>4. /\ pcapState # "Idle" => Fits(capture.of)
      /\ pcapState = "Transferring" => transfer.of = capture.of
      /\ \A k \in DOMAIN pcapQueue : Fits(pcapQueue[k].of)
  BY WorkFits
<1>5. ASSUME toPcap # << >>, toPcap' = Tail(toPcap), Head(toPcap).type # "disconnected", NEW of, Fits(of)
      PROVE  (Fits(of))'
  <2>1. PICK n \in Nat :
          /\ DOMAIN toPcap' = 1..n - 1 /\ DOMAIN toPcap = 1..n /\ Head(toPcap) = toPcap[1]
          /\ \A i \in DOMAIN toPcap' : i + 1 \in DOMAIN toPcap /\ toPcap'[i] = toPcap[i + 1]
    BY <1>1, <1>5, Taken
  <2>2. \A i \in DOMAIN toPcap : toPcap[i].type = "disconnected" =>
          i - 1 \in DOMAIN toPcap' /\ toPcap'[i - 1] = toPcap[i]
    <3> SUFFICES ASSUME NEW i \in DOMAIN toPcap, toPcap[i].type = "disconnected"
                 PROVE  i - 1 \in DOMAIN toPcap' /\ toPcap'[i - 1] = toPcap[i]
      OBVIOUS
    <3>1. i # 1
      BY <1>5, <2>1
    <3>2. i - 1 \in DOMAIN toPcap' /\ (i - 1) + 1 = i
      BY <2>1, <3>1
    <3> QED
      BY <2>1, <3>2
  <2>3. (Current(of))'
    BY <1>2, <1>5, <2>2 DEF Fits, Current
  <2>4. \A i \in DOMAIN toPcap' : toPcap'[i].type = "disconnected" => of <= toPcap'[i].of
    BY <1>5, <2>1 DEF Fits, Ends
  <2> QED
    BY <2>3, <2>4 DEF Fits, Ends
<1>6. ASSUME UNCHANGED toPcap, NEW of, Fits(of) PROVE (Fits(of))'
  BY <1>2, <1>6 DEF Fits, Current, Ends
<1>7. ASSUME WorksForOwners, KeepsCapture, \A of : Fits(of) => (Fits(of))'
      PROVE  WorksInOrder'
  <2>1. pcapQueue # << >> => /\ Fits(OwnerOf(Head(pcapQueue)).of) /\ OwnerOf(Head(pcapQueue)).of \in Nat
    <3> SUFFICES ASSUME pcapQueue # << >>
                 PROVE  Fits(OwnerOf(Head(pcapQueue)).of) /\ OwnerOf(Head(pcapQueue)).of \in Nat
      OBVIOUS
    <3>1. Head(pcapQueue) = pcapQueue[1] /\ 1 \in DOMAIN pcapQueue
      BY <1>1
    <3>2. OwnerOf(Head(pcapQueue)).of = pcapQueue[1].of
      BY <3>1 DEF OwnerOf
    <3> QED
      BY <1>4, <3>1, <3>2, EventTypes
  <2>2. pcapState' # "Idle" => Fits(capture'.of)
    BY <1>4, <1>7, <2>1 DEF KeepsCapture
  <2>3. pcapState' = "Transferring" => transfer'.of = capture'.of
    <3> SUFFICES ASSUME pcapState' = "Transferring" PROVE transfer'.of = capture'.of
      OBVIOUS
    <3>1. CASE pcapState = "Transferring" /\ transfer' = transfer /\ capture' = capture
      BY <1>4, <3>1
    <3>2. CASE /\ pcapState # "Idle" /\ capture' = capture
               /\ pcapQueue # << >> /\ transfer' = OwnerOf(Head(pcapQueue))
      <4>1. Fits(capture.of) /\ capture.of \in Nat
        BY <1>4, <3>2, EventTypes
      <4> QED
        BY <2>1, <3>2, <4>1, FitsOne
    <3> QED
      BY <1>7, <3>1, <3>2 DEF KeepsCapture
  <2>4. \A k \in DOMAIN pcapQueue' : Fits(pcapQueue'[k].of)
    <3>1. CASE UNCHANGED pcapQueue
      BY <1>4, <3>1
    <3>2. CASE pcapQueue # << >> /\ pcapQueue' = Tail(pcapQueue)
      <4>1. \A k \in DOMAIN pcapQueue' : k + 1 \in DOMAIN pcapQueue /\ pcapQueue'[k] = pcapQueue[k + 1]
        BY <1>1, <3>2, Taken
      <4> QED
        BY <1>4, <4>1
    <3> QED
      BY <1>7, <3>1, <3>2 DEF WorksForOwners
  <2>5. /\ pcapState' # "Idle" => (Fits(capture.of))'
        /\ \A k \in DOMAIN pcapQueue' : (Fits(pcapQueue[k].of))'
    BY <1>7, <2>2, <2>4 DEF Fits, Current, Ends
  <2> QED
    BY <2>3, <2>5 DEF WorksInOrder, CaptureOfItsClient, Fits, Ends
<1>8. CASE WorksForOwners /\ KeepsCapture /\ UNCHANGED toPcap
  BY <1>3, <1>6, <1>7, <1>8
<1>9. CASE /\ toPcap # << >> /\ toPcap' = Tail(toPcap) /\ Head(toPcap).type = "chunk"
           /\ WorksForOwners /\ KeepsCapture
  BY <1>3, <1>5, <1>7, <1>9
<1>10. CASE /\ toPcap # << >> /\ toPcap' = Tail(toPcap) /\ Head(toPcap).type = "request"
            /\ pcapQueue' = Append(pcapQueue, [id |-> Head(toPcap).id, kind |-> Head(toPcap).kind,
                                               of |-> Head(toPcap).of])
            /\ UNCHANGED <<pcapState, capture, transfer, toHandler>>
  <2> DEFINE request == [id |-> Head(toPcap).id, kind |-> Head(toPcap).kind, of |-> Head(toPcap).of]
  <2>1. Head(toPcap) = toPcap[1] /\ 1 \in DOMAIN toPcap /\ Head(toPcap) \in PcapEvents
        /\ \A i \in DOMAIN toPcap : i = 1 \/ 1 < i
    BY <1>1, <1>10
  <2>2. Fits(Head(toPcap).of)
    BY <1>10, <2>1 DEF EventsInOrder, Fits, Current, Ends, Asks
  <2>3. request \in PcapRequest /\ request.of = Head(toPcap).of
    BY <1>10, <2>1, EventsForPcap DEF PcapRequest
  <2>4. pcapQueue' = Append(pcapQueue, request)
    BY <1>10
  <2> HIDE DEF request
  <2>5. \A k \in DOMAIN pcapQueue' : (k \in DOMAIN pcapQueue /\ pcapQueue'[k] = pcapQueue[k]) \/ pcapQueue'[k] = request
    BY <1>1, <2>3, <2>4
  <2>6. \A k \in DOMAIN pcapQueue' : Fits(pcapQueue'[k].of)
    BY <1>4, <2>2, <2>3, <2>5
  <2>7. \A of : Fits(of) => (Fits(of))'
    BY <1>5, <1>10
  <2>8. /\ pcapState' # "Idle" => (Fits(capture.of))'
        /\ pcapState' = "Transferring" => transfer'.of = capture'.of
        /\ \A k \in DOMAIN pcapQueue' : (Fits(pcapQueue[k].of))'
    BY <1>4, <1>10, <2>6, <2>7 DEF Fits, Current, Ends
  <2> QED
    BY <1>3, <2>8 DEF WorksInOrder, CaptureOfItsClient, Fits, Ends
<1>11. CASE Shutdown
  <2>1. pcapState' = "Idle" /\ pcapQueue' = << >>
    BY <1>11, CleanupStep DEF Shutdown
  <2>2. DOMAIN pcapQueue' = {}
    BY <2>1
  <2> QED
    BY <1>3, <2>1, <2>2 DEF WorksInOrder, CaptureOfItsClient
<1> QED
  BY <1>1, <1>8, <1>9, <1>10, <1>11, PcapThreadStep

LEMMA ConnectionCapture ==
  ASSUME TypeOK, EventsInOrder, WorksInOrder, Connect \/ Disconnect
  PROVE  EventsInOrder' /\ WorksInOrder'
<1>1. CASE Connect
  <2>1. /\ ~socket /\ socket' = TRUE /\ generation' = generation + 1 /\ generation \in Nat
        /\ UNCHANGED <<toPcap, pcapState, pcapQueue, capture, transfer>>
    BY <1>1 DEF Connect, SetSocket, pcapVars, TypeOK, HandlerTypeOK
  <2>2. /\ \A i \in DOMAIN toPcap : Ends(i) => toPcap[i].of \in Nat
        /\ \A i \in DOMAIN toPcap : Asks(i) => toPcap[i].of \in Nat
    BY EventTypes
  <2>3. EventsInOrder'
    BY <2>1, <2>2 DEF EventsInOrder, Ends, Asks
  <2>4. WorksInOrder'
    BY <2>1 DEF WorksInOrder, CaptureOfItsClient, Current, Ends
  <2> QED
    BY <2>3, <2>4
<1>2. CASE Disconnect
  <2> DEFINE event == [type |-> "disconnected", of |-> generation]
  <2>1. socket /\ socket' = FALSE /\ toPcap' = Append(toPcap, event) /\ UNCHANGED <<generation, pcapVars>>
    BY <1>2 DEF Disconnect, SocketDisconnected, ClearSession, PostDisconnected
  <2>2. event \in PcapEvents /\ event.type = "disconnected" /\ event.of = generation
    BY EventsForPcap DEF TypeOK, HandlerTypeOK
  <2> HIDE DEF event
  <2> QED
    BY <2>1, <2>2, EventAdded
<1> QED
  BY <1>1, <1>2

LEMMA RequestsCapture ==
  ASSUME TypeOK, EventsInOrder, WorksInOrder, ClientRequests
  PROVE  EventsInOrder' /\ WorksInOrder'
<1>1. socket /\ UNCHANGED <<socket, generation, pcapVars>>
  BY DEF ClientRequests, HandleRequest, HandleInvalidMessage
<1>2. \/ UNCHANGED toPcap
      \/ \E kind \in PcapKinds :
           toPcap' = Append(toPcap, [type |-> "request", id |-> requestCounter + 1, kind |-> kind, of |-> generation])
  BY DEF ClientRequests, HandleRequest, HandleInvalidMessage
<1>3. CASE UNCHANGED toPcap
  BY <1>1, <1>3 DEF pcapVars, EventsInOrder, WorksInOrder, CaptureOfItsClient, Current, Ends, Asks
<1>4. ASSUME NEW kind \in PcapKinds,
             toPcap' = Append(toPcap, [type |-> "request", id |-> requestCounter + 1, kind |-> kind, of |-> generation])
      PROVE  EventsInOrder' /\ WorksInOrder'
  <2> DEFINE event == [type |-> "request", id |-> requestCounter + 1, kind |-> kind, of |-> generation]
  <2>1. event \in PcapEvents /\ event.type = "request" /\ event.of = generation
    BY EventsForPcap DEF TypeOK, HandlerTypeOK
  <2>2. toPcap' = Append(toPcap, event)
    BY <1>4
  <2>3. UNCHANGED <<generation, pcapVars>> /\ UNCHANGED socket
    BY <1>1
  <2> HIDE DEF event
  <2> QED
    BY <1>1, <2>1, <2>2, <2>3, EventAdded
<1> QED
  BY <1>2, <1>3, <1>4

LEMMA OthersCapture ==
  ASSUME TypeOK, EventsInOrder, WorksInOrder, MainThread \/ ClientReceives \/ ClientRepeatsAck \/ RestrictLogin
  PROVE  EventsInOrder' /\ WorksInOrder'
<1>1. CASE TakeAck
  <2>1. /\ socket /\ UNCHANGED <<socket, generation, pcapVars>>
        /\ \/ UNCHANGED toPcap
           \/ \E event \in PcapEvents : toPcap' = Append(toPcap, event) /\ event.type = "chunk"
    BY <1>1, AckAsks
  <2>2. CASE UNCHANGED toPcap
    BY <2>1, <2>2 DEF pcapVars, EventsInOrder, WorksInOrder, CaptureOfItsClient, Current, Ends, Asks
  <2>3. ASSUME NEW event \in PcapEvents, toPcap' = Append(toPcap, event), event.type = "chunk"
        PROVE  EventsInOrder' /\ WorksInOrder'
    <3>1. UNCHANGED <<generation, pcapVars>> /\ UNCHANGED socket
      BY <2>1
    <3> QED
      BY <2>1, <2>3, <3>1, EventAdded
  <2> QED
    BY <2>1, <2>2, <2>3
<1>2. CASE TakePosted \/ ControlResponds \/ AckTimeout \/ ClientReceives \/ ClientRepeatsAck \/ RestrictLogin
  <2>1. UNCHANGED <<toPcap, socket, generation, pcapState, pcapQueue, capture, transfer>>
    <3>1. CASE TakePosted
      BY <3>1 DEF TakePosted, EnqueueResponse, EnqueuePcapChunk
    <3>2. CASE ControlResponds
      BY <3>2 DEF ControlResponds, EnqueueResponse, pcapVars
    <3>3. CASE AckTimeout \/ ClientReceives
      BY <3>3 DEF AckTimeout, ClientReceives, ResendInFlight, pcapVars
    <3>4. CASE ClientRepeatsAck \/ RestrictLogin
      BY <3>4 DEF ClientRepeatsAck, RestrictLogin, handlerVars, pcapVars
    <3> QED
      BY <1>2, <3>1, <3>2, <3>3, <3>4
  <2> QED
    BY <2>1 DEF EventsInOrder, WorksInOrder, CaptureOfItsClient, Current, Ends, Asks
<1> QED
  BY <1>1, <1>2 DEF MainThread

LEMMA CaptureInit == Init => CaptureInvariant
<1> SUFFICES ASSUME Init PROVE CaptureInvariant
  OBVIOUS
<1>1. toPcap = << >> /\ pcapQueue = << >> /\ pcapState = "Idle"
  BY DEF Init, HandlerInit, PcapInit
<1>2. DOMAIN toPcap = {} /\ DOMAIN pcapQueue = {}
  BY <1>1
<1> QED
  BY <1>1, <1>2 DEF CaptureInvariant, CaptureOfItsClient

LEMMA CaptureStep == TypeOK /\ CaptureInvariant /\ [Next]_vars => CaptureInvariant'
<1> SUFFICES ASSUME TypeOK, CaptureInvariant, [Next]_vars PROVE CaptureInvariant'
  OBVIOUS
<1>1. EventsInOrder /\ WorksInOrder
  BY CaptureParts
<1>2. EventsInOrder' /\ WorksInOrder'
  <2>1. CASE UNCHANGED vars
    BY <1>1, <2>1 DEF vars, handlerVars, pcapVars, EventsInOrder, WorksInOrder, CaptureOfItsClient, Current,
                      Ends, Asks
  <2> QED
    BY <1>1, <2>1, PcapThreadCapture, ConnectionCapture, RequestsCapture, OthersCapture DEF Next, Client
<1> QED
  BY <1>2 DEF CaptureInvariant, EventsInOrder, WorksInOrder

(* The end of a connection reaches PCAP after all requests of it and before *)
(* those of the next, and what PCAP works on is of a connection whose end   *)
(* is the next to come.                                                     *)
THEOREM CaptureInvariantHolds == Spec => []CaptureInvariant
  BY TypeHolds, CaptureInit, CaptureStep, PTL DEF Spec

(* A capture, its transfer and the requests that wait for it never outlive  *)
(* the connection they belong to, but for the time its end is on the way.   *)
THEOREM CaptureOfItsClientHolds == Spec => []CaptureOfItsClient
<1>1. CaptureInvariant => CaptureOfItsClient
  BY DEF CaptureInvariant
<1> QED
  BY <1>1, CaptureInvariantHolds, PTL

-----------------------------------------------------------------------------
(* The requests that wait for PCAP *)

LEMMA ProcessQueueWaits ==
  ASSUME WaitInvariant, ProcessQueue
  PROVE  WaitInvariant'
<1>1. CASE pcapBusy \/ pcapQueue = << >>
  BY <1>1 DEF WaitInvariant, WaitsOnlyWhileBusy, ProcessQueue
<1>2. CASE ~(pcapBusy \/ pcapQueue = << >>)
  <2>1. pumping'
    BY <1>2 DEF ProcessQueue
  <2>2. PICK owner : StartCapture(owner) \/ ReadCapture(owner) \/ ReadInterfaces(owner)
    BY <1>2 DEF ProcessQueue
  <2>3. pcapState' = "Recording" => ~pcapBusy'
    BY <2>2 DEF WaitInvariant, StartCapture, ReadCapture, ReadInterfaces, CleanupCapture
  <2> QED
    BY <2>1, <2>3 DEF WaitInvariant, WaitsOnlyWhileBusy
<1> QED
  BY <1>1, <1>2

LEMMA SendChunkWaits ==
  ASSUME WaitInvariant, NEW id, NEW sequence, SendNextChunk(id, sequence)
  PROVE  WaitInvariant'
<1>1. CASE UNCHANGED pcapVars
  BY <1>1 DEF WaitInvariant, WaitsOnlyWhileBusy, pcapVars
<1>2. CASE FinishTransferWithError
  BY <1>2 DEF WaitInvariant, WaitsOnlyWhileBusy, FinishTransferWithError, CleanupCapture
<1>3. CASE ~FinishTransferWithError /\ ~UNCHANGED pcapVars
  <2>1. \/ CleanupCapture /\ pumping' = TRUE
        \/ UNCHANGED <<pcapState, pcapBusy, pumping>>
    BY <1>3 DEF SendNextChunk
  <2>2. UNCHANGED pcapQueue
    BY <1>3 DEF SendNextChunk
  <2> QED
    BY <2>1, <2>2 DEF WaitInvariant, WaitsOnlyWhileBusy, CleanupCapture
<1> QED
  BY <1>1, <1>2, <1>3 DEF SendNextChunk

LEMMA PcapThreadWaits ==
  ASSUME WaitInvariant, PcapThread
  PROVE  WaitInvariant'
<1> USE DEF WaitInvariant, WaitsOnlyWhileBusy
<1>1. CASE \E request : EnqueueRequest(request)
  BY <1>1 DEF EnqueueRequest
<1>2. CASE \E id, sequence : SendNextChunk(id, sequence)
  BY <1>2, SendChunkWaits
<1>3. CASE Shutdown
  BY <1>3 DEF Shutdown, CleanupCapture
<1>4. CASE PcapTakesPosted
  BY <1>1, <1>2, <1>3, <1>4 DEF PcapTakesPosted
<1>5. CASE PcapProcessesQueue
  BY <1>5, ProcessQueueWaits DEF PcapProcessesQueue
<1>6. CASE PcapTransferTimeout
  BY <1>6 DEF PcapTransferTimeout, HandleTransferTimeout, FinishTransferWithError, CleanupCapture
<1>7. CASE CaptureEnds
  <2>1. CASE pcapState = "Recording"
    BY <1>7, <2>1 DEF CaptureEnds, HandleCaptureFinished, Reported, CleanupCapture
  <2>2. CASE pcapState # "Recording"
    BY <1>7, <2>2 DEF CaptureEnds, HandleCaptureFinished, Reported
  <2> QED
    BY <2>1, <2>2
<1>8. CASE CaptureLimit
  BY <1>8 DEF CaptureLimit, StopCaptureForLimit, CleanupCapture
<1> QED
  BY <1>4, <1>5, <1>6, <1>7, <1>8 DEF PcapThread

LEMMA WaitStep == WaitInvariant /\ [Next]_vars => WaitInvariant'
<1> SUFFICES ASSUME WaitInvariant, [Next]_vars PROVE WaitInvariant'
  OBVIOUS
<1>1. CASE PcapThread
  BY <1>1, PcapThreadWaits
<1>2. CASE MainThread \/ Client \/ RestrictLogin \/ UNCHANGED vars
  <2>1. UNCHANGED <<pcapState, pcapBusy, pcapQueue, pumping>>
    BY <1>2
    DEF MainThread, TakeAck, TakePosted, ControlResponds, AckTimeout, Client, Connect, Disconnect,
        ClientRequests, ClientReceives, ClientRepeatsAck, RestrictLogin, pcapVars, vars
  <2> QED
    BY <2>1 DEF WaitInvariant, WaitsOnlyWhileBusy
<1> QED
  BY <1>1, <1>2 DEF Next

(* No request is left in PCAP's queue while its thread is free and will not  *)
(* look there: what ends a transfer, in whatever way, looks at the queue.    *)
THEOREM WaitsOnlyWhileBusyHolds == Spec => []WaitsOnlyWhileBusy
<1>1. Init => WaitInvariant
  BY DEF Init, PcapInit, WaitInvariant, WaitsOnlyWhileBusy
<1>2. WaitInvariant => WaitsOnlyWhileBusy
  BY DEF WaitInvariant
<1> QED
  BY <1>1, <1>2, WaitStep, PTL DEF Spec

-----------------------------------------------------------------------------
(* Delivery, one response at a time *)

OneAtATime ==
  IF inFlight = NothingInFlight THEN responseQueue = << >>
                                ELSE inFlight.id = responseCounter /\ responseCounter > 0

FramesInOrder ==
  /\ seen <= responseCounter
  /\ \A i \in DOMAIN down : Text(i) => seen <= down[i].id /\ down[i].id <= responseCounter
  /\ \A i, j \in DOMAIN down : i < j /\ Text(i) /\ Text(j) => down[i].id <= down[j].id
  /\ \A i \in DOMAIN up : up[i].type = "ack" => up[i].id <= seen

LEMMA DeliveryParts == DeliveryInvariant <=> OneAtATime /\ FramesInOrder
  BY DEF DeliveryInvariant, OneAtATime, FramesInOrder

LEMMA DeliveryTypes ==
  ASSUME TypeOK
  PROVE  /\ down \in Seq(Frames) /\ up \in Seq(Acks) /\ seen \in Nat /\ responseCounter \in Nat
         /\ responseQueue \in Seq(ClientResponse)
         /\ \A i \in DOMAIN down : Text(i) => down[i].id \in Nat
         /\ \A i \in DOMAIN up : up[i].type = "ack" => up[i].id \in Nat
         /\ inFlight # NothingInFlight => inFlight.response \in ClientResponse /\ inFlight.id \in Nat
<1>1. down \in Seq(Frames) /\ up \in Seq(Acks) /\ seen \in Nat /\ responseCounter \in Nat
      /\ responseQueue \in Seq(ClientResponse) /\ inFlight \in InFlight \union {NothingInFlight}
  BY DEF TypeOK, HandlerTypeOK
<1>2. (\A i \in DOMAIN down : down[i] \in Frames) /\ (\A i \in DOMAIN up : up[i] \in Acks)
  BY <1>1
<1>3. inFlight # NothingInFlight => inFlight.response \in ClientResponse /\ inFlight.id \in Nat
  BY <1>1 DEF InFlight
<1> QED
  BY <1>1, <1>2, <1>3, WrittenFrames, Acknowledgements DEF Text

(* Sending takes the first that waits, if nothing is in flight.             *)
SendsNext(queued) ==
  /\ queued # << >> /\ responseQueue' = Tail(queued)
  /\ inFlight' # NothingInFlight /\ inFlight'.id = responseCounter + 1
  /\ responseCounter' = responseCounter + 1
  /\ \E frame \in Frames : down' = Append(down, frame) /\ frame.type = "text" /\ frame.id = responseCounter + 1

LEMMA TrySendStep ==
  ASSUME TypeOK, NEW queued \in Seq(ClientResponse), NEW flying, TrySendNextResponse(queued, flying)
  PROVE  \/ /\ ~(socket /\ queued # << >> /\ flying = NothingInFlight)
            /\ responseQueue' = queued /\ inFlight' = flying /\ UNCHANGED <<responseCounter, down>>
         \/ socket /\ flying = NothingInFlight /\ SendsNext(queued)
<1>1. CASE ~(socket /\ queued # << >> /\ flying = NothingInFlight)
  BY <1>1 DEF TrySendNextResponse
<1>2. CASE socket /\ queued # << >> /\ flying = NothingInFlight
  <2> DEFINE frame == TextFrame(responseCounter + 1, Head(queued))
  <2>1. /\ \E readId : inFlight' = [id |-> responseCounter + 1, response |-> Head(queued), readId |-> readId]
        /\ responseQueue' = Tail(queued)
        /\ responseCounter' = responseCounter + 1
        /\ down' = Append(down, frame)
    BY <1>2 DEF TrySendNextResponse
  <2>2. Head(queued) \in ClientResponse /\ responseCounter + 1 \in Nat /\ responseCounter + 1 # 0
    BY <1>2, DeliveryTypes
  <2>3. frame \in Frames /\ frame.type = "text" /\ frame.id = responseCounter + 1
    BY <2>2, WrittenFrames DEF TextFrame
  <2>4. inFlight'.id = responseCounter + 1 /\ NothingInFlight.id = 0
    BY <2>1 DEF NothingInFlight
  <2>5. inFlight' # NothingInFlight
    BY <2>2, <2>4
  <2> HIDE DEF frame
  <2> QED
    BY <1>2, <2>1, <2>3, <2>4, <2>5 DEF SendsNext
<1> QED
  BY <1>1, <1>2

LEMMA FrameAdded ==
  ASSUME TypeOK, FramesInOrder, UNCHANGED seen, UNCHANGED up \/ (up # << >> /\ up' = Tail(up)),
         NEW frame \in Frames, down' = Append(down, frame),
         UNCHANGED responseCounter \/ responseCounter' = responseCounter + 1,
         frame.type = "text" => frame.id = responseCounter'
  PROVE  FramesInOrder'
<1>1. PICK n \in Nat :
        /\ DOMAIN down' = 1..n + 1 /\ DOMAIN down = 1..n
        /\ \A i \in DOMAIN down : down'[i] = down[i]
        /\ down'[n + 1] = frame
  <2>1. down \in Seq(Frames)
    BY DeliveryTypes
  <2>2. /\ DOMAIN Append(down, frame) = 1..Len(down) + 1 /\ DOMAIN down = 1..Len(down)
        /\ \A i \in DOMAIN down : Append(down, frame)[i] = down[i]
        /\ Append(down, frame)[Len(down) + 1] = frame
        /\ Len(down) \in Nat
    BY <2>1, Appended
  <2> QED
    BY <2>2
<1>2. /\ \A i \in DOMAIN down' : (i \in DOMAIN down /\ down'[i] = down[i]) \/ (i = n + 1 /\ down'[i] = frame)
      /\ \A i \in DOMAIN down : i \in Nat /\ ~(n + 1 < i)
      /\ ~(n + 1 < n + 1)
  <2>1. \A i \in 1..n + 1 : i \in 1..n \/ i = n + 1
    OBVIOUS
  <2>2. (\A i \in 1..n : i \in Nat /\ ~(n + 1 < i)) /\ ~(n + 1 < n + 1)
    OBVIOUS
  <2> QED
    BY <1>1, <2>1, <2>2
<1>3. /\ seen \in Nat /\ responseCounter \in Nat /\ responseCounter <= responseCounter' /\ responseCounter' \in Nat
      /\ \A i \in DOMAIN down : Text(i) => down[i].id \in Nat
      /\ seen' = seen
  BY DeliveryTypes
<1>4. ASSUME NEW i \in DOMAIN down', down'[i].type = "text"
      PROVE  seen' <= down'[i].id /\ down'[i].id <= responseCounter'
  <2>1. CASE i \in DOMAIN down /\ down'[i] = down[i]
    BY <1>3, <1>4, <2>1 DEF FramesInOrder, Text
  <2>2. CASE down'[i] = frame
    <3>1. down'[i].id = responseCounter'
      BY <1>4, <2>2
    <3> QED
      BY <1>3, <3>1 DEF FramesInOrder
  <2> QED
    BY <1>2, <2>1, <2>2
<1>5. ASSUME NEW i \in DOMAIN down', NEW j \in DOMAIN down', i < j, down'[i].type = "text", down'[j].type = "text"
      PROVE  down'[i].id <= down'[j].id
  <2>1. CASE j \in DOMAIN down
    <3>1. i \in DOMAIN down /\ down'[i] = down[i] /\ down'[j] = down[j]
      BY <1>1, <1>2, <1>5, <2>1
    <3> QED
      BY <1>5, <2>1, <3>1 DEF FramesInOrder, Text
  <2>2. CASE j = n + 1
    <3>1. down'[j].id = responseCounter'
      BY <1>1, <1>5, <2>2
    <3> QED
      BY <1>4, <1>5, <3>1
  <2> QED
    BY <1>2, <2>1, <2>2
<1>6. \A i \in DOMAIN up' : up'[i].type = "ack" => up'[i].id <= seen'
  <2>1. \A i \in DOMAIN up' : \E j \in DOMAIN up : up'[i] = up[j]
    <3>1. CASE UNCHANGED up
      BY <3>1
    <3>2. CASE up # << >> /\ up' = Tail(up)
      BY <3>2, DeliveryTypes, Taken
    <3> QED
      BY <3>1, <3>2
  <2> QED
    BY <1>3, <2>1 DEF FramesInOrder
<1> QED
  BY <1>3, <1>4, <1>5, <1>6 DEF FramesInOrder, Text

LEMMA FramesKept ==
  ASSUME TypeOK, FramesInOrder, UNCHANGED <<down, responseCounter, seen>>,
         \/ UNCHANGED up
         \/ up # << >> /\ up' = Tail(up)
         \/ \E ack \in Acks : up' = Append(up, ack) /\ ack.type = "chunk_ack"
  PROVE  FramesInOrder'
<1>1. \A i \in DOMAIN up' : up'[i].type = "ack" => \E j \in DOMAIN up : up'[i] = up[j]
  <2>1. CASE UNCHANGED up
    BY <2>1
  <2>2. CASE up # << >> /\ up' = Tail(up)
    BY <2>2, DeliveryTypes, Taken
  <2>3. ASSUME NEW ack \in Acks, up' = Append(up, ack), ack.type = "chunk_ack"
        PROVE  \A i \in DOMAIN up' : up'[i].type = "ack" => \E j \in DOMAIN up : up'[i] = up[j]
    <3>1. \A i \in DOMAIN up' : (i \in DOMAIN up /\ up'[i] = up[i]) \/ up'[i] = ack
      BY <2>3, DeliveryTypes
    <3>2. ack.type # "ack"
      BY <2>3
    <3> QED
      BY <3>1, <3>2
  <2> QED
    BY <2>1, <2>2, <2>3
<1> QED
  BY <1>1 DEF FramesInOrder, Text

LEMMA CurrentMeansInFlight ==
  ASSUME TypeOK, OneAtATime
  PROVE  inFlight.id = 0 <=> inFlight = NothingInFlight
<1>1. CASE inFlight = NothingInFlight
  BY <1>1 DEF NothingInFlight
<1>2. CASE inFlight # NothingInFlight
  <2>1. inFlight.id = responseCounter /\ responseCounter > 0 /\ responseCounter \in Nat
    BY <1>2, DeliveryTypes DEF OneAtATime
  <2> QED
    BY <1>2, <2>1
<1> QED
  BY <1>1, <1>2

LEMMA SendsNextDelivery ==
  ASSUME TypeOK, FramesInOrder, NEW queued, SendsNext(queued), UNCHANGED seen,
         UNCHANGED up \/ (up # << >> /\ up' = Tail(up))
  PROVE  /\ OneAtATime' /\ FramesInOrder'
         /\ inFlight'.id # 0 /\ Received' = FALSE
<1>1. /\ inFlight' # NothingInFlight /\ inFlight'.id = responseCounter + 1
      /\ responseCounter' = responseCounter + 1 /\ responseCounter \in Nat /\ seen \in Nat /\ seen <= responseCounter
  BY DeliveryTypes DEF SendsNext, FramesInOrder
<1>2. PICK frame \in Frames : down' = Append(down, frame) /\ frame.type = "text" /\ frame.id = responseCounter'
  BY DEF SendsNext
<1>3. FramesInOrder'
  BY <1>1, <1>2, FrameAdded
<1>4. OneAtATime' /\ inFlight'.id # 0
  BY <1>1 DEF OneAtATime
<1>5. seen' # inFlight'.id
  BY <1>1
<1> QED
  BY <1>3, <1>4, <1>5 DEF Received

LEMMA EnqueueDelivery ==
  ASSUME TypeOK, OneAtATime, FramesInOrder, socket, NEW answer \in ClientResponse,
         EnqueueResponseObject(answer), UNCHANGED <<seen, up>>
  PROVE  OneAtATime' /\ FramesInOrder' /\ Delivery!Accept
<1>1. /\ Append(responseQueue, answer) \in Seq(ClientResponse) /\ Append(responseQueue, answer) # << >>
      /\ responseQueue \in Seq(ClientResponse)
  BY DeliveryTypes
<1>2. TrySendNextResponse(Append(responseQueue, answer), inFlight)
  BY DEF EnqueueResponseObject
<1>3. CASE inFlight = NothingInFlight
  <2>1. SendsNext(Append(responseQueue, answer)) /\ responseQueue = << >>
    BY <1>1, <1>2, <1>3, TrySendStep DEF OneAtATime
  <2>2. responseQueue' = << >>
    BY <2>1 DEF SendsNext
  <2>3. OneAtATime' /\ FramesInOrder' /\ inFlight'.id # 0 /\ Received' = FALSE
    BY <2>1, SendsNextDelivery
  <2>4. inFlight.id = 0
    BY <1>3 DEF NothingInFlight
  <2> QED
    BY <2>1, <2>2, <2>3, <2>4 DEF Delivery!Accept
<1>4. CASE inFlight # NothingInFlight
  <2>1. responseQueue' = Append(responseQueue, answer) /\ UNCHANGED <<inFlight, responseCounter, down>>
    BY <1>2, <1>4 DEF TrySendNextResponse
  <2>2. OneAtATime' /\ FramesInOrder'
    BY <1>4, <2>1, FramesKept DEF OneAtATime
  <2>3. Len(responseQueue') = Len(responseQueue) + 1 /\ responseQueue = SubSeq(responseQueue', 1, Len(responseQueue))
    BY <1>1, <2>1
  <2>4. Received' = Received
    BY <2>1 DEF Received
  <2> QED
    BY <1>4, <2>1, <2>2, <2>3, <2>4, CurrentMeansInFlight DEF Delivery!Accept
<1> QED
  BY <1>3, <1>4

(* Nothing of what Delivery shows changes.                                  *)
LEMMA DeliveryStutters ==
  ASSUME TypeOK, OneAtATime, FramesInOrder, UNCHANGED <<responseQueue, inFlight, responseCounter, seen>>,
         \/ UNCHANGED up
         \/ up # << >> /\ up' = Tail(up)
         \/ \E ack \in Acks : up' = Append(up, ack) /\ ack.type = "chunk_ack",
         \/ UNCHANGED down
         \/ /\ UNCHANGED up
            /\ \E frame \in Frames :
                 down' = Append(down, frame) /\ (frame.type = "text" => frame.id = responseCounter)
  PROVE  OneAtATime' /\ FramesInOrder' /\ UNCHANGED Delivery!vars
<1>1. CASE UNCHANGED down
  BY <1>1, FramesKept DEF OneAtATime, Delivery!vars, Received
<1>2. CASE /\ UNCHANGED up
           /\ \E frame \in Frames :
                down' = Append(down, frame) /\ (frame.type = "text" => frame.id = responseCounter)
  <2>1. PICK frame \in Frames : down' = Append(down, frame) /\ (frame.type = "text" => frame.id = responseCounter')
    BY <1>2
  <2>2. FramesInOrder'
    BY <1>2, <2>1, FrameAdded
  <2> QED
    BY <2>2 DEF OneAtATime, Delivery!vars, Received
<1> QED
  BY <1>1, <1>2

LEMMA EnqueueResponseDelivery ==
  ASSUME TypeOK, OneAtATime, FramesInOrder, NEW response \in Response, EnqueueResponse(response),
         UNCHANGED <<seen, up>>
  PROVE  OneAtATime' /\ FramesInOrder' /\ (Delivery!Accept \/ UNCHANGED Delivery!vars)
<1>1. CASE UNCHANGED <<responseQueue, inFlight, responseCounter, down>>
  BY <1>1, DeliveryStutters
<1>2. CASE /\ socket /\ response.id \in DOMAIN contexts
           /\ contexts[response.id].generation = generation
  <2> DEFINE answer == [client |-> contexts[response.id].client, transfer |-> response.transfer, of |-> response.of]
  <2>1. EnqueueResponseObject(answer)
    BY <1>2 DEF EnqueueResponse
  <2>2. answer \in ClientResponse
    BY <1>2 DEF TypeOK, HandlerTypeOK, RequestContext, Response, ClientResponse
  <2> HIDE DEF answer
  <2> QED
    BY <1>2, <2>1, <2>2, EnqueueDelivery
<1> QED
  BY <1>1, <1>2 DEF EnqueueResponse, Dropped

LEMMA TakePostedDelivery ==
  ASSUME TypeOK, OneAtATime, FramesInOrder, TakePosted \/ ControlResponds
  PROVE  OneAtATime' /\ FramesInOrder' /\ (Delivery!Accept \/ UNCHANGED Delivery!vars)
<1>1. UNCHANGED <<seen, up>>
  BY DEF TakePosted, ControlResponds, clientVars
<1>2. CASE TakePosted
  <2> DEFINE event == Head(toHandler)
  <2>1. event \in Posted
    BY <1>2 DEF TakePosted, TypeOK
  <2>2. CASE event.type = "response" /\ EnqueueResponse(event.response)
    <3>1. event.response \in Response
      BY <2>1, <2>2, PostedEvents
    <3> QED
      BY <1>1, <2>2, <3>1, EnqueueResponseDelivery
  <2>3. CASE event.type = "chunk" /\ EnqueuePcapChunk(event.id, event.sequence, event.final, event.of)
    <3>1. event.id \in Nat /\ event.sequence \in Nat /\ event.final \in BOOLEAN /\ event.of \in Nat
      BY <2>1, <2>3, PostedEvents
    <3>2. UNCHANGED <<responseQueue, inFlight, responseCounter>>
      BY <2>3 DEF EnqueuePcapChunk
    <3>3. CASE UNCHANGED down
      BY <1>1, <3>2, <3>3, DeliveryStutters
    <3>4. CASE event.id \in DOMAIN contexts /\ down' = Append(down, [type |-> "binary",
               client |-> contexts[event.id].client, sequence |-> event.sequence, final |-> event.final, of |-> event.of])
      <4> DEFINE frame == [type |-> "binary", client |-> contexts[event.id].client,
                           sequence |-> event.sequence, final |-> event.final, of |-> event.of]
      <4>1. contexts[event.id].client \in Nat
        BY <3>4 DEF TypeOK, HandlerTypeOK, RequestContext
      <4>2. frame \in Frames /\ frame.type # "text" /\ down' = Append(down, frame)
        BY <3>1, <3>4, <4>1, WrittenFrames
      <4> HIDE DEF frame
      <4> QED
        BY <1>1, <3>2, <4>2, DeliveryStutters
    <3> QED
      BY <2>3, <3>3, <3>4 DEF EnqueuePcapChunk
  <2> QED
    BY <1>2, <2>2, <2>3 DEF TakePosted
<1>3. CASE ControlResponds
  <2>1. PICK request \in toControl, final \in BOOLEAN :
          EnqueueResponse([id |-> request.id, final |-> final, outcome |-> "success",
                           related |-> 0, transfer |-> FALSE, of |-> request.of])
    BY <1>3 DEF ControlResponds
  <2> DEFINE response == [id |-> request.id, final |-> final, outcome |-> "success",
                          related |-> 0, transfer |-> FALSE, of |-> request.of]
  <2>2. response \in Response /\ EnqueueResponse(response)
    BY <2>1 DEF TypeOK, HandlerTypeOK, Response, Outcomes
  <2> HIDE DEF response
  <2> QED
    BY <1>1, <2>2, EnqueueResponseDelivery
<1> QED
  BY <1>2, <1>3

LEMMA RequestsDelivery ==
  ASSUME TypeOK, OneAtATime, FramesInOrder, ClientRequests
  PROVE  OneAtATime' /\ FramesInOrder' /\ (Delivery!Accept \/ UNCHANGED Delivery!vars)
<1>1. socket /\ UNCHANGED <<seen, up>>
  BY DEF ClientRequests
<1>2. \/ UNCHANGED <<responseQueue, inFlight, responseCounter, down>>
      \/ \E client \in Nat : EnqueueResponseObject([client |-> client, transfer |-> FALSE, of |-> generation])
  <2>1. sent + 1 \in Nat /\ 0 \in Nat
    BY DEF TypeOK
  <2>2. ASSUME NEW kind, HandleRequest(sent + 1, kind)
        PROVE  \/ UNCHANGED <<responseQueue, inFlight, responseCounter, down>>
               \/ EnqueueResponseObject([client |-> sent + 1, transfer |-> FALSE, of |-> generation])
    BY <2>2 DEF HandleRequest
  <2>3. CASE HandleInvalidMessage
    BY <2>1, <2>3 DEF HandleInvalidMessage
  <2>4. CASE \E kind \in RequestKinds : HandleRequest(sent + 1, kind)
    BY <2>1, <2>2, <2>4
  <2> QED
    BY <2>3, <2>4 DEF ClientRequests
<1>3. ASSUME NEW client \in Nat, EnqueueResponseObject([client |-> client, transfer |-> FALSE, of |-> generation])
      PROVE  OneAtATime' /\ FramesInOrder' /\ Delivery!Accept
  <2> DEFINE answer == [client |-> client, transfer |-> FALSE, of |-> generation]
  <2>1. answer \in ClientResponse
    BY DEF TypeOK, HandlerTypeOK, ClientResponse
  <2>2. EnqueueResponseObject(answer)
    BY <1>3
  <2> HIDE DEF answer
  <2> QED
    BY <1>1, <2>1, <2>2, EnqueueDelivery
<1> QED
  BY <1>1, <1>2, <1>3, DeliveryStutters

(* An acknowledgement that makes room was of what the client has received.  *)
LEMMA TakeAckDelivery ==
  ASSUME TypeOK, OneAtATime, FramesInOrder, TakeAck
  PROVE  OneAtATime' /\ FramesInOrder' /\ (Delivery!Acknowledge \/ UNCHANGED Delivery!vars)
<1>1. up # << >> /\ up' = Tail(up) /\ UNCHANGED seen /\ socket
  BY DEF TakeAck
<1>2. CASE UNCHANGED <<responseQueue, inFlight, responseCounter, down>>
  BY <1>1, <1>2, DeliveryStutters
<1>3. CASE /\ Head(up).type = "ack" /\ inFlight # NothingInFlight /\ Answering(Head(up).id)
           /\ TrySendNextResponse(responseQueue, NothingInFlight)
  <2>1. Head(up) = up[1] /\ 1 \in DOMAIN up
    BY <1>1, DeliveryTypes
  <2>2. inFlight.id <= seen /\ inFlight.id = responseCounter /\ seen <= responseCounter
    BY <1>3, <2>1 DEF FramesInOrder, OneAtATime, Answering
  <2>3. Received = TRUE
    BY <1>3, <2>2, DeliveryTypes DEF Received
  <2>4. responseQueue \in Seq(ClientResponse)
    BY DeliveryTypes
  <2>5. CASE responseQueue = << >>
    <3>1. responseQueue' = << >> /\ inFlight' = NothingInFlight /\ UNCHANGED <<responseCounter, down>>
      BY <1>3, <2>4, <2>5, TrySendStep DEF SendsNext
    <3>2. OneAtATime' /\ FramesInOrder'
      BY <1>1, <3>1, FramesKept DEF OneAtATime
    <3>3. inFlight'.id = 0 /\ Received' = FALSE
      BY <3>1 DEF NothingInFlight, Received
    <3> QED
      BY <2>3, <2>5, <3>1, <3>2, <3>3 DEF Delivery!Acknowledge
  <2>6. CASE responseQueue # << >>
    <3>1. SendsNext(responseQueue)
      BY <1>1, <1>3, <2>4, <2>6, TrySendStep
    <3>2. OneAtATime' /\ FramesInOrder' /\ inFlight'.id # 0 /\ Received' = FALSE
      BY <1>1, <3>1, SendsNextDelivery
    <3> QED
      BY <2>3, <2>6, <3>1, <3>2 DEF Delivery!Acknowledge, SendsNext
  <2> QED
    BY <2>5, <2>6
<1> QED
  BY <1>2, <1>3 DEF TakeAck, HandleAck, HandlePcapChunkAck, handlerVars

LEMMA TimeoutDelivery ==
  ASSUME TypeOK, OneAtATime, FramesInOrder, AckTimeout
  PROVE  OneAtATime' /\ FramesInOrder' /\ UNCHANGED Delivery!vars
<1> DEFINE frame == TextFrame(inFlight.id, inFlight.response)
<1>1. inFlight # NothingInFlight /\ down' = Append(down, frame)
      /\ UNCHANGED <<responseQueue, inFlight, responseCounter, seen, up>>
  BY DEF AckTimeout, ResendInFlight, clientVars
<1>2. frame \in Frames /\ frame.id = responseCounter
  BY <1>1, WrittenFrames, DeliveryTypes DEF TextFrame, OneAtATime
<1> HIDE DEF frame
<1> QED
  BY <1>1, <1>2, DeliveryStutters

(* What the client receives is never older than what it received before.    *)
LEMMA ReceivesDelivery ==
  ASSUME TypeOK, OneAtATime, FramesInOrder, ClientReceives
  PROVE  OneAtATime' /\ FramesInOrder' /\ (Delivery!Receive \/ UNCHANGED Delivery!vars)
<1>1. /\ down # << >> /\ down' = Tail(down) /\ UNCHANGED <<responseQueue, inFlight, responseCounter>>
      /\ Head(down) = down[1] /\ 1 \in DOMAIN down
  BY DeliveryTypes DEF ClientReceives
<1>2. /\ \A i \in DOMAIN down' : i + 1 \in DOMAIN down /\ down'[i] = down[i + 1] /\ 1 < i + 1
      /\ \A i, j \in DOMAIN down' : i < j => i + 1 < j + 1
  <2>1. PICK n \in Nat :
          /\ DOMAIN down' = 1..n - 1
          /\ \A i \in DOMAIN down' : i + 1 \in DOMAIN down /\ down'[i] = down[i + 1]
    BY <1>1, DeliveryTypes, Taken
  <2> QED
    BY <2>1
<1>3. OneAtATime'
  BY <1>1 DEF OneAtATime
<1>4. seen \in Nat /\ responseCounter \in Nat /\ \A i \in DOMAIN down : Text(i) => down[i].id \in Nat
  BY DeliveryTypes
<1>5. ASSUME seen' \in Nat, seen' <= responseCounter, seen <= seen',
             \A i \in DOMAIN down' : down'[i].type = "text" => seen' <= down'[i].id,
             \A i \in DOMAIN up' : up'[i].type = "ack" => up'[i].id <= seen'
      PROVE  FramesInOrder'
  <2>1. \A i \in DOMAIN down' : down'[i].type = "text" => down'[i].id <= responseCounter'
    BY <1>1, <1>2 DEF FramesInOrder, Text
  <2>2. \A i, j \in DOMAIN down' :
          i < j /\ down'[i].type = "text" /\ down'[j].type = "text" => down'[i].id <= down'[j].id
    BY <1>1, <1>2 DEF FramesInOrder, Text
  <2> QED
    BY <1>1, <1>5, <2>1, <2>2 DEF FramesInOrder, Text
<1>6. CASE ReceiveText
  <2> DEFINE ack == [type |-> "ack", id |-> Head(down).id]
  <2>1. /\ Text(1) /\ seen' = Head(down).id /\ up' = Append(up, ack) /\ ack.id = seen'
        /\ seen' \in Nat /\ seen <= seen' /\ seen' <= responseCounter
    BY <1>1, <1>4, <1>6 DEF ReceiveText, FramesInOrder, Text
  <2>2. ack \in Acks
    BY <2>1, Acknowledgements
  <2> HIDE DEF ack
  <2>3. \A i \in DOMAIN down' : down'[i].type = "text" => seen' <= down'[i].id
    BY <1>1, <1>2, <2>1 DEF FramesInOrder, Text
  <2>4. \A i \in DOMAIN up' : (i \in DOMAIN up /\ up'[i] = up[i]) \/ up'[i] = ack
    BY <2>1, <2>2, DeliveryTypes
  <2>5. \A i \in DOMAIN up' : up'[i].type = "ack" => up'[i].id <= seen'
    <3> SUFFICES ASSUME NEW i \in DOMAIN up', up'[i].type = "ack" PROVE up'[i].id <= seen'
      OBVIOUS
    <3>1. CASE i \in DOMAIN up /\ up'[i] = up[i]
      <4>1. up[i].id \in Nat /\ up[i].id <= seen
        BY <3>1, DeliveryTypes DEF FramesInOrder
      <4> QED
        BY <1>4, <2>1, <3>1, <4>1
    <3>2. CASE up'[i] = ack
      BY <2>1, <3>2
    <3> QED
      BY <2>4, <3>1, <3>2
  <2>6. FramesInOrder'
    BY <1>5, <2>1, <2>3, <2>5
  <2>7. CASE inFlight # NothingInFlight /\ seen' = inFlight.id
    <3>1. Received' = TRUE
      BY <1>1, <2>7 DEF Received
    <3> QED
      BY <1>1, <1>3, <2>6, <2>7, <3>1, CurrentMeansInFlight DEF Delivery!Receive
  <2>8. CASE ~(inFlight # NothingInFlight /\ seen' = inFlight.id)
    <3>1. ~(inFlight # NothingInFlight /\ seen = inFlight.id)
      BY <1>4, <2>1, <2>8 DEF OneAtATime
    <3>2. Received' = Received
      BY <1>1, <2>8, <3>1 DEF Received
    <3> QED
      BY <1>1, <1>3, <2>6, <3>2 DEF Delivery!vars
  <2> QED
    BY <2>7, <2>8
<1>7. CASE ReceiveBinary
  <2> DEFINE ack == [type |-> "chunk_ack", client |-> Head(down).client, sequence |-> Head(down).sequence]
  <2>1. UNCHANGED seen /\ (up' = up \/ up' = Append(up, ack)) /\ ack.type # "ack" /\ Head(down).type = "binary"
    BY <1>7 DEF ReceiveBinary
  <2>2. ack \in Acks
    <3>1. Head(down) \in Frames
      BY <1>1, DeliveryTypes
    <3> QED
      BY <2>1, <3>1, WrittenFrames, Acknowledgements
  <2> HIDE DEF ack
  <2>3. \A i \in DOMAIN up' : (i \in DOMAIN up /\ up'[i] = up[i]) \/ up'[i] = ack
    <3>1. CASE up' = up
      BY <3>1
    <3>2. CASE up' = Append(up, ack)
      BY <2>2, <3>2, DeliveryTypes
    <3> QED
      BY <2>1, <3>1, <3>2
  <2>4. \A i \in DOMAIN up' : up'[i].type = "ack" => up'[i].id <= seen'
    BY <2>1, <2>3 DEF FramesInOrder
  <2>5. \A i \in DOMAIN down' : down'[i].type = "text" => seen' <= down'[i].id
    BY <1>1, <1>2, <2>1 DEF FramesInOrder, Text
  <2>6. seen' \in Nat /\ seen' <= responseCounter /\ seen <= seen'
    BY <1>4, <2>1 DEF FramesInOrder
  <2>7. FramesInOrder'
    BY <1>5, <2>4, <2>5, <2>6
  <2> QED
    BY <1>1, <1>3, <2>1, <2>7 DEF Delivery!vars, Received
<1> QED
  BY <1>6, <1>7 DEF ClientReceives

LEMMA ConnectionDelivery ==
  ASSUME TypeOK, NothingWithoutSocket, OneAtATime, FramesInOrder, Connect \/ Disconnect
  PROVE  OneAtATime' /\ FramesInOrder' /\ (Delivery!Disconnect \/ UNCHANGED Delivery!vars)
<1>1. CASE Connect
  <2>1. /\ ~socket /\ down' = << >> /\ up' = << >> /\ seen' = responseCounter
        /\ UNCHANGED <<responseQueue, inFlight, responseCounter>>
    BY <1>1 DEF Connect, SetSocket
  <2>2. inFlight = NothingInFlight
    BY <2>1 DEF NothingWithoutSocket
  <2>3. DOMAIN down' = {} /\ DOMAIN up' = {} /\ seen' <= responseCounter'
    BY <2>1, DeliveryTypes
  <2>4. OneAtATime' /\ FramesInOrder'
    BY <2>1, <2>3 DEF OneAtATime, FramesInOrder
  <2>5. Received' = Received
    BY <2>1, <2>2 DEF Received
  <2> QED
    BY <2>1, <2>4, <2>5 DEF Delivery!vars
<1>2. CASE Disconnect
  <2>1. /\ responseQueue' = << >> /\ inFlight' = NothingInFlight /\ down' = << >> /\ up' = << >>
        /\ UNCHANGED <<responseCounter, seen>>
    BY <1>2 DEF Disconnect, SocketDisconnected, ClearSession
  <2>2. DOMAIN down' = {} /\ DOMAIN up' = {}
    BY <2>1
  <2>3. OneAtATime' /\ FramesInOrder'
    BY <2>1, <2>2 DEF OneAtATime, FramesInOrder
  <2>4. inFlight'.id = 0 /\ Received' = FALSE
    BY <2>1 DEF NothingInFlight, Received
  <2> QED
    BY <2>1, <2>3, <2>4 DEF Delivery!Disconnect
<1> QED
  BY <1>1, <1>2

LEMMA OthersDelivery ==
  ASSUME TypeOK, OneAtATime, FramesInOrder, PcapThread \/ ClientRepeatsAck \/ RestrictLogin \/ UNCHANGED vars
  PROVE  OneAtATime' /\ FramesInOrder' /\ UNCHANGED Delivery!vars
<1>1. CASE PcapThread
  <2>1. PcapWorkTypeOK /\ toPcap \in Seq(PcapEvents)
    BY TypeParts DEF HandlerTypeOK
  <2>2. Elsewhere
    BY <1>1, <2>1, PcapThreadStep
  <2> QED
    BY <2>2, DeliveryStutters DEF Elsewhere, clientVars
<1>2. CASE ClientRepeatsAck
  <2> DEFINE ack == [type |-> "chunk_ack", client |-> opened, sequence |-> received - 1]
  <2>1. ack \in Acks /\ ack.type = "chunk_ack" /\ up' = Append(up, ack)
        /\ UNCHANGED <<responseQueue, inFlight, responseCounter, seen, down>>
    BY <1>2, Acknowledgements DEF ClientRepeatsAck, handlerVars, TypeOK
  <2> HIDE DEF ack
  <2> QED
    BY <2>1, DeliveryStutters
<1>3. CASE RestrictLogin \/ UNCHANGED vars
  BY <1>3, DeliveryStutters DEF RestrictLogin, vars, handlerVars, clientVars
<1> QED
  BY <1>1, <1>2, <1>3

(* Every step of the session is one of ReliableDelivery, or changes nothing *)
(* of it: responses are sent one at a time and in order, and one gives way  *)
(* to the next only when the client has received it.                        *)
LEMMA DeliveryStep ==
  ASSUME TypeOK, OwnersInvariant, DeliveryInvariant, [Next]_vars
  PROVE  DeliveryInvariant' /\ [Delivery!Next]_(Delivery!vars)
<1>1. OneAtATime /\ FramesInOrder /\ NothingWithoutSocket
  BY DeliveryParts DEF OwnersInvariant, NothingWithoutSocket
<1>2. OneAtATime' /\ FramesInOrder' /\ [Delivery!Next]_(Delivery!vars)
  BY <1>1, TakePostedDelivery, RequestsDelivery, TakeAckDelivery, TimeoutDelivery, ReceivesDelivery,
     ConnectionDelivery, OthersDelivery DEF Next, MainThread, Client, Delivery!Next
<1> QED
  BY <1>2 DEF DeliveryInvariant, OneAtATime, FramesInOrder

LEMMA DeliveryInit == Init => DeliveryInvariant /\ Delivery!Init
<1> SUFFICES ASSUME Init PROVE DeliveryInvariant /\ Delivery!Init
  OBVIOUS
<1>1. /\ inFlight = NothingInFlight /\ responseQueue = << >> /\ down = << >> /\ up = << >>
      /\ seen = 0 /\ responseCounter = 0
  BY DEF Init, HandlerInit
<1>2. DOMAIN down = {} /\ DOMAIN up = {} /\ inFlight.id = 0
  BY <1>1 DEF NothingInFlight
<1>3. Received = FALSE
  BY <1>1 DEF Received
<1> QED
  BY <1>1, <1>2, <1>3 DEF DeliveryInvariant, Delivery!Init

(* The response in flight is the last one sent, nothing waits without one,  *)
(* and what the client receives and acknowledges never goes back.           *)
THEOREM DeliveryInvariantHolds == Spec => []DeliveryInvariant
<1>1. Init => DeliveryInvariant
  BY DeliveryInit
<1>2. TypeOK /\ OwnersInvariant /\ DeliveryInvariant /\ [Next]_vars => DeliveryInvariant'
  BY DeliveryStep
<1> QED
  BY <1>1, <1>2, TypeHolds, OwnersInvariantHolds, PTL DEF Spec

(* The session implements ReliableDelivery, its liveness apart, whatever is *)
(* resent, repeated or cut off.                                             *)
THEOREM DeliversReliablySafely == Spec => Delivery!Init /\ [][Delivery!Next]_(Delivery!vars)
<1>1. Init => Delivery!Init
  BY DeliveryInit
<1>2. TypeOK /\ OwnersInvariant /\ DeliveryInvariant /\ [Next]_vars => [Delivery!Next]_(Delivery!vars)
  BY DeliveryStep
<1> QED
  BY <1>1, <1>2, TypeHolds, OwnersInvariantHolds, DeliveryInvariantHolds, PTL DEF Spec

-----------------------------------------------------------------------------
(* Contexts are kept as long as they are needed *)

LEMMA EventFacts ==
  ASSUME NEW event \in Posted
  PROVE  /\ Answered(event).id \in Nat /\ Numbers(event) \subseteq Nat
         /\ \A id : id \in Numbers(event) <=> Of(event, id) \/ Relating(event, id)
         /\ NoCapture(event) <=> \A id : Relating(event, id) => id = 0
         /\ ~NoCapture(event) => Relating(event, event.response.related) /\ event.response.related # 0
         /\ Failing(event) => Final(event)
<1>1. CASE event.type = "response"
  <2>1. event.response \in Response
    BY <1>1, PostedEvents
  <2>2. event.response.id \in Nat /\ event.response.related \in Nat
    BY <2>1 DEF Response
  <2> QED
    BY <1>1, <2>2 DEF Numbers, Of, Relating, NoCapture, Failing, Final, Answered
<1>2. CASE event.type = "chunk"
  BY <1>2, PostedEvents DEF Numbers, Of, Relating, NoCapture, Failing, Final, Answered
<1> QED
  BY <1>1, <1>2, PostedEvents

(* What handling an event does to the contexts: those it takes away, and    *)
(* the one it puts a capture into.                                          *)
Takes(event, id) ==
  \/ /\ Of(event, id) /\ Final(event)
     /\ contexts[id].kind = "pcap_write" => Failing(event)
     /\ event.type = "chunk" => contexts[id].kind = "pcap_read"
  \/ /\ contexts[id].kind = "pcap_write" /\ Final(event)
     /\ \E by \in DOMAIN contexts :
          /\ Of(event, by) /\ contexts[by].kind = "pcap_read"
          /\ id = IF NoCapture(event) THEN contexts[by].related ELSE event.response.related

Handles(event) ==
  /\ DOMAIN contexts' = {id \in DOMAIN contexts : ~Takes(event, id)}
  /\ \A id \in DOMAIN contexts' :
       /\ contexts'[id].kind = contexts[id].kind
       /\ contexts'[id].related =
            IF Of(event, id) /\ contexts[id].kind = "pcap_read" /\ ~NoCapture(event)
              THEN event.response.related ELSE contexts[id].related

LEMMA ResponseHandled ==
  ASSUME TypeOK, NothingWithoutSocket, NEW response \in Response, EnqueueResponse(response)
  PROVE  Handles([type |-> "response", response |-> response])
<1> DEFINE event == [type |-> "response", response |-> response]
<1>1. /\ event.type = "response" /\ event.response = response /\ event.type # "chunk"
      /\ \A id : Of(event, id) <=> id = response.id
      /\ Final(event) <=> response.final
      /\ NoCapture(event) <=> response.related = 0
      /\ Failing(event) <=> response.final /\ response.outcome = "error"
  BY DEF Of, Final, NoCapture, Failing, Answered
<1> HIDE DEF event
<1>2. CASE ~socket \/ response.id \notin DOMAIN contexts
  <2>1. contexts' = contexts
    BY <1>2 DEF EnqueueResponse, Dropped
  <2>2. response.id \notin DOMAIN contexts
    BY <1>2 DEF NothingWithoutSocket
  <2>3. \A id \in DOMAIN contexts : ~Takes(event, id)
    BY <1>1, <2>2 DEF Takes
  <2> QED
    BY <1>1, <2>1, <2>2, <2>3 DEF Handles, event
<1>3. CASE socket /\ response.id \in DOMAIN contexts
  <2> DEFINE context == contexts[response.id]
             related == IF context.kind = "pcap_read" /\ response.related # 0
                          THEN response.related ELSE context.related
             changed == [context EXCEPT !.related = related]
             known   == Remember(contexts, response.id, changed)
             over    == IF response.final /\ ~Retained(response, context) THEN {response.id} ELSE {}
             writes  == IF response.final /\ context.kind = "pcap_read"
                          THEN WriteContext(known, related) ELSE {}
  <2>1. context.generation = generation /\ context \in RequestContext
        /\ \A id \in DOMAIN contexts : contexts[id].generation = generation
    BY <1>3 DEF NothingWithoutSocket, TypeOK, HandlerTypeOK
  <2>2. contexts' = Forget(known, over \union writes)
    BY <1>3, <2>1 DEF EnqueueResponse
  <2>3. changed.kind = context.kind /\ changed.generation = generation /\ changed.related = related
    BY <2>1 DEF RequestContext
  <2>4. response.outcome \in {"success", "limit_reached", "error"}
    BY DEF Response, Outcomes
  <2>5. over = IF response.final /\ (context.kind = "pcap_write" => Failing(event)) THEN {response.id} ELSE {}
    BY <1>1, <2>4 DEF Retained
  <2> HIDE DEF changed, over, writes
  <2>6. DOMAIN known = DOMAIN contexts
        /\ \A i \in DOMAIN known : known[i] = IF i = response.id THEN changed ELSE contexts[i]
    BY <1>3 DEF Remember
  <2> HIDE DEF known
  <2>7. \A i \in DOMAIN known : known[i].kind = contexts[i].kind /\ known[i].generation = generation
        /\ known[i].related = IF i = response.id THEN related ELSE contexts[i].related
    BY <2>1, <2>3, <2>6
  <2>8. writes = IF response.final /\ context.kind = "pcap_read"
                   THEN {i \in DOMAIN contexts : i = related /\ contexts[i].kind = "pcap_write"} ELSE {}
    BY <2>6, <2>7 DEF writes, WriteContext
  <2>9. DOMAIN contexts' = DOMAIN contexts \ (over \union writes)
        /\ \A i \in DOMAIN contexts' : contexts'[i] = known[i]
    BY <2>2, <2>6 DEF Forget
  <2>10. \A id \in DOMAIN contexts : Takes(event, id) <=> id \in over \union writes
    <3> SUFFICES ASSUME NEW id \in DOMAIN contexts
                 PROVE  Takes(event, id) <=> id \in over \union writes
      OBVIOUS
    <3>1. id \in over <=> Of(event, id) /\ Final(event)
                          /\ (contexts[id].kind = "pcap_write" => Failing(event))
                          /\ (event.type = "chunk" => contexts[id].kind = "pcap_read")
      BY <1>1, <2>5
    <3>2. id \in writes <=>
            /\ contexts[id].kind = "pcap_write" /\ Final(event)
            /\ \E by \in DOMAIN contexts :
                 /\ Of(event, by) /\ contexts[by].kind = "pcap_read"
                 /\ id = IF NoCapture(event) THEN contexts[by].related ELSE event.response.related
      BY <1>1, <1>3, <2>8
    <3> QED
      BY <3>1, <3>2 DEF Takes
  <2>11. \A id \in DOMAIN contexts' :
           /\ contexts'[id].kind = contexts[id].kind
           /\ contexts'[id].related =
                IF Of(event, id) /\ contexts[id].kind = "pcap_read" /\ ~NoCapture(event)
                  THEN event.response.related ELSE contexts[id].related
    BY <1>1, <2>6, <2>7, <2>9
  <2> QED
    BY <2>9, <2>10, <2>11 DEF Handles, event
<1> QED
  BY <1>2, <1>3

LEMMA ChunkHandled ==
  ASSUME TypeOK, NothingWithoutSocket, NEW event \in Posted, event.type = "chunk",
         EnqueuePcapChunk(event.id, event.sequence, event.final, event.of)
  PROVE  Handles(event)
<1>1. /\ event.type # "response" /\ NoCapture(event) /\ ~Failing(event)
      /\ \A id : Of(event, id) <=> id = event.id
      /\ Final(event) <=> event.final
  BY DEF Of, Final, NoCapture, Failing, Answered
<1>2. CASE socket /\ event.id \in DOMAIN contexts /\ contexts[event.id].generation = generation
           /\ contexts[event.id].kind = "pcap_read"
  <2>1. contexts' = IF event.final
               THEN Forget(contexts, {event.id} \union WriteContext(contexts, contexts[event.id].related))
               ELSE contexts
    BY <1>2 DEF EnqueuePcapChunk
  <2>2. WriteContext(contexts, contexts[event.id].related)
          = {i \in DOMAIN contexts : i = contexts[event.id].related /\ contexts[i].kind = "pcap_write"}
    BY DEF WriteContext, NothingWithoutSocket
  <2>3. \A id \in DOMAIN contexts : Takes(event, id) <=>
          event.final /\ (id = event.id \/ id \in WriteContext(contexts, contexts[event.id].related))
    BY <1>1, <1>2, <2>2 DEF Takes
  <2>4. DOMAIN contexts' = {id \in DOMAIN contexts : ~Takes(event, id)}
        /\ \A id \in DOMAIN contexts' : contexts'[id] = contexts[id]
    BY <2>1, <2>3 DEF Forget
  <2> QED
    BY <1>1, <2>4 DEF Handles
<1>3. CASE ~(socket /\ event.id \in DOMAIN contexts /\ contexts[event.id].generation = generation
           /\ contexts[event.id].kind = "pcap_read")
  <2>1. contexts' = contexts
    BY <1>3 DEF EnqueuePcapChunk
  <2>2. \A id \in DOMAIN contexts : socket /\ contexts[id].generation = generation
    BY DEF NothingWithoutSocket, TypeOK, HandlerTypeOK
  <2>3. \A id \in DOMAIN contexts : ~Takes(event, id)
    BY <1>1, <1>3, <2>2 DEF Takes
  <2> QED
    BY <1>1, <2>1, <2>3 DEF Handles
<1> QED
  BY <1>2, <1>3
(* The main thread takes what was posted to it.                             *)
Taking ==
  /\ toHandler # << >> /\ toHandler' = Tail(toHandler) /\ Handles(Head(toHandler))
  /\ UNCHANGED <<socket, generation, requestCounter, toControl>>
  /\ UNCHANGED <<toPcap, pcapQueue, pcapState, capture, transfer, transferTimer>>

LEMMA TakingEvents ==
  ASSUME TypeOK, Taking
  PROVE  /\ 1 \in DOMAIN toHandler /\ Head(toHandler) = toHandler[1] /\ Head(toHandler) \in Posted
         /\ \A i \in DOMAIN toHandler : toHandler[i] \in Posted
         /\ \A i \in DOMAIN toHandler' : i + 1 \in DOMAIN toHandler /\ toHandler'[i] = toHandler[i + 1] /\ 1 < i + 1
         /\ \A i, j \in DOMAIN toHandler' : i < j => i + 1 < j + 1
         /\ \A i \in DOMAIN toHandler : i # 1 =>
              1 < i /\ i - 1 \in DOMAIN toHandler' /\ toHandler'[i - 1] = toHandler[i]
<1>1. toHandler \in Seq(Posted) /\ toHandler # << >> /\ toHandler' = Tail(toHandler)
  BY DEF TypeOK, Taking
<1>2. PICK n \in Nat :
        /\ DOMAIN toHandler = 1..n /\ DOMAIN toHandler' = 1..n - 1 /\ 1 \in DOMAIN toHandler
        /\ Head(toHandler) = toHandler[1] /\ Head(toHandler) \in Posted
        /\ \A i \in DOMAIN toHandler' : i + 1 \in DOMAIN toHandler /\ toHandler'[i] = toHandler[i + 1]
  BY <1>1, Taken
<1>3. \A i \in DOMAIN toHandler : toHandler[i] \in Posted
  BY <1>1
<1>4. ASSUME NEW i \in DOMAIN toHandler, i # 1
      PROVE  1 < i /\ i - 1 \in DOMAIN toHandler' /\ toHandler'[i - 1] = toHandler[i]
  <2>1. 1 < i /\ i - 1 \in DOMAIN toHandler' /\ (i - 1) + 1 = i
    BY <1>2, <1>4
  <2> QED
    BY <1>2, <2>1
<1>5. \A i \in DOMAIN toHandler' : i \in Nat /\ 1 < i + 1
  BY <1>2
<1>6. \A i, j \in DOMAIN toHandler' : i < j => i + 1 < j + 1
  BY <1>2
<1> QED
  BY <1>2, <1>3, <1>4, <1>5, <1>6

LEMMA TakingOrdered ==
  ASSUME TypeOK, Taking, Ordered
  PROVE  Ordered'
<1>1. UNCHANGED <<toPcap, pcapQueue, requestCounter, capture, transfer>>
  BY DEF Taking
<1>2. Head(toHandler) = toHandler[1] /\ 1 \in DOMAIN toHandler /\ Head(toHandler) \in Posted
      /\ \A i \in DOMAIN toHandler' : i + 1 \in DOMAIN toHandler /\ toHandler'[i] = toHandler[i + 1]
  BY TakingEvents
<1>3. \A id \in DOMAIN contexts' : id \in DOMAIN contexts
        /\ contexts'[id].related \in {contexts[id].related} \union Numbers(toHandler[1])
  BY <1>2, EventFacts DEF Taking, Handles
<1>4. \A id : Behind(id) => (Behind(id))'
  BY <1>1 DEF Behind, Asks
<1>5. /\ \A i \in DOMAIN toHandler' : \A id \in Numbers(toHandler'[i]) : Behind(id)
      /\ \A id \in DOMAIN contexts' : Behind(contexts'[id].related)
  BY <1>2, <1>3 DEF Ordered
<1>6. /\ \A i \in DOMAIN toHandler' : \A id \in Numbers(toHandler'[i]) : (Behind(id))'
      /\ \A id \in DOMAIN contexts' : (Behind(contexts[id].related))'
  BY <1>4, <1>5 DEF Behind, Asks
<1> QED
  BY <1>1, <1>4, <1>6 DEF Ordered, Asks, Numbers

(* Neither a waiting request nor what it waits with is named in an event.   *)
LEMMA TakingWaiting ==
  ASSUME TypeOK, Taking, Ordered, WaitingHaveContexts
  PROVE  WaitingHaveContexts'
<1> DEFINE event == Head(toHandler)
<1>1. UNCHANGED <<toPcap, pcapQueue, toControl, socket, generation>> /\ Handles(event)
  BY DEF Taking
<1>2. Head(toHandler) = toHandler[1] /\ 1 \in DOMAIN toHandler /\ event \in Posted
  BY TakingEvents
<1> HIDE DEF event
<1>3. \A id \in Numbers(event) : Behind(id)
  BY <1>2 DEF Ordered, event
<1>4. \A id \in DOMAIN contexts : Behind(contexts[id].related)
  BY DEF Ordered
<1>5. ASSUME NEW id \in Nat, Has(id, contexts[id].kind), contexts[id].related = 0,
             ~Behind(id)
      PROVE  id \in DOMAIN contexts' /\ contexts'[id].kind = contexts[id].kind /\ contexts'[id].related = 0
  <2>1. ~Behind(id) /\ id \in DOMAIN contexts
    BY <1>5 DEF Has
  <2>2. ~Of(event, id) /\ ~Relating(event, id)
    BY <1>2, <1>3, <2>1, EventFacts
  <2>3. ~Takes(event, id)
    BY <1>2, <1>4, <2>1, <2>2, EventFacts DEF Takes
  <2> QED
    BY <1>1, <1>5, <2>1, <2>2, <2>3 DEF Handles
<1>6. ASSUME NEW request, request.id \in Nat, Waiting(request), ~Behind(request.id)
      PROVE  socket /\ request.of = generation => /\ request.id \in DOMAIN contexts'
                                                  /\ contexts'[request.id].kind = request.kind
                                                  /\ contexts'[request.id].related = 0
  BY <1>5, <1>6 DEF Waiting, Has
<1>7. /\ \A i \in DOMAIN toPcap : Asks(i) => toPcap[i].id \in Nat
      /\ \A k \in DOMAIN pcapQueue : pcapQueue[k].id \in Nat
  BY EventTypes, AnsweredId, EventsForPcap DEF Asks
<1>8. ASSUME NEW i \in DOMAIN toPcap', (Asks(i))' PROVE (Waiting(toPcap[i]))'
  <2>1. Asks(i) /\ toPcap'[i] = toPcap[i]
    BY <1>1, <1>8 DEF Asks
  <2>2. ~Behind(toPcap[i].id)
    BY <1>1, <1>7, <2>1 DEF Behind
  <2> QED
    BY <1>1, <1>6, <1>7, <2>1, <2>2 DEF WaitingHaveContexts, Waiting, Has
<1>9. ASSUME NEW k \in DOMAIN pcapQueue' PROVE (Waiting(pcapQueue[k]))'
  <2>1. ~Behind(pcapQueue[k].id)
    BY <1>1, <1>7 DEF Behind
  <2> QED
    BY <1>1, <1>6, <1>7, <2>1 DEF WaitingHaveContexts, Waiting, Has
<1>10. \A request \in toControl' : request.id \in DOMAIN contexts' => (Has(request.id, "control"))'
  BY <1>1 DEF WaitingHaveContexts, Has, Handles
<1> QED
  BY <1>8, <1>9, <1>10 DEF WaitingHaveContexts

LEMMA TakingCapture ==
  ASSUME TypeOK, Taking, CaptureLinked, TransferLinked, ReadsEndOnce
  PROVE  CaptureLinked' /\ TransferLinked'
<1> DEFINE event == Head(toHandler)
<1>1. UNCHANGED <<socket, generation, pcapState, capture, transfer, transferTimer>> /\ Handles(event)
  BY DEF Taking
<1>2. /\ event = toHandler[1] /\ 1 \in DOMAIN toHandler /\ event \in Posted
      /\ \A i \in DOMAIN toHandler' : i + 1 \in DOMAIN toHandler /\ toHandler'[i] = toHandler[i + 1]
      /\ \A i \in DOMAIN toHandler : i # 1 => i - 1 \in DOMAIN toHandler' /\ toHandler'[i - 1] = toHandler[i]
  BY TakingEvents
<1> HIDE DEF event
<1>3. ASSUME pcapState # "Idle"
      PROVE  /\ socket /\ capture.of = generation => (Has(capture.id, "pcap_write"))'
             /\ \A id \in DOMAIN contexts' : contexts'[id].related = capture.id =>
                  pcapState = "Transferring" /\ id = transfer.id
  <2>1. ASSUME socket, capture.of = generation PROVE (Has(capture.id, "pcap_write"))'
    <3>1. capture.id \in DOMAIN contexts /\ contexts[capture.id].kind = "pcap_write"
      BY <1>3, <2>1 DEF CaptureLinked, Has
    <3>2. ~(Of(event, capture.id) /\ Final(event) /\ Failing(event))
      BY <1>2, <1>3 DEF CaptureLinked
    <3>3. ASSUME NEW by \in DOMAIN contexts, Of(event, by), Final(event),
                 capture.id = IF NoCapture(event) THEN contexts[by].related ELSE event.response.related
          PROVE  FALSE
      <4>1. pcapState = "Transferring" /\ by = transfer.id
        <5>1. CASE contexts[by].related = capture.id
          BY <1>3, <5>1 DEF CaptureLinked
        <5>2. CASE Relating(event, capture.id)
          BY <1>2, <1>3, <3>3, <5>2 DEF CaptureLinked, Of
        <5> QED
          BY <1>2, <3>3, <5>1, <5>2, EventFacts
      <4> QED
        BY <1>2, <3>3, <4>1 DEF TransferLinked
    <3>4. ~Takes(event, capture.id)
      BY <3>1, <3>2, <3>3 DEF Takes
    <3> QED
      BY <1>1, <3>1, <3>4 DEF Handles, Has
  <2>2. ASSUME NEW id \in DOMAIN contexts', contexts'[id].related = capture.id
        PROVE  pcapState = "Transferring" /\ id = transfer.id
    <3>1. id \in DOMAIN contexts
      BY <1>1 DEF Handles
    <3>2. CASE contexts[id].related = capture.id
      BY <1>3, <3>1, <3>2 DEF CaptureLinked
    <3>3. CASE Of(event, id) /\ Relating(event, capture.id)
      BY <1>2, <1>3, <3>3 DEF CaptureLinked, Of
    <3> QED
      BY <1>1, <1>2, <2>2, <3>2, <3>3, EventFacts DEF Handles
  <2> QED
    BY <2>1, <2>2
<1>4. CaptureLinked'
  BY <1>1, <1>2, <1>3 DEF CaptureLinked
<1>5. ASSUME pcapState = "Transferring", socket, transfer.of = generation
      PROVE  (Has(transfer.id, "pcap_read") /\ Relates(transfer.id, capture.id))'
  <2>1. Has(transfer.id, "pcap_read") /\ Relates(transfer.id, capture.id) /\ capture.id # 0
    BY <1>5 DEF TransferLinked, CaptureLinked
  <2>2. ~(Of(event, transfer.id) /\ Final(event))
    BY <1>2, <1>5 DEF TransferLinked
  <2>3. ~Takes(event, transfer.id)
    BY <2>1, <2>2 DEF Takes, Has
  <2>4. transfer.id \in DOMAIN contexts' /\ contexts'[transfer.id].kind = "pcap_read"
    BY <1>1, <2>1, <2>3 DEF Handles, Has
  <2>5. CASE contexts[transfer.id].related = capture.id
    <3>1. Of(event, transfer.id) => NoCapture(event)
      BY <1>2, <2>1, <2>5 DEF ReadsEndOnce, Has
    <3>2. contexts'[transfer.id].related = capture.id
      BY <1>1, <2>4, <2>5, <3>1 DEF Handles
    <3> QED
      BY <1>1, <2>4, <3>2 DEF Has, Relates
  <2>6. CASE \E i \in DOMAIN toHandler : Of(toHandler[i], transfer.id) /\ Relating(toHandler[i], capture.id)
    <3>1. PICK i \in DOMAIN toHandler : Of(toHandler[i], transfer.id) /\ Relating(toHandler[i], capture.id)
      BY <2>6
    <3>2. CASE i = 1
      <4>1. ~NoCapture(event) /\ event.response.related = capture.id
        BY <1>2, <2>1, <3>1, <3>2 DEF NoCapture, Relating
      <4>2. contexts'[transfer.id].related = capture.id
        BY <1>1, <1>2, <2>1, <2>4, <3>1, <3>2, <4>1 DEF Handles, Has
      <4> QED
        BY <1>1, <2>4, <4>2 DEF Has, Relates
    <3>3. CASE i # 1
      BY <1>1, <1>2, <2>4, <3>1, <3>3 DEF Has, Relates
    <3> QED
      BY <3>2, <3>3
  <2> QED
    BY <2>1, <2>5, <2>6 DEF Relates
<1>6. TransferLinked'
  BY <1>1, <1>2, <1>5 DEF TransferLinked
<1> QED
  BY <1>4, <1>6

LEMMA TakingReads ==
  ASSUME TypeOK, Taking, ReadsEndOnce
  PROVE  ReadsEndOnce'
<1> DEFINE event == Head(toHandler)
<1>1. Handles(event)
  BY DEF Taking
<1>2. /\ event = toHandler[1] /\ 1 \in DOMAIN toHandler /\ event \in Posted
      /\ \A i \in DOMAIN toHandler' : i + 1 \in DOMAIN toHandler /\ toHandler'[i] = toHandler[i + 1] /\ 1 < i + 1
      /\ \A i, j \in DOMAIN toHandler' : i < j => i + 1 < j + 1
  BY TakingEvents
<1> HIDE DEF event
<1>3. \A id \in DOMAIN contexts' : id \in DOMAIN contexts /\ contexts'[id].kind = contexts[id].kind
  BY <1>1 DEF Handles
<1>4. ASSUME NEW i \in DOMAIN toHandler', NEW id \in DOMAIN contexts',
             Of(toHandler'[i], id), contexts'[id].related # 0
      PROVE  NoCapture(toHandler'[i])
  <2>1. CASE contexts[id].related # 0
    BY <1>2, <1>3, <1>4, <2>1 DEF ReadsEndOnce
  <2>2. CASE Of(event, id) /\ contexts[id].kind = "pcap_read" /\ ~NoCapture(event)
    BY <1>2, <1>3, <1>4, <2>2 DEF ReadsEndOnce
  <2> QED
    BY <1>1, <1>4, <2>1, <2>2 DEF Handles
<1>5. ASSUME NEW i \in DOMAIN toHandler', NEW j \in DOMAIN toHandler', NEW id \in DOMAIN contexts',
             i < j, Of(toHandler'[i], id), Of(toHandler'[j], id), contexts'[id].kind = "pcap_read"
      PROVE  ~Final(toHandler'[i]) /\ (NoCapture(toHandler'[i]) \/ NoCapture(toHandler'[j]))
  BY <1>2, <1>3, <1>5 DEF ReadsEndOnce
<1>6. ASSUME NEW i \in DOMAIN toHandler', NEW id \in DOMAIN contexts',
             Of(toHandler'[i], id), toHandler'[i].type = "chunk"
      PROVE  contexts'[id].kind = "pcap_read"
  BY <1>2, <1>3, <1>6 DEF ReadsEndOnce
<1> QED
  BY <1>4, <1>5, <1>6 DEF ReadsEndOnce, Of

LEMMA TakingAccounted ==
  ASSUME TypeOK, Taking, ReadsEndOnce, Accounted
  PROVE  Accounted'
<1> DEFINE event == Head(toHandler)
<1>1. UNCHANGED <<toPcap, pcapQueue, pcapState, capture, transfer>> /\ Handles(event)
  BY DEF Taking
<1>2. /\ event = toHandler[1] /\ 1 \in DOMAIN toHandler /\ event \in Posted
      /\ \A i \in DOMAIN toHandler : toHandler[i] \in Posted
      /\ \A i \in DOMAIN toHandler : i # 1 =>
           1 < i /\ i - 1 \in DOMAIN toHandler' /\ toHandler'[i - 1] = toHandler[i]
  BY TakingEvents
<1> HIDE DEF event
<1>3. \A id \in DOMAIN contexts' : id \in DOMAIN contexts /\ ~Takes(event, id)
        /\ contexts'[id].kind = contexts[id].kind
  BY <1>1 DEF Handles
<1>4. \A id : Waits(id) => (Waits(id))'
  BY <1>1 DEF Waits, Asks
<1>5. ASSUME NEW id \in DOMAIN contexts', contexts[id].kind # "pcap_write", Ending(id)
      PROVE  (Ending(id))'
  <2>1. PICK i \in DOMAIN toHandler : Of(toHandler[i], id) /\ Final(toHandler[i])
    BY <1>5 DEF Ending
  <2>2. i # 1
    <3> SUFFICES ASSUME i = 1 PROVE FALSE
      OBVIOUS
    <3>1. event.type = "chunk" => contexts[id].kind = "pcap_read"
      BY <1>2, <1>3, <2>1 DEF ReadsEndOnce
    <3> QED
      BY <1>2, <1>3, <1>5, <2>1, <3>1 DEF Takes
  <2> QED
    BY <1>2, <2>1, <2>2 DEF Ending, Of, Final
<1>6. ASSUME NEW id \in DOMAIN contexts', contexts[id].kind = "pcap_write",
             NEW i \in DOMAIN toHandler, Of(toHandler[i], id), Failing(toHandler[i])
      PROVE  \E j \in DOMAIN toHandler' : Of(toHandler'[j], id) /\ Failing(toHandler'[j])
  <2>1. i # 1
    <3> SUFFICES ASSUME i = 1 PROVE FALSE
      OBVIOUS
    <3>1. Final(event) /\ event.type # "chunk"
      BY <1>2, <1>6, EventFacts DEF Failing
    <3> QED
      BY <1>2, <1>3, <1>6, <3>1 DEF Takes
  <2> QED
    BY <1>2, <1>6, <2>1
<1>7. ASSUME NEW id \in DOMAIN contexts', contexts[id].kind = "pcap_write", id # 0,
             NEW by \in DOMAIN contexts, contexts[by].kind = "pcap_read", Ending(by), Relates(by, id)
      PROVE  by \in DOMAIN contexts' /\ contexts'[by].kind = "pcap_read" /\ (Ending(by))' /\ (Relates(by, id))'
  <2>1. CASE contexts[by].related = id
    <3>1. Of(event, by) => NoCapture(event)
      BY <1>2, <1>7, <2>1 DEF ReadsEndOnce
    <3>2. ~(Of(event, by) /\ Final(event))
      BY <1>3, <1>7, <2>1, <3>1 DEF Takes
    <3>3. ~Takes(event, by)
      BY <1>7, <3>2 DEF Takes
    <3>4. by \in DOMAIN contexts' /\ contexts'[by].kind = "pcap_read" /\ contexts'[by].related = id
      BY <1>1, <1>7, <2>1, <3>1, <3>3 DEF Handles
    <3> QED
      BY <1>5, <1>7, <3>4 DEF Relates
  <2>2. CASE \E i \in DOMAIN toHandler : Of(toHandler[i], by) /\ Relating(toHandler[i], id)
    <3>1. PICK i \in DOMAIN toHandler : Of(toHandler[i], by) /\ Relating(toHandler[i], id)
      BY <2>2
    <3>2. ~NoCapture(toHandler[i])
      BY <1>2, <1>7, <3>1, EventFacts
    <3>3. ~(Of(event, by) /\ Final(event))
      <4> SUFFICES ASSUME Of(event, by), Final(event) PROVE FALSE
        OBVIOUS
      <4>1. i = 1
        BY <1>2, <1>7, <3>1 DEF ReadsEndOnce
      <4>2. ~NoCapture(event) /\ event.response.related = id
        BY <1>2, <3>1, <3>2, <4>1 DEF Relating
      <4> QED
        BY <1>3, <1>7, <4>2 DEF Takes
    <3>4. by \in DOMAIN contexts' /\ contexts'[by].kind = "pcap_read"
      BY <1>1, <1>7, <3>3 DEF Handles, Takes
    <3>5. (Relates(by, id))'
      <4>1. CASE i = 1
        <5>1. Of(event, by) /\ ~NoCapture(event) /\ event.response.related = id
          BY <1>2, <3>1, <3>2, <4>1 DEF Relating
        <5>2. contexts'[by].related = id
          BY <1>1, <1>7, <3>4, <5>1 DEF Handles
        <5> QED
          BY <5>2 DEF Relates
      <4>2. CASE i # 1
        BY <1>2, <3>1, <4>2 DEF Relates, Of, Relating
      <4> QED
        BY <4>1, <4>2
    <3> QED
      BY <1>5, <1>7, <3>4, <3>5
  <2> QED
    BY <1>7, <2>1, <2>2 DEF Relates
<1>8. ASSUME NEW id \in DOMAIN contexts' PROVE (AccountedFor(id))'
  <2>1. id \in DOMAIN contexts /\ id # 0 /\ contexts'[id].kind = contexts[id].kind
    BY <1>3 DEF TypeOK, HandlerTypeOK
  <2>2. contexts[id].kind = "pcap_interfaces" => (Waits(id) \/ Ending(id))'
    BY <1>4, <1>5, <2>1 DEF Accounted, AccountedFor
  <2>3. contexts[id].kind = "pcap_read" =>
          (Waits(id) \/ Ending(id) \/ (pcapState = "Transferring" /\ transfer.id = id))'
    BY <1>1, <1>4, <1>5, <2>1 DEF Accounted, AccountedFor
  <2>4. ASSUME contexts[id].kind = "pcap_write"
        PROVE  \/ (Waits(id))'
               \/ pcapState' # "Idle" /\ capture'.id = id
               \/ \E i \in DOMAIN toHandler' : Of(toHandler'[i], id) /\ Failing(toHandler'[i])
               \/ \E by \in DOMAIN contexts' :
                    contexts'[by].kind = "pcap_read" /\ (Ending(by))' /\ (Relates(by, id))'
    <3>1. CASE Waits(id) \/ (pcapState # "Idle" /\ capture.id = id)
      BY <1>1, <1>4, <3>1
    <3>2. CASE \E i \in DOMAIN toHandler : Of(toHandler[i], id) /\ Failing(toHandler[i])
      BY <1>6, <2>4, <3>2
    <3>3. CASE \E by \in DOMAIN contexts :
                 contexts[by].kind = "pcap_read" /\ Ending(by) /\ Relates(by, id)
      BY <1>7, <2>1, <2>4, <3>3
    <3> QED
      BY <2>1, <2>4, <3>1, <3>2, <3>3 DEF Accounted, AccountedFor
  <2> QED
    BY <2>1, <2>2, <2>3, <2>4 DEF AccountedFor
<1> QED
  BY <1>8 DEF Accounted

LEMMA TakePostedTakes ==
  ASSUME TypeOK, OwnersInvariant, TakePosted
  PROVE  Taking
<1> DEFINE event == Head(toHandler)
<1>1. event \in Posted /\ toHandler # << >> /\ toHandler' = Tail(toHandler)
  BY DEF TakePosted, TypeOK
<1>2. NothingWithoutSocket
  BY DEF OwnersInvariant, NothingWithoutSocket
<1>3. CASE event.type = "response" /\ EnqueueResponse(event.response) /\ UNCHANGED toControl
  <2>1. event.response \in Response /\ event = [type |-> "response", response |-> event.response]
    BY <1>1, <1>3 DEF Posted
  <2>2. Handles(event)
    BY <1>2, <1>3, <2>1, ResponseHandled
  <2>3. UNCHANGED <<socket, generation, requestCounter, toPcap>>
    BY <1>3 DEF EnqueueResponse
  <2> QED
    BY <1>1, <1>3, <2>2, <2>3 DEF Taking, TakePosted
<1>4. CASE event.type = "chunk" /\ EnqueuePcapChunk(event.id, event.sequence, event.final, event.of)
  <2>1. Handles(event)
    BY <1>1, <1>2, <1>4, ChunkHandled
  <2>2. UNCHANGED <<socket, generation, requestCounter, toPcap, toControl>>
    BY <1>4 DEF EnqueuePcapChunk
  <2> QED
    BY <1>1, <2>1, <2>2 DEF Taking, TakePosted
<1> QED
  BY <1>3, <1>4 DEF TakePosted

(* Whatever else the main thread and the client do, until the client is     *)
(* gone: contexts of control requests go, a new one comes, with its request *)
(* for PCAP.                                                                *)
Fresh(id) == id = requestCounter' /\ requestCounter < id
Added(event) ==
  \/ event.type # "request"
  \/ event.type = "request" /\ Fresh(event.id)
     /\ (socket' /\ event.of = generation' =>
           /\ event.id \in DOMAIN contexts' /\ contexts'[event.id].kind = event.kind
           /\ contexts'[event.id].related = 0)

Talking ==
  /\ UNCHANGED generation /\ UNCHANGED pcapVars
  /\ socket' => socket
  /\ ~socket' => DOMAIN contexts' = {}
  /\ requestCounter' \in Nat /\ requestCounter <= requestCounter'
  /\ socket' => \A id \in DOMAIN contexts : contexts[id].kind # "control" => id \in DOMAIN contexts'
  /\ \A id \in DOMAIN contexts' :
       \/ id \in DOMAIN contexts /\ contexts'[id].kind = contexts[id].kind
          /\ contexts'[id].related = contexts[id].related
       \/ Fresh(id) /\ contexts'[id].related = 0 /\ (contexts'[id].kind \in PcapKinds => (Waits(id))')
  /\ \A request \in toControl' :
       \/ request \in toControl
       \/ request.id \in DOMAIN contexts' => contexts'[request.id].kind = "control"
  /\ UNCHANGED toPcap \/ \E event \in PcapEvents : toPcap' = Append(toPcap, event) /\ Added(event)

LEMMA TalkingEvents ==
  ASSUME TypeOK, Talking
  PROVE  /\ \A i \in DOMAIN toPcap : i \in DOMAIN toPcap' /\ toPcap'[i] = toPcap[i]
         /\ \A i, j \in DOMAIN toPcap' : i < j => i \in DOMAIN toPcap
         /\ \A i \in DOMAIN toPcap' : i \in DOMAIN toPcap \/ Added(toPcap'[i])
         /\ \A i \in DOMAIN toPcap : (Asks(i))' <=> Asks(i)
<1>1. CASE UNCHANGED toPcap
  BY <1>1 DEF Asks
<1>2. CASE \E event \in PcapEvents : toPcap' = Append(toPcap, event) /\ Added(event)
  <2>1. PICK event \in PcapEvents : toPcap' = Append(toPcap, event) /\ Added(event)
    BY <1>2
  <2>2. PICK n \in Nat :
          /\ DOMAIN toPcap' = 1..n + 1 /\ DOMAIN toPcap = 1..n
          /\ \A i \in DOMAIN toPcap : toPcap'[i] = toPcap[i]
          /\ toPcap'[n + 1] = event
    BY <2>1, EventTypes, Appended
  <2>3. /\ \A i \in DOMAIN toPcap : i \in DOMAIN toPcap'
        /\ \A i, j \in DOMAIN toPcap' : i < j => i \in DOMAIN toPcap
        /\ \A i \in DOMAIN toPcap' : i \in DOMAIN toPcap \/ i = n + 1
    BY <2>2
  <2> QED
    BY <2>1, <2>2, <2>3 DEF Asks
<1> QED
  BY <1>1, <1>2 DEF Talking

LEMMA TalkingContexts ==
  ASSUME TypeOK, Talking
  PROVE  /\ \A id : Fresh(id) => id \notin DOMAIN contexts
         /\ \A id \in DOMAIN contexts : id \in DOMAIN contexts' =>
              contexts'[id].kind = contexts[id].kind /\ contexts'[id].related = contexts[id].related
         /\ \A id \in DOMAIN contexts, kind \in PcapKinds : socket' /\ contexts[id].kind = kind =>
              id \in DOMAIN contexts' /\ contexts'[id].kind = kind /\ contexts'[id].related = contexts[id].related
<1>1. \A id : Fresh(id) => id \notin DOMAIN contexts
  BY DEF Fresh, TypeOK, HandlerTypeOK
<1>2. "control" \notin PcapKinds
  BY DEF PcapKinds
<1> QED
  BY <1>1, <1>2 DEF Talking

LEMMA NumbersInNat ==
  ASSUME TypeOK
  PROVE  /\ requestCounter \in Nat /\ capture.id \in Nat /\ transfer.id \in Nat
         /\ \A i \in DOMAIN toHandler : toHandler[i] \in Posted /\ \A id \in Numbers(toHandler[i]) : id \in Nat
         /\ \A id \in DOMAIN contexts : id \in Nat /\ id # 0 /\ contexts[id].related \in Nat
         /\ \A i \in DOMAIN toPcap : Asks(i) => toPcap[i].id \in Nat /\ toPcap[i].kind \in PcapKinds
         /\ \A k \in DOMAIN pcapQueue : pcapQueue[k].id \in Nat /\ pcapQueue[k].kind \in PcapKinds
<1>1. requestCounter \in Nat /\ capture.id \in Nat /\ transfer.id \in Nat
      /\ \A id \in DOMAIN contexts : id \in Nat /\ id # 0 /\ contexts[id].related \in Nat
  <2>1. HandlerTypeOK /\ PcapTypeOK
    BY DEF TypeOK
  <2>2. capture.id \in Nat /\ transfer.id \in Nat
    BY <2>1 DEF PcapTypeOK, Owner
  <2>3. /\ requestCounter \in Nat /\ DOMAIN contexts \subseteq 1..requestCounter
        /\ \A id \in DOMAIN contexts : contexts[id] \in RequestContext
    BY <2>1 DEF HandlerTypeOK
  <2>4. \A context \in RequestContext : context.related \in Nat
    BY DEF RequestContext
  <2>5. \A id \in 1..requestCounter : id \in Nat /\ id # 0
    BY <2>3
  <2> QED
    BY <2>2, <2>3, <2>4, <2>5
<1>2. \A i \in DOMAIN toHandler : toHandler[i] \in Posted
  BY DEF TypeOK
<1>3. \A i \in DOMAIN toPcap : Asks(i) => toPcap[i].id \in Nat /\ toPcap[i].kind \in PcapKinds
  BY EventTypes, EventsForPcap DEF Asks
<1>4. \A k \in DOMAIN pcapQueue : pcapQueue[k].id \in Nat /\ pcapQueue[k].kind \in PcapKinds
  BY EventTypes DEF PcapRequest
<1> QED
  BY <1>1, <1>2, <1>3, <1>4, EventFacts

LEMMA TalkingOrdered ==
  ASSUME TypeOK, OwnersInvariant, Talking, Ordered
  PROVE  Ordered'
<1>1. UNCHANGED <<pcapQueue, capture, transfer, toHandler>> /\ requestCounter' \in Nat
      /\ requestCounter <= requestCounter'
  BY DEF Talking, pcapVars
<1>2. /\ \A i \in DOMAIN toPcap : Asks(i) => toPcap[i].id <= requestCounter
      /\ \A k \in DOMAIN pcapQueue : pcapQueue[k].id <= requestCounter
  BY DEF OwnersInvariant, Belongs, Asks
<1>3. ASSUME NEW i \in DOMAIN toPcap', (Asks(i))'
      PROVE  \/ i \in DOMAIN toPcap /\ Asks(i) /\ toPcap'[i] = toPcap[i]
             \/ i \notin DOMAIN toPcap /\ toPcap'[i].id = requestCounter' /\ requestCounter < requestCounter'
  <2>1. CASE i \in DOMAIN toPcap
    BY <1>3, <2>1, TalkingEvents
  <2>2. CASE i \notin DOMAIN toPcap
    <3>1. toPcap'[i].type = "request" /\ Added(toPcap'[i])
      BY <1>3, <2>2, TalkingEvents DEF Asks
    <3> QED
      BY <2>2, <3>1 DEF Added, Fresh
  <2> QED
    BY <2>1, <2>2
<1>4. ASSUME NEW id \in Nat, Behind(id) PROVE (Behind(id))'
  <2>1. id <= requestCounter' /\ (requestCounter < requestCounter' => id < requestCounter')
    BY <1>1, <1>4, NumbersInNat DEF Behind
  <2>2. \A i \in DOMAIN toPcap' : (Asks(i))' => id < toPcap'[i].id
    BY <1>3, <1>4, <2>1 DEF Behind
  <2> QED
    BY <1>1, <1>4, <2>1, <2>2 DEF Behind
<1>5. ASSUME NEW i \in DOMAIN toPcap', NEW j \in DOMAIN toPcap', i < j, (Asks(i))', (Asks(j))'
      PROVE  toPcap'[i].id < toPcap'[j].id
  <2>1. i \in DOMAIN toPcap /\ Asks(i) /\ toPcap'[i] = toPcap[i]
    BY <1>5, TalkingEvents
  <2>2. CASE j \in DOMAIN toPcap /\ Asks(j) /\ toPcap'[j] = toPcap[j]
    BY <1>5, <2>1, <2>2 DEF Ordered
  <2>3. CASE toPcap'[j].id = requestCounter' /\ requestCounter < requestCounter'
    <3>1. toPcap[i].id \in Nat /\ toPcap[i].id <= requestCounter /\ requestCounter \in Nat
      BY <1>2, <2>1, NumbersInNat
    <3> QED
      BY <1>1, <2>1, <2>3, <3>1
  <2> QED
    BY <1>3, <1>5, <2>2, <2>3
<1>6. ASSUME NEW k \in DOMAIN pcapQueue, NEW i \in DOMAIN toPcap', (Asks(i))'
      PROVE  pcapQueue[k].id < toPcap'[i].id
  <2>1. pcapQueue[k].id \in Nat /\ pcapQueue[k].id <= requestCounter /\ requestCounter \in Nat
    BY <1>2, NumbersInNat
  <2>2. CASE i \in DOMAIN toPcap /\ Asks(i) /\ toPcap'[i] = toPcap[i]
    BY <2>2 DEF Ordered
  <2>3. CASE toPcap'[i].id = requestCounter' /\ requestCounter < requestCounter'
    BY <1>1, <2>1, <2>3
  <2> QED
    BY <1>3, <1>6, <2>2, <2>3
<1>7. /\ \A i \in DOMAIN toHandler : \A id \in Numbers(toHandler[i]) : (Behind(id))'
      /\ (Behind(0))' /\ (Behind(capture.id))' /\ (Behind(transfer.id))'
  <2>1. Behind(capture.id) /\ Behind(transfer.id) /\ Behind(0)
        /\ capture'.id = capture.id /\ transfer'.id = transfer.id
    BY <1>1 DEF Ordered
  <2>2. \A i \in DOMAIN toHandler : \A id \in Numbers(toHandler[i]) : (Behind(id))'
    BY <1>4, NumbersInNat DEF Ordered
  <2>3. \A id \in Nat : Behind(id) => (Behind(id))'
    BY <1>4
  <2> QED
    BY <1>1, <2>1, <2>2, <2>3, NumbersInNat DEF Behind
<1>8. \A id \in DOMAIN contexts' : (Behind(contexts[id].related))'
  <2> SUFFICES ASSUME NEW id \in DOMAIN contexts' PROVE (Behind(contexts[id].related))'
    OBVIOUS
  <2>1. contexts'[id].related \in Nat /\ Behind(contexts'[id].related)
    BY NumbersInNat DEF Talking, Ordered
  <2> QED
    BY <1>4, <2>1 DEF Behind
<1> QED
  BY <1>1, <1>5, <1>6, <1>7, <1>8 DEF Ordered, Asks, Numbers

LEMMA TalkingWaiting ==
  ASSUME TypeOK, OwnersInvariant, Talking, WaitingHaveContexts
  PROVE  WaitingHaveContexts'
<1>1. UNCHANGED <<generation, pcapQueue>> /\ (socket' => socket)
  BY DEF Talking, pcapVars
<1>2. ASSUME NEW i \in DOMAIN toPcap', (Asks(i))' PROVE (Waiting(toPcap[i]))'
  <2>1. CASE i \in DOMAIN toPcap
    <3>1. Asks(i) /\ toPcap'[i] = toPcap[i]
      BY <1>2, <2>1, TalkingEvents
    <3>2. Waiting(toPcap[i]) /\ toPcap[i].kind \in PcapKinds
      BY <2>1, <3>1, NumbersInNat DEF WaitingHaveContexts
    <3> QED
      BY <1>1, <3>1, <3>2, TalkingContexts DEF Waiting, Has
  <2>2. CASE Added(toPcap'[i])
    BY <1>2, <2>2 DEF Added, Asks, Waiting, Has
  <2> QED
    BY <2>1, <2>2, TalkingEvents
<1>3. ASSUME NEW k \in DOMAIN pcapQueue' PROVE (Waiting(pcapQueue[k]))'
  <2>1. Waiting(pcapQueue[k]) /\ pcapQueue[k].kind \in PcapKinds /\ pcapQueue'[k] = pcapQueue[k]
    BY <1>1, <1>3, NumbersInNat DEF WaitingHaveContexts
  <2> QED
    BY <1>1, <2>1, TalkingContexts DEF Waiting, Has
<1>4. ASSUME NEW request \in toControl', request.id \in DOMAIN contexts' PROVE (Has(request.id, "control"))'
  <2>1. CASE request \in toControl
    <3>1. request.id \in Nat /\ request.id <= requestCounter /\ requestCounter \in Nat
      BY <2>1 DEF OwnersInvariant, Belongs, TypeOK, HandlerTypeOK
    <3>2. request.id \in DOMAIN contexts
      BY <1>4, <3>1 DEF Talking, Fresh
    <3> QED
      BY <1>4, <2>1, <3>2, TalkingContexts DEF WaitingHaveContexts, Has
  <2> QED
    BY <1>4, <2>1 DEF Talking, Has
<1> QED
  BY <1>2, <1>3, <1>4 DEF WaitingHaveContexts

LEMMA TalkingCapture ==
  ASSUME TypeOK, Talking, CaptureLinked, TransferLinked
  PROVE  CaptureLinked' /\ TransferLinked'
<1>1. UNCHANGED <<generation, pcapState, capture, transfer, transferTimer, toHandler>> /\ (socket' => socket)
  BY DEF Talking, pcapVars
<1>2. "pcap_write" \in PcapKinds /\ "pcap_read" \in PcapKinds
  BY DEF PcapKinds
<1>3. \A id \in DOMAIN contexts' : contexts'[id].related = capture.id /\ capture.id # 0 =>
        id \in DOMAIN contexts /\ contexts[id].related = capture.id
  BY DEF Talking
<1>4. socket' => \A id : (Has(id, "pcap_write") => (Has(id, "pcap_write"))') /\ (Has(id, "pcap_read") => (Has(id, "pcap_read"))')
  BY <1>2, TalkingContexts DEF Has
<1>5. CaptureLinked'
  BY <1>1, <1>3, <1>4 DEF CaptureLinked, Of, Final, Failing, Relating, Answered, Has
<1>6. socket' => \A id : Has(id, "pcap_read") /\ Relates(id, capture.id) => (Relates(id, capture.id))'
  BY <1>1, <1>2, TalkingContexts DEF Has, Relates, Of, Relating, Answered
<1>7. TransferLinked'
  BY <1>1, <1>4, <1>6 DEF TransferLinked, Of, Final, Answered, Has, Relates, Relating
<1> QED
  BY <1>5, <1>7

LEMMA TalkingReads ==
  ASSUME TypeOK, Ordered, Talking, ReadsEndOnce
  PROVE  ReadsEndOnce'
<1>1. UNCHANGED toHandler
  BY DEF Talking, pcapVars
<1>2. ASSUME NEW i \in DOMAIN toHandler, NEW id \in DOMAIN contexts', Of(toHandler[i], id)
      PROVE  /\ id \in DOMAIN contexts
             /\ contexts'[id].kind = contexts[id].kind /\ contexts'[id].related = contexts[id].related
  <2>1. id \in Numbers(toHandler[i]) /\ id \in Nat /\ requestCounter \in Nat
    BY <1>2, NumbersInNat, EventFacts
  <2>2. id <= requestCounter
    BY <2>1 DEF Ordered, Behind
  <2>3. ~Fresh(id)
    BY <2>1, <2>2 DEF Fresh
  <2> QED
    BY <2>3 DEF Talking
<1> QED
  BY <1>1, <1>2 DEF ReadsEndOnce, Of, Final, NoCapture, Answered

LEMMA TalkingAccounted ==
  ASSUME TypeOK, Talking, Accounted
  PROVE  Accounted'
<1>1. UNCHANGED <<toHandler, pcapQueue, pcapState, capture, transfer>>
  BY DEF Talking, pcapVars
<1>2. \A id : Waits(id) => (Waits(id))'
  BY <1>1, TalkingEvents DEF Waits
<1>3. \A id : Ending(id) => (Ending(id))'
  BY <1>1 DEF Ending, Of, Final, Answered
<1>4. {"pcap_read", "pcap_write", "pcap_interfaces"} = PcapKinds
  BY DEF PcapKinds
<1>5. socket' => \A by \in DOMAIN contexts : \A id : contexts[by].kind = "pcap_read" /\ Relates(by, id) =>
        by \in DOMAIN contexts' /\ contexts'[by].kind = "pcap_read" /\ (Relates(by, id))'
  BY <1>1, <1>4, TalkingContexts DEF Relates, Of, Relating, Answered
<1>6. ASSUME NEW id \in DOMAIN contexts' PROVE (AccountedFor(id))'
  <2>0. socket'
    BY DEF Talking
  <2>1. CASE Fresh(id) /\ (contexts'[id].kind \in PcapKinds => (Waits(id))')
    BY <1>4, <2>1 DEF AccountedFor
  <2>2. CASE id \in DOMAIN contexts /\ contexts'[id].kind = contexts[id].kind
    <3>1. AccountedFor(id)
      BY <2>2 DEF Accounted
    <3>2. contexts[id].kind = "pcap_interfaces" => (Waits(id) \/ Ending(id))'
      BY <1>2, <1>3, <3>1 DEF AccountedFor
    <3>3. contexts[id].kind = "pcap_read" =>
            (Waits(id) \/ Ending(id) \/ (pcapState = "Transferring" /\ transfer.id = id))'
      BY <1>1, <1>2, <1>3, <3>1 DEF AccountedFor
    <3>4. ASSUME contexts[id].kind = "pcap_write"
          PROVE  \/ (Waits(id))'
                 \/ pcapState' # "Idle" /\ capture'.id = id
                 \/ \E i \in DOMAIN toHandler' : Of(toHandler'[i], id) /\ Failing(toHandler'[i])
                 \/ \E by \in DOMAIN contexts' :
                      contexts'[by].kind = "pcap_read" /\ (Ending(by))' /\ (Relates(by, id))'
      BY <1>1, <1>2, <1>3, <1>5, <2>0, <3>1, <3>4 DEF AccountedFor
    <3> QED
      BY <2>2, <3>2, <3>3, <3>4 DEF AccountedFor
  <2> QED
    BY <2>1, <2>2 DEF Talking
<1> QED
  BY <1>6 DEF Accounted

LEMMA StaysTalking ==
  ASSUME TypeOK, OwnersInvariant,
         UNCHANGED <<socket, generation, contexts, toControl>>, UNCHANGED pcapVars,
         requestCounter' \in Nat, requestCounter <= requestCounter',
         UNCHANGED toPcap \/ \E event \in PcapEvents : toPcap' = Append(toPcap, event) /\ event.type = "chunk"
  PROVE  Talking
<1>1. "chunk" # "request"
  OBVIOUS
<1>2. UNCHANGED toPcap \/ \E event \in PcapEvents : toPcap' = Append(toPcap, event) /\ Added(event)
  BY <1>1 DEF Added
<1>3. ~socket => DOMAIN contexts = {}
  BY DEF OwnersInvariant
<1> QED
  BY <1>2, <1>3 DEF Talking

(* A response of the control path ends its own request only.                *)
LEMMA ControlTalks ==
  ASSUME TypeOK, OwnersInvariant, WaitingHaveContexts, ControlResponds
  PROVE  Talking
<1>1. PICK request \in toControl, final \in BOOLEAN :
        /\ toControl' = IF final THEN toControl \ {request} ELSE toControl
        /\ EnqueueResponse([id |-> request.id, final |-> final, outcome |-> "success",
                            related |-> 0, transfer |-> FALSE, of |-> request.of])
  BY DEF ControlResponds
<1> DEFINE response == [id |-> request.id, final |-> final, outcome |-> "success",
                        related |-> 0, transfer |-> FALSE, of |-> request.of]
           event == [type |-> "response", response |-> response]
<1>2. response \in Response /\ EnqueueResponse(response) /\ response.related = 0 /\ response.id = request.id
  BY <1>1 DEF TypeOK, HandlerTypeOK, Response, Outcomes
<1> HIDE DEF response
<1>3. NothingWithoutSocket
  BY DEF OwnersInvariant, NothingWithoutSocket
<1>4. Handles(event)
  BY <1>2, <1>3, ResponseHandled
<1>5. event.type = "response" /\ event.response = response
  OBVIOUS
<1>6. NoCapture(event) /\ \A id : Of(event, id) <=> id = request.id
  BY <1>2, <1>5 DEF NoCapture, Of, Answered
<1> HIDE DEF event
<1>7. \A id \in DOMAIN contexts : Of(event, id) => contexts[id].kind = "control"
  BY <1>6 DEF WaitingHaveContexts, Has
<1>8. "control" # "pcap_read"
  OBVIOUS
<1>9. \A id \in DOMAIN contexts : Takes(event, id) => contexts[id].kind = "control"
  BY <1>7, <1>8 DEF Takes
<1>10. /\ \A id \in DOMAIN contexts : contexts[id].kind # "control" => id \in DOMAIN contexts'
       /\ \A id \in DOMAIN contexts' :
            id \in DOMAIN contexts /\ contexts'[id].kind = contexts[id].kind /\ contexts'[id].related = contexts[id].related
  BY <1>4, <1>6, <1>9 DEF Handles
<1>11. UNCHANGED <<socket, generation, requestCounter, toPcap>> /\ UNCHANGED pcapVars
       /\ \A other \in toControl' : other \in toControl
  BY <1>1 DEF ControlResponds, EnqueueResponse
<1>12. requestCounter' \in Nat /\ requestCounter <= requestCounter'
  BY <1>11 DEF TypeOK, HandlerTypeOK
<1>13. ~socket' => DOMAIN contexts' = {}
  BY <1>10, <1>11 DEF OwnersInvariant
<1> QED
  BY <1>10, <1>11, <1>12, <1>13 DEF Talking

(* A request comes with its context.                                        *)
LEMMA RequestTalks ==
  ASSUME TypeOK, OwnersInvariant, NEW client, NEW kind \in RequestKinds, HandleRequest(client, kind),
         socket, UNCHANGED pcapVars
  PROVE  Talking
<1> DEFINE id == requestCounter + 1
           event == [type |-> "request", id |-> id, kind |-> kind, of |-> generation]
<1>1. requestCounter \in Nat /\ generation \in Nat /\ requestCounter' = id /\ UNCHANGED <<socket, generation>>
      /\ id \in Nat /\ requestCounter < id
  BY DEF TypeOK, HandlerTypeOK, HandleRequest
<1>2. CASE kind = "unknown"
  <2>1. UNCHANGED <<contexts, toPcap, toControl>>
    BY <1>2 DEF HandleRequest
  <2> QED
    BY <1>1, <2>1, StaysTalking
<1>3. CASE kind # "unknown"
  <2>1. /\ contexts' = Remember(contexts, id, [client |-> client, generation |-> generation, kind |-> kind, related |-> 0])
        /\ toPcap' = IF kind \in PcapKinds THEN Append(toPcap, event) ELSE toPcap
        /\ toControl' = IF kind = "control" THEN toControl \union {[id |-> id, of |-> generation]} ELSE toControl
    BY <1>3 DEF HandleRequest
  <2>2. event.type = "request" /\ event.id = id /\ event.kind = kind /\ (kind \in PcapKinds => event \in PcapEvents)
    BY <1>1, EventsForPcap
  <2> HIDE DEF event
  <2>3. /\ id \in DOMAIN contexts' /\ contexts'[id].kind = kind /\ contexts'[id].related = 0
        /\ \A i \in DOMAIN contexts : i \in DOMAIN contexts'
        /\ \A i \in DOMAIN contexts' : i = id \/ (i \in DOMAIN contexts /\ contexts'[i] = contexts[i])
    BY <2>1 DEF Remember
  <2> HIDE DEF id
  <2>4. Fresh(id)
    BY <1>1 DEF Fresh
  <2>5. UNCHANGED toPcap \/ \E asked \in PcapEvents : toPcap' = Append(toPcap, asked) /\ Added(asked)
    <3>1. Added(event)
      BY <2>2, <2>3, <2>4 DEF Added
    <3> QED
      BY <2>1, <2>2, <3>1
  <2>6. ASSUME NEW i, i = id, kind \in PcapKinds PROVE (Waits(i))'
    <3>1. PICK n \in Nat : n + 1 \in DOMAIN toPcap' /\ toPcap'[n + 1] = event
      <4>1. toPcap' = Append(toPcap, event) /\ event \in PcapEvents /\ toPcap \in Seq(PcapEvents)
        BY <2>1, <2>2, <2>6, EventTypes
      <4>2. /\ DOMAIN Append(toPcap, event) = 1..Len(toPcap) + 1 /\ Len(toPcap) \in Nat
            /\ Append(toPcap, event)[Len(toPcap) + 1] = event
        BY <4>1, Appended
      <4> QED
        BY <4>1, <4>2
    <3> QED
      BY <2>2, <2>6, <3>1 DEF Waits, Asks
  <2>7. \A request \in toControl' :
          request \in toControl \/ (request.id \in DOMAIN contexts' => contexts'[request.id].kind = "control")
    BY <2>1, <2>3
  <2>8. \A i \in DOMAIN contexts' :
          \/ i \in DOMAIN contexts /\ contexts'[i].kind = contexts[i].kind /\ contexts'[i].related = contexts[i].related
          \/ Fresh(i) /\ contexts'[i].related = 0 /\ (contexts'[i].kind \in PcapKinds => (Waits(i))')
    <3> SUFFICES ASSUME NEW i \in DOMAIN contexts', i = id
                 PROVE  Fresh(i) /\ contexts'[i].related = 0 /\ (contexts'[i].kind \in PcapKinds => (Waits(i))')
      BY <2>3
    <3>1. contexts'[i].kind = kind /\ contexts'[i].related = 0 /\ Fresh(i)
      BY <2>3, <2>4
    <3> QED
      BY <2>6, <3>1
  <2>9. requestCounter' \in Nat /\ requestCounter <= requestCounter'
    BY <1>1
  <2> QED
    BY <1>1, <2>3, <2>5, <2>7, <2>8, <2>9 DEF Talking
<1> QED
  BY <1>2, <1>3

LEMMA MainThreadTalks ==
  ASSUME TypeOK, OwnersInvariant, WaitingHaveContexts,
         \/ TakeAck \/ ControlResponds \/ AckTimeout \/ Disconnect
         \/ ClientRequests \/ ClientReceives \/ ClientRepeatsAck \/ RestrictLogin \/ UNCHANGED vars
  PROVE  Talking
<1>1. requestCounter \in Nat /\ requestCounter <= requestCounter
  BY DEF TypeOK, HandlerTypeOK
<1>2. CASE TakeAck
  BY <1>1, <1>2, AckAsks, StaysTalking
<1>3. CASE ControlResponds
  BY <1>3, ControlTalks
<1>4. CASE AckTimeout \/ ClientReceives \/ ClientRepeatsAck \/ RestrictLogin \/ UNCHANGED vars
  <2>1. UNCHANGED <<socket, generation, contexts, toControl, requestCounter, toPcap>> /\ UNCHANGED pcapVars
    BY <1>4 DEF AckTimeout, ResendInFlight, ClientReceives, ClientRepeatsAck, RestrictLogin, vars, handlerVars
  <2> QED
    BY <1>1, <2>1, StaysTalking
<1>5. CASE ClientRequests
  <2>1. socket /\ UNCHANGED pcapVars
    BY <1>5 DEF ClientRequests
  <2>2. CASE HandleInvalidMessage
    <3>1. UNCHANGED <<socket, generation, contexts, toControl, requestCounter, toPcap>>
      BY <2>2 DEF HandleInvalidMessage
    <3> QED
      BY <1>1, <2>1, <3>1, StaysTalking
  <2>3. CASE \E kind \in RequestKinds : HandleRequest(sent + 1, kind)
    BY <2>1, <2>3, RequestTalks
  <2> QED
    BY <1>5, <2>2, <2>3 DEF ClientRequests
<1>6. CASE Disconnect
  <2> DEFINE event == [type |-> "disconnected", of |-> generation]
  <2>1. /\ contexts' = << >> /\ socket' = FALSE /\ toPcap' = Append(toPcap, event)
        /\ UNCHANGED <<generation, requestCounter, toControl>> /\ UNCHANGED pcapVars
    BY <1>6 DEF Disconnect, SocketDisconnected, ClearSession, PostDisconnected
  <2>2. event \in PcapEvents /\ event.type # "request"
    BY EventsForPcap DEF TypeOK, HandlerTypeOK
  <2> HIDE DEF event
  <2>3. DOMAIN contexts' = {} /\ Added(event)
    BY <2>1, <2>2 DEF Added
  <2> QED
    BY <1>1, <2>1, <2>2, <2>3 DEF Talking
<1> QED
  BY <1>2, <1>3, <1>4, <1>5, <1>6

(* The next client finds nothing of the one before, but what of PCAP is     *)
(* still at work for that one.                                              *)
LEMMA ConnectContexts ==
  ASSUME TypeOK, OwnersInvariant, CaptureInvariant, ContextInvariant, Connect
  PROVE  ContextInvariant'
<1>1. /\ ~socket /\ generation' = generation + 1 /\ generation \in Nat
      /\ UNCHANGED <<contexts, requestCounter, toPcap, toControl>> /\ UNCHANGED pcapVars
      /\ DOMAIN contexts = {}
  BY DEF Connect, SetSocket, TypeOK, HandlerTypeOK, OwnersInvariant
<1>2. UNCHANGED <<toHandler, pcapQueue, pcapState, capture, transfer, transferTimer>>
  BY <1>1 DEF pcapVars
<1>3. EventsInOrder /\ WorksInOrder
  BY CaptureParts
<1>4. \A of \in Nat : Current(of) => of <= generation
  BY <1>1, <1>3 DEF Current, EventsInOrder, Ends
<1>5. /\ \A i \in DOMAIN toPcap : Asks(i) => toPcap[i].of # generation'
      /\ \A k \in DOMAIN pcapQueue : pcapQueue[k].of # generation'
      /\ pcapState # "Idle" => capture.of # generation'
      /\ pcapState = "Transferring" => transfer.of # generation'
  <2>1. \A of \in Nat : of <= generation => of # generation'
    BY <1>1
  <2>2. \A i \in DOMAIN toPcap : Asks(i) => toPcap[i].of \in Nat /\ toPcap[i].of <= generation
    BY <1>3, EventTypes DEF EventsInOrder
  <2>3. \A k \in DOMAIN pcapQueue : pcapQueue[k].of \in Nat /\ pcapQueue[k].of <= generation
    BY <1>3, <1>4, EventTypes DEF WorksInOrder, CaptureOfItsClient
  <2>4. pcapState # "Idle" => capture.of \in Nat /\ capture.of <= generation
    BY <1>3, <1>4, EventTypes DEF WorksInOrder, CaptureOfItsClient
  <2> QED
    BY <1>3, <2>1, <2>2, <2>3, <2>4 DEF WorksInOrder, CaptureOfItsClient
<1>6. Ordered'
  BY <1>1, <1>2 DEF ContextInvariant, Ordered, Behind, Asks, Numbers
<1>7. WaitingHaveContexts'
  BY <1>1, <1>2, <1>5 DEF WaitingHaveContexts, Waiting, Asks
<1>8. CaptureLinked' /\ TransferLinked'
  BY <1>1, <1>2, <1>5 DEF ContextInvariant, CaptureLinked, TransferLinked, Of, Final, Failing, Relating, Answered
<1>9. ReadsEndOnce' /\ Accounted'
  BY <1>1 DEF ReadsEndOnce, Accounted
<1> QED
  BY <1>6, <1>7, <1>8, <1>9 DEF ContextInvariant

-----------------------------------------------------------------------------
(* What PCAP takes and posts, and the contexts *)

(* A sequence with its first d elements taken.                              *)
Shift(s, t, d) ==
  /\ \A i \in DOMAIN t : i + d \in DOMAIN s /\ t[i] = s[i + d]
  /\ \A i, j \in DOMAIN t : i < j => i + d < j + d
  /\ \A i \in DOMAIN s : d = 0 \/ i # 1 => i - d \in DOMAIN t /\ t[i - d] = s[i]
  /\ d = 0 => t = s
  /\ d = 1 => /\ s # << >> /\ t = Tail(s) /\ Head(s) = s[1] /\ 1 \in DOMAIN s
              /\ \A i \in DOMAIN t : 1 < i + d

LEMMA TailShorter ==
  ASSUME NEW S, NEW s \in Seq(S), s # << >>
  PROVE  Tail(s) # s
<1>1. PICK n \in Nat : DOMAIN s = 1..n /\ DOMAIN Tail(s) = 1..n - 1 /\ n >= 1
  BY Taken
<1>2. n \in DOMAIN s /\ n \notin DOMAIN Tail(s)
  BY <1>1
<1> QED
  BY <1>2

LEMMA Shifted ==
  ASSUME NEW S, NEW s \in Seq(S), NEW t, t = s \/ (s # << >> /\ t = Tail(s))
  PROVE  \E d \in {0, 1} : Shift(s, t, d)
<1>1. CASE t = s
  <2>1. \A i \in DOMAIN s : i \in Nat /\ i + 0 = i /\ i - 0 = i
    OBVIOUS
  <2>2. Shift(s, t, 0)
    BY <1>1, <2>1 DEF Shift
  <2> QED
    BY <2>2
<1>2. CASE s # << >> /\ t = Tail(s)
  <2>1. PICK n \in Nat :
          /\ DOMAIN s = 1..n /\ DOMAIN t = 1..n - 1 /\ 1 \in DOMAIN s
          /\ Head(s) = s[1]
          /\ \A i \in DOMAIN t : i + 1 \in DOMAIN s /\ t[i] = s[i + 1]
    BY <1>2, Taken
  <2>2. \A i \in DOMAIN s : i # 1 => i - 1 \in DOMAIN t /\ (i - 1) + 1 = i
    BY <2>1
  <2>3. \A i \in DOMAIN s : i # 1 => i - 1 \in DOMAIN t /\ t[i - 1] = s[i]
    BY <2>1, <2>2
  <2>4. /\ \A i, j \in DOMAIN t : i < j => i + 1 < j + 1
        /\ \A i \in DOMAIN t : 1 < i + 1
    BY <2>1
  <2>5. Shift(s, t, 1)
    BY <1>2, <2>1, <2>3, <2>4 DEF Shift
  <2> QED
    BY <2>5
<1> QED
  BY <1>1, <1>2

(* What PCAP takes from its two queues, and what it may name then.          *)
Advances ==
  /\ UNCHANGED <<socket, generation, requestCounter, contexts, toControl>>
  /\ \/ UNCHANGED toPcap
     \/ toPcap # << >> /\ toPcap' = Tail(toPcap) /\ Head(toPcap).type # "request"
  /\ UNCHANGED pcapQueue \/ (pcapQueue # << >> /\ pcapQueue' = Tail(pcapQueue))

Known(id) ==
  Behind(id) \/ (pcapQueue # << >> /\ pcapQueue' = Tail(pcapQueue) /\ id = Head(pcapQueue).id)

LEMMA AdvancesOrdered ==
  ASSUME TypeOK, OwnersInvariant, Ordered, Advances,
         \A i \in DOMAIN toHandler' : (i \in DOMAIN toHandler /\ toHandler'[i] = toHandler[i])
                                      \/ \A id \in Numbers(toHandler'[i]) : Known(id),
         Known(capture'.id), Known(transfer'.id)
  PROVE  Ordered'
<1>1. UNCHANGED <<requestCounter, contexts>>
  BY DEF Advances
<1>2. PICK d \in {0, 1} : Shift(toPcap, toPcap', d)
  BY Shifted, EventTypes DEF Advances
<1>3. PICK e \in {0, 1} : Shift(pcapQueue, pcapQueue', e)
  BY Shifted, EventTypes DEF Advances
<1>4. ASSUME NEW i \in DOMAIN toPcap', (Asks(i))'
      PROVE  i + d \in DOMAIN toPcap /\ Asks(i + d) /\ toPcap'[i] = toPcap[i + d]
  BY <1>2, <1>4 DEF Asks, Shift
<1>5. ASSUME NEW id, Known(id) PROVE (Behind(id))'
  <2>1. CASE Behind(id)
    BY <1>1, <1>3, <1>4, <2>1 DEF Behind, Shift
  <2>2. CASE pcapQueue # << >> /\ pcapQueue' = Tail(pcapQueue) /\ id = Head(pcapQueue).id /\ e = 1
    <3>1. id = pcapQueue[1].id /\ 1 \in DOMAIN pcapQueue
      BY <1>3, <2>2 DEF Shift
    <3>2. id <= requestCounter'
      BY <1>1, <3>1 DEF OwnersInvariant, Belongs
    <3>3. \A i \in DOMAIN toPcap' : (Asks(i))' => id < toPcap'[i].id
      BY <1>4, <3>1 DEF Ordered
    <3>4. \A k \in DOMAIN pcapQueue' : id < pcapQueue'[k].id
      BY <1>3, <2>2, <3>1 DEF Ordered, Shift
    <3> QED
      BY <3>2, <3>3, <3>4 DEF Behind
  <2>3. CASE pcapQueue # << >> /\ pcapQueue' = Tail(pcapQueue) /\ e = 0
    <3>1. Tail(pcapQueue) # pcapQueue
      BY <2>3, EventTypes, TailShorter
    <3> QED
      BY <1>3, <2>3, <3>1 DEF Shift
  <2> QED
    BY <1>3, <1>5, <2>1, <2>2, <2>3 DEF Known
<1>6. \A i \in DOMAIN toHandler' : \A id \in Numbers(toHandler'[i]) : (Behind(id))'
  <2>1. \A i \in DOMAIN toHandler' : \A id \in Numbers(toHandler'[i]) : Known(id)
    BY DEF Ordered, Known
  <2> QED
    BY <1>5, <2>1 DEF Behind
<1>7. \A id \in DOMAIN contexts' : (Behind(contexts[id].related))'
  <2>1. \A id \in DOMAIN contexts' : Known(contexts'[id].related)
    BY <1>1 DEF Ordered, Known
  <2> QED
    BY <1>5, <2>1 DEF Behind
<1>8. (Behind(0))' /\ (Behind(capture.id))' /\ (Behind(transfer.id))'
  <2>1. Known(0) /\ Known(capture'.id) /\ Known(transfer'.id)
    BY DEF Ordered, Known
  <2> QED
    BY <1>5, <2>1 DEF Behind
<1>9. ASSUME NEW i \in DOMAIN toPcap', NEW j \in DOMAIN toPcap', i < j, (Asks(i))', (Asks(j))'
      PROVE  toPcap'[i].id < toPcap'[j].id
  BY <1>2, <1>4, <1>9 DEF Ordered, Shift
<1>10. ASSUME NEW k \in DOMAIN pcapQueue', NEW l \in DOMAIN pcapQueue', k < l
       PROVE  pcapQueue'[k].id < pcapQueue'[l].id
  BY <1>3, <1>10 DEF Ordered, Shift
<1>11. ASSUME NEW k \in DOMAIN pcapQueue', NEW i \in DOMAIN toPcap', (Asks(i))'
       PROVE  pcapQueue'[k].id < toPcap'[i].id
  BY <1>3, <1>4, <1>11 DEF Ordered, Shift
<1> QED
  BY <1>6, <1>7, <1>8, <1>9, <1>10, <1>11 DEF Ordered, Asks, Numbers

LEMMA AdvancesWaiting ==
  ASSUME TypeOK, WaitingHaveContexts, Advances
  PROVE  WaitingHaveContexts'
<1>1. UNCHANGED <<socket, generation, contexts, toControl>>
  BY DEF Advances
<1>2. \A i \in DOMAIN toPcap' : \E j \in DOMAIN toPcap : toPcap'[i] = toPcap[j]
  <2>1. PICK d \in {0, 1} : Shift(toPcap, toPcap', d)
    BY Shifted, EventTypes DEF Advances
  <2> QED
    BY <2>1 DEF Shift
<1>3. \A k \in DOMAIN pcapQueue' : \E l \in DOMAIN pcapQueue : pcapQueue'[k] = pcapQueue[l]
  <2>1. PICK d \in {0, 1} : Shift(pcapQueue, pcapQueue', d)
    BY Shifted, EventTypes DEF Advances
  <2> QED
    BY <2>1 DEF Shift
<1>4. \A i \in DOMAIN toPcap' : (Asks(i))' => (Waiting(toPcap[i]))'
  BY <1>1, <1>2 DEF WaitingHaveContexts, Waiting, Has, Asks
<1>5. \A k \in DOMAIN pcapQueue' : (Waiting(pcapQueue[k]))'
  BY <1>1, <1>3 DEF WaitingHaveContexts, Waiting, Has
<1> QED
  BY <1>1, <1>4, <1>5 DEF WaitingHaveContexts, Has

(* The request taken from the queue is named nowhere yet.                   *)
LEMMA HeadOfQueue ==
  ASSUME TypeOK, OwnersInvariant, Ordered, WaitingHaveContexts, pcapQueue # << >>, NEW id, id = Head(pcapQueue).id
  PROVE  /\ id \in Nat /\ id # 0 /\ id # capture.id /\ id # transfer.id
         /\ \A i \in DOMAIN toHandler : ~Of(toHandler[i], id) /\ ~Relating(toHandler[i], id)
         /\ \A c \in DOMAIN contexts : contexts[c].related # id
         /\ id \in DOMAIN contexts => contexts[id].kind = Head(pcapQueue).kind /\ contexts[id].related = 0
         /\ Waiting(Head(pcapQueue)) /\ Belongs(Head(pcapQueue)) /\ Head(pcapQueue) \in PcapRequest
<1>1. 1 \in DOMAIN pcapQueue /\ Head(pcapQueue) = pcapQueue[1] /\ pcapQueue[1] \in PcapRequest
  BY EventTypes, Taken
<1>2. id \in Nat /\ ~Behind(id)
  BY <1>1, NumbersInNat DEF Behind
<1>3. \A i \in DOMAIN toHandler : toHandler[i] \in Posted /\ id \notin Numbers(toHandler[i])
  BY <1>2, NumbersInNat DEF Ordered
<1>4. \A i \in DOMAIN toHandler : ~Of(toHandler[i], id) /\ ~Relating(toHandler[i], id)
  BY <1>3, EventFacts
<1>5. Waiting(pcapQueue[1]) /\ Belongs(pcapQueue[1])
  BY <1>1 DEF WaitingHaveContexts, OwnersInvariant
<1>6. id \in DOMAIN contexts => contexts[id].kind = Head(pcapQueue).kind /\ contexts[id].related = 0
  BY <1>1, <1>5 DEF OwnersInvariant, Belongs, Waiting, Has
<1> QED
  BY <1>1, <1>2, <1>4, <1>5, <1>6 DEF Ordered

(* What is posted goes behind what is.                                      *)
Posts(event) == event \in Posted /\ toHandler' = Append(toHandler, event)

LEMMA PostsBehind ==
  ASSUME TypeOK, NEW event, Posts(event)
  PROVE  /\ \A i \in DOMAIN toHandler : i \in DOMAIN toHandler' /\ toHandler'[i] = toHandler[i]
         /\ \A i \in DOMAIN toHandler' : (i \in DOMAIN toHandler /\ toHandler'[i] = toHandler[i]) \/ toHandler'[i] = event
         /\ \A i, j \in DOMAIN toHandler' : i < j => i \in DOMAIN toHandler
         /\ \E i \in DOMAIN toHandler' : toHandler'[i] = event
<1>1. PICK n \in Nat :
        /\ DOMAIN toHandler' = 1..n + 1 /\ DOMAIN toHandler = 1..n
        /\ \A i \in DOMAIN toHandler : toHandler'[i] = toHandler[i]
        /\ toHandler'[n + 1] = event
  <2>1. toHandler \in Seq(Posted) /\ event \in Posted /\ toHandler' = Append(toHandler, event)
    BY DEF Posts, TypeOK
  <2>2. /\ DOMAIN Append(toHandler, event) = 1..Len(toHandler) + 1 /\ DOMAIN toHandler = 1..Len(toHandler)
        /\ \A i \in DOMAIN toHandler : Append(toHandler, event)[i] = toHandler[i]
        /\ Append(toHandler, event)[Len(toHandler) + 1] = event
        /\ Len(toHandler) \in Nat
    BY <2>1, Appended
  <2> QED
    BY <2>1, <2>2
<1>2. /\ \A i \in DOMAIN toHandler : i \in DOMAIN toHandler'
      /\ \A i, j \in DOMAIN toHandler' : i < j => i \in DOMAIN toHandler
      /\ \A i \in DOMAIN toHandler' : i \in DOMAIN toHandler \/ i = n + 1
      /\ n + 1 \in DOMAIN toHandler'
  BY <1>1
<1> QED
  BY <1>1, <1>2

LEMMA PostsReads ==
  ASSUME TypeOK, ReadsEndOnce, UNCHANGED contexts, NEW event, Posts(event),
         \A i \in DOMAIN toHandler, id \in DOMAIN contexts :
           Of(toHandler[i], id) /\ Of(event, id) /\ contexts[id].kind = "pcap_read" =>
             ~Final(toHandler[i]) /\ NoCapture(event),
         \A id \in DOMAIN contexts : Of(event, id) /\ contexts[id].related # 0 => NoCapture(event),
         \A id \in DOMAIN contexts : Of(event, id) /\ event.type = "chunk" => contexts[id].kind = "pcap_read"
  PROVE  ReadsEndOnce'
<1>1. ASSUME NEW i \in DOMAIN toHandler', NEW j \in DOMAIN toHandler', NEW id \in DOMAIN contexts,
             i < j, Of(toHandler'[i], id), Of(toHandler'[j], id), contexts[id].kind = "pcap_read"
      PROVE  ~Final(toHandler'[i]) /\ (NoCapture(toHandler'[i]) \/ NoCapture(toHandler'[j]))
  <2>1. i \in DOMAIN toHandler /\ toHandler'[i] = toHandler[i]
    BY <1>1, PostsBehind
  <2>2. CASE j \in DOMAIN toHandler /\ toHandler'[j] = toHandler[j]
    BY <1>1, <2>1, <2>2 DEF ReadsEndOnce
  <2>3. CASE toHandler'[j] = event
    BY <1>1, <2>1, <2>3
  <2> QED
    BY <2>2, <2>3, PostsBehind
<1>2. ASSUME NEW i \in DOMAIN toHandler', NEW id \in DOMAIN contexts, Of(toHandler'[i], id), contexts[id].related # 0
      PROVE  NoCapture(toHandler'[i])
  BY <1>2, PostsBehind DEF ReadsEndOnce
<1>3. ASSUME NEW i \in DOMAIN toHandler', NEW id \in DOMAIN contexts, Of(toHandler'[i], id), toHandler'[i].type = "chunk"
      PROVE  contexts[id].kind = "pcap_read"
  BY <1>3, PostsBehind DEF ReadsEndOnce
<1> QED
  BY <1>1, <1>2, <1>3 DEF ReadsEndOnce, Of, Final, NoCapture, Answered

LEMMA StaysAccounted ==
  ASSUME UNCHANGED contexts, NEW id \in DOMAIN contexts, AccountedFor(id),
         \A i \in DOMAIN toHandler : i \in DOMAIN toHandler' /\ toHandler'[i] = toHandler[i],
         Waits(id) => (Waits(id))',
         pcapState = "Transferring" /\ transfer.id = id => pcapState' = "Transferring" /\ transfer'.id = id,
         pcapState # "Idle" /\ capture.id = id => pcapState' # "Idle" /\ capture'.id = id
  PROVE  (AccountedFor(id))'
<1>1. \A by : Ending(by) => (Ending(by))'
  BY DEF Ending, Of, Final, Answered
<1>2. \A by : Relates(by, id) => (Relates(by, id))'
  BY DEF Relates, Of, Relating, Answered
<1>3. contexts[id].kind = "pcap_interfaces" => (Waits(id) \/ Ending(id))'
  BY <1>1 DEF AccountedFor
<1>4. contexts[id].kind = "pcap_read" =>
        (Waits(id) \/ Ending(id) \/ (pcapState = "Transferring" /\ transfer.id = id))'
  BY <1>1 DEF AccountedFor
<1>5. ASSUME contexts[id].kind = "pcap_write"
      PROVE  \/ (Waits(id))'
             \/ pcapState' # "Idle" /\ capture'.id = id
             \/ \E i \in DOMAIN toHandler' : Of(toHandler'[i], id) /\ Failing(toHandler'[i])
             \/ \E by \in DOMAIN contexts' :
                  contexts'[by].kind = "pcap_read" /\ (Ending(by))' /\ (Relates(by, id))'
  BY <1>1, <1>2, <1>5 DEF AccountedFor
<1> QED
  BY <1>3, <1>4, <1>5 DEF AccountedFor

LEMMA StillWaits ==
  ASSUME TypeOK, Advances, NEW id, Waits(id)
  PROVE  (Waits(id))' \/ (pcapQueue # << >> /\ pcapQueue' = Tail(pcapQueue) /\ id = Head(pcapQueue).id)
<1>1. CASE \E i \in DOMAIN toPcap : Asks(i) /\ toPcap[i].id = id
  <2>1. PICK i \in DOMAIN toPcap : Asks(i) /\ toPcap[i].id = id
    BY <1>1
  <2>2. PICK d \in {0, 1} : Shift(toPcap, toPcap', d)
    BY Shifted, EventTypes DEF Advances
  <2>3. d = 0 \/ i # 1
    <3> SUFFICES ASSUME d = 1, i = 1 PROVE FALSE
      BY <2>2
    <3>1. toPcap # << >> /\ toPcap' = Tail(toPcap) /\ Head(toPcap).type = "request"
      BY <2>1, <2>2 DEF Asks, Shift
    <3>2. Tail(toPcap) # toPcap
      BY <3>1, EventTypes, TailShorter
    <3> QED
      BY <3>1, <3>2 DEF Advances
  <2> QED
    BY <2>1, <2>2, <2>3 DEF Waits, Asks, Shift
<1>2. CASE \E k \in DOMAIN pcapQueue : pcapQueue[k].id = id
  <2>1. PICK k \in DOMAIN pcapQueue : pcapQueue[k].id = id
    BY <1>2
  <2>2. PICK d \in {0, 1} : Shift(pcapQueue, pcapQueue', d)
    BY Shifted, EventTypes DEF Advances
  <2> QED
    BY <2>1, <2>2 DEF Waits, Shift
<1> QED
  BY <1>1, <1>2 DEF Waits

(* Who is still owed an answer when his context is known.                   *)
LEMMA OwnersContexts ==
  ASSUME TypeOK, OwnersInvariant, CaptureInvariant, ContextInvariant
  PROVE  /\ pcapState # "Idle" /\ capture.id \in DOMAIN contexts => contexts[capture.id].kind = "pcap_write"
         /\ pcapState = "Transferring" /\ transfer.id \in DOMAIN contexts => contexts[transfer.id].kind = "pcap_read"
         /\ pcapState = "Transferring" /\ capture.id \in DOMAIN contexts =>
              Has(transfer.id, "pcap_read") /\ Relates(transfer.id, capture.id)
         /\ pcapState # "Idle" /\ pcapQueue # << >> /\ capture.id \in DOMAIN contexts =>
              Has(Head(pcapQueue).id, Head(pcapQueue).kind)
<1>1. \A owner : Belongs(owner) /\ owner.id \in DOMAIN contexts => socket /\ owner.of = generation
  BY DEF Belongs, OwnersInvariant
<1>2. Belongs(capture) /\ Belongs(transfer)
  BY DEF OwnersInvariant
<1>3. pcapState = "Transferring" => pcapState # "Idle" /\ transfer.of = capture.of
  BY DEF CaptureInvariant, CaptureOfItsClient
<1>4. pcapState # "Idle" /\ capture.id \in DOMAIN contexts => contexts[capture.id].kind = "pcap_write"
  BY <1>1, <1>2 DEF ContextInvariant, CaptureLinked, Has
<1>5. pcapState = "Transferring" /\ transfer.id \in DOMAIN contexts => contexts[transfer.id].kind = "pcap_read"
  BY <1>1, <1>2 DEF ContextInvariant, TransferLinked, Has
<1>6. pcapState = "Transferring" /\ capture.id \in DOMAIN contexts =>
        Has(transfer.id, "pcap_read") /\ Relates(transfer.id, capture.id)
  BY <1>1, <1>2, <1>3 DEF ContextInvariant, TransferLinked
<1>7. ASSUME pcapState # "Idle", pcapQueue # << >>, capture.id \in DOMAIN contexts
      PROVE  Has(Head(pcapQueue).id, Head(pcapQueue).kind)
  <2>1. socket /\ capture.of = generation
    BY <1>1, <1>2, <1>7
  <2>2. 1 \in DOMAIN pcapQueue /\ Head(pcapQueue) = pcapQueue[1] /\ pcapQueue[1].of \in Nat /\ capture.of \in Nat
    BY <1>7, EventTypes, Taken
  <2>3. EventsInOrder /\ Fits(capture.of) /\ Fits(pcapQueue[1].of)
    BY <1>7, <2>2, CaptureParts, WorkFits
  <2>4. pcapQueue[1].of = generation
    BY <2>1, <2>2, <2>3, FitsOne
  <2> QED
    BY <1>7, <2>1, <2>2, <2>4, HeadOfQueue DEF ContextInvariant, Waiting
<1> QED
  BY <1>4, <1>5, <1>6, <1>7

(* What a step of PCAP that posts an answer has to keep.                    *)
LEMMA PostsContexts ==
  ASSUME TypeOK, OwnersInvariant, ContextInvariant, Advances, NEW event, Posts(event),
         \A id \in Numbers(event) : Known(id), Known(capture'.id), Known(transfer'.id),
         \A i \in DOMAIN toHandler, id \in DOMAIN contexts :
           Of(toHandler[i], id) /\ Of(event, id) /\ contexts[id].kind = "pcap_read" =>
             ~Final(toHandler[i]) /\ NoCapture(event),
         \A id \in DOMAIN contexts : Of(event, id) /\ contexts[id].related # 0 => NoCapture(event),
         \A id \in DOMAIN contexts : Of(event, id) /\ event.type = "chunk" => contexts[id].kind = "pcap_read",
         CaptureLinked', TransferLinked',
         \A id \in DOMAIN contexts : (AccountedFor(id))'
  PROVE  ContextInvariant'
<1>1. UNCHANGED contexts
  BY DEF Advances
<1>2. ReadsEndOnce'
  BY <1>1, PostsReads DEF ContextInvariant
<1>3. \A i \in DOMAIN toHandler' : (i \in DOMAIN toHandler /\ toHandler'[i] = toHandler[i])
                                   \/ \A id \in Numbers(toHandler'[i]) : Known(id)
  BY PostsBehind
<1>4. Ordered' /\ WaitingHaveContexts'
  BY <1>3, AdvancesOrdered, AdvancesWaiting DEF ContextInvariant
<1>5. Accounted'
  BY <1>1 DEF Accounted
<1> QED
  BY <1>2, <1>4, <1>5 DEF ContextInvariant

PopsRequest == Advances /\ pcapQueue # << >> /\ pcapQueue' = Tail(pcapQueue)
LeavesQueue == Advances /\ UNCHANGED pcapQueue
KeepsWork == UNCHANGED <<pcapState, capture, transfer, transferTimer>>
EndsWork == pcapState' = "Idle" /\ capture' = Nobody /\ transfer' = Nobody /\ transferTimer' = FALSE
Answer(event, id, related) ==
  Posts(event) /\ event.type = "response" /\ Of(event, id) /\ event.response.related = related

LEMMA AnswerFacts ==
  ASSUME NEW event, NEW id, NEW related, Answer(event, id, related)
  PROVE  /\ \A n \in Numbers(event) : n \in {id, related}
         /\ \A other : (Of(event, other) <=> other = id) /\ (Relating(event, other) <=> other = related)
         /\ related = 0 => NoCapture(event)
  BY DEF Answer, Numbers, Of, Relating, NoCapture, Answered

LEMMA KnownIds ==
  ASSUME Ordered
  PROVE  /\ Known(0) /\ Known(capture.id) /\ Known(transfer.id) /\ Known(Nobody.id)
         /\ PopsRequest => Known(Head(pcapQueue).id)
  BY DEF Ordered, Known, PopsRequest, Nobody

(* A request that is refused, or needs no capture, is answered at once.     *)
AnswersRequest(event) ==
  /\ PopsRequest /\ KeepsWork /\ Answer(event, Head(pcapQueue).id, 0) /\ Final(event)
  /\ Head(pcapQueue).kind = "pcap_write" => Failing(event)

LEMMA AnswersRequestContexts ==
  ASSUME TypeOK, OwnersInvariant, ContextInvariant, NEW event, AnswersRequest(event)
  PROVE  ContextInvariant'
<1> DEFINE id == Head(pcapQueue).id
<1>1. /\ Advances /\ pcapQueue # << >> /\ Posts(event) /\ PopsRequest
      /\ UNCHANGED <<socket, generation, contexts, pcapState, capture, transfer, transferTimer>>
      /\ Ordered /\ WaitingHaveContexts /\ CaptureLinked /\ TransferLinked /\ Accounted
  BY DEF AnswersRequest, PopsRequest, KeepsWork, Answer, Advances, ContextInvariant
<1>2. /\ id # capture.id /\ id # transfer.id
      /\ \A i \in DOMAIN toHandler : ~Of(toHandler[i], id) /\ ~Relating(toHandler[i], id)
      /\ id \in DOMAIN contexts => contexts[id].kind = Head(pcapQueue).kind /\ contexts[id].related = 0
      /\ Head(pcapQueue).kind \in PcapKinds
  BY <1>1, HeadOfQueue DEF PcapRequest
<1>3. /\ \A n \in Numbers(event) : n \in {id, 0}
      /\ \A other : (Of(event, other) <=> other = id) /\ (Relating(event, other) <=> other = 0)
      /\ NoCapture(event)
  BY AnswerFacts DEF AnswersRequest
<1>4. /\ Known(0) /\ Known(capture'.id) /\ Known(transfer'.id) /\ Known(id)
  BY <1>1, KnownIds
<1> HIDE DEF id
<1>5. /\ \A i \in DOMAIN toHandler : i \in DOMAIN toHandler' /\ toHandler'[i] = toHandler[i]
      /\ \A i \in DOMAIN toHandler' : (i \in DOMAIN toHandler /\ toHandler'[i] = toHandler[i]) \/ toHandler'[i] = event
      /\ \E i \in DOMAIN toHandler' : toHandler'[i] = event
  BY <1>1, PostsBehind
<1>6. CaptureLinked'
  BY <1>1, <1>2, <1>3, <1>5 DEF CaptureLinked, Has
<1>7. TransferLinked'
  BY <1>1, <1>2, <1>3, <1>5 DEF TransferLinked, Has, Relates
<1>8. ASSUME NEW c \in DOMAIN contexts PROVE (AccountedFor(c))'
  <2>1. CASE c = id
    <3>1. contexts[c].kind = "pcap_write" => Failing(event)
      BY <1>2, <2>1 DEF AnswersRequest
    <3>2. Of(event, c) /\ Final(event) /\ contexts' = contexts
      BY <1>1, <1>3, <2>1 DEF AnswersRequest
    <3> QED
      BY <1>5, <3>1, <3>2 DEF AccountedFor, Ending
  <2>2. CASE c # id
    <3>1. Waits(c) => (Waits(c))'
      BY <1>1, <2>2, StillWaits DEF id
    <3> QED
      BY <1>1, <1>5, <3>1, StaysAccounted DEF Accounted
  <2> QED
    BY <2>1, <2>2
<1> QED
  BY <1>1, <1>2, <1>3, <1>4, <1>6, <1>7, <1>8, PostsContexts DEF AnswersRequest, Answer

StartsCapture(event) ==
  /\ PopsRequest /\ Head(pcapQueue).kind = "pcap_write"
  /\ pcapState = "Idle" /\ pcapState' = "Recording" /\ capture' = OwnerOf(Head(pcapQueue))
  /\ UNCHANGED <<transfer, transferTimer>>
  /\ Answer(event, Head(pcapQueue).id, 0) /\ ~Failing(event)

LEMMA StartsCaptureContexts ==
  ASSUME TypeOK, OwnersInvariant, ContextInvariant, NEW event, StartsCapture(event)
  PROVE  ContextInvariant'
<1> DEFINE id == Head(pcapQueue).id
<1>1. /\ Advances /\ pcapQueue # << >> /\ Posts(event) /\ PopsRequest /\ event.type = "response"
      /\ UNCHANGED <<socket, generation, contexts, transfer, transferTimer>>
      /\ Ordered /\ WaitingHaveContexts /\ CaptureLinked /\ TransferLinked /\ Accounted
  BY DEF StartsCapture, PopsRequest, Answer, Advances, ContextInvariant
<1>2. /\ id # 0
      /\ \A i \in DOMAIN toHandler : ~Of(toHandler[i], id) /\ ~Relating(toHandler[i], id)
      /\ \A c \in DOMAIN contexts : contexts[c].related # id
      /\ id \in DOMAIN contexts => contexts[id].kind = "pcap_write" /\ contexts[id].related = 0
      /\ socket /\ Head(pcapQueue).of = generation => Has(id, "pcap_write")
  BY <1>1, HeadOfQueue DEF StartsCapture, Waiting
<1>3. /\ \A n \in Numbers(event) : n \in {id, 0}
      /\ \A other : (Of(event, other) <=> other = id) /\ (Relating(event, other) <=> other = 0)
      /\ NoCapture(event)
  BY AnswerFacts DEF StartsCapture
<1>4. capture'.id = id /\ capture'.of = Head(pcapQueue).of
  BY DEF StartsCapture, OwnerOf
<1>5. Known(0) /\ Known(capture'.id) /\ Known(transfer'.id) /\ Known(id)
  BY <1>1, <1>4, KnownIds
<1>6. pcapState = "Idle" /\ pcapState' = "Recording"
  BY DEF StartsCapture
<1>7. \A c \in DOMAIN contexts : c # id /\ Waits(c) => (Waits(c))'
  BY <1>1, StillWaits
<1> HIDE DEF id
<1>8. /\ \A i \in DOMAIN toHandler : i \in DOMAIN toHandler' /\ toHandler'[i] = toHandler[i]
      /\ \A i \in DOMAIN toHandler' : (i \in DOMAIN toHandler /\ toHandler'[i] = toHandler[i]) \/ toHandler'[i] = event
  BY <1>1, PostsBehind
<1>9. CaptureLinked'
  BY <1>1, <1>2, <1>3, <1>4, <1>6, <1>8 DEF CaptureLinked, Has, StartsCapture
<1>10. TransferLinked'
  BY <1>1, <1>6 DEF TransferLinked
<1>11. ASSUME NEW c \in DOMAIN contexts PROVE (AccountedFor(c))'
  <2>1. CASE c = id
    BY <1>1, <1>2, <1>4, <1>6, <2>1 DEF AccountedFor
  <2>2. CASE c # id
    BY <1>1, <1>6, <1>7, <1>8, <2>2, StaysAccounted DEF Accounted
  <2> QED
    BY <2>1, <2>2
<1> QED
  BY <1>1, <1>2, <1>3, <1>5, <1>9, <1>10, <1>11, PostsContexts

(* A capture whose file cannot be read ends, its request by the one that    *)
(* was to read it.                                                          *)
FailsToRead(event) ==
  /\ PopsRequest /\ Head(pcapQueue).kind = "pcap_read"
  /\ pcapState \in {"Recording", "Ready"} /\ EndsWork
  /\ Answer(event, Head(pcapQueue).id, capture.id) /\ Final(event)

LEMMA FailsToReadContexts ==
  ASSUME TypeOK, OwnersInvariant, CaptureInvariant, ContextInvariant, NEW event, FailsToRead(event)
  PROVE  ContextInvariant'
<1> DEFINE id == Head(pcapQueue).id
<1>1. /\ Advances /\ pcapQueue # << >> /\ Posts(event) /\ PopsRequest /\ event.type = "response"
      /\ UNCHANGED <<socket, generation, contexts>>
      /\ Ordered /\ WaitingHaveContexts /\ CaptureLinked /\ TransferLinked /\ Accounted
  BY DEF FailsToRead, PopsRequest, Answer, Advances, ContextInvariant
<1>2. /\ \A i \in DOMAIN toHandler : ~Of(toHandler[i], id) /\ ~Relating(toHandler[i], id)
      /\ id \in DOMAIN contexts => contexts[id].kind = "pcap_read" /\ contexts[id].related = 0
  BY <1>1, HeadOfQueue DEF FailsToRead
<1>3. /\ \A n \in Numbers(event) : n \in {id, capture.id}
      /\ \A other : (Of(event, other) <=> other = id) /\ (Relating(event, other) <=> other = capture.id)
  BY AnswerFacts DEF FailsToRead
<1>4. pcapState # "Idle" /\ pcapState # "Transferring" /\ Final(event)
      /\ pcapState' = "Idle" /\ capture' = Nobody /\ transfer' = Nobody /\ transferTimer' = FALSE
  BY DEF FailsToRead, EndsWork
<1>5. Known(capture.id) /\ Known(capture'.id) /\ Known(transfer'.id) /\ Known(id)
  BY <1>1, <1>4, KnownIds
<1>6. \A c \in DOMAIN contexts : c # id /\ Waits(c) => (Waits(c))'
  BY <1>1, StillWaits
<1>7. capture.id \in DOMAIN contexts => Has(id, "pcap_read") /\ contexts[capture.id].kind = "pcap_write"
  BY <1>1, <1>4, OwnersContexts DEF FailsToRead
<1> HIDE DEF id
<1>8. /\ \A i \in DOMAIN toHandler : i \in DOMAIN toHandler' /\ toHandler'[i] = toHandler[i]
      /\ \E i \in DOMAIN toHandler' : toHandler'[i] = event
  BY <1>1, PostsBehind
<1>9. CaptureLinked' /\ TransferLinked'
  BY <1>4 DEF CaptureLinked, TransferLinked
<1>10. ASSUME NEW c \in DOMAIN contexts PROVE (AccountedFor(c))'
  <2>1. CASE c = id
    <3>1. (Ending(c))'
      BY <1>3, <1>4, <1>8, <2>1 DEF Ending
    <3> QED
      BY <1>1, <1>2, <2>1, <3>1 DEF AccountedFor
  <2>2. CASE c = capture.id
    <3>1. Has(id, "pcap_read") /\ contexts[c].kind = "pcap_write" /\ Of(event, id) /\ Relating(event, c)
      BY <1>3, <1>7, <2>2
    <3>2. \A by : by = id => (Ending(by))' /\ (Relates(by, c))'
      BY <1>4, <1>8, <3>1 DEF Ending, Relates
    <3> QED
      BY <1>1, <3>1, <3>2 DEF AccountedFor, Has
  <2>3. CASE c # id /\ c # capture.id
    BY <1>1, <1>4, <1>6, <1>8, <2>3, StaysAccounted DEF Accounted
  <2> QED
    BY <2>1, <2>2, <2>3
<1> QED
  BY <1>1, <1>2, <1>3, <1>5, <1>9, <1>10, PostsContexts

StartsTransfer(event) ==
  /\ PopsRequest /\ Head(pcapQueue).kind = "pcap_read"
  /\ pcapState \in {"Recording", "Ready"} /\ pcapState' = "Transferring"
  /\ UNCHANGED capture /\ transfer' = OwnerOf(Head(pcapQueue))
  /\ Answer(event, Head(pcapQueue).id, capture.id) /\ ~Final(event)

LEMMA StartsTransferContexts ==
  ASSUME TypeOK, OwnersInvariant, ContextInvariant, NEW event, StartsTransfer(event)
  PROVE  ContextInvariant'
<1> DEFINE id == Head(pcapQueue).id
<1>1. /\ Advances /\ pcapQueue # << >> /\ Posts(event) /\ PopsRequest /\ event.type = "response"
      /\ UNCHANGED <<socket, generation, contexts, capture>>
      /\ Ordered /\ WaitingHaveContexts /\ CaptureLinked /\ TransferLinked /\ Accounted
  BY DEF StartsTransfer, PopsRequest, Answer, Advances, ContextInvariant
<1>2. /\ id # capture.id
      /\ \A i \in DOMAIN toHandler : ~Of(toHandler[i], id) /\ ~Relating(toHandler[i], id)
      /\ id \in DOMAIN contexts => contexts[id].kind = "pcap_read" /\ contexts[id].related = 0
      /\ socket /\ Head(pcapQueue).of = generation => Has(id, "pcap_read")
  BY <1>1, HeadOfQueue DEF StartsTransfer, Waiting
<1>3. /\ \A n \in Numbers(event) : n \in {id, capture.id}
      /\ \A other : (Of(event, other) <=> other = id) /\ (Relating(event, other) <=> other = capture.id)
  BY AnswerFacts DEF StartsTransfer
<1>4. transfer'.id = id /\ transfer'.of = Head(pcapQueue).of
  BY DEF StartsTransfer, OwnerOf
<1>5. Known(capture.id) /\ Known(capture'.id) /\ Known(transfer'.id) /\ Known(id)
  BY <1>1, <1>4, KnownIds
<1>6. pcapState # "Idle" /\ pcapState # "Transferring" /\ pcapState' = "Transferring" /\ ~Final(event)
  BY DEF StartsTransfer
<1>7. \A c \in DOMAIN contexts : c # id /\ Waits(c) => (Waits(c))'
  BY <1>1, StillWaits
<1> HIDE DEF id
<1>8. /\ \A i \in DOMAIN toHandler : i \in DOMAIN toHandler' /\ toHandler'[i] = toHandler[i]
      /\ \A i \in DOMAIN toHandler' : (i \in DOMAIN toHandler /\ toHandler'[i] = toHandler[i]) \/ toHandler'[i] = event
      /\ \E i \in DOMAIN toHandler' : toHandler'[i] = event
  BY <1>1, PostsBehind
<1>9. CaptureLinked'
  BY <1>1, <1>2, <1>3, <1>4, <1>6, <1>8 DEF CaptureLinked, Has
<1>10. TransferLinked'
  <2>1. \E i \in DOMAIN toHandler' : Of(toHandler'[i], id) /\ Relating(toHandler'[i], capture.id)
    BY <1>3, <1>8
  <2>2. \A i \in DOMAIN toHandler' : Of(toHandler'[i], id) => ~Final(toHandler'[i])
    BY <1>2, <1>6, <1>8
  <2> QED
    BY <1>1, <1>2, <1>4, <1>6, <2>1, <2>2 DEF TransferLinked, Has, Relates
<1>11. ASSUME NEW c \in DOMAIN contexts PROVE (AccountedFor(c))'
  <2>1. CASE c = id
    BY <1>1, <1>2, <1>4, <1>6, <2>1 DEF AccountedFor
  <2>2. CASE c # id
    BY <1>1, <1>6, <1>7, <1>8, <2>2, StaysAccounted DEF Accounted
  <2> QED
    BY <2>1, <2>2
<1> QED
  BY <1>1, <1>2, <1>3, <1>5, <1>9, <1>10, <1>11, PostsContexts

LEMMA QueueStillWaits ==
  ASSUME TypeOK, LeavesQueue
  PROVE  \A id : Waits(id) => (Waits(id))'
<1> SUFFICES ASSUME NEW id, Waits(id) PROVE (Waits(id))'
  OBVIOUS
<1>1. Advances /\ pcapQueue' = pcapQueue
  BY DEF LeavesQueue
<1>2. pcapQueue # << >> => Tail(pcapQueue) # pcapQueue
  BY EventTypes, TailShorter
<1> QED
  BY <1>1, <1>2, StillWaits

(* The last event of a transfer takes both contexts away.                   *)
EndsTransfer(event) ==
  /\ LeavesQueue /\ pcapState = "Transferring" /\ EndsWork
  /\ Posts(event) /\ Of(event, transfer.id) /\ Final(event) /\ NoCapture(event)

LEMMA EndsTransferContexts ==
  ASSUME TypeOK, OwnersInvariant, CaptureInvariant, ContextInvariant, NEW event, EndsTransfer(event)
  PROVE  ContextInvariant'
<1>1. /\ Advances /\ LeavesQueue /\ Posts(event) /\ UNCHANGED contexts /\ event \in Posted
      /\ Ordered /\ TransferLinked /\ Accounted
      /\ pcapState = "Transferring" /\ Of(event, transfer.id) /\ Final(event) /\ NoCapture(event)
      /\ pcapState' = "Idle" /\ capture' = Nobody /\ transfer' = Nobody /\ transferTimer' = FALSE
  BY DEF EndsTransfer, LeavesQueue, Posts, Advances, ContextInvariant, EndsWork
<1>2. \A n : Of(event, n) <=> n = transfer.id
  BY <1>1 DEF Of
<1>3. \A n \in Numbers(event) : n \in {transfer.id, 0}
  BY <1>1, <1>2, EventFacts
<1>4. Known(0) /\ Known(transfer.id) /\ Known(capture'.id) /\ Known(transfer'.id)
  BY <1>1, KnownIds
<1>5. /\ \A i \in DOMAIN toHandler : i \in DOMAIN toHandler' /\ toHandler'[i] = toHandler[i]
      /\ \E i \in DOMAIN toHandler' : toHandler'[i] = event
  BY <1>1, PostsBehind
<1>6. CaptureLinked' /\ TransferLinked'
  BY <1>1 DEF CaptureLinked, TransferLinked
<1>7. \A c : Waits(c) => (Waits(c))'
  BY <1>1, QueueStillWaits
<1>8. \A c : c = transfer.id => (Ending(c))'
  BY <1>1, <1>5 DEF Ending
<1>9. \A by, c : Relates(by, c) => (Relates(by, c))'
  BY <1>1, <1>5 DEF Relates, Of, Relating, Answered
<1>10. ASSUME NEW c \in DOMAIN contexts PROVE (AccountedFor(c))'
  <2>1. CASE c = transfer.id
    <3>1. contexts[c].kind = "pcap_read"
      BY <1>1, <2>1, OwnersContexts
    <3> QED
      BY <1>1, <1>8, <2>1, <3>1 DEF AccountedFor
  <2>2. CASE c = capture.id
    <3>1. contexts[c].kind = "pcap_write" /\ Has(transfer.id, "pcap_read") /\ Relates(transfer.id, c)
      BY <1>1, <2>2, OwnersContexts
    <3>2. \A by : by = transfer.id => (Ending(by))' /\ (Relates(by, c))'
      BY <1>8, <1>9, <3>1
    <3> QED
      BY <1>1, <3>1, <3>2 DEF AccountedFor, Has
  <2>3. CASE c # transfer.id /\ c # capture.id
    BY <1>1, <1>5, <1>7, <2>3, StaysAccounted DEF Accounted
  <2> QED
    BY <2>1, <2>2, <2>3
<1>11. transfer.id \in DOMAIN contexts => contexts[transfer.id].kind = "pcap_read"
  BY <1>1, OwnersContexts
<1> QED
  BY <1>1, <1>2, <1>3, <1>4, <1>6, <1>10, <1>11, PostsContexts DEF TransferLinked

SendsChunk(event) ==
  /\ LeavesQueue /\ pcapState = "Transferring" /\ UNCHANGED <<pcapState, capture, transfer>>
  /\ Posts(event) /\ Of(event, transfer.id) /\ event.type = "chunk" /\ ~Final(event)

LEMMA SendsChunkContexts ==
  ASSUME TypeOK, OwnersInvariant, CaptureInvariant, ContextInvariant, NEW event, SendsChunk(event)
  PROVE  ContextInvariant'
<1>1. /\ Advances /\ LeavesQueue /\ Posts(event) /\ event \in Posted
      /\ UNCHANGED <<socket, generation, contexts, pcapState, capture, transfer>>
      /\ Ordered /\ CaptureLinked /\ TransferLinked /\ Accounted
      /\ pcapState = "Transferring" /\ Of(event, transfer.id) /\ ~Final(event) /\ event.type = "chunk"
  BY DEF SendsChunk, LeavesQueue, Posts, Advances, ContextInvariant
<1>2. NoCapture(event) /\ (\A n : Of(event, n) <=> n = transfer.id) /\ \A n : ~Relating(event, n)
  BY <1>1 DEF Of, NoCapture, Relating
<1>3. \A n \in Numbers(event) : n = transfer.id
  BY <1>1, <1>2, EventFacts
<1>4. Known(transfer.id) /\ Known(capture'.id) /\ Known(transfer'.id)
  BY <1>1, KnownIds
<1>5. /\ \A i \in DOMAIN toHandler : i \in DOMAIN toHandler' /\ toHandler'[i] = toHandler[i]
      /\ \A i \in DOMAIN toHandler' : (i \in DOMAIN toHandler /\ toHandler'[i] = toHandler[i]) \/ toHandler'[i] = event
  BY <1>1, PostsBehind
<1>6. CaptureLinked'
  BY <1>1, <1>2, <1>5 DEF CaptureLinked, Has
<1>7. TransferLinked'
  BY <1>1, <1>2, <1>5 DEF TransferLinked, Has, Relates
<1>8. ASSUME NEW c \in DOMAIN contexts PROVE (AccountedFor(c))'
  BY <1>1, <1>5, QueueStillWaits, StaysAccounted DEF Accounted
<1>9. transfer.id \in DOMAIN contexts => contexts[transfer.id].kind = "pcap_read"
  BY <1>1, OwnersContexts
<1> QED
  BY <1>1, <1>2, <1>3, <1>4, <1>6, <1>7, <1>8, <1>9, PostsContexts DEF TransferLinked

(* A capture that is lost ends with its request; one that reaches its limit *)
(* goes on waiting to be read.                                              *)
LosesCapture(event) ==
  /\ LeavesQueue /\ pcapState = "Recording" /\ EndsWork
  /\ Answer(event, capture.id, 0) /\ Failing(event)

ReachesLimit(event) ==
  /\ LeavesQueue /\ pcapState = "Recording" /\ pcapState' = "Ready"
  /\ UNCHANGED <<capture, transfer, transferTimer>>
  /\ Answer(event, capture.id, 0) /\ ~Failing(event)

LEMMA CaptureEndsContexts ==
  ASSUME TypeOK, OwnersInvariant, CaptureInvariant, ContextInvariant, NEW event,
         LosesCapture(event) \/ ReachesLimit(event)
  PROVE  ContextInvariant'
<1>1. /\ Advances /\ LeavesQueue /\ Posts(event) /\ event.type = "response"
      /\ UNCHANGED <<socket, generation, contexts>> /\ pcapState = "Recording"
      /\ Ordered /\ CaptureLinked /\ TransferLinked /\ Accounted
  BY DEF LosesCapture, ReachesLimit, Answer, LeavesQueue, Advances, ContextInvariant
<1>2. /\ \A n \in Numbers(event) : n \in {capture.id, 0}
      /\ \A other : (Of(event, other) <=> other = capture.id) /\ (Relating(event, other) <=> other = 0)
      /\ NoCapture(event)
  BY AnswerFacts DEF LosesCapture, ReachesLimit
<1>3. capture.id \in DOMAIN contexts => contexts[capture.id].kind = "pcap_write"
  BY <1>1, OwnersContexts
<1>4. /\ \A i \in DOMAIN toHandler : i \in DOMAIN toHandler' /\ toHandler'[i] = toHandler[i]
      /\ \A i \in DOMAIN toHandler' : (i \in DOMAIN toHandler /\ toHandler'[i] = toHandler[i]) \/ toHandler'[i] = event
      /\ \E i \in DOMAIN toHandler' : toHandler'[i] = event
  BY <1>1, PostsBehind
<1>5. CASE LosesCapture(event)
  <2>1. /\ pcapState' = "Idle" /\ capture' = Nobody /\ transfer' = Nobody /\ transferTimer' = FALSE
        /\ Failing(event)
    BY <1>5 DEF LosesCapture, EndsWork
  <2>2. Known(0) /\ Known(capture.id) /\ Known(capture'.id) /\ Known(transfer'.id)
    BY <1>1, <2>1, KnownIds
  <2>3. CaptureLinked' /\ TransferLinked'
    BY <2>1 DEF CaptureLinked, TransferLinked
  <2>4. ASSUME NEW c \in DOMAIN contexts PROVE (AccountedFor(c))'
    <3>1. CASE c = capture.id
      BY <1>1, <1>2, <1>3, <1>4, <2>1, <3>1 DEF AccountedFor
    <3>2. CASE c # capture.id
      BY <1>1, <1>4, <2>1, <3>2, QueueStillWaits, StaysAccounted DEF Accounted
    <3> QED
      BY <3>1, <3>2
  <2> QED
    BY <1>1, <1>2, <1>3, <2>2, <2>3, <2>4, PostsContexts
<1>6. CASE ReachesLimit(event)
  <2>1. /\ pcapState' = "Ready" /\ UNCHANGED <<capture, transfer, transferTimer>> /\ ~Failing(event)
    BY <1>6 DEF ReachesLimit
  <2>2. Known(0) /\ Known(capture.id) /\ Known(capture'.id) /\ Known(transfer'.id)
    BY <1>1, <2>1, KnownIds
  <2>3. CaptureLinked'
    BY <1>1, <1>2, <1>4, <2>1 DEF CaptureLinked, Has
  <2>4. TransferLinked'
    BY <1>1, <2>1 DEF TransferLinked
  <2>5. ASSUME NEW c \in DOMAIN contexts PROVE (AccountedFor(c))'
    BY <1>1, <1>4, <2>1, QueueStillWaits, StaysAccounted DEF Accounted
  <2> QED
    BY <1>1, <1>2, <1>3, <2>2, <2>3, <2>4, <2>5, PostsContexts
<1> QED
  BY <1>5, <1>6

(* A step of PCAP that does not concern what it works on.                   *)
Ignores == LeavesQueue /\ KeepsWork /\ UNCHANGED toHandler

LEMMA IgnoresContexts ==
  ASSUME TypeOK, OwnersInvariant, ContextInvariant, Ignores
  PROVE  ContextInvariant'
<1>1. /\ Advances /\ LeavesQueue
      /\ UNCHANGED <<socket, generation, contexts, pcapState, capture, transfer, transferTimer, toHandler>>
      /\ Ordered /\ WaitingHaveContexts /\ CaptureLinked /\ TransferLinked /\ ReadsEndOnce /\ Accounted
  BY DEF Ignores, LeavesQueue, KeepsWork, Advances, ContextInvariant
<1>2. Known(capture'.id) /\ Known(transfer'.id)
  BY <1>1, KnownIds
<1>3. Ordered' /\ WaitingHaveContexts'
  BY <1>1, <1>2, AdvancesOrdered, AdvancesWaiting
<1>4. CaptureLinked'
  BY <1>1 DEF CaptureLinked, Has, Of, Final, Relating, Failing, Answered
<1>5. TransferLinked'
  BY <1>1 DEF TransferLinked, Has, Relates, Of, Final, Relating, Answered
<1>6. ReadsEndOnce'
  BY <1>1 DEF ReadsEndOnce, Of, Final, NoCapture, Answered
<1>7. ASSUME NEW c \in DOMAIN contexts PROVE (AccountedFor(c))'
  BY <1>1, QueueStillWaits, StaysAccounted DEF Accounted
<1>8. Accounted'
  BY <1>1, <1>7 DEF Accounted
<1> QED
  BY <1>3, <1>4, <1>5, <1>6, <1>8 DEF ContextInvariant

(* A request taken from the posted events waits in PCAP's own queue.        *)
TakesRequest(request) ==
  /\ UNCHANGED <<socket, generation, requestCounter, contexts, toControl>>
  /\ KeepsWork /\ UNCHANGED toHandler
  /\ toPcap # << >> /\ toPcap' = Tail(toPcap) /\ Head(toPcap).type = "request"
  /\ request \in PcapRequest /\ pcapQueue' = Append(pcapQueue, request)
  /\ request.id = Head(toPcap).id /\ request.kind = Head(toPcap).kind /\ request.of = Head(toPcap).of

LEMMA TakesRequestContexts ==
  ASSUME TypeOK, OwnersInvariant, ContextInvariant, NEW request, TakesRequest(request)
  PROVE  ContextInvariant'
<1>1. /\ UNCHANGED <<socket, generation, requestCounter, contexts, toControl>>
      /\ UNCHANGED <<pcapState, capture, transfer, transferTimer, toHandler>>
      /\ Ordered /\ WaitingHaveContexts /\ CaptureLinked /\ TransferLinked /\ ReadsEndOnce /\ Accounted
  BY DEF TakesRequest, KeepsWork, ContextInvariant
<1>2. PICK n \in Nat :
        /\ DOMAIN toPcap = 1..n /\ DOMAIN toPcap' = 1..n - 1 /\ 1 \in DOMAIN toPcap
        /\ Head(toPcap) = toPcap[1]
        /\ \A i \in DOMAIN toPcap' : i + 1 \in DOMAIN toPcap /\ toPcap'[i] = toPcap[i + 1]
  BY EventTypes, Taken DEF TakesRequest
<1>3. /\ Asks(1) /\ request.id = toPcap[1].id /\ request.kind = toPcap[1].kind
      /\ request.of = toPcap[1].of /\ request.id \in Nat
  BY <1>2 DEF TakesRequest, Asks, PcapRequest
<1>4. PICK m \in Nat :
        /\ DOMAIN pcapQueue' = 1..m + 1 /\ DOMAIN pcapQueue = 1..m
        /\ \A k \in DOMAIN pcapQueue : pcapQueue'[k] = pcapQueue[k]
        /\ pcapQueue'[m + 1] = request
  <2>1. pcapQueue \in Seq(PcapRequest) /\ request \in PcapRequest /\ pcapQueue' = Append(pcapQueue, request)
    BY EventTypes DEF TakesRequest
  <2>2. /\ DOMAIN Append(pcapQueue, request) = 1..Len(pcapQueue) + 1 /\ DOMAIN pcapQueue = 1..Len(pcapQueue)
        /\ \A k \in DOMAIN pcapQueue : Append(pcapQueue, request)[k] = pcapQueue[k]
        /\ Append(pcapQueue, request)[Len(pcapQueue) + 1] = request
        /\ Len(pcapQueue) \in Nat
    BY <2>1, Appended
  <2> QED
    BY <2>1, <2>2
<1>5. /\ \A i \in DOMAIN toPcap' : 1 < i + 1
      /\ \A i, j \in DOMAIN toPcap' : i < j => i + 1 < j + 1
      /\ \A i \in DOMAIN toPcap : i # 1 => i - 1 \in DOMAIN toPcap' /\ (i - 1) + 1 = i
  BY <1>2
<1>6. /\ \A k \in DOMAIN pcapQueue' : k \in DOMAIN pcapQueue \/ k = m + 1
      /\ \A k, l \in DOMAIN pcapQueue' : k < l => k \in DOMAIN pcapQueue
      /\ m + 1 \in DOMAIN pcapQueue' /\ \A k \in DOMAIN pcapQueue : k \in DOMAIN pcapQueue'
  BY <1>4
<1>7. ASSUME NEW i \in DOMAIN toPcap', (Asks(i))'
      PROVE  /\ i + 1 \in DOMAIN toPcap /\ Asks(i + 1) /\ toPcap'[i] = toPcap[i + 1]
             /\ request.id < toPcap'[i].id
  BY <1>1, <1>2, <1>3, <1>5, <1>7 DEF Ordered, Asks
<1>8. ASSUME NEW id, Behind(id) PROVE (Behind(id))'
  <2>1. \A k \in DOMAIN pcapQueue' : id < pcapQueue'[k].id
    BY <1>2, <1>3, <1>4, <1>6, <1>8 DEF Behind
  <2>2. \A i \in DOMAIN toPcap' : (Asks(i))' => id < toPcap'[i].id
    BY <1>7, <1>8 DEF Behind
  <2> QED
    BY <1>1, <1>8, <2>1, <2>2 DEF Behind
<1>9. Ordered'
  <2>1. \A i \in DOMAIN toHandler' : \A id \in Numbers(toHandler'[i]) : (Behind(id))'
    <3>1. \A i \in DOMAIN toHandler' : \A id \in Numbers(toHandler'[i]) : Behind(id)
      BY <1>1 DEF Ordered
    <3> QED
      BY <1>8, <3>1 DEF Behind
  <2>2. \A id \in DOMAIN contexts' : (Behind(contexts[id].related))'
    <3>1. \A id \in DOMAIN contexts' : Behind(contexts'[id].related)
      BY <1>1 DEF Ordered
    <3> QED
      BY <1>8, <3>1 DEF Behind
  <2>3. (Behind(0))' /\ (Behind(capture.id))' /\ (Behind(transfer.id))'
    <3>1. Behind(0) /\ Behind(capture'.id) /\ Behind(transfer'.id)
      BY <1>1 DEF Ordered
    <3> QED
      BY <1>8, <3>1 DEF Behind
  <2>4. ASSUME NEW i \in DOMAIN toPcap', NEW j \in DOMAIN toPcap', i < j, (Asks(i))', (Asks(j))'
        PROVE  toPcap'[i].id < toPcap'[j].id
    BY <1>1, <1>5, <1>7, <2>4 DEF Ordered
  <2>5. ASSUME NEW k \in DOMAIN pcapQueue', NEW l \in DOMAIN pcapQueue', k < l
        PROVE  pcapQueue'[k].id < pcapQueue'[l].id
    <3>1. k \in DOMAIN pcapQueue /\ pcapQueue'[k] = pcapQueue[k]
      BY <1>4, <1>6, <2>5
    <3>2. pcapQueue[k].id < request.id
      BY <1>1, <1>2, <1>3, <3>1 DEF Ordered
    <3> QED
      BY <1>1, <1>4, <1>6, <2>5, <3>1, <3>2 DEF Ordered
  <2>6. ASSUME NEW k \in DOMAIN pcapQueue', NEW i \in DOMAIN toPcap', (Asks(i))'
        PROVE  pcapQueue'[k].id < toPcap'[i].id
    <3>1. CASE k \in DOMAIN pcapQueue
      BY <1>1, <1>4, <1>7, <2>6, <3>1 DEF Ordered
    <3>2. CASE k = m + 1
      BY <1>4, <1>7, <2>6, <3>2
    <3> QED
      BY <1>6, <3>1, <3>2
  <2> QED
    BY <2>1, <2>2, <2>3, <2>4, <2>5, <2>6 DEF Ordered, Asks, Numbers
<1>10. WaitingHaveContexts'
  <2>1. Waiting(toPcap[1])
    BY <1>1, <1>2, <1>3 DEF WaitingHaveContexts
  <2>2. Waiting(request)
    BY <1>3, <2>1 DEF Waiting, Has
  <2>3. \A k \in DOMAIN pcapQueue' : Waiting(pcapQueue'[k])
    BY <1>1, <1>4, <1>6, <2>2 DEF WaitingHaveContexts
  <2>4. \A i \in DOMAIN toPcap' : (Asks(i))' => Waiting(toPcap'[i])
    BY <1>1, <1>7 DEF WaitingHaveContexts
  <2>5. (\A k \in DOMAIN pcapQueue : Waiting(pcapQueue[k]))'
    BY <1>1, <2>3 DEF Waiting, Has
  <2>6. (\A i \in DOMAIN toPcap : Asks(i) => Waiting(toPcap[i]))'
    BY <1>1, <2>4 DEF Waiting, Has, Asks
  <2> QED
    BY <1>1, <2>5, <2>6 DEF WaitingHaveContexts, Has
<1>11. CaptureLinked'
  BY <1>1 DEF CaptureLinked, Has, Of, Final, Relating, Failing, Answered
<1>12. TransferLinked'
  BY <1>1 DEF TransferLinked, Has, Relates, Of, Final, Relating, Answered
<1>13. ReadsEndOnce'
  BY <1>1 DEF ReadsEndOnce, Of, Final, NoCapture, Answered
<1>14. ASSUME NEW c \in DOMAIN contexts PROVE (AccountedFor(c))'
  <2>1. ASSUME Waits(c) PROVE (Waits(c))'
    <3>1. CASE \E k \in DOMAIN pcapQueue : pcapQueue[k].id = c
      BY <1>4, <1>6, <3>1 DEF Waits
    <3>2. CASE \E i \in DOMAIN toPcap : Asks(i) /\ toPcap[i].id = c
      <4>1. PICK i \in DOMAIN toPcap : Asks(i) /\ toPcap[i].id = c
        BY <3>2
      <4>2. CASE i = 1
        BY <1>3, <1>4, <1>6, <4>1, <4>2 DEF Waits
      <4>3. CASE i # 1
        <5>1. i - 1 \in DOMAIN toPcap' /\ toPcap'[i - 1] = toPcap[i]
          BY <1>2, <1>5, <4>3
        <5> QED
          BY <4>1, <5>1 DEF Waits, Asks
      <4> QED
        BY <4>2, <4>3
    <3> QED
      BY <2>1, <3>1, <3>2 DEF Waits
  <2> QED
    BY <1>1, <2>1, StaysAccounted DEF Accounted
<1>15. Accounted'
  BY <1>1, <1>14 DEF Accounted
<1> QED
  BY <1>9, <1>10, <1>11, <1>12, <1>13, <1>15 DEF ContextInvariant

(* When PCAP hears of the end of a connection, nothing it forgets is of the *)
(* present one.                                                             *)
ShutsDown ==
  /\ UNCHANGED <<socket, generation, requestCounter, contexts, toControl>>
  /\ EndsWork /\ UNCHANGED toHandler /\ pcapQueue' = << >>
  /\ toPcap # << >> /\ toPcap' = Tail(toPcap) /\ Head(toPcap).type = "disconnected"

LEMMA ShutsDownContexts ==
  ASSUME TypeOK, OwnersInvariant, CaptureInvariant, ContextInvariant, ShutsDown
  PROVE  ContextInvariant'
<1>1. /\ UNCHANGED <<socket, generation, requestCounter, contexts, toControl, toHandler>>
      /\ pcapState' = "Idle" /\ capture' = Nobody /\ transfer' = Nobody /\ transferTimer' = FALSE
      /\ pcapQueue' = << >> /\ DOMAIN pcapQueue' = {} /\ Nobody.id = 0
      /\ Ordered /\ WaitingHaveContexts /\ ReadsEndOnce /\ Accounted
  BY DEF ShutsDown, EndsWork, ContextInvariant, Nobody
<1>2. PICK n \in Nat :
        /\ DOMAIN toPcap = 1..n /\ DOMAIN toPcap' = 1..n - 1 /\ 1 \in DOMAIN toPcap
        /\ Head(toPcap) = toPcap[1]
        /\ \A i \in DOMAIN toPcap' : i + 1 \in DOMAIN toPcap /\ toPcap'[i] = toPcap[i + 1]
  BY EventTypes, Taken DEF ShutsDown
<1>3. Ends(1) /\ ~Asks(1)
  BY <1>2 DEF ShutsDown, Ends, Asks
<1>4. /\ \A i, j \in DOMAIN toPcap' : i < j => i + 1 < j + 1
      /\ \A i \in DOMAIN toPcap : i # 1 => i - 1 \in DOMAIN toPcap' /\ (i - 1) + 1 = i
  BY <1>2
<1>5. \A i \in DOMAIN toPcap' : (Asks(i))' => i + 1 \in DOMAIN toPcap /\ Asks(i + 1) /\ toPcap'[i] = toPcap[i + 1]
  BY <1>2 DEF Asks
<1>6. ASSUME NEW id, Behind(id) PROVE (Behind(id))'
  BY <1>1, <1>5, <1>6 DEF Behind
<1>7. Ordered'
  <2>1. \A i \in DOMAIN toHandler' : \A id \in Numbers(toHandler'[i]) : (Behind(id))'
    <3>1. \A i \in DOMAIN toHandler' : \A id \in Numbers(toHandler'[i]) : Behind(id)
      BY <1>1 DEF Ordered
    <3> QED
      BY <1>6, <3>1 DEF Behind
  <2>2. \A id \in DOMAIN contexts' : (Behind(contexts[id].related))'
    <3>1. \A id \in DOMAIN contexts' : Behind(contexts'[id].related)
      BY <1>1 DEF Ordered
    <3> QED
      BY <1>6, <3>1 DEF Behind
  <2>3. (Behind(0))' /\ (Behind(capture.id))' /\ (Behind(transfer.id))'
    <3>1. Behind(0) /\ Behind(capture'.id) /\ Behind(transfer'.id)
      BY <1>1 DEF Ordered
    <3> QED
      BY <1>6, <3>1 DEF Behind
  <2>4. ASSUME NEW i \in DOMAIN toPcap', NEW j \in DOMAIN toPcap', i < j, (Asks(i))', (Asks(j))'
        PROVE  toPcap'[i].id < toPcap'[j].id
    BY <1>1, <1>4, <1>5, <2>4 DEF Ordered
  <2> QED
    BY <1>1, <2>1, <2>2, <2>3, <2>4 DEF Ordered, Asks, Numbers
<1>8. WaitingHaveContexts'
  <2>1. \A i \in DOMAIN toPcap' : (Asks(i))' => Waiting(toPcap'[i])
    BY <1>1, <1>5 DEF WaitingHaveContexts
  <2>2. (\A i \in DOMAIN toPcap : Asks(i) => Waiting(toPcap[i]))'
    BY <1>1, <2>1 DEF Waiting, Has, Asks
  <2> QED
    BY <1>1, <2>2 DEF WaitingHaveContexts, Has
<1>9. CaptureLinked' /\ TransferLinked'
  BY <1>1 DEF CaptureLinked, TransferLinked
<1>10. ReadsEndOnce'
  BY <1>1 DEF ReadsEndOnce, Of, Final, NoCapture, Answered
<1>11. \A owner : Belongs(owner) /\ owner.id \in DOMAIN contexts => socket /\ owner.of = generation
  BY DEF Belongs, OwnersInvariant
<1>12. /\ pcapState # "Idle" => capture.of <= toPcap[1].of
       /\ \A k \in DOMAIN pcapQueue : pcapQueue[k].of <= toPcap[1].of
       /\ socket => toPcap[1].of < generation
       /\ toPcap[1].of \in Nat /\ generation \in Nat /\ capture.of \in Nat
       /\ \A k \in DOMAIN pcapQueue : pcapQueue[k].of \in Nat
       /\ pcapState = "Transferring" => transfer.of = capture.of
  BY <1>2, <1>3, EventTypes DEF CaptureInvariant, CaptureOfItsClient
<1>13. /\ \A k \in DOMAIN pcapQueue : pcapQueue[k].id \notin DOMAIN contexts
       /\ pcapState # "Idle" => capture.id \notin DOMAIN contexts
       /\ pcapState = "Transferring" => transfer.id \notin DOMAIN contexts
  <2>1. Belongs(capture) /\ Belongs(transfer) /\ \A k \in DOMAIN pcapQueue : Belongs(pcapQueue[k])
    BY DEF OwnersInvariant
  <2>2. \A of \in Nat : of <= toPcap[1].of => ~(socket /\ of = generation)
    BY <1>12
  <2> QED
    BY <1>11, <1>12, <2>1, <2>2
<1>14. ASSUME NEW c \in DOMAIN contexts PROVE (AccountedFor(c))'
  <2>1. ASSUME Waits(c) PROVE (Waits(c))'
    <3>1. PICK i \in DOMAIN toPcap : Asks(i) /\ toPcap[i].id = c
      BY <1>13, <1>14, <2>1 DEF Waits
    <3>2. i - 1 \in DOMAIN toPcap' /\ toPcap'[i - 1] = toPcap[i]
      BY <1>2, <1>3, <1>4, <3>1
    <3> QED
      BY <3>1, <3>2 DEF Waits, Asks
  <2> QED
    BY <1>1, <1>13, <1>14, <2>1, StaysAccounted DEF Accounted
<1>15. Accounted'
  BY <1>1, <1>14 DEF Accounted
<1> QED
  BY <1>7, <1>8, <1>9, <1>10, <1>15 DEF ContextInvariant

LEMMA Responds ==
  ASSUME TypeOK, NEW owner \in Owner, NEW final \in BOOLEAN, NEW outcome \in Outcomes,
         NEW related \in Nat, NEW isTransfer \in BOOLEAN,
         Respond(owner, final, outcome, related, isTransfer)
  PROVE  \E event : /\ Answer(event, owner.id, related) /\ (Final(event) <=> final)
                    /\ Failing(event) <=> final /\ outcome = "error"
<1> DEFINE response == [id |-> owner.id, final |-> final, outcome |-> outcome,
                        related |-> related, transfer |-> isTransfer, of |-> owner.of]
           event == [type |-> "response", response |-> response]
<1>1. response \in Response
  BY DEF Response, Owner
<1>2. /\ response.id = owner.id /\ response.final = final /\ response.related = related
      /\ response.outcome = outcome /\ event.type = "response" /\ event.response = response
  OBVIOUS
<1>3. toHandler' = Append(toHandler, event)
  BY DEF Respond
<1> HIDE DEF response
<1>4. event \in Posted
  BY <1>1, PostedEvents
<1> HIDE DEF event
<1>5. Answer(event, owner.id, related)
  BY <1>2, <1>3, <1>4 DEF Answer, Posts, Of, Answered
<1>6. (Final(event) <=> final) /\ (Failing(event) <=> final /\ outcome = "error")
  BY <1>2 DEF Final, Failing, Answered
<1> QED
  BY <1>5, <1>6

LEMMA Refuses ==
  ASSUME TypeOK, NEW owner \in Owner, Refuse(owner)
  PROVE  \E event : Answer(event, owner.id, 0) /\ Final(event) /\ Failing(event)
<1>1. "error" \in Outcomes /\ 0 \in Nat /\ TRUE \in BOOLEAN /\ FALSE \in BOOLEAN
      /\ Respond(owner, TRUE, "error", 0, FALSE)
  BY DEF Outcomes, Refuse
<1>2. \E event : /\ Answer(event, owner.id, 0) /\ (Final(event) <=> TRUE)
                 /\ Failing(event) <=> TRUE /\ "error" = "error"
  BY <1>1, Responds
<1> QED
  BY <1>2

LEMMA CleansUp == CleanupCapture => EndsWork
  BY DEF CleanupCapture, EndsWork

LEMMA ElsewhereAdvances ==
  ASSUME Elsewhere
  PROVE  /\ UNCHANGED <<socket, generation, requestCounter, contexts, toControl>>
         /\ UNCHANGED toPcap /\ UNCHANGED pcapQueue => LeavesQueue
         /\ UNCHANGED toPcap /\ pcapQueue # << >> /\ pcapQueue' = Tail(pcapQueue) => PopsRequest
  BY DEF Elsewhere, LeavesQueue, PopsRequest, Advances

(* What PCAP does with the request it has taken from its queue.             *)
Moves(event) ==
  \/ AnswersRequest(event) \/ StartsCapture(event) \/ FailsToRead(event) \/ StartsTransfer(event)
  \/ EndsTransfer(event) \/ SendsChunk(event) \/ LosesCapture(event) \/ ReachesLimit(event)

LEMMA StartMoves ==
  ASSUME TypeOK, PopsRequest, Head(pcapQueue) \in PcapRequest, Head(pcapQueue).kind = "pcap_write",
         StartCapture(OwnerOf(Head(pcapQueue)))
  PROVE  \E event : Moves(event)
<1> DEFINE owner == OwnerOf(Head(pcapQueue))
<1>1. owner \in Owner /\ owner.id = Head(pcapQueue).id
  BY DEF OwnerOf, Owner, PcapRequest
<1>2. CASE Refuse(owner) /\ UNCHANGED <<pcapState, capture, transferTimer, transfer>>
  <2>1. PICK event : Answer(event, owner.id, 0) /\ Final(event) /\ Failing(event)
    BY <1>1, <1>2, Refuses
  <2>2. AnswersRequest(event)
    BY <1>1, <1>2, <2>1 DEF AnswersRequest, KeepsWork
  <2> QED
    BY <2>2 DEF Moves
<1>3. CASE /\ pcapState = "Idle" /\ pcapState' = "Recording" /\ capture' = owner
           /\ Respond(owner, TRUE, "success", 0, FALSE)
           /\ UNCHANGED <<transferTimer, transfer>>
  <2>1. "success" \in Outcomes /\ 0 \in Nat /\ TRUE \in BOOLEAN /\ FALSE \in BOOLEAN
    BY DEF Outcomes
  <2>2. PICK event : /\ Answer(event, owner.id, 0) /\ (Final(event) <=> TRUE)
                     /\ Failing(event) <=> TRUE /\ "success" = "error"
    BY <1>1, <1>3, <2>1, Responds
  <2>3. StartsCapture(event)
    BY <1>1, <1>3, <2>2 DEF StartsCapture
  <2> QED
    BY <2>3 DEF Moves
<1> QED
  BY <1>2, <1>3 DEF StartCapture

LEMMA ReadMoves ==
  ASSUME TypeOK, PopsRequest, Head(pcapQueue) \in PcapRequest, Head(pcapQueue).kind = "pcap_read",
         ReadCapture(OwnerOf(Head(pcapQueue)))
  PROVE  \E event : Moves(event)
<1> DEFINE owner == OwnerOf(Head(pcapQueue))
<1>1. owner \in Owner /\ owner.id = Head(pcapQueue).id
  BY DEF OwnerOf, Owner, PcapRequest
<1>2. capture.id \in Nat /\ {"success", "error"} \subseteq Outcomes /\ TRUE \in BOOLEAN /\ FALSE \in BOOLEAN
  BY NumbersInNat DEF Outcomes
<1>3. CASE Refuse(owner) /\ UNCHANGED <<pcapState, capture, transferTimer, transfer>>
  <2>1. PICK event : Answer(event, owner.id, 0) /\ Final(event) /\ Failing(event)
    BY <1>1, <1>3, Refuses
  <2>2. AnswersRequest(event)
    BY <1>1, <1>3, <2>1 DEF AnswersRequest, KeepsWork
  <2> QED
    BY <2>2 DEF Moves
<1>4. CASE /\ pcapState \in {"Recording", "Ready"} /\ CleanupCapture
           /\ Respond(owner, TRUE, "error", capture.id, FALSE)
  <2>1. PICK event : Answer(event, owner.id, capture.id) /\ (Final(event) <=> TRUE)
    BY <1>1, <1>2, <1>4, Responds
  <2>2. FailsToRead(event)
    BY <1>1, <1>4, <2>1, CleansUp DEF FailsToRead
  <2> QED
    BY <2>2 DEF Moves
<1>5. CASE /\ pcapState \in {"Recording", "Ready"} /\ pcapState' = "Transferring"
           /\ transfer' = owner /\ UNCHANGED capture
           /\ Respond(owner, FALSE, "success", capture.id, TRUE)
  <2>1. PICK event : Answer(event, owner.id, capture.id) /\ (Final(event) <=> FALSE)
    BY <1>1, <1>2, <1>5, Responds
  <2>2. StartsTransfer(event)
    BY <1>1, <1>5, <2>1 DEF StartsTransfer
  <2> QED
    BY <2>2 DEF Moves
<1> QED
  BY <1>3, <1>4, <1>5 DEF ReadCapture

LEMMA InterfacesMove ==
  ASSUME TypeOK, PopsRequest, Head(pcapQueue) \in PcapRequest, Head(pcapQueue).kind = "pcap_interfaces",
         ReadInterfaces(OwnerOf(Head(pcapQueue)))
  PROVE  \E event : Moves(event)
<1> DEFINE owner == OwnerOf(Head(pcapQueue))
<1>1. owner \in Owner /\ owner.id = Head(pcapQueue).id
  BY DEF OwnerOf, Owner, PcapRequest
<1>2. "success" \in Outcomes /\ 0 \in Nat /\ TRUE \in BOOLEAN /\ FALSE \in BOOLEAN
  BY DEF Outcomes
<1>3. PICK event : Answer(event, owner.id, 0) /\ (Final(event) <=> TRUE)
  BY <1>1, <1>2, Responds DEF ReadInterfaces
<1>4. AnswersRequest(event)
  BY <1>1, <1>3 DEF AnswersRequest, KeepsWork, ReadInterfaces
<1> QED
  BY <1>4 DEF Moves

LEMMA ProcessQueueMoves ==
  ASSUME TypeOK, PcapProcessesQueue
  PROVE  Ignores \/ \E event : Moves(event)
<1>1. ProcessQueue /\ Elsewhere /\ UNCHANGED toPcap
  BY DEF PcapProcessesQueue
<1>2. CASE pcapBusy \/ pcapQueue = << >>
  <2>1. UNCHANGED <<pcapState, pcapQueue, capture, transferTimer, transfer, toHandler>>
    BY <1>1, <1>2 DEF ProcessQueue
  <2> QED
    BY <1>1, <2>1, ElsewhereAdvances DEF Ignores, KeepsWork
<1>3. CASE ~(pcapBusy \/ pcapQueue = << >>)
  <2> DEFINE owner == OwnerOf(Head(pcapQueue))
  <2>1. Head(pcapQueue) \in PcapRequest
    BY <1>3, EventTypes
  <2>2. pcapQueue' = Tail(pcapQueue)
        /\ \/ Head(pcapQueue).kind = "pcap_write" /\ StartCapture(owner)
           \/ Head(pcapQueue).kind = "pcap_read" /\ ReadCapture(owner)
           \/ Head(pcapQueue).kind = "pcap_interfaces" /\ ReadInterfaces(owner)
    BY <1>1, <1>3 DEF ProcessQueue, OwnerOf
  <2>3. PopsRequest
    BY <1>1, <1>3, <2>2, ElsewhereAdvances
  <2> QED
    BY <2>1, <2>2, <2>3, StartMoves, ReadMoves, InterfacesMove
<1> QED
  BY <1>2, <1>3

LEMMA FinishMoves ==
  ASSUME TypeOK, LeavesQueue, pcapState = "Transferring", FinishTransferWithError
  PROVE  \E event : Moves(event)
<1>1. CleanupCapture /\ Refuse(transfer) /\ transfer \in Owner
  BY DEF FinishTransferWithError, TypeOK, PcapTypeOK
<1>2. PICK event : Answer(event, transfer.id, 0) /\ Final(event) /\ Failing(event)
  BY <1>1, Refuses
<1>3. NoCapture(event)
  BY <1>2, AnswerFacts
<1>4. EndsTransfer(event)
  BY <1>1, <1>2, <1>3, CleansUp DEF EndsTransfer, Answer
<1> QED
  BY <1>4 DEF Moves

LEMMA ChunkMoves ==
  ASSUME TypeOK, LeavesQueue, NEW id \in Nat, NEW sequence \in Nat, SendNextChunk(id, sequence)
  PROVE  Ignores \/ \E event : Moves(event)
<1>1. CASE UNCHANGED pcapVars
  BY <1>1 DEF Ignores, KeepsWork, pcapVars
<1>2. CASE Expects(id, sequence) /\ FinishTransferWithError
  BY <1>2, FinishMoves DEF Expects
<1>3. CASE /\ Expects(id, sequence)
           /\ \E final \in BOOLEAN :
                /\ toHandler' = Append(toHandler,
                     [type |-> "chunk", id |-> transfer.id, sequence |-> sequence,
                      final |-> final, of |-> transfer.of])
                /\ IF final THEN CleanupCapture ELSE UNCHANGED <<pcapState, capture, transfer>>
  <2>1. PICK final \in BOOLEAN :
          /\ toHandler' = Append(toHandler,
               [type |-> "chunk", id |-> transfer.id, sequence |-> sequence,
                final |-> final, of |-> transfer.of])
          /\ IF final THEN CleanupCapture ELSE UNCHANGED <<pcapState, capture, transfer>>
    BY <1>3
  <2> DEFINE event == [type |-> "chunk", id |-> transfer.id, sequence |-> sequence,
                       final |-> final, of |-> transfer.of]
  <2>2. event \in Posted /\ event.type = "chunk" /\ event.id = transfer.id /\ event.final = final
        /\ toHandler' = Append(toHandler, event)
    <3>1. transfer.id \in Nat /\ transfer.of \in Nat
      BY NumbersInNat, EventTypes
    <3> QED
      BY <2>1, <3>1, PostedEvents
  <2> HIDE DEF event
  <2>3. /\ Posts(event) /\ Of(event, transfer.id) /\ NoCapture(event) /\ (Final(event) <=> final)
        /\ pcapState = "Transferring"
    BY <1>3, <2>2 DEF Posts, Of, NoCapture, Final, Answered, Expects
  <2>4. CASE final
    <3>1. EndsTransfer(event)
      BY <2>1, <2>3, <2>4, CleansUp DEF EndsTransfer
    <3> QED
      BY <3>1 DEF Moves
  <2>5. CASE ~final
    <3>1. SendsChunk(event)
      BY <2>1, <2>2, <2>3, <2>5 DEF SendsChunk
    <3> QED
      BY <3>1 DEF Moves
  <2> QED
    BY <2>4, <2>5
<1>4. \/ UNCHANGED pcapVars
      \/ Expects(id, sequence) /\ FinishTransferWithError
      \/ /\ Expects(id, sequence)
         /\ \E final \in BOOLEAN :
              /\ toHandler' = Append(toHandler,
                   [type |-> "chunk", id |-> transfer.id, sequence |-> sequence,
                    final |-> final, of |-> transfer.of])
              /\ IF final THEN CleanupCapture ELSE UNCHANGED <<pcapState, capture, transfer>>
  BY DEF SendNextChunk
<1> QED
  BY <1>1, <1>2, <1>3, <1>4

LEMMA CaptureMoves ==
  ASSUME TypeOK, LeavesQueue, HandleCaptureFinished \/ StopCaptureForLimit
  PROVE  Ignores \/ \E event : Moves(event)
<1>1. capture \in Owner /\ "limit_reached" \in Outcomes /\ 0 \in Nat /\ TRUE \in BOOLEAN /\ FALSE \in BOOLEAN
  BY DEF TypeOK, PcapTypeOK, Outcomes
<1>2. CASE UNCHANGED <<pcapState, capture, transferTimer, transfer, toHandler>>
  BY <1>2 DEF Ignores, KeepsWork
<1>3. CASE pcapState = "Recording" /\ CleanupCapture /\ Refuse(capture)
  <2>1. PICK event : Answer(event, capture.id, 0) /\ Final(event) /\ Failing(event)
    BY <1>1, <1>3, Refuses
  <2>2. LosesCapture(event)
    BY <1>3, <2>1, CleansUp DEF LosesCapture
  <2> QED
    BY <2>2 DEF Moves
<1>4. CASE /\ pcapState = "Recording" /\ pcapState' = "Ready"
           /\ Respond(capture, TRUE, "limit_reached", 0, FALSE)
           /\ UNCHANGED <<capture, transferTimer, transfer>>
  <2>1. PICK event : /\ Answer(event, capture.id, 0) /\ (Final(event) <=> TRUE)
                     /\ Failing(event) <=> TRUE /\ "limit_reached" = "error"
    BY <1>1, <1>4, Responds
  <2>2. ReachesLimit(event)
    BY <1>4, <2>1 DEF ReachesLimit
  <2> QED
    BY <2>2 DEF Moves
<1> QED
  BY <1>2, <1>3, <1>4 DEF HandleCaptureFinished, StopCaptureForLimit, Reported

LEMMA PcapThreadMoves ==
  ASSUME TypeOK, TransferLinked, PcapThread
  PROVE  Ignores \/ (\E request : TakesRequest(request)) \/ ShutsDown \/ \E event : Moves(event)
<1>1. CASE PcapTakesPosted
  <2> DEFINE event == Head(toPcap)
  <2>1. event \in PcapEvents /\ toPcap # << >> /\ toPcap' = Tail(toPcap) /\ Elsewhere
    BY <1>1, EventTypes DEF PcapTakesPosted
  <2>2. UNCHANGED <<socket, generation, requestCounter, contexts, toControl>>
    BY <2>1, ElsewhereAdvances
  <2>3. CASE event.type = "request" /\ EnqueueRequest([id |-> event.id, kind |-> event.kind, of |-> event.of])
    <3> DEFINE request == [id |-> event.id, kind |-> event.kind, of |-> event.of]
    <3>1. request \in PcapRequest
      BY <2>1, <2>3, EventsForPcap DEF PcapRequest
    <3>2. request.id = event.id /\ request.kind = event.kind /\ request.of = event.of
          /\ EnqueueRequest(request)
      BY <2>3
    <3> HIDE DEF request
    <3>3. TakesRequest(request)
      BY <2>1, <2>2, <2>3, <3>1, <3>2 DEF TakesRequest, EnqueueRequest, KeepsWork
    <3> QED
      BY <3>3
  <2>4. CASE event.type = "chunk" /\ SendNextChunk(event.id, event.sequence)
    <3>1. event.id \in Nat /\ event.sequence \in Nat
      BY <2>1, <2>4, EventsForPcap
    <3>2. UNCHANGED pcapQueue
      BY <2>4 DEF SendNextChunk, FinishTransferWithError, pcapVars
    <3>3. LeavesQueue
      BY <2>1, <2>2, <2>4, <3>2 DEF LeavesQueue, Advances
    <3> QED
      BY <2>4, <3>1, <3>3, ChunkMoves
  <2>5. CASE event.type = "disconnected" /\ Shutdown
    <3>1. EndsWork /\ UNCHANGED toHandler /\ pcapQueue' = << >>
      BY <2>5, CleansUp DEF Shutdown
    <3> QED
      BY <2>1, <2>2, <2>5, <3>1 DEF ShutsDown
  <2> QED
    BY <1>1, <2>3, <2>4, <2>5 DEF PcapTakesPosted
<1>2. CASE PcapProcessesQueue
  BY <1>2, ProcessQueueMoves
<1>3. CASE PcapTransferTimeout
  <2>1. LeavesQueue /\ transferTimer /\ FinishTransferWithError
    BY <1>3, ElsewhereAdvances DEF PcapTransferTimeout, HandleTransferTimeout, FinishTransferWithError
  <2>2. pcapState = "Transferring"
    BY <2>1 DEF TransferLinked
  <2> QED
    BY <2>1, <2>2, FinishMoves
<1>4. CASE CaptureEnds \/ CaptureLimit
  <2>1. LeavesQueue /\ (HandleCaptureFinished \/ StopCaptureForLimit)
    BY <1>4, ElsewhereAdvances DEF CaptureEnds, CaptureLimit, HandleCaptureFinished, StopCaptureForLimit
  <2> QED
    BY <2>1, CaptureMoves
<1> QED
  BY <1>1, <1>2, <1>3, <1>4 DEF PcapThread

LEMMA ContextInit == Init => ContextInvariant
<1> SUFFICES ASSUME Init PROVE ContextInvariant
  OBVIOUS
<1>1. /\ requestCounter = 0 /\ DOMAIN contexts = {} /\ toPcap = << >> /\ toControl = {} /\ socket = FALSE
      /\ pcapState = "Idle" /\ pcapQueue = << >> /\ capture.id = 0 /\ transfer.id = 0
      /\ transferTimer = FALSE /\ toHandler = << >>
  BY DEF Init, HandlerInit, PcapInit, Nobody
<1>2. DOMAIN toPcap = {} /\ DOMAIN pcapQueue = {} /\ DOMAIN toHandler = {}
  BY <1>1
<1>3. Ordered
  BY <1>1, <1>2 DEF Ordered, Behind
<1>4. WaitingHaveContexts
  BY <1>1, <1>2 DEF WaitingHaveContexts
<1>5. CaptureLinked /\ TransferLinked
  BY <1>1 DEF CaptureLinked, TransferLinked
<1>6. ReadsEndOnce /\ Accounted
  BY <1>1, <1>2 DEF ReadsEndOnce, Accounted
<1> QED
  BY <1>3, <1>4, <1>5, <1>6 DEF ContextInvariant

LEMMA ContextStep ==
  TypeOK /\ OwnersInvariant /\ CaptureInvariant /\ ContextInvariant /\ [Next]_vars => ContextInvariant'
<1> SUFFICES ASSUME TypeOK, OwnersInvariant, CaptureInvariant, ContextInvariant, [Next]_vars
             PROVE  ContextInvariant'
  OBVIOUS
<1>1. Ordered /\ WaitingHaveContexts /\ CaptureLinked /\ TransferLinked /\ ReadsEndOnce /\ Accounted
  BY DEF ContextInvariant
<1>2. CASE TakePosted
  <2>1. Taking
    BY <1>2, TakePostedTakes
  <2>2. Ordered' /\ WaitingHaveContexts'
    BY <1>1, <2>1, TakingOrdered, TakingWaiting
  <2>3. CaptureLinked' /\ TransferLinked'
    BY <1>1, <2>1, TakingCapture
  <2>4. ReadsEndOnce' /\ Accounted'
    BY <1>1, <2>1, TakingReads, TakingAccounted
  <2> QED
    BY <2>2, <2>3, <2>4 DEF ContextInvariant
<1>3. CASE PcapThread
  <2>1. Ignores \/ (\E request : TakesRequest(request)) \/ ShutsDown \/ \E event : Moves(event)
    BY <1>1, <1>3, PcapThreadMoves
  <2>2. CASE \E event : Moves(event)
    BY <2>2, AnswersRequestContexts, StartsCaptureContexts, FailsToReadContexts, StartsTransferContexts,
       EndsTransferContexts, SendsChunkContexts, CaptureEndsContexts DEF Moves
  <2> QED
    BY <2>1, <2>2, IgnoresContexts, TakesRequestContexts, ShutsDownContexts
<1>4. CASE Connect
  BY <1>4, ConnectContexts
<1>5. CASE TakeAck \/ ControlResponds \/ AckTimeout \/ Disconnect
           \/ ClientRequests \/ ClientReceives \/ ClientRepeatsAck \/ RestrictLogin \/ UNCHANGED vars
  <2>1. Talking
    BY <1>1, <1>5, MainThreadTalks
  <2>2. Ordered' /\ WaitingHaveContexts'
    BY <1>1, <2>1, TalkingOrdered, TalkingWaiting
  <2>3. CaptureLinked' /\ TransferLinked'
    BY <1>1, <2>1, TalkingCapture
  <2>4. ReadsEndOnce' /\ Accounted'
    BY <1>1, <2>1, TalkingReads, TalkingAccounted
  <2> QED
    BY <2>2, <2>3, <2>4 DEF ContextInvariant
<1> QED
  BY <1>2, <1>3, <1>4, <1>5 DEF Next, MainThread, Client

(* The invariant of the contexts: the requests reach PCAP in the order of   *)
(* their numbers, what works or waits for the present client has its        *)
(* context, and every context has what will take it away.                   *)
THEOREM ContextInvariantHolds == Spec => []ContextInvariant
<1>1. Init => TypeOK /\ OwnersInvariant /\ CaptureInvariant /\ ContextInvariant
  BY TypeInit, OwnersInit, CaptureInit, ContextInit
<1>2. TypeOK /\ OwnersInvariant /\ CaptureInvariant /\ ContextInvariant /\ [Next]_vars
      => (TypeOK /\ OwnersInvariant /\ CaptureInvariant /\ ContextInvariant)'
  BY TypeStep, OwnersStep, CaptureStep, ContextStep
<1> QED
  BY <1>1, <1>2, PTL DEF Spec

(* A capture that goes on keeps the context its request was given           *)
(* (removePcapWriteContext takes the one of the capture that was read).     *)
THEOREM CaptureKeepsContextHolds == Spec => []CaptureKeepsContext
<1>1. ContextInvariant => CaptureKeepsContext
  BY DEF ContextInvariant, CaptureLinked, CaptureKeepsContext, Has
<1> QED
  BY <1>1, ContextInvariantHolds, PTL

LEMMA ContextsMentioned ==
  ASSUME TypeOK, ContextInvariant
  PROVE  NoContextForgotten
<1> SUFFICES ASSUME NEW id \in DOMAIN contexts, contexts[id].kind \in PcapKinds
             PROVE  \/ \E i \in DOMAIN toPcap : toPcap[i].type = "request" /\ toPcap[i].id = id
                    \/ \E i \in DOMAIN pcapQueue : pcapQueue[i].id = id
                    \/ \E i \in DOMAIN toHandler : Mentions(toHandler[i], id)
                    \/ id \in {capture.id, transfer.id}
  BY DEF NoContextForgotten
<1>1. AccountedFor(id)
  BY DEF ContextInvariant, Accounted
<1>2. \A i \in DOMAIN toHandler : \A by : Of(toHandler[i], by) => Mentions(toHandler[i], by)
  <2> SUFFICES ASSUME NEW i \in DOMAIN toHandler, NEW by, Of(toHandler[i], by)
               PROVE  Mentions(toHandler[i], by)
    OBVIOUS
  <2>1. toHandler[i] \in Posted
    BY NumbersInNat
  <2>2. toHandler[i].type \in {"response", "chunk"}
    BY <2>1 DEF Posted
  <2> QED
    BY <2>2 DEF Mentions, Of, Answered
<1>3. \A i \in DOMAIN toHandler : Relating(toHandler[i], id) => Mentions(toHandler[i], id)
  BY DEF Relating, Mentions
<1>4. \A i \in DOMAIN toHandler, by \in DOMAIN contexts :
        Of(toHandler[i], by) /\ contexts[by].related = id => Mentions(toHandler[i], id)
  BY DEF Of, Mentions, Answered
<1>5. Waits(id) => \/ \E i \in DOMAIN toPcap : toPcap[i].type = "request" /\ toPcap[i].id = id
                   \/ \E i \in DOMAIN pcapQueue : pcapQueue[i].id = id
  BY DEF Waits, Asks
<1>6. Ending(id) => \E i \in DOMAIN toHandler : Mentions(toHandler[i], id)
  BY <1>2 DEF Ending
<1>7. \A by \in DOMAIN contexts : Ending(by) /\ Relates(by, id) =>
        \E i \in DOMAIN toHandler : Mentions(toHandler[i], id)
  BY <1>3, <1>4 DEF Ending, Relates
<1> QED
  BY <1>1, <1>2, <1>5, <1>6, <1>7 DEF AccountedFor, PcapKinds

(* No context of a request for PCAP is left behind: an answer to it is      *)
(* still to come, or its capture is still to be read.                       *)
THEOREM NoContextForgottenHolds == Spec => []NoContextForgotten
<1>1. TypeOK /\ ContextInvariant => NoContextForgotten
  BY ContextsMentioned
<1> QED
  BY <1>1, TypeHolds, ContextInvariantHolds, PTL
=============================================================================
