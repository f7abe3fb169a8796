------------------------ MODULE WebSocketProxySession -------------------------
(***************************************************************************)
(* One browser's bridge to the API (backend/webserver/ws/                  *)
(* WebSocketProxySession.cpp), the single place for a browser (ui/         *)
(* UiOccupancyTracker.cpp), and the API's own single place for a client    *)
(* (backend/api/server.cpp).                                               *)
(*                                                                         *)
(* A connection's name is used again once nothing of it is left.  link[c]  *)
(* holds the browser's socket, the object that bridges it, and that        *)
(* object's socket to the API:                                             *)
(*                                                                         *)
(*   client   "free", "handshake", "open", "closing"    the browser socket *)
(*   alive    the browser still answers; a dead one never closes           *)
(*   silent   heartbeat intervals that have passed since it is dead        *)
(*   cookie   the session the upgrade request carried                      *)
(*   object   "none", "live", "doomed" (deleteLater has been called)       *)
(*   wired    the object's handlers are connected to the two sockets       *)
(*   owns     m_ownsOccupancy                                              *)
(*   backend  "none", "connecting", "connected", "closing"                 *)
(*   atApi    "no", "accepted", "rejected"              the API's end      *)
(*   bridged  m_backendConnected                                           *)
(*   pending  m_pendingText                             messages waiting   *)
(*   beating  m_heartbeatTimer is active                                   *)
(*   timeout  intervals left of m_heartbeatTimeoutTimer, 0: not armed      *)
(*   waiting  m_waitingForHeartbeatPong                                    *)
(*                                                                         *)
(* Qt may emit disconnected from inside close(); every handler here is     *)
(* idempotent once it has released the place, so the signal is a step of   *)
(* its own.                                                                *)
(***************************************************************************)
EXTENDS Naturals, LoginState

CONSTANTS
  Conns,           \* connections that exist at a time
  None,            \* no connection
  HeartbeatTicks,  \* kHeartbeatTimeoutMs / kHeartbeatIntervalMs
  QueueLimit       \* kMaxPendingMessages and kMaxPendingBytes

ASSUME ProxyAssumption ==
  /\ None \notin Conns
  /\ HeartbeatTicks \in Nat \ {0}
  /\ QueueLimit \in Nat

VARIABLES
  link,     \* the connections
  owner,    \* m_ownerPeerAddress: whose place it is
  served,   \* MinimalWebSocketServer::m_client: whom the API serves
  passed    \* what the last step has handed on: <<c, "up">> to the API,
            \* <<c, "down">> to the browser, << >> nothing

proxyVars == <<link, owner, served, passed>>

Unused ==
  [client |-> "free", alive |-> FALSE, silent |-> 0, cookie |-> 0, object |-> "none", wired |-> FALSE,
   owns |-> FALSE, backend |-> "none", atApi |-> "no", bridged |-> FALSE, pending |-> 0,
   beating |-> FALSE, timeout |-> 0, waiting |-> FALSE]

Links ==
  [client : {"free", "handshake", "open", "closing"}, alive : BOOLEAN,
   silent : 0 .. HeartbeatTicks + 1, cookie : Nat,
   object : {"none", "live", "doomed"}, wired : BOOLEAN, owns : BOOLEAN,
   backend : {"none", "connecting", "connected", "closing"},
   atApi : {"no", "accepted", "rejected"}, bridged : BOOLEAN, pending : Nat,
   beating : BOOLEAN, timeout : 0 .. HeartbeatTicks, waiting : BOOLEAN]

ProxyTypeOK ==
  /\ link \in [Conns -> Links]
  /\ owner \in Conns \union {None}
  /\ served \in Conns \union {None}
  /\ passed \in {<< >>} \union (Conns \X {"up", "down"})

ProxyInit ==
  /\ link = [c \in Conns |-> Unused]
  /\ owner = None
  /\ served = None
  /\ passed = << >>

Exists(c) == link[c].object # "none"

IsFree(c) ==
  /\ link[c].client = "free" /\ ~Exists(c)
  /\ link[c].backend = "none" /\ served # c

-----------------------------------------------------------------------------
(* The place, and closing *)

ReleaseOccupancy_KeepsFlag(c, l) ==
  /\ owner' = IF link[c].owns THEN None ELSE owner
  /\ link' = [link EXCEPT ![c] = l]

(* releaseOccupancy, with l the connection's other new values: the tracker *)
(* forgets whoever owns the place, so only the owner may ask it to.        *)
ReleaseOccupancy(c, l) ==
  /\ owner' = IF link[c].owns THEN None ELSE owner
  /\ link' = [link EXCEPT ![c] = [l EXCEPT !.owns = FALSE]]

(* close() on the browser's socket, if it is connected                     *)
CloseClient(l) == IF l.client = "open" THEN [l EXCEPT !.client = "closing"] ELSE l

(* close() on the API's socket, if it is connected or connecting           *)
CloseBackend(l) ==
  IF l.backend \in {"connecting", "connected"} THEN [l EXCEPT !.backend = "closing"] ELSE l

DeleteLater(l) == [l EXCEPT !.object = "doomed"]

StopHeartbeat(l) == [l EXCEPT !.beating = FALSE, !.timeout = 0]

(* closeDueToQueueOverflow and closeDueToHeartbeatTimeout                  *)
CloseBoth(c) ==
  ReleaseOccupancy(c, DeleteLater(CloseBackend(CloseClient(StopHeartbeat(link[c])))))

(* What restrictLogin leaves of a connection: nothing is forwarded after   *)
(* it, neither what waits nor what still arrives.                          *)
RestrictedProxy(l) ==
  [StopHeartbeat(CloseClient(DeleteLater(l))) EXCEPT
     !.wired = FALSE, !.pending = 0, !.bridged = FALSE, !.owns = FALSE,
     !.backend = "none", !.atApi = "no"]

(* restrictLogin in every session of the set, as a signal to them delivers *)
Restricted(cs) == [c \in Conns |-> IF c \in cs THEN RestrictedProxy(link[c]) ELSE link[c]]

OwnerAfterRestriction(cs) == IF \E c \in cs : link[c].owns THEN None ELSE owner

RestrictLogin(cs) ==
  /\ link' = Restricted(cs)
  /\ owner' = OwnerAfterRestriction(cs)

-----------------------------------------------------------------------------
(* The constructor reads the login state again, after newConnection did.   *)

TryClaim(c) == owner = None

Construct(c) ==
  /\ \/ /\ ~LoginAllowed
        /\ link' = [link EXCEPT ![c] = RestrictedProxy(@)]
        /\ owner' = owner
     \/ /\ LoginAllowed /\ ~TryClaim(c)      \* "ui already in use"
        /\ link' = [link EXCEPT ![c] = CloseClient(DeleteLater(@))]
        /\ owner' = owner
     \/ /\ LoginAllowed /\ TryClaim(c)
        /\ link' = [link EXCEPT ![c] = [@ EXCEPT !.object = "live", !.wired = TRUE, !.owns = TRUE,
                                                 !.backend = "connecting", !.beating = TRUE]]
        /\ owner' = c
  /\ UNCHANGED served

(* The deferred deletion; the API's socket is a child and goes with it.    *)
DeleteProxy(c) ==
  /\ link[c].object = "doomed"
  /\ link' = [link EXCEPT ![c] = [StopHeartbeat(@) EXCEPT
                !.object = "none", !.wired = FALSE, !.backend = "none", !.atApi = "no",
                !.bridged = FALSE, !.pending = 0, !.waiting = FALSE]]
  /\ UNCHANGED <<owner, served>>

-----------------------------------------------------------------------------
(* Messages *)

HandsOn(c, way) == passed' = <<c, way>>
HandsOnNothing == passed' = << >>

BackendConnected_Unchecked(c) ==
  /\ link[c].backend = "connecting" /\ link[c].atApi # "no" /\ link[c].wired
  /\ link' = [link EXCEPT ![c] =
                [@ EXCEPT !.backend = "connected", !.bridged = TRUE, !.pending = 0]]
  /\ IF link[c].pending > 0 THEN HandsOn(c, "up") ELSE HandsOnNothing
  /\ UNCHANGED <<owner, served>>

(* connected: what the browser sent so far goes out in one piece.          *)
BackendConnected(c) ==
  /\ link[c].backend = "connecting" /\ link[c].atApi # "no" /\ link[c].wired
  /\ \/ ~LoginAllowed /\ RestrictLogin({c}) /\ HandsOnNothing
     \/ /\ LoginAllowed
        /\ link' = [link EXCEPT ![c] =
                      [@ EXCEPT !.backend = "connected", !.bridged = TRUE, !.pending = 0]]
        /\ IF link[c].pending > 0 THEN HandsOn(c, "up") ELSE HandsOnNothing
        /\ UNCHANGED owner
  /\ UNCHANGED served

CanQueueMessage(l) == l.pending < QueueLimit

(* The browser sends a message.  Qt drops what is written to a socket that *)
(* is no longer connected.                                                 *)
ClientMessage(c) ==
  LET l == link[c] IN
  /\ l.client = "open" /\ l.alive /\ l.wired
  /\ \/ ~LoginAllowed /\ RestrictLogin({c}) /\ HandsOnNothing
     \/ /\ LoginAllowed /\ l.bridged
        /\ IF l.backend = "connected" THEN HandsOn(c, "up") ELSE HandsOnNothing
        /\ UNCHANGED <<link, owner>>
     \/ /\ LoginAllowed /\ ~l.bridged /\ CanQueueMessage(l)
        /\ link' = [link EXCEPT ![c].pending = @ + 1]
        /\ HandsOnNothing
        /\ UNCHANGED owner
     \/ /\ LoginAllowed /\ ~l.bridged /\ ~CanQueueMessage(l)
        /\ CloseBoth(c)
        /\ HandsOnNothing
  /\ UNCHANGED served

(* The API sends a message; without its client it sends none.              *)
BackendMessage(c) ==
  /\ served = c /\ link[c].backend = "connected" /\ link[c].wired
  /\ IF link[c].client = "open" THEN HandsOn(c, "down") ELSE HandsOnNothing
  /\ UNCHANGED <<link, owner, served>>

-----------------------------------------------------------------------------
(* The heartbeat *)

(* One more interval of silence; nothing is learnt from counting on.       *)
Silence(l) ==
  IF l.client = "open" /\ ~l.alive /\ l.silent <= HeartbeatTicks
    THEN [l EXCEPT !.silent = @ + 1] ELSE l

SendHeartbeatPing_Rearms(c) ==
  /\ link[c].beating /\ link[c].timeout # 1
  /\ link' = [link EXCEPT ![c] =
       IF @.client # "open" THEN @
       ELSE [Silence(@) EXCEPT !.waiting = TRUE, !.timeout = HeartbeatTicks]]
  /\ UNCHANGED <<owner, served>>

(* The interval has passed: one fewer to wait for the pong, or a new ping. *)
SendHeartbeatPing(c) ==
  /\ link[c].beating /\ link[c].timeout # 1
  /\ link' = [link EXCEPT ![c] =
       IF @.waiting \/ @.client # "open"
         THEN [Silence(@) EXCEPT !.timeout = IF link[c].timeout > 0 THEN link[c].timeout - 1 ELSE 0]
         ELSE [Silence(@) EXCEPT !.waiting = TRUE, !.timeout = HeartbeatTicks]]
  /\ UNCHANGED <<owner, served>>

HeartbeatPong(c) ==
  /\ link[c].client = "open" /\ link[c].alive /\ link[c].wired /\ link[c].waiting
  /\ link' = [link EXCEPT ![c].waiting = FALSE, ![c].timeout = 0]
  /\ UNCHANGED <<owner, served>>

CloseDueToHeartbeatTimeout(c) ==
  /\ link[c].timeout = 1
  /\ CloseBoth(c)
  /\ UNCHANGED served

-----------------------------------------------------------------------------
(* The sockets end *)

(* disconnected of the browser's socket: a living browser leaves, or a     *)
(* close of this side has been carried out.                                *)
ClientDisconnected(c) ==
  LET l == [link[c] EXCEPT !.client = "free", !.alive = FALSE, !.silent = 0,
                            !.cookie = 0] IN
  /\ \/ link[c].client = "closing"
     \/ link[c].client = "open" /\ link[c].alive
  /\ IF link[c].wired
       THEN ReleaseOccupancy(c, DeleteLater(CloseBackend(l)))
       ELSE link' = [link EXCEPT ![c] = l] /\ UNCHANGED owner
  /\ UNCHANGED served

(* disconnected of the API's socket: this side closed it, the API turned   *)
(* it away, or the API has ended.                                          *)
BackendDisconnected(c) ==
  /\ link[c].backend \in {"connected", "closing"} /\ link[c].wired
  /\ ReleaseOccupancy(c, DeleteLater(CloseClient([link[c] EXCEPT
                           !.backend = "none", !.atApi = "no"])))
  /\ served' = IF served = c THEN None ELSE served

(* An error of the API's socket, with its disconnected signal to follow or *)
(* not; the place stays taken until one of the two sockets is gone.        *)
BackendError(c) ==
  /\ link[c].backend \in {"connecting", "connected"} /\ link[c].wired
  /\ \E rest \in {"none", "closing"} :
       link' = [link EXCEPT ![c] = CloseClient([@ EXCEPT !.backend = rest, !.atApi = "no"])]
  /\ UNCHANGED <<owner, served>>

(* The browser is cut off without a word.                                  *)
PeerDies(c) ==
  /\ link[c].client # "free" /\ link[c].alive
  /\ link' = [link EXCEPT ![c].alive = FALSE]
  /\ UNCHANGED <<owner, served>>

(* The API's end: a second client is turned away.                          *)
ApiNewConnection(c) ==
  /\ link[c].backend = "connecting" /\ link[c].atApi = "no"
  /\ link' = [link EXCEPT ![c].atApi = IF served = None THEN "accepted" ELSE "rejected"]
  /\ served' = IF served = None THEN c ELSE served
  /\ UNCHANGED owner

(* The API learns that its client has gone.                                *)
ApiDisconnected(c) ==
  /\ served = c /\ link[c].backend \in {"none", "closing"}
  /\ served' = None
  /\ UNCHANGED <<link, owner>>
=============================================================================
