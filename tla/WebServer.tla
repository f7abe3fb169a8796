------------------------------ MODULE WebServer -------------------------------
(***************************************************************************)
(* The web server process: the HTTP requests that change something         *)
(* (backend/webserver/http/StaticServer.cpp), the WebSocket upgrade and    *)
(* the handler that turns an upgraded connection into a proxy session      *)
(* (webserver/main.cpp), with the sessions and the account they act on.    *)
(*                                                                         *)
(* One thread runs every handler to its end.  Only the login-state file is *)
(* written by another process, so it may change between two reads of one   *)
(* handler: newConnection reads it twice and is two steps, the connection  *)
(* in between is "handling".  A request the login state refuses does what  *)
(* the timer's RefreshLoginState does and is not a step of its own; a      *)
(* request that is refused for another reason changes nothing.             *)
(***************************************************************************)
EXTENDS WebSocketProxySession, AuthManager, Sequences

CONSTANTS
  MaxAccounts,   \* bound: accounts ever set up
  MaxLogins,     \* bound: sessions ever handed out
  MaxBlocks      \* bound: times the login is blocked

ASSUME WebServerAssumption == {MaxAccounts, MaxLogins, MaxBlocks} \subseteq Nat

VARIABLES
  auth,         \* the AuthManager
  stored,       \* the account in the authentication file
  accounts,     \* accounts created so far; the last one is number "accounts"
  issued,       \* for every session handed out, the account it was for
  restriction,  \* m_loginRestriction; "" while it is empty
  handling,     \* the connection newConnection is working on
  blocks        \* times the login has been blocked

vars == <<login, proxyVars, auth, stored, accounts, issued, restriction, handling, blocks>>

Tokens == 1 .. Len(issued)

(* Every variable has its type.                                             *)
TypeOK ==
  /\ login \in LoginStates
  /\ ProxyTypeOK
  /\ auth \in [loaded : BOOLEAN, user : Nat, sessions : SUBSET Tokens]
  /\ stored \in Nat /\ accounts \in Nat /\ issued \in Seq(Nat) /\ blocks \in Nat
  /\ restriction \in (LoginStates \ {"allowed"}) \union {""}
  /\ handling \in Conns \union {None}

Init ==
  /\ login = "allowed"
  /\ ProxyInit
  /\ stored \in {NoUser, 1} /\ accounts = stored /\ issued = << >>
  /\ auth = Load(stored)
  /\ restriction = ""
  /\ handling = None /\ blocks = 0

accountVars == <<stored, accounts, issued>>
idle == handling = None

-----------------------------------------------------------------------------
(* The login state *)

(* refreshLoginState of a login that is allowed, the first thing a request *)
(* handler does                                                            *)
SeesAllowed ==
  /\ idle /\ LoginAllowed
  /\ restriction' = ""

(* The sessions loginRestricted is emitted to: all there are, if the reason *)
(* is a new one                                                            *)
NotYetCut == {c \in Conns : Exists(c) /\ restriction # login}

(* The timer's refreshLoginState and that of a request that is refused: a  *)
(* reason that has not been reported yet cuts every proxy session.         *)
RefreshLoginState ==
  /\ idle
  /\ IF LoginAllowed
       THEN restriction' = "" /\ UNCHANGED <<auth, link, owner>>
       ELSE /\ auth' = InvalidateSessions(auth)
            /\ restriction' = login
            /\ RestrictLogin(NotYetCut)
  /\ HandsOnNothing
  /\ UNCHANGED <<login, served, accountVars, handling, blocks>>

(* The API restricts the login (before a reboot or a factory reset), at    *)
(* any moment as it is another process.                                    *)
BlockLogin(operation, outcome) ==
  /\ LoginAllowed /\ blocks < MaxBlocks
  /\ BlockLoginForReboot(operation, outcome)
  /\ blocks' = blocks + 1
  /\ HandsOnNothing
  /\ UNCHANGED <<link, owner, served, auth, accountVars, restriction, handling>>

(* The launcher publishes that a login is allowed, under a web server that *)
(* has outlived the launcher's predecessor.                                *)
PublishLogin ==
  /\ ~LoginAllowed
  /\ InitializeLoginState
  /\ HandsOnNothing
  /\ UNCHANGED <<link, owner, served, auth, accountVars, restriction, handling, blocks>>

-----------------------------------------------------------------------------
(* /auth/... *)

Setup(saved) ==
  /\ SeesAllowed
  /\ SetupRequired(auth) /\ accounts < MaxAccounts
  /\ auth' = CreateUser(auth, accounts + 1, saved)
  /\ accounts' = accounts + 1
  /\ stored' = IF saved THEN accounts + 1 ELSE stored
  /\ HandsOnNothing
  /\ UNCHANGED <<login, link, owner, served, issued, handling, blocks>>

Login ==
  /\ SeesAllowed
  /\ HasUser(auth) /\ Len(issued) < MaxLogins
  /\ issued' = Append(issued, auth.user)
  /\ auth' = CreateSession(auth, Len(issued) + 1)
  /\ HandsOnNothing
  /\ UNCHANGED <<login, link, owner, served, stored, accounts, handling, blocks>>

(* Logging out ends the session; a bridge it opened stays.                 *)
Logout(token) ==
  /\ SeesAllowed
  /\ auth' = RemoveSession(auth, token)
  /\ HandsOnNothing
  /\ UNCHANGED <<login, link, owner, served, accountVars, handling, blocks>>

(* A session's twelve hours are over (AuthManager::validateSession).       *)
SessionExpires(token) ==
  /\ idle
  /\ auth' = RemoveSession(auth, token)
  /\ HandsOnNothing
  /\ UNCHANGED <<login, link, owner, served, accountVars, restriction, handling, blocks>>

(* A password reset that PasswordReset grants; credentialsReset reaches    *)
(* every proxy session there is.                                           *)
Reset(saved) ==
  /\ SeesAllowed
  /\ HasUser(auth)
  /\ auth' = ResetUser(auth, saved)
  /\ stored' = IF saved THEN NoUser ELSE stored
  /\ IF saved THEN RestrictLogin({c \in Conns : Exists(c)}) ELSE UNCHANGED <<link, owner>>
  /\ HandsOnNothing
  /\ UNCHANGED <<login, served, accounts, issued, handling, blocks>>

-----------------------------------------------------------------------------
(* The upgrade *)

(* isAuthenticated, once refreshLoginState has allowed it                  *)
IsAuthenticated(token) == HasUser(auth) /\ ValidateSession(auth, token)

(* The socket is handed to QWebSocketServer for the handshake.             *)
Upgrade(c, token) ==
  /\ SeesAllowed
  /\ IsFree(c) /\ IsAuthenticated(token)
  /\ link' = [link EXCEPT ![c] =
                [Unused EXCEPT !.client = "handshake", !.alive = TRUE, !.cookie = token]]
  /\ HandsOnNothing
  /\ UNCHANGED <<login, owner, served, auth, accountVars, handling, blocks>>

HandshakeFails(c) ==
  /\ idle /\ link[c].client = "handshake"
  /\ link' = [link EXCEPT ![c] = Unused]
  /\ HandsOnNothing
  /\ UNCHANGED <<login, owner, served, auth, accountVars, restriction, handling, blocks>>

NewConnection_TrustsUpgrade(c) ==
  /\ SeesAllowed /\ link[c].client = "handshake"
  /\ link' = [link EXCEPT ![c].client = "open"]
  /\ handling' = c
  /\ HandsOnNothing
  /\ UNCHANGED <<login, owner, served, auth, accountVars, blocks>>

(* newConnection: the login state and the cookie are checked again, as     *)
(* either may have changed during the handshake.  A refusal because of the *)
(* login state closes the connection here and is reported as the timer     *)
(* would report it.                                                        *)
NewConnection(c) ==
  /\ idle /\ link[c].client = "handshake"
  /\ \/ /\ SeesAllowed /\ IsAuthenticated(link[c].cookie)
        /\ link' = [link EXCEPT ![c].client = "open"]
        /\ handling' = c
        /\ UNCHANGED <<auth, owner>>
     \/ /\ SeesAllowed /\ ~IsAuthenticated(link[c].cookie)
        /\ link' = [link EXCEPT ![c].client = "closing"]
        /\ UNCHANGED <<auth, owner, handling>>
     \/ /\ ~LoginAllowed
        /\ auth' = InvalidateSessions(auth)
        /\ restriction' = login
        /\ link' = [Restricted(NotYetCut) EXCEPT ![c].client = "closing"]
        /\ owner' = OwnerAfterRestriction(NotYetCut)
        /\ UNCHANGED handling
  /\ HandsOnNothing
  /\ UNCHANGED <<login, served, accountVars, blocks>>

(* ... and the rest of the handler, the proxy session's constructor        *)
NewProxy ==
  /\ ~idle
  /\ Construct(handling)
  /\ handling' = None
  /\ HandsOnNothing
  /\ UNCHANGED <<login, auth, accountVars, restriction, blocks>>

-----------------------------------------------------------------------------
(* The launcher starts the three processes anew.  The sessions are gone,   *)
(* the account is read from its file.                                      *)
Restart ==
  /\ InitializeLoginState
  /\ link' = [c \in Conns |-> Unused] /\ owner' = None /\ served' = None
  /\ auth' = Load(stored)
  /\ restriction' = "" /\ handling' = None
  /\ HandsOnNothing
  /\ UNCHANGED <<accountVars, blocks>>

Untouched == UNCHANGED <<login, auth, accountVars, restriction, handling, blocks>>

(* The event loop delivers a message, or lets the waiting ones go.         *)
MessageStep(c) ==
  /\ idle
  /\ BackendConnected(c) \/ ClientMessage(c) \/ BackendMessage(c)
  /\ Untouched

(* The event loop delivers anything else to a proxy session.               *)
ProxyStep(c) ==
  /\ idle
  /\ \/ SendHeartbeatPing(c) \/ HeartbeatPong(c) \/ CloseDueToHeartbeatTimeout(c)
     \/ ClientDisconnected(c) \/ BackendDisconnected(c) \/ BackendError(c) \/ DeleteProxy(c)
  /\ HandsOnNothing /\ Untouched

(* Something happens outside the web server.                               *)
OutsideStep(c) ==
  /\ PeerDies(c) \/ ApiNewConnection(c) \/ ApiDisconnected(c)
  /\ HandsOnNothing /\ Untouched

Next ==
  \/ RefreshLoginState \/ PublishLogin \/ NewProxy \/ Login \/ Restart
  \/ \E operation \in {"reboot", "factory_reset"}, outcome \in BlockOutcomes :
       BlockLogin(operation, outcome)
  \/ \E saved \in BOOLEAN : Setup(saved) \/ Reset(saved)
  \/ \E token \in Tokens : Logout(token) \/ SessionExpires(token)
  \/ \E c \in Conns, token \in Tokens : Upgrade(c, token)
  \/ \E c \in Conns :
       NewConnection(c) \/ HandshakeFails(c) \/ MessageStep(c) \/ ProxyStep(c) \/ OutsideStep(c)

Spec == Init /\ [][Next]_vars

-----------------------------------------------------------------------------
(* The tracker's owner is the one session that believes it owns the place, *)
(* and no other has a connection to the API: a place that is released      *)
(* twice, or by a session that has lost it, lets a second browser in       *)
(* (WebSocketProxySession::releaseOccupancy).                              *)
OneUi ==
  /\ \A c \in Conns : link[c].owns <=> owner = c
  /\ \A c \in Conns : link[c].object = "live" => owner = c
  /\ \A c \in Conns : link[c].backend \in {"connecting", "connected"} => owner = c

(* Access ends with what it rests on.  A session the server would accept   *)
(* was handed out for the account there is; a bridge was opened by a       *)
(* session of that account, however the reset fell between the upgrade and *)
(* the constructor; and once the server has noticed a restriction there is *)
(* neither a session nor a bridge, and none is being made.                 *)
AccessEnds ==
  /\ \A token \in auth.sessions : issued[token] = auth.user
  /\ \A c \in Conns :
       link[c].object = "live" \/ handling = c => HasUser(auth) /\ issued[link[c].cookie] = auth.user
  /\ restriction # "" =>
       auth.sessions = {} /\ handling = None /\ \A c \in Conns : link[c].object # "live"

(* A message passes only for the browser that owns the place: to the API   *)
(* only while the login-state file allows a login, whether it was held     *)
(* back or not, and to the browser only until the server has noticed that  *)
(* it does not.                                                            *)
PassesOnlyForOwner ==
  \A c \in Conns :
    /\ passed = <<c, "up">> => owner = c /\ LoginAllowed
    /\ passed = <<c, "down">> => owner = c /\ restriction = ""

(* The place of a browser that has gone away without a word comes free:    *)
(* while its connection is still taken for open, no more intervals pass    *)
(* than the heartbeat waits for (at worst one until the next ping, and     *)
(* those until its timeout).                                               *)
SlotComesFree ==
  \A c \in Conns : owner = c /\ link[c].client = "open" => link[c].silent <= HeartbeatTicks

-----------------------------------------------------------------------------
(* What keeps these true, step by step.  The place belongs to a session    *)
(* from its constructor to its end, which takes the connection to the API  *)
(* with it; until the constructor a connection has nothing.                *)
OwnedWhileLive ==
  \A c \in Conns :
    /\ link[c].owns <=> link[c].object = "live"
    /\ link[c].owns <=> owner = c
    /\ link[c].object = "live" => link[c].wired
    /\ link[c].backend \in {"connecting", "connected"} => link[c].object = "live"

NothingBeforeConstruct ==
  \A c \in Conns :
    /\ handling = c => link[c].client = "open"
    /\ link[c].client = "handshake" \/ handling = c =>
         /\ link[c].object = "none" /\ ~link[c].wired
         /\ link[c].silent = 0 /\ link[c].timeout = 0 /\ ~link[c].waiting

(* A session or a bridge is always of a session that was handed out, and   *)
(* an account that is gone has left none.                                  *)
HandedOut ==
  /\ auth.loaded
  /\ auth.user = NoUser => auth.sessions = {}
  /\ \A c \in Conns : link[c].object = "live" \/ handling = c => link[c].cookie \in Tokens

(* A dead browser's silence and the time left to its pong make up for each *)
(* other; before the ping nothing has been counted.                        *)
SilenceIsWaitedFor ==
  \A c \in Conns :
    /\ link[c].alive => link[c].silent = 0
    /\ link[c].object = "live" /\ link[c].client = "open" =>
         IF link[c].waiting
           THEN link[c].timeout > 0 /\ link[c].silent + link[c].timeout <= HeartbeatTicks + 1
           ELSE link[c].silent = 0

WebInvariant ==
  /\ TypeOK
  /\ OwnedWhileLive /\ NothingBeforeConstruct /\ HandedOut /\ SilenceIsWaitedFor
  /\ AccessEnds /\ PassesOnlyForOwner
=============================================================================
