---------------------------- MODULE WebServer_proofs ----------------------------
(***************************************************************************)
(* Theorems about the web server, for every value of the constants: that   *)
(* WebInvariant is inductive, and with it the four properties the run      *)
(* checks.                                                                 *)
(*                                                                         *)
(* Most of WebInvariant speaks of one connection at a time, and most steps *)
(* change one connection.  That part is LinkInvariant, a predicate on the  *)
(* connection's record; what the record operators do to it is proved once, *)
(* and a step that leaves the accounts alone follows from KeepsInvariant.  *)
(***************************************************************************)
EXTENDS WebServer, TLAPS

-----------------------------------------------------------------------------
(* One connection *)

LinkInvariant(l, mine, inHand) ==
  /\ l.owns <=> l.object = "live"
  /\ l.owns <=> mine
  /\ l.object = "live" => l.wired
  /\ l.backend \in {"connecting", "connected"} => l.object = "live"
  /\ inHand => l.client = "open"
  /\ l.client = "handshake" \/ inHand =>
       l.object = "none" /\ ~l.wired /\ l.silent = 0 /\ l.timeout = 0 /\ ~l.waiting
  /\ l.alive => l.silent = 0
  /\ l.object = "live" /\ l.client = "open" =>
       IF l.waiting
         THEN l.timeout > 0 /\ l.silent + l.timeout <= HeartbeatTicks + 1
         ELSE l.silent = 0

LinksInvariant == \A c \in Conns : LinkInvariant(link[c], owner = c, handling = c)

(* The parts of WebInvariant that speak of one connection, put together.    *)
LEMMA OneConnectionAtATime ==
  /\ OwnedWhileLive /\ NothingBeforeConstruct /\ SilenceIsWaitedFor <=> LinksInvariant
  /\ (OwnedWhileLive /\ NothingBeforeConstruct /\ SilenceIsWaitedFor)' <=> LinksInvariant'
<1>1. OwnedWhileLive /\ NothingBeforeConstruct /\ SilenceIsWaitedFor <=> LinksInvariant
  BY Zenon DEF OwnedWhileLive, NothingBeforeConstruct, SilenceIsWaitedFor, LinksInvariant, LinkInvariant
<1>2. (OwnedWhileLive /\ NothingBeforeConstruct /\ SilenceIsWaitedFor)' <=> LinksInvariant'
  BY Zenon DEF OwnedWhileLive, NothingBeforeConstruct, SilenceIsWaitedFor, LinksInvariant, LinkInvariant
<1> QED
  BY <1>1, <1>2

(* What the record operators return.                                        *)
LEMMA UnusedIsLink ==
  Unused \in Links
  BY ProxyAssumption DEF Unused, Links

LEMMA CloseClientEffect ==
  ASSUME NEW l \in Links
  PROVE  /\ CloseClient(l) \in Links
         /\ CloseClient(l) = [l EXCEPT !.client = IF @ = "open" THEN "closing" ELSE @]
  BY DEF CloseClient, Links

LEMMA CloseBackendEffect ==
  ASSUME NEW l \in Links
  PROVE  /\ CloseBackend(l) \in Links
         /\ CloseBackend(l) = [l EXCEPT !.backend =
              IF @ \in {"connecting", "connected"} THEN "closing" ELSE @]
  BY DEF CloseBackend, Links

LEMMA DeleteLaterEffect ==
  ASSUME NEW l \in Links
  PROVE  DeleteLater(l) \in Links
  BY DEF DeleteLater, Links

LEMMA StopHeartbeatEffect ==
  ASSUME NEW l \in Links
  PROVE  StopHeartbeat(l) \in Links
<1>1. 0 \in 0 .. HeartbeatTicks
  BY ProxyAssumption
<1> QED
  BY <1>1, Zenon DEF StopHeartbeat, Links

LEMMA DisownedIsLink ==
  ASSUME NEW l \in Links
  PROVE  [l EXCEPT !.owns = FALSE] \in Links
  BY Zenon DEF Links

(* A connection whose bridge has been taken apart                           *)
Unwired(l) ==
  [l EXCEPT !.wired = FALSE, !.pending = 0, !.bridged = FALSE,
            !.owns = FALSE, !.backend = "none", !.atApi = "no"]

LEMMA UnwiredIsLink ==
  ASSUME NEW l \in Links
  PROVE  Unwired(l) \in Links
<1> DEFINE u == [l EXCEPT !.wired = FALSE, !.bridged = FALSE, !.owns = FALSE]
<1>1. u \in Links
  BY Zenon DEF Links
<1>2. Unwired(l) = [u EXCEPT !.pending = 0, !.backend = "none", !.atApi = "no"]
  BY DEF Links, Unwired
<1> HIDE DEF u
<1>3. [u EXCEPT !.pending = 0, !.backend = "none", !.atApi = "no"] \in Links
  BY <1>1 DEF Links
<1> QED
  BY <1>2, <1>3

(* A connection cut by a restriction has lost its place, its connection to  *)
(* the API and what waited; nothing of a handshake is touched.              *)
LEMMA RestrictedProxyEffect ==
  ASSUME NEW l \in Links
  PROVE  LET r == RestrictedProxy(l) IN
         /\ r \in Links
         /\ r.client = IF l.client = "open" THEN "closing" ELSE l.client
         /\ r.object = "doomed" /\ ~r.owns /\ r.backend = "none"
         /\ r.alive = l.alive /\ r.silent = l.silent /\ r.cookie = l.cookie
<1> DEFINE d == DeleteLater(l)
           k == CloseClient(d)
           h == StopHeartbeat(k)
<1>1. d \in Links /\ d = [l EXCEPT !.object = "doomed"]
  BY DeleteLaterEffect DEF DeleteLater
<1>2. k \in Links /\ k = [d EXCEPT !.client = IF @ = "open" THEN "closing" ELSE @]
  BY <1>1, CloseClientEffect
<1>3. h \in Links /\ h = [k EXCEPT !.beating = FALSE, !.timeout = 0]
  BY <1>2, StopHeartbeatEffect DEF StopHeartbeat
<1>4. RestrictedProxy(l) = Unwired(h)
  BY DEF RestrictedProxy, Unwired
<1> HIDE DEF d, k, h
<1>5. RestrictedProxy(l) \in Links
  BY <1>3, <1>4, UnwiredIsLink
<1>6. h.client = (IF l.client = "open" THEN "closing" ELSE l.client) /\ h.object = "doomed"
  BY <1>1, <1>2, <1>3 DEF Links
<1>7. h.alive = l.alive /\ h.silent = l.silent /\ h.cookie = l.cookie
  BY <1>1, <1>2, <1>3 DEF Links
<1>8. LET r == RestrictedProxy(l) IN
      /\ r.client = h.client /\ r.object = h.object /\ ~r.owns /\ r.backend = "none"
      /\ r.alive = h.alive /\ r.silent = h.silent /\ r.cookie = h.cookie
  BY <1>3, <1>4 DEF Links, Unwired
<1> QED
  BY <1>5, <1>6, <1>7, <1>8

(* So has one closed for a queue that overflows or for its silence.         *)
LEMMA ClosedBothEffect ==
  ASSUME NEW l \in Links
  PROVE  LET r == [DeleteLater(CloseBackend(CloseClient(StopHeartbeat(l)))) EXCEPT !.owns = FALSE] IN
         /\ r \in Links
         /\ r.client = IF l.client = "open" THEN "closing" ELSE l.client
         /\ r.object = "doomed" /\ ~r.owns /\ r.backend \notin {"connecting", "connected"}
         /\ r.alive = l.alive /\ r.silent = l.silent /\ r.cookie = l.cookie
<1> DEFINE h == StopHeartbeat(l)
           k == CloseClient(h)
           b == CloseBackend(k)
           d == DeleteLater(b)
<1>1. h \in Links /\ h = [l EXCEPT !.beating = FALSE, !.timeout = 0]
  BY StopHeartbeatEffect DEF StopHeartbeat
<1>2. k \in Links /\ k = [h EXCEPT !.client = IF @ = "open" THEN "closing" ELSE @]
  BY <1>1, CloseClientEffect
<1>3. b \in Links /\ b = [k EXCEPT !.backend = IF @ \in {"connecting", "connected"} THEN "closing" ELSE @]
  BY <1>2, CloseBackendEffect
<1>4. d \in Links /\ d = [b EXCEPT !.object = "doomed"]
  BY <1>3, DeleteLaterEffect DEF DeleteLater
<1> HIDE DEF d, k, h, b
<1>5. [d EXCEPT !.owns = FALSE] \in Links
  BY <1>4, DisownedIsLink
<1>6. b.client = (IF l.client = "open" THEN "closing" ELSE l.client) /\ b.backend \notin {"connecting", "connected"}
  BY <1>1, <1>2, <1>3 DEF Links
<1>7. b.alive = l.alive /\ b.silent = l.silent /\ b.cookie = l.cookie
  BY <1>1, <1>2, <1>3 DEF Links
<1>8. LET r == [d EXCEPT !.owns = FALSE] IN
      /\ r.client = b.client /\ r.object = "doomed" /\ ~r.owns /\ r.backend = b.backend
      /\ r.alive = b.alive /\ r.silent = b.silent /\ r.cookie = b.cookie
  BY <1>3, <1>4 DEF Links
<1> QED
  BY <1>5, <1>6, <1>7, <1>8 DEF d, k, h, b

(* A step that changes one connection is right if the connection is right   *)
(* after it and the others keep their place in everything.                  *)
LEMMA OneLinkChanges ==
  ASSUME ProxyTypeOK, LinksInvariant,
         NEW c \in Conns, NEW l \in Links,
         link' = [link EXCEPT ![c] = l],
         LinkInvariant(l, owner' = c, handling' = c),
         \A d \in Conns \ {c} : (owner' = d <=> owner = d) /\ (handling' = d <=> handling = d)
  PROVE  link' \in [Conns -> Links] /\ LinksInvariant'
<1>1. link' \in [Conns -> Links]
  BY DEF ProxyTypeOK
<1>2. ASSUME NEW d \in Conns
      PROVE  LinkInvariant(link'[d], owner' = d, handling' = d)
  <2>1. CASE d = c
    BY <2>1 DEF ProxyTypeOK
  <2>2. CASE d # c
    <3>1. link'[d] = link[d] /\ (owner' = d <=> owner = d) /\ (handling' = d <=> handling = d)
      BY <2>2 DEF ProxyTypeOK
    <3>2. LinkInvariant(link[d], owner = d, handling = d)
      BY DEF LinksInvariant
    <3> QED
      BY <3>1, <3>2 DEF LinkInvariant
  <2> QED
    BY <2>1, <2>2
<1> QED
  BY <1>1, <1>2 DEF LinksInvariant

(* A session cut by a restriction is right after it, and has no place.      *)
LEMMA RestrictedIsRight ==
  ASSUME NEW l \in Links, NEW mine \in BOOLEAN, NEW inHand \in BOOLEAN, l.client # "handshake"
  PROVE  LinkInvariant(l, mine, inHand) => LinkInvariant(RestrictedProxy(l), FALSE, FALSE)
  BY RestrictedProxyEffect DEF LinkInvariant

(* The same when every session of a set is cut.                             *)
LEMMA RestrictedLinks ==
  ASSUME ProxyTypeOK, LinksInvariant, idle,
         NEW cs \in SUBSET Conns, \A c \in cs : link[c].client # "handshake"
  PROVE  LET m == Restricted(cs)
             o == OwnerAfterRestriction(cs) IN
         /\ m \in [Conns -> Links] /\ o \in Conns \union {None}
         /\ \A c \in Conns : LinkInvariant(m[c], o = c, handling = c)
         /\ \A c \in Conns : m[c].cookie = link[c].cookie
         /\ \A c \in Conns : m[c].object = "live" => c \notin cs /\ link[c].object = "live"
         /\ \A c \in Conns \ cs : m[c] = link[c]
<1> DEFINE m == Restricted(cs)
           o == OwnerAfterRestriction(cs)
<1>1. m = [c \in Conns |-> IF c \in cs THEN RestrictedProxy(link[c]) ELSE link[c]]
  BY DEF Restricted
<1>2. o = IF \E c \in cs : link[c].owns THEN None ELSE owner
  BY DEF OwnerAfterRestriction
<1> HIDE DEF m, o
<1>3. \A c \in Conns : link[c] \in Links /\ RestrictedProxy(link[c]) \in Links
  BY RestrictedProxyEffect DEF ProxyTypeOK
<1>4. o \in Conns \union {None}
  BY <1>2 DEF ProxyTypeOK
<1>5. \A c \in Conns : o = c <=> owner = c /\ c \notin cs
  BY <1>2, ProxyAssumption DEF LinksInvariant, LinkInvariant
<1>6. \A c \in Conns : handling # c
  BY ProxyAssumption DEF idle
<1>7. ASSUME NEW c \in Conns
      PROVE  LinkInvariant(m[c], o = c, handling = c)
  <2>1. LinkInvariant(link[c], owner = c, handling = c)
    BY DEF LinksInvariant
  <2>2. CASE c \in cs
    <3>1. LinkInvariant(RestrictedProxy(link[c]), FALSE, FALSE)
      BY <1>3, <2>1, <2>2, RestrictedIsRight
    <3> QED
      BY <1>1, <1>5, <1>6, <2>2, <3>1 DEF LinkInvariant
  <2>3. CASE c \notin cs
    BY <1>1, <1>5, <1>6, <2>1, <2>3 DEF LinkInvariant
  <2> QED
    BY <2>2, <2>3
<1>8. \A c \in Conns : /\ m[c].cookie = link[c].cookie
                       /\ m[c].object = "live" => c \notin cs /\ link[c].object = "live"
                       /\ c \notin cs => m[c] = link[c]
  BY <1>1, <1>3, RestrictedProxyEffect
<1>9. m \in [Conns -> Links]
  BY <1>1, <1>3
<1> QED
  BY <1>4, <1>7, <1>8, <1>9 DEF m, o

LEMMA RestrictionCuts ==
  ASSUME ProxyTypeOK, LinksInvariant, idle,
         NEW cs \in SUBSET Conns, \A c \in cs : link[c].client # "handshake",
         RestrictLogin(cs), UNCHANGED handling
  PROVE  /\ link' \in [Conns -> Links] /\ owner' \in Conns \union {None}
         /\ LinksInvariant'
         /\ \A c \in Conns : link'[c].cookie = link[c].cookie
         /\ \A c \in Conns : link'[c].object = "live" => c \notin cs /\ link[c].object = "live"
<1>1. link' = Restricted(cs) /\ owner' = OwnerAfterRestriction(cs) /\ handling' = handling
  BY DEF RestrictLogin
<1> QED
  BY <1>1, RestrictedLinks DEF LinksInvariant

-----------------------------------------------------------------------------
(* Accounts and messages *)

(* Bridges that only end, of sessions and an account that stay, are still   *)
(* bridges of that account.                                                 *)
LEMMA BridgesOnlyEnd ==
  ASSUME HandedOut, AccessEnds,
         UNCHANGED <<auth, issued, restriction, handling>>,
         \A c \in Conns : link'[c].object = "live" \/ handling = c =>
           /\ link[c].object = "live" \/ handling = c
           /\ link'[c].cookie = link[c].cookie
  PROVE  HandedOut' /\ AccessEnds'
<1>1. \A c \in Conns : link'[c].object = "live" \/ handling' = c =>
        link'[c].cookie \in Tokens' /\ HasUser(auth') /\ issued'[link'[c].cookie] = auth'.user
  BY DEF HandedOut, AccessEnds, Tokens
<1>2. restriction' # "" => \A c \in Conns : link'[c].object # "live"
  BY ProxyAssumption DEF AccessEnds
<1> QED
  BY <1>1, <1>2 DEF HandedOut, AccessEnds, Tokens, HasUser

(* A step that hands on nothing hands on nothing wrong.                     *)
LEMMA NothingPasses ==
  ASSUME HandsOnNothing
  PROVE  PassesOnlyForOwner' /\ passed' \in {<< >>} \union (Conns \X {"up", "down"})
  BY DEF HandsOnNothing, PassesOnlyForOwner

-----------------------------------------------------------------------------
(* The steps of a proxy session *)

(* What has to be shown of a step that changes one connection, the place    *)
(* and the API's end of it, and no account.                                 *)
LEMMA SessionStep ==
  ASSUME WebInvariant, Untouched,
         NEW c \in Conns, NEW l \in Links,
         link' = [link EXCEPT ![c] = l],
         \/ owner' = owner
         \/ owner = c /\ owner' = None,
         LinkInvariant(l, owner' = c, handling = c),
         l.object = "live" => link[c].object = "live",
         l.object = "live" \/ handling = c => l.cookie = link[c].cookie,
         served' \in Conns \union {None},
         passed' \in {<< >>} \union (Conns \X {"up", "down"}),
         PassesOnlyForOwner'
  PROVE  WebInvariant'
<1> USE DEF WebInvariant, Untouched
<1>1. ProxyTypeOK /\ LinksInvariant
  BY OneConnectionAtATime DEF TypeOK
<1>2. owner' \in Conns \union {None}
  BY <1>1 DEF ProxyTypeOK
<1>3. \A d \in Conns \ {c} : (owner' = d <=> owner = d) /\ (handling' = d <=> handling = d)
  BY ProxyAssumption
<1>4. link' \in [Conns -> Links] /\ LinksInvariant'
  BY <1>1, <1>3, OneLinkChanges
<1>5. OwnedWhileLive' /\ NothingBeforeConstruct' /\ SilenceIsWaitedFor'
  BY <1>4, OneConnectionAtATime
<1>6. \A d \in Conns : link'[d].object = "live" \/ handling = d =>
         /\ link[d].object = "live" \/ handling = d
         /\ link'[d].cookie = link[d].cookie
  BY <1>1 DEF ProxyTypeOK
<1>7. HandedOut' /\ AccessEnds'
  BY <1>6, BridgesOnlyEnd DEF accountVars
<1>8. TypeOK'
  BY <1>2, <1>4 DEF TypeOK, ProxyTypeOK, Tokens, accountVars
<1> QED
  BY <1>5, <1>7, <1>8

(* closeDueToQueueOverflow and closeDueToHeartbeatTimeout end the bridge.   *)
LEMMA CloseBothStep ==
  ASSUME WebInvariant, idle, Untouched, NEW c \in Conns, link[c].client # "handshake",
         CloseBoth(c), HandsOnNothing, UNCHANGED served
  PROVE  WebInvariant'
<1> DEFINE l == [DeleteLater(CloseBackend(CloseClient(StopHeartbeat(link[c])))) EXCEPT !.owns = FALSE]
<1>1. link[c] \in Links /\ LinkInvariant(link[c], owner = c, FALSE) /\ handling # c
  BY OneConnectionAtATime, ProxyAssumption DEF WebInvariant, TypeOK, ProxyTypeOK, LinksInvariant, idle, LinkInvariant
<1>2. /\ l \in Links
      /\ l.client = IF link[c].client = "open" THEN "closing" ELSE link[c].client
      /\ l.object = "doomed" /\ ~l.owns /\ l.backend \notin {"connecting", "connected"}
      /\ l.alive = link[c].alive /\ l.silent = link[c].silent /\ l.cookie = link[c].cookie
  BY <1>1, ClosedBothEffect
<1>3. /\ link' = [link EXCEPT ![c] = l]
      /\ owner' = IF link[c].owns THEN None ELSE owner
  BY DEF CloseBoth, ReleaseOccupancy
<1> HIDE DEF l
<1>4. LinkInvariant(l, FALSE, FALSE)
  BY <1>1, <1>2 DEF LinkInvariant
<1>5. owner' # c /\ (owner' = owner \/ (owner = c /\ owner' = None))
  BY <1>1, <1>3, ProxyAssumption DEF LinkInvariant
<1>6. LinkInvariant(l, owner' = c, handling = c)
  BY <1>1, <1>4, <1>5 DEF LinkInvariant
<1> QED
  BY <1>1, <1>2, <1>3, <1>5, <1>6, NothingPasses, SessionStep DEF WebInvariant, TypeOK, ProxyTypeOK

(* What is known of a connection before a step of its session.              *)
LEMMA BeforeStep ==
  ASSUME WebInvariant, idle, NEW c \in Conns
  PROVE  /\ link[c] \in Links
         /\ LinkInvariant(link[c], owner = c, handling = c) /\ handling # c
         /\ owner \in Conns \union {None} /\ served \in Conns \union {None}
  BY OneConnectionAtATime, ProxyAssumption
  DEF WebInvariant, TypeOK, ProxyTypeOK, LinksInvariant, idle

(* restrictLogin of one session, which a message may bring about            *)
LEMMA RestrictStep ==
  ASSUME WebInvariant, idle, Untouched, NEW c \in Conns, link[c].client # "handshake",
         RestrictLogin({c}), HandsOnNothing, UNCHANGED served
  PROVE  WebInvariant'
<1>1. ProxyTypeOK /\ LinksInvariant
  BY OneConnectionAtATime DEF WebInvariant, TypeOK
<1>2. UNCHANGED handling
  BY DEF Untouched
<1>3. /\ link' \in [Conns -> Links] /\ owner' \in Conns \union {None}
      /\ LinksInvariant'
      /\ \A d \in Conns : link'[d].cookie = link[d].cookie
      /\ \A d \in Conns : link'[d].object = "live" => link[d].object = "live"
  BY <1>1, <1>2, RestrictionCuts
<1>4. HandedOut' /\ AccessEnds'
  BY <1>3, BridgesOnlyEnd DEF WebInvariant, Untouched, accountVars
<1>5. TypeOK'
  BY <1>1, <1>3, NothingPasses DEF WebInvariant, TypeOK, ProxyTypeOK, Tokens, Untouched, accountVars
<1> QED
  BY <1>3, <1>4, <1>5, NothingPasses, OneConnectionAtATime DEF WebInvariant

(* The heartbeat: a ping counts the silence it finds and starts the wait    *)
(* for a pong, or shortens it.                                              *)
LEMMA PingStep ==
  ASSUME WebInvariant, idle, Untouched, HandsOnNothing, NEW c \in Conns, SendHeartbeatPing(c)
  PROVE  WebInvariant'
<1> DEFINE l == link[c]
           s == Silence(l)
           n == IF l.waiting \/ l.client # "open"
                  THEN [s EXCEPT !.timeout = IF l.timeout > 0 THEN l.timeout - 1 ELSE 0]
                  ELSE [s EXCEPT !.waiting = TRUE, !.timeout = HeartbeatTicks]
<1>1. l \in Links /\ LinkInvariant(l, owner = c, handling = c) /\ handling # c
  BY BeforeStep
<1>2. l.timeout # 1 /\ link' = [link EXCEPT ![c] = n] /\ UNCHANGED <<owner, served>>
  BY DEF SendHeartbeatPing
<1> HIDE DEF l
<1>3. /\ s \in Links
      /\ s = [l EXCEPT !.silent = s.silent]
      /\ s.silent = l.silent \/ (s.silent = l.silent + 1 /\ l.client = "open" /\ ~l.alive /\ l.silent <= HeartbeatTicks)
  BY <1>1, ProxyAssumption DEF Silence, Links
<1> HIDE DEF s
<1>4. l.timeout \in 0 .. HeartbeatTicks /\ HeartbeatTicks \in 0 .. HeartbeatTicks /\ 0 \in 0 .. HeartbeatTicks
  BY <1>1, ProxyAssumption DEF Links
<1>5. CASE l.waiting \/ l.client # "open"
  <2>1. n = [s EXCEPT !.timeout = IF l.timeout > 0 THEN l.timeout - 1 ELSE 0]
    BY <1>5
  <2>2. (IF l.timeout > 0 THEN l.timeout - 1 ELSE 0) \in 0 .. HeartbeatTicks
    BY <1>4, ProxyAssumption
  <2>3. n \in Links
    BY <1>3, <2>1, <2>2 DEF Links
  <2>4. LinkInvariant(n, owner = c, handling = c)
    BY <1>1, <1>2, <1>3, <1>4, <1>5, <2>1, ProxyAssumption DEF LinkInvariant, Links
  <2>5. n.object = l.object /\ n.cookie = l.cookie
    BY <1>1, <1>3, <2>1 DEF Links
  <2> HIDE DEF n
  <2> QED
    BY <1>1, <1>2, <2>3, <2>4, <2>5, BeforeStep, NothingPasses, SessionStep DEF l
<1>6. CASE ~l.waiting /\ l.client = "open"
  <2>1. n = [s EXCEPT !.waiting = TRUE, !.timeout = HeartbeatTicks]
    BY <1>6
  <2>2. n \in Links
    BY <1>3, <1>4, <2>1, Zenon DEF Links
  <2>3. LinkInvariant(n, owner = c, handling = c)
    BY <1>1, <1>2, <1>3, <1>4, <1>6, <2>1, ProxyAssumption DEF LinkInvariant, Links
  <2>4. n.object = l.object /\ n.cookie = l.cookie
    BY <1>1, <1>3, <2>1 DEF Links
  <2> HIDE DEF n
  <2> QED
    BY <1>1, <1>2, <2>2, <2>3, <2>4, BeforeStep, NothingPasses, SessionStep DEF l
<1> QED
  BY <1>5, <1>6

LEMMA PongStep ==
  ASSUME WebInvariant, idle, Untouched, HandsOnNothing, NEW c \in Conns, HeartbeatPong(c)
  PROVE  WebInvariant'
<1> DEFINE l == link[c]
           n == [l EXCEPT !.waiting = FALSE, !.timeout = 0]
<1>1. l \in Links /\ LinkInvariant(l, owner = c, handling = c) /\ handling # c
  BY BeforeStep
<1>2. l.client = "open" /\ l.alive /\ link' = [link EXCEPT ![c] = n] /\ UNCHANGED <<owner, served>>
  BY DEF HeartbeatPong, WebInvariant, TypeOK, ProxyTypeOK
<1> HIDE DEF l
<1>3. 0 \in 0 .. HeartbeatTicks
  BY ProxyAssumption
<1>4. n \in Links
  BY <1>1, <1>3, Zenon DEF Links
<1>5. LinkInvariant(n, owner = c, handling = c) /\ n.object = l.object /\ n.cookie = l.cookie
  BY <1>1, <1>2 DEF LinkInvariant, Links
<1>6. PassesOnlyForOwner' /\ passed' \in {<< >>} \union (Conns \X {"up", "down"})
  BY NothingPasses
<1>7. served' \in Conns \union {None} /\ owner' = owner /\ n.object = link[c].object /\ n.cookie = link[c].cookie
  BY <1>2, <1>5, BeforeStep DEF l
<1>8. link' = [link EXCEPT ![c] = n] /\ LinkInvariant(n, owner' = c, handling = c)
  BY <1>2, <1>5, <1>7
<1> HIDE DEF n
<1> QED
  BY <1>4, <1>6, <1>7, <1>8, SessionStep

LEMMA HeartbeatTimeoutStep ==
  ASSUME WebInvariant, idle, Untouched, HandsOnNothing, NEW c \in Conns,
         CloseDueToHeartbeatTimeout(c)
  PROVE  WebInvariant'
  BY BeforeStep, CloseBothStep DEF CloseDueToHeartbeatTimeout, LinkInvariant

(* The sockets end, with the bridge or after it.                            *)
LEMMA ClientDisconnectedStep ==
  ASSUME WebInvariant, idle, Untouched, HandsOnNothing, NEW c \in Conns, ClientDisconnected(c)
  PROVE  WebInvariant'
<1> DEFINE l == link[c]
           g == [l EXCEPT !.client = "free", !.alive = FALSE, !.silent = 0, !.cookie = 0]
           b == CloseBackend(g)
           n == [DeleteLater(b) EXCEPT !.owns = FALSE]
<1>1. l \in Links /\ LinkInvariant(l, owner = c, handling = c) /\ handling # c
  BY BeforeStep
<1> HIDE DEF l
<1>2. 0 \in 0 .. HeartbeatTicks + 1
  BY ProxyAssumption
<1>3. g \in Links
  BY <1>1, <1>2, Zenon DEF Links
<1>4. UNCHANGED served
  BY DEF ClientDisconnected
<1>5. CASE l.wired
  <2>1. link' = [link EXCEPT ![c] = n] /\ owner' = IF l.owns THEN None ELSE owner
    BY <1>5 DEF ClientDisconnected, ReleaseOccupancy, l
  <2> g.client = "free" /\ ~g.alive
    BY <1>1 DEF Links
  <2> HIDE DEF g
  <2>2. b \in Links /\ b.backend \notin {"connecting", "connected"} /\ b.client = "free" /\ ~b.alive
    BY <1>3, CloseBackendEffect DEF Links
  <2> HIDE DEF b
  <2>3. n \in Links
    BY <2>2, DeleteLaterEffect, DisownedIsLink
  <2>4. n.object = "doomed" /\ ~n.owns /\ n.backend = b.backend /\ n.client = b.client /\ n.alive = b.alive
    BY <2>2 DEF DeleteLater, Links
  <2> HIDE DEF n
  <2>5. owner' # c /\ (owner' = owner \/ (owner = c /\ owner' = None))
    BY <1>1, <2>1, ProxyAssumption DEF LinkInvariant
  <2>6. LinkInvariant(n, owner' = c, handling = c)
    BY <1>1, <2>2, <2>4, <2>5 DEF LinkInvariant
  <2> QED
    BY <1>1, <1>4, <2>1, <2>3, <2>4, <2>5, <2>6, BeforeStep, NothingPasses, SessionStep
<1>6. CASE ~l.wired
  <2>1. link' = [link EXCEPT ![c] = g] /\ UNCHANGED owner
    BY <1>6 DEF ClientDisconnected, l
  <2>2. LinkInvariant(g, owner' = c, handling = c) /\ g.object # "live"
    BY <1>1, <1>6, <2>1 DEF LinkInvariant, Links
  <2> QED
    BY <1>1, <1>3, <1>4, <2>1, <2>2, BeforeStep, NothingPasses, SessionStep
<1> QED
  BY <1>5, <1>6

LEMMA BackendDisconnectedStep ==
  ASSUME WebInvariant, idle, Untouched, HandsOnNothing, NEW c \in Conns, BackendDisconnected(c)
  PROVE  WebInvariant'
<1> DEFINE l == link[c]
           g == [l EXCEPT !.backend = "none", !.atApi = "no"]
           k == CloseClient(g)
           n == [DeleteLater(k) EXCEPT !.owns = FALSE]
<1>1. l \in Links /\ LinkInvariant(l, owner = c, handling = c) /\ handling # c
  BY BeforeStep
<1>2. /\ l.wired /\ link' = [link EXCEPT ![c] = n] /\ owner' = IF l.owns THEN None ELSE owner
      /\ served' \in Conns \union {None}
  BY BeforeStep DEF BackendDisconnected, ReleaseOccupancy
<1> HIDE DEF l
<1>3. g \in Links
  BY <1>1 DEF Links
<1> g.client = l.client /\ g.backend = "none" /\ g.alive = l.alive /\ g.silent = l.silent
  BY <1>1 DEF Links
<1> HIDE DEF g
<1>4. /\ k \in Links /\ k.backend = "none" /\ k.client \notin {"open", "handshake"}
      /\ k.alive = l.alive /\ k.silent = l.silent
  BY <1>1, <1>2, <1>3, CloseClientEffect DEF Links, LinkInvariant
<1> HIDE DEF k
<1>5. n \in Links
  BY <1>4, DeleteLaterEffect, DisownedIsLink
<1>6. /\ n.object = "doomed" /\ ~n.owns /\ n.backend = "none" /\ n.client = k.client
      /\ n.alive = k.alive /\ n.silent = k.silent
  BY <1>4 DEF DeleteLater, Links
<1> HIDE DEF n
<1>7. owner' # c /\ (owner' = owner \/ (owner = c /\ owner' = None))
  BY <1>1, <1>2, ProxyAssumption DEF LinkInvariant
<1>8. LinkInvariant(n, owner' = c, handling = c)
  BY <1>1, <1>4, <1>6, <1>7 DEF LinkInvariant
<1> QED
  BY <1>1, <1>2, <1>5, <1>6, <1>7, <1>8, NothingPasses, SessionStep

LEMMA BackendErrorStep ==
  ASSUME WebInvariant, idle, Untouched, HandsOnNothing, NEW c \in Conns, BackendError(c)
  PROVE  WebInvariant'
<1>1. PICK rest \in {"none", "closing"} :
        link' = [link EXCEPT ![c] = CloseClient([link[c] EXCEPT !.backend = rest, !.atApi = "no"])]
  BY DEF BackendError, WebInvariant, TypeOK, ProxyTypeOK
<1> DEFINE l == link[c]
           g == [l EXCEPT !.backend = rest, !.atApi = "no"]
           n == CloseClient(g)
<1>2. l \in Links /\ LinkInvariant(l, owner = c, handling = c) /\ handling # c
  BY BeforeStep
<1>3. link' = [link EXCEPT ![c] = n] /\ UNCHANGED <<owner, served>>
  BY <1>1 DEF BackendError
<1> HIDE DEF l
<1>4. g \in Links
  BY <1>2 DEF Links
<1> LinkInvariant(g, owner = c, handling = c) /\ g.object = l.object /\ g.cookie = l.cookie
  BY <1>2 DEF LinkInvariant, Links
<1> HIDE DEF g
<1>5. n \in Links /\ LinkInvariant(n, owner = c, handling = c) /\ n.object = l.object /\ n.cookie = l.cookie
  BY <1>2, <1>4, CloseClientEffect DEF LinkInvariant, Links
<1> HIDE DEF n
<1> QED
  BY <1>2, <1>3, <1>5, BeforeStep, NothingPasses, SessionStep DEF l

LEMMA DeleteProxyStep ==
  ASSUME WebInvariant, idle, Untouched, HandsOnNothing, NEW c \in Conns, DeleteProxy(c)
  PROVE  WebInvariant'
<1> DEFINE l == link[c]
           h == StopHeartbeat(l)
           w == [h EXCEPT !.wired = FALSE, !.bridged = FALSE, !.waiting = FALSE]
           n == [h EXCEPT !.object = "none", !.wired = FALSE, !.backend = "none", !.atApi = "no",
                          !.bridged = FALSE, !.pending = 0, !.waiting = FALSE]
<1>1. l \in Links /\ LinkInvariant(l, owner = c, handling = c) /\ handling # c
  BY BeforeStep
<1>2. l.object = "doomed" /\ link' = [link EXCEPT ![c] = n] /\ UNCHANGED <<owner, served>>
  BY DEF DeleteProxy
<1> HIDE DEF l
<1>3. h \in Links /\ h = [l EXCEPT !.beating = FALSE, !.timeout = 0]
  BY <1>1, StopHeartbeatEffect DEF StopHeartbeat
<1> HIDE DEF h
<1>4. w \in Links
  BY <1>3, ZenonT(30) DEF Links
<1>5. n = [w EXCEPT !.object = "none", !.backend = "none", !.atApi = "no", !.pending = 0]
  BY <1>3 DEF Links
<1> HIDE DEF w
<1>6. n \in Links
  BY <1>4, <1>5 DEF Links
<1>7. LinkInvariant(n, owner = c, handling = c) /\ n.object = "none"
  BY <1>1, <1>2, <1>3 DEF LinkInvariant, Links
<1> HIDE DEF n
<1> QED
  BY <1>1, <1>2, <1>6, <1>7, BeforeStep, NothingPasses, SessionStep DEF l

LEMMA ProxyStepKeeps ==
  ASSUME WebInvariant, NEW c \in Conns, ProxyStep(c)
  PROVE  WebInvariant'
  BY PingStep, PongStep, HeartbeatTimeoutStep, ClientDisconnectedStep, BackendDisconnectedStep,
     BackendErrorStep, DeleteProxyStep
  DEF ProxyStep

-----------------------------------------------------------------------------
(* Messages *)

(* Only the owner's bridge is live, and then the server has noticed no      *)
(* restriction: what it hands on, it hands on rightly.                      *)
LEMMA OwnerPasses ==
  ASSUME WebInvariant, idle, NEW c \in Conns, link[c].object = "live", UNCHANGED <<login, restriction>>,
         owner' = owner,
         \/ HandsOnNothing
         \/ HandsOn(c, "up") /\ LoginAllowed
         \/ HandsOn(c, "down")
  PROVE  PassesOnlyForOwner' /\ passed' \in {<< >>} \union (Conns \X {"up", "down"})
<1>1. owner = c
  BY BeforeStep DEF LinkInvariant
<1>2. restriction = ""
  BY DEF WebInvariant, AccessEnds
<1>3. CASE HandsOnNothing
  BY <1>3, NothingPasses
<1>4. CASE HandsOn(c, "up") /\ LoginAllowed
  BY <1>1, <1>4 DEF HandsOn, PassesOnlyForOwner, LoginAllowed
<1>5. CASE HandsOn(c, "down")
  BY <1>1, <1>2, <1>5 DEF HandsOn, PassesOnlyForOwner
<1> QED
  BY <1>3, <1>4, <1>5

LEMMA BackendConnectedStep ==
  ASSUME WebInvariant, idle, Untouched, NEW c \in Conns, BackendConnected(c)
  PROVE  WebInvariant'
<1> DEFINE l == link[c]
           n == [l EXCEPT !.backend = "connected", !.bridged = TRUE, !.pending = 0]
<1>1. l \in Links /\ LinkInvariant(l, owner = c, handling = c) /\ handling # c
  BY BeforeStep
<1>2. l.object = "live" /\ l.client # "handshake"
  BY <1>1 DEF BackendConnected, LinkInvariant
<1>3. CASE ~LoginAllowed
  BY <1>2, <1>3, RestrictStep DEF BackendConnected
<1>4. CASE LoginAllowed
  <2>1. /\ link' = [link EXCEPT ![c] = n]
        /\ UNCHANGED <<owner, served>>
        /\ HandsOnNothing \/ HandsOn(c, "up")
    BY <1>4 DEF BackendConnected
  <2>2. PassesOnlyForOwner' /\ passed' \in {<< >>} \union (Conns \X {"up", "down"})
    BY <1>2, <1>4, <2>1, OwnerPasses DEF Untouched
  <2> HIDE DEF l
  <2>3. n \in Links
    <3> DEFINE b == [l EXCEPT !.bridged = TRUE]
    <3>1. b \in Links
      BY <1>1, Zenon DEF Links
    <3>2. n = [b EXCEPT !.backend = "connected", !.pending = 0]
      BY <1>1 DEF Links
    <3> HIDE DEF b
    <3> QED
      BY <3>1, <3>2 DEF Links
  <2>4. LinkInvariant(n, owner = c, handling = c) /\ n.object = l.object /\ n.cookie = l.cookie
    BY <1>1, <1>2 DEF LinkInvariant, Links, l
  <2> HIDE DEF n
  <2> QED
    BY <1>1, <2>1, <2>2, <2>3, <2>4, BeforeStep, SessionStep DEF l
<1> QED
  BY <1>3, <1>4

LEMMA ClientMessageStep ==
  ASSUME WebInvariant, idle, Untouched, NEW c \in Conns, ClientMessage(c)
  PROVE  WebInvariant'
<1> DEFINE l == link[c]
           n == [l EXCEPT !.pending = @ + 1]
<1>1. l \in Links /\ LinkInvariant(l, owner = c, handling = c) /\ handling # c
  BY BeforeStep
<1>2. l.client # "handshake" /\ UNCHANGED served
  BY DEF ClientMessage
<1>3. CASE ~LoginAllowed
  BY <1>2, <1>3, RestrictStep DEF ClientMessage
<1>4. CASE LoginAllowed /\ l.bridged
  <2>1. /\ UNCHANGED <<link, owner>>
        /\ HandsOnNothing \/ (HandsOn(c, "up") /\ l.backend = "connected")
    BY <1>4 DEF ClientMessage
  <2>2. PassesOnlyForOwner' /\ passed' \in {<< >>} \union (Conns \X {"up", "down"})
    BY <1>1, <1>4, <2>1, OwnerPasses, NothingPasses DEF Untouched, LinkInvariant
  <2>3. link' = [link EXCEPT ![c] = l]
    BY <2>1 DEF WebInvariant, TypeOK, ProxyTypeOK
  <2> HIDE DEF l
  <2> QED
    BY <1>1, <1>2, <2>1, <2>2, <2>3, BeforeStep, SessionStep DEF l
<1>5. CASE LoginAllowed /\ ~l.bridged /\ CanQueueMessage(l)
  <2>1. link' = [link EXCEPT ![c] = n] /\ UNCHANGED owner /\ HandsOnNothing
    BY <1>5 DEF ClientMessage, WebInvariant, TypeOK, ProxyTypeOK
  <2> HIDE DEF l
  <2>2. n \in Links /\ LinkInvariant(n, owner = c, handling = c) /\ n.object = l.object /\ n.cookie = l.cookie
    BY <1>1 DEF LinkInvariant, Links
  <2> HIDE DEF n
  <2> QED
    BY <1>1, <1>2, <2>1, <2>2, BeforeStep, NothingPasses, SessionStep DEF l
<1>6. CASE LoginAllowed /\ ~l.bridged /\ ~CanQueueMessage(l)
  BY <1>2, <1>6, CloseBothStep DEF ClientMessage
<1> QED
  BY <1>3, <1>4, <1>5, <1>6

LEMMA BackendMessageStep ==
  ASSUME WebInvariant, idle, Untouched, NEW c \in Conns, BackendMessage(c)
  PROVE  WebInvariant'
<1> DEFINE l == link[c]
<1>1. l \in Links /\ LinkInvariant(l, owner = c, handling = c) /\ handling # c
  BY BeforeStep
<1>2. l.object = "live" /\ UNCHANGED <<link, owner, served>> /\ (HandsOnNothing \/ HandsOn(c, "down"))
  BY <1>1 DEF BackendMessage, LinkInvariant
<1>3. PassesOnlyForOwner' /\ passed' \in {<< >>} \union (Conns \X {"up", "down"})
  BY <1>2, OwnerPasses DEF Untouched
<1>4. link' = [link EXCEPT ![c] = l]
  BY <1>2 DEF WebInvariant, TypeOK, ProxyTypeOK
<1> HIDE DEF l
<1> QED
  BY <1>1, <1>2, <1>3, <1>4, BeforeStep, SessionStep DEF l

LEMMA MessageStepKeeps ==
  ASSUME WebInvariant, NEW c \in Conns, MessageStep(c)
  PROVE  WebInvariant'
  BY BackendConnectedStep, ClientMessageStep, BackendMessageStep DEF MessageStep

(* What happens outside the server touches neither a bridge nor a place,    *)
(* whether a handler is at work or not.                                     *)
LEMMA OutsideStepKeeps ==
  ASSUME WebInvariant, NEW c \in Conns, OutsideStep(c)
  PROVE  WebInvariant'
<1> DEFINE l == link[c]
<1>1. /\ l \in Links /\ LinkInvariant(l, owner = c, handling = c)
      /\ served \in Conns \union {None}
  BY OneConnectionAtATime DEF WebInvariant, TypeOK, ProxyTypeOK, LinksInvariant
<1>2. HandsOnNothing /\ Untouched /\ UNCHANGED owner
  BY DEF OutsideStep, PeerDies, ApiNewConnection, ApiDisconnected
<1>3. CASE PeerDies(c)
  <2> DEFINE n == [l EXCEPT !.alive = FALSE]
  <2>1. link' = [link EXCEPT ![c] = n] /\ UNCHANGED served
    BY <1>3 DEF PeerDies, WebInvariant, TypeOK, ProxyTypeOK
  <2> HIDE DEF l
  <2>2. n \in Links
    BY <1>1, Zenon DEF Links
  <2>3. LinkInvariant(n, owner = c, handling = c) /\ n.object = l.object /\ n.cookie = l.cookie
    BY <1>1 DEF LinkInvariant, Links
  <2> HIDE DEF n
  <2> QED
    BY <1>1, <1>2, <2>1, <2>2, <2>3, NothingPasses, SessionStep DEF l
<1>4. CASE ApiNewConnection(c)
  <2> DEFINE n == [l EXCEPT !.atApi = IF served = None THEN "accepted" ELSE "rejected"]
  <2>1. link' = [link EXCEPT ![c] = n] /\ served' \in Conns \union {None}
    BY <1>1, <1>4 DEF ApiNewConnection, WebInvariant, TypeOK, ProxyTypeOK
  <2> HIDE DEF l
  <2>2. n \in Links /\ LinkInvariant(n, owner = c, handling = c) /\ n.object = l.object /\ n.cookie = l.cookie
    BY <1>1 DEF LinkInvariant, Links
  <2> HIDE DEF n
  <2> QED
    BY <1>1, <1>2, <2>1, <2>2, NothingPasses, SessionStep DEF l
<1>5. CASE ApiDisconnected(c)
  <2>1. link' = [link EXCEPT ![c] = l] /\ served' = None
    BY <1>5 DEF ApiDisconnected, WebInvariant, TypeOK, ProxyTypeOK
  <2> HIDE DEF l
  <2> QED
    BY <1>1, <1>2, <2>1, NothingPasses, SessionStep DEF l
<1> QED
  BY <1>3, <1>4, <1>5 DEF OutsideStep

-----------------------------------------------------------------------------
(* The server's steps *)

(* The part of TypeOK that is not about the connections                     *)
ServerTypeOK ==
  /\ login \in LoginStates
  /\ auth \in [loaded : BOOLEAN, user : Nat, sessions : SUBSET Tokens]
  /\ stored \in Nat /\ accounts \in Nat /\ issued \in Seq(Nat) /\ blocks \in Nat
  /\ restriction \in (LoginStates \ {"allowed"}) \union {""}

(* WebInvariant in the parts that are proved apart                          *)
LEMMA InParts ==
  /\ WebInvariant <=>
       /\ ServerTypeOK /\ ProxyTypeOK /\ handling \in Conns \union {None}
       /\ LinksInvariant /\ HandedOut /\ AccessEnds /\ PassesOnlyForOwner
  /\ WebInvariant' <=>
       /\ ServerTypeOK' /\ ProxyTypeOK' /\ (handling \in Conns \union {None})'
       /\ LinksInvariant' /\ HandedOut' /\ AccessEnds' /\ PassesOnlyForOwner'
<1>1. TypeOK <=> ServerTypeOK /\ ProxyTypeOK /\ handling \in Conns \union {None}
  BY Zenon DEF TypeOK, ServerTypeOK
<1>2. TypeOK' <=> ServerTypeOK' /\ ProxyTypeOK' /\ (handling \in Conns \union {None})'
  BY Zenon DEF TypeOK, ServerTypeOK
<1> QED
  BY <1>1, <1>2, OneConnectionAtATime DEF WebInvariant

(* The connections do not move.                                             *)
LEMMA ConnectionsStay ==
  ASSUME WebInvariant, UNCHANGED <<link, owner, served, handling>>, HandsOnNothing
  PROVE  /\ ProxyTypeOK' /\ LinksInvariant' /\ PassesOnlyForOwner'
         /\ handling' \in Conns \union {None}
<1>1. LinksInvariant'
  BY InParts DEF LinksInvariant, LinkInvariant
<1>2. ProxyTypeOK'
  BY InParts, NothingPasses DEF ProxyTypeOK
<1> QED
  BY <1>1, <1>2, InParts, NothingPasses

(* Init: nobody is connected, and the account is the one in the file.       *)
LEMMA WebInvariantInit ==
  ASSUME Init
  PROVE  WebInvariant
<1>1. ProxyTypeOK
  BY UnusedIsLink DEF Init, ProxyInit, ProxyTypeOK
<1>2. ServerTypeOK /\ handling \in Conns \union {None}
  <2> stored \in {0, 1}
    BY Zenon DEF Init, NoUser
  <2>1. stored \in Nat
    OBVIOUS
  <2>2. << >> \in Seq(Nat)
    OBVIOUS
  <2> QED
    BY <2>1, <2>2 DEF Init, ServerTypeOK, LoginStates, Load
<1>3. \A c \in Conns : link[c] = Unused /\ owner # c /\ handling # c
  BY ProxyAssumption DEF Init, ProxyInit
<1>4. LinksInvariant
  BY <1>3 DEF LinksInvariant, LinkInvariant, Unused
<1>5. auth.loaded /\ auth.sessions = {} /\ restriction = ""
  BY DEF Init, Load
<1> \A c \in Conns : link[c].object # "live" /\ handling # c
  BY <1>3 DEF Unused
<1>6. HandedOut /\ AccessEnds
  BY <1>5, Zenon DEF HandedOut, AccessEnds
<1>7. PassesOnlyForOwner
  BY DEF Init, ProxyInit, PassesOnlyForOwner
<1> QED
  BY <1>1, <1>2, <1>4, <1>6, <1>7, InParts

(* Restart is Init again, for the account that is stored now.               *)
LEMMA RestartStep ==
  ASSUME WebInvariant, Restart
  PROVE  WebInvariant'
<1>1. ProxyTypeOK'
  BY UnusedIsLink, NothingPasses DEF Restart, ProxyTypeOK
<1>2. ServerTypeOK' /\ handling' \in Conns \union {None}
  BY InParts DEF Restart, ServerTypeOK, LoginStates, Load, InitializeLoginState, accountVars
<1>3. \A c \in Conns : link'[c] = Unused /\ owner' # c /\ handling' # c
  BY ProxyAssumption DEF Restart
<1>4. LinksInvariant'
  BY <1>3 DEF LinksInvariant, LinkInvariant, Unused
<1>5. HandedOut' /\ AccessEnds'
  BY <1>3 DEF Restart, Load, HandedOut, AccessEnds, Unused
<1> QED
  BY <1>1, <1>2, <1>4, <1>5, InParts, NothingPasses DEF Restart

(* The login-state file is written by others.                               *)
LEMMA LoginFileStep ==
  ASSUME WebInvariant,
         \/ \E operation \in {"reboot", "factory_reset"}, outcome \in BlockOutcomes :
              BlockLogin(operation, outcome)
         \/ PublishLogin
  PROVE  WebInvariant'
<1>1. /\ login' \in LoginStates /\ blocks' \in Nat
      /\ UNCHANGED <<link, owner, served, auth, accountVars, restriction, handling>>
      /\ HandsOnNothing
  <2>1. login \in LoginStates /\ blocks \in Nat
    BY InParts DEF ServerTypeOK
  <2>2. ASSUME NEW operation \in {"reboot", "factory_reset"}, NEW outcome \in BlockOutcomes,
               BlockLogin(operation, outcome)
        PROVE  /\ login' \in LoginStates /\ blocks' \in Nat
               /\ UNCHANGED <<link, owner, served, auth, accountVars, restriction, handling>>
               /\ HandsOnNothing
    BY <2>1, <2>2 DEF BlockLogin, BlockLoginForReboot, LoginStates
  <2>3. CASE PublishLogin
    BY <2>1, <2>3 DEF PublishLogin, InitializeLoginState, LoginStates
  <2> QED
    BY <2>2, <2>3
<1>2. ServerTypeOK' /\ HandedOut' /\ AccessEnds'
  BY <1>1, InParts DEF ServerTypeOK, HandedOut, AccessEnds, Tokens, HasUser, accountVars
<1> QED
  BY <1>1, <1>2, InParts, ConnectionsStay

(* A restriction that has been reported has left neither a session nor a    *)
(* bridge; one that is new cuts all there are.                              *)
LEMMA RestrictionReported ==
  ASSUME WebInvariant, idle, ~LoginAllowed,
         auth' = InvalidateSessions(auth), restriction' = login,
         \A c \in Conns : link'[c].object = "live" => c \notin NotYetCut /\ link[c].object = "live",
         UNCHANGED <<login, accountVars, handling, blocks>>
  PROVE  ServerTypeOK' /\ HandedOut' /\ AccessEnds'
<1>1. \A c \in Conns : link'[c].object # "live"
  BY InParts DEF AccessEnds, NotYetCut, Exists, ServerTypeOK, LoginStates
<1>2. auth.sessions \in SUBSET Tokens /\ auth' = [auth EXCEPT !.sessions = {}]
  BY InParts DEF ServerTypeOK, InvalidateSessions
<1>3. ServerTypeOK'
  BY <1>2, InParts DEF ServerTypeOK, LoginAllowed, LoginStates, Tokens, accountVars
<1>4. HandedOut' /\ AccessEnds'
  BY <1>1, <1>2, InParts, ProxyAssumption DEF ServerTypeOK, HandedOut, AccessEnds, idle
<1> QED
  BY <1>3, <1>4

LEMMA RefreshLoginStateStep ==
  ASSUME WebInvariant, RefreshLoginState
  PROVE  WebInvariant'
<1>1. CASE LoginAllowed
  <2>1. ServerTypeOK' /\ HandedOut' /\ AccessEnds'
    BY <1>1, InParts DEF RefreshLoginState, ServerTypeOK, HandedOut, AccessEnds, Tokens, HasUser, accountVars
  <2> QED
    BY <1>1, <2>1, InParts, ConnectionsStay DEF RefreshLoginState
<1>2. CASE ~LoginAllowed
  <2>1. \A c \in NotYetCut : link[c].client # "handshake"
    BY BeforeStep DEF NotYetCut, Exists, RefreshLoginState, LinkInvariant
  <2>2. /\ link' \in [Conns -> Links] /\ owner' \in Conns \union {None}
        /\ LinksInvariant'
        /\ \A c \in Conns : link'[c].object = "live" => c \notin NotYetCut /\ link[c].object = "live"
    BY <1>2, <2>1, InParts, RestrictionCuts DEF RefreshLoginState, NotYetCut
  <2>3. ServerTypeOK' /\ HandedOut' /\ AccessEnds'
    BY <1>2, <2>2, RestrictionReported DEF RefreshLoginState
  <2>4. ProxyTypeOK'
    BY <2>2, InParts, NothingPasses DEF RefreshLoginState, ProxyTypeOK
  <2> QED
    BY <2>2, <2>3, <2>4, InParts, NothingPasses DEF RefreshLoginState
<1> QED
  BY <1>1, <1>2

(* The account is set up where there was none, so nothing rests on it yet.  *)
LEMMA SetupStep ==
  ASSUME WebInvariant, NEW saved \in BOOLEAN, Setup(saved)
  PROVE  WebInvariant'
<1>1. /\ ServerTypeOK /\ auth.user = NoUser /\ auth.sessions = {} /\ auth.loaded /\ idle
      /\ \A c \in Conns : link[c].object # "live" /\ handling # c
  BY InParts, ProxyAssumption
  DEF Setup, SetupRequired, SeesAllowed, HandedOut, AccessEnds, HasUser, idle
<1>2. /\ auth' = [auth EXCEPT !.user = IF saved THEN accounts + 1 ELSE NoUser]
      /\ accounts' = accounts + 1
      /\ stored' = IF saved THEN accounts + 1 ELSE stored
      /\ restriction' = ""
      /\ UNCHANGED <<login, link, owner, served, issued, handling, blocks>> /\ HandsOnNothing
  BY DEF Setup, SeesAllowed, CreateUser
<1> accounts \in Nat /\ stored \in Nat /\ NoUser \in Nat
  BY <1>1 DEF ServerTypeOK, NoUser
<1> accounts + 1 \in Nat
  OBVIOUS
<1> stored' \in Nat
  BY <1>2, Zenon
<1>3. ServerTypeOK'
  BY <1>1, <1>2 DEF ServerTypeOK, Tokens
<1>4. auth'.sessions = {} /\ auth'.loaded
  BY <1>1, <1>2 DEF ServerTypeOK
<1>5. HandedOut' /\ AccessEnds'
  BY <1>1, <1>2, <1>4, Zenon DEF HandedOut, AccessEnds
<1> QED
  BY <1>2, <1>3, <1>5, InParts, ConnectionsStay

(* Append keeps what is there and puts the new element last.                *)
LEMMA AppendedLast ==
  ASSUME NEW s \in Seq(Nat), NEW e \in Nat
  PROVE  /\ Append(s, e) \in Seq(Nat) /\ Len(Append(s, e)) = Len(s) + 1
         /\ Append(s, e)[Len(s) + 1] = e
         /\ \A i \in 1 .. Len(s) : Append(s, e)[i] = s[i]
  OBVIOUS

(* A session is handed out for the account of the moment.                   *)
LEMMA LoginStep ==
  ASSUME WebInvariant, Login
  PROVE  WebInvariant'
<1> DEFINE n == Len(issued) + 1
<1>1. /\ auth' = [auth EXCEPT !.sessions = @ \union {n}]
      /\ issued' = Append(issued, auth.user)
      /\ restriction' = "" /\ HasUser(auth)
      /\ UNCHANGED <<login, link, owner, served, stored, accounts, handling, blocks>> /\ HandsOnNothing
  BY DEF Login, SeesAllowed, CreateSession
<1>2. /\ ServerTypeOK /\ HandedOut /\ AccessEnds
  BY InParts
<1>3. issued \in Seq(Nat) /\ auth.user \in Nat /\ auth.sessions \in SUBSET Tokens
  BY <1>2 DEF ServerTypeOK
<1>4. /\ issued' \in Seq(Nat) /\ Len(issued') = n /\ issued'[n] = auth.user
      /\ \A token \in Tokens : issued'[token] = issued[token]
  BY <1>1, <1>3, AppendedLast DEF Tokens
<1>5. Tokens' = Tokens \union {n}
  BY <1>3, <1>4 DEF Tokens
<1>6. auth'.sessions = auth.sessions \union {n} /\ auth'.user = auth.user /\ auth'.loaded = auth.loaded
  BY <1>1, <1>2 DEF ServerTypeOK
<1>7. ServerTypeOK'
  BY <1>1, <1>2, <1>4, <1>5 DEF ServerTypeOK
<1>8. HandedOut'
  BY <1>1, <1>2, <1>5, <1>6 DEF HandedOut, HasUser
<1>9. AccessEnds'
  BY <1>1, <1>2, <1>3, <1>4, <1>6 DEF HandedOut, AccessEnds, HasUser
<1> QED
  BY <1>1, <1>7, <1>8, <1>9, InParts, ConnectionsStay

(* Logging out, or waiting too long, ends a session and no more.            *)
LEMMA SessionEndsStep ==
  ASSUME WebInvariant, NEW token \in Tokens, Logout(token) \/ SessionExpires(token)
  PROVE  WebInvariant'
<1>1. /\ auth' = [auth EXCEPT !.sessions = @ \ {token}]
      /\ restriction' \in {restriction, ""}
      /\ UNCHANGED <<login, link, owner, served, accountVars, handling, blocks>> /\ HandsOnNothing
  BY DEF Logout, SessionExpires, SeesAllowed, RemoveSession
<1>2. ServerTypeOK /\ HandedOut /\ AccessEnds
  BY InParts
<1>3. ServerTypeOK'
  BY <1>1, <1>2 DEF ServerTypeOK, Tokens, accountVars
<1>4. auth'.sessions = auth.sessions \ {token} /\ auth'.user = auth.user /\ auth'.loaded = auth.loaded
  BY <1>1, <1>2 DEF ServerTypeOK
<1>5. HandedOut' /\ AccessEnds'
  BY <1>1, <1>2, <1>4 DEF HandedOut, AccessEnds, HasUser, Tokens, accountVars
<1> QED
  BY <1>1, <1>3, <1>5, InParts, ConnectionsStay

(* A granted reset that is saved takes the sessions and the bridges with    *)
(* it; one that is not saved changes nothing.                               *)
LEMMA ResetStep ==
  ASSUME WebInvariant, NEW saved \in BOOLEAN, Reset(saved)
  PROVE  WebInvariant'
<1>1. /\ idle /\ restriction' = ""
      /\ UNCHANGED <<login, served, accounts, issued, handling, blocks>> /\ HandsOnNothing
  BY DEF Reset, SeesAllowed
<1>2. ServerTypeOK /\ HandedOut /\ AccessEnds /\ ProxyTypeOK
  BY InParts
<1>3. CASE ~saved
  <2>1. UNCHANGED <<auth, stored, link, owner>>
    BY <1>3 DEF Reset, ResetUser
  <2>2. ServerTypeOK' /\ HandedOut' /\ AccessEnds'
    BY <1>1, <1>2, <2>1 DEF ServerTypeOK, HandedOut, AccessEnds, HasUser, Tokens
  <2> QED
    BY <1>1, <2>1, <2>2, InParts, ConnectionsStay
<1>4. CASE saved
  <2> DEFINE cs == {c \in Conns : Exists(c)}
  <2>1. /\ auth' = [auth EXCEPT !.user = NoUser, !.sessions = {}]
        /\ stored' = NoUser
        /\ RestrictLogin(cs)
    BY <1>4 DEF Reset, ResetUser
  <2>2. \A c \in cs : link[c].client # "handshake"
    BY <1>1, BeforeStep DEF Exists, LinkInvariant
  <2>3. /\ link' \in [Conns -> Links] /\ owner' \in Conns \union {None}
        /\ LinksInvariant'
        /\ \A c \in Conns : link'[c].object = "live" => c \notin cs /\ link[c].object = "live"
    BY <1>1, <2>1, <2>2, InParts, RestrictionCuts
  <2>4. \A c \in Conns : link'[c].object # "live" /\ handling' # c
    BY <1>1, <2>3, ProxyAssumption DEF Exists, idle
  <2>5. ServerTypeOK'
    BY <1>1, <1>2, <2>1 DEF ServerTypeOK, NoUser, Tokens
  <2>6. auth'.sessions = {} /\ auth'.loaded
    BY <1>2, <2>1 DEF ServerTypeOK, HandedOut
  <2>7. HandedOut' /\ AccessEnds'
    BY <1>1, <2>4, <2>6, Zenon DEF HandedOut, AccessEnds
  <2>8. ProxyTypeOK'
    BY <1>1, <1>2, <2>3, NothingPasses DEF ProxyTypeOK
  <2> QED
    BY <1>1, <2>3, <2>5, <2>7, <2>8, InParts, NothingPasses
<1> QED
  BY <1>3, <1>4

(* Between the upgrade and the constructor a connection has no bridge: what *)
(* happens to it there is right if it keeps clear of one, and a connection  *)
(* that is handed on is of a session that is valid at that moment.          *)
LEMMA UpgradeStep ==
  ASSUME WebInvariant, idle,
         NEW c \in Conns, NEW l \in Links,
         link' = [link EXCEPT ![c] = l], link[c].object = "none",
         l.object = "none", ~l.owns, l.backend \notin {"connecting", "connected"},
         l.alive => l.silent = 0,
         l.client = "handshake" \/ handling' = c =>
           ~l.wired /\ l.silent = 0 /\ l.timeout = 0 /\ ~l.waiting,
         \/ handling' = handling
         \/ handling' = c /\ l.client = "open" /\ IsAuthenticated(l.cookie),
         restriction' = "" \/ (restriction' = restriction /\ handling' = handling),
         UNCHANGED <<login, owner, served, auth, accountVars, blocks>>, HandsOnNothing
  PROVE  WebInvariant'
<1>1. /\ ServerTypeOK /\ ProxyTypeOK /\ LinksInvariant /\ HandedOut /\ AccessEnds
      /\ LinkInvariant(link[c], owner = c, handling = c) /\ handling = None
  BY InParts DEF LinksInvariant, idle
<1>2. \A d \in Conns : handling # d /\ (handling' = d => d = c)
  BY <1>1, ProxyAssumption
<1>3. LinkInvariant(l, owner' = c, handling' = c)
  BY <1>1, <1>2 DEF LinkInvariant
<1>4. link' \in [Conns -> Links] /\ LinksInvariant'
  BY <1>1, <1>2, <1>3, OneLinkChanges
<1>5. ProxyTypeOK'
  BY <1>1, <1>4, NothingPasses DEF ProxyTypeOK
<1>6. ServerTypeOK' /\ handling' \in Conns \union {None}
  BY <1>1 DEF ServerTypeOK, Tokens, accountVars
<1>7. \A d \in Conns : link'[d].object = "live" => link[d].object = "live" /\ link'[d].cookie = link[d].cookie
  BY <1>1 DEF ProxyTypeOK
<1>8. handling' = c => HasUser(auth) /\ l.cookie \in auth.sessions /\ link'[c] = l
  BY <1>1, <1>2 DEF IsAuthenticated, ValidateSession, ProxyTypeOK
<1>9. HandedOut'
  BY <1>1, <1>2, <1>7, <1>8 DEF HandedOut, Tokens, ServerTypeOK, accountVars
<1>10. AccessEnds'
  BY <1>1, <1>2, <1>7, <1>8 DEF AccessEnds, HasUser, accountVars
<1> QED
  BY <1>4, <1>5, <1>6, <1>9, <1>10, InParts, NothingPasses

LEMMA HandshakeStep ==
  ASSUME WebInvariant, NEW c \in Conns,
         HandshakeFails(c) \/ \E token \in Tokens : Upgrade(c, token)
  PROVE  WebInvariant'
<1>1. idle /\ link[c].object = "none"
  BY BeforeStep DEF HandshakeFails, Upgrade, SeesAllowed, IsFree, Exists, LinkInvariant
<1>2. CASE HandshakeFails(c)
  <2>1. link' = [link EXCEPT ![c] = Unused]
    BY <1>2 DEF HandshakeFails
  <2>2. /\ Unused.object = "none" /\ ~Unused.owns /\ Unused.backend = "none" /\ Unused.silent = 0
        /\ Unused.client = "free"
    BY DEF Unused
  <2>3. handling' # c
    BY <1>1, <1>2, ProxyAssumption DEF HandshakeFails, idle
  <2> QED
    BY <1>1, <1>2, <2>1, <2>2, <2>3, UnusedIsLink, UpgradeStep DEF HandshakeFails
<1>3. ASSUME NEW token \in Tokens, Upgrade(c, token)
      PROVE  WebInvariant'
  <2> DEFINE n == [Unused EXCEPT !.client = "handshake", !.alive = TRUE, !.cookie = token]
  <2> token \in Nat
    BY DEF Tokens
  <2>1. n \in Links
    BY UnusedIsLink, Zenon DEF Links
  <2>2. /\ n.object = "none" /\ ~n.owns /\ n.backend = "none" /\ n.silent = 0 /\ n.timeout = 0
        /\ ~n.wired /\ ~n.waiting
    BY DEF Unused
  <2>3. link' = [link EXCEPT ![c] = n] /\ UNCHANGED <<login, owner, served, auth, accountVars, handling, blocks>>
    BY <1>3 DEF Upgrade
  <2> HIDE DEF n
  <2> QED
    BY <1>1, <1>3, <2>1, <2>2, <2>3, UpgradeStep DEF Upgrade, SeesAllowed
<1> QED
  BY <1>2, <1>3

(* newConnection's three ways                                               *)
LEMMA NewConnectionStep ==
  ASSUME WebInvariant, NEW c \in Conns, NewConnection(c)
  PROVE  WebInvariant'
<1>1. /\ idle /\ link[c] \in Links /\ LinkInvariant(link[c], owner = c, handling = c) /\ handling # c
      /\ link[c].client = "handshake" /\ link[c].object = "none"
      /\ UNCHANGED <<login, served, accountVars, blocks>> /\ HandsOnNothing
  BY BeforeStep DEF NewConnection, LinkInvariant
<1>2. ASSUME NEW client \in {"open", "closing"}
      PROVE  LET n == [link[c] EXCEPT !.client = client] IN
             /\ n \in Links /\ n.client = client
             /\ n.object = "none" /\ ~n.owns /\ n.backend \notin {"connecting", "connected"}
             /\ n.alive => n.silent = 0
             /\ ~n.wired /\ n.silent = 0 /\ n.timeout = 0 /\ ~n.waiting
             /\ n.cookie = link[c].cookie
  <2> DEFINE l == link[c]
  <2>1. l \in Links
    BY <1>1
  <2>2. /\ l.object = "none" /\ ~l.owns /\ l.backend \notin {"connecting", "connected"}
        /\ ~l.wired /\ l.silent = 0 /\ l.timeout = 0 /\ ~l.waiting
    BY <1>1 DEF LinkInvariant
  <2> HIDE DEF l
  <2>3. [l EXCEPT !.client = client] \in Links
    BY <2>1 DEF Links
  <2> QED
    BY <2>1, <2>2, <2>3 DEF Links, l
<1>3. CASE /\ SeesAllowed /\ IsAuthenticated(link[c].cookie)
           /\ link' = [link EXCEPT ![c].client = "open"]
           /\ handling' = c
           /\ UNCHANGED <<auth, owner>>
  <2> DEFINE n == [link[c] EXCEPT !.client = "open"]
  <2>1. link' = [link EXCEPT ![c] = n]
    BY <1>3, InParts DEF ProxyTypeOK
  <2> HIDE DEF n
  <2> QED
    BY <1>1, <1>2, <1>3, <2>1, UpgradeStep DEF SeesAllowed, n
<1>4. CASE /\ SeesAllowed /\ ~IsAuthenticated(link[c].cookie)
           /\ link' = [link EXCEPT ![c].client = "closing"]
           /\ UNCHANGED <<auth, owner, handling>>
  <2> DEFINE n == [link[c] EXCEPT !.client = "closing"]
  <2>1. link' = [link EXCEPT ![c] = n]
    BY <1>4, InParts DEF ProxyTypeOK
  <2> HIDE DEF n
  <2> QED
    BY <1>1, <1>2, <1>4, <2>1, UpgradeStep DEF SeesAllowed, n
<1>5. CASE /\ ~LoginAllowed
           /\ auth' = InvalidateSessions(auth)
           /\ restriction' = login
           /\ link' = [Restricted(NotYetCut) EXCEPT ![c].client = "closing"]
           /\ owner' = OwnerAfterRestriction(NotYetCut)
           /\ UNCHANGED handling
  <2> DEFINE m == Restricted(NotYetCut)
             n == [link[c] EXCEPT !.client = "closing"]
  <2>1. c \notin NotYetCut /\ \A d \in NotYetCut : link[d].client # "handshake"
    BY <1>1, BeforeStep DEF NotYetCut, Exists, LinkInvariant
  <2>2. /\ m \in [Conns -> Links] /\ owner' \in Conns \union {None} /\ m[c] = link[c]
        /\ \A d \in Conns : LinkInvariant(m[d], owner' = d, handling' = d)
        /\ \A d \in Conns : m[d].object = "live" => d \notin NotYetCut /\ link[d].object = "live"
    BY <1>1, <1>5, <2>1, InParts, RestrictedLinks DEF NotYetCut
  <2>3. link' = [m EXCEPT ![c] = n]
    BY <1>5, <2>2
  <2>4. n \in Links /\ n.object = "none" /\ LinkInvariant(n, owner' = c, handling' = c)
    BY <1>1, <1>2, <1>5, <2>2 DEF LinkInvariant
  <2> HIDE DEF m, n
  <2>5. link' \in [Conns -> Links] /\ LinksInvariant'
    BY <2>2, <2>3, <2>4 DEF LinksInvariant
  <2>6. \A d \in Conns : link'[d].object = "live" => d \notin NotYetCut /\ link[d].object = "live"
    BY <2>2, <2>3, <2>4
  <2>7. ServerTypeOK' /\ HandedOut' /\ AccessEnds'
    BY <1>1, <1>5, <2>6, RestrictionReported
  <2>8. ProxyTypeOK'
    BY <1>1, <2>2, <2>5, InParts, NothingPasses DEF ProxyTypeOK
  <2> QED
    BY <1>1, <1>5, <2>5, <2>7, <2>8, InParts, NothingPasses
<1> QED
  BY <1>3, <1>4, <1>5 DEF NewConnection

(* The constructor: the place is claimed if it is free and the login is     *)
(* still allowed; otherwise the session ends before it has begun.           *)
LEMMA NewProxyStep ==
  ASSUME WebInvariant, NewProxy
  PROVE  WebInvariant'
<1> DEFINE c == handling
           l == link[c]
<1>1. /\ ServerTypeOK /\ ProxyTypeOK /\ LinksInvariant /\ HandedOut /\ AccessEnds
      /\ c \in Conns /\ l \in Links /\ LinkInvariant(l, owner = c, TRUE)
      /\ \A d \in Conns : handling = d <=> d = c
  BY InParts DEF NewProxy, idle, LinksInvariant, ProxyTypeOK
<1>2. /\ Construct(c) /\ handling' = None /\ HandsOnNothing
      /\ UNCHANGED <<served, login, auth, accountVars, restriction, blocks>>
  BY DEF NewProxy, Construct
<1>3. \A d \in Conns : handling' # d
  BY <1>2, ProxyAssumption
<1>4. PICK n \in Links :
        /\ link' = [link EXCEPT ![c] = n]
        /\ n.cookie = l.cookie
        /\ LinkInvariant(n, owner' = c, FALSE)
        /\ \A d \in Conns \ {c} : owner' = d <=> owner = d
        /\ owner' \in Conns \union {None}
  <2>1. /\ l.client = "open" /\ l.object = "none" /\ ~l.owns /\ owner # c
        /\ l.backend \notin {"connecting", "connected"}
        /\ l.silent = 0 /\ ~l.waiting
    BY <1>1 DEF LinkInvariant
  <2>2. CASE ~LoginAllowed
    <3>1. link' = [link EXCEPT ![c] = RestrictedProxy(l)] /\ owner' = owner
      BY <1>2, <2>2 DEF Construct
    <3>2. RestrictedProxy(l) \in Links /\ RestrictedProxy(l).cookie = l.cookie
      BY <1>1, RestrictedProxyEffect
    <3>3. LinkInvariant(RestrictedProxy(l), FALSE, FALSE)
      BY <1>1, <2>1, RestrictedIsRight
    <3> HIDE DEF c, l
    <3>4. LinkInvariant(RestrictedProxy(l), owner' = c, FALSE)
      BY <2>1, <3>1, <3>3 DEF LinkInvariant
    <3> QED
      BY <1>1, <3>1, <3>2, <3>4 DEF ProxyTypeOK
  <2>3. CASE LoginAllowed /\ ~TryClaim(c)
    <3> DEFINE d == DeleteLater(l)
               n == CloseClient(d)
    <3>1. link' = [link EXCEPT ![c] = n] /\ owner' = owner
      BY <1>2, <2>3 DEF Construct, LoginAllowed
    <3> HIDE DEF c, l
    <3>2. d \in Links /\ d = [l EXCEPT !.object = "doomed"]
      BY <1>1, DeleteLaterEffect DEF DeleteLater
    <3> HIDE DEF d
    <3>3. n \in Links /\ n = [d EXCEPT !.client = IF @ = "open" THEN "closing" ELSE @]
      BY <3>2, CloseClientEffect
    <3> HIDE DEF n
    <3>4. /\ n.client = "closing" /\ n.object = "doomed" /\ ~n.owns /\ n.silent = 0
          /\ n.backend = l.backend /\ n.cookie = l.cookie
      BY <1>1, <2>1, <3>2, <3>3 DEF Links
    <3>5. LinkInvariant(n, owner' = c, FALSE)
      BY <2>1, <3>1, <3>4 DEF LinkInvariant
    <3> QED
      BY <1>1, <3>1, <3>3, <3>4, <3>5 DEF ProxyTypeOK
  <2>4. CASE LoginAllowed /\ TryClaim(c)
    <3> DEFINE b == [l EXCEPT !.wired = TRUE, !.owns = TRUE, !.beating = TRUE]
               n == [l EXCEPT !.object = "live", !.wired = TRUE, !.owns = TRUE,
                              !.backend = "connecting", !.beating = TRUE]
    <3>1. link' = [link EXCEPT ![c] = n] /\ owner = None /\ owner' = c
      BY <1>2, <2>4 DEF Construct, TryClaim, LoginAllowed
    <3> HIDE DEF c, l
    <3>2. b \in Links
      BY <1>1, Zenon DEF Links
    <3>3. n = [b EXCEPT !.object = "live", !.backend = "connecting"]
      BY <1>1 DEF Links
    <3> HIDE DEF b
    <3>4. n \in Links
      BY <3>2, <3>3 DEF Links
    <3>5. LinkInvariant(n, owner' = c, FALSE) /\ n.cookie = l.cookie
      BY <1>1, <2>1, <3>1 DEF LinkInvariant, Links
    <3> HIDE DEF n
    <3> QED
      BY <1>1, <3>1, <3>4, <3>5, ProxyAssumption
  <2> QED
    BY <2>2, <2>3, <2>4
<1>5. link' \in [Conns -> Links] /\ LinksInvariant'
  BY <1>1, <1>3, <1>4, OneLinkChanges
<1>6. \A d \in Conns : link'[d].object = "live" => /\ link[d].object = "live" \/ handling = d
                                                  /\ link'[d].cookie = link[d].cookie
  BY <1>1, <1>4 DEF ProxyTypeOK
<1>7. HandedOut' /\ AccessEnds'
  BY <1>1, <1>2, <1>3, <1>6, ProxyAssumption DEF HandedOut, AccessEnds, Tokens, HasUser, accountVars
<1>8. ServerTypeOK'
  BY <1>1, <1>2 DEF ServerTypeOK, Tokens, accountVars
<1>9. ProxyTypeOK'
  BY <1>1, <1>2, <1>4, <1>5, NothingPasses DEF ProxyTypeOK
<1> QED
  BY <1>2, <1>5, <1>7, <1>8, <1>9, InParts, NothingPasses

-----------------------------------------------------------------------------
(* The theorems *)

LEMMA WebInvariantStep ==
  ASSUME WebInvariant, [Next]_vars
  PROVE  WebInvariant'
<1>1. CASE UNCHANGED vars
  <2>1. ServerTypeOK' /\ HandedOut' /\ AccessEnds' /\ PassesOnlyForOwner'
    BY <1>1, InParts
    DEF vars, proxyVars, ServerTypeOK, HandedOut, AccessEnds, PassesOnlyForOwner, Tokens, HasUser, LoginAllowed
  <2>2. ProxyTypeOK' /\ LinksInvariant' /\ handling' \in Conns \union {None}
    BY <1>1, InParts DEF vars, proxyVars, ProxyTypeOK, LinksInvariant, LinkInvariant
  <2> QED
    BY <2>1, <2>2, InParts
<1>2. CASE RefreshLoginState \/ PublishLogin \/ NewProxy \/ Login \/ Restart
  BY <1>2, RefreshLoginStateStep, LoginFileStep, NewProxyStep, LoginStep, RestartStep
<1>3. CASE \E operation \in {"reboot", "factory_reset"}, outcome \in BlockOutcomes :
             BlockLogin(operation, outcome)
  BY <1>3, LoginFileStep
<1>4. CASE \E saved \in BOOLEAN : Setup(saved) \/ Reset(saved)
  BY <1>4, SetupStep, ResetStep
<1>5. CASE \E token \in Tokens : Logout(token) \/ SessionExpires(token)
  BY <1>5, SessionEndsStep
<1>6. CASE \E c \in Conns, token \in Tokens : Upgrade(c, token)
  BY <1>6, HandshakeStep
<1>7. CASE \E c \in Conns :
             NewConnection(c) \/ HandshakeFails(c) \/ MessageStep(c) \/ ProxyStep(c) \/ OutsideStep(c)
  BY <1>7, NewConnectionStep, HandshakeStep, MessageStepKeeps, ProxyStepKeeps, OutsideStepKeeps
<1> QED
  BY <1>1, <1>2, <1>3, <1>4, <1>5, <1>6, <1>7 DEF Next

(* WebInvariant holds in every reachable state: it is inductive.            *)
THEOREM WebInvariantHolds == Spec => []WebInvariant
<1>1. Init => WebInvariant
  BY WebInvariantInit
<1>2. WebInvariant /\ [Next]_vars => WebInvariant'
  BY WebInvariantStep
<1> QED
  BY <1>1, <1>2, PTL DEF Spec

(* One browser at a time holds the place, and only it is connected to the   *)
(* API, however connections, releases and restrictions interleave.          *)
THEOREM OneUiHolds == Spec => []OneUi
<1>1. WebInvariant => OneUi
  BY DEF WebInvariant, OwnedWhileLive, OneUi
<1> QED
  BY <1>1, WebInvariantHolds, PTL

(* No session and no bridge outlives the account or the permission it       *)
(* rests on.                                                                *)
THEOREM AccessEndsHolds == Spec => []AccessEnds
<1>1. WebInvariant => AccessEnds
  BY DEF WebInvariant
<1> QED
  BY <1>1, WebInvariantHolds, PTL

(* No message passes for anybody but the owner, nor to the API while the    *)
(* login is restricted.                                                     *)
THEOREM PassesOnlyForOwnerHolds == Spec => []PassesOnlyForOwner
<1>1. WebInvariant => PassesOnlyForOwner
  BY DEF WebInvariant
<1> QED
  BY <1>1, WebInvariantHolds, PTL

(* The heartbeat bounds the silence of the place's owner, whatever the      *)
(* interval and the timeout are.                                            *)
THEOREM SlotComesFreeHolds == Spec => []SlotComesFree
<1>1. WebInvariant => SlotComesFree
  <2> SUFFICES ASSUME WebInvariant, NEW c \in Conns, owner = c, link[c].client = "open"
               PROVE  link[c].silent <= HeartbeatTicks
    BY DEF SlotComesFree
  <2>1. link[c] \in Links /\ LinkInvariant(link[c], owner = c, handling = c)
    BY InParts DEF ProxyTypeOK, LinksInvariant
  <2> QED
    BY <2>1, ProxyAssumption DEF LinkInvariant, Links
<1> QED
  BY <1>1, WebInvariantHolds, PTL
=============================================================================
