---------------------------- MODULE RebootRecovery ----------------------------
(***************************************************************************)
(* The reboot recovery of the browser (public/js/ui/rebootRecovery.js) and *)
(* the part of its transport (public/js/transport.js) it stops and starts. *)
(* JavaScript runs one callback at a time, so each function of the code is *)
(* a function here from the page's memory b to the memory it leaves.       *)
(*                                                                         *)
(*   b.sock      the transport's WebSocket: "none", "opening", "open",     *)
(*               "closed" (inside onclose) or "retry" (reconnect timer)    *)
(*   b.old       a WebSocket that close() gave up has not ended yet        *)
(*   b.pending   the operation the page waits for; phase "none" is null    *)
(*   b.failed    recentFailure is set                                      *)
(*   b.ask       settingsRequest ("sent") or settingsTimer ("timer")       *)
(*   b.timer     the next probe is scheduled; b.again is probeAgain        *)
(*   b.probe     the status request in flight (abort and its promise)      *)
(*                                                                         *)
(* operationAccepted and restrictionObserved are only ever used together   *)
(* (confirmed).  The clock is reduced to the one comparison the code makes *)
(* with it: whether the wait of the pending operation is over.             *)
(***************************************************************************)

NoRecovery == [phase |-> "none", wait |-> "none", confirmed |-> FALSE, rejected |-> FALSE,
               checkOnly |-> FALSE, cut |-> FALSE, asked |-> FALSE]

NoAnswer == [allowed |-> FALSE, authenticated |-> FALSE, late |-> FALSE]

(* "none": no probe; "asked": the server has not answered yet; "failed": it *)
(* never will; "answered": the promise is about to be resolved.             *)
NoProbe == [at |-> "none", fresh |-> FALSE, answer |-> NoAnswer]

Loaded(recovery, olderSocket) ==
  [page |-> "loading", sock |-> "none", old |-> olderSocket, pending |-> recovery,
   failed |-> FALSE, connected |-> FALSE, settings |-> FALSE, ask |-> "none",
   closed |-> FALSE, polling |-> FALSE, timer |-> FALSE, again |-> FALSE, probe |-> NoProbe]

Pending(b) == b.pending.phase # "none"
CanStart(b) == b.connected /\ b.settings /\ ~Pending(b)

(* The wait the probe looks at when it starts, or a refusal seen before.   *)
Late(b) == b.pending.wait = "over" \/ b.pending.rejected \/ b.pending.checkOnly

-----------------------------------------------------------------------------
(* transport.js *)

(* close() *)
CloseTransport(b) ==
  [b EXCEPT !.sock = "none", !.old = @ \/ b.sock \in {"opening", "open"}]

(* The body of ws.onclose around the call of onClose: it reconnects unless  *)
(* close() has been called.                                                 *)
ScheduleReconnect(b) == IF b.sock = "closed" THEN [b EXCEPT !.sock = "retry"] ELSE b

-----------------------------------------------------------------------------
(* rebootRecovery.js *)

StopTransport(b) ==
  LET quiet == [b EXCEPT !.connected = FALSE, !.ask = "none"]
  IN IF b.closed THEN quiet ELSE CloseTransport([quiet EXCEPT !.closed = TRUE])

Clear(b) ==
  [b EXCEPT !.pending = NoRecovery, !.failed = FALSE, !.polling = FALSE, !.timer = FALSE,
            !.again = FALSE, !.probe = NoProbe]

Outcome(pending) ==
  [pending EXCEPT !.phase = IF pending.confirmed THEN "blocked" ELSE "unconfirmed"]

OutcomeScreen(b) ==
  IF b.pending.phase \in {"none", "resetting"} THEN b ELSE [b EXCEPT !.pending = Outcome(@)]

WaitForReturn(b) ==
  LET waiting == IF b.pending.phase = "resetting" THEN [b.pending EXCEPT !.phase = "waiting"]
                 ELSE b.pending
      started == IF waiting.wait = "none" THEN [waiting EXCEPT !.wait = "running"] ELSE waiting
      shown   == IF started.phase = "waiting" /\ started.wait = "over" THEN Outcome(started)
                 ELSE started
  IN IF Pending(b)
       THEN StopTransport([b EXCEPT !.pending = shown, !.polling = TRUE,
                                    !.timer = @ \/ ~b.polling])
       ELSE b

(* observeStatus of a status that does not allow a login                   *)
ObserveRestriction(b) ==
  LET known  == IF Pending(b) THEN b.pending
                ELSE [NoRecovery EXCEPT !.phase = "blocked", !.wait = "running"]
      phase  == CASE known.phase = "resetting" -> "waiting"
                  [] known.phase = "unconfirmed" -> "blocked"
                  [] OTHER -> known.phase
  IN WaitForReturn([b EXCEPT !.pending = [known EXCEPT !.phase = phase, !.confirmed = TRUE]])

EndsUnconfirmed(b, fresh) == ~b.pending.confirmed /\ (b.pending.checkOnly \/ fresh)

(* A status that allows a login ends the recovery when the session is gone, *)
(* and otherwise only when nothing confirms the operation.                  *)
Ends(b, status, fresh) ==
  Pending(b) /\ (~status.authenticated \/ EndsUnconfirmed(b, fresh))

(* displayAuthStatus, as onAvailable calls it and on its own               *)
DisplayAuthStatus(b, status) ==
  [b EXCEPT !.page = IF status.authenticated THEN "starting" ELSE "gate"]

ObserveStatus(b, status, fresh) ==
  CASE ~status.allowed -> ObserveRestriction(b)
    [] status.allowed /\ Ends(b, status, fresh) ->
         DisplayAuthStatus(Clear(StopTransport(b)), status)
    [] OTHER -> b

(* probe(), up to its await, which remembers whether the answer may end an  *)
(* unconfirmed wait, and after it.                                          *)
Probe(b) ==
  IF b.pending.phase \in {"none", "resetting"} THEN [b EXCEPT !.timer = FALSE]
  ELSE [b EXCEPT !.timer = FALSE,
                 !.probe = [at |-> "asked", answer |-> NoAnswer,
                            fresh |-> b.pending.wait = "over" \/ b.pending.rejected]]

Rescheduled_OnlyAfterAnAnswer(b, answered) ==
  IF Pending(b) /\ answered THEN [b EXCEPT !.timer = TRUE, !.again = FALSE] ELSE b

Rescheduled(b, answered) ==
  IF Pending(b) THEN [b EXCEPT !.timer = TRUE, !.again = FALSE] ELSE b

ProbeReturns_FreshNow(b) ==
  LET idle == [b EXCEPT !.probe = NoProbe]
  IN IF b.probe.at = "answered"
       THEN Rescheduled(ObserveStatus(idle, b.probe.answer, Late(b)), TRUE)
       ELSE Rescheduled(idle, FALSE)

ProbeReturns(b) ==
  LET idle == [b EXCEPT !.probe = NoProbe]
  IN IF b.probe.at = "answered"
       THEN Rescheduled(ObserveStatus(idle, b.probe.answer, b.probe.fresh), TRUE)
       ELSE Rescheduled(idle, FALSE)

CheckImmediately(b) ==
  IF b.probe.at # "none" THEN [b EXCEPT !.again = TRUE] ELSE [b EXCEPT !.timer = TRUE]

Begin(b, phase) ==
  [b EXCEPT !.failed = FALSE,
            !.pending = [NoRecovery EXCEPT !.phase = phase, !.asked = TRUE]]

LoadSettings(b) ==
  IF ~b.connected \/ Pending(b) \/ b.ask = "sent" THEN b
  ELSE [b EXCEPT !.ask = IF b.sock = "open" THEN "sent" ELSE "timer"]

OnStatusUnavailable(b) ==
  WaitForReturn(IF Pending(b) THEN b
                ELSE [b EXCEPT !.pending = [NoRecovery EXCEPT !.phase = "unconfirmed",
                                              !.wait = "running", !.checkOnly = TRUE]])

OnConnected(b) ==
  LET open == [b EXCEPT !.closed = FALSE]
  IN IF Pending(open) THEN StopTransport(open)
     ELSE LoadSettings([open EXCEPT !.connected = TRUE, !.settings = FALSE])

(* remembered: the failure is recent enough to be taken up again.          *)
OnDisconnected(b, remembered) ==
  LET off == [b EXCEPT !.connected = FALSE, !.ask = "none"]
      resumed == IF ~Pending(off) /\ off.failed /\ remembered
                   THEN [off EXCEPT !.failed = FALSE,
                           !.pending = [NoRecovery EXCEPT !.phase = "resetting", !.asked = TRUE]]
                   ELSE off
  IN IF Pending(resumed) THEN WaitForReturn([resumed EXCEPT !.pending.cut = TRUE]) ELSE resumed

RequestReboot(b) == WaitForReturn(Begin(b, "waiting"))
RequestFactoryReset(b) == Begin(b, "resetting")
ExpectFactoryReboot(b) ==
  LET begun == Begin(b, "waiting")
  IN WaitForReturn([begun EXCEPT !.pending.confirmed = TRUE, !.pending.asked = FALSE])

(* onMessage of the settings: valid or not                                 *)
SettingsMessage(b, valid) ==
  [b EXCEPT !.ask = IF valid THEN "none" ELSE "timer", !.settings = valid]

(* reboot_expected, in a result or in an error                             *)
RebootExpected == {"expected", "expected_error"}

(* onMessage of the final answer to the pending request: a reboot follows   *)
(* (RebootExpected), the factory reset failed ("failed"), or it was refused.*)
OnMessage(b, reply) ==
  LET expected == [b EXCEPT !.pending.confirmed = TRUE,
                            !.pending.phase = IF @ = "unconfirmed" THEN "blocked" ELSE @]
  IN CASE ~(Pending(b) /\ b.pending.asked) -> b
       [] Pending(b) /\ b.pending.asked /\ reply \in RebootExpected -> WaitForReturn(expected)
       [] Pending(b) /\ b.pending.asked /\ reply \notin RebootExpected ->
            IF b.pending.confirmed THEN b
            ELSE IF b.pending.phase = "resetting" /\ ~b.pending.cut
              THEN [Clear(b) EXCEPT !.failed = (reply = "failed")]
              ELSE CheckImmediately(WaitForReturn([b EXCEPT !.pending.rejected = TRUE]))

(* resume(), after the pending operation has been read from the storage    *)
Resume(b) ==
  WaitForReturn(IF b.pending.phase = "blocked" /\ ~b.pending.confirmed
                  THEN [b EXCEPT !.pending.phase = "unconfirmed"] ELSE b)
=============================================================================
