------------------------ MODULE EverestServiceControl ------------------------
(***************************************************************************)
(* The procedures of backend/api/libs/EverestServiceControl.cpp, one of    *)
(* which runs at a time: the check that EVerest may be interrupted, the    *)
(* wait for RpcApi after a restart and the watch for errors after it.      *)
(* They ask the EVSEs 1..last one after the other; what they do between    *)
(* two answers happens in one step of the event loop, and `reading' is     *)
(* what they wait for.  Between their rounds they wait for the next poll.  *)
(*                                                                         *)
(* `before.instance' and `answers' have no counterpart in the code: they   *)
(* remember which EVerest was replaced and which one answered.             *)
(***************************************************************************)
EXTENDS RpcApiClient, FiniteSets

CONSTANT EvseCount   \* the EVSEs of the controller that is written

VARIABLES
  before,        \* the snapshot executeEverestRestart takes
  deadline,      \* the deadline of the running wait has expired
  round,         \* `generation' and `allResponsive' of the readiness round
  errorPresent,  \* an EVSE reported error_present
  unresolved,    \* unresolvedErrors of the watch
  answers        \* the instance that answered for an EVSE, in this round

controlVars == <<before, deadline, round, errorPresent, unresolved, answers>>

Evses == 1..EvseCount
NoRound == [generation |-> 0, responsive |-> FALSE]
NoAnswers == [e \in Evses |-> 0]

ControlTypeOK ==
  /\ before \in [handshake : Nat, disconnection : Nat, require : BOOLEAN, instance : Nat]
  /\ deadline \in BOOLEAN
  /\ round \in [generation : Nat, responsive : BOOLEAN]
  /\ errorPresent \in BOOLEAN
  /\ unresolved \subseteq Evses
  /\ answers \in [Evses -> 0..MaxInstances]

Snapshot ==
  [handshake |-> handshakeGeneration, disconnection |-> disconnectionGeneration,
   require |-> IsReady, instance |-> instance]

ControlInit ==
  /\ before = [handshake |-> 0, disconnection |-> 0, require |-> FALSE, instance |-> 0]
  /\ deadline = FALSE /\ round = NoRound /\ errorPresent = FALSE
  /\ unresolved = {} /\ answers = NoAnswers

(* Each wait has a deadline of its own.                                     *)
DeadlineExpires ==
  /\ ~deadline
  /\ deadline' = TRUE
  /\ IF Reading THEN reading' = [reading EXCEPT !.expired = TRUE] ELSE UNCHANGED reading
  /\ UNCHANGED <<before, round, errorPresent, unresolved, answers>>
  /\ UNCHANGED <<pending, lastResponse, linkVars, handshakeVars>>

(* isTransientRpcError, of the errors a status read can end with.           *)
Transient(result) == result = "no response"

(***************************************************************************)
(* checkEverestStateAllowed                                                *)
(***************************************************************************)
StateAllowed(result) == result \in {"fine", "faulty"}

CheckFails == ReadIsOver /\ ~StateAllowed(ReadResult)
CheckContinues(last) == ReadIsOver /\ StateAllowed(ReadResult) /\ reading.evse < last
CheckPasses(last) == ReadIsOver /\ StateAllowed(ReadResult) /\ reading.evse = last

(***************************************************************************)
(* executeEverestRestart.  The snapshot is taken before the job is asked   *)
(* for and nothing runs in between.                                        *)
(***************************************************************************)
RestartAccepted ==
  /\ AcceptJob("restart")
  /\ before' = Snapshot
  /\ deadline' = FALSE /\ round' = NoRound /\ errorPresent' = FALSE
  /\ answers' = NoAnswers
  /\ UNCHANGED unresolved

(***************************************************************************)
(* waitForRpcApiReady                                                      *)
(***************************************************************************)
Fresh_AnyHandshake == IsReady

Fresh ==
  /\ IsReady
  /\ handshakeGeneration > before.handshake
  /\ before.require => disconnectionGeneration > before.disconnection

BeginRound ==
  /\ ~Reading /\ ~deadline /\ Fresh
  /\ round' = [generation |-> handshakeGeneration, responsive |-> TRUE]
  /\ answers' = NoAnswers
  /\ UNCHANGED <<before, deadline, errorPresent, unresolved>>

(* The round is given up when the connection it began on is gone.           *)
RoundBroken == deadline \/ ~IsReady \/ handshakeGeneration # round.generation

NoteAnswer ==
  answers' = IF ReadResult = "no response" THEN answers
             ELSE [answers EXCEPT ![reading.evse] = peer]

RoundResponsive == round.responsive /\ ReadResult # "no response"

ReadinessRefused == ReadIsOver /\ ~RoundBroken /\ ReadResult = "refused"

RoundContinues(last) ==
  ReadIsOver /\ ~RoundBroken /\ ReadResult # "refused" /\ reading.evse < last

RoundSucceeds(last) ==
  /\ ReadIsOver /\ ~RoundBroken /\ ReadResult # "refused"
  /\ reading.evse = last /\ RoundResponsive

RoundFails(last) ==
  /\ ReadIsOver
  /\ RoundBroken \/ (ReadResult # "refused" /\ reading.evse = last /\ ~RoundResponsive)

NoteReadiness ==
  /\ round' = [round EXCEPT !.responsive = RoundResponsive]
  /\ errorPresent' = (errorPresent \/ ReadResult = "faulty")
  /\ NoteAnswer
  /\ UNCHANGED <<before, deadline, unresolved>>

(***************************************************************************)
(* monitorEverestErrorPresent                                              *)
(***************************************************************************)
BeginWatch ==
  /\ deadline' = FALSE
  /\ unresolved' = Evses
  /\ answers' = NoAnswers
  /\ UNCHANGED <<before, round, errorPresent>>

(* An EVSE asked while nothing is connected is unresolved at once, and so   *)
(* are those after it.                                                      *)
WatchUnconnected ==
  /\ ~Reading /\ ~deadline /\ ~IsReady
  /\ unresolved' = Evses
  /\ UNCHANGED <<before, deadline, round, errorPresent, answers>>

WatchResult ==
  IF deadline /\ ReadResult \in {"fine", "faulty", "occupied"} THEN "no response" ELSE ReadResult

Unresolved_Forgiving == unresolved \ {reading.evse}

(* An EVSE is resolved by its last answer, not by having answered once.     *)
Unresolved ==
  IF WatchResult \in {"no response", "refused"}
  THEN unresolved \union {reading.evse} ELSE unresolved \ {reading.evse}

NoteWatch(rest) ==
  /\ unresolved' = Unresolved \union rest
  /\ NoteAnswer
  /\ UNCHANGED <<before, deadline, round, errorPresent>>

WatchSeesError == ReadIsOver /\ ~deadline /\ ReadResult = "faulty"
WatchRefused == ReadIsOver /\ ~deadline /\ ReadResult = "refused"
WatchGoesOn == ReadIsOver /\ ~WatchSeesError /\ ~WatchRefused
=============================================================================
