------------------------------ MODULE SerialQueue ------------------------------
(***************************************************************************)
(* What the control path promises a client: requests are served one at a   *)
(* time and in the order in which they were accepted, and none that was    *)
(* accepted waits for ever.  The requests waiting may be discarded         *)
(* together (the login was restricted), and everything is when the process *)
(* ends.                                                                   *)
(***************************************************************************)
EXTENDS Sequences

CONSTANTS Ids, NoId

VARIABLES waiting, serving
queueVars == <<waiting, serving>>

Waiting == {waiting[i] : i \in DOMAIN waiting}

Init == waiting = << >> /\ serving = NoId

Accept(id) ==
  /\ id \notin Waiting \union {serving}
  /\ waiting' = Append(waiting, id)
  /\ UNCHANGED serving

Begin ==
  /\ serving = NoId /\ waiting # << >>
  /\ serving' = Head(waiting)
  /\ waiting' = Tail(waiting)

End ==
  /\ serving # NoId
  /\ serving' = NoId
  /\ UNCHANGED waiting

Discard ==
  /\ waiting' = << >>
  /\ serving' \in {serving, NoId}

Next == (\E id \in Ids : Accept(id)) \/ Begin \/ End \/ Discard

Spec == Init /\ [][Next]_queueVars /\ WF_queueVars(Begin \/ End)
=============================================================================
