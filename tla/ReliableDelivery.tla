--------------------------- MODULE ReliableDelivery ---------------------------
(***************************************************************************)
(* What the API promises about its responses (src/docs/api/API.md:169-175):*)
(* they are sent one at a time, in order, and one gives way to the next    *)
(* only after the client has received it, or when the connection ends.     *)
(***************************************************************************)
EXTENDS Naturals, Sequences

CONSTANT Nothing

VARIABLES
  waiting,    \* responses not sent yet
  current,    \* the response sent last, or Nothing
  received    \* the client has received it

vars == <<waiting, current, received>>

Init == waiting = << >> /\ current = Nothing /\ received = FALSE

(* A response that finds nothing under way is sent at once.                 *)
Accept ==
  \/ /\ current # Nothing
     /\ Len(waiting') = Len(waiting) + 1
     /\ waiting = SubSeq(waiting', 1, Len(waiting))
     /\ UNCHANGED <<current, received>>
  \/ /\ current = Nothing /\ waiting = << >>
     /\ current' # Nothing /\ received' = FALSE
     /\ UNCHANGED waiting

Receive ==
  /\ current # Nothing
  /\ received' = TRUE
  /\ UNCHANGED <<waiting, current>>

Acknowledge ==
  /\ received
  /\ received' = FALSE
  /\ \/ waiting = << >> /\ current' = Nothing /\ UNCHANGED waiting
     \/ waiting # << >> /\ current' # Nothing /\ waiting' = Tail(waiting)

Disconnect == waiting' = << >> /\ current' = Nothing /\ received' = FALSE

Next == Accept \/ Receive \/ Acknowledge \/ Disconnect

(* What is sent is received, and then makes room, unless the connection     *)
(* ends before.                                                             *)
Progress ==
  /\ current # Nothing /\ ~received ~> received \/ current = Nothing
  /\ received ~> ~received

Spec == Init /\ [][Next]_vars /\ Progress
=============================================================================
