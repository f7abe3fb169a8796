---------------------------- MODULE NetworkSettings ----------------------------
(***************************************************************************)
(* What the network configuration promises about the settings it keeps in  *)
(* drop-in files (src/docs/api/API.md:252-262): saving changes one file at *)
(* a time; a reset takes from every file it is about or from none, and     *)
(* only a crash may leave it half done, file by file; nothing else, a      *)
(* failure or a recovery least of all, changes what is stored.             *)
(***************************************************************************)
EXTENDS FiniteSets

CONSTANTS
  Files, Document, None,
  Reduced(_)   \* what a reset may leave of a document

VARIABLES
  operation,   \* "down", "none", "saving", "resetting" or "done"
  targets,     \* the files the reset is about
  stored,      \* the settings of each file
  previous     \* what a reset that is not final has taken away

vars == <<operation, targets, stored, previous>>

Init ==
  /\ operation = "down" /\ targets = {}
  /\ stored \in [Files -> Document \union {None}]
  /\ previous = [f \in Files |-> None]

Goes(from, to) == operation \in from /\ operation' = to

Begin ==
  \/ Goes({"none"}, "saving") /\ UNCHANGED <<targets, stored, previous>>
  \/ Goes({"none"}, "resetting") /\ targets' \subseteq Files /\ UNCHANGED <<stored, previous>>

Save ==
  /\ Goes({"saving"}, "none")
  /\ \/ \E f \in Files, document \in Document \union {None} :
          stored' = [stored EXCEPT ![f] = document]
     \/ UNCHANGED stored
  /\ UNCHANGED <<targets, previous>>

Reset(f) ==
  /\ Goes({"resetting"}, "resetting")
  /\ f \in targets /\ previous[f] = None
  /\ \E document \in Reduced(stored[f]) : stored' = [stored EXCEPT ![f] = document]
  /\ previous' = [previous EXCEPT ![f] = stored[f]]
  /\ UNCHANGED targets

Undo(f) ==
  /\ Goes({"resetting"}, "resetting")
  /\ previous[f] # None
  /\ stored' = [stored EXCEPT ![f] = previous[f]]
  /\ previous' = [previous EXCEPT ![f] = None]
  /\ UNCHANGED targets

Commit ==
  /\ Goes({"resetting"}, "done")
  /\ \A f \in targets : previous[f] # None
  /\ UNCHANGED <<targets, stored, previous>>

Abort ==
  /\ Goes({"resetting"}, "none")
  /\ \A f \in Files : previous[f] = None
  /\ UNCHANGED <<targets, stored, previous>>

(* Once the reset is final, or after a crash, what it took is dropped.      *)
Forget(f) ==
  /\ Goes({"done"}, "done") \/ Goes({"none"}, "none")
  /\ previous' = [previous EXCEPT ![f] = None]
  /\ UNCHANGED <<targets, stored>>

Finish == Goes({"done"}, "none") /\ UNCHANGED <<targets, stored, previous>>

Crash ==
  /\ Goes({"none", "saving", "resetting", "done"}, "down")
  /\ targets' = {}
  /\ UNCHANGED <<stored, previous>>

Start == Goes({"down"}, "none") /\ UNCHANGED <<targets, stored, previous>>

(* Somebody else puts a file where there is none.                           *)
External(f) ==
  /\ Goes({"down"}, "down") \/ Goes({"none"}, "none")
  /\ stored[f] = None
  /\ \E document \in Document : stored' = [stored EXCEPT ![f] = document]
  /\ UNCHANGED <<targets, previous>>

Next ==
  \/ Begin \/ Save \/ Commit \/ Abort \/ Finish \/ Crash \/ Start
  \/ \E f \in Files : Reset(f) \/ Undo(f) \/ Forget(f) \/ External(f)

Spec == Init /\ [][Next]_vars
=============================================================================
