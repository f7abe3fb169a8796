----------------------------- MODULE AuthManager ------------------------------
(***************************************************************************)
(* The one account of the web UI and its browser sessions (backend/        *)
(* webserver/auth/AuthManager.cpp), as operators on the object's members:  *)
(*                                                                         *)
(*   loaded    m_loaded: load() accepted the file                          *)
(*   user      m_user, or NoUser (m_hasUser is false)                      *)
(*   sessions  the keys of m_sessions                                      *)
(*                                                                         *)
(* An account is the number of the createUser call that made it, so that   *)
(* two accounts with the same name differ.  A session that has expired is  *)
(* one that is no longer in "sessions": validateSession erases it and      *)
(* refuses it in the same call.  saved says whether QSaveFile committed.   *)
(***************************************************************************)
EXTENDS Naturals

NoUser == 0

(* load() of a missing file, of one without a user, or of one with a user. *)
(* A file it refuses ends main before anything listens.                    *)
Load(file) == [loaded |-> TRUE, user |-> file, sessions |-> {}]

HasUser(a) == a.loaded /\ a.user # NoUser

SetupRequired(a) == a.loaded /\ a.user = NoUser

(* createUser: the account is in memory only if it is in the file.         *)
CreateUser(a, account, saved) ==
  [a EXCEPT !.user = IF saved THEN account ELSE NoUser]

(* resetUser: a failed save puts the account back; only a stored removal   *)
(* ends the sessions.                                                      *)
ResetUser(a, saved) ==
  IF saved THEN [a EXCEPT !.user = NoUser, !.sessions = {}] ELSE a

InvalidateSessions(a) == [a EXCEPT !.sessions = {}]

(* createSession of an authenticated user                                  *)
CreateSession(a, token) == [a EXCEPT !.sessions = @ \union {token}]

RemoveSession(a, token) == [a EXCEPT !.sessions = @ \ {token}]

(* validateSession; it also extends the session, which time undoes again   *)
ValidateSession(a, token) == token \in a.sessions
=============================================================================
