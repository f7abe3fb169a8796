---------------------------- MODULE PasswordReset -----------------------------
(***************************************************************************)
(* Recovery of forgotten credentials (backend/webserver/auth/              *)
(* PasswordReset.cpp): a reset is allowed once per boot, only after a cold *)
(* start, and only for a while after the web server was first started.     *)
(* What has been decided is kept in password-reset-state.json under        *)
(* $RUNTIME_DIRECTORY; the kind of the boot is read from a register that   *)
(* survives a reboot and is cleared once it has been recorded.             *)
(*                                                                         *)
(* Procs are the web server processes that share the directory: the one    *)
(* the launcher starts, and one started by hand.  A process that ends      *)
(* (crashes, is terminated) may do so between any two of its steps; the    *)
(* lock, a flock, ends with it.  The state file is replaced as a whole     *)
(* (QSaveFile), so a load that finds it damaged is left out.               *)
(***************************************************************************)
EXTENDS AuthManager

CONSTANTS
  Procs,        \* web server processes
  NoProc,       \* none of them
  Window,       \* password_reset_window_seconds, when it is not 0
  MaxTime,      \* bound: time since the boot
  MaxBoots,     \* bound: boots
  MaxAccounts   \* bound: accounts ever set up

ASSUME ResetAssumption ==
  /\ NoProc \notin Procs
  /\ {Window, MaxTime, MaxBoots, MaxAccounts} \subseteq Nat
  /\ Window > 0

VARIABLES
  boot,      \* the boot ID
  now,       \* CLOCK_BOOTTIME
  marker,    \* the register: "zero", "warm", "other" (any other value)
  state,     \* password-reset-state.json
  lock,      \* who holds password-reset.lock
  proc,      \* the processes
  stored,    \* the account in the authentication file
  accounts,  \* accounts set up so far
  granted    \* what the resets of this boot rest on (no variable of the program)

vars == <<boot, now, marker, state, lock, proc, stored, accounts, granted>>

NoState == [boot |-> 0, class |-> "none", deadline |-> 0, pending |-> FALSE, allowed |-> FALSE]

(* A process: the members of its PasswordReset and of its AuthManager, and *)
(* how far initialize() or reset() has got.                                *)
Off ==
  [pc |-> "off", start |-> 0, enabled |-> FALSE, class |-> "none", deadline |-> 0,
   pending |-> FALSE, allowed |-> FALSE, blocked |-> FALSE, valid |-> FALSE,
   auth |-> Load(NoUser)]

(* Nothing has been granted in this boot: what the register held, the end  *)
(* of the window of the start that was recorded first (once one was), when *)
(* the last reset was asked for, and how many removed the account.         *)
NothingGranted(kind) == [kind |-> kind, until |-> {}, asked |-> 0, count |-> 0]

States ==
  [boot : Nat, class : {"none", "cold", "warm", "invalid"}, deadline : Nat,
   pending : BOOLEAN, allowed : BOOLEAN]

Markers == {"zero", "warm", "other"}

Processes ==
  [pc : {"off", "new", "recording", "clearing", "saving", "up", "resetting"},
   start : Nat, enabled : BOOLEAN, class : {"none", "cold", "warm", "invalid"}, deadline : Nat,
   pending : BOOLEAN, allowed : BOOLEAN, blocked : BOOLEAN, valid : BOOLEAN,
   auth : [loaded : BOOLEAN, user : Nat, sessions : SUBSET Nat]]

(* Every variable has its type.                                             *)
TypeOK ==
  /\ boot \in Nat /\ now \in Nat /\ stored \in Nat /\ accounts \in Nat
  /\ marker \in Markers
  /\ state \in States
  /\ lock \in Procs \union {NoProc}
  /\ proc \in [Procs -> Processes]
  /\ granted \in [kind : Markers, until : SUBSET Nat, asked : Nat, count : Nat]

Init ==
  /\ boot = 1 /\ now = 0
  /\ marker \in Markers
  /\ state = NoState
  /\ lock = NoProc
  /\ proc = [p \in Procs |-> Off]
  /\ stored \in {NoUser, 1} /\ accounts = stored
  /\ granted = NothingGranted(marker)

-----------------------------------------------------------------------------
(* Starting; every step of initialize() that another process or a crash    *)
(* can come between is a step here.                                        *)

(* main's AuthManager and the constructor                                  *)
StartServer(p, window) ==
  /\ proc[p].pc = "off"
  /\ proc' = [proc EXCEPT ![p] = [Off EXCEPT
                !.pc = "new", !.start = now, !.enabled = window > 0, !.auth = Load(stored)]]
  /\ UNCHANGED <<boot, now, marker, state, lock, stored, accounts, granted>>

(* load() of the state file, into process q's members; a state of another  *)
(* boot counts as missing                                                  *)
StateIsMissing == state.boot # boot
Loaded(q) ==
  [q EXCEPT !.class = state.class, !.deadline = state.deadline,
            !.pending = state.pending, !.allowed = state.allowed]

Classes == IF marker = "zero" THEN {"cold", "invalid"}
           ELSE IF marker = "warm" THEN {"warm", "invalid"} ELSE {"invalid"}

(* What initialize() makes of a boot it is the first to see; a register    *)
(* that cannot be read is "invalid" too.                                   *)
Classified(q, class, window) ==
  [q EXCEPT !.class = class, !.deadline = q.start + window,
            !.allowed = q.enabled /\ class = "cold", !.pending = class # "invalid"]

WindowOf(q) == IF q.enabled THEN Window ELSE 0

InitializeLocked_ForgetsPending(p) ==
  /\ proc[p].pc = "new" /\ lock = NoProc
  /\ IF StateIsMissing
       THEN /\ \E class \in Classes :
                 proc' = [proc EXCEPT ![p] =
                            [Classified(@, class, WindowOf(@)) EXCEPT !.pc = "recording"]]
            /\ lock' = p
       ELSE /\ proc' = [proc EXCEPT ![p] =
                          [Classified(Loaded(@), state.class, WindowOf(@)) EXCEPT
                             !.pc = "recording"]]
            /\ lock' = p
  /\ UNCHANGED <<boot, now, marker, state, stored, accounts, granted>>

(* initialize() up to its first save.  A boot whose recording was cut      *)
(* short grants nothing any more.                                          *)
InitializeLocked(p) ==
  /\ proc[p].pc = "new" /\ lock = NoProc
  /\ \/ /\ StateIsMissing
        /\ \E class \in Classes :
             proc' = [proc EXCEPT ![p] =
                        [Classified(@, class, WindowOf(@)) EXCEPT !.pc = "recording"]]
        /\ lock' = p
     \/ /\ ~StateIsMissing /\ state.pending
        /\ proc' = [proc EXCEPT ![p] =
                      [Loaded(@) EXCEPT !.pc = "recording", !.allowed = FALSE]]
        /\ lock' = p
     \/ /\ ~StateIsMissing /\ ~state.pending
        /\ proc' = [proc EXCEPT ![p] = [Loaded(@) EXCEPT !.pc = "up", !.valid = TRUE]]
        /\ lock' = lock
  /\ UNCHANGED <<boot, now, marker, state, stored, accounts, granted>>

(* Another process initializes or resets at this moment, or the directory  *)
(* is unusable.                                                            *)
InitializeDenied(p, usable) ==
  /\ proc[p].pc = "new" /\ (usable => lock # NoProc)
  /\ proc' = [proc EXCEPT ![p].pc = "up", ![p].blocked = usable,
                          ![p].enabled = usable /\ @]
  /\ UNCHANGED <<boot, now, marker, state, lock, stored, accounts, granted>>

StateOf(q) ==
  [boot |-> boot, class |-> q.class, deadline |-> q.deadline,
   pending |-> q.pending, allowed |-> q.allowed]

Record_GoesOnUnsaved(p, saved) ==
  LET q == proc[p] IN
  /\ q.pc = "recording"
  /\ state' = IF saved THEN StateOf(q) ELSE state
  /\ granted' = IF granted.until = {} THEN [granted EXCEPT !.until = {q.deadline}] ELSE granted
  /\ proc' = [proc EXCEPT ![p].pc = IF q.pending THEN "clearing" ELSE "up",
                          ![p].valid = TRUE, ![p].blocked = ~saved]
  /\ lock' = IF q.pending THEN lock ELSE NoProc
  /\ UNCHANGED <<boot, now, marker, stored, accounts>>

(* The first save; the register is left alone unless it succeeded.         *)
Record(p, saved) ==
  LET q == proc[p] IN
  /\ q.pc = "recording"
  /\ \/ /\ saved
        /\ state' = StateOf(q)
        /\ granted' = IF granted.until = {} THEN [granted EXCEPT !.until = {q.deadline}] ELSE granted
        /\ proc' = [proc EXCEPT ![p].pc = IF q.pending THEN "clearing" ELSE "up",
                                ![p].valid = TRUE]
        /\ lock' = IF q.pending THEN lock ELSE NoProc
     \/ /\ ~saved
        /\ proc' = [proc EXCEPT ![p].pc = "up", ![p].blocked = TRUE]
        /\ lock' = NoProc
        /\ UNCHANGED <<state, granted>>
  /\ UNCHANGED <<boot, now, marker, stored, accounts>>

(* clearMarker                                                             *)
ClearMarker(p, cleared) ==
  /\ proc[p].pc = "clearing"
  /\ marker' = IF cleared THEN "zero" ELSE marker
  /\ proc' = [proc EXCEPT ![p].pc = "saving", ![p].pending = ~cleared,
                          ![p].allowed = cleared /\ @]
  /\ UNCHANGED <<boot, now, state, lock, stored, accounts, granted>>

(* The second save; if it fails the process grants nothing.                *)
RecordCleared(p, saved) ==
  /\ proc[p].pc = "saving"
  /\ state' = IF saved THEN StateOf(proc[p]) ELSE state
  /\ proc' = [proc EXCEPT ![p].pc = "up", ![p].blocked = ~saved]
  /\ lock' = NoProc
  /\ UNCHANGED <<boot, now, marker, stored, accounts, granted>>

-----------------------------------------------------------------------------
(* Serving *)

(* reason() is empty                                                       *)
Available(q) ==
  /\ q.enabled /\ q.class = "cold"
  /\ ~q.blocked /\ q.valid /\ q.allowed /\ ~q.pending
  /\ now < q.deadline

(* status(), and a request that is refused after load(): the members are   *)
(* brought up to date with the file.                                       *)
Status(p) ==
  /\ proc[p].pc = "up" /\ proc[p].valid /\ ~proc[p].blocked
  /\ proc' = [proc EXCEPT ![p] = IF StateIsMissing THEN [@ EXCEPT !.valid = FALSE, !.blocked = TRUE]
                                                   ELSE Loaded(@)]
  /\ UNCHANGED <<boot, now, marker, state, lock, stored, accounts, granted>>

(* reset(): the allowance is used up in the file before the account is     *)
(* touched.                                                                *)
Reset(p, saved) ==
  LET q == Loaded(proc[p]) IN
  /\ q.pc = "up" /\ q.enabled /\ ~q.blocked /\ q.valid
  /\ lock = NoProc /\ ~StateIsMissing
  /\ Available(q) /\ HasUser(q.auth)
  /\ \/ /\ saved
        /\ state' = [StateOf(q) EXCEPT !.allowed = FALSE]
        /\ proc' = [proc EXCEPT ![p] = [q EXCEPT !.pc = "resetting", !.allowed = FALSE]]
        /\ lock' = p
        /\ granted' = [granted EXCEPT !.asked = now]
     \/ /\ ~saved
        /\ proc' = [proc EXCEPT ![p] = [q EXCEPT !.allowed = FALSE, !.blocked = TRUE]]
        /\ UNCHANGED <<state, lock, granted>>
  /\ UNCHANGED <<boot, now, marker, stored, accounts>>

(* ... and auth.resetUser, which may fail to save                          *)
FinishReset(p, saved) ==
  /\ proc[p].pc = "resetting"
  /\ proc' = [proc EXCEPT ![p].pc = "up", ![p].auth = ResetUser(@, saved)]
  /\ stored' = IF saved THEN NoUser ELSE stored
  /\ granted' = IF saved THEN [granted EXCEPT !.count = @ + 1] ELSE granted
  /\ lock' = NoProc
  /\ UNCHANGED <<boot, now, marker, state, accounts>>

(* First-time setup, without a time limit                                  *)
SetUp(p) ==
  /\ proc[p].pc = "up" /\ SetupRequired(proc[p].auth) /\ accounts < MaxAccounts
  /\ accounts' = accounts + 1
  /\ stored' = accounts + 1
  /\ proc' = [proc EXCEPT ![p].auth = CreateUser(@, accounts + 1, TRUE)]
  /\ UNCHANGED <<boot, now, marker, state, lock, granted>>

-----------------------------------------------------------------------------
(* The process, the clock and the device *)

ServerEnds(p) ==
  /\ proc[p].pc # "off"
  /\ proc' = [proc EXCEPT ![p] = Off]
  /\ lock' = IF lock = p THEN NoProc ELSE lock
  /\ UNCHANGED <<boot, now, marker, state, stored, accounts, granted>>

Tick ==
  /\ now < MaxTime
  /\ now' = now + 1
  /\ UNCHANGED <<boot, marker, state, lock, proc, stored, accounts, granted>>

(* A power cycle loses the register, an orderly reboot marks it, and an    *)
(* unclean one (a watchdog) leaves it.  /run is lost with every boot; a    *)
(* directory elsewhere is not.                                             *)
Reboot(kind, kept) ==
  /\ boot < MaxBoots
  /\ boot' = boot + 1 /\ now' = 0
  /\ marker' = IF kind = "power" THEN "zero" ELSE IF kind = "orderly" THEN "warm" ELSE marker
  /\ state' = IF kept THEN state ELSE NoState
  /\ lock' = NoProc
  /\ proc' = [p \in Procs |-> Off]
  /\ granted' = NothingGranted(marker')
  /\ UNCHANGED <<stored, accounts>>

Next ==
  \/ Tick
  \/ \E kind \in {"power", "orderly", "unclean"}, kept \in BOOLEAN : Reboot(kind, kept)
  \/ \E p \in Procs :
       \/ \E window \in {0, Window} : StartServer(p, window)
       \/ InitializeLocked(p)
       \/ \E usable \in BOOLEAN : InitializeDenied(p, usable)
       \/ \E done \in BOOLEAN :
            \/ Record(p, done) \/ ClearMarker(p, done) \/ RecordCleared(p, done)
            \/ Reset(p, done) \/ FinishReset(p, done)
       \/ Status(p) \/ SetUp(p) \/ ServerEnds(p)

Spec == Init /\ [][Next]_vars

-----------------------------------------------------------------------------
(* An account is removed only by a reset the boot allows: the register     *)
(* said that the device had been switched on, the request came before the  *)
(* window of the first recorded start was over, it was the only one of     *)
(* this boot, and the file says that there will be no other - whichever    *)
(* process crashed where, and however often the service was restarted      *)
(* (PasswordReset::reset; README, "Recover forgotten EVerest UI            *)
(* credentials").                                                          *)
ResetOnlyAsGranted ==
  granted.count > 0 =>
    /\ granted.kind = "zero"
    /\ \E until \in granted.until : granted.asked < until
    /\ granted.count = 1
    /\ state.boot = boot /\ ~state.allowed

(* Within a boot what has been recorded is never decided anew: the kind of *)
(* the boot and the deadline stay, and an allowance that is gone does not  *)
(* come back (PasswordReset::initialize).                                  *)
NeverReopens ==
  [][boot' = boot /\ state.boot = boot =>
       /\ state'.boot = boot /\ state'.class = state.class
       /\ state'.deadline = state.deadline
       /\ state'.allowed => state.allowed]_vars

-----------------------------------------------------------------------------
(* What keeps these true.  The file is written under the lock alone, ...    *)
LockIsHeld ==
  \A p \in Procs : proc[p].pc \in {"recording", "clearing", "saving", "resetting"} <=> lock = p

(* ... the first process that gets to write it in a boot classifies the     *)
(* boot, before anybody has touched the register, ...                       *)
FirstRecordStands ==
  /\ state.boot <= boot
  /\ StateIsMissing => granted.until = {} /\ granted.count = 0 /\ granted.kind = marker
  /\ ~StateIsMissing =>
       granted.until = {state.deadline} /\ (state.class = "cold" => granted.kind = "zero")

(* ... who writes it again writes the same, and allows no more, ...         *)
RewritesAgree ==
  \A p \in Procs :
    /\ proc[p].pc \in {"clearing", "saving"} =>
         ~StateIsMissing /\ (proc[p].allowed => state.allowed)
    /\ proc[p].pc = "recording" =>
         IF StateIsMissing THEN proc[p].class = "cold" => granted.kind = "zero" ELSE ~proc[p].allowed
    /\ proc[p].pc \in {"recording", "clearing", "saving"} /\ ~StateIsMissing =>
         proc[p].class = state.class /\ proc[p].deadline = state.deadline

(* ... and an allowance is spent before the account is touched.             *)
SpentFirst ==
  /\ granted.count <= 1
  /\ \A p \in Procs : proc[p].pc = "resetting" => granted.count = 0
  /\ granted.count > 0 \/ (\E p \in Procs : proc[p].pc = "resetting") =>
       granted.kind = "zero" /\ ~StateIsMissing /\ ~state.allowed /\ granted.asked < state.deadline

ResetInvariant ==
  TypeOK /\ LockIsHeld /\ FirstRecordStands /\ RewritesAgree /\ SpentFirst
=============================================================================
