-------------------------- MODULE PasswordReset_proofs --------------------------
(***************************************************************************)
(* Theorems about the recovery of credentials, for every number of         *)
(* processes and every length of the window: ResetInvariant is inductive,  *)
(* and ResetOnlyAsGranted and NeverReopens follow from it.                 *)
(*                                                                         *)
(* Every step changes one process.  What ResetInvariant says of one is     *)
(* ProcInvariant; the others keep theirs because the file and what has     *)
(* been granted change under the lock alone (OneProcessChanges).           *)
(***************************************************************************)
EXTENDS PasswordReset, TLAPS

Grants == [kind : Markers, until : SUBSET Nat, asked : Nat, count : Nat]

Locking == {"recording", "clearing", "saving", "resetting"}

(* One process that holds the lock or does not, with the file f in boot b   *)
(* and what has been granted, g                                             *)
ProcInvariant(q, holds, f, b, g) ==
  /\ q.pc \in Locking <=> holds
  /\ q.pc \in {"clearing", "saving"} => f.boot = b /\ (q.allowed => f.allowed)
  /\ q.pc = "recording" =>
       IF f.boot # b THEN q.class = "cold" => g.kind = "zero" ELSE ~q.allowed
  /\ q.pc \in {"recording", "clearing", "saving"} /\ f.boot = b =>
       q.class = f.class /\ q.deadline = f.deadline
  /\ q.pc = "resetting" =>
       /\ g.count = 0 /\ g.kind = "zero" /\ g.asked < f.deadline
       /\ f.boot = b /\ ~f.allowed

(* The file and what has been granted                                       *)
FileInvariant(f, b, g, m) ==
  /\ f.boot <= b
  /\ f.boot # b => g.until = {} /\ g.count = 0 /\ g.kind = m
  /\ f.boot = b => g.until = {f.deadline} /\ (f.class = "cold" => g.kind = "zero")
  /\ g.count <= 1
  /\ g.count > 0 => g.kind = "zero" /\ f.boot = b /\ ~f.allowed /\ g.asked < f.deadline

ProcsInvariant == \A p \in Procs : ProcInvariant(proc[p], lock = p, state, boot, granted)

(* ResetInvariant, with what it says of each process put together           *)
LEMMA InParts ==
  /\ ResetInvariant <=> TypeOK /\ ProcsInvariant /\ FileInvariant(state, boot, granted, marker)
  /\ ResetInvariant' <=> TypeOK' /\ ProcsInvariant' /\ FileInvariant(state', boot', granted', marker')
<1>1. ResetInvariant <=> TypeOK /\ ProcsInvariant /\ FileInvariant(state, boot, granted, marker)
  BY DEF ResetInvariant, LockIsHeld, FirstRecordStands, RewritesAgree, SpentFirst,
         StateIsMissing, ProcsInvariant, ProcInvariant, FileInvariant, Locking
<1>2. ResetInvariant' <=> TypeOK' /\ ProcsInvariant' /\ FileInvariant(state', boot', granted', marker')
  BY DEF ResetInvariant, LockIsHeld, FirstRecordStands, RewritesAgree, SpentFirst,
         StateIsMissing, ProcsInvariant, ProcInvariant, FileInvariant, Locking
<1> QED
  BY <1>1, <1>2

(* A step of one process is right if the process and the file are right     *)
(* after it, and if it held the lock when it changed what others rely on.   *)
LEMMA OneProcessChanges ==
  ASSUME ResetInvariant,
         NEW p \in Procs, NEW q \in Processes,
         proc' = [proc EXCEPT ![p] = q],
         ProcInvariant(q, lock' = p, state', boot', granted'),
         FileInvariant(state', boot', granted', marker'),
         \A d \in Procs \ {p} : lock' = d <=> lock = d,
         \/ UNCHANGED <<state, granted>>
         \/ lock \in {p, NoProc},
         UNCHANGED <<boot, now>>,
         lock' \in Procs \union {NoProc}, marker' \in Markers, state' \in States, granted' \in Grants,
         stored' \in Nat, accounts' \in Nat
  PROVE  ResetInvariant'
<1>1. TypeOK'
  BY DEF ResetInvariant, TypeOK, Grants
<1>2. ASSUME NEW d \in Procs
      PROVE  ProcInvariant(proc'[d], lock' = d, state', boot', granted')
  <2>1. CASE d = p
    BY <2>1 DEF ResetInvariant, TypeOK
  <2>2. CASE d # p
    <3>1. proc'[d] = proc[d] /\ (lock' = d <=> lock = d)
      BY <2>2 DEF ResetInvariant, TypeOK
    <3>2. ProcInvariant(proc[d], lock = d, state, boot, granted)
      BY InParts DEF ProcsInvariant
    <3>3. CASE UNCHANGED <<state, granted>>
      BY <3>1, <3>2, <3>3 DEF ProcInvariant
    <3>4. CASE lock \in {p, NoProc}
      <4>1. lock # d
        BY <2>2, <3>4, ResetAssumption
      <4> QED
        BY <3>1, <3>2, <4>1 DEF ProcInvariant, Locking
    <3> QED
      BY <3>3, <3>4
  <2> QED
    BY <2>1, <2>2
<1> QED
  BY <1>1, <1>2, InParts DEF ProcsInvariant

(* What is known of a process before its step                               *)
LEMMA BeforeStep ==
  ASSUME ResetInvariant, NEW p \in Procs
  PROVE  /\ proc[p] \in Processes /\ ProcInvariant(proc[p], lock = p, state, boot, granted)
         /\ FileInvariant(state, boot, granted, marker)
         /\ lock \in Procs \union {NoProc} /\ marker \in Markers /\ state \in States /\ granted \in Grants
         /\ stored \in Nat /\ accounts \in Nat /\ boot \in Nat /\ now \in Nat
  BY InParts DEF TypeOK, ProcsInvariant, Grants

(* The records the operators make                                           *)
LEMMA AuthType ==
  Load(NoUser) \in [loaded : BOOLEAN, user : Nat, sessions : SUBSET Nat]
  BY DEF Load, NoUser

LEMMA OffType ==
  Off \in Processes
  BY AuthType DEF Off, Processes

LEMMA LoadedType ==
  ASSUME NEW q \in Processes, state \in States
  PROVE  /\ Loaded(q) \in Processes
         /\ Loaded(q).class = state.class /\ Loaded(q).deadline = state.deadline
         /\ Loaded(q).pending = state.pending /\ Loaded(q).allowed = state.allowed
         /\ Loaded(q).pc = q.pc /\ Loaded(q).auth = q.auth /\ Loaded(q).start = q.start
         /\ Loaded(q).enabled = q.enabled /\ Loaded(q).blocked = q.blocked /\ Loaded(q).valid = q.valid
  BY DEF Loaded, Processes, States

LEMMA StateOfType ==
  ASSUME NEW q \in Processes, boot \in Nat
  PROVE  /\ StateOf(q) \in States
         /\ StateOf(q).boot = boot /\ StateOf(q).class = q.class /\ StateOf(q).deadline = q.deadline
         /\ StateOf(q).pending = q.pending /\ StateOf(q).allowed = q.allowed
  BY DEF StateOf, Processes, States

-----------------------------------------------------------------------------
(* Starting *)

LEMMA StartServerStep ==
  ASSUME ResetInvariant, NEW p \in Procs, NEW window \in {0, Window}, StartServer(p, window)
  PROVE  ResetInvariant'
<1> DEFINE q == [Off EXCEPT !.pc = "new", !.start = now, !.enabled = window > 0, !.auth = Load(stored)]
<1>1. Load(stored) \in [loaded : BOOLEAN, user : Nat, sessions : SUBSET Nat] /\ (window > 0) \in BOOLEAN
  BY BeforeStep DEF Load
<1>2. q \in Processes
  <2> DEFINE e == [Off EXCEPT !.enabled = window > 0]
  <2>1. e \in Processes
    BY OffType, <1>1, Zenon DEF Processes
  <2>2. q = [e EXCEPT !.pc = "new", !.start = now, !.auth = Load(stored)]
    BY DEF Off
  <2> HIDE DEF e
  <2> QED
    BY <1>1, <2>1, <2>2, BeforeStep DEF Processes
<1>3. q.pc = "new"
  BY DEF Off
<1>4. proc' = [proc EXCEPT ![p] = q] /\ UNCHANGED <<boot, now, marker, state, lock, stored, accounts, granted>>
  BY DEF StartServer
<1>5. lock # p
  BY BeforeStep DEF StartServer, ProcInvariant, Locking
<1> HIDE DEF q
<1>6. ProcInvariant(q, lock' = p, state', boot', granted')
  BY <1>3, <1>4, <1>5 DEF ProcInvariant, Locking
<1> QED
  BY <1>2, <1>4, <1>6, BeforeStep, OneProcessChanges

(* A boot that nobody has recorded is classified by the register, which     *)
(* nobody has touched; a recording that was cut short allows nothing.       *)
LEMMA InitializeStep ==
  ASSUME ResetInvariant, NEW p \in Procs, InitializeLocked(p)
  PROVE  ResetInvariant'
<1>1. /\ UNCHANGED <<boot, now, marker, state, stored, accounts, granted>>
      /\ proc[p].pc = "new" /\ lock = NoProc /\ lock # p
  BY ResetAssumption DEF InitializeLocked
<1>2. \A d \in Procs \ {p} : p # d /\ lock # d
  BY <1>1, ResetAssumption
<1>3. ASSUME NEW class \in Classes, StateIsMissing, lock' = p,
             proc' = [proc EXCEPT ![p] = [Classified(@, class, WindowOf(@)) EXCEPT !.pc = "recording"]]
      PROVE  ResetInvariant'
  <2> DEFINE o == proc[p]
             q == [Classified(o, class, WindowOf(o)) EXCEPT !.pc = "recording"]
  <2>1. proc' = [proc EXCEPT ![p] = q] /\ o \in Processes
    BY <1>3, BeforeStep
  <2>2. class \in {"cold", "warm", "invalid"} /\ (class = "cold" => marker = "zero")
    BY <1>3 DEF Classes
  <2>3. o.start + WindowOf(o) \in Nat
    BY <2>1, ResetAssumption DEF WindowOf, Processes
  <2>4. q \in Processes
    <3> DEFINE a == o.enabled /\ class = "cold"
               n == class # "invalid"
               e == [o EXCEPT !.allowed = a, !.pending = n]
    <3>1. a \in BOOLEAN /\ n \in BOOLEAN
      BY <2>1 DEF Processes
    <3>2. q = [e EXCEPT !.class = class, !.deadline = o.start + WindowOf(o), !.pc = "recording"]
      BY <2>1 DEF Classified, Processes
    <3> HIDE DEF a, n, o
    <3>3. e \in Processes
      BY <2>1, <3>1, Zenon DEF Processes
    <3> HIDE DEF e
    <3> QED
      BY <2>2, <2>3, <3>2, <3>3 DEF Processes
  <2>5. q.pc = "recording" /\ q.class = class
    BY <2>1 DEF Classified, Processes
  <2> HIDE DEF q
  <2>6. ProcInvariant(q, lock' = p, state', boot', granted')
    BY <1>1, <1>3, <2>2, <2>5, BeforeStep DEF ProcInvariant, FileInvariant, StateIsMissing, Locking
  <2> QED
    BY <1>1, <1>2, <1>3, <2>1, <2>4, <2>6, BeforeStep, OneProcessChanges
<1>4. CASE /\ ~StateIsMissing /\ state.pending
           /\ proc' = [proc EXCEPT ![p] = [Loaded(@) EXCEPT !.pc = "recording", !.allowed = FALSE]]
           /\ lock' = p
  <2> DEFINE l == Loaded(proc[p])
             q == [l EXCEPT !.pc = "recording", !.allowed = FALSE]
  <2>1. proc' = [proc EXCEPT ![p] = q]
    BY <1>4
  <2>2. l \in Processes /\ l.class = state.class /\ l.deadline = state.deadline
    BY BeforeStep, LoadedType
  <2> HIDE DEF l
  <2>3. q \in Processes
    BY <2>2, Zenon DEF Processes
  <2>4. q.pc = "recording" /\ ~q.allowed /\ q.class = state.class /\ q.deadline = state.deadline
    BY <2>2 DEF Processes
  <2> HIDE DEF q
  <2>5. ProcInvariant(q, lock' = p, state', boot', granted')
    BY <1>1, <1>4, <2>4 DEF ProcInvariant, StateIsMissing, Locking
  <2> QED
    BY <1>1, <1>2, <1>4, <2>1, <2>3, <2>5, BeforeStep, OneProcessChanges
<1>5. CASE /\ ~StateIsMissing /\ ~state.pending
           /\ proc' = [proc EXCEPT ![p] = [Loaded(@) EXCEPT !.pc = "up", !.valid = TRUE]]
           /\ lock' = lock
  <2> DEFINE l == Loaded(proc[p])
             q == [l EXCEPT !.pc = "up", !.valid = TRUE]
  <2>1. proc' = [proc EXCEPT ![p] = q]
    BY <1>5
  <2>2. l \in Processes
    BY BeforeStep, LoadedType
  <2> HIDE DEF l
  <2>3. q \in Processes
    BY <2>2, Zenon DEF Processes
  <2>4. q.pc = "up"
    BY <2>2 DEF Processes
  <2> HIDE DEF q
  <2>5. ProcInvariant(q, lock' = p, state', boot', granted')
    BY <1>1, <1>5, <2>4 DEF ProcInvariant, Locking
  <2> QED
    BY <1>1, <1>2, <1>5, <2>1, <2>3, <2>5, BeforeStep, OneProcessChanges
<1> QED
  BY <1>3, <1>4, <1>5 DEF InitializeLocked

LEMMA InitializeDeniedStep ==
  ASSUME ResetInvariant, NEW p \in Procs, NEW usable \in BOOLEAN, InitializeDenied(p, usable)
  PROVE  ResetInvariant'
<1> DEFINE o == proc[p]
           q == [o EXCEPT !.pc = "up", !.blocked = usable, !.enabled = usable /\ @]
<1>1. proc' = [proc EXCEPT ![p] = q] /\ o \in Processes /\ o.pc = "new"
  BY BeforeStep DEF InitializeDenied, ResetInvariant, TypeOK
<1>2. UNCHANGED <<boot, now, marker, state, lock, stored, accounts, granted>>
  BY DEF InitializeDenied
<1>3. lock # p
  BY <1>1, BeforeStep DEF ProcInvariant, Locking
<1> HIDE DEF o
<1>4. (usable /\ o.enabled) \in BOOLEAN
  BY <1>1 DEF Processes
<1>5. q \in Processes /\ q.pc = "up"
  BY <1>1, <1>4 DEF Processes
<1> HIDE DEF q
<1>6. ProcInvariant(q, lock' = p, state', boot', granted')
  BY <1>2, <1>3, <1>5 DEF ProcInvariant, Locking
<1> QED
  BY <1>1, <1>2, <1>5, <1>6, BeforeStep, OneProcessChanges

(* The first save: what it writes is either the first record of the boot,   *)
(* or the one there is without the allowance.                               *)
LEMMA RecordStep ==
  ASSUME ResetInvariant, NEW p \in Procs, NEW saved \in BOOLEAN, Record(p, saved)
  PROVE  ResetInvariant'
<1> DEFINE o == proc[p]
<1>1. /\ o \in Processes /\ ProcInvariant(o, lock = p, state, boot, granted)
      /\ FileInvariant(state, boot, granted, marker) /\ state \in States /\ granted \in Grants
      /\ o.pc = "recording" /\ UNCHANGED <<boot, now, marker, stored, accounts>>
  BY BeforeStep DEF Record
<1>2. lock = p
  BY <1>1 DEF ProcInvariant, Locking
<1>3. CASE saved
  <2> DEFINE at == IF o.pending THEN "clearing" ELSE "up"
             q == [o EXCEPT !.pc = at, !.valid = TRUE]
  <2>1. /\ state' = StateOf(o)
        /\ granted' = IF granted.until = {} THEN [granted EXCEPT !.until = {o.deadline}] ELSE granted
        /\ lock' = IF o.pending THEN lock ELSE NoProc
        /\ proc' = [proc EXCEPT ![p] = q]
    BY <1>3, BeforeStep DEF Record, ResetInvariant, TypeOK
  <2> HIDE DEF o
  <2>2. /\ state' \in States /\ state'.boot = boot /\ state'.class = o.class
        /\ state'.deadline = o.deadline /\ state'.allowed = o.allowed
    BY <1>1, <2>1, BeforeStep, StateOfType
  <2>3. at \in {"clearing", "up"} /\ lock' \in Procs \union {NoProc} /\ (at = "clearing" <=> lock' = p)
        /\ \A d \in Procs \ {p} : lock' = d <=> lock = d
    BY <1>1, <1>2, <2>1, ResetAssumption DEF Processes
  <2> HIDE DEF at
  <2>4. q \in Processes
    <3> DEFINE e == [o EXCEPT !.valid = TRUE]
    <3>1. e \in Processes
      BY <1>1, Zenon DEF Processes
    <3>2. q = [e EXCEPT !.pc = at]
      BY <1>1 DEF Processes
    <3> HIDE DEF e
    <3> QED
      BY <2>3, <3>1, <3>2 DEF Processes
  <2>5. q.pc = at /\ q.allowed = o.allowed /\ q.class = o.class /\ q.deadline = o.deadline
    BY <1>1 DEF Processes
  <2> HIDE DEF q
  <2>6. ProcInvariant(q, lock' = p, state', boot', granted')
    BY <1>1, <2>2, <2>3, <2>5 DEF ProcInvariant, Locking
  <2>7. /\ granted' \in Grants /\ granted'.until = {state'.deadline}
        /\ granted'.kind = granted.kind /\ granted'.count = granted.count /\ granted'.asked = granted.asked
    <3>1. o.deadline \in Nat
      BY <1>1 DEF Processes
    <3>2. CASE state.boot = boot
      BY <1>1, <2>1, <2>2, <3>2 DEF FileInvariant, ProcInvariant
    <3>3. CASE state.boot # boot
      <4>1. granted' = [granted EXCEPT !.until = {o.deadline}]
        BY <1>1, <2>1, <3>3 DEF FileInvariant
      <4> QED
        BY <1>1, <2>2, <3>1, <4>1 DEF Grants
    <3> QED
      BY <3>2, <3>3
  <2>8. FileInvariant(state', boot', granted', marker')
    BY <1>1, <2>2, <2>7, BeforeStep DEF FileInvariant, ProcInvariant, States, Grants
  <2> QED
    BY <1>1, <1>2, <2>1, <2>2, <2>3, <2>4, <2>6, <2>7, <2>8, BeforeStep, OneProcessChanges
<1>4. CASE ~saved
  <2> DEFINE q == [o EXCEPT !.pc = "up", !.blocked = TRUE]
  <2>1. lock' = NoProc /\ UNCHANGED <<state, granted>> /\ proc' = [proc EXCEPT ![p] = q]
    BY <1>4, BeforeStep DEF Record, ResetInvariant, TypeOK
  <2> HIDE DEF o
  <2>2. q \in Processes
    BY <1>1, Zenon DEF Processes
  <2>3. q.pc = "up"
    BY <1>1 DEF Processes
  <2> HIDE DEF q
  <2>4. ProcInvariant(q, lock' = p, state', boot', granted')
    BY <2>1, <2>3, ResetAssumption DEF ProcInvariant, Locking
  <2> QED
    BY <1>1, <1>2, <2>1, <2>2, <2>4, BeforeStep, ResetAssumption, OneProcessChanges
<1> QED
  BY <1>3, <1>4

LEMMA ClearMarkerStep ==
  ASSUME ResetInvariant, NEW p \in Procs, NEW cleared \in BOOLEAN, ClearMarker(p, cleared)
  PROVE  ResetInvariant'
<1> DEFINE o == proc[p]
           q == [o EXCEPT !.pc = "saving", !.pending = ~cleared, !.allowed = cleared /\ @]
<1>1. /\ o \in Processes /\ ProcInvariant(o, lock = p, state, boot, granted)
      /\ FileInvariant(state, boot, granted, marker)
      /\ o.pc = "clearing" /\ UNCHANGED <<boot, now, state, lock, stored, accounts, granted>>
      /\ marker' \in Markers
      /\ proc' = [proc EXCEPT ![p] = q]
  BY BeforeStep DEF ClearMarker, ResetInvariant, TypeOK, Markers
<1> HIDE DEF o
<1>2. (cleared /\ o.allowed) \in BOOLEAN /\ (~cleared) \in BOOLEAN
  BY <1>1 DEF Processes
<1>3. q \in Processes
  BY <1>1, <1>2 DEF Processes
<1>4. q.pc = "saving" /\ (q.allowed => o.allowed) /\ q.class = o.class /\ q.deadline = o.deadline
  BY <1>1 DEF Processes
<1> HIDE DEF q
<1>5. ProcInvariant(q, lock' = p, state', boot', granted')
  BY <1>1, <1>4 DEF ProcInvariant, Locking
<1>6. FileInvariant(state', boot', granted', marker')
  BY <1>1 DEF FileInvariant, ProcInvariant
<1> QED
  BY <1>1, <1>3, <1>5, <1>6, BeforeStep, OneProcessChanges

(* The second save writes what the first wrote, and allows no more.         *)
LEMMA RecordClearedStep ==
  ASSUME ResetInvariant, NEW p \in Procs, NEW saved \in BOOLEAN, RecordCleared(p, saved)
  PROVE  ResetInvariant'
<1> DEFINE o == proc[p]
           q == [o EXCEPT !.pc = "up", !.blocked = ~saved]
<1>1. /\ o \in Processes /\ ProcInvariant(o, lock = p, state, boot, granted)
      /\ FileInvariant(state, boot, granted, marker) /\ state \in States
      /\ o.pc = "saving" /\ UNCHANGED <<boot, now, marker, stored, accounts, granted>>
      /\ lock' = NoProc /\ state' = IF saved THEN StateOf(o) ELSE state
      /\ proc' = [proc EXCEPT ![p] = q]
  BY BeforeStep DEF RecordCleared, ResetInvariant, TypeOK
<1> HIDE DEF o
<1>2. (~saved) \in BOOLEAN
  OBVIOUS
<1>3. q \in Processes /\ q.pc = "up"
  BY <1>1, <1>2 DEF Processes
<1> HIDE DEF q
<1>4. lock = p /\ \A d \in Procs : lock' # d
  BY <1>1, ResetAssumption DEF ProcInvariant, Locking
<1>5. ProcInvariant(q, lock' = p, state', boot', granted')
  BY <1>3, <1>4 DEF ProcInvariant, Locking
<1>6. /\ state' \in States /\ state'.boot = boot /\ state'.class = state.class
      /\ state'.deadline = state.deadline /\ (state'.allowed => state.allowed)
  BY <1>1, BeforeStep, StateOfType DEF ProcInvariant
<1>7. FileInvariant(state', boot', granted', marker')
  BY <1>1, <1>6, BeforeStep DEF FileInvariant, ProcInvariant
<1> QED
  BY <1>1, <1>3, <1>4, <1>5, <1>6, <1>7, BeforeStep, OneProcessChanges

-----------------------------------------------------------------------------
(* Serving *)

LEMMA StatusStep ==
  ASSUME ResetInvariant, NEW p \in Procs, Status(p)
  PROVE  ResetInvariant'
<1> DEFINE o == proc[p]
           v == [o EXCEPT !.valid = FALSE, !.blocked = TRUE]
           q == IF StateIsMissing THEN v ELSE Loaded(o)
<1>1. /\ o \in Processes /\ o.pc = "up" /\ state \in States
      /\ UNCHANGED <<boot, now, marker, state, lock, stored, accounts, granted>>
      /\ proc' = [proc EXCEPT ![p] = q] /\ lock # p
  BY BeforeStep DEF Status, ProcInvariant, Locking
<1> HIDE DEF o
<1>2. v \in Processes
  BY <1>1, Zenon DEF Processes
<1>3. v.pc = "up"
  BY <1>1 DEF Processes
<1> HIDE DEF v
<1>4. q \in Processes /\ q.pc = "up"
  BY <1>1, <1>2, <1>3, LoadedType
<1> HIDE DEF q
<1>5. ProcInvariant(q, lock' = p, state', boot', granted')
  BY <1>1, <1>4 DEF ProcInvariant, Locking
<1> QED
  BY <1>1, <1>4, <1>5, BeforeStep, OneProcessChanges

(* reset() takes the allowance out of the file; an allowance in the file    *)
(* says that nothing has been granted yet.                                  *)
LEMMA ResetStep ==
  ASSUME ResetInvariant, NEW p \in Procs, NEW saved \in BOOLEAN, Reset(p, saved)
  PROVE  ResetInvariant'
<1> DEFINE l == Loaded(proc[p])
<1>1. /\ l \in Processes /\ l.pc = proc[p].pc
      /\ l.class = state.class /\ l.deadline = state.deadline /\ l.allowed = state.allowed
      /\ FileInvariant(state, boot, granted, marker) /\ state \in States /\ granted \in Grants
      /\ boot \in Nat /\ now \in Nat
  BY BeforeStep, LoadedType
<1>2. /\ l.pc = "up" /\ lock = NoProc /\ state.boot = boot
      /\ l.class = "cold" /\ l.allowed /\ now < l.deadline
      /\ UNCHANGED <<boot, now, marker, stored, accounts>>
  BY DEF Reset, Available, StateIsMissing
<1>3. lock # p /\ \A d \in Procs : lock # d
  BY <1>2, ResetAssumption
<1>4. granted.count = 0 /\ granted.kind = "zero" /\ granted.until = {state.deadline}
  BY <1>1, <1>2 DEF FileInvariant, Grants
<1>5. CASE saved
  <2> DEFINE q == [l EXCEPT !.pc = "resetting", !.allowed = FALSE]
  <2>1. /\ state' = [StateOf(l) EXCEPT !.allowed = FALSE]
        /\ proc' = [proc EXCEPT ![p] = q]
        /\ lock' = p /\ granted' = [granted EXCEPT !.asked = now]
    BY <1>5 DEF Reset
  <2> HIDE DEF l
  <2>2. StateOf(l) \in States /\ StateOf(l).boot = boot /\ StateOf(l).class = l.class /\ StateOf(l).deadline = l.deadline
    BY <1>1, StateOfType
  <2>3. state' \in States
    BY <2>1, <2>2, Zenon DEF States
  <2>4. state'.boot = boot /\ state'.class = state.class /\ state'.deadline = state.deadline /\ ~state'.allowed
    BY <1>1, <2>1, <2>2 DEF States
  <2>5. q \in Processes
    BY <1>1, Zenon DEF Processes
  <2>6. q.pc = "resetting"
    BY <1>1 DEF Processes
  <2>7. /\ granted' \in Grants /\ granted'.asked = now /\ granted'.count = 0
        /\ granted'.kind = "zero" /\ granted'.until = {state.deadline}
    BY <1>1, <1>4, <2>1 DEF Grants
  <2> HIDE DEF q
  <2>8. ProcInvariant(q, lock' = p, state', boot', granted')
    BY <1>1, <1>2, <2>1, <2>4, <2>6, <2>7 DEF ProcInvariant, Locking
  <2>9. FileInvariant(state', boot', granted', marker')
    BY <1>1, <1>2, <2>4, <2>7 DEF FileInvariant
  <2> QED
    BY <1>2, <1>3, <2>1, <2>3, <2>5, <2>7, <2>8, <2>9, BeforeStep, OneProcessChanges
<1>6. CASE ~saved
  <2> DEFINE q == [l EXCEPT !.allowed = FALSE, !.blocked = TRUE]
  <2>1. proc' = [proc EXCEPT ![p] = q] /\ UNCHANGED <<state, lock, granted>>
    BY <1>6 DEF Reset
  <2> HIDE DEF l
  <2>2. q \in Processes
    BY <1>1, Zenon DEF Processes
  <2>3. q.pc = "up"
    BY <1>1, <1>2 DEF Processes
  <2> HIDE DEF q
  <2>4. ProcInvariant(q, lock' = p, state', boot', granted')
    BY <1>3, <2>1, <2>3 DEF ProcInvariant, Locking
  <2> QED
    BY <1>2, <1>3, <2>1, <2>2, <2>4, BeforeStep, OneProcessChanges
<1> QED
  BY <1>5, <1>6

LEMMA FinishResetStep ==
  ASSUME ResetInvariant, NEW p \in Procs, NEW saved \in BOOLEAN, FinishReset(p, saved)
  PROVE  ResetInvariant'
<1> DEFINE o == proc[p]
           a == ResetUser(o.auth, saved)
           q == [o EXCEPT !.pc = "up", !.auth = a]
<1>1. /\ o \in Processes /\ ProcInvariant(o, lock = p, state, boot, granted)
      /\ FileInvariant(state, boot, granted, marker) /\ granted \in Grants
      /\ o.pc = "resetting" /\ UNCHANGED <<boot, now, marker, state, accounts>>
      /\ lock' = NoProc /\ stored' = (IF saved THEN NoUser ELSE stored) /\ stored \in Nat
      /\ granted' = IF saved THEN [granted EXCEPT !.count = @ + 1] ELSE granted
      /\ proc' = [proc EXCEPT ![p] = q]
  BY BeforeStep DEF FinishReset, ResetInvariant, TypeOK
<1> HIDE DEF o
<1>2. o.auth \in [loaded : BOOLEAN, user : Nat, sessions : SUBSET Nat]
  BY <1>1 DEF Processes
<1>3. a \in [loaded : BOOLEAN, user : Nat, sessions : SUBSET Nat] /\ stored' \in Nat
  BY <1>1, <1>2 DEF ResetUser, NoUser
<1> HIDE DEF a
<1>4. q \in Processes /\ q.pc = "up"
  BY <1>1, <1>3 DEF Processes
<1> HIDE DEF q
<1>5. lock = p /\ \A d \in Procs : lock' # d
  BY <1>1, ResetAssumption DEF ProcInvariant, Locking
<1>6. /\ granted' \in Grants /\ granted'.count \in {0, 1} /\ granted'.asked = granted.asked
      /\ granted'.kind = granted.kind /\ granted'.until = granted.until
  BY <1>1 DEF ProcInvariant, Grants
<1>7. ProcInvariant(q, lock' = p, state', boot', granted')
  BY <1>4, <1>5 DEF ProcInvariant, Locking
<1>8. FileInvariant(state', boot', granted', marker')
  BY <1>1, <1>6 DEF FileInvariant, ProcInvariant
<1> QED
  BY <1>1, <1>3, <1>4, <1>5, <1>6, <1>7, <1>8, BeforeStep, OneProcessChanges

LEMMA SetUpStep ==
  ASSUME ResetInvariant, NEW p \in Procs, SetUp(p)
  PROVE  ResetInvariant'
<1> DEFINE o == proc[p]
           a == CreateUser(o.auth, accounts + 1, TRUE)
           q == [o EXCEPT !.auth = a]
<1>1. /\ o \in Processes /\ o.pc = "up" /\ lock # p /\ accounts \in Nat
      /\ UNCHANGED <<boot, now, marker, state, lock, granted>>
      /\ accounts' = accounts + 1 /\ stored' = accounts + 1
      /\ proc' = [proc EXCEPT ![p] = q]
  BY BeforeStep DEF SetUp, ProcInvariant, Locking, ResetInvariant, TypeOK
<1> HIDE DEF o
<1>2. o.auth \in [loaded : BOOLEAN, user : Nat, sessions : SUBSET Nat]
  BY <1>1 DEF Processes
<1>3. a \in [loaded : BOOLEAN, user : Nat, sessions : SUBSET Nat]
  BY <1>1, <1>2 DEF CreateUser
<1> HIDE DEF a
<1>4. q \in Processes /\ q.pc = "up"
  BY <1>1, <1>3 DEF Processes
<1> HIDE DEF q
<1>5. accounts + 1 \in Nat
  BY <1>1
<1>6. ProcInvariant(q, lock' = p, state', boot', granted')
  BY <1>1, <1>4 DEF ProcInvariant, Locking
<1> QED
  BY <1>1, <1>4, <1>5, <1>6, BeforeStep, OneProcessChanges

-----------------------------------------------------------------------------
(* The process, the clock and the device *)

LEMMA ServerEndsStep ==
  ASSUME ResetInvariant, NEW p \in Procs, ServerEnds(p)
  PROVE  ResetInvariant'
<1>1. /\ proc' = [proc EXCEPT ![p] = Off] /\ lock' = (IF lock = p THEN NoProc ELSE lock)
      /\ UNCHANGED <<boot, now, marker, state, stored, accounts, granted>>
  BY DEF ServerEnds
<1>2. Off.pc = "off"
  BY DEF Off
<1>3. lock' # p /\ \A d \in Procs \ {p} : lock' = d <=> lock = d
  BY <1>1, ResetAssumption
<1>4. ProcInvariant(Off, lock' = p, state', boot', granted')
  BY <1>2, <1>3 DEF ProcInvariant, Locking
<1> QED
  BY <1>1, <1>3, <1>4, OffType, BeforeStep, OneProcessChanges

(* A new boot has recorded nothing, whatever a file of an earlier one says. *)
LEMMA BootStep ==
  ASSUME ResetInvariant, NEW kind \in {"power", "orderly", "unclean"}, NEW kept \in BOOLEAN,
         Reboot(kind, kept)
  PROVE  ResetInvariant'
<1>1. /\ boot' = boot + 1 /\ now' = 0 /\ lock' = NoProc /\ UNCHANGED <<stored, accounts>>
      /\ marker' \in Markers /\ granted' = NothingGranted(marker')
      /\ proc' = [p \in Procs |-> Off]
      /\ state' = IF kept THEN state ELSE NoState
  BY DEF Reboot, Markers, ResetInvariant, TypeOK
<1>2. boot \in Nat /\ state \in States /\ state.boot <= boot
  BY InParts DEF TypeOK, FileInvariant
<1>3. NoState \in States /\ NoState.boot = 0
  BY DEF NoState, States
<1>4. state' \in States /\ state'.boot < boot'
  BY <1>1, <1>2, <1>3 DEF States
<1>5. /\ granted' \in Grants /\ granted'.kind = marker' /\ granted'.until = {} /\ granted'.count = 0
  BY <1>1 DEF NothingGranted, Grants
<1>6. TypeOK'
  BY <1>1, <1>2, <1>4, <1>5, OffType DEF ResetInvariant, TypeOK, Grants
<1>7. Off.pc = "off" /\ \A p \in Procs : lock' # p /\ proc'[p] = Off
  BY <1>1, ResetAssumption DEF Off
<1>8. ProcsInvariant'
  BY <1>7 DEF ProcsInvariant, ProcInvariant, Locking
<1>9. FileInvariant(state', boot', granted', marker')
  BY <1>1, <1>2, <1>4, <1>5 DEF FileInvariant, States
<1> QED
  BY <1>6, <1>8, <1>9, InParts

LEMMA ResetInvariantInit ==
  ASSUME Init
  PROVE  ResetInvariant
<1>1. /\ boot = 1 /\ now = 0 /\ marker \in Markers /\ state = NoState /\ lock = NoProc
      /\ proc = [p \in Procs |-> Off] /\ granted = NothingGranted(marker)
  BY DEF Init
<1>2. stored \in {0, 1} /\ accounts = stored
  BY Zenon DEF Init, NoUser
<1>3. NoState \in States /\ NoState.boot = 0
  BY DEF NoState, States
<1>4. granted \in Grants /\ granted.kind = marker /\ granted.until = {} /\ granted.count = 0
  BY <1>1 DEF NothingGranted, Grants
<1>5. stored \in Nat
  BY <1>2
<1>6. TypeOK
  BY <1>1, <1>2, <1>3, <1>4, <1>5, OffType DEF TypeOK, Grants
<1>7. Off.pc = "off" /\ \A p \in Procs : lock # p /\ proc[p] = Off
  BY <1>1, ResetAssumption DEF Off
<1>8. ProcsInvariant
  BY <1>7 DEF ProcsInvariant, ProcInvariant, Locking
<1>9. FileInvariant(state, boot, granted, marker)
  BY <1>1, <1>3, <1>4 DEF FileInvariant
<1> QED
  BY <1>6, <1>8, <1>9, InParts

LEMMA ResetInvariantStep ==
  ASSUME ResetInvariant, [Next]_vars
  PROVE  ResetInvariant'
<1>1. CASE UNCHANGED vars \/ Tick
  <2>1. now' \in Nat /\ UNCHANGED <<boot, marker, state, lock, proc, stored, accounts, granted>>
    BY <1>1 DEF Tick, vars, ResetInvariant, TypeOK
  <2>2. TypeOK' /\ ProcsInvariant' /\ FileInvariant(state', boot', granted', marker')
    BY <2>1, InParts DEF TypeOK, ProcsInvariant
  <2> QED
    BY <2>2, InParts
<1>2. CASE \E kind \in {"power", "orderly", "unclean"}, kept \in BOOLEAN : Reboot(kind, kept)
  BY <1>2, BootStep
<1>3. ASSUME NEW p \in Procs,
             \/ \E window \in {0, Window} : StartServer(p, window)
             \/ InitializeLocked(p)
             \/ \E usable \in BOOLEAN : InitializeDenied(p, usable)
             \/ Status(p) \/ SetUp(p) \/ ServerEnds(p)
      PROVE  ResetInvariant'
  BY <1>3, StartServerStep, InitializeStep, InitializeDeniedStep, StatusStep, SetUpStep, ServerEndsStep
<1>4. ASSUME NEW p \in Procs, NEW done \in BOOLEAN,
             \/ Record(p, done) \/ ClearMarker(p, done) \/ RecordCleared(p, done)
             \/ Reset(p, done) \/ FinishReset(p, done)
      PROVE  ResetInvariant'
  BY <1>4, RecordStep, ClearMarkerStep, RecordClearedStep, ResetStep, FinishResetStep
<1> QED
  BY <1>1, <1>2, <1>3, <1>4 DEF Next

-----------------------------------------------------------------------------
(* The theorems *)

(* ResetInvariant holds in every reachable state: it is inductive.          *)
THEOREM ResetInvariantHolds == Spec => []ResetInvariant
<1>1. Init => ResetInvariant
  BY ResetInvariantInit
<1>2. ResetInvariant /\ [Next]_vars => ResetInvariant'
  BY ResetInvariantStep
<1> QED
  BY <1>1, <1>2, PTL DEF Spec

(* An account is removed at most once a boot, after a cold start, in time,  *)
(* whichever of the processes crash, and where.                             *)
THEOREM ResetOnlyAsGrantedHolds == Spec => []ResetOnlyAsGranted
<1>1. ResetInvariant => ResetOnlyAsGranted
  <2> SUFFICES ASSUME ResetInvariant, granted.count > 0
               PROVE  /\ granted.kind = "zero"
                      /\ \E until \in granted.until : granted.asked < until
                      /\ granted.count = 1
                      /\ state.boot = boot /\ ~state.allowed
    BY DEF ResetOnlyAsGranted
  <2>1. FileInvariant(state, boot, granted, marker) /\ granted \in Grants
    BY BeforeStep, InParts DEF TypeOK, Grants
  <2> QED
    BY <2>1 DEF FileInvariant, Grants
<1> QED
  BY <1>1, ResetInvariantHolds, PTL

(* What is recorded in a boot stays, and no allowance comes back.           *)
THEOREM NeverReopensHolds == Spec => NeverReopens
<1> DEFINE Kept == boot' = boot /\ state.boot = boot =>
                     /\ state'.boot = boot /\ state'.class = state.class
                     /\ state'.deadline = state.deadline
                     /\ state'.allowed => state.allowed
<1>1. ASSUME ResetInvariant, [Next]_vars
      PROVE  Kept
  <2> SUFFICES ASSUME boot' = boot, state.boot = boot
               PROVE  /\ state'.boot = boot /\ state'.class = state.class
                      /\ state'.deadline = state.deadline
                      /\ state'.allowed => state.allowed
    OBVIOUS
  <2>1. ASSUME NEW p \in Procs, NEW done \in BOOLEAN, Record(p, done) \/ RecordCleared(p, done)
        PROVE  Kept
    <3>1. /\ proc[p] \in Processes /\ ProcInvariant(proc[p], lock = p, state, boot, granted)
          /\ boot \in Nat
      BY BeforeStep, <1>1
    <3>2. proc[p].pc \in {"recording", "saving"} /\ state' \in {state, StateOf(proc[p])}
      BY <2>1 DEF Record, RecordCleared
    <3> QED
      BY <3>1, <3>2, StateOfType DEF ProcInvariant
  <2>2. ASSUME NEW p \in Procs, NEW done \in BOOLEAN, Reset(p, done)
        PROVE  Kept
    <3> DEFINE l == Loaded(proc[p])
    <3>1. /\ l \in Processes /\ l.class = state.class /\ l.deadline = state.deadline
          /\ boot \in Nat
      BY <1>1, BeforeStep, LoadedType
    <3>2. state' = state \/ state' = [StateOf(l) EXCEPT !.allowed = FALSE]
      BY <2>2 DEF Reset
    <3> HIDE DEF l
    <3>3. /\ StateOf(l) \in States /\ StateOf(l).boot = boot
          /\ StateOf(l).class = l.class /\ StateOf(l).deadline = l.deadline
      BY <3>1, StateOfType
    <3> QED
      BY <3>1, <3>2, <3>3 DEF States
  <2>3. CASE UNCHANGED state
    BY <2>3
  <2>4. CASE \E kind \in {"power", "orderly", "unclean"}, kept \in BOOLEAN : Reboot(kind, kept)
    BY <1>1, <2>4 DEF Reboot, ResetInvariant, TypeOK
  <2> QED
    BY <1>1, <2>1, <2>2, <2>3, <2>4
    DEF Next, vars, Tick, StartServer, InitializeLocked, InitializeDenied, ClearMarker, FinishReset,
        Status, SetUp, ServerEnds
<1>2. ResetInvariant /\ [Next]_vars => [Kept]_vars
  BY <1>1
<1> QED
  BY <1>2, ResetInvariantHolds, PTL DEF Spec, NeverReopens
=============================================================================
