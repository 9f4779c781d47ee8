------------------------------ MODULE PlanLock ------------------------------
(***************************************************************************)
(* The lock that keeps plan commands apart (Applier.session() of           *)
(* dbspec/apply.ts).                                                       *)
(*                                                                         *)
(* On MySQL and PostgreSQL the lock and the lock wait settings belong to a *)
(* server session; a session that holds the lock takes it again.  A        *)
(* command is a sequence of statements, and a statement runs in the        *)
(* session its connection has at that moment: always the same one on a     *)
(* direct connection, any one behind a transaction pooler (ServerSpec).    *)
(*                                                                         *)
(* On SQLite (sqliteSession()) the command takes the exclusive lock of the *)
(* file and keeps it between its statements through the exclusive locking  *)
(* mode.  Other connections use the file whenever the lock allows          *)
(* (FileSpec).                                                             *)
(***************************************************************************)
EXTENDS Integers, Sequences, TLAPS

CONSTANTS
  Clients,      \* each runs one command after another on a server
  Sessions,     \* the server sessions
  Home,         \* the session of each client's connection
  Pooled,       \* a transaction pooler picks a session for each statement
  MaxHeld,      \* bound on how often one session takes the lock again
  Connections,  \* those of a SQLite file
  Found,        \* the pragma values a caller's connection can have
  NoOwner       \* no session or connection

VARIABLES
  owner,      \* the session or connection that holds the lock, or NoOwner
  pc,         \* where each command is
  saved,      \* the setting or the pragmas it has read
  code        \* the failure it reports, "ok" for none

\* On a server.
VARIABLES
  held,       \* how often the owner has taken the lock
  setting,    \* the lock wait setting of each session
  server,     \* serverSession: the session the command started in
  previous    \* previous !== null: it has changed the setting

\* On a file.
VARIABLES
  pragma,     \* the pragmas of each connection
  using,      \* the connections in a transaction of the application
  k,          \* the next of the command's ends
  locked      \* another connection held the file

serverOnly == <<held, setting, server, previous>>
fileOnly == <<pragma, using, k, locked>>
serverVars == <<owner, pc, saved, code, serverOnly>>
fileVars == <<owner, pc, saved, code, fileOnly>>

\* The connections are the callers' own: no two share a session.
ASSUME HomeAssumption ==
  /\ Home \in [Clients -> Sessions]
  /\ \A c, d \in Clients : Home[c] = Home[d] => c = d
  /\ NoOwner \notin Sessions
  /\ MaxHeld \in Nat \ {0}

Goto(c, l) == pc' = [pc EXCEPT ![c] = l]

Report(c, e) == code' = [code EXCEPT ![c] = e]

\* finish(): every end runs, whatever failed before it.
CleanupError(c) == Report(c, IF code[c] = "ok" THEN "cleanup" ELSE "aggregate")

-----------------------------------------------------------------------------
(* The lock of a server.                                                   *)

\* The sessions in which the next statement of a client can run.
Route(c) == IF Pooled THEN Sessions ELSE {Home[c]}

Labels == {"idle", "lock", "read", "set", "work", "exec", "mark", "restore", "release"}

Codes == {"ok", "session", "locked", "failed", "lost", "cleanup", "aggregate"}

ServerInit ==
  /\ owner = NoOwner
  /\ held = 0
  /\ setting = [s \in Sessions |-> "caller"]
  /\ pc = [c \in Clients |-> "idle"]
  /\ server = [c \in Clients |-> NoOwner]
  /\ saved = [c \in Clients |-> "caller"]
  /\ previous = [c \in Clients |-> FALSE]
  /\ code = [c \in Clients |-> "ok"]

\* openSession(): a session that already holds the lock is shared.
Open(c, s) ==
  /\ pc[c] = "idle"
  /\ server' = [server EXCEPT ![c] = s]
  /\ previous' = [previous EXCEPT ![c] = FALSE]
  /\ IF owner = s THEN Goto(c, "idle") /\ Report(c, "session")
                  ELSE Goto(c, "lock") /\ Report(c, "ok")
  /\ UNCHANGED <<owner, held, setting, saved>>

\* A faulty lock statement whose refusal is not looked at.
LockUnseen(c, s) ==
  /\ pc[c] = "lock"
  /\ owner' = IF owner = NoOwner THEN s ELSE owner
  /\ held' = 1
  /\ Goto(c, "read")
  /\ UNCHANGED <<setting, server, saved, previous, code>>

\* GET_LOCK or pg_try_advisory_lock, and the session it ran in.
Lock(c, s) ==
  /\ pc[c] = "lock"
  /\ IF owner \notin {NoOwner, s}
     THEN Goto(c, "idle") /\ Report(c, "locked") /\ UNCHANGED <<owner, held>>
     ELSE /\ held < MaxHeld
          /\ owner' = s
          /\ held' = held + 1
          /\ IF s = server[c] THEN Goto(c, "read") /\ UNCHANGED code
                              ELSE Goto(c, "restore") /\ Report(c, "session")
  /\ UNCHANGED <<setting, server, saved, previous>>

ReadSetting(c, s) ==
  /\ pc[c] = "read"
  /\ saved' = [saved EXCEPT ![c] = setting[s]]
  /\ Goto(c, "set")
  /\ UNCHANGED <<owner, held, setting, server, previous, code>>

SetSetting(c, s) ==
  /\ pc[c] = "set"
  /\ setting' = [setting EXCEPT ![s] = "command"]
  /\ previous' = [previous EXCEPT ![c] = TRUE]
  /\ Goto(c, "work")
  /\ UNCHANGED <<owner, held, server, saved, code>>

\* run(): the session is read again before the statement of a step.
Check(c, s) ==
  /\ pc[c] = "work"
  /\ IF s = server[c] THEN Goto(c, "exec") /\ UNCHANGED code
                      ELSE Goto(c, "restore") /\ Report(c, "session")
  /\ UNCHANGED <<owner, held, setting, server, saved, previous>>

\* The statement of the step, and setStep(); their effect is in PlanApply.
Exec(c, s) ==
  /\ pc[c] = "exec"
  /\ Goto(c, "mark")
  /\ UNCHANGED <<owner, held, setting, server, saved, previous, code>>

Mark(c, s) ==
  /\ pc[c] = "mark"
  /\ Goto(c, "work")
  /\ UNCHANGED <<owner, held, setting, server, saved, previous, code>>

\* The body of the command ends.
Leave(c) ==
  /\ pc[c] = "work"
  /\ Goto(c, "restore")
  /\ UNCHANGED <<owner, held, setting, server, saved, previous, code>>

\* A statement of the body fails, or the event handler throws.
Fail(c) ==
  /\ pc[c] \in {"read", "set", "work", "exec", "mark"}
  /\ Goto(c, "restore")
  /\ Report(c, "failed")
  /\ UNCHANGED <<owner, held, setting, server, saved, previous>>

\* A faulty finish() that stops at the first failing end.
RestoreOrStop(c, s) ==
  /\ pc[c] = "restore"
  /\ \/ /\ Goto(c, "release")
        /\ setting' = IF previous[c] THEN [setting EXCEPT ![s] = saved[c]] ELSE setting
        /\ UNCHANGED code
     \/ /\ previous[c]
        /\ CleanupError(c)
        /\ Goto(c, "idle")
        /\ UNCHANGED setting
  /\ UNCHANGED <<owner, held, server, saved, previous>>

\* A faulty end that does not restore the setting.
RestoreNothing(c, s) ==
  /\ pc[c] = "restore"
  /\ Goto(c, "release")
  /\ UNCHANGED <<owner, held, setting, server, saved, previous, code>>

Restore(c, s) ==
  /\ pc[c] = "restore"
  /\ Goto(c, "release")
  /\ \/ /\ setting' = IF previous[c] THEN [setting EXCEPT ![s] = saved[c]] ELSE setting
        /\ UNCHANGED code
     \/ previous[c] /\ CleanupError(c) /\ UNCHANGED setting
  /\ UNCHANGED <<owner, held, server, saved, previous>>

\* RELEASE_LOCK or pg_advisory_unlock.  An unlock that released nothing is a
\* failure of pg_advisory_unlock; the result of DO RELEASE_LOCK is not looked
\* at.  An unlock that cannot be sent is a lost session (Disconnect).
Release(c, s) ==
  /\ pc[c] = "release"
  /\ Goto(c, "idle")
  /\ IF owner = s
     THEN /\ held' = held - 1
          /\ owner' = IF held = 1 THEN NoOwner ELSE owner
          /\ UNCHANGED code
     ELSE (CleanupError(c) \/ UNCHANGED code) /\ UNCHANGED <<owner, held>>
  /\ UNCHANGED <<setting, server, saved, previous>>

\* The client is gone.  Its session goes with a direct connection; a pooler
\* keeps the session, with the lock and the setting it has.
Disconnect(c) ==
  /\ pc[c] # "idle"
  /\ Goto(c, "idle")
  /\ Report(c, "lost")
  /\ IF Pooled
     THEN UNCHANGED <<owner, held, setting>>
     ELSE /\ owner' = IF owner = Home[c] THEN NoOwner ELSE owner
          /\ held' = IF owner = Home[c] THEN 0 ELSE held
          /\ setting' = [setting EXCEPT ![Home[c]] = "caller"]
  /\ UNCHANGED <<server, saved, previous>>

Statement(c, s) ==
  \/ Open(c, s) \/ Lock(c, s) \/ ReadSetting(c, s) \/ SetSetting(c, s) \/ Check(c, s)
  \/ Exec(c, s) \/ Mark(c, s) \/ Restore(c, s) \/ Release(c, s)

ServerNext ==
  \E c \in Clients :
    \/ \E s \in Route(c) : Statement(c, s)
    \/ Leave(c)
    \/ Fail(c)
    \/ Disconnect(c)

ServerSpec == ServerInit /\ [][ServerNext]_serverVars

-----------------------------------------------------------------------------
(* The lock of a file.                                                     *)

Pragmas == [foreign_keys : {0, 1}, legacy_alter_table : {0, 1}, busy_timeout : Nat,
            locking_mode : {"normal", "exclusive"}]

ASSUME FoundAssumption == Found \subseteq Pragmas

ASSUME OwnerAssumption == NoOwner \notin Connections

\* The wait of a command, in milliseconds (LOCK_WAIT_SECONDS).
LockWait == 5000

\* The cleanup that finish() runs in order, whatever fails.
Ends == <<"nowait", "foreign_keys", "legacy_alter_table", "locking_mode", "read", "busy_timeout">>

FileInit ==
  /\ pragma \in [Connections -> Found]
  /\ saved = pragma
  /\ owner = NoOwner
  /\ using = {}
  /\ pc = [c \in Connections |-> "idle"]
  /\ k = [c \in Connections |-> 1]
  /\ locked = [c \in Connections |-> FALSE]
  /\ code = [c \in Connections |-> "ok"]

\* A connection that is not in exclusive locking mode keeps the lock no longer
\* than its transaction.
Free(c) == owner \in {NoOwner, c} /\ using \subseteq {c}

\* The pragmas are read, and the locking mode and the wait are set.  A caller
\* does not use a connection again whose cleanup has failed.
OpenFile(c) ==
  /\ pc[c] = "idle"
  /\ pragma[c] \in Found
  /\ c \notin using
  /\ saved' = [saved EXCEPT ![c] = pragma[c]]
  /\ pragma' = [pragma EXCEPT ![c].busy_timeout = LockWait, ![c].locking_mode = "exclusive"]
  /\ Goto(c, "begin")
  /\ Report(c, "ok")
  /\ UNCHANGED <<owner, using, k, locked>>

\* A faulty command that goes on after a lock result of BEGIN EXCLUSIVE.
BeginAnyway(c) ==
  /\ pc[c] = "begin"
  /\ owner' = IF Free(c) THEN c ELSE owner
  /\ Goto(c, "off")
  /\ UNCHANGED <<pragma, saved, using, k, locked, code>>

\* BEGIN EXCLUSIVE and COMMIT: the lock stays with the exclusive locking mode.
Begin(c) ==
  /\ pc[c] = "begin"
  /\ IF Free(c)
     THEN owner' = c /\ Goto(c, "off") /\ UNCHANGED <<locked, code>>
     ELSE /\ locked' = [locked EXCEPT ![c] = TRUE]
          /\ Goto(c, "ends")
          /\ Report(c, "locked")
          /\ UNCHANGED owner
  /\ UNCHANGED <<pragma, saved, using, k>>

Off(c) ==
  /\ pc[c] = "off"
  /\ pragma' = [pragma EXCEPT ![c].foreign_keys = 0, ![c].legacy_alter_table = 0]
  /\ Goto(c, "work")
  /\ UNCHANGED <<saved, owner, using, k, locked, code>>

\* The command returns or fails; also a statement before it may fail.
LeaveFile(c) ==
  /\ pc[c] \in {"begin", "off", "work"}
  /\ \/ pc[c] = "work" /\ UNCHANGED code
     \/ Report(c, "failed")
  /\ Goto(c, "ends")
  /\ UNCHANGED <<pragma, saved, owner, using, k, locked>>

\* One end that sets a pragma back.
Reset(c, p) ==
  /\ pragma' = [pragma EXCEPT ![c][p] = saved[c][p]]
  /\ UNCHANGED <<owner, code>>

\* The read after the locking mode is back: in normal mode it lets the lock
\* go; a lock result is no failure when the command did not get the lock.
ReleaseRead(c) ==
  /\ IF Free(c)
     THEN /\ owner' = IF owner = c /\ pragma[c].locking_mode = "normal" THEN NoOwner ELSE owner
          /\ UNCHANGED code
     ELSE /\ IF locked[c] THEN UNCHANGED code ELSE CleanupError(c)
          /\ UNCHANGED owner
  /\ UNCHANGED pragma

\* A faulty order: the read comes before the locking mode is back.
EndsReadFirst(c) ==
  /\ pc[c] = "ends"
  /\ k[c] <= Len(Ends)
  /\ CASE Ends[k[c]] = "nowait" -> UNCHANGED <<pragma, owner, code>>
       [] Ends[k[c]] = "locking_mode" -> ReleaseRead(c)
       [] Ends[k[c]] = "read" -> Reset(c, "locking_mode")
       [] OTHER -> Reset(c, Ends[k[c]])
  /\ k' = [k EXCEPT ![c] = @ + 1]
  /\ UNCHANGED <<saved, using, pc, locked>>

\* A faulty finish() that leaves the rest out after a failure of the command.
EndsOnSuccess(c) ==
  /\ pc[c] = "ends"
  /\ k[c] <= Len(Ends)
  /\ IF code[c] = "failed" /\ Ends[k[c]] = "foreign_keys" THEN UNCHANGED <<pragma, owner, code>>
     ELSE CASE Ends[k[c]] = "nowait" -> UNCHANGED <<pragma, owner, code>>
            [] Ends[k[c]] = "read" -> ReleaseRead(c)
            [] OTHER -> Reset(c, Ends[k[c]])
  /\ k' = [k EXCEPT ![c] = @ + 1]
  /\ UNCHANGED <<saved, using, pc, locked>>

\* The next end of finish(); it may fail, and the others still run.
End(c) ==
  /\ pc[c] = "ends"
  /\ k[c] <= Len(Ends)
  /\ LET e == Ends[k[c]]
     IN  \/ e = "nowait" /\ ~locked[c] /\ UNCHANGED <<pragma, owner, code>>
         \/ /\ e = "nowait" /\ locked[c]
            /\ pragma' = [pragma EXCEPT ![c].busy_timeout = 0]
            /\ UNCHANGED <<owner, code>>
         \/ e = "read" /\ ReleaseRead(c)
         \/ e \notin {"nowait", "read"} /\ Reset(c, e)
         \/ /\ e = "nowait" => locked[c]
            /\ CleanupError(c)
            /\ UNCHANGED <<pragma, owner>>
  /\ k' = [k EXCEPT ![c] = @ + 1]
  /\ UNCHANGED <<saved, using, pc, locked>>

\* What the command knew goes with it.
Forget(c) ==
  /\ Goto(c, "idle")
  /\ saved' = [saved EXCEPT ![c] = pragma'[c]]
  /\ k' = [k EXCEPT ![c] = 1]
  /\ locked' = [locked EXCEPT ![c] = FALSE]
  /\ Report(c, "ok")

Finish(c) ==
  /\ pc[c] = "ends"
  /\ k[c] > Len(Ends)
  /\ UNCHANGED <<pragma, owner, using>>
  /\ Forget(c)

\* The connection closes: its lock goes, and the caller opens another one.
CloseFile(c) ==
  /\ owner' = IF owner = c THEN NoOwner ELSE owner
  /\ \E f \in Found : pragma' = [pragma EXCEPT ![c] = f]
  /\ using' = using \ {c}
  /\ Forget(c)

\* The application reads or writes the file through a connection in normal
\* locking mode.
Use(c) ==
  /\ pc[c] = "idle"
  /\ pragma[c].locking_mode = "normal"
  /\ owner \in {NoOwner, c}
  /\ using' = using \cup {c}
  /\ UNCHANGED <<pragma, saved, owner, pc, k, locked, code>>

EndUse(c) ==
  /\ c \in using
  /\ using' = using \ {c}
  /\ UNCHANGED <<pragma, saved, owner, pc, k, locked, code>>

FileNext ==
  \E c \in Connections :
    \/ OpenFile(c) \/ Begin(c) \/ Off(c) \/ LeaveFile(c) \/ End(c) \/ Finish(c)
    \/ CloseFile(c) \/ Use(c) \/ EndUse(c)

FileSpec == FileInit /\ [][FileNext]_fileVars

-----------------------------------------------------------------------------
(* Properties.                                                             *)

\* Types of the lock, the settings and each command of session(): the lock has
\* one owner and is released as often as it was taken.
ServerTypeOK ==
  /\ owner \in Sessions \cup {NoOwner}
  /\ held \in 0 .. MaxHeld
  /\ setting \in [Sessions -> {"caller", "command"}]
  /\ pc \in [Clients -> Labels]
  /\ server \in [Clients -> Sessions \cup {NoOwner}]
  /\ saved \in [Clients -> {"caller", "command"}]
  /\ previous \in [Clients -> BOOLEAN]
  /\ code \in [Clients -> Codes]

\* Behind the lock, up to its release.
Behind == {"read", "set", "work", "exec", "mark", "restore", "release"}

\* docs/spec/plans.md:119: the command "stops with a `session` error instead of
\* running without the lock": no two commands run the statements of their
\* steps at the same time.
OneCommand ==
  \A c, d \in Clients : pc[c] \in {"work", "exec", "mark"} /\ pc[d] \in {"work", "exec", "mark"} => c = d

\* However a command ends, finish() gives the lock back: a client without a
\* running command holds nothing, and the next command finds it free.
LockReleased == \A c \in Clients : pc[c] = "idle" => owner # Home[c]

\* A command that changed the lock wait setting and reports no cleanup error
\* leaves the caller's session with the setting that it found.
SettingRestored ==
  [][\A c \in Clients :
       pc[c] = "release" /\ pc'[c] = "idle" /\ previous[c] =>
         \/ code'[c] \in {"lost", "cleanup", "aggregate"}
         \/ setting'[Home[c]] = saved[c]]_serverVars

\* finish() gives back what session() took: the lock, however the command ended,
\* and the caller's lock wait setting.
CommandGivesBack == []LockReleased /\ SettingRestored

\* On direct connections the command behind the lock is the one whose session
\* holds it, once.
HolderBehind ==
  /\ \A c \in Clients : pc[c] \in Behind <=> owner = Home[c]
  /\ owner # NoOwner => held = 1 /\ \E c \in Clients : owner = Home[c]
  /\ owner = NoOwner => held = 0
  /\ \A c \in Clients : pc[c] # "idle" => server[c] = Home[c]

\* On direct connections what a command has found is either in place again
\* when it releases the lock, or the failure to restore it is reported.
SettingKept ==
  \A c \in Clients :
    pc[c] = "release" /\ previous[c] =>
      code[c] \in {"cleanup", "aggregate"} \/ setting[Home[c]] = saved[c]

\* Types of the pragmas and each command of sqliteSession(): the pragmas that
\* are saved are the ones that are set back, value by value.
FileTypeOK ==
  /\ pragma \in [Connections -> Pragmas]
  /\ saved \in [Connections -> Pragmas]
  /\ owner \in Connections \cup {NoOwner}
  /\ using \subseteq Connections
  /\ pc \in [Connections -> {"idle", "begin", "off", "work", "ends"}]
  /\ k \in [Connections -> 1 .. Len(Ends) + 1]
  /\ locked \in [Connections -> BOOLEAN]
  /\ code \in [Connections -> {"ok", "locked", "failed", "cleanup", "aggregate"}]

\* While a command runs its steps, its connection holds the file, no other
\* connection reads or writes it, and foreign keys are off: a table can be
\* rebuilt without anyone seeing it half done.
Alone ==
  \A c \in Connections : pc[c] = "work" =>
    /\ owner = c
    /\ using = {}
    /\ pragma[c].foreign_keys = 0

\* A command without cleanup errors leaves the connection with the pragmas it
\* had, also when the lock was taken or a statement failed in between.
PragmasRestoredStep ==
  \A c \in Connections : Finish(c) /\ code[c] \notin {"cleanup", "aggregate"} => pragma[c] = saved[c]
PragmasRestored == [][PragmasRestoredStep]_fileVars

\* A command without cleanup errors on a connection in normal locking mode lets
\* other connections use the file again.
FileReleasedStep ==
  \A c \in Connections :
    Finish(c) /\ code[c] \notin {"cleanup", "aggregate"} /\ saved[c].locking_mode = "normal" => owner # c
FileReleased == [][FileReleasedStep]_fileVars

\* finish() gives back what sqliteSession() took: the caller's pragmas and the file.
GivesBack == PragmasRestored /\ FileReleased

-----------------------------------------------------------------------------
(* Proofs.  On direct connections the lock keeps commands apart, for any   *)
(* number of clients and sessions.  The inductive invariant is             *)
(* HolderBehind: the commands behind the lock and the session that holds   *)
(* it determine each other.  SettingKept is inductive beside it, because a *)
(* session is of one client.                                               *)

\* A statement of a direct connection runs in the client's own session.
LEMMA DirectRoute ==
  ASSUME ~Pooled, NEW c \in Clients, NEW s \in Route(c)
  PROVE  s = Home[c] /\ s \in Sessions /\ s # NoOwner
BY HomeAssumption DEF Route

\* At the start nobody holds the lock.
LEMMA InitHolder == ServerInit => ServerTypeOK /\ HolderBehind
BY HomeAssumption DEF ServerInit, ServerTypeOK, HolderBehind, Labels, Codes, Behind

\* Every statement of session() and run(), and every failure, keeps the types.
LEMMA ServerTypes ==
  ASSUME ~Pooled, ServerTypeOK, HolderBehind, [ServerNext]_serverVars
  PROVE  ServerTypeOK'
<1> USE HomeAssumption DEF ServerTypeOK, Labels, Codes, Goto, Report
<1>1. CASE UNCHANGED serverVars
  BY <1>1 DEF serverVars, serverOnly
<1>2. ASSUME NEW c \in Clients, NEW s \in Route(c), Statement(c, s)
      PROVE  ServerTypeOK'
  <2> s = Home[c] /\ s \in Sessions /\ s # NoOwner
    BY DirectRoute
  <2>1. CASE Open(c, s)
    BY <2>1 DEF Open
  <2>2. CASE Lock(c, s)
    <3>1. UNCHANGED <<setting, server, saved, previous>> /\ pc' \in [Clients -> Labels]
      BY <2>2 DEF Lock
    <3>2. owner' \in Sessions \cup {NoOwner} /\ held' \in 0 .. MaxHeld
      BY <2>2 DEF Lock
    <3>3. code' \in [Clients -> Codes]
      BY <2>2 DEF Lock
    <3> QED BY <3>1, <3>2, <3>3
  <2>3. CASE ReadSetting(c, s) \/ SetSetting(c, s)
    <3>1. /\ UNCHANGED <<owner, held, server, code>>
          /\ pc' \in [Clients -> Labels]
      BY <2>3 DEF ReadSetting, SetSetting
    <3>2. /\ setting' \in [Sessions -> {"caller", "command"}]
          /\ previous' \in [Clients -> BOOLEAN]
      BY <2>3 DEF ReadSetting, SetSetting
    <3>3. saved' \in [Clients -> {"caller", "command"}]
      BY <2>3 DEF ReadSetting, SetSetting
    <3> QED BY <3>1, <3>2, <3>3
  <2>4. CASE Check(c, s) \/ Exec(c, s) \/ Mark(c, s)
    BY <2>4 DEF Check, Exec, Mark
  <2>5. CASE Restore(c, s)
    BY <2>5 DEF Restore, CleanupError
  <2>6. CASE Release(c, s)
    <3>1. owner = Home[c] /\ held = 1
      BY <2>6 DEF Release, HolderBehind, Behind
    <3> QED BY <2>6, <3>1 DEF Release
  <2> QED BY <1>2, <2>1, <2>2, <2>3, <2>4, <2>5, <2>6 DEF Statement
<1>3. ASSUME NEW c \in Clients, Leave(c) \/ Fail(c)
      PROVE  ServerTypeOK'
  BY <1>3 DEF Leave, Fail
<1>4. ASSUME NEW c \in Clients, Disconnect(c)
      PROVE  ServerTypeOK'
  BY <1>4 DEF Disconnect
<1> QED
  BY <1>1, <1>2, <1>3, <1>4 DEF ServerNext

\* The lock is taken only when it is free, by the session of the command that
\* gets behind it, and leaves with the command.
LEMMA NextHolder ==
  ASSUME ~Pooled, ServerTypeOK, HolderBehind, [ServerNext]_serverVars
  PROVE  HolderBehind'
<1> USE HomeAssumption DEF ServerTypeOK, HolderBehind, Behind, Goto
<1>1. CASE UNCHANGED serverVars
  BY <1>1 DEF serverVars, serverOnly
<1>2. ASSUME NEW c \in Clients, NEW s \in Route(c), Statement(c, s)
      PROVE  HolderBehind'
  <2> s = Home[c] /\ s \in Sessions /\ s # NoOwner
    BY DirectRoute
  <2>1. CASE Open(c, s)
    BY <2>1 DEF Open
  <2>2. CASE Lock(c, s)
    <3>1. CASE owner \notin {NoOwner, s}
      BY <2>2, <3>1 DEF Lock
    <3>2. CASE owner \in {NoOwner, s}
      <4>1. owner = NoOwner /\ held = 0
        BY <2>2, <3>2 DEF Lock
      <4>2. /\ owner' = s /\ held' = 1 /\ server' = server
            /\ pc' = [pc EXCEPT ![c] = "read"]
        BY <2>2, <3>2, <4>1 DEF Lock
      <4>3. \A d \in Clients : d # c => pc[d] \notin Behind /\ Home[d] # s
        BY <4>1
      <4>4. \A d \in Clients : pc'[d] \in Behind <=> owner' = Home[d]
        <5> SUFFICES ASSUME NEW d \in Clients
                     PROVE  pc'[d] \in Behind <=> owner' = Home[d]
          OBVIOUS
        <5>1. CASE d = c
          BY <4>2, <5>1
        <5>2. CASE d # c
          BY <4>2, <4>3, <5>2
        <5> QED BY <5>1, <5>2
      <4>5. \A d \in Clients : pc'[d] # "idle" => server'[d] = Home[d]
        BY <2>2, <4>2 DEF Lock
      <4> QED BY <4>2, <4>4, <4>5
    <3> QED BY <3>1, <3>2
  <2>3. CASE ReadSetting(c, s) \/ SetSetting(c, s)
    BY <2>3 DEF ReadSetting, SetSetting
  <2>4. CASE Check(c, s) \/ Exec(c, s) \/ Mark(c, s)
    BY <2>4 DEF Check, Exec, Mark
  <2>5. CASE Restore(c, s)
    BY <2>5 DEF Restore
  <2>6. CASE Release(c, s)
    <3>1. owner = Home[c] /\ held = 1
      BY <2>6 DEF Release
    <3>2. /\ owner' = NoOwner /\ held' = 0 /\ server' = server
          /\ pc' = [pc EXCEPT ![c] = "idle"]
      BY <2>6, <3>1 DEF Release
    <3>3. \A d \in Clients : d # c => pc[d] \notin Behind
      BY <3>1
    <3> QED BY <3>2, <3>3
  <2> QED BY <1>2, <2>1, <2>2, <2>3, <2>4, <2>5, <2>6 DEF Statement
<1>3. ASSUME NEW c \in Clients, Leave(c) \/ Fail(c)
      PROVE  HolderBehind'
  BY <1>3 DEF Leave, Fail
<1>4. ASSUME NEW c \in Clients, Disconnect(c)
      PROVE  HolderBehind'
  <2>1. CASE owner = Home[c]
    <3>1. \A d \in Clients : d # c => pc[d] \notin Behind
      BY <2>1
    <3> QED BY <1>4, <2>1, <3>1 DEF Disconnect
  <2>2. CASE owner # Home[c]
    BY <1>4, <2>2 DEF Disconnect
  <2> QED BY <2>1, <2>2
<1> QED
  BY <1>1, <1>2, <1>3, <1>4 DEF ServerNext

\* On direct connections at most one plan command runs its steps at a time.
THEOREM Exclusion ==
  ASSUME ~Pooled
  PROVE  ServerSpec => []OneCommand
<1>1. ServerTypeOK /\ HolderBehind /\ [ServerNext]_serverVars => (ServerTypeOK /\ HolderBehind)'
  BY ServerTypes, NextHolder
<1>2. ServerTypeOK /\ HolderBehind => OneCommand
  BY HomeAssumption DEF HolderBehind, OneCommand, Behind
<1> QED
  BY <1>1, <1>2, InitHolder, PTL DEF ServerSpec

\* On direct connections a client whose command has ended, in whatever way,
\* holds no lock.
THEOREM Released ==
  ASSUME ~Pooled
  PROVE  ServerSpec => []LockReleased
<1>1. ServerTypeOK /\ HolderBehind /\ [ServerNext]_serverVars => (ServerTypeOK /\ HolderBehind)'
  BY ServerTypes, NextHolder
<1>2. ServerTypeOK /\ HolderBehind => LockReleased
  BY DEF HolderBehind, LockReleased, Behind
<1> QED
  BY <1>1, <1>2, InitHolder, PTL DEF ServerSpec

\* On direct connections the lock has one owner, is released as often as it
\* was taken, and every command of session() keeps its types.
THEOREM LockTypes ==
  ASSUME ~Pooled
  PROVE  ServerSpec => []ServerTypeOK
<1>1. ServerTypeOK /\ HolderBehind /\ [ServerNext]_serverVars => (ServerTypeOK /\ HolderBehind)'
  BY ServerTypes, NextHolder
<1> QED
  BY <1>1, InitHolder, PTL DEF ServerSpec

\* Only the restoring end of the command writes the setting of its session
\* once the body is over.
LEMMA NextSetting ==
  ASSUME ~Pooled, ServerTypeOK, SettingKept, [ServerNext]_serverVars
  PROVE  SettingKept'
<1> USE HomeAssumption DEF ServerTypeOK, SettingKept, Goto, Report
<1>1. CASE UNCHANGED serverVars
  BY <1>1 DEF serverVars, serverOnly
<1>2. ASSUME NEW c \in Clients, NEW s \in Route(c), Statement(c, s)
      PROVE  SettingKept'
  <2> s = Home[c] /\ s \in Sessions /\ s # NoOwner
    BY DirectRoute
  <2>1. CASE Open(c, s)
    BY <2>1 DEF Open
  <2>2. CASE Lock(c, s)
    BY <2>2 DEF Lock
  <2>3. CASE ReadSetting(c, s)
    BY <2>3 DEF ReadSetting
  <2>4. CASE SetSetting(c, s)
    BY <2>4 DEF SetSetting
  <2>5. CASE Check(c, s) \/ Exec(c, s) \/ Mark(c, s)
    BY <2>5 DEF Check, Exec, Mark
  <2>6. CASE Restore(c, s)
    <3> SUFFICES ASSUME NEW d \in Clients, pc'[d] = "release", previous'[d]
                 PROVE  code'[d] \in {"cleanup", "aggregate"} \/ setting'[Home[d]] = saved'[d]
      OBVIOUS
    <3>1. CASE d = c
      BY <2>6, <3>1 DEF Restore, CleanupError
    <3>2. CASE d # c
      BY <2>6, <3>2 DEF Restore, CleanupError
    <3> QED BY <3>1, <3>2
  <2>7. CASE Release(c, s)
    BY <2>7 DEF Release, CleanupError
  <2> QED BY <1>2, <2>1, <2>2, <2>3, <2>4, <2>5, <2>6, <2>7 DEF Statement
<1>3. ASSUME NEW c \in Clients, Leave(c) \/ Fail(c)
      PROVE  SettingKept'
  BY <1>3 DEF Leave, Fail
<1>4. ASSUME NEW c \in Clients, Disconnect(c)
      PROVE  SettingKept'
  BY <1>4 DEF Disconnect
<1> QED
  BY <1>1, <1>2, <1>3, <1>4 DEF ServerNext

\* On direct connections a command that changed the lock wait setting leaves
\* the session with the setting it found, or reports that it did not.
THEOREM SettingGivenBack ==
  ASSUME ~Pooled
  PROVE  ServerSpec => SettingRestored
<1> DEFINE Ended(c) == pc[c] = "release" /\ pc'[c] = "idle" /\ previous[c] =>
                         \/ code'[c] \in {"lost", "cleanup", "aggregate"}
                         \/ setting'[Home[c]] = saved[c]
<1>1. ServerInit => SettingKept
  BY DEF ServerInit, SettingKept
<1>2. ServerTypeOK /\ SettingKept /\ [ServerNext]_serverVars => SettingKept'
  BY NextSetting
<1>3. ASSUME ServerTypeOK, SettingKept, [ServerNext]_serverVars
      PROVE  [\A c \in Clients : Ended(c)]_serverVars
  <2> SUFFICES ASSUME ServerNext, NEW c \in Clients, pc[c] = "release", pc'[c] = "idle", previous[c]
               PROVE  \/ code'[c] \in {"lost", "cleanup", "aggregate"}
                      \/ setting'[Home[c]] = saved[c]
    BY <1>3
  <2> USE HomeAssumption, <1>3 DEF ServerTypeOK, SettingKept, Goto, Report
  <2>1. ASSUME NEW d \in Clients, NEW s \in Route(d), Statement(d, s)
        PROVE  d = c /\ Release(c, s)
    <3>1. d = c
      BY <2>1 DEF Statement, Open, Lock, ReadSetting, SetSetting, Check, Exec, Mark, Restore, Release
    <3> QED BY <2>1, <3>1 DEF Statement, Open, Lock, ReadSetting, SetSetting, Check, Exec, Mark, Restore
  <2>2. ASSUME NEW s \in Route(c), Release(c, s)
        PROVE  setting'[Home[c]] = saved[c] \/ code'[c] \in {"cleanup", "aggregate"}
    BY <2>2 DEF Release, CleanupError
  <2>3. ASSUME NEW d \in Clients, Leave(d) \/ Fail(d)
        PROVE  FALSE
    BY <2>3 DEF Leave, Fail
  <2>4. ASSUME NEW d \in Clients, Disconnect(d)
        PROVE  code'[c] = "lost"
    BY <2>4 DEF Disconnect
  <2> QED BY <2>1, <2>2, <2>3, <2>4 DEF ServerNext
<1>4. ServerTypeOK /\ HolderBehind /\ [ServerNext]_serverVars => (ServerTypeOK /\ HolderBehind)'
  BY ServerTypes, NextHolder
<1> QED
  BY <1>1, <1>2, <1>3, <1>4, InitHolder, PTL DEF ServerSpec, SettingRestored

\* On direct connections finish() gives back both: a command that ended holds no
\* lock, and the lock wait setting is the one it found or is reported.
THEOREM GivesAllBack ==
  ASSUME ~Pooled
  PROVE  ServerSpec => CommandGivesBack
BY Released, SettingGivenBack, PTL DEF CommandGivesBack

-----------------------------------------------------------------------------
(* Proofs, for every set of connections and of callers' pragmas.           *)

Good(c) == code[c] \notin {"cleanup", "aggregate"}

\* What finish() has set back when the ends before k[c] have run without error.
Restored(c) ==
  /\ k[c] > 2 => pragma[c].foreign_keys = saved[c].foreign_keys
  /\ k[c] > 3 => pragma[c].legacy_alter_table = saved[c].legacy_alter_table
  /\ k[c] > 4 => pragma[c].locking_mode = saved[c].locking_mode
  /\ k[c] > 5 /\ saved[c].locking_mode = "normal" => owner # c
  /\ k[c] > 6 => pragma[c].busy_timeout = saved[c].busy_timeout

\* The inductive invariant.  The holder of the file is the only connection that
\* can use it, so a read of the holder after the locking mode is back always lets
\* the lock go: without this the read could fail with a lock result and the file
\* stay locked.
Held ==
  /\ owner # NoOwner => using \subseteq {owner}
  /\ \A c \in Connections :
       /\ pc[c] # "idle" => c \notin using
       /\ pc[c] \in {"off", "work"} => owner = c
       /\ pc[c] = "work" => pragma[c].foreign_keys = 0
       /\ pc[c] # "ends" => k[c] = 1
       /\ pc[c] = "ends" /\ Good(c) => Restored(c)

\* The order of the ends of finish().
LEMMA EndsAre ==
  /\ Len(Ends) = 6
  /\ Ends[1] = "nowait" /\ Ends[2] = "foreign_keys" /\ Ends[3] = "legacy_alter_table"
  /\ Ends[4] = "locking_mode" /\ Ends[5] = "read" /\ Ends[6] = "busy_timeout"
BY DEF Ends

\* No command runs, nobody holds the file.
LEMMA InitHeld == FileInit => FileTypeOK /\ Held
BY FoundAssumption, EndsAre DEF FileInit, FileTypeOK, Held, Good, Restored

\* Setting one pragma of one connection keeps the types.
LEMMA PragmaSet ==
  ASSUME NEW p \in Pragmas
  PROVE  /\ \A v \in {0, 1} : [p EXCEPT !.foreign_keys = v] \in Pragmas
         /\ \A v \in {0, 1} : [p EXCEPT !.legacy_alter_table = v] \in Pragmas
         /\ \A v \in Nat : [p EXCEPT !.busy_timeout = v] \in Pragmas
         /\ \A v \in {"normal", "exclusive"} : [p EXCEPT !.locking_mode = v] \in Pragmas
BY DEF Pragmas

\* Pragmas that agree in every field are the same.
LEMMA SamePragmas ==
  ASSUME NEW p \in Pragmas, NEW q \in Pragmas,
         p.foreign_keys = q.foreign_keys, p.legacy_alter_table = q.legacy_alter_table,
         p.locking_mode = q.locking_mode, p.busy_timeout = q.busy_timeout
  PROVE  p = q
BY DEF Pragmas

\* One end of finish() that does not fail sets back the pragma that is its turn,
\* and the read lets the lock go once the locking mode is normal.
LEMMA EndEffect ==
  ASSUME FileTypeOK, NEW c \in Connections, End(c)
  PROVE  /\ k[c] \in 1..6 /\ k' = [k EXCEPT ![c] = k[c] + 1]
         /\ UNCHANGED <<saved, using, pc, locked>>
         /\ \/ CleanupError(c) /\ UNCHANGED <<pragma, owner>>
            \/ /\ k[c] = 1 /\ pragma' \in {pragma, [pragma EXCEPT ![c].busy_timeout = 0]}
               /\ UNCHANGED <<owner, code>>
            \/ /\ k[c] = 2 /\ pragma' = [pragma EXCEPT ![c].foreign_keys = saved[c].foreign_keys]
               /\ UNCHANGED <<owner, code>>
            \/ /\ k[c] = 3 /\ pragma' = [pragma EXCEPT ![c].legacy_alter_table = saved[c].legacy_alter_table]
               /\ UNCHANGED <<owner, code>>
            \/ /\ k[c] = 4 /\ pragma' = [pragma EXCEPT ![c].locking_mode = saved[c].locking_mode]
               /\ UNCHANGED <<owner, code>>
            \/ k[c] = 5 /\ ReleaseRead(c)
            \/ /\ k[c] = 6 /\ pragma' = [pragma EXCEPT ![c].busy_timeout = saved[c].busy_timeout]
               /\ UNCHANGED <<owner, code>>
<1>1. k[c] \in 1..6 /\ k' = [k EXCEPT ![c] = k[c] + 1] /\ UNCHANGED <<saved, using, pc, locked>>
  BY EndsAre DEF End, FileTypeOK
<1> USE EndsAre DEF End
<1>2. CASE k[c] = 1
  BY <1>1, <1>2
<1>3. CASE k[c] = 2
  BY <1>1, <1>3 DEF Reset
<1>4. CASE k[c] = 3
  BY <1>1, <1>4 DEF Reset
<1>5. CASE k[c] = 4
  BY <1>1, <1>5 DEF Reset
<1>6. CASE k[c] = 5
  BY <1>1, <1>6
<1>7. CASE k[c] = 6
  BY <1>1, <1>7 DEF Reset
<1>8. \/ k[c] = 1 \/ k[c] = 2 \/ k[c] = 3 \/ k[c] = 4 \/ k[c] = 5 \/ k[c] = 6
  BY <1>1
<1> QED
  BY <1>2, <1>3, <1>4, <1>5, <1>6, <1>7, <1>8

\* Every step keeps the types.
LEMMA FileTypes == FileTypeOK /\ [FileNext]_fileVars => FileTypeOK'
<1> SUFFICES ASSUME FileTypeOK, [FileNext]_fileVars PROVE FileTypeOK'
  OBVIOUS
<1> USE FoundAssumption, EndsAre DEF FileTypeOK, Goto, Report
<1>1. ASSUME NEW c \in Connections, OpenFile(c) PROVE FileTypeOK'
  <2>1. [pragma[c] EXCEPT !.busy_timeout = LockWait, !.locking_mode = "exclusive"] \in Pragmas
    <3> DEFINE q == [pragma[c] EXCEPT !.busy_timeout = LockWait]
    <3>1. LockWait \in Nat /\ pragma[c] \in Pragmas
      BY DEF LockWait
    <3>3. q \in Pragmas
      BY <3>1, PragmaSet
    <3>2. [q EXCEPT !.locking_mode = "exclusive"] \in Pragmas
      BY <3>3, PragmaSet
    <3> QED
      BY <3>2
  <2> QED
    BY <1>1, <2>1 DEF OpenFile
<1>2. ASSUME NEW c \in Connections, Begin(c) PROVE FileTypeOK'
  BY <1>2 DEF Begin
<1>3. ASSUME NEW c \in Connections, Off(c) PROVE FileTypeOK'
  <2>1. [pragma[c] EXCEPT !.foreign_keys = 0, !.legacy_alter_table = 0] \in Pragmas
    <3> DEFINE q == [pragma[c] EXCEPT !.foreign_keys = 0]
    <3>1. q \in Pragmas
      BY PragmaSet
    <3>2. [q EXCEPT !.legacy_alter_table = 0] \in Pragmas
      BY <3>1, PragmaSet
    <3> QED
      BY <3>2
  <2> QED
    BY <1>3, <2>1 DEF Off
<1>4. ASSUME NEW c \in Connections, LeaveFile(c) PROVE FileTypeOK'
  BY <1>4 DEF LeaveFile
<1>5. ASSUME NEW c \in Connections, End(c) PROVE FileTypeOK'
  <2> USE <1>5
  <2>1. k' \in [Connections -> 1 .. Len(Ends) + 1]
    BY EndEffect
  <2>2. pragma' \in [Connections -> Pragmas]
    <3>1. /\ [pragma[c] EXCEPT !.busy_timeout = 0] \in Pragmas
          /\ [pragma[c] EXCEPT !.foreign_keys = saved[c].foreign_keys] \in Pragmas
          /\ [pragma[c] EXCEPT !.legacy_alter_table = saved[c].legacy_alter_table] \in Pragmas
          /\ [pragma[c] EXCEPT !.locking_mode = saved[c].locking_mode] \in Pragmas
          /\ [pragma[c] EXCEPT !.busy_timeout = saved[c].busy_timeout] \in Pragmas
      BY DEF Pragmas
    <3> QED
      BY <3>1, EndEffect DEF ReleaseRead
  <2>3. owner' \in Connections \cup {NoOwner} /\ code' \in [Connections -> {"ok", "locked", "failed", "cleanup", "aggregate"}]
    BY EndEffect DEF ReleaseRead, CleanupError
  <2> QED
    BY <2>1, <2>2, <2>3, EndEffect
<1>6. ASSUME NEW c \in Connections, Finish(c) PROVE FileTypeOK'
  BY <1>6 DEF Finish, Forget
<1>7. ASSUME NEW c \in Connections, CloseFile(c) PROVE FileTypeOK'
  BY <1>7 DEF CloseFile, Forget
<1>8. ASSUME NEW c \in Connections, Use(c) \/ EndUse(c) PROVE FileTypeOK'
  BY <1>8 DEF Use, EndUse
<1>9. CASE UNCHANGED fileVars
  BY <1>9 DEF fileVars, fileOnly
<1> QED
  BY <1>1, <1>2, <1>3, <1>4, <1>5, <1>6, <1>7, <1>8, <1>9 DEF FileNext

\* Every step preserves Held: only a command that finds the file free takes it, its
\* holder keeps it until its own read or the end of its connection, and a step of
\* one connection leaves what another has restored.
LEMMA NextHeld == FileTypeOK /\ Held /\ [FileNext]_fileVars => Held'
<1> SUFFICES ASSUME FileTypeOK, Held, [FileNext]_fileVars PROVE Held'
  OBVIOUS
<1> USE OwnerAssumption DEF FileTypeOK, Held, Goto, Report
<1>1. ASSUME NEW c \in Connections, OpenFile(c) PROVE Held'
  BY <1>1 DEF OpenFile, Good, Restored
<1>2. ASSUME NEW c \in Connections, Begin(c) PROVE Held'
  <2>1. CASE Free(c)
    BY <1>2, <2>1 DEF Begin, Free, Good, Restored
  <2>2. CASE ~Free(c)
    BY <1>2, <2>2 DEF Begin, Good, Restored
  <2> QED
    BY <2>1, <2>2
<1>3. ASSUME NEW c \in Connections, Off(c) PROVE Held'
  BY <1>3 DEF Off, Good, Restored, Pragmas
<1>4. ASSUME NEW c \in Connections, LeaveFile(c) PROVE Held'
  BY <1>4 DEF LeaveFile, Good, Restored
<1>5. ASSUME NEW c \in Connections, End(c) PROVE Held'
  <2> USE <1>5
  <2>e. /\ k[c] \in 1..6 /\ k' = [k EXCEPT ![c] = k[c] + 1] /\ pc[c] = "ends"
        /\ UNCHANGED <<saved, using, pc, locked>>
    BY EndEffect DEF End
  <2>1. CASE CleanupError(c) /\ UNCHANGED <<pragma, owner>>
    BY <2>e, <2>1 DEF CleanupError, Good, Restored
  <2>2. CASE k[c] = 1 /\ pragma' \in {pragma, [pragma EXCEPT ![c].busy_timeout = 0]} /\ UNCHANGED <<owner, code>>
    BY <2>e, <2>2 DEF Good, Restored
  <2>3. CASE k[c] = 2 /\ pragma' = [pragma EXCEPT ![c].foreign_keys = saved[c].foreign_keys] /\ UNCHANGED <<owner, code>>
    BY <2>e, <2>3 DEF Good, Restored, Pragmas
  <2>4. CASE k[c] = 3 /\ pragma' = [pragma EXCEPT ![c].legacy_alter_table = saved[c].legacy_alter_table] /\ UNCHANGED <<owner, code>>
    BY <2>e, <2>4 DEF Good, Restored, Pragmas
  <2>5. CASE k[c] = 4 /\ pragma' = [pragma EXCEPT ![c].locking_mode = saved[c].locking_mode] /\ UNCHANGED <<owner, code>>
    BY <2>e, <2>5 DEF Good, Restored, Pragmas
  <2>6. CASE k[c] = 5 /\ ReleaseRead(c)
    BY <2>e, <2>6 DEF ReleaseRead, Free, CleanupError, Good, Restored
  <2>7. CASE k[c] = 6 /\ pragma' = [pragma EXCEPT ![c].busy_timeout = saved[c].busy_timeout] /\ UNCHANGED <<owner, code>>
    <3>1. /\ pragma'[c].busy_timeout = saved[c].busy_timeout
          /\ pragma'[c].foreign_keys = pragma[c].foreign_keys
          /\ pragma'[c].legacy_alter_table = pragma[c].legacy_alter_table
          /\ pragma'[c].locking_mode = pragma[c].locking_mode
          /\ \A d \in Connections \ {c} : pragma'[d] = pragma[d]
      BY <2>e, <2>7 DEF Pragmas
    <3>2. k'[c] = 7 /\ \A d \in Connections \ {c} : k'[d] = k[d]
      BY <2>e, <2>7
    <3> QED
      BY <2>e, <2>7, <3>1, <3>2 DEF Good, Restored
  <2> QED
    BY <2>1, <2>2, <2>3, <2>4, <2>5, <2>6, <2>7, EndEffect
<1>6. ASSUME NEW c \in Connections, Finish(c) PROVE Held'
  BY <1>6 DEF Finish, Forget, Good, Restored
<1>7. ASSUME NEW c \in Connections, CloseFile(c) PROVE Held'
  BY <1>7 DEF CloseFile, Forget, Good, Restored
<1>8. ASSUME NEW c \in Connections, Use(c) \/ EndUse(c) PROVE Held'
  BY <1>8 DEF Use, EndUse, Good, Restored
<1>9. CASE UNCHANGED fileVars
  BY <1>9 DEF fileVars, fileOnly, Good, Restored
<1> QED
  BY <1>1, <1>2, <1>3, <1>4, <1>5, <1>6, <1>7, <1>8, <1>9 DEF FileNext

\* The types and Held hold throughout.
THEOREM FileKept == FileSpec => [](FileTypeOK /\ Held)
BY InitHeld, FileTypes, NextHeld, PTL DEF FileSpec

\* While a command of sqliteSession() runs its steps it is alone with the file, for
\* any number of connections and whatever their pragmas are.
THEOREM AloneWithTheFile == FileSpec => []Alone
<1>1. FileTypeOK /\ Held => Alone
  BY OwnerAssumption DEF FileTypeOK, Held, Alone
<1> QED
  BY <1>1, FileKept, PTL

\* A command without cleanup errors gives the caller's pragmas back, and the file
\* where the caller's locking mode was normal.
THEOREM FileGivenBack == FileSpec => GivesBack
<1>1. ASSUME FileTypeOK, Held, NEW c \in Connections, Finish(c), Good(c)
      PROVE  pragma[c] = saved[c] /\ (saved[c].locking_mode = "normal" => owner # c)
  <2>1. k[c] > 6 /\ Restored(c)
    BY <1>1, EndsAre DEF Finish, Held, FileTypeOK
  <2>2. pragma[c] \in Pragmas /\ saved[c] \in Pragmas
    BY <1>1 DEF FileTypeOK
  <2>3. /\ pragma[c].foreign_keys = saved[c].foreign_keys
        /\ pragma[c].legacy_alter_table = saved[c].legacy_alter_table
        /\ pragma[c].locking_mode = saved[c].locking_mode
        /\ pragma[c].busy_timeout = saved[c].busy_timeout
    BY <2>1, <1>1 DEF Restored, FileTypeOK
  <2>4. pragma[c] = saved[c]
    BY <2>2, <2>3, SamePragmas
  <2> QED
    BY <1>1, <2>1, <2>4 DEF Restored, FileTypeOK
<1>2. FileTypeOK /\ Held => PragmasRestoredStep /\ FileReleasedStep
  BY <1>1 DEF PragmasRestoredStep, FileReleasedStep, Good
<1> QED
  BY <1>2, FileKept, PTL DEF GivesBack, PragmasRestored, FileReleased
=============================================================================
