----------------------------- MODULE RowWrites -----------------------------
(***************************************************************************)
(* The writes of one row through several model objects: create(),          *)
(* update(), save(), delete(), restore() and restoreOrCreate() of model.ts *)
(* with the statements that insertStep(), updateStep(), deleteStep() and   *)
(* restoreStep() of planner.ts make of them.  The table has a soft delete  *)
(* column, an integer column for expectRevision(), an update time, one     *)
(* plain column, two AES columns and the key version of the row.  Each     *)
(* statement is one step; other clients run between the statements of one  *)
(* call.                                                                   *)
(***************************************************************************)
EXTENDS Integers, FiniteSets

CONSTANTS
  Handles,      \* the model objects, of several clients
  Version,      \* the AES key version that the client of each object writes with
  MaxWrites,    \* bound on the set<Col>() calls, each with a new value, and on revisions
  MaxClock,     \* bound on the clock
  Disciplines   \* how the application writes: "plain", "revision" or "optimistic"

Aes == {"a", "b"}
Cols == Aes \cup {"n"}
Unset == 0
NoTime == -1

VARIABLES
  discipline,
  row,       \* the stored row; its state is "none", "live" or "deleted"
  handle,    \* the row as each object holds it, its set values and its expected revision
  pc,        \* where the call of the object is
  clock,     \* the statement clock, cut to the precision of the update time
  count,     \* the set<Col>() calls
  shared     \* two updates of the row have had the same update time

vars == <<discipline, row, handle, pc, clock, count, shared>>

Empty == [c \in Cols |-> Unset]
NoRow == [state |-> "none", val |-> Empty, key |-> [c \in Aes |-> 0], ver |-> 0, rev |-> 0, upd |-> 0, stamp |-> 0]
\* names: the columns of the row state; seen: the last update when the row was read.
NewHandle == [loaded |-> FALSE, names |-> {}, val |-> Empty, sets |-> Empty, expect |-> -1, rev |-> 0, upd |-> NoTime, seen |-> 0]

Init ==
  /\ discipline \in Disciplines
  /\ row \in {NoRow, [NoRow EXCEPT !.state = "live", !.ver = 1, !.key = [c \in Aes |-> 1], !.rev = 1]}
  /\ handle = [h \in Handles |-> NewHandle]
  /\ pc = [h \in Handles |-> "idle"]
  /\ clock = 1 /\ count = 0 /\ shared = FALSE

\* The newest value that the object has set, which names its update.
LastSet(h) ==
  LET s == {handle[h].sets[c] : c \in Cols} IN
  IF s = {Unset} THEN row.stamp ELSE CHOOSE n \in s : \A m \in s : m <= n

Idle(h) == pc[h] = "idle"
Dirty(h) == {c \in Cols : handle[h].sets[c] # Unset}
Exists == row.state # "none"

\* get() by the primary key, with all columns or with some of them.
Load(h, names) ==
  /\ Idle(h) /\ row.state = "live"
  /\ handle' = [handle EXCEPT ![h] =
       [loaded |-> TRUE, names |-> names, val |-> [c \in Cols |-> IF c \in names THEN row.val[c] ELSE Unset],
        sets |-> Empty, expect |-> -1, rev |-> row.rev, upd |-> row.upd, seen |-> row.stamp]]
  /\ UNCHANGED <<discipline, row, pc, clock, count, shared>>

\* set<Col>() with a value that no write had before.
SetValue(h, c) ==
  /\ Idle(h) /\ count < MaxWrites
  /\ count' = count + 1
  /\ handle' = [handle EXCEPT ![h].sets[c] = count', ![h].val[c] = count']
  /\ UNCHANGED <<discipline, row, pc, clock, shared>>

\* expectRevision() with the revision that was read.
ExpectRevision(h) ==
  /\ discipline = "revision"
  /\ Idle(h) /\ handle[h].loaded /\ handle[h].expect = -1
  /\ handle' = [handle EXCEPT ![h].expect = handle[h].rev]
  /\ UNCHANGED <<discipline, row, pc, clock, count, shared>>

\* Time passes.
Tick ==
  /\ clock < MaxClock
  /\ clock' = clock + 1
  /\ UNCHANGED <<discipline, row, handle, pc, count, shared>>

-----------------------------------------------------------------------------
(* update()                                                                *)

\* A faulty withAesColumns() that sends the set columns only.
SentDirty(h) == [c \in Dirty(h) |-> handle[h].sets[c]]

\* withAesColumns(): an AES column that changes takes the other AES columns of the
\* object with it, since one key version describes the row.
Sent(h) ==
  [c \in Dirty(h) \cup (IF Dirty(h) \cap Aes = {} THEN {} ELSE Aes) |-> handle[h].val[c]]

\* The row that holds the sent values, under the client's key version.
Assigned(h, sent) ==
  LET aes == DOMAIN sent \cap Aes IN
  [row EXCEPT !.val = [c \in Cols |-> IF c \in DOMAIN sent THEN sent[c] ELSE @[c]],
              !.key = [c \in Aes |-> IF c \in aes THEN Version[h] ELSE @[c]],
              !.ver = IF aes = {} THEN @ ELSE Version[h]]

\* A faulty updateStep() that forgets the soft delete column.
MatchesDeleted(h, optimistic) ==
  /\ Exists
  /\ handle[h].expect # -1 => row.rev = handle[h].expect
  /\ optimistic => row.upd = handle[h].upd

\* The WHERE of updateStep() and of the soft delete: the key, the soft delete
\* column, the expected revision and the update time that was read.
Matches(h, optimistic) ==
  /\ row.state = "live"
  /\ handle[h].expect # -1 => row.rev = handle[h].expect
  /\ optimistic => row.upd = handle[h].upd

\* A faulty revisionGuard() that does not increment the column.
BumpedKeeping(h) == row.rev

\* revisionGuard(): the update adds one to the expected revision.
Bumped(h) == IF handle[h].expect # -1 THEN row.rev + 1 ELSE row.rev

\* update(), and update(true) under the optimistic discipline.
Update(h) ==
  LET optimistic == discipline = "optimistic"
      sent == Sent(h)
      matched == Matches(h, optimistic) IN
  /\ Idle(h) /\ handle[h].loaded
  /\ Dirty(h) # {} \/ (handle[h].expect # -1 /\ row.rev < MaxWrites)
  /\ discipline = "revision" => handle[h].expect # -1
  /\ DOMAIN sent \subseteq handle[h].names \cup Dirty(h)
  /\ optimistic => handle[h].upd # NoTime
  /\ row' = IF matched THEN [Assigned(h, sent) EXCEPT !.rev = Bumped(h), !.upd = clock, !.stamp = LastSet(h)] ELSE row
  /\ shared' = (shared \/ (matched /\ row.upd = clock))
  \* OPTIMISTIC_LOCK and REVISION_CHANGED leave the object as it is.
  /\ handle' = IF ~matched /\ (optimistic \/ handle[h].expect # -1) THEN handle
               ELSE [handle EXCEPT ![h].sets = Empty, ![h].expect = -1, ![h].upd = NoTime]
  /\ UNCHANGED <<discipline, pc, clock, count>>

\* delete(), a soft delete.
Delete(h) ==
  LET matched == Matches(h, FALSE) IN
  /\ Idle(h) /\ handle[h].loaded
  /\ discipline = "revision" => handle[h].expect # -1
  /\ row' = IF matched THEN [row EXCEPT !.state = "deleted"] ELSE row
  /\ handle' = IF matched THEN [handle EXCEPT ![h].expect = -1] ELSE handle
  /\ UNCHANGED <<discipline, pc, clock, count, shared>>

-----------------------------------------------------------------------------
(* create(), restore() and restoreOrCreate()                               *)

\* The object of a new row: its sets hold the key, and both AES columns or none.
Fresh(h) == ~handle[h].loaded /\ Dirty(h) \cap Aes \in {{}, Aes}

Inserted(h) ==
  [state |-> "live", val |-> handle[h].sets, key |-> [c \in Aes |-> Version[h]], ver |-> Version[h],
   rev |-> 1, upd |-> clock, stamp |-> 0]

\* The object after create(): loaded with what it set.
Created(h) ==
  [handle EXCEPT ![h].loaded = TRUE, ![h].names = Dirty(h), ![h].sets = Empty, ![h].upd = NoTime, ![h].seen = 0]

\* The INSERT: a row with the key, deleted or not, is DUPLICATE_KEY.
Create(h) ==
  /\ ~Exists
  /\ row' = Inserted(h)
  /\ handle' = Created(h)
  /\ shared' = FALSE

\* create(), and save() of an object without its key.
CreateCall(h) ==
  /\ Idle(h) /\ Fresh(h)
  /\ Create(h)
  /\ UNCHANGED <<discipline, pc, clock, count>>

\* create() with duplication(): ON CONFLICT DO UPDATE sets the columns of the
\* duplication model, here the set ones, on the row that holds the key, whether it
\* is deleted or not.
Upsert(h) ==
  /\ Idle(h) /\ Fresh(h) /\ Dirty(h) # {}
  /\ row' = IF Exists THEN Assigned(h, SentDirty(h)) ELSE Inserted(h)
  /\ handle' = Created(h)
  /\ shared' = (Exists /\ shared)
  /\ UNCHANGED <<discipline, pc, clock, count>>

\* The WHERE of restoreStep().
RestoreMatches == row.state = "deleted"

\* The UPDATE of restoreStep(): the new values and the cleared soft delete column.
Restore(h) ==
  LET matched == RestoreMatches IN
  /\ row' = IF matched THEN [Assigned(h, SentDirty(h)) EXCEPT !.state = "live"] ELSE row
  /\ UNCHANGED <<discipline, clock, count, shared, handle>>

\* restore(): the statement, then the read of the row.
RestoreCall(h) ==
  /\ Idle(h) /\ Fresh(h)
  /\ Restore(h)
  /\ pc' = [pc EXCEPT ![h] = "read"]

RestoreRead(h) ==
  /\ pc[h] = "read"
  /\ pc' = [pc EXCEPT ![h] = IF row.state = "live" THEN "idle" ELSE "failed"]
  /\ UNCHANGED <<discipline, row, handle, clock, count, shared>>

\* restoreOrCreate(): the restore, the count of live rows and the create are
\* statements of one transaction; a restored row stays locked to its end.
RestoreOrCreate(h) ==
  /\ Idle(h) /\ Fresh(h)
  /\ Restore(h)
  /\ pc' = [pc EXCEPT ![h] = IF RestoreMatches THEN "idle" ELSE "count"]

CountLive(h) ==
  /\ pc[h] = "count"
  /\ pc' = [pc EXCEPT ![h] = IF row.state = "live" THEN "failed" ELSE "create"]
  /\ UNCHANGED <<discipline, row, handle, clock, count, shared>>

CreateAfterCount(h) ==
  /\ pc[h] = "create"
  /\ \/ /\ Create(h)
              /\ pc' = [pc EXCEPT ![h] = "idle"]
     \/ /\ Exists
        /\ pc' = [pc EXCEPT ![h] = "failed"]
        /\ UNCHANGED <<row, handle, shared>>
  /\ UNCHANGED <<discipline, clock, count>>

\* The error reaches the application, which goes on with a new object.
Caught(h) ==
  /\ pc[h] = "failed"
  /\ pc' = [pc EXCEPT ![h] = "idle"]
  /\ handle' = [handle EXCEPT ![h] = NewHandle]
  /\ UNCHANGED <<discipline, row, clock, count, shared>>

Next ==
  \/ \E h \in Handles :
       \/ \E names \in {Cols, {"n", "a"}} : Load(h, names)
       \/ \E c \in Cols : SetValue(h, c)
       \/ ExpectRevision(h)
       \/ Update(h)
       \/ Delete(h)
       \/ CreateCall(h)
       \/ Upsert(h)
       \/ RestoreCall(h)
       \/ RestoreRead(h)
       \/ RestoreOrCreate(h)
       \/ CountLive(h)
       \/ CreateAfterCount(h)
       \/ Caught(h)
  \/ Tick

Spec == Init /\ [][Next]_vars

-----------------------------------------------------------------------------
(* Properties.                                                             *)

\* Types.
TypeOK ==
  /\ row.state \in {"none", "live", "deleted"}
  /\ row.ver \in {0, 1, 2} /\ row.key \in [Aes -> {0, 1, 2}]
  /\ \A h \in Handles : handle[h].sets \in [Cols -> 0..MaxWrites]
  /\ pc \in [Handles -> {"idle", "read", "count", "create", "failed"}]
  /\ clock \in 1..MaxClock /\ shared \in BOOLEAN

\* The key version of a row is the one that each of its AES columns was written
\* with, whatever clients with different versions write which columns.
KeyVersionDescribesRow == Exists => \A c \in Aes : row.key[c] = row.ver

\* An update with an expected revision, or with the update time that was read, is
\* applied only to the row that its object has read: no update by another object is
\* lost.  For update(true) this needs update times that differ.
NoLostUpdateStep ==
  \A h \in Handles :
    /\ Update(h) /\ row' # row
    /\ discipline = "revision" \/ (discipline = "optimistic" /\ ~shared /\ row.upd # clock)
    => row.stamp = handle[h].seen
NoLostUpdate == [][NoLostUpdateStep]_vars

\* No update and no delete reaches a soft-deleted row, and no restore and no
\* restoreOrCreate() changes a live row: not even when the row is deleted, restored
\* or created between their statements.
DeletedRowsRestStep ==
  row' # row =>
    /\ row.state = "deleted" => \E h \in Handles : RestoreCall(h) \/ RestoreOrCreate(h) \/ Upsert(h)
    /\ row.state = "live" => \E h \in Handles : Update(h) \/ Delete(h) \/ Upsert(h)
DeletedRowsRest == [][DeletedRowsRestStep]_vars
=============================================================================
