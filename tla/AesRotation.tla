---------------------------- MODULE AesRotation ----------------------------
(***************************************************************************)
(* AES key rotation of one table (AesUtils.rotate() of utils.ts and        *)
(* AesKeyring of aes.ts).  One transaction reads the rows that are not at  *)
(* the current version in batches, and updates each row if its stored      *)
(* version is still the one it read.  Other clients of the database write  *)
(* rows meanwhile, each with the AES version of its own configuration.     *)
(***************************************************************************)
EXTENDS Integers, FiniteSets

CONSTANTS
  Rows,         \* the primary keys, a set of integers
  Declared,     \* the versions whose keys the keyring holds
  Current,      \* keyring.currentVersion
  Plaintexts,   \* the values of the AES column
  Batch,        \* the LIMIT of the SELECT
  Drivers,      \* the drivers to check
  MaxWrites     \* bound on the writes of other clients

Null == "null"
Versions == Declared \cup {0}   \* 0 stands for a version that the keyring does not hold

\* A stored row: its version column, the version of the key that its AES value is
\* encrypted with, and the plaintext of the value.
Stored == [version : Versions, key : Versions, text : Plaintexts \cup {Null}]
NoRows == [r \in {} |-> Null]
IsReadable(s) == s.text # Null => s.key = s.version

VARIABLES
  driver,
  rows,      \* the committed rows
  view,      \* the rows as the transaction of the rotation sees them
  locked,    \* the rows that the transaction has updated
  batch,     \* the rows of the last SELECT that are still to be rotated, as it read them
  pc, rotated,
  written,   \* the rows that other clients wrote since the rotation began
  writes

vars == <<driver, rows, view, locked, batch, pc, rotated, written, writes>>

\* Each row is readable: its value is encrypted with the key of its version.
Init ==
  /\ driver \in Drivers
  /\ rows \in [Rows -> {s \in Stored : s.key = s.version}]
  /\ view = rows /\ locked = {} /\ batch = NoRows
  /\ pc = "idle" /\ rotated = 0 /\ written = {} /\ writes = 0

\* MySQL reads from the snapshot of the first SELECT of the transaction.
Snapshot == pc = "rotate" \/ (pc = "select" /\ rotated > 0)

\* Another client writes a row with the key and the version of its configuration.
\* SQLite has one writer at a time; the other servers lock the rows that the
\* rotation has updated.  A statement of the rotation sees the write when the
\* isolation level of the driver reads what is committed.
Write(r, v, t) ==
  /\ writes < MaxWrites
  /\ r \notin locked
  /\ driver = "sqlite" => pc = "idle"
  /\ LET s == [version |-> v, key |-> v, text |-> t] IN
     /\ rows' = [rows EXCEPT ![r] = s]
     /\ view' = IF driver = "mysql" /\ Snapshot THEN view ELSE [view EXCEPT ![r] = s]
  /\ written' = IF pc = "idle" THEN written ELSE written \cup {r}
  /\ writes' = writes + 1
  /\ UNCHANGED <<driver, locked, batch, pc, rotated>>

Begin ==
  /\ pc = "idle"
  /\ pc' = "select" /\ view' = rows /\ rotated' = 0 /\ written' = {}
  /\ UNCHANGED <<driver, rows, locked, batch, writes>>

Leave(result) ==
  /\ pc' = "idle" /\ rows' = result /\ view' = result /\ locked' = {} /\ batch' = NoRows
  /\ UNCHANGED <<driver, rotated, written, writes>>

Pending == {r \in Rows : view[r].version # Current}

\* The rows that the SELECT returns: ORDER BY the primary key, LIMIT Batch.
FirstPending == {r \in Pending : Cardinality({q \in Pending : q < r}) < Batch}

\* A faulty rotation that reads one batch.
SelectOnce ==
  /\ pc = "select"
  /\ \/ /\ (Pending = {} \/ rotated > 0)
        /\ Leave([r \in Rows |-> IF r \in locked THEN view[r] ELSE rows[r]])
     \/ /\ Pending # {} /\ rotated = 0
        /\ batch' = [r \in FirstPending |-> view[r]]
        /\ pc' = "rotate"
        /\ UNCHANGED <<driver, rows, view, locked, rotated, written, writes>>

\* The next batch in the order of the primary key; without one the transaction commits.
Select ==
  /\ pc = "select"
  /\ \/ /\ Pending = {}
        /\ Leave([r \in Rows |-> IF r \in locked THEN view[r] ELSE rows[r]])
     \/ /\ Pending # {}
        /\ batch' = [r \in FirstPending |-> view[r]]
        /\ pc' = "rotate"
        /\ UNCHANGED <<driver, rows, view, locked, rotated, written, writes>>

\* AesKeyring.key() and storedVersion() refuse the row.
Refused(s) == s.text # Null /\ s.version \notin Declared

\* A faulty rotateRow() that changes the version and not the value.
RotateRowVersion(s) ==
  [s EXCEPT !.version = Current]

\* AesKeyring.rotateRow(), and the version that the UPDATE always sets: NULL stays
\* NULL and its version is not read.
RotateRow(s) ==
  [s EXCEPT !.version = Current, !.key = Current]

\* The UPDATE of row r changes it as it was read; the loop goes on with the next
\* row of the batch, and after the last one with the next SELECT.
Rotate(r) ==
  /\ view' = [view EXCEPT ![r] = RotateRow(batch[r])]
  /\ locked' = locked \cup {r}
  /\ batch' = [q \in DOMAIN batch \ {r} |-> batch[q]]
  /\ pc' = IF DOMAIN batch = {r} THEN "select" ELSE "rotate"
  /\ rotated' = rotated + 1
  /\ UNCHANGED <<driver, rows, written, writes>>

IsFirst(r) == \A q \in DOMAIN batch : r <= q

\* A faulty UPDATE that does not compare the stored version.
UpdateAny ==
  /\ pc = "rotate"
  /\ \E r \in DOMAIN batch : IsFirst(r) /\ IF Refused(batch[r]) THEN Leave(rows) ELSE Rotate(r)

\* The next row of the batch.  The UPDATE reads the committed row, and changes no
\* row when another client changed its version; that, like a row that cannot be
\* decoded, undoes the transaction.
Update ==
  /\ pc = "rotate"
  /\ \E r \in DOMAIN batch :
       /\ IsFirst(r)
       /\ IF Refused(batch[r]) \/ rows[r].version # batch[r].version
          THEN Leave(rows)
          ELSE Rotate(r)

Next ==
  \/ Begin
  \/ Select
  \/ Update
  \/ \E r \in Rows, v \in Declared, t \in Plaintexts \cup {Null} : Write(r, v, t)

Spec == Init /\ [][Next]_vars

-----------------------------------------------------------------------------
(* Properties.                                                             *)

\* Types; the rows that the rotation holds are rows that it read.
TypeOK ==
  /\ rows \in [Rows -> Stored] /\ view \in [Rows -> Stored]
  /\ locked \subseteq Rows
  /\ pc # "idle" => Cardinality(locked) = rotated
  /\ DOMAIN batch \subseteq Rows \ locked /\ \A r \in DOMAIN batch : batch[r] \in Stored
  /\ Cardinality(DOMAIN batch) <= Batch
  /\ pc \in {"idle", "select", "rotate"} /\ written \subseteq Rows

\* Every committed value can be read with the key of the version stored beside it,
\* whatever is written while the table is rotated.
Readable == \A r \in Rows : IsReadable(rows[r])

\* A rotation that commits leaves every row at the current version, other than
\* rows that another client wrote meanwhile.
RotatesAllStep ==
  pc = "select" /\ pc' = "idle" => \A r \in Rows \ written : rows'[r].version = Current
RotatesAll == [][RotatesAllStep]_vars

\* A rotation does not overwrite what another client wrote under another version
\* since the rotation read the row.
NewVersionKeptStep ==
  pc # "idle" /\ pc' = "idle" =>
    \A r \in written : rows[r].version = Current => rows'[r] = rows[r]
NewVersionKept == [][NewVersionKeptStep]_vars

\* What the properties rest on, preserved by every step: a row that the rotation
\* has updated is at the current version in its transaction and at another one in
\* the table, and it sees every row that no other client wrote as it is.
RotationInv ==
  /\ TypeOK /\ Readable
  /\ \A r \in locked : view[r].version = Current /\ view[r].key = Current /\ rows[r].version # Current
  /\ \A r \in Rows \ (locked \cup written) : view[r] = rows[r]
  /\ \A r \in DOMAIN batch : batch[r].version # Current
  /\ pc = "idle" => locked = {} /\ view = rows /\ batch = NoRows
=============================================================================
